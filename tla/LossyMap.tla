------------------------------ MODULE LossyMap ------------------------------
(***************************************************************************)
(* What the session store is when several Upserts may be at work at a      *)
(* time: a map from session ids to what is remembered of them, which a     *)
(* restart may set back to any state that it has had since the last one.   *)
(* A copy made early may be the last to be renamed, so that what the file  *)
(* held can be lost again, but never a part of a state.                    *)
(***************************************************************************)
CONSTANTS IDs,        \* session ids
          Values,     \* what may be remembered of a session
          None        \* nothing is remembered

VARIABLES mem,        \* id -> its value, as the daemon has it or will load it
          past        \* the maps that a file which can be loaded may hold

mapVars == <<mem, past>>

Nothing == [i \in IDs |-> None]

Put(i, v) ==
    /\ mem' = [mem EXCEPT ![i] = v]
    /\ past' = past \union {mem'}

\* A file without a byte in it loads as no record at all.
Restart ==
    /\ mem' \in past \union {Nothing}
    /\ past' = {mem'}

Init == mem = Nothing /\ past = {Nothing}

Next == (\E i \in IDs, v \in Values : Put(i, v)) \/ Restart

Spec == Init /\ [][Next]_mapVars
=============================================================================
