----------------------------- MODULE DurableMap -----------------------------
(***************************************************************************)
(* What the session store is meant to be: a map from session ids to what   *)
(* is remembered of them, held in memory and saved as a whole.  The end of *)
(* the daemon loses what was not saved, and nothing else: a restart brings *)
(* back exactly what was saved last.                                       *)
(***************************************************************************)
CONSTANTS IDs,        \* session ids
          Values,     \* what may be remembered of a session
          None        \* nothing is remembered

VARIABLES mem,        \* id -> its value, as the daemon has it or will load it
          saved       \* the same, as it would be found after a restart

mapVars == <<mem, saved>>

Nothing == [i \in IDs |-> None]

\* The whole map may be saved at once, or later, or not at all.
Put(i, v) ==
    /\ mem' = [mem EXCEPT ![i] = v]
    /\ saved' \in {saved, mem'}

Save    == saved' = mem /\ UNCHANGED mem
Restart == mem' = saved /\ UNCHANGED saved

Init == mem = Nothing /\ saved = Nothing

Next == (\E i \in IDs, v \in Values : Put(i, v)) \/ Save \/ Restart

Spec == Init /\ [][Next]_mapVars
=============================================================================
