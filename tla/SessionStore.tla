---------------------------- MODULE SessionStore ----------------------------
(***************************************************************************)
(* session.Store (internal/session/session.go): the map under its mutex    *)
(* and the file sessions.json that every Upsert rewrites, outside the      *)
(* mutex, through the one name sessions.json.tmp.  The system calls of     *)
(* os.WriteFile and os.Rename are steps of their own, so that Upserts of   *)
(* several handlers interleave, and the process may crash between any two. *)
(***************************************************************************)
EXTENDS Naturals, FiniteSets

CONSTANTS
    Writers,          \* handlers that call Upsert
    IDs,              \* session ids
    MaxConcurrency,   \* Upserts at a time: their callers hold a slot (Runs)
    MaxClock          \* changes of the map (bound)

ASSUME StoreAssumption ==
    /\ IDs # {}
    /\ MaxConcurrency \in Nat \ {0}
    /\ MaxClock \in Nat

VARIABLES
    up,       \* the daemon runs
    recs,     \* Store.recs: id -> LastUsed, 0 for an unknown session
    clock,    \* Store.now()
    at,       \* writer -> where it is in Upsert
    target,   \* writer -> the id it was called with
    snap,     \* writer -> the copy made by snapshotLocked
    fd,       \* writer -> the file its descriptor refers to
    file,     \* contents of "tmp" (sessions.json.tmp) and "main"
    acked     \* id -> LastUsed of the latest Upsert that returned nil

memVars  == <<recs, clock>>
callVars == <<at, target, snap>>
vars == <<up, recs, clock, at, target, snap, fd, file, acked>>

Nothing == [i \in IDs |-> 0]

(* What a file holds: no file, no bytes, one whole JSON document, or bytes *)
(* that json.Unmarshal refuses.                                            *)
Missing  == [kind |-> "missing", recs |-> Nothing]
Empty    == [kind |-> "empty",   recs |-> Nothing]
Torn     == [kind |-> "torn",    recs |-> Nothing]
Whole(m) == [kind |-> "whole",   recs |-> m]

Known(m) == {i \in IDs : m[i] > 0}

Init ==
    /\ up = TRUE /\ recs = Nothing /\ clock = 0
    /\ at = [w \in Writers |-> "idle"]
    /\ target = [w \in Writers |-> CHOOSE i \in IDs : TRUE]
    /\ snap = [w \in Writers |-> Nothing]
    /\ fd = [w \in Writers |-> "none"]
    /\ file = [f \in {"tmp", "main"} |-> Missing]
    /\ acked = Nothing

-----------------------------------------------------------------------------
(* Upsert *)

Inside == {w \in Writers : at[w] # "idle"}

\* Mutant of Updated: the clock is read once more for the record.
UpdatedLater(id) == [recs EXCEPT ![id] = clock + 2]

\* The map once the record of id has its new LastUsed.
Updated(id) == [recs EXCEPT ![id] = clock + 1]

\* Mutants of Copied: the copy is made before the record is put in; only the
\* record of the call is copied.
CopiedTooEarly(id) == recs

CopiedOnlyOwn(id) == [Nothing EXCEPT ![id] = clock + 1]

\* snapshotLocked, called after the record was put in.
Copied(id) == Updated(id)

\* The section under mu: the record and the copy of the map.
UpsertLocked(w, id) ==
    /\ up /\ at[w] = "idle"
    /\ Cardinality(Inside) < MaxConcurrency
    /\ clock < MaxClock /\ clock' = clock + 1
    /\ recs' = Updated(id)
    /\ snap' = [snap EXCEPT ![w] = Copied(id)]
    /\ target' = [target EXCEPT ![w] = id]
    /\ at' = [at EXCEPT ![w] = "open"]
    /\ UNCHANGED <<up, fd, file, acked>>

Return(w) == /\ at' = [at EXCEPT ![w] = "idle"]
             /\ fd' = [fd EXCEPT ![w] = "none"]

\* Mutant of OpenTmp: the file itself is rewritten, without a temporary one.
OpenMain(w) ==
    /\ at[w] = "open"
    /\ file' = [file EXCEPT !["main"] = Empty]
    /\ fd' = [fd EXCEPT ![w] = "main"]
    /\ at' = [at EXCEPT ![w] = "write"]
    /\ UNCHANGED <<up, memVars, target, snap, acked>>

\* os.WriteFile opens with O_CREATE and O_TRUNC.
OpenTmp(w) ==
    /\ at[w] = "open"
    /\ file' = [file EXCEPT !["tmp"] = Empty]
    /\ fd' = [fd EXCEPT ![w] = "tmp"]
    /\ at' = [at EXCEPT ![w] = "write"]
    /\ UNCHANGED <<up, memVars, target, snap, acked>>

\* What is in a file that held "old" once m is written from its start: the
\* end of a longer document stays behind it.  Documents with the same ids
\* have nearly the same length.
Overlay(old, m) ==
    CASE old.kind = "empty" -> {Whole(m)}
      [] old.kind = "whole" /\ Known(m) \subseteq Known(old.recs) /\ Known(m) # Known(old.recs)
                            -> {Torn}
      [] old.kind = "whole" /\ Known(old.recs) \subseteq Known(m) /\ Known(m) # Known(old.recs)
                            -> {Whole(m)}
      [] OTHER              -> {Whole(m), Torn}

\* The descriptor may refer, by now, to what was renamed to sessions.json or
\* to a file that has no name any more.
WriteTmp(w) ==
    /\ at[w] = "write"
    /\ \/ fd[w] = "orphan" /\ UNCHANGED file
       \/ /\ fd[w] \in {"tmp", "main"}
          /\ \E new \in Overlay(file[fd[w]], snap[w]) :
                file' = [file EXCEPT ![fd[w]] = new]
    /\ fd' = [fd EXCEPT ![w] = "none"]
    /\ at' = [at EXCEPT ![w] = "rename"]
    /\ UNCHANGED <<up, memVars, target, snap, acked>>

\* Mutant of PersistFails: the error is not returned.
PersistFailsSilently(w) ==
    /\ at[w] \in {"open", "write", "rename"}
    /\ Return(w)
    /\ acked' = [acked EXCEPT ![target[w]] = snap[w][target[w]]]
    /\ UNCHANGED <<up, memVars, target, snap, file>>

\* open, write or rename fails (no space, no permission, I/O error): Upsert
\* returns the error; a write may have written a part.
PersistFails(w) ==
    /\ at[w] \in {"open", "write", "rename"}
    /\ \/ UNCHANGED file
       \/ /\ at[w] = "write" /\ fd[w] \in {"tmp", "main"}
          /\ file' = [file EXCEPT ![fd[w]] = Torn]
    /\ Return(w)
    /\ UNCHANGED <<up, memVars, target, snap, acked>>

Moved(d) == CASE d = "tmp" -> "main" [] d = "main" -> "orphan" [] OTHER -> d

Later(a, b) == IF a > b THEN a ELSE b

\* os.Rename moves whatever bears the temporary name now.
RenameTmp(w) ==
    /\ at[w] = "rename" /\ file["tmp"].kind # "missing"
    /\ file' = [file EXCEPT !["tmp"] = Missing, !["main"] = file["tmp"]]
    /\ at' = [at EXCEPT ![w] = "idle"]
    /\ fd' = [x \in Writers |-> Moved(fd[x])]
    /\ acked' = [acked EXCEPT ![target[w]] = Later(@, snap[w][target[w]])]
    /\ UNCHANGED <<up, memVars, target, snap>>

-----------------------------------------------------------------------------
(* The process *)

Crash ==
    /\ up /\ up' = FALSE
    /\ recs' = Nothing
    /\ at' = [w \in Writers |-> "idle"]
    /\ fd' = [w \in Writers |-> "none"]
    /\ UNCHANGED <<clock, target, snap, file, acked>>

\* Mutant of Loaded: the file is not read.
LoadedNothing(f) == Nothing

\* What Open makes of sessions.json; a document it cannot parse is an error,
\* and main ends.
Loaded(f) == IF f.kind = "whole" THEN f.recs ELSE Nothing

Restart ==
    /\ ~up /\ file["main"].kind # "torn"
    /\ up' = TRUE
    /\ recs' = Loaded(file["main"])
    /\ UNCHANGED <<clock, callVars, fd, file, acked>>

Persist(w) == OpenTmp(w) \/ WriteTmp(w) \/ RenameTmp(w) \/ PersistFails(w)

Next ==
    \/ \E w \in Writers : (\E id \in IDs : UpsertLocked(w, id)) \/ Persist(w)
    \/ Crash \/ Restart

Spec == Init /\ [][Next]_vars
=============================================================================
