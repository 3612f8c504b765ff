----------------------- MODULE SessionStoreProperties -----------------------
(***************************************************************************)
(* What is claimed of SessionStore, for any number of concurrent Upserts   *)
(* and for one at a time.                                                  *)
(***************************************************************************)
EXTENDS SessionStore

Stamps == 0 .. MaxClock
Maps   == [IDs -> Stamps]
Files  == {Missing, Empty, Torn} \union {Whole(m) : m \in Maps}

\* Type invariant.
TypeOK ==
    /\ up \in BOOLEAN
    /\ recs \in Maps /\ clock \in Stamps
    /\ at \in [Writers -> {"idle", "open", "write", "rename"}]
    /\ target \in [Writers -> IDs] /\ snap \in [Writers -> Maps]
    /\ fd \in [Writers -> {"none", "tmp", "main", "orphan"}]
    /\ file \in [{"tmp", "main"} -> Files]
    /\ acked \in Maps

\* m is what the map was at some moment of the past of now: where they
\* differ, now was changed after everything that m knows of.
CutOf(m, now) ==
    \A i, j \in IDs : m[i] <= now[i] /\ (m[i] # now[i] => m[j] < now[i])

\* However the writers interleave, a file that a restart can load is one
\* state the map was really in: never a mixture of two copies, never a record
\* the running daemon does not have.
DiskIsPast ==
    up /\ file["main"].kind = "whole" => CutOf(file["main"].recs, recs)

\* An Upsert at work is always writing a state that the map was in, with the
\* record of its own call in it.
CopyIsPast ==
    \A w \in Inside : CutOf(snap[w], recs) /\ snap[w][target[w]] > 0

\* "persist grava o store de forma atomica": sessions.json is absent or one
\* whole document, at every moment at which a crash may strike.
FileWhole == file["main"].kind \in {"missing", "whole"}

\* A session whose Upsert returned nil is in the file with that time of last
\* use, or a later one, whatever crashes, failed writes and restarts follow.
AckedDurable ==
    \A i \in IDs : acked[i] <= Loaded(file["main"])[i]

\* While there is no daemon its memory is what the next one will load.
Memory == IF up THEN recs ELSE Loaded(file["main"])

Abstract == INSTANCE DurableMap
            WITH Values <- 1 .. MaxClock, None <- 0,
                 mem <- Memory, saved <- Loaded(file["main"])

\* The lock, the copy, the temporary file and the rename together are the
\* durable map: each step of theirs saves everything or nothing.
ImplementsDurableMap == Abstract!Spec
=============================================================================
