------------------------- MODULE SessionStoreProofs -------------------------
(***************************************************************************)
(* Proofs about SessionStore: for any number of handlers, ids and changes  *)
(* of the map, what the file can be and what a restart can find; and that  *)
(* with one Upsert at a time the store is the durable map.                 *)
(***************************************************************************)
EXTENDS SessionStorePast, FiniteSetTheorems, TLAPS

-----------------------------------------------------------------------------
(* Types *)

LEMMA NothingType == Nothing \in Maps /\ \A i \in IDs : Nothing[i] = 0
  BY StoreAssumption DEF Nothing, Maps, Stamps

\* Writing a copy of the map over a file gives a file.
LEMMA OverlayType ==
    ASSUME NEW old \in Files, NEW m \in Maps, NEW new \in Overlay(old, m)
    PROVE  new = Whole(m) \/ new = Torn
  BY DEF Overlay

LEMMA FilesType ==
    /\ Missing \in Files /\ Empty \in Files /\ Torn \in Files
    /\ \A m \in Maps : Whole(m) \in Files /\ Whole(m).kind = "whole" /\ Whole(m).recs = m
    /\ \A f \in Files : /\ f.recs \in Maps /\ Loaded(f) \in Maps
                        /\ f.kind \in {"missing", "empty", "torn", "whole"}
                        /\ f.kind = "whole" => f = Whole(f.recs)
  <1>1. Missing \in Files /\ Empty \in Files /\ Torn \in Files
    BY DEF Files
  <1>2. ASSUME NEW m \in Maps
        PROVE  Whole(m) \in Files /\ Whole(m).kind = "whole" /\ Whole(m).recs = m
    BY DEF Files, Whole
  <1>3. ASSUME NEW f \in Files
        PROVE  /\ f.recs \in Maps /\ Loaded(f) \in Maps
               /\ f.kind \in {"missing", "empty", "torn", "whole"}
               /\ f.kind = "whole" => f = Whole(f.recs)
    <2>1. CASE f \in {Missing, Empty, Torn}
      BY <2>1, NothingType DEF Missing, Empty, Torn, Loaded
    <2>2. ASSUME NEW m \in Maps, f = Whole(m)
          PROVE  /\ f.recs \in Maps /\ Loaded(f) \in Maps
                 /\ f.kind \in {"missing", "empty", "torn", "whole"}
                 /\ f.kind = "whole" => f = Whole(f.recs)
      BY <2>2 DEF Whole, Loaded
    <2>. QED
      BY <2>1, <2>2 DEF Files
  <1>. QED
    BY <1>1, <1>2, <1>3

LEMMA TypeStep == TypeOK /\ [Next]_vars => TypeOK'
  <1> SUFFICES ASSUME TypeOK, [Next]_vars PROVE TypeOK'
    OBVIOUS
  <1> USE DEF TypeOK, memVars, callVars
  <1>1. ASSUME NEW w \in Writers, NEW id \in IDs, UpsertLocked(w, id) PROVE TypeOK'
    <2>1. clock + 1 \in Stamps
      BY <1>1, StoreAssumption DEF UpsertLocked, Stamps
    <2>2. Updated(id) \in Maps
      BY <2>1 DEF Updated, Maps
    <2>. QED
      BY <1>1, <2>1, <2>2 DEF UpsertLocked, Copied
  <1>2. ASSUME NEW w \in Writers, OpenTmp(w) PROVE TypeOK'
    BY <1>2, FilesType DEF OpenTmp
  <1>3. ASSUME NEW w \in Writers, WriteTmp(w) PROVE TypeOK'
    <2>1. file' \in [{"tmp", "main"} -> Files]
      <3>1. ASSUME fd[w] \in {"tmp", "main"},
                   NEW new \in Overlay(file[fd[w]], snap[w]),
                   file' = [file EXCEPT ![fd[w]] = new]
            PROVE  file' \in [{"tmp", "main"} -> Files]
        <4>1. new \in Files
          <5>1. file[fd[w]] \in Files /\ snap[w] \in Maps
            BY <3>1
          <5>2. new = Whole(snap[w]) \/ new = Torn
            BY <3>1, <5>1, OverlayType
          <5>. QED
            BY <5>1, <5>2, FilesType
        <4>. QED
          BY <3>1, <4>1
      <3>. QED
        BY <1>3, <3>1 DEF WriteTmp
    <2>. QED
      BY <1>3, <2>1 DEF WriteTmp
  <1>4. ASSUME NEW w \in Writers, RenameTmp(w) PROVE TypeOK'
    <2>1. Later(acked[target[w]], snap[w][target[w]]) \in Stamps
      BY DEF Later, Maps
    <2>2. acked' \in Maps
      BY <1>4, <2>1 DEF RenameTmp, Maps
    <2>3. fd' \in [Writers -> {"none", "tmp", "main", "orphan"}]
      BY <1>4 DEF RenameTmp, Moved
    <2>. QED
      BY <1>4, <2>2, <2>3, FilesType DEF RenameTmp
  <1>5. ASSUME NEW w \in Writers, PersistFails(w) PROVE TypeOK'
    BY <1>5, FilesType DEF PersistFails, Return
  <1>6. CASE Crash
    BY <1>6, NothingType DEF Crash
  <1>7. CASE Restart
    BY <1>7, FilesType DEF Restart
  <1>8. CASE UNCHANGED vars
    BY <1>8 DEF vars
  <1>. QED
    BY <1>1, <1>2, <1>3, <1>4, <1>5, <1>6, <1>7, <1>8 DEF Next, Persist

\* The variables of SessionStore always have the types that TypeOK gives them.
THEOREM TypeCorrect == Spec => []TypeOK
  <1>1. Init => TypeOK
    BY StoreAssumption, NothingType, FilesType DEF Init, TypeOK, Stamps
  <1>. QED
    BY <1>1, TypeStep, PTL DEF Spec
-----------------------------------------------------------------------------
(* The file is a past of the map *)

Both == {"tmp", "main"}

\* A temporary file that some writer of this life of the daemon has opened
\* (one that an earlier life left behind is truncated before it is renamed).
Fresh == \E w \in Writers : at[w] \in {"write", "rename"}

PastInv ==
    /\ \A i \in IDs : recs[i] <= clock
    /\ ~up => \A w \in Writers : at[w] = "idle"
    /\ \A w \in Writers : fd[w] \in Both => at[w] = "write"
    /\ \A w \in Writers : at[w] # "idle" =>
          CutOf(snap[w], recs) /\ snap[w][target[w]] > 0
    /\ \A f \in Both : file[f].kind = "whole" =>
          \A i \in IDs : file[f].recs[i] <= clock
    /\ up /\ file["main"].kind = "whole" => CutOf(file["main"].recs, recs)
    /\ Fresh /\ file["tmp"].kind = "whole" => CutOf(file["tmp"].recs, recs)

\* A past of the map is a past of everything the map becomes.
LEMMA CutGrows ==
    ASSUME NEW m \in Maps, NEW now \in Maps, NEW c \in Nat, NEW id \in IDs,
           CutOf(m, now), \A i \in IDs : now[i] <= c
    PROVE  CutOf(m, [now EXCEPT ![id] = c + 1])
  <1> DEFINE next == [now EXCEPT ![id] = c + 1]
  <1>1. \A i \in IDs : m[i] \in Nat /\ now[i] \in Nat /\ m[i] <= now[i] /\ m[i] <= c
    BY StoreAssumption DEF Maps, Stamps, CutOf
  <1>2. \A i \in IDs : next[i] = IF i = id THEN c + 1 ELSE now[i]
    BY DEF Maps
  <1> HIDE DEF next
  <1>3. ASSUME NEW i \in IDs, NEW j \in IDs
        PROVE  m[i] <= next[i] /\ (m[i] # next[i] => m[j] < next[i])
    <2>1. CASE i = id
      BY <1>1, <1>2, <2>1
    <2>2. CASE i # id
      BY <1>2, <2>2 DEF CutOf
    <2>. QED
      BY <2>1, <2>2
  <1>4. CutOf(m, next)
    BY <1>3 DEF CutOf
  <1>. QED
    BY <1>4 DEF next

LEMMA CutSame == ASSUME NEW m \in Maps PROVE CutOf(m, m)
  BY StoreAssumption DEF CutOf, Maps, Stamps

LEMMA PastStep == TypeOK /\ PastInv /\ [Next]_vars => PastInv'
  <1> SUFFICES ASSUME TypeOK, PastInv, [Next]_vars PROVE PastInv'
    OBVIOUS
  <1>0. /\ clock \in Nat /\ \A i \in IDs : recs[i] \in Nat
        /\ \A m \in Maps : \A i \in IDs : m[i] \in Nat
    BY StoreAssumption DEF TypeOK, Maps, Stamps
  <1> USE DEF memVars, callVars, Both
  <1>1. ASSUME NEW w \in Writers, NEW id \in IDs, UpsertLocked(w, id) PROVE PastInv'
    <2> USE <1>1 DEF UpsertLocked
    <2>1. /\ recs' = [recs EXCEPT ![id] = clock + 1] /\ recs' \in Maps
          /\ clock' = clock + 1
      BY TypeStep DEF Updated, TypeOK
    <2>2. ASSUME NEW m \in Maps, CutOf(m, recs) PROVE CutOf(m, recs')
      <3>1. recs \in Maps /\ \A i \in IDs : recs[i] <= clock
        BY DEF TypeOK, PastInv
      <3>2. CutOf(m, [recs EXCEPT ![id] = clock + 1])
        BY <1>0, <2>2, <3>1, CutGrows
      <3>. QED
        BY <2>1, <3>2
    <2>3. \A i \in IDs : recs'[i] <= clock'
      BY <1>0, <2>1 DEF PastInv, TypeOK, Maps
    <2>4. \A v \in Writers : v # w =>
             at'[v] = at[v] /\ snap'[v] = snap[v] /\ target'[v] = target[v]
      BY DEF TypeOK
    <2>5. /\ at'[w] = "open" /\ at[w] = "idle" /\ snap'[w] = recs' /\ target'[w] = id
          /\ fd' = fd /\ file' = file /\ up' = up /\ up
      BY <2>1 DEF TypeOK, Copied, Updated
    <2>6. CutOf(snap'[w], recs') /\ snap'[w][target'[w]] > 0
      <3>1. CutOf(snap'[w], recs')
        BY <2>1, <2>5, CutSame
      <3>2. recs'[id] = clock + 1
        BY <2>1 DEF TypeOK, Maps
      <3>. QED
        BY <1>0, <2>5, <3>1, <3>2
    <2>7. \A v \in Writers : at'[v] # "idle" =>
             CutOf(snap'[v], recs') /\ snap'[v][target'[v]] > 0
      BY <2>2, <2>4, <2>6 DEF PastInv, TypeOK
    <2>8. \A f \in Both : file[f] \in Files /\ file[f].recs \in Maps
      BY FilesType DEF TypeOK
    <2>9. \A f \in Both : file'[f].kind = "whole" =>
             \A i \in IDs : file'[f].recs[i] <= clock'
      BY <1>0, <2>1, <2>5, <2>8 DEF PastInv
    <2>10. Fresh' => Fresh
      BY <2>4, <2>5 DEF Fresh
    <2>11. /\ ~up' => \A v \in Writers : at'[v] = "idle"
           /\ \A v \in Writers : fd'[v] \in Both => at'[v] = "write"
      BY <2>4, <2>5 DEF PastInv
    <2>12. /\ up' /\ file'["main"].kind = "whole" => CutOf(file'["main"].recs, recs')
           /\ Fresh' /\ file'["tmp"].kind = "whole" => CutOf(file'["tmp"].recs, recs')
      BY <2>2, <2>5, <2>8, <2>10 DEF PastInv
    <2>. QED
      BY <2>3, <2>7, <2>9, <2>11, <2>12 DEF PastInv
  <1>2. ASSUME NEW w \in Writers, OpenTmp(w) PROVE PastInv'
    <2>1. /\ at'[w] = "write" /\ fd'[w] = "tmp" /\ at[w] = "open"
          /\ \A v \in Writers : v # w => at'[v] = at[v] /\ fd'[v] = fd[v]
          /\ file'["tmp"].kind = "empty" /\ file'["main"] = file["main"]
          /\ up' = up /\ recs' = recs /\ clock' = clock /\ target' = target /\ snap' = snap
      BY <1>2 DEF OpenTmp, TypeOK, Empty
    <2>. QED
      BY <2>1 DEF PastInv, Fresh
  <1>3. ASSUME NEW w \in Writers, WriteTmp(w) PROVE PastInv'
    <2>1. /\ at'[w] = "rename" /\ fd'[w] = "none" /\ at[w] = "write"
          /\ \A v \in Writers : v # w => at'[v] = at[v] /\ fd'[v] = fd[v]
          /\ up' = up /\ recs' = recs /\ clock' = clock /\ target' = target /\ snap' = snap
      BY <1>3 DEF WriteTmp, TypeOK
    <2>2. ASSUME NEW f \in Both
          PROVE  file'[f] = file[f] \/ file'[f] = Whole(snap[w]) \/ file'[f] = Torn
      <3>1. ASSUME fd[w] \in Both, NEW new \in Overlay(file[fd[w]], snap[w]),
                   file' = [file EXCEPT ![fd[w]] = new]
            PROVE  file'[f] = file[f] \/ file'[f] = Whole(snap[w]) \/ file'[f] = Torn
        <4>1. new = Whole(snap[w]) \/ new = Torn
          BY <3>1, OverlayType DEF TypeOK
        <4>. QED
          BY <3>1, <4>1 DEF TypeOK
      <3>. QED
        BY <1>3, <3>1 DEF WriteTmp
    <2>3. Whole(snap[w]).recs = snap[w] /\ Torn.kind = "torn"
      BY FilesType DEF TypeOK, Torn
    <2>4. CutOf(snap[w], recs) /\ \A i \in IDs : snap[w][i] <= clock
      <3>1. CutOf(snap[w], recs) /\ snap[w] \in Maps
        BY <2>1 DEF PastInv, TypeOK
      <3>2. \A i \in IDs : snap[w][i] <= recs[i] /\ recs[i] <= clock
        BY <3>1 DEF CutOf, PastInv
      <3>. QED
        BY <1>0, <3>1, <3>2
    <2>5. \A f \in Both : file'[f].kind = "whole" =>
             \A i \in IDs : file'[f].recs[i] <= clock
      BY <2>2, <2>3, <2>4 DEF PastInv
    <2>6. Fresh
      BY <2>1 DEF Fresh
    <2>7. file'["tmp"].kind = "whole" => CutOf(file'["tmp"].recs, recs)
      BY <2>2, <2>3, <2>4, <2>6 DEF PastInv
    <2>8. up /\ file'["main"].kind = "whole" => CutOf(file'["main"].recs, recs)
      BY <2>2, <2>3, <2>4 DEF PastInv
    <2>. QED
      BY <2>1, <2>5, <2>7, <2>8 DEF PastInv
  <1>4. ASSUME NEW w \in Writers, RenameTmp(w) PROVE PastInv'
    <2>1. /\ at'[w] = "idle" /\ at[w] = "rename"
          /\ \A v \in Writers : v # w => at'[v] = at[v]
          /\ up' = up /\ recs' = recs /\ clock' = clock /\ target' = target /\ snap' = snap
          /\ file'["main"] = file["tmp"] /\ file'["tmp"].kind = "missing"
      BY <1>4 DEF RenameTmp, TypeOK, Missing
    <2>2. \A v \in Writers : fd'[v] \in Both => fd[v] = "tmp" /\ v # w
      BY <1>4, <2>1 DEF RenameTmp, Moved, TypeOK, PastInv
    <2>3. \A v \in Writers : fd'[v] \in Both => at'[v] = "write"
      BY <2>1, <2>2 DEF PastInv
    <2>4. Fresh
      BY <2>1 DEF Fresh
    <2>. QED
      BY <2>1, <2>3, <2>4 DEF PastInv
  <1>5. ASSUME NEW w \in Writers, PersistFails(w) PROVE PastInv'
    <2>1. /\ at'[w] = "idle" /\ fd'[w] = "none" /\ at[w] # "idle"
          /\ \A v \in Writers : v # w => at'[v] = at[v] /\ fd'[v] = fd[v]
          /\ up' = up /\ recs' = recs /\ clock' = clock /\ target' = target /\ snap' = snap
      BY <1>5 DEF PersistFails, Return, TypeOK
    <2>2. \A f \in Both : file'[f] = file[f] \/ file'[f].kind = "torn"
      BY <1>5 DEF PersistFails, TypeOK, Torn
    <2>3. Fresh' => Fresh
      BY <2>1 DEF Fresh
    <2>. QED
      BY <2>1, <2>2, <2>3 DEF PastInv
  <1>6. CASE Crash
    BY <1>0, <1>6, NothingType DEF Crash, PastInv, TypeOK, Fresh
  <1>7. CASE Restart
    <2>1. /\ up' = TRUE /\ recs' = Loaded(file["main"]) /\ clock' = clock
          /\ at' = at /\ snap' = snap /\ target' = target /\ fd' = fd /\ file' = file
          /\ \A v \in Writers : at[v] = "idle"
      BY <1>7 DEF Restart, PastInv
    <2>2. file["main"].recs \in Maps
      BY FilesType DEF TypeOK
    <2>3. \A i \in IDs : recs'[i] <= clock
      BY <1>0, <2>1, NothingType DEF Loaded, PastInv
    <2>4. file["main"].kind = "whole" => CutOf(file["main"].recs, recs')
      BY <2>1, <2>2, CutSame DEF Loaded
    <2>. QED
      BY <2>1, <2>3, <2>4 DEF PastInv, Fresh
  <1>8. CASE UNCHANGED vars
    BY <1>8 DEF vars, PastInv, Fresh
  <1>. QED
    BY <1>1, <1>2, <1>3, <1>4, <1>5, <1>6, <1>7, <1>8 DEF Next, Persist

LEMMA PastInvariant == Spec => [](TypeOK /\ PastInv)
  <1>1. Init => PastInv
    BY NothingType DEF Init, PastInv, Fresh, Both, Missing
  <1>. QED
    BY <1>1, TypeCorrect, PastStep, PTL DEF Spec

\* However many Upserts interleave, crash or fail, a sessions.json that a
\* restart can load is a state the map was in.
THEOREM DiskCorrect == Spec => []DiskIsPast
  <1>1. PastInv => DiskIsPast
    BY DEF PastInv, DiskIsPast
  <1>. QED
    BY <1>1, PastInvariant, PTL

\* Every Upsert at work writes such a state, with its own record in it.
THEOREM CopyCorrect == Spec => []CopyIsPast
  <1>1. PastInv => CopyIsPast
    BY DEF PastInv, CopyIsPast, Inside
  <1>. QED
    BY <1>1, PastInvariant, PTL
-----------------------------------------------------------------------------
(* The states of the map that a restart may find *)

\* What lies about in copies and in files is among the states that are
\* remembered.
Remembered ==
    /\ up => /\ recs \in past
             /\ \A w \in Writers : at[w] # "idle" => snap[w] \in past
             /\ file["main"].kind = "whole" => file["main"].recs \in past
             /\ Fresh /\ file["tmp"].kind = "whole" => file["tmp"].recs \in past
    /\ ~up => past = {Memory}

LEMMA RememberedStep ==
    ASSUME TypeOK, PastInv, Remembered, Next, Remember
    PROVE  Remembered'
  <1> USE DEF memVars, callVars, Both
  <1>1. ASSUME NEW w \in Writers, NEW id \in IDs, UpsertLocked(w, id) PROVE Remembered'
    <2>1. /\ up /\ up' /\ past' = past \union {recs'} /\ file' = file
          /\ at[w] = "idle" /\ at'[w] = "open" /\ snap'[w] = recs'
          /\ \A v \in Writers : v # w => at'[v] = at[v] /\ snap'[v] = snap[v]
      BY <1>1 DEF UpsertLocked, Remember, TypeOK, Copied
    <2>2. Fresh' => Fresh
      BY <2>1 DEF Fresh
    <2>. QED
      BY <2>1, <2>2 DEF Remembered
  <1>2. ASSUME NEW w \in Writers, OpenTmp(w) PROVE Remembered'
    <2>1. up /\ at[w] = "open" /\ at'[w] = "write"
      BY <1>2 DEF OpenTmp, PastInv, TypeOK
    <2>2. /\ file'["tmp"].kind = "empty" /\ file'["main"] = file["main"]
          /\ up' = up /\ recs' = recs /\ snap' = snap /\ past' = past \union {recs'}
          /\ \A v \in Writers : v # w => at'[v] = at[v]
      BY <1>2, <2>1 DEF OpenTmp, Remember, TypeOK, Empty
    <2>. QED
      BY <2>1, <2>2 DEF Remembered
  <1>3. ASSUME NEW w \in Writers, WriteTmp(w) PROVE Remembered'
    <2>1. up /\ at[w] = "write" /\ at'[w] = "rename"
      BY <1>3 DEF WriteTmp, PastInv, TypeOK
    <2>2. /\ up' = up /\ recs' = recs /\ snap' = snap /\ past' = past \union {recs'}
          /\ \A v \in Writers : v # w => at'[v] = at[v]
      BY <1>3, <2>1 DEF WriteTmp, Remember, TypeOK
    <2>3. ASSUME NEW f \in Both
          PROVE  file'[f] = file[f] \/ file'[f] = Whole(snap[w]) \/ file'[f] = Torn
      <3>1. ASSUME fd[w] \in Both, NEW new \in Overlay(file[fd[w]], snap[w]),
                   file' = [file EXCEPT ![fd[w]] = new]
            PROVE  file'[f] = file[f] \/ file'[f] = Whole(snap[w]) \/ file'[f] = Torn
        <4>1. new = Whole(snap[w]) \/ new = Torn
          BY <3>1, OverlayType DEF TypeOK
        <4>. QED
          BY <3>1, <4>1 DEF TypeOK
      <3>. QED
        BY <1>3, <3>1 DEF WriteTmp
    <2>4. Whole(snap[w]).recs = snap[w] /\ Torn.kind = "torn" /\ snap[w] \in past
      BY <2>1, FilesType DEF TypeOK, Torn, Remembered
    <2>5. Fresh
      BY <2>1 DEF Fresh
    <2>6. \A f \in Both : file'[f].kind = "whole" => file'[f].recs \in past
      BY <2>1, <2>3, <2>4, <2>5 DEF Remembered
    <2>. QED
      BY <2>1, <2>2, <2>6 DEF Remembered
  <1>4. ASSUME NEW w \in Writers, RenameTmp(w) PROVE Remembered'
    <2>1. up /\ at[w] = "rename" /\ at'[w] = "idle"
      BY <1>4 DEF RenameTmp, PastInv, TypeOK
    <2>2. /\ up' = up /\ recs' = recs /\ snap' = snap /\ past' = past \union {recs'}
          /\ \A v \in Writers : v # w => at'[v] = at[v]
          /\ file'["main"] = file["tmp"] /\ file'["tmp"].kind = "missing"
      BY <1>4, <2>1 DEF RenameTmp, Remember, TypeOK, Missing
    <2>3. Fresh
      BY <2>1 DEF Fresh
    <2>. QED
      BY <2>1, <2>2, <2>3 DEF Remembered
  <1>5. ASSUME NEW w \in Writers, PersistFails(w) PROVE Remembered'
    <2>1. up /\ at[w] # "idle" /\ at'[w] = "idle"
      BY <1>5 DEF PersistFails, Return, PastInv, TypeOK
    <2>2. /\ up' = up /\ recs' = recs /\ snap' = snap /\ past' = past \union {recs'}
          /\ \A v \in Writers : v # w => at'[v] = at[v]
      BY <1>5, <2>1 DEF PersistFails, Return, Remember, TypeOK
    <2>3. \A f \in Both : file'[f] = file[f] \/ file'[f].kind = "torn"
      BY <1>5 DEF PersistFails, TypeOK, Torn
    <2>4. Fresh' => Fresh
      BY <2>1, <2>2 DEF Fresh
    <2>. QED
      BY <2>1, <2>2, <2>3, <2>4 DEF Remembered
  <1>6. CASE Crash
    BY <1>6 DEF Crash, Remember, Remembered
  <1>7. CASE Restart
    <2>1. ~up /\ up' /\ past' = past \union {recs'} /\ past = {Memory}
          /\ recs' = Memory /\ file' = file
          /\ \A v \in Writers : at'[v] = "idle"
      BY <1>7 DEF Restart, Remember, Remembered, Memory, PastInv
    <2>2. file["main"].kind = "whole" => file["main"].recs = Memory
      BY <2>1 DEF Memory, Loaded
    <2>. QED
      BY <2>1, <2>2 DEF Remembered, Fresh
  <1>. QED
    BY <1>1, <1>2, <1>3, <1>4, <1>5, <1>6, <1>7 DEF Next, Persist

LEMMA RememberedInvariant == RememberSpec => Spec /\ []Remembered
  <1>1. Init /\ past = {Nothing} => Remembered
    <2> SUFFICES ASSUME Init, past = {Nothing} PROVE Remembered
      OBVIOUS
    <2>. QED
      BY DEF Init, Remembered, Fresh, Missing
  <1>2. [Next /\ Remember]_<<vars, past>> => [Next]_vars
    BY DEF vars
  <1>3. TypeOK /\ PastInv /\ Remembered /\ [Next /\ Remember]_<<vars, past>> => Remembered'
    <2>1. TypeOK /\ PastInv /\ Remembered /\ Next /\ Remember => Remembered'
      BY RememberedStep
    <2>2. Remembered /\ UNCHANGED <<vars, past>> => Remembered'
      BY DEF vars, Remembered, Fresh, Memory
    <2>. QED
      BY <2>1, <2>2
  <1>4. RememberSpec => Spec
    BY <1>2, PTL DEF RememberSpec, Spec
  <1>. QED
    BY <1>1, <1>3, <1>4, PastInvariant, PTL DEF RememberSpec

\* However many Upserts overlap, fail or are cut off by a crash, what a restart
\* finds is one state that the map was in since the last start, or nothing.
THEOREM LossyImplements == RememberSpec => ImplementsLossyMap
  <1>0. Lossy!Nothing = Nothing
    BY DEF Lossy!Nothing, Nothing
  <1>1. Init /\ past = {Nothing} => Lossy!Init
    BY <1>0 DEF Init, Lossy!Init, Memory
  <1>2. TypeOK /\ PastInv /\ Remembered /\ Next /\ Remember
           => Lossy!Next \/ UNCHANGED <<Memory, past>>
    <2> SUFFICES ASSUME TypeOK, PastInv, Remembered, Next, Remember
                 PROVE  Lossy!Next \/ UNCHANGED <<Memory, past>>
      OBVIOUS
    <2> USE DEF memVars, callVars
    <2>1. ASSUME NEW w \in Writers, NEW id \in IDs, UpsertLocked(w, id)
          PROVE  Lossy!Next
      <3>1. clock + 1 \in 1 .. MaxClock
        BY <2>1, StoreAssumption DEF UpsertLocked, TypeOK, Stamps
      <3>2. Memory = recs /\ Memory' = [recs EXCEPT ![id] = clock + 1] /\ Memory' = recs'
        BY <2>1 DEF UpsertLocked, Updated, Memory
      <3>3. past' = past \union {Memory'}
        BY <2>1, <3>2 DEF UpsertLocked, Remember
      <3>4. Lossy!Put(id, clock + 1)
        BY <3>2, <3>3 DEF Lossy!Put
      <3>. QED
        BY <3>1, <3>4 DEF Lossy!Next
    <2>2. ASSUME NEW w \in Writers, Persist(w) PROVE UNCHANGED <<Memory, past>>
      <3>1. up /\ up' = up /\ recs' = recs
        BY <2>2 DEF Persist, OpenTmp, WriteTmp, RenameTmp, PersistFails, PastInv
      <3>2. past' = past
        BY <3>1 DEF Remember, Remembered
      <3>. QED
        BY <3>1, <3>2 DEF Memory
    \* What was not saved is lost in the moment of the crash.
    <2>3. CASE Crash
      <3>1. up /\ ~up' /\ past' = {Memory'} /\ Memory' = Loaded(file["main"])
        BY <2>3 DEF Crash, Remember, Memory
      <3>2. Loaded(file["main"]) \in past \union {Nothing}
        BY <3>1 DEF Remembered, Loaded
      <3>. QED
        BY <1>0, <3>1, <3>2 DEF Lossy!Next, Lossy!Restart
    <2>4. CASE Restart
      <3>1. ~up /\ up' /\ recs' = Memory
        BY <2>4 DEF Restart, Memory
      <3>2. past' = past
        BY <3>1 DEF Remember, Remembered
      <3>. QED
        BY <3>1, <3>2 DEF Memory
    <2>. QED
      BY <2>1, <2>2, <2>3, <2>4 DEF Next
  <1>3. TypeOK /\ PastInv /\ Remembered /\ [Next /\ Remember]_<<vars, past>>
           => [Lossy!Next]_(Lossy!mapVars)
    <2>1. UNCHANGED <<vars, past>> => UNCHANGED <<Memory, past>>
      BY DEF vars, Memory
    <2>. QED
      BY <1>2, <2>1 DEF Lossy!mapVars
  <1>. QED
    BY <1>1, <1>3, RememberedInvariant, PastInvariant, PTL
       DEF RememberSpec, ImplementsLossyMap, Lossy!Spec
-----------------------------------------------------------------------------
(* One Upsert at a time *)

\* No Upsert begins while another one is at work.
Lone == \A v, w \in Inside : v = w

\* What one Upsert at a time keeps true: the copy is the map, the temporary
\* file is the writer's own, and sessions.json holds all that was returned.
SerialInv ==
    /\ \A w \in Writers : at[w] # "idle" => snap[w] = recs
    /\ \A w \in Writers : at[w] = "write" => fd[w] = "tmp" /\ file["tmp"] = Empty
    /\ \A w \in Writers : at[w] = "rename" => file["tmp"] = Whole(snap[w])
    /\ FileWhole
    /\ AckedDurable

LEMMA SerialStep ==
    TypeOK /\ PastInv /\ Lone /\ Lone' /\ SerialInv /\ [Next]_vars => SerialInv'
  <1> SUFFICES ASSUME TypeOK, PastInv, Lone, Lone', SerialInv, [Next]_vars PROVE SerialInv'
    OBVIOUS
  <1>0. /\ \A m \in Maps : \A i \in IDs : m[i] \in Nat
        /\ \A v, w \in Writers : at[v] # "idle" /\ at[w] # "idle" => v = w
    BY StoreAssumption DEF Maps, Stamps, Lone, Inside
  <1> USE DEF memVars, callVars
  <1>1. ASSUME NEW w \in Writers, NEW id \in IDs, UpsertLocked(w, id) PROVE SerialInv'
    <2>1. /\ at'[w] = "open" /\ snap'[w] = recs'
          /\ file' = file /\ acked' = acked
      BY <1>1 DEF UpsertLocked, Copied, Updated, TypeOK
    <2>2. \A v \in Writers : v # w => at'[v] = "idle"
      BY <2>1 DEF Lone, Inside
    <2>. QED
      BY <2>1, <2>2 DEF SerialInv, FileWhole, AckedDurable, Loaded
  <1>2. ASSUME NEW w \in Writers, OpenTmp(w) PROVE SerialInv'
    <2>1. /\ at[w] = "open" /\ at'[w] = "write" /\ fd'[w] = "tmp"
          /\ \A v \in Writers : v # w => at'[v] = at[v]
          /\ file'["tmp"] = Empty /\ file'["main"] = file["main"]
          /\ recs' = recs /\ snap' = snap /\ acked' = acked
      BY <1>2 DEF OpenTmp, TypeOK
    <2>2. \A v \in Writers : v # w => at'[v] = "idle"
      BY <1>0, <2>1
    <2>. QED
      BY <2>1, <2>2 DEF SerialInv, FileWhole, AckedDurable, Loaded
  <1>3. ASSUME NEW w \in Writers, WriteTmp(w) PROVE SerialInv'
    <2>1. /\ at[w] = "write" /\ at'[w] = "rename"
          /\ \A v \in Writers : v # w => at'[v] = at[v]
          /\ recs' = recs /\ snap' = snap /\ acked' = acked
      BY <1>3 DEF WriteTmp, TypeOK
    <2>2. file["tmp"] = Empty /\ fd[w] = "tmp"
      BY <2>1 DEF SerialInv
    <2>3. file'["tmp"] = Whole(snap[w]) /\ file'["main"] = file["main"]
      BY <1>3, <2>2 DEF WriteTmp, Overlay, Empty, TypeOK
    <2>4. \A v \in Writers : v # w => at'[v] = "idle"
      BY <1>0, <2>1
    <2>. QED
      BY <2>1, <2>3, <2>4 DEF SerialInv, FileWhole, AckedDurable, Loaded
  <1>4. ASSUME NEW w \in Writers, RenameTmp(w) PROVE SerialInv'
    <2>1. /\ at[w] = "rename" /\ at'[w] = "idle"
          /\ \A v \in Writers : v # w => at'[v] = at[v]
          /\ recs' = recs /\ snap' = snap /\ file'["main"] = file["tmp"]
          /\ acked' = [acked EXCEPT ![target[w]] = Later(@, snap[w][target[w]])]
      BY <1>4 DEF RenameTmp, TypeOK
    <2>2. file'["main"] = Whole(recs) /\ recs \in Maps
      BY <2>1 DEF SerialInv, TypeOK
    <2>3. Loaded(file'["main"]) = recs /\ file'["main"].kind = "whole"
      BY <2>2, FilesType DEF Loaded
    <2>4. \A v \in Writers : at'[v] = "idle"
      BY <1>0, <2>1
    <2>5. \A i \in IDs : acked[i] <= recs[i]
      <3>1. \A i \in IDs : Loaded(file["main"])[i] <= recs[i]
        <4>1. CASE file["main"].kind = "whole"
          <5>1. up
            BY <2>1 DEF PastInv
          <5>. QED
            BY <4>1, <5>1 DEF PastInv, CutOf, Loaded
        <4>2. CASE file["main"].kind # "whole"
          BY <1>0, <2>2, <4>2, NothingType DEF Loaded
        <4>. QED
          BY <4>1, <4>2
      <3>2. \A i \in IDs : acked[i] \in Nat /\ Loaded(file["main"])[i] \in Nat /\ recs[i] \in Nat
        BY <1>0, FilesType DEF TypeOK
      <3>. QED
        BY <3>1, <3>2 DEF SerialInv, AckedDurable
    <2>6. \A i \in IDs : acked'[i] <= recs[i]
      <3>1. snap[w] = recs
        BY <2>1 DEF SerialInv
      <3>2. \A i \in IDs : acked'[i] = acked[i] \/ acked'[i] = recs[i]
        BY <2>1, <3>1 DEF Later, TypeOK, Maps
      <3>. QED
        BY <1>0, <2>2, <2>5, <3>2
    <2>. QED
      BY <2>1, <2>3, <2>4, <2>6 DEF SerialInv, FileWhole, AckedDurable
  <1>5. ASSUME NEW w \in Writers, PersistFails(w) PROVE SerialInv'
    <2>1. /\ at[w] # "idle" /\ at'[w] = "idle"
          /\ \A v \in Writers : v # w => at'[v] = at[v]
          /\ recs' = recs /\ snap' = snap /\ acked' = acked
      BY <1>5 DEF PersistFails, Return, TypeOK
    <2>2. file'["main"] = file["main"]
      BY <1>5 DEF PersistFails, SerialInv, TypeOK
    <2>3. \A v \in Writers : at'[v] = "idle"
      BY <1>0, <2>1
    <2>. QED
      BY <2>1, <2>2, <2>3 DEF SerialInv, FileWhole, AckedDurable, Loaded
  <1>6. CASE Crash
    BY <1>6 DEF Crash, SerialInv, FileWhole, AckedDurable, Loaded
  <1>7. CASE Restart
    <2>1. \A w \in Writers : at'[w] = "idle"
      BY <1>7 DEF Restart, PastInv
    <2>. QED
      BY <1>7, <2>1 DEF Restart, SerialInv, FileWhole, AckedDurable, Loaded
  <1>8. CASE UNCHANGED vars
    BY <1>8 DEF vars, SerialInv, FileWhole, AckedDurable, Loaded
  <1>. QED
    BY <1>1, <1>2, <1>3, <1>4, <1>5, <1>6, <1>7, <1>8 DEF Next, Persist

LEMMA SerialInvariant == Spec /\ []Lone => [](TypeOK /\ PastInv /\ SerialInv)
  <1>1. Init => SerialInv
    BY NothingType DEF Init, SerialInv, FileWhole, AckedDurable, Loaded, Missing
  <1>. QED
    BY <1>1, SerialStep, PastInvariant, PTL DEF Spec

\* Whatever max_concurrency is: as long as no two Upserts overlap,
\* sessions.json is replaced atomically, through any sequence of crashes,
\* failed writes and restarts, for any number of sessions.
THEOREM SerialWhole == Spec /\ []Lone => []FileWhole
  <1>1. SerialInv => FileWhole
    BY DEF SerialInv
  <1>. QED
    BY <1>1, SerialInvariant, PTL

\* As long as no two Upserts overlap, the file keeps every session whose
\* Upsert returned nil, through the same failures.
THEOREM SerialDurable == Spec /\ []Lone => []AckedDurable
  <1>1. SerialInv => AckedDurable
    BY DEF SerialInv
  <1>. QED
    BY <1>1, SerialInvariant, PTL

\* As long as no two Upserts overlap, the store implements the durable map.
THEOREM SerialImplements == Spec /\ []Lone => ImplementsDurableMap
  <1> DEFINE saved == Loaded(file["main"])
  <1>0. Abstract!Nothing = Nothing
    BY DEF Abstract!Nothing, Nothing
  <1>1. Init => Abstract!Init
    BY <1>0 DEF Init, Abstract!Init, Memory, Loaded, Missing
  <1>2. TypeOK /\ PastInv /\ SerialInv /\ [Next]_vars
           => [Abstract!Next]_(Abstract!mapVars)
    <2> SUFFICES ASSUME TypeOK, PastInv, SerialInv, [Next]_vars
                 PROVE  Abstract!Next \/ UNCHANGED <<Memory, saved>>
      BY DEF Abstract!mapVars
    <2> USE DEF memVars, callVars
    <2>1. ASSUME NEW w \in Writers, NEW id \in IDs, UpsertLocked(w, id)
          PROVE  Abstract!Next
      <3>1. clock + 1 \in 1 .. MaxClock
        BY <2>1, StoreAssumption DEF UpsertLocked, TypeOK, Stamps
      <3>2. Memory = recs /\ Memory' = [recs EXCEPT ![id] = clock + 1] /\ saved' = saved
        BY <2>1 DEF UpsertLocked, Updated, Memory
      <3>3. Abstract!Put(id, clock + 1)
        BY <3>2 DEF Abstract!Put
      <3>. QED
        BY <3>1, <3>3 DEF Abstract!Next
    <2>2. ASSUME NEW w \in Writers, OpenTmp(w)
          PROVE  UNCHANGED <<Memory, saved>>
      BY <2>2 DEF OpenTmp, TypeOK, Memory
    <2>3. ASSUME NEW w \in Writers, WriteTmp(w)
          PROVE  UNCHANGED <<Memory, saved>>
      <3>1. fd[w] = "tmp"
        BY <2>3 DEF WriteTmp, SerialInv
      <3>2. file'["main"] = file["main"]
        BY <2>3, <3>1 DEF WriteTmp, TypeOK
      <3>. QED
        BY <2>3, <3>2 DEF WriteTmp, Memory
    <2>4. ASSUME NEW w \in Writers, RenameTmp(w)
          PROVE  Abstract!Next
      <3>1. at[w] = "rename" /\ file'["main"] = file["tmp"]
        BY <2>4 DEF RenameTmp, TypeOK
      <3>2. file["tmp"] = Whole(recs) /\ recs \in Maps
        BY <3>1 DEF SerialInv, TypeOK
      <3>3. saved' = recs
        BY <3>1, <3>2, FilesType DEF Loaded
      <3>4. up /\ up' = up /\ recs' = recs
        BY <2>4, <3>1 DEF RenameTmp, PastInv
      <3>5. Memory = recs /\ Memory' = recs
        BY <3>4 DEF Memory
      <3>. QED
        BY <3>3, <3>5 DEF Abstract!Next, Abstract!Save
    <2>5. ASSUME NEW w \in Writers, PersistFails(w)
          PROVE  UNCHANGED <<Memory, saved>>
      <3>1. file'["main"] = file["main"]
        BY <2>5 DEF PersistFails, SerialInv, TypeOK
      <3>. QED
        BY <2>5, <3>1 DEF PersistFails, Memory
    \* What was not saved is lost in the moment of the crash.
    <2>6. CASE Crash
      BY <2>6 DEF Crash, Memory, Abstract!Next, Abstract!Restart
    <2>7. CASE Restart
      BY <2>7 DEF Restart, Memory
    <2>8. CASE UNCHANGED vars
      BY <2>8 DEF vars, Memory
    <2>. QED
      BY <2>1, <2>2, <2>3, <2>4, <2>5, <2>6, <2>7, <2>8 DEF Next, Persist
  <1>. QED
    BY <1>1, <1>2, SerialInvariant, PTL DEF Spec, ImplementsDurableMap, Abstract!Spec
-----------------------------------------------------------------------------
(* One slot *)

\* Never more than MaxConcurrency Upserts, from the guard that stands for the
\* slots of Runs.
InsideInv == IsFiniteSet(Inside) /\ Cardinality(Inside) <= MaxConcurrency

LEMMA InsideStep == TypeOK /\ InsideInv /\ [Next]_vars => InsideInv'
  <1> SUFFICES ASSUME TypeOK, InsideInv, [Next]_vars PROVE InsideInv'
    OBVIOUS
  <1>0. MaxConcurrency \in Nat /\ Cardinality(Inside) \in Nat
    BY StoreAssumption, FS_CardinalityType DEF InsideInv
  <1> USE DEF TypeOK, memVars, callVars
  <1>1. ASSUME NEW w \in Writers, NEW id \in IDs, UpsertLocked(w, id) PROVE InsideInv'
    <2>1. Inside' = Inside \union {w} /\ w \notin Inside
      BY <1>1 DEF UpsertLocked, Inside
    <2>2. IsFiniteSet(Inside') /\ Cardinality(Inside') = Cardinality(Inside) + 1
      BY <2>1, FS_AddElement DEF InsideInv
    <2>3. Cardinality(Inside) < MaxConcurrency
      BY <1>1 DEF UpsertLocked
    <2>. QED
      BY <1>0, <2>2, <2>3 DEF InsideInv
  \* Every other step keeps the writers or lets some of them return.
  <1>2. ASSUME Inside' \subseteq Inside PROVE InsideInv'
    <2>1. IsFiniteSet(Inside') /\ Cardinality(Inside') <= Cardinality(Inside)
      BY <1>2, FS_Subset DEF InsideInv
    <2>2. Cardinality(Inside') \in Nat
      BY <2>1, FS_CardinalityType
    <2>. QED
      BY <1>0, <2>1, <2>2 DEF InsideInv
  <1>3. ASSUME NEW w \in Writers, OpenTmp(w) PROVE Inside' \subseteq Inside
    BY <1>3 DEF OpenTmp, Inside
  <1>4. ASSUME NEW w \in Writers, WriteTmp(w) PROVE Inside' \subseteq Inside
    BY <1>4 DEF WriteTmp, Inside
  <1>5. ASSUME NEW w \in Writers, RenameTmp(w) PROVE Inside' \subseteq Inside
    BY <1>5 DEF RenameTmp, Inside
  <1>6. ASSUME NEW w \in Writers, PersistFails(w) PROVE Inside' \subseteq Inside
    BY <1>6 DEF PersistFails, Return, Inside
  <1>7. CASE Crash
    BY <1>2, <1>7 DEF Crash, Inside
  <1>8. CASE Restart
    BY <1>2, <1>8 DEF Restart, Inside
  <1>9. CASE UNCHANGED vars
    BY <1>2, <1>9 DEF vars, Inside
  <1>. QED
    BY <1>1, <1>2, <1>3, <1>4, <1>5, <1>6, <1>7, <1>8, <1>9 DEF Next, Persist

\* With one Upsert at a time nobody else is inside while w is.
LEMMA Alone ==
    ASSUME MaxConcurrency = 1, InsideInv
    PROVE  Lone
  <1>1. ASSUME NEW v \in Inside, NEW w \in Inside, v # w PROVE FALSE
    <2>1. IsFiniteSet({v, w}) /\ Cardinality({v, w}) = 2
      <3>1. {v, w} = {v} \union {w} /\ w \notin {v}
        BY <1>1
      <3>2. IsFiniteSet({v}) /\ Cardinality({v}) = 1
        BY FS_Singleton
      <3>3. Cardinality({v} \union {w}) = Cardinality({v}) + 1
        BY <3>1, <3>2, FS_AddElement
      <3>4. IsFiniteSet({v} \union {w})
        BY <3>2, FS_AddElement
      <3>. QED
        BY <3>1, <3>2, <3>3, <3>4
    <2>2. Cardinality({v, w}) <= Cardinality(Inside)
      BY FS_Subset DEF InsideInv
    <2>3. Cardinality(Inside) \in Nat
      BY FS_CardinalityType DEF InsideInv
    <2>. QED
      BY <2>1, <2>2, <2>3 DEF InsideInv
  <1>. QED
    BY <1>1 DEF Lone

\* With max_concurrency: 1 no two Upserts ever overlap, so the three theorems
\* above hold without a condition.
THEOREM OneSlotSerial ==
    ASSUME MaxConcurrency = 1
    PROVE  Spec => []Lone /\ []FileWhole /\ []AckedDurable /\ ImplementsDurableMap
  <1>1. Init => InsideInv
    <2> SUFFICES ASSUME Init PROVE InsideInv
      OBVIOUS
    <2>1. Inside = {}
      BY DEF Init, Inside
    <2>. QED
      BY <2>1, FS_EmptySet, StoreAssumption DEF InsideInv
  <1>2. InsideInv => Lone
    BY Alone
  <1>3. Spec => []Lone
    BY <1>1, <1>2, InsideStep, TypeCorrect, PTL DEF Spec
  <1>. QED
    BY <1>3, SerialWhole, SerialDurable, SerialImplements
=============================================================================
