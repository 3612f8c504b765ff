--------------------------- MODULE SessionsProofs ---------------------------
(***************************************************************************)
(* Proofs about Sessions.  The argument for a session whose clients keep   *)
(* to its directory, whatever is done to others: everything that ever says *)
(* where it belongs - the store in memory and in whatever state a restart  *)
(* may find, the history, a request under way - says what its clients know.*)
(***************************************************************************)
EXTENDS SessionsProperties, TLAPS

\* A request under way has its directory and, once started, its session id;
\* only that of a continue is still to be seen.
Settled(q) ==
    /\ q.cwd \in Dirs
    /\ q.at # "waiting" /\ ~q.body.continue => q.sid \in IDs

Records == [IDs -> Dirs \union {NoDir}]

\* The store and the requests hold canonical paths only.
Canonical ==
    /\ bound \in Records /\ past \subseteq Records
    /\ \A r \in Reqs : run[r] \notin {New, Answered} => Settled(run[r])

USE SessionsAssumption

LEMMA Shapes ==
    /\ NoBody \in Bodies
    /\ New.cwd = NoDir /\ Answered.cwd = NoDir /\ New.at = "new" /\ Answered.at = "answered"
    /\ New.sid = NoID /\ Answered.sid = NoID /\ New.shown = NoID /\ Answered.shown = NoID
    /\ New.body = NoBody /\ Answered.body = NoBody
    BY DEF NoBody, Bodies, New, Answered, Idle

\* What becomes of the record of a request under way.
LEMMA Shift ==
    ASSUME NEW q \in Active, NEW i \in IDs \union {NoID}
    PROVE  /\ q \notin {New, Answered}
           /\ \/ Over(q, i) = Answered
              \/ /\ Over(q, i) \in Active /\ Over(q, i).at = "ended"
                 /\ Over(q, i).shown = i /\ Over(q, i).sid = q.sid
                 /\ Over(q, i).cwd = q.cwd /\ Over(q, i).body = q.body
           /\ \/ AfterCrash(q) = Answered
              \/ /\ AfterCrash(q) \in Active /\ AfterCrash(q).at = "orphan"
                 /\ q.at \in {"running", "orphan"}
                 /\ AfterCrash(q).shown = q.shown /\ AfterCrash(q).sid = q.sid
                 /\ AfterCrash(q).cwd = q.cwd /\ AfterCrash(q).body = q.body
<1>1. q.at \notin {"new", "answered"}
    BY DEF Active
<1>2. QED
    BY <1>1, Shapes DEF Over, AfterCrash, Active

\* What it means that an id comes into use.
LEMMA UseOf ==
    ASSUME TypeOK, NEW i, NEW d \in Dirs, Used(i, d)
    PROVE  /\ home' \in [IDs -> Dirs \union {NoDir}]
           /\ Unused' \subseteq Unused
           /\ i \in IDs => i \notin Unused'
           /\ i \in Unused => home'[i] = d
    BY DEF Used, Unused, TypeOK

LEMMA AskedShape ==
    ASSUME NEW b \in Bodies, NEW d \in Dirs, NEW q, q = Asked(b, d)
    PROVE  /\ q \in Active /\ q.at = "waiting" /\ q.cwd = d
           /\ q.sid = NoID /\ q.shown = NoID
           /\ q.body.resume = b.resume /\ q.body.session = b.session
           /\ q.body.continue = b.continue /\ q.body.fork = b.fork
<1>1. [b EXCEPT !.workdir = d] \in Bodies
    BY DEF Bodies
<1>2. QED
    BY <1>1 DEF Asked, Active, Paths, Bodies

LEMMA Sid ==
    ASSUME NEW q \in Active, NEW i \in IDs \union {NoID}, NEW l \in {"running", "ended"}
    PROVE  /\ Begun(q, i, l) \in Active /\ Begun(q, i, l).sid = i /\ Begun(q, i, l).at = l
           /\ Begun(q, i, l).cwd = q.cwd /\ Begun(q, i, l).body = q.body
           /\ Begun(q, i, l).shown = q.shown
    BY DEF Active, Begun

LEMMA BegunSettled ==
    ASSUME NEW q \in Active, q.cwd \in Dirs, NEW i \in IDs \union {NoID},
           ~q.body.continue => i \in IDs, NEW l \in {"running", "ended"}
    PROVE  Begun(q, i, l) \in Active /\ Settled(Begun(q, i, l))
<1> DEFINE b == Begun(q, i, l)
<1>1. b \in Active /\ b.sid = i /\ b.cwd = q.cwd /\ b.body = q.body
    BY DEF Active, Begun
<1> HIDE DEF b
<1>2. b.cwd \in Dirs
    BY <1>1
<1>3. ~b.body.continue => b.sid \in IDs
    BY <1>1
<1>4. QED
    BY <1>1, <1>2, <1>3 DEF Settled, b

\* Types: each action keeps every variable in its set.
LEMMA TypeStep == TypeOK /\ Canonical /\ [Next]_vars => TypeOK' /\ Canonical'
<1> SUFFICES ASSUME TypeOK, Canonical, [Next]_vars PROVE TypeOK' /\ Canonical'
    OBVIOUS
<1> USE Shapes DEF TypeOK, Canonical
<1>0. \A r \in Reqs : run[r].at \in {"waiting", "running", "orphan", "ended"} =>
          run[r] \in Active /\ run[r] \notin {New, Answered} /\ Settled(run[r])
    OBVIOUS
<1>1. ASSUME NEW r \in Reqs, NEW b \in Bodies, Resolve(r, b) PROVE TypeOK' /\ Canonical'
  <2>1. Resolved(b) \subseteq Dirs
      BY <1>1 DEF Resolved
  <2>2. \A d \in Dirs : Asked(b, d) \in Active /\ Settled(Asked(b, d))
      BY AskedShape DEF Settled
  <2>3. home' \in [IDs -> Dirs \union {NoDir}] /\ Unused' \subseteq Unused
    <3>1. CASE UNCHANGED home
        BY <3>1 DEF Unused
    <3>2. CASE \E d \in Resolved(b) : Used(b.session, d)
        BY <2>1, <3>2, UseOf
    <3>3. QED
        BY <1>1, <3>1, <3>2 DEF Resolve
  <2>4. run' \in [Reqs -> {New, Answered} \union Active]
        /\ \A q \in Reqs : run'[q] \notin {New, Answered} => Settled(run'[q])
    <3>1. CASE run' = [run EXCEPT ![r] = Answered]
        BY <3>1
    <3>2. CASE \E d \in Resolved(b) : run' = [run EXCEPT ![r] = Asked(b, d)]
        BY <3>2, <2>1, <2>2
    <3>3. QED
        BY <1>1, <3>1, <3>2 DEF Resolve
  <2>5. history' \subseteq (IDs \ Unused') \X Dirs
      BY <1>1, <2>3 DEF Resolve
  <2>6. QED
      BY <1>1, <2>3, <2>4, <2>5 DEF Resolve, storeVars
<1>2. ASSUME NEW r \in Reqs, Busy(r) PROVE TypeOK' /\ Canonical'
    BY <1>2 DEF Busy, storeVars, Unused
<1>3. ASSUME NEW r \in Reqs, Start(r) PROVE TypeOK' /\ Canonical'
  <2>1. PICK i \in SessionIDs(run[r].body) :
           /\ run' = [run EXCEPT ![r] = Begun(@, i, "running")]
           /\ Used(i, run[r].cwd)
      BY <1>3 DEF Start
  <2>2. run[r].body \in Bodies
      BY <1>0, <1>3 DEF Start, Active
  <2>3. i \in IDs \union {NoID} /\ (~run[r].body.continue => i \in IDs)
      BY <2>2 DEF SessionIDs, Bodies, Unused
  <2>4. run[r] \in Active /\ run[r].cwd \in Dirs
      BY <1>0, <1>3 DEF Start, Settled
  <2>5. Begun(run[r], i, "running") \in Active /\ Settled(Begun(run[r], i, "running"))
      BY <2>3, <2>4, BegunSettled
  <2>6. home' \in [IDs -> Dirs \union {NoDir}] /\ Unused' \subseteq Unused
      BY <2>1, <2>4, UseOf
  <2>7. history' \subseteq (IDs \ Unused') \X Dirs
      BY <1>3, <2>6 DEF Start
  <2>8. QED
      BY <1>3, <2>1, <2>3, <2>5, <2>6, <2>7 DEF Start, storeVars
<1>4. ASSUME NEW r \in Reqs, StartFails(r) PROVE TypeOK' /\ Canonical'
  <2>1. PICK i \in SessionIDs(run[r].body) :
           /\ run' = [run EXCEPT ![r] =
                IF r \in Streams THEN Answered ELSE Begun(@, i, "ended")]
           /\ Used(i, run[r].cwd)
      BY <1>4 DEF StartFails
  <2>2. run[r].body \in Bodies
      BY <1>0, <1>4 DEF StartFails, Active
  <2>3. i \in IDs \union {NoID} /\ (~run[r].body.continue => i \in IDs)
      BY <2>2 DEF SessionIDs, Bodies, Unused
  <2>4. run[r] \in Active /\ run[r].cwd \in Dirs
      BY <1>0, <1>4 DEF StartFails, Settled
  <2>5. Begun(run[r], i, "ended") \in Active /\ Settled(Begun(run[r], i, "ended"))
      BY <2>3, <2>4, BegunSettled
  <2>6. home' \in [IDs -> Dirs \union {NoDir}] /\ Unused' \subseteq Unused
      BY <2>1, <2>4, UseOf
  <2>7. history' \subseteq (IDs \ Unused') \X Dirs
      BY <1>4, <2>6 DEF StartFails
  <2>8. QED
      BY <1>4, <2>1, <2>3, <2>5, <2>6, <2>7 DEF StartFails, storeVars
<1>5. ASSUME NEW r \in Reqs, ClaudeWorks(r) PROVE TypeOK' /\ Canonical'
  <2>1. run[r] \in Active /\ Settled(run[r]) /\ run[r].at \in {"running", "orphan"}
      BY <1>0, <1>5 DEF ClaudeWorks
  <2>2. Origins(run[r]) \subseteq IDs
    <3>1. run[r].body \in Bodies
        BY <2>1 DEF Active
    <3>2. QED
        BY <2>1, <3>1 DEF Origins, HistoryIn, Bodies, Settled
  <2>3. PICK i \in IDs :
           /\ history' = history \union {<<i, Canon(run[r].cwd)>>}
           /\ run' = [run EXCEPT ![r] = Over(@, i)]
           /\ Used(i, Canon(run[r].cwd))
    <3>1. PICK o \in Origins(run[r]) :
          \E i \in IF run[r].body.fork THEN Unused ELSE {o} :
             /\ history' = history \union {<<i, Canon(run[r].cwd)>>}
             /\ run' = [run EXCEPT ![r] = Over(@, i)]
             /\ Used(i, Canon(run[r].cwd))
        BY <1>5 DEF ClaudeWorks
    <3>2. (IF run[r].body.fork THEN Unused ELSE {o}) \subseteq IDs
        BY <2>2 DEF Unused
    <3>3. QED
        BY <3>1, <3>2
  <2>4. Canon(run[r].cwd) \in Dirs
      BY <2>1 DEF Canon, Settled
  <2>5. run'[r] = Answered \/ (run'[r] \in Active /\ Settled(run'[r]))
      BY <2>1, <2>3, Shift DEF Settled
  <2>6. /\ home' \in [IDs -> Dirs \union {NoDir}]
        /\ Unused' \subseteq Unused /\ i \notin Unused'
      BY <2>3, <2>4, UseOf
  <2>7. history' \subseteq (IDs \ Unused') \X Dirs
      BY <2>3, <2>4, <2>6
  <2>8. QED
      BY <1>5, <2>3, <2>5, <2>6, <2>7 DEF ClaudeWorks, storeVars
<1>6. ASSUME NEW r \in Reqs, ClaudeFails(r) PROVE TypeOK' /\ Canonical'
  <2>1. run[r] \in Active /\ Settled(run[r]) /\ run[r].at \in {"running", "orphan"}
      BY <1>0, <1>6 DEF ClaudeFails
  <2>2. run' = [run EXCEPT ![r] = Over(@, NoID)]
      BY <1>6 DEF ClaudeFails
  <2>3. Over(run[r], NoID) = Answered
        \/ (Over(run[r], NoID) \in Active /\ Settled(Over(run[r], NoID)))
      BY <2>1, Shift DEF Settled
  <2>4. QED
      BY <1>6, <2>2, <2>3 DEF ClaudeFails, storeVars, Unused
<1>7. ASSUME NEW r \in Reqs, Abandon(r) PROVE TypeOK' /\ Canonical'
    BY <1>7 DEF Abandon, storeVars, Unused
<1>8. ASSUME NEW r \in Reqs, Upsert(r) PROVE TypeOK' /\ Canonical'
  <2>1. run[r] \in Active /\ run[r].cwd \in Dirs
      BY <1>0, <1>8 DEF Upsert, Settled
  <2>2. bound' \in Records /\ past' \subseteq Records
    <3>1. CASE UNCHANGED storeVars
        BY <3>1 DEF storeVars
    <3>2. CASE Store!Put(SessionOf(run[r]), run[r].cwd)
      <4>1. bound' \in Records
          BY <2>1, <3>2 DEF Store!Put, Records
      <4>2. QED
          BY <3>2, <4>1 DEF Store!Put
    <3>3. QED
        BY <1>8, <3>1, <3>2 DEF Upsert
  <2>3. QED
      BY <1>8, <2>2 DEF Upsert, Paths, Records, Unused
<1>9. ASSUME NEW l \in Links, NEW d \in Dirs, Relink(l, d) PROVE TypeOK' /\ Canonical'
    BY <1>9 DEF Relink, storeVars, Unused
<1>10. ASSUME NEW roots \in RootSets, Restart(roots) PROVE TypeOK' /\ Canonical'
  <2>1. \A r \in Reqs : \/ AfterCrash(run[r]) \in {New, Answered}
                        \/ AfterCrash(run[r]) \in Active /\ Settled(AfterCrash(run[r]))
    <3>1. TAKE r \in Reqs
    <3>2. CASE run[r] \in {New, Answered}
        BY <3>2 DEF AfterCrash
    <3>3. CASE run[r] \in Active
        BY <3>3, Shift DEF Settled
    <3>4. QED
        BY <3>2, <3>3
  <2>2. bound' \in Records /\ past' \subseteq Records
      BY <1>10 DEF Restart, Store!Restart, Store!Nothing, Records
  <2>3. QED
      BY <1>10, <2>1, <2>2 DEF Restart, Paths, Records, Unused
<1>11. CASE UNCHANGED vars
    BY <1>11 DEF vars, Unused
<1>12. QED
    BY <1>1, <1>2, <1>3, <1>4, <1>5, <1>6, <1>7, <1>8, <1>9, <1>10, <1>11 DEF Next, Handle

\* Types hold in every reachable state, whatever the clients send.
THEOREM TypeCorrect == Spec => [](TypeOK /\ Canonical)
<1>1. Init => TypeOK /\ Canonical
    BY Shapes DEF Init, TypeOK, Canonical, Paths, Records, Unused, Store!Init, Store!Nothing
<1>2. QED
    BY <1>1, TypeStep, PTL DEF Spec

-----------------------------------------------------------------------------
\* The roots of the daemon that runs admit every directory that claude runs
\* in: those of a restart find no run of the new daemon under way.
THEOREM UnderRootsCorrect == Spec => []RunsUnderRoots
<1>1. Init => RunsUnderRoots
    BY Shapes DEF Init, RunsUnderRoots
<1>2. TypeOK /\ Canonical /\ RunsUnderRoots /\ [Next]_vars => RunsUnderRoots'
  <2> SUFFICES ASSUME TypeOK, Canonical, RunsUnderRoots, [Next]_vars,
                      NEW x \in Reqs, run'[x].at \in {"waiting", "running"}
               PROVE  run'[x].cwd \in allowed'
      BY DEF RunsUnderRoots
  <2> USE Shapes DEF TypeOK, RunsUnderRoots
  <2>1. ASSUME NEW r \in Reqs, NEW b \in Bodies, Resolve(r, b) PROVE run'[x].cwd \in allowed'
    <3>1. \A d \in Resolved(b) : d \in allowed /\ Asked(b, d).cwd = d
        BY DEF Resolved, Asked
    <3>2. QED
        BY <2>1, <3>1 DEF Resolve
  <2>2. ASSUME NEW r \in Reqs, Busy(r) \/ Abandon(r) \/ Upsert(r) PROVE run'[x].cwd \in allowed'
      BY <2>2 DEF Busy, Abandon, Upsert
  <2>3. ASSUME NEW r \in Reqs, Start(r) \/ StartFails(r) PROVE run'[x].cwd \in allowed'
    <3>1. run[r].at = "waiting" /\ run[r] \in Active /\ allowed' = allowed
        BY <2>3 DEF Start, StartFails
    <3>2. PICK i : \/ run' = [run EXCEPT ![r] = Begun(@, i, "running")]
                   \/ run' = [run EXCEPT ![r] = Begun(@, i, "ended")]
                   \/ run' = [run EXCEPT ![r] = Answered]
        BY <2>3 DEF Start, StartFails
    <3>3. \A l : Begun(run[r], i, l).cwd = run[r].cwd
        BY <3>1 DEF Begun, Active
    <3>4. QED
        BY <3>1, <3>2, <3>3
  <2>4. ASSUME NEW r \in Reqs, ClaudeWorks(r) \/ ClaudeFails(r) PROVE run'[x].cwd \in allowed'
    <3>1. run[r].at \in {"running", "orphan"} /\ run[r] \in Active /\ allowed' = allowed
        BY <2>4 DEF ClaudeWorks, ClaudeFails
    <3>2. PICK i : run' = [run EXCEPT ![r] = Over(@, i)]
        BY <2>4 DEF ClaudeWorks, ClaudeFails
    <3>3. Over(run[r], i).at \notin {"waiting", "running"}
        BY <3>1 DEF Over, Active
    <3>4. QED
        BY <3>1, <3>2, <3>3
  <2>5. ASSUME NEW l \in Links, NEW d \in Dirs, Relink(l, d) PROVE run'[x].cwd \in allowed'
      BY <2>5 DEF Relink
  <2>6. ASSUME NEW roots \in RootSets, Restart(roots) PROVE run'[x].cwd \in allowed'
    <3>1. run'[x] = AfterCrash(run[x])
        BY <2>6 DEF Restart
    <3>2. AfterCrash(run[x]).at \notin {"waiting", "running"}
        BY Shift DEF AfterCrash, Active
    <3>3. QED
        BY <3>1, <3>2
  <2>7. CASE UNCHANGED vars
      BY <2>7 DEF vars
  <2>8. QED
      BY <2>1, <2>2, <2>3, <2>4, <2>5, <2>6, <2>7 DEF Next, Handle
<1>3. QED
    BY <1>1, <1>2, TypeCorrect, PTL DEF Spec

-----------------------------------------------------------------------------
\* The ids that a request under way is about.
Names(q) == {q.sid, q.shown, q.body.resume, q.body.session}

AtHome(q, h) == \A i \in Careful \intersect Names(q) : q.cwd = h[i]

\* All that says where a session used with care belongs says what its clients
\* know, and an id that nobody has used belongs nowhere.
Homes ==
    /\ \A m \in past \union {bound} : \A i \in Careful : m[i] \in {NoDir, home[i]}
    /\ \A i \in Careful, d \in Dirs : <<i, d>> \in history => d = home[i]
    /\ \A r \in Reqs : AtHome(run[r], home)

\* An id that is in use stays with its directory.
Kept == \A i \in IDs : home[i] # NoDir => home'[i] = home[i]

LEMMA KeptStep == [Next]_vars => Kept
<1> SUFFICES ASSUME [Next]_vars PROVE Kept
    OBVIOUS
<1>1. ASSUME NEW i, NEW d, Used(i, d) PROVE Kept
    BY <1>1 DEF Used, Unused, Kept
<1>2. CASE UNCHANGED home
    BY <1>2 DEF Kept
<1>3. QED
    BY <1>1, <1>2 DEF Next, Handle, Resolve, Busy, Start, StartFails, Abandon, Upsert,
       ClaudeWorks, ClaudeFails, Relink, Restart, vars

\* So that what a step leaves as it was says what it said.
LEMMA HomesFrame ==
    ASSUME TypeOK, Canonical, Homes, Kept
    PROVE  /\ \A m \in past \union {bound} : \A i \in Careful : m[i] \in {NoDir, home'[i]}
           /\ \A i \in Careful, d \in Dirs : <<i, d>> \in history => d = home'[i]
           /\ \A r \in Reqs : AtHome(run[r], home')
<1>1. \A m \in past \union {bound} : \A i \in Careful : m[i] \in {NoDir, home'[i]}
    BY DEF Homes, Kept
<1>2. \A i \in Careful, d \in Dirs : <<i, d>> \in history => d = home'[i]
    BY DEF Homes, Kept
<1>3. ASSUME NEW r \in Reqs PROVE AtHome(run[r], home')
  <2>1. CASE run[r] \in {New, Answered}
      BY <2>1, Shapes DEF AtHome, Names, NoBody
  <2>2. CASE run[r] \notin {New, Answered}
    <3>1. run[r].cwd \in Dirs
        BY <2>2 DEF Canonical, Settled
    <3>2. ASSUME NEW i \in Careful \intersect Names(run[r]) PROVE run[r].cwd = home'[i]
      <4>1. run[r].cwd = home[i] /\ i \in IDs
          BY DEF Homes, AtHome
      <4>2. QED
          BY <3>1, <4>1 DEF Kept
    <3>3. QED
        BY <3>2 DEF AtHome
  <2>3. QED
      BY <2>1, <2>2
<1>4. QED
    BY <1>1, <1>2, <1>3

\* A step of one request that touches neither the store nor the history.
LEMMA OwnStep ==
    ASSUME TypeOK, Canonical, Homes, Kept, UNCHANGED <<bound, past, history>>,
           NEW r \in Reqs, NEW q, run' = [run EXCEPT ![r] = q], AtHome(q, home')
    PROVE  Homes'
<1>1. \A x \in Reqs : AtHome(run'[x], home')
    BY HomesFrame DEF TypeOK
<1>2. QED
    BY <1>1, HomesFrame DEF Homes, AtHome, Names

\* A step says nothing about a session used with care but what its clients know.
LEMMA HomesStep ==
    ASSUME TypeOK, Canonical, Homes, [Next]_vars
    PROVE  Homes'
<1>0. Kept
    BY KeptStep
<1>a. \A r \in Reqs : run[r].at \in {"waiting", "running", "orphan", "ended"} =>
          run[r] \in Active /\ run[r] \notin {New, Answered} /\ Settled(run[r])
    BY Shapes DEF TypeOK, Canonical
<1>b. AtHome(New, home') /\ AtHome(Answered, home')
    BY Shapes DEF AtHome, Names, NoBody
<1>1. ASSUME NEW r \in Reqs, NEW b \in Bodies, Resolve(r, b) PROVE Homes'
  <2>1. UNCHANGED <<bound, past, history>> /\ Sensible(b)
      BY <1>1 DEF Resolve, storeVars
  <2>2. CASE run' = [run EXCEPT ![r] = Answered]
      BY <1>0, <1>b, <2>1, <2>2, OwnStep
  <2>3. ASSUME NEW d \in Resolved(b), run' = [run EXCEPT ![r] = Asked(b, d)], Used(b.session, d)
        PROVE  Homes'
    <3>1. d \in Dirs /\ d = Canon(Wanted(b)) /\ Wanted(b) # NoDir
        BY <2>3 DEF Resolved, TypeOK
    <3>2. ASSUME NEW i \in Careful, i = b.resume PROVE d = home'[i]
      <4>1. Canon(b.workdir) \in {NoDir, home[i]} /\ i # NoID /\ i \in IDs
          BY <2>1, <3>2 DEF Sensible
      <4>2. CASE b.workdir = NoDir
        <5>1. Wanted(b) = bound[i]
            BY <3>2, <4>1, <4>2 DEF Wanted
        <5>2. bound[i] = home[i] /\ bound[i] \in Dirs
            BY <3>1, <4>1, <5>1 DEF Homes, Canonical, Records
        <5>3. d = home[i]
            BY <3>1, <5>1, <5>2 DEF Canon
        <5>4. QED
            BY <1>0, <3>1, <4>1, <5>3 DEF Kept
      <4>3. CASE b.workdir # NoDir
        <5>1. d = Canon(b.workdir)
            BY <3>1, <4>3 DEF Wanted
        <5>2. d = home[i]
            BY <3>1, <4>1, <5>1
        <5>3. QED
            BY <1>0, <3>1, <4>1, <5>2 DEF Kept
      <4>4. QED
          BY <4>2, <4>3
    <3>3. ASSUME NEW i \in Careful, i = b.session PROVE d = home'[i]
      <4>1. home[i] \in {NoDir, d} /\ i \in IDs
          BY <2>1, <3>1, <3>3 DEF Sensible, Wanted
      <4>2. CASE home[i] = NoDir
          BY <2>3, <3>1, <3>3, <4>1, <4>2, UseOf DEF Unused
      <4>3. CASE home[i] = d
          BY <1>0, <3>1, <4>1, <4>3 DEF Kept
      <4>4. QED
          BY <4>1, <4>2, <4>3
    <3>4. AtHome(Asked(b, d), home')
      <4>1. /\ Asked(b, d).cwd = d
            /\ Names(Asked(b, d)) = {NoID, b.resume, b.session}
          BY <3>1, AskedShape DEF Names
      <4>2. QED
          BY <3>2, <3>3, <4>1 DEF AtHome
    <3>5. QED
        BY <1>0, <2>1, <2>3, <3>4, OwnStep
  <2>4. QED
      BY <1>1, <2>2, <2>3 DEF Resolve
<1>2. ASSUME NEW r \in Reqs, Busy(r) \/ Abandon(r) PROVE Homes'
  <2>1. UNCHANGED <<bound, past, history>> /\ run' = [run EXCEPT ![r] = Answered]
      BY <1>2 DEF Busy, Abandon, storeVars
  <2>2. QED
      BY <1>0, <1>b, <2>1, OwnStep
<1>3. ASSUME NEW r \in Reqs, Start(r) \/ StartFails(r) PROVE Homes'
  <2>1. run[r] \in Active /\ run[r].cwd \in Dirs /\ UNCHANGED <<bound, past, history>>
      BY <1>a, <1>3 DEF Start, StartFails, Settled, storeVars
  <2>2. PICK i \in SessionIDs(run[r].body) :
           /\ Used(i, run[r].cwd)
           /\ \/ run' = [run EXCEPT ![r] = Begun(@, i, "running")]
              \/ run' = [run EXCEPT ![r] = Begun(@, i, "ended")]
              \/ run' = [run EXCEPT ![r] = Answered]
      BY <1>3 DEF Start, StartFails
  <2>3. i \in IDs \union {NoID} /\ i \in Names(run[r]) \union {NoID} \union Unused
      BY <2>1, <2>2 DEF SessionIDs, Active, Bodies, Names, Unused
  <2>4. \A j \in Careful : j = i \/ j \in Names(run[r]) => run[r].cwd = home'[j]
    <3>1. ASSUME i \in Unused PROVE run[r].cwd = home'[i]
        BY <2>1, <2>2, <3>1, UseOf
    <3>2. \A j \in Careful \intersect Names(run[r]) : run[r].cwd = home'[j]
        BY <1>0, HomesFrame DEF AtHome
    <3>3. QED
        BY <2>3, <3>1, <3>2
  <2>5. ASSUME NEW l \in {"running", "ended"} PROVE AtHome(Begun(run[r], i, l), home')
    <3>1. /\ Begun(run[r], i, l).cwd = run[r].cwd
          /\ Names(Begun(run[r], i, l)) \subseteq Names(run[r]) \union {i}
      <4>1. /\ Begun(run[r], i, l).sid = i /\ Begun(run[r], i, l).cwd = run[r].cwd
            /\ Begun(run[r], i, l).body = run[r].body
            /\ Begun(run[r], i, l).shown = run[r].shown
          BY <2>1 DEF Begun, Active
      <4>2. QED
          BY <4>1 DEF Names
    <3>2. QED
        BY <2>4, <3>1 DEF AtHome
  <2>6. QED
      BY <1>0, <1>b, <2>1, <2>2, <2>5, OwnStep
<1>4. ASSUME NEW r \in Reqs, ClaudeWorks(r) PROVE Homes'
  <2>1. run[r] \in Active /\ Settled(run[r]) /\ run[r].cwd \in Dirs
        /\ Canon(run[r].cwd) = run[r].cwd /\ run[r].at # "waiting"
      BY <1>a, <1>4 DEF ClaudeWorks, Settled, Canon
  <2> DEFINE d == run[r].cwd
  <2>2. PICK o \in Origins(run[r]) :
           \E i \in IF run[r].body.fork THEN Unused ELSE {o} :
              /\ history' = history \union {<<i, Canon(run[r].cwd)>>}
              /\ run' = [run EXCEPT ![r] = Over(@, i)]
              /\ Used(i, Canon(run[r].cwd))
      BY <1>4 DEF ClaudeWorks
  <2>3. o \in IDs /\ (o \in Names(run[r]) \/ <<o, d>> \in history)
    <3>1. run[r].body \in Bodies
        BY <2>1 DEF Active
    <3>2. QED
        BY <2>1, <2>2, <3>1 DEF Origins, HistoryIn, Bodies, Settled, Names
  <2>4. PICK i \in Unused \union {o} :
           /\ history' = history \union {<<i, d>>}
           /\ run' = [run EXCEPT ![r] = Over(@, i)]
           /\ Used(i, d)
    <3>1. (IF run[r].body.fork THEN Unused ELSE {o}) \subseteq Unused \union {o}
        OBVIOUS
    <3>2. PICK i \in IF run[r].body.fork THEN Unused ELSE {o} :
             /\ history' = history \union {<<i, Canon(run[r].cwd)>>}
             /\ run' = [run EXCEPT ![r] = Over(@, i)]
             /\ Used(i, Canon(run[r].cwd))
        BY <2>2
    <3>3. Used(i, d)
        BY <2>1, <3>2 DEF Used
    <3>4. history' = history \union {<<i, d>>}
        BY <2>1, <3>2
    <3>5. i \in Unused \union {o}
        BY <3>1
    <3>6. QED
        BY <3>2, <3>3, <3>4, <3>5
  <2>5. i \in IDs
      BY <2>3 DEF Unused
  <2>6. i \in Careful => d = home'[i]
    <3>1. CASE i \in Unused
        BY <2>1, <2>4, <3>1, UseOf
    <3>2. CASE i = o
        BY <1>0, <2>1, <2>3, <3>2, HomesFrame DEF AtHome
    <3>3. QED
        BY <2>4, <3>1, <3>2
  <2>7. AtHome(Over(run[r], i), home')
    <3>1. CASE Over(run[r], i) = Answered
        BY <1>b, <3>1
    <3>2. CASE Over(run[r], i) # Answered
      <4>1. /\ Over(run[r], i).cwd = d
            /\ Names(Over(run[r], i)) \subseteq Names(run[r]) \union {i}
          BY <2>1, <2>5, <3>2, Shift DEF Names
      <4>2. QED
          BY <1>0, <2>6, <4>1, HomesFrame DEF AtHome
    <3>3. QED
        BY <3>1, <3>2
  <2>8. \A x \in Reqs : AtHome(run'[x], home')
      BY <1>0, <2>4, <2>7, HomesFrame DEF TypeOK
  <2>9. \A j \in Careful, e \in Dirs : <<j, e>> \in history' => e = home'[j]
      BY <1>0, <2>4, <2>6, HomesFrame
  <2>10. UNCHANGED <<bound, past>>
      BY <1>4 DEF ClaudeWorks, storeVars
  <2>11. QED
      BY <1>0, <2>8, <2>9, <2>10, HomesFrame DEF Homes, AtHome, Names
<1>5. ASSUME NEW r \in Reqs, ClaudeFails(r) PROVE Homes'
  <2>1. run[r] \in Active /\ UNCHANGED <<bound, past, history>>
        /\ run' = [run EXCEPT ![r] = Over(@, NoID)]
      BY <1>a, <1>5 DEF ClaudeFails, storeVars
  <2>2. AtHome(Over(run[r], NoID), home')
    <3>1. CASE Over(run[r], NoID) = Answered
        BY <1>b, <3>1
    <3>2. CASE Over(run[r], NoID) # Answered
      <4>1. /\ Over(run[r], NoID).cwd = run[r].cwd
            /\ Names(Over(run[r], NoID)) \subseteq Names(run[r]) \union {NoID}
          BY <2>1, <3>2, Shift DEF Names
      <4>2. QED
          BY <1>0, <4>1, HomesFrame DEF AtHome
    <3>3. QED
        BY <3>1, <3>2
  <2>3. QED
      BY <1>0, <2>1, <2>2, OwnStep
<1>6. ASSUME NEW r \in Reqs, Upsert(r) PROVE Homes'
  <2>1. /\ run' = [run EXCEPT ![r] = Answered] /\ UNCHANGED history
        /\ UNCHANGED storeVars \/ Store!Put(SessionOf(run[r]), run[r].cwd)
      BY <1>6 DEF Upsert
  <2>2. CASE UNCHANGED storeVars
      BY <1>0, <1>b, <2>1, <2>2, OwnStep DEF storeVars
  <2>3. CASE Store!Put(SessionOf(run[r]), run[r].cwd)
    <3>1. bound' = [bound EXCEPT ![SessionOf(run[r])] = run[r].cwd] /\ past' = past \union {bound'}
        BY <2>3 DEF Store!Put
    <3>2. \A i \in Careful : i = SessionOf(run[r]) => run[r].cwd = home'[i]
        BY <1>0, HomesFrame DEF SessionOf, AtHome, Names
    <3>3. \A i \in Careful : bound'[i] \in {NoDir, home'[i]}
        BY <1>0, <3>1, <3>2, HomesFrame DEF Canonical, Records
    <3>4. \A x \in Reqs : AtHome(run'[x], home')
        BY <1>0, <1>b, <2>1, HomesFrame DEF TypeOK
    <3>5. QED
        BY <1>0, <2>1, <3>1, <3>3, <3>4, HomesFrame DEF Homes, AtHome, Names
  <2>4. QED
      BY <2>1, <2>2, <2>3
<1>7. ASSUME NEW l \in Links, NEW d \in Dirs, Relink(l, d) PROVE Homes'
    BY <1>7 DEF Relink, storeVars, Homes, AtHome, Names
<1>8. ASSUME NEW roots \in RootSets, Restart(roots) PROVE Homes'
  <2>1. ASSUME NEW x \in Reqs PROVE AtHome(run'[x], home')
    <3>1. run'[x] = AfterCrash(run[x])
        BY <1>8 DEF Restart
    <3>2. CASE run[x] \in {New, Answered}
        BY <1>b, <3>1, <3>2, Shapes DEF AfterCrash
    <3>3. CASE run[x] \in Active /\ AfterCrash(run[x]) = Answered
        BY <1>b, <3>1, <3>3
    <3>4. CASE run[x] \in Active /\ AfterCrash(run[x]) # Answered
      <4>1. AfterCrash(run[x]).cwd = run[x].cwd /\ Names(AfterCrash(run[x])) = Names(run[x])
          BY <3>4, Shift DEF Names
      <4>2. QED
          BY <1>0, <3>1, <4>1, HomesFrame DEF AtHome
    <3>5. QED
        BY <3>2, <3>3, <3>4 DEF TypeOK
  <2>2. bound' \in past \union {Store!Nothing} /\ past' = {bound'} /\ history' = history
      BY <1>8 DEF Restart, Store!Restart
  <2>3. \A i \in Careful : bound'[i] \in {NoDir, home'[i]}
      BY <1>0, <2>2, HomesFrame DEF Store!Nothing
  <2>4. QED
      BY <1>0, <2>1, <2>2, <2>3, HomesFrame DEF Homes, AtHome, Names
<1>9. CASE UNCHANGED vars
    BY <1>9 DEF vars, Homes, AtHome, Names
<1>10. QED
    BY <1>1, <1>2, <1>3, <1>4, <1>5, <1>6, <1>7, <1>8, <1>9 DEF Next, Handle

\* Every directory that a session used with care is ever given is the same.
LEMMA HomesHold == Spec => []Homes
<1>1. Init => Homes
  <2> SUFFICES ASSUME Init PROVE Homes
      OBVIOUS
  <2>1. \A m \in past \union {bound} : \A i \in Careful : m[i] \in {NoDir, home[i]}
      BY DEF Init, Store!Init, Store!Nothing
  <2>2. \A r \in Reqs : AtHome(run[r], home)
      BY Shapes DEF Init, AtHome, Names, NoBody
  <2>3. QED
      BY <2>1, <2>2 DEF Init, Homes
<1>2. TypeOK /\ Canonical /\ Homes /\ [Next]_vars => Homes'
    BY HomesStep
<1>3. QED
    BY <1>1, <1>2, TypeCorrect, PTL DEF Spec

\* A session whose clients keep to its directory is never bound, in memory or
\* in any state that a restart may find, to a directory without its history
\* once it has one, whatever clients do with other sessions.
THEOREM BoundCorrect == Spec => []BoundWhereHistoryIs
<1>1. Homes => BoundWhereHistoryIs
    BY DEF Homes, HasHistory, BoundWhereHistoryIs
<1>2. QED
    BY <1>1, HomesHold, PTL

\* A resume of such a session, with or without its workdir, runs where it has
\* its history.
THEOREM ResumesCorrect == Spec => []ResumesInPlace
<1>1. TypeOK /\ Canonical /\ Homes => ResumesInPlace
  <2> SUFFICES ASSUME TypeOK, Canonical, Homes, NEW r \in Reqs, run[r].at = "running",
                      run[r].body.resume \in Careful, NEW e \in Dirs,
                      <<run[r].body.resume, e>> \in history
               PROVE  <<run[r].body.resume, Canon(run[r].cwd)>> \in history
      BY DEF ResumesInPlace, HasHistory
  <2>1. run[r].cwd \in Dirs
      BY Shapes DEF TypeOK, Canonical, Settled
  <2>2. e = home[run[r].body.resume] /\ run[r].cwd = home[run[r].body.resume]
      BY DEF Homes, AtHome, Names
  <2>3. Canon(run[r].cwd) = run[r].cwd
      BY <2>1 DEF Canon
  <2>4. QED
      BY <2>2, <2>3
<1>2. QED
    BY <1>1, HomesHold, TypeCorrect, PTL

Stays(i) ==
    Tied(i) => \/ Tied(i)'
               \/ bound'[i] = NoDir /\ \E roots \in RootSets : Restart(roots)

\* The binding of such a session to the directory of its history never moves
\* elsewhere, and nothing but a restart undoes it.
THEOREM TiedCorrect == Spec => StaysTied
<1>1. TypeOK /\ Canonical /\ Homes /\ Homes' /\ [Next]_vars
         => [\A i \in Careful : Stays(i)]_vars
  <2> SUFFICES ASSUME TypeOK, Canonical, Homes, Homes', [Next]_vars,
                      NEW i \in Careful, Tied(i)
               PROVE  Tied(i)' \/ (bound'[i] = NoDir /\ \E roots \in RootSets : Restart(roots))
      BY DEF Stays
  <2>1. history \subseteq history'
      BY DEF Next, Handle, Resolve, Busy, Start, StartFails, ClaudeWorks, ClaudeFails,
             Abandon, Upsert, Relink, Restart, vars
  <2>2. bound[i] \in Dirs /\ bound[i] = home[i] /\ i \in IDs
      BY DEF Tied, TypeOK, Homes
  <2>3. home'[i] = bound[i] /\ bound'[i] \in {NoDir, bound[i]}
    <3>1. home'[i] = home[i]
        BY <2>2, KeptStep DEF Kept
    <3>2. QED
        BY <2>2, <3>1 DEF Homes
  <2>4. ASSUME bound'[i] # NoDir PROVE Tied(i)'
      BY <2>1, <2>3, <2>4 DEF Tied
  <2>5. ASSUME NEW r \in Reqs, Upsert(r) PROVE bound'[i] # NoDir
    <3>1. run[r].cwd \in Dirs
        BY <2>5, Shapes DEF Upsert, TypeOK, Canonical, Settled
    <3>2. bound'[i] \in {bound[i], run[r].cwd}
        BY <2>2, <2>5 DEF Upsert, storeVars, Store!Put, Canonical, Records
    <3>3. QED
        BY <2>2, <3>1, <3>2
  <2>6. \/ \E r \in Reqs : Upsert(r)
        \/ \E roots \in RootSets : Restart(roots)
        \/ bound' = bound
      BY DEF Next, Handle, Resolve, Busy, Start, StartFails, Abandon, ClaudeWorks,
         ClaudeFails, Relink, vars, storeVars
  <2>7. QED
      BY <2>2, <2>3, <2>4, <2>5, <2>6
<1>2. StaysTied <=> [][\A i \in Careful : Stays(i)]_vars
    BY DEF StaysTied, Stays
<1>3. QED
    BY <1>1, <1>2, HomesHold, TypeCorrect, PTL DEF Spec

-----------------------------------------------------------------------------
\* What claude has reported to a run is a session with history in the
\* directory of the run, by the history h, and the one of the arguments
\* unless it is a fork.
Reported(q, h) ==
    /\ q.at # "ended" => q.shown = NoID
    /\ q.body.continue => q.sid = NoID
    /\ q.shown # NoID =>
          /\ <<q.shown, q.cwd>> \in h
          /\ q.sid \in {q.shown, NoID} \/ ForkOfResume(q.body)

ReportedRight == \A r \in Reqs : Reported(run[r], history)

LEMMA ReportedStep ==
    ASSUME TypeOK, Canonical, ReportedRight, [Next]_vars
    PROVE  ReportedRight'
<1> SUFFICES ASSUME NEW x \in Reqs PROVE Reported(run'[x], history')
    BY DEF ReportedRight, Reported
<1> USE DEF TypeOK, Canonical, ReportedRight
<1>0. Reported(New, history') /\ Reported(Answered, history')
    BY Shapes DEF Reported, NoBody
<1>a. \A r \in Reqs : run[r].at \in {"waiting", "running", "orphan", "ended"} =>
          run[r] \in Active /\ run[r].body \in Bodies /\ Settled(run[r])
    BY Shapes DEF Active
<1>b. history \subseteq history'
    BY DEF Next, Handle, Resolve, Busy, Start, StartFails, ClaudeWorks, ClaudeFails,
           Abandon, Upsert, Relink, Restart, vars
<1>c. Reported(run[x], history')
    BY <1>b DEF Reported
<1>1. ASSUME NEW r \in Reqs, NEW b \in Bodies, Resolve(r, b) PROVE Reported(run'[x], history')
  <2>1. \A d \in Resolved(b) : Reported(Asked(b, d), history')
      BY AskedShape DEF Reported, Resolved
  <2>2. QED
      BY <1>0, <1>c, <1>1, <2>1 DEF Resolve
<1>2. ASSUME NEW r \in Reqs, Busy(r) \/ Abandon(r) \/ Upsert(r) PROVE Reported(run'[x], history')
  <2>1. run' = [run EXCEPT ![r] = Answered]
      BY <1>2 DEF Busy, Abandon, Upsert
  <2>2. QED
      BY <1>0, <1>c, <2>1
<1>3. ASSUME NEW r \in Reqs, Start(r) \/ StartFails(r) PROVE Reported(run'[x], history')
  <2>1. run[r] \in Active /\ run[r].body \in Bodies /\ run[r].at = "waiting"
      BY <1>a, <1>3 DEF Start, StartFails
  <2>2. PICK i \in SessionIDs(run[r].body) :
           \/ run' = [run EXCEPT ![r] = Begun(@, i, "running")]
           \/ run' = [run EXCEPT ![r] = Begun(@, i, "ended")]
           \/ run' = [run EXCEPT ![r] = Answered]
      BY <1>3 DEF Start, StartFails
  <2>3. i \in IDs \union {NoID} /\ (run[r].body.continue => i = NoID)
      BY <2>1 DEF SessionIDs, Bodies, Unused
  <2>4. run[r].shown = NoID
      BY <2>1 DEF Reported
  <2>5. ASSUME NEW l \in {"running", "ended"}
        PROVE  Reported(Begun(run[r], i, l), history')
    <3>1. run[r] \in Active /\ i \in IDs \union {NoID}
        BY <2>1, <2>3
    <3>2. /\ Begun(run[r], i, l).sid = i /\ Begun(run[r], i, l).shown = run[r].shown
          /\ Begun(run[r], i, l).body = run[r].body
        BY <3>1, Sid
    <3>3. QED
        BY <2>3, <2>4, <3>2 DEF Reported
  <2>6. QED
      BY <1>0, <1>c, <2>2, <2>5
<1>4. ASSUME NEW r \in Reqs, ClaudeWorks(r) PROVE Reported(run'[x], history')
  <2>1. run[r] \in Active /\ run[r].body \in Bodies /\ run[r].cwd \in Dirs
        /\ run[r].at \in {"running", "orphan"}
      BY <1>a, <1>4 DEF ClaudeWorks, Settled
  <2>2. PICK o \in Origins(run[r]) :
           \E i \in IF run[r].body.fork THEN Unused ELSE {o} :
              /\ history' = history \union {<<i, Canon(run[r].cwd)>>}
              /\ run' = [run EXCEPT ![r] = Over(@, i)]
      BY <1>4 DEF ClaudeWorks
  <2>3. o \in IDs /\ (o = run[r].sid \/ run[r].sid = NoID)
    <3>1. CASE run[r].body.resume = NoID /\ run[r].body.continue
        BY <2>2, <3>1 DEF Origins, HistoryIn, Reported
    <3>2. CASE run[r].body.resume # NoID
        BY <2>2, <3>2 DEF Origins, HistoryIn
    <3>3. CASE run[r].body.resume = NoID /\ ~run[r].body.continue
        BY <1>a, <2>1, <2>2, <3>3 DEF Origins, Settled
    <3>4. QED
        BY <2>1, <3>1, <3>2, <3>3 DEF Bodies
  <2>4. PICK i \in IDs :
           /\ <<i, run[r].cwd>> \in history'
           /\ run' = [run EXCEPT ![r] = Over(@, i)]
           /\ i = o \/ run[r].body.fork
    <3>1. Canon(run[r].cwd) = run[r].cwd
        BY <2>1 DEF Canon
    <3>2. QED
        BY <2>2, <2>3, <3>1 DEF Unused
  <2>5. run[r].sid \in {i, NoID} \/ ForkOfResume(run[r].body)
    <3>1. CASE run[r].body.fork
        BY <2>1, <3>1 DEF Bodies, ForkOfResume, Reported
    <3>2. CASE ~run[r].body.fork
        BY <2>3, <2>4, <3>2
    <3>3. QED
        BY <3>1, <3>2
  <2>6. Reported(Over(run[r], i), history')
    <3>1. CASE Over(run[r], i) = Answered
        BY <1>0, <3>1
    <3>2. CASE Over(run[r], i) # Answered
      <4>1. /\ Over(run[r], i).at = "ended" /\ Over(run[r], i).shown = i
            /\ Over(run[r], i).sid = run[r].sid /\ Over(run[r], i).cwd = run[r].cwd
            /\ Over(run[r], i).body = run[r].body
          BY <2>1, <3>2, Shift
      <4>2. run[r].body.continue => run[r].sid = NoID
          BY DEF Reported
      <4>3. <<Over(run[r], i).shown, Over(run[r], i).cwd>> \in history'
          BY <2>4, <4>1
      <4>4. \/ Over(run[r], i).sid \in {Over(run[r], i).shown, NoID}
            \/ ForkOfResume(Over(run[r], i).body)
          BY <2>5, <4>1
      <4>5. Over(run[r], i).body.continue => Over(run[r], i).sid = NoID
          BY <4>1, <4>2
      <4>6. QED
          BY <4>1, <4>3, <4>4, <4>5 DEF Reported
    <3>3. QED
        BY <3>1, <3>2
  <2>7. QED
      BY <1>c, <2>4, <2>6
<1>5. ASSUME NEW r \in Reqs, ClaudeFails(r) PROVE Reported(run'[x], history')
  <2>1. run[r] \in Active /\ run' = [run EXCEPT ![r] = Over(@, NoID)]
      BY <1>a, <1>5 DEF ClaudeFails
  <2>2. Reported(Over(run[r], NoID), history')
    <3>1. CASE Over(run[r], NoID) = Answered
        BY <1>0, <3>1
    <3>2. CASE Over(run[r], NoID) # Answered
      <4>1. Over(run[r], NoID).at = "ended" /\ Over(run[r], NoID).shown = NoID
            /\ Over(run[r], NoID).sid = run[r].sid /\ Over(run[r], NoID).body = run[r].body
          BY <2>1, <3>2, Shift
      <4>2. QED
          BY <4>1 DEF Reported
    <3>3. QED
        BY <3>1, <3>2
  <2>3. QED
      BY <1>c, <2>1, <2>2
<1>6. ASSUME NEW l \in Links, NEW d \in Dirs, Relink(l, d) PROVE Reported(run'[x], history')
    BY <1>c, <1>6 DEF Relink
<1>7. ASSUME NEW roots \in RootSets, Restart(roots) PROVE Reported(run'[x], history')
  <2>1. ASSUME NEW r \in Reqs PROVE Reported(AfterCrash(run[r]), history')
    <3>1. CASE run[r] \in {New, Answered}
        BY <1>0, <3>1, Shapes DEF AfterCrash
    <3>2. CASE run[r] \in Active /\ AfterCrash(run[r]) = Answered
        BY <1>0, <3>2
    <3>3. CASE run[r] \in Active /\ AfterCrash(run[r]) # Answered
      <4>1. /\ run[r].at \in {"running", "orphan"} /\ AfterCrash(run[r]).at = "orphan"
            /\ AfterCrash(run[r]).shown = run[r].shown
            /\ AfterCrash(run[r]).sid = run[r].sid
            /\ AfterCrash(run[r]).body = run[r].body
          BY <3>3, Shift
      <4>2. QED
          BY <4>1 DEF Reported
    <3>4. QED
        BY <3>1, <3>2, <3>3
  <2>2. QED
      BY <1>c, <1>7, <2>1 DEF Restart
<1>8. CASE UNCHANGED vars
    BY <1>8, <1>c DEF vars
<1>9. QED
    BY <1>1, <1>2, <1>3, <1>4, <1>5, <1>6, <1>7, <1>8 DEF Next, Handle

\* Whatever the clients send, a run that claude has reported a session to
\* leaves it bound to the directory of its history, forks of a resume excepted.
THEOREM ReportedCorrect == Spec => ReportedIsTied
<1>1. Init => ReportedRight
    BY Shapes DEF Init, ReportedRight, Reported, NoBody
<1>2. TypeOK /\ Canonical /\ ReportedRight /\ [Next]_vars => ReportedRight'
    BY ReportedStep
<1>3. TypeOK /\ Canonical /\ ReportedRight /\ [Next]_vars
         => [\A r \in Reqs, i \in IDs :
                Upsert(r) /\ run[r].shown = i /\ ~ForkOfResume(run[r].body) => Tied(i)']_vars
  <2> SUFFICES ASSUME TypeOK, ReportedRight, NEW r \in Reqs, NEW i \in IDs, Upsert(r),
                      run[r].shown = i, ~ForkOfResume(run[r].body)
               PROVE  Tied(i)'
      OBVIOUS
  <2>1. <<i, run[r].cwd>> \in history /\ run[r].sid \in {i, NoID}
      BY DEF ReportedRight, Reported
  <2>2. SessionOf(run[r]) = i
      BY <2>1 DEF SessionOf
  <2>3. bound'[i] = run[r].cwd /\ history' = history
      BY <2>2 DEF Upsert, TypeOK, Store!Put
  <2>4. QED
      BY <2>1, <2>3 DEF Tied
<1>4. QED
    BY <1>1, <1>2, <1>3, TypeCorrect, PTL DEF Spec, ReportedIsTied
=============================================================================
