----------------------------- MODULE RunsProofs -----------------------------
(***************************************************************************)
(* Proofs about Runs for every set of requests, any number of slots, with  *)
(* and without a timeout.                                                  *)
(***************************************************************************)
EXTENDS RunsProperties, FiniteSetTheorems, SequenceTheorems, TLAPS

\* What is left of a sequence without its i-th element.
LEMMA RemoveAtProperties ==
    ASSUME NEW S, NEW q \in Seq(S), NEW i \in DOMAIN q
    PROVE  /\ RemoveAt(q, i) \in Seq(S)
           /\ Len(RemoveAt(q, i)) = Len(q) - 1
           /\ \A j \in 1 .. Len(q) - 1 :
                 RemoveAt(q, i)[j] = IF j < i THEN q[j] ELSE q[j + 1]
  <1>1. i \in 1 .. Len(q) /\ Len(q) \in Nat
    OBVIOUS
  <1> DEFINE a == SubSeq(q, 1, i - 1)
             b == SubSeq(q, i + 1, Len(q))
  <1>2. a \in Seq(S) /\ Len(a) = i - 1 /\ \A j \in 1 .. i - 1 : a[j] = q[j]
    BY <1>1
  <1>3. b \in Seq(S) /\ Len(b) = Len(q) - i /\ \A j \in 1 .. Len(q) - i : b[j] = q[i + j]
    BY <1>1
  <1> HIDE DEF a, b
  <1>4. RemoveAt(q, i) = a \o b
    BY DEF RemoveAt, a, b
  <1>5. /\ a \o b \in Seq(S) /\ Len(a \o b) = Len(a) + Len(b)
        /\ \A j \in 1 .. Len(a) + Len(b) :
              (a \o b)[j] = IF j <= Len(a) THEN a[j] ELSE b[j - Len(a)]
    BY <1>2, <1>3, ConcatProperties
  <1>6. ASSUME NEW j \in 1 .. Len(q) - 1
        PROVE  (a \o b)[j] = IF j < i THEN q[j] ELSE q[j + 1]
    <2>1. CASE j < i
      BY <1>1, <1>2, <1>3, <1>5, <2>1
    <2>2. CASE j >= i
      <3>1. (a \o b)[j] = b[j - Len(a)]
        <4>1. j \in 1 .. Len(a) + Len(b) /\ ~(j <= Len(a))
          BY <1>1, <1>2, <1>3, <2>2
        <4>. QED
          BY <1>5, <4>1
      <3>2. j - (i - 1) \in 1 .. Len(q) - i
        BY <1>1, <2>2
      <3>3. b[j - (i - 1)] = q[i + (j - (i - 1))]
        BY <1>3, <3>2
      <3>4. i + (j - (i - 1)) = j + 1
        BY <1>1
      <3>. QED
        BY <1>1, <1>2, <2>2, <3>1, <3>3, <3>4
    <2>3. j < i \/ j >= i
      BY <1>1
    <2>. QED
      BY <2>1, <2>2, <2>3
  <1>. QED
    BY <1>1, <1>2, <1>3, <1>4, <1>5, <1>6
-----------------------------------------------------------------------------
(* Types *)

\* Every step keeps the type invariant.
LEMMA TypeStep == TypeOK /\ [Next]_vars => TypeOK'
  <1> SUFFICES ASSUME TypeOK, [Next]_vars PROVE TypeOK'
    OBVIOUS
  <1> USE RunsAssumption DEF TypeOK, PCs, Replies, Started, Goto, Answer,
                             semVars, reqVars, procVars
  <1>1. ASSUME NEW r \in Reqs, RefuseRun(r) PROVE TypeOK'
    BY <1>1 DEF RefuseRun
  <1>2. ASSUME NEW r \in Reqs, RunContext(r) PROVE TypeOK'
    BY <1>2 DEF RunContext
  <1>3. ASSUME NEW r \in Reqs, AcquireSlot(r) PROVE TypeOK'
    BY <1>3 DEF AcquireSlot
  <1>4. ASSUME NEW r \in Reqs, JoinQueue(r) PROVE TypeOK'
    BY <1>4 DEF JoinQueue
  <1>5. ASSUME NEW r \in Reqs, AcquireFails(r) PROVE TypeOK'
    BY <1>5 DEF AcquireFails
  <1>6. ASSUME NEW r \in Reqs, Granted(r) PROVE TypeOK'
    BY <1>6 DEF Granted
  <1>7. ASSUME NEW r \in Reqs, GiveUp(r) PROVE TypeOK'
    <2>1. slot' \subseteq Reqs /\ queue' \in Seq(Reqs)
      <3>1. CASE r \in slot /\ FreeSlot(r)
        BY <3>1 DEF FreeSlot
      <3>2. CASE UNCHANGED slot /\ \E i \in DOMAIN queue : queue' = RemoveAt(queue, i)
        BY <3>2, RemoveAtProperties
      <3>. QED
        BY <1>7, <3>1, <3>2 DEF GiveUp
    <2>. QED
      BY <1>7, <2>1 DEF GiveUp
  <1>8. ASSUME NEW r \in Reqs, StartRefused(r) PROVE TypeOK'
    BY <1>8 DEF StartRefused, NotStarted
  <1>9. ASSUME NEW r \in Reqs, StartFails(r) PROVE TypeOK'
    BY <1>9 DEF StartFails, NotStarted
  <1>10. ASSUME NEW r \in Reqs, StartClaude(r) PROVE TypeOK'
    BY <1>10 DEF StartClaude
  <1>11. ASSUME NEW r \in Reqs, ScanLine(r) \/ RelayLine(r) PROVE TypeOK'
    <2>1. ASSUME ScanLine(r) PROVE TypeOK'
      <3>1. PICK next \in {"write", "scan"} : Goto(r, next)
        BY <2>1 DEF ScanLine
      <3>. QED
        BY <2>1, <3>1 DEF ScanLine
    <2>2. ASSUME RelayLine(r) PROVE TypeOK'
      BY <2>2 DEF RelayLine
    <2>. QED
      BY <1>11, <2>1, <2>2
  <1>12. ASSUME NEW r \in Reqs, WriteFails(r) PROVE TypeOK'
    BY <1>12 DEF WriteFails
  <1>13. ASSUME NEW r \in Reqs, LineTooLong(r) PROVE TypeOK'
    BY <1>13 DEF LineTooLong
  <1>14. ASSUME NEW r \in Reqs, ScanEOF(r) PROVE TypeOK'
    BY <1>14 DEF ScanEOF
  <1>15. ASSUME NEW r \in Reqs, Reap(r) PROVE TypeOK'
    BY <1>15 DEF Reap
  <1>16. ASSUME NEW r \in Reqs, WaitReturns(r) PROVE TypeOK'
    BY <1>16 DEF WaitReturns
  <1>17. ASSUME NEW r \in Reqs, Upsert(r) PROVE TypeOK'
    BY <1>17 DEF Upsert
  <1>18. ASSUME NEW r \in Reqs, Reply(r) PROVE TypeOK'
    <2>1. StreamEnd(r) \in Replies /\ \A a \in Verdicts(r) : a \in Replies
      BY DEF StreamEnd, Verdicts
    <2>. QED
      BY <1>18, <2>1 DEF Reply
  <1>19. ASSUME NEW r \in Reqs, Release(r) PROVE TypeOK'
    BY <1>19 DEF Release, FreeSlot
  <1>20. ASSUME NEW r \in Reqs, CancelContext(r) PROVE TypeOK'
    BY <1>20 DEF CancelContext
  <1>21. ASSUME NEW r \in Reqs, EmitLine(r) PROVE TypeOK'
    BY <1>21 DEF EmitLine
  <1>22. ASSUME NEW r \in Reqs, ClaudeExits(r) PROVE TypeOK'
    BY <1>22 DEF ClaudeExits
  <1>23. ASSUME NEW r \in Reqs, SpawnTool(r) PROVE TypeOK'
    BY <1>23 DEF SpawnTool
  <1>24. ASSUME NEW r \in Reqs, ToolEnds(r) PROVE TypeOK'
    BY <1>24 DEF ToolEnds
  <1>25. ASSUME NEW r \in Reqs, KillClaude(r) PROVE TypeOK'
    BY <1>25 DEF KillClaude
  <1>26. ASSUME NEW r \in Reqs, Deadline(r) PROVE TypeOK'
    BY <1>26 DEF Deadline
  <1>27. ASSUME NEW r \in Reqs, ConnLost(r) PROVE TypeOK'
    BY <1>27 DEF ConnLost
  <1>28. ASSUME NEW r \in Reqs, Disconnect(r) PROVE TypeOK'
    BY <1>28 DEF Disconnect, Client
  <1>29. ASSUME NEW r \in Reqs, Stall(r) PROVE TypeOK'
    BY <1>29 DEF Stall, Client
  <1>30. ASSUME NEW r \in Reqs, Resume(r) PROVE TypeOK'
    BY <1>30 DEF Resume, Client
  <1>31. CASE UNCHANGED vars
    BY <1>31 DEF vars
  <1>. QED
    BY <1>1, <1>2, <1>3, <1>4, <1>5, <1>6, <1>7, <1>8, <1>9, <1>10, <1>11, <1>12, <1>13, <1>14, <1>15, <1>16, <1>17, <1>18, <1>19, <1>20, <1>21, <1>22, <1>23, <1>24, <1>25, <1>26, <1>27, <1>28, <1>29, <1>30, <1>31 DEF Next, Handler, Arrives, Runnable, Claude, Outside, Finished

\* The variables of Runs always have the types that TypeOK gives them.
THEOREM TypeCorrect == Spec => []TypeOK
  <1>1. Init => TypeOK
    BY RunsAssumption DEF Init, TypeOK, PCs, Replies, Started
  <1>. QED
    BY <1>1, TypeStep, PTL DEF Spec
-----------------------------------------------------------------------------
(* The semaphore *)

\* A step that moves no token, no waiter and no handler into or out of the
\* part of handleRuns that holds a slot.
SamePlaces ==
    /\ UNCHANGED semVars
    /\ \A x \in Reqs : /\ pc'[x] \in Slotted <=> pc[x] \in Slotted
                       /\ pc'[x] = "queued" <=> pc[x] = "queued"

\* Only five actions touch the semaphore or the places around it.
LEMMA SemaphoreSteps ==
    ASSUME TypeOK, [Next]_vars
    PROVE  \/ SamePlaces
           \/ \E r \in Reqs : AcquireSlot(r) \/ JoinQueue(r) \/ Granted(r)
                            \/ GiveUp(r) \/ Release(r)
  <1> DEFINE Five == \E r \in Reqs : AcquireSlot(r) \/ JoinQueue(r) \/ Granted(r)
                                     \/ GiveUp(r) \/ Release(r)
  <1> USE DEF SamePlaces, Slotted, TypeOK, Goto, Answer, semVars, reqVars, procVars
  <1>1. ASSUME NEW r \in Reqs, RefuseRun(r) PROVE SamePlaces
    BY <1>1 DEF RefuseRun
  <1>2. ASSUME NEW r \in Reqs, RunContext(r) PROVE SamePlaces
    BY <1>2 DEF RunContext
  <1>3. ASSUME NEW r \in Reqs, AcquireFails(r) PROVE SamePlaces
    BY <1>3 DEF AcquireFails
  <1>4. ASSUME NEW r \in Reqs, StartRefused(r) PROVE SamePlaces
    BY <1>4 DEF StartRefused, NotStarted
  <1>5. ASSUME NEW r \in Reqs, StartFails(r) PROVE SamePlaces
    BY <1>5 DEF StartFails, NotStarted
  <1>6. ASSUME NEW r \in Reqs, StartClaude(r) PROVE SamePlaces
    BY <1>6 DEF StartClaude
  <1>7. ASSUME NEW r \in Reqs, ScanLine(r) \/ RelayLine(r) PROVE SamePlaces
    BY <1>7 DEF ScanLine, RelayLine
  <1>8. ASSUME NEW r \in Reqs, WriteFails(r) PROVE SamePlaces
    BY <1>8 DEF WriteFails
  <1>9. ASSUME NEW r \in Reqs, LineTooLong(r) PROVE SamePlaces
    BY <1>9 DEF LineTooLong
  <1>10. ASSUME NEW r \in Reqs, ScanEOF(r) PROVE SamePlaces
    BY <1>10 DEF ScanEOF
  <1>11. ASSUME NEW r \in Reqs, Reap(r) PROVE SamePlaces
    BY <1>11 DEF Reap
  <1>12. ASSUME NEW r \in Reqs, WaitReturns(r) PROVE SamePlaces
    BY <1>12 DEF WaitReturns
  <1>13. ASSUME NEW r \in Reqs, Upsert(r) PROVE SamePlaces
    BY <1>13 DEF Upsert
  <1>14. ASSUME NEW r \in Reqs, Reply(r) PROVE SamePlaces
    BY <1>14 DEF Reply
  <1>15. ASSUME NEW r \in Reqs, CancelContext(r) PROVE SamePlaces
    BY <1>15 DEF CancelContext
  <1>16. ASSUME NEW r \in Reqs, EmitLine(r) PROVE SamePlaces
    BY <1>16 DEF EmitLine
  <1>17. ASSUME NEW r \in Reqs, ClaudeExits(r) PROVE SamePlaces
    BY <1>17 DEF ClaudeExits
  <1>18. ASSUME NEW r \in Reqs, SpawnTool(r) PROVE SamePlaces
    BY <1>18 DEF SpawnTool
  <1>19. ASSUME NEW r \in Reqs, ToolEnds(r) PROVE SamePlaces
    BY <1>19 DEF ToolEnds
  <1>20. ASSUME NEW r \in Reqs, KillClaude(r) PROVE SamePlaces
    BY <1>20 DEF KillClaude
  <1>21. ASSUME NEW r \in Reqs, Deadline(r) PROVE SamePlaces
    BY <1>21 DEF Deadline
  <1>22. ASSUME NEW r \in Reqs, ConnLost(r) PROVE SamePlaces
    BY <1>22 DEF ConnLost
  <1>23. ASSUME NEW r \in Reqs, Disconnect(r) PROVE SamePlaces
    BY <1>23 DEF Disconnect, Client
  <1>24. ASSUME NEW r \in Reqs, Stall(r) PROVE SamePlaces
    BY <1>24 DEF Stall, Client
  <1>25. ASSUME NEW r \in Reqs, Resume(r) PROVE SamePlaces
    BY <1>25 DEF Resume, Client
  <1>26. CASE UNCHANGED vars
    BY <1>26 DEF vars
  <1>27. ASSUME NEW r \in Reqs, AcquireSlot(r) \/ JoinQueue(r) \/ Granted(r) \/ GiveUp(r) \/ Release(r)
        PROVE  Five
    BY <1>27
  <1>. HIDE DEF SamePlaces, Five
  <1>. QED
    BY <1>1, <1>2, <1>3, <1>4, <1>5, <1>6, <1>7, <1>8, <1>9, <1>10, <1>11, <1>12, <1>13, <1>14, <1>15, <1>16, <1>17, <1>18, <1>19, <1>20, <1>21, <1>22, <1>23, <1>24, <1>25, <1>26, <1>27
       DEF Next, Handler, Arrives, Runnable, Claude, Outside, Finished, Five

SlotInv == SlotsBalanced /\ NoLostWakeup

\* A handler that leaves gives its token to the first waiter or frees it:
\* nothing leaks and nobody stays asleep beside a free slot.
LEMMA TokenPassedOn ==
    ASSUME TypeOK, SlotInv, NEW r \in Reqs, r \in slot, ~InQueue(r), FreeSlot(r),
           NEW l, l \notin Slotted, l # "queued", pc' = [pc EXCEPT ![r] = l]
    PROVE  SlotInv'
  <1> USE DEF TypeOK, Slotted, InQueue
  <1>1. IsFiniteSet(slot) /\ Cardinality(slot) \in Nat /\ MaxConcurrency \in Nat
    BY RunsAssumption, FS_CardinalityType DEF SlotInv, SlotsBalanced
  <1>2. IsFiniteSet(slot \ {r}) /\ Cardinality(slot \ {r}) = Cardinality(slot) - 1
    BY <1>1, FS_RemoveElement
  <1>3. CASE queue = <<>>
    <2>1. slot' = slot \ {r} /\ queue' = <<>>
      BY <1>3 DEF FreeSlot
    <2>. QED
      BY <1>1, <1>2, <1>3, <2>1 DEF SlotInv, SlotsBalanced, NoLostWakeup
  <1>4. CASE queue # <<>>
    <2> DEFINE h == Head(queue)
    <2>1. slot' = (slot \ {r}) \union {h} /\ queue' = Tail(queue)
      BY <1>4 DEF FreeSlot
    <2>2. /\ h = queue[1] /\ 1 \in DOMAIN queue /\ h \in Reqs
          /\ Len(Tail(queue)) = Len(queue) - 1
          /\ DOMAIN Tail(queue) = 1 .. Len(queue) - 1
          /\ \A i \in 1 .. Len(queue) - 1 : Tail(queue)[i] = queue[i + 1]
      BY <1>4
    <2> HIDE DEF h
    <2>3. h \notin slot /\ h # r /\ pc[h] = "queued"
      <3>1. pc[h] = "queued" /\ InQueue(h)
        BY <2>2 DEF SlotInv, SlotsBalanced
      <3>. QED
        BY <2>2, <3>1 DEF SlotInv, SlotsBalanced
    <2>4. IsFiniteSet(slot') /\ Cardinality(slot') = Cardinality(slot)
      <3>1. h \notin slot \ {r}
        BY <2>3
      <3>2. Cardinality((slot \ {r}) \union {h}) = Cardinality(slot \ {r}) + 1
        BY <1>2, <3>1, FS_AddElement
      <3>3. IsFiniteSet((slot \ {r}) \union {h})
        BY <1>2, FS_AddElement
      <3>. QED
        BY <1>1, <1>2, <2>1, <3>2, <3>3
    <2>5. \A x \in Reqs : InQueue(x)' <=> InQueue(x) /\ x # h
      <3> SUFFICES ASSUME NEW x \in Reqs
                   PROVE  InQueue(x)' <=> InQueue(x) /\ x # h
        OBVIOUS
      <3>1. ASSUME NEW i \in DOMAIN queue', queue'[i] = x
            PROVE  InQueue(x) /\ x # h
        <4>1. i + 1 \in DOMAIN queue /\ queue[i + 1] = x /\ i + 1 # 1
          BY <2>1, <2>2, <3>1
        <4>. QED
          BY <2>2, <4>1 DEF SlotInv, SlotsBalanced
      <3>2. ASSUME NEW i \in DOMAIN queue, queue[i] = x, x # h
            PROVE  InQueue(x)'
        <4>1. i - 1 \in DOMAIN Tail(queue) /\ Tail(queue)[i - 1] = x
          BY <2>2, <3>2
        <4>. QED
          BY <2>1, <4>1
      <3>. QED
        BY <3>1, <3>2
    <2>6. \A x \in Reqs :
             x \in slot' <=> pc'[x] \in Slotted \/ (pc'[x] = "queued" /\ ~InQueue(x)')
      <3> SUFFICES ASSUME NEW x \in Reqs
                   PROVE  x \in slot' <=> pc'[x] \in Slotted
                                          \/ (pc'[x] = "queued" /\ ~InQueue(x)')
        OBVIOUS
      <3>1. CASE x = r
        BY <2>1, <2>3, <3>1
      <3>2. CASE x = h
        BY <2>1, <2>3, <2>5, <3>2
      <3>3. CASE x # r /\ x # h
        BY <2>1, <2>5, <3>3 DEF SlotInv, SlotsBalanced
      <3>. QED
        BY <3>1, <3>2, <3>3
    <2>7. /\ \A i \in DOMAIN queue' : pc'[queue'[i]] = "queued"
          /\ \A i, j \in DOMAIN queue' : queue'[i] = queue'[j] => i = j
      <3>1. ASSUME NEW i \in DOMAIN queue'
            PROVE  i + 1 \in DOMAIN queue /\ queue'[i] = queue[i + 1]
        BY <2>1, <2>2
      <3>2. ASSUME NEW i \in DOMAIN queue'
            PROVE  pc'[queue'[i]] = "queued"
        <4>1. pc[queue[i + 1]] = "queued" /\ queue[i + 1] # r
          BY <3>1 DEF SlotInv, SlotsBalanced
        <4>. QED
          BY <3>1, <4>1
      <3>3. ASSUME NEW i \in DOMAIN queue', NEW j \in DOMAIN queue', queue'[i] = queue'[j]
            PROVE  i = j
        <4>1. i + 1 = j + 1
          BY <3>1, <3>3 DEF SlotInv, SlotsBalanced
        <4>2. i \in Nat /\ j \in Nat
          BY <2>1, <2>2
        <4>. QED
          BY <4>1, <4>2
      <3>. QED
        BY <3>2, <3>3
    <2>8. Cardinality(slot) = MaxConcurrency
      BY <1>4 DEF SlotInv, NoLostWakeup
    <2>. QED
      BY <1>1, <2>4, <2>6, <2>7, <2>8 DEF SlotInv, SlotsBalanced, NoLostWakeup
  <1>. QED
    BY <1>3, <1>4

\* A waiter that gives up before it was granted anything leaves the others in
\* their order and touches no token.
LEMMA WaiterRemoved ==
    ASSUME TypeOK, SlotInv, NEW r \in Reqs, pc[r] = "queued", r \notin slot,
           NEW k \in DOMAIN queue, queue[k] = r, queue' = RemoveAt(queue, k),
           slot' = slot, pc' = [pc EXCEPT ![r] = "cancel"]
    PROVE  SlotInv'
  <1> USE DEF TypeOK, InQueue
  <1> DEFINE old(i) == IF i < k THEN i ELSE i + 1
  <1>1. /\ DOMAIN queue' = 1 .. Len(queue) - 1
        /\ \A i \in 1 .. Len(queue) - 1 : queue'[i] = queue[old(i)]
    <2>1. /\ queue' \in Seq(Reqs) /\ Len(queue') = Len(queue) - 1
          /\ \A j \in 1 .. Len(queue) - 1 :
                queue'[j] = IF j < k THEN queue[j] ELSE queue[j + 1]
      BY RemoveAtProperties
    <2>. QED
      BY <2>1
  <1>2. DOMAIN queue = 1 .. Len(queue) /\ Len(queue) \in Nat /\ k \in 1 .. Len(queue)
    OBVIOUS
  <1>3. ASSUME NEW i \in DOMAIN queue'
        PROVE  old(i) \in DOMAIN queue /\ old(i) # k /\ queue'[i] = queue[old(i)]
    BY <1>1, <1>2
  <1>4. ASSUME NEW i \in DOMAIN queue'
        PROVE  queue'[i] # r /\ pc'[queue'[i]] = "queued"
    <2>1. queue[old(i)] # r /\ pc[queue[old(i)]] = "queued"
      BY <1>3 DEF SlotInv, SlotsBalanced
    <2>. QED
      BY <1>3, <2>1
  <1>5. ASSUME NEW i \in DOMAIN queue', NEW j \in DOMAIN queue', queue'[i] = queue'[j]
        PROVE  i = j
    <2>1. old(i) = old(j)
      BY <1>3, <1>5 DEF SlotInv, SlotsBalanced
    <2>. QED
      BY <1>1, <1>2, <2>1
  <1>6. ASSUME NEW x \in Reqs, x # r
        PROVE  InQueue(x)' <=> InQueue(x)
    <2>1. ASSUME NEW i \in DOMAIN queue', queue'[i] = x
          PROVE  InQueue(x)
      BY <1>3, <2>1
    <2>2. ASSUME NEW i \in DOMAIN queue, queue[i] = x
          PROVE  InQueue(x)'
      <3>1. i # k
        BY <1>6, <2>2
      <3>2. CASE i < k
        <4>1. i \in 1 .. Len(queue) - 1 /\ old(i) = i
          BY <1>2, <3>2
        <4>. QED
          BY <1>1, <2>2, <4>1
      <3>3. CASE i > k
        <4>1. i - 1 \in 1 .. Len(queue) - 1 /\ old(i - 1) = i
          BY <1>2, <3>3
        <4>. QED
          BY <1>1, <2>2, <4>1
      <3>4. i < k \/ i > k
        BY <1>2, <3>1
      <3>. QED
        BY <3>2, <3>3, <3>4
    <2>. QED
      BY <2>1, <2>2
  <1>7. ASSUME NEW x \in Reqs
        PROVE  x \in slot' <=> pc'[x] \in Slotted \/ (pc'[x] = "queued" /\ ~InQueue(x)')
    <2>1. CASE x = r
      <3>1. x \notin slot' /\ pc'[x] = "cancel"
        BY <2>1
      <3>. QED
        BY <3>1 DEF Slotted
    <2>2. CASE x # r
      <3>1. pc'[x] = pc[x] /\ slot' = slot
        BY <2>2
      <3>2. x \in slot <=> pc[x] \in Slotted \/ (pc[x] = "queued" /\ ~InQueue(x))
        BY DEF SlotInv, SlotsBalanced
      <3>3. InQueue(x)' <=> InQueue(x)
        BY <1>6, <2>2
      <3> HIDE DEF InQueue
      <3>. QED
        BY <3>1, <3>2, <3>3
    <2>. QED
      BY <2>1, <2>2
  <1>8. NoLostWakeup'
    BY <1>2 DEF SlotInv, NoLostWakeup
  <1>9. IsFiniteSet(slot') /\ Cardinality(slot') <= MaxConcurrency
    BY DEF SlotInv, SlotsBalanced
  <1>. QED
    BY <1>4, <1>5, <1>7, <1>8, <1>9 DEF SlotInv, SlotsBalanced

\* The slot invariant is inductive.
LEMMA SlotStep == TypeOK /\ SlotInv /\ [Next]_vars => SlotInv'
  <1> SUFFICES ASSUME TypeOK, SlotInv, [Next]_vars PROVE SlotInv'
    OBVIOUS
  <1>1. IsFiniteSet(slot) /\ Cardinality(slot) \in Nat /\ MaxConcurrency \in Nat
    BY RunsAssumption, FS_CardinalityType DEF SlotInv, SlotsBalanced
  <1>2. CASE SamePlaces
    <2>1. slot' = slot /\ queue' = queue /\ \A x \in Reqs : InQueue(x)' <=> InQueue(x)
      BY <1>2 DEF SamePlaces, semVars, InQueue
    <2>2. \A i \in DOMAIN queue : queue[i] \in Reqs
      BY DEF TypeOK
    <2>. QED
      BY <1>2, <2>1, <2>2 DEF SamePlaces, SlotInv, SlotsBalanced, NoLostWakeup
  <1>3. ASSUME NEW r \in Reqs, AcquireSlot(r) PROVE SlotInv'
    <2>1. /\ slot' = slot \union {r} /\ queue' = queue /\ queue = <<>>
          /\ Cardinality(slot) < MaxConcurrency
          /\ pc[r] = "acquire" /\ pc' = [pc EXCEPT ![r] = "start"]
      BY <1>3 DEF AcquireSlot, SlotFree, Goto
    <2>2. r \notin slot
      BY <2>1 DEF SlotInv, SlotsBalanced, Slotted
    <2>3. IsFiniteSet(slot') /\ Cardinality(slot') = Cardinality(slot) + 1
      BY <1>1, <2>1, <2>2, FS_AddElement
    <2>4. Cardinality(slot') <= MaxConcurrency
      BY <1>1, <2>1, <2>3
    <2>5. \A x \in Reqs : ~InQueue(x) /\ ~InQueue(x)'
      BY <2>1 DEF InQueue
    <2>6. \A x \in Reqs :
             x \in slot' <=> pc'[x] \in Slotted \/ (pc'[x] = "queued" /\ ~InQueue(x)')
      BY <2>1, <2>2, <2>5 DEF SlotInv, SlotsBalanced, Slotted, TypeOK
    <2>. QED
      BY <2>1, <2>3, <2>4, <2>6 DEF SlotInv, SlotsBalanced, NoLostWakeup
  <1>4. ASSUME NEW r \in Reqs, JoinQueue(r) PROVE SlotInv'
    <2>1. /\ slot' = slot /\ queue' = Append(queue, r)
          /\ pc[r] = "acquire" /\ pc' = [pc EXCEPT ![r] = "queued"]
      BY <1>4 DEF JoinQueue, Goto
    <2>2. Cardinality(slot) = MaxConcurrency
      BY <1>1, <1>4 DEF JoinQueue, SlotFree, SlotInv, SlotsBalanced, NoLostWakeup
    <2>3. /\ DOMAIN queue = 1 .. Len(queue) /\ Len(queue) \in Nat
          /\ DOMAIN queue' = 1 .. Len(queue) + 1
          /\ \A i \in 1 .. Len(queue) : queue'[i] = queue[i]
          /\ queue'[Len(queue) + 1] = r
      BY <2>1 DEF TypeOK
    <2>4. \A i \in DOMAIN queue : queue[i] # r /\ queue[i] \in Reqs
      BY <2>1 DEF TypeOK, SlotInv, SlotsBalanced
    <2>5. \A x \in Reqs : InQueue(x)' <=> InQueue(x) \/ x = r
      BY <2>3 DEF InQueue
    <2>6. \A x \in Reqs :
             x \in slot' <=> pc'[x] \in Slotted \/ (pc'[x] = "queued" /\ ~InQueue(x)')
      BY <2>1, <2>5 DEF SlotInv, SlotsBalanced, Slotted, TypeOK
    <2>7. \A i \in DOMAIN queue' : pc'[queue'[i]] = "queued"
      BY <2>1, <2>3, <2>4 DEF SlotInv, SlotsBalanced, TypeOK
    <2>8. \A i, j \in DOMAIN queue' : queue'[i] = queue'[j] => i = j
      BY <2>3, <2>4 DEF SlotInv, SlotsBalanced
    <2>. QED
      BY <1>1, <2>1, <2>2, <2>6, <2>7, <2>8 DEF SlotInv, SlotsBalanced, NoLostWakeup
  <1>5. ASSUME NEW r \in Reqs, Granted(r) PROVE SlotInv'
    <2>1. /\ slot' = slot /\ queue' = queue /\ r \in slot
          /\ pc[r] = "queued" /\ pc' = [pc EXCEPT ![r] = "start"]
      BY <1>5 DEF Granted, Goto, semVars
    <2>2. \A i \in DOMAIN queue : queue[i] # r /\ queue[i] \in Reqs
      <3>1. ~InQueue(r)
        BY <2>1 DEF SlotInv, SlotsBalanced, Slotted
      <3>. QED
        BY <3>1 DEF InQueue, TypeOK
    <2>3. \A x \in Reqs :
             x \in slot' <=> pc'[x] \in Slotted \/ (pc'[x] = "queued" /\ ~InQueue(x)')
      <3>1. \A x \in Reqs : InQueue(x)' <=> InQueue(x)
        BY <2>1 DEF InQueue
      <3>2. \A x \in Reqs :
               x \in slot <=> pc[x] \in Slotted \/ (pc[x] = "queued" /\ ~InQueue(x))
        BY DEF SlotInv, SlotsBalanced
      <3>. QED
        BY <2>1, <3>1, <3>2 DEF Slotted, TypeOK
    <2>4. \A i \in DOMAIN queue' : pc'[queue'[i]] = "queued"
      BY <2>1, <2>2 DEF SlotInv, SlotsBalanced, TypeOK
    <2>. QED
      BY <2>1, <2>3, <2>4 DEF SlotInv, SlotsBalanced, NoLostWakeup
  <1>6. ASSUME NEW r \in Reqs, GiveUp(r) PROVE SlotInv'
    <2>1. pc[r] = "queued" /\ pc' = [pc EXCEPT ![r] = "cancel"]
      BY <1>6 DEF GiveUp, Goto
    <2>2. CASE r \in slot /\ FreeSlot(r)
      <3>1. ~InQueue(r)
        BY <2>1, <2>2 DEF SlotInv, SlotsBalanced, Slotted
      <3>. QED
        BY <2>1, <2>2, <3>1, TokenPassedOn DEF Slotted
    <2>3. CASE /\ r \notin slot /\ UNCHANGED slot
               /\ \E i \in DOMAIN queue : queue[i] = r /\ queue' = RemoveAt(queue, i)
      BY <2>1, <2>3, WaiterRemoved
    <2>. QED
      BY <1>6, <2>2, <2>3 DEF GiveUp
  <1>7. ASSUME NEW r \in Reqs, Release(r) PROVE SlotInv'
    <2>1. pc[r] = "release" /\ pc' = [pc EXCEPT ![r] = "cancel"] /\ FreeSlot(r)
      BY <1>7 DEF Release, Goto
    <2>2. r \in slot /\ ~InQueue(r)
      BY <2>1 DEF SlotInv, SlotsBalanced, Slotted, InQueue
    <2>. QED
      BY <2>1, <2>2, TokenPassedOn DEF Slotted
  <1>. QED
    BY <1>2, <1>3, <1>4, <1>5, <1>6, <1>7, SemaphoreSteps

LEMMA SlotInvariant == Spec => []SlotInv
  <1>1. Init => SlotInv
    <2> SUFFICES ASSUME Init PROVE SlotInv
      OBVIOUS
    <2>1. IsFiniteSet(slot) /\ Cardinality(slot) = 0
      BY FS_EmptySet DEF Init
    <2>. QED
      BY <2>1, RunsAssumption DEF Init, SlotInv, SlotsBalanced, NoLostWakeup, Slotted, InQueue
  <1>. QED
    BY <1>1, TypeCorrect, SlotStep, PTL DEF Spec

\* Whatever requests arrive, time out or disconnect, tokens and handlers
\* agree and there are at most MaxConcurrency of them.
THEOREM SlotsCorrect == Spec => []SlotsBalanced
  BY SlotInvariant, PTL DEF SlotInv

\* No waiter sleeps beside a free slot.
THEOREM WakeupCorrect == Spec => []NoLostWakeup
  BY SlotInvariant, PTL DEF SlotInv

-----------------------------------------------------------------------------
(* The claude process and the answer *)

Unstarted(x) == proc[x] \in {"refused", "failed"} /\ watch[x] = "off" /\ x \notin Streams

\* wait() has returned: nothing of claude is left, and the watcher is done.
Collected(x) == x \in reaped /\ watch[x] \in {"fired", "joined"} /\ x \notin kids

Before == {"new", "acquire", "queued", "start"}
After  == {"release", "cancel", "done"}

\* What is known of a request at each point of its handler.
Progress(x) ==
    /\ pc[x] \in Before => proc[x] = "none" /\ reply[x] = "none"
    /\ pc[x] \in {"scan", "write"} => x \in Streams /\ proc[x] \in Started /\ reply[x] = "open"
    /\ pc[x] = "wait" => proc[x] \in Started
    /\ pc[x] \in {"upsert", "reply"} => Collected(x) \/ Unstarted(x)
    /\ pc[x] \in {"wait", "upsert", "reply"} =>
          IF x \in Streams
          THEN \/ reply[x] = "open" /\ Exited(x) /\ pipe[x] = 0 /\ x \notin kids
               \/ reply[x] = "scan_error"
          ELSE reply[x] = "none"
    /\ pc[x] \in After /\ proc[x] \in Started =>
          Collected(x) \/ (x \in Streams /\ reply[x] = "open")

\* What is known of its process and its watcher.
Process(x) ==
    /\ proc[x] = "none" => watch[x] = "off" /\ x \notin reaped /\ x \notin kids
    /\ x \in reaped => Exited(x)
    /\ Exited(x) => watch[x] # "off"
    /\ proc[x] = "running" => watch[x] = "armed"
    /\ proc[x] \in {"refused", "failed"} => watch[x] = "off" /\ x \notin reaped

\* What is known of its context.
Context(x) ==
    /\ watch[x] = "fired" => Over(x)
    /\ pc[x] \in {"acquire", "queued", "start", "scan", "write", "wait", "upsert", "reply",
                  "release", "cancel"} => ctx[x] # "none"
    /\ pc[x] = "done" /\ proc[x] # "none" => Over(x)
    /\ pc[x] \in {"new", "done"} => ctx[x] # "live"

\* What is known of its answer.
Answered(x) ==
    /\ reply[x] \in {"ok", "done", "claude_failed", "done_error"} => Collected(x)
    /\ reply[x] \in {"ok", "done"} => proc[x] = "exit0" /\ watch[x] = "joined"
    /\ reply[x] = "claude_failed" => proc[x] \in {"exit1", "killed"}
    /\ reply[x] = "timeout" => ctx[x] = "deadline"
    /\ reply[x] \in {"rejected", "busy"} => proc[x] = "none" /\ pc[x] \in {"cancel", "done"}
    /\ reply[x] = "invalid_request" => proc[x] \in {"refused", "failed"}
    /\ reply[x] = "done" => pipe[x] = 0
    /\ reply[x] \in {"ok", "done", "claude_failed", "done_error", "timeout",
                     "run_failed", "invalid_request"} => pc[x] \in After

RunInv == \A x \in Reqs : Progress(x) /\ Process(x) /\ Context(x) /\ Answered(x)

\* The invariant of a request survives every step of any request.
LEMMA RunStep == TypeOK /\ RunInv /\ [Next]_vars => RunInv'
  <1> DEFINE Inv(x) == Progress(x) /\ Process(x) /\ Context(x) /\ Answered(x)
  <1> SUFFICES ASSUME TypeOK, RunInv, [Next]_vars, NEW x \in Reqs PROVE Inv(x)'
    BY DEF RunInv
  <1>0. Inv(x)
    BY DEF RunInv
  <1> USE RunsAssumption, <1>0 DEF TypeOK, PCs, Replies, Started, Goto, Answer, Over, Exited,
          semVars, reqVars, procVars, Progress, Process, Context, Answered,
          Collected, Unstarted, Before, After
  <1>1. ASSUME NEW r \in Reqs, RefuseRun(r) PROVE Inv(x)'
    BY <1>1 DEF RefuseRun
  <1>2. ASSUME NEW r \in Reqs, RunContext(r) PROVE Inv(x)'
    BY <1>2 DEF RunContext
  <1>3. ASSUME NEW r \in Reqs, AcquireSlot(r) PROVE Inv(x)'
    BY <1>3 DEF AcquireSlot
  <1>4. ASSUME NEW r \in Reqs, JoinQueue(r) PROVE Inv(x)'
    BY <1>4 DEF JoinQueue
  <1>5. ASSUME NEW r \in Reqs, AcquireFails(r) PROVE Inv(x)'
    BY <1>5 DEF AcquireFails
  <1>6. ASSUME NEW r \in Reqs, Granted(r) PROVE Inv(x)'
    BY <1>6 DEF Granted
  <1>7. ASSUME NEW r \in Reqs, GiveUp(r) PROVE Inv(x)'
    BY <1>7 DEF GiveUp
  <1>8. ASSUME NEW r \in Reqs, StartRefused(r) PROVE Inv(x)'
    BY <1>8 DEF StartRefused, NotStarted
  <1>9. ASSUME NEW r \in Reqs, StartFails(r) PROVE Inv(x)'
    BY <1>9 DEF StartFails, NotStarted
  <1>10. ASSUME NEW r \in Reqs, StartClaude(r) PROVE Inv(x)'
    BY <1>10 DEF StartClaude
  <1>11. ASSUME NEW r \in Reqs, ScanLine(r) \/ RelayLine(r) PROVE Inv(x)'
    BY <1>11 DEF ScanLine, RelayLine
  <1>12. ASSUME NEW r \in Reqs, WriteFails(r) PROVE Inv(x)'
    BY <1>12 DEF WriteFails
  <1>13. ASSUME NEW r \in Reqs, LineTooLong(r) PROVE Inv(x)'
    BY <1>13 DEF LineTooLong
  <1>14. ASSUME NEW r \in Reqs, ScanEOF(r) PROVE Inv(x)'
    BY <1>14 DEF ScanEOF
  <1>15. ASSUME NEW r \in Reqs, Reap(r) PROVE Inv(x)'
    BY <1>15 DEF Reap
  <1>16. ASSUME NEW r \in Reqs, WaitReturns(r) PROVE Inv(x)'
    BY <1>16 DEF WaitReturns
  <1>17. ASSUME NEW r \in Reqs, Upsert(r) PROVE Inv(x)'
    BY <1>17 DEF Upsert
  <1>18. ASSUME NEW r \in Reqs, Reply(r) PROVE Inv(x)'
    <2>1. CASE x # r
      BY <1>18, <2>1 DEF Reply
    <2>2. CASE x = r /\ r \in Streams
      BY <1>18, <2>2 DEF Reply, StreamEnd, CtxError
    <2>3. CASE x = r /\ r \notin Streams
      <3>1. PICK a \in Verdicts(r) : Answer(r, a)
        BY <1>18, <2>3 DEF Reply
      <3>2. \/ a = "timeout" /\ ctx[r] = "deadline"
            \/ a = "run_failed"
            \/ a = "claude_failed" /\ proc[r] \in {"exit1", "killed"}
            \/ a = "ok" /\ proc[r] \notin {"failed", "refused", "exit1", "killed"}
                        /\ ~(proc[r] = "exit0" /\ watch[r] = "fired")
        BY <3>1 DEF Verdicts, CtxError
      <3>. QED
        BY <1>18, <2>3, <3>1, <3>2 DEF Reply
    <2>. QED
      BY <2>1, <2>2, <2>3
  <1>19. ASSUME NEW r \in Reqs, Release(r) PROVE Inv(x)'
    BY <1>19 DEF Release
  <1>20. ASSUME NEW r \in Reqs, CancelContext(r) PROVE Inv(x)'
    BY <1>20 DEF CancelContext
  <1>21. ASSUME NEW r \in Reqs, EmitLine(r) PROVE Inv(x)'
    BY <1>21 DEF EmitLine, PipeClosed
  <1>22. ASSUME NEW r \in Reqs, ClaudeExits(r) PROVE Inv(x)'
    BY <1>22 DEF ClaudeExits
  <1>23. ASSUME NEW r \in Reqs, SpawnTool(r) PROVE Inv(x)'
    BY <1>23 DEF SpawnTool
  <1>24. ASSUME NEW r \in Reqs, ToolEnds(r) PROVE Inv(x)'
    BY <1>24 DEF ToolEnds
  <1>25. ASSUME NEW r \in Reqs, KillClaude(r) PROVE Inv(x)'
    BY <1>25 DEF KillClaude
  <1>26. ASSUME NEW r \in Reqs, Deadline(r) PROVE Inv(x)'
    BY <1>26 DEF Deadline
  <1>27. ASSUME NEW r \in Reqs, ConnLost(r) PROVE Inv(x)'
    BY <1>27 DEF ConnLost
  <1>28. ASSUME NEW r \in Reqs, Disconnect(r) PROVE Inv(x)'
    BY <1>28 DEF Disconnect, Client
  <1>29. ASSUME NEW r \in Reqs, Stall(r) PROVE Inv(x)'
    BY <1>29 DEF Stall, Client
  <1>30. ASSUME NEW r \in Reqs, Resume(r) PROVE Inv(x)'
    BY <1>30 DEF Resume, Client
  <1>31. CASE UNCHANGED vars
    BY <1>31 DEF vars
  <1>. QED
    BY <1>1, <1>2, <1>3, <1>4, <1>5, <1>6, <1>7, <1>8, <1>9, <1>10, <1>11, <1>12, <1>13, <1>14, <1>15, <1>16, <1>17, <1>18, <1>19, <1>20, <1>21, <1>22, <1>23, <1>24, <1>25, <1>26, <1>27, <1>28, <1>29, <1>30, <1>31 DEF Next, Handler, Arrives, Runnable, Claude, Outside, Finished

LEMMA RunInvariant == Spec => [](TypeOK /\ SlotInv /\ RunInv)
  <1>1. Init => RunInv
    BY RunsAssumption DEF Init, RunInv, Progress, Process, Context, Answered, Collected,
       Unstarted, Before, After, Started, Exited, Over
  <1>. QED
    BY <1>1, SlotInvariant, TypeCorrect, RunStep, PTL DEF Spec

\* A claude that runs without a slot belongs to a stream whose client went
\* away, and its watcher will kill it as soon as the handler has returned.
THEOREM OutliveCorrect == Spec => []OnlyAbandonedOutlive
  <1>1. TypeOK /\ SlotInv /\ RunInv => OnlyAbandonedOutlive
    <2> SUFFICES ASSUME TypeOK, SlotInv, RunInv, NEW r \in Reqs, Alive(r), r \notin slot
                 PROVE  /\ Abandoned(r) /\ watch[r] = "armed"
                        /\ pc[r] = "cancel" \/ Over(r)
      BY DEF OnlyAbandonedOutlive
    <2>1. pc[r] \notin Slotted /\ proc[r] = "running"
      BY DEF Alive, SlotInv, SlotsBalanced
    <2>2. Progress(r) /\ Process(r) /\ Context(r)
      BY DEF RunInv
    <2>3. pc[r] \in {"cancel", "done"}
      BY <2>1, <2>2 DEF TypeOK, PCs, Slotted, Progress, Before
    <2>. QED
      BY <2>1, <2>2, <2>3 DEF Abandoned, Progress, Process, Context, Collected, After,
                              Started, Exited
  <1>. QED
    BY <1>1, RunInvariant, PTL

\* Some of those who hold a token are not more than MaxConcurrency.
LEMMA SlotHolders ==
    ASSUME SlotInv, NEW U, U \subseteq slot
    PROVE  IsFiniteSet(U) /\ Cardinality(U) <= MaxConcurrency
  <1>1. IsFiniteSet(slot) /\ Cardinality(slot) <= MaxConcurrency
    BY DEF SlotInv, SlotsBalanced
  <1>2. IsFiniteSet(U) /\ Cardinality(U) <= Cardinality(slot)
    BY <1>1, FS_Subset
  <1>3. Cardinality(U) \in Nat /\ Cardinality(slot) \in Nat /\ MaxConcurrency \in Nat
    BY <1>1, <1>2, FS_CardinalityType, RunsAssumption
  <1>. QED
    BY <1>1, <1>2, <1>3

\* The limit on executions holds of those that somebody waits for, whatever
\* the clients of the others did.
THEOREM AttendedCorrect == Spec => []AttendedBounded
  <1>1. TypeOK /\ SlotInv /\ OnlyAbandonedOutlive => AttendedBounded
    <2> SUFFICES ASSUME TypeOK, SlotInv, OnlyAbandonedOutlive PROVE AttendedBounded
      OBVIOUS
    <2> DEFINE U == {r \in Reqs : Alive(r) /\ ~Abandoned(r)}
    <2>1. U \subseteq slot
      BY DEF OnlyAbandonedOutlive
    <2>2. Cardinality(U) <= MaxConcurrency
      BY <2>1, SlotHolders
    <2>. QED
      BY <2>2 DEF AttendedBounded
  <1>. QED
    BY <1>1, RunInvariant, OutliveCorrect, PTL

\* Every answer agrees with how claude ended.
THEOREM AnswersCorrect == Spec => []VerdictMatchesProcess
  <1>1. RunInv => VerdictMatchesProcess
    BY DEF RunInv, Answered, Collected, VerdictMatchesProcess
  <1>. QED
    BY <1>1, RunInvariant, PTL

\* A stream that ends without an error has relayed all that claude wrote.
THEOREM StreamsComplete == Spec => []DoneAfterEveryLine
  <1>1. RunInv => DoneAfterEveryLine
    BY DEF RunInv, Answered, DoneAfterEveryLine
  <1>. QED
    BY <1>1, RunInvariant, PTL

\* An answer comes after the last command that claude left behind.
THEOREM ToolsFirst == Spec => []AnsweredAfterTools
  <1>1. RunInv => AnsweredAfterTools
    BY DEF RunInv, Answered, Collected, AnsweredAfterTools
  <1>. QED
    BY <1>1, RunInvariant, PTL

\* Every handler that is through with a claude has waited for it, but for
\* those whose client went in the middle of a stream.
THEOREM UnreapedCorrect == Spec => []UnreapedOnlyAbandoned
  <1>1. RunInv => UnreapedOnlyAbandoned
    BY DEF RunInv, Progress, Collected, After, Abandoned, UnreapedOnlyAbandoned
  <1>. QED
    BY <1>1, RunInvariant, PTL

\* No more than MaxConcurrency handlers write the session store at a time.
THEOREM UpsertsCorrect == Spec => []UpsertsBounded
  <1>1. SlotInv => UpsertsBounded
    <2> SUFFICES ASSUME SlotInv PROVE UpsertsBounded
      OBVIOUS
    <2> DEFINE U == {r \in Reqs : pc[r] = "upsert"}
    <2>1. U \subseteq slot
      BY DEF SlotInv, SlotsBalanced, Slotted
    <2>2. Cardinality(U) <= MaxConcurrency
      BY <2>1, SlotHolders
    <2>. QED
      BY <2>2 DEF UpsertsBounded
  <1>. QED
    BY <1>1, SlotInvariant, PTL

Upserting == {r \in Reqs : pc[r] = "upsert"}

\* A handler goes to the session store beside fewer than MaxConcurrency.
UpsertsAdmitted ==
    [][ \A r \in Upserting' \ Upserting : Cardinality(Upserting) < MaxConcurrency ]_vars

\* A step takes one handler at most to the session store.
LEMMA OneUpsertAtATime ==
    ASSUME TypeOK, [Next]_vars, NEW r \in Upserting' \ Upserting
    PROVE  Upserting' = Upserting \union {r}
  <1>1. ASSUME NEW q \in Reqs, NEW l, pc' = [pc EXCEPT ![q] = l]
        PROVE  Upserting' = Upserting \union {r}
    BY <1>1 DEF Upserting, TypeOK
  <1>2. ASSUME pc' = pc PROVE FALSE
    BY <1>2 DEF Upserting
  <1>3. ASSUME NEW q \in Reqs, Handler(q)
        PROVE  pc' = pc \/ \E l \in PCs : pc' = [pc EXCEPT ![q] = l]
    BY <1>3 DEF Handler, Arrives, Runnable, RefuseRun, RunContext, AcquireSlot, JoinQueue, AcquireFails, Granted,
       GiveUp, StartRefused, StartFails, NotStarted, StartClaude, ScanLine, RelayLine, WriteFails,
       LineTooLong, ScanEOF, Reap, WaitReturns, Upsert, Reply, Release, CancelContext, Goto, PCs
  <1>4. ASSUME NEW q \in Reqs, Claude(q) \/ KillClaude(q) \/ Outside(q)
        PROVE  pc' = pc
    BY <1>4 DEF Claude, EmitLine, ClaudeExits, SpawnTool, ToolEnds, KillClaude, Outside,
       Deadline, ConnLost, Disconnect, Stall, Resume, Client
  <1>5. ASSUME Finished \/ UNCHANGED vars PROVE pc' = pc
    BY <1>5 DEF Finished, vars
  <1>. QED
    BY <1>1, <1>2, <1>3, <1>4, <1>5 DEF Next

\* The guard of UpsertLocked in SessionStore is no assumption: who calls
\* Upsert holds a slot, so there is room for one more writer.
THEOREM UpsertsAdmittedCorrect == Spec => UpsertsAdmitted
  <1>1. TypeOK /\ SlotInv /\ UpsertsBounded' /\ [Next]_vars
           => [\A r \in Upserting' \ Upserting : Cardinality(Upserting) < MaxConcurrency]_vars
    <2> SUFFICES ASSUME TypeOK, SlotInv, UpsertsBounded', [Next]_vars,
                        NEW r \in Upserting' \ Upserting
                 PROVE  Cardinality(Upserting) < MaxConcurrency
      OBVIOUS
    <2>1. Upserting \subseteq slot
      BY DEF Upserting, SlotInv, SlotsBalanced, Slotted
    <2>2. IsFiniteSet(Upserting) /\ Cardinality(Upserting) \in Nat
      BY <2>1, SlotHolders, FS_CardinalityType
    <2>3. Upserting' = Upserting \union {r} /\ r \notin Upserting
      BY OneUpsertAtATime
    <2>4. Cardinality(Upserting') = Cardinality(Upserting) + 1
      BY <2>2, <2>3, FS_AddElement
    <2>5. Cardinality(Upserting') <= MaxConcurrency
      BY DEF UpsertsBounded, Upserting
    <2>. QED
      BY <2>2, <2>4, <2>5, RunsAssumption
  <1>. QED
    BY <1>1, TypeCorrect, SlotInvariant, UpsertsCorrect, PTL DEF Spec, UpsertsAdmitted

\* Slots are granted in the order in which the requests queued up.
THEOREM NoOvertakingCorrect == Spec => NoOvertaking
  <1> DEFINE Fair == \A r \in slot' \ slot :
                        \/ queue = <<>>
                        \/ queue[1] = r /\ queue' = Tail(queue)
  <1>1. TypeOK /\ [Next]_vars => [Fair]_vars
    <2> SUFFICES ASSUME TypeOK, [Next]_vars, NEW r \in slot' \ slot
                 PROVE  queue = <<>> \/ (queue[1] = r /\ queue' = Tail(queue))
      OBVIOUS
    <2>1. CASE SamePlaces
      BY <2>1 DEF SamePlaces, semVars
    <2>2. ASSUME NEW q \in Reqs, AcquireSlot(q)
          PROVE  queue = <<>>
      BY <2>2 DEF AcquireSlot, SlotFree
    <2>3. ASSUME NEW q \in Reqs, JoinQueue(q) \/ Granted(q)
          PROVE  FALSE
      BY <2>3 DEF JoinQueue, Granted, semVars
    <2>4. ASSUME NEW q \in Reqs, FreeSlot(q)
          PROVE  queue = <<>> \/ (queue[1] = r /\ queue' = Tail(queue))
      BY <2>4 DEF FreeSlot, TypeOK
    <2>5. ASSUME NEW q \in Reqs, GiveUp(q) \/ Release(q)
          PROVE  queue = <<>> \/ (queue[1] = r /\ queue' = Tail(queue))
      BY <2>4, <2>5 DEF GiveUp, Release
    <2>. QED
      BY <2>1, <2>2, <2>3, <2>5, SemaphoreSteps
  <1>2. NoOvertaking <=> [][Fair]_vars
    BY DEF NoOvertaking
  <1> HIDE DEF Fair
  <1>. QED
    BY <1>1, <1>2, TypeCorrect, PTL DEF Spec
=============================================================================
