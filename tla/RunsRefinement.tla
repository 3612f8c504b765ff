--------------------------- MODULE RunsRefinement ---------------------------
(***************************************************************************)
(* Runs implements RunService: the proof, step by step.                    *)
(***************************************************************************)
EXTENDS RunsProofs

SamePhases == \A x \in Reqs : Phase(x)' = Phase(x)

\* The six actions that the service sees.
Visible(r) == \/ RefuseRun(r) \/ RunContext(r) \/ AcquireFails(r)
              \/ AcquireSlot(r) \/ GiveUp(r) \/ Release(r)

\* Every other step leaves each request in its phase.
LEMMA QuietSteps ==
    ASSUME TypeOK, SlotInv, [Next]_vars
    PROVE  SamePhases \/ \E r \in Reqs : Visible(r)
  <1> DEFINE Seen == \E r \in Reqs : Visible(r)
  <1>0. \A x \in Reqs : x \in slot => pc[x] \in Slotted \union {"queued"}
    BY DEF SlotInv, SlotsBalanced
  <1> USE <1>0 DEF SamePhases, Phase, Slotted, TypeOK, Goto, Answer, semVars, reqVars, procVars
  <1>1. ASSUME NEW r \in Reqs, JoinQueue(r) PROVE SamePhases
    BY <1>1 DEF JoinQueue
  <1>2. ASSUME NEW r \in Reqs, Granted(r) PROVE SamePhases
    BY <1>2 DEF Granted
  <1>3. ASSUME NEW r \in Reqs, StartRefused(r) PROVE SamePhases
    BY <1>3 DEF StartRefused, NotStarted
  <1>4. ASSUME NEW r \in Reqs, StartFails(r) PROVE SamePhases
    BY <1>4 DEF StartFails, NotStarted
  <1>5. ASSUME NEW r \in Reqs, StartClaude(r) PROVE SamePhases
    BY <1>5 DEF StartClaude
  <1>6. ASSUME NEW r \in Reqs, ScanLine(r) \/ RelayLine(r) PROVE SamePhases
    BY <1>6 DEF ScanLine, RelayLine
  <1>7. ASSUME NEW r \in Reqs, WriteFails(r) PROVE SamePhases
    BY <1>7 DEF WriteFails
  <1>8. ASSUME NEW r \in Reqs, LineTooLong(r) PROVE SamePhases
    BY <1>8 DEF LineTooLong
  <1>9. ASSUME NEW r \in Reqs, ScanEOF(r) PROVE SamePhases
    BY <1>9 DEF ScanEOF
  <1>10. ASSUME NEW r \in Reqs, Reap(r) PROVE SamePhases
    BY <1>10 DEF Reap
  <1>11. ASSUME NEW r \in Reqs, WaitReturns(r) PROVE SamePhases
    BY <1>11 DEF WaitReturns
  <1>12. ASSUME NEW r \in Reqs, Upsert(r) PROVE SamePhases
    BY <1>12 DEF Upsert
  <1>13. ASSUME NEW r \in Reqs, Reply(r) PROVE SamePhases
    BY <1>13 DEF Reply
  <1>14. ASSUME NEW r \in Reqs, CancelContext(r) PROVE SamePhases
    BY <1>14 DEF CancelContext
  <1>15. ASSUME NEW r \in Reqs, EmitLine(r) PROVE SamePhases
    BY <1>15 DEF EmitLine
  <1>16. ASSUME NEW r \in Reqs, ClaudeExits(r) PROVE SamePhases
    BY <1>16 DEF ClaudeExits
  <1>17. ASSUME NEW r \in Reqs, SpawnTool(r) PROVE SamePhases
    BY <1>17 DEF SpawnTool
  <1>18. ASSUME NEW r \in Reqs, ToolEnds(r) PROVE SamePhases
    BY <1>18 DEF ToolEnds
  <1>19. ASSUME NEW r \in Reqs, KillClaude(r) PROVE SamePhases
    BY <1>19 DEF KillClaude
  <1>20. ASSUME NEW r \in Reqs, Deadline(r) PROVE SamePhases
    BY <1>20 DEF Deadline
  <1>21. ASSUME NEW r \in Reqs, ConnLost(r) PROVE SamePhases
    BY <1>21 DEF ConnLost
  <1>22. ASSUME NEW r \in Reqs, Disconnect(r) PROVE SamePhases
    BY <1>22 DEF Disconnect, Client
  <1>23. ASSUME NEW r \in Reqs, Stall(r) PROVE SamePhases
    BY <1>23 DEF Stall, Client
  <1>24. ASSUME NEW r \in Reqs, Resume(r) PROVE SamePhases
    BY <1>24 DEF Resume, Client
  <1>25. CASE UNCHANGED vars
    BY <1>25 DEF vars
  <1>26. ASSUME NEW r \in Reqs, Visible(r) PROVE Seen
    BY <1>26
  <1>. HIDE DEF SamePhases, Seen
  <1>. QED
    BY <1>1, <1>2, <1>3, <1>4, <1>5, <1>6, <1>7, <1>8, <1>9, <1>10, <1>11, <1>12, <1>13, <1>14, <1>15, <1>16, <1>17, <1>18, <1>19, <1>20, <1>21, <1>22, <1>23, <1>24, <1>25, <1>26
       DEF Next, Handler, Arrives, Runnable, Claude, Outside, Finished, Seen, Visible

\* A step that takes r, and r only, from one phase to another is a Move.
LEMMA MoveOf ==
    ASSUME NEW r \in Reqs, NEW p, Phase(r)' = p,
           \A x \in Reqs \ {r} : Phase(x)' = Phase(x)
    PROVE  phases' = [phases EXCEPT ![r] = p]
  BY DEF phases

\* A step that takes r and q from their phases to others is a HandOver.
LEMMA HandOverOf ==
    ASSUME NEW r \in Reqs, NEW q \in Reqs, r # q, NEW p, NEW o,
           Phase(r)' = p, Phase(q)' = o,
           \A x \in Reqs \ {r, q} : Phase(x)' = Phase(x)
    PROVE  phases'
              = [phases EXCEPT ![r] = p, ![q] = o]
  BY DEF phases

\* What the six actions are for the service.
LEMMA VisibleSteps ==
    ASSUME TypeOK, SlotInv, NEW r \in Reqs, Visible(r)
    PROVE  Service!Next
  <1>0. \A x \in Reqs : x \in slot => pc[x] \in Slotted \union {"queued"}
    BY DEF SlotInv, SlotsBalanced
  <1>1. \A x \in Reqs : phases[x] = Phase(x)
    BY DEF phases
  <1> USE <1>0 DEF TypeOK, Goto, semVars, Slotted
  <1>2. CASE RefuseRun(r)
    <2>1. Phase(r) = "new" /\ Phase(r)' = "answered"
      BY <1>2 DEF RefuseRun, Phase
    <2>2. \A x \in Reqs \ {r} : Phase(x)' = Phase(x)
      BY <1>2 DEF RefuseRun, Phase
    <2>3. phases[r] = "new" /\ phases' = [phases EXCEPT ![r] = "answered"]
      BY <2>1, <2>2, MoveOf, <1>1
    <2>. QED
      BY <2>3 DEF Service!Next, Service!Refuse, Service!Move
  <1>3. CASE RunContext(r)
    <2>1. Phase(r) = "new" /\ Phase(r)' = "waiting"
      BY <1>3 DEF RunContext, Phase
    <2>2. \A x \in Reqs \ {r} : Phase(x)' = Phase(x)
      BY <1>3 DEF RunContext, Phase
    <2>3. phases[r] = "new" /\ phases' = [phases EXCEPT ![r] = "waiting"]
      BY <2>1, <2>2, MoveOf, <1>1
    <2>. QED
      BY <2>3 DEF Service!Next, Service!Ask, Service!Move
  <1>4. CASE AcquireFails(r)
    <2>1. Phase(r) = "waiting" /\ Phase(r)' = "answered"
      BY <1>4 DEF AcquireFails, Phase
    <2>2. \A x \in Reqs \ {r} : Phase(x)' = Phase(x)
      BY <1>4 DEF AcquireFails, Phase
    <2>3. phases[r] = "waiting" /\ phases' = [phases EXCEPT ![r] = "answered"]
      BY <2>1, <2>2, MoveOf, <1>1
    <2>. QED
      BY <2>3 DEF Service!Next, Service!GiveUp, Service!Move
  <1>5. CASE AcquireSlot(r)
    <2>1. Phase(r) = "waiting" /\ Phase(r)' = "running"
      BY <1>5 DEF AcquireSlot, Phase
    <2>2. \A x \in Reqs \ {r} : Phase(x)' = Phase(x)
      BY <1>5 DEF AcquireSlot, Phase
    <2>3. phases[r] = "waiting" /\ phases' = [phases EXCEPT ![r] = "running"]
      BY <2>1, <2>2, MoveOf, <1>1
    <2>4. Service!Running = slot
      BY <1>1 DEF Service!Running, Phase
    <2>5. IsFiniteSet(slot) /\ Cardinality(slot) < MaxConcurrency
      BY <1>5 DEF AcquireSlot, SlotFree, SlotInv, SlotsBalanced
    <2>6. Service!HasRoom
      <3>1. Service!IsFiniteSet(slot)
        BY <2>5 DEF Service!IsFiniteSet, IsFiniteSet
      <3>2. Service!Cardinality(slot) = Cardinality(slot)
        BY DEF Service!Cardinality, Cardinality
      <3>. QED
        BY <2>4, <2>5, <3>1, <3>2 DEF Service!HasRoom
    <2>. QED
      BY <2>3, <2>6 DEF Service!Next, Service!Begin, Service!Move
  \* r lets go of its token: to nobody, or to the first waiter.
  <1>6. ASSUME r \in slot, ~InQueue(r), FreeSlot(r), pc' = [pc EXCEPT ![r] = "cancel"]
        PROVE  Service!Next
    <2>1. Phase(r) = "running"
      BY <1>6 DEF Phase
    <2>2. CASE queue = <<>>
      <3>1. slot' = slot \ {r}
        BY <1>6, <2>2 DEF FreeSlot
      <3>2. Phase(r)' = "answered" /\ \A x \in Reqs \ {r} : Phase(x)' = Phase(x)
        BY <1>6, <3>1 DEF Phase
      <3>3. phases[r] = "running" /\ phases' = [phases EXCEPT ![r] = "answered"]
        BY <2>1, <3>2, MoveOf, <1>1
      <3>. QED
        BY <3>3 DEF Service!Next, Service!End, Service!Move
    <2>3. CASE queue # <<>>
      <3>0. Head(queue) = queue[1] /\ 1 \in DOMAIN queue /\ queue[1] \in Reqs
        BY <2>3
      <3>. PICK q \in Reqs : q = Head(queue)
        BY <3>0
      <3>1. slot' = (slot \ {r}) \union {q}
        BY <1>6, <2>3 DEF FreeSlot
      <3>2. q \in Reqs /\ pc[q] = "queued" /\ InQueue(q)
        BY <3>0 DEF InQueue, SlotInv, SlotsBalanced
      <3>3. q # r /\ q \notin slot
        BY <1>6, <3>2 DEF SlotInv, SlotsBalanced
      <3>4. Phase(q) = "waiting" /\ Phase(r)' = "answered" /\ Phase(q)' = "running"
        BY <1>6, <3>1, <3>2, <3>3 DEF Phase
      <3>5. \A x \in Reqs \ {r, q} : Phase(x)' = Phase(x)
        BY <1>6, <3>1, <3>2 DEF Phase
      <3>6. /\ phases[r] = "running" /\ phases[q] = "waiting"
            /\ phases' = [phases EXCEPT ![r] = "answered", ![q] = "running"]
        BY <2>1, <3>2, <3>3, <3>4, <3>5, <1>1, HandOverOf
      <3>. QED
        BY <3>2, <3>6 DEF Service!Next, Service!HandOver
    <2>. QED
      BY <2>2, <2>3
  <1>7. CASE GiveUp(r)
    <2>1. pc[r] = "queued" /\ pc' = [pc EXCEPT ![r] = "cancel"]
      BY <1>7 DEF GiveUp
    <2>2. CASE r \in slot /\ FreeSlot(r)
      <3>1. ~InQueue(r)
        BY <2>1, <2>2 DEF SlotInv, SlotsBalanced
      <3>. QED
        BY <1>6, <2>1, <2>2, <3>1
    <2>3. CASE r \notin slot /\ UNCHANGED slot
      <3>1. Phase(r) = "waiting" /\ Phase(r)' = "answered"
        BY <2>1, <2>3 DEF Phase
      <3>2. \A x \in Reqs \ {r} : Phase(x)' = Phase(x)
        BY <2>1, <2>3 DEF Phase
      <3>3. phases[r] = "waiting" /\ phases' = [phases EXCEPT ![r] = "answered"]
        BY <3>1, <3>2, MoveOf, <1>1
      <3>. QED
        BY <3>3 DEF Service!Next, Service!GiveUp, Service!Move
    <2>. QED
      BY <1>7, <2>2, <2>3 DEF GiveUp
  <1>8. CASE Release(r)
    <2>1. pc[r] = "release" /\ pc' = [pc EXCEPT ![r] = "cancel"] /\ FreeSlot(r)
      BY <1>8 DEF Release
    <2>2. r \in slot /\ ~InQueue(r)
      BY <2>1 DEF SlotInv, SlotsBalanced, InQueue
    <2>. QED
      BY <1>6, <2>1, <2>2
  <1>. QED
    BY <1>2, <1>3, <1>4, <1>5, <1>7, <1>8 DEF Visible

\* The handlers with their semaphore, contexts and processes implement the
\* bounded service: every behaviour of Runs is one of RunService.
THEOREM RunsImplementService == Spec => ImplementsService
  <1>1. Init => Service!Init
    BY DEF Init, Service!Init, Phase, phases
  <1>2. TypeOK /\ SlotInv /\ [Next]_vars
           => [Service!Next]_phases
    <2> SUFFICES ASSUME TypeOK, SlotInv, [Next]_vars
                 PROVE  [Service!Next]_phases
      BY DEF phases
    <2>1. CASE SamePhases
      <3>1. phases' = phases
        BY <2>1 DEF SamePhases, phases
      <3>. QED
        BY <3>1
    <2>2. ASSUME NEW r \in Reqs, Visible(r) PROVE Service!Next
      BY <2>2, VisibleSteps
    <2>. QED
      BY <2>1, <2>2, QuietSteps
  <1>. QED
    BY <1>1, <1>2, RunInvariant, PTL DEF Spec, ImplementsService, Service!Spec
-----------------------------------------------------------------------------
(* What the service promises *)

\* The library of finite sets is the same inside the instance.
LEMMA SameSets ==
    ASSUME NEW S
    PROVE  /\ Service!IsFiniteSet(S) <=> IsFiniteSet(S)
           /\ Service!Cardinality(S) = Cardinality(S)
  BY DEF Service!IsFiniteSet, IsFiniteSet, Service!Cardinality, Cardinality

\* Every behaviour of the service keeps to MaxConcurrency places, also where
\* one is handed over: the bound that the refinement carries to Runs.
THEOREM ServiceBounded == Service!Spec => []Service!Bounded
  <1> DEFINE R == Service!Running
  <1>0. MaxConcurrency \in Nat
    BY RunsAssumption
  <1>1. Service!Init => Service!Bounded
    <2> SUFFICES ASSUME Service!Init PROVE Service!Bounded
      OBVIOUS
    <2>1. R = {}
      BY DEF Service!Init, Service!Running
    <2>. QED
      BY <1>0, <2>1, SameSets, FS_EmptySet DEF Service!Bounded
  <1>2. Service!Bounded /\ [Service!Next]_phases => Service!Bounded'
    <2> SUFFICES ASSUME Service!Bounded, [Service!Next]_phases
                 PROVE  IsFiniteSet(R') /\ Cardinality(R') <= MaxConcurrency
      BY SameSets DEF Service!Bounded
    <2>0. IsFiniteSet(R) /\ Cardinality(R) \in Nat /\ Cardinality(R) <= MaxConcurrency
      BY SameSets, FS_CardinalityType DEF Service!Bounded
    <2>1. ASSUME R' \subseteq R
          PROVE  IsFiniteSet(R') /\ Cardinality(R') <= MaxConcurrency
      <3>1. IsFiniteSet(R') /\ Cardinality(R') <= Cardinality(R)
        BY <2>0, <2>1, FS_Subset
      <3>2. Cardinality(R') \in Nat
        BY <3>1, FS_CardinalityType
      <3>. QED
        BY <1>0, <2>0, <3>1, <3>2
    <2>2. ASSUME NEW r \in Reqs, Service!Begin(r)
          PROVE  IsFiniteSet(R') /\ Cardinality(R') <= MaxConcurrency
      <3>1. Cardinality(R) < MaxConcurrency
        BY <2>2, SameSets DEF Service!Begin, Service!HasRoom
      <3>2. r \notin R /\ R' = R \union {r}
        BY <2>2 DEF Service!Begin, Service!Move, Service!Running, phases
      <3>3. IsFiniteSet(R') /\ Cardinality(R') = Cardinality(R) + 1
        BY <2>0, <3>2, FS_AddElement
      <3>. QED
        BY <1>0, <2>0, <3>1, <3>3
    <2>3. ASSUME NEW r \in Reqs, NEW q \in Reqs, Service!HandOver(r, q)
          PROVE  IsFiniteSet(R') /\ Cardinality(R') <= MaxConcurrency
      <3>1. r \in R /\ q \notin R /\ R' = (R \ {r}) \union {q}
        BY <2>3 DEF Service!HandOver, Service!Running, phases
      <3>2. IsFiniteSet(R \ {r}) /\ Cardinality(R \ {r}) = Cardinality(R) - 1
        BY <2>0, <3>1, FS_RemoveElement
      <3>3. IsFiniteSet(R') /\ Cardinality(R') = Cardinality(R \ {r}) + 1
        BY <3>1, <3>2, FS_AddElement
      <3>. QED
        BY <2>0, <3>2, <3>3
    <2>4. ASSUME NEW r \in Reqs,
                 Service!Refuse(r) \/ Service!Ask(r) \/ Service!GiveUp(r) \/ Service!End(r)
          PROVE  R' \subseteq R
      BY <2>4 DEF Service!Refuse, Service!Ask, Service!GiveUp, Service!End, Service!Move,
                  Service!Running, phases
    <2>5. CASE UNCHANGED phases
      <3>1. R' = R
        BY <2>5 DEF Service!Running
      <3>. QED
        BY <2>1, <3>1
    <2>. QED
      BY <2>1, <2>2, <2>3, <2>4, <2>5 DEF Service!Next
  <1>. QED
    BY <1>1, <1>2, PTL DEF Service!Spec
=============================================================================
