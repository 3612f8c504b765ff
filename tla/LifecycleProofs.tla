--------------------------- MODULE LifecycleProofs ---------------------------
(***************************************************************************)
(* Proofs about the daemon and its handlers together.  Lifecycle is Runs   *)
(* with an end: every step of it is one of Runs or leaves the handlers     *)
(* alone, so that all that is proved of Runs holds of it.                  *)
(***************************************************************************)
EXTENDS LifecycleProperties, RunsRefinement

\* Signals, a server that fails and the end of the daemon do to the requests
\* nothing that a handler, a client or claude could not have done.
THEOREM LifecycleImplementsRuns == LifeSpec => Spec
  <1>1. LifeInit => Init
    BY DEF LifeInit
  <1>2. [LifeNext]_lifeVars => [Next]_vars
    <2> SUFFICES ASSUME LifeNext PROVE [Next]_vars
      BY DEF lifeVars
    <2>1. ASSUME NEW r \in Reqs, Work(Handler(r) \/ Claude(r) \/ KillClaude(r) \/ Outside(r))
          PROVE  Next
      BY <2>1 DEF Work, Next
    <2>2. ASSUME NEW r \in Reqs, Orphan(r)
          PROVE  Next
      BY <2>2 DEF Orphan, Claude, Next
    <2>3. CASE Signal \/ Drained \/ Expired \/ ServerFails \/ Rest
      BY <2>3 DEF Signal, Drained, Expired, ServerFails, Rest, lifeVars
    <2>. QED
      BY <2>1, <2>2, <2>3 DEF LifeNext
  <1>. QED
    BY <1>1, <1>2, PTL DEF LifeSpec, Spec

\* What is proved of the handlers holds in a daemon that may be told to end,
\* fail or run out of time at any moment, and after its end.
THEOREM LifeSafety ==
    LifeSpec => /\ []SlotsBalanced /\ []NoLostWakeup /\ NoOvertaking
                /\ []OnlyAbandonedOutlive /\ []UnreapedOnlyAbandoned
                /\ []AttendedBounded /\ []UpsertsBounded /\ UpsertsAdmitted
                /\ []VerdictMatchesProcess /\ []DoneAfterEveryLine /\ []AnsweredAfterTools
  BY LifecycleImplementsRuns, SlotsCorrect, WakeupCorrect, NoOvertakingCorrect,
     OutliveCorrect, UnreapedCorrect, AttendedCorrect, UpsertsCorrect,
     UpsertsAdmittedCorrect, AnswersCorrect, StreamsComplete, ToolsFirst

\* The daemon, whatever its end, gives the service of RunService, and its
\* bound on the requests that execute.
THEOREM LifeImplementsService == LifeSpec => ImplementsService /\ []Service!Bounded
  <1>1. ImplementsService => []Service!Bounded
    BY ServiceBounded DEF ImplementsService
  <1>. QED
    BY <1>1, LifecycleImplementsRuns, RunsImplementService

\* The end of the daemon stops the handlers where they are.
Drain == daemon = "drained" => \A r \in Reqs : pc[r] \in {"new", "done"}

LEMMA DrainInvariant == LifeSpec => [](daemon \in Daemons /\ Drain)
  <1>1. LifeInit => daemon \in Daemons /\ Drain
    BY DEF LifeInit, Daemons, Drain
  <1>2. daemon \in Daemons /\ Drain /\ [LifeNext]_lifeVars => (daemon \in Daemons /\ Drain)'
    <2> SUFFICES ASSUME daemon \in Daemons, Drain, [LifeNext]_lifeVars
                 PROVE  (daemon \in Daemons /\ Drain)'
      OBVIOUS
    <2>1. ASSUME NEW r \in Reqs, Work(Handler(r) \/ Claude(r) \/ KillClaude(r) \/ Outside(r))
          PROVE  (daemon \in Daemons /\ Drain)'
      BY <2>1 DEF Work, Gone, Drain, Daemons
    <2>2. CASE Signal \/ Expired \/ ServerFails
      BY <2>2 DEF Signal, Expired, ServerFails, Drain, Daemons
    <2>3. CASE Drained
      BY <2>3 DEF Drained, Drain, Daemons, vars
    <2>4. ASSUME NEW r \in Reqs, Orphan(r) PROVE (daemon \in Daemons /\ Drain)'
      BY <2>4 DEF Orphan, ClaudeExits, SpawnTool, ToolEnds, Drain
    <2>5. CASE Rest \/ UNCHANGED lifeVars
      BY <2>5 DEF Rest, lifeVars, vars, Drain
    <2>. QED
      BY <2>1, <2>2, <2>3, <2>4, <2>5 DEF LifeNext
  <1>. QED
    BY <1>1, <1>2, PTL DEF LifeSpec

\* The handlers' variables and the daemon's keep their types.
THEOREM LifeTypeCorrect == LifeSpec => []LifeTypeOK
  BY LifecycleImplementsRuns, TypeCorrect, DrainInvariant, PTL DEF LifeTypeOK

\* A daemon that reports a clean end leaves no handler, token, waiter or live
\* context behind, and of the claude processes only those of streams whose
\* client went just before.
THEOREM CleanExitCorrect == LifeSpec => []CleanExit
  <1>1. TypeOK /\ SlotInv /\ RunInv /\ OnlyAbandonedOutlive /\ Drain => CleanExit
    <2> SUFFICES ASSUME TypeOK, SlotInv, RunInv, OnlyAbandonedOutlive,
                        \A r \in Reqs : pc[r] \in {"new", "done"}
                 PROVE  /\ slot = {} /\ queue = <<>>
                        /\ \A r \in Reqs : ctx[r] # "live"
                        /\ \A r \in Reqs : Alive(r) =>
                              Abandoned(r) /\ Over(r) /\ watch[r] = "armed"
      BY DEF CleanExit, Drain
    <2>1. slot = {}
      <3>1. ASSUME NEW r \in slot PROVE FALSE
        <4>1. r \in Reqs /\ pc[r] \in {"new", "done"}
          BY DEF TypeOK
        <4>. QED
          BY <4>1 DEF SlotInv, SlotsBalanced, Slotted
      <3>. QED
        BY <3>1
    <2>2. queue = <<>>
      <3> SUFFICES ASSUME queue # <<>> PROVE FALSE
        OBVIOUS
      <3>1. queue \in Seq(Reqs) /\ Len(queue) # 0 /\ Len(queue) \in Nat
        BY EmptySeq DEF TypeOK
      <3>2. 1 \in DOMAIN queue /\ queue[1] \in Reqs
        BY <3>1
      <3>. QED
        BY <3>2 DEF SlotInv, SlotsBalanced
    <2>3. ASSUME NEW r \in Reqs PROVE ctx[r] # "live"
      BY DEF RunInv, Context
    <2>4. ASSUME NEW r \in Reqs, Alive(r)
          PROVE  Abandoned(r) /\ Over(r) /\ watch[r] = "armed"
      BY <2>1, <2>4 DEF OnlyAbandonedOutlive
    <2>. QED
      BY <2>1, <2>2, <2>3, <2>4
  <1>. QED
    BY <1>1, LifecycleImplementsRuns, RunInvariant, OutliveCorrect, DrainInvariant, PTL
=============================================================================
