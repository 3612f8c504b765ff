----------------------------- MODULE RunService -----------------------------
(***************************************************************************)
(* What POST /v1/runs promises about the CLI executions it admits: a       *)
(* request is refused at once or waits for one of MaxConcurrency places,   *)
(* at most MaxConcurrency requests execute at a time, a request that gives *)
(* up waiting never executes, and a place that becomes free may go to a    *)
(* waiting request in the same step.  It says nothing of how: no           *)
(* semaphore, no context, no child process.                                *)
(***************************************************************************)
EXTENDS Naturals, FiniteSets

CONSTANTS Reqs,            \* the POST /v1/runs requests
          MaxConcurrency   \* config.Config.MaxConcurrency

VARIABLE phase             \* request -> where it is

Phases == {"new", "waiting", "running", "answered"}

Running == {r \in Reqs : phase[r] = "running"}

HasRoom == IsFiniteSet(Running) /\ Cardinality(Running) < MaxConcurrency

Move(r, from, to) ==
    /\ phase[r] = from
    /\ phase' = [phase EXCEPT ![r] = to]

Refuse(r) == Move(r, "new", "answered")
Ask(r)    == Move(r, "new", "waiting")
Begin(r)  == HasRoom /\ Move(r, "waiting", "running")
GiveUp(r) == Move(r, "waiting", "answered")
End(r)    == Move(r, "running", "answered")

\* r leaves its place to q, which was waiting for one.
HandOver(r, q) ==
    /\ phase[r] = "running"
    /\ phase[q] = "waiting"
    /\ phase' = [phase EXCEPT ![r] = "answered", ![q] = "running"]

Init == phase = [r \in Reqs |-> "new"]

Next ==
    \/ \E r \in Reqs : Refuse(r) \/ Ask(r) \/ Begin(r) \/ GiveUp(r) \/ End(r)
    \/ \E r, q \in Reqs : HandOver(r, q)

Spec == Init /\ [][Next]_phase

Bounded == IsFiniteSet(Running) /\ Cardinality(Running) <= MaxConcurrency
=============================================================================
