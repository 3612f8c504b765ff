--------------------------- MODULE RunsProperties ---------------------------
(***************************************************************************)
(* What is claimed of Runs: safety, the service it implements, and three   *)
(* sentences of the source that it breaks.                                 *)
(***************************************************************************)
EXTENDS Runs

\* Type invariant.
TypeOK ==
    /\ pc \in [Reqs -> PCs]
    /\ reply \in [Reqs -> Replies]
    /\ slot \subseteq Reqs
    /\ queue \in Seq(Reqs)
    /\ ctx \in [Reqs -> {"none", "live", "canceled", "deadline"}]
    /\ client \in [Streams -> {"reading", "stalled", "gone"}]
    /\ proc \in [Reqs -> Started \union {"none", "refused", "failed"}]
    /\ watch \in [Reqs -> {"off", "armed", "fired", "joined"}]
    /\ reaped \subseteq Reqs
    /\ pipe \in [Reqs -> 0 .. PipeLines]
    /\ kids \subseteq Reqs

-----------------------------------------------------------------------------
(* The semaphore *)

\* Handlers between a successful acquire and the deferred release.
Slotted == {"start", "scan", "write", "wait", "upsert", "reply", "release"}

InQueue(r) == \E i \in DOMAIN queue : queue[i] = r

\* Tokens and handlers agree: a token belongs to a handler that will release
\* it, or to a waiter that was just granted it; no token leaks when a wait is
\* given up, no waiter is listed twice, and there are never more than
\* MaxConcurrency tokens.
SlotsBalanced ==
    /\ IsFiniteSet(slot) /\ Cardinality(slot) <= MaxConcurrency
    /\ \A r \in Reqs :
          r \in slot <=> pc[r] \in Slotted \/ (pc[r] = "queued" /\ ~InQueue(r))
    /\ \A i \in DOMAIN queue : pc[queue[i]] = "queued"
    /\ \A i, j \in DOMAIN queue : queue[i] = queue[j] => i = j

\* No waiter is left asleep beside a free slot, whatever mix of releases,
\* timeouts and disconnections emptied the slots.
NoLostWakeup == queue # <<>> => Cardinality(slot) = MaxConcurrency

\* A slot goes to the request that has waited longest: a newcomer never
\* overtakes a queued one, and giving up does not reorder the others.
NoOvertaking ==
    [][ \A r \in slot' \ slot :
            \/ queue = <<>>
            \/ queue[1] = r /\ queue' = Tail(queue) ]_vars

-----------------------------------------------------------------------------
(* The claude process *)

Alive(r) == proc[r] = "running"

Abandoned(r) == r \in Streams /\ reply[r] = "open" /\ pc[r] \in {"release", "cancel", "done"}

\* Only a stream whose client disconnected leaves its claude running without
\* a slot, and then only until the deferred cancel and the armed watcher,
\* which are still to come, kill it.
OnlyAbandonedOutlive ==
    \A r \in Reqs : Alive(r) /\ r \notin slot =>
        /\ Abandoned(r) /\ watch[r] = "armed"
        /\ pc[r] = "cancel" \/ Over(r)

\* What is true of the limit of config.go:25: not more than MaxConcurrency
\* claude processes run for a client that is still there.
AttendedBounded ==
    Cardinality({r \in Reqs : Alive(r) /\ ~Abandoned(r)}) <= MaxConcurrency

\* The answer agrees with how the process really ended: a verdict is only
\* given on a claude that was reaped (or never started), "ok" and "done" are
\* never given to a run that its deadline or a disconnection cut short, 504
\* is only given past the deadline and a 429 means nothing was started.
VerdictMatchesProcess ==
    \A r \in Reqs :
        /\ reply[r] \in {"ok", "done", "claude_failed", "done_error"} => r \in reaped
        /\ reply[r] \in {"ok", "done"} => proc[r] = "exit0" /\ watch[r] = "joined"
        /\ reply[r] = "claude_failed" => proc[r] \in {"exit1", "killed"}
        /\ reply[r] = "timeout" => ctx[r] = "deadline"
        /\ reply[r] \in {"rejected", "busy"} => proc[r] = "none"
        /\ reply[r] = "invalid_request" => proc[r] \in {"refused", "failed"}

\* A stream that ends with a clean "done" event has relayed every line that
\* claude wrote, also the ones still in the pipe when the process exited.
DoneAfterEveryLine == \A r \in Reqs : reply[r] = "done" => pipe[r] = 0

\* No line is written by a command that survived claude after the client was
\* told that the run is over: the answer of a run comes after the last holder
\* of its pipes is gone.
AnsweredAfterTools ==
    \A r \in Reqs :
        reply[r] \in {"ok", "claude_failed", "done", "done_error"} => r \notin kids

\* At most MaxConcurrency handlers are inside session.Store.Upsert: the bound
\* on writers that SessionStore takes over.
UpsertsBounded ==
    Cardinality({r \in Reqs : pc[r] = "upsert"}) <= MaxConcurrency

\* The caller of Stream must wait() for what it has started, or resources
\* are never given back (runner.go:30-31).  Only the return on a failed write
\* breaks that: every other handler that has returned has reaped its claude.
UnreapedOnlyAbandoned ==
    \A r \in Reqs :
        pc[r] \in {"release", "cancel", "done"} /\ proc[r] \in Started =>
            r \in reaped \/ Abandoned(r)

-----------------------------------------------------------------------------
(* The service *)

Phase(r) ==
    IF r \in slot THEN "running"
    ELSE CASE pc[r] = "new"                   -> "new"
           [] pc[r] \in {"acquire", "queued"} -> "waiting"
           [] OTHER                           -> "answered"

phases == [r \in Reqs |-> Phase(r)]

Service == INSTANCE RunService WITH phase <- phases

\* The handlers, the semaphore and the contexts together give the service of
\* RunService: every step is one of its steps or invisible to it.
ImplementsService == Service!Spec

-----------------------------------------------------------------------------
(* Sentences of the source *)

\* config.go:25: MaxConcurrency limits the simultaneous executions of the
\* claude CLI.
ExecutionsBounded == Cardinality({r \in Reqs : Alive(r)}) <= MaxConcurrency

\* handlers.go:157-158 and api/openapi.yaml: a run that exceeds its time
\* limit is answered 504.
KilledByDeadlineIs504 ==
    \A r \in Reqs :
        reply[r] = "claude_failed" /\ proc[r] = "killed" => ctx[r] # "deadline"

\* server.go:95-96: the time of an execution is controlled by the context of
\* the handler; runner.go:61: the children of claude are killed with it.  So a
\* run whose deadline has passed comes to its end.
DeadlineEndsRun == \A r \in Reqs : (ctx[r] = "deadline") ~> (pc[r] = "done")
=============================================================================
