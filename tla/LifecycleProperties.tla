------------------------- MODULE LifecycleProperties -------------------------
(***************************************************************************)
(* What is claimed of the handlers and the daemon together, and a sentence *)
(* of main.go that they break.                                             *)
(***************************************************************************)
EXTENDS Lifecycle, RunsProperties

\* Type invariant.
LifeTypeOK == TypeOK /\ daemon \in Daemons

\* A daemon that reports a clean end leaves nothing of a run behind: no
\* handler in the middle, no token, no waiter, no context that nobody will
\* cancel.  What may be left is the claude of a stream whose client went,
\* when the daemon ends between the cancel and the watcher that it wakes.
CleanExit ==
    daemon = "drained" =>
        /\ slot = {} /\ queue = <<>>
        /\ \A r \in Reqs : ctx[r] # "live"
        /\ \A r \in Reqs : Alive(r) => Abandoned(r) /\ Over(r) /\ watch[r] = "armed"

\* The client always comes back to read, or goes, and the commands that
\* claude started end: what no timeout of the server enforces.
Cooperative ==
    /\ \A r \in Streams : []<>(client[r] # "stalled")
    /\ \A r \in Reqs : []<>(r \notin kids)

\* With a RunTimeout every admitted request is answered and leaves its slot,
\* whatever claude does, as long as clients and commands cooperate and the
\* daemon is there.
RequestsEnd ==
    Cooperative => \A r \in Reqs : (pc[r] = "acquire") ~> (pc[r] = "done" \/ Gone)

\* No claude is left behind by a daemon that runs: once its handler has
\* returned it is killed, also when the stream was simply abandoned.
AbandonedDie == \A r \in Reqs : (pc[r] = "done") ~> (~Alive(r) \/ Gone)

\* A drain comes to its end without the help of its 30 seconds: every handler
\* returns, also those that were queued or were accepted while it drains, and
\* no claude that a stream abandoned keeps it open.
DrainEnds ==
    Cooperative => (daemon = "draining") ~> (daemon \in {"drained", "expired"})

\* main.go:87-88: runs that last long are cancelled with the context of the
\* server.  So none is under way when Shutdown gives up waiting.
LongRunsCancelled ==
    daemon = "expired" => \A r \in Reqs : ~(Alive(r) /\ ctx[r] = "live")
=============================================================================
