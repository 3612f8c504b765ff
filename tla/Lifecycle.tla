------------------------------ MODULE Lifecycle ------------------------------
(***************************************************************************)
(* The daemon around the handlers of Runs: run (cmd/clauded/main.go) from  *)
(* the listening server to its end.  A signal starts http.Server.Shutdown, *)
(* which closes the listener, waits for the connections and cancels none   *)
(* of them; after 30 seconds run returns all the same, and main ends the   *)
(* process, with handlers and watchers in whatever place they are.         *)
(***************************************************************************)
EXTENDS Runs

VARIABLE daemon     \* what run does, or how it has ended

lifeVars == <<vars, daemon>>

Daemons == {"serving", "draining", "drained", "expired", "failed"}

\* The process is no more: exit status 0 after "drained", 1 otherwise.
Gone == daemon \in {"drained", "expired", "failed"}

LifeInit == Init /\ daemon = "serving"

\* SIGINT or SIGTERM.  NotifyContext goes on to catch them, so that a second
\* one changes nothing.
Signal ==
    /\ daemon = "serving"
    /\ daemon' = "draining"
    /\ UNCHANGED vars

\* Mutant of Drained: Shutdown looks at the slots.
DrainedSlots ==
    /\ daemon = "draining" /\ slot = {} /\ queue = <<>>
    /\ daemon' = "drained"
    /\ UNCHANGED vars

\* Mutant of Drained: Shutdown waits for every claude to have been reaped.
DrainedReaped ==
    /\ daemon = "draining"
    /\ \A r \in Reqs : pc[r] \in {"new", "done"}
    /\ \A r \in Reqs : proc[r] \in Started => r \in reaped
    /\ daemon' = "drained"
    /\ UNCHANGED vars

\* Shutdown returns nil when every connection is idle or closed.
Drained ==
    /\ daemon = "draining"
    /\ \A r \in Reqs : pc[r] \in {"new", "done"}
    /\ daemon' = "drained"
    /\ UNCHANGED vars

\* The 30 seconds of shutdownCtx are over.
Expired ==
    /\ daemon = "draining"
    /\ daemon' = "expired"
    /\ UNCHANGED vars

\* ListenAndServe fails: run returns at once.
ServerFails ==
    /\ daemon = "serving"
    /\ daemon' = "failed"
    /\ UNCHANGED vars

\* Requests on connections that were accepted before the signal begin, and
\* go on, while the daemon drains.
Work(A) == ~Gone /\ A /\ UNCHANGED daemon

\* claude and its commands do not end with the daemon.  Nobody reads what
\* they write, and nobody is left to kill them.
Orphan(r) ==
    /\ Gone
    /\ ClaudeExits(r) \/ SpawnTool(r) \/ ToolEnds(r)
    /\ UNCHANGED daemon

Rest == Gone /\ UNCHANGED lifeVars

LifeNext ==
    \/ \E r \in Reqs : Work(Handler(r) \/ Claude(r) \/ KillClaude(r) \/ Outside(r))
    \/ Signal \/ Drained \/ Expired \/ ServerFails
    \/ \E r \in Reqs : Orphan(r)
    \/ Rest

LifeSpec == LifeInit /\ [][LifeNext]_lifeVars

\* What Fairness asks of Runs, for as long as there is a daemon, and that
\* Shutdown returns when it has nothing left to wait for.  Its 30 seconds are
\* not counted upon.
LifeFairness ==
    /\ \A r \in Reqs : /\ WF_lifeVars(Work(Runnable(r)))
                       /\ SF_lifeVars(Work(Writes(r)))
                       /\ WF_lifeVars(Work(KillClaude(r)))
                       /\ WF_lifeVars(Work(Deadline(r)))
    /\ WF_lifeVars(Drained)

LifeFairSpec == LifeSpec /\ LifeFairness
=============================================================================
