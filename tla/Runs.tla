-------------------------------- MODULE Runs --------------------------------
(***************************************************************************)
(* POST /v1/runs from its handler to the claude process and back:          *)
(* handleRuns and writeRunError (internal/server/handlers.go), runContext  *)
(* and streamRun (internal/server/sse.go), acquire and release             *)
(* (internal/server/server.go) and ExecExecutor (internal/runner).         *)
(* Every request is a goroutine with a program counter; its context, its   *)
(* client, its claude process and the watcher os/exec starts for it move   *)
(* on their own.                                                           *)
(***************************************************************************)
EXTENDS Naturals, Sequences, FiniteSets, SequencesExt

CONSTANTS
    Reqs,             \* POST /v1/runs requests
    Streams,          \* those with "stream": true
    MaxConcurrency,   \* config: weight of the semaphore (server.go:56)
    HasTimeout,       \* config: RunTimeout > 0
    ToolUsers,        \* requests whose claude may start commands that
                      \* inherit its stdout and stderr
    PipeLines         \* lines the stdout pipe holds (bound)

ASSUME RunsAssumption ==
    /\ Streams \subseteq Reqs
    /\ MaxConcurrency \in Nat \ {0}
    /\ HasTimeout \in BOOLEAN
    /\ ToolUsers \subseteq Reqs
    /\ PipeLines \in Nat \ {0}

VARIABLES
    pc,       \* request -> next thing its handler does
    reply,    \* request -> what the handler has answered so far
    slot,     \* requests that hold a token of Server.sem
    queue,    \* the semaphore's list of waiters
    ctx,      \* request -> state of the context of runContext
    client,   \* streamed request -> what its HTTP client does
    proc,     \* request -> its claude process
    watch,    \* request -> the goroutine that kills claude when ctx ends
    reaped,   \* requests whose claude was waited for
    pipe,     \* request -> lines in the stdout pipe of a stream
    kids      \* requests whose claude has commands holding its pipes

semVars == <<slot, queue>>
reqVars == <<ctx, client>>
procVars == <<proc, watch, reaped, pipe, kids>>
vars == <<pc, reply, slot, queue, ctx, client, proc, watch, reaped, pipe, kids>>

PCs == {"new", "acquire", "queued", "start", "scan", "write", "wait",
        "upsert", "reply", "release", "cancel", "done"}
Replies == {"none", "rejected", "busy", "invalid_request", "ok", "timeout",
            "claude_failed", "run_failed", "open", "scan_error", "done",
            "done_error"}

Over(r)    == ctx[r] \in {"canceled", "deadline"}
Started    == {"running", "exit0", "exit1", "killed"}
Exited(r)  == proc[r] \in {"exit0", "exit1", "killed"}
Goto(r, l) == pc' = [pc EXCEPT ![r] = l]
Answer(r, a) == reply' = [reply EXCEPT ![r] = a]

Init ==
    /\ pc = [r \in Reqs |-> "new"]
    /\ reply = [r \in Reqs |-> "none"]
    /\ slot = {} /\ queue = <<>>
    /\ ctx = [r \in Reqs |-> "none"]
    /\ client = [r \in Streams |-> "reading"]
    /\ proc = [r \in Reqs |-> "none"]
    /\ watch = [r \in Reqs |-> "off"]
    /\ pipe = [r \in Reqs |-> 0]
    /\ reaped = {} /\ kids = {}

-----------------------------------------------------------------------------
(* Validation, and the wait for a slot *)

\* The body, the policy or a path is refused: 400 or 403, nothing started.
RefuseRun(r) ==
    /\ pc[r] = "new"
    /\ Answer(r, "rejected") /\ Goto(r, "done")
    /\ UNCHANGED <<semVars, reqVars, procVars>>

\* The timeout runs from here: time spent waiting for a slot counts.
RunContext(r) ==
    /\ pc[r] = "new"
    /\ ctx' = [ctx EXCEPT ![r] = "live"]
    /\ Goto(r, "acquire")
    /\ UNCHANGED <<reply, semVars, client, procVars>>

\* Mutant of SlotFree: one slot too many.
SlotFreeOffByOne == Cardinality(slot) <= MaxConcurrency /\ queue = <<>>

SlotFree == Cardinality(slot) < MaxConcurrency /\ queue = <<>>

AcquireSlot(r) ==
    /\ pc[r] = "acquire" /\ ~Over(r) /\ SlotFree
    /\ slot' = slot \union {r}
    /\ Goto(r, "start")
    /\ UNCHANGED <<reply, queue, reqVars, procVars>>

JoinQueue(r) ==
    /\ pc[r] = "acquire" /\ ~Over(r) /\ ~SlotFree
    /\ queue' = Append(queue, r)
    /\ Goto(r, "queued")
    /\ UNCHANGED <<reply, slot, reqVars, procVars>>

\* 429 on a context that ended before Acquire looked at the semaphore.
AcquireFails(r) ==
    /\ pc[r] = "acquire" /\ Over(r)
    /\ Answer(r, "busy") /\ Goto(r, "cancel")
    /\ UNCHANGED <<semVars, reqVars, procVars>>

\* Mutants of FreeSlot: the waiters are not told; the last one is preferred.
FreeSlotSilently(r) == slot' = slot \ {r} /\ UNCHANGED queue

FreeSlotLastFirst(r) ==
    /\ slot' = (slot \ {r}) \union (IF queue = <<>> THEN {} ELSE {Last(queue)})
    /\ queue' = IF queue = <<>> THEN queue ELSE Front(queue)

\* semaphore.Release: the token goes to the first waiter, if there is one.
FreeSlot(r) ==
    /\ slot' = (slot \ {r}) \union (IF queue = <<>> THEN {} ELSE {Head(queue)})
    /\ queue' = IF queue = <<>> THEN queue ELSE Tail(queue)

Granted(r) ==
    /\ pc[r] = "queued" /\ r \in slot /\ ~Over(r)
    /\ Goto(r, "start")
    /\ UNCHANGED <<reply, semVars, reqVars, procVars>>

\* The context ended while queued; a token granted meanwhile is passed on.
GiveUp(r) ==
    /\ pc[r] = "queued" /\ Over(r)
    /\ \/ r \in slot /\ FreeSlot(r)
       \/ /\ r \notin slot
          /\ \E i \in DOMAIN queue : queue[i] = r /\ queue' = RemoveAt(queue, i)
          /\ UNCHANGED slot
    /\ Answer(r, "busy") /\ Goto(r, "cancel")
    /\ UNCHANGED <<reqVars, procVars>>

-----------------------------------------------------------------------------
(* The claude process *)

\* Run goes on to the session store with the error; streamRun answers 400.
NotStarted(r, why) ==
    /\ pc[r] = "start"
    /\ proc' = [proc EXCEPT ![r] = why]
    /\ \/ r \in Streams /\ Answer(r, "invalid_request") /\ Goto(r, "release")
       \/ r \notin Streams /\ Goto(r, "upsert") /\ UNCHANGED reply
    /\ UNCHANGED <<semVars, reqVars, watch, reaped, pipe, kids>>

\* exec.Cmd.Start returns ctx.Err() on a context that is over.
StartRefused(r) == Over(r) /\ NotStarted(r, "refused")

\* No such binary, no such workdir, no more processes or descriptors.
StartFails(r) == NotStarted(r, "failed")

\* Mutant of StartClaude: exec.Command, which knows no context.
StartClaudeNoContext(r) ==
    /\ pc[r] = "start" /\ ~Over(r)
    /\ proc' = [proc EXCEPT ![r] = "running"]
    /\ \/ r \in Streams /\ Answer(r, "open") /\ Goto(r, "scan")
       \/ r \notin Streams /\ Goto(r, "wait") /\ UNCHANGED reply
    /\ UNCHANGED <<semVars, reqVars, watch, reaped, pipe, kids>>

StartClaude(r) ==
    /\ pc[r] = "start" /\ ~Over(r)
    /\ proc' = [proc EXCEPT ![r] = "running"]
    /\ watch' = [watch EXCEPT ![r] = "armed"]
    /\ \/ r \in Streams /\ Answer(r, "open") /\ Goto(r, "scan")
       \/ r \notin Streams /\ Goto(r, "wait") /\ UNCHANGED reply
    /\ UNCHANGED <<semVars, reqVars, reaped, pipe, kids>>

\* streamRun has returned: its deferred Close closed the read end.
PipeClosed(r) == pc[r] \in {"release", "cancel", "done"}

\* A command that holds the pipe writes to it too.
EmitLine(r) ==
    /\ r \in Streams /\ ~PipeClosed(r)
    /\ proc[r] = "running" \/ r \in kids
    /\ pipe[r] < PipeLines
    /\ pipe' = [pipe EXCEPT ![r] = @ + 1]
    /\ UNCHANGED <<pc, reply, semVars, reqVars, proc, watch, reaped, kids>>

ClaudeExits(r) ==
    /\ proc[r] = "running"
    /\ \E code \in {"exit0", "exit1"} : proc' = [proc EXCEPT ![r] = code]
    /\ UNCHANGED <<pc, reply, semVars, reqVars, watch, reaped, pipe, kids>>

SpawnTool(r) ==
    /\ r \in ToolUsers /\ proc[r] = "running" /\ r \notin kids
    /\ kids' = kids \union {r}
    /\ UNCHANGED <<pc, reply, semVars, reqVars, proc, watch, reaped, pipe>>

ToolEnds(r) ==
    /\ r \in kids
    /\ kids' = kids \ {r}
    /\ UNCHANGED <<pc, reply, semVars, reqVars, proc, watch, reaped, pipe>>

\* cmd.Cancel kills claude, and only claude.  On a process that has exited
\* and was not waited for it succeeds too, and Wait will report ctx.Err().
KillClaude(r) ==
    /\ watch[r] = "armed" /\ Over(r) /\ r \notin reaped
    /\ watch' = [watch EXCEPT ![r] = "fired"]
    /\ proc' = [proc EXCEPT ![r] = IF @ = "running" THEN "killed" ELSE @]
    /\ UNCHANGED <<pc, reply, semVars, reqVars, reaped, pipe, kids>>

-----------------------------------------------------------------------------
(* streamRun's loop over the lines, and Wait *)

\* Mutant of ScanLine: it takes a line that is not there.
ScanNoLine(r) ==
    /\ pc[r] = "scan"
    /\ pipe' = [pipe EXCEPT ![r] = @ - 1]
    /\ Goto(r, "write")
    /\ UNCHANGED <<reply, semVars, reqVars, proc, watch, reaped, kids>>

\* The next line of the pipe; an empty one is passed over.
ScanLine(r) ==
    /\ pc[r] = "scan" /\ pipe[r] > 0
    /\ pipe' = [pipe EXCEPT ![r] = @ - 1]
    /\ \E next \in {"write", "scan"} : Goto(r, next)
    /\ UNCHANGED <<reply, semVars, reqVars, proc, watch, reaped, kids>>

\* The line is written: blocked for as long as the client does not read, for
\* there is no WriteTimeout.
RelayLine(r) ==
    /\ pc[r] = "write" /\ client[r] # "stalled"
    /\ Goto(r, "scan")
    /\ UNCHANGED <<reply, semVars, reqVars, procVars>>

\* Mutant of WriteFails: a return that skips the release.
WriteFailsKeepsSlot(r) ==
    /\ pc[r] = "write" /\ client[r] = "gone"
    /\ Goto(r, "cancel")
    /\ UNCHANGED <<reply, semVars, reqVars, procVars>>

\* The client is gone: streamRun returns, without wait and without Upsert.
WriteFails(r) ==
    /\ pc[r] = "write" /\ client[r] = "gone"
    /\ Goto(r, "release")
    /\ UNCHANGED <<reply, semVars, reqVars, procVars>>

\* Mutant of LineTooLong: it returns as WriteFails does.
LineTooLongReturns(r) ==
    /\ pc[r] = "scan" /\ pipe[r] > 0
    /\ Answer(r, "scan_error") /\ Goto(r, "release")
    /\ UNCHANGED <<semVars, reqVars, procVars>>

\* A line over 4 MB ends the loop with the pipe still full.
LineTooLong(r) ==
    /\ pc[r] = "scan" /\ pipe[r] > 0
    /\ Answer(r, "scan_error") /\ Goto(r, "wait")
    /\ UNCHANGED <<semVars, reqVars, procVars>>

\* Mutant of ScanEOF: the loop ends with the process, not with its output.
ScanEndsAtExit(r) ==
    /\ pc[r] = "scan" /\ Exited(r) /\ r \notin kids
    /\ Goto(r, "wait")
    /\ UNCHANGED <<reply, semVars, reqVars, procVars>>

ScanEOF(r) ==
    /\ pc[r] = "scan" /\ pipe[r] = 0 /\ Exited(r) /\ r \notin kids
    /\ Goto(r, "wait")
    /\ UNCHANGED <<reply, semVars, reqVars, procVars>>

Reap(r) ==
    /\ pc[r] = "wait" /\ Exited(r) /\ r \notin reaped
    /\ reaped' = reaped \union {r}
    /\ UNCHANGED <<pc, reply, semVars, reqVars, proc, watch, pipe, kids>>

\* Mutant of WaitReturns: it does not wait for the copies of the output.
WaitForProcessOnly(r) ==
    /\ pc[r] = "wait" /\ r \in reaped
    /\ watch' = [watch EXCEPT ![r] = IF @ = "armed" THEN "joined" ELSE @]
    /\ Goto(r, "upsert")
    /\ UNCHANGED <<reply, semVars, reqVars, proc, reaped, pipe, kids>>

\* Wait collects the watcher, then the copies of stdout and stderr, which
\* last as long as anything holds the other end.
WaitReturns(r) ==
    /\ pc[r] = "wait" /\ r \in reaped /\ r \notin kids
    /\ watch' = [watch EXCEPT ![r] = IF @ = "armed" THEN "joined" ELSE @]
    /\ Goto(r, "upsert")
    /\ UNCHANGED <<reply, semVars, reqVars, proc, reaped, pipe, kids>>

-----------------------------------------------------------------------------
(* Session store, answer and the deferred calls *)

\* What Upsert does is in SessionStore; here it is where it happens.
Upsert(r) ==
    /\ pc[r] = "upsert"
    /\ Goto(r, "reply")
    /\ UNCHANGED <<reply, semVars, reqVars, procVars>>

\* The error is ctx.Err() only when claude was not started, or ended with 0
\* although Cancel had succeeded; a killed claude gives an ExitError.
CtxError(r) == proc[r] = "refused" \/ (proc[r] = "exit0" /\ watch[r] = "fired")

\* writeRunError, and the 200 of a result that ParseResult understands.
Verdicts(r) ==
    CASE CtxError(r) /\ ctx[r] = "deadline"   -> {"timeout"}
      [] CtxError(r) /\ ctx[r] # "deadline"   -> {"run_failed"}
      [] proc[r] = "failed"                   -> {"run_failed"}
      [] proc[r] \in {"exit1", "killed"}      -> {"claude_failed"}
      [] OTHER                                -> {"ok", "run_failed"}

\* Mutant of StreamEnd: the result of wait() is dropped.
StreamEndIgnoresWait(r) == IF reply[r] = "scan_error" THEN "done_error" ELSE "done"

\* The last events of a stream: "error" if the scan or wait failed, "done".
StreamEnd(r) ==
    IF reply[r] = "scan_error" \/ proc[r] # "exit0" \/ CtxError(r)
    THEN "done_error" ELSE "done"

Reply(r) ==
    /\ pc[r] = "reply"
    /\ \/ r \in Streams /\ client[r] # "stalled" /\ Answer(r, StreamEnd(r))
       \/ r \notin Streams /\ \E a \in Verdicts(r) : Answer(r, a)
    /\ Goto(r, "release")
    /\ UNCHANGED <<semVars, reqVars, procVars>>

\* defer s.release() was deferred last, so it runs before defer cancel().
Release(r) ==
    /\ pc[r] = "release"
    /\ FreeSlot(r)
    /\ Goto(r, "cancel")
    /\ UNCHANGED <<reply, reqVars, procVars>>

\* Mutant of CancelContext: no defer cancel().
CancelForgotten(r) ==
    /\ pc[r] = "cancel" /\ Goto(r, "done")
    /\ UNCHANGED <<reply, semVars, reqVars, procVars>>

CancelContext(r) ==
    /\ pc[r] = "cancel"
    /\ ctx' = [ctx EXCEPT ![r] = IF @ = "live" THEN "canceled" ELSE @]
    /\ Goto(r, "done")
    /\ UNCHANGED <<reply, semVars, client, procVars>>

-----------------------------------------------------------------------------
(* The clock and the client *)

Deadline(r) ==
    /\ HasTimeout /\ ctx[r] = "live"
    /\ ctx' = [ctx EXCEPT ![r] = "deadline"]
    /\ UNCHANGED <<pc, reply, semVars, client, procVars>>

\* Only a stream writes to its client before it holds the outcome.
Client(r, from, to) ==
    /\ r \in Streams /\ client[r] = from
    /\ client' = [client EXCEPT ![r] = to]
    /\ UNCHANGED <<pc, reply, semVars, ctx, procVars>>

Disconnect(r) == /\ pc[r] \notin {"new", "done"}
                 /\ Client(r, "reading", "gone") \/ Client(r, "stalled", "gone")
Stall(r)      == /\ reply[r] \in {"open", "scan_error"}
                 /\ Client(r, "reading", "stalled")
Resume(r)     == Client(r, "stalled", "reading")

\* net/http notices, sooner or later, that the client is gone.
ConnLost(r) ==
    /\ ctx[r] = "live" /\ (r \in Streams => client[r] = "gone")
    /\ ctx' = [ctx EXCEPT ![r] = "canceled"]
    /\ UNCHANGED <<pc, reply, semVars, client, procVars>>

Finished == (\A r \in Reqs : pc[r] = "done") /\ UNCHANGED vars

-----------------------------------------------------------------------------

\* A request comes when its client sends it.
Arrives(r) == RefuseRun(r) \/ RunContext(r)

\* What the code goes on with by itself.
Runnable(r) ==
    \/ AcquireSlot(r) \/ JoinQueue(r) \/ AcquireFails(r)
    \/ Granted(r) \/ GiveUp(r)
    \/ StartRefused(r) \/ StartFails(r) \/ StartClaude(r)
    \/ ScanLine(r) \/ RelayLine(r) \/ WriteFails(r) \/ ScanEOF(r)
    \/ Reap(r) \/ WaitReturns(r)
    \/ Upsert(r) \/ Reply(r) \/ Release(r) \/ CancelContext(r)

\* A line that is too long is claude's doing.
Handler(r) == Arrives(r) \/ Runnable(r) \/ LineTooLong(r)

\* The steps that a client which does not read holds up.
Writes(r) == RelayLine(r) \/ WriteFails(r) \/ Reply(r)

Claude(r) == EmitLine(r) \/ ClaudeExits(r) \/ SpawnTool(r) \/ ToolEnds(r)

Outside(r) ==
    \/ Deadline(r) \/ ConnLost(r)
    \/ Disconnect(r) \/ Stall(r) \/ Resume(r)

Next ==
    \/ \E r \in Reqs : Handler(r) \/ Claude(r) \/ KillClaude(r) \/ Outside(r)
    \/ Finished

Spec == Init /\ [][Next]_vars

\* The Go scheduler runs every goroutine that can move and timers fire.  A
\* write has a length, so it gets through to a client that reads again and
\* again, however often it stops.  Nothing is assumed of claude, of its
\* commands or of the client: a handler whose client stays stalled is blocked.
Fairness ==
    \A r \in Reqs : /\ WF_vars(Runnable(r))
                    /\ SF_vars(Writes(r))
                    /\ WF_vars(KillClaude(r))
                    /\ WF_vars(Deadline(r))

FairSpec == Spec /\ Fairness
=============================================================================
