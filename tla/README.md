# A TLA+ model of clauded

`clauded` is a small HTTP daemon that runs the `claude` CLI for its clients. `POST /v1/runs` starts one
process; the answer is the JSON result of that process or, with `"stream": true`, its output relayed line
by line as server-sent events. A semaphore bounds the processes, a context bounds their time, and a JSON
file remembers in which directory each session ran. This directory models that program, checks the model
on small instances with TLC and proves what matters most about it, for every size, with TLAPS.

## 1. Inventory

| component | code | state | operations | what makes it correct |
|---|---|---|---|---|
| run handler, SSE relay | `internal/server/handlers.go`, `sse.go` | one goroutine per request, its context, what it has answered | refuse, acquire, run or relay, Upsert, answer, deferred release and cancel | every return path gives back exactly what it took; the answer says what happened |
| execution slots | `internal/server/server.go` | weighted semaphore: tokens, list of waiters | acquire with a context, release | never more tokens than slots, none lost, no waiter forgotten or overtaken |
| claude process | `internal/runner/runner.go` | process, watcher goroutine, pipes, whether it was waited for | Start, kill on a finished context, Wait | no process is left behind; Wait collects the output |
| session store | `internal/session/session.go` | map under a mutex; `sessions.json` and its `.tmp` | Open, Get, List, Upsert | the file is one whole state of the map at any crash; what was acknowledged survives |
| sessions and directories | `handlers.go` (resolveWorkdir, validatePath), `runner/options.go` (BuildArgs) | session id -> directory; claude's history per directory | resolve a request, choose the id, bind it | a resume runs where its history is, and only under the allowed roots |
| configuration, start-up | `internal/config/config.go`, `cmd/clauded/main.go` | the options, layer by layer | scan for `--config`, file, environment, flags, Validate | precedence; the two passes over the arguments agree; at least one slot |
| daemon life cycle | `cmd/clauded/main.go` | serving, draining, how it ended | signal, Shutdown with 30 s, failure of the server, exit | a clean end leaves no run behind; the end comes |
| rate limiter | `middleware.go`, `server.go` | map of token buckets, one per client key, under a mutex; a mutex per bucket | get, Allow | one bucket per key; a bound on what a key is admitted; no refusal without a cause |
| auth, logging, recovery; read-only endpoints; UI; discovery on disk; packaging | rest | none | | stateless, not modelled |

**How they interact.** A handler looks at the session store, waits for a slot, starts claude, relays or
collects its output, calls Upsert, answers, and runs its deferred calls: close the pipe, release the slot,
cancel the context - in that order. Its context is cancelled by net/http when the connection is lost, ends
with the RunTimeout, and a goroutine of os/exec kills claude when it does. Handlers share the semaphore, the
store and its file. `run` (main.go) listens, waits for a signal or a failure, lets http.Server.Shutdown wait for the
handlers and ends the process; it shares nothing with them but the connections. rateLimitMW stands before every
handler.

**What is hard here**: steps of several handlers on one semaphore; contexts that end at any moment, also
between a grant and the start; clients that go or stop reading; commands of claude that hold its pipes;
Upserts that write one temporary file; crashes between two system calls; a directory read before a wait
and used after it; a process that ends with handlers and watchers anywhere; a clock that is read outside the mutex
of the bucket it refills. `PROJECT.json` lists these hazards with their lines and the properties aimed at them.

## 2. Modules

    RunService            what POST /v1/runs promises           DurableMap      what the store promises
       ^ refined by                                                ^ refined by (no two Upserts at a time)
    Runs                  handlers, slots, contexts, claude     SessionStore    map, mutex, file
    RunsProperties        what is claimed of it                 SessionStoreProperties
    RunsProofs            safety proofs                         SessionStoreProofs
    RunsRefinement        proof of the refinement
    MCRuns                instances for TLC                     MCSessionStore
       ^ extended by                                               ^ extended by
    Lifecycle             Runs in a daemon that ends            SessionStorePast  with any overlap of Upserts
    LifecycleProperties   what is claimed of both               MCSessionStorePast
    LifecycleProofs       it implements Runs; clean end            | refines
    MCLifecycle                                                    v
                                                                LossyMap        what the store promises then
    RateLimit             limiters and their clocks                ^ used by
    RateLimitProperties   what is claimed of it                 Sessions        ids, directories, histories
    RateLimitProofs                                             SessionsProperties
    MCRateLimit                                                 SessionsProofs
                                                                MCSessions
    Startup, StartupProperties, StartupProofs, MCStartup        from the command line to Serve

The modules meet at named facts, all of them proved:

- Lifecycle has the actions of Runs as its own, while there is a daemon (`Work`), and implements Runs
  (`LifecycleImplementsRuns`), so that what is proved of Runs holds of it, and RunService with it.
- `UpsertsAdmitted` of RunsProofs - a handler enters Upsert beside fewer than MaxConcurrency others, since it holds a
  slot - is the guard of `UpsertLocked` in SessionStore.
- LossyMap stands between the session store and its users: a map that a restart may set back to any state that it
  has had since the last start, for with two Upserts at a time, the default, a copy made early may be renamed after a
  later one and take out of the file what it held. SessionStore implements it however Upserts overlap (`LossyImplements`), and the
  records of Sessions, `bound` and `past`, are an instance of it: `Upsert` is its `Put`, `Restart` its `Restart`. When the
  file was torn (section 4) LossyMap has the empty map, while in the code the daemon does not start until somebody has removed the file.
- DurableMap is what the store implements besides as long as no two Upserts overlap (`SerialImplements`), as with one slot
  (`OneSlotSerial`): then what was saved stays saved.
- `Precedence` of Startup includes, for plain command lines, the assumption `MaxConcurrency \in Nat \ {0}` of Runs and
  SessionStore.

### Runs

Every request has a program counter: `new`, `acquire`, `queued`, `start`, `scan` and `write` (streams), `wait`, `upsert`,
`reply`, `release`, `cancel`, `done`. The main correspondences:

| action | code |
|---|---|
| `RefuseRun` | every early return of handleRuns before the context exists (400 and 403) |
| `RunContext` | runContext; from here the timeout runs, so the wait for a slot counts |
| `AcquireSlot`, `JoinQueue`, `Granted`, `GiveUp`, `AcquireFails` | `semaphore.Weighted.Acquire`: a free token, a place in the list, the token handed over by a release, a context that ends while queued (a token granted meanwhile is passed on), a context that had ended before |
| `StartClaude`, `StartRefused`, `StartFails` | `exec.Cmd.Start`, which refuses a finished context; Run goes on to the store, streamRun answers 400 |
| `KillClaude` | `cmd.Cancel`, run by the watcher goroutine; succeeds also on a process that has exited and was not waited for, and then Wait reports the context's error |
| `ScanLine`, `RelayLine` | the loop of streamRun: `sc.Scan`, and writeSSE, which blocks while the client does not read; only after it does the loop come to the next line |
| `WriteFails`, `LineTooLong`, `ScanEOF` | its three ways out |
| `Reap`, `WaitReturns` | `exec.Cmd.Wait`: the process is collected, then Wait goes on until the copies of stdout and stderr end |
| `Upsert`, `Reply`, `Release`, `CancelContext` | the end of the handler; release was deferred last and so runs before cancel |
| `EmitLine`, `ClaudeExits`, `SpawnTool`, `ToolEnds` | claude and its commands (external) |
| `Deadline`, `Disconnect`, `Stall`, `Resume`, `ConnLost` | the timer, the client, net/http |

The contents of lines and results are left out. A pipe is a number of lines.

### Lifecycle

`daemon` is what `run` does: `serving`, `draining` (in Shutdown), `drained`, `expired`, `failed`. `Signal` is SIGINT or SIGTERM;
a second one is caught by the same NotifyContext and changes nothing. `Drained` is Shutdown's return when no connection
is active, `Expired` the end of its 30 seconds, `ServerFails` an error of ListenAndServe, after which run returns at once and
drains nothing. In the three last states the process is gone: no handler, timer or watcher takes a step, claude and
its commands still may (`Orphan`). Shutdown cancels no request, so nothing else changes for the handlers; a request on a
connection that was accepted before may still begin while the daemon drains. A service manager that kills what is left
of the process group is not part of the model.

### RateLimit

A request goes through `get` (`GetNothing` without a limit, `GetKnown`, `GetNew`; one step each, since the mutex is held), then
Allow, which is golang.org/x/time/rate: `ReadClock` before the mutex of the bucket, `Admit` or `Refuse` under it. A token is
`Minute` units, so that the refill of one tick, `perMinute` units, is an integer; the floating-point arithmetic of the library is
taken as exact. `Available` is Limiter.advance: a clock older than that of the bucket refills nothing. `Admit` writes the
clock that was read even if it is the older one; `Refuse` writes nothing. `Lag` bounds the ticks between clock and mutex: the
code has no such bound, the statements are about whatever bound a schedule keeps. /healthz, which is exempt, is not modelled.

RateLimitProperties adds an observer: it chooses a key and a moment (`Mark`) and counts admissions from there, so that an
invariant over it speaks of every window of time.

### SessionStore

Upsert is the section under the mutex (`UpsertLocked`) and, outside it, `OpenTmp`, `WriteTmp`, `RenameTmp`,
each of which may fail (`PersistFails`). A descriptor follows its file when that is renamed: a handler may write
into what is `sessions.json` by now, or into a file without a name. A document written over a longer one
leaves a tail that does not parse (`Overlay`). `Crash` may come between any two steps; `Restart` is Open, which
refuses a torn file. Records are their LastUsed stamps, which tell any two states of the map apart.

### Sessions

A request is resolved to a directory at one moment (`Resolve`: resolveWorkdir, validatePath, canonicalize),
waits, starts with the id of BuildArgs (`SessionIDs`: resume before continue before session_id, else a new one), and
claude works on the session or fails; then `Upsert` binds the id to the directory, whatever became of claude.
claude keeps a history per directory and finds a session only there (`Origins`) - the reason for the store that
`session.go` gives. `bound` is the map of the store, `past` the states of it that a file which can be loaded may hold (LossyMap). Links may be made to lead elsewhere, the daemon may crash (its claude processes work on) and
be started again with other roots.

`home` is the directory in which an id was first used, as its clients know it; a made-up id is one that has none, and otherwise no step of the daemon looks at it. `Careful` is the set of the
sessions whose clients keep to that directory: a resume names no workdir (`README.md:259-260`) or one that leads there (`:234-237`, "same
workdir!"), a session_id begins a session, or tries the same again, in one directory. The requests about other sessions are any that
Validate lets through (`Sensible` is the guard), so that what is claimed of a session never rests on how others are treated.

A fork gets a new id. For a continue the id is the one that claude reports, so its fork is bound; for a resume the id of the
arguments wins (`SessionOf`), the parent is bound once more and the fork is in no record, although `runner.go:167` calls the id
returned the effective one. `ReportedIsTied` states both: what claude reported is tied, forks of a resume excepted.

### Startup

`run` with `config.Load` in its order: `--version`, the scan for `--config`, file, environment, flags, Validate, each round of a
loop a step. `KeepTwo`, `KeepOne` and `Drop` are the rounds of stripUnknownExcept, which keeps positions of the command
line in `kept`; `ScanFlag` is a round of flag.Parse over those, whose errors the code ignores, so that `FindFile` comes at
the end or at an error; `ParseFlag` is a round over the whole command line, and there an error ends the daemon
(`FlagsFail`). The rules of flag.Parse (external: what it stops at, what it refuses, which argument is a value) are the operators
`Stops`, `Refuses` and `ReadFlag`, shared by both. One option, max_concurrency, stands for all that pass through the
same layers, `--session-store` for the flags whose value may be any text, and `--metrics` for those without a value.
stripUnknownExcept trims dashes that need not be there: `Mentions` is true of `--config`, of a word `config` and of a word that begins with
`config=` (`ConfigWords`). `EnvInt` and `FlagInt` are the numbers of the environment (strconv.Atoi) and of a flag (flag.Int): `010`
is ten here and eight there, `0x10` a number only there. `Plain` describes the command lines the usage shows: every flag that
needs a value has one, without a dash in front, and there are no other words, nor a value that `Mentions` is true of.

## 3. Runs of TLC that pass

| run | instance | what it shows |
|---|---|---|
| `runs_safety` | Lifecycle with 1 slot, 1 stream and 2 plain requests, no RunTimeout; 891k states | `SlotsBalanced`, `NoLostWakeup`, `NoOvertaking`, `OnlyAbandonedOutlive`, `AttendedBounded`, `UnreapedOnlyAbandoned`, `UpsertsBounded`, that a clean end of the daemon leaves nothing of a run (`CleanExit`), and that the whole implements RunService |
| `runs_live` | Lifecycle with 1 slot, 1 stream and 1 plain request, RunTimeout, tools; 262k states | the answers agree with the processes (`VerdictMatchesProcess`, `DoneAfterEveryLine`, `AnsweredAfterTools`); `RequestsEnd`, `AbandonedDie` and `DrainEnds` under fairness |
| `store_serial` | 2 handlers, 2 ids, one Upsert at a time, 5 changes; 45k states | `FileWhole`, `AckedDurable`, refinement of DurableMap |
| `store_concurrent` | the same with two at a time, 4 changes; 83k states | what is left with concurrent Upserts: `DiskIsPast`, `CopyIsPast`, refinement of LossyMap |
| `sessions_careful` | 3 requests (1 stream), 2 ids, one of them careful, 2 directories, 1 link, 2 sets of roots; 2.1M states | `RunsUnderRoots`, `ReportedIsTied` for any session, `BoundWhereHistoryIs`, `ResumesInPlace`, `StaysTied` for the careful one |
| `startup` | every command line of up to 4 arguments over 4 flags and 4 words; 18.8M states | `ScanAgrees`, and `Precedence` with at least one slot |
| `rate_limit` | 2 connections, 2 keys, no limit or 1 or 2 a minute of 3 ticks, `Lag` 1, 5 ticks; 1.6M states | `OneLimiterPerKey`, `WindowBounded` for every window, `RefusedSoonAfter` |

**Bounds.** Three requests on one slot give a holder, a waiter and a second waiter or newcomer: what giving up,
handing over and overtaking need. One line in the pipe (`PipeLines`) makes it full and empty, which is all the
relay distinguishes. Two ids make a file with more records than another; five changes of the map (`MaxClock`)
allow two writes, a failure, a restart and two more. Three requests on two sessions are a run that creates
a session, one that resumes it and one that disturbs it, if only from the session that anything may be done to. Four arguments hold two flags with their values, or
one flag given thrice. Two connections with one key are what meets at a mutex, and lets a later clock overtake an earlier one;
five ticks hold a full minute, with what was spent before it and a refill after; with a `Lag` of 1 the terms of
`WindowBounded` for the two clocks are needed: TLC finds a counterexample without either of them. The proofs of section 5 need none of these bounds.
Symmetry is used where only invariants and action properties are checked and the permuted values are interchangeable
in the instance.

Deadlock is checked for Runs (where all requests answered is a step of its own, `Finished`), for Lifecycle (whose
daemon `Rest`s once it is gone), for `store_serial` and for `rate_limit`. It is not for `store_concurrent` and `store_atomic`, where a torn file stops the daemon for good; for
Sessions, where all requests may be answered and Startup, where the daemon serves or has ended.

**Fairness** (`runs_live`, `runs_deadline`). That of Lifecycle is that of Runs for as long as there is a daemon, with `Drained`, since
Shutdown polls the connections; a daemon that was not told to end may serve for ever, and the 30 seconds of Shutdown are not
counted upon. In Runs, weakly fair are what a handler goes on with by itself (`Runnable`), since the Go scheduler runs every goroutine
that can move; the watcher of os/exec, for the same reason; and the RunTimeout, since a timer fires. A handler
that is blocked - in Acquire, in a read of the pipe, in a write to a client that does not read, in Wait - has no
enabled action, so it is not forced on. Strongly fair are the writes to the client of a stream (`Writes`): a write has a length, and gets
through to a client that reads again and again, however often it stops. Weak fairness is not enough there: TLC then finds a relay that
never ends beside a client that stalls and resumes for ever, and no other way for `RequestsEnd` to fail. Nothing is assumed of claude - what it
writes, when it exits, a line that is too long (`LineTooLong`) -, of its commands, of clients, which need not send a request (`Arrives`), or of net/http's
detection of lost connections. `RequestsEnd` and `DrainEnds` therefore have the premise `Cooperative`: a client that stops reading
reads again or goes, and commands that claude started end. Both are needed: no timeout of the server covers them
(`WriteTimeout` is 0, `WaitDelay` is not set).

Every property of a passing run has a mutant beside the definition it alters (a dropped guard, a skipped
release, a check that is made only on one path) and fails with it.

## 4. Where the code breaks what it says

Five runs end in a counterexample. Each checks a sentence of the source or the documentation.

- `runs_bound` (`ExecutionsBounded`): the slot is released (`handlers.go:129`) before the context is cancelled
  (`:124`), and a stream whose client went has not waited for its claude, so more than `MaxConcurrency` processes run for
  a while, against `config.go:25`. `AttendedBounded` is what holds: at most `MaxConcurrency` processes run that are not the
  abandoned one of a stream that returned early; and by `OnlyAbandonedOutlive` those run on only until the cancel and the watcher,
  both still to come, kill them.
- `runs_504` (`KilledByDeadlineIs504`): the error of a process killed by os/exec is an ExitError, so the answer to
  a run that exceeded its time is 500 `claude_failed`; the 504 of `handlers.go:158` and `api/openapi.yaml:82` is given
  only if claude was not started or had ended with 0.
- `runs_deadline` (`DeadlineEndsRun`): the kill reaches claude alone, not what it started (`runner.go:61-62`); a
  command that keeps stdout or stderr open keeps Wait and the slot. A client that stops reading a stream has the
  same effect.
- `store_atomic` (`FileWhole`): two Upserts share `sessions.json.tmp` outside the mutex (`session.go:109`, `:126`);
  the file that is renamed may be empty or torn, against `session.go:120`, and a torn file prevents the next start.
- `runs_shutdown` (`LongRunsCancelled`): Shutdown cancels no context, and there is no context of the server to cancel,
  against `main.go:87-88`. A run of more than 30 seconds is cut off with the process; its claude works on without
  anybody to read it, kill it or record its session. A server that fails (`ServerFails`) ends the process in the same way,
  at once.

Some remarks are not runs of their own.

- A stream whose client disconnects returns at `sse.go:83-86` without `wait()`, which `runner.go:30-31` asks for: the
  killed child stays a zombie until the daemon ends. `UnreapedOnlyAbandoned` shows that this is the only such return;
  it is also what makes the counterexample of `runs_bound`.
- For a session that is not in `Careful`, `StaysTied` fails: the workdir of any run, also of one that failed, replaces the one the session
  is tied to (`handlers.go:138`), and the next resume without workdir runs where there is no history. `session.go:6`, "amarra cada
  session_id ao seu workdir", may be read either way. The same happens to a client that repeats the workdir of its session, as `README.md:234-237`
  shows, when that is a link which has been moved: the path is resolved anew (`handlers.go:235`). With `Sensible` changed to admit it
  `BoundWhereHistoryIs`, `ResumesInPlace` and `StaysTied` fail; a resume without workdir is not touched by the move.
- A binding that was saved can be lost again. With two Upserts at a time the older copy may be renamed last (`session.go:109`, `:126-130`), and a
  restart then finds a session unbound that the file had bound. This is why `StaysTied` excepts the restart, and why `AckedDurable` is claimed for one Upsert at a time only.
- Outside `Plain` the two readings of the command line part: with `--session-store config=x --config f1` the scan keeps the value `config=x`
  (`config.go:299`), at which its Parse stops, and f1 is never read; the daemon serves without the file. The same goes for a value `config`.
- `README.md:198` and `config.go:42` call the limit requests per client and minute. `WindowBounded` is what holds: a burst of a
  minute's quota (`server.go:128` says so) and the refill, together up to twice the number in one minute, and never more (`TwiceAMinute`). Retry-After is
  always one second, less than a token takes with a limit below 60.

## 5. Proofs

All proofs are in modules of their own, with no assumption but the named ones on constants
(`RunsAssumption`, `StoreAssumption`, `SessionsAssumption`, `RateAssumption`, `StartupAssumption`) and those stated in a theorem.

**RunsProofs.** `TypeCorrect`. `SlotsCorrect` (`SlotsBalanced`) and `WakeupCorrect` (`NoLostWakeup`) from the inductive
`SlotInv`: the set of tokens is finite and at most MaxConcurrency, tokens correspond to program counters, the queue
lists each waiter once, and a queue that is not empty means that all tokens are out. The last conjunct is what makes a
newcomer queue behind others, so it is needed for the first ones. `UpsertsCorrect` and `NoOvertakingCorrect` follow
from it, and `UpsertsAdmittedCorrect` with the fact that only one handler enters Upsert in a step (`OneUpsertAtATime`). `OutliveCorrect`, `UnreapedCorrect`, `AnswersCorrect` (`VerdictMatchesProcess`), `StreamsComplete` (`DoneAfterEveryLine`) and
`ToolsFirst` (`AnsweredAfterTools`) rest on `RunInv`, which ties the program counter of a request to its
process, its watcher, its answer and its pipe: a process that runs has an armed watcher until its context ends; a
handler past `wait` has reaped its process and joined its watcher; an answer remembers the process it was given on. `AttendedCorrect` (`AttendedBounded`)
joins both: a process that is not an abandoned one runs for a handler that holds a token.

**RunsRefinement.** `RunsImplementService`: with the mapping `Phase` - a request runs while it holds a token - each
action of Runs is an action of RunService or leaves `phases` alone. A release with waiters is `HandOver`, which is why
RunService has that action: a token never becomes free in between. `ServiceBounded`: RunService itself never has more than
MaxConcurrency runs going on, by the cardinality of `phases` before and after each of its actions.

**LifecycleProofs.** `LifecycleImplementsRuns`: a step of the daemon is a step of Runs or leaves the handlers alone, so every
theorem about Runs holds up to and after the end of the daemon; `LifeSafety` lists them, and `LifeImplementsService` says
that the daemon, its end included, implements RunService and its bound. `CleanExitCorrect`: a drained daemon finds every request
before its start or after its end (`Drain`), and there the invariants of RunsProofs leave no token, no waiter and
no live context; a process that is left belongs to an abandoned stream with its watcher still to come.

**SessionStoreProofs.** `DiskCorrect` and `CopyCorrect`, for any number of concurrent Upserts, from `PastInv`: every copy, every whole file
and the memory are cuts of one history, totally ordered. `SerialWhole`, `SerialDurable` and `SerialImplements`, under the
hypothesis `[]Lone` that no two Upserts overlap - whatever `max_concurrency` is, its default being 2 - from `SerialInv`: the temporary
file holds nothing or the copy of the one writer, and the file what was acknowledged. The refinement maps the memory of a daemon that
is down to what its file will give. `OneSlotSerial` discharges the hypothesis: with `max_concurrency` 1, and the guard that
`UpsertsAdmittedCorrect` justifies, no two Upserts ever overlap (`InsideInv`). `LossyImplements` has no such hypothesis: SessionStorePast
adds to the store a memory of the maps since the last start, and `Remembered` says that every copy and every whole file is one of them,
so that a restart is a `Restart` of LossyMap; a step of persist changes neither the map nor that memory.

**SessionsProofs.** `TypeCorrect` with `Canonical`: only canonical paths are ever kept. `UnderRootsCorrect`. `BoundCorrect`,
`ResumesCorrect` and `TiedCorrect`, for each session in `Careful`, whatever is done to the others, from `Homes`: everything that says
where such a session belongs - the map, each state of it that a restart may find, the history, a request under way with its id - says `home`,
or nothing. The properties alone are not inductive: a request that waits may bind the id long after. `Kept` says that an id in use keeps its
home. `ReportedCorrect`, for all clients: what claude reported to a run has its
history in the directory of the run, and is the id of the arguments unless the run forks a resume (`Reported`).

**RateLimitProofs.** For any number of connections and keys, any rates, any minute and any `Lag`: `TypeCorrect`;
`OneLimiterCorrect`; `WindowCorrect` from `Times` (clocks that were read are at most `Lag` old, and a limiter has the clock of its
latest admission) and `Account`, an account of the watched key: what was admitted since the mark and what the limiter
still holds were in the burst, were refilled since `Lag` before the mark, or were refilled a second time after its clock
was set back. The bound alone is not inductive, since it does not say what the limiter holds. `RefusalCorrect` follows from
`Times`. `TwiceAMinute` puts a minute into the bound: at most twice the limit.

**StartupProofs.** For command lines of any length over any set of words, any files and environment. `TypeCorrect`, with `NumberInv`: what flag.Parse
took for a number is one. `ScanCorrect` (`ScanAgrees`) and `PrecedenceCorrect` (`Precedence`) are about plain command lines (`Plain`, section 2), which
the loops read a round at a time, so that no induction over the data is needed: `KeptInv` says what stripUnknownExcept has kept so far
- every `--config` up to here, in order, each with its value behind it, and no word but such values -, `Latest` that a
Parse holds the value of the last such flag before its position, and `LayerInv` which layers are in `number` at each
phase. `FindFileAsked` joins the two readings: the last `--config` among what was kept is the last one on the command line. Since an
error would end the scan in silence, that lemma first shows that the scan never meets one, for which `ScanInv` says that it always
stands at a flag.

**Only model-checked**: liveness (`RequestsEnd`, `AbandonedDie`, `DrainEnds`), which is out of the prover's reach with its fairness and
ENABLED. Every other property of a passing run is a theorem.

## 6. What is left out

- A crash is that of the daemon, not of the machine: what was written is there (`persist` does not call fsync).
- Contents: prompts, lines, results, titles and models of sessions. BuildArgs' flags other than the session's.
- The history of a session is a fact about claude that `session.go:3-6` states; two runs at once on one
  session are independent here.
- The path algebra of `validatePath` (prefixes, dot segments, paths that do not exist yet): Sessions has canonical
  directories and links. A directory never becomes a link: a canonical path that is swapped for a link between validatePath and the
  start of claude is not covered by `RunsUnderRoots`.
- On the command line: `--`, `-h`, more than two dashes, values that are empty.
- `Disconnect` and `ConnLost` are separate and unordered: a write may fail before the context is cancelled, and a
  context may be cancelled before a write fails.
- What a service manager does to the processes that a daemon leaves behind.
- Rounding in golang.org/x/time/rate, and the number of keys: a limiter is never removed, which the model shows
  (`OneLimiterPerKey`) and does not bound.
- The text of paths: a root `/` admits only itself, since `validatePath` looks for the prefix `//` (`handlers.go:222`).
- The text of session ids: `uuid.Parse` accepts several spellings of one id (`options.go:91`, `:96`), and the store keeps the one it got.
- `output_format` of a plain run: BuildArgs passes it on (`README.md:323`), and Run then parses the output as one JSON document,
  which it is only for `json`.
- The stateless parts of section 1: a comparison of the token, a log record, a recover, handlers that only read.
  Session discovery (`EncodeProjectDir`, `DiscoverFromDisk`) is called by nothing in the daemon.

## 7. What could follow

1. `RunRequest` and `PathAllow` as pure modules: Validate and BuildArgs against the table of the README, prefixes and missing
   ancestors against a reference definition by components, checked over bounded inputs.
2. The session store composed with Lifecycle in one module, so that the end of the daemon in the middle of a persist is
   that of section 4, and not `Crash` at any moment.
3. What holds of the start-up beyond plain command lines: which others the two readings of the arguments still agree on.
