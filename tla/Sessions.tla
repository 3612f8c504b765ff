------------------------------ MODULE Sessions ------------------------------
(***************************************************************************)
(* Which directory a session belongs to.  claude keeps the history of a    *)
(* session under the directory it ran in, so a resume must run there       *)
(* again; the daemon remembers the directory of every session it has run   *)
(* (internal/session) and uses it when a resume names none (resolveWorkdir *)
(* in internal/server/handlers.go).  Several requests are under way at a   *)
(* time; a slot is waited for between the look at the store and the run    *)
(* (Runs); a restart finds some earlier state of the store (LossyMap),     *)
(* perhaps with other roots allowed.                                       *)
(***************************************************************************)
EXTENDS FiniteSets

CONSTANTS
    Reqs,        \* POST /v1/runs requests
    Streams,     \* those with "stream": true
    IDs,         \* session ids
    Dirs,        \* directories, by their canonical path
    Links,       \* other paths, symbolic links to directories
    NoID,        \* no session id
    NoDir,       \* no workdir
    RootSets,    \* sets of directories that some allowed_roots admit
    Careful      \* sessions whose clients do as they are told (Sensible)

ASSUME SessionsAssumption ==
    /\ Streams \subseteq Reqs /\ Careful \subseteq IDs
    /\ NoID \notin IDs
    /\ NoDir \notin Dirs \union Links /\ Dirs \intersect Links = {}
    /\ RootSets \subseteq SUBSET Dirs /\ RootSets # {}

VARIABLES
    points,      \* link -> the directory it leads to
    allowed,     \* directories under the daemon's AllowedRoots
    bound,       \* Store.recs: id -> Workdir
    past,        \* what sessions.json may hold (LossyMap)
    history,     \* <<id, directory>> of the sessions that claude has on disk
    home,        \* id -> the directory it was first used in, which its clients
                 \* know; NoDir for an id that nobody has used
    run          \* request -> where it is and what its handler knows

storeVars == <<bound, past>>
vars == <<points, allowed, bound, past, history, home, run>>

Store == INSTANCE LossyMap WITH Values <- Dirs, None <- NoDir, mem <- bound

Unused == {i \in IDs : home[i] = NoDir}

(* The fields of RunRequest that matter here.  Validate refuses a resume   *)
(* with continue; claude refuses fork without one of them.                 *)
Bodies ==
    {b \in [workdir : Dirs \union Links \union {NoDir}, resume : IDs \union {NoID},
            session : IDs \union {NoID}, continue : BOOLEAN, fork : BOOLEAN] :
        /\ ~(b.continue /\ b.resume # NoID)
        /\ b.fork => b.continue \/ b.resume # NoID}

NoBody == [workdir |-> NoDir, resume |-> NoID, session |-> NoID,
           continue |-> FALSE, fork |-> FALSE]

(* req.Workdir is replaced by the directory it was resolved to, which is   *)
(* where claude runs: cwd.  sid is the id that BuildArgs returned, shown   *)
(* the id in the output of claude.                                         *)
Asked(b, d) == [at |-> "waiting", body |-> [b EXCEPT !.workdir = d], cwd |-> d,
                sid |-> NoID, shown |-> NoID]
Idle(where) == [at |-> where, body |-> NoBody, cwd |-> NoDir, sid |-> NoID, shown |-> NoID]

New      == Idle("new")
Answered == Idle("answered")

Init ==
    /\ points \in [Links -> Dirs]
    /\ allowed \in RootSets
    /\ Store!Init
    /\ history = {} /\ home = [i \in IDs |-> NoDir]
    /\ run = [r \in Reqs |-> New]

HistoryIn(d) == {i \in IDs : <<i, d>> \in history}

-----------------------------------------------------------------------------
(* handleRuns up to the wait for a slot *)

\* canonicalize follows the links.
Canon(p) == IF p \in Links THEN points[p] ELSE p

\* The workdir of the request or, without one, that of the session it resumes.
Wanted(b) ==
    IF b.workdir # NoDir \/ b.resume = NoID THEN b.workdir ELSE bound[b.resume]

\* Mutants of Resolved: no workdir is a workdir; one from the store is not
\* checked again; the path is kept as the client wrote it; without a workdir
\* the run is put under some root.
ResolvedUnset(b) ==
    IF Wanted(b) = NoDir THEN {NoDir} ELSE {Canon(Wanted(b))} \intersect allowed

ResolvedTrusting(b) ==
    IF b.workdir = NoDir THEN {Wanted(b)} \ {NoDir}
    ELSE {Canon(Wanted(b))} \intersect allowed

ResolvedRaw(b) ==
    IF Canon(Wanted(b)) \in allowed THEN {Wanted(b)} ELSE {}

ResolvedAnywhere(b) ==
    IF b.workdir = NoDir THEN allowed ELSE {Canon(b.workdir)} \intersect allowed

\* resolveWorkdir and validatePath: the canonical path if it is allowed.
Resolved(b) ==
    IF Wanted(b) = NoDir THEN {} ELSE {Canon(Wanted(b))} \intersect allowed

\* What the clients of the careful sessions keep to: they resume one without
\* a workdir or with one that leads to its directory, and begin one under an
\* id of their own, or try that again, in one directory only.  What clients
\* send about the other sessions is left to them.
Sensible(b) ==
    /\ b.resume \in Careful => Canon(b.workdir) \in {NoDir, home[b.resume]}
    /\ b.session \in Careful =>
          /\ b.resume = NoID /\ ~b.continue
          /\ home[b.session] \in {NoDir, Canon(b.workdir)}

\* The id i, if there is one, comes into use in directory d.
Used(i, d) == home' = [j \in IDs |-> IF j = i /\ j \in Unused THEN d ELSE home[j]]

\* The client knows the id it resumes from somewhere.
Resolve(r, b) ==
    /\ run[r].at = "new"
    /\ b.resume \notin Unused /\ Sensible(b)
    /\ \/ Resolved(b) = {} /\ run' = [run EXCEPT ![r] = Answered] /\ UNCHANGED home
       \/ \E d \in Resolved(b) :
             run' = [run EXCEPT ![r] = Asked(b, d)] /\ Used(b.session, d)
    /\ UNCHANGED <<points, allowed, storeVars, history>>

\* 429: no slot in time.
Busy(r) ==
    /\ run[r].at = "waiting"
    /\ run' = [run EXCEPT ![r] = Answered]
    /\ UNCHANGED <<points, allowed, storeVars, history, home>>

-----------------------------------------------------------------------------
(* The run *)

\* BuildArgs: resume before continue before session_id, which it makes up,
\* by uuid.NewString, when there is none.
SessionIDs(b) ==
    CASE b.resume # NoID                   -> {b.resume}
      [] b.resume = NoID /\ b.continue     -> {NoID}
      [] ~b.continue /\ b.resume = NoID /\ b.session # NoID -> {b.session}
      [] OTHER                             -> Unused

Begun(q, i, where) == [q EXCEPT !.sid = i, !.at = where]

Start(r) ==
    /\ run[r].at = "waiting"
    /\ \E i \in SessionIDs(run[r].body) :
          /\ run' = [run EXCEPT ![r] = Begun(@, i, "running")]
          /\ Used(i, run[r].cwd)
    /\ UNCHANGED <<points, allowed, storeVars, history>>

\* claude could not be started: only Run goes on to the store.
StartFails(r) ==
    /\ run[r].at = "waiting"
    /\ \E i \in SessionIDs(run[r].body) :
          /\ run' = [run EXCEPT ![r] =
                IF r \in Streams THEN Answered ELSE Begun(@, i, "ended")]
          /\ Used(i, run[r].cwd)
    /\ UNCHANGED <<points, allowed, storeVars, history>>

\* Sessions that claude can go on with: none for a new one whose id is taken
\* or a resume from another directory than before.
Origins(q) ==
    CASE q.body.resume # NoID                      -> {q.sid} \intersect HistoryIn(Canon(q.cwd))
      [] q.body.resume = NoID /\ q.body.continue   -> HistoryIn(Canon(q.cwd))
      [] OTHER                                     -> {q.sid} \ HistoryIn(Canon(q.cwd))

\* The process of a daemon that crashed works on, but nobody reads its output.
Over(q, i) == IF q.at = "orphan" THEN Answered ELSE [q EXCEPT !.at = "ended", !.shown = i]

\* claude works on a session, which gets a new id if it is a fork, and is
\* over (a run that was stopped by a limit or an error has its history too).
ClaudeWorks(r) ==
    /\ run[r].at \in {"running", "orphan"}
    /\ \E o \in Origins(run[r]) :
       \E i \in IF run[r].body.fork THEN Unused ELSE {o} :
          /\ history' = history \union {<<i, Canon(run[r].cwd)>>}
          /\ run' = [run EXCEPT ![r] = Over(@, i)]
          /\ Used(i, Canon(run[r].cwd))
    /\ UNCHANGED <<points, allowed, storeVars>>

\* It finds no such session, or fails before it has any.
ClaudeFails(r) ==
    /\ run[r].at \in {"running", "orphan"}
    /\ run' = [run EXCEPT ![r] = Over(@, NoID)]
    /\ UNCHANGED <<points, allowed, storeVars, history, home>>

\* The client of a stream is gone: no Upsert.
Abandon(r) ==
    /\ r \in Streams /\ run[r].at = "ended"
    /\ run' = [run EXCEPT ![r] = Answered]
    /\ UNCHANGED <<points, allowed, storeVars, history, home>>

\* Mutant of SessionOf: what claude reports is not looked at.
SessionOfArgs(q) == q.sid

\* The id of the arguments, else the one that claude reported.
SessionOf(q) == IF q.sid # NoID THEN q.sid ELSE q.shown

\* The record is written whatever became of claude.  Its way to the file, on
\* which other Upserts may pass it, and that it could not be saved is only
\* logged, is what LossyMap says of the store.
Upsert(r) ==
    /\ run[r].at = "ended"
    /\ IF SessionOf(run[r]) = NoID THEN UNCHANGED storeVars
       ELSE Store!Put(SessionOf(run[r]), run[r].cwd)
    /\ run' = [run EXCEPT ![r] = Answered]
    /\ UNCHANGED <<points, allowed, history, home>>

-----------------------------------------------------------------------------
(* The operator *)

\* A link is made to lead elsewhere.
Relink(l, d) ==
    /\ points' = [points EXCEPT ![l] = d]
    /\ UNCHANGED <<allowed, storeVars, history, home, run>>

AfterCrash(q) ==
    CASE q.at = "new" -> q
      [] q.at \in {"running", "orphan"} -> [q EXCEPT !.at = "orphan"]
      [] OTHER -> Answered

\* The daemon crashes or is stopped, and is started again.
Restart(roots) ==
    /\ allowed' = roots
    /\ Store!Restart
    /\ run' = [r \in Reqs |-> AfterCrash(run[r])]
    /\ UNCHANGED <<points, history, home>>

Handle(r) ==
    \/ \E b \in Bodies : Resolve(r, b)
    \/ Busy(r) \/ Start(r) \/ StartFails(r) \/ Abandon(r) \/ Upsert(r)

Next ==
    \/ \E r \in Reqs : Handle(r) \/ ClaudeWorks(r) \/ ClaudeFails(r)
    \/ \E l \in Links, d \in Dirs : Relink(l, d)
    \/ \E roots \in RootSets : Restart(roots)

Spec == Init /\ [][Next]_vars
=============================================================================
