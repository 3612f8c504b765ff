------------------------- MODULE SessionsProperties -------------------------
(***************************************************************************)
(* What is claimed of Sessions.                                            *)
(***************************************************************************)
EXTENDS Sessions

Paths == Dirs \union Links

\* What a handler under way knows.
Active == [at : {"waiting", "running", "orphan", "ended"}, body : Bodies, cwd : Paths,
           sid : IDs \union {NoID}, shown : IDs \union {NoID}]

\* Type invariant.
TypeOK ==
    /\ points \in [Links -> Dirs]
    /\ allowed \in RootSets
    /\ bound \in [IDs -> Paths \union {NoDir}]
    /\ past \subseteq [IDs -> Paths \union {NoDir}]
    /\ home \in [IDs -> Dirs \union {NoDir}]
    /\ history \subseteq (IDs \ Unused) \X Dirs
    /\ run \in [Reqs -> {New, Answered} \union Active]

\* claude only runs in directories that the allowed_roots of the running
\* daemon admit, also where the directory comes from a record that an earlier
\* daemon, with other roots, saved.
RunsUnderRoots ==
    \A r \in Reqs : run[r].at \in {"waiting", "running"} => run[r].cwd \in allowed

HasHistory(i) == \E d \in Dirs : <<i, d>> \in history

\* A session that exists and that the store knows is bound to a directory
\* where it has its history, in memory and in whatever state of the store a
\* restart may find.  It takes that the clients of this session keep to its
\* directory (Sensible), since an Upsert binds whatever became of the run;
\* those of other sessions may send anything.
BoundWhereHistoryIs ==
    \A i \in Careful : HasHistory(i) =>
        \A m \in past \union {bound} : m[i] = NoDir \/ <<i, m[i]>> \in history

\* A resume of such a session runs where the session has its history, also
\* when it names no workdir: however long it waited for its slot, whatever
\* ran, crashed, was saved or was set back meanwhile, wherever the links led
\* when the session began.
ResumesInPlace ==
    \A r \in Reqs :
        run[r].at = "running" /\ run[r].body.resume \in Careful
            => \/ <<run[r].body.resume, Canon(run[r].cwd)>> \in history
               \/ ~HasHistory(run[r].body.resume)

Tied(i) == <<i, bound[i]>> \in history

\* "Este store amarra cada session_id ao seu workdir": a session that is
\* bound to the directory of its history is never bound to one where it has
\* none, whatever runs of it fail; only a restart, which may find an older
\* state of the store, unbinds it.
StaysTied ==
    [][ \A i \in Careful :
          Tied(i) => \/ Tied(i)'
                     \/ bound'[i] = NoDir /\ \E roots \in RootSets : Restart(roots) ]_vars

ForkOfResume(b) == b.fork /\ b.resume # NoID

\* A session that claude has reported to a run is bound, when the run ends
\* with its Upsert, to a directory where it has its history, so that its id
\* alone is enough to resume it - unless it is the fork of a resume, where
\* the id of the arguments wins and the fork stays out of the store.
ReportedIsTied ==
    [][ \A r \in Reqs, i \in IDs :
          Upsert(r) /\ run[r].shown = i /\ ~ForkOfResume(run[r].body) => Tied(i)' ]_vars
=============================================================================
