-------------------------- MODULE SessionStorePast --------------------------
(***************************************************************************)
(* What remains of the durable map when Upserts overlap.  SessionStore     *)
(* keeps no memory of the states that the map was in, so one is added to   *)
(* it, which no step of the store looks at.                                *)
(***************************************************************************)
EXTENDS SessionStoreProperties

VARIABLE past    \* the maps since the last start of the daemon, that of it included

\* A crash leaves one map, the one that the next daemon will load.
Remember == past' = IF up' THEN past \union {recs'} ELSE {Memory'}

RememberSpec == Init /\ past = {Nothing} /\ [][Next /\ Remember]_<<vars, past>>

Lossy == INSTANCE LossyMap WITH Values <- 1 .. MaxClock, None <- 0, mem <- Memory

\* Upserts that overlap may rename an older copy last, so that a restart finds
\* less than the file has held; but it finds one whole state that the map was
\* in since the daemon was last started, or nothing.  Sessions takes no more
\* than this from the store.
ImplementsLossyMap == Lossy!Spec
=============================================================================
