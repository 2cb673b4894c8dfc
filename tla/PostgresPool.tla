---------------------------- MODULE PostgresPool ----------------------------
(***************************************************************************)
(* The handlers of Registry over the connections of a pgxpool, as many as  *)
(* MaxConns.  A statement outside a transaction takes a connection and     *)
(* gives it back in its own step.  Two things keep one from step to step:  *)
(* PushModule's transaction, and the rows of GetModuleDependencies, which  *)
(* asks the pool for a second connection to resolve each of them and never *)
(* closes them: reading to the end gives the connection back, returning    *)
(* from among the rows does not.                                           *)
(***************************************************************************)
EXTENDS Registry

CONSTANT MaxConns

ASSUME MaxConnsAssumption == MaxConns \in Nat \ {0}

VARIABLE lost   \* handlers that have returned without giving back theirs

-----------------------------------------------------------------------------

\* The handlers that hold a connection between two statements
Holds(c) == At(c, "CommitTx") \/ At(c, "ResolveDep")

InUse == Cardinality({c \in Client : Holds(c)}) + Cardinality(lost)

Free == InUse < MaxConns

\* Mutant: PushModule without its deferred Rollback
LeavesOpenWithoutRollback(c) == Holds(c) /\ answer'[c] \notin {"none", "ok"}

\* c returns from among the rows of its dependencies
LeavesOpen(c) ==
  /\ At(c, "ResolveDep") /\ answer'[c] \in {"error", "dependency not found"}

\* Only what has a connection already, or needs none, goes on without another
OwnConnection(c) == Validate(c) \/ CommitTx(c) \/ Abort(c)

PoolStep(c) ==
  /\ OwnConnection(c) \/ (Free /\ Step(c))
  /\ lost' = IF LeavesOpen(c) THEN lost \cup {c} ELSE lost

\* The clock and the compaction daemon, whose process has a pool of its own
OtherProcess == (Compact \/ Tick) /\ UNCHANGED lost

PoolInit == Init /\ lost = {}

PoolNext == OtherProcess \/ \E c \in Client : PoolStep(c)
=============================================================================
