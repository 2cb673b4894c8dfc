---------------------------- MODULE SqliteDaemon ----------------------------
(***************************************************************************)
(* The proto-parsing daemon over SQLite: internal/data/sqlite/metadata.go  *)
(* and sqlite/drift.go behind the loop that DriftDaemon models.            *)
(*                                                                         *)
(* The service and the daemon are two processes on one file.  Three things *)
(* differ from PostgreSQL.  There is one write lock.  ComputeAndStoreHashes*)
(* reads before it writes in a deferred transaction: its UPDATE fails at   *)
(* once, SQLITE_BUSY_SNAPSHOT, when anybody has committed since its SELECT.*)
(* And sqlite.Open sets PRAGMA foreign_keys on one connection of the pool: *)
(* a statement that gets another connection neither cascades nor is        *)
(* refused.                                                                *)
(***************************************************************************)
EXTENDS DriftDaemon

CONSTANT MaxErrors   \* a bound on all errors, SQLITE_BUSY_SNAPSHOT included

ASSUME ErrorsAssumption == MaxErrors \in Nat /\ MaxErrors >= MaxFaults

\* The holder of the write lock says whose it is
ASSUME WriterAssumption == Run \cap Tag = {} /\ None \notin Run

VARIABLES
  writer,   \* the run or the push that holds the write lock
  snapshot  \* of each run: the tag whose files its hash transaction has read,
            \* and whether somebody has committed since

svars == <<writer, snapshot>>

NoSnapshot == [tag |-> None, stale |-> FALSE]

-----------------------------------------------------------------------------
(* The lock and the snapshots                                              *)

Select == UNCHANGED svars

\* A commit of somebody else: the snapshots that are open go stale
Overtaken(r) == [snapshot[r] EXCEPT !.stale = @ \/ snapshot[r].tag # None]

AutoCommit ==
  /\ writer = None /\ UNCHANGED writer
  /\ snapshot' = [r \in Run |-> Overtaken(r)]

Lock(w) == writer = None /\ writer' = w /\ UNCHANGED snapshot

\* Mutant: the deferred Rollback is left out
RollbackNothing(w) ==
  /\ UNCHANGED writer
  /\ snapshot' = [r \in Run |-> IF r = w THEN NoSnapshot ELSE snapshot[r]]

\* The deferred Rollback: the lock, if w has it, is free
Rollback(w) ==
  /\ writer' = IF writer = w THEN None ELSE writer
  /\ snapshot' = [r \in Run |-> IF r = w THEN NoSnapshot ELSE snapshot[r]]

Commit(w) ==
  /\ writer = w /\ writer' = None
  /\ snapshot' = [r \in Run |-> IF r = w THEN NoSnapshot ELSE Overtaken(r)]

-----------------------------------------------------------------------------
(* The service                                                             *)

PushModule(t) ==
  \/ Lock(t) /\ BeginPush(t)
  \/ Commit(t) /\ CommitPush(t)
  \/ Rollback(t) /\ RollbackPush(t)

\* DELETE FROM tags on a connection without foreign keys: the events stay
DeleteRowUncascaded(t) ==
  /\ stage[t] = "fileless"
  /\ stage' = [stage EXCEPT ![t] = "gone"]
  /\ processed' = processed \ {t}
  /\ UNCHANGED <<backend, now, updated_at, pushed, files, hashed, parsed, meta,
                 events, run, faults, failed>>

DeleteModuleTag(t) ==
  AutoCommit /\ (DeleteFiles(t) \/ DeleteRow(t) \/ DeleteRowUncascaded(t))

AcknowledgeDriftEvent(e) == AutoCommit /\ Acknowledge(e)

\* Mutant: LEFT JOIN
AllEvents == events

\* GetUnacknowledgedDriftEvents and GetDriftEventsForModule read
\* drift_events JOIN tags: the events of a tag that is gone are not listed
ListedEvents == {e \in events : HasRow(e.tag_id)}

-----------------------------------------------------------------------------
(* The daemon                                                              *)

GetUnprocessedTagIds(r) == Select /\ StartRun(r)

GetProtoFilesForTagId(r) == Select /\ (ReadFiles(r) \/ ReadFilesCutShort(r))

\* The first INSERT takes the lock, COMMIT makes it all visible
SaveParsedProtoFiles(r) ==
  \/ run[r].pc = "save" /\ Lock(r) /\ UNCHANGED vars
  \/ Commit(r) /\ SaveParsed(r)

GetTagsWithoutHashes(r) == Select /\ ListUnhashed(r)

\* The run goes on without the tag t
HashNext(r, t) ==
  Proceed(r, HashOrDetect(run[r].todo \ {t}), run[r].todo \ {t}, run[r].done)

\* BEGIN and SELECT ... WHERE content_hash = ''; without a row there is
\* nothing to UPDATE and the transaction ends as it began
SelectUnhashed(r) ==
  /\ run[r].pc = "hash" /\ snapshot[r].tag = None
  /\ \E t \in run[r].todo :
       \/ /\ files[t] # Empty /\ t \notin hashed
          /\ snapshot' = [snapshot EXCEPT ![r].tag = t]
          /\ UNCHANGED <<vars, writer>>
       \/ /\ files[t] = Empty \/ t \in hashed
          /\ HashNext(r, t)
          /\ UNCHANGED <<registry, hashed, processed, parsed, meta, events,
                         faults, failed, svars>>

\* The first UPDATE: it takes the lock if the snapshot is the last state
UpdateHashes(r) ==
  /\ snapshot[r].tag # None /\ ~snapshot[r].stale
  /\ Lock(r) /\ UNCHANGED vars

\* ... and otherwise fails; the error is logged and the tag left out
BusySnapshot(r) ==
  /\ snapshot[r].stale
  /\ HashNext(r, snapshot[r].tag) /\ Rollback(r)
  /\ faults < MaxErrors /\ faults' = faults + 1
  /\ failed' = [failed EXCEPT !.hash = @ \cup {snapshot[r].tag}]
  /\ UNCHANGED <<registry, hashed, processed, parsed, meta, events>>

CommitHashes(r) ==
  /\ Commit(r) /\ run[r].pc = "hash"
  /\ hashed' = hashed \cup {snapshot[r].tag}
  /\ HashNext(r, snapshot[r].tag)
  /\ UNCHANGED <<registry, processed, parsed, meta, events, faults, failed>>

ComputeAndStoreHashes(r) ==
  SelectUnhashed(r) \/ UpdateHashes(r) \/ BusySnapshot(r) \/ CommitHashes(r)

GetPreviousTagID(r) == Select /\ SelectPrevious(r)

GetFileHashesForTag(r) ==
  Select /\ (SelectCurrentHashes(r) \/ SelectPreviousHashes(r))

\* The INSERT on a connection without foreign keys, for a tag that is gone
SaveOrphanEvents(r) ==
  /\ run[r].pc = "save events" /\ ~HasRow(run[r].cur)
  /\ events' = Insert(DetectDrift(run[r].prev, run[r].cur, run[r].previous,
                                  run[r].files))
  /\ Proceed(r, AfterDetect(run[r].done \ {run[r].cur}), {},
             run[r].done \ {run[r].cur})
  /\ UNCHANGED <<registry, hashed, processed, parsed, meta, faults, failed>>

InsertDriftEvents(r) ==
  AutoCommit /\ (SaveEvents(r) \/ SaveEventsUnparsed(r) \/ SaveOrphanEvents(r))

\* An error that is logged and skipped, with the rollback of what is open
FailStatement(r) ==
  /\ SkipTag(r) /\ Rollback(r)
  /\ snapshot[r].tag # None => run'[r].todo = run[r].todo \ {snapshot[r].tag}

\* The daemon's process ends and its transactions with it
ExitProcess ==
  /\ Exit
  /\ writer' = IF writer \in Run THEN None ELSE writer
  /\ snapshot' = [r \in Run |-> NoSnapshot]

-----------------------------------------------------------------------------

SqliteRunStep(r) ==
  \/ GetProtoFilesForTagId(r) \/ SaveParsedProtoFiles(r)
  \/ GetTagsWithoutHashes(r) \/ ComputeAndStoreHashes(r)
  \/ GetPreviousTagID(r) \/ GetFileHashesForTag(r) \/ InsertDriftEvents(r)

SqliteNext ==
  \/ Tick /\ Select
  \/ \E t \in Tag : PushModule(t) \/ DeleteModuleTag(t)
  \/ \E e \in events : AcknowledgeDriftEvent(e)
  \/ \E r \in Run : GetUnprocessedTagIds(r) \/ SqliteRunStep(r) \/ FailStatement(r)
  \/ ExitProcess

StoreInit ==
  /\ Init /\ backend = "sqlite"
  /\ writer = None /\ snapshot = [r \in Run |-> NoSnapshot]

StoreSpec == StoreInit /\ [][SqliteNext]_<<vars, svars>>

-----------------------------------------------------------------------------
(* Properties                                                              *)

\* The daemon as DriftDaemon has it, with the events that the queries list.
\* The errors of overtaken transactions are errors of it; their number is not
\* bounded by MaxFaults, only by the commits that overtake them.
Daemon == INSTANCE DriftDaemon WITH events <- ListedEvents,
                                    MaxFaults <- MaxErrors

\* Over SQLite the daemon and the drift queries are an implementation of
\* DriftDaemon: the write lock makes its transactions the atomic steps, a hash
\* transaction that is overtaken is an error DriftDaemon allows for, and the
\* rows that missing foreign keys leave behind are never listed.
ImplementsDaemon == Daemon!Spec

\* What the listings show is true of the pushed files (EventsTruthful): a
\* false "added" or "deleted" is listed only when the files of the tag, or of
\* the older one, are being deleted, or their hashes could not be stored, be it
\* for an error or because a commit of somebody else overtook them, or when the
\* older tag was committed after a run had listed the tags to hash.
ListedEventsTruthful == Daemon!EventsTruthful

\* The write lock is held only inside a transaction that will end it: by a
\* push that has begun, or by a run that is saving or hashing.  Whatever fails
\* in between, and if the daemon dies, it is free again.
LockHeldInTransaction ==
  writer # None =>
    \/ writer \in Tag /\ stage[writer] = "begun"
    \/ writer \in Run /\ run[writer].pc \in {"save", "hash"}
=============================================================================
