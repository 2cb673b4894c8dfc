--------------------------- MODULE SqliteRegistry ---------------------------
(***************************************************************************)
(* The registry repository behind the driver that was opened: PostgreSQL,  *)
(* Registry over a PostgresPool, or SQLite (internal/data/sqlite).         *)
(*                                                                         *)
(* The SQLite repository sends the same statements.  What differs is what  *)
(* makes them atomic: WAL mode gives every SELECT the last committed       *)
(* state, there is one write lock for the whole database, and a push's     *)
(* transaction is deferred, so BEGIN takes no lock and its first INSERT    *)
(* does.  The rows of an open transaction are in wal, invisible to others. *)
(* A statement that does not get the lock in time fails with SQLITE_BUSY,  *)
(* an error like any other: Rollback.                                      *)
(***************************************************************************)
EXTENDS PostgresPool

CONSTANT Drivers   \* the drivers that may be opened

ASSUME DriversAssumption == Drivers \subseteq {"postgres", "sqlite"}

VARIABLES
  driver,   \* DATA_DATABASE_DRIVER
  writer,   \* the handler that holds SQLite's write lock, None if it is free
  open,     \* the handlers that have a transaction open
  wal       \* what the writer's transaction has inserted, and from which file on

svars == <<driver, writer, open, wal>>

EmptyWal == [tags |-> {}, protofiles |-> {}, next |-> 1]

-----------------------------------------------------------------------------
(* Locks                                                                   *)

\* A SELECT: readers neither wait nor make anybody wait
Select == UNCHANGED svars

\* A write outside a transaction takes the lock, commits and frees it at once
AutoCommit == writer = None /\ UNCHANGED svars

\* Mutant: the deferred Rollback is left out
ReleaseNothing(c) ==
  /\ open' = open \ {c}
  /\ UNCHANGED <<driver, writer, wal>>

\* COMMIT or ROLLBACK: the end of a transaction, with or without the lock
Release(c) ==
  /\ open' = open \ {c}
  /\ writer' = IF writer = c THEN None ELSE writer
  /\ wal' = IF writer = c THEN EmptyWal ELSE wal
  /\ UNCHANGED driver

-----------------------------------------------------------------------------
(* registryRepo, one definition for each method                            *)

RegisterModule(c) == AutoCommit /\ InsertModule(c)

\* The lookups before a push, a draft push or a pull, and the tag list
GetModule(c) ==
  Select /\ (SelectModule(c) \/ SelectTags(c) \/ SelectDraftModule(c))

GetModuleTagId(c) == Select /\ SelectTagId(c)

DeleteModule(c) ==
  /\ AutoCommit
  /\ \/ DeleteModuleFiles(c) \/ DeleteModuleDeps(c) \/ DeleteModuleTags(c)
     \/ DeleteModuleDrafts(c) \/ DeleteModuleRow(c)

DeleteModuleTag(c) ==
  AutoCommit /\ (DeleteFiles(c) \/ DeleteDeps(c) \/ DeleteTagRow(c))

PullModule(c) == Select /\ SelectFiles(c)

PullDraftModule(c) == Select /\ SelectDraft(c)

\* Each dependency is looked up and inserted, without a transaction
AddModuleDependencies(c) ==
  \/ Select /\ SelectDependencyTag(c)
  \/ AutoCommit /\ InsertDependency(c)

GetModuleDependencies(c) ==
  Select /\ (SelectLatestTag(c) \/ SelectDeps(c) \/ ResolveDep(c))

PushDraftModule(c) == AutoCommit /\ UpsertDraft(c)

DeleteObsoleteDraftTags == AutoCommit /\ Compact

-----------------------------------------------------------------------------
(* PushModule's transaction                                                *)

\* BeginTx(ctx, nil): a deferred BEGIN
Begin(c) ==
  /\ At(c, "BeginTx") /\ c \notin open
  /\ open' = open \cup {c}
  /\ UNCHANGED <<vars, driver, writer, wal>>

\* INSERT INTO tags takes the write lock; datetime('now') is the row's time
Lock(c) ==
  /\ c \in open /\ writer = None
  /\ writer' = c
  /\ BeginTx(c)
  /\ UNCHANGED <<driver, open, wal>>

TagRow(c) == [id |-> c, module_id |-> loc[c].module_id, tag |-> req[c].tag,
              updated_at |-> loc[c].began]

\* ... and then checks UNIQUE (module_id, tag)
InsertTag(c) ==
  /\ At(c, "CommitTx") /\ writer = c /\ wal.tags = {}
  /\ \/ /\ \E t \in tags : t.module_id = loc[c].module_id /\ t.tag = req[c].tag
        /\ Fail(c, "constraint violated") /\ Release(c)
        /\ UNCHANGED <<tables, now, loc, raced>>
     \/ /\ \A t \in tags : t.module_id # loc[c].module_id \/ t.tag # req[c].tag
        /\ wal' = [wal EXCEPT !.tags = {TagRow(c)}]
        /\ UNCHANGED <<vars, driver, writer, open>>

\* INSERT INTO protofiles, one file after the other; UNIQUE (tag_id, filename)
InsertFile(c) ==
  LET f == req[c].files[wal.next]
  IN  /\ At(c, "CommitTx") /\ writer = c /\ wal.tags # {}
      /\ wal.next \in DOMAIN req[c].files
      /\ \/ /\ \E p \in wal.protofiles : p.file.filename = f.filename
            /\ Fail(c, "constraint violated") /\ Release(c)
            /\ UNCHANGED <<tables, now, loc, raced>>
         \/ /\ \A p \in wal.protofiles : p.file.filename # f.filename
            /\ wal' = [wal EXCEPT !.protofiles = @ \cup {[tag_id |-> c, file |-> f]},
                                  !.next = @ + 1]
            /\ UNCHANGED <<vars, driver, writer, open>>

\* Mutant: the transaction is committed before the last file is inserted
CommitEarly(c) ==
  /\ At(c, "CommitTx") /\ writer = c /\ wal.tags # {}
  /\ tags' = tags \cup wal.tags
  /\ protofiles' = protofiles \cup wal.protofiles
  /\ raced' = IF CommitsTooLate(c) THEN raced \cup {c} ELSE raced
  /\ Goto(c, "SelectTagId") /\ Release(c)
  /\ UNCHANGED <<modules, dependencies, draft_tags, now, loc>>

\* COMMIT makes the rows of the transaction visible
Commit(c) ==
  /\ At(c, "CommitTx") /\ writer = c /\ wal.tags # {}
  /\ wal.next \notin DOMAIN req[c].files
  /\ tags' = tags \cup wal.tags
  /\ protofiles' = protofiles \cup wal.protofiles
  /\ raced' = IF CommitsTooLate(c) THEN raced \cup {c} ELSE raced
  /\ Goto(c, "SelectTagId") /\ Release(c)
  /\ UNCHANGED <<modules, dependencies, draft_tags, now, loc>>

\* SQLITE_BUSY, another error, or the end of the request's context
Rollback(c) == Abort(c) /\ Release(c)

\* Mutant: updated_at is the time of BEGIN, not of the INSERT
PushModuleStampsFirst(c) ==
  \/ /\ c \notin open /\ BeginTx(c)
     /\ open' = open \cup {c} /\ UNCHANGED <<driver, writer, wal>>
  \/ /\ At(c, "CommitTx") /\ c \in open /\ writer = None
     /\ writer' = c /\ UNCHANGED <<vars, driver, open, wal>>
  \/ InsertTag(c) \/ InsertFile(c) \/ Commit(c)

\* PushModule after its checks
PushModule(c) ==
  Begin(c) \/ Lock(c) \/ InsertTag(c) \/ InsertFile(c) \/ Commit(c)

-----------------------------------------------------------------------------

\* data.Open: the factory registered under the configured driver
OpenDriver ==
  /\ driver \in Drivers
  /\ writer = None /\ open = {} /\ wal = EmptyWal

SqliteStep(c) ==
  \/ Validate(c) /\ UNCHANGED svars
  \/ RegisterModule(c) \/ GetModule(c) \/ GetModuleTagId(c)
  \/ PushModule(c) \/ Rollback(c) \/ AddModuleDependencies(c)
  \/ PushDraftModule(c) \/ PullModule(c) \/ PullDraftModule(c)
  \/ DeleteModuleTag(c) \/ DeleteModule(c) \/ GetModuleDependencies(c)

SqliteNext ==
  \/ DeleteObsoleteDraftTags
  \/ Tick /\ UNCHANGED svars
  \/ \E c \in Client : SqliteStep(c)

StoreInit == PoolInit /\ OpenDriver

StoreNext ==
  \/ driver = "postgres" /\ PoolNext /\ UNCHANGED svars
  \/ driver = "sqlite" /\ SqliteNext /\ UNCHANGED lost

storevars == <<vars, lost, svars>>

StoreSpec == StoreInit /\ [][StoreNext]_storevars

\* A handler inside a transaction, or among the rows of a query, goes on
\* until it returns: for want of a connection, when its time is over
GoesOn(c) ==
  \/ driver = "postgres" /\ Holds(c) /\ PoolStep(c) /\ UNCHANGED svars
  \/ driver = "sqlite" /\ writer = c /\ PushModule(c) /\ UNCHANGED lost

\* The hourly job over the driver
CompactionRuns ==
  /\ \/ driver = "postgres" /\ Compact /\ UNCHANGED svars
     \/ driver = "sqlite" /\ DeleteObsoleteDraftTags
  /\ UNCHANGED lost

\* Both go on: an obsolete draft cannot wait for ever, nor can a lock
StoreFairSpec ==
  /\ StoreSpec
  /\ WF_storevars(CompactionRuns)
  /\ \A c \in Client : WF_storevars(GoesOn(c))

-----------------------------------------------------------------------------
(* Properties                                                              *)

\* The SQLite repository implements the registry: each of its steps is a step
\* of Registry or none, so what is shown of PostgreSQL's Registry holds of it.
\* A push whose transaction writes row by row is the one atomic step.
ImplementsRegistry == Spec

\* On SQLite the tags become visible in the order of their updated_at: the row
\* is stamped under the write lock.  (Not so on PostgreSQL, where a push that
\* began earlier can commit later.)  GetPreviousTagID and "latest tag" rely on
\* it.
VisibleInOrder ==
  [][driver = "sqlite" =>
       \A new \in tags' \ tags, old \in tags : old.updated_at <= new.updated_at
    ]_storevars

\* Whoever has the write lock frees it, whether its push commits, violates a
\* constraint or is cut off: every other writer of the database waits for it.
LockFreed == writer # None ~> writer = None

\* Over PostgreSQL an exhausted pool has a free connection again, after
\* timeouts at the latest, whatever pushes do and however they end; unless the
\* calls of GetModuleDependencies that met a deleted dependency, were cut off,
\* or waited for each other's connections until they were, have lost every one.
PoolRecovers ==
  driver = "postgres" /\ ~Free ~>
    \/ Free
    \/ /\ Cardinality(lost) = MaxConns
       /\ \A c \in lost : req[c].op = "GetDependencies"
=============================================================================
