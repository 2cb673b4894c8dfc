# TLA+ models of pbuf-registry

pbuf-registry is a self-hosted registry for Protocol Buffers modules: a gRPC
service over PostgreSQL (or SQLite), and two daemons that clean up drafts and
look for drift between the tags of a module. The hard part of it is not in any
one function. Handlers of concurrent requests, the daemons and the other
replicas share nothing but the database, most operations are several statements
without a transaction, and a request can be cut off by its timeout after any of
them. The modules here model the operations statement by statement and ask what
is still true when the statements interleave.

Contents: [inventory](#inventory), [plan](#plan), [modules](#modules),
[runs](#runs), [bounds](#bounds), [fairness](#fairness), [proofs](#proofs),
[findings](#findings), [what is not modelled](#what-is-not-modelled).

## Inventory

| Component | State | Operations | Module |
|---|---|---|---|
| Registry service (`internal/server/registry.go`, `internal/data/registry.go`) | tables `modules`, `tags`, `protofiles`, `dependencies`, `draft_tags` | RegisterModule, PushModule (stable or draft), PullModule, DeleteModuleTag, DeleteModule, GetModuleDependencies; GetModule | `Registry`, `PostgresPool`, `Queries` |
| Draft compaction daemon (`internal/background/compaction.go`) | `draft_tags` | DeleteObsoleteDraftTags, hourly | `Registry` |
| Proto-parsing daemon (`internal/background/protoparsing.go`, `internal/data/metadata.go`) | `tags.is_processed`, `proto_parsed_data`, `tag_meta` | a run every minute: list, read, parse and save | `DriftDaemon` |
| Drift detection (`internal/background/driftdetection.go`, `internal/data/drift.go`) | `protofiles.content_hash`, `drift_events` | hash, find the previous tag, compare, save | `DriftDaemon`, severity in `DependencyDrift` |
| Drift service (`internal/server/drift.go`) | `drift_events` | list, acknowledge, dependency drift status | `DriftDaemon`, `DependencyDrift` |
| Users and tokens (`internal/server/users.go`, `internal/data/users.go`) | table `users` | CreateUser, UpdateUser, DeleteUser, RegenerateToken | `Users` |
| Permissions and middlewares (`internal/data/acl.go`, `internal/middleware`) | table `acl` | GrantPermission, RevokePermission, authentication and authorization of a call | `Users` |
| SQLite backend (`internal/data/sqlite`) | the same tables, one write lock, transactions with snapshots, connections with and without foreign keys | the same | `SqliteRegistry`, `SqliteDaemon`, `SqliteUsers` |
| Metadata service (`internal/server/metadata.go`, `internal/utils`) | reads `proto_parsed_data`, `tag_meta` | GetMetadata; ToMetadata and RetrieveMeta of a parsed file | `Queries`, `ProtoMeta` |
| Dependency resolution (`GetTransitiveDependencies`) | a queue and a set of visited tags | breadth-first search over GetModuleDependencies | `Queries` |
| Module listing (`ListModules`) | the page token | a walk through the pages | `Queries` |
| Bootstrap, transport, migrations, generated code | none | | not modelled |

How they interact: the handlers and the daemons communicate through the
database alone. A push commits a tag that the parsing daemon finds later; a
delete removes rows under a pull, under a push that has read the module's id, or
under a comparison of two tags; a module that depends on a tag holds a row that
points at it without a foreign key; the drift events of a dependency are what a
dependent is shown. Which driver is behind the repositories is decided once, at
start (`data.Open`), and the two drivers make different statements atomic.

What is hard in it, and the properties that make each part correct:

- **Registry.** Check-then-act over several statements: a push looks at a list
  of the latest tags and inserts afterwards; DeleteModule is five statements
  that each look the name up again; dependencies are added after the push has
  committed. Correct: a pull answers the files of one push; a tag is accepted
  once; what is left behind by a race is known and no more than that;
  dependencies are those declared; drafts live for their seven days and no stable
  tag is hidden by one.
- **Daemons.** Runs overlap, because cron starts a run every minute whatever the
  last one does; they fail and die between statements; and pushes commit in
  another order than their `updated_at`. Correct: what is marked processed is
  parsed; events say what is true of the files; an acknowledged event stays
  acknowledged; without failures no drift is missed; every tag is processed in
  the end.
- **Dependency drift.** Severities belong to single steps between tags and are
  read one by one while the daemon compares tags and others come. Correct: taken
  together they cover the update of a dependent; none is about a change that it
  already has; what vanishes from the metadata was announced.
- **Users.** Read-modify-write of whole rows, and permission checks in two
  selects. Correct: a rotated token never works again, a deactivated user stays
  so, a call that is let through had the permission at some moment of its check,
  no permission outlives its user.
- **Queries.** GetModule, GetMetadata and the transitive dependencies are several
  statements each, and a walk through pages is several requests. Correct: an
  answer is about one push, a search finds what can be reached and ends, a walk
  misses no module that was there all the time.
- **SQLite.** One writer at a time, transactions that begin as readers, a PRAGMA
  that holds for one connection. Correct: the same promises as PostgreSQL's, that
  is a refinement; the lock is freed whatever fails.

The full list of hazards, with the line where each bites and the properties
that are about it, is `hazards` in `PROJECT.json`.

## Plan

Modelled first, because everything else reads what it writes: `Registry`; then
the daemon (`DriftDaemon`), `Users`, the severities and statuses
(`DependencyDrift`, on top of the daemon). On these rest the SQLite modules,
which refine them, `Queries`, which reads the tables of `Registry` and the daemon,
and `ProtoMeta`, which compares the metadata of two tags with the drift between
them.

The abstract specifications are `Registry`, `DriftDaemon` and `Users` themselves:
each is the behaviour that a driver has to give, at the granularity of
PostgreSQL's statements and transactions, and the SQLite modules are shown to
implement them.

Every safety property that a run checks has its theorem. What is left is the
dependency drift status over SQLite, where two tags of one second are not newer
than each other.

The repositories for `modules`, `tags`, `protofiles`, `dependencies` and the
metadata loop over `rows.Next()` and do not look at `rows.Err()` (those for drift
do). So a connection that is lost among the rows is not an error: what has arrived
counts as all there is. Wherever the code has such a loop, the statement of the
model reads any subset of the rows (a prefix, where the order matters), a history
variable records what was lost, and the properties say what still holds.

## Modules

`map` in `PROJECT.json` gives the lines for each definition.

### Registry

Each element of `Client` is the handler of one request. `req` is the request,
`pc` the SQL statement it executes next, `loc` its local variables, `answer` its
result. One action is one statement, or one transaction when the code opens one:
`CommitTx` is the whole of PushModule's transaction, whose only visible moment is
its commit, while `loc.began` keeps the time of BEGIN, which is what `NOW()`
returns inside. `Abort` ends a handler between any two statements: the request's
timeout, the client's cancellation or the death of the process. Ids are the
handler's own, since each handler inserts at most one module and one tag.

`Workload` is the set of assignments of requests to handlers, so that theorems
hold for every workload and a run picks one. `ListLimit` is the LIMIT of the tag
list (ten in the code), `DraftTTL` the life of a draft. `raced` is a history
variable: the pushes that committed after a DeleteModule of their module was past
its `DELETE FROM tags`. `loc.missed` is history too: the files whose rows a pull
has lost with the connection.

### DriftDaemon

The state is the tags' life (`stage`, with `begun` for a push whose transaction
is open), the tables the daemon writes, and its runs. `run[r]` has the program
counter of a run and what it has read. The statements of pushes and deletes are
actions beside those of the runs. `SkipTag` is an error that is logged and
skipped, `Exit` the death of the process, with all its runs; `ReadFilesCutShort`
a list of files that ends early because `rows.Err` is not looked at. `Backend`
chooses how times are compared: as times, or as text in two formats.
`SaveEventsUnparsed` is a comparison for which the parsed files, or some of them,
could not be read, so that a modified file is rated "warning". `pushed` and
`failed` are history: what was pushed; and the tags of which a read broke off
(`read`), of which hashing failed (`hash`), and which were committed while a run
was past its list of unhashed tags (`late`).

The severity of a modified file is the constant `SeverityOf` here, and the
algorithm in `DependencyDrift`.

### DependencyDrift

It extends `DriftDaemon`: the tags, their pushes in the order in which they
commit, deletes, and the runs that parse, hash and compare them, statement by
statement and with everything that can fail there. It adds two things.

`Content` is a set of parsed files, records of sets: messages by their path,
fields with number, name, type and label, enums, enum values, services and rpcs;
`rest` is what the comparison does not read. `HasBreakingChanges` and
`HasPotentiallyBreakingChanges` are the two tests of `driftdetection.go`, and
`SeverityAssumption` makes `SeverityOf` their result. That a file was not parsed
or not hashed, and is rated "warning", "added" or "deleted" for that, is in
`DriftDaemon` (`ModifiedSeverity`, `EventType`, `SaveEventsUnparsed`).

`reader` is one request for the drift status of a dependent, in the three kinds
of statements of GetModuleDependencyDriftStatuses, for one dependency: others are
read independently. Any tag may be the pinned one. `newer` and `compared` are
history: the tags that were listed, and those the daemon was through with by then.

### Users

Handlers as in `Registry`. A stored token is `[plain, hashes]`: which token it
came from and how many times it was hashed, so that hashing a hash is visible.
`ForeignKeys` says whether a statement's connection may enforce foreign keys,
which on SQLite depends on the connection. `Call` is any call through the
authentication and authorization middlewares, with a user's token, the admin's
or none.

### Queries

One query, `ask`, beside the handlers of `Registry` and as much of the parsing
daemon as writes what the query reads: any number of runs (`Run`), each of which
lists the unprocessed tags, reads the files of one, all or those that arrive, and
saves what it has read, or fails to. Queries only read, so two of them would
not see each other. `at` is the query's next statement, `q` its locals.
`StatementFails` is an error of any statement: it is the answer, except in a
nested GetModuleDependencies of the search, which logs it and goes on. `changed`,
`steady`, `lost` and `cut` are history: whether a table changed since the query
began, the modules that were there all the time, whether the query has lost rows
or met an error, and the tags of whose files a run has lost some. A
scenario is a workload of the handlers with a query; the scenarios without one are those of `Registry` alone.
GetMetadata's and GetModule's stale tag differ between the drivers (an empty id is
no uuid for PostgreSQL and an id without rows for SQLite), so `ask.driver` says
which one it is. The queue of the search is a set, which covers the order of
the rows, which no ORDER BY fixes. A page of ListModules is the set of the first
names in the order of the database (`FirstNames`), the walk the sequence of its
pages; the base64 of the token is undone before it is used, so the token is the
name.

### ProtoMeta

What is derived from the parsed files of a tag: the packages GetMetadata shows,
and the packages that they refer to, as `tag_meta` keeps them. Numbers of fields
are shown as the code shows them: `Atoi` accepts decimal literals of 64 bits and
`int32` drops the upper half (`ShownNumber`), while drift detection refuses what
does not fit into 32 bits (`Fits32`). `HalfWord` is 2^31 in the code and smaller in
the runs. The module has no state of its own: it extends `DependencyDrift`, so that
the metadata of the tags that a request compares can be related to the statuses
that it answers.

### PostgresPool

`Registry` over a pool of `MaxConns` connections. What holds one between two steps
follows from the program counters: PushModule's transaction, and the rows of
GetModuleDependencies, which needs a second one to resolve each row. `lost` are
the handlers that returned from among their rows: nothing closes them, so the
connection stays out of the pool for the life of the process.

### SqliteRegistry

It has both drivers: `PostgresPool`, or `Registry`'s statements with SQLite's
locking. `writer` holds the write lock, `open` are the handlers inside a
transaction, and `wal` are the rows an open transaction has written, which
nobody else sees. BEGIN is deferred: it takes no lock, and the first INSERT
does. A single write takes and frees the lock in its own step. SQLITE_BUSY is
one more error (`Rollback`). The refinement of `Registry` maps every variable to
itself: the rows in `wal` are not in the tables, and the commit that moves them
there is `CommitTx`.

### SqliteDaemon

The daemon and the service are two processes on one file. ComputeAndStoreHashes
reads before it writes in its transaction, so `snapshot` records which tag a
run has read and whether anybody has committed since; if so, its UPDATE fails at
once. A connection without foreign keys leaves events behind when a tag is
deleted, and lets events of a deleted tag in; the listings join `tags`, so under
the refinement mapping `events` is what they list.

### SqliteUsers

GrantPermission is two statements on SQLite, and a statement's connection may or
may not enforce foreign keys. In the refinement of `Users` a grant has answered
with its first statement, and `ForeignKeys` is both. `loose` is history: the users
that a statement without foreign keys was about.

### Proof modules

Each extends the module it is about: `RegistrySafety` (types, orphans and
duplicate tags) and on it `RegistryAnswers` (what pulls, dependencies and drafts
show); on that `QueriesProofs`, and `SqliteRegistryProofs` (the refinement, and
the order of tags); `UsersProofs` (`Users` and `SqliteUsers`); `DriftDaemonProofs`
(`DriftDaemon` and `SqliteDaemon`), on it `DriftCompleteness`, and on that
`DependencyDriftProofs` (`DependencyDrift` and `ProtoMeta`). The `MC...` modules
hold the instances for TLC.

## Runs

| Run | Properties | Shows |
|---|---|---|
| `registry` | TypeOK, PullReturnsOnePush, AcceptedTwiceOnlyAfterDelete | pushes, pulls and deletes racing on one module: a pull answers one push's files, a tag is accepted once per life |
| | OrphansWereRaced, DependencyRowsDeclared, AckedPushHasDependencies, UnresolvedOnlyAfterDelete | six handlers that delete and register a module again, push tags that depend on one another, or on a module that is deleted: tags without a module come only from a push behind a DeleteModule, dependencies added after the commit are those declared, and only a delete makes one unresolvable |
| | TransitiveExact, TransitiveDeclared, RoundsBounded, WalkListsSteady | a query beside them, which may lose rows and meet errors: the search answers nothing but what can be reached if nothing changes, and all of it if nothing is lost or dangles; only what is declared if something changes; and ends, cycles included; a walk repeats no module, and misses none that stays unless it loses rows |
| `packages` | PackagesOfOnePush, StaleTagOnlyAfterDelete | GetModule and GetMetadata beside two overlapping runs of the daemon and a tag that is deleted and pushed again: packages are those of one push, a listed tag is lost only by a delete |
| `drivers` | FreshDraftKept, DraftsOnlyWithoutStable, ObsoleteDraftsExpire | over either driver, compaction takes no fresh draft and every obsolete one in the end, and a stable tag is not hidden by a draft |
| | ImplementsRegistry, VisibleInOrder, LockFreed | the SQLite repository refines `Registry`; its tags become visible in the order of `updated_at`, unlike PostgreSQL's; the write lock is always freed |
| | PoolRecovers | over PostgreSQL an exhausted pool has a free connection again, unless calls of GetModuleDependencies have lost all of them |
| `overlap` | TypeOK, ProcessedIsParsed, EventsTruthful, AcknowledgedStays | two overlapping runs, pushes and deletes, one failure |
| `live` | EveryTagProcessed, DriftComplete | two overlapping runs, a deletion and a failure: every live tag is processed in the end, and no drift is missed or invented as long as nothing fails |
| `store` | ImplementsDaemon, ListedEventsTruthful, LockHeldInTransaction | the daemon over SQLite, with overtaken transactions and connections without foreign keys, refines `DriftDaemon` as far as the queries list events |
| `users` | TypeOK, AllowedWasEffective, PermissionsHaveUsers, RotatedTokenStaysDead, DeactivationHolds | over either driver, rotations, updates and the deletion of one user interleaved with a caller; a permission check among grants and revocations |
| | ImplementsUsers | SQLite's grant of two statements refines PostgreSQL's of one |
| `status` | StatusTypeOK, StatusesCoverUpdate, StatusesAreNews | the drift status of a dependent, read between any two statements of the pushes and of the daemon, for a chain of three tags: taken together the statuses cover the update, and each is true |
| | VanishedNeedsReview, DroppedReferenceNeedsReview | what GetMetadata, or the stored references, of the newer tag no longer show was announced as critical |
| `immutable`, `prevhash`, `sqlite`, `rehash` | one each | expected to be violated: see [findings](#findings) |

Deadlock is not checked in any run: the requests are finitely many and the
daemons may be idle, so the models do stop.

Several properties hold only with an exception, and the exception is part of
what they say. A pull may answer no files if a delete was under way, and leaves
out the files whose rows were lost; so do the packages of PackagesOfOnePush;
AcceptedTwiceOnlyAfterDelete, OrphansWereRaced and UnresolvedOnlyAfterDelete
name the deletion that has to have happened. EventsTruthful, and
ListedEventsTruthful with it, names the causes of a false "added" or "deleted":
files that are being deleted (or are gone, of the older tag), hashing that failed,
and an older tag that was committed after a run had listed the tags to hash, which
is the finding `prevhash`. DeactivationHolds excuses a rotation under way, which writes
back the `is_active` it has read; AllowedWasEffective excuses a grant between
the two selects. The properties of the drift status hold of PostgreSQL while
pushes do not overlap, nothing has failed and no tag of the module was deleted
(`Orderly`); that is not caution: an older push that commits behind a newer one,
which was compared already, leaves a status about a change the dependent has, a
comparison without hashes stores a critical change as "added" with severity info,
and one without parsed files as "warning". StatusesCoverUpdate excuses also a tag
that the daemon had not got to, and two tags of one time. VanishedNeedsReview and
DroppedReferenceNeedsReview name what drift detection does not compare: nested
enums, options, and fields whose numbers are no decimals of 32 bits. TransitiveExact names
the two cases in which the tag asked for is its own dependency, and with
WalkListsSteady excuses rows that were lost; the search also nested statements that
failed, which the code logs and answers "ok". PoolRecovers names the calls that may ruin the
pool. PermissionsHaveUsers excuses statements on SQLite's connections without
foreign keys, and ImplementsDaemon maps the events that they leave behind away,
because no query lists them. Each was needed because TLC showed the behaviour,
and each behaviour is one the code has.

Every property has a mutant in `PROJECT.json`: a definition changed as a
plausible bug would change it, under which the property fails.

## Bounds

- `Client`: in `registry` six handlers. In the scenarios of contention three of
  them are drawn from six requests, a push first and a pull or a delete last,
  beside the registration and two requests that are refused; in the others they
  are chosen: two registrations with two pushes and a DeleteModule, or with a push
  and two of them, and so on. Four handlers in `drivers`, five in `users`. Since a
  handler may be cut off before its first statement, a chosen assignment covers
  every part of itself. Violations of these properties take a registration, two
  conflicting writers and at most one reader per object. `packages` has four
  handlers (a registration, two pushes of one tag, a delete of it) and two runs.
- `ListLimit = 1`, so that the tag to be found can fall out of the list with two
  tags; ten in the code. The theorems hold for every value.
- `DraftTTL = 1`, `MaxNow <= 2`: a draft can be fresh, at the limit and past it,
  and be renewed after that. `DayLength = 2`: two times of one day, and a next
  day.
- `Tag`: two tags for overlapping pushes, three where the previous of the
  previous matters. `Run`: two runs that overlap; a third would do what a second
  does. In `store` there is one run, and what overtakes it is the service.
  `MaxFaults = 1` (two in `store`): errors or crashes at any place. `MaxErrors`
  bounds the errors of the abstract daemon, to which overtaken snapshots count;
  it is more than the commits of the instance can cause.
- `MaxConns = 2`, so that two pushes or two dependency queries exhaust the pool
  (pgxpool's default is at least four).
- Queries: a query begins at any moment and the behaviour is followed until it
  is answered. Page sizes 1 and 2 for three modules, and 0, which means ten. The
  dependency graph has a cycle of two tags and a third tag that is deleted.
- `Filename`: one file, which can be added, modified, deleted or kept; files are
  compared independently of one another. The theorems hold for every set of files.
- `status` has three tags (the pinned one, one on the way and the target), one run,
  and two contents: from one to the other a field moves to a oneof, one with a
  hexadecimal number disappears unseen, and a required field, a map, a number beyond
  32 bits (`HalfWord = 8`), an option and more are new, which is a warning; the way
  back is a breaking change. It has serial pushes and no deletes or faults, since its
  properties except these and the state space does not bear them: that the
  exceptions are the right ones, for any number of runs and of contents, is what the
  theorems show; deletes, faults and overlapping pushes are explored in `overlap` and
  `store`.
- `live` has serial pushes too, which DriftComplete asks for, one content and one tag
  that may be deleted: it is searched without symmetry. DriftComplete is checked
  there for overlapping runs and files that come and go; that modified files of three
  tags have their events, with the right severity, is what the properties of `status`
  rest on, and all of it at once is the theorem's.
- Symmetry is used in runs of safety properties only, over handlers, tags or
  runs that the specification treats alike.

## Fairness

`cmd/root.go` schedules the daemons with cron: compaction every hour, parsing
every minute. `SqliteRegistry!StoreFairSpec` has weak fairness of `Compact`,
whose process has a pool of its own and on SQLite needs the write lock.
`DriftDaemon!FairSpec` has weak fairness of `StartRun` and of the steps of a
run, because a started run goes on until it returns or the process dies, and a
dead process is started again by its supervisor; faults are bounded, since a
process that dies in every run processes nothing. `StoreFairSpec` adds that a
push that has SQLite's write lock goes on, because PushModule leaves its
transaction only by Commit or by the deferred Rollback, and that a handler that
holds a connection of the pool goes on or is cut off, because it waits for a
second one only until its context ends (`grpc.Timeout`, `http.Timeout`). No
other fairness is assumed of requests.

## Proofs

All theorems hold for every value of the constants that satisfies the named
assumptions, which TLC evaluates in the runs. Most say that model values differ
(`NoneAssumption`, `TagAssumption`, `ModelValuesAssumption`), that a bound is a
number, or that a workload is one. Of the others, `ProtoAssumption` says that a
file declares a field number and an rpc once, and has finitely many fields;
`SeverityAssumption` that severities are those of `driftdetection.go`;
`PostgresAssumption` says that
PostgreSQL enforces its foreign keys; `WriterAssumption` that the holder of
SQLite's lock can be told, a run from a push; `ErrorsAssumption` that the abstract
daemon may meet the errors that SQLite adds; `NameOrderAssumption` that the
database orders all names that can be registered, each at one place;
`ScenariosAssumption` that a GetModule request has no tag, as its message has no
such field.

| Theorem | Says | Module |
|---|---|---|
| TypeCorrect | `Spec => []TypeOK` | RegistrySafety |
| OrphansOnlyFromRaces | `Spec => []OrphansWereRaced` | RegistrySafety |
| OnePushPerTag | `Spec => []AcceptedTwiceOnlyAfterDelete` | RegistrySafety |
| PullsReturnOnePush | `Spec => []PullReturnsOnePush` | RegistryAnswers |
| DependencyRowsWereDeclared | `Spec => []DependencyRowsDeclared` | RegistryAnswers |
| AckedPushesHaveDependencies | `Spec => []AckedPushHasDependencies` | RegistryAnswers |
| UnresolvedWasDeleted | `Spec => []UnresolvedOnlyAfterDelete` | RegistryAnswers |
| FreshDraftsKept | `Spec => []FreshDraftKept` | RegistryAnswers |
| DraftsOnlyAsFallback | `Spec => DraftsOnlyWithoutStable` | RegistryAnswers |
| StoreImplementsRegistry | `StoreSpec => ImplementsRegistry` | SqliteRegistryProofs |
| StoreOrphansOnlyFromRaces, StoreOnePushPerTag, StorePullsReturnOnePush, StoreDependencyRowsWereDeclared, StoreAckedPushesHaveDependencies, StoreUnresolvedWasDeleted, StoreFreshDraftsKept, StoreDraftsOnlyAsFallback | the same of `StoreSpec`, over either driver | SqliteRegistryProofs |
| SqliteVisibleInOrder | `StoreSpec => VisibleInOrder` | SqliteRegistryProofs |
| PackagesAreOfOnePush | `QuerySpec => []PackagesOfOnePush` | QueriesProofs |
| StaleTagWasDeleted | `QuerySpec => []StaleTagOnlyAfterDelete` | QueriesProofs |
| TransitiveWereDeclared | `QuerySpec => []TransitiveDeclared` | QueriesProofs |
| SearchReadsOnce | `QuerySpec => []RoundsBounded` | QueriesProofs |
| SearchIsExact | `QuerySpec => []TransitiveExact` | QueriesProofs |
| WalkIsComplete | `QuerySpec => []WalkListsSteady` | QueriesProofs |
| UsersTypeCorrect | `StoreSpec => []TypeOK` | UsersProofs |
| RotatedTokensDead | `StoreSpec => []RotatedTokenStaysDead` | UsersProofs |
| DeactivatedStay | `StoreSpec => []DeactivationHolds` | UsersProofs |
| AllowedCalls | `StoreSpec => []AllowedWasEffective` | UsersProofs |
| PermissionsKeepUsers | `StoreSpec => []PermissionsHaveUsers` | UsersProofs |
| StoreImplementsUsers | `StoreSpec => ImplementsUsers` | UsersProofs |
| DaemonTypeCorrect | `Spec => []TypeOK` | DriftDaemonProofs |
| ProcessedTagsParsed | `Spec => []ProcessedIsParsed` | DriftDaemonProofs |
| EventsAreTruthful | `Spec => []EventsTruthful` | DriftDaemonProofs |
| AcknowledgedEventsStay | `Spec => AcknowledgedStays` | DriftDaemonProofs |
| LockIsInTransaction | `StoreSpec => []LockHeldInTransaction` | DriftDaemonProofs |
| ListedEventsAreTruthful | `StoreSpec => []ListedEventsTruthful` | DriftDaemonProofs |
| SqliteDaemonImplementsDaemon | `StoreSpec => ImplementsDaemon` | DriftDaemonProofs |
| DriftIsComplete | `Spec => []DriftComplete` | DriftCompleteness |
| SeverityTriangle | `Rank(a, c)` is at most `Rank(a, b)` or `Rank(b, c)` | DependencyDriftProofs |
| StatusesTyped | `StatusSpec => []StatusTypeOK` | DependencyDriftProofs |
| StatusesTrue | `StatusSpec => []StatusesAreNews` | DependencyDriftProofs |
| StatusesCover | `StatusSpec => []StatusesCoverUpdate` | DependencyDriftProofs |
| VanishedIsAdvised | `StatusSpec => []VanishedNeedsReview` | DependencyDriftProofs |
| DroppedReferenceIsAdvised | `StatusSpec => []DroppedReferenceNeedsReview` | DependencyDriftProofs |

### Registry

**TypeCorrect.** TypeOK is not inductive: that a row's `module_id` is an id
follows only if the handler that inserts it has read one. `TypeInv` adds
`OwnStatement` (a handler is at a statement of its own operation) and
`LocalsRead` (what a statement uses has been read). One lemma per action says how
it moves the handler, one per writing action what it does to the tables.

**OrphansOnlyFromRaces, OnePushPerTag.** `SafetyInv` adds to `TypeInv` the
provenance of rows (a module or tag was inserted by the handler whose id it has,
with that handler's request), the uniqueness of `(module_id, tag)`, and that what
a handler has committed is still there or some delete has passed the statement
that removes it. OrphansWereRaced follows because a module row disappears only
with DeleteModule's last statement, and a tag that was there at its third is gone:
a remaining one committed later, which is what `raced` records. For two accepted
pushes of one tag in one module, uniqueness leaves at most one row, and the other
one's row went with a delete. The check against the list of the latest tags plays
no part in it: the unique index does the work, for every `ListLimit`.

**The theorems of RegistryAnswers.** `AnswersInv` adds to `SafetyInv` what the
other tables hold and what a handler knows. A tag has all the files of its push or,
after a delete has passed its files, none (`FilesAllOrNone`): that is the whole of
a pull's atomicity, since PullModule's second statement reads by the id that its
first one found (`TagFound`: the id of a push of that name and tag); what it
answers and what it lost are together what was there (`PullAnswered`). A dependency
row joins a tag to one that a push of the same name and tag declared
(`DependenciesFrom`); it need not be the same push, because AddModuleDependencies
looks its own tag up again. `DependenciesRecorded` says how far the loop of a push
has come: each dependency before the current one has its row or was deleted.
`ModuleKept` says that the module a handler has read is there until a DeleteModule
has removed it: it is why a lookup that joins `tags` with `modules` can fail only
after a delete, for UnresolvedOnlyAfterDelete and DraftsOnlyWithoutStable.
FreshDraftKept is inductive with `DraftsFrom`, by which a draft's row has the files
of one push, and `DraftPushed`, by which the drafts that a DeleteModule
removes by name are those of the draft push's module: an upsert that replaces a
draft's row is itself the push that renews it.

**StoreImplementsRegistry.** `WalInv` says what an open SQLite transaction has
written so far: the tag's row, the rows of the first files, and that both unique
indexes hold with them; and that nobody but the holder of the write lock has
uncommitted rows. It is needed at the COMMIT, which in `Registry` checks both
indexes at once, while SQLite has checked them row by row some steps before: that
the tag is still new then is because every other write needs the lock. A row that
violates an index is `CommitTx`'s failure, the step that takes the lock and the
row's time is `BeginTx`, and the rest of a transaction changes nothing that
`Registry` sees. A step over a pool is a step of `Registry` with one
more guard. The theorems of `Registry` carry over with it.

**SqliteVisibleInOrder.** `StampedLast`: no visible tag is younger than the row
that the holder of the lock has stamped. It holds when the lock is taken, because
that is when the row is stamped, and until the COMMIT, because no other tag can
become visible.

### Queries

A behaviour of `QuerySpec` is one of `Registry`, so `AnswersInv` holds in it and a
query's own invariants need to say only what the query knows. `ControlInv` has the
shape of its locals and that it is at a statement of its own.

**PackagesAreOfOnePush, StaleTagWasDeleted.** `GoodFiles` are the files of a push,
or none of them after a delete, or a part of them if a run has lost rows of that
tag (`cut`). `RunInv` says that what each run has read is good, `StoredInv` that the
rows of `tag_meta` are, and that `proto_parsed_data` has all files of a tag or a part
that is due to lost rows: runs that overlap may save different parts of a tag, and
it then holds what any of them has read. `PackagesInv` says that the tag a query has
listed, and the id it has read, belong to committed pushes of the module asked for:
they may be two pushes of one tag, with a delete in between, and the packages are
the second one's. An answer has less than was stored only if the query itself has
lost rows (`AnswerFiles`).

**TransitiveWereDeclared, SearchReadsOnce.** `SearchInv` follows the search through
its statements: the rows it has read were declared by a push of the current tag,
the current tag is the root or among the results, and what is queued was visited.
Rounds and queue together are at most as many as the visited tags (`RoundsInv`,
with the cardinality of finite sets): each round takes from the queue, and only
what was not visited goes into it.

**SearchIsExact.** `ExactInv` holds as long as nothing has changed, no statement has
lost rows or failed, and nothing dangles, which no step restores once it is lost.
`FoundWith` is the invariant of the breadth-first search: what is found can be
reached, and the dependencies of what is found are visited, but for the tags still
queued and the current one. With an empty queue the visited tags are closed under
dependencies, and `ReachableFrom` is the least such set, so no induction over paths
is needed. It rests on the uniqueness of `(module_id, tag)` and of the modules'
names (`UniqueNames`): a name and a tag find one row. `SoundInv` is what is left when
rows were lost, nested statements have failed or dependencies dangle: what is found
can be reached.

**WalkIsComplete.** First what a page is, for any order and page size: a row
that is one too many comes after the page and everything before it is on the
page (`TokenAfterPage`); if there is none, the page is all that was selected
(`LastPageIsAll`). Both count the names before a name. `WalkInv` says that between
two pages all that is listed comes before the token, which no loss of rows changes,
and that a steady module before the token is listed, unless rows were lost. The
module that the token names may be gone by then: the token is only a place in the order.

### Users

`SafetyInv` is proved of `AnyNext`, the steps of both drivers together, so that one
invariant serves either. A stored token was hashed at least once from the token of
a handler that has answered, and belongs to the user whom that handler created or
rotated (`TokensDrawn`). So a token that is written is either new, and not yet
superseded, or what an UpdateUser has read, hashed once more, and matches nothing.
DeactivationHolds needs `NoStaleRotation`: no rotation that is about to write has
read a user as active who counts as deactivated. AllowedWasEffective needs
`UnseenOvertook`: if the second select follows, the module's own rows were absent
at the first one, or a grant came between. StoreImplementsUsers maps SQLite's
two-statement grant to a grant that has answered with its first statement.

### The daemon

**DaemonInv** relates each table, and what each run has read, to the push:
`FilesFrom` and `ParsedFrom` (rows come from the push and leave with a delete),
`ProcessedFrom`, `EventsFrom`, `KeysUnique` (the unique index, from which it follows
that an upsert meets one row and AcknowledgedStays), and per run `RunTags`,
`RunFiles` and `RunHashed`. `EventsFrom` says of each event what both of its tags
contain: the newer one as pushed, and the older one as pushed or as `OlderContent`
allows, which is where a comparison that finds no hashes is named. `RunFiles` is
needed because a run saves what it read some statements ago, when the tag may have
been deleted since. `RunHashed` says of every tag, and not only of those on the run's
list, that its hashes are stored, are to come in this phase, cannot come, or that
it was committed after the list of unhashed tags was read (`failed.late`): a
comparison needs the hashes of the older tag as well, and an event "added" is true
only if they were there.
Nothing relates two runs: each is true to the pushes, which do not change, so any
number of them may overlap.

**Over SQLite**, `StoreInv` adds who may hold the lock (`PushLock`, `RunLock`) and
that a snapshot that nobody has overtaken still shows the tables (`SnapshotFrom`):
so the UPDATE that follows writes what `DriftDaemon` hashes in one step. An
overtaken one is an error of the abstract daemon. Events whose tag has gone are
mapped away; a lemma per action shows that the listed events change as
`DriftDaemon`'s do.

**DriftIsComplete** is proved under its own hypothesis, `Calm` (serial pushes,
PostgreSQL, no failure), of which no step can restore a part that is lost: the
invariant is `DaemonInv /\ (Calm => CompleteInv)`. `PushOrder` makes the previous
tag of a tag final once it is listed. `RunParsed` says that what a comparison needs,
the tag and all older ones, is parsed and hashed or still on this run's own list:
a list that shows a tag shows every older one that is not processed.
`RunCompares` says that what was read for the comparison is what was pushed,
`ExactEvent` that an event has the severity of a change from the previous tag, and
`ProcessedReported` that a processed tag has its events or some run is still
to compare it, which is the property once all runs are idle.

### Drift status

**SeverityTriangle.** From two lemmas: unbreaking steps compose, since each of the
tests is an inclusion or an equality; steps without warnings compose, since
between two files that a breaking change does not separate a field keeps its
number, and counts of required fields are ordered.

**The request.** `StatusInv` is `DaemonInv`, `RequestInv` and, while the daemon is
`Calm`, `CompleteInv` and `RequestTrue`; DependencyDriftProofs extends
DriftCompleteness for that. `RequestInv` says that a request looks at pushed tags of
one module that are newer than the pinned one. `RequestTrue` says that a tag that was
compared before the newer tags were listed is processed and has its events
(`Reported`), that the statuses read so far tell of every step of it from its previous
tag (`StepsTold`), and that every status is true (`TrueStatus`). The daemon goes on
between the statements of a request and does not disturb this: while pushes do not
overlap, the previous tag of a committed tag is final (`Steady`), and an event
that is there is not replaced by one of another change (`Advance`).

**StatusesTrue.** The tag before the target is the pinned one or newer, because it is
the latest of those before the target, so a status is of a change that the
dependent does not have.

**StatusesCover.** The argument along the tags is an induction over numbers,
which is done by the least counterexample: `LeastNumber`, from the well-foundedness of
`<`, gives the first tag up to which the statuses do not tell enough. It has a
previous tag (`PreviousExists`, from `GreatestNumber`), up to which they do, and
SeverityTriangle joins the two.

**VanishedIsAdvised, DroppedReferenceIsAdvised.** What is shown of a tag comes from
one of its files (`MetadataOfTag`, `ReferencesOfTag`), and of a tag that was parsed to
the end from all of them (`CoveredTags`). So what is gone is gone from the file of that
name, which is a breaking change: a number that is a decimal of 32 bits is shown as
it is, by drift detection's `ParseInt` and by `Atoi` and `int32` alike (`ShownFits`),
so a field that is missing from the metadata is missing from the comparison. A
breaking change has rank 3, and `CriticalAdvised` is StatusesCover for such a file.

### Only model-checked

Liveness, which is beyond the prover: ObsoleteDraftsExpire, EveryTagProcessed,
LockFreed and PoolRecovers. And the findings, whose properties are false.

## Findings

| Run | What the code does | What is said |
|---|---|---|
| `immutable` | DeleteModuleTag deletes the files before the tag, so a pull in between succeeds with none | README: "once pushed, the content at a tag never changes" |
| `prevhash` | a push that began earlier and commits after the list was read is compared with although it has no hashes | protoparsing.go: "This ensures previous tags have hashes before we compare against them" |
| `sqlite` | times of one day compare by the separator of two text formats, so a newer tag counts as previous | drift.go: "Find the previous STABLE tag by updated_at timestamp" |
| `rehash` | UpdateUser hashes the stored hash again, and the token no longer works | README: tokens are shown at creation or rotation only |

Five more were met while modelling and can be read off the definitions:

- `db.go:21` executes the foreign-key PRAGMA through the pool, where it holds for
  one connection, while its comment says that Open "enables WAL mode and foreign
  keys". Hence the excuse in `PermissionsHaveUsers` and the orphans that
  `ListedEvents` leaves out.
- `registry.go:494-511` returns from among the rows of a query without closing
  them, where the SQLite version and `drift.go` close theirs. Each call that
  meets a deleted dependency, or is cut off there, costs the pool a connection;
  calls that wait for each other's connections lose them all (`LeavesOpen`).
- The recommendation of a dependency drift status looks at the target tag's own
  events, that is at the last step to it. Whoever updates to a tag has to read
  the statuses of the tags before it too; `StatusesCoverUpdate` says that this is
  enough.
- Enums nested in messages are not compared (`TopLevel`), though the comment is
  "Check for removed enums".
- Numbers of required fields are compared (`HasPotentiallyBreakingChanges`), so
  one that is added while another one becomes optional is not seen, though the
  comment is "Check if required fields were added".

## What is not modelled

- Formatting, logging, transport, TLS and configuration, the migrations' own
  execution, generated code and mocks: no state of the system's own.
- The proto parser: a set of contents it refuses. A file that the push accepts
  and the daemon refuses would stop the daemon for good; whether there is one is
  outside the repository, and `EveryTagProcessed` assumes there is none.
- bcrypt: equal exactly for the token that was hashed. SHA-256: injective.
- Transaction isolation: PostgreSQL's READ COMMITTED for single statements, which
  are atomic here; a unique index makes the later of two transactions fail.
- SetUserActive, which no handler calls; the listings of users, permissions and
  drift events, which are single selects.
- SQLite's dependency drift status: the statements are those of
  `DependencyDrift`, except that times have seconds only.
- The connection pool under the other repositories: only
  GetModuleDependencyDriftStatuses asks for a second connection among them, and it
  closes its rows on every path. Waiting for SQLite's lock is an action that is
  not enabled; that it times out is `Rollback`.
- Comments, imports and the order of lists in the metadata of a file.
