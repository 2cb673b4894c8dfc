------------------------ MODULE SqliteRegistryProofs ------------------------
(***************************************************************************)
(* Over either driver the repository implements Registry, for every set of *)
(* handlers, every workload and every size of the pool: what is proved of  *)
(* Registry holds of SQLite's transactions and of a pool that runs dry.    *)
(* Over SQLite the write lock also orders the tags by their updated_at.    *)
(***************************************************************************)
EXTENDS SqliteRegistry, RegistryAnswers

(* What an open transaction has written.                                   *)

\* The rows of the files before the n-th
WrittenFiles(c, n) ==
  {[tag_id |-> c, file |-> req[c].files[i]] : i \in 1..(n - 1)}

TagIsNew(c) ==
  \A t \in tags : t.module_id # loc[c].module_id \/ t.tag # req[c].tag

NamesDiffer(c, n) ==
  \A i, j \in 1..(n - 1) : i # j =>
    req[c].files[i].filename # req[c].files[j].filename

\* The rows that c has written are those Registry's transaction inserts, as far
\* as it has come, and the unique indexes hold with them.
Wrote(c) ==
  /\ wal.tags = {TagRow(c)}
  /\ wal.next \in 1..(Len(req[c].files) + 1)
  /\ wal.protofiles = WrittenFiles(c, wal.next)
  /\ TagIsNew(c)
  /\ NamesDiffer(c, wal.next)

\* Nobody but the writer has uncommitted rows, and the writer is a push before
\* its COMMIT.  That the tag is still new at the COMMIT needs the lock: every
\* other write is outside of it.
WalInv ==
  /\ wal = [tags |-> wal.tags, protofiles |-> wal.protofiles, next |-> wal.next]
  /\ writer = None => wal = EmptyWal
  /\ writer # None => /\ writer \in Client
                      /\ At(writer, "CommitTx")
                      /\ wal = EmptyWal \/ Wrote(writer)

-----------------------------------------------------------------------------
(* Every step is a step of Registry.                                       *)

LEMMA InsertTagRefines ==
  ASSUME NEW c \in Client, InsertTag(c)
  PROVE  CommitTx(c) \/ UNCHANGED vars
  BY DEF InsertTag, CommitTx, Conflicts, tables

LEMMA InsertFileRefines ==
  ASSUME TypeInv, WalInv, NEW c \in Client, InsertFile(c)
  PROVE  CommitTx(c) \/ UNCHANGED vars
<1> DEFINE f == req[c].files[wal.next]
<1>1. CASE UNCHANGED <<vars, driver, writer, open>>
  BY <1>1
<1>2. CASE /\ \E p \in wal.protofiles : p.file.filename = f.filename
           /\ Fail(c, "constraint violated")
           /\ UNCHANGED <<tables, now, loc, raced>>
  <2>1. writer = c /\ c # None /\ wal.tags # {} /\ At(c, "CommitTx")
    BY NoneAssumption DEF InsertFile
  <2>2. Wrote(c)
    BY <2>1 DEF WalInv, EmptyWal
  <2>3. PICK i \in 1..(wal.next - 1) :
          req[c].files[i].filename = f.filename
    <3>1. PICK p \in wal.protofiles : p.file.filename = f.filename
      BY <1>2
    <3>2. PICK i \in 1..(wal.next - 1) :
            p = [tag_id |-> c, file |-> req[c].files[i]]
      BY <2>2 DEF Wrote, WrittenFiles
    <3>3. p.file = req[c].files[i]
      BY <3>2
    <3> QED
      BY <3>1, <3>3
  <2>4. req[c].files \in Seq(File) /\ wal.next \in DOMAIN req[c].files
    BY DEF TypeInv, HandlersOK, Request, InsertFile
  <2>5. i \in DOMAIN req[c].files /\ i # wal.next
    BY <2>3, <2>4
  <2>6. Conflicts(c)
    BY <2>3, <2>4, <2>5 DEF Conflicts, DuplicateFilenames
  <2> QED
    BY <1>2, <2>1, <2>6 DEF CommitTx, tables
<1> QED
  BY <1>1, <1>2 DEF InsertFile

LEMMA CommitRefines ==
  ASSUME TypeInv, WalInv, NEW c \in Client, Commit(c)
  PROVE  CommitTx(c)
<1>1. writer = c /\ c # None /\ wal.tags # {} /\ At(c, "CommitTx")
  BY NoneAssumption DEF Commit
<1>2. Wrote(c)
  BY <1>1 DEF WalInv, EmptyWal
<1>3. req[c].files \in Seq(File)
  BY DEF TypeInv, HandlersOK, Request
<1>4. wal.next = Len(req[c].files) + 1
  BY <1>2, <1>3 DEF Wrote, Commit
<1>5. 1..(wal.next - 1) = DOMAIN req[c].files
  BY <1>3, <1>4
<1>6. ~Conflicts(c)
  BY <1>2, <1>5 DEF Wrote, TagIsNew, NamesDiffer, Conflicts, DuplicateFilenames
<1>7. wal.protofiles = InsertedFiles(c)
  BY <1>2, <1>5 DEF Wrote, WrittenFiles, InsertedFiles, Elements
<1>8. wal.tags = {[id |-> c, module_id |-> loc[c].module_id,
                   tag |-> req[c].tag, updated_at |-> loc[c].began]}
  BY <1>2 DEF Wrote, TagRow
<1> QED
  BY <1>1, <1>6, <1>7, <1>8 DEF Commit, CommitTx

\* The statements outside a transaction, and the cut-off, are Registry's own
LEMMA StatementRefines ==
  ASSUME NEW c \in Client, SqliteStep(c)
  PROVE  Step(c) \/ PushModule(c)
  BY DEF SqliteStep, Step, RegisterModule, GetModule, GetModuleTagId, Rollback,
     AddModuleDependencies, PushDraftModule, PullModule, PullDraftModule,
     DeleteModuleTag, DeleteModule, GetModuleDependencies

LEMMA SqliteStepRefines ==
  ASSUME TypeInv, WalInv, NEW c \in Client, SqliteStep(c)
  PROVE  Step(c) \/ UNCHANGED vars
<1>1. CASE Begin(c)
  BY <1>1 DEF Begin
<1>2. CASE Lock(c)
  BY <1>2 DEF Lock, Step
<1>3. CASE InsertTag(c)
  BY <1>3, InsertTagRefines DEF Step
<1>4. CASE InsertFile(c)
  BY <1>4, InsertFileRefines DEF Step
<1>5. CASE Commit(c)
  BY <1>5, CommitRefines DEF Step
<1> QED
  BY <1>1, <1>2, <1>3, <1>4, <1>5, StatementRefines DEF PushModule

LEMMA StoreNextRefines ==
  ASSUME TypeInv, WalInv, StoreNext
  PROVE  [Next]_vars
<1>1. CASE PoolNext
  BY <1>1 DEF PoolNext, OtherProcess, PoolStep, OwnConnection, Next, Step
<1>2. CASE SqliteNext
  BY <1>2, SqliteStepRefines DEF SqliteNext, DeleteObsoleteDraftTags, Next
<1> QED
  BY <1>1, <1>2 DEF StoreNext

-----------------------------------------------------------------------------
(* The transaction of the writer is left alone by everybody else.          *)

LEMMA InitWalInv == StoreInit => WalInv
  BY DEF StoreInit, OpenDriver, WalInv, EmptyWal

\* A step of another handler that writes no tag
LEMMA OthersKeepWal ==
  ASSUME WalInv, NEW c \in Client, c # writer, OthersUnchanged(c),
         UNCHANGED <<tags, writer, wal>>
  PROVE  WalInv'
<1>1. CASE writer = None
  BY <1>1 DEF WalInv, EmptyWal
<1>2. CASE writer # None
  <2>1. /\ writer \in Client \ {c} /\ At(writer, "CommitTx")
        /\ wal = EmptyWal \/ Wrote(writer)
    BY <1>2 DEF WalInv
  <2>2. At(writer, "CommitTx")'
    BY <2>1 DEF OthersUnchanged, At
  <2>3. Wrote(writer) => Wrote(writer)'
    BY <2>1 DEF OthersUnchanged, Wrote, TagRow, WrittenFiles, TagIsNew, NamesDiffer
  <2> QED
    BY <1>2, <2>1, <2>2, <2>3 DEF WalInv, EmptyWal
<1> QED
  BY <1>1, <1>2

LEMMA AutoCommitKeepsWal ==
  ASSUME WalInv, AutoCommit
  PROVE  WalInv'
  BY DEF WalInv, AutoCommit, svars, EmptyWal

LEMMA ReleaseKeepsWal ==
  ASSUME WalInv, NEW c \in Client, writer = c, Release(c)
  PROVE  WalInv'
  BY DEF WalInv, Release, EmptyWal

\* The SELECTs, and the checks before the first statement
LEMMA SelectKeepsWal ==
  ASSUME TypeInv, WalInv, NEW c \in Client, UNCHANGED svars,
         \/ Validate(c) \/ SelectModule(c) \/ SelectTags(c) \/ SelectDraftModule(c)
         \/ SelectTagId(c) \/ SelectFiles(c) \/ SelectDraft(c)
         \/ SelectDependencyTag(c)
         \/ SelectLatestTag(c) \/ SelectDeps(c) \/ ResolveDep(c)
  PROVE  WalInv'
<1>1. Step(c)
  BY DEF Step
<1>2. OthersUnchanged(c)
  BY <1>1, StepMoves DEF Moves
<1>3. tags' = tags /\ pc[c] # "CommitTx"
  BY DEF Validate, SelectModule, SelectTags, SelectDraftModule, SelectTagId,
     SelectFiles, SelectDraft, SelectDependencyTag, SelectLatestTag, SelectDeps,
     ResolveDep, At, tables
<1>4. c # writer
  BY <1>3, NoneAssumption DEF WalInv, At
<1> QED
  BY <1>2, <1>3, <1>4, OthersKeepWal DEF svars

LEMMA LockKeepsWal ==
  ASSUME TypeInv, WalInv, NEW c \in Client, Lock(c)
  PROVE  WalInv'
<1>1. At(c, "CommitTx")'
  BY DEF Lock, BeginTx, Goto, At, TypeInv, HandlersOK
<1> QED
  BY <1>1 DEF WalInv, Lock, EmptyWal

LEMMA InsertTagKeepsWal ==
  ASSUME TypeInv, WalInv, NEW c \in Client, InsertTag(c)
  PROVE  WalInv'
<1>1. writer = c /\ c # None /\ wal.tags = {} /\ At(c, "CommitTx")
  BY NoneAssumption DEF InsertTag
<1>2. CASE Release(c)
  BY <1>1, <1>2, ReleaseKeepsWal
<1>3. CASE /\ TagIsNew(c)
           /\ wal' = [wal EXCEPT !.tags = {TagRow(c)}]
           /\ UNCHANGED <<vars, driver, writer, open>>
  <2>1. wal = EmptyWal
    BY <1>1 DEF WalInv, Wrote
  <2>2. wal' = [tags |-> {TagRow(c)}, protofiles |-> {}, next |-> 1]
    BY <1>3, <2>1 DEF EmptyWal
  <2>3. /\ TagRow(c)' = TagRow(c) /\ TagIsNew(c)' /\ At(c, "CommitTx")'
        /\ req' = req
    BY <1>1, <1>3 DEF TagRow, TagIsNew, At, vars
  <2>4. req[c].files \in Seq(File)
    BY DEF TypeInv, HandlersOK, Request
  <2>5. wal'.next \in 1..(Len(req'[c].files) + 1) /\ 1..(wal'.next - 1) = {}
    BY <2>2, <2>3, <2>4
  <2>6. wal'.protofiles = WrittenFiles(c, wal.next)' /\ NamesDiffer(c, wal.next)'
    BY <2>2, <2>5 DEF WrittenFiles, NamesDiffer
  <2>7. Wrote(c)'
    BY <2>2, <2>3, <2>5, <2>6 DEF Wrote
  <2> QED
    BY <1>1, <1>3, <2>2, <2>3, <2>7 DEF WalInv
<1> QED
  BY <1>2, <1>3 DEF InsertTag, TagIsNew

LEMMA InsertFileKeepsWal ==
  ASSUME TypeInv, WalInv, NEW c \in Client, InsertFile(c)
  PROVE  WalInv'
<1> DEFINE f == req[c].files[wal.next]
           row == [tag_id |-> c, file |-> f]
<1>1. /\ writer = c /\ c # None /\ wal.tags # {} /\ At(c, "CommitTx")
      /\ wal.next \in DOMAIN req[c].files
  BY NoneAssumption DEF InsertFile
<1>2. CASE Release(c)
  BY <1>1, <1>2, ReleaseKeepsWal
<1>3. CASE /\ \A p \in wal.protofiles : p.file.filename # f.filename
           /\ wal' = [wal EXCEPT !.protofiles = @ \cup {row}, !.next = @ + 1]
           /\ UNCHANGED <<vars, driver, writer, open>>
  <2>1. Wrote(c)
    BY <1>1 DEF WalInv, EmptyWal
  <2>2. wal' = [tags |-> wal.tags, protofiles |-> wal.protofiles \cup {row},
                next |-> wal.next + 1]
    BY <1>3 DEF WalInv
  <2>3. /\ TagRow(c)' = TagRow(c) /\ TagIsNew(c)' /\ At(c, "CommitTx")'
        /\ req' = req
    BY <1>1, <1>3, <2>1 DEF TagRow, TagIsNew, At, vars, Wrote
  <2>4. req[c].files \in Seq(File) /\ wal.next \in 1..Len(req[c].files)
    BY <1>1 DEF TypeInv, HandlersOK, Request
  <2>5. wal'.next \in 1..(Len(req'[c].files) + 1)
    BY <2>2, <2>3, <2>4
  <2>6. 1..(wal'.next - 1) = 1..(wal.next - 1) \cup {wal.next}
    BY <2>2, <2>4
  <2>7. wal'.protofiles = WrittenFiles(c, wal.next)'
    BY <2>1, <2>2, <2>3, <2>6 DEF Wrote, WrittenFiles
  <2>8. \A i \in 1..(wal.next - 1) : req[c].files[i].filename # f.filename
    <3> SUFFICES ASSUME NEW i \in 1..(wal.next - 1)
                 PROVE  req[c].files[i].filename # f.filename
      OBVIOUS
    <3> DEFINE p == [tag_id |-> c, file |-> req[c].files[i]]
    <3>1. p \in wal.protofiles
      BY <2>1 DEF Wrote, WrittenFiles
    <3>2. p.file.filename # f.filename
      BY <1>3, <3>1
    <3> QED
      BY <3>2
  <2>9. NamesDiffer(c, wal.next)'
    BY <2>1, <2>3, <2>6, <2>8 DEF Wrote, NamesDiffer
  <2>10. Wrote(c)'
    BY <2>1, <2>2, <2>3, <2>5, <2>7, <2>9 DEF Wrote
  <2> QED
    BY <1>1, <1>3, <2>2, <2>3, <2>10 DEF WalInv
<1> QED
  BY <1>2, <1>3 DEF InsertFile

LEMMA RollbackKeepsWal ==
  ASSUME TypeInv, WalInv, NEW c \in Client, Rollback(c)
  PROVE  WalInv'
<1>1. CASE writer = c
  BY <1>1, ReleaseKeepsWal DEF Rollback
<1>2. CASE writer # c
  <2>1. OthersUnchanged(c)
    BY StepMoves DEF Rollback, Step, Moves
  <2> QED
    BY <1>2, <2>1, OthersKeepWal DEF Rollback, Abort, Release, tables
<1> QED
  BY <1>1, <1>2

LEMMA SqliteStepKeepsWal ==
  ASSUME TypeInv, WalInv, NEW c \in Client, SqliteStep(c)
  PROVE  WalInv'
<1>1. CASE AutoCommit
  BY <1>1, AutoCommitKeepsWal
<1>2. CASE Begin(c)
  <2>1. UNCHANGED <<vars, writer, wal>>
    BY <1>2 DEF Begin
  <2> QED
    BY <2>1 DEF vars, WalInv, EmptyWal, At, Wrote, TagRow, WrittenFiles,
       TagIsNew, NamesDiffer
<1>3. CASE Lock(c)
  BY <1>3, LockKeepsWal
<1>4. CASE InsertTag(c)
  BY <1>4, InsertTagKeepsWal
<1>5. CASE InsertFile(c)
  BY <1>5, InsertFileKeepsWal
<1>6. CASE Commit(c)
  BY <1>6, ReleaseKeepsWal DEF Commit
<1>7. CASE Rollback(c)
  BY <1>7, RollbackKeepsWal
<1>8. CASE /\ UNCHANGED svars
           /\ \/ Validate(c) \/ SelectModule(c) \/ SelectTags(c)
              \/ SelectDraftModule(c) \/ SelectTagId(c) \/ SelectFiles(c)
              \/ SelectDraft(c) \/ SelectDependencyTag(c)
              \/ SelectLatestTag(c) \/ SelectDeps(c) \/ ResolveDep(c)
  BY <1>8, SelectKeepsWal
<1> QED
  BY <1>1, <1>2, <1>3, <1>4, <1>5, <1>6, <1>7, <1>8
  DEF SqliteStep, Select, PushModule, RegisterModule, GetModule, GetModuleTagId,
      AddModuleDependencies, PushDraftModule, PullModule, PullDraftModule,
      DeleteModuleTag, DeleteModule, GetModuleDependencies

\* Over PostgreSQL there is no writer in this sense
DriverInv == driver = "postgres" => writer = None

LEMMA StoreNextKeepsWal ==
  ASSUME TypeInv, WalInv, DriverInv, [StoreNext]_storevars
  PROVE  WalInv' /\ DriverInv'
<1>1. CASE driver = "postgres" /\ UNCHANGED svars
  BY <1>1 DEF DriverInv, WalInv, svars, EmptyWal
<1>2. CASE driver = "sqlite" /\ SqliteNext
  <2>1. driver' = driver
    BY <1>2 DEF SqliteNext, SqliteStep, svars, DeleteObsoleteDraftTags, AutoCommit,
       Select, Release, Rollback, RegisterModule, GetModule, GetModuleTagId,
       PushModule, Begin, Lock, InsertTag, InsertFile, Commit,
       AddModuleDependencies, PushDraftModule, PullModule, PullDraftModule,
       DeleteModuleTag, DeleteModule, GetModuleDependencies
  <2>2. ASSUME AutoCommit PROVE WalInv'
    BY <2>2, AutoCommitKeepsWal
  <2>3. ASSUME Tick, UNCHANGED svars PROVE WalInv'
    <3>1. UNCHANGED <<tags, req, pc, answer, loc, writer, wal>>
      BY <2>3 DEF Tick, svars, tables
    <3> QED
      BY <3>1 DEF WalInv, EmptyWal, At, Wrote, TagRow, WrittenFiles, TagIsNew,
         NamesDiffer
  <2>4. ASSUME NEW c \in Client, SqliteStep(c) PROVE WalInv'
    BY <2>4, SqliteStepKeepsWal
  <2> QED
    BY <1>2, <2>1, <2>2, <2>3, <2>4 DEF SqliteNext, DeleteObsoleteDraftTags, DriverInv
<1>3. CASE UNCHANGED storevars
  <2>1. UNCHANGED <<vars, svars>>
    BY <1>3 DEF storevars
  <2> QED
    BY <2>1 DEF vars, svars, WalInv, DriverInv, EmptyWal, At, Wrote, TagRow,
       WrittenFiles, TagIsNew, NamesDiffer
<1> QED
  BY <1>1, <1>2, <1>3 DEF StoreNext

-----------------------------------------------------------------------------

StoreInv == TypeInv /\ WalInv /\ DriverInv

LEMMA StoreStepRefines ==
  ASSUME StoreInv, [StoreNext]_storevars
  PROVE  StoreInv' /\ [Next]_vars
<1>1. [Next]_vars
  BY StoreNextRefines DEF StoreInv, storevars
<1> QED
  BY <1>1, NextTypeInv, StoreNextKeepsWal DEF StoreInv

LEMMA StoreInvariant == StoreSpec => []StoreInv
<1>1. StoreInit => StoreInv
  BY InitTypeInv, InitWalInv DEF StoreInit, PoolInit, OpenDriver, StoreInv, DriverInv
<1> QED
  BY <1>1, StoreStepRefines, PTL DEF StoreSpec

\* Over either driver every behaviour of the store is one of Registry, for
\* every workload, every number of files and every size of the pool: the rows
\* that a SQLite transaction writes one by one become visible as PushModule's
\* single commit, with the unique indexes still holding at that moment.
THEOREM StoreImplementsRegistry == StoreSpec => ImplementsRegistry
<1>1. StoreInit => Init
  BY DEF StoreInit, PoolInit
<1> QED
  BY <1>1, StoreInvariant, StoreStepRefines, PTL
  DEF StoreSpec, ImplementsRegistry, Spec

\* Over SQLite, too, a tag without its module comes only from a push that
\* committed behind a DeleteModule.
THEOREM StoreOrphansOnlyFromRaces == StoreSpec => []OrphansWereRaced
  BY StoreImplementsRegistry, OrphansOnlyFromRaces, PTL DEF ImplementsRegistry

\* Over SQLite, too, two pushes of one tag to one module both commit only if a
\* delete removed the tag of one of them.
THEOREM StoreOnePushPerTag == StoreSpec => []AcceptedTwiceOnlyAfterDelete
  BY StoreImplementsRegistry, OnePushPerTag, PTL DEF ImplementsRegistry

\* Over SQLite, too, a pull answers all the files of one push, or none after a
\* delete had taken them: it sees no push whose files are partly inserted.
THEOREM StorePullsReturnOnePush == StoreSpec => []PullReturnsOnePush
  BY StoreImplementsRegistry, PullsReturnOnePush, PTL DEF ImplementsRegistry

\* Over SQLite, too, a dependency row joins a tag to one that a push of it has
\* declared, although AddModuleDependencies runs after the commit.
THEOREM StoreDependencyRowsWereDeclared == StoreSpec => []DependencyRowsDeclared
  BY StoreImplementsRegistry, DependencyRowsWereDeclared, PTL DEF ImplementsRegistry

\* Over SQLite, too, an acknowledged push has recorded its dependencies, and
\* only a delete takes one away.
THEOREM StoreAckedPushesHaveDependencies == StoreSpec => []AckedPushHasDependencies
  BY StoreImplementsRegistry, AckedPushesHaveDependencies, PTL DEF ImplementsRegistry

\* Over SQLite, too, GetModuleDependencies fails to resolve a dependency only
\* after a delete of that dependency.
THEOREM StoreUnresolvedWasDeleted == StoreSpec => []UnresolvedOnlyAfterDelete
  BY StoreImplementsRegistry, UnresolvedWasDeleted, PTL DEF ImplementsRegistry

\* Over SQLite, too, a draft is kept for its life from its last push on.
THEOREM StoreFreshDraftsKept == StoreSpec => []FreshDraftKept
  BY StoreImplementsRegistry, FreshDraftsKept, PTL DEF ImplementsRegistry

\* Over SQLite, too, a pull turns to the drafts only if no push of the stable
\* tag has committed or a delete has taken it away.
THEOREM StoreDraftsOnlyAsFallback == StoreSpec => DraftsOnlyWithoutStable
  BY StoreImplementsRegistry, DraftsOnlyAsFallback, PTL DEF ImplementsRegistry

-----------------------------------------------------------------------------
(* The order in which SQLite's tags become visible.                        *)

\* Nothing that is visible is younger than the row the writer has stamped.
StampedLast ==
  driver = "sqlite" =>
    /\ \A t \in tags : t.updated_at <= now
    /\ writer # None => \A t \in tags : t.updated_at <= loc[writer].began

NewIsYoungest ==
  \A new \in tags' \ tags, old \in tags : old.updated_at <= new.updated_at

\* Every step but the COMMIT and the one that takes the lock
LEMMA OthersAddNoTag ==
  ASSUME StoreInv, NEW c \in Client, SqliteStep(c), ~Commit(c), ~Lock(c)
  PROVE  /\ tags' \subseteq tags /\ now' = now
         /\ writer' = None \/ (writer' = writer /\ loc'[writer].began = loc[writer].began)
<1>1. TypeInv /\ WalInv
  BY DEF StoreInv
<1>2. CASE AutoCommit
  <2>1. \/ InsertModule(c) \/ InsertDependency(c) \/ UpsertDraft(c)
        \/ DeleteFiles(c) \/ DeleteDeps(c) \/ DeleteTagRow(c)
        \/ DeleteModuleFiles(c) \/ DeleteModuleDeps(c) \/ DeleteModuleTags(c)
        \/ DeleteModuleDrafts(c) \/ DeleteModuleRow(c)
        \/ UNCHANGED <<tags, now>>
    <3>1. CASE \/ InsertTag(c) \/ InsertFile(c) \/ Begin(c) \/ Rollback(c)
      BY <3>1 DEF InsertTag, InsertFile, Begin, Rollback, Abort, vars, tables
    <3>2. CASE \/ Validate(c) \/ SelectModule(c) \/ SelectTags(c)
               \/ SelectDraftModule(c) \/ SelectTagId(c) \/ SelectFiles(c)
               \/ SelectDraft(c) \/ SelectDependencyTag(c)
               \/ SelectLatestTag(c) \/ SelectDeps(c) \/ ResolveDep(c)
      BY <3>2, ReadTables DEF StoreInv, tables
    <3> QED
      BY <3>1, <3>2 DEF SqliteStep, PushModule, RegisterModule, GetModule,
         GetModuleTagId, AddModuleDependencies, PushDraftModule, PullModule,
         PullDraftModule, DeleteModuleTag, DeleteModule, GetModuleDependencies
  <2>2. CASE InsertDependency(c)
    BY <1>2, <2>2, Zenon DEF InsertDependency, AutoCommit, svars
  <2>3. tags' \subseteq tags /\ now' = now
    BY <2>1, <2>2 DEF InsertModule, UpsertDraft, DeleteFiles, DeleteDeps,
       DeleteTagRow, DeleteModuleFiles, DeleteModuleDeps, DeleteModuleTags,
       DeleteModuleDrafts, DeleteModuleRow, InsertDependency
  <2> QED
    BY <1>2, <2>3 DEF AutoCommit, svars
<1>3. CASE Begin(c)
  BY <1>3 DEF Begin, vars, tables
<1>4. CASE InsertTag(c)
  BY <1>4 DEF InsertTag, Release, vars, tables
<1>5. CASE InsertFile(c)
  BY <1>5 DEF InsertFile, Release, vars, tables
<1>6. CASE Rollback(c)
  BY <1>6 DEF Rollback, Abort, Release, tables
<1>7. CASE /\ UNCHANGED svars
           /\ \/ Validate(c) \/ SelectModule(c) \/ SelectTags(c)
              \/ SelectDraftModule(c) \/ SelectTagId(c) \/ SelectFiles(c)
              \/ SelectDraft(c) \/ SelectDependencyTag(c)
              \/ SelectLatestTag(c) \/ SelectDeps(c) \/ ResolveDep(c)
  <2>1. Step(c) /\ UNCHANGED <<tags, now>>
    BY <1>1, <1>7, ReadTables DEF Step, tables
  <2>2. pc[c] # "CommitTx"
    BY <1>7 DEF Validate, SelectModule, SelectTags, SelectDraftModule, SelectTagId,
       SelectFiles, SelectDraft, SelectDependencyTag, SelectLatestTag, SelectDeps,
       ResolveDep, At
  <2>3. writer # None => writer \in Client \ {c}
    BY <1>1, <2>2 DEF WalInv, At
  <2> QED
    BY <1>1, <1>7, <2>1, <2>3, LocalWriters DEF svars
<1> QED
  BY <1>2, <1>3, <1>4, <1>5, <1>6, <1>7
  DEF SqliteStep, Select, PushModule, RegisterModule, GetModule, GetModuleTagId,
      AddModuleDependencies, PushDraftModule, PullModule, PullDraftModule,
      DeleteModuleTag, DeleteModule, GetModuleDependencies

LEMMA SqliteStepInOrder ==
  ASSUME StoreInv, AnswersInv, StampedLast, driver = "sqlite", driver' = "sqlite",
         NEW c \in Client, SqliteStep(c)
  PROVE  StampedLast' /\ NewIsYoungest
<1>1. TypeInv /\ WalInv /\ c # None
  BY NoneAssumption DEF StoreInv
<1>2. loc[c].began <= now
  BY DEF AnswersInv, HandlerInv, DraftPushed
<1>3. CASE Commit(c)
  <2>1. writer = c /\ Wrote(c)
    BY <1>1, <1>3 DEF Commit, WalInv, EmptyWal
  <2>2. tags' = tags \cup {TagRow(c)} /\ now' = now /\ writer' = None
    BY <1>3, <2>1 DEF Commit, Release, Wrote
  <2>3. TagRow(c).updated_at = loc[c].began
    BY DEF TagRow
  <2>4. \A t \in tags : t.updated_at <= now /\ t.updated_at <= loc[c].began
    BY <1>1, <2>1 DEF StampedLast
  <2> QED
    BY <1>2, <2>2, <2>3, <2>4 DEF StampedLast, NewIsYoungest
<1>4. CASE Lock(c)
  <2>1. /\ tags' = tags /\ now' = now /\ writer' = c
        /\ loc' = [loc EXCEPT ![c].began = now]
    BY <1>4 DEF Lock, BeginTx, tables
  <2>2. loc \in [Client -> Locals] /\ loc[c] \in Locals
    BY <1>1 DEF TypeInv, HandlersOK
  <2>3. loc'[c].began = now
    BY <2>1, <2>2 DEF Locals
  <2> QED
    BY <2>1, <2>3 DEF StampedLast, NewIsYoungest
<1>5. CASE ~Commit(c) /\ ~Lock(c)
  BY <1>5, OthersAddNoTag DEF StampedLast, NewIsYoungest
<1> QED
  BY <1>3, <1>4, <1>5

LEMMA StoreNextInOrder ==
  ASSUME StoreInv, AnswersInv, StampedLast, [StoreNext]_storevars
  PROVE  StampedLast' /\ (driver = "sqlite" => NewIsYoungest)
<1>1. CASE driver = "postgres" /\ UNCHANGED svars
  BY <1>1 DEF StampedLast, svars
<1>2. CASE driver = "sqlite" /\ SqliteNext
  <2>1. driver' = "sqlite"
    BY <1>2 DEF SqliteNext, SqliteStep, svars, DeleteObsoleteDraftTags, AutoCommit,
       Select, Release, Rollback, RegisterModule, GetModule, GetModuleTagId,
       PushModule, Begin, Lock, InsertTag, InsertFile, Commit,
       AddModuleDependencies, PushDraftModule, PullModule, PullDraftModule,
       DeleteModuleTag, DeleteModule, GetModuleDependencies
  <2>2. CASE DeleteObsoleteDraftTags
    BY <2>2 DEF DeleteObsoleteDraftTags, AutoCommit, Compact, svars, StampedLast,
       NewIsYoungest
  <2>3. CASE Tick /\ UNCHANGED svars
    <3>1. UNCHANGED <<tags, loc, writer, driver>> /\ now' = now + 1
      BY <2>3 DEF Tick, tables, svars
    <3>2. now \in Nat /\ \A t \in tags : t.updated_at \in Nat
      BY DEF StoreInv, TypeInv, TablesOK
    <3> QED
      BY <3>1, <3>2 DEF StampedLast, NewIsYoungest
  <2>4. ASSUME NEW c \in Client, SqliteStep(c)
        PROVE  StampedLast' /\ NewIsYoungest
    BY <1>2, <2>1, <2>4, SqliteStepInOrder
  <2> QED
    BY <1>2, <2>2, <2>3, <2>4 DEF SqliteNext
<1>3. CASE UNCHANGED storevars
  BY <1>3 DEF storevars, vars, svars, tables, StampedLast, NewIsYoungest
<1> QED
  BY <1>1, <1>2, <1>3 DEF StoreNext

\* On SQLite tags become visible in the order of their updated_at, for every
\* number of pushes that wait for the lock, and whatever is deleted meanwhile.
THEOREM SqliteVisibleInOrder == StoreSpec => VisibleInOrder
<1>1. StoreInit => StampedLast
  BY DEF StoreInit, PoolInit, Init, OpenDriver, StampedLast
<1>2. StoreSpec => []AnswersInv
  BY StoreImplementsRegistry, AnswersInvariant, PTL DEF ImplementsRegistry
<1>3. ASSUME StoreInv, AnswersInv, StampedLast, [StoreNext]_storevars
      PROVE  [driver = "sqlite" =>
                \A new \in tags' \ tags, old \in tags :
                  old.updated_at <= new.updated_at]_storevars
  BY <1>3, StoreNextInOrder DEF NewIsYoungest
<1>4. StoreInv /\ AnswersInv /\ StampedLast /\ [StoreNext]_storevars => StampedLast'
  BY StoreNextInOrder
<1> QED
  BY <1>1, <1>2, <1>3, <1>4, StoreInvariant, PTL DEF StoreSpec, VisibleInOrder
=============================================================================
