------------------------------ MODULE Registry ------------------------------
(***************************************************************************)
(* The registry service over its PostgreSQL tables: every gRPC handler of  *)
(* internal/server/registry.go that reads or writes modules, tags, files,  *)
(* dependencies and drafts, down to the SQL statements of                  *)
(* internal/data/registry.go.                                              *)
(*                                                                         *)
(* One action is one SQL statement (or one transaction): that is what the  *)
(* database makes atomic, and everything between two statements can        *)
(* interleave with other requests, with the compaction daemon and with the *)
(* request being cut off (deadline, disconnect, crash).                    *)
(*                                                                         *)
(* A client handler c serves the single request req[c]; a retry is another *)
(* handler with an equal request.  Each request inserts at most one row in *)
(* modules and at most one in tags, so the row's fresh UUID is c itself.   *)
(***************************************************************************)
EXTENDS Naturals, Sequences, FiniteSets

CONSTANTS
  Client,       \* the handlers
  Workload,     \* the assignments of requests to handlers to consider
  Unparsable,   \* file contents the proto parser refuses
  ListLimit,    \* the LIMIT of GetModule's tag list (10 in the code)
  DraftTTL,     \* life of a draft in clock ticks (7 days in the code)
  MaxNow,       \* bound of the clock
  None          \* an id that has not been read

ASSUME BoundsAssumption ==
  /\ ListLimit \in Nat /\ DraftTTL \in Nat /\ MaxNow \in Nat

ASSUME NoneAssumption == None \notin Client

Operation == {"Register", "Push", "PushDraft", "Pull", "DeleteTag",
              "DeleteModule", "GetDependencies"}

File == [filename : STRING, content : STRING]
Dependency == [name : STRING, tag : STRING]

Request == [op : Operation, name : STRING, tag : STRING,
            files : Seq(File), deps : Seq(Dependency)]

ASSUME WorkloadAssumption == Workload \subseteq [Client -> Request]

VARIABLES
  modules,       \* rows [id, name]
  tags,          \* rows [id, module_id, tag, updated_at]
  protofiles,    \* rows [tag_id, file]
  dependencies,  \* rows [tag_id, dependency_tag_id]
  draft_tags,    \* rows [module_id, tag, files, updated_at]
  now,           \* the database clock, NOW()
  req,           \* the request of each handler
  pc,            \* the statement each handler executes next
  answer,        \* what it answered, "none" while it runs
  loc,           \* its local variables; history: the files it missed
  raced          \* history: pushes that committed too late for a DeleteModule

tables == <<modules, tags, protofiles, dependencies, draft_tags>>
vars == <<modules, tags, protofiles, dependencies, draft_tags, now,
          req, pc, answer, loc, raced>>

-----------------------------------------------------------------------------
(* The tables.                                                             *)

Statement == {"Validate", "InsertModule", "SelectModule", "SelectTags",
              "BeginTx", "CommitTx", "SelectTagId", "SelectDependencyTag",
              "InsertDependency", "UpsertDraft", "SelectFiles",
              "SelectDraftModule", "SelectDraft", "DeleteFiles", "DeleteDeps",
              "DeleteTagRow", "DeleteModuleFiles", "DeleteModuleDeps",
              "DeleteModuleTags", "DeleteModuleDrafts", "DeleteModuleRow",
              "SelectLatestTag", "SelectDeps", "ResolveDep", "Done"}

Status == {"none", "ok", "invalid", "module not found", "tag already exists",
           "tag not found", "draft tag not found", "dependency not found",
           "constraint violated", "error"}

Id == Client \cup {None}

Elements(s) == {s[i] : i \in DOMAIN s}

\* SELECT id FROM modules WHERE name = n
ModulesNamed(n) == {m \in modules : m.name = n}

\* tags of the module that has this name now
TagsOfName(n) == {t \in tags : \E m \in ModulesNamed(n) : t.module_id = m.id}

\* SELECT id FROM tags WHERE module_id = (...name = n) AND tag = g
TagRows(n, g) == {t \in TagsOfName(n) : t.tag = g}

StoredFiles(t) == {f.file : f \in {p \in protofiles : p.tag_id = t}}

\* ORDER BY updated_at DESC LIMIT k: the possible row sets, ties in any order
Latest(rows, k) ==
  {L \in SUBSET rows :
     /\ Cardinality(L) = IF Cardinality(rows) < k THEN Cardinality(rows) ELSE k
     /\ \A x \in L, y \in rows \ L : x.updated_at >= y.updated_at}

\* UNIQUE (tag_id, filename) over the files of one push
DuplicateFilenames(files) ==
  \E i, j \in DOMAIN files : i # j /\ files[i].filename = files[j].filename

-----------------------------------------------------------------------------
(* Requests: validation, dispatch, and the bookkeeping of a handler.       *)

\* ValidateProtoFiles
ValidProtoFiles(files) ==
  \A i \in DOMAIN files :
    /\ files[i].filename # ""
    /\ files[i].content # ""
    /\ files[i].content \notin Unparsable

\* The checks each handler makes before it calls its repository
Valid(r) ==
  /\ r.name # ""
  /\ r.op \in {"Push", "PushDraft", "Pull", "DeleteTag"} => r.tag # ""
  /\ r.op \in {"Push", "PushDraft"} => ValidProtoFiles(r.files)

\* The first statement of each handler's repository call
FirstStatement(r) ==
  CASE r.op = "Register" -> "InsertModule"
    [] r.op \in {"Push", "PushDraft", "Pull"} -> "SelectModule"
    [] r.op = "DeleteTag" -> "SelectTagId"
    [] r.op = "DeleteModule" -> "DeleteModuleFiles"
    [] r.op = "GetDependencies" ->
         IF r.tag = "" THEN "SelectLatestTag" ELSE "SelectTagId"

InitLocals == [module_id |-> None, tag_id |-> None, dep_id |-> None, i |-> 0,
               began |-> 0, tag |-> "", files |-> {}, missed |-> {},
               rows |-> {}, deps |-> {}]

At(c, s) == pc[c] = s /\ answer[c] = "none"

Goto(c, s) ==
  /\ pc' = [pc EXCEPT ![c] = s]
  /\ UNCHANGED <<answer, req>>

Succeed(c) ==
  /\ pc' = [pc EXCEPT ![c] = "Done"]
  /\ answer' = [answer EXCEPT ![c] = "ok"]
  /\ UNCHANGED req

\* An early return: pc keeps the statement at which the handler gave up
Fail(c, status) ==
  /\ answer' = [answer EXCEPT ![c] = status]
  /\ UNCHANGED <<pc, req>>

Validate(c) ==
  /\ At(c, "Validate")
  /\ \/ Valid(req[c]) /\ Goto(c, FirstStatement(req[c]))
     \/ ~Valid(req[c]) /\ Fail(c, "invalid")
  /\ UNCHANGED <<tables, now, loc, raced>>

\* The request's context is cancelled (30s server timeout, disconnect, crash):
\* statements already executed stay, nothing more happens.
Abort(c) ==
  /\ answer[c] = "none" /\ pc[c] # "Validate"
  /\ Fail(c, "error")
  /\ UNCHANGED <<tables, now, loc, raced>>

-----------------------------------------------------------------------------
(* RegisterModule                                                          *)

\* INSERT INTO modules ... ON CONFLICT (name) DO NOTHING
InsertModule(c) ==
  /\ At(c, "InsertModule")
  /\ modules' = IF ModulesNamed(req[c].name) = {}
                THEN modules \cup {[id |-> c, name |-> req[c].name]}
                ELSE modules
  /\ Succeed(c)
  /\ UNCHANGED <<tags, protofiles, dependencies, draft_tags, now, loc, raced>>

-----------------------------------------------------------------------------
(* GetModule, as PushModule, PushDraftModule and PullModule call it.       *)

\* Mutant: a pull looks at the drafts first
AfterSelectModuleDraftsFirst(op) ==
  CASE op = "Push" -> "SelectTags"
    [] op = "PushDraft" -> "UpsertDraft"
    [] op = "Pull" -> "SelectDraftModule"

AfterSelectModule(op) ==
  CASE op = "Push" -> "SelectTags"
    [] op = "PushDraft" -> "UpsertDraft"
    [] op = "Pull" -> "SelectTagId"

\* Mutant: the nil check of the module is dropped
SelectModuleUnchecked(c) ==
  /\ At(c, "SelectModule")
  /\ loc' = [loc EXCEPT ![c].module_id =
               IF ModulesNamed(req[c].name) = {} THEN None
               ELSE (CHOOSE m \in ModulesNamed(req[c].name) : TRUE).id]
  /\ Goto(c, AfterSelectModule(req[c].op))
  /\ UNCHANGED <<tables, now, raced>>

\* SELECT id, name FROM modules WHERE name = $1.  The tag lists GetModule then
\* reads decorate the answer of a pull or a draft push and decide nothing.
SelectModule(c) ==
  /\ At(c, "SelectModule")
  /\ \/ /\ ModulesNamed(req[c].name) = {}
        /\ Fail(c, "module not found")
        /\ UNCHANGED loc
     \/ \E m \in ModulesNamed(req[c].name) :
          /\ loc' = [loc EXCEPT ![c].module_id = m.id]
          /\ Goto(c, AfterSelectModule(req[c].op))
  /\ UNCHANGED <<tables, now, raced>>

\* SELECT tag FROM tags ... LIMIT 10, and the "tag already exists" loop.  No
\* loop over rows here or below reads rows.Err(): when the connection is lost
\* among the rows, those that have arrived are taken for all.
SelectTags(c) ==
  /\ At(c, "SelectTags")
  /\ \E L \in Latest({t \in tags : t.module_id = loc[c].module_id}, ListLimit) :
       \E arrived \in SUBSET L :
         \/ /\ \E t \in arrived : t.tag = req[c].tag
            /\ Fail(c, "tag already exists")
         \/ /\ \A t \in arrived : t.tag # req[c].tag
            /\ Goto(c, "BeginTx")
  /\ UNCHANGED <<tables, now, loc, raced>>

-----------------------------------------------------------------------------
(* PushModule's transaction, and AddModuleDependencies after it.           *)

\* BEGIN: fixes the NOW() that updated_at defaults to
BeginTx(c) ==
  /\ At(c, "BeginTx")
  /\ loc' = [loc EXCEPT ![c].began = now]
  /\ Goto(c, "CommitTx")
  /\ UNCHANGED <<tables, now, raced>>

\* Mutant: no unique index on (module_id, tag)
ConflictsNoIndex(c) == DuplicateFilenames(req[c].files)

\* UNIQUE (module_id, tag) and UNIQUE (tag_id, filename)
Conflicts(c) ==
  \/ \E t \in tags : t.module_id = loc[c].module_id /\ t.tag = req[c].tag
  \/ DuplicateFilenames(req[c].files)

\* A DeleteModule of this name has already run its DELETE FROM tags
PastTagsStatement(d, n) ==
  /\ req[d].op = "DeleteModule" /\ req[d].name = n
  /\ pc[d] \in {"DeleteModuleDrafts", "DeleteModuleRow"}
  /\ answer[d] = "none"

CommitsTooLate(c) ==
  \/ \A m \in modules : m.id # loc[c].module_id
  \/ \E d \in Client : PastTagsStatement(d, req[c].name)

\* Mutant: the last file of the push is not inserted
InsertedFilesButLast(c) ==
  {[tag_id |-> c, file |-> req[c].files[i]] :
     i \in DOMAIN req[c].files \ {Len(req[c].files)}}

InsertedFiles(c) == {[tag_id |-> c, file |-> f] : f \in Elements(req[c].files)}

\* INSERT tag, SELECT its id, INSERT its files, COMMIT; or the rollback.
\* Other sessions see all of it or nothing.
CommitTx(c) ==
  /\ At(c, "CommitTx")
  /\ \/ /\ Conflicts(c)
        /\ Fail(c, "constraint violated")
        /\ UNCHANGED <<tables, raced>>
     \/ /\ ~Conflicts(c)
        /\ tags' = tags \cup {[id |-> c, module_id |-> loc[c].module_id,
                               tag |-> req[c].tag,
                               updated_at |-> loc[c].began]}
        /\ protofiles' = protofiles \cup InsertedFiles(c)
        /\ raced' = IF CommitsTooLate(c) THEN raced \cup {c} ELSE raced
        /\ Goto(c, "SelectTagId")
        /\ UNCHANGED <<modules, dependencies, draft_tags>>
  /\ UNCHANGED <<now, loc>>

\* GetModuleTagId, as AddModuleDependencies, PullModule, DeleteModuleTag and
\* GetModuleDependencies call it; an empty id is ErrTagNotFound, which sends a
\* pull to the drafts and ends the others.
RequestedTag(c) == IF req[c].tag = "" THEN loc[c].tag ELSE req[c].tag

AfterSelectTagId(r) ==
  CASE r.op = "Push" -> IF r.deps = <<>> THEN "Done" ELSE "SelectDependencyTag"
    [] r.op = "Pull" -> "SelectFiles"
    [] r.op = "DeleteTag" -> "DeleteFiles"
    [] r.op = "GetDependencies" -> "SelectDeps"

SelectTagId(c) ==
  LET rows == TagRows(req[c].name, RequestedTag(c))
      next == AfterSelectTagId(req[c])
  IN  /\ At(c, "SelectTagId")
      /\ \/ /\ rows = {} /\ req[c].op = "Pull"
            /\ Goto(c, "SelectDraftModule")
            /\ UNCHANGED loc
         \/ /\ rows = {} /\ req[c].op # "Pull"
            /\ Fail(c, "tag not found")
            /\ UNCHANGED loc
         \/ /\ \E t \in rows :
                 loc' = [loc EXCEPT ![c].tag_id = t.id, ![c].i = 1]
            /\ IF next = "Done" THEN Succeed(c) ELSE Goto(c, next)
      /\ UNCHANGED <<tables, now, raced>>

\* Mutant: a dependency that is not found is skipped
SelectDependencyTagSkips(c) ==
  LET dep == req[c].deps[loc[c].i]
      rows == TagRows(dep.name, dep.tag)
  IN  /\ At(c, "SelectDependencyTag")
      /\ \/ /\ rows = {}
            /\ loc' = [loc EXCEPT ![c].i = @ + 1]
            /\ IF loc[c].i + 1 \in DOMAIN req[c].deps
               THEN Goto(c, "SelectDependencyTag")
               ELSE Succeed(c)
         \/ \E t \in rows :
              /\ loc' = [loc EXCEPT ![c].dep_id = t.id]
              /\ Goto(c, "InsertDependency")
      /\ UNCHANGED <<tables, now, raced>>

\* SELECT the id of the dependency's tag
SelectDependencyTag(c) ==
  LET dep == req[c].deps[loc[c].i]
      rows == TagRows(dep.name, dep.tag)
  IN  /\ At(c, "SelectDependencyTag")
      /\ \/ /\ rows = {}
            /\ Fail(c, "dependency not found")
            /\ UNCHANGED loc
         \/ \E t \in rows :
              /\ loc' = [loc EXCEPT ![c].dep_id = t.id]
              /\ Goto(c, "InsertDependency")
      /\ UNCHANGED <<tables, now, raced>>

\* Mutant: the two columns are swapped
InsertDependencySwapped(c) ==
  /\ At(c, "InsertDependency")
  /\ dependencies' = dependencies \cup
       {[tag_id |-> loc[c].dep_id, dependency_tag_id |-> loc[c].tag_id]}
  /\ Succeed(c)
  /\ UNCHANGED <<modules, tags, protofiles, draft_tags, now, loc, raced>>

\* INSERT INTO dependencies, UNIQUE (tag_id, dependency_tag_id), next one
InsertDependency(c) ==
  LET row == [tag_id |-> loc[c].tag_id, dependency_tag_id |-> loc[c].dep_id]
  IN  /\ At(c, "InsertDependency")
      /\ \/ /\ row \in dependencies
            /\ Fail(c, "constraint violated")
            /\ UNCHANGED <<dependencies, loc>>
         \/ /\ row \notin dependencies
            /\ dependencies' = dependencies \cup {row}
            /\ loc' = [loc EXCEPT ![c].i = loc[c].i + 1]
            /\ IF loc[c].i + 1 \in DOMAIN req[c].deps
               THEN Goto(c, "SelectDependencyTag")
               ELSE Succeed(c)
      /\ UNCHANGED <<modules, tags, protofiles, draft_tags, now, raced>>

-----------------------------------------------------------------------------
(* Drafts: PushDraftModule's upsert and the compaction daemon.             *)

\* Mutant: the update of an existing draft renews its life, not its files
UpsertDraftKeepsFiles(c) ==
  LET m == loc[c].module_id
      old == {r \in draft_tags : r.module_id = m /\ r.tag = req[c].tag}
      files == IF old = {} THEN req[c].files ELSE (CHOOSE r \in old : TRUE).files
  IN  /\ At(c, "UpsertDraft")
      /\ draft_tags' = (draft_tags \ old) \cup
           {[module_id |-> m, tag |-> req[c].tag, files |-> files,
             updated_at |-> now]}
      /\ loc' = [loc EXCEPT ![c].began = now]
      /\ Succeed(c)
      /\ UNCHANGED <<modules, tags, protofiles, dependencies, now, raced>>

\* INSERT ... ON CONFLICT (module_id, tag) DO UPDATE ..., updated_at = NOW()
UpsertDraft(c) ==
  LET m == loc[c].module_id
      row == [module_id |-> m, tag |-> req[c].tag, files |-> req[c].files,
              updated_at |-> now]
  IN  /\ At(c, "UpsertDraft")
      /\ draft_tags' =
           {r \in draft_tags : ~(r.module_id = m /\ r.tag = req[c].tag)} \cup {row}
      /\ loc' = [loc EXCEPT ![c].began = now]
      /\ Succeed(c)
      /\ UNCHANGED <<modules, tags, protofiles, dependencies, now, raced>>

Obsolete(r) == r.updated_at + DraftTTL < now

\* Mutant: only the drafts of modules that still exist are compacted
CompactLiveModules ==
  /\ \E r \in draft_tags : Obsolete(r)
  /\ draft_tags' = {r \in draft_tags :
                      Obsolete(r) => \A m \in modules : m.id # r.module_id}
  /\ UNCHANGED <<modules, tags, protofiles, dependencies, now, req, pc, answer,
                 loc, raced>>

\* compactionDaemon.Run: DeleteObsoleteDraftTags, one statement
Compact ==
  /\ \E r \in draft_tags : Obsolete(r)
  /\ draft_tags' = {r \in draft_tags : ~Obsolete(r)}
  /\ UNCHANGED <<modules, tags, protofiles, dependencies, now, req, pc, answer,
                 loc, raced>>

Tick ==
  /\ now < MaxNow
  /\ now' = now + 1
  /\ UNCHANGED <<tables, req, pc, answer, loc, raced>>

-----------------------------------------------------------------------------
(* PullModule, and PullDraftModule when there is no stable tag.            *)

\* The rows of the files, all of them or those that arrived
SelectFiles(c) ==
  /\ At(c, "SelectFiles")
  /\ \E lost \in SUBSET StoredFiles(loc[c].tag_id) :
       loc' = [loc EXCEPT ![c].files = StoredFiles(loc[c].tag_id) \ lost,
                          ![c].missed = lost]
  /\ Succeed(c)
  /\ UNCHANGED <<tables, now, raced>>

\* PullDraftModule resolves the module again
SelectDraftModule(c) ==
  /\ At(c, "SelectDraftModule")
  /\ \/ /\ ModulesNamed(req[c].name) = {}
        /\ Fail(c, "module not found")
        /\ UNCHANGED loc
     \/ \E m \in ModulesNamed(req[c].name) :
          /\ loc' = [loc EXCEPT ![c].module_id = m.id]
          /\ Goto(c, "SelectDraft")
  /\ UNCHANGED <<tables, now, raced>>

SelectDraft(c) ==
  LET rows == {r \in draft_tags :
                 r.module_id = loc[c].module_id /\ r.tag = req[c].tag}
  IN  /\ At(c, "SelectDraft")
      /\ \/ /\ rows = {}
            /\ Fail(c, "draft tag not found")
            /\ UNCHANGED loc
         \/ \E r \in rows :
              /\ loc' = [loc EXCEPT ![c].files = Elements(r.files)]
              /\ Succeed(c)
      /\ UNCHANGED <<tables, now, raced>>

-----------------------------------------------------------------------------
(* DeleteModuleTag: three statements after the lookup, no transaction.     *)

DeleteFiles(c) ==
  /\ At(c, "DeleteFiles")
  /\ protofiles' = {f \in protofiles : f.tag_id # loc[c].tag_id}
  /\ Goto(c, "DeleteDeps")
  /\ UNCHANGED <<modules, tags, dependencies, draft_tags, now, loc, raced>>

\* WHERE tag_id = $1 OR dependency_tag_id = $1
DeleteDeps(c) ==
  /\ At(c, "DeleteDeps")
  /\ dependencies' = {d \in dependencies : /\ d.tag_id # loc[c].tag_id
                                           /\ d.dependency_tag_id # loc[c].tag_id}
  /\ Goto(c, "DeleteTagRow")
  /\ UNCHANGED <<modules, tags, protofiles, draft_tags, now, loc, raced>>

\* No row affected is ErrTagNotFound
DeleteTagRow(c) ==
  /\ At(c, "DeleteTagRow")
  /\ tags' = {t \in tags : t.id # loc[c].tag_id}
  /\ IF \E t \in tags : t.id = loc[c].tag_id
     THEN Succeed(c)
     ELSE Fail(c, "tag not found")
  /\ UNCHANGED <<modules, protofiles, dependencies, draft_tags, now, loc, raced>>

-----------------------------------------------------------------------------
(* DeleteModule: five statements, each resolving the name again.           *)

DeleteModuleFiles(c) ==
  /\ At(c, "DeleteModuleFiles")
  /\ protofiles' = {f \in protofiles :
                      \A t \in TagsOfName(req[c].name) : f.tag_id # t.id}
  /\ Goto(c, "DeleteModuleDeps")
  /\ UNCHANGED <<modules, tags, dependencies, draft_tags, now, loc, raced>>

\* Mutant: DELETE FROM tags is left out
DeleteModuleDepsSkipsTags(c) ==
  /\ At(c, "DeleteModuleDeps")
  /\ dependencies' = {d \in dependencies :
                        \A t \in TagsOfName(req[c].name) : d.tag_id # t.id}
  /\ Goto(c, "DeleteModuleDrafts")
  /\ UNCHANGED <<modules, tags, protofiles, draft_tags, now, loc, raced>>

\* WHERE tag_id IN ...: rows that point at the module's tags stay
DeleteModuleDeps(c) ==
  /\ At(c, "DeleteModuleDeps")
  /\ dependencies' = {d \in dependencies :
                        \A t \in TagsOfName(req[c].name) : d.tag_id # t.id}
  /\ Goto(c, "DeleteModuleTags")
  /\ UNCHANGED <<modules, tags, protofiles, draft_tags, now, loc, raced>>

DeleteModuleTags(c) ==
  /\ At(c, "DeleteModuleTags")
  /\ tags' = tags \ TagsOfName(req[c].name)
  /\ Goto(c, "DeleteModuleDrafts")
  /\ UNCHANGED <<modules, protofiles, dependencies, draft_tags, now, loc, raced>>

DeleteModuleDrafts(c) ==
  /\ At(c, "DeleteModuleDrafts")
  /\ draft_tags' = {r \in draft_tags :
                      \A m \in ModulesNamed(req[c].name) : r.module_id # m.id}
  /\ Goto(c, "DeleteModuleRow")
  /\ UNCHANGED <<modules, tags, protofiles, dependencies, now, loc, raced>>

DeleteModuleRow(c) ==
  /\ At(c, "DeleteModuleRow")
  /\ modules' = modules \ ModulesNamed(req[c].name)
  /\ IF ModulesNamed(req[c].name) = {}
     THEN Fail(c, "module not found")
     ELSE Succeed(c)
  /\ UNCHANGED <<tags, protofiles, dependencies, draft_tags, now, loc, raced>>

-----------------------------------------------------------------------------
(* GetModuleDependencies                                                   *)

\* An empty tag means the module's latest one; no tag at all is an empty answer
SelectLatestTag(c) ==
  /\ At(c, "SelectLatestTag")
  /\ \/ /\ TagsOfName(req[c].name) = {}
        /\ Succeed(c)
        /\ UNCHANGED loc
     \/ \E L \in Latest(TagsOfName(req[c].name), 1) : \E t \in L :
          /\ loc' = [loc EXCEPT ![c].tag = t.tag]
          /\ Goto(c, "SelectTagId")
  /\ UNCHANGED <<tables, now, raced>>

\* The rows of the dependencies, all of them or those that arrived
SelectDeps(c) ==
  LET ids == {d.dependency_tag_id :
                d \in {e \in dependencies : e.tag_id = loc[c].tag_id}}
  IN  /\ At(c, "SelectDeps")
      /\ \E arrived \in SUBSET ids :
           /\ loc' = [loc EXCEPT ![c].rows = arrived]
           /\ IF arrived = {} THEN Succeed(c) ELSE Goto(c, "ResolveDep")
      /\ UNCHANGED <<tables, now, raced>>

\* Mutant: the dependency is looked for in the dependent's own module
ResolveDepOwnModule(c) ==
  /\ At(c, "ResolveDep")
  /\ \E x \in loc[c].rows :
       \/ /\ \A t \in TagsOfName(req[c].name) : t.id # x
          /\ loc' = [loc EXCEPT ![c].dep_id = x]
          /\ Fail(c, "dependency not found")
       \/ \E t \in TagsOfName(req[c].name) :
            /\ t.id = x
            /\ loc' = [loc EXCEPT
                         ![c].rows = @ \ {x},
                         ![c].deps = @ \cup {[name |-> req[c].name, tag |-> t.tag]}]
            /\ IF loc[c].rows = {x} THEN Succeed(c) ELSE Goto(c, "ResolveDep")
  /\ UNCHANGED <<tables, now, raced>>

\* SELECT modules.name, tags.tag FROM modules JOIN tags ...; no row is an error
ResolveDep(c) ==
  /\ At(c, "ResolveDep")
  /\ \E x \in loc[c].rows :
       \/ /\ ~\E t \in tags, m \in modules : t.id = x /\ m.id = t.module_id
          /\ loc' = [loc EXCEPT ![c].dep_id = x]
          /\ Fail(c, "dependency not found")
       \/ \E t \in tags, m \in modules :
            /\ t.id = x /\ m.id = t.module_id
            /\ loc' = [loc EXCEPT
                         ![c].rows = @ \ {x},
                         ![c].deps = @ \cup {[name |-> m.name, tag |-> t.tag]}]
            /\ IF loc[c].rows = {x} THEN Succeed(c) ELSE Goto(c, "ResolveDep")
  /\ UNCHANGED <<tables, now, raced>>

-----------------------------------------------------------------------------

Init ==
  /\ modules = {} /\ tags = {} /\ protofiles = {} /\ dependencies = {}
  /\ draft_tags = {}
  /\ now = 0
  /\ req \in Workload
  /\ pc = [c \in Client |-> "Validate"]
  /\ answer = [c \in Client |-> "none"]
  /\ loc = [c \in Client |-> InitLocals]
  /\ raced = {}

Step(c) ==
  \/ Validate(c) \/ Abort(c)
  \/ InsertModule(c) \/ SelectModule(c) \/ SelectTags(c)
  \/ BeginTx(c) \/ CommitTx(c)
  \/ SelectTagId(c) \/ SelectDependencyTag(c) \/ InsertDependency(c)
  \/ UpsertDraft(c)
  \/ SelectFiles(c) \/ SelectDraftModule(c) \/ SelectDraft(c)
  \/ DeleteFiles(c) \/ DeleteDeps(c) \/ DeleteTagRow(c)
  \/ DeleteModuleFiles(c) \/ DeleteModuleDeps(c) \/ DeleteModuleTags(c)
  \/ DeleteModuleDrafts(c) \/ DeleteModuleRow(c)
  \/ SelectLatestTag(c) \/ SelectDeps(c) \/ ResolveDep(c)

Next == Compact \/ Tick \/ \E c \in Client : Step(c)

Spec == Init /\ [][Next]_vars

-----------------------------------------------------------------------------
(* Who removed what: pc tells which statements a handler has executed,     *)
(* also after it answered or was cut off.                                  *)

Committed(p) ==
  /\ req[p].op = "Push"
  /\ pc[p] \in {"SelectTagId", "SelectDependencyTag", "InsertDependency", "Done"}

FilesDeletedBy(d, t) ==
  \/ /\ req[d].op = "DeleteTag" /\ loc[d].tag_id = t
     /\ pc[d] \in {"DeleteDeps", "DeleteTagRow", "Done"}
  \/ /\ req[d].op = "DeleteModule" /\ req[d].name = req[t].name
     /\ pc[d] \in {"DeleteModuleDeps", "DeleteModuleTags",
                   "DeleteModuleDrafts", "DeleteModuleRow", "Done"}

DepsDeletedBy(d, t) ==
  \/ /\ req[d].op = "DeleteTag" /\ loc[d].tag_id = t
     /\ pc[d] \in {"DeleteTagRow", "Done"}
  \/ /\ req[d].op = "DeleteModule" /\ req[d].name = req[t].name
     /\ pc[d] \in {"DeleteModuleTags", "DeleteModuleDrafts",
                   "DeleteModuleRow", "Done"}

TagDeletedBy(d, t) ==
  \/ /\ req[d].op = "DeleteTag" /\ loc[d].tag_id = t
     /\ pc[d] = "Done"
  \/ /\ req[d].op = "DeleteModule" /\ req[d].name = req[t].name
     /\ pc[d] \in {"DeleteModuleDrafts", "DeleteModuleRow", "Done"}

SameTag(p, q) == req[p].name = req[q].name /\ req[p].tag = req[q].tag

-----------------------------------------------------------------------------
(* Properties                                                              *)

Locals == [module_id : Id, tag_id : Id, dep_id : Id, i : Nat, began : Nat,
           tag : {""} \cup STRING, files : SUBSET File, missed : SUBSET File,
           rows : SUBSET Client, deps : SUBSET Dependency]

\* The tables respect the NOT NULL columns of the schema: a tag, a file, a
\* dependency or a draft row never carries an id its handler has not read.
TypeOK ==
  /\ modules \subseteq [id : Client, name : STRING]
  /\ tags \subseteq [id : Client, module_id : Client, tag : STRING,
                     updated_at : Nat]
  /\ protofiles \subseteq [tag_id : Client, file : File]
  /\ dependencies \subseteq [tag_id : Client, dependency_tag_id : Client]
  /\ draft_tags \subseteq [module_id : Client, tag : STRING,
                           files : Seq(File), updated_at : Nat]
  /\ now \in Nat
  /\ req \in [Client -> Request]
  /\ pc \in [Client -> Statement]
  /\ answer \in [Client -> Status]
  /\ loc \in [Client -> Locals]
  /\ raced \subseteq Client

\* A pull that succeeds answers with files of one push of that name and tag,
\* or with the files of one draft push of them.  Of the push's files it leaves
\* out only the ones whose rows were lost with the connection, which PullModule
\* does not notice, and it answers with no file at all when a delete has
\* overtaken it: it reads the tag's id and its files in two statements.
PullReturnsOnePush ==
  \A c \in Client : req[c].op = "Pull" /\ answer[c] = "ok" =>
    IF loc[c].tag_id # None
    THEN LET t == loc[c].tag_id
         IN  /\ Committed(t) /\ SameTag(t, c)
             /\ \/ loc[c].files \cup loc[c].missed = Elements(req[t].files)
                \/ loc[c].files = {} /\ \E d \in Client : FilesDeletedBy(d, t)
    ELSE \E p \in Client : /\ req[p].op = "PushDraft" /\ pc[p] = "Done"
                           /\ SameTag(p, c)
                           /\ loc[c].files = Elements(req[p].files)

\* Of the pushes of one tag to one module, racing or retried, two commit only
\* if a delete removed the tag of one of them: PushModule's own check reads an
\* old snapshot of the ten latest tags and does not suffice.
AcceptedTwiceOnlyAfterDelete ==
  \A p, q \in Client :
    /\ p # q /\ Committed(p) /\ Committed(q)
    /\ req[p].tag = req[q].tag /\ loc[p].module_id = loc[q].module_id
    => \E d \in Client : TagDeletedBy(d, p) \/ TagDeletedBy(d, q)

\* A tag outlives its module only if its push committed after the module's
\* row had gone, or while a DeleteModule of that name was between its DELETE
\* FROM tags and its end: without such a race DeleteModule leaves no tag.
OrphansWereRaced ==
  \A t \in tags : (\A m \in modules : m.id # t.module_id) => t.id \in raced

\* A dependency row joins tags that a push of the dependent name and tag
\* declared, although AddModuleDependencies resolves both ends by name again
\* after the push has committed.
DependencyRowsDeclared ==
  \A d \in dependencies : \E p \in Client :
    /\ req[p].op = "Push" /\ SameTag(p, d.tag_id)
    /\ [name |-> req[d.dependency_tag_id].name,
        tag |-> req[d.dependency_tag_id].tag] \in Elements(req[p].deps)

\* A push that answers ok has recorded every dependency it declared, and only
\* a delete of the tag or of the dependency takes one away again.
AckedPushHasDependencies ==
  \A p \in Client : req[p].op = "Push" /\ answer[p] = "ok" =>
    \A dep \in Elements(req[p].deps) :
      \E x \in Client :
        /\ Committed(x) /\ req[x].name = dep.name /\ req[x].tag = dep.tag
        /\ \/ [tag_id |-> loc[p].tag_id, dependency_tag_id |-> x] \in dependencies
           \/ \E d \in Client : \/ DepsDeletedBy(d, loc[p].tag_id)
                                \/ DepsDeletedBy(d, x)

\* GetModuleDependencies fails to resolve a dependency it has read only when a
\* delete has removed that dependency's tag or module.
UnresolvedOnlyAfterDelete ==
  \A c \in Client :
    req[c].op = "GetDependencies" /\ answer[c] = "dependency not found" =>
      \E d \in Client : TagDeletedBy(d, loc[c].dep_id)

\* A pull turns to the drafts, where the same tag may hold other files, only
\* if no push of the stable tag has committed or a delete has taken it away.
DraftsOnlyWithoutStable ==
  [][\A c \in Client :
       pc[c] # "SelectDraftModule" /\ pc'[c] = "SelectDraftModule" =>
         \A p \in Client : Committed(p) /\ SameTag(p, c) =>
           \E d \in Client : TagDeletedBy(d, p)]_vars

\* The row a draft push has written
DraftRow(q) == [module_id |-> loc[q].module_id, tag |-> req[q].tag,
                files |-> req[q].files, updated_at |-> loc[q].began]

\* q is p, or a push of the same draft that is not older
RenewsDraft(q, p) ==
  /\ req[q].op = "PushDraft" /\ pc[q] = "Done"
  /\ loc[q].module_id = loc[p].module_id /\ req[q].tag = req[p].tag
  /\ loc[q].began >= loc[p].began

\* A draft pushed less than its TTL ago is there with those files or with
\* those of a later push, unless a DeleteModule removed the drafts: every push
\* of a draft replaces its files and renews its life.
FreshDraftKept ==
  \A p \in Client :
    req[p].op = "PushDraft" /\ answer[p] = "ok" /\ loc[p].began + DraftTTL >= now =>
      \/ \E q \in Client : RenewsDraft(q, p) /\ DraftRow(q) \in draft_tags
      \/ \E d \in Client : /\ req[d].op = "DeleteModule"
                           /\ req[d].name = req[p].name
                           /\ pc[d] \in {"DeleteModuleRow", "Done"}

\* An obsolete draft is eventually compacted or pushed again: draft tags
\* "auto-expire".
ObsoleteDraftsExpire ==
  \A p \in Client :
    (\E x \in draft_tags :
       x.module_id = loc[p].module_id /\ x.tag = req[p].tag /\ Obsolete(x))
    ~> ~(\E x \in draft_tags :
           x.module_id = loc[p].module_id /\ x.tag = req[p].tag /\ Obsolete(x))

\* README: "Tags are immutable: once pushed, the content at a tag never
\* changes."  Whoever pulls a stable tag, and loses no row to the network,
\* gets the content that was pushed.
PushedContentNeverChanges ==
  \A c \in Client :
    /\ req[c].op = "Pull" /\ answer[c] = "ok" /\ loc[c].tag_id # None
    /\ loc[c].missed = {}
    =>
      loc[c].files = Elements(req[loc[c].tag_id].files)
=============================================================================
