--------------------------- MODULE RegistryAnswers --------------------------
(***************************************************************************)
(* What Registry answers, for every set of handlers and every workload:    *)
(* the files of a pull, the dependencies of a push, and what deletes that  *)
(* run at the same time can make of them.                                  *)
(***************************************************************************)
EXTENDS RegistrySafety

(* What a handler knows.                                                   *)

\* The statements that use the tag a handler has looked up.
UsesTag == {"SelectDependencyTag", "InsertDependency", "SelectFiles",
            "DeleteFiles", "DeleteDeps", "DeleteTagRow", "SelectDeps",
            "ResolveDep"}

Validated(c) == /\ pc[c] # "Validate" => Valid(req[c])
                /\ answer[c] = "ok" => pc[c] = "Done"

\* The id a handler has looked up is that of a push of the requested tag.
TagFound(c) ==
  /\ loc[c].tag_id # None => /\ pc[c] \in UsesTag \cup {"Done"}
                             /\ Committed(loc[c].tag_id)
                             /\ req[c].tag # "" => SameTag(loc[c].tag_id, c)
  /\ pc[c] \in UsesTag => loc[c].tag_id # None

IsPushOf(x, dep) ==
  x \in Client /\ Committed(x) /\ req[x].name = dep.name /\ req[x].tag = dep.tag

\* A push is about to insert the dependency it has looked up.
DependencyFound(c) ==
  pc[c] = "InsertDependency" => IsPushOf(loc[c].dep_id, req[c].deps[loc[c].i])

\* The ids that GetModuleDependencies has still to resolve.
RowsCommitted(c) == \A x \in loc[c].rows : Committed(x)

\* The module a handler uses is there until a DeleteModule has removed it.
ModuleDeleted(n) ==
  \E d \in Client : /\ req[d].op = "DeleteModule" /\ req[d].name = n
                    /\ pc[d] = "Done"

ModuleKept(c) ==
  UsesModule(c) => \/ \E m \in modules : m.id = loc[c].module_id
                   \/ ModuleDeleted(req[c].name)

DraftPushed(c) ==
  /\ req[c].op = "PushDraft" /\ pc[c] = "Done"
       => Registered(loc[c].module_id, req[c].name)
  /\ loc[c].began <= now

\* The answers, once given.
PullAnswered(c) ==
  req[c].op = "Pull" /\ pc[c] = "Done" =>
    IF loc[c].tag_id # None
    THEN \/ loc[c].files \cup loc[c].missed = Elements(req[loc[c].tag_id].files)
         \/ loc[c].files = {} /\ \E d \in Client : FilesDeletedBy(d, loc[c].tag_id)
    ELSE \E p \in Client : /\ req[p].op = "PushDraft" /\ pc[p] = "Done"
                           /\ SameTag(p, c)
                           /\ loc[c].files = Elements(req[p].files)

Unresolved(c) ==
  req[c].op = "GetDependencies" /\ answer[c] = "dependency not found" =>
    loc[c].dep_id \in Client /\ \E d \in Client : TagDeletedBy(d, loc[c].dep_id)

Recorded(t, dep) ==
  \E x \in Client :
    /\ Committed(x) /\ req[x].name = dep.name /\ req[x].tag = dep.tag
    /\ \/ [tag_id |-> t, dependency_tag_id |-> x] \in dependencies
       \/ \E d \in Client : DepsDeletedBy(d, t) \/ DepsDeletedBy(d, x)

\* A push has recorded the dependencies before the one it is at.
DependenciesRecorded(c) ==
  req[c].op = "Push" /\ pc[c] \in {"SelectDependencyTag", "InsertDependency", "Done"} =>
    \A j \in DOMAIN req[c].deps :
      j < loc[c].i \/ pc[c] = "Done" => Recorded(loc[c].tag_id, req[c].deps[j])

-----------------------------------------------------------------------------
(* What the tables hold.                                                   *)

\* The files of a tag: all that its push inserted, or none after a delete.
FilesAllOrNone ==
  /\ \A f \in protofiles : Committed(f.tag_id)
  /\ \A p \in Client : Committed(p) =>
       \/ StoredFiles(p) = Elements(req[p].files)
       \/ StoredFiles(p) = {} /\ \E d \in Client : FilesDeletedBy(d, p)

DependenciesFrom ==
  \A d \in dependencies : /\ Committed(d.dependency_tag_id)
                          /\ \E p \in Client :
                               /\ req[p].op = "Push" /\ SameTag(p, d.tag_id)
                               /\ \E j \in DOMAIN req[p].deps :
                                    IsPushOf(d.dependency_tag_id, req[p].deps[j])

DraftsFrom ==
  \A r \in draft_tags : \E p \in Client :
    /\ req[p].op = "PushDraft" /\ pc[p] = "Done"
    /\ req[p].tag = r.tag /\ req[p].files = r.files
    /\ Registered(r.module_id, req[p].name)

HandlerInv(c) ==
  /\ Validated(c) /\ TagFound(c) /\ DependencyFound(c) /\ RowsCommitted(c)
  /\ ModuleKept(c) /\ DraftPushed(c)
  /\ PullAnswered(c) /\ Unresolved(c) /\ DependenciesRecorded(c)

AnswersInv ==
  /\ SafetyInv
  /\ \A c \in Client : HandlerInv(c)
  /\ FilesAllOrNone /\ DependenciesFrom /\ DraftsFrom
  /\ FreshDraftKept

-----------------------------------------------------------------------------
(* One step of a handler.                                                  *)

\* A running handler executes the statement it is at, or is cut off.
LEMMA StatementAt ==
  ASSUME NEW c \in Client, Step(c)
  PROVE  /\ answer[c] = "none"
         /\ \/ Abort(c)
            \/ pc[c] = "Validate" /\ Validate(c)
            \/ pc[c] = "InsertModule" /\ InsertModule(c)
            \/ pc[c] = "SelectModule" /\ SelectModule(c)
            \/ pc[c] = "SelectTags" /\ SelectTags(c)
            \/ pc[c] = "BeginTx" /\ BeginTx(c)
            \/ pc[c] = "CommitTx" /\ CommitTx(c)
            \/ pc[c] = "SelectTagId" /\ SelectTagId(c)
            \/ pc[c] = "SelectDependencyTag" /\ SelectDependencyTag(c)
            \/ pc[c] = "InsertDependency" /\ InsertDependency(c)
            \/ pc[c] = "UpsertDraft" /\ UpsertDraft(c)
            \/ pc[c] = "SelectFiles" /\ SelectFiles(c)
            \/ pc[c] = "SelectDraftModule" /\ SelectDraftModule(c)
            \/ pc[c] = "SelectDraft" /\ SelectDraft(c)
            \/ pc[c] = "DeleteFiles" /\ DeleteFiles(c)
            \/ pc[c] = "DeleteDeps" /\ DeleteDeps(c)
            \/ pc[c] = "DeleteTagRow" /\ DeleteTagRow(c)
            \/ pc[c] = "DeleteModuleFiles" /\ DeleteModuleFiles(c)
            \/ pc[c] = "DeleteModuleDeps" /\ DeleteModuleDeps(c)
            \/ pc[c] = "DeleteModuleTags" /\ DeleteModuleTags(c)
            \/ pc[c] = "DeleteModuleDrafts" /\ DeleteModuleDrafts(c)
            \/ pc[c] = "DeleteModuleRow" /\ DeleteModuleRow(c)
            \/ pc[c] = "SelectLatestTag" /\ SelectLatestTag(c)
            \/ pc[c] = "SelectDeps" /\ SelectDeps(c)
            \/ pc[c] = "ResolveDep" /\ ResolveDep(c)
<1>1. /\ Abort(c) => answer[c] = "none"
      /\ Validate(c) => At(c, "Validate")
      /\ InsertModule(c) => At(c, "InsertModule")
      /\ SelectModule(c) => At(c, "SelectModule")
      /\ SelectTags(c) => At(c, "SelectTags")
      /\ BeginTx(c) => At(c, "BeginTx")
      /\ CommitTx(c) => At(c, "CommitTx")
      /\ UpsertDraft(c) => At(c, "UpsertDraft")
  BY Zenon DEF Abort, Validate, InsertModule, SelectModule, SelectTags, BeginTx,
     CommitTx, UpsertDraft
<1>2. /\ SelectTagId(c) => At(c, "SelectTagId")
      /\ SelectDependencyTag(c) => At(c, "SelectDependencyTag")
      /\ InsertDependency(c) => At(c, "InsertDependency")
      /\ SelectFiles(c) => At(c, "SelectFiles")
      /\ SelectDraftModule(c) => At(c, "SelectDraftModule")
      /\ SelectDraft(c) => At(c, "SelectDraft")
  BY Zenon DEF SelectTagId, SelectDependencyTag, InsertDependency, SelectFiles,
     SelectDraftModule, SelectDraft
<1>3. /\ DeleteFiles(c) => At(c, "DeleteFiles")
      /\ DeleteDeps(c) => At(c, "DeleteDeps")
      /\ DeleteTagRow(c) => At(c, "DeleteTagRow")
      /\ DeleteModuleFiles(c) => At(c, "DeleteModuleFiles")
      /\ DeleteModuleDeps(c) => At(c, "DeleteModuleDeps")
      /\ DeleteModuleTags(c) => At(c, "DeleteModuleTags")
      /\ DeleteModuleDrafts(c) => At(c, "DeleteModuleDrafts")
      /\ DeleteModuleRow(c) => At(c, "DeleteModuleRow")
  BY Zenon DEF DeleteFiles, DeleteDeps, DeleteTagRow, DeleteModuleFiles,
     DeleteModuleDeps, DeleteModuleTags, DeleteModuleDrafts, DeleteModuleRow
<1>4. /\ SelectLatestTag(c) => At(c, "SelectLatestTag")
      /\ SelectDeps(c) => At(c, "SelectDeps")
      /\ ResolveDep(c) => At(c, "ResolveDep")
  BY Zenon DEF SelectLatestTag, SelectDeps, ResolveDep
<1> QED
  BY <1>1, <1>2, <1>3, <1>4 DEF Step, At

\* The statements that assign each local variable.
LEMMA LocalWriters ==
  ASSUME TypeInv, NEW c \in Client, Step(c)
  PROVE  /\ \A d \in Client \ {c} : loc'[d] = loc[d]
         /\ \/ loc'[c].module_id = loc[c].module_id
            \/ SelectModule(c) \/ SelectDraftModule(c)
         /\ loc'[c].tag_id = loc[c].tag_id \/ SelectTagId(c)
         /\ \/ loc'[c].dep_id = loc[c].dep_id
            \/ SelectDependencyTag(c) \/ ResolveDep(c)
         /\ loc'[c].i = loc[c].i \/ SelectTagId(c) \/ InsertDependency(c)
         /\ loc'[c].began = loc[c].began \/ BeginTx(c) \/ UpsertDraft(c)
         /\ loc'[c].files = loc[c].files \/ SelectFiles(c) \/ SelectDraft(c)
         /\ loc'[c].missed = loc[c].missed \/ SelectFiles(c)
         /\ loc'[c].rows = loc[c].rows \/ SelectDeps(c) \/ ResolveDep(c)
<1>0. loc[c] \in Locals /\ loc \in [Client -> Locals]
  BY DEF TypeInv, HandlersOK
<1>1. \A d \in Client \ {c} : loc'[d] = loc[d]
  BY StepMoves DEF Moves, OthersUnchanged
<1> DEFINE Goal == /\ \/ loc'[c].module_id = loc[c].module_id
                      \/ SelectModule(c) \/ SelectDraftModule(c)
                   /\ loc'[c].tag_id = loc[c].tag_id \/ SelectTagId(c)
                   /\ \/ loc'[c].dep_id = loc[c].dep_id
                      \/ SelectDependencyTag(c) \/ ResolveDep(c)
                   /\ loc'[c].i = loc[c].i \/ SelectTagId(c) \/ InsertDependency(c)
                   /\ loc'[c].began = loc[c].began \/ BeginTx(c) \/ UpsertDraft(c)
                   /\ loc'[c].files = loc[c].files \/ SelectFiles(c) \/ SelectDraft(c)
                   /\ loc'[c].missed = loc[c].missed \/ SelectFiles(c)
                   /\ loc'[c].rows = loc[c].rows \/ SelectDeps(c) \/ ResolveDep(c)
<1>2. ASSUME loc' = loc PROVE Goal
  BY <1>2
<1>3. ASSUME SelectModule(c) \/ SelectDraftModule(c),
             NEW x, loc' = [loc EXCEPT ![c].module_id = x]
      PROVE  Goal
  BY <1>0, <1>3 DEF Locals
<1>4. ASSUME SelectTagId(c), NEW x, NEW n,
             loc' = [loc EXCEPT ![c].tag_id = x, ![c].i = n]
      PROVE  Goal
  BY <1>0, <1>4 DEF Locals
<1>5. ASSUME SelectDependencyTag(c) \/ ResolveDep(c),
             NEW x, loc' = [loc EXCEPT ![c].dep_id = x]
      PROVE  Goal
  BY <1>0, <1>5 DEF Locals
<1>6. ASSUME InsertDependency(c), NEW n, loc' = [loc EXCEPT ![c].i = n]
      PROVE  Goal
  BY <1>0, <1>6 DEF Locals
<1>7. ASSUME BeginTx(c) \/ UpsertDraft(c), loc' = [loc EXCEPT ![c].began = now]
      PROVE  Goal
  BY <1>0, <1>7 DEF Locals
<1>8. ASSUME SelectDraft(c), NEW F, loc' = [loc EXCEPT ![c].files = F]
      PROVE  Goal
  BY <1>0, <1>8 DEF Locals
<1>8a. ASSUME SelectFiles(c), NEW F, NEW M,
              loc' = [loc EXCEPT ![c].files = F, ![c].missed = M]
       PROVE  Goal
  BY <1>0, <1>8a DEF Locals
<1>9. ASSUME SelectDeps(c), NEW R, loc' = [loc EXCEPT ![c].rows = R] PROVE Goal
  BY <1>0, <1>9 DEF Locals
<1>10. ASSUME ResolveDep(c), NEW x, NEW r,
              loc' = [loc EXCEPT ![c].rows = @ \ {x}, ![c].deps = @ \cup {r}]
       PROVE  Goal
  BY <1>0, <1>10 DEF Locals
<1>11. ASSUME NEW g, loc' = [loc EXCEPT ![c].tag = g] PROVE Goal
  BY <1>0, <1>11 DEF Locals
<1> HIDE DEF Goal
<1>12. ASSUME \/ Validate(c) \/ Abort(c) \/ InsertModule(c) \/ SelectTags(c)
              \/ CommitTx(c)
              \/ DeleteFiles(c) \/ DeleteDeps(c) \/ DeleteTagRow(c)
              \/ DeleteModuleFiles(c) \/ DeleteModuleDeps(c) \/ DeleteModuleTags(c)
              \/ DeleteModuleDrafts(c) \/ DeleteModuleRow(c)
       PROVE  Goal
  <2>1. loc' = loc
    BY <1>12 DEF Validate, Abort, InsertModule, SelectTags, CommitTx, DeleteFiles,
       DeleteDeps, DeleteTagRow, DeleteModuleFiles, DeleteModuleDeps,
       DeleteModuleTags, DeleteModuleDrafts, DeleteModuleRow
  <2> QED
    BY <1>2, <2>1
<1>13. ASSUME SelectModule(c) \/ SelectDraftModule(c) PROVE Goal
  BY <1>2, <1>3, <1>13, Zenon DEF SelectModule, SelectDraftModule
<1>14. ASSUME SelectTagId(c) PROVE Goal
  BY <1>2, <1>4, <1>14, Zenon DEF SelectTagId
<1>15. ASSUME SelectDependencyTag(c) PROVE Goal
  BY <1>2, <1>5, <1>15, Zenon DEF SelectDependencyTag
<1>16. ASSUME InsertDependency(c) PROVE Goal
  BY <1>2, <1>6, <1>16, Zenon DEF InsertDependency
<1>17. ASSUME BeginTx(c) \/ UpsertDraft(c) PROVE Goal
  BY <1>7, <1>17, Zenon DEF BeginTx, UpsertDraft
<1>18. ASSUME SelectFiles(c) \/ SelectDraft(c) PROVE Goal
  BY <1>2, <1>8, <1>8a, <1>18, Zenon DEF SelectFiles, SelectDraft
<1>19. ASSUME SelectLatestTag(c) PROVE Goal
  BY <1>2, <1>11, <1>19, Zenon DEF SelectLatestTag
<1>20. ASSUME SelectDeps(c) PROVE Goal
  BY <1>9, <1>20, Zenon DEF SelectDeps
<1>21. ASSUME ResolveDep(c) PROVE Goal
  BY <1>5, <1>10, <1>21, Zenon DEF ResolveDep
<1>22. Goal
  BY <1>12, <1>13, <1>14, <1>15, <1>16, <1>17, <1>18, <1>19, <1>20, <1>21 DEF Step
<1> QED
  BY <1>1, <1>22 DEF Goal

\* The statements that write the files, the dependencies and the drafts.
LEMMA RowWriters ==
  ASSUME TypeInv, NEW c \in Client, Step(c)
  PROVE  /\ now' = now
         /\ \/ protofiles' = protofiles
            \/ CommitTx(c) \/ DeleteFiles(c) \/ DeleteModuleFiles(c)
         /\ \/ dependencies' = dependencies
            \/ InsertDependency(c) \/ DeleteDeps(c) \/ DeleteModuleDeps(c)
         /\ draft_tags' = draft_tags \/ UpsertDraft(c) \/ DeleteModuleDrafts(c)
<1>1. CASE \/ Validate(c) \/ Abort(c) \/ SelectModule(c) \/ SelectTags(c)
           \/ BeginTx(c) \/ SelectTagId(c) \/ SelectDependencyTag(c)
           \/ SelectFiles(c) \/ SelectDraftModule(c) \/ SelectDraft(c)
           \/ SelectLatestTag(c) \/ SelectDeps(c) \/ ResolveDep(c)
  BY <1>1, ReadTables DEF tables
<1>2. CASE InsertDependency(c)
  BY <1>2, Zenon DEF InsertDependency
<1>3. CASE CommitTx(c)
  BY <1>3 DEF CommitTx, tables
<1>4. CASE \/ InsertModule(c) \/ UpsertDraft(c) \/ DeleteFiles(c) \/ DeleteDeps(c)
           \/ DeleteTagRow(c) \/ DeleteModuleFiles(c) \/ DeleteModuleDeps(c)
           \/ DeleteModuleTags(c) \/ DeleteModuleDrafts(c) \/ DeleteModuleRow(c)
  BY <1>4 DEF InsertModule, UpsertDraft, DeleteFiles, DeleteDeps, DeleteTagRow,
     DeleteModuleFiles, DeleteModuleDeps, DeleteModuleTags, DeleteModuleDrafts,
     DeleteModuleRow
<1> QED
  BY <1>1, <1>2, <1>3, <1>4 DEF Step

\* Where the statements of a delete lead.
LEMMA DeleteOrder ==
  ASSUME TypeInv, NEW c \in Client, Step(c)
  PROVE  /\ pc[c] \in {"DeleteFiles", "DeleteDeps", "DeleteTagRow",
                       "DeleteModuleFiles", "DeleteModuleDeps", "DeleteModuleTags",
                       "DeleteModuleDrafts", "DeleteModuleRow", "Done"}
              => loc'[c] = loc[c]
         /\ pc[c] = "Done" => pc'[c] = "Done"
         /\ pc[c] = "DeleteDeps" => pc'[c] \in {"DeleteDeps", "DeleteTagRow"}
         /\ pc[c] = "DeleteTagRow" => pc'[c] \in {"DeleteTagRow", "Done"}
         /\ pc[c] = "DeleteModuleDeps" =>
              pc'[c] \in {"DeleteModuleDeps", "DeleteModuleTags"}
         /\ pc[c] = "DeleteModuleTags" =>
              pc'[c] \in {"DeleteModuleTags", "DeleteModuleDrafts"}
         /\ pc[c] = "DeleteModuleDrafts" =>
              pc'[c] \in {"DeleteModuleDrafts", "DeleteModuleRow"}
         /\ pc[c] = "DeleteModuleRow" => pc'[c] \in {"DeleteModuleRow", "Done"}
<1>1. pc \in [Client -> Statement]
  BY DEF TypeInv, HandlersOK
<1>2. /\ Abort(c) => pc'[c] = pc[c] /\ loc' = loc
      /\ DeleteFiles(c) => loc' = loc
      /\ DeleteDeps(c) => pc'[c] = "DeleteTagRow" /\ loc' = loc
      /\ DeleteTagRow(c) => pc'[c] \in {"DeleteTagRow", "Done"} /\ loc' = loc
  BY <1>1 DEF Abort, DeleteFiles, DeleteDeps, DeleteTagRow, Fail, Goto, Succeed, At
<1>3. /\ DeleteModuleFiles(c) => loc' = loc
      /\ DeleteModuleDeps(c) => pc'[c] = "DeleteModuleTags" /\ loc' = loc
      /\ DeleteModuleTags(c) => pc'[c] = "DeleteModuleDrafts" /\ loc' = loc
      /\ DeleteModuleDrafts(c) => pc'[c] = "DeleteModuleRow" /\ loc' = loc
      /\ DeleteModuleRow(c) => pc'[c] \in {"DeleteModuleRow", "Done"} /\ loc' = loc
  BY <1>1 DEF DeleteModuleFiles, DeleteModuleDeps, DeleteModuleTags,
     DeleteModuleDrafts, DeleteModuleRow, Fail, Goto, Succeed, At
<1> QED
  BY <1>2, <1>3, StatementAt

\* What has been registered, committed or deleted stays so.
LEMMA HistoryGrows ==
  ASSUME TypeInv, NEW c \in Client, Step(c)
  PROVE  /\ req' = req
         /\ \A x, n : Registered(x, n) => Registered(x, n)'
         /\ \A p \in Client : Committed(p) => Committed(p)'
         /\ \A d \in Client : \A t :
              /\ FilesDeletedBy(d, t) => FilesDeletedBy(d, t)'
              /\ DepsDeletedBy(d, t) => DepsDeletedBy(d, t)'
              /\ TagDeletedBy(d, t) => TagDeletedBy(d, t)'
         /\ \A n : ModuleDeleted(n) => ModuleDeleted(n)'
<1>0. Moves(c) /\ req' = req
  BY StepMoves DEF Moves, OthersUnchanged
<1>1. \A x, n : Registered(x, n) => Registered(x, n)'
  BY <1>0, RegisteredStays
<1>2. \A p \in Client : Committed(p) => Committed(p)'
  BY <1>0, CommittedStays
<1>3. ASSUME NEW d \in Client, NEW t
      PROVE  /\ FilesDeletedBy(d, t) => FilesDeletedBy(d, t)'
             /\ DepsDeletedBy(d, t) => DepsDeletedBy(d, t)'
             /\ TagDeletedBy(d, t) => TagDeletedBy(d, t)'
  <2>1. CASE d = c
    BY <1>0, <2>1, DeleteOrder DEF FilesDeletedBy, DepsDeletedBy, TagDeletedBy
  <2>2. CASE d # c
    BY <1>0, <2>2
    DEF FilesDeletedBy, DepsDeletedBy, TagDeletedBy, Moves, OthersUnchanged
  <2> QED
    BY <2>1, <2>2
<1>4. \A n : ModuleDeleted(n) => ModuleDeleted(n)'
  BY <1>0 DEF ModuleDeleted, Moves, OthersUnchanged
<1> QED
  BY <1>0, <1>1, <1>2, <1>3, <1>4

\* How a handler's statement ends.
LEMMA StepEnds ==
  ASSUME TypeInv, NEW c \in Client, Step(c)
  PROVE  /\ \A d \in Client \ {c} : pc'[d] = pc[d] /\ answer'[d] = answer[d]
         /\ answer[c] = "none"
         /\ \/ pc'[c] = pc[c] /\ answer'[c] \notin {"none", "ok"}
            \/ /\ pc'[c] \notin {"Validate", "Done"} /\ answer'[c] = "none"
               /\ pc[c] = "Validate" => Valid(req[c])
            \/ pc'[c] = "Done" /\ answer'[c] = "ok" /\ pc[c] # "Validate"
<1>0. /\ pc \in [Client -> Statement] /\ answer \in [Client -> Status]
      /\ req[c] \in Request /\ Own(req[c], pc[c])
  BY DEF TypeInv, HandlersOK, OwnStatement
<1>1. answer[c] = "none" /\ \A d \in Client \ {c} : pc'[d] = pc[d] /\ answer'[d] = answer[d]
  BY StatementAt, StepMoves DEF Moves, OthersUnchanged
<1> DEFINE Ends == \/ pc'[c] = pc[c] /\ answer'[c] \notin {"none", "ok"}
                   \/ /\ pc'[c] \notin {"Validate", "Done"} /\ answer'[c] = "none"
                      /\ pc[c] = "Validate" => Valid(req[c])
                   \/ pc'[c] = "Done" /\ answer'[c] = "ok" /\ pc[c] # "Validate"
<1>2. ASSUME NEW a, Fail(c, a), a \notin {"none", "ok"} PROVE Ends
  BY <1>0, <1>2 DEF Fail
<1>3. ASSUME NEW s, Goto(c, s), s \notin {"Validate", "Done"},
             pc[c] = "Validate" => Valid(req[c])
      PROVE  Ends
  BY <1>0, <1>1, <1>3 DEF Goto
<1>4. ASSUME Succeed(c), pc[c] # "Validate" PROVE Ends
  BY <1>0, <1>4 DEF Succeed
<1> HIDE DEF Ends
<1>5. ASSUME Validate(c) PROVE Ends
  <2>1. FirstStatement(req[c]) \notin {"Validate", "Done"}
    BY <1>0 DEF Request, Operation, FirstStatement
  <2> QED
    BY <1>2, <1>3, <1>5, <2>1 DEF Validate
<1>6. ASSUME pc[c] = "SelectModule" /\ SelectModule(c) PROVE Ends
  <2>1. AfterSelectModule(req[c].op) \notin {"Validate", "Done"}
    BY <1>0, <1>6 DEF Own, AfterSelectModule
  <2> QED
    BY <1>2, <1>3, <1>6, <2>1 DEF SelectModule
<1>7. ASSUME pc[c] = "SelectTagId" /\ SelectTagId(c) PROVE Ends
  <2>1. AfterSelectTagId(req[c]) # "Validate"
    BY <1>0, <1>7 DEF Own, AfterSelectTagId
  <2> QED
    BY <1>2, <1>3, <1>4, <1>7, <2>1 DEF SelectTagId
<1>8. ASSUME \/ pc[c] = "SelectDependencyTag" /\ SelectDependencyTag(c)
             \/ pc[c] = "InsertDependency" /\ InsertDependency(c)
      PROVE  Ends
  <2>1. pc[c] # "Validate"
    BY <1>8
  <2>2. CASE SelectDependencyTag(c)
    BY <1>2, <1>3, <2>1, <2>2 DEF SelectDependencyTag
  <2>3. CASE InsertDependency(c)
    BY <1>2, <1>3, <1>4, <2>1, <2>3 DEF InsertDependency
  <2> QED
    BY <1>8, <2>2, <2>3
<1>9. ASSUME \/ Abort(c)
             \/ pc[c] # "Validate" /\ (InsertModule(c) \/ SelectTags(c) \/ BeginTx(c)
                  \/ CommitTx(c) \/ UpsertDraft(c) \/ SelectFiles(c)
                  \/ SelectDraftModule(c) \/ SelectDraft(c))
      PROVE  Ends
  BY <1>2, <1>3, <1>4, <1>9 DEF Abort, InsertModule, SelectTags, BeginTx,
     CommitTx, UpsertDraft, SelectFiles, SelectDraftModule, SelectDraft
<1>10. ASSUME pc[c] # "Validate", DeleteFiles(c) \/ DeleteDeps(c) \/ DeleteTagRow(c)
                \/ DeleteModuleFiles(c) \/ DeleteModuleDeps(c)
                \/ DeleteModuleTags(c) \/ DeleteModuleDrafts(c) \/ DeleteModuleRow(c)
       PROVE  Ends
  BY <1>2, <1>3, <1>4, <1>10 DEF DeleteFiles, DeleteDeps, DeleteTagRow,
     DeleteModuleFiles, DeleteModuleDeps, DeleteModuleTags, DeleteModuleDrafts,
     DeleteModuleRow
<1>11. ASSUME pc[c] # "Validate",
              SelectLatestTag(c) \/ SelectDeps(c) \/ ResolveDep(c)
       PROVE  Ends
  BY <1>2, <1>3, <1>4, <1>11 DEF SelectLatestTag, SelectDeps, ResolveDep
<1>12. Ends
  BY <1>5, <1>6, <1>7, <1>8, <1>9, <1>10, <1>11, StatementAt
<1> QED
  BY <1>1, <1>12 DEF Ends

-----------------------------------------------------------------------------
(* What the handlers know stays true.                                      *)

LEMMA TagOfName ==
  ASSUME SafetyInv, NEW n, NEW t \in TagsOfName(n)
  PROVE  /\ t \in tags /\ t.id \in Client /\ Committed(t.id)
         /\ req[t.id].name = n /\ req[t.id].tag = t.tag
<1>1. t \in tags /\ t.id \in Client
  BY DEF TagsOfName, SafetyInv, TypeInv, TablesOK
<1>2. PICK m \in modules : m.name = n /\ m.id = t.module_id
  BY DEF TagsOfName, ModulesNamed
<1>3. Committed(t.id) /\ t.tag = req[t.id].tag /\ t.module_id = loc[t.id].module_id
  BY <1>1 DEF SafetyInv, Provenance, TagsFrom
<1>4. Registered(t.module_id, req[t.id].name)
  BY <1>1, <1>3 DEF SafetyInv, Provenance, ModuleUsed, UsesModule
<1>5. Registered(m.id, n)
  BY <1>2 DEF SafetyInv, Provenance, ModulesFrom
<1> QED
  BY <1>1, <1>2, <1>3, <1>4, <1>5 DEF Registered

LEMMA StepValidated ==
  ASSUME TypeInv, NEW c \in Client, Step(c),
         NEW d \in Client, Validated(d)
  PROVE  Validated(d)'
<1>1. req' = req
  BY HistoryGrows
<1> QED
  BY <1>1, StepEnds DEF Validated

\* Only SelectTagId leads to the statements that use a tag, and none leads
\* back.
LEMMA TagUse ==
  ASSUME TypeInv, NEW c \in Client, Step(c), ~SelectTagId(c)
  PROVE  /\ pc[c] \in UsesTag \cup {"Done"} => pc'[c] \in UsesTag \cup {"Done"}
         /\ pc'[c] \in UsesTag => pc[c] \in UsesTag
<1>0. /\ pc \in [Client -> Statement] /\ req[c] \in Request /\ Own(req[c], pc[c])
  BY DEF TypeInv, HandlersOK, OwnStatement
<1>1. /\ Abort(c) => pc'[c] = pc[c]
      /\ InsertModule(c) => pc'[c] = "Done"
      /\ SelectTags(c) => pc'[c] \in {"SelectTags", "BeginTx"}
      /\ BeginTx(c) => pc'[c] = "CommitTx"
      /\ CommitTx(c) => pc'[c] \in {"CommitTx", "SelectTagId"}
      /\ UpsertDraft(c) => pc'[c] = "Done"
      /\ SelectFiles(c) => pc'[c] = "Done"
      /\ SelectDraftModule(c) => pc'[c] \in {"SelectDraftModule", "SelectDraft"}
      /\ SelectDraft(c) => pc'[c] \in {"SelectDraft", "Done"}
  BY <1>0 DEF Abort, InsertModule, SelectTags, BeginTx, CommitTx, UpsertDraft,
     SelectFiles, SelectDraftModule, SelectDraft, Fail, Goto, Succeed, At
<1>2. Validate(c) => pc'[c] \notin UsesTag
  <2>1. FirstStatement(req[c]) \notin UsesTag
    BY <1>0 DEF Request, Operation, FirstStatement, UsesTag
  <2> QED
    BY <1>0, <2>1 DEF Validate, Fail, Goto, At, UsesTag
<1>3. SelectModule(c) => pc'[c] \notin UsesTag
  <2> SUFFICES ASSUME SelectModule(c) PROVE pc'[c] \notin UsesTag
    OBVIOUS
  <2>1. AfterSelectModule(req[c].op) \notin UsesTag /\ pc[c] \notin UsesTag
    BY <1>0 DEF SelectModule, At, Own, AfterSelectModule, UsesTag
  <2> QED
    BY <1>0, <2>1 DEF SelectModule, Fail, Goto
<1>4. /\ SelectDependencyTag(c) =>
           pc'[c] \in {"SelectDependencyTag", "InsertDependency"}
      /\ InsertDependency(c) =>
           pc'[c] \in {"SelectDependencyTag", "InsertDependency", "Done"}
  BY <1>0 DEF SelectDependencyTag, InsertDependency, Fail, Goto, Succeed, At
<1>5. /\ DeleteFiles(c) => pc'[c] = "DeleteDeps"
      /\ SelectLatestTag(c) => pc'[c] \in {"Done", "SelectTagId"}
      /\ SelectDeps(c) => pc'[c] \in {"Done", "ResolveDep"}
      /\ ResolveDep(c) => pc'[c] \in {"Done", "ResolveDep"}
  BY <1>0 DEF DeleteFiles, SelectLatestTag, SelectDeps, ResolveDep, Fail, Goto,
     Succeed, At
<1>6. /\ DeleteModuleFiles(c) => pc'[c] = "DeleteModuleDeps"
  BY <1>0 DEF DeleteModuleFiles, Goto
<1> QED
  BY <1>1, <1>2, <1>3, <1>4, <1>5, <1>6, StatementAt, DeleteOrder DEF UsesTag

LEMMA StepTagFound ==
  ASSUME SafetyInv, NEW c \in Client, Step(c), NEW d \in Client, TagFound(d)
  PROVE  TagFound(d)'
<1>0. TypeInv /\ loc[d] \in Locals /\ loc[d].tag_id \in Client \cup {None}
  BY DEF SafetyInv, TypeInv, HandlersOK, Locals, Id
<1>1. req' = req /\ \A p \in Client : Committed(p) => Committed(p)'
  BY <1>0, HistoryGrows
<1>2. CASE d # c
  <2>1. loc'[d] = loc[d] /\ pc'[d] = pc[d]
    BY <1>0, <1>2, LocalWriters, StepEnds
  <2> QED
    BY <1>0, <1>1, <2>1 DEF TagFound, Committed, SameTag
<1>3. CASE d = c /\ ~SelectTagId(c)
  <2>1. loc'[c].tag_id = loc[c].tag_id
    BY <1>0, <1>3, LocalWriters
  <2> QED
    BY <1>0, <1>1, <1>3, <2>1, TagUse DEF TagFound, Committed, SameTag
<1>4. CASE d = c /\ SelectTagId(c)
  <2>0. pc[c] = "SelectTagId" /\ Own(req[c], pc[c]) /\ pc \in [Client -> Statement]
        /\ loc \in [Client -> Locals]
    BY <1>0, <1>4 DEF SelectTagId, At, TypeInv, HandlersOK, OwnStatement
  <2>1. loc[c].tag_id = None
    BY <1>4, <2>0 DEF TagFound, UsesTag
  <2>2. CASE /\ loc' = loc
             /\ Goto(c, "SelectDraftModule") \/ Fail(c, "tag not found")
    BY <1>1, <1>4, <2>0, <2>1, <2>2 DEF TagFound, UsesTag, Goto, Fail
  <2>3. ASSUME NEW t \in TagRows(req[c].name, RequestedTag(c)),
               loc' = [loc EXCEPT ![c].tag_id = t.id, ![c].i = 1],
               IF AfterSelectTagId(req[c]) = "Done" THEN Succeed(c)
               ELSE Goto(c, AfterSelectTagId(req[c]))
        PROVE  TagFound(d)'
    <3>1. /\ t.id \in Client /\ Committed(t.id) /\ req[t.id].name = req[c].name
          /\ req[t.id].tag = RequestedTag(c)
      BY TagOfName DEF TagRows
    <3>2. loc'[c].tag_id = t.id
      BY <1>0, <1>4, <2>0, <2>3 DEF Locals
    <3>3. pc'[c] \in UsesTag \cup {"Done"}
      <4>1. AfterSelectTagId(req[c]) \in UsesTag \cup {"Done"}
        BY <2>0 DEF Own, AfterSelectTagId, UsesTag
      <4> QED
        BY <2>0, <2>3, <4>1 DEF Goto, Succeed
    <3>4. Committed(t.id)'
      BY <1>1, <3>1
    <3>5. t.id # None
      BY <3>1, NoneAssumption
    <3> QED
      BY <1>1, <1>4, <3>1, <3>2, <3>3, <3>4, <3>5
      DEF TagFound, SameTag, RequestedTag, Committed
  <2> QED
    BY <1>4, <2>2, <2>3 DEF SelectTagId
<1> QED
  BY <1>2, <1>3, <1>4

LEMMA StepDependencyFound ==
  ASSUME SafetyInv, NEW c \in Client, Step(c), NEW d \in Client, DependencyFound(d)
  PROVE  DependencyFound(d)'
<1>0. TypeInv /\ loc[c] \in Locals /\ pc \in [Client -> Statement]
      /\ loc \in [Client -> Locals]
  BY DEF SafetyInv, TypeInv, HandlersOK
<1>1. req' = req /\ \A p \in Client : Committed(p) => Committed(p)'
  BY <1>0, HistoryGrows
<1>2. CASE d # c
  BY <1>0, <1>1, <1>2, LocalWriters, StepEnds
  DEF DependencyFound, IsPushOf, Committed
<1>3. CASE d = c /\ pc'[c] = pc[c] /\ pc[c] = "InsertDependency"
  <2>1. loc'[c] = loc[c]
    <3>1. CASE Abort(c)
      BY <3>1 DEF Abort
    <3>2. CASE InsertDependency(c)
      BY <1>0, <1>3, <3>2 DEF InsertDependency, Goto, Succeed
    <3> QED
      BY <1>3, <3>1, <3>2, StatementAt
  <2> QED
    BY <1>1, <1>3, <2>1 DEF DependencyFound, IsPushOf, Committed
<1>4. CASE d = c /\ SelectDependencyTag(c) /\ pc'[c] = "InsertDependency"
  <2> DEFINE dep == req[c].deps[loc[c].i]
  <2>1. PICK t \in TagRows(dep.name, dep.tag) :
          loc' = [loc EXCEPT ![c].dep_id = t.id]
    BY <1>0, <1>4 DEF SelectDependencyTag, Fail, At
  <2>2. t.id \in Client /\ Committed(t.id) /\ req[t.id].name = dep.name
        /\ req[t.id].tag = dep.tag
    BY TagOfName DEF TagRows
  <2>3. loc'[c].dep_id = t.id /\ loc'[c].i = loc[c].i
    BY <1>0, <2>1 DEF Locals
  <2>4. Committed(t.id)'
    BY <1>1, <2>2
  <2> QED
    BY <1>1, <1>4, <2>2, <2>3, <2>4 DEF DependencyFound, IsPushOf, Committed
<1>5. d = c /\ pc'[c] = "InsertDependency"
        => \/ pc'[c] = pc[c] /\ pc[c] = "InsertDependency"
           \/ SelectDependencyTag(c)
  <2> SUFFICES ASSUME pc'[c] = "InsertDependency",
                      ~SelectDependencyTag(c), pc[c] # "InsertDependency"
               PROVE  FALSE
    OBVIOUS
  <2>1. pc[c] \in UsesTag \/ SelectTagId(c)
    BY <1>0, TagUse DEF UsesTag
  <2>2. CASE SelectTagId(c)
    <3>1. AfterSelectTagId(req[c]) # "InsertDependency" /\ pc[c] = "SelectTagId"
      BY <1>0, <2>2 DEF SelectTagId, At, TypeInv, HandlersOK, OwnStatement, Own,
         AfterSelectTagId
    <3> QED
      BY <1>0, <2>2, <3>1 DEF SelectTagId, Goto, Succeed, Fail
  <2>3. CASE pc[c] \in UsesTag
    <3>1. /\ Abort(c) => pc'[c] = pc[c]
          /\ SelectFiles(c) => pc'[c] = "Done"
          /\ DeleteFiles(c) => pc'[c] = "DeleteDeps"
          /\ SelectDeps(c) => pc'[c] \in {"Done", "ResolveDep"}
          /\ ResolveDep(c) => pc'[c] \in {"Done", "ResolveDep"}
      BY <1>0 DEF Abort, SelectFiles, DeleteFiles, SelectDeps, ResolveDep, Fail,
         Goto, Succeed, At
    <3> QED
      BY <1>0, <2>3, <3>1, StatementAt, DeleteOrder DEF UsesTag
  <2> QED
    BY <2>1, <2>2, <2>3
<1> QED
  BY <1>2, <1>3, <1>4, <1>5 DEF DependencyFound

LEMMA StepRowsCommitted ==
  ASSUME SafetyInv, DependenciesFrom, NEW c \in Client, Step(c),
         NEW d \in Client, RowsCommitted(d)
  PROVE  RowsCommitted(d)'
<1>0. /\ TypeInv /\ loc \in [Client -> Locals] /\ loc[c] \in Locals
      /\ loc[d].rows \subseteq Client
      /\ dependencies \subseteq [tag_id : Client, dependency_tag_id : Client]
  BY DEF SafetyInv, TypeInv, HandlersOK, TablesOK, Locals
<1>1. \A p \in Client : Committed(p) => Committed(p)'
  BY <1>0, HistoryGrows
<1>2. ASSUME loc'[d].rows \subseteq loc[d].rows PROVE RowsCommitted(d)'
  BY <1>0, <1>1, <1>2 DEF RowsCommitted
<1>3. CASE d = c /\ SelectDeps(c)
  <2> DEFINE ids == {e.dependency_tag_id :
                       e \in {x \in dependencies : x.tag_id = loc[c].tag_id}}
  <2>1. loc'[c].rows \subseteq ids
    <3>1. PICK R \in SUBSET ids : loc' = [loc EXCEPT ![c].rows = R]
      BY <1>3 DEF SelectDeps
    <3> QED
      BY <1>0, <3>1 DEF Locals
  <2>2. \A x \in ids : x \in Client /\ Committed(x)
    BY <1>0 DEF DependenciesFrom
  <2> QED
    BY <1>1, <1>3, <2>1, <2>2 DEF RowsCommitted
<1>4. CASE d = c /\ ResolveDep(c)
  <2>1. loc'[c].rows \subseteq loc[c].rows
    <3>1. ASSUME NEW x, loc' = [loc EXCEPT ![c].dep_id = x]
          PROVE  loc'[c].rows \subseteq loc[c].rows
      BY <1>0, <3>1 DEF Locals
    <3>2. ASSUME NEW x, NEW r,
                 loc' = [loc EXCEPT ![c].rows = @ \ {x}, ![c].deps = @ \cup {r}]
          PROVE  loc'[c].rows \subseteq loc[c].rows
      BY <1>0, <3>2 DEF Locals
    <3> QED
      BY <1>4, <3>1, <3>2, Zenon DEF ResolveDep
  <2> QED
    BY <1>2, <1>4, <2>1
<1>5. CASE d # c \/ ~(SelectDeps(c) \/ ResolveDep(c))
  BY <1>0, <1>2, <1>5, LocalWriters
<1> QED
  BY <1>3, <1>4, <1>5

\* A module's row is there after a step, unless a DeleteModule took it.
LEMMA ModuleStays ==
  ASSUME SafetyInv, NEW c \in Client, Step(c), NEW x, NEW n, Registered(x, n),
         (\E m \in modules : m.id = x) \/ ModuleDeleted(n)
  PROVE  (\E m \in modules' : m.id = x) \/ ModuleDeleted(n)'
<1>0. TypeInv /\ pc \in [Client -> Statement]
  BY DEF SafetyInv, TypeInv, HandlersOK
<1>1. req' = req /\ (ModuleDeleted(n) => ModuleDeleted(n)')
  BY <1>0, HistoryGrows
<1>2. ASSUME NEW m \in modules, m.id = x, m \notin modules'
      PROVE  ModuleDeleted(n)'
  <2>1. DeleteModuleRow(c)
    BY <1>0, <1>2, TableWriters
    DEF InsertModule, CommitTx, DeleteTagRow, DeleteModuleTags, tables
  <2>2. m.name = req[c].name
    BY <1>2, <2>1 DEF DeleteModuleRow, ModulesNamed
  <2>3. m.name = n
    BY <1>2 DEF SafetyInv, Provenance, ModulesFrom, Registered
  <2>4. pc'[c] = "Done" /\ req[c].op = "DeleteModule"
    BY <1>0, <1>2, <2>1
    DEF DeleteModuleRow, Succeed, At, TypeInv, HandlersOK, OwnStatement, Own
  <2> QED
    BY <1>1, <2>2, <2>3, <2>4 DEF ModuleDeleted
<1> QED
  BY <1>1, <1>2

LEMMA StepModuleKept ==
  ASSUME SafetyInv, NEW c \in Client, Step(c), NEW d \in Client, ModuleKept(d)
  PROVE  ModuleKept(d)'
<1>0. TypeInv /\ req' = req /\ Moves(c)
  BY HistoryGrows, StepMoves DEF SafetyInv
<1> SUFFICES ASSUME UsesModule(d)'
             PROVE  \/ \E m \in modules' : m.id = loc'[d].module_id
                    \/ ModuleDeleted(req[d].name)'
  BY <1>0 DEF ModuleKept, ModuleDeleted
<1>1. PICK x : x = loc'[d].module_id
  OBVIOUS
<1>2. PICK n : n = req[d].name
  OBVIOUS
<1>3. /\ Registered(x, n)
      /\ (\E m \in modules : m.id = x) \/ ModuleDeleted(n)
  <2>1. CASE UsesModule(d) /\ loc'[d].module_id = loc[d].module_id
    BY <1>1, <1>2, <2>1 DEF ModuleKept, SafetyInv, Provenance, ModuleUsed
  <2>2. CASE d = c /\ \E m \in ModulesNamed(req[c].name) : loc'[c].module_id = m.id
    BY <1>1, <1>2, <2>2 DEF ModulesNamed, SafetyInv, Provenance, ModulesFrom
  <2>3. d # c => UsesModule(d) /\ loc'[d].module_id = loc[d].module_id
    BY <1>0 DEF Moves, OthersUnchanged, UsesModule, Committed
  <2> QED
    BY <1>0, <2>1, <2>2, <2>3 DEF Moves
<1>4. (\E m \in modules' : m.id = x) \/ ModuleDeleted(n)'
  BY <1>3, ModuleStays
<1> QED
  BY <1>0, <1>1, <1>2, <1>4 DEF ModuleDeleted

\* Which statement ends a draft push, and which a pull.
LEMMA DoneBy ==
  ASSUME TypeInv, NEW c \in Client, Step(c), pc[c] # "Done", pc'[c] = "Done"
  PROVE  /\ req[c].op = "PushDraft" => UpsertDraft(c)
         /\ req[c].op = "Pull" => SelectFiles(c) \/ SelectDraft(c)
         /\ req[c].op = "Push" => SelectTagId(c) \/ InsertDependency(c)
<1>0. /\ pc \in [Client -> Statement] /\ Own(req[c], pc[c])
      /\ answer'[c] = "ok" /\ pc[c] # "Validate"
  BY StepEnds DEF TypeInv, HandlersOK, OwnStatement
<1>1. ~Abort(c)
  BY <1>0 DEF Abort, Fail
<1>2. /\ SelectTags(c) => pc'[c] # "Done"
      /\ BeginTx(c) => pc'[c] # "Done"
      /\ CommitTx(c) => pc'[c] # "Done"
      /\ SelectDraftModule(c) => pc'[c] # "Done"
      /\ SelectDependencyTag(c) => pc'[c] # "Done"
  BY <1>0 DEF SelectTags, BeginTx, CommitTx, SelectDraftModule,
     SelectDependencyTag, Goto, Fail, At
<1>3. SelectModule(c) => pc'[c] # "Done"
  <2> SUFFICES ASSUME SelectModule(c) PROVE pc'[c] # "Done"
    OBVIOUS
  <2>1. AfterSelectModule(req[c].op) # "Done" /\ pc[c] # "Done"
    BY <1>0 DEF SelectModule, At, Own, AfterSelectModule
  <2> QED
    BY <1>0, <2>1 DEF SelectModule, Goto, Fail
<1>4. SelectTagId(c) /\ req[c].op = "Pull" => pc'[c] # "Done"
  <2> SUFFICES ASSUME SelectTagId(c), req[c].op = "Pull" PROVE pc'[c] # "Done"
    OBVIOUS
  <2>1. AfterSelectTagId(req[c]) = "SelectFiles"
    BY DEF AfterSelectTagId
  <2> QED
    BY <1>0, <2>1 DEF SelectTagId, Goto, Fail
<1> QED
  BY <1>0, <1>1, <1>2, <1>3, <1>4, StatementAt DEF Own

LEMMA StepDraftPushed ==
  ASSUME SafetyInv, NEW c \in Client, Step(c), NEW d \in Client, DraftPushed(d)
  PROVE  DraftPushed(d)'
<1>0. /\ TypeInv /\ req' = req /\ loc \in [Client -> Locals] /\ loc[c] \in Locals
      /\ now \in Nat /\ now' = now
      /\ \A x, n : Registered(x, n) => Registered(x, n)'
  BY HistoryGrows, RowWriters DEF SafetyInv, TypeInv, HandlersOK, TablesOK
<1>1. loc'[d].began <= now'
  <2>1. CASE loc'[d].began = loc[d].began
    BY <1>0, <2>1 DEF DraftPushed
  <2>2. CASE d = c /\ (BeginTx(c) \/ UpsertDraft(c))
    <3>1. loc'[c].began = now
      BY <1>0, <2>2 DEF BeginTx, UpsertDraft, Locals
    <3> QED
      BY <1>0, <2>2, <3>1
  <2> QED
    BY <1>0, <2>1, <2>2, LocalWriters
<1>2. ASSUME req[d].op = "PushDraft", pc'[d] = "Done"
      PROVE  Registered(loc[d].module_id, req[d].name)'
  <2>1. Registered(loc[d].module_id, req[d].name)
        /\ loc'[d].module_id = loc[d].module_id
    <3>1. CASE pc[d] = "Done"
      <4>1. ~SelectModule(d) /\ ~SelectDraftModule(d)
        BY <3>1 DEF SelectModule, SelectDraftModule, At
      <4> QED
        BY <1>0, <1>2, <3>1, <4>1, LocalWriters DEF DraftPushed
    <3>2. CASE pc[d] # "Done"
      <4>1. d = c
        BY <1>0, <1>2, <3>2, StepEnds
      <4>2. UpsertDraft(c) /\ pc[c] = "UpsertDraft"
        BY <1>0, <1>2, <3>2, <4>1, DoneBy DEF UpsertDraft, At
      <4>3. ~SelectModule(c) /\ ~SelectDraftModule(c)
        BY <4>2 DEF SelectModule, SelectDraftModule, At
      <4> QED
        BY <1>0, <4>1, <4>2, <4>3, LocalWriters
        DEF SafetyInv, Provenance, ModuleUsed, UsesModule
    <3> QED
      BY <3>1, <3>2
  <2> QED
    BY <1>0, <2>1 DEF Registered
<1> QED
  BY <1>0, <1>1, <1>2 DEF DraftPushed

-----------------------------------------------------------------------------
(* The tables.                                                             *)

LEMMA StepFiles ==
  ASSUME SafetyInv, FilesAllOrNone, NEW c \in Client, Step(c)
  PROVE  FilesAllOrNone'
<1>0. /\ TypeInv /\ pc \in [Client -> Statement]
      /\ protofiles \subseteq [tag_id : Client, file : File]
  BY DEF SafetyInv, TypeInv, HandlersOK, TablesOK
<1>1. /\ req' = req
      /\ \A p \in Client : Committed(p) => Committed(p)'
      /\ \A d, t \in Client : FilesDeletedBy(d, t) => FilesDeletedBy(d, t)'
  BY <1>0, HistoryGrows
<1>2. ASSUME NEW p \in Client, Committed(p), StoredFiles(p)' = StoredFiles(p)
      PROVE  \/ StoredFiles(p)' = Elements(req[p].files)
             \/ StoredFiles(p)' = {} /\ \E d \in Client : FilesDeletedBy(d, p)'
  BY <1>1, <1>2 DEF FilesAllOrNone
<1>3. ASSUME CommitTx(c), ~Fail(c, "constraint violated") PROVE FilesAllOrNone'
  <2>1. /\ protofiles' = protofiles \cup InsertedFiles(c)
        /\ Goto(c, "SelectTagId") /\ pc[c] = "CommitTx"
    BY <1>3 DEF CommitTx, At
  <2>2. Committed(c)' /\ ~Committed(c)
    BY <1>0, <1>1, <2>1 DEF Committed, Goto, TypeInv, HandlersOK, OwnStatement, Own
  <2>3. \A f \in protofiles : f.tag_id # c
    BY <2>2 DEF FilesAllOrNone
  <2>4. \A f \in InsertedFiles(c) : f.tag_id = c /\ f.file \in Elements(req[c].files)
    BY DEF InsertedFiles
  <2>5. StoredFiles(c)' = Elements(req[c].files)
    <3>1. {f \in protofiles' : f.tag_id = c} = InsertedFiles(c)
      BY <2>1, <2>3, <2>4
    <3>2. {f.file : f \in InsertedFiles(c)} = Elements(req[c].files)
      <4>1. \A e \in Elements(req[c].files) :
              [tag_id |-> c, file |-> e] \in InsertedFiles(c)
        BY DEF InsertedFiles
      <4>2. \A e \in Elements(req[c].files) : \E f \in InsertedFiles(c) : f.file = e
        BY <4>1
      <4> QED
        BY <2>4, <4>2
    <3> QED
      BY <3>1, <3>2 DEF StoredFiles
  <2>6. \A p \in Client \ {c} : StoredFiles(p)' = StoredFiles(p)
    BY <2>1, <2>4 DEF StoredFiles
  <2>7. \A p \in Client \ {c} : Committed(p)' => Committed(p)
    BY <1>0, <1>1, StepEnds DEF Committed
  <2>8. \A f \in protofiles' : Committed(f.tag_id)'
    BY <1>0, <1>1, <2>1, <2>2, <2>4 DEF FilesAllOrNone
  <2>9. ASSUME NEW p \in Client, Committed(p)'
        PROVE  \/ StoredFiles(p)' = Elements(req[p].files)'
               \/ StoredFiles(p)' = {} /\ \E d \in Client : FilesDeletedBy(d, p)'
    <3>1. Elements(req[p].files)' = Elements(req[p].files)
      BY <1>1 DEF Elements
    <3> QED
      BY <1>2, <2>5, <2>6, <2>7, <2>9, <3>1
  <2> QED
    BY <2>8, <2>9 DEF FilesAllOrNone
<1>4. ASSUME NEW T \in SUBSET Client,
             protofiles' = {f \in protofiles : f.tag_id \notin T},
             \A t \in T : FilesDeletedBy(c, t)',
             \A p \in Client : Committed(p)' => Committed(p)
      PROVE  FilesAllOrNone'
  <2>1. \A f \in protofiles' : Committed(f.tag_id)'
    BY <1>0, <1>1, <1>4 DEF FilesAllOrNone
  <2>2. ASSUME NEW p \in Client, Committed(p)'
        PROVE  \/ StoredFiles(p)' = Elements(req[p].files)'
               \/ StoredFiles(p)' = {} /\ \E d \in Client : FilesDeletedBy(d, p)'
    <3>1. Elements(req[p].files)' = Elements(req[p].files)
      BY <1>1 DEF Elements
    <3>2. CASE p \in T
      BY <1>4, <3>2 DEF StoredFiles
    <3>3. CASE p \notin T
      <4>1. StoredFiles(p)' = StoredFiles(p)
        BY <1>4, <3>3 DEF StoredFiles
      <4> QED
        BY <1>2, <1>4, <2>2, <3>1, <4>1
    <3> QED
      BY <3>2, <3>3
  <2> QED
    BY <2>1, <2>2 DEF FilesAllOrNone
<1>5. ~CommitTx(c) \/ Fail(c, "constraint violated")
        => \A p \in Client : Committed(p)' => Committed(p)
  <2>1. CommitTx(c) /\ Fail(c, "constraint violated")
          => \A p \in Client : Committed(p)' => Committed(p)
    BY DEF Fail, Committed
  <2>2. ~CommitTx(c) => \A p \in Client : Committed(p)' => Committed(p)
    BY <1>0, StepMoves DEF Moves, OthersUnchanged, Committed
  <2> QED
    BY <2>1, <2>2
<1>6. CASE DeleteFiles(c)
  <2>1. pc[c] = "DeleteFiles" /\ req[c].op = "DeleteTag" /\ loc' = loc
        /\ protofiles' = {f \in protofiles : f.tag_id # loc[c].tag_id}
        /\ pc'[c] = "DeleteDeps" /\ ~CommitTx(c)
    BY <1>0, <1>6 DEF DeleteFiles, CommitTx, At, Goto, TypeInv, HandlersOK,
       OwnStatement, Own
  <2>2. PICK T \in SUBSET Client : T = {loc[c].tag_id} \cap Client
    OBVIOUS
  <2>3. protofiles' = {f \in protofiles : f.tag_id \notin T}
    BY <1>0, <2>1, <2>2
  <2>4. \A t \in T : FilesDeletedBy(c, t)'
    BY <1>1, <2>1, <2>2 DEF FilesDeletedBy
  <2> QED
    BY <1>4, <1>5, <2>1, <2>3, <2>4
<1>7. CASE DeleteModuleFiles(c)
  <2>1. /\ req[c].op = "DeleteModule" /\ pc'[c] = "DeleteModuleDeps" /\ ~CommitTx(c)
        /\ protofiles' = {f \in protofiles :
                            \A t \in TagsOfName(req[c].name) : f.tag_id # t.id}
    BY <1>0, <1>7 DEF DeleteModuleFiles, CommitTx, At, Goto, TypeInv, HandlersOK,
       OwnStatement, Own
  <2>2. PICK T \in SUBSET Client : T = {t.id : t \in TagsOfName(req[c].name)}
    <3>1. \A t \in TagsOfName(req[c].name) : t.id \in Client
      BY TagOfName
    <3> QED
      BY <3>1
  <2>3. protofiles' = {f \in protofiles : f.tag_id \notin T}
    BY <2>1, <2>2
  <2>4. \A t \in T : req[t].name = req[c].name
    BY <2>2, TagOfName
  <2>5. \A t \in T : FilesDeletedBy(c, t)'
    BY <1>1, <2>1, <2>4 DEF FilesDeletedBy
  <2> QED
    BY <1>4, <1>5, <2>1, <2>3, <2>5
<1>8. CASE protofiles' = protofiles /\ (~CommitTx(c) \/ Fail(c, "constraint violated"))
  <2>1. PICK T \in SUBSET Client : T = {}
    OBVIOUS
  <2>2. protofiles' = {f \in protofiles : f.tag_id \notin T}
    BY <1>8, <2>1
  <2> QED
    BY <1>4, <1>5, <1>8, <2>1, <2>2
<1>9. CommitTx(c) /\ Fail(c, "constraint violated") => protofiles' = protofiles
  BY <1>0 DEF CommitTx, Fail, Goto, At, tables
<1> QED
  BY <1>0, <1>3, <1>6, <1>7, <1>8, <1>9, RowWriters

\* A push about to insert a dependency row, as the invariants describe it.
LEMMA InsertedRow ==
  ASSUME SafetyInv, NEW c \in Client, InsertDependency(c),
         Validated(c), TagFound(c), DependencyFound(c)
  PROVE  /\ req[c].op = "Push" /\ req[c].tag # ""
         /\ loc[c].tag_id \in Client /\ SameTag(loc[c].tag_id, c)
         /\ loc[c].i \in DOMAIN req[c].deps
         /\ IsPushOf(loc[c].dep_id, req[c].deps[loc[c].i])
<1>1. /\ pc[c] = "InsertDependency" /\ req[c].op = "Push"
      /\ loc[c].tag_id \in Client /\ loc[c].i \in DOMAIN req[c].deps
  BY DEF InsertDependency, At, SafetyInv, TypeInv, HandlersOK, OwnStatement, Own,
     LocalsRead, Read
<1>2. req[c].tag # ""
  BY <1>1 DEF Validated, Valid
<1> QED
  BY <1>1, <1>2, NoneAssumption DEF TagFound, DependencyFound

LEMMA StepDependenciesFrom ==
  ASSUME SafetyInv, DependenciesFrom, NEW c \in Client, Step(c),
         Validated(c), TagFound(c), DependencyFound(c)
  PROVE  DependenciesFrom'
<1>0. /\ TypeInv
      /\ dependencies \subseteq [tag_id : Client, dependency_tag_id : Client]
  BY DEF SafetyInv, TypeInv, TablesOK
<1>1. req' = req /\ \A p \in Client : Committed(p) => Committed(p)'
  BY <1>0, HistoryGrows
<1> DEFINE From(d, p) == /\ req[p].op = "Push" /\ SameTag(p, d.tag_id)
                         /\ \E j \in DOMAIN req[p].deps :
                              IsPushOf(d.dependency_tag_id, req[p].deps[j])
<1>2. ASSUME NEW d, NEW p \in Client, From(d, p) PROVE From(d, p)'
  BY <1>1, <1>2 DEF SameTag, IsPushOf
<1>3. ASSUME NEW d, d.dependency_tag_id \in Client, Committed(d.dependency_tag_id),
             NEW p \in Client, From(d, p)
      PROVE  Committed(d.dependency_tag_id)' /\ \E q \in Client : From(d, q)'
  BY <1>1, <1>2, <1>3
<1>4. ASSUME NEW d \in dependencies
      PROVE  Committed(d.dependency_tag_id)' /\ \E q \in Client : From(d, q)'
  <2>1. PICK p \in Client : From(d, p)
    BY DEF DependenciesFrom
  <2> HIDE DEF From
  <2> QED
    BY <1>0, <1>3, <2>1 DEF DependenciesFrom
<1>5. ASSUME InsertDependency(c), NEW d \in dependencies' \ dependencies
      PROVE  Committed(d.dependency_tag_id)' /\ \E q \in Client : From(d, q)'
  <2>1. d.tag_id = loc[c].tag_id /\ d.dependency_tag_id = loc[c].dep_id
    <3> DEFINE row == [tag_id |-> loc[c].tag_id, dependency_tag_id |-> loc[c].dep_id]
    <3>1. dependencies' = dependencies \/ dependencies' = dependencies \cup {row}
      BY <1>5, Zenon DEF InsertDependency
    <3> QED
      BY <1>5, <3>1
  <2>2. /\ req[c].op = "Push" /\ loc[c].i \in DOMAIN req[c].deps
        /\ SameTag(loc[c].tag_id, c)
        /\ IsPushOf(loc[c].dep_id, req[c].deps[loc[c].i])
    BY <1>5, InsertedRow
  <2>3. From(d, c) /\ d.dependency_tag_id \in Client
        /\ Committed(d.dependency_tag_id)
    BY <2>1, <2>2 DEF SameTag, IsPushOf
  <2> HIDE DEF From
  <2> QED
    BY <1>3, <2>3
<1>6. \A d \in dependencies' \ dependencies : InsertDependency(c)
  BY <1>0, RowWriters DEF DeleteDeps, DeleteModuleDeps
<1>7. \A d \in dependencies' : Committed(d.dependency_tag_id)'
                                /\ \E q \in Client : From(d, q)'
  BY <1>4, <1>5, <1>6
<1> QED
  BY <1>7 DEF DependenciesFrom

LEMMA StepDraftsFrom ==
  ASSUME SafetyInv, DraftsFrom, NEW c \in Client, Step(c)
  PROVE  DraftsFrom'
<1>0. TypeInv /\ pc \in [Client -> Statement]
  BY DEF SafetyInv, TypeInv, HandlersOK
<1>1. /\ req' = req /\ \A x, n : Registered(x, n) => Registered(x, n)'
  BY <1>0, HistoryGrows
<1> DEFINE From(r, p) == /\ req[p].op = "PushDraft" /\ pc[p] = "Done"
                         /\ req[p].tag = r.tag /\ req[p].files = r.files
                         /\ Registered(r.module_id, req[p].name)
<1>2. \A p \in Client : pc[p] = "Done" => pc'[p] = "Done"
  BY StepMoves, <1>0 DEF Moves, OthersUnchanged
<1>3. ASSUME NEW r, NEW p \in Client, From(r, p) PROVE From(r, p)'
  BY <1>1, <1>2, <1>3 DEF Registered
<1>4. ASSUME UpsertDraft(c), NEW r \in draft_tags' \ draft_tags PROVE From(r, c)'
  <2>1. /\ r.module_id = loc[c].module_id /\ r.tag = req[c].tag
        /\ r.files = req[c].files
    BY <1>4 DEF UpsertDraft
  <2>2. pc[c] = "UpsertDraft" /\ pc'[c] = "Done" /\ req[c].op = "PushDraft"
    BY <1>0, <1>4
    DEF UpsertDraft, At, Succeed, TypeInv, HandlersOK, OwnStatement, Own
  <2>3. Registered(loc[c].module_id, req[c].name)
    BY <2>2 DEF SafetyInv, Provenance, ModuleUsed, UsesModule
  <2>4. PICK x : x = loc[c].module_id
    OBVIOUS
  <2>5. PICK n : n = req[c].name
    OBVIOUS
  <2>6. Registered(x, n)'
    BY <1>1, <2>3, <2>4, <2>5
  <2> QED
    BY <1>1, <2>1, <2>2, <2>4, <2>5, <2>6 DEF Registered
<1>5. \A r \in draft_tags' \ draft_tags : UpsertDraft(c)
  BY <1>0, RowWriters DEF DeleteModuleDrafts
<1>6. \A r \in draft_tags : \E p \in Client : From(r, p)
  BY DEF DraftsFrom
<1>7. \A r \in draft_tags' : \E p \in Client : From(r, p)'
  <2> HIDE DEF From
  <2> QED
    BY <1>3, <1>4, <1>5, <1>6
<1> QED
  BY <1>7 DEF DraftsFrom

\* The drafts of a module's name were removed.
DraftsDeleted(n) ==
  \E d \in Client : /\ req[d].op = "DeleteModule" /\ req[d].name = n
                    /\ pc[d] \in {"DeleteModuleRow", "Done"}

LEMMA StepFreshDraft ==
  ASSUME SafetyInv, FreshDraftKept, NEW c \in Client, Step(c),
         \A p \in Client : Validated(p) /\ DraftPushed(p)
  PROVE  FreshDraftKept'
<1>0. /\ TypeInv /\ pc \in [Client -> Statement] /\ loc \in [Client -> Locals]
      /\ now \in Nat /\ now' = now /\ req' = req /\ Moves(c)
  BY HistoryGrows, RowWriters, StepMoves
  DEF SafetyInv, TypeInv, HandlersOK, TablesOK
<1> SUFFICES ASSUME NEW p \in Client, req[p].op = "PushDraft", answer'[p] = "ok",
                    loc'[p].began + DraftTTL >= now
             PROVE  \/ \E q \in Client : RenewsDraft(q, p)' /\ DraftRow(q)' \in draft_tags'
                    \/ DraftsDeleted(req[p].name)'
  BY <1>0 DEF FreshDraftKept, DraftsDeleted
<1>1. CASE UpsertDraft(c) /\ p = c
  <2> DEFINE row == [module_id |-> loc[c].module_id, tag |-> req[c].tag,
                     files |-> req[c].files, updated_at |-> now]
  <2>1. row \in draft_tags'
    BY <1>1 DEF UpsertDraft
  <2>2. loc'[c].began = now /\ loc'[c].module_id = loc[c].module_id
    <3>1. loc' = [loc EXCEPT ![c].began = now] /\ loc[c] \in Locals
      BY <1>0, <1>1 DEF UpsertDraft
    <3> QED
      BY <1>0, <3>1 DEF Locals
  <2>3. now >= now
    BY <1>0
  <2>4. row = DraftRow(c)'
    BY <1>0, <2>2 DEF DraftRow
  <2>5. pc'[c] = "Done"
    BY <1>0, <1>1 DEF UpsertDraft, Succeed
  <2> HIDE DEF row
  <2> QED
    BY <1>0, <1>1, <2>1, <2>2, <2>3, <2>4, <2>5 DEF RenewsDraft
<1>2. CASE answer[p] = "ok"
  <2>0. p # c
    BY <1>2, StatementAt
  <2>1. loc'[p] = loc[p] /\ pc[p] = "Done"
    BY <1>0, <1>2, <2>0, LocalWriters DEF Validated
  <2>2. loc[p].began <= now /\ Registered(loc[p].module_id, req[p].name)
    BY <2>1 DEF DraftPushed
  <2>3. CASE DraftsDeleted(req[p].name)
    <3>1. PICK d \in Client : /\ req[d].op = "DeleteModule" /\ req[d].name = req[p].name
                              /\ pc[d] \in {"DeleteModuleRow", "Done"}
      BY <2>3 DEF DraftsDeleted
    <3>2. pc'[d] \in {"DeleteModuleRow", "Done"}
      BY <1>0, <3>1, DeleteOrder, StepEnds
    <3> QED
      BY <1>0, <3>1, <3>2 DEF DraftsDeleted
  <2>4. ASSUME NEW q \in Client, RenewsDraft(q, p), DraftRow(q) \in draft_tags
        PROVE  \/ \E x \in Client : RenewsDraft(x, p)' /\ DraftRow(x)' \in draft_tags'
               \/ DraftsDeleted(req[p].name)'
    <3>0. PICK r \in draft_tags : r = DraftRow(q)
      BY <2>4
    <3>a. /\ r.module_id = loc[p].module_id /\ r.tag = req[p].tag
          /\ r.updated_at >= loc[p].began
      BY <2>4, <3>0 DEF RenewsDraft, DraftRow
    <3>b. loc'[q] = loc[q] /\ pc'[q] = "Done"
      BY <1>0, <2>4, DeleteOrder, LocalWriters, StepEnds DEF RenewsDraft
    <3>c. RenewsDraft(q, p)' /\ DraftRow(q)' = r
      BY <1>0, <2>1, <2>4, <3>0, <3>b DEF RenewsDraft, DraftRow
    <3>1. CASE r \in draft_tags'
      BY <3>1, <3>c
    <3>2. CASE UpsertDraft(c) /\ r \notin draft_tags'
      <4> DEFINE row == [module_id |-> loc[c].module_id, tag |-> req[c].tag,
                         files |-> req[c].files, updated_at |-> now]
      <4>1. row \in draft_tags' /\ r.module_id = loc[c].module_id
            /\ r.tag = req[c].tag
        BY <3>2 DEF UpsertDraft
      <4>2. loc[p].began \in Nat
        BY <1>0 DEF Locals
      <4>3. row.updated_at >= loc[p].began
        BY <1>0, <2>2, <4>2
      <4>4. row.module_id = loc[p].module_id /\ row.tag = req[p].tag
        BY <3>a, <4>1
      <4>5. /\ loc'[c].began = now /\ loc'[c].module_id = loc[c].module_id
            /\ pc'[c] = "Done" /\ req[c].op = "PushDraft"
        <5>1. /\ loc' = [loc EXCEPT ![c].began = now] /\ loc[c] \in Locals
              /\ pc'[c] = "Done" /\ req[c].op = "PushDraft"
          BY <1>0, <3>2
          DEF UpsertDraft, Succeed, At, TypeInv, HandlersOK, OwnStatement, Own
        <5> QED
          BY <1>0, <5>1 DEF Locals
      <4>6. row = DraftRow(c)'
        BY <1>0, <4>5 DEF DraftRow
      <4>7. RenewsDraft(c, p)'
        BY <1>0, <2>1, <4>3, <4>4, <4>5 DEF RenewsDraft
      <4> HIDE DEF row
      <4> QED
        BY <4>1, <4>6, <4>7
    <3>3. CASE DeleteModuleDrafts(c) /\ r \notin draft_tags'
      <4>1. PICK m \in modules : m.name = req[c].name /\ m.id = r.module_id
        BY <3>3 DEF DeleteModuleDrafts, ModulesNamed
      <4>2. req[c].name = req[p].name
        BY <2>2, <3>a, <4>1 DEF SafetyInv, Provenance, ModulesFrom, Registered
      <4>3. req[c].op = "DeleteModule" /\ pc'[c] = "DeleteModuleRow"
        BY <1>0, <3>3
        DEF DeleteModuleDrafts, At, Goto, TypeInv, HandlersOK, OwnStatement, Own
      <4> QED
        BY <1>0, <4>2, <4>3 DEF DraftsDeleted
    <3> QED
      BY <1>0, <3>1, <3>2, <3>3, RowWriters
  <2> QED
    BY <1>2, <2>1, <2>3, <2>4 DEF FreshDraftKept, DraftsDeleted
<1>3. answer[p] # "ok" => p = c /\ UpsertDraft(c)
  <2> SUFFICES ASSUME answer[p] # "ok" PROVE p = c /\ UpsertDraft(c)
    OBVIOUS
  <2>1. p = c /\ pc'[c] = "Done"
    BY <1>0, StepEnds
  <2>2. pc[c] # "Done"
    <3>1. pc[c] = "Done" => Abort(c)
      BY StatementAt
    <3>2. Abort(c) => answer'[c] = "error"
      BY <1>0 DEF Abort, Fail, TypeInv, HandlersOK
    <3> QED
      BY <2>1, <3>1, <3>2
  <2> QED
    BY <1>0, <2>1, <2>2, DoneBy
<1> QED
  BY <1>1, <1>2, <1>3

-----------------------------------------------------------------------------
(* The answers.                                                            *)

\* What a pull may have found, for the id t it looked up, the files F that
\* arrived and the files M whose rows were lost.
Pulled(c, t, F, M) ==
  IF t # None
  THEN \/ F \cup M = Elements(req[t].files)
       \/ F = {} /\ \E d \in Client : FilesDeletedBy(d, t)
  ELSE \E p \in Client : /\ req[p].op = "PushDraft" /\ pc[p] = "Done"
                         /\ SameTag(p, c) /\ F = Elements(req[p].files)

LEMMA PulledStays ==
  ASSUME TypeInv, NEW c \in Client, Step(c), NEW d \in Client,
         NEW t \in Client \cup {None}, NEW F, NEW M, Pulled(d, t, F, M)
  PROVE  Pulled(d, t, F, M)'
<1>1. /\ req' = req
      /\ \A e, x \in Client : FilesDeletedBy(e, x) => FilesDeletedBy(e, x)'
  BY HistoryGrows
<1>2. \A p \in Client : pc[p] = "Done" => pc'[p] = "Done"
  BY StepMoves DEF Moves, OthersUnchanged
<1>3. CASE t # None
  <2>1. PICK u \in Client : u = t
    BY <1>3
  <2>2. Elements(req[u].files)' = Elements(req[u].files)
    BY <1>1 DEF Elements
  <2> QED
    BY <1>1, <1>3, <2>1, <2>2 DEF Pulled
<1>4. CASE t = None
  <2>1. PICK p \in Client : /\ req[p].op = "PushDraft" /\ pc[p] = "Done"
                            /\ SameTag(p, d) /\ F = Elements(req[p].files)
    BY <1>4 DEF Pulled
  <2>2. Elements(req[p].files)' = Elements(req[p].files)
    BY <1>1 DEF Elements
  <2> QED
    BY <1>1, <1>2, <1>4, <2>1, <2>2 DEF Pulled, SameTag
<1> QED
  BY <1>3, <1>4

LEMMA StepPullAnswered ==
  ASSUME SafetyInv, FilesAllOrNone, DraftsFrom, NEW c \in Client, Step(c),
         NEW d \in Client, TagFound(d), PullAnswered(d)
  PROVE  PullAnswered(d)'
<1>0. /\ TypeInv /\ loc \in [Client -> Locals] /\ loc[d] \in Locals
      /\ loc[d].tag_id \in Client \cup {None} /\ req' = req
  BY HistoryGrows DEF SafetyInv, TypeInv, HandlersOK, Locals, Id
<1> SUFFICES ASSUME req[d].op = "Pull", pc'[d] = "Done"
             PROVE  Pulled(d, loc[d].tag_id, loc[d].files, loc[d].missed)'
  BY <1>0 DEF PullAnswered, Pulled
<1>1. PICK t : t = loc[d].tag_id
  OBVIOUS
<1>2. PICK F : F = loc'[d].files
  OBVIOUS
<1>2m. PICK M : M = loc'[d].missed
  OBVIOUS
<1>3. Pulled(d, t, F, M) /\ loc'[d].tag_id = t
  <2>1. CASE pc[d] = "Done"
    <3>1. loc'[d] = loc[d]
      BY <1>0, <2>1, DeleteOrder, LocalWriters
    <3> QED
      BY <1>1, <1>2, <1>2m, <2>1, <3>1 DEF PullAnswered, Pulled
  <2>2. CASE pc[d] # "Done"
    <3>1. d = c
      BY <1>0, <2>2, StepEnds
    <3>2. SelectFiles(c) \/ SelectDraft(c)
      BY <1>0, <2>2, <3>1, DoneBy
    <3>3. CASE SelectFiles(c)
      <4>1. pc[c] = "SelectFiles" /\ ~SelectTagId(c)
        BY <3>3 DEF SelectFiles, SelectTagId, At
      <4>a. PICK lost \in SUBSET StoredFiles(loc[c].tag_id) :
              loc' = [loc EXCEPT ![c].files = StoredFiles(loc[c].tag_id) \ lost,
                                 ![c].missed = lost]
        BY <3>3 DEF SelectFiles
      <4>2. t \in Client /\ t # None /\ Committed(t)
        BY <1>0, <1>1, <3>1, <4>1 DEF TagFound, UsesTag
      <4>b. F = StoredFiles(t) \ lost /\ M = lost /\ loc'[c].tag_id = t
        BY <1>0, <1>1, <1>2, <1>2m, <3>1, <4>a DEF Locals
      <4>3. F \cup M = StoredFiles(t) /\ F \subseteq StoredFiles(t) /\ loc'[c].tag_id = t
        BY <1>1, <3>1, <4>a, <4>b
      <4> QED
        BY <3>1, <4>2, <4>3 DEF FilesAllOrNone, Pulled
    <3>4. CASE SelectDraft(c)
      <4>1. pc[c] = "SelectDraft" /\ answer[c] = "none"
        BY <3>4 DEF SelectDraft, At
      <4>2. t = None
        BY <1>1, <3>1, <4>1 DEF TagFound, UsesTag
      <4>3. answer'[c] = "ok"
        BY <1>0, <2>2, <3>1, StepEnds
      <4>4. PICK r \in draft_tags :
              /\ r.module_id = loc[c].module_id /\ r.tag = req[c].tag
              /\ loc' = [loc EXCEPT ![c].files = Elements(r.files)]
        BY <1>0, <3>4, <4>3 DEF SelectDraft, Fail, TypeInv, HandlersOK
      <4>5. PICK p \in Client :
              /\ req[p].op = "PushDraft" /\ pc[p] = "Done"
              /\ req[p].tag = r.tag /\ req[p].files = r.files
              /\ Registered(r.module_id, req[p].name)
        BY DEF DraftsFrom
      <4>6. Registered(loc[c].module_id, req[c].name)
        BY <4>1 DEF SafetyInv, Provenance, ModuleUsed, UsesModule
      <4>7. SameTag(p, c)
        BY <4>4, <4>5, <4>6 DEF Registered, SameTag
      <4>8. F = Elements(req[p].files) /\ loc'[c].tag_id = t
        BY <1>0, <1>1, <1>2, <3>1, <4>4, <4>5 DEF Locals
      <4> QED
        BY <3>1, <4>2, <4>5, <4>7, <4>8 DEF Pulled
    <3> QED
      BY <3>2, <3>3, <3>4
  <2> QED
    BY <2>1, <2>2
<1>4. Pulled(d, t, F, M)'
  BY <1>0, <1>1, <1>3, PulledStays
<1> QED
  BY <1>2, <1>2m, <1>3, <1>4 DEF Pulled

\* A tag that has lost its row, or its module's, was deleted.
LEMMA GoneWasDeleted ==
  ASSUME SafetyInv, NEW x \in Client, Committed(x), ModuleKept(x),
         ~\E t \in tags, m \in modules : t.id = x /\ m.id = t.module_id
  PROVE  \E d \in Client : TagDeletedBy(d, x)
<1>1. CASE ModuleDeleted(req[x].name)
  BY <1>1 DEF ModuleDeleted, TagDeletedBy
<1>2. CASE \E m \in modules : m.id = loc[x].module_id
  <2>1. ~\E t \in tags : t.id = x
    BY <1>2 DEF SafetyInv, Provenance, TagsFrom
  <2> QED
    BY <2>1 DEF SafetyInv, KeptOrDeleted
<1> QED
  BY <1>1, <1>2 DEF ModuleKept, UsesModule

LEMMA StepUnresolved ==
  ASSUME SafetyInv, NEW c \in Client, Step(c),
         \A x \in Client : ModuleKept(x) /\ RowsCommitted(x),
         NEW d \in Client, Unresolved(d)
  PROVE  Unresolved(d)'
<1>0. /\ TypeInv /\ loc \in [Client -> Locals] /\ loc[d] \in Locals
      /\ answer \in [Client -> Status] /\ req' = req /\ Own(req[c], pc[c])
      /\ loc[d].rows \subseteq Client
      /\ \A e, x \in Client : TagDeletedBy(e, x) => TagDeletedBy(e, x)'
  BY HistoryGrows DEF SafetyInv, TypeInv, HandlersOK, OwnStatement, Locals
<1> SUFFICES ASSUME req[d].op = "GetDependencies",
                    answer'[d] = "dependency not found"
             PROVE  /\ loc'[d].dep_id \in Client
                    /\ \E e \in Client : TagDeletedBy(e, loc[d].dep_id)'
  BY <1>0 DEF Unresolved
<1>1. PICK x : x = loc'[d].dep_id
  OBVIOUS
<1>2. x \in Client /\ \E e \in Client : TagDeletedBy(e, x)
  <2>1. CASE d # c
    <3>1. loc'[d] = loc[d] /\ answer'[d] = answer[d]
      BY <1>0, <2>1, StepEnds, LocalWriters
    <3>2. x = loc[d].dep_id
      BY <1>1, <3>1
    <3> QED
      BY <3>1, <3>2 DEF Unresolved
  <2>2. CASE d = c
    <3>1. ResolveDep(c)
      <4>1. /\ Abort(c) => answer'[c] = "error"
            /\ Validate(c) => answer'[c] \in {"none", "invalid"}
            /\ SelectTagId(c) => answer'[c] \in {"none", "ok", "tag not found"}
            /\ SelectLatestTag(c) => answer'[c] \in {"none", "ok"}
            /\ SelectDeps(c) => answer'[c] \in {"none", "ok"}
        BY <1>0 DEF Abort, Validate, SelectTagId, SelectLatestTag, SelectDeps,
           Goto, Fail, Succeed, At
      <4> QED
        BY <1>0, <2>2, <4>1, StatementAt DEF Own
    <3>2. PICK y \in loc[c].rows :
            /\ ~\E t \in tags, m \in modules : t.id = y /\ m.id = t.module_id
            /\ loc' = [loc EXCEPT ![c].dep_id = y]
      BY <1>0, <2>2, <3>1 DEF ResolveDep, Goto, Succeed, At
    <3>3. y = x
      BY <1>0, <1>1, <2>2, <3>2 DEF Locals
    <3>4. x \in Client /\ Committed(x) /\ ModuleKept(x)
      BY <1>0, <2>2, <3>2, <3>3 DEF RowsCommitted
    <3> QED
      BY <3>2, <3>3, <3>4, GoneWasDeleted
  <2> QED
    BY <2>1, <2>2
<1>3. \E e \in Client : TagDeletedBy(e, x)'
  BY <1>0, <1>2
<1> QED
  BY <1>1, <1>2, <1>3 DEF TagDeletedBy

LEMMA RecordedStays ==
  ASSUME SafetyInv, NEW c \in Client, Step(c), NEW t, NEW dep, Recorded(t, dep)
  PROVE  Recorded(t, dep)'
<1>0. /\ TypeInv /\ pc \in [Client -> Statement] /\ req' = req
      /\ \A p \in Client : Committed(p) => Committed(p)'
      /\ \A d \in Client : \A x : DepsDeletedBy(d, x) => DepsDeletedBy(d, x)'
  BY HistoryGrows DEF SafetyInv, TypeInv, HandlersOK
<1>1. PICK x \in Client :
        /\ Committed(x) /\ req[x].name = dep.name /\ req[x].tag = dep.tag
        /\ \/ [tag_id |-> t, dependency_tag_id |-> x] \in dependencies
           \/ \E d \in Client : DepsDeletedBy(d, t) \/ DepsDeletedBy(d, x)
  BY DEF Recorded
<1>2. \/ [tag_id |-> t, dependency_tag_id |-> x] \in dependencies'
      \/ \E d \in Client : DepsDeletedBy(d, t)' \/ DepsDeletedBy(d, x)'
  <2>1. CASE \E d \in Client : DepsDeletedBy(d, t) \/ DepsDeletedBy(d, x)
    BY <1>0, <2>1
  <2> DEFINE row == [tag_id |-> t, dependency_tag_id |-> x]
  <2>2. ASSUME row \in dependencies, DeleteDeps(c), row \notin dependencies'
        PROVE  DepsDeletedBy(c, t)' \/ DepsDeletedBy(c, x)'
    <3>1. loc[c].tag_id \in {t, x} /\ loc' = loc
      BY <2>2 DEF DeleteDeps
    <3>2. pc'[c] = "DeleteTagRow" /\ req[c].op = "DeleteTag"
      BY <1>0, <2>2
      DEF DeleteDeps, At, Goto, TypeInv, HandlersOK, OwnStatement, Own
    <3> QED
      BY <1>0, <3>1, <3>2 DEF DepsDeletedBy
  <2>3. ASSUME row \in dependencies, DeleteModuleDeps(c), row \notin dependencies'
        PROVE  DepsDeletedBy(c, t)'
    <3>1. PICK u \in TagsOfName(req[c].name) : u.id = t
      BY <2>3 DEF DeleteModuleDeps
    <3>2. req[t].name = req[c].name
      BY <3>1, TagOfName
    <3>3. pc'[c] = "DeleteModuleTags" /\ req[c].op = "DeleteModule"
      BY <1>0, <2>3
      DEF DeleteModuleDeps, At, Goto, TypeInv, HandlersOK, OwnStatement, Own
    <3> QED
      BY <1>0, <3>2, <3>3 DEF DepsDeletedBy
  <2>4. CASE row \in dependencies
    <3>1. InsertDependency(c) => dependencies \subseteq dependencies'
      BY Zenon DEF InsertDependency
    <3> QED
      BY <1>0, <2>2, <2>3, <2>4, <3>1, RowWriters
  <2> QED
    BY <1>1, <2>1, <2>4
<1>3. Committed(x)'
  BY <1>0, <1>1
<1> QED
  BY <1>0, <1>1, <1>2, <1>3 DEF Recorded

\* The dependency that a push has just inserted.
LEMMA InsertRecords ==
  ASSUME SafetyInv, NEW c \in Client, InsertDependency(c), Step(c),
         Validated(c), TagFound(c), DependencyFound(c), pc'[c] # "InsertDependency",
         NEW dep, dep = req[c].deps[loc[c].i], NEW t, t = loc[c].tag_id
  PROVE  Recorded(t, dep)'
<1>0. /\ TypeInv /\ pc \in [Client -> Statement] /\ req' = req
      /\ \A p \in Client : Committed(p) => Committed(p)'
  BY HistoryGrows DEF SafetyInv, TypeInv, HandlersOK
<1>1. PICK x \in Client :
        /\ x = loc[c].dep_id /\ Committed(x)
        /\ req[x].name = dep.name /\ req[x].tag = dep.tag
  BY InsertedRow DEF IsPushOf
<1>2. [tag_id |-> t, dependency_tag_id |-> x] \in dependencies'
  BY <1>0, <1>1 DEF InsertDependency, Fail, At
<1>3. Committed(x)'
  BY <1>0, <1>1
<1> QED
  BY <1>0, <1>1, <1>2, <1>3 DEF Recorded

LEMMA StepRecorded ==
  ASSUME SafetyInv, NEW c \in Client, Step(c), NEW d \in Client,
         Validated(d), TagFound(d), DependencyFound(d), DependenciesRecorded(d)
  PROVE  DependenciesRecorded(d)'
<1>0. /\ TypeInv /\ loc \in [Client -> Locals] /\ loc[d] \in Locals
      /\ pc \in [Client -> Statement] /\ req' = req /\ loc[d].i \in Nat
      /\ loc[d].tag_id \in Client \cup {None} /\ req[d] \in Request
  BY HistoryGrows DEF SafetyInv, TypeInv, HandlersOK, Locals, Id
<1> DEFINE Working == {"SelectDependencyTag", "InsertDependency", "Done"}
<1> SUFFICES ASSUME req[d].op = "Push", pc'[d] \in Working,
                    NEW j \in DOMAIN req[d].deps,
                    j < loc'[d].i \/ pc'[d] = "Done"
             PROVE  Recorded(loc[d].tag_id, req[d].deps[j])'
  BY <1>0 DEF DependenciesRecorded
<1>d. req[d].deps \in Seq(Dependency) /\ j \in Nat
  BY <1>0 DEF Request
<1>1. PICK t : t = loc'[d].tag_id
  OBVIOUS
<1>2. PICK dep : dep = req[d].deps[j]
  OBVIOUS
<1>3. ASSUME Recorded(t, dep)
      PROVE  Recorded(loc[d].tag_id, req[d].deps[j])'
  <2>1. Recorded(t, dep)'
    BY <1>3, RecordedStays
  <2> QED
    BY <1>0, <1>1, <1>2, <2>1 DEF Recorded, DepsDeletedBy
<1>4. CASE /\ loc'[d].tag_id = loc[d].tag_id /\ pc[d] \in Working
           /\ j < loc[d].i \/ pc[d] = "Done"
  BY <1>0, <1>1, <1>2, <1>3, <1>4 DEF DependenciesRecorded
<1>5. CASE d = c /\ SelectTagId(c)
  <2>1. pc[c] = "SelectTagId" /\ answer[c] = "none" /\ pc'[c] # pc[c]
        /\ req[c].op # "Pull"
    BY <1>5 DEF SelectTagId, At
  <2>2. \/ loc'[c].i = 1 /\ pc'[c] # "Done"
        \/ req[c].deps = <<>>
    <3>1. AfterSelectTagId(req[c]) \in {"Done", "SelectDependencyTag"}
          /\ (AfterSelectTagId(req[c]) = "Done" => req[c].deps = <<>>)
      BY <1>5 DEF AfterSelectTagId
    <3>2. PICK t2 : loc' = [loc EXCEPT ![c].tag_id = t2, ![c].i = 1]
      BY <1>0, <1>5, <2>1 DEF SelectTagId, Fail
    <3>3. loc'[c].i = 1
      BY <1>0, <1>5, <3>2 DEF Locals
    <3>4. pc'[c] = "Done" => AfterSelectTagId(req[c]) = "Done"
      BY <1>0, <1>5, <2>1, <3>1 DEF SelectTagId, Goto, Fail
    <3> QED
      BY <3>1, <3>3, <3>4
  <2>3. j >= 1
    BY <1>d
  <2> QED
    BY <1>5, <1>d, <2>2, <2>3
<1>6. CASE d = c /\ InsertDependency(c) /\ pc'[c] # "InsertDependency"
  <2>1. /\ loc' = [loc EXCEPT ![c].i = loc[c].i + 1] /\ pc[c] = "InsertDependency"
        /\ loc[c].i + 1 \in DOMAIN req[c].deps <=> pc'[c] = "SelectDependencyTag"
    BY <1>0, <1>6 DEF InsertDependency, Fail, Goto, Succeed, At
  <2>2. loc'[c].i = loc[c].i + 1 /\ loc'[c].tag_id = loc[c].tag_id
    BY <1>0, <1>6, <2>1 DEF Locals
  <2>3. loc[c].tag_id # None /\ loc[c].i \in DOMAIN req[c].deps
    BY <1>6, InsertedRow, NoneAssumption
  <2>4. j <= loc[c].i
    <3>1. CASE pc'[c] = "Done"
      <4>1. loc[c].i + 1 \notin DOMAIN req[c].deps
        BY <2>1, <3>1
      <4> QED
        BY <1>0, <1>6, <1>d, <2>3, <4>1
    <3>2. CASE j < loc'[c].i
      BY <1>0, <1>6, <1>d, <2>2, <3>2
    <3> QED
      BY <1>6, <3>1, <3>2
  <2>5. CASE j < loc[c].i
    BY <1>4, <1>6, <2>1, <2>2, <2>5
  <2>6. CASE j = loc[c].i
    <3>1. Recorded(t, dep)'
      BY <1>1, <1>2, <1>6, <2>2, <2>6, InsertRecords
    <3> QED
      BY <1>0, <1>1, <1>2, <3>1 DEF Recorded, DepsDeletedBy
  <2> QED
    BY <1>0, <1>6, <1>d, <2>4, <2>5, <2>6
<1>7. CASE d # c
  <2>1. loc'[d] = loc[d] /\ pc'[d] = pc[d]
    BY <1>0, <1>7, StepEnds, LocalWriters
  <2> QED
    BY <1>4, <2>1
<1>8. CASE d = c /\ ~SelectTagId(c) /\ pc[c] \in Working
           /\ (InsertDependency(c) => pc'[c] = "InsertDependency")
  <2>1. loc'[c].tag_id = loc[c].tag_id
    BY <1>0, <1>8, LocalWriters
  <2>2. loc'[c].i = loc[c].i
    <3>1. InsertDependency(c) => loc' = loc
      BY <1>0, <1>8 DEF InsertDependency, Goto, Succeed, At
    <3> QED
      BY <1>0, <1>8, <3>1, LocalWriters
  <2>3. pc'[c] = "Done" => pc[c] = "Done"
    BY <1>0, <1>8, DoneBy
  <2> QED
    BY <1>4, <1>8, <2>1, <2>2, <2>3
<1>9. d = c /\ ~SelectTagId(c) => pc[c] \in Working
  <2> SUFFICES ASSUME d = c, ~SelectTagId(c) PROVE pc[c] \in Working
    OBVIOUS
  <2>1. CASE pc'[c] = "Done"
    <3>1. pc[c] = "Done" \/ InsertDependency(c)
      BY <1>0, <2>1, DoneBy
    <3> QED
      BY <3>1 DEF InsertDependency, At
  <2>2. CASE pc'[c] # "Done"
    <3>1. pc[c] \in UsesTag
      BY <1>0, <2>2, TagUse DEF UsesTag
    <3> QED
      BY <1>0, <3>1 DEF UsesTag, TypeInv, HandlersOK, OwnStatement, Own
  <2> QED
    BY <2>1, <2>2
<1> QED
  BY <1>5, <1>6, <1>7, <1>8, <1>9

-----------------------------------------------------------------------------

LEMMA InitAnswersInv == Init => AnswersInv
<1> SUFFICES ASSUME Init PROVE AnswersInv
  OBVIOUS
<1>1. SafetyInv
  BY InitSafetyInv
<1>2. ASSUME NEW c \in Client PROVE HandlerInv(c)
  <2>0. InitLocals.tag_id = None /\ InitLocals.began = 0 /\ InitLocals.rows = {}
    BY DEF InitLocals
  <2>1. pc[c] = "Validate" /\ answer[c] = "none" /\ loc[c] = InitLocals /\ now = 0
    BY DEF Init
  <2>2. Validated(c) /\ TagFound(c) /\ DependencyFound(c) /\ RowsCommitted(c)
    BY <2>0, <2>1 DEF Validated, TagFound, DependencyFound, RowsCommitted, UsesTag
  <2>3. ModuleKept(c)
    BY <2>1 DEF ModuleKept, UsesModule, Committed
  <2>4. DraftPushed(c)
    <3>1. loc[c].began = 0 /\ 0 <= now
      BY <2>0, <2>1
    <3> QED
      BY <2>1, <3>1 DEF DraftPushed
  <2>5. PullAnswered(c) /\ Unresolved(c) /\ DependenciesRecorded(c)
    BY <2>1 DEF PullAnswered, Unresolved, DependenciesRecorded
  <2> QED
    BY <2>2, <2>3, <2>4, <2>5 DEF HandlerInv
<1>3. FilesAllOrNone /\ DependenciesFrom /\ DraftsFrom /\ FreshDraftKept
  BY DEF Init, FilesAllOrNone, DependenciesFrom, DraftsFrom, FreshDraftKept, Committed
<1> QED
  BY <1>1, <1>2, <1>3 DEF AnswersInv

\* The clock and the compaction daemon touch no handler, and no stable tag.
LEMMA QuietAnswersInv ==
  ASSUME AnswersInv, SafetyInv', FreshDraftKept', draft_tags' \subseteq draft_tags,
         now' \in Nat, now' >= now,
         UNCHANGED <<modules, tags, protofiles, dependencies, req, pc, answer, loc,
                     raced>>
  PROVE  AnswersInv'
<1>1. ASSUME NEW c \in Client PROVE HandlerInv(c)'
  <2>0. HandlerInv(c) /\ loc[c].began \in Nat /\ now \in Nat
    BY DEF AnswersInv, SafetyInv, TypeInv, HandlersOK, TablesOK, Locals
  <2>1. Validated(c)' /\ TagFound(c)' /\ DependencyFound(c)' /\ RowsCommitted(c)'
    BY <2>0 DEF HandlerInv, Validated, TagFound, Committed, SameTag,
       DependencyFound, IsPushOf, RowsCommitted
  <2>2. ModuleKept(c)' /\ DraftPushed(c)'
    BY <2>0 DEF HandlerInv, ModuleKept, UsesModule, Committed, ModuleDeleted,
       DraftPushed, Registered
  <2>3. PullAnswered(c)'
    BY <2>0 DEF HandlerInv, PullAnswered, FilesDeletedBy, SameTag
  <2>4. Unresolved(c)'
    BY <2>0 DEF HandlerInv, Unresolved, TagDeletedBy
  <2>5. DependenciesRecorded(c)'
    BY <2>0 DEF HandlerInv, DependenciesRecorded, Recorded, Committed, DepsDeletedBy
  <2> QED
    BY <2>1, <2>2, <2>3, <2>4, <2>5 DEF HandlerInv
<1>2. FilesAllOrNone'
  <2>1. \A p \in Client : StoredFiles(p)' = StoredFiles(p)
    BY DEF StoredFiles
  <2>2. \A f \in protofiles : Committed(f.tag_id)'
    BY DEF AnswersInv, FilesAllOrNone, Committed
  <2>3. req' = req /\ protofiles' = protofiles /\ FilesAllOrNone
    BY DEF AnswersInv
  <2>4. ASSUME NEW p \in Client, Committed(p)'
        PROVE  \/ StoredFiles(p)' = Elements(req[p].files)
               \/ StoredFiles(p)' = {} /\ \E d \in Client : FilesDeletedBy(d, p)'
    <3>1. Committed(p)
      BY <2>4 DEF Committed
    <3>2. \/ StoredFiles(p) = Elements(req[p].files)
          \/ StoredFiles(p) = {} /\ \E d \in Client : FilesDeletedBy(d, p)
      BY <2>3, <3>1 DEF FilesAllOrNone
    <3>3. (\E d \in Client : FilesDeletedBy(d, p)) =>
            \E d \in Client : FilesDeletedBy(d, p)'
      BY DEF FilesDeletedBy
    <3> QED
      BY <2>1, <3>2, <3>3
  <2> QED
    BY <2>2, <2>3, <2>4 DEF FilesAllOrNone
<1>3. DependenciesFrom'
  BY DEF AnswersInv, DependenciesFrom, Committed, SameTag, IsPushOf
<1>4. DraftsFrom'
  BY DEF AnswersInv, DraftsFrom, Registered
<1> QED
  BY <1>1, <1>2, <1>3, <1>4 DEF AnswersInv

LEMMA NextAnswersInv == AnswersInv /\ [Next]_vars => AnswersInv'
<1> SUFFICES ASSUME AnswersInv, [Next]_vars PROVE AnswersInv'
  OBVIOUS
<1>0. SafetyInv /\ SafetyInv' /\ now \in Nat /\ FreshDraftKept
  BY NextSafetyInv DEF AnswersInv, SafetyInv, TypeInv, TablesOK
<1>1. CASE Compact
  <2>1. \A r \in draft_tags \ draft_tags' : r.updated_at + DraftTTL < now
    BY <1>1 DEF Compact, Obsolete
  <2>2. FreshDraftKept'
    <3> SUFFICES ASSUME NEW p \in Client, req[p].op = "PushDraft", answer[p] = "ok",
                        loc[p].began + DraftTTL >= now,
                        NEW q \in Client, RenewsDraft(q, p), DraftRow(q) \in draft_tags
                 PROVE  DraftRow(q) \in draft_tags'
      BY <1>0, <1>1 DEF Compact, FreshDraftKept, RenewsDraft, DraftRow
    <3>1. loc[q].began \in Nat /\ loc[p].began \in Nat /\ DraftTTL \in Nat
      BY <1>0, BoundsAssumption DEF SafetyInv, TypeInv, HandlersOK, Locals
    <3>2. DraftRow(q).updated_at = loc[q].began
      BY DEF DraftRow
    <3>3. loc[q].began >= loc[p].began
      BY DEF RenewsDraft
    <3> QED
      BY <1>0, <2>1, <3>1, <3>2, <3>3
  <2> QED
    BY <1>0, <1>1, <2>2, QuietAnswersInv DEF Compact
<1>2. CASE Tick
  <2>1. now' = now + 1 /\ now' \in Nat /\ now' >= now
    BY <1>0, <1>2 DEF Tick
  <2>2. FreshDraftKept'
    <3>1. \A p \in Client : loc[p].began \in Nat /\ DraftTTL \in Nat
      BY <1>0, BoundsAssumption DEF SafetyInv, TypeInv, HandlersOK, Locals
    <3>2. \A p \in Client : loc[p].began + DraftTTL >= now'
            => loc[p].began + DraftTTL >= now
      BY <1>0, <2>1, <3>1
    <3> QED
      BY <1>0, <1>2, <3>2 DEF Tick, FreshDraftKept, RenewsDraft, DraftRow, tables
  <2> QED
    BY <1>0, <1>2, <2>1, <2>2, QuietAnswersInv DEF Tick, tables
<1>3. CASE UNCHANGED vars
  <2>1. FreshDraftKept'
    BY <1>0, <1>3 DEF FreshDraftKept, RenewsDraft, DraftRow, vars
  <2> QED
    BY <1>0, <1>3, <2>1, QuietAnswersInv DEF vars
<1>4. ASSUME NEW c \in Client, Step(c) PROVE AnswersInv'
  <2>1. FilesAllOrNone /\ DependenciesFrom /\ DraftsFrom /\ TypeInv
    BY DEF AnswersInv, SafetyInv
  <2>2. ASSUME NEW d \in Client PROVE HandlerInv(d)
    BY DEF AnswersInv
  <2>3. ASSUME NEW d \in Client PROVE HandlerInv(d)'
    <3>1. Validated(d)' /\ TagFound(d)' /\ DependencyFound(d)'
      BY <1>0, <1>4, <2>1, <2>2, StepValidated, StepTagFound, StepDependencyFound
      DEF HandlerInv
    <3>2. RowsCommitted(d)' /\ ModuleKept(d)' /\ DraftPushed(d)'
      BY <1>0, <1>4, <2>1, <2>2, StepRowsCommitted, StepModuleKept, StepDraftPushed
      DEF HandlerInv
    <3>3. PullAnswered(d)'
      BY <1>0, <1>4, <2>1, <2>2, StepPullAnswered DEF HandlerInv
    <3>4. Unresolved(d)'
      BY <1>0, <1>4, <2>2, StepUnresolved DEF HandlerInv
    <3>5. DependenciesRecorded(d)'
      BY <1>0, <1>4, <2>2, StepRecorded DEF HandlerInv
    <3> QED
      BY <3>1, <3>2, <3>3, <3>4, <3>5 DEF HandlerInv
  <2>4. FilesAllOrNone' /\ DraftsFrom'
    BY <1>0, <1>4, <2>1, StepFiles, StepDraftsFrom
  <2>5. DependenciesFrom'
    BY <1>0, <1>4, <2>1, <2>2, StepDependenciesFrom DEF HandlerInv
  <2>6. FreshDraftKept'
    BY <1>0, <1>4, <2>2, StepFreshDraft DEF HandlerInv
  <2> QED
    BY <1>0, <2>3, <2>4, <2>5, <2>6 DEF AnswersInv
<1> QED
  BY <1>1, <1>2, <1>3, <1>4 DEF Next

LEMMA AnswersInvariant == Spec => []AnswersInv
  BY InitAnswersInv, NextAnswersInv, PTL DEF Spec

\* For every workload a pull answers with the files of one push, or of one
\* draft push, of the requested name and tag: with all of them but the ones
\* whose rows were lost unnoticed, or with none after a delete.
THEOREM PullsReturnOnePush == Spec => []PullReturnsOnePush
<1>1. AnswersInv => PullReturnsOnePush
  <2> SUFFICES ASSUME AnswersInv, NEW c \in Client, req[c].op = "Pull",
                      answer[c] = "ok"
               PROVE  IF loc[c].tag_id # None
                      THEN LET t == loc[c].tag_id
                           IN  /\ Committed(t) /\ SameTag(t, c)
                               /\ \/ loc[c].files \cup loc[c].missed
                                       = Elements(req[t].files)
                                  \/ /\ loc[c].files = {}
                                     /\ \E d \in Client : FilesDeletedBy(d, t)
                      ELSE \E p \in Client :
                             /\ req[p].op = "PushDraft" /\ pc[p] = "Done"
                             /\ SameTag(p, c)
                             /\ loc[c].files = Elements(req[p].files)
    BY DEF PullReturnsOnePush
  <2>1. pc[c] = "Done" /\ Valid(req[c])
    BY DEF AnswersInv, HandlerInv, Validated
  <2>2. req[c].tag # ""
    BY <2>1 DEF Valid
  <2>3. PullAnswered(c) /\ TagFound(c)
    BY DEF AnswersInv, HandlerInv
  <2> QED
    BY <2>1, <2>2, <2>3 DEF PullAnswered, TagFound
<1> QED
  BY <1>1, AnswersInvariant, PTL

\* For every workload each dependency row was declared by a push of the
\* dependent name and tag, although both ends are looked up by name again.
THEOREM DependencyRowsWereDeclared == Spec => []DependencyRowsDeclared
<1>1. AnswersInv => DependencyRowsDeclared
  <2> SUFFICES ASSUME AnswersInv, NEW d \in dependencies
               PROVE  \E p \in Client :
                        /\ req[p].op = "Push" /\ SameTag(p, d.tag_id)
                        /\ [name |-> req[d.dependency_tag_id].name,
                            tag |-> req[d.dependency_tag_id].tag]
                             \in Elements(req[p].deps)
    BY DEF DependencyRowsDeclared
  <2>0. PICK p \in Client :
          /\ req[p].op = "Push" /\ SameTag(p, d.tag_id)
          /\ \E i \in DOMAIN req[p].deps : IsPushOf(d.dependency_tag_id, req[p].deps[i])
    BY DEF AnswersInv, DependenciesFrom
  <2>1. PICK j \in DOMAIN req[p].deps : IsPushOf(d.dependency_tag_id, req[p].deps[j])
    BY <2>0
  <2>2. req[p].deps[j] \in Dependency
    BY DEF AnswersInv, SafetyInv, TypeInv, HandlersOK, Request
  <2>3. [name |-> req[d.dependency_tag_id].name, tag |-> req[d.dependency_tag_id].tag]
          = req[p].deps[j]
    BY <2>1, <2>2 DEF IsPushOf, Dependency
  <2> QED
    BY <2>0, <2>1, <2>3 DEF Elements
<1> QED
  BY <1>1, AnswersInvariant, PTL

\* For every workload a push that answers ok has a row for each dependency it
\* declared, until a delete of either end takes it away.
THEOREM AckedPushesHaveDependencies == Spec => []AckedPushHasDependencies
<1>1. AnswersInv => AckedPushHasDependencies
  <2> SUFFICES ASSUME AnswersInv, NEW p \in Client, req[p].op = "Push",
                      answer[p] = "ok", NEW dep \in Elements(req[p].deps)
               PROVE  Recorded(loc[p].tag_id, dep)
    BY DEF AckedPushHasDependencies, Recorded
  <2>1. pc[p] = "Done"
    BY DEF AnswersInv, HandlerInv, Validated
  <2>2. PICK j \in DOMAIN req[p].deps : dep = req[p].deps[j]
    BY DEF Elements
  <2> QED
    BY <2>1, <2>2 DEF AnswersInv, HandlerInv, DependenciesRecorded
<1> QED
  BY <1>1, AnswersInvariant, PTL

\* For every workload GetModuleDependencies meets a dependency it cannot
\* resolve only after a delete of that dependency's tag or module.
THEOREM UnresolvedWasDeleted == Spec => []UnresolvedOnlyAfterDelete
<1>1. AnswersInv => UnresolvedOnlyAfterDelete
  BY DEF AnswersInv, HandlerInv, Unresolved, UnresolvedOnlyAfterDelete
<1> QED
  BY <1>1, AnswersInvariant, PTL

\* For every workload and every DraftTTL a draft outlives the compaction daemon
\* for its time to live, counted from the last push of it.
THEOREM FreshDraftsKept == Spec => []FreshDraftKept
<1>1. AnswersInv => FreshDraftKept
  BY DEF AnswersInv
<1> QED
  BY <1>1, AnswersInvariant, PTL

\* For every workload a pull turns to the drafts only when no push of the
\* stable tag has committed or a delete has taken it away.
THEOREM DraftsOnlyAsFallback == Spec => DraftsOnlyWithoutStable
<1>1. ASSUME AnswersInv, [Next]_vars
      PROVE  [\A c \in Client :
                pc[c] # "SelectDraftModule" /\ pc'[c] = "SelectDraftModule" =>
                  \A p \in Client : Committed(p) /\ SameTag(p, c) =>
                    \E d \in Client : TagDeletedBy(d, p)]_vars
  <2> SUFFICES ASSUME NEW c \in Client, pc[c] # "SelectDraftModule",
                      pc'[c] = "SelectDraftModule",
                      NEW p \in Client, Committed(p), SameTag(p, c)
               PROVE  \E d \in Client : TagDeletedBy(d, p)
    OBVIOUS
  <2>0. TypeInv /\ SafetyInv /\ pc \in [Client -> Statement]
    BY <1>1 DEF AnswersInv, SafetyInv, TypeInv, HandlersOK
  <2>1. Step(c)
    <3>1. PICK b \in Client : Step(b)
      BY <1>1 DEF Next, Compact, Tick, vars
    <3> QED
      BY <2>0, <3>1, StepEnds
  <2>2. SelectTagId(c)
    <3>1. /\ Abort(c) => pc'[c] = pc[c]
          /\ InsertModule(c) => pc'[c] = "Done"
          /\ SelectTags(c) => pc'[c] # "SelectDraftModule"
          /\ BeginTx(c) => pc'[c] = "CommitTx"
          /\ CommitTx(c) => pc'[c] # "SelectDraftModule"
          /\ SelectLatestTag(c) => pc'[c] # "SelectDraftModule"
          /\ UpsertDraft(c) => pc'[c] = "Done"
          /\ SelectDraft(c) => pc'[c] # "SelectDraftModule"
      BY <2>0 DEF Abort, InsertModule, SelectTags, BeginTx, CommitTx,
         SelectLatestTag, UpsertDraft, SelectDraft, Fail, Goto, Succeed, At
    <3>2. Validate(c) => pc'[c] # "SelectDraftModule"
      <4>1. FirstStatement(req[c]) # "SelectDraftModule"
        BY <2>0 DEF TypeInv, HandlersOK, Request, Operation, FirstStatement
      <4> QED
        BY <2>0, <4>1 DEF Validate, Fail, Goto, At
    <3>3. SelectModule(c) => pc'[c] # "SelectDraftModule"
      <4> SUFFICES ASSUME SelectModule(c) PROVE pc'[c] # "SelectDraftModule"
        OBVIOUS
      <4>1. AfterSelectModule(req[c].op) # "SelectDraftModule"
        BY <2>0 DEF SelectModule, At, TypeInv, HandlersOK, OwnStatement, Own,
           AfterSelectModule
      <4> QED
        BY <2>0, <4>1 DEF SelectModule, Fail, Goto, At
    <3>4. SelectTagId(c) \/ pc[c] \notin UsesTag
      BY <2>0, <2>1, TagUse DEF UsesTag
    <3>5. DeleteModuleFiles(c) => pc'[c] = "DeleteModuleDeps"
      BY <2>0 DEF DeleteModuleFiles, Goto
    <3> QED
      BY <2>0, <2>1, <3>1, <3>2, <3>3, <3>4, <3>5, StatementAt, DeleteOrder
      DEF UsesTag
  <2>3. TagRows(req[c].name, RequestedTag(c)) = {} /\ req[c].op = "Pull"
    <3>1. AfterSelectTagId(req[c]) # "SelectDraftModule"
      BY <2>0, <2>2 DEF SelectTagId, At, TypeInv, HandlersOK, OwnStatement, Own,
         AfterSelectTagId
    <3> QED
      BY <2>0, <2>2, <3>1 DEF SelectTagId, Fail, Goto, Succeed
  <2>4. req[c].tag # "" /\ RequestedTag(c) = req[c].tag
    BY <1>1, <2>2, <2>3 DEF AnswersInv, HandlerInv, Validated, Valid, SelectTagId,
       At, RequestedTag
  <2>5. ASSUME NEW t \in tags, NEW m \in modules, t.id = p, m.id = t.module_id
        PROVE  FALSE
    <3>1. t.tag = req[p].tag /\ t.module_id = loc[p].module_id /\ UsesModule(p)
      BY <2>0, <2>5 DEF SafetyInv, Provenance, TagsFrom, UsesModule
    <3>2. m.name = req[p].name
      BY <2>0, <2>5, <3>1 DEF SafetyInv, Provenance, ModuleUsed, ModulesFrom, Registered
    <3> QED
      BY <2>3, <2>4, <2>5, <3>1, <3>2 DEF TagRows, TagsOfName, ModulesNamed, SameTag
  <2>6. ModuleKept(p)
    BY <1>1 DEF AnswersInv, HandlerInv
  <2> QED
    BY <2>0, <2>5, <2>6, GoneWasDeleted
<1> QED
  BY <1>1, AnswersInvariant, PTL DEF Spec, DraftsOnlyWithoutStable
=============================================================================
