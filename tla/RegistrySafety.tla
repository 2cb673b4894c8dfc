--------------------------- MODULE RegistrySafety ---------------------------
(***************************************************************************)
(* The type invariant and the safety properties of Registry, proved for    *)
(* every set of handlers and every workload: what DeleteModule leaves      *)
(* behind, and which pushes of one tag can both commit.                    *)
(***************************************************************************)
EXTENDS Registry, TLAPS

(* Which operations execute a statement, and what they have read by then.  *)

Own(r, s) ==
  /\ s = "InsertModule" => r.op = "Register"
  /\ s = "SelectModule" => r.op \in {"Push", "PushDraft", "Pull"}
  /\ s \in {"SelectTags", "BeginTx", "CommitTx", "SelectDependencyTag",
            "InsertDependency"} => r.op = "Push"
  /\ s = "SelectTagId" => r.op \in {"Push", "Pull", "DeleteTag", "GetDependencies"}
  /\ s = "UpsertDraft" => r.op = "PushDraft"
  /\ s \in {"SelectFiles", "SelectDraftModule", "SelectDraft"} => r.op = "Pull"
  /\ s \in {"DeleteFiles", "DeleteDeps", "DeleteTagRow"} => r.op = "DeleteTag"
  /\ s \in {"DeleteModuleFiles", "DeleteModuleDeps", "DeleteModuleTags",
            "DeleteModuleDrafts", "DeleteModuleRow"} => r.op = "DeleteModule"
  /\ s \in {"SelectLatestTag", "SelectDeps", "ResolveDep"} => r.op = "GetDependencies"

Read(l, r, s) ==
  /\ s \in {"SelectTags", "BeginTx", "CommitTx", "UpsertDraft", "SelectDraft"} =>
       l.module_id \in Client
  /\ s \in {"SelectDependencyTag", "InsertDependency"} =>
       l.tag_id \in Client /\ l.i \in DOMAIN r.deps
  /\ s = "InsertDependency" => l.dep_id \in Client

\* A handler is at a statement of its own operation.
OwnStatement == \A c \in Client : Own(req[c], pc[c])

\* What a statement uses has been read before.
LocalsRead == \A c \in Client : Read(loc[c], req[c], pc[c])

HandlersOK ==
  /\ req \in [Client -> Request]
  /\ pc \in [Client -> Statement]
  /\ answer \in [Client -> Status]
  /\ loc \in [Client -> Locals]
  /\ OwnStatement
  /\ LocalsRead

TablesOK ==
  /\ modules \subseteq [id : Client, name : STRING]
  /\ tags \subseteq [id : Client, module_id : Client, tag : STRING,
                     updated_at : Nat]
  /\ protofiles \subseteq [tag_id : Client, file : File]
  /\ dependencies \subseteq [tag_id : Client, dependency_tag_id : Client]
  /\ draft_tags \subseteq [module_id : Client, tag : STRING,
                           files : Seq(File), updated_at : Nat]
  /\ now \in Nat
  /\ raced \subseteq Client

TypeInv == HandlersOK /\ TablesOK

LEMMA TypeInvTypeOK == TypeInv => TypeOK
  BY DEF TypeInv, HandlersOK, TablesOK, TypeOK

LEMMA InitTypeInv == Init => TypeInv
<1> SUFFICES ASSUME Init PROVE TypeInv
  OBVIOUS
<1>1. req \in [Client -> Request]
  BY WorkloadAssumption DEF Init
<1>2. InitLocals \in Locals
  BY DEF InitLocals, Locals, Id
<1>3. OwnStatement /\ LocalsRead
  BY DEF Init, OwnStatement, LocalsRead, Own, Read
<1>4. HandlersOK
  BY <1>1, <1>2, <1>3 DEF Init, HandlersOK, Statement, Status
<1>5. TablesOK
  BY DEF Init, TablesOK
<1> QED
  BY <1>4, <1>5 DEF TypeInv

(* The three ways a statement ends.                                        *)

\* A handler that moves to statement s with locals l stays well-formed if s
\* belongs to its operation and l holds what s uses.
LEMMA GotoHandlers ==
  ASSUME HandlersOK, NEW c \in Client, NEW s \in Statement, NEW l \in Locals,
         Goto(c, s), loc' = [loc EXCEPT ![c] = l],
         Own(req[c], s), Read(l, req[c], s)
  PROVE  HandlersOK'
<1>1. \A d \in Client : pc'[d] = IF d = c THEN s ELSE pc[d]
  BY DEF HandlersOK, Goto
<1>2. \A d \in Client : loc'[d] = IF d = c THEN l ELSE loc[d]
  BY DEF HandlersOK
<1>3. OwnStatement'
  BY <1>1 DEF HandlersOK, OwnStatement, Own, Goto
<1>4. LocalsRead'
  BY <1>1, <1>2 DEF HandlersOK, LocalsRead, Read, Goto
<1> QED
  BY <1>3, <1>4 DEF HandlersOK, Goto

LEMMA SucceedHandlers ==
  ASSUME HandlersOK, NEW c \in Client, NEW l \in Locals,
         Succeed(c), loc' = [loc EXCEPT ![c] = l]
  PROVE  HandlersOK'
<1>1. \A d \in Client : pc'[d] = IF d = c THEN "Done" ELSE pc[d]
  BY DEF HandlersOK, Succeed
<1>2. \A d \in Client : loc'[d] = IF d = c THEN l ELSE loc[d]
  BY DEF HandlersOK
<1>3. OwnStatement'
  BY <1>1 DEF HandlersOK, OwnStatement, Own, Succeed
<1>4. LocalsRead'
  BY <1>1, <1>2 DEF HandlersOK, LocalsRead, Read, Succeed
<1> QED
  BY <1>3, <1>4 DEF HandlersOK, Succeed, Statement, Status

LEMMA FailHandlers ==
  ASSUME HandlersOK, NEW c \in Client, NEW status \in Status, NEW l \in Locals,
         Fail(c, status), loc' = [loc EXCEPT ![c] = l], Read(l, req[c], pc[c])
  PROVE  HandlersOK'
<1>2. \A d \in Client : loc'[d] = IF d = c THEN l ELSE loc[d]
  BY DEF HandlersOK
<1>3. OwnStatement'
  BY DEF HandlersOK, OwnStatement, Own, Fail
<1>4. LocalsRead'
  BY <1>2 DEF HandlersOK, LocalsRead, Read, Fail
<1> QED
  BY <1>3, <1>4 DEF HandlersOK, Fail

\* The same with the locals left alone.
LEMMA SameLocals ==
  ASSUME HandlersOK, NEW c \in Client, UNCHANGED loc
  PROVE  /\ loc[c] \in Locals
         /\ loc' = [loc EXCEPT ![c] = loc[c]]
         /\ Read(loc[c], req[c], pc[c])
  BY DEF HandlersOK, LocalsRead

\* Assigning one local.
LEMMA AssignLocal ==
  ASSUME HandlersOK, NEW c \in Client
  PROVE  /\ \A x \in Client : [loc[c] EXCEPT !.module_id = x] \in Locals
         /\ \A x \in Client : [loc[c] EXCEPT !.tag_id = x, !.i = 1] \in Locals
         /\ \A x \in Client : [loc[c] EXCEPT !.dep_id = x] \in Locals
         /\ \A n \in Nat : [loc[c] EXCEPT !.i = n] \in Locals
         /\ \A n \in Nat : [loc[c] EXCEPT !.began = n] \in Locals
         /\ \A g \in STRING : [loc[c] EXCEPT !.tag = g] \in Locals
         /\ \A F \in SUBSET File : [loc[c] EXCEPT !.files = F] \in Locals
         /\ \A F, M \in SUBSET File :
              [loc[c] EXCEPT !.files = F, !.missed = M] \in Locals
         /\ \A R \in SUBSET Client : [loc[c] EXCEPT !.rows = R] \in Locals
         /\ \A R \in SUBSET Client, D \in SUBSET Dependency :
              [loc[c] EXCEPT !.rows = R, !.deps = D] \in Locals
<1> loc[c] \in Locals
  BY DEF HandlersOK
<1> QED
  BY DEF Locals, Id

(* Every action keeps the handlers well-formed.                            *)

LEMMA ValidateHandlers ==
  ASSUME HandlersOK, NEW c \in Client, Validate(c)
  PROVE  HandlersOK'
<1> DEFINE s == FirstStatement(req[c])
<1>1. req[c].op \in Operation
  BY DEF HandlersOK, Request
<1>2. s \in Statement /\ Own(req[c], s) /\ Read(loc[c], req[c], s)
  BY <1>1 DEF Operation, FirstStatement, Statement, Own, Read
<1>3. CASE Goto(c, s)
  <2> HIDE DEF s
  <2> QED
    BY <1>2, <1>3, SameLocals, GotoHandlers DEF Validate
<1>4. CASE Fail(c, "invalid")
  BY <1>4, SameLocals, FailHandlers DEF Validate, Status
<1> QED
  BY <1>3, <1>4 DEF Validate

LEMMA AbortHandlers ==
  ASSUME HandlersOK, NEW c \in Client, Abort(c)
  PROVE  HandlersOK'
  BY SameLocals, FailHandlers DEF Abort, Status

LEMMA SelectModuleHandlers ==
  ASSUME TypeInv, NEW c \in Client, SelectModule(c)
  PROVE  HandlersOK'
<1> USE DEF TypeInv
<1>1. CASE Fail(c, "module not found") /\ UNCHANGED loc
  BY <1>1, SameLocals, FailHandlers DEF Status
<1>2. ASSUME NEW m \in ModulesNamed(req[c].name),
             loc' = [loc EXCEPT ![c].module_id = m.id],
             Goto(c, AfterSelectModule(req[c].op))
      PROVE  HandlersOK'
  <2> DEFINE s == AfterSelectModule(req[c].op)
             l == [loc[c] EXCEPT !.module_id = m.id]
  <2>1. m.id \in Client
    BY DEF TablesOK, ModulesNamed
  <2>2. l \in Locals /\ l.module_id \in Client
    <3>1. loc[c] \in Locals
      BY DEF HandlersOK
    <3>2. l.module_id = m.id
      BY <3>1 DEF Locals
    <3> QED
      BY <2>1, <3>2, AssignLocal
  <2>3. req[c].op \in {"Push", "PushDraft", "Pull"}
    BY DEF SelectModule, At, HandlersOK, OwnStatement, Own
  <2>4. s \in {"SelectTags", "UpsertDraft", "SelectTagId"}
        /\ Own(req[c], s)
    BY <2>3 DEF AfterSelectModule, Own
  <2>5. Read(l, req[c], s)
    BY <2>2, <2>4 DEF Read
  <2>6. loc' = [loc EXCEPT ![c] = l]
    BY <1>2
  <2>7. s \in Statement
    BY <2>4 DEF Statement
  <2> HIDE DEF s, l
  <2> QED
    BY <1>2, <2>2, <2>4, <2>5, <2>6, <2>7, GotoHandlers DEF s
<1> QED
  BY <1>1, <1>2 DEF SelectModule

LEMMA SelectTagsHandlers ==
  ASSUME HandlersOK, NEW c \in Client, SelectTags(c)
  PROVE  HandlersOK'
<1>1. CASE Fail(c, "tag already exists")
  BY <1>1, SameLocals, FailHandlers DEF SelectTags, Status
<1>2. CASE Goto(c, "BeginTx")
  <2>1. Own(req[c], "BeginTx") /\ Read(loc[c], req[c], "BeginTx")
    BY DEF SelectTags, At, HandlersOK, OwnStatement, LocalsRead, Own, Read
  <2> QED
    BY <1>2, <2>1, SameLocals, GotoHandlers DEF SelectTags, Statement
<1> QED
  BY <1>1, <1>2 DEF SelectTags

LEMMA BeginTxHandlers ==
  ASSUME TypeInv, NEW c \in Client, BeginTx(c)
  PROVE  HandlersOK'
<1> USE DEF TypeInv
<1> DEFINE l == [loc[c] EXCEPT !.began = now]
<1>1. l \in Locals
  BY AssignLocal DEF TablesOK
<1>2. Own(req[c], "CommitTx") /\ Read(loc[c], req[c], "CommitTx")
  BY DEF BeginTx, At, HandlersOK, OwnStatement, LocalsRead, Own, Read
<1>3. Read(l, req[c], "CommitTx")
  <2>1. loc[c] \in Locals
    BY DEF HandlersOK
  <2>2. l.module_id = loc[c].module_id
    BY <2>1 DEF Locals
  <2> QED
    BY <1>2, <2>2 DEF Read
<1> QED
  BY <1>1, <1>2, <1>3, GotoHandlers DEF BeginTx, Statement

LEMMA CommitTxHandlers ==
  ASSUME HandlersOK, NEW c \in Client, CommitTx(c)
  PROVE  HandlersOK'
<1>1. CASE Fail(c, "constraint violated")
  BY <1>1, SameLocals, FailHandlers DEF CommitTx, Status
<1>2. CASE Goto(c, "SelectTagId")
  <2>1. Own(req[c], "SelectTagId") /\ Read(loc[c], req[c], "SelectTagId")
    BY DEF CommitTx, At, HandlersOK, OwnStatement, Own, Read
  <2> QED
    BY <1>2, <2>1, SameLocals, GotoHandlers DEF CommitTx, Statement
<1> QED
  BY <1>1, <1>2 DEF CommitTx

LEMMA SelectTagIdHandlers ==
  ASSUME TypeInv, NEW c \in Client, SelectTagId(c)
  PROVE  HandlersOK'
<1> USE DEF TypeInv
<1> DEFINE s == AfterSelectTagId(req[c])
<1>1. req[c].op \in {"Push", "Pull", "DeleteTag", "GetDependencies"}
      /\ req[c] \in Request
  BY DEF SelectTagId, At, HandlersOK, OwnStatement, Own
<1>2. CASE req[c].op = "Pull" /\ Goto(c, "SelectDraftModule") /\ UNCHANGED loc
  <2>1. Own(req[c], "SelectDraftModule") /\ Read(loc[c], req[c], "SelectDraftModule")
    BY <1>2 DEF Own, Read
  <2> QED
    BY <1>2, <2>1, SameLocals, GotoHandlers DEF Statement
<1>3. CASE Fail(c, "tag not found") /\ UNCHANGED loc
  BY <1>3, SameLocals, FailHandlers DEF Status
<1>4. ASSUME NEW t \in TagRows(req[c].name, RequestedTag(c)),
             loc' = [loc EXCEPT ![c].tag_id = t.id, ![c].i = 1],
             IF s = "Done" THEN Succeed(c) ELSE Goto(c, s)
      PROVE  HandlersOK'
  <2> DEFINE l == [loc[c] EXCEPT !.tag_id = t.id, !.i = 1]
  <2>1. t.id \in Client
    BY DEF TablesOK, TagRows, TagsOfName
  <2>2. l \in Locals /\ l.tag_id \in Client /\ l.i = 1
    <3>1. loc[c] \in Locals
      BY DEF HandlersOK
    <3>2. l.tag_id = t.id /\ l.i = 1
      BY <3>1 DEF Locals
    <3> QED
      BY <2>1, <3>2, AssignLocal
  <2>3. s \in {"Done", "SelectDependencyTag", "SelectFiles", "DeleteFiles", "SelectDeps"}
        /\ Own(req[c], s)
    BY <1>1 DEF AfterSelectTagId, Own
  <2>4. s = "SelectDependencyTag" => 1 \in DOMAIN req[c].deps
    <3>1. s = "SelectDependencyTag" => req[c].deps # <<>>
      BY <1>1 DEF AfterSelectTagId
    <3>2. req[c].deps \in Seq(Dependency)
      BY <1>1 DEF Request
    <3> QED
      BY <3>1, <3>2
  <2>5. Read(l, req[c], s)
    BY <2>2, <2>3, <2>4 DEF Read
  <2>6. loc' = [loc EXCEPT ![c] = l]
    BY <1>4 DEF HandlersOK
  <2>7. s \in Statement
    BY <2>3 DEF Statement
  <2> HIDE DEF s, l
  <2> QED
    BY <1>4, <2>2, <2>3, <2>5, <2>6, <2>7, GotoHandlers, SucceedHandlers
<1> QED
  BY <1>2, <1>3, <1>4 DEF SelectTagId

LEMMA SelectDependencyTagHandlers ==
  ASSUME TypeInv, NEW c \in Client, SelectDependencyTag(c)
  PROVE  HandlersOK'
<1> USE DEF TypeInv
<1> DEFINE dep == req[c].deps[loc[c].i]
<1>1. CASE Fail(c, "dependency not found") /\ UNCHANGED loc
  BY <1>1, SameLocals, FailHandlers DEF Status
<1>2. ASSUME NEW t \in TagRows(dep.name, dep.tag),
             loc' = [loc EXCEPT ![c].dep_id = t.id],
             Goto(c, "InsertDependency")
      PROVE  HandlersOK'
  <2> DEFINE l == [loc[c] EXCEPT !.dep_id = t.id]
  <2>1. t.id \in Client
    BY DEF TablesOK, TagRows, TagsOfName
  <2>2. l \in Locals
    BY <2>1, AssignLocal
  <2>3. loc[c] \in Locals
    BY DEF HandlersOK
  <2>4. l.dep_id = t.id /\ l.tag_id = loc[c].tag_id /\ l.i = loc[c].i
    BY <2>3 DEF Locals
  <2>5. Own(req[c], "InsertDependency") /\ Read(l, req[c], "InsertDependency")
    BY <2>1, <2>4 DEF SelectDependencyTag, At, HandlersOK, OwnStatement, Own,
       LocalsRead, Read
  <2> QED
    BY <1>2, <2>2, <2>5, GotoHandlers DEF Statement
<1> QED
  BY <1>1, <1>2 DEF SelectDependencyTag

LEMMA InsertDependencyHandlers ==
  ASSUME HandlersOK, NEW c \in Client, InsertDependency(c)
  PROVE  HandlersOK'
<1>1. CASE Fail(c, "constraint violated") /\ UNCHANGED loc
  BY <1>1, SameLocals, FailHandlers DEF Status
<1>2. ASSUME loc' = [loc EXCEPT ![c].i = loc[c].i + 1],
             IF loc[c].i + 1 \in DOMAIN req[c].deps
             THEN Goto(c, "SelectDependencyTag")
             ELSE Succeed(c)
      PROVE  HandlersOK'
  <2> DEFINE l == [loc[c] EXCEPT !.i = loc[c].i + 1]
  <2>1. loc[c] \in Locals
    BY DEF HandlersOK
  <2>2. loc[c].i + 1 \in Nat
    <3>1. loc[c].i \in Nat
      BY <2>1 DEF Locals
    <3> QED
      BY <3>1
  <2>3. l \in Locals
    BY <2>2, AssignLocal
  <2>4. l.i = loc[c].i + 1 /\ l.tag_id = loc[c].tag_id
    BY <2>1 DEF Locals
  <2>5. Own(req[c], "SelectDependencyTag") /\ loc[c].tag_id \in Client
    BY DEF InsertDependency, At, HandlersOK, OwnStatement, Own, LocalsRead, Read
  <2>6. loc' = [loc EXCEPT ![c] = l]
    BY <1>2
  <2>7. CASE loc[c].i + 1 \in DOMAIN req[c].deps /\ Goto(c, "SelectDependencyTag")
    <3>1. Read(l, req[c], "SelectDependencyTag")
      BY <2>4, <2>5, <2>7 DEF Read
    <3> HIDE DEF l
    <3> QED
      BY <2>3, <2>5, <2>6, <2>7, <3>1, GotoHandlers DEF Statement
  <2>8. CASE Succeed(c)
    <3> HIDE DEF l
    <3> QED
      BY <2>3, <2>6, <2>8, SucceedHandlers
  <2> QED
    BY <1>2, <2>7, <2>8
<1> QED
  BY <1>1, <1>2 DEF InsertDependency

LEMMA DraftHandlers ==
  ASSUME TypeInv, NEW c \in Client,
         UpsertDraft(c) \/ SelectDraftModule(c) \/ SelectDraft(c)
  PROVE  HandlersOK'
<1> USE DEF TypeInv
<1>1. CASE UpsertDraft(c)
  <2>1. [loc[c] EXCEPT !.began = now] \in Locals
    BY AssignLocal DEF TablesOK
  <2> QED
    BY <1>1, <2>1, SucceedHandlers DEF UpsertDraft
<1>2. ASSUME SelectDraftModule(c) PROVE HandlersOK'
  <2>1. CASE Fail(c, "module not found") /\ UNCHANGED loc
    BY <2>1, SameLocals, FailHandlers DEF Status
  <2>2. ASSUME NEW m \in ModulesNamed(req[c].name),
               loc' = [loc EXCEPT ![c].module_id = m.id],
               Goto(c, "SelectDraft")
        PROVE  HandlersOK'
    <3> DEFINE l == [loc[c] EXCEPT !.module_id = m.id]
    <3>1. m.id \in Client
      BY DEF TablesOK, ModulesNamed
    <3>2. l \in Locals
      BY <3>1, AssignLocal
    <3>3. loc[c] \in Locals
      BY DEF HandlersOK
    <3>4. l.module_id = m.id
      BY <3>3 DEF Locals
    <3>5. Own(req[c], "SelectDraft") /\ Read(l, req[c], "SelectDraft")
      BY <1>2, <3>1, <3>4
      DEF SelectDraftModule, At, HandlersOK, OwnStatement, Own, Read
    <3> QED
      BY <2>2, <3>2, <3>5, GotoHandlers DEF Statement
  <2> QED
    BY <1>2, <2>1, <2>2 DEF SelectDraftModule
<1>3. ASSUME SelectDraft(c) PROVE HandlersOK'
  <2>1. CASE Fail(c, "draft tag not found") /\ UNCHANGED loc
    BY <2>1, SameLocals, FailHandlers DEF Status
  <2>2. ASSUME NEW r \in draft_tags,
               loc' = [loc EXCEPT ![c].files = Elements(r.files)],
               Succeed(c)
        PROVE  HandlersOK'
    <3>1. r.files \in Seq(File)
      BY DEF TablesOK
    <3>2. Elements(r.files) \in SUBSET File
      BY <3>1 DEF Elements
    <3>3. [loc[c] EXCEPT !.files = Elements(r.files)] \in Locals
      BY <3>2, AssignLocal
    <3> QED
      BY <2>2, <3>3, SucceedHandlers
  <2> QED
    BY <1>3, <2>1, <2>2 DEF SelectDraft
<1> QED
  BY <1>1, <1>2, <1>3

\* Statements that only write tables, or read rows no later one writes.
LEMMA DeleteHandlers ==
  ASSUME HandlersOK, NEW c \in Client,
         \/ InsertModule(c)
         \/ DeleteFiles(c) \/ DeleteDeps(c) \/ DeleteTagRow(c)
         \/ DeleteModuleFiles(c) \/ DeleteModuleDeps(c) \/ DeleteModuleTags(c)
         \/ DeleteModuleDrafts(c) \/ DeleteModuleRow(c)
  PROVE  HandlersOK'
<1> DEFINE Next5 == {"DeleteDeps", "DeleteTagRow", "DeleteModuleDeps",
                     "DeleteModuleTags", "DeleteModuleDrafts", "DeleteModuleRow"}
<1>0. UNCHANGED loc
  BY DEF InsertModule, DeleteFiles, DeleteDeps, DeleteTagRow, DeleteModuleFiles,
     DeleteModuleDeps, DeleteModuleTags, DeleteModuleDrafts, DeleteModuleRow
<1>1. CASE Succeed(c)
  BY <1>0, <1>1, SameLocals, SucceedHandlers
<1>2. ASSUME NEW status \in {"tag not found", "module not found"}, Fail(c, status)
      PROVE  HandlersOK'
  <2>1. status \in Status
    BY DEF Status
  <2> QED
    BY <1>0, <1>2, <2>1, SameLocals, FailHandlers
<1>3. ASSUME NEW s \in Next5, Goto(c, s), Own(req[c], s) PROVE HandlersOK'
  <2>1. s \in Statement /\ Read(loc[c], req[c], s)
    BY DEF Statement, Read
  <2> QED
    BY <1>0, <1>3, <2>1, SameLocals, GotoHandlers
<1>4. Own(req[c], pc[c])
  BY DEF HandlersOK, OwnStatement
<1>5. CASE InsertModule(c) \/ DeleteTagRow(c) \/ DeleteModuleRow(c)
  BY <1>1, <1>2, <1>5 DEF InsertModule, DeleteTagRow, DeleteModuleRow
<1>6. CASE DeleteFiles(c) \/ DeleteDeps(c)
  BY <1>3, <1>4, <1>6 DEF DeleteFiles, DeleteDeps, At, Own
<1>7. CASE DeleteModuleFiles(c) \/ DeleteModuleDeps(c)
  BY <1>3, <1>4, <1>7 DEF DeleteModuleFiles, DeleteModuleDeps, At, Own
<1>8. CASE DeleteModuleTags(c) \/ DeleteModuleDrafts(c)
  BY <1>3, <1>4, <1>8 DEF DeleteModuleTags, DeleteModuleDrafts, At, Own
<1> QED
  BY <1>5, <1>6, <1>7, <1>8

LEMMA ReadHandlers ==
  ASSUME TypeInv, NEW c \in Client,
         SelectFiles(c) \/ SelectLatestTag(c) \/ SelectDeps(c) \/ ResolveDep(c)
  PROVE  HandlersOK'
<1> USE DEF TypeInv
<1>0. Own(req[c], pc[c]) /\ loc[c] \in Locals
  BY DEF HandlersOK, OwnStatement
<1>1. CASE SelectFiles(c)
  <2>1. StoredFiles(loc[c].tag_id) \in SUBSET File
    BY DEF TablesOK, StoredFiles
  <2>2. PICK lost \in SUBSET StoredFiles(loc[c].tag_id) :
          loc' = [loc EXCEPT ![c].files = StoredFiles(loc[c].tag_id) \ lost,
                             ![c].missed = lost]
    BY <1>1 DEF SelectFiles
  <2> DEFINE F == StoredFiles(loc[c].tag_id) \ lost
             l == [loc[c] EXCEPT !.files = F, !.missed = lost]
  <2>3. F \in SUBSET File /\ lost \in SUBSET File
    BY <2>1
  <2>4. loc' = [loc EXCEPT ![c] = l]
    BY <1>0, <2>2 DEF HandlersOK, Locals
  <2>5. l \in Locals
    <3> HIDE DEF F
    <3> QED
      BY <2>3, AssignLocal
  <2> HIDE DEF l
  <2> QED
    BY <1>1, <2>4, <2>5, SucceedHandlers DEF SelectFiles
<1>2. ASSUME SelectLatestTag(c) PROVE HandlersOK'
  <2>1. CASE Succeed(c) /\ UNCHANGED loc
    BY <2>1, SameLocals, SucceedHandlers
  <2>2. ASSUME NEW t \in TagsOfName(req[c].name),
               loc' = [loc EXCEPT ![c].tag = t.tag], Goto(c, "SelectTagId")
        PROVE  HandlersOK'
    <3>1. t.tag \in STRING
      BY DEF TablesOK, TagsOfName
    <3>2. [loc[c] EXCEPT !.tag = t.tag] \in Locals
      BY <3>1, AssignLocal
    <3>3. /\ Own(req[c], "SelectTagId")
          /\ Read([loc[c] EXCEPT !.tag = t.tag], req[c], "SelectTagId")
      BY <1>0, <1>2 DEF SelectLatestTag, At, Own, Read
    <3> QED
      BY <2>2, <3>2, <3>3, GotoHandlers DEF Statement
  <2> QED
    BY <1>2, <2>1, <2>2 DEF SelectLatestTag, Latest
<1>3. ASSUME SelectDeps(c) PROVE HandlersOK'
  <2>0. PICK ids \in SUBSET {d.dependency_tag_id :
                d \in {e \in dependencies : e.tag_id = loc[c].tag_id}} :
          /\ loc' = [loc EXCEPT ![c].rows = ids]
          /\ Succeed(c) \/ Goto(c, "ResolveDep")
    BY <1>3 DEF SelectDeps
  <2> DEFINE l == [loc[c] EXCEPT !.rows = ids]
  <2>1. ids \in SUBSET Client
    BY DEF TablesOK
  <2>2. loc' = [loc EXCEPT ![c] = l] /\ (Succeed(c) \/ Goto(c, "ResolveDep"))
    BY <2>0
  <2>3. Own(req[c], "ResolveDep") /\ Read(l, req[c], "ResolveDep")
    BY <1>0, <1>3 DEF SelectDeps, At, Own, Read
  <2>4. l \in Locals
    BY <2>1, AssignLocal
  <2> HIDE DEF l
  <2> QED
    BY <2>2, <2>3, <2>4, GotoHandlers, SucceedHandlers DEF Statement
<1>4. ASSUME ResolveDep(c) PROVE HandlersOK'
  <2>0. loc[c].rows \in SUBSET Client /\ loc[c].deps \in SUBSET Dependency
    BY <1>0 DEF Locals
  <2>1. ASSUME NEW x \in loc[c].rows, loc' = [loc EXCEPT ![c].dep_id = x],
               Fail(c, "dependency not found")
        PROVE  HandlersOK'
    <3>1. [loc[c] EXCEPT !.dep_id = x] \in Locals
      BY <2>0, AssignLocal
    <3>2. Read([loc[c] EXCEPT !.dep_id = x], req[c], pc[c])
      BY <1>4 DEF ResolveDep, At, Read
    <3> QED
      BY <2>1, <3>1, <3>2, FailHandlers DEF Status
  <2>2. ASSUME NEW x \in loc[c].rows, NEW t \in tags, NEW m \in modules,
               loc' = [loc EXCEPT
                         ![c].rows = @ \ {x},
                         ![c].deps = @ \cup {[name |-> m.name, tag |-> t.tag]}],
               Succeed(c) \/ Goto(c, "ResolveDep")
        PROVE  HandlersOK'
    <3> DEFINE R == loc[c].rows \ {x}
               D == loc[c].deps \cup {[name |-> m.name, tag |-> t.tag]}
               l == [loc[c] EXCEPT !.rows = R, !.deps = D]
    <3>1. m.name \in STRING /\ t.tag \in STRING
      BY DEF TablesOK
    <3>2. R \in SUBSET Client /\ D \in SUBSET Dependency
      BY <2>0, <3>1 DEF Dependency
    <3>3. loc' = [loc EXCEPT ![c] = l]
      BY <1>0, <2>2 DEF HandlersOK, Locals
    <3>4. Own(req[c], "ResolveDep") /\ Read(l, req[c], "ResolveDep")
      BY <1>0, <1>4 DEF ResolveDep, At, Own, Read
    <3>5. l \in Locals
      <4> HIDE DEF R, D
      <4> QED
        BY <3>2, AssignLocal
    <3> HIDE DEF l
    <3> QED
      BY <2>2, <3>3, <3>4, <3>5, GotoHandlers, SucceedHandlers DEF Statement
  <2> QED
    BY <1>4, <2>1, <2>2 DEF ResolveDep
<1> QED
  BY <1>1, <1>2, <1>3, <1>4

(* Every action keeps the columns of the tables.                           *)

LEMMA InsertModuleTables ==
  ASSUME TypeInv, NEW c \in Client, InsertModule(c)
  PROVE  TablesOK'
<1>1. req[c].name \in STRING
  BY DEF TypeInv, HandlersOK, Request
<1> QED
  BY <1>1 DEF TypeInv, TablesOK, InsertModule

LEMMA CommitTxTables ==
  ASSUME TypeInv, NEW c \in Client, CommitTx(c)
  PROVE  TablesOK'
<1>1. req[c].tag \in STRING /\ req[c].files \in Seq(File)
  BY DEF TypeInv, HandlersOK, Request
<1>2. loc[c].module_id \in Client
  BY DEF TypeInv, HandlersOK, LocalsRead, Read, CommitTx, At
<1>3. loc[c].began \in Nat
  BY DEF TypeInv, HandlersOK, Locals
<1>4. InsertedFiles(c) \subseteq [tag_id : Client, file : File]
  BY <1>1 DEF InsertedFiles, Elements
<1>5. CASE UNCHANGED <<tables, raced>>
  BY <1>5 DEF TypeInv, TablesOK, CommitTx, tables
<1>6. ASSUME tags' = tags \cup {[id |-> c, module_id |-> loc[c].module_id,
                                 tag |-> req[c].tag,
                                 updated_at |-> loc[c].began]},
             protofiles' = protofiles \cup InsertedFiles(c),
             raced' = IF CommitsTooLate(c) THEN raced \cup {c} ELSE raced,
             UNCHANGED <<modules, dependencies, draft_tags, now>>
      PROVE  TablesOK'
  <2>1. tags' \subseteq [id : Client, module_id : Client, tag : STRING,
                         updated_at : Nat]
    BY <1>1, <1>2, <1>3, <1>6 DEF TypeInv, TablesOK
  <2>2. protofiles' \subseteq [tag_id : Client, file : File]
    BY <1>4, <1>6 DEF TypeInv, TablesOK
  <2>3. raced' \subseteq Client
    BY <1>6 DEF TypeInv, TablesOK
  <2> QED
    BY <1>6, <2>1, <2>2, <2>3 DEF TypeInv, TablesOK
<1> QED
  BY <1>5, <1>6 DEF CommitTx

LEMMA InsertDependencyTables ==
  ASSUME TypeInv, NEW c \in Client, InsertDependency(c)
  PROVE  TablesOK'
<1>1. loc[c].tag_id \in Client /\ loc[c].dep_id \in Client
  BY DEF TypeInv, HandlersOK, LocalsRead, Read, InsertDependency, At
<1> DEFINE row == [tag_id |-> loc[c].tag_id, dependency_tag_id |-> loc[c].dep_id]
<1>2. /\ dependencies' = dependencies \/ dependencies' = dependencies \cup {row}
      /\ UNCHANGED <<modules, tags, protofiles, draft_tags, now, raced>>
  BY Zenon DEF InsertDependency
<1> QED
  BY <1>1, <1>2 DEF TypeInv, TablesOK

LEMMA UpsertDraftTables ==
  ASSUME TypeInv, NEW c \in Client, UpsertDraft(c)
  PROVE  TablesOK'
<1>1. loc[c].module_id \in Client
  BY DEF TypeInv, HandlersOK, LocalsRead, Read, UpsertDraft, At
<1>2. req[c].tag \in STRING /\ req[c].files \in Seq(File)
  BY DEF TypeInv, HandlersOK, Request
<1>3. draft_tags' \subseteq [module_id : Client, tag : STRING,
                             files : Seq(File), updated_at : Nat]
  BY <1>1, <1>2 DEF TypeInv, TablesOK, UpsertDraft
<1> QED
  BY <1>3 DEF TypeInv, TablesOK, UpsertDraft

\* Deletes only shrink the tables.
LEMMA DeleteTables ==
  ASSUME TypeInv, NEW c \in Client,
         \/ DeleteFiles(c) \/ DeleteDeps(c) \/ DeleteTagRow(c)
         \/ DeleteModuleFiles(c) \/ DeleteModuleDeps(c) \/ DeleteModuleTags(c)
         \/ DeleteModuleDrafts(c) \/ DeleteModuleRow(c)
  PROVE  TablesOK'
<1>1. CASE DeleteFiles(c) \/ DeleteDeps(c) \/ DeleteTagRow(c)
  BY <1>1 DEF TypeInv, TablesOK, DeleteFiles, DeleteDeps, DeleteTagRow
<1>2. CASE \/ DeleteModuleFiles(c) \/ DeleteModuleDeps(c) \/ DeleteModuleTags(c)
           \/ DeleteModuleDrafts(c) \/ DeleteModuleRow(c)
  BY <1>2 DEF TypeInv, TablesOK, DeleteModuleFiles, DeleteModuleDeps,
     DeleteModuleTags, DeleteModuleDrafts, DeleteModuleRow
<1> QED
  BY <1>1, <1>2

\* The other statements read.
LEMMA ReadTables ==
  ASSUME TypeInv, NEW c \in Client,
         \/ Validate(c) \/ Abort(c) \/ SelectModule(c) \/ SelectTags(c)
         \/ BeginTx(c) \/ SelectTagId(c) \/ SelectDependencyTag(c)
         \/ SelectFiles(c) \/ SelectDraftModule(c) \/ SelectDraft(c)
         \/ SelectLatestTag(c) \/ SelectDeps(c) \/ ResolveDep(c)
  PROVE  UNCHANGED <<tables, now, raced>> /\ TablesOK'
<1>1. UNCHANGED <<tables, now, raced>>
  BY DEF Validate, Abort, SelectModule, SelectTags, BeginTx, SelectTagId,
     SelectDependencyTag, SelectFiles, SelectDraftModule, SelectDraft,
     SelectLatestTag, SelectDeps, ResolveDep
<1> QED
  BY <1>1 DEF TypeInv, TablesOK, tables

LEMMA StepTypeInv ==
  ASSUME TypeInv, NEW c \in Client, Step(c)
  PROVE  TypeInv'
<1>1. HandlersOK'
  BY ValidateHandlers, AbortHandlers, SelectModuleHandlers, SelectTagsHandlers,
     BeginTxHandlers, CommitTxHandlers, SelectTagIdHandlers,
     SelectDependencyTagHandlers, InsertDependencyHandlers, DraftHandlers,
     DeleteHandlers, ReadHandlers
  DEF Step, TypeInv
<1>2. TablesOK'
  BY InsertModuleTables, CommitTxTables, InsertDependencyTables,
     UpsertDraftTables, DeleteTables, ReadTables
  DEF Step
<1> QED
  BY <1>1, <1>2 DEF TypeInv

LEMMA NextTypeInv == TypeInv /\ [Next]_vars => TypeInv'
<1> SUFFICES ASSUME TypeInv, [Next]_vars PROVE TypeInv'
  OBVIOUS
<1>1. CASE Compact
  <2>1. HandlersOK'
    BY <1>1 DEF Compact, TypeInv, HandlersOK, OwnStatement, LocalsRead, Own, Read
  <2>2. TablesOK'
    BY <1>1 DEF Compact, TypeInv, TablesOK
  <2> QED
    BY <2>1, <2>2 DEF TypeInv
<1>2. CASE Tick
  <2>1. HandlersOK'
    BY <1>2 DEF Tick, TypeInv, HandlersOK, OwnStatement, LocalsRead, Own, Read
  <2>2. TablesOK'
    BY <1>2 DEF Tick, TypeInv, TablesOK, tables
  <2> QED
    BY <2>1, <2>2 DEF TypeInv
<1>3. ASSUME NEW c \in Client, Step(c) PROVE TypeInv'
  BY <1>3, StepTypeInv
<1>4. CASE UNCHANGED vars
  <2>1. HandlersOK'
    BY <1>4 DEF vars, TypeInv, HandlersOK, OwnStatement, LocalsRead, Own, Read
  <2>2. TablesOK'
    BY <1>4 DEF vars, TypeInv, TablesOK
  <2> QED
    BY <2>1, <2>2 DEF TypeInv
<1> QED
  BY <1>1, <1>2, <1>3, <1>4 DEF Next

LEMMA TypeInvariant == Spec => []TypeInv
  BY InitTypeInv, NextTypeInv, PTL DEF Spec

\* For every workload the tables keep the NOT NULL columns of the schema: no
\* handler ever writes an id it has not read, although each statement runs
\* alone and the rows it read before may be gone.
THEOREM TypeCorrect == Spec => []TypeOK
  BY TypeInvariant, TypeInvTypeOK, PTL

-----------------------------------------------------------------------------
(* How one step moves a handler.                                           *)

\* c has read the id of its module and still uses it, or a row it wrote does.
UsesModule(c) ==
  \/ pc[c] \in {"SelectTags", "BeginTx", "CommitTx", "UpsertDraft", "SelectDraft"}
  \/ Committed(c)

OthersUnchanged(c) ==
  /\ req' = req
  /\ \A d \in Client \ {c} : /\ pc'[d] = pc[d]
                             /\ answer'[d] = answer[d]
                             /\ loc'[d] = loc[d]

Moves(c) ==
  /\ OthersUnchanged(c)
  /\ pc[c] = "Done" => pc'[c] = "Done" /\ loc'[c] = loc[c]
  /\ Committed(c) => Committed(c)'
  /\ Committed(c)' => Committed(c) \/ CommitTx(c)
  /\ UsesModule(c)' =>
       \/ UsesModule(c) /\ loc'[c].module_id = loc[c].module_id
       \/ \E m \in ModulesNamed(req[c].name) : loc'[c].module_id = m.id
  /\ \A n : PastTagsStatement(c, n)' => PastTagsStatement(c, n) \/ DeleteModuleTags(c)
  /\ \A t \in Client : TagDeletedBy(c, t) => TagDeletedBy(c, t)'

\* A handler that gives up keeps pc and, but for dep_id, its locals.
LEMMA FailMoves ==
  ASSUME HandlersOK, NEW c \in Client, NEW status \in Status,
         Fail(c, status), answer[c] = "none", status # "none",
         UNCHANGED loc
  PROVE  Moves(c)
<1>1. \A d \in Client \ {c} : answer'[d] = answer[d]
  BY DEF HandlersOK, Fail
<1>2. answer'[c] # "none"
  BY DEF HandlersOK, Fail
<1> QED
  BY <1>1, <1>2 DEF Moves, OthersUnchanged, Fail, Committed, UsesModule,
     PastTagsStatement, TagDeletedBy

LEMMA LocalFrame ==
  ASSUME HandlersOK, NEW c \in Client, NEW l, loc' = [loc EXCEPT ![c] = l]
  PROVE  loc'[c] = l /\ \A d \in Client \ {c} : loc'[d] = loc[d]
  BY DEF HandlersOK

LEMMA GotoMoves ==
  ASSUME HandlersOK, NEW c \in Client, NEW s \in Statement, NEW l,
         Goto(c, s), loc' = [loc EXCEPT ![c] = l], At(c, pc[c]),
         pc[c] # "Done", s # "Done",
         Committed(c) <=> req[c].op = "Push" /\
           s \in {"SelectTagId", "SelectDependencyTag", "InsertDependency"},
         UsesModule(c)' =>
           \/ UsesModule(c) /\ l.module_id = loc[c].module_id
           \/ \E m \in ModulesNamed(req[c].name) : l.module_id = m.id,
         s \in {"DeleteModuleDrafts", "DeleteModuleRow"} =>
           pc[c] = "DeleteModuleDrafts" \/ DeleteModuleTags(c),
         pc[c] \in {"DeleteModuleDrafts", "DeleteModuleRow"} =>
           s = "DeleteModuleRow"
  PROVE  Moves(c)
<1>1. OthersUnchanged(c)
  BY LocalFrame DEF HandlersOK, Goto, OthersUnchanged
<1>2. pc'[c] = s /\ loc'[c] = l /\ answer' = answer /\ req' = req
  BY LocalFrame DEF HandlersOK, Goto
<1> QED
  BY <1>1, <1>2 DEF Moves, Committed, PastTagsStatement, TagDeletedBy, At

LEMMA SucceedMoves ==
  ASSUME HandlersOK, NEW c \in Client, NEW l,
         Succeed(c), loc' = [loc EXCEPT ![c] = l], At(c, pc[c]),
         pc[c] # "Done",
         req[c].op = "Push" => Committed(c) /\ l.module_id = loc[c].module_id
  PROVE  Moves(c)
<1>1. OthersUnchanged(c)
  BY LocalFrame DEF HandlersOK, Succeed, OthersUnchanged
<1>2. pc'[c] = "Done" /\ loc'[c] = l /\ answer'[c] = "ok" /\ req' = req
  BY LocalFrame DEF HandlersOK, Succeed
<1> QED
  BY <1>1, <1>2 DEF Moves, Committed, UsesModule, PastTagsStatement,
     TagDeletedBy, At

LEMMA ValidateMoves ==
  ASSUME HandlersOK, NEW c \in Client, Validate(c) \/ Abort(c)
  PROVE  Moves(c)
<1> DEFINE s == FirstStatement(req[c])
<1>1. CASE Goto(c, s) /\ Validate(c)
  <2>1. req[c].op \in Operation /\ At(c, pc[c]) /\ pc[c] = "Validate"
    BY <1>1 DEF HandlersOK, Request, Validate, At
  <2>2. s \in {"InsertModule", "SelectModule", "SelectTagId", "DeleteModuleFiles",
               "SelectLatestTag"} /\ ~(req[c].op = "Push" /\ s = "SelectTagId")
    BY <2>1 DEF Operation, FirstStatement
  <2>3. loc' = [loc EXCEPT ![c] = loc[c]]
    BY <1>1, SameLocals DEF Validate
  <2>4. s \in Statement
    BY <2>2 DEF Statement
  <2>5. ~Committed(c)
    BY <2>1 DEF Committed
  <2>6. pc'[c] = s /\ req' = req
    BY <1>1 DEF Goto, HandlersOK
  <2>7. ~UsesModule(c)'
    BY <2>2, <2>6 DEF UsesModule, Committed
  <2> HIDE DEF s
  <2> QED
    BY <1>1, <2>1, <2>2, <2>3, <2>4, <2>5, <2>7, GotoMoves
<1>2. CASE Fail(c, "invalid") /\ Validate(c)
  BY <1>2, FailMoves DEF Validate, At, Status
<1>3. CASE Abort(c)
  BY <1>3, FailMoves DEF Abort, Status
<1> QED
  BY <1>1, <1>2, <1>3 DEF Validate

LEMMA SelectModuleMoves ==
  ASSUME TypeInv, NEW c \in Client, SelectModule(c) \/ SelectDraftModule(c)
  PROVE  Moves(c)
<1> USE DEF TypeInv
<1> DEFINE s == IF pc[c] = "SelectModule" THEN AfterSelectModule(req[c].op)
                ELSE "SelectDraft"
<1>1. /\ At(c, pc[c]) /\ pc[c] \in {"SelectModule", "SelectDraftModule"}
      /\ Own(req[c], pc[c])
  BY DEF SelectModule, SelectDraftModule, At, HandlersOK, OwnStatement
<1>2. CASE Fail(c, "module not found") /\ UNCHANGED loc
  BY <1>1, <1>2, FailMoves DEF At, Status
<1>3. ASSUME NEW m \in ModulesNamed(req[c].name),
             loc' = [loc EXCEPT ![c].module_id = m.id], Goto(c, s)
      PROVE  Moves(c)
  <2> DEFINE l == [loc[c] EXCEPT !.module_id = m.id]
  <2>1. s \in {"SelectTags", "UpsertDraft", "SelectTagId", "SelectDraft"}
        /\ ~(req[c].op = "Push" /\ s = "SelectTagId")
    BY <1>1 DEF Own, AfterSelectModule
  <2>2. s \in Statement
    BY <2>1 DEF Statement
  <2>3. l.module_id = m.id
    <3>1. loc[c] \in Locals
      BY DEF HandlersOK
    <3> QED
      BY <3>1 DEF Locals
  <2>4. ~Committed(c)
    BY <1>1 DEF Committed
  <2>5. loc' = [loc EXCEPT ![c] = l]
    BY <1>3
  <2> HIDE DEF s, l
  <2> QED
    BY <1>1, <1>3, <2>1, <2>2, <2>3, <2>4, <2>5, GotoMoves
<1> QED
  BY <1>1, <1>2, <1>3 DEF SelectModule, SelectDraftModule, At

LEMMA PushMoves ==
  ASSUME TypeInv, NEW c \in Client, SelectTags(c) \/ BeginTx(c)
  PROVE  Moves(c)
<1> USE DEF TypeInv
<1>1. /\ At(c, pc[c]) /\ pc[c] \in {"SelectTags", "BeginTx"}
      /\ ~Committed(c) /\ UsesModule(c) /\ loc[c] \in Locals
  BY DEF SelectTags, BeginTx, At, HandlersOK, Committed, UsesModule
<1>2. CASE SelectTags(c)
  <2>1. CASE Fail(c, "tag already exists")
    BY <1>1, <1>2, <2>1, FailMoves DEF SelectTags, At, Status
  <2>2. CASE Goto(c, "BeginTx")
    <3>1. loc' = [loc EXCEPT ![c] = loc[c]]
      BY <1>2, SameLocals DEF SelectTags
    <3> QED
      BY <1>1, <2>2, <3>1, GotoMoves DEF Statement
  <2> QED
    BY <1>2, <2>1, <2>2 DEF SelectTags
<1>3. CASE BeginTx(c)
  <2> DEFINE l == [loc[c] EXCEPT !.began = now]
  <2>1. l.module_id = loc[c].module_id
    BY <1>1 DEF Locals
  <2>2. loc' = [loc EXCEPT ![c] = l] /\ Goto(c, "CommitTx")
    BY <1>3 DEF BeginTx
  <2> HIDE DEF l
  <2> QED
    BY <1>1, <2>1, <2>2, GotoMoves DEF Statement
<1> QED
  BY <1>2, <1>3

LEMMA CommitTxMoves ==
  ASSUME HandlersOK, NEW c \in Client, CommitTx(c)
  PROVE  Moves(c)
<1>1. /\ At(c, pc[c]) /\ pc[c] = "CommitTx" /\ UsesModule(c) /\ ~Committed(c)
      /\ UNCHANGED loc
  BY DEF CommitTx, At, UsesModule, Committed
<1>2. CASE Fail(c, "constraint violated")
  BY <1>1, <1>2, FailMoves DEF At, Status
<1>3. CASE Goto(c, "SelectTagId")
  <2>1. OthersUnchanged(c)
    BY <1>1, <1>3 DEF OthersUnchanged, Goto, HandlersOK
  <2>2. pc'[c] = "SelectTagId" /\ loc' = loc /\ answer' = answer /\ req' = req
    BY <1>1, <1>3 DEF Goto, HandlersOK
  <2> QED
    BY <1>1, <2>1, <2>2 DEF Moves, Committed, PastTagsStatement, TagDeletedBy
<1> QED
  BY <1>2, <1>3 DEF CommitTx

LEMMA SelectTagIdMoves ==
  ASSUME HandlersOK, NEW c \in Client, SelectTagId(c)
  PROVE  Moves(c)
<1> DEFINE s == AfterSelectTagId(req[c])
<1>1. /\ At(c, pc[c]) /\ pc[c] = "SelectTagId" /\ Own(req[c], pc[c])
      /\ loc[c] \in Locals
  BY DEF SelectTagId, At, HandlersOK, OwnStatement
<1>2. req[c].op = "Push" => Committed(c)
  BY <1>1 DEF Committed
<1>3. CASE Fail(c, "tag not found") /\ UNCHANGED loc
  BY <1>1, <1>3, FailMoves DEF At, Status
<1>4. CASE req[c].op = "Pull" /\ Goto(c, "SelectDraftModule") /\ UNCHANGED loc
  <2>1. loc' = [loc EXCEPT ![c] = loc[c]] /\ ~Committed(c)
    BY <1>4, SameLocals DEF Committed
  <2>2. ~UsesModule(c)'
    BY <1>4 DEF UsesModule, Committed, Goto, HandlersOK
  <2> QED
    BY <1>1, <1>4, <2>1, <2>2, GotoMoves DEF Statement
<1>5. ASSUME NEW t \in TagRows(req[c].name, RequestedTag(c)),
             loc' = [loc EXCEPT ![c].tag_id = t.id, ![c].i = 1],
             IF s = "Done" THEN Succeed(c) ELSE Goto(c, s)
      PROVE  Moves(c)
  <2> DEFINE l == [loc[c] EXCEPT !.tag_id = t.id, !.i = 1]
  <2>1. l.module_id = loc[c].module_id
    BY <1>1 DEF Locals
  <2>2. loc' = [loc EXCEPT ![c] = l]
    BY <1>5 DEF HandlersOK
  <2>3. /\ s \in {"Done", "SelectDependencyTag", "SelectFiles", "DeleteFiles",
                  "SelectDeps"}
        /\ req[c].op = "Push" <=> s \in {"Done", "SelectDependencyTag"}
    BY <1>1 DEF AfterSelectTagId, Own
  <2>4. s \in Statement
    BY <2>3 DEF Statement
  <2> HIDE DEF s, l
  <2>5. CASE s = "Done"
    BY <1>1, <1>2, <1>5, <2>1, <2>2, <2>5, SucceedMoves
  <2>6. CASE s # "Done"
    <3>1. Committed(c) <=> req[c].op = "Push" /\ s = "SelectDependencyTag"
      BY <1>2, <2>3, <2>6 DEF Committed
    <3>2. pc'[c] = s /\ req' = req
      BY <1>5, <2>6 DEF Goto, HandlersOK
    <3>3. UsesModule(c)' => UsesModule(c)
      <4>1. UsesModule(c)' => req[c].op = "Push" /\ s = "SelectDependencyTag"
        BY <2>3, <2>6, <3>2 DEF UsesModule, Committed
      <4> QED
        BY <3>1, <4>1 DEF UsesModule
    <3> QED
      BY <1>1, <1>5, <2>1, <2>2, <2>3, <2>4, <2>6, <3>1, <3>3, GotoMoves
  <2> QED
    BY <2>5, <2>6
<1> QED
  BY <1>3, <1>4, <1>5 DEF SelectTagId

LEMMA DependencyMoves ==
  ASSUME HandlersOK, NEW c \in Client,
         SelectDependencyTag(c) \/ InsertDependency(c)
  PROVE  Moves(c)
<1>1. /\ At(c, pc[c]) /\ pc[c] \in {"SelectDependencyTag", "InsertDependency"}
      /\ Own(req[c], pc[c]) /\ loc[c] \in Locals
  BY DEF SelectDependencyTag, InsertDependency, At, HandlersOK, OwnStatement
<1>2. req[c].op = "Push" /\ Committed(c) /\ UsesModule(c)
  BY <1>1 DEF Own, Committed, UsesModule
<1>3. ASSUME NEW status \in {"dependency not found", "constraint violated"},
             Fail(c, status), UNCHANGED loc
      PROVE  Moves(c)
  <2>1. status \in Status /\ status # "none"
    BY DEF Status
  <2> QED
    BY <1>1, <1>3, <2>1, FailMoves DEF At
<1>4. ASSUME NEW x, loc' = [loc EXCEPT ![c].dep_id = x], Goto(c, "InsertDependency")
      PROVE  Moves(c)
  <2> DEFINE l == [loc[c] EXCEPT !.dep_id = x]
  <2>1. l.module_id = loc[c].module_id
    BY <1>1 DEF Locals
  <2>2. loc' = [loc EXCEPT ![c] = l]
    BY <1>4
  <2> HIDE DEF l
  <2> QED
    BY <1>1, <1>2, <1>4, <2>1, <2>2, GotoMoves DEF Statement
<1>5. ASSUME NEW x, loc' = [loc EXCEPT ![c].i = x],
             Goto(c, "SelectDependencyTag") \/ Succeed(c)
      PROVE  Moves(c)
  <2> DEFINE l == [loc[c] EXCEPT !.i = x]
  <2>1. l.module_id = loc[c].module_id
    BY <1>1 DEF Locals
  <2>2. loc' = [loc EXCEPT ![c] = l]
    BY <1>5
  <2> HIDE DEF l
  <2>3. CASE Goto(c, "SelectDependencyTag")
    BY <1>1, <1>2, <2>1, <2>2, <2>3, GotoMoves DEF Statement
  <2>4. CASE Succeed(c)
    BY <1>1, <1>2, <2>1, <2>2, <2>4, SucceedMoves
  <2> QED
    BY <1>5, <2>3, <2>4
<1>6. CASE SelectDependencyTag(c)
  BY <1>3, <1>4, <1>6, Zenon DEF SelectDependencyTag
<1>7. CASE InsertDependency(c)
  BY <1>3, <1>5, <1>7, Zenon DEF InsertDependency
<1> QED
  BY <1>6, <1>7

\* The handlers of the operations that push no stable tag.
LEMMA OtherMoves ==
  ASSUME HandlersOK, NEW c \in Client, NEW l, req[c].op # "Push",
         At(c, pc[c]), pc[c] # "Done", loc' = [loc EXCEPT ![c] = l]
  PROVE  /\ Succeed(c) => Moves(c)
         /\ \A s \in {"SelectTagId", "DeleteDeps", "DeleteTagRow",
                      "DeleteModuleDeps", "DeleteModuleTags", "SelectDeps",
                      "ResolveDep"} :
              pc[c] \notin {"DeleteModuleDrafts", "DeleteModuleRow"}
              /\ Goto(c, s) => Moves(c)
<1>1. ASSUME Succeed(c) PROVE Moves(c)
  BY <1>1, SucceedMoves
<1>2. ASSUME NEW s \in {"SelectTagId", "DeleteDeps", "DeleteTagRow",
                        "DeleteModuleDeps", "DeleteModuleTags", "SelectDeps",
                        "ResolveDep"},
             pc[c] \notin {"DeleteModuleDrafts", "DeleteModuleRow"}, Goto(c, s)
      PROVE  Moves(c)
  <2>1. ~Committed(c) /\ s \in Statement
    BY DEF Committed, Statement
  <2>2. pc'[c] = s /\ req' = req
    BY <1>2 DEF Goto, HandlersOK
  <2>3. ~UsesModule(c)'
    BY <2>2 DEF UsesModule, Committed
  <2> QED
    BY <1>2, <2>1, <2>3, GotoMoves
<1> QED
  BY <1>1, <1>2

LEMMA DeleteMoves ==
  ASSUME HandlersOK, NEW c \in Client,
         \/ InsertModule(c)
         \/ DeleteFiles(c) \/ DeleteDeps(c) \/ DeleteTagRow(c)
         \/ DeleteModuleFiles(c) \/ DeleteModuleDeps(c) \/ DeleteModuleTags(c)
         \/ DeleteModuleDrafts(c) \/ DeleteModuleRow(c)
  PROVE  Moves(c)
<1>0. UNCHANGED loc
  BY DEF InsertModule, DeleteFiles, DeleteDeps, DeleteTagRow, DeleteModuleFiles,
     DeleteModuleDeps, DeleteModuleTags, DeleteModuleDrafts, DeleteModuleRow
<1>1. /\ At(c, pc[c]) /\ Own(req[c], pc[c])
      /\ pc[c] \in {"InsertModule", "DeleteFiles", "DeleteDeps", "DeleteTagRow",
                    "DeleteModuleFiles", "DeleteModuleDeps", "DeleteModuleTags",
                    "DeleteModuleDrafts", "DeleteModuleRow"}
  BY DEF InsertModule, DeleteFiles, DeleteDeps, DeleteTagRow, DeleteModuleFiles,
     DeleteModuleDeps, DeleteModuleTags, DeleteModuleDrafts, DeleteModuleRow,
     At, HandlersOK, OwnStatement
<1>2. req[c].op # "Push" /\ loc' = [loc EXCEPT ![c] = loc[c]]
  BY <1>0, <1>1, SameLocals DEF Own
<1>3. CASE Succeed(c)
  BY <1>1, <1>2, <1>3, OtherMoves
<1>4. ASSUME NEW status \in {"tag not found", "module not found"}, Fail(c, status)
      PROVE  Moves(c)
  <2>1. status \in Status /\ status # "none"
    BY DEF Status
  <2> QED
    BY <1>0, <1>1, <1>4, <2>1, FailMoves DEF At
<1>5. CASE InsertModule(c) \/ DeleteTagRow(c) \/ DeleteModuleRow(c)
  BY <1>3, <1>4, <1>5 DEF InsertModule, DeleteTagRow, DeleteModuleRow
<1>6. CASE \/ DeleteFiles(c) \/ DeleteDeps(c)
           \/ DeleteModuleFiles(c) \/ DeleteModuleDeps(c)
  BY <1>1, <1>2, <1>6, OtherMoves
  DEF DeleteFiles, DeleteDeps, DeleteModuleFiles, DeleteModuleDeps, At
<1>7. ASSUME DeleteModuleTags(c) \/ DeleteModuleDrafts(c) PROVE Moves(c)
  <2>1. PICK s \in {"DeleteModuleDrafts", "DeleteModuleRow"} :
          /\ Goto(c, s)
          /\ s = "DeleteModuleRow" <=> pc[c] = "DeleteModuleDrafts"
          /\ pc[c] \in {"DeleteModuleTags", "DeleteModuleDrafts"}
          /\ s = "DeleteModuleDrafts" => DeleteModuleTags(c)
    BY <1>7 DEF DeleteModuleTags, DeleteModuleDrafts, At
  <2>2. ~Committed(c) /\ s \in Statement
    BY <1>2 DEF Committed, Statement
  <2>3. pc'[c] = s /\ req' = req
    BY <2>1 DEF Goto, HandlersOK
  <2>4. ~UsesModule(c)'
    BY <1>2, <2>3 DEF UsesModule, Committed
  <2> QED
    BY <1>1, <1>2, <2>1, <2>2, <2>4, GotoMoves
<1> QED
  BY <1>5, <1>6, <1>7

LEMMA ReadMoves ==
  ASSUME HandlersOK, NEW c \in Client,
         \/ UpsertDraft(c) \/ SelectFiles(c) \/ SelectDraft(c)
         \/ SelectLatestTag(c) \/ SelectDeps(c) \/ ResolveDep(c)
  PROVE  Moves(c)
<1>1. /\ At(c, pc[c]) /\ Own(req[c], pc[c]) /\ loc[c] \in Locals
      /\ pc[c] \in {"UpsertDraft", "SelectFiles", "SelectDraft",
                    "SelectLatestTag", "SelectDeps", "ResolveDep"}
  BY DEF UpsertDraft, SelectFiles, SelectDraft, SelectLatestTag, SelectDeps,
     ResolveDep, At, HandlersOK, OwnStatement
<1>2. req[c].op # "Push"
  BY <1>1 DEF Own
<1>3. ASSUME NEW l, loc' = [loc EXCEPT ![c] = l],
             Succeed(c) \/ \E s \in {"SelectTagId", "SelectDeps", "ResolveDep"} : Goto(c, s)
      PROVE  Moves(c)
  BY <1>1, <1>2, <1>3, OtherMoves
<1>4. CASE Succeed(c) /\ UNCHANGED loc
  BY <1>3, <1>4, SameLocals
<1>5. CASE Fail(c, "draft tag not found") /\ UNCHANGED loc
  BY <1>1, <1>5, FailMoves DEF At, Status
<1>6. ASSUME NEW x, loc' = [loc EXCEPT ![c].dep_id = x],
             Fail(c, "dependency not found"), pc[c] = "ResolveDep"
      PROVE  Moves(c)
  <2>1. OthersUnchanged(c)
    BY <1>6 DEF OthersUnchanged, Fail, HandlersOK
  <2>2. pc' = pc /\ req' = req
    BY <1>6 DEF Fail
  <2> QED
    BY <1>2, <1>6, <2>1, <2>2
    DEF Moves, Committed, UsesModule, PastTagsStatement, TagDeletedBy
<1>7. CASE UpsertDraft(c) \/ SelectFiles(c)
  BY <1>3, <1>7 DEF UpsertDraft, SelectFiles
<1>8. CASE SelectDraft(c)
  BY <1>3, <1>5, <1>8 DEF SelectDraft
<1>9. CASE SelectLatestTag(c) \/ SelectDeps(c)
  BY <1>3, <1>4, <1>9 DEF SelectLatestTag, SelectDeps
<1>10. CASE ResolveDep(c)
  <2>1. ASSUME NEW x \in loc[c].rows, loc' = [loc EXCEPT ![c].dep_id = x],
               Fail(c, "dependency not found")
        PROVE  Moves(c)
    BY <1>6, <1>10, <2>1 DEF ResolveDep, At
  <2>2. ASSUME NEW x \in loc[c].rows, NEW t \in tags, NEW m \in modules,
               loc' = [loc EXCEPT
                         ![c].rows = @ \ {x},
                         ![c].deps = @ \cup {[name |-> m.name, tag |-> t.tag]}],
               Succeed(c) \/ Goto(c, "ResolveDep")
        PROVE  Moves(c)
    <3> DEFINE l == [loc[c] EXCEPT
                       !.rows = loc[c].rows \ {x},
                       !.deps = loc[c].deps \cup {[name |-> m.name, tag |-> t.tag]}]
    <3>1. loc' = [loc EXCEPT ![c] = l]
      BY <1>1, <2>2 DEF HandlersOK, Locals
    <3> HIDE DEF l
    <3> QED
      BY <1>3, <2>2, <3>1
  <2> QED
    BY <1>10, <2>1, <2>2 DEF ResolveDep
<1> QED
  BY <1>7, <1>8, <1>9, <1>10

LEMMA StepMoves ==
  ASSUME TypeInv, NEW c \in Client, Step(c)
  PROVE  Moves(c)
  BY ValidateMoves, SelectModuleMoves, PushMoves, CommitTxMoves,
     SelectTagIdMoves, DependencyMoves, DeleteMoves, ReadMoves
  DEF Step, TypeInv

-----------------------------------------------------------------------------
(* Where the rows come from.                                               *)

Registered(x, n) ==
  /\ x \in Client
  /\ req[x].op = "Register" /\ req[x].name = n /\ pc[x] = "Done"

\* A module's row was inserted by a handler that registered its name.
ModulesFrom == \A m \in modules : Registered(m.id, m.name)

\* The id a handler uses was that of a module of the requested name.
ModuleUsed ==
  \A c \in Client : UsesModule(c) => Registered(loc[c].module_id, req[c].name)

\* A tag's row is what the push of its id committed.
TagsFrom ==
  \A t \in tags : /\ Committed(t.id)
                  /\ t.tag = req[t.id].tag
                  /\ t.module_id = loc[t.id].module_id

Provenance == ModulesFrom /\ ModuleUsed /\ TagsFrom

\* The statements that write modules, tags or raced.
LEMMA TableWriters ==
  ASSUME TypeInv, NEW c \in Client, Step(c)
  PROVE  \/ UNCHANGED <<modules, tags, raced>>
         \/ InsertModule(c) \/ CommitTx(c) \/ DeleteTagRow(c)
         \/ DeleteModuleTags(c) \/ DeleteModuleRow(c)
<1>1. CASE \/ Validate(c) \/ Abort(c) \/ SelectModule(c) \/ SelectTags(c)
           \/ BeginTx(c) \/ SelectTagId(c) \/ SelectDependencyTag(c)
           \/ SelectFiles(c) \/ SelectDraftModule(c) \/ SelectDraft(c)
           \/ SelectLatestTag(c) \/ SelectDeps(c) \/ ResolveDep(c)
  BY <1>1, ReadTables DEF tables
<1>2. CASE InsertDependency(c)
  BY <1>2, Zenon DEF InsertDependency
<1>3. CASE \/ UpsertDraft(c) \/ DeleteFiles(c) \/ DeleteDeps(c)
           \/ DeleteModuleFiles(c) \/ DeleteModuleDeps(c) \/ DeleteModuleDrafts(c)
  BY <1>3 DEF UpsertDraft, DeleteFiles, DeleteDeps, DeleteModuleFiles,
     DeleteModuleDeps, DeleteModuleDrafts
<1> QED
  BY <1>1, <1>2, <1>3 DEF Step

LEMMA RegisteredStays ==
  ASSUME NEW c \in Client, Moves(c), NEW x, NEW n, Registered(x, n)
  PROVE  Registered(x, n)'
  BY DEF Registered, Moves, OthersUnchanged

LEMMA CommittedStays ==
  ASSUME NEW c \in Client, Moves(c), NEW p \in Client, Committed(p)
  PROVE  Committed(p)'
  BY DEF Committed, Moves, OthersUnchanged

\* A push keeps its module's id once it has committed.
LEMMA CommittedModule ==
  ASSUME TypeInv, NEW c \in Client, Step(c), NEW p \in Client,
         Committed(p) \/ Committed(p)'
  PROVE  loc'[p].module_id = loc[p].module_id
<1>1. Moves(c)
  BY StepMoves
<1>2. CASE p # c
  BY <1>1, <1>2 DEF Moves, OthersUnchanged
<1>3. CASE p = c
  <2>1. CASE CommitTx(c)
    BY <1>3, <2>1 DEF CommitTx
  <2>2. CASE ~CommitTx(c)
    <3>1. Committed(c) /\ Committed(c)'
      BY <1>1, <1>3, <2>2 DEF Moves
    <3>2. ~SelectModule(c) /\ ~SelectDraftModule(c)
      BY <3>1 DEF Committed, SelectModule, SelectDraftModule, At
    <3>3. loc[c] \in Locals /\ Own(req[c], pc[c])
      BY DEF TypeInv, HandlersOK, OwnStatement
    <3>4. CASE Validate(c) \/ Abort(c)
      BY <1>3, <3>4 DEF Validate, Abort
    <3>5. CASE SelectTagId(c)
      BY <1>3, <3>3, <3>5 DEF SelectTagId, TypeInv, HandlersOK, Locals
    <3>6. CASE SelectDependencyTag(c)
      BY <1>3, <3>3, <3>6 DEF SelectDependencyTag, TypeInv, HandlersOK, Locals
    <3>7. CASE InsertDependency(c)
      BY <1>3, <3>3, <3>7 DEF InsertDependency, TypeInv, HandlersOK, Locals
    <3>8. pc[c] \in {"SelectTagId", "SelectDependencyTag", "InsertDependency", "Done"}
      BY <3>1 DEF Committed
    <3> QED
      BY <3>4, <3>5, <3>6, <3>7, <3>8
      DEF Step, At, InsertModule, SelectModule, SelectTags, BeginTx, CommitTx,
          UpsertDraft, SelectFiles, SelectDraftModule, SelectDraft, DeleteFiles,
          DeleteDeps, DeleteTagRow, DeleteModuleFiles, DeleteModuleDeps,
          DeleteModuleTags, DeleteModuleDrafts, DeleteModuleRow,
          SelectLatestTag, SelectDeps, ResolveDep
  <2> QED
    BY <2>1, <2>2
<1> QED
  BY <1>2, <1>3

LEMMA StepProvenance ==
  ASSUME TypeInv, Provenance, NEW c \in Client, Step(c)
  PROVE  Provenance'
<1>0. Moves(c) /\ req' = req
  BY StepMoves DEF Moves, OthersUnchanged
<1>1. ModulesFrom'
  <2>1. CASE modules' \subseteq modules
    BY <1>0, <2>1, RegisteredStays DEF Provenance, ModulesFrom
  <2>2. CASE InsertModule(c)
    <3>1. /\ req[c].op = "Register" /\ pc'[c] = "Done"
          /\ modules' \subseteq modules \cup {[id |-> c, name |-> req[c].name]}
      BY <2>2 DEF InsertModule, At, Succeed, TypeInv, HandlersOK, OwnStatement, Own
    <3>2. Registered(c, req[c].name)'
      BY <1>0, <3>1 DEF Registered
    <3> QED
      BY <1>0, <3>1, <3>2, RegisteredStays DEF Provenance, ModulesFrom
  <2> QED
    BY <2>1, <2>2, TableWriters
    DEF CommitTx, DeleteTagRow, DeleteModuleTags, DeleteModuleRow, tables
<1>2. ModuleUsed'
  <2> SUFFICES ASSUME NEW d \in Client, UsesModule(d)'
               PROVE  Registered(loc[d].module_id, req[d].name)'
    BY DEF ModuleUsed
  <2>1. CASE UsesModule(d) /\ loc'[d].module_id = loc[d].module_id
    <3>1. Registered(loc[d].module_id, req[d].name)
      BY <2>1 DEF Provenance, ModuleUsed
    <3> QED
      BY <1>0, <2>1, <3>1, RegisteredStays DEF Registered
  <2>2. ASSUME d = c, NEW m \in ModulesNamed(req[c].name), loc'[c].module_id = m.id
        PROVE  Registered(loc[d].module_id, req[d].name)'
    <3>1. Registered(m.id, req[c].name)
      BY DEF Provenance, ModulesFrom, ModulesNamed
    <3> QED
      BY <1>0, <2>2, <3>1, RegisteredStays DEF Registered
  <2>3. d # c => UsesModule(d) /\ loc'[d].module_id = loc[d].module_id
    BY <1>0 DEF Moves, OthersUnchanged, UsesModule, Committed
  <2> QED
    BY <1>0, <2>1, <2>2, <2>3 DEF Moves
<1>3. TagsFrom'
  <2>1. ASSUME NEW t \in tags PROVE (/\ Committed(t.id)
                                     /\ t.tag = req[t.id].tag
                                     /\ t.module_id = loc[t.id].module_id)'
    <3>1. t.id \in Client
      BY DEF TypeInv, TablesOK
    <3>2. /\ Committed(t.id) /\ t.tag = req[t.id].tag
          /\ t.module_id = loc[t.id].module_id
      BY DEF Provenance, TagsFrom
    <3> QED
      BY <1>0, <3>1, <3>2, CommittedStays, CommittedModule
  <2>2. CASE tags' \subseteq tags
    BY <2>1, <2>2 DEF TagsFrom
  <2>3. ASSUME CommitTx(c), ~(tags' \subseteq tags) PROVE TagsFrom'
    <3>1. tags' = tags \cup {[id |-> c, module_id |-> loc[c].module_id,
                              tag |-> req[c].tag, updated_at |-> loc[c].began]}
          /\ Goto(c, "SelectTagId") /\ UNCHANGED loc
      BY <2>3 DEF CommitTx, tables
    <3>2. Committed(c)'
      BY <2>3, <3>1 DEF Committed, CommitTx, Goto, At, TypeInv, HandlersOK,
         OwnStatement, Own
    <3> QED
      BY <1>0, <2>1, <3>1, <3>2 DEF TagsFrom
  <2> QED
    BY <2>2, <2>3, TableWriters
    DEF InsertModule, DeleteTagRow, DeleteModuleTags, DeleteModuleRow
<1> QED
  BY <1>1, <1>2, <1>3 DEF Provenance

-----------------------------------------------------------------------------
(* DeleteModule leaves no tag behind, unless a push raced it.              *)

\* A tag that did not race has its module, and no DeleteModule of its name is
\* past its DELETE FROM tags.
NotRacedIsSafe ==
  \A t \in tags : t.id \notin raced =>
    /\ \E m \in modules : m.id = t.module_id
    /\ \A d \in Client : ~PastTagsStatement(d, req[t.id].name)

LEMMA StepNotRaced ==
  ASSUME TypeInv, Provenance, NotRacedIsSafe, NEW c \in Client, Step(c)
  PROVE  NotRacedIsSafe'
<1>0. Moves(c) /\ req' = req
  BY StepMoves DEF Moves, OthersUnchanged
<1>1. ASSUME NEW d \in Client, NEW n, PastTagsStatement(d, n)',
             ~DeleteModuleTags(c)
      PROVE  PastTagsStatement(d, n)
  <2>1. CASE d = c
    BY <1>0, <1>1, <2>1 DEF Moves
  <2>2. CASE d # c
    BY <1>0, <1>1, <2>2 DEF Moves, OthersUnchanged, PastTagsStatement
  <2> QED
    BY <2>1, <2>2
\* The module a tag refers to has the name its push asked for.
<1>2. ASSUME NEW t \in tags, NEW m \in modules, m.id = t.module_id
      PROVE  m.name = req[t.id].name /\ t.id \in Client
  <2>1. t.id \in Client /\ Committed(t.id) /\ t.module_id = loc[t.id].module_id
    BY DEF TypeInv, TablesOK, Provenance, TagsFrom
  <2>2. req[t.module_id].name = req[t.id].name
    BY <2>1 DEF Provenance, ModuleUsed, UsesModule, Registered
  <2>3. req[m.id].name = m.name
    BY DEF Provenance, ModulesFrom, Registered
  <2> QED
    BY <1>2, <2>1, <2>2, <2>3
<1>3. ASSUME ~DeleteModuleTags(c),
             UNCHANGED <<modules, tags, raced>> \/ InsertModule(c) \/ DeleteTagRow(c)
      PROVE  NotRacedIsSafe'
  <2>1. modules \subseteq modules' /\ tags' \subseteq tags /\ raced' = raced
    BY <1>3 DEF InsertModule, DeleteTagRow
  <2> QED
    BY <1>0, <1>1, <1>3, <2>1 DEF NotRacedIsSafe
<1>4. ASSUME CommitTx(c) PROVE NotRacedIsSafe'
  <2>1. ~DeleteModuleTags(c) /\ modules' = modules /\ raced \subseteq raced'
    BY <1>4 DEF CommitTx, DeleteModuleTags, At, tables
  <2>2. ASSUME NEW t \in tags', t.id \notin raced', t \notin tags
        PROVE  ~CommitsTooLate(c) /\ t.id = c /\ t.module_id = loc[c].module_id
    <3>1. /\ tags' = tags \cup {[id |-> c, module_id |-> loc[c].module_id,
                                 tag |-> req[c].tag, updated_at |-> loc[c].began]}
          /\ raced' = IF CommitsTooLate(c) THEN raced \cup {c} ELSE raced
      BY <1>4, <2>2 DEF CommitTx, tables
    <3>2. t.id = c /\ t.module_id = loc[c].module_id
      BY <2>2, <3>1
    <3> QED
      BY <2>2, <3>1, <3>2
  <2> QED
    BY <1>0, <1>1, <2>1, <2>2 DEF NotRacedIsSafe, CommitsTooLate
<1>5. ASSUME DeleteModuleTags(c) PROVE NotRacedIsSafe'
  <2> SUFFICES ASSUME NEW t \in tags', t.id \notin raced'
               PROVE  /\ \E m \in modules' : m.id = t.module_id
                      /\ \A d \in Client : ~PastTagsStatement(d, req[t.id].name)'
    BY <1>0 DEF NotRacedIsSafe
  <2>1. /\ t \in tags /\ t \notin TagsOfName(req[c].name) /\ t.id \notin raced
        /\ modules' = modules
    BY <1>5 DEF DeleteModuleTags
  <2>2. PICK m \in modules : m.id = t.module_id
    BY <2>1 DEF NotRacedIsSafe
  <2>3. req[t.id].name # req[c].name
    BY <1>2, <2>1, <2>2 DEF TagsOfName, ModulesNamed
  <2>4. ASSUME NEW d \in Client, PastTagsStatement(d, req[t.id].name)'
        PROVE  FALSE
    <3>1. d # c
      BY <1>0, <2>3, <2>4 DEF PastTagsStatement
    <3>2. PastTagsStatement(d, req[t.id].name)
      BY <1>0, <2>4, <3>1 DEF PastTagsStatement, Moves, OthersUnchanged
    <3> QED
      BY <2>1, <3>2 DEF NotRacedIsSafe
  <2> QED
    BY <2>1, <2>2, <2>4
<1>6. ASSUME DeleteModuleRow(c) PROVE NotRacedIsSafe'
  <2>1. ~DeleteModuleTags(c) /\ tags' = tags /\ raced' = raced
        /\ modules' = modules \ ModulesNamed(req[c].name)
    BY <1>6 DEF DeleteModuleRow, DeleteModuleTags, At
  <2>2. PastTagsStatement(c, req[c].name)
    BY <1>6 DEF DeleteModuleRow, At, PastTagsStatement, TypeInv, HandlersOK,
       OwnStatement, Own
  <2>3. ASSUME NEW t \in tags, t.id \notin raced
        PROVE  \E m \in modules' : m.id = t.module_id
    <3>1. PICK m \in modules : m.id = t.module_id
      BY <2>3 DEF NotRacedIsSafe
    <3>2. req[t.id].name # req[c].name
      BY <2>2, <2>3 DEF NotRacedIsSafe
    <3> QED
      BY <1>2, <2>1, <3>1, <3>2 DEF ModulesNamed
  <2> QED
    BY <1>0, <1>1, <2>1, <2>3 DEF NotRacedIsSafe
<1> QED
  BY <1>3, <1>4, <1>5, <1>6, TableWriters

-----------------------------------------------------------------------------
(* Two pushes of one tag.                                                  *)

\* The unique index on (module_id, tag).
UniqueTags ==
  \A t, u \in tags : t.module_id = u.module_id /\ t.tag = u.tag => t.id = u.id

\* The row of a push that committed is there until a delete takes it.
KeptOrDeleted ==
  \A p \in Client : Committed(p) =>
    \/ \E t \in tags : t.id = p
    \/ \E d \in Client : TagDeletedBy(d, p)

LEMMA StepUniqueTags ==
  ASSUME TypeInv, UniqueTags, NEW c \in Client, Step(c)
  PROVE  UniqueTags'
<1>1. CASE tags' \subseteq tags
  BY <1>1 DEF UniqueTags
<1>2. ASSUME CommitTx(c), ~(tags' \subseteq tags) PROVE UniqueTags'
  <2>1. /\ ~Conflicts(c)
        /\ tags' = tags \cup {[id |-> c, module_id |-> loc[c].module_id,
                               tag |-> req[c].tag, updated_at |-> loc[c].began]}
    BY <1>2 DEF CommitTx, tables
  <2> QED
    BY <2>1 DEF UniqueTags, Conflicts
<1> QED
  BY <1>1, <1>2, TableWriters
  DEF InsertModule, DeleteTagRow, DeleteModuleTags, DeleteModuleRow

LEMMA StepKeptOrDeleted ==
  ASSUME TypeInv, Provenance, KeptOrDeleted, NEW c \in Client, Step(c)
  PROVE  KeptOrDeleted'
<1>0. Moves(c) /\ req' = req
  BY StepMoves DEF Moves, OthersUnchanged
<1>1. ASSUME NEW d \in Client, NEW p \in Client, TagDeletedBy(d, p)
      PROVE  TagDeletedBy(d, p)'
  <2>1. CASE d = c
    BY <1>0, <2>1, <1>1 DEF Moves
  <2>2. CASE d # c
    BY <1>0, <1>1, <2>2 DEF Moves, OthersUnchanged, TagDeletedBy
  <2> QED
    BY <2>1, <2>2
<1> SUFFICES ASSUME NEW p \in Client, Committed(p)'
             PROVE  \/ \E t \in tags' : t.id = p
                    \/ \E d \in Client : TagDeletedBy(d, p)'
  BY DEF KeptOrDeleted
<1>2. CASE p = c /\ CommitTx(c) /\ ~Committed(c)
  <2>1. pc'[c] # pc[c]
    BY <1>0, <1>2 DEF Committed
  <2> DEFINE row == [id |-> c, module_id |-> loc[c].module_id,
                     tag |-> req[c].tag, updated_at |-> loc[c].began]
  <2>2. row \in tags' /\ row.id = c
    BY <1>2, <2>1 DEF CommitTx, Fail
  <2> HIDE DEF row
  <2>3. \E t \in tags' : t.id = c
    BY <2>2
  <2> QED
    BY <1>2, <2>3
<1>3. CASE Committed(p)
  <2>1. CASE \E d \in Client : TagDeletedBy(d, p)
    BY <1>1, <2>1
  <2>2. ASSUME NEW t \in tags, t.id = p, t \notin tags'
        PROVE  TagDeletedBy(c, p)'
    <3>1. CASE DeleteTagRow(c)
      <4>1. loc[c].tag_id = p /\ loc' = loc /\ req[c].op = "DeleteTag"
        BY <2>2, <3>1 DEF DeleteTagRow, TypeInv, HandlersOK, OwnStatement, Own, At
      <4>2. pc'[c] = "Done"
        BY <2>2, <3>1 DEF DeleteTagRow, Succeed, TypeInv, HandlersOK
      <4> QED
        BY <1>0, <4>1, <4>2 DEF TagDeletedBy
    <3>2. CASE DeleteModuleTags(c)
      <4>1. PICK m \in modules : m.name = req[c].name /\ m.id = t.module_id
        BY <2>2, <3>2 DEF DeleteModuleTags, TagsOfName, ModulesNamed
      <4>2. t.module_id = loc[p].module_id /\ UsesModule(p)
        BY <1>3, <2>2 DEF Provenance, TagsFrom, UsesModule
      <4>3. req[p].name = req[t.module_id].name
        BY <4>2 DEF Provenance, ModuleUsed, Registered
      <4>4. req[m.id].name = m.name
        BY DEF Provenance, ModulesFrom, Registered
      <4>5. pc'[c] = "DeleteModuleDrafts" /\ req[c].op = "DeleteModule"
        BY <3>2 DEF DeleteModuleTags, Goto, At, TypeInv, HandlersOK, OwnStatement, Own
      <4> QED
        BY <1>0, <4>1, <4>3, <4>4, <4>5 DEF TagDeletedBy
    <3> QED
      BY <2>2, <3>1, <3>2, TableWriters
      DEF InsertModule, CommitTx, DeleteModuleRow, tables
  <2>3. CASE \E t \in tags : t.id = p
    <3>1. PICK t \in tags : t.id = p
      BY <2>3
    <3>2. CASE t \in tags'
      BY <3>1, <3>2
    <3>3. CASE t \notin tags'
      BY <2>2, <3>1, <3>3
    <3> QED
      BY <3>2, <3>3
  <2>4. \/ \E t \in tags : t.id = p
        \/ \E d \in Client : TagDeletedBy(d, p)
    BY <1>3 DEF KeptOrDeleted
  <2> QED
    BY <2>1, <2>3, <2>4
<1> QED
  <2>1. p # c => Committed(p)
    BY <1>0 DEF Moves, OthersUnchanged, Committed
  <2>2. p = c => Committed(c) \/ CommitTx(c)
    BY <1>0 DEF Moves
  <2> QED
    BY <1>2, <1>3, <2>1, <2>2

-----------------------------------------------------------------------------

SafetyInv == /\ TypeInv /\ Provenance
             /\ NotRacedIsSafe /\ UniqueTags /\ KeptOrDeleted

LEMMA InitSafetyInv == Init => SafetyInv
<1> SUFFICES ASSUME Init PROVE SafetyInv
  OBVIOUS
<1>1. Provenance
  BY DEF Init, Provenance, ModulesFrom, ModuleUsed, TagsFrom, UsesModule, Committed
<1>2. NotRacedIsSafe /\ UniqueTags /\ KeptOrDeleted
  BY DEF Init, NotRacedIsSafe, UniqueTags, KeptOrDeleted, Committed
<1> QED
  BY <1>1, <1>2, InitTypeInv DEF SafetyInv

\* Nothing but now and draft_tags changes.
LEMMA QuietSafetyInv ==
  ASSUME SafetyInv, TypeInv',
         UNCHANGED <<modules, tags, req, pc, answer, loc, raced>>
  PROVE  SafetyInv'
<1>1. Provenance'
  BY DEF SafetyInv, Provenance, ModulesFrom, ModuleUsed, TagsFrom, UsesModule,
     Committed, Registered
<1>2. NotRacedIsSafe'
  BY DEF SafetyInv, NotRacedIsSafe, PastTagsStatement
<1>3. UniqueTags' /\ KeptOrDeleted'
  BY DEF SafetyInv, UniqueTags, KeptOrDeleted, Committed, TagDeletedBy
<1> QED
  BY <1>1, <1>2, <1>3 DEF SafetyInv

LEMMA NextSafetyInv == SafetyInv /\ [Next]_vars => SafetyInv'
<1> SUFFICES ASSUME SafetyInv, [Next]_vars PROVE SafetyInv'
  OBVIOUS
<1>0. TypeInv'
  BY NextTypeInv DEF SafetyInv
<1>1. CASE Compact \/ Tick \/ UNCHANGED vars
  BY <1>0, <1>1, QuietSafetyInv DEF Compact, Tick, vars, tables
<1>2. ASSUME NEW c \in Client, Step(c) PROVE SafetyInv'
  BY <1>0, <1>2, StepProvenance, StepNotRaced, StepUniqueTags, StepKeptOrDeleted
  DEF SafetyInv
<1> QED
  BY <1>1, <1>2 DEF Next

LEMMA SafetyInvariant == Spec => []SafetyInv
  BY InitSafetyInv, NextSafetyInv, PTL DEF Spec

\* For every workload a DeleteModule, also one that is cut off between two of
\* its statements, leaves a tag without its module only if the tag's push
\* committed after DELETE FROM tags of the name or after the module had gone.
THEOREM OrphansOnlyFromRaces == Spec => []OrphansWereRaced
<1>1. SafetyInv => OrphansWereRaced
  BY DEF SafetyInv, NotRacedIsSafe, OrphansWereRaced
<1> QED
  BY <1>1, SafetyInvariant, PTL

\* For every workload and every ListLimit, two pushes of one tag to one module
\* both commit only if a delete removed the tag of one of them.
THEOREM OnePushPerTag == Spec => []AcceptedTwiceOnlyAfterDelete
<1>1. SafetyInv => AcceptedTwiceOnlyAfterDelete
  <2> SUFFICES ASSUME SafetyInv, NEW p \in Client, NEW q \in Client,
                      p # q, Committed(p), Committed(q),
                      req[p].tag = req[q].tag,
                      loc[p].module_id = loc[q].module_id,
                      \A d \in Client : ~TagDeletedBy(d, p) /\ ~TagDeletedBy(d, q)
               PROVE  FALSE
    BY DEF AcceptedTwiceOnlyAfterDelete
  <2>1. PICK t \in tags : t.id = p
    BY DEF SafetyInv, KeptOrDeleted
  <2>2. PICK u \in tags : u.id = q
    BY DEF SafetyInv, KeptOrDeleted
  <2>3. t.module_id = u.module_id /\ t.tag = u.tag
    BY <2>1, <2>2 DEF SafetyInv, Provenance, TagsFrom
  <2> QED
    BY <2>1, <2>2, <2>3 DEF SafetyInv, UniqueTags
<1> QED
  BY <1>1, SafetyInvariant, PTL
=============================================================================
