--------------------------- MODULE QueriesProofs ----------------------------
(***************************************************************************)
(* What the queries of Queries answer, for every set of handlers, every    *)
(* workload and every query, while the handlers of Registry and the        *)
(* proto-parsing daemon run between their statements.                      *)
(***************************************************************************)
EXTENDS Queries, RegistryAnswers, FiniteSetTheorems, SequenceTheorems,
        WellFoundedInduction

(* The handlers go on as in Registry.                                      *)

QueryVars == <<vars, qvars>>

LEMMA QuerySpecSpec == QuerySpec => Spec
<1>1. QueryInit => Init
  BY DEF QueryInit
<1>2. [QueryNext]_QueryVars => [Next]_vars
  BY DEF QueryNext, QueryVars, RegistryStep, QueryStep, DaemonStep
<1> QED
  BY <1>1, <1>2, PTL DEF QuerySpec, Spec, QueryVars

LEMMA QueryAnswersInv == QuerySpec => []AnswersInv
  BY QuerySpecSpec, AnswersInvariant, PTL

\* What has happened stays so, whoever takes the step.
LEMMA HistoryKept ==
  ASSUME AnswersInv, [Next]_vars
  PROVE  /\ req' = req
         /\ \A x, n : Registered(x, n) => Registered(x, n)'
         /\ \A p \in Client : Committed(p) => Committed(p)'
         /\ \A d \in Client : \A t :
              /\ FilesDeletedBy(d, t) => FilesDeletedBy(d, t)'
              /\ TagDeletedBy(d, t) => TagDeletedBy(d, t)'
<1>1. CASE Compact \/ Tick \/ UNCHANGED vars
  <2>1. req' = req /\ pc' = pc /\ loc' = loc
    BY <1>1 DEF Compact, Tick, vars
  <2> QED
    BY <2>1 DEF Registered, Committed, FilesDeletedBy, TagDeletedBy
<1>2. ASSUME NEW c \in Client, Step(c)
      PROVE  /\ req' = req
             /\ \A x, n : Registered(x, n) => Registered(x, n)'
             /\ \A p \in Client : Committed(p) => Committed(p)'
             /\ \A d \in Client : \A t :
                  /\ FilesDeletedBy(d, t) => FilesDeletedBy(d, t)'
                  /\ TagDeletedBy(d, t) => TagDeletedBy(d, t)'
  BY <1>2, HistoryGrows DEF AnswersInv, SafetyInv
<1> QED
  BY <1>1, <1>2 DEF Next

-----------------------------------------------------------------------------
(* The unique index on the names of modules.                               *)

UniqueNames == \A m, n \in modules : m.name = n.name => m = n

LEMMA NextUniqueNames ==
  ASSUME AnswersInv, UniqueNames, [Next]_vars
  PROVE  UniqueNames'
<1>1. CASE Compact \/ Tick \/ UNCHANGED vars
  BY <1>1 DEF Compact, Tick, vars, tables, UniqueNames
<1>2. ASSUME NEW c \in Client, Step(c) PROVE UniqueNames'
  <2>1. CASE InsertModule(c)
    BY <2>1 DEF InsertModule, ModulesNamed, UniqueNames
  <2>2. CASE modules' \subseteq modules
    BY <2>2 DEF UniqueNames
  <2>3. \/ UNCHANGED <<modules, tags, raced>>
        \/ InsertModule(c) \/ CommitTx(c) \/ DeleteTagRow(c)
        \/ DeleteModuleTags(c) \/ DeleteModuleRow(c)
    BY <1>2, TableWriters DEF AnswersInv, SafetyInv
  <2>4. CASE CommitTx(c)
    BY <2>2, <2>4 DEF CommitTx, tables
  <2> QED
    BY <2>1, <2>2, <2>3, <2>4 DEF DeleteTagRow, DeleteModuleTags, DeleteModuleRow
<1> QED
  BY <1>1, <1>2 DEF Next

-----------------------------------------------------------------------------
(* The local variables of a query, and which query executes a statement.   *)

Shaped ==
  q = [module_id |-> q.module_id, tag |-> q.tag, tag_id |-> q.tag_id,
       files |-> q.files, cur |-> q.cur, direct |-> q.direct, rows |-> q.rows,
       deps |-> q.deps, queue |-> q.queue, visited |-> q.visited,
       result |-> q.result, rounds |-> q.rounds, token |-> q.token,
       pages |-> q.pages]

\* A query is at a statement of its own.
OwnQuery ==
  /\ ask \in Query /\ req \in Workload
  /\ ask.op = "GetModule" => ask.tag = ""
  /\ at \in {"GetModule", "GetTags"} => ask.op = "GetModule"
  /\ at \in {"GetMetadata", "GetTagMeta"} => ask.op \in {"GetModule", "GetMetadata"}
  /\ at = "GetParsed" => ask.op = "GetMetadata"
  /\ at \in {"GetTransitive", "DepsTagId", "DepsRows", "DepsResolve"} =>
       ask.op = "GetTransitive"
  /\ at = "ListModules" => ask.op = "ListModules"
  /\ reply = "none" <=> at # "Done"
  /\ reply = "packages" => ask.op \in {"GetModule", "GetMetadata"}
  /\ ask.op # "GetTransitive" => q.direct

\* The search continues with the queue Q, having visited V and found R.
Continues(Q, V, R) ==
  /\ Shaped'
  /\ q'.visited = V /\ q'.result = R /\ q'.deps = {}
  /\ q'.tag = q.tag /\ q'.tag_id = q.tag_id /\ q'.rows = q.rows
  /\ q'.token = q.token /\ q'.pages = q.pages
  /\ \/ /\ Q = {} /\ q'.queue = {} /\ q'.cur = q.cur
        /\ q'.direct <=> q.direct
        /\ q'.rounds = q.rounds
        /\ at' = "Done" /\ reply' = "ok"
     \/ \E k \in Q : /\ q'.cur = k /\ q'.queue = Q \ {k} /\ ~q'.direct
                     /\ q'.rounds = q.rounds + 1
                     /\ at' = "DepsTagId" /\ reply' = reply

LEMMA ContinueContinues ==
  ASSUME Shaped, NEW Q, NEW V, NEW R,
         Continue(Q, [q EXCEPT !.visited = V, !.result = R, !.deps = {}])
  PROVE  Continues(Q, V, R)
<1>1. PICK rest : rest = [q EXCEPT !.visited = V, !.result = R, !.deps = {}]
  OBVIOUS
<1>2. CASE Q = {} /\ q' = [rest EXCEPT !.queue = {}] /\ Answer("ok")
  BY <1>1, <1>2 DEF Continues, Shaped, Answer
<1>3. ASSUME NEW k \in Q, Then("DepsTagId"),
             q' = [rest EXCEPT !.cur = k, !.queue = Q \ {k}, !.direct = FALSE,
                               !.rounds = @ + 1]
      PROVE  Continues(Q, V, R)
  BY <1>1, <1>3 DEF Continues, Shaped, Then
<1> QED
  BY <1>1, <1>2, <1>3 DEF Continue

LEMMA ExpandContinues ==
  ASSUME Shaped, NEW deps, Expand(deps)
  PROVE  IF q.direct
         THEN Continues(deps, {Key(ask.name, ask.tag)} \cup deps, deps)
         ELSE Continues(q.queue \cup (deps \ q.visited), q.visited \cup deps,
                        q.result \cup (deps \ q.visited))
<1>1. CASE q.direct
  <2>1. Continue(deps, [q EXCEPT !.visited = {Key(ask.name, ask.tag)} \cup deps,
                                 !.result = deps, !.deps = {}])
    BY <1>1 DEF Expand
  <2> QED
    BY <1>1, <2>1, ContinueContinues
<1>2. CASE ~q.direct
  <2>1. Continue(q.queue \cup (deps \ q.visited),
                 [q EXCEPT !.visited = q.visited \cup deps, !.deps = {},
                           !.result = q.result \cup (deps \ q.visited)])
    BY <1>2 DEF Expand, Unvisited
  <2>2. [q EXCEPT !.visited = q.visited \cup deps, !.deps = {},
                  !.result = q.result \cup (deps \ q.visited)]
        = [q EXCEPT !.visited = q.visited \cup deps,
                    !.result = q.result \cup (deps \ q.visited), !.deps = {}]
    BY DEF Shaped
  <2> QED
    BY <1>2, <2>1, <2>2, ContinueContinues
<1> QED
  BY <1>1, <1>2

LEMMA ExpandFailsContinues ==
  ASSUME Shaped, NEW status, ExpandFails(status)
  PROVE  IF q.direct
         THEN q' = q /\ at' = "Done" /\ reply' = status
         ELSE Continues(q.queue, q.visited, q.result)
<1>1. CASE q.direct
  BY <1>1 DEF ExpandFails, Answer
<1>2. CASE ~q.direct
  <2>1. Continue(q.queue, [q EXCEPT !.deps = {}])
    BY <1>2 DEF ExpandFails
  <2>2. [q EXCEPT !.deps = {}]
        = [q EXCEPT !.visited = q.visited, !.result = q.result, !.deps = {}]
    BY DEF Shaped
  <2> QED
    BY <1>2, <2>1, <2>2, ContinueContinues
<1> QED
  BY <1>1, <1>2

ControlInv == Shaped /\ OwnQuery

LEMMA InitControlInv == QueryInit => ControlInv
<1> SUFFICES ASSUME QueryInit PROVE ControlInv
  OBVIOUS
<1>1. Shaped
  BY DEF QueryInit, InitQuery, Shaped
<1>2. PICK s \in Scenarios : s[1] = req /\ ask = s[2]
  BY DEF QueryInit
<1>3. /\ ask \in Query /\ req \in Workload
      /\ ask.op = "GetModule" => ask.tag = ""
  BY <1>2, ScenariosAssumption
<1>4. ask.op \in {"None", "GetModule", "GetMetadata", "GetTransitive", "ListModules"}
  BY <1>3 DEF Query
<1>5. OwnQuery
  BY <1>3, <1>4 DEF QueryInit, InitQuery, OwnQuery
<1> QED
  BY <1>1, <1>5 DEF ControlInv

\* A query is answered, or it goes on with a statement of its own.
LEMMA QueryStepControl ==
  ASSUME ControlInv, QueryStep
  PROVE  ControlInv'
<1>0. /\ Shaped /\ OwnQuery /\ ask' = ask /\ req' = req
  BY DEF ControlInv, QueryStep, vars
<1>1. ASSUME Shaped', ask.op # "GetTransitive" => q'.direct,
                      \/ /\ at' = "Done" /\ reply' # "none"
                         /\ \/ reply' # "packages"
                            \/ ask.op \in {"GetModule", "GetMetadata"}
                      \/ at' = "GetTags" /\ ask.op = "GetModule" /\ reply' = "none"
                      \/ at' \in {"GetMetadata", "GetTagMeta"} /\ reply' = "none"
                         /\ ask.op \in {"GetModule", "GetMetadata"}
                      \/ at' = "GetParsed" /\ ask.op = "GetMetadata" /\ reply' = "none"
                      \/ at' \in {"DepsTagId", "DepsRows", "DepsResolve"}
                         /\ ask.op = "GetTransitive" /\ reply' = "none"
                      \/ at' = "ListModules" /\ ask.op = "ListModules"
                         /\ reply' = "none"
      PROVE  ControlInv'
  BY <1>0, <1>1 DEF ControlInv, OwnQuery
<1>2. CASE GetModuleRow
  BY <1>0, <1>1, <1>2 DEF GetModuleRow, Asks, Then, Answer, OwnQuery, Shaped
<1>3. CASE GetTags
  BY <1>0, <1>1, <1>3 DEF GetTags, Asks, Then, Answer, OwnQuery, Shaped
<1>4. CASE GetTagId
  BY <1>0, <1>1, <1>4 DEF GetTagId, Asks, Then, Answer, OwnQuery, Shaped
<1>5. CASE GetTagMeta
  BY <1>0, <1>1, <1>5 DEF GetTagMeta, Asks, Then, Answer, OwnQuery, Shaped
<1>6. CASE GetParsed
  BY <1>0, <1>1, <1>6 DEF GetParsed, Asks, Then, Answer, OwnQuery, Shaped
<1>7. ASSUME NEW Q, NEW V, NEW R, Continues(Q, V, R), ask.op = "GetTransitive",
             reply = "none"
      PROVE  ControlInv'
  BY <1>1, <1>7 DEF Continues
<1>8. ASSUME NEW deps, Expand(deps), ask.op = "GetTransitive", reply = "none"
      PROVE  ControlInv'
  BY <1>0, <1>7, <1>8, ExpandContinues
<1>9. ASSUME NEW status, ExpandFails(status), reply = "none",
             status \notin {"none", "packages"}
      PROVE  ControlInv'
  <2>1. CASE q.direct
    <3>1. q' = q /\ at' = "Done" /\ reply' = status
      BY <1>0, <1>9, <2>1, ExpandFailsContinues
    <3> QED
      BY <1>0, <1>1, <1>9, <2>1, <3>1 DEF Shaped
  <2>2. CASE ~q.direct
    <3>1. Continues(q.queue, q.visited, q.result)
      BY <1>0, <1>9, <2>2, ExpandFailsContinues
    <3> QED
      BY <1>0, <1>7, <1>9, <2>2, <3>1 DEF OwnQuery
  <2> QED
    BY <2>1, <2>2
<1>10. CASE DepsLatestTag
  <2>0. ask.op = "GetTransitive" /\ reply = "none"
    BY <1>0, <1>10 DEF DepsLatestTag, Asks, OwnQuery
  <2>1. ASSUME NEW t, Then("DepsTagId"),
               q' = [q EXCEPT !.cur = Key(ask.name, t.tag), !.tag = t.tag]
        PROVE  ControlInv'
    BY <1>0, <1>1, <2>0, <2>1 DEF Then, Shaped
  <2> QED
    BY <1>8, <1>10, <2>0, <2>1, Zenon DEF DepsLatestTag
<1>11. CASE DepsTagId
  <2>0. ask.op = "GetTransitive" /\ reply = "none"
    BY <1>0, <1>11 DEF DepsTagId, Asks, OwnQuery
  <2>1. ASSUME NEW k, NEW t, Then("DepsRows"),
               q' = [q EXCEPT !.cur = k, !.tag_id = t.id]
        PROVE  ControlInv'
    BY <1>0, <1>1, <2>0, <2>1 DEF Then, Shaped
  <2>2. "tag not found" \notin {"none", "packages"}
    OBVIOUS
  <2> QED
    BY <1>9, <1>11, <2>0, <2>1, <2>2, Zenon DEF DepsTagId
<1>12. CASE DepsRows
  <2>0. ask.op = "GetTransitive" /\ reply = "none"
    BY <1>0, <1>12 DEF DepsRows, Asks, OwnQuery
  <2>1. ASSUME NEW ids, Then("DepsResolve"), q' = [q EXCEPT !.rows = ids]
        PROVE  ControlInv'
    BY <1>0, <1>1, <2>0, <2>1 DEF Then, Shaped
  <2> QED
    BY <1>8, <1>12, <2>0, <2>1, Zenon DEF DepsRows
<1>13. CASE DepsResolve
  <2>0. ask.op = "GetTransitive" /\ reply = "none"
    BY <1>0, <1>13 DEF DepsResolve, Asks, OwnQuery
  <2>1. ASSUME NEW x, NEW deps, Then("DepsResolve"),
               q' = [q EXCEPT !.deps = deps, !.rows = @ \ {x}]
        PROVE  ControlInv'
    BY <1>0, <1>1, <2>0, <2>1 DEF Then, Shaped
  <2>2. "dependency not found" \notin {"none", "packages"}
    OBVIOUS
  <2> QED
    BY <1>8, <1>9, <1>13, <2>0, <2>1, <2>2, Zenon DEF DepsResolve
<1>14. CASE ListModules
  <2>1. ASSUME NEW page, NEW n, Then("ListModules"),
               q' = [q EXCEPT !.pages = Append(@, page), !.token = n]
        PROVE  ControlInv'
    BY <1>0, <1>1, <1>14, <2>1 DEF Then, Shaped, ListModules, Asks, OwnQuery
  <2>2. ASSUME NEW page, Answer("ok"), q' = [q EXCEPT !.pages = Append(@, page)]
        PROVE  ControlInv'
    BY <1>0, <1>1, <1>14, <2>2 DEF Answer, Shaped, ListModules, Asks, OwnQuery
  <2> QED
    BY <1>14, <2>1, <2>2, Zenon DEF ListModules
<1>15. CASE StatementFails
  <2>1. "failed" \notin {"none", "packages"}
    OBVIOUS
  <2> QED
    BY <1>9, <1>15, <2>1 DEF StatementFails
<1> QED
  BY <1>2, <1>3, <1>4, <1>5, <1>6, <1>10, <1>11, <1>12, <1>13, <1>14, <1>15
  DEF QueryStep

LEMMA NextControlInv ==
  ASSUME ControlInv, AnswersInv, [QueryNext]_QueryVars
  PROVE  ControlInv'
<1>1. CASE QueryStep
  BY <1>1, QueryStepControl
<1>2. CASE req' = req /\ UNCHANGED <<ask, at, reply, q>>
  BY <1>2 DEF ControlInv, Shaped, OwnQuery
<1>3. CASE RegistryStep
  BY <1>2, <1>3, HistoryKept DEF RegistryStep
<1>4. CASE (\E r \in Run : DaemonStep(r)) \/ UNCHANGED QueryVars
  BY <1>2, <1>4 DEF DaemonStep, QueryVars, vars, qvars
<1> QED
  BY <1>1, <1>3, <1>4 DEF QueryNext

-----------------------------------------------------------------------------
(* GetModule and GetMetadata.                                              *)

\* F is what a push p stored, or nothing after a delete, or part of it after a
\* run has lost rows.
GoodFiles(p, F) ==
  /\ p \in Client /\ Committed(p) /\ F \subseteq Elements(req[p].files)
  /\ \/ F = Elements(req[p].files)
     \/ F = {} /\ \E d \in Client : FilesDeletedBy(d, p)
     \/ p \in cut

\* What a run has read.
RunInv(r) ==
  /\ daemon[r] = [todo |-> daemon[r].todo, tag_id |-> daemon[r].tag_id,
                  files |-> daemon[r].files]
  /\ \A t \in daemon[r].todo : t \in Client /\ Committed(t)
  /\ daemon[r].tag_id # None => GoodFiles(daemon[r].tag_id, daemon[r].files)

\* What the runs have stored in the two tables.  When the runs of a tag saved
\* different parts of it, proto_parsed_data has all that any of them has read.
StoredInv ==
  /\ \A m \in tag_meta : /\ m.tag_id # None
                         /\ GoodFiles(m.tag_id, m.files)
                         /\ m.files \subseteq ParsedFiles(m.tag_id)
  /\ \A t : ParsedFiles(t) # {} =>
       /\ t \in Client /\ Committed(t) /\ ParsedFiles(t) \subseteq Elements(req[t].files)
       /\ ParsedFiles(t) = Elements(req[t].files) \/ t \in cut

DaemonInv ==
  /\ daemon = [r \in Run |-> daemon[r]]
  /\ \A r \in Run : RunInv(r)
  /\ StoredInv

\* p is a push of the tag the query has listed or was asked for.
PushOfAsked(p) ==
  p \in Client /\ Committed(p) /\ req[p].name = ask.name /\ req[p].tag = q.tag

AnswerFiles ==
  \/ GoodFiles(q.tag_id, q.files)
  \/ lost /\ q.files \subseteq Elements(req[q.tag_id].files)

\* What a GetModule or a GetMetadata knows.
PackagesInv ==
  /\ at \in {"GetModule", "GetTags", "GetMetadata"} => q.tag_id = None
  /\ at \in {"GetModule", "GetTags"} => q.tag = ""
  /\ at = "GetTags" => Registered(q.module_id, ask.name)
  /\ ask.op = "GetModule" /\ at = "GetMetadata" => \E p \in Client : PushOfAsked(p)
  /\ ask.op \in {"GetModule", "GetMetadata"} /\ q.tag_id # None => PushOfAsked(q.tag_id)
  /\ at = "GetParsed" => \E m \in tag_meta : m.tag_id = q.tag_id
  /\ reply = "packages" => /\ PushOfAsked(q.tag_id)
                           /\ AnswerFiles
  /\ ask.op = "GetModule" /\ (at = "GetTagMeta" \/ reply \in {"ok", "error"})
       /\ q.tag # "" /\ q.tag_id = None =>
       \E p, d \in Client : PushOfAsked(p) /\ TagDeletedBy(d, p)

LEMMA GoodFilesStay ==
  ASSUME AnswersInv, [Next]_vars, cut \subseteq cut', NEW p, NEW F, GoodFiles(p, F)
  PROVE  GoodFiles(p, F)'
  BY HistoryKept DEF GoodFiles

\* A run that is not at work, or has done its step, knows what it knew.
LEMMA RunInvStays ==
  ASSUME AnswersInv, [Next]_vars, cut \subseteq cut', NEW r, RunInv(r),
         daemon'[r] = daemon[r]
  PROVE  RunInv(r)'
  BY HistoryKept, GoodFilesStay DEF RunInv

LEMMA StoredInvStays ==
  ASSUME AnswersInv, [Next]_vars, cut \subseteq cut', StoredInv,
         UNCHANGED <<tag_meta, parsed>>
  PROVE  StoredInv'
<1>1. \A t : ParsedFiles(t)' = ParsedFiles(t)
  BY DEF ParsedFiles
<1> QED
  BY <1>1, HistoryKept, GoodFilesStay DEF StoredInv

LEMMA SaveTagStoredInv ==
  ASSUME StoredInv, NEW T, NEW F, T # None, GoodFiles(T, F), UNCHANGED <<vars, cut>>,
         parsed' = parsed \cup {[tag_id |-> T, file |-> f] : f \in F},
         tag_meta' = {m \in tag_meta : m.tag_id # T} \cup {[tag_id |-> T, files |-> F]}
  PROVE  StoredInv'
<1>1. req' = req /\ pc' = pc /\ loc' = loc
  BY DEF vars
<1>2. \A p, G : GoodFiles(p, G)' <=> GoodFiles(p, G)
  BY <1>1 DEF GoodFiles, Committed, FilesDeletedBy
<1>3. ParsedFiles(T)' = ParsedFiles(T) \cup F
  <2>1. ASSUME NEW f \in F PROVE f \in ParsedFiles(T)'
    <3>1. PICK x : x = [tag_id |-> T, file |-> f]
      OBVIOUS
    <3>2. x \in parsed' /\ x.tag_id = T /\ x.file = f
      BY <2>1, <3>1
    <3> QED
      BY <3>2 DEF ParsedFiles
  <2>2. \A x \in parsed' : x \in parsed \/ x.file \in F
    OBVIOUS
  <2> QED
    BY <2>1, <2>2 DEF ParsedFiles
<1>4. \A t : t # T => ParsedFiles(t)' = ParsedFiles(t)
  BY DEF ParsedFiles
<1>5. ASSUME NEW m \in tag_meta'
      PROVE  m.tag_id # None /\ GoodFiles(m.tag_id, m.files)
             /\ m.files \subseteq ParsedFiles(m.tag_id)'
  <2>1. CASE m \in tag_meta /\ m.tag_id # T
    BY <1>4, <2>1 DEF StoredInv
  <2>2. CASE m.tag_id = T /\ m.files = F
    BY <1>3, <2>2
  <2> QED
    BY <2>1, <2>2
<1>6. ASSUME NEW t, ParsedFiles(t)' # {}
      PROVE  /\ t \in Client /\ Committed(t)
             /\ ParsedFiles(t)' \subseteq Elements(req[t].files)
             /\ ParsedFiles(t)' = Elements(req[t].files) \/ t \in cut
  <2>1. CASE t # T
    BY <1>4, <1>6, <2>1 DEF StoredInv
  <2>2. CASE t = T
    BY <1>3, <1>6, <2>2 DEF StoredInv, GoodFiles
  <2> QED
    BY <2>1, <2>2
<1>7. \A p : Committed(p)' <=> Committed(p)
  BY <1>1 DEF Committed
<1> QED
  BY <1>1, <1>2, <1>5, <1>6, <1>7 DEF StoredInv

LEMMA DaemonStepDaemonInv ==
  ASSUME DaemonInv, AnswersInv, NEW r \in Run, DaemonStep(r)
  PROVE  DaemonInv' /\ cut \subseteq cut'
<1>0. /\ UNCHANGED vars /\ RunInv(r) /\ StoredInv
      /\ daemon = [s \in Run |-> daemon[s]]
  BY DEF DaemonStep, DaemonInv
<1>1. PICK T, t0, F : /\ daemon[r] = [todo |-> T, tag_id |-> t0, files |-> F]
                      /\ daemon[r].todo = T /\ daemon[r].tag_id = t0
                      /\ daemon[r].files = F
  BY <1>0 DEF RunInv
<1>2. ASSUME NEW T1, NEW t1, NEW F1, cut \subseteq cut', StoredInv',
             daemon' = [daemon EXCEPT ![r] = [todo |-> T1, tag_id |-> t1, files |-> F1]],
             \A t \in T1 : t \in Client /\ Committed(t),
             t1 # None => GoodFiles(t1, F1)'
      PROVE  DaemonInv'
  <2>1. daemon'[r] = [todo |-> T1, tag_id |-> t1, files |-> F1]
        /\ daemon' = [s \in Run |-> daemon'[s]]
    BY <1>0, <1>2
  <2>2. \A p : Committed(p)' <=> Committed(p)
    BY <1>0 DEF vars, Committed
  <2>3. RunInv(r)'
    BY <1>2, <2>1, <2>2 DEF RunInv
  <2>4. ASSUME NEW s \in Run, s # r PROVE RunInv(s)'
    <3>1. daemon'[s] = daemon[s] /\ RunInv(s)
      BY <1>0, <1>2, <2>4 DEF DaemonInv
    <3> QED
      BY <1>0, <1>2, <3>1, RunInvStays
  <2> QED
    BY <1>2, <2>1, <2>3, <2>4 DEF DaemonInv
<1>3. CASE ListTags(r)
  <2>1. PICK T1 : T1 = {t.id : t \in {x \in tags : \A m \in tag_meta : m.tag_id # x.id}}
    OBVIOUS
  <2>2. UNCHANGED <<tag_meta, parsed, cut>> /\ t0 = None
    BY <1>1, <1>3 DEF ListTags, Idle
  <2>5. daemon' = [daemon EXCEPT ![r] = [todo |-> T1, tag_id |-> t0, files |-> F]]
    <3>1. daemon' = [daemon EXCEPT ![r].todo = T1]
      BY <1>3, <2>1 DEF ListTags
    <3>2. daemon' = [daemon EXCEPT ![r] = [daemon[r] EXCEPT !.todo = T1]]
      BY <3>1
    <3>3. [daemon[r] EXCEPT !.todo = T1] = [todo |-> T1, tag_id |-> t0, files |-> F]
      BY <1>1
    <3> QED
      BY <3>2, <3>3
  <2>3. \A t \in T1 : t \in Client /\ Committed(t)
    BY <2>1 DEF AnswersInv, SafetyInv, TypeInv, TablesOK, Provenance, TagsFrom
  <2> QED
    BY <1>0, <1>2, <2>2, <2>3, <2>5, StoredInvStays
<1>4. CASE ReadTag(r)
  <2>0. PICK t \in T : \E files \in SUBSET StoredFiles(t) :
          /\ daemon' = [daemon EXCEPT ![r] = [todo |-> T \ {t}, tag_id |-> t,
                                             files |-> files]]
          /\ cut' = IF files = StoredFiles(t) THEN cut ELSE cut \cup {t}
    BY <1>0, <1>1, <1>4 DEF ReadTag
  <2>1. PICK files \in SUBSET StoredFiles(t) :
          /\ daemon' = [daemon EXCEPT ![r] = [todo |-> T \ {t}, tag_id |-> t,
                                             files |-> files]]
          /\ cut' = IF files = StoredFiles(t) THEN cut ELSE cut \cup {t}
    BY <2>0
  <2>2. cut \subseteq cut' /\ UNCHANGED <<tag_meta, parsed>>
    BY <1>4, <2>1 DEF ReadTag
  <2>3. \A u \in T : u \in Client /\ Committed(u)
    BY <1>0, <1>1 DEF RunInv
  <2>4. GoodFiles(t, files)'
    <3>1. /\ StoredFiles(t) \subseteq Elements(req[t].files)
          /\ \/ StoredFiles(t) = Elements(req[t].files)
             \/ StoredFiles(t) = {} /\ \E d \in Client : FilesDeletedBy(d, t)
      BY <2>1, <2>3 DEF AnswersInv, FilesAllOrNone
    <3>2. UNCHANGED <<req, pc, loc>>
      BY <1>0 DEF vars
    <3>3. (\E d \in Client : FilesDeletedBy(d, t)) => \E d \in Client : FilesDeletedBy(d, t)'
      BY <3>2 DEF FilesDeletedBy
    <3> QED
      BY <2>1, <2>3, <3>1, <3>2, <3>3 DEF GoodFiles, Committed
  <2> QED
    BY <1>0, <1>2, <2>1, <2>2, <2>3, <2>4, StoredInvStays
<1>5. CASE SaveTag(r)
  <2>0. t0 # None /\ cut' = cut
    BY <1>1, <1>5 DEF SaveTag
  <2>1. /\ t0 # None /\ cut' = cut
        /\ daemon' = [daemon EXCEPT ![r] = [todo |-> T, tag_id |-> None, files |-> {}]]
    <3>1. daemon' = [daemon EXCEPT ![r].tag_id = None, ![r].files = {}]
      BY <1>5 DEF SaveTag
    <3>2. [[daemon[r] EXCEPT !.tag_id = None] EXCEPT !.files = {}]
          = [todo |-> T, tag_id |-> None, files |-> {}]
      <4>1. [daemon[r] EXCEPT !.tag_id = None]
            = [todo |-> T, tag_id |-> None, files |-> F]
        BY <1>1
      <4>2. PICK d : d = [todo |-> T, tag_id |-> None, files |-> F]
        OBVIOUS
      <4>3. [d EXCEPT !.files = {}] = [todo |-> T, tag_id |-> None, files |-> {}]
        BY <4>2
      <4> QED
        BY <4>1, <4>2, <4>3
    <3>3. daemon' = [daemon EXCEPT ![r] = [[daemon[r] EXCEPT !.tag_id = None]
                                            EXCEPT !.files = {}]]
      BY <1>0, <3>1
    <3> QED
      BY <2>0, <3>2, <3>3
  <2>2. GoodFiles(t0, F) /\ \A t \in T : t \in Client /\ Committed(t)
    BY <1>0, <1>1, <2>1 DEF RunInv
  <2>3. StoredInv'
    <3>1. CASE UNCHANGED <<tag_meta, parsed>>
      BY <1>0, <2>1, <3>1, StoredInvStays
    <3>2. CASE tag_meta' = MetaWith(r) /\ parsed' = parsed \cup ParsedOf(r)
      <4>1. /\ parsed' = parsed \cup {[tag_id |-> t0, file |-> f] : f \in F}
            /\ tag_meta' = {m \in tag_meta : m.tag_id # t0}
                           \cup {[tag_id |-> t0, files |-> F]}
        BY <1>1, <3>2 DEF MetaWith, ParsedOf
      <4> QED
        BY <1>0, <2>1, <2>2, <4>1, SaveTagStoredInv
    <3> QED
      BY <1>5, <3>1, <3>2 DEF SaveTag
  <2> QED
    BY <1>2, <2>1, <2>2, <2>3
<1>6. cut \subseteq cut'
  BY DEF DaemonStep, ListTags, ReadTag, SaveTag
<1> QED
  BY <1>3, <1>4, <1>5, <1>6 DEF DaemonStep

LEMMA NextDaemonInv ==
  ASSUME DaemonInv, AnswersInv, [QueryNext]_QueryVars
  PROVE  DaemonInv'
<1>1. CASE [Next]_vars /\ UNCHANGED dvars
  <2>1. UNCHANGED <<tag_meta, parsed, daemon, cut>>
    BY <1>1 DEF dvars
  <2>2. \A r \in Run : RunInv(r)'
    BY <1>1, <2>1, RunInvStays DEF DaemonInv
  <2>3. StoredInv'
    BY <1>1, <2>1, StoredInvStays DEF DaemonInv
  <2> QED
    BY <2>1, <2>2, <2>3 DEF DaemonInv
<1>2. CASE \E r \in Run : DaemonStep(r)
  BY <1>2, DaemonStepDaemonInv
<1>4. CASE RegistryStep \/ QueryStep \/ UNCHANGED QueryVars
  BY <1>1, <1>4 DEF RegistryStep, QueryStep, QueryVars, qvars, dvars
<1> QED
  BY <1>2, <1>4 DEF QueryNext

LEMMA PushOfAskedStays ==
  ASSUME AnswersInv, [Next]_vars, ask' = ask, q'.tag = q.tag, NEW p, PushOfAsked(p)
  PROVE  PushOfAsked(p)'
  BY HistoryKept DEF PushOfAsked

\* What a query that lists packages knows is not touched by the others.
LEMMA OthersPackagesInv ==
  ASSUME PackagesInv, AnswersInv, [Next]_vars, UNCHANGED <<ask, at, reply, q, lost>>,
         cut \subseteq cut',
         \A m \in tag_meta : \E n \in tag_meta' : n.tag_id = m.tag_id
  PROVE  PackagesInv'
<1>1. \A p : PushOfAsked(p) => PushOfAsked(p)'
  BY PushOfAskedStays
<1>2. \A p, F : GoodFiles(p, F) => GoodFiles(p, F)'
  BY GoodFilesStay
<1>3. \A d \in Client : \A p : TagDeletedBy(d, p) => TagDeletedBy(d, p)'
  BY HistoryKept
<1>4. \A x, n : Registered(x, n) => Registered(x, n)'
  BY HistoryKept
<1>5. AnswerFiles => AnswerFiles'
  BY <1>2, HistoryKept DEF AnswerFiles
<1> QED
  BY <1>1, <1>3, <1>4, <1>5 DEF PackagesInv

\* The latest tag of a module is a tag of the module.
LEMMA LatestOfModule ==
  ASSUME SafetyInv, NEW x, NEW n, Registered(x, n), NEW t \in tags, t.module_id = x
  PROVE  /\ t.id \in Client /\ Committed(t.id)
         /\ req[t.id].name = n /\ req[t.id].tag = t.tag
<1>1. t.id \in Client /\ Committed(t.id) /\ t.tag = req[t.id].tag
      /\ t.module_id = loc[t.id].module_id
  BY DEF SafetyInv, TypeInv, TablesOK, Provenance, TagsFrom
<1>2. Registered(t.module_id, req[t.id].name)
  BY <1>1 DEF SafetyInv, Provenance, ModuleUsed, UsesModule
<1> QED
  BY <1>1, <1>2 DEF Registered

\* A push that committed, and whose tag its name and tag do not find, has lost
\* it to a delete.
LEMMA NotFoundWasDeleted ==
  ASSUME AnswersInv, NEW p \in Client, Committed(p),
         TagRows(req[p].name, req[p].tag) = {}
  PROVE  \E d \in Client : TagDeletedBy(d, p)
<1>1. SafetyInv /\ ModuleKept(p)
  BY DEF AnswersInv, HandlerInv
<1>2. ASSUME NEW t \in tags, NEW m \in modules, t.id = p, m.id = t.module_id
      PROVE  FALSE
  <2>1. t.tag = req[p].tag /\ t.module_id = loc[p].module_id
    BY <1>1, <1>2 DEF SafetyInv, Provenance, TagsFrom
  <2>2. Registered(m.id, m.name) /\ Registered(m.id, req[p].name)
    BY <1>1, <1>2, <2>1 DEF SafetyInv, Provenance, ModulesFrom, ModuleUsed, UsesModule
  <2>3. m.name = req[p].name
    BY <2>2 DEF Registered
  <2> QED
    BY <1>2, <2>1, <2>3 DEF TagRows, TagsOfName, ModulesNamed
<1> QED
  BY <1>1, <1>2, GoneWasDeleted

LEMMA QueryStepPackagesInv ==
  ASSUME PackagesInv, DaemonInv, AnswersInv, ControlInv, ControlInv', QueryStep
  PROVE  PackagesInv'
<1>0. /\ Shaped /\ OwnQuery /\ OwnQuery' /\ SafetyInv
      /\ UNCHANGED <<vars, dvars, ask>>
  BY DEF ControlInv, QueryStep, AnswersInv
<1>1. UNCHANGED <<req, pc, loc, tag_meta, parsed, cut>>
  BY <1>0 DEF vars, dvars
<1>2. /\ \A p, F : GoodFiles(p, F) <=> GoodFiles(p, F)'
      /\ \A x, n : Registered(x, n) <=> Registered(x, n)'
      /\ \A d, p : TagDeletedBy(d, p) <=> TagDeletedBy(d, p)'
  BY <1>1 DEF GoodFiles, Registered, TagDeletedBy, Committed, FilesDeletedBy
<1>3. q'.tag = q.tag => \A p : PushOfAsked(p) <=> PushOfAsked(p)'
  BY <1>0, <1>1 DEF PushOfAsked, Committed
<1>4. CASE ask.op \notin {"GetModule", "GetMetadata"}
  BY <1>0, <1>4 DEF PackagesInv, OwnQuery
<1>5. CASE GetModuleRow
  <2>1. CASE Answer("module not found") /\ UNCHANGED q
    BY <1>0, <1>3, <1>5, <2>1 DEF GetModuleRow, Answer, Asks, PackagesInv
  <2>2. ASSUME NEW m \in ModulesNamed(ask.name), Then("GetTags"),
               q' = [q EXCEPT !.module_id = m.id]
        PROVE  PackagesInv'
    <3>1. Registered(m.id, ask.name)
      BY <1>0 DEF ModulesNamed, SafetyInv, Provenance, ModulesFrom
    <3> QED
      BY <1>0, <1>2, <1>5, <2>2, <3>1 DEF GetModuleRow, Then, Asks, PackagesInv,
         Shaped, OwnQuery
  <2> QED
    BY <1>5, <2>1, <2>2 DEF GetModuleRow
<1>6. CASE GetTags
  <2>1. CASE Answer("ok") /\ UNCHANGED q
    BY <1>0, <1>6, <2>1 DEF GetTags, Answer, Asks, PackagesInv
  <2>2. ASSUME NEW t \in tags, t.module_id = q.module_id, Then("GetMetadata"),
               q' = [q EXCEPT !.tag = t.tag]
        PROVE  PackagesInv'
    <3>1. at = "GetTags" /\ reply = "none" /\ Registered(q.module_id, ask.name)
      BY <1>6 DEF GetTags, Asks, PackagesInv
    <3>2. /\ t.id \in Client /\ Committed(t.id)
          /\ req[t.id].name = ask.name /\ req[t.id].tag = t.tag
      BY <1>0, <2>2, <3>1, LatestOfModule
    <3>3. q'.tag = t.tag /\ q'.tag_id = None
      BY <1>0, <2>2, <3>1 DEF Shaped, PackagesInv
    <3>4. PushOfAsked(t.id)'
      BY <1>0, <1>1, <3>2, <3>3 DEF PushOfAsked, Committed
    <3> QED
      BY <1>0, <2>2, <3>1, <3>2, <3>3, <3>4 DEF Then, PackagesInv
  <2> QED
    BY <1>6, <2>1, <2>2 DEF GetTags, Latest
<1>7. CASE GetTagId
  <2>0. at = "GetMetadata" /\ reply = "none" /\ q.tag_id = None
    BY <1>7 DEF GetTagId, Asks, PackagesInv
  <2>1. CASE Answer("module tag not found") /\ UNCHANGED q /\ ask.op = "GetMetadata"
    BY <1>0, <2>0, <2>1 DEF Answer, PackagesInv
  <2>2. CASE /\ TagRows(ask.name, q.tag) = {} /\ ask.op = "GetModule"
             /\ Then("GetTagMeta") /\ UNCHANGED q
    <3>1. PICK p \in Client : PushOfAsked(p)
      BY <2>0, <2>2 DEF PackagesInv
    <3>2. \E d \in Client : TagDeletedBy(d, p)
      BY <2>2, <3>1, NotFoundWasDeleted DEF PushOfAsked
    <3> QED
      BY <1>0, <1>2, <1>3, <2>0, <2>2, <3>1, <3>2 DEF Then, PackagesInv
  <2>3. ASSUME NEW t \in TagRows(ask.name, q.tag), Then("GetTagMeta"),
               q' = [q EXCEPT !.tag_id = t.id]
        PROVE  PackagesInv'
    <3>1. t \in TagsOfName(ask.name) /\ t.tag = q.tag
      BY DEF TagRows
    <3>2. PushOfAsked(t.id)
      BY <1>0, <3>1, TagOfName DEF PushOfAsked
    <3>3. q'.tag = q.tag /\ q'.tag_id = t.id
      BY <1>0, <2>3 DEF Shaped
    <3>4. PushOfAsked(t.id)' /\ t.id # None
      BY <1>3, <3>2, <3>3, NoneAssumption DEF PushOfAsked
    <3> QED
      BY <2>0, <2>3, <3>3, <3>4 DEF Then, PackagesInv
  <2> QED
    BY <1>7, <2>1, <2>2, <2>3, Zenon DEF GetTagId
<1>8. CASE GetTagMeta
  <2>0. /\ at = "GetTagMeta" /\ reply = "none"
        /\ ask.op \in {"GetModule", "GetMetadata"}
    BY <1>0, <1>8 DEF GetTagMeta, Asks, OwnQuery
  <2>1. ASSUME NEW s, Answer(s), s # "packages", UNCHANGED q
        PROVE  PackagesInv'
    BY <1>0, <1>2, <1>3, <2>0, <2>1 DEF Answer, PackagesInv
  <2>2. ASSUME NEW m \in tag_meta, m.tag_id = q.tag_id, q.tag_id # None,
               Answer("packages"), q' = [q EXCEPT !.files = m.files]
        PROVE  PackagesInv'
    <3>1. PushOfAsked(q.tag_id) /\ GoodFiles(m.tag_id, m.files)
      BY <2>0, <2>2 DEF PackagesInv, DaemonInv, StoredInv
    <3>2. q'.tag_id = m.tag_id /\ q'.files = m.files /\ q'.tag = q.tag
      BY <1>0, <2>2 DEF Shaped
    <3>3. PushOfAsked(m.tag_id)' /\ GoodFiles(m.tag_id, m.files)'
      BY <1>2, <1>3, <2>2, <3>1, <3>2
    <3> QED
      BY <2>0, <2>2, <3>2, <3>3 DEF Answer, PackagesInv, AnswerFiles
  <2>3. ASSUME NEW m \in tag_meta, m.tag_id = q.tag_id, q.tag_id # None,
               Then("GetParsed"), UNCHANGED q
        PROVE  PackagesInv'
    BY <1>0, <1>1, <1>3, <2>0, <2>3 DEF Then, PackagesInv
  <2>4. (IF ask.op = "GetModule" THEN "ok" ELSE "tag meta not found") # "packages"
    OBVIOUS
  <2>5. "error" # "packages"
    OBVIOUS
  <2> QED
    BY <1>8, <2>1, <2>2, <2>3, <2>4, <2>5 DEF GetTagMeta
<1>9. CASE GetParsed
  <2>0. at = "GetParsed" /\ reply = "none" /\ ask.op = "GetMetadata"
    BY <1>0, <1>9 DEF GetParsed, Asks, OwnQuery
  <2>1. PICK m \in tag_meta : m.tag_id = q.tag_id
    BY <2>0 DEF PackagesInv
  <2>2. PICK arrived \in SUBSET ParsedFiles(q.tag_id) :
          /\ q' = [q EXCEPT !.files = arrived]
          /\ lost' = (lost \/ arrived # ParsedFiles(q.tag_id))
    BY <1>9 DEF GetParsed
  <2>3. /\ q'.files = arrived /\ q'.tag_id = q.tag_id /\ q'.tag = q.tag
        /\ at' = "Done" /\ reply' = "packages"
    BY <1>0, <1>9, <2>2 DEF GetParsed, Shaped, Answer
  <2>4. q.tag_id # None /\ GoodFiles(q.tag_id, ParsedFiles(q.tag_id))
    <3>1. /\ m.tag_id # None /\ GoodFiles(m.tag_id, m.files)
          /\ m.files \subseteq ParsedFiles(m.tag_id)
      BY <2>1 DEF DaemonInv, StoredInv
    <3>2. CASE ParsedFiles(q.tag_id) = {}
      BY <2>1, <3>1, <3>2
    <3>3. CASE ParsedFiles(q.tag_id) # {}
      BY <2>1, <3>1, <3>3 DEF DaemonInv, StoredInv, GoodFiles
    <3> QED
      BY <3>2, <3>3
  <2>5. PushOfAsked(q.tag_id)
    BY <2>0, <2>4 DEF PackagesInv
  <2>6. PICK x : x = q.tag_id
    OBVIOUS
  <2>7. PushOfAsked(x)' /\ GoodFiles(x, ParsedFiles(x))'
    <3>1. ParsedFiles(x)' = ParsedFiles(x)
      BY <1>1 DEF ParsedFiles
    <3> QED
      BY <1>2, <1>3, <2>3, <2>4, <2>5, <2>6, <3>1
  <2>8. AnswerFiles'
    <3>1. CASE arrived = ParsedFiles(q.tag_id)
      <4>1. GoodFiles(x, arrived)'
        BY <1>2, <2>4, <2>6, <3>1
      <4> QED
        BY <2>3, <2>6, <4>1 DEF AnswerFiles
    <3>2. CASE arrived # ParsedFiles(q.tag_id)
      <4>1. lost' /\ arrived \subseteq Elements(req[x].files)
        BY <2>2, <2>4, <2>6, <3>2 DEF GoodFiles
      <4> QED
        BY <1>1, <2>3, <2>6, <4>1 DEF AnswerFiles
    <3> QED
      BY <3>1, <3>2
  <2> QED
    BY <1>0, <2>0, <2>3, <2>6, <2>7, <2>8 DEF PackagesInv
<1>11. CASE StatementFails /\ ask.op \in {"GetModule", "GetMetadata"}
  <2>1. q' = q /\ at' = "Done" /\ reply' = "failed"
    BY <1>0, <1>11, ExpandFailsContinues DEF StatementFails, OwnQuery
  <2> QED
    BY <1>0, <1>3, <2>1 DEF PackagesInv
<1>10. QueryStep /\ ask.op \in {"GetModule", "GetMetadata"} =>
         \/ GetModuleRow \/ GetTags \/ GetTagId \/ GetTagMeta \/ GetParsed
         \/ StatementFails
  BY <1>0 DEF QueryStep, DepsLatestTag, DepsTagId, DepsRows, DepsResolve,
     ListModules, Asks, OwnQuery
<1> QED
  BY <1>4, <1>5, <1>6, <1>7, <1>8, <1>9, <1>10, <1>11

LEMMA NextPackagesInv ==
  ASSUME PackagesInv, DaemonInv, AnswersInv, ControlInv, ControlInv',
         [QueryNext]_QueryVars
  PROVE  PackagesInv'
<1>1. CASE QueryStep
  BY <1>1, QueryStepPackagesInv
<1>2. CASE RegistryStep \/ UNCHANGED QueryVars
  BY <1>2, OthersPackagesInv DEF RegistryStep, QueryVars, qvars, dvars
<1>3. ASSUME NEW r \in Run, DaemonStep(r) PROVE PackagesInv'
  <2>1. UNCHANGED <<vars, ask, at, reply, q, lost>> /\ cut \subseteq cut'
    BY <1>3, DaemonStepDaemonInv DEF DaemonStep
  <2>2. ASSUME NEW m \in tag_meta PROVE \E n \in tag_meta' : n.tag_id = m.tag_id
    <3>1. CASE tag_meta' = tag_meta
      BY <3>1
    <3>2. CASE tag_meta' = MetaWith(r)
      <4>1. CASE m.tag_id # daemon[r].tag_id
        BY <3>2, <4>1 DEF MetaWith
      <4>2. CASE m.tag_id = daemon[r].tag_id
        <5>1. PICK n : n = [tag_id |-> daemon[r].tag_id, files |-> daemon[r].files]
          OBVIOUS
        <5> QED
          BY <3>2, <4>2, <5>1 DEF MetaWith
      <4> QED
        BY <4>1, <4>2
    <3> QED
      BY <1>3, <3>1, <3>2 DEF DaemonStep, ListTags, ReadTag, SaveTag
  <2> QED
    BY <2>1, <2>2, OthersPackagesInv
<1> QED
  BY <1>1, <1>2, <1>3 DEF QueryNext

LEMMA InitPackagesInv == QueryInit => DaemonInv /\ PackagesInv /\ UniqueNames
<1> SUFFICES ASSUME QueryInit PROVE DaemonInv /\ PackagesInv /\ UniqueNames
  OBVIOUS
<1>1. DaemonInv
  <2>1. tag_meta = {} /\ parsed = {} /\ daemon = [r \in Run |-> Idle]
    BY DEF QueryInit
  <2>2. \A t : ParsedFiles(t) = {}
    BY <2>1 DEF ParsedFiles
  <2>3. \A r \in Run : RunInv(r)
    BY <2>1 DEF RunInv, Idle
  <2> QED
    BY <2>1, <2>2, <2>3 DEF DaemonInv, StoredInv
<1>2. PICK s \in Scenarios : s[1] = req /\ ask = s[2]
  BY DEF QueryInit
<1>3. q.tag_id = None /\ q.tag = ask.tag /\ at = ask.op /\ reply = "none"
  BY DEF QueryInit, InitQuery
<1>4. ask \in Query /\ (ask.op = "GetModule" => ask.tag = "")
  BY <1>2, ScenariosAssumption
<1>5. PackagesInv
  BY <1>3, <1>4 DEF PackagesInv, Query
<1> QED
  BY <1>1, <1>5 DEF QueryInit, Init, UniqueNames

LEMMA PackagesInvariant ==
  QuerySpec => [](ControlInv /\ UniqueNames /\ DaemonInv /\ PackagesInv)
<1> DEFINE I == ControlInv /\ UniqueNames /\ DaemonInv /\ PackagesInv
<1>1. QueryInit => I
  BY InitControlInv, InitPackagesInv
<1>2. AnswersInv /\ I /\ [QueryNext]_QueryVars => I'
  <2>1. [QueryNext]_QueryVars => [Next]_vars
    BY DEF QueryNext, QueryVars, RegistryStep, QueryStep, DaemonStep
  <2> QED
    BY <2>1, NextControlInv, NextUniqueNames, NextDaemonInv, NextPackagesInv
<1> QED
  BY <1>1, <1>2, QueryAnswersInv, PTL DEF QuerySpec, QueryVars

\* For every workload and every number of overlapping runs, GetModule and
\* GetMetadata answer packages of one push of the module and tag, whatever the
\* handlers and the daemon do between their statements: all of them, unless a
\* delete removed its files first or a connection was lost among the rows.
THEOREM PackagesAreOfOnePush == QuerySpec => []PackagesOfOnePush
<1>1. PackagesInv => PackagesOfOnePush
  BY DEF PackagesInv, AnswerFiles, PackagesOfOnePush, PushOfAsked, GoodFiles
<1> QED
  BY <1>1, PackagesInvariant, PTL

\* For every workload GetModule loses the tag it has listed, and with
\* PostgreSQL fails, only if a delete removed that tag.
THEOREM StaleTagWasDeleted == QuerySpec => []StaleTagOnlyAfterDelete
<1>1. PackagesInv /\ ControlInv => StaleTagOnlyAfterDelete
  BY DEF PackagesInv, ControlInv, OwnQuery, StaleTagOnlyAfterDelete, PushOfAsked
<1> QED
  BY <1>1, PackagesInvariant, PTL

-----------------------------------------------------------------------------
(* GetTransitiveDependencies: what it answers was declared, and it ends.   *)

\* The key of the tag that a push x inserted.
KeyOf(x) == Key(req[x].name, req[x].tag)

\* A push of the tag k0 declared k.
Declared(k, k0) ==
  \E p \in Client : req[p].op = "Push" /\ k \in Elements(req[p].deps) /\ KeyOf(p) = k0

Searching == at \in {"DepsTagId", "DepsRows", "DepsResolve"}

\* Where the search is.
CurrentTag ==
  /\ at = "GetTransitive" => q.direct /\ q.tag = ask.tag
  /\ Searching => IF q.direct THEN q.cur = Root ELSE q.cur \in q.result
  /\ at = "DepsRows" => /\ q.tag_id \in Client /\ Committed(q.tag_id)
                        /\ KeyOf(q.tag_id) = q.cur
  /\ at = "DepsResolve" => q.rows \subseteq Client

\* What it has read, and what it has found.
DeclaredInv ==
  /\ at \in {"GetTransitive", "DepsTagId", "DepsRows"} => q.deps = {}
  /\ at = "DepsResolve" => \A x \in q.rows : Committed(x) /\ Declared(KeyOf(x), q.cur)
  /\ \A k \in q.deps : Declared(k, q.cur)
  /\ q.queue \subseteq q.result
  /\ reply = "ok" => q.queue = {}
  /\ \A k \in q.result : \E k0 \in q.result \cup {Root} : Declared(k, k0)
  /\ ask.op # "GetTransitive" => q.result = {}
  /\ q.direct /\ at # "Done" => q.result = {} /\ q.visited = {}

\* What is queued was visited, and is taken from the queue once.
RoundsInv ==
  /\ q.rounds \in Nat
  /\ IsFiniteSet(q.deps) /\ IsFiniteSet(q.queue) /\ IsFiniteSet(q.visited)
  /\ q.queue \subseteq q.visited
  /\ q.rounds + Cardinality(q.queue) <= Cardinality(q.visited)
  /\ q.direct => q.rounds = 0 /\ q.queue = {}

SearchInv == CurrentTag /\ DeclaredInv /\ RoundsInv

LEMMA InitSearchInv == QueryInit => SearchInv
<1> SUFFICES ASSUME QueryInit PROVE SearchInv
  OBVIOUS
<1>1. /\ q.direct /\ q.tag = ask.tag /\ q.deps = {} /\ q.queue = {} /\ q.visited = {}
      /\ q.result = {} /\ q.rounds = 0 /\ at = ask.op
  BY DEF QueryInit, InitQuery
<1>2. ask.op \in {"None", "GetModule", "GetMetadata", "GetTransitive", "ListModules"}
  BY InitControlInv DEF ControlInv, OwnQuery, Query
<1>3. CurrentTag /\ DeclaredInv
  BY <1>1, <1>2 DEF CurrentTag, DeclaredInv, Searching
<1>4. RoundsInv
  BY <1>1, FS_EmptySet DEF RoundsInv
<1> QED
  BY <1>3, <1>4 DEF SearchInv

LEMMA RequestsKept ==
  ASSUME req' = req
  PROVE  /\ \A x : KeyOf(x)' = KeyOf(x)
         /\ \A k, k0 : Declared(k, k0)' <=> Declared(k, k0)
<1>1. \A x : KeyOf(x)' = KeyOf(x)
  BY DEF KeyOf, Key
<1> QED
  BY <1>1 DEF Declared

\* The handlers and the daemon do not disturb the search.
LEMMA OthersSearchInv ==
  ASSUME SearchInv, AnswersInv, [Next]_vars, UNCHANGED <<ask, at, reply, q>>
  PROVE  SearchInv'
<1>1. req' = req /\ \A p \in Client : Committed(p) => Committed(p)'
  BY HistoryKept
<1>2. /\ \A x : KeyOf(x)' = KeyOf(x)
      /\ \A k, k0 : Declared(k, k0)' <=> Declared(k, k0)
  BY <1>1, RequestsKept
<1>3. Root' = Root
  BY DEF Root, Key
<1>4. CurrentTag'
  BY <1>1, <1>2, <1>3 DEF SearchInv, CurrentTag, Searching
<1>5. DeclaredInv'
  BY <1>1, <1>2, <1>3 DEF SearchInv, CurrentTag, DeclaredInv
<1>6. RoundsInv'
  BY DEF SearchInv, RoundsInv
<1> QED
  BY <1>4, <1>5, <1>6 DEF SearchInv

\* The other queries leave the variables of the search alone.
LEMMA OtherQueriesSearchInv ==
  ASSUME SearchInv, ControlInv, ControlInv', QueryStep, ask.op # "GetTransitive"
  PROVE  SearchInv'
<1>0. /\ Shaped /\ OwnQuery /\ OwnQuery' /\ ask' = ask /\ req' = req
  BY DEF ControlInv, QueryStep, vars
<1>1. \/ GetModuleRow \/ GetTags \/ GetTagId \/ GetTagMeta \/ GetParsed
      \/ ListModules \/ StatementFails
  BY <1>0 DEF QueryStep, DepsLatestTag, DepsTagId, DepsRows, DepsResolve, Asks, OwnQuery
<1> DEFINE Frame == /\ q'.deps = q.deps /\ q'.queue = q.queue
                    /\ q'.visited = q.visited /\ q'.result = q.result
                    /\ q'.rounds = q.rounds /\ q'.cur = q.cur
                    /\ q'.direct <=> q.direct
<1>2. ASSUME GetModuleRow \/ GetTags \/ GetTagId \/ GetTagMeta \/ GetParsed
      PROVE  Frame
  <2>1. UNCHANGED q \/ \E x : \/ q' = [q EXCEPT !.module_id = x]
                              \/ q' = [q EXCEPT !.tag = x]
                              \/ q' = [q EXCEPT !.tag_id = x]
                              \/ q' = [q EXCEPT !.files = x]
    BY <1>2, Zenon DEF GetModuleRow, GetTags, GetTagId, GetTagMeta, GetParsed
  <2> QED
    BY <1>0, <2>1 DEF Shaped
<1>3. ASSUME ListModules PROVE Frame
  <2>1. ASSUME NEW p, NEW n, q' = [q EXCEPT !.pages = Append(@, p), !.token = n]
        PROVE  Frame
    BY <1>0, <2>1 DEF Shaped
  <2>2. ASSUME NEW p, q' = [q EXCEPT !.pages = Append(@, p)] PROVE Frame
    BY <1>0, <2>2 DEF Shaped
  <2> QED
    BY <1>3, <2>1, <2>2, Zenon DEF ListModules
<1>10. ASSUME StatementFails PROVE Frame
  <2>1. q' = q
    BY <1>0, <1>10, ExpandFailsContinues DEF StatementFails, OwnQuery
  <2> QED
    BY <2>1
<1>4. Frame
  BY <1>1, <1>2, <1>3, <1>10
<1>5. at # "Done" /\ q.result = {} /\ q.queue = {}
  BY <1>0, <1>1 DEF SearchInv, DeclaredInv, GetModuleRow, GetTags, GetTagId, GetTagMeta,
     GetParsed, ListModules, StatementFails, OwnQuery, Asks
<1>6. \A k, k0 : Declared(k, k0)' <=> Declared(k, k0)
  BY <1>0, RequestsKept
<1>7. CurrentTag'
  BY <1>0 DEF CurrentTag, Searching, OwnQuery
<1>8. DeclaredInv'
  BY <1>0, <1>4, <1>5, <1>6 DEF SearchInv, DeclaredInv, OwnQuery
<1>9. RoundsInv'
  BY <1>4 DEF SearchInv, RoundsInv
<1> QED
  BY <1>7, <1>8, <1>9 DEF SearchInv

LEMMA ContinuesSearchInv ==
  ASSUME ask' = ask, req' = req, ask.op = "GetTransitive", reply = "none",
         NEW Q, NEW V, NEW R, Continues(Q, V, R), Q \subseteq R, Q \subseteq V,
         \A k \in R : \E k0 \in R \cup {Root} : Declared(k, k0),
         IsFiniteSet(Q), IsFiniteSet(V), q.rounds \in Nat,
         q.direct => q.rounds = 0,
         q.rounds + Cardinality(Q) <= Cardinality(V)
  PROVE  SearchInv'
<1>1. \A k, k0 : Declared(k, k0)' <=> Declared(k, k0)
  BY RequestsKept
<1>2. Root' = Root
  BY DEF Root, Key, Continues
<1>3. CurrentTag'
  BY DEF CurrentTag, Searching, Continues
<1>4. DeclaredInv'
  BY <1>1, <1>2 DEF DeclaredInv, Continues
<1>5. RoundsInv'
  <2>1. Cardinality(Q) \in Nat /\ Cardinality(V) \in Nat
    BY FS_CardinalityType
  <2>2. IsFiniteSet({}) /\ Cardinality({}) = 0
    BY FS_EmptySet
  <2>3. \A k \in Q : IsFiniteSet(Q \ {k}) /\ Cardinality(Q \ {k}) = Cardinality(Q) - 1
    BY FS_RemoveElement
  <2>4. CASE /\ Q = {} /\ q'.queue = {} /\ (q'.direct <=> q.direct)
             /\ q'.rounds = q.rounds
    BY <2>1, <2>2, <2>4 DEF RoundsInv, Continues
  <2>5. ASSUME NEW k \in Q, q'.queue = Q \ {k}, ~q'.direct, q'.rounds = q.rounds + 1
        PROVE  RoundsInv'
    <3>1. q'.visited = V /\ q'.deps = {}
      BY DEF Continues
    <3>2. /\ IsFiniteSet(q'.queue) /\ q'.queue \subseteq V
          /\ Cardinality(q'.queue) = Cardinality(Q) - 1
      BY <2>3, <2>5
    <3>3. /\ q'.rounds \in Nat
          /\ q'.rounds + Cardinality(q'.queue) <= Cardinality(V)
      BY <2>1, <2>5, <3>2
    <3> QED
      BY <2>2, <2>5, <3>1, <3>2, <3>3 DEF RoundsInv
  <2> QED
    BY <2>4, <2>5 DEF Continues
<1> QED
  BY <1>3, <1>4, <1>5 DEF SearchInv

LEMMA ExpandSearchInv ==
  ASSUME SearchInv, Shaped, ask' = ask, req' = req, ask.op = "GetTransitive",
         at # "Done", reply = "none", NEW deps, IsFiniteSet(deps), Expand(deps),
         \A k \in deps : \E k0 \in q.result \cup {Root} : Declared(k, k0)
  PROVE  SearchInv'
<1>0. /\ \A k \in q.result : \E k0 \in q.result \cup {Root} : Declared(k, k0)
      /\ q.queue \subseteq q.result /\ q.queue \subseteq q.visited
      /\ IsFiniteSet(q.queue) /\ IsFiniteSet(q.visited) /\ q.rounds \in Nat
      /\ q.direct => q.rounds = 0 /\ q.queue = {} /\ q.result = {}
      /\ q.rounds + Cardinality(q.queue) <= Cardinality(q.visited)
  BY DEF SearchInv, DeclaredInv, RoundsInv
<1>1. CASE q.direct
  <2>1. PICK V : V = deps \cup {Key(ask.name, ask.tag)}
    OBVIOUS
  <2>2. IsFiniteSet(V) /\ Cardinality(deps) <= Cardinality(V) /\ deps \subseteq V
    <3>1. IsFiniteSet(V) /\ deps \in SUBSET V
      BY <2>1, FS_AddElement
    <3> QED
      BY <3>1, FS_Subset
  <2>3. V = {Key(ask.name, ask.tag)} \cup deps
    BY <2>1
  <2>4. Continues(deps, V, deps)
    BY <1>1, <2>3, ExpandContinues
  <2>5. q.rounds + Cardinality(deps) <= Cardinality(V)
    BY <1>0, <1>1, <2>2, FS_CardinalityType
  <2> QED
    BY <1>0, <1>1, <2>2, <2>4, <2>5, ContinuesSearchInv
<1>2. CASE ~q.direct
  <2> DEFINE new == deps \ q.visited
             Q == q.queue \cup new
             V == q.visited \cup deps
             R == q.result \cup new
  <2>1. Continues(Q, V, R)
    BY <1>2, ExpandContinues
  <2>2. V = q.visited \cup new
    OBVIOUS
  <2>3. IsFiniteSet(new) /\ new \subseteq deps
    BY FS_Subset
  <2>4. /\ IsFiniteSet(Q)
        /\ Cardinality(Q) = Cardinality(q.queue) + Cardinality(new)
                            - Cardinality(q.queue \cap new)
    BY <1>0, <2>3, FS_Union
  <2>5. /\ IsFiniteSet(V)
        /\ Cardinality(V) = Cardinality(q.visited) + Cardinality(new)
                            - Cardinality(q.visited \cap new)
    BY <1>0, <2>2, <2>3, FS_Union
  <2>6. q.visited \cap new = {} /\ q.queue \cap new = {}
    BY <1>0
  <2>7. /\ Cardinality(q.queue) \in Nat /\ Cardinality(new) \in Nat
        /\ Cardinality(q.visited) \in Nat /\ Cardinality({}) = 0
    BY <1>0, <2>3, FS_CardinalityType, FS_EmptySet
  <2>8. q.rounds + Cardinality(Q) <= Cardinality(V)
    <3>1. /\ Cardinality(q.queue \cap new) = 0
          /\ Cardinality(q.visited \cap new) = 0
      BY <2>6, <2>7
    <3> HIDE DEF new, Q, V
    <3> QED
      BY <1>0, <2>4, <2>5, <2>7, <3>1
  <2>9. \A k \in R : \E k0 \in R \cup {Root} : Declared(k, k0)
    BY <1>0
  <2>10. Q \subseteq R /\ Q \subseteq V
    BY <1>0, <2>2
  <2> HIDE DEF new, Q, V, R
  <2> QED
    BY <1>0, <1>2, <2>1, <2>4, <2>5, <2>8, <2>9, <2>10, ContinuesSearchInv
<1> QED
  BY <1>1, <1>2

LEMMA ExpandFailsSearchInv ==
  ASSUME SearchInv, Shaped, ask' = ask, req' = req, ask.op = "GetTransitive",
         reply = "none", NEW status, ExpandFails(status)
  PROVE  SearchInv'
<1>1. CASE q.direct
  <2>1. q' = q /\ at' = "Done"
    BY <1>1, ExpandFailsContinues
  <2>2. \A k, k0 : Declared(k, k0)' <=> Declared(k, k0)
    BY RequestsKept
  <2>3. Root' = Root
    BY <2>1 DEF Root, Key
  <2> QED
    BY <1>1, <2>1, <2>2, <2>3 DEF SearchInv, CurrentTag, DeclaredInv, RoundsInv, Searching
<1>2. CASE ~q.direct
  <2>1. Continues(q.queue, q.visited, q.result)
    BY <1>2, ExpandFailsContinues
  <2> QED
    BY <1>2, <2>1, ContinuesSearchInv DEF SearchInv, DeclaredInv, RoundsInv
<1> QED
  BY <1>1, <1>2

\* The two ends of a dependency row, as the keys of tags.
LEMMA DependencyDeclared ==
  ASSUME AnswersInv, NEW d \in dependencies
  PROVE  /\ d.tag_id \in Client /\ d.dependency_tag_id \in Client
         /\ Committed(d.dependency_tag_id)
         /\ Declared(KeyOf(d.dependency_tag_id), KeyOf(d.tag_id))
<1>0. /\ d.tag_id \in Client /\ d.dependency_tag_id \in Client
      /\ req \in [Client -> Request]
  BY DEF AnswersInv, SafetyInv, TypeInv, TablesOK, HandlersOK
<1>1. Committed(d.dependency_tag_id)
  BY DEF AnswersInv, DependenciesFrom
<1>2. PICK p \in Client :
        /\ req[p].op = "Push" /\ SameTag(p, d.tag_id)
        /\ \E j \in DOMAIN req[p].deps : IsPushOf(d.dependency_tag_id, req[p].deps[j])
  BY DEF AnswersInv, DependenciesFrom
<1>3. PICK j \in DOMAIN req[p].deps : IsPushOf(d.dependency_tag_id, req[p].deps[j])
  BY <1>2
<1>4. req[p].deps[j] \in Dependency
  BY <1>0 DEF Request
<1>5. req[p].deps[j] = KeyOf(d.dependency_tag_id)
  BY <1>3, <1>4 DEF IsPushOf, Dependency, KeyOf, Key
<1>6. KeyOf(p) = KeyOf(d.tag_id)
  BY <1>2 DEF SameTag, KeyOf, Key
<1> QED
  BY <1>0, <1>1, <1>2, <1>5, <1>6 DEF Declared, Elements

\* A tag that is joined with its module has the key of its push.
LEMMA JoinedKey ==
  ASSUME SafetyInv, NEW t \in tags, NEW m \in modules, m.id = t.module_id
  PROVE  /\ t.id \in Client /\ Committed(t.id) /\ t \in TagRows(m.name, t.tag)
         /\ KeyOf(t.id) = Key(m.name, t.tag)
<1>1. t \in TagsOfName(m.name)
  BY DEF TagsOfName, ModulesNamed
<1> QED
  BY <1>1, TagOfName DEF TagRows, KeyOf

LEMMA SearchStepSearchInv ==
  ASSUME SearchInv, AnswersInv, ControlInv, ControlInv', QueryStep,
         ask.op = "GetTransitive"
  PROVE  SearchInv'
<1>0. /\ Shaped /\ OwnQuery /\ OwnQuery' /\ SafetyInv
      /\ ask' = ask /\ req' = req /\ pc' = pc
  BY DEF ControlInv, QueryStep, AnswersInv, vars
<1>1. /\ \A x : KeyOf(x)' = KeyOf(x)
      /\ \A k, k0 : Declared(k, k0)' <=> Declared(k, k0)
      /\ \A p : Committed(p)' <=> Committed(p)
  BY <1>0, RequestsKept DEF Committed
<1>2. ASSUME q'.queue = q.queue,
             q'.result = q.result, q'.visited = q.visited, q'.rounds = q.rounds,
             q'.direct <=> q.direct, q'.deps = q.deps, CurrentTag',
             at # "Done", at' # "Done", at' # "DepsResolve", q.deps = {},
             q'.tag = q.tag \/ q.result = {}
      PROVE  SearchInv'
  <2>1. q.tag = q'.tag => Root' = Root
    BY <1>0 DEF Root, Key
  <2>2. DeclaredInv'
    BY <1>0, <1>1, <1>2, <2>1 DEF SearchInv, DeclaredInv, OwnQuery
  <2>3. RoundsInv'
    BY <1>2 DEF SearchInv, RoundsInv
  <2> QED
    BY <1>2, <2>2, <2>3 DEF SearchInv
<1>3. CASE DepsLatestTag
  <2>0. at = "GetTransitive" /\ reply = "none" /\ q.deps = {} /\ q.direct
        /\ q.result = {}
    BY <1>3 DEF DepsLatestTag, Asks, SearchInv, CurrentTag, DeclaredInv
  <2>1. CASE Expand({})
    BY <1>0, <2>0, <2>1, ExpandSearchInv, FS_EmptySet
  <2>2. ASSUME NEW t, Then("DepsTagId"),
               q' = [q EXCEPT !.cur = Key(ask.name, t.tag), !.tag = t.tag]
        PROVE  SearchInv'
    <3>1. /\ q'.cur = Key(ask.name, t.tag) /\ q'.tag = t.tag /\ q'.queue = q.queue
          /\ q'.result = q.result /\ q'.visited = q.visited /\ q'.rounds = q.rounds
          /\ q'.direct <=> q.direct
          /\ q'.deps = q.deps
      BY <1>0, <2>2 DEF Shaped
    <3>2. CurrentTag'
      BY <1>0, <2>0, <2>2, <3>1 DEF CurrentTag, Then, Searching, Root
    <3> QED
      BY <1>2, <2>0, <2>2, <3>1, <3>2 DEF Then
  <2> QED
    BY <1>3, <2>1, <2>2, Zenon DEF DepsLatestTag
<1>4. CASE DepsTagId
  <2>0. /\ at \in {"GetTransitive", "DepsTagId"} /\ reply = "none" /\ q.deps = {}
        /\ q.direct => q.result = {}
    BY <1>4 DEF DepsTagId, Asks, SearchInv, DeclaredInv
  <2>1. ASSUME ExpandFails("tag not found") PROVE SearchInv'
    BY <1>0, <2>0, <2>1, ExpandFailsSearchInv
  <2>2. ASSUME NEW k, k = (IF at = "GetTransitive" THEN Key(ask.name, ask.tag) ELSE q.cur),
               NEW t \in TagRows(k.name, k.tag), Then("DepsRows"),
               q' = [q EXCEPT !.cur = k, !.tag_id = t.id]
        PROVE  SearchInv'
    <3>1. /\ q'.cur = k /\ q'.tag = q.tag /\ q'.queue = q.queue /\ q'.tag_id = t.id
          /\ q'.result = q.result /\ q'.visited = q.visited /\ q'.rounds = q.rounds
          /\ q'.direct <=> q.direct
          /\ q'.deps = q.deps
      BY <1>0, <2>2 DEF Shaped
    <3>2. IF q.direct THEN k = Root ELSE k \in q.result
      BY <2>0, <2>2 DEF SearchInv, CurrentTag, Searching, Root
    <3>3. t.id \in Client /\ Committed(t.id) /\ req[t.id].name = k.name
          /\ req[t.id].tag = k.tag
      BY <1>0, TagOfName DEF TagRows
    <3>4. k = Key(k.name, k.tag)
      <4>1. CASE k = Root \/ k = Key(ask.name, ask.tag)
        BY <4>1 DEF Root, Key
      <4>2. CASE k \in q.result
        <5>1. PICK p \in Client : k \in Elements(req[p].deps)
          BY <4>2 DEF SearchInv, DeclaredInv, Declared
        <5>2. req[p].deps \in Seq(Dependency)
          BY <1>0 DEF SafetyInv, TypeInv, HandlersOK, Request
        <5>3. k \in Dependency
          BY <5>1, <5>2 DEF Elements
        <5> QED
          BY <5>3 DEF Dependency, Key
      <4> QED
        BY <3>2, <4>1, <4>2
    <3>5. KeyOf(t.id) = k
      BY <3>3, <3>4 DEF KeyOf
    <3>6. Root' = Root
      BY <1>0, <3>1 DEF Root, Key
    <3>7. CurrentTag'
      BY <1>0, <1>1, <2>2, <3>1, <3>2, <3>3, <3>5, <3>6 DEF CurrentTag, Then, Searching
    <3> QED
      BY <1>2, <2>0, <2>2, <3>1, <3>7 DEF Then
  <2> QED
    BY <1>4, <2>1, <2>2, Zenon DEF DepsTagId
<1>5. CASE DepsRows
  <2> DEFINE ids == {d.dependency_tag_id : d \in {e \in dependencies : e.tag_id = q.tag_id}}
  <2>0. /\ at = "DepsRows" /\ reply = "none" /\ q.deps = {} /\ KeyOf(q.tag_id) = q.cur
        /\ IF q.direct THEN q.cur = Root ELSE q.cur \in q.result
    BY <1>5 DEF DepsRows, Asks, SearchInv, CurrentTag, DeclaredInv, Searching
  <2>1. CASE Expand({})
    BY <1>0, <2>0, <2>1, ExpandSearchInv, FS_EmptySet
  <2>2. ASSUME NEW arrived \in SUBSET ids, Then("DepsResolve"),
               q' = [q EXCEPT !.rows = arrived]
        PROVE  SearchInv'
    <3>1. /\ q'.cur = q.cur /\ q'.tag = q.tag /\ q'.queue = q.queue
          /\ q'.rows = arrived
          /\ q'.result = q.result /\ q'.visited = q.visited /\ q'.rounds = q.rounds
          /\ q'.direct <=> q.direct
          /\ q'.deps = q.deps
      BY <1>0, <2>2 DEF Shaped
    <3>2. \A x \in ids : x \in Client /\ Committed(x) /\ Declared(KeyOf(x), q.cur)
      BY <2>0, DependencyDeclared
    <3>3. Root' = Root
      BY <1>0, <3>1 DEF Root, Key
    <3> HIDE DEF ids
    <3>4. CurrentTag'
      BY <1>0, <2>0, <2>2, <3>1, <3>2, <3>3 DEF CurrentTag, Then, Searching
    <3>5. DeclaredInv'
      BY <1>0, <1>1, <2>0, <2>2, <3>1, <3>2, <3>3
      DEF SearchInv, DeclaredInv, Then, OwnQuery
    <3>6. RoundsInv'
      BY <3>1 DEF SearchInv, RoundsInv
    <3> QED
      BY <3>4, <3>5, <3>6 DEF SearchInv
  <2>3. PICK arrived \in SUBSET ids :
          IF arrived = {} THEN Expand({})
          ELSE q' = [q EXCEPT !.rows = arrived] /\ Then("DepsResolve")
    BY <1>5 DEF DepsRows
  <2> QED
    BY <2>1, <2>2, <2>3
<1>6. CASE DepsResolve
  <2>0. /\ at = "DepsResolve" /\ reply = "none" /\ IsFiniteSet(q.deps)
        /\ IF q.direct THEN q.cur = Root ELSE q.cur \in q.result
        /\ \A x \in q.rows : Committed(x) /\ Declared(KeyOf(x), q.cur)
        /\ \A k \in q.deps : Declared(k, q.cur)
    BY <1>6 DEF DepsResolve, Asks, SearchInv, CurrentTag, DeclaredInv, RoundsInv, Searching
  <2>1. ASSUME ExpandFails("dependency not found") PROVE SearchInv'
    BY <1>0, <2>0, <2>1, ExpandFailsSearchInv
  <2>2. ASSUME NEW x \in q.rows, NEW t \in tags, NEW m \in modules, t.id = x,
               m.id = t.module_id
        PROVE  /\ IsFiniteSet(q.deps \cup {Key(m.name, t.tag)})
               /\ \A k \in q.deps \cup {Key(m.name, t.tag)} : Declared(k, q.cur)
    <3>1. KeyOf(x) = Key(m.name, t.tag)
      BY <1>0, <2>2, JoinedKey
    <3> QED
      BY <2>0, <2>2, <3>1, FS_AddElement
  <2>3. ASSUME NEW deps, IsFiniteSet(deps), \A k \in deps : Declared(k, q.cur),
               Expand(deps)
        PROVE  SearchInv'
    BY <1>0, <2>0, <2>3, ExpandSearchInv
  <2>4. ASSUME NEW deps, IsFiniteSet(deps), \A k \in deps : Declared(k, q.cur), NEW x,
               Then("DepsResolve"), q' = [q EXCEPT !.deps = deps, !.rows = @ \ {x}]
        PROVE  SearchInv'
    <3>1. /\ q'.cur = q.cur /\ q'.tag = q.tag /\ q'.queue = q.queue
          /\ q'.rows = q.rows \ {x}
          /\ q'.result = q.result /\ q'.visited = q.visited /\ q'.rounds = q.rounds
          /\ q'.direct <=> q.direct
          /\ q'.deps = deps
      BY <1>0, <2>4 DEF Shaped
    <3>2. Root' = Root
      BY <1>0, <3>1 DEF Root, Key
    <3>3. CurrentTag'
      BY <1>0, <2>0, <2>4, <3>1, <3>2 DEF SearchInv, CurrentTag, Then, Searching
    <3>4. DeclaredInv'
      BY <1>0, <1>1, <2>0, <2>4, <3>1, <3>2
      DEF SearchInv, DeclaredInv, Then, OwnQuery
    <3>5. RoundsInv'
      BY <2>4, <3>1 DEF SearchInv, RoundsInv
    <3> QED
      BY <3>3, <3>4, <3>5 DEF SearchInv
  <2> QED
    BY <1>6, <2>1, <2>2, <2>3, <2>4, Zenon DEF DepsResolve
<1>7. CASE StatementFails
  BY <1>0, <1>7, ExpandFailsSearchInv DEF StatementFails
<1> QED
  BY <1>0, <1>3, <1>4, <1>5, <1>6, <1>7 DEF QueryStep, GetModuleRow, GetTags, GetTagId,
     GetTagMeta, GetParsed, ListModules, Asks, OwnQuery

LEMMA NextSearchInv ==
  ASSUME SearchInv, AnswersInv, ControlInv, ControlInv', [QueryNext]_QueryVars
  PROVE  SearchInv'
<1>1. CASE QueryStep
  BY <1>1, OtherQueriesSearchInv, SearchStepSearchInv
<1>2. CASE RegistryStep \/ UNCHANGED QueryVars
  BY <1>2, OthersSearchInv DEF RegistryStep, QueryVars, qvars
<1>3. CASE \E r \in Run : DaemonStep(r)
  BY <1>3, OthersSearchInv DEF DaemonStep
<1> QED
  BY <1>1, <1>2, <1>3 DEF QueryNext

LEMMA SearchInvariant == QuerySpec => []SearchInv
<1>1. SearchInv /\ AnswersInv /\ ControlInv /\ ControlInv' /\ [QueryNext]_QueryVars
      => SearchInv'
  BY NextSearchInv
<1> QED
  BY <1>1, InitSearchInv, QueryAnswersInv, PackagesInvariant, PTL
  DEF QuerySpec, QueryVars

\* For every workload and whatever is pushed or deleted between its statements,
\* GetTransitiveDependencies answers only dependencies that a push of the tag
\* asked for, or of a tag it answers too, has declared.
THEOREM TransitiveWereDeclared == QuerySpec => []TransitiveDeclared
<1>1. SearchInv => TransitiveDeclared
  BY DEF SearchInv, DeclaredInv, Declared, KeyOf, TransitiveDeclared
<1> QED
  BY <1>1, SearchInvariant, PTL

\* For every graph of dependencies, cycles included, and every change of it
\* meanwhile, the search reads the dependencies of each tag at most once.
THEOREM SearchReadsOnce == QuerySpec => []RoundsBounded
<1>1. SearchInv => RoundsBounded
  <2> SUFFICES ASSUME SearchInv PROVE RoundsBounded
    OBVIOUS
  <2>1. /\ q.rounds \in Nat /\ IsFiniteSet(q.queue) /\ IsFiniteSet(q.visited)
        /\ q.rounds + Cardinality(q.queue) <= Cardinality(q.visited)
    BY DEF SearchInv, RoundsInv
  <2> QED
    BY <2>1, FS_CardinalityType DEF RoundsBounded
<1> QED
  BY <1>1, SearchInvariant, PTL

-----------------------------------------------------------------------------
(* GetTransitiveDependencies finds only what can be reached, if nothing    *)
(* changes meanwhile, and all of it if it loses nothing.                   *)

NoDangling ==
  \A d \in dependencies : \E t \in tags, m \in modules :
    t.id = d.dependency_tag_id /\ m.id = t.module_id

\* The dependencies of the tag whose row has the id x.
DependencyKeys(x) ==
  {KeyOf(d.dependency_tag_id) : d \in {e \in dependencies : e.tag_id = x}}

\* The search has read what it was to read of the current tag.
ReadExact ==
  /\ at = "DepsRows" => \E t \in TagRows(q.cur.name, q.cur.tag) : t.id = q.tag_id
  /\ at = "DepsResolve" =>
       /\ DependenciesOf(q.cur) = q.deps \cup {KeyOf(x) : x \in q.rows}
       /\ \A x \in q.rows : \E d \in dependencies : d.dependency_tag_id = x

\* A search from r with the initial key k0 has visited V and found R: all of it
\* can be reached, and what has not been followed yet is in P.
FoundWith(r, k0, V, R, P) ==
  /\ V = {k0} \cup R
  /\ DependenciesOf(r) \subseteq R
  /\ k0 \in R => k0 \in DependenciesOf(r)
  /\ R \subseteq ReachableFrom(r)
  /\ \A k \in R : /\ TagRows(k.name, k.tag) # {}
                  /\ k \in P \/ DependenciesOf(k) \subseteq V

FoundExact ==
  FoundWith(Root, Key(ask.name, ask.tag), q.visited, q.result,
            q.queue \cup IF Searching THEN {q.cur} ELSE {})

ExactInv ==
  ask.op = "GetTransitive" /\ at # "GetTransitive" /\ ~changed /\ ~lost /\ NoDangling =>
    /\ ReadExact
    /\ reply = "ok" \/ (reply = "none" /\ ~q.direct) => FoundExact

\* The same, of a search that may have lost rows or met dependencies that dangle:
\* what it has read are dependencies of the current tag, and what it has found
\* can be reached.
ReadSound ==
  /\ at \in {"DepsRows", "DepsResolve"} =>
       \E t \in TagRows(q.cur.name, q.cur.tag) : t.id = q.tag_id
  /\ at = "DepsResolve" =>
       /\ q.deps \subseteq DependenciesOf(q.cur)
       /\ \A x \in q.rows : \E d \in dependencies :
            d.tag_id = q.tag_id /\ d.dependency_tag_id = x

SoundWith(r, k0, V, R) ==
  /\ V = {k0} \cup R
  /\ k0 \in R => k0 \in DependenciesOf(r)
  /\ R \subseteq ReachableFrom(r)

FoundSound == SoundWith(Root, Key(ask.name, ask.tag), q.visited, q.result)

SoundInv ==
  ask.op = "GetTransitive" /\ at # "GetTransitive" /\ ~changed =>
    /\ ReadSound
    /\ reply = "ok" \/ (reply = "none" /\ ~q.direct) => FoundSound

\* A name and a tag find one row.
LEMMA OneRow ==
  ASSUME AnswersInv, UniqueNames, NEW n, NEW g,
         NEW t \in TagRows(n, g), NEW u \in TagRows(n, g)
  PROVE  t.id = u.id
<1>1. PICK m \in modules : m.name = n /\ m.id = t.module_id
  BY DEF TagRows, TagsOfName, ModulesNamed
<1>2. PICK o \in modules : o.name = n /\ o.id = u.module_id
  BY DEF TagRows, TagsOfName, ModulesNamed
<1>3. m = o
  BY <1>1, <1>2 DEF UniqueNames
<1> QED
  BY <1>1, <1>2, <1>3 DEF AnswersInv, SafetyInv, UniqueTags, TagRows, TagsOfName

\* What a row names, if it does not dangle, is a dependency.
LEMMA JoinedDependency ==
  ASSUME AnswersInv, NEW k, NEW x \in TagRows(k.name, k.tag),
         NEW e \in dependencies, e.tag_id = x.id,
         NEW t \in tags, NEW m \in modules, t.id = e.dependency_tag_id,
         m.id = t.module_id
  PROVE  KeyOf(e.dependency_tag_id) \in DependenciesOf(k)
<1>0. SafetyInv
  BY DEF AnswersInv
<1>2. t \in TagRows(m.name, t.tag) /\ KeyOf(t.id) = Key(m.name, t.tag)
  BY <1>0, JoinedKey
<1>3. e = [tag_id |-> x.id, dependency_tag_id |-> t.id]
  BY <1>0 DEF SafetyInv, TypeInv, TablesOK
<1>4. PICK d : d = Key(m.name, t.tag)
  OBVIOUS
<1>5. d.name = m.name /\ d.tag = t.tag
  BY <1>4 DEF Key
<1>6. d \in TagKeys
  BY <1>2, <1>4 DEF TagKeys, TagRows
<1>7. d \in DependenciesOf(k)
  BY <1>2, <1>3, <1>5, <1>6 DEF DependenciesOf
<1> QED
  BY <1>2, <1>4, <1>7

\* The dependencies of a tag are those of the rows that the search reads.
LEMMA DependenciesOfRow ==
  ASSUME AnswersInv, UniqueNames, NoDangling, NEW k, NEW x \in TagRows(k.name, k.tag)
  PROVE  DependenciesOf(k) = DependencyKeys(x.id)
<1>0. SafetyInv
  BY DEF AnswersInv
<1>1. ASSUME NEW d \in DependenciesOf(k) PROVE d \in DependencyKeys(x.id)
  <2>1. \E n, g : d = Key(n, g)
    BY <1>1 DEF DependenciesOf, TagKeys
  <2>2. PICK u \in TagRows(k.name, k.tag), y \in TagRows(d.name, d.tag) :
          [tag_id |-> u.id, dependency_tag_id |-> y.id] \in dependencies
    BY <1>1 DEF DependenciesOf
  <2>3. u.id = x.id
    BY <2>2, OneRow
  <2>4. KeyOf(y.id) = Key(d.name, d.tag)
    BY <1>0, <2>2, TagOfName DEF TagRows, KeyOf
  <2>5. KeyOf(y.id) = d
    BY <2>1, <2>4 DEF Key
  <2>6. PICK e \in dependencies : e.tag_id = x.id /\ e.dependency_tag_id = y.id
    BY <2>2, <2>3
  <2> QED
    BY <2>5, <2>6 DEF DependencyKeys
<1>2. ASSUME NEW e \in dependencies, e.tag_id = x.id
      PROVE  KeyOf(e.dependency_tag_id) \in DependenciesOf(k)
  BY <1>2, JoinedDependency DEF NoDangling
<1>3. DependencyKeys(x.id) \subseteq DependenciesOf(k)
  BY <1>2 DEF DependencyKeys
<1> QED
  BY <1>1, <1>3

LEMMA DependenciesAreTags ==
  ASSUME NEW k
  PROVE  /\ DependenciesOf(k) \subseteq TagKeys
         /\ \A d \in DependenciesOf(k) : TagRows(d.name, d.tag) # {}
         /\ TagRows(k.name, k.tag) = {} => DependenciesOf(k) = {}
<1>1. DependenciesOf(k) \subseteq TagKeys
  BY DEF DependenciesOf
<1>2. ASSUME NEW d \in DependenciesOf(k)
      PROVE  \E x \in TagRows(k.name, k.tag), y \in TagRows(d.name, d.tag) :
               [tag_id |-> x.id, dependency_tag_id |-> y.id] \in dependencies
  BY <1>2 DEF DependenciesOf
<1> QED
  BY <1>1, <1>2

\* What can be reached holds the dependencies of the root and of its members,
\* and is in every set that does.
Closed(r, S) ==
  DependenciesOf(r) \subseteq S /\ \A y \in S : DependenciesOf(y) \subseteq S

LEMMA ReachableClosed ==
  ASSUME NEW r
  PROVE  /\ ReachableFrom(r) \subseteq TagKeys
         /\ Closed(r, ReachableFrom(r))
         /\ \A S \in SUBSET TagKeys : Closed(r, S) => ReachableFrom(r) \subseteq S
<1>1. ReachableFrom(r) = {x \in TagKeys : \A S \in SUBSET TagKeys : Closed(r, S) => x \in S}
  BY DEF ReachableFrom, Closed
<1>2. DependenciesOf(r) \subseteq ReachableFrom(r)
  BY <1>1, DependenciesAreTags DEF Closed
<1>3. ASSUME NEW y \in ReachableFrom(r), NEW d \in DependenciesOf(y)
      PROVE  d \in ReachableFrom(r)
  <2>1. d \in TagKeys
    BY <1>3, DependenciesAreTags
  <2>2. ASSUME NEW S \in SUBSET TagKeys, Closed(r, S) PROVE d \in S
    BY <1>1, <1>3, <2>2 DEF Closed
  <2> QED
    BY <1>1, <2>1, <2>2
<1> QED
  BY <1>1, <1>2, <1>3 DEF Closed

LEMMA FoundDirect ==
  ASSUME NEW r, NEW k0
  PROVE  FoundWith(r, k0, {k0} \cup DependenciesOf(r), DependenciesOf(r),
                   DependenciesOf(r))
  BY ReachableClosed, DependenciesAreTags DEF FoundWith, Closed

LEMMA FoundMore ==
  ASSUME NEW r, NEW k0, NEW V, NEW R, NEW P, NEW Q, NEW c \in R,
         FoundWith(r, k0, V, R, P), P \subseteq Q \cup {c}
  PROVE  LET new == DependenciesOf(c) \ V
         IN  FoundWith(r, k0, V \cup DependenciesOf(c), R \cup new, Q \cup new)
<1> DEFINE new == DependenciesOf(c) \ V
<1>1. new \subseteq ReachableFrom(r)
  BY ReachableClosed DEF FoundWith, Closed
<1>2. \A k \in new : TagRows(k.name, k.tag) # {}
  BY DependenciesAreTags
<1>3. V \cup DependenciesOf(c) = {k0} \cup (R \cup new)
  BY DEF FoundWith
<1>4. k0 \notin new
  BY DEF FoundWith
<1>5. ASSUME NEW k \in R
      PROVE  k \in Q \cup new \/ DependenciesOf(k) \subseteq V \cup DependenciesOf(c)
  BY DEF FoundWith
<1> QED
  BY <1>1, <1>2, <1>3, <1>4, <1>5 DEF FoundWith

\* No tag is empty.
LEMMA NoEmptyTag ==
  ASSUME AnswersInv, NEW n
  PROVE  Key(n, "") \notin TagKeys /\ TagRows(n, "") = {}
<1>1. ASSUME NEW t \in tags PROVE t.tag # ""
  <2>1. t.id \in Client /\ Committed(t.id) /\ t.tag = req[t.id].tag
    BY DEF AnswersInv, SafetyInv, TypeInv, TablesOK, Provenance, TagsFrom
  <2>2. Validated(t.id)
    BY <2>1 DEF AnswersInv, HandlerInv
  <2> QED
    BY <2>1, <2>2 DEF Validated, Committed, Valid
<1>2. ASSUME NEW m \in modules, NEW t \in TagsOfName(m.name)
      PROVE  Key(m.name, t.tag) # Key(n, "")
  BY <1>1 DEF Key, TagsOfName
<1>3. Key(n, "") \notin TagKeys
  BY <1>2 DEF TagKeys
<1> QED
  BY <1>1, <1>3 DEF TagRows, TagsOfName

\* The search is over: nothing is left to follow.
LEMMA FoundAll ==
  ASSUME AnswersInv, NEW n, NEW g, NEW h, NEW V, NEW R,
         g = h \/ g = "",
         FoundWith(Key(n, h), Key(n, g), V, R, {})
  PROVE  R = (ReachableFrom(Key(n, h)) \ {Key(n, g)}) \cup DependenciesOf(Key(n, h))
<1> DEFINE r == Key(n, h)
           k0 == Key(n, g)
           S == V \cap TagKeys
<1>1. /\ V = {k0} \cup R /\ DependenciesOf(r) \subseteq R
      /\ k0 \in R => k0 \in DependenciesOf(r)
      /\ R \subseteq ReachableFrom(r)
      /\ \A k \in R : DependenciesOf(k) \subseteq V
  BY DEF FoundWith
<1>2. k0 \in TagKeys => k0 = r
  BY NoEmptyTag
<1>3. Closed(r, S)
  <2>1. DependenciesOf(r) \subseteq S
    BY <1>1, DependenciesAreTags
  <2>2. ASSUME NEW y \in S PROVE DependenciesOf(y) \subseteq S
    BY <1>1, <1>2, <2>1, DependenciesAreTags
  <2> QED
    BY <2>1, <2>2 DEF Closed
<1>4. ReachableFrom(r) \subseteq S
  BY <1>3, ReachableClosed
<1> QED
  BY <1>1, <1>4

\* Nothing that the exactness of the search speaks of has changed.
LEMMA SameGraph ==
  ASSUME UNCHANGED <<modules, tags, dependencies, req>>
  PROVE  /\ NoDangling' <=> NoDangling
         /\ \A n, g : TagRows(n, g)' = TagRows(n, g)
         /\ \A k : DependenciesOf(k)' = DependenciesOf(k)
         /\ \A x : KeyOf(x)' = KeyOf(x) /\ DependencyKeys(x)' = DependencyKeys(x)
         /\ \A r, k0, V, R, P : FoundWith(r, k0, V, R, P)' <=> FoundWith(r, k0, V, R, P)
         /\ \A r, k0, V, R : SoundWith(r, k0, V, R)' <=> SoundWith(r, k0, V, R)
<1>1. NoDangling' <=> NoDangling
  BY DEF NoDangling
<1>2. \A n : TagsOfName(n)' = TagsOfName(n)
  BY DEF TagsOfName, ModulesNamed
<1>3. \A n, g : TagRows(n, g)' = TagRows(n, g)
  BY <1>2 DEF TagRows
<1>4. TagKeys' = TagKeys
  BY <1>2 DEF TagKeys, Key
<1>5. \A k : DependenciesOf(k)' = DependenciesOf(k)
  BY <1>3, <1>4 DEF DependenciesOf
<1>6. \A k : ReachableFrom(k)' = ReachableFrom(k)
  BY <1>4, <1>5 DEF ReachableFrom
<1>7. \A x : KeyOf(x)' = KeyOf(x)
  BY DEF KeyOf, Key
<1>8. \A x : DependencyKeys(x)' = DependencyKeys(x)
  BY <1>7 DEF DependencyKeys
<1>9. ASSUME NEW r, NEW k0, NEW V, NEW R, NEW P
      PROVE  FoundWith(r, k0, V, R, P)' <=> FoundWith(r, k0, V, R, P)
  BY <1>3, <1>5, <1>6 DEF FoundWith
<1>10. ASSUME NEW r, NEW k0, NEW V, NEW R
       PROVE  SoundWith(r, k0, V, R)' <=> SoundWith(r, k0, V, R)
  BY <1>3, <1>5, <1>6 DEF SoundWith
<1> QED
  BY <1>1, <1>3, <1>5, <1>7, <1>8, <1>9, <1>10

LEMMA OthersExactInv ==
  ASSUME ExactInv, UNCHANGED <<ask, at, reply, q, req, lost>>,
         \/ UNCHANGED <<modules, tags, dependencies>> /\ (changed => changed')
         \/ changed' \/ ask.op # "GetTransitive" \/ at = "GetTransitive"
  PROVE  ExactInv'
<1> SUFFICES ASSUME ask.op = "GetTransitive", at # "GetTransitive", ~changed', ~lost,
                    NoDangling'
             PROVE  /\ ReadExact'
                    /\ reply = "ok" \/ (reply = "none" /\ ~q.direct) => FoundExact'
  BY DEF ExactInv
<1>1. UNCHANGED <<modules, tags, dependencies, req>> /\ ~changed
  OBVIOUS
<1>2. /\ ReadExact
      /\ reply = "ok" \/ (reply = "none" /\ ~q.direct) => FoundExact
  BY <1>1, SameGraph DEF ExactInv
<1>3. ReadExact'
  <2>1. PICK c : c = q.cur
    OBVIOUS
  <2> QED
    BY <1>1, <1>2, <2>1, SameGraph DEF ReadExact
<1>4. ASSUME FoundExact PROVE FoundExact'
  <2>1. PICK r, k0, V, R, P :
          /\ r = Root /\ k0 = Key(ask.name, ask.tag) /\ V = q.visited /\ R = q.result
          /\ P = q.queue \cup IF Searching THEN {q.cur} ELSE {}
    OBVIOUS
  <2>2. /\ r = Root' /\ k0 = Key(ask.name, ask.tag)' /\ V = q'.visited /\ R = q'.result
        /\ P = (q.queue \cup IF Searching THEN {q.cur} ELSE {})'
    BY <2>1 DEF Root, Key, Searching
  <2> QED
    BY <1>1, <1>4, <2>1, <2>2, SameGraph DEF FoundExact
<1> QED
  BY <1>2, <1>3, <1>4

LEMMA ContinuesExactInv ==
  ASSUME UNCHANGED <<modules, tags, dependencies, req, ask>>,
         NEW Q, NEW V, NEW R, Continues(Q, V, R),
         FoundWith(Root, Key(ask.name, ask.tag), V, R, Q)
  PROVE  ReadExact' /\ FoundExact'
<1>1. at' \in {"Done", "DepsTagId"}
  BY DEF Continues
<1>2. Q = (q.queue \cup IF Searching THEN {q.cur} ELSE {})'
  BY DEF Continues, Searching
<1>3. PICK r, k0 : r = Root /\ k0 = Key(ask.name, ask.tag)
  OBVIOUS
<1>4. r = Root' /\ k0 = Key(ask.name, ask.tag)' /\ V = q'.visited /\ R = q'.result
  BY <1>3 DEF Root, Key, Continues
<1>5. FoundWith(r, k0, V, R, Q)'
  BY <1>3, SameGraph
<1> QED
  BY <1>1, <1>2, <1>4, <1>5 DEF ReadExact, FoundExact

LEMMA ExpandExactInv ==
  ASSUME Shaped, UNCHANGED <<modules, tags, dependencies, req, ask>>,
         NEW deps, Expand(deps),
         IF q.direct THEN deps = DependenciesOf(Root)
         ELSE /\ Searching /\ FoundExact /\ q.cur \in q.result
              /\ deps = DependenciesOf(q.cur)
  PROVE  ReadExact' /\ FoundExact'
<1>1. PICK k0 : k0 = Key(ask.name, ask.tag)
  OBVIOUS
<1>2. CASE q.direct
  <2>1. Continues(deps, {k0} \cup deps, deps)
    BY <1>1, <1>2, ExpandContinues
  <2>2. FoundWith(Root, k0, {k0} \cup deps, deps, deps)
    BY <1>2, FoundDirect
  <2> QED
    BY <1>1, <2>1, <2>2, ContinuesExactInv
<1>3. CASE ~q.direct
  <2>1. Continues(q.queue \cup (deps \ q.visited), q.visited \cup deps,
                  q.result \cup (deps \ q.visited))
    BY <1>3, ExpandContinues
  <2>2. FoundWith(Root, k0, q.visited, q.result, q.queue \cup {q.cur})
    BY <1>1, <1>3 DEF FoundExact
  <2>3. FoundWith(Root, k0, q.visited \cup deps, q.result \cup (deps \ q.visited),
                  q.queue \cup (deps \ q.visited))
    BY <1>3, <2>2, FoundMore
  <2> QED
    BY <1>1, <2>1, <2>3, ContinuesExactInv
<1> QED
  BY <1>2, <1>3

\* The search reads a statement more of the current tag.
LEMMA SameFound ==
  ASSUME UNCHANGED <<modules, tags, dependencies, req, ask>>, FoundExact,
         Searching, Searching', q'.cur = q.cur, q'.queue = q.queue,
         q'.visited = q.visited, q'.result = q.result, q'.tag = q.tag
  PROVE  FoundExact'
<1>1. PICK r, k0, V, R, P :
        /\ r = Root /\ k0 = Key(ask.name, ask.tag) /\ V = q.visited /\ R = q.result
        /\ P = q.queue \cup IF Searching THEN {q.cur} ELSE {}
  OBVIOUS
<1>2. /\ r = Root' /\ k0 = Key(ask.name, ask.tag)' /\ V = q'.visited /\ R = q'.result
      /\ P = (q.queue \cup IF Searching THEN {q.cur} ELSE {})'
  BY <1>1 DEF Root, Key
<1> QED
  BY <1>1, <1>2, SameGraph DEF FoundExact

LEMMA SearchStepExactInv ==
  ASSUME ExactInv, SearchInv, UniqueNames, AnswersInv, ControlInv, QueryStep,
         ask.op = "GetTransitive"
  PROVE  ExactInv'
<1>0. /\ Shaped /\ OwnQuery /\ SafetyInv
      /\ UNCHANGED <<modules, tags, dependencies, req, ask, changed>>
  BY DEF ControlInv, QueryStep, AnswersInv, vars
<1>6. lost => lost'
  BY DEF QueryStep, GetModuleRow, GetTags, GetTagId, GetTagMeta, GetParsed,
     DepsLatestTag, DepsTagId, DepsRows, DepsResolve, ListModules, StatementFails
<1> SUFFICES ASSUME at' # "GetTransitive", ~changed, NoDangling, ~lost, ~lost'
             PROVE  /\ ReadExact'
                    /\ reply' = "ok" \/ (reply' = "none" /\ ~q'.direct) => FoundExact'
  BY <1>0, <1>6, SameGraph DEF ExactInv
<1>1. /\ at # "GetTransitive" => ReadExact
      /\ at # "GetTransitive" /\ reply = "none" /\ ~q.direct => FoundExact
  BY DEF ExactInv
<1>2. CASE DepsLatestTag
  <2>0. /\ at = "GetTransitive" /\ reply = "none" /\ q.direct /\ q.tag = "" /\ ask.tag = ""
    BY <1>2 DEF DepsLatestTag, Asks, SearchInv, CurrentTag
  <2>1. CASE Expand({})
    <3>1. TagRows(ask.name, "") = {}
      BY NoEmptyTag
    <3>2. DependenciesOf(Root) = {}
      BY <2>0, <3>1, DependenciesAreTags DEF Root, Key
    <3> QED
      BY <1>0, <2>0, <2>1, <3>2, ExpandExactInv
  <2>2. ASSUME NEW t, Then("DepsTagId"),
               q' = [q EXCEPT !.cur = Key(ask.name, t.tag), !.tag = t.tag]
        PROVE  at' = "DepsTagId" /\ reply' = "none" /\ q'.direct
    BY <1>0, <2>0, <2>2 DEF Then, Shaped
  <2> QED
    BY <1>2, <2>1, <2>2 DEF DepsLatestTag, ReadExact
<1>3. CASE DepsTagId
  <2>0. /\ at \in {"GetTransitive", "DepsTagId"} /\ reply = "none"
        /\ ~q.direct => at = "DepsTagId" /\ q.cur \in q.result
    BY <1>3 DEF DepsTagId, Asks, SearchInv, CurrentTag, Searching
  <2>1. PICK k : k = IF at = "GetTransitive" THEN Key(ask.name, ask.tag) ELSE q.cur
    OBVIOUS
  <2>2. CASE TagRows(k.name, k.tag) = {} /\ ExpandFails("tag not found")
    <3>1. CASE q.direct
      <4>1. at' = "Done" /\ reply' = "tag not found"
        BY <1>0, <2>2, <3>1, ExpandFailsContinues
      <4> QED
        BY <4>1 DEF ReadExact
    <3>2. CASE ~q.direct
      <4>1. FoundExact /\ q.cur \in q.result /\ k = q.cur
        BY <1>1, <2>0, <2>1, <3>2
      <4>2. TagRows(k.name, k.tag) # {}
        BY <4>1 DEF FoundExact, FoundWith
      <4> QED
        BY <2>2, <4>2
    <3> QED
      BY <3>1, <3>2
  <2>3. ASSUME NEW t \in TagRows(k.name, k.tag), Then("DepsRows"),
               q' = [q EXCEPT !.cur = k, !.tag_id = t.id]
        PROVE  /\ ReadExact'
               /\ reply' = "ok" \/ (reply' = "none" /\ ~q'.direct) => FoundExact'
    <3>1. /\ q'.cur = k /\ q'.tag_id = t.id /\ q'.queue = q.queue /\ q'.tag = q.tag
          /\ q'.visited = q.visited /\ q'.result = q.result
          /\ q'.direct <=> q.direct
          /\ at' = "DepsRows" /\ reply' = reply
      BY <1>0, <2>3 DEF Shaped, Then
    <3>2. t \in TagRows(k.name, k.tag)'
      BY <1>0, <2>3, SameGraph
    <3>3. ReadExact'
      BY <3>1, <3>2 DEF ReadExact
    <3>4. ASSUME ~q.direct PROVE FoundExact'
      BY <1>0, <1>1, <2>0, <2>1, <3>1, <3>4, SameFound DEF Searching
    <3> QED
      BY <2>0, <3>1, <3>3, <3>4
  <2> QED
    BY <1>3, <2>1, <2>2, <2>3, Zenon DEF DepsTagId
<1>4. CASE DepsRows
  <2> DEFINE ids == {d.dependency_tag_id : d \in {e \in dependencies : e.tag_id = q.tag_id}}
  <2>0. /\ at = "DepsRows" /\ reply = "none" /\ Searching /\ q.deps = {}
        /\ IF q.direct THEN q.cur = Root ELSE FoundExact /\ q.cur \in q.result
        /\ ReadExact
    BY <1>1, <1>4 DEF DepsRows, Asks, SearchInv, CurrentTag, DeclaredInv, Searching
  <2>1. PICK t \in TagRows(q.cur.name, q.cur.tag) : t.id = q.tag_id
    BY <2>0 DEF ReadExact
  <2>2. DependenciesOf(q.cur) = DependencyKeys(q.tag_id)
    BY <2>1, DependenciesOfRow
  <2>3. DependencyKeys(q.tag_id) = {KeyOf(x) : x \in ids}
    BY DEF DependencyKeys
  <2>4. CASE ids = {} /\ Expand({})
    <3>1. DependenciesOf(q.cur) = {}
      BY <2>2, <2>3, <2>4
    <3> QED
      BY <1>0, <2>0, <2>4, <3>1, ExpandExactInv
  <2>5. CASE Then("DepsResolve") /\ q' = [q EXCEPT !.rows = ids]
    <3>1. /\ q'.cur = q.cur /\ q'.rows = ids /\ q'.queue = q.queue /\ q'.tag = q.tag
          /\ q'.visited = q.visited /\ q'.result = q.result /\ q'.deps = q.deps
          /\ q'.direct <=> q.direct
          /\ at' = "DepsResolve" /\ reply' = reply
      BY <1>0, <2>5 DEF Shaped, Then
    <3>2. \A x \in ids : \E d \in dependencies : d.dependency_tag_id = x
      OBVIOUS
    <3>3. PICK c, I : c = q.cur /\ I = ids
      OBVIOUS
    <3> HIDE DEF ids
    <3>4. DependenciesOf(c)' = {KeyOf(x) : x \in I} /\ \A x : KeyOf(x)' = KeyOf(x)
      BY <1>0, <2>2, <2>3, <3>3, SameGraph
    <3>5. ReadExact'
      BY <1>0, <2>0, <3>1, <3>2, <3>3, <3>4 DEF ReadExact
    <3>6. ASSUME ~q.direct PROVE FoundExact'
      BY <1>0, <2>0, <3>1, <3>6, SameFound DEF Searching
    <3> QED
      BY <2>0, <3>1, <3>5, <3>6
  <2> QED
    BY <1>4, <2>4, <2>5 DEF DepsRows
<1>5. CASE DepsResolve
  <2>0. /\ at = "DepsResolve" /\ reply = "none" /\ Searching
        /\ IF q.direct THEN q.cur = Root ELSE FoundExact /\ q.cur \in q.result
        /\ DependenciesOf(q.cur) = q.deps \cup {KeyOf(x) : x \in q.rows}
        /\ \A x \in q.rows : \E d \in dependencies : d.dependency_tag_id = x
    BY <1>1, <1>5 DEF DepsResolve, Asks, SearchInv, CurrentTag, Searching, ReadExact
  <2>1. PICK x \in q.rows :
          \/ /\ ~\E t \in tags, m \in modules : t.id = x /\ m.id = t.module_id
             /\ ExpandFails("dependency not found")
          \/ \E t \in tags, m \in modules :
               /\ t.id = x /\ m.id = t.module_id
               /\ LET deps == q.deps \cup {Key(m.name, t.tag)}
                  IN  IF q.rows = {x} THEN Expand(deps)
                      ELSE /\ q' = [q EXCEPT !.deps = deps, !.rows = @ \ {x}]
                           /\ Then("DepsResolve")
    BY <1>5 DEF DepsResolve
  <2>2. \E t \in tags, m \in modules : t.id = x /\ m.id = t.module_id
    BY <2>0 DEF NoDangling
  <2>3. PICK t \in tags, m \in modules :
          /\ t.id = x /\ m.id = t.module_id
          /\ LET deps == q.deps \cup {Key(m.name, t.tag)}
             IN  IF q.rows = {x} THEN Expand(deps)
                 ELSE /\ q' = [q EXCEPT !.deps = deps, !.rows = @ \ {x}]
                      /\ Then("DepsResolve")
    BY <2>1, <2>2
  <2>4. PICK D : D = q.deps \cup {KeyOf(x)}
    OBVIOUS
  <2>5. D = q.deps \cup {Key(m.name, t.tag)}
    BY <1>0, <2>3, <2>4, JoinedKey
  <2>6. DependenciesOf(q.cur) = D \cup {KeyOf(y) : y \in q.rows \ {x}}
    BY <2>0, <2>1, <2>4
  <2>7. CASE q.rows = {x}
    <3>1. Expand(D)
      BY <2>3, <2>5, <2>7
    <3>2. D = DependenciesOf(q.cur)
      BY <2>6, <2>7
    <3> QED
      BY <1>0, <2>0, <3>1, <3>2, ExpandExactInv
  <2>8. CASE q.rows # {x}
    <3>0. q' = [q EXCEPT !.deps = D, !.rows = @ \ {x}] /\ Then("DepsResolve")
      BY <2>3, <2>5, <2>8
    <3>1. /\ q'.cur = q.cur /\ q'.rows = q.rows \ {x} /\ q'.queue = q.queue
          /\ q'.tag = q.tag /\ q'.visited = q.visited /\ q'.result = q.result
          /\ q'.deps = D
          /\ q'.direct <=> q.direct
          /\ at' = "DepsResolve" /\ reply' = reply
      BY <1>0, <3>0 DEF Shaped, Then
    <3>2. PICK c : c = q.cur
      OBVIOUS
    <3>3. DependenciesOf(c)' = D \cup {KeyOf(y) : y \in q.rows \ {x}}
          /\ \A y : KeyOf(y)' = KeyOf(y)
      BY <1>0, <2>6, <3>2, SameGraph
    <3>4. ReadExact'
      BY <1>0, <2>0, <3>1, <3>2, <3>3 DEF ReadExact
    <3>5. ASSUME ~q.direct PROVE FoundExact'
      BY <1>0, <2>0, <3>1, <3>5, SameFound DEF Searching
    <3> QED
      BY <2>0, <3>1, <3>4, <3>5
  <2> QED
    BY <2>7, <2>8
<1> QED
  BY <1>0, <1>2, <1>3, <1>4, <1>5 DEF QueryStep, GetModuleRow, GetTags, GetTagId,
     GetTagMeta, GetParsed, ListModules, StatementFails, Asks, OwnQuery

LEMMA NextExactInv ==
  ASSUME ExactInv, SearchInv, UniqueNames, AnswersInv, ControlInv,
         [QueryNext]_QueryVars
  PROVE  ExactInv'
<1>1. CASE QueryStep
  <2>1. CASE ask.op # "GetTransitive"
    BY <1>1, <2>1 DEF ExactInv, QueryStep
  <2> QED
    BY <1>1, <2>1, SearchStepExactInv
<1>2. CASE RegistryStep
  <2>1. req' = req
    BY <1>2, HistoryKept DEF RegistryStep
  <2>2. /\ UNCHANGED <<ask, at, reply, q, lost>>
        /\ changed' = (changed \/ (Started /\ <<modules, tags, dependencies>>'
                                              # <<modules, tags, dependencies>>))
    BY <1>2 DEF RegistryStep
  <2>3. ask.op = "GetTransitive" /\ at # "GetTransitive" => Started
    BY DEF Started
  <2>4. \/ UNCHANGED <<modules, tags, dependencies>> /\ (changed => changed')
        \/ changed' \/ ask.op # "GetTransitive" \/ at = "GetTransitive"
    <3>1. CASE changed'
      BY <3>1
    <3>2. CASE ~changed' /\ Started
      <4>1. UNCHANGED <<modules, tags, dependencies>> /\ ~changed
        BY <2>2, <3>2
      <4> QED
        BY <2>2, <3>2, <4>1
    <3> QED
      BY <2>3, <3>1, <3>2
  <2> QED
    BY <2>1, <2>2, <2>4, OthersExactInv
<1>3. CASE (\E r \in Run : DaemonStep(r)) \/ UNCHANGED QueryVars
  BY <1>3, OthersExactInv DEF DaemonStep, QueryVars, vars, qvars
<1> QED
  BY <1>1, <1>2, <1>3 DEF QueryNext

LEMMA ExactInvariant == QuerySpec => []ExactInv
<1>1. QueryInit => ExactInv
  BY DEF QueryInit, ExactInv
<1>2. /\ ExactInv /\ SearchInv /\ UniqueNames /\ AnswersInv /\ ControlInv
      /\ [QueryNext]_QueryVars
      => ExactInv'
  BY NextExactInv
<1> QED
  BY <1>1, <1>2, SearchInvariant, QueryAnswersInv, PackagesInvariant, PTL
  DEF QuerySpec, QueryVars

\* The request named the tag, or q.tag is the latest one.
AskedTag == ask.op = "GetTransitive" => ask.tag \in {q.tag, ""}

LEMMA AskedTagInvariant == QuerySpec => []AskedTag
<1>1. QueryInit => AskedTag
  BY DEF QueryInit, InitQuery, AskedTag
<1>2. ASSUME AskedTag, SearchInv, ControlInv, [QueryNext]_QueryVars PROVE AskedTag'
  <2>0. Shaped /\ OwnQuery
    BY <1>2 DEF ControlInv
  <2>1. CASE UNCHANGED <<ask, q>>
    BY <1>2, <2>1 DEF AskedTag
  <2>2. CASE QueryStep /\ ask.op = "GetTransitive"
    <3>0. ask' = ask
      BY <2>2 DEF QueryStep
    <3>1. CASE q'.tag = q.tag
      BY <1>2, <3>0, <3>1 DEF AskedTag
    <3>2. ASSUME NEW deps, Expand(deps) PROVE q'.tag = q.tag
      BY <2>0, <3>2, ExpandContinues DEF Continues
    <3>3. ASSUME NEW s, ExpandFails(s) PROVE q'.tag = q.tag
      BY <2>0, <3>3, ExpandFailsContinues DEF Continues
    <3>4. CASE DepsLatestTag
      BY <3>0, <3>4 DEF DepsLatestTag, AskedTag
    <3>5. CASE DepsTagId
      <4>1. ASSUME NEW k, NEW x, q' = [q EXCEPT !.cur = k, !.tag_id = x]
            PROVE  q'.tag = q.tag
        BY <2>0, <4>1 DEF Shaped
      <4> QED
        BY <3>1, <3>3, <3>5, <4>1, Zenon DEF DepsTagId
    <3>6. CASE DepsRows
      <4>1. ASSUME NEW x, q' = [q EXCEPT !.rows = x] PROVE q'.tag = q.tag
        BY <2>0, <4>1 DEF Shaped
      <4> QED
        BY <3>1, <3>2, <3>6, <4>1, Zenon DEF DepsRows
    <3>7. CASE DepsResolve
      <4>1. ASSUME NEW D, NEW x, q' = [q EXCEPT !.deps = D, !.rows = @ \ {x}]
            PROVE  q'.tag = q.tag
        BY <2>0, <4>1 DEF Shaped
      <4> QED
        BY <3>1, <3>2, <3>3, <3>7, <4>1, Zenon DEF DepsResolve
    <3>8. CASE StatementFails
      BY <3>1, <3>3, <3>8 DEF StatementFails
    <3> QED
      BY <2>0, <2>2, <3>4, <3>5, <3>6, <3>7, <3>8 DEF QueryStep, GetModuleRow, GetTags,
         GetTagId, GetTagMeta, GetParsed, ListModules, Asks, OwnQuery
  <2>3. CASE ask' = ask /\ ask.op # "GetTransitive"
    BY <2>3 DEF AskedTag
  <2> QED
    BY <1>2, <2>1, <2>2, <2>3 DEF QueryNext, RegistryStep, QueryStep,
       DaemonStep, QueryVars, qvars
<1> QED
  BY <1>1, <1>2, SearchInvariant, PackagesInvariant, PTL DEF QuerySpec, QueryVars

(* The search that may have lost something.                                *)

LEMMA OthersSoundInv ==
  ASSUME SoundInv, UNCHANGED <<ask, at, reply, q, req>>,
         \/ UNCHANGED <<modules, tags, dependencies>> /\ (changed => changed')
         \/ changed' \/ ask.op # "GetTransitive" \/ at = "GetTransitive"
  PROVE  SoundInv'
<1> SUFFICES ASSUME ask.op = "GetTransitive", at # "GetTransitive", ~changed'
             PROVE  /\ ReadSound'
                    /\ reply = "ok" \/ (reply = "none" /\ ~q.direct) => FoundSound'
  BY DEF SoundInv
<1>1. UNCHANGED <<modules, tags, dependencies, req>> /\ ~changed
  OBVIOUS
<1>2. /\ ReadSound
      /\ reply = "ok" \/ (reply = "none" /\ ~q.direct) => FoundSound
  BY <1>1 DEF SoundInv
<1>3. ReadSound'
  <2>1. PICK c : c = q.cur
    OBVIOUS
  <2> QED
    BY <1>1, <1>2, <2>1, SameGraph DEF ReadSound
<1>4. ASSUME FoundSound PROVE FoundSound'
  <2>1. PICK r, k0, V, R :
          /\ r = Root /\ k0 = Key(ask.name, ask.tag) /\ V = q.visited /\ R = q.result
    OBVIOUS
  <2>2. r = Root' /\ k0 = Key(ask.name, ask.tag)' /\ V = q'.visited /\ R = q'.result
    BY <2>1 DEF Root, Key
  <2> QED
    BY <1>1, <1>4, <2>1, <2>2, SameGraph DEF FoundSound
<1> QED
  BY <1>2, <1>3, <1>4

LEMMA KeptSound ==
  ASSUME UNCHANGED <<modules, tags, dependencies, req, ask>>, q'.tag = q.tag,
         SoundWith(Root, Key(ask.name, ask.tag), q'.visited, q'.result)
  PROVE  FoundSound'
<1>1. PICK r, k0, V, R :
        /\ r = Root /\ k0 = Key(ask.name, ask.tag) /\ V = q'.visited /\ R = q'.result
  OBVIOUS
<1>2. r = Root' /\ k0 = Key(ask.name, ask.tag)'
  BY <1>1 DEF Root, Key
<1>3. SoundWith(r, k0, V, R)'
  BY <1>1, SameGraph
<1> QED
  BY <1>1, <1>2, <1>3 DEF FoundSound

LEMMA ExpandSound ==
  ASSUME Shaped, UNCHANGED <<modules, tags, dependencies, req, ask>>,
         NEW deps, Expand(deps),
         IF q.direct THEN deps \subseteq DependenciesOf(Root)
         ELSE FoundSound /\ q.cur \in q.result /\ deps \subseteq DependenciesOf(q.cur)
  PROVE  ReadSound' /\ FoundSound'
<1>1. PICK k0 : k0 = Key(ask.name, ask.tag)
  OBVIOUS
<1>2. CASE q.direct
  <2>1. Continues(deps, {k0} \cup deps, deps)
    BY <1>1, <1>2, ExpandContinues
  <2>2. SoundWith(Root, k0, {k0} \cup deps, deps)
    BY <1>2, ReachableClosed DEF SoundWith, Closed
  <2> QED
    BY <1>1, <2>1, <2>2, KeptSound DEF Continues, ReadSound
<1>3. CASE ~q.direct
  <2>1. Continues(q.queue \cup (deps \ q.visited), q.visited \cup deps,
                  q.result \cup (deps \ q.visited))
    BY <1>3, ExpandContinues
  <2>2. SoundWith(Root, k0, q.visited \cup deps, q.result \cup (deps \ q.visited))
    <3>1. SoundWith(Root, k0, q.visited, q.result)
      BY <1>1, <1>3 DEF FoundSound
    <3>2. deps \subseteq ReachableFrom(Root)
      BY <1>3, <3>1, ReachableClosed DEF SoundWith, Closed
    <3> QED
      BY <3>1, <3>2 DEF SoundWith
  <2> QED
    BY <1>1, <2>1, <2>2, KeptSound DEF Continues, ReadSound
<1> QED
  BY <1>2, <1>3

LEMMA ExpandFailsSound ==
  ASSUME Shaped, UNCHANGED <<modules, tags, dependencies, req, ask>>,
         NEW status, ExpandFails(status), status \notin {"ok", "none"},
         q.direct \/ FoundSound
  PROVE  /\ ReadSound'
         /\ reply' = "ok" \/ (reply' = "none" /\ ~q'.direct) => FoundSound'
<1>1. CASE q.direct
  BY <1>1, ExpandFailsContinues DEF ReadSound
<1>2. CASE ~q.direct
  <2>1. Continues(q.queue, q.visited, q.result)
    BY <1>2, ExpandFailsContinues
  <2> QED
    BY <1>2, <2>1, KeptSound DEF Continues, ReadSound, FoundSound
<1> QED
  BY <1>1, <1>2

LEMMA SearchStepSoundInv ==
  ASSUME SoundInv, SearchInv, AnswersInv, ControlInv, QueryStep,
         ask.op = "GetTransitive"
  PROVE  SoundInv'
<1>0. /\ Shaped /\ OwnQuery /\ SafetyInv
      /\ UNCHANGED <<modules, tags, dependencies, req, ask, changed>>
  BY DEF ControlInv, QueryStep, AnswersInv, vars
<1> SUFFICES ASSUME at' # "GetTransitive", ~changed
             PROVE  /\ ReadSound'
                    /\ reply' = "ok" \/ (reply' = "none" /\ ~q'.direct) => FoundSound'
  BY <1>0 DEF SoundInv
<1>1. /\ at # "GetTransitive" => ReadSound
      /\ at # "GetTransitive" /\ reply = "none" /\ ~q.direct => FoundSound
      /\ at = "GetTransitive" => q.direct
  BY DEF SoundInv, SearchInv, CurrentTag
<1>2. ASSUME NEW s, ExpandFails(s), s \notin {"ok", "none"}, reply = "none"
      PROVE  /\ ReadSound'
             /\ reply' = "ok" \/ (reply' = "none" /\ ~q'.direct) => FoundSound'
  BY <1>0, <1>1, <1>2, ExpandFailsSound
<1>3. CASE DepsLatestTag
  <2>0. at = "GetTransitive" /\ reply = "none" /\ q.direct
    BY <1>1, <1>3 DEF DepsLatestTag, Asks
  <2>1. CASE Expand({})
    <3>1. {} \subseteq DependenciesOf(Root)
      OBVIOUS
    <3> QED
      BY <1>0, <2>0, <2>1, <3>1, ExpandSound
  <2>2. ASSUME NEW t, Then("DepsTagId"),
               q' = [q EXCEPT !.cur = Key(ask.name, t.tag), !.tag = t.tag]
        PROVE  at' = "DepsTagId" /\ reply' = "none" /\ q'.direct
    BY <1>0, <2>0, <2>2 DEF Then, Shaped
  <2> QED
    BY <1>3, <2>1, <2>2 DEF DepsLatestTag, ReadSound
<1>4. CASE DepsTagId
  <2>0. at \in {"GetTransitive", "DepsTagId"} /\ reply = "none"
    BY <1>4 DEF DepsTagId, Asks
  <2>1. PICK k : k = IF at = "GetTransitive" THEN Key(ask.name, ask.tag) ELSE q.cur
    OBVIOUS
  <2>2. CASE ExpandFails("tag not found")
    <3>1. "tag not found" \notin {"ok", "none"}
      OBVIOUS
    <3> QED
      BY <1>2, <2>0, <2>2, <3>1
  <2>3. ASSUME NEW t \in TagRows(k.name, k.tag), Then("DepsRows"),
               q' = [q EXCEPT !.cur = k, !.tag_id = t.id]
        PROVE  /\ ReadSound'
               /\ reply' = "ok" \/ (reply' = "none" /\ ~q'.direct) => FoundSound'
    <3>1. /\ q'.cur = k /\ q'.tag_id = t.id /\ q'.tag = q.tag
          /\ q'.visited = q.visited /\ q'.result = q.result
          /\ q'.direct <=> q.direct
          /\ at' = "DepsRows" /\ reply' = reply
      BY <1>0, <2>3 DEF Shaped, Then
    <3>2. t \in TagRows(k.name, k.tag)'
      BY <1>0, <2>3, SameGraph
    <3>3. ReadSound'
      BY <3>1, <3>2 DEF ReadSound
    <3>4. ASSUME ~q.direct PROVE FoundSound'
      BY <1>0, <1>1, <2>0, <3>1, <3>4, KeptSound DEF FoundSound
    <3> QED
      BY <2>0, <3>1, <3>3, <3>4
  <2> QED
    BY <1>4, <2>1, <2>2, <2>3, Zenon DEF DepsTagId
<1>5. CASE DepsRows
  <2> DEFINE ids == {d.dependency_tag_id : d \in {e \in dependencies : e.tag_id = q.tag_id}}
  <2>0. /\ at = "DepsRows" /\ reply = "none" /\ q.deps = {} /\ ReadSound
        /\ IF q.direct THEN q.cur = Root ELSE FoundSound /\ q.cur \in q.result
    BY <1>1, <1>5 DEF DepsRows, Asks, SearchInv, CurrentTag, DeclaredInv, Searching
  <2>1. PICK t \in TagRows(q.cur.name, q.cur.tag) : t.id = q.tag_id
    BY <2>0 DEF ReadSound
  <2>2. CASE Expand({})
    <3>1. {} \subseteq DependenciesOf(Root) /\ {} \subseteq DependenciesOf(q.cur)
      OBVIOUS
    <3> QED
      BY <1>0, <2>0, <2>2, <3>1, ExpandSound
  <2>3. ASSUME NEW arrived \in SUBSET ids, Then("DepsResolve"),
               q' = [q EXCEPT !.rows = arrived]
        PROVE  /\ ReadSound'
               /\ reply' = "ok" \/ (reply' = "none" /\ ~q'.direct) => FoundSound'
    <3>1. /\ q'.cur = q.cur /\ q'.rows = arrived /\ q'.tag = q.tag
          /\ q'.tag_id = q.tag_id
          /\ q'.visited = q.visited /\ q'.result = q.result /\ q'.deps = {}
          /\ q'.direct <=> q.direct
          /\ at' = "DepsResolve" /\ reply' = reply
      BY <1>0, <2>0, <2>3 DEF Shaped, Then
    <3>2. \A x \in arrived : \E d \in dependencies :
            d.tag_id = q.tag_id /\ d.dependency_tag_id = x
      OBVIOUS
    <3>3. PICK c : c = q.cur
      OBVIOUS
    <3>4. t \in TagRows(c.name, c.tag)'
      BY <1>0, <2>1, <3>3, SameGraph
    <3> HIDE DEF ids
    <3>5. ReadSound'
      BY <1>0, <2>1, <3>1, <3>2, <3>3, <3>4 DEF ReadSound
    <3>6. ASSUME ~q.direct PROVE FoundSound'
      BY <1>0, <2>0, <3>1, <3>6, KeptSound DEF FoundSound
    <3> QED
      BY <2>0, <3>1, <3>5, <3>6
  <2>4. PICK arrived \in SUBSET ids :
          IF arrived = {} THEN Expand({})
          ELSE q' = [q EXCEPT !.rows = arrived] /\ Then("DepsResolve")
    BY <1>5 DEF DepsRows
  <2> QED
    BY <2>2, <2>3, <2>4
<1>6. CASE DepsResolve
  <2>0. /\ at = "DepsResolve" /\ reply = "none" /\ ReadSound
        /\ IF q.direct THEN q.cur = Root ELSE FoundSound /\ q.cur \in q.result
    BY <1>1, <1>6 DEF DepsResolve, Asks, SearchInv, CurrentTag, Searching
  <2>1. PICK x \in q.rows :
          \/ ExpandFails("dependency not found")
          \/ \E t \in tags, m \in modules :
               /\ t.id = x /\ m.id = t.module_id
               /\ LET deps == q.deps \cup {Key(m.name, t.tag)}
                  IN  IF q.rows = {x} THEN Expand(deps)
                      ELSE /\ q' = [q EXCEPT !.deps = deps, !.rows = @ \ {x}]
                           /\ Then("DepsResolve")
    BY <1>6 DEF DepsResolve
  <2>2. CASE ExpandFails("dependency not found")
    <3>1. "dependency not found" \notin {"ok", "none"}
      OBVIOUS
    <3> QED
      BY <1>2, <2>0, <2>2, <3>1
  <2>3. ASSUME NEW t \in tags, NEW m \in modules, t.id = x, m.id = t.module_id,
               NEW D, D = q.deps \cup {Key(m.name, t.tag)},
               IF q.rows = {x} THEN Expand(D)
               ELSE /\ q' = [q EXCEPT !.deps = D, !.rows = @ \ {x}]
                    /\ Then("DepsResolve")
        PROVE  /\ ReadSound'
               /\ reply' = "ok" \/ (reply' = "none" /\ ~q'.direct) => FoundSound'
    <3>1. PICK u \in TagRows(q.cur.name, q.cur.tag) : u.id = q.tag_id
      BY <2>0 DEF ReadSound
    <3>2. PICK e \in dependencies : e.tag_id = u.id /\ e.dependency_tag_id = x
      BY <2>0, <3>1 DEF ReadSound
    <3>3. KeyOf(x) \in DependenciesOf(q.cur) /\ KeyOf(x) = Key(m.name, t.tag)
      BY <1>0, <2>3, <3>1, <3>2, JoinedDependency, JoinedKey
    <3>4. D \subseteq DependenciesOf(q.cur)
      BY <2>0, <2>3, <3>3 DEF ReadSound
    <3>5. CASE Expand(D)
      BY <1>0, <2>0, <3>4, <3>5, ExpandSound
    <3>6. CASE q' = [q EXCEPT !.deps = D, !.rows = @ \ {x}] /\ Then("DepsResolve")
      <4>1. /\ q'.cur = q.cur /\ q'.rows = q.rows \ {x} /\ q'.tag_id = q.tag_id
            /\ q'.tag = q.tag /\ q'.visited = q.visited /\ q'.result = q.result
            /\ q'.deps = D
            /\ q'.direct <=> q.direct
            /\ at' = "DepsResolve" /\ reply' = reply
        BY <1>0, <3>6 DEF Shaped, Then
      <4>2. PICK c : c = q.cur
        OBVIOUS
      <4>3. D \subseteq DependenciesOf(c)' /\ u \in TagRows(c.name, c.tag)'
        BY <1>0, <3>1, <3>4, <4>2, SameGraph
      <4>4. ReadSound'
        BY <1>0, <2>0, <3>1, <4>1, <4>2, <4>3 DEF ReadSound
      <4>5. ASSUME ~q.direct PROVE FoundSound'
        BY <1>0, <2>0, <4>1, <4>5, KeptSound DEF FoundSound
      <4> QED
        BY <2>0, <4>1, <4>4, <4>5
    <3> QED
      BY <2>3, <3>5, <3>6
  <2> QED
    BY <2>1, <2>2, <2>3
<1>7. CASE StatementFails
  <2>1. "failed" \notin {"ok", "none"}
    OBVIOUS
  <2> QED
    BY <1>2, <1>7, <2>1 DEF StatementFails
<1> QED
  BY <1>0, <1>3, <1>4, <1>5, <1>6, <1>7 DEF QueryStep, GetModuleRow, GetTags, GetTagId,
     GetTagMeta, GetParsed, ListModules, Asks, OwnQuery

LEMMA SoundInvariant == QuerySpec => []SoundInv
<1>1. QueryInit => SoundInv
  BY DEF QueryInit, SoundInv
<1>2. ASSUME SoundInv, SearchInv, AnswersInv, ControlInv, [QueryNext]_QueryVars
      PROVE  SoundInv'
  <2>1. CASE QueryStep
    <3>1. CASE ask.op # "GetTransitive"
      BY <2>1, <3>1 DEF SoundInv, QueryStep
    <3> QED
      BY <1>2, <2>1, <3>1, SearchStepSoundInv
  <2>2. CASE RegistryStep
    <3>1. req' = req /\ UNCHANGED <<ask, at, reply, q>>
      BY <1>2, <2>2, HistoryKept DEF RegistryStep
    <3>2. changed' = (changed \/ (Started /\ <<modules, tags, dependencies>>'
                                              # <<modules, tags, dependencies>>))
      BY <2>2 DEF RegistryStep
    <3>3. CASE changed' \/ ask.op # "GetTransitive" \/ at = "GetTransitive"
      BY <1>2, <3>1, <3>3, OthersSoundInv
    <3>4. CASE ~changed' /\ Started
      <4>1. UNCHANGED <<modules, tags, dependencies>> /\ ~changed
        BY <3>2, <3>4
      <4> QED
        BY <1>2, <3>1, <4>1, OthersSoundInv
    <3> QED
      BY <3>3, <3>4 DEF Started
  <2>3. CASE (\E r \in Run : DaemonStep(r)) \/ UNCHANGED QueryVars
    BY <1>2, <2>3, OthersSoundInv DEF DaemonStep, QueryVars, vars, qvars
  <2> QED
    BY <1>2, <2>1, <2>2, <2>3 DEF QueryNext
<1> QED
  BY <1>1, <1>2, SearchInvariant, QueryAnswersInv, PackagesInvariant, PTL
  DEF QuerySpec, QueryVars

\* For every graph of dependencies, with cycles too: if no table changes while
\* the search runs, GetTransitiveDependencies answers only what can be reached,
\* also when it lost rows, skipped a tag whose lookup failed or met a dependency
\* that dangles; and otherwise all of it, the tag itself as TransitiveExact says.
THEOREM SearchIsExact == QuerySpec => []TransitiveExact
<1>1. ExactInv /\ SoundInv /\ AskedTag /\ SearchInv /\ ControlInv /\ AnswersInv
      => TransitiveExact
  <2> SUFFICES ASSUME ExactInv, SoundInv, AskedTag, SearchInv, ControlInv, AnswersInv,
                      ask.op = "GetTransitive", reply = "ok", ~changed
               PROVE  /\ q.result \subseteq Transitive
                      /\ ~lost /\ (\A d \in dependencies : ~Dangles(d)) =>
                           q.result = Transitive
    BY DEF TransitiveExact
  <2>1. at = "Done"
    BY DEF ControlInv, OwnQuery
  <2>2. q.result \subseteq Transitive
    BY <2>1 DEF SoundInv, FoundSound, SoundWith, Transitive
  <2>3. ASSUME ~lost, \A d \in dependencies : ~Dangles(d) PROVE q.result = Transitive
    <3>1. NoDangling
      BY <2>3 DEF NoDangling, Dangles
    <3>2. FoundExact
      BY <2>1, <2>3, <3>1 DEF ExactInv
    <3>3. q.queue = {}
      BY DEF SearchInv, DeclaredInv
    <3>4. q.queue \cup (IF Searching THEN {q.cur} ELSE {}) = {}
      BY <2>1, <3>3 DEF Searching
    <3>5. FoundWith(Key(ask.name, q.tag), Key(ask.name, ask.tag), q.visited, q.result, {})
      BY <3>2, <3>4 DEF FoundExact, Root
    <3>6. ask.tag = q.tag \/ ask.tag = ""
      BY DEF AskedTag
    <3> QED
      BY <3>5, <3>6, FoundAll DEF Root, Transitive
  <2> QED
    BY <2>2, <2>3
<1> QED
  BY <1>1, ExactInvariant, SoundInvariant, AskedTagInvariant, SearchInvariant,
     QueryAnswersInv, PackagesInvariant, PTL

-----------------------------------------------------------------------------
(* ListModules: ORDER BY name LIMIT n.                                     *)

Names == Elements(NameOrder)

LEMMA NameOrderDomain ==
  /\ DOMAIN NameOrder = 1..Len(NameOrder) /\ Len(NameOrder) \in Nat
  /\ DOMAIN NameOrder \subseteq Nat
<1>1. NameOrder \in Seq(STRING)
  BY NameOrderAssumption, Zenon
<1>2. DOMAIN NameOrder = 1..Len(NameOrder) /\ Len(NameOrder) \in Nat
  BY <1>1, LenProperties
<1> QED
  BY <1>2

LEMMA PositionOfName ==
  ASSUME NEW x \in Names
  PROVE  /\ Position(x) \in DOMAIN NameOrder /\ NameOrder[Position(x)] = x
         /\ Position(x) \in Nat
<1>1. \E i \in DOMAIN NameOrder : NameOrder[i] = x
  BY DEF Names, Elements
<1>2. Position(x) \in DOMAIN NameOrder /\ NameOrder[Position(x)] = x
  BY <1>1, Zenon DEF Position
<1>3. DOMAIN NameOrder \subseteq Nat
  BY NameOrderDomain
<1> QED
  BY <1>2, <1>3

LEMMA PositionInjective ==
  ASSUME NEW x \in Names, NEW y \in Names, ~(Position(x) < Position(y)),
         ~(Position(y) < Position(x))
  PROVE  x = y
<1>1. Position(x) = Position(y)
  BY PositionOfName
<1> QED
  BY <1>1, PositionOfName

LEMMA NamesFinite ==
  ASSUME NEW S, S \subseteq Names
  PROVE  IsFiniteSet(S)
<1>1. DOMAIN NameOrder = 1..Len(NameOrder) /\ Len(NameOrder) \in Nat
  BY NameOrderDomain
<1>2. IsFiniteSet(DOMAIN NameOrder)
  BY <1>1, FS_Interval
<1>3. PICK f : f = [x \in Names |-> Position(x)]
  OBVIOUS
<1>4. f \in [Names -> DOMAIN NameOrder]
  BY <1>3, PositionOfName
<1>5. \A x, y \in Names : f[x] = f[y] => x = y
  BY <1>3, PositionOfName
<1>6. f \in Injection(Names, DOMAIN NameOrder)
  BY <1>4, <1>5 DEF Injection, IsInjective
<1>7. IsFiniteSet(Names)
  BY <1>2, <1>6, FS_Injection
<1> QED
  BY <1>7, FS_Subset

Before(S, x) == {y \in S : Position(y) < Position(x)}

LEMMA FirstNamesBefore ==
  ASSUME NEW S, S \subseteq Names, NEW n \in Nat
  PROVE  /\ FirstNames(S, n) = {x \in S : Cardinality(Before(S, x)) < n}
         /\ \A x : IsFiniteSet(Before(S, x)) /\ Cardinality(Before(S, x)) \in Nat
<1>1. FirstNames(S, n) = {x \in S : Cardinality(Before(S, x)) < n}
  BY DEF FirstNames, Before
<1>2. ASSUME NEW x PROVE IsFiniteSet(Before(S, x)) /\ Cardinality(Before(S, x)) \in Nat
  BY NamesFinite, FS_CardinalityType DEF Before
<1> QED
  BY <1>1, <1>2

\* With a name, the first n names hold those before it.
LEMMA FirstNamesDown ==
  ASSUME NEW S, S \subseteq Names, NEW n \in Nat, NEW x \in FirstNames(S, n),
         NEW y \in S, Position(y) < Position(x)
  PROVE  y \in FirstNames(S, n)
<1>1. x \in S /\ Cardinality(Before(S, x)) < n
  BY FirstNamesBefore
<1>2. Position(x) \in Nat /\ \A z \in S : Position(z) \in Nat
  BY <1>1, PositionOfName
<1>3. Before(S, y) \in SUBSET Before(S, x)
  BY <1>2 DEF Before
<1>4. Cardinality(Before(S, y)) <= Cardinality(Before(S, x))
  BY <1>3, FirstNamesBefore, FS_Subset
<1>5. Cardinality(Before(S, y)) < n
  BY <1>1, <1>4, FirstNamesBefore
<1> QED
  BY <1>5, FirstNamesBefore

\* What is not among the first names comes after them.
LEMMA AfterFirstNames ==
  ASSUME NEW S, S \subseteq Names, NEW n \in Nat, NEW x \in S \ FirstNames(S, n),
         NEW y \in FirstNames(S, n)
  PROVE  Position(y) < Position(x)
<1>1. y \in S /\ y # x
  BY DEF FirstNames
<1>2. ~(Position(x) < Position(y))
  BY FirstNamesDown
<1> QED
  BY <1>1, <1>2, PositionInjective

\* The row too many comes after the page, and what comes before it is on it.
LEMMA TokenAfterPage ==
  ASSUME NEW S, S \subseteq Names, NEW n \in Nat, NEW rows, NEW page,
         rows = FirstNames(S, n + 1), page = FirstNames(rows, n),
         NEW x \in rows \ page
  PROVE  /\ \A y \in page : Position(y) < Position(x)
         /\ \A y \in S : Position(y) < Position(x) => y \in page
<1>0. rows \subseteq S /\ page \subseteq rows /\ n + 1 \in Nat /\ rows \subseteq Names
  BY DEF FirstNames
<1>1. ASSUME NEW y \in page PROVE Position(y) < Position(x)
  BY <1>0, <1>1, AfterFirstNames
<1>2. ASSUME NEW y \in S, Position(y) < Position(x), y \notin page PROVE FALSE
  <2>1. y \in rows
    BY <1>0, <1>2, FirstNamesDown
  <2>2. Cardinality(Before(rows, y)) >= n
    BY <1>0, <1>2, <2>1, FirstNamesBefore
  <2>3. /\ IsFiniteSet(Before(rows, y) \cup {y})
        /\ Cardinality(Before(rows, y) \cup {y}) = Cardinality(Before(rows, y)) + 1
    <3>1. y \notin Before(rows, y)
      BY <1>0, <2>1, PositionOfName DEF Before
    <3> QED
      BY <1>0, <3>1, FirstNamesBefore, FS_AddElement
  <2>4. Before(rows, y) \cup {y} \in SUBSET Before(S, x)
    <3>1. Position(x) \in Nat /\ \A z \in S : Position(z) \in Nat
      BY <1>0, PositionOfName
    <3> QED
      BY <1>0, <1>2, <2>1, <3>1 DEF Before
  <2>5. Cardinality(Before(rows, y)) + 1 <= Cardinality(Before(S, x))
    BY <2>3, <2>4, FirstNamesBefore, FS_Subset
  <2>6. Cardinality(Before(S, x)) < n + 1
    BY <1>0, FirstNamesBefore
  <2> QED
    BY <1>0, <2>2, <2>5, <2>6, FirstNamesBefore
<1> QED
  BY <1>1, <1>2

LEMMA FirstName ==
  ASSUME NEW S, S \subseteq Names, S # {}
  PROVE  /\ \E x \in S : \A y \in S : Position(x) <= Position(y)
         /\ \E x \in S : \A y \in S : Position(y) <= Position(x)
<1>0. DOMAIN NameOrder = 1..Len(NameOrder) /\ Len(NameOrder) \in Nat
  BY NameOrderDomain
<1>1. ASSUME NEW T, T \subseteq Nat, T # {} PROVE \E x \in T : \A y \in T : x <= y
  <2>1. PICK R : R = {ss \in Nat \X Nat : ss[1] < ss[2]}
    OBVIOUS
  <2>2. IsWellFoundedOn(R, Nat)
    BY <2>1, NatLessThanWellFounded DEF OpToRel
  <2>3. PICK x \in T : \A y \in T : <<y, x>> \notin R
    BY <1>1, <2>2, WFMin
  <2>4. ASSUME NEW y \in T PROVE x <= y
    <3>1. x \in Nat /\ y \in Nat /\ <<y, x>> \notin {ss \in Nat \X Nat : ss[1] < ss[2]}
      BY <1>1, <2>1, <2>3
    <3>2. ~(y < x)
      BY <3>1
    <3> QED
      BY <3>1, <3>2
  <2> QED
    BY <2>4
<1>2. \A x \in S : Position(x) \in 1..Len(NameOrder)
  BY <1>0, PositionOfName
<1>3. \E x \in S : \A y \in S : Position(x) <= Position(y)
  <2>1. PICK T : T = {Position(x) : x \in S}
    OBVIOUS
  <2>2. T \subseteq Nat /\ T # {}
    BY <1>2, <2>1
  <2>3. PICK i \in T : \A j \in T : i <= j
    BY <1>1, <2>2
  <2> QED
    BY <2>1, <2>3
<1>4. \E x \in S : \A y \in S : Position(y) <= Position(x)
  <2>1. PICK T : T = {Len(NameOrder) - Position(x) : x \in S}
    OBVIOUS
  <2>2. T \subseteq Nat /\ T # {}
    BY <1>0, <1>2, <2>1
  <2>3. PICK i \in T : \A j \in T : i <= j
    BY <1>1, <2>2
  <2>4. PICK x \in S : i = Len(NameOrder) - Position(x)
    BY <2>1, <2>3
  <2>5. ASSUME NEW y \in S PROVE Position(y) <= Position(x)
    <3>1. Len(NameOrder) - Position(x) <= Len(NameOrder) - Position(y)
      BY <2>1, <2>3, <2>4
    <3> QED
      BY <1>0, <1>2, <3>1
  <2> QED
    BY <2>5
<1> QED
  BY <1>3, <1>4

\* Without a row too many the page holds all names.
LEMMA LastPageIsAll ==
  ASSUME NEW S, S \subseteq Names, NEW n \in Nat, NEW rows, NEW page,
         rows = FirstNames(S, n + 1), page = FirstNames(rows, n),
         rows \subseteq page
  PROVE  S \subseteq page
<1>0. rows \subseteq S /\ page \subseteq rows /\ n + 1 \in Nat /\ rows \subseteq Names
  BY DEF FirstNames
<1> SUFFICES ASSUME S \ rows # {} PROVE FALSE
  OBVIOUS
<1>1. PICK x \in S \ rows : \A y \in S \ rows : Position(x) <= Position(y)
  BY FirstName
<1>2. Position(x) \in Nat /\ \A z \in S : Position(z) \in Nat
  BY PositionOfName
<1>3. Cardinality(Before(S, x)) >= n + 1
  BY <1>0, <1>1, FirstNamesBefore
<1>4. Before(S, x) \subseteq rows
  BY <1>1, <1>2 DEF Before
<1>5. Before(S, x) # {}
  BY <1>3, FS_EmptySet
<1>6. PICK z \in Before(S, x) : \A y \in Before(S, x) : Position(y) <= Position(z)
  BY <1>0, <1>4, <1>5, FirstName
<1>7. Before(S, x) \ {z} \in SUBSET Before(rows, z)
  <2>1. ASSUME NEW y \in Before(S, x) \ {z} PROVE y \in Before(rows, z)
    <3>1. y \in rows /\ z \in rows /\ Position(y) <= Position(z)
      BY <1>4, <1>6
    <3>2. Position(y) < Position(z)
      BY <1>0, <3>1, PositionInjective, PositionOfName
    <3> QED
      BY <3>1, <3>2 DEF Before
  <2> QED
    BY <2>1
<1>8. Cardinality(Before(S, x) \ {z}) = Cardinality(Before(S, x)) - 1
  BY <1>6, FirstNamesBefore, FS_RemoveElement
<1>9. Cardinality(Before(S, x) \ {z}) <= Cardinality(Before(rows, z))
  BY <1>0, <1>7, FirstNamesBefore, FS_Subset
<1>10. Cardinality(Before(rows, z)) >= n
  BY <1>0, <1>3, <1>8, <1>9, FirstNamesBefore
<1>11. z \notin page
  BY <1>0, <1>10, FirstNamesBefore
<1> QED
  BY <1>4, <1>6, <1>11

\* A registered name is not empty, and NameOrder has it.
LEMMA ModuleNames ==
  ASSUME AnswersInv, req \in Workload
  PROVE  \A m \in modules : m.name \in Names /\ m.name # ""
<1> SUFFICES ASSUME NEW m \in modules PROVE m.name \in Names /\ m.name # ""
  OBVIOUS
<1>1. m.id \in Client /\ Registered(m.id, m.name)
  BY DEF AnswersInv, SafetyInv, Provenance, ModulesFrom, Registered
<1>2. req[m.id].op = "Register" /\ req[m.id].name = m.name /\ Validated(m.id)
  BY <1>1 DEF AnswersInv, HandlerInv, Registered
<1>3. m.name # ""
  BY <1>1, <1>2 DEF Validated, Valid, Registered
<1> QED
  BY <1>1, <1>2, <1>3, NameOrderAssumption, Zenon DEF Names

-----------------------------------------------------------------------------
(* The walk.                                                               *)

Listed(pages) == UNION Elements(pages)

Ordered(pages) ==
  \A i, j \in DOMAIN pages : i < j =>
    \A x \in pages[i], y \in pages[j] : Position(x) < Position(y)

\* Between two pages: what is listed comes before the token, and of the modules
\* that were there since the walk began only those from the token on are not,
\* unless rows were lost.
WalkInv ==
  ask.op = "ListModules" =>
    /\ q.pages \in Seq(SUBSET Names) /\ Ordered(q.pages)
    /\ at = "ListModules" /\ q.token = "" => q.pages = <<>>
    /\ at = "ListModules" /\ q.token # "" =>
         /\ q.token \in Names
         /\ steady \subseteq {m.name : m \in modules}
         /\ \A x \in Listed(q.pages) : Position(x) < Position(q.token)
         /\ ~lost => \A x \in steady :
                       Position(x) < Position(q.token) => x \in Listed(q.pages)
    /\ reply = "ok" /\ ~lost => steady \subseteq Listed(q.pages)

LEMMA NoPages ==
  <<>> \in Seq(SUBSET Names) /\ Ordered(<<>>) /\ Listed(<<>>) = {}
<1>1. <<>> \in Seq(SUBSET Names) /\ DOMAIN <<>> = {}
  BY EmptySeq, LenProperties
<1> QED
  BY <1>1, Zenon DEF Ordered, Listed, Elements

LEMMA PageAppended ==
  ASSUME NEW pages \in Seq(SUBSET Names), NEW page \in SUBSET Names, Ordered(pages),
         \A x \in Listed(pages), y \in page : Position(x) < Position(y)
  PROVE  /\ Append(pages, page) \in Seq(SUBSET Names)
         /\ Ordered(Append(pages, page))
         /\ Listed(Append(pages, page)) = Listed(pages) \cup page
<1>0. PICK all : all = Append(pages, page)
  OBVIOUS
<1>1. /\ all \in Seq(SUBSET Names) /\ Len(all) = Len(pages) + 1
      /\ \A i \in 1..Len(pages) : all[i] = pages[i]
      /\ all[Len(pages) + 1] = page
  BY <1>0, AppendProperties
<1>2. /\ DOMAIN pages = 1..Len(pages) /\ Len(pages) \in Nat
      /\ DOMAIN all = 1..(Len(pages) + 1)
  BY <1>1, LenProperties
<1>3. Ordered(all)
  <2> SUFFICES ASSUME NEW i \in DOMAIN all, NEW j \in DOMAIN all, i < j,
                      NEW x \in all[i], NEW y \in all[j]
               PROVE  Position(x) < Position(y)
    BY DEF Ordered
  <2>1. i \in 1..Len(pages) /\ x \in pages[i]
    BY <1>1, <1>2
  <2>2. x \in Listed(pages)
    BY <1>2, <2>1 DEF Listed, Elements
  <2>3. CASE j = Len(pages) + 1
    BY <1>1, <2>2, <2>3
  <2>4. CASE j \in 1..Len(pages)
    BY <1>1, <1>2, <2>1, <2>4 DEF Ordered
  <2> QED
    BY <1>2, <2>3, <2>4
<1>4. Listed(all) = Listed(pages) \cup page
  <2>1. ASSUME NEW x \in Listed(all) PROVE x \in Listed(pages) \cup page
    <3>1. PICK i \in DOMAIN all : x \in all[i]
      BY <2>1 DEF Listed, Elements
    <3>2. CASE i = Len(pages) + 1
      BY <1>1, <3>1, <3>2
    <3>3. CASE i \in 1..Len(pages)
      BY <1>1, <1>2, <3>1, <3>3 DEF Listed, Elements
    <3> QED
      BY <1>2, <3>2, <3>3
  <2>2. ASSUME NEW x \in Listed(pages) \cup page PROVE x \in Listed(all)
    <3>1. CASE x \in page
      <4>1. Len(pages) + 1 \in DOMAIN all
        BY <1>2
      <4> QED
        BY <1>1, <3>1, <4>1 DEF Listed, Elements
    <3>2. ASSUME NEW i \in DOMAIN pages, x \in pages[i] PROVE x \in Listed(all)
      <4>1. i \in DOMAIN all /\ x \in all[i]
        BY <1>1, <1>2, <3>2
      <4> QED
        BY <4>1 DEF Listed, Elements
    <3> QED
      BY <2>2, <3>1, <3>2 DEF Listed, Elements
  <2> QED
    BY <2>1, <2>2
<1> QED
  BY <1>0, <1>1, <1>3, <1>4

LEMMA ListModulesWalkInv ==
  ASSUME WalkInv, ControlInv, AnswersInv, ListModules, QueryStep
  PROVE  WalkInv'
<1>0. /\ Shaped /\ OwnQuery /\ ask' = ask /\ modules' = modules
      /\ at = "ListModules" /\ reply = "none" /\ ask.op = "ListModules"
  BY DEF ControlInv, OwnQuery, QueryStep, ListModules, Asks, vars, tables
<1>1. /\ q.pages \in Seq(SUBSET Names) /\ Ordered(q.pages)
      /\ q.token = "" => q.pages = <<>>
  BY <1>0 DEF WalkInv
<1>2. PICK S : S = NamesFrom(q.token)
  OBVIOUS
<1>3. PICK n \in Nat : n = PageSize
  <2>1. ask.size \in Nat
    BY <1>0 DEF OwnQuery, Query
  <2> QED
    BY <2>1 DEF PageSize
<1>4. PICK rows : rows = FirstNames(S, n + 1)
  OBVIOUS
<1>5. PICK k \in 0 .. n + 1 :
        LET arrived == FirstNames(rows, k)
            page == FirstNames(arrived, n)
        IN  /\ \/ \E next \in arrived \ page :
                    /\ q' = [q EXCEPT !.pages = Append(@, page), !.token = next]
                    /\ Then("ListModules")
               \/ /\ arrived \subseteq page
                  /\ q' = [q EXCEPT !.pages = Append(@, page)]
                  /\ Answer("ok")
            /\ lost' = (lost \/ arrived # rows)
  BY <1>2, <1>3, <1>4 DEF ListModules
<1>14. PICK arrived : arrived = FirstNames(rows, k)
  OBVIOUS
<1>15. PICK page : page = FirstNames(arrived, n)
  OBVIOUS
<1>16. lost' = (lost \/ arrived # rows)
  BY <1>5, <1>14, <1>15
<1>6. PICK P : P = q.pages
  OBVIOUS
<1>7. /\ \A x \in S : x \in Names /\ x # ""
      /\ page \subseteq arrived /\ arrived \subseteq rows /\ rows \subseteq S
  BY <1>0, <1>2, <1>4, <1>14, <1>15, ModuleNames DEF NamesFrom, FirstNames, OwnQuery
<1>8. steady' \subseteq {m.name : m \in modules}
  BY <1>0 DEF WalkInv, QueryStep, Started
<1>9. ASSUME ~lost, NEW x \in steady', x \notin Listed(P) PROVE x \in S
  <2>1. PICK m \in modules : m.name = x
    BY <1>8, <1>9
  <2>2. CASE q.token = ""
    BY <1>2, <2>1, <2>2 DEF NamesFrom
  <2>3. CASE q.token # ""
    <3>1. steady' = steady /\ q.token \in Names /\ ~(Position(x) < Position(q.token))
      BY <1>0, <1>6, <1>9, <2>3 DEF WalkInv, QueryStep, Started
    <3>2. Position(x) \in Nat /\ Position(q.token) \in Nat
      BY <1>0, <2>1, <3>1, PositionOfName, ModuleNames DEF OwnQuery
    <3>3. Position(m.name) >= Position(q.token)
      BY <2>1, <3>1, <3>2
    <3> QED
      BY <1>2, <2>1, <3>3 DEF NamesFrom
  <2> QED
    BY <2>2, <2>3
<1>10. ASSUME NEW x \in Listed(P), NEW y \in S PROVE Position(x) < Position(y)
  <2>1. q.token # ""
    <3>1. P # <<>>
      BY <1>10, NoPages
    <3> QED
      BY <1>1, <1>6, <3>1
  <2>2. Position(x) < Position(q.token) /\ q.token \in Names /\ x \in Names
    <3>1. P \in Seq(SUBSET Names)
      BY <1>1, <1>6
    <3>2. x \in Names
      BY <1>10, <3>1 DEF Listed, Elements
    <3> QED
      BY <1>0, <1>6, <1>10, <2>1, <3>2 DEF WalkInv
  <2>3. Position(y) >= Position(q.token)
    BY <1>2, <2>1 DEF NamesFrom
  <2>4. Position(x) \in Nat /\ Position(y) \in Nat /\ Position(q.token) \in Nat
    <3>1. y \in Names
      BY <1>7
    <3> QED
      BY <2>2, <3>1, PositionOfName
  <2> QED
    BY <2>2, <2>3, <2>4
<1>11. /\ Append(P, page) \in Seq(SUBSET Names) /\ Ordered(Append(P, page))
       /\ Listed(Append(P, page)) = Listed(P) \cup page
  <2>1. page \in SUBSET Names /\ \A x \in Listed(P), y \in page : Position(x) < Position(y)
    BY <1>7, <1>10
  <2> QED
    BY <1>1, <1>6, <2>1, PageAppended
<1>12. ASSUME NEW x \in arrived \ page, at' = "ListModules", reply' = "none",
              q' = [q EXCEPT !.pages = Append(@, page), !.token = x]
       PROVE  WalkInv'
  <2>1. q'.pages = Append(P, page) /\ q'.token = x /\ x \in S /\ x # "" /\ x \in Names
    BY <1>0, <1>6, <1>7, <1>12 DEF Shaped
  <2>0. S \subseteq Names /\ arrived \subseteq Names
    BY <1>7
  <2>2. \A y \in page : Position(y) < Position(x)
    BY <1>12, <1>15, <2>0, AfterFirstNames
  <2>5. ASSUME ~lost' PROVE \A y \in S : Position(y) < Position(x) => y \in page
    <3>1. arrived = rows
      BY <1>16, <2>5
    <3> QED
      BY <1>4, <1>12, <1>15, <2>0, <3>1, TokenAfterPage
  <2>3. \A y \in Listed(P) \cup page : Position(y) < Position(x)
    BY <1>10, <2>1, <2>2
  <2>4. ~lost' => \A y \in steady' : Position(y) < Position(x) => y \in Listed(P) \cup page
    BY <1>9, <1>16, <2>5
  <2> QED
    BY <1>0, <1>8, <1>11, <1>12, <2>1, <2>3, <2>4 DEF WalkInv
<1>13. ASSUME arrived \subseteq page, at' = "Done", reply' = "ok",
              q' = [q EXCEPT !.pages = Append(@, page)]
       PROVE  WalkInv'
  <2>1. q'.pages = Append(P, page)
    BY <1>0, <1>6, <1>13 DEF Shaped
  <2>2. ASSUME ~lost' PROVE S \subseteq page
    <3>1. S \subseteq Names /\ arrived = rows
      BY <1>7, <1>16, <2>2
    <3> QED
      BY <1>4, <1>13, <1>15, <3>1, LastPageIsAll
  <2>3. ~lost' => steady' \subseteq Listed(P) \cup page
    BY <1>9, <1>16, <2>2
  <2> QED
    BY <1>0, <1>11, <1>13, <2>1, <2>3 DEF WalkInv
<1> QED
  <2>1. \/ \E x \in arrived \ page :
             /\ q' = [q EXCEPT !.pages = Append(@, page), !.token = x]
             /\ Then("ListModules")
        \/ /\ arrived \subseteq page
           /\ q' = [q EXCEPT !.pages = Append(@, page)]
           /\ Answer("ok")
    BY <1>5, <1>14, <1>15
  <2> QED
    BY <1>0, <1>12, <1>13, <2>1 DEF Then, Answer

LEMMA WalkInvariant == QuerySpec => []WalkInv
<1>1. QueryInit => WalkInv
  <2> SUFFICES ASSUME QueryInit PROVE WalkInv
    OBVIOUS
  <2>1. /\ q.pages = <<>> /\ q.token = "" /\ reply = "none"
    BY DEF QueryInit, InitQuery
  <2>2. q.pages \in Seq(SUBSET Names) /\ Ordered(q.pages)
    BY <2>1, NoPages
  <2> QED
    BY <2>1, <2>2 DEF WalkInv
<1>2. ASSUME WalkInv, ControlInv, AnswersInv, [QueryNext]_QueryVars PROVE WalkInv'
  <2>0. OwnQuery
    BY <1>2 DEF ControlInv
  <2>1. CASE RegistryStep
    BY <1>2, <2>0, <2>1 DEF WalkInv, RegistryStep, OwnQuery
  <2>5. CASE QueryStep /\ ask.op = "ListModules" /\ StatementFails
    <3>1. q' = q /\ at' = "Done" /\ reply' = "failed" /\ ask' = ask
      BY <1>2, <2>0, <2>5, ExpandFailsContinues
      DEF ControlInv, QueryStep, StatementFails, OwnQuery
    <3> QED
      BY <1>2, <3>1 DEF WalkInv
  <2>2. CASE QueryStep /\ ask.op = "ListModules"
    BY <1>2, <2>0, <2>2, <2>5, ListModulesWalkInv DEF QueryStep, GetModuleRow, GetTags,
       GetTagId, GetTagMeta, GetParsed, DepsLatestTag, DepsTagId, DepsRows,
       DepsResolve, Asks, OwnQuery
  <2>3. CASE ask' = ask /\ ask.op # "ListModules"
    BY <2>3 DEF WalkInv
  <2>4. CASE UNCHANGED QueryVars
    BY <1>2, <2>4 DEF WalkInv, QueryVars, vars, qvars, tables
  <2> QED
    BY <1>2, <2>1, <2>2, <2>3, <2>4 DEF QueryNext, QueryStep, DaemonStep
<1> QED
  BY <1>1, <1>2, QueryAnswersInv, PackagesInvariant, PTL DEF QuerySpec, QueryVars

\* For every order of the names and every page size: a walk through ListModules
\* lists each module that was there from its first page to its last, once, and
\* in order, whatever is registered or deleted between two pages, unless rows of
\* a page are lost with the connection.
THEOREM WalkIsComplete == QuerySpec => []WalkListsSteady
<1>1. WalkInv => WalkListsSteady
  BY DEF WalkInv, WalkListsSteady, Ordered, Listed
<1> QED
  BY <1>1, WalkInvariant, PTL
=============================================================================
