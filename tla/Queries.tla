------------------------------ MODULE Queries -------------------------------
(***************************************************************************)
(* The queries that take several statements: GetModule with its packages,  *)
(* GetMetadata, GetTransitiveDependencies, and a client's walk through the *)
(* pages of ListModules, beside the handlers of Registry and the           *)
(* proto-parsing daemon, whose rows the first two read.                    *)
(*                                                                         *)
(* Queries only read, so they do not interfere with each other: one query, *)
(* ask, is enough.  A statement of the query can fail, and none of the     *)
(* loops over rows reads rows.Err(): when the connection is lost among the *)
(* rows, those that have arrived are taken for all.                        *)
(***************************************************************************)
EXTENDS Registry

CONSTANTS
  Run,        \* the runs of the daemon that may overlap
  Scenarios,  \* pairs of a workload of the handlers and a query
  NameOrder   \* the module names in the order of the database

NoQuery == [op |-> "None", name |-> "", tag |-> "", size |-> 0, driver |-> ""]

Query == [op : {"None", "GetModule", "GetMetadata", "GetTransitive", "ListModules"},
          name : STRING, tag : STRING, size : Nat,
          driver : {"", "postgres", "sqlite"}]

\* GetModuleRequest has no tag
ASSUME ScenariosAssumption ==
  \A s \in Scenarios : /\ s[1] \in Workload /\ s[2] \in Query
                       /\ s[2].op = "GetModule" => s[2].tag = ""

\* NameOrder orders every name that can be registered.
ASSUME NameOrderAssumption ==
  /\ NameOrder \in Seq(STRING)
  /\ \A i, j \in DOMAIN NameOrder : NameOrder[i] = NameOrder[j] => i = j
  /\ \A w \in Workload : \A c \in Client :
       w[c].op = "Register" /\ w[c].name # "" => w[c].name \in Elements(NameOrder)

VARIABLES
  tag_meta,   \* rows [tag_id, files]: the metadata of these files
  parsed,     \* proto_parsed_data: rows [tag_id, file]
  daemon,     \* of each run the tags to do, the tag read last and its files
  ask,        \* the query
  at,         \* the statement it executes next
  reply,      \* how it was answered, "none" while it runs
  q,          \* its local variables
  changed,    \* history: a table has changed since the query began
  steady,     \* history: the modules that were there since it began
  lost,       \* history: the query has lost rows, or a statement failed
  cut         \* history: the tags of whose files a run has lost some

qvars == <<tag_meta, parsed, daemon, ask, at, reply, q, changed, steady, lost,
           cut>>
dvars == <<tag_meta, parsed, daemon, cut>>

\* A dependency as depKey has it
Key(name, tag) == [name |-> name, tag |-> tag]

InitQuery == [module_id |-> None, tag |-> "", tag_id |-> None, files |-> {},
              cur |-> Key("", ""), direct |-> TRUE, rows |-> {}, deps |-> {},
              queue |-> {}, visited |-> {}, result |-> {}, rounds |-> 0,
              token |-> "", pages |-> <<>>]

Then(s) == at' = s /\ UNCHANGED reply
Answer(status) == at' = "Done" /\ reply' = status
Asks(s) == at = s /\ reply = "none"

-----------------------------------------------------------------------------
(* The proto-parsing daemon, as far as the queries see it                  *)

Idle == [todo |-> {}, tag_id |-> None, files |-> {}]

\* GetUnprocessedTagIds; is_processed is set with the tag_meta row
ListTags(r) ==
  /\ daemon[r] = Idle
  /\ daemon' = [daemon EXCEPT ![r].todo =
       {t.id : t \in {x \in tags : \A m \in tag_meta : m.tag_id # x.id}}]
  /\ UNCHANGED <<tag_meta, parsed, cut>>

\* GetProtoFilesForTagId: all the files that are there, or those that arrived
ReadTag(r) ==
  /\ daemon[r].tag_id = None
  /\ \E t \in daemon[r].todo : \E files \in SUBSET StoredFiles(t) :
       /\ daemon' = [daemon EXCEPT ![r].todo = @ \ {t}, ![r].tag_id = t,
                                   ![r].files = files]
       /\ cut' = IF files = StoredFiles(t) THEN cut ELSE cut \cup {t}
  /\ UNCHANGED <<tag_meta, parsed>>

ParsedOf(r) == {[tag_id |-> daemon[r].tag_id, file |-> f] : f \in daemon[r].files}

\* ON CONFLICT (tag_id) DO UPDATE
MetaWith(r) ==
  {m \in tag_meta : m.tag_id # daemon[r].tag_id} \cup
  {[tag_id |-> daemon[r].tag_id, files |-> daemon[r].files]}

\* Mutant: the metadata is committed before the parsed files
SaveTagMetaFirst(r) ==
  /\ daemon[r].tag_id # None
  /\ \/ /\ tag_meta' = MetaWith(r)
        /\ UNCHANGED <<parsed, daemon>>
     \/ /\ tag_meta = MetaWith(r)
        /\ parsed' = parsed \cup ParsedOf(r)
        /\ daemon' = [daemon EXCEPT ![r].tag_id = None, ![r].files = {}]
        /\ UNCHANGED tag_meta
  /\ UNCHANGED cut

\* SaveParsedProtoFiles: the parsed files and RetrieveMeta of them, together;
\* or an error, and the run goes on to the next tag
SaveTag(r) ==
  /\ daemon[r].tag_id # None
  /\ \/ tag_meta' = MetaWith(r) /\ parsed' = parsed \cup ParsedOf(r)
     \/ UNCHANGED <<tag_meta, parsed>>
  /\ daemon' = [daemon EXCEPT ![r].tag_id = None, ![r].files = {}]
  /\ UNCHANGED cut

DaemonStep(r) ==
  /\ ListTags(r) \/ ReadTag(r) \/ SaveTag(r)
  /\ UNCHANGED <<vars, ask, at, reply, q, changed, steady, lost>>

-----------------------------------------------------------------------------
(* GetModule and GetMetadata                                               *)

GetModuleRow ==
  /\ Asks("GetModule")
  /\ \/ /\ ModulesNamed(ask.name) = {}
        /\ Answer("module not found") /\ UNCHANGED q
     \/ \E m \in ModulesNamed(ask.name) :
          q' = [q EXCEPT !.module_id = m.id] /\ Then("GetTags")
  /\ UNCHANGED lost

\* ORDER BY updated_at DESC: q.tag is module.Tags[0].  The other answer is that
\* of a module without tags, or that no row has arrived.
GetTags ==
  LET rows == {t \in tags : t.module_id = q.module_id}
  IN  /\ Asks("GetTags")
      /\ \/ /\ Answer("ok") /\ UNCHANGED q
            /\ lost' = (lost \/ rows # {})
         \/ /\ \E L \in Latest(rows, 1) : \E t \in L :
                 q' = [q EXCEPT !.tag = t.tag] /\ Then("GetMetadata")
            /\ UNCHANGED lost

\* Mutant: only tags that are processed have an id
GetTagIdOfProcessed ==
  LET rows == {t \in TagRows(ask.name, q.tag) : \E m \in tag_meta : m.tag_id = t.id}
  IN  /\ Asks("GetMetadata")
      /\ \/ rows = {} /\ Then("GetTagMeta") /\ UNCHANGED q
         \/ \E t \in rows : q' = [q EXCEPT !.tag_id = t.id] /\ Then("GetTagMeta")
      /\ UNCHANGED lost

\* GetModuleTagId: without a row the id is ""
GetTagId ==
  LET rows == TagRows(ask.name, q.tag)
  IN  /\ Asks("GetMetadata")
      /\ \/ /\ rows = {} /\ ask.op = "GetMetadata"
            /\ Answer("module tag not found") /\ UNCHANGED q
         \/ /\ rows = {} /\ ask.op = "GetModule"
            /\ Then("GetTagMeta") /\ UNCHANGED q
         \/ \E t \in rows : q' = [q EXCEPT !.tag_id = t.id] /\ Then("GetTagMeta")
      /\ UNCHANGED lost

\* GetTagMetaByTagId.  GetModule asks also with the id "", which PostgreSQL
\* does not accept as a uuid; no metadata is no packages.
GetTagMeta ==
  LET rows == {m \in tag_meta : m.tag_id = q.tag_id}
  IN  /\ Asks("GetTagMeta")
      /\ \/ /\ q.tag_id = None /\ ask.driver = "postgres"
            /\ Answer("error") /\ UNCHANGED q
         \/ /\ q.tag_id = None => ask.driver = "sqlite"
            /\ rows = {}
            /\ Answer(IF ask.op = "GetModule" THEN "ok" ELSE "tag meta not found")
            /\ UNCHANGED q
         \/ /\ q.tag_id # None
            /\ \E m \in rows :
                 IF ask.op = "GetModule"
                 THEN q' = [q EXCEPT !.files = m.files] /\ Answer("packages")
                 ELSE Then("GetParsed") /\ UNCHANGED q
      /\ UNCHANGED lost

ParsedFiles(t) == {p.file : p \in {x \in parsed : x.tag_id = t}}

\* GetParsedProtoFiles, for ToMetadata
GetParsed ==
  /\ Asks("GetParsed")
  /\ \E arrived \in SUBSET ParsedFiles(q.tag_id) :
       /\ q' = [q EXCEPT !.files = arrived]
       /\ lost' = (lost \/ arrived # ParsedFiles(q.tag_id))
  /\ Answer("packages")

-----------------------------------------------------------------------------
(* GetTransitiveDependencies: a breadth-first search over                  *)
(* GetModuleDependencies                                                   *)

\* Mutant: what was visited is not remembered
UnvisitedForgets(deps) == deps

Unvisited(deps) == deps \ q.visited

\* The loop takes the next dependency, or ends
Continue(queue, rest) ==
  \/ /\ queue = {}
     /\ q' = [rest EXCEPT !.queue = {}]
     /\ Answer("ok")
  \/ \E k \in queue :
       /\ q' = [rest EXCEPT !.cur = k, !.queue = queue \ {k}, !.direct = FALSE,
                            !.rounds = @ + 1]
       /\ Then("DepsTagId")

\* GetModuleDependencies of q.cur answers deps
Expand(deps) ==
  IF q.direct
  THEN Continue(deps, [q EXCEPT !.visited = {Key(ask.name, ask.tag)} \cup deps,
                                !.result = deps, !.deps = {}])
  ELSE Continue(q.queue \cup Unvisited(deps),
                [q EXCEPT !.visited = @ \cup deps, !.deps = {},
                          !.result = @ \cup Unvisited(deps)])

\* ... or an error: of the root it is the answer, of the others a warning
ExpandFails(status) ==
  IF q.direct THEN Answer(status) /\ UNCHANGED q
  ELSE Continue(q.queue, [q EXCEPT !.deps = {}])

\* An empty tag means the latest one
DepsLatestTag ==
  /\ Asks("GetTransitive") /\ ask.tag = ""
  /\ \/ TagsOfName(ask.name) = {} /\ Expand({})
     \/ \E L \in Latest(TagsOfName(ask.name), 1) : \E t \in L :
          /\ q' = [q EXCEPT !.cur = Key(ask.name, t.tag), !.tag = t.tag]
          /\ Then("DepsTagId")
  /\ UNCHANGED lost

DepsTagId ==
  LET k == IF at = "GetTransitive" THEN Key(ask.name, ask.tag) ELSE q.cur
      rows == TagRows(k.name, k.tag)
  IN  /\ Asks("DepsTagId") \/ (Asks("GetTransitive") /\ ask.tag # "")
      /\ \/ rows = {} /\ ExpandFails("tag not found")
         \/ \E t \in rows :
              q' = [q EXCEPT !.cur = k, !.tag_id = t.id] /\ Then("DepsRows")
      /\ UNCHANGED lost

\* Mutant: the two columns are swapped
DepsRowsReversed ==
  LET ids == {d.tag_id : d \in {e \in dependencies : e.dependency_tag_id = q.tag_id}}
  IN  /\ Asks("DepsRows")
      /\ IF ids = {} THEN Expand({})
         ELSE q' = [q EXCEPT !.rows = ids] /\ Then("DepsResolve")
      /\ UNCHANGED lost

DepsRows ==
  LET ids == {d.dependency_tag_id : d \in {e \in dependencies : e.tag_id = q.tag_id}}
  IN  /\ Asks("DepsRows")
      /\ \E arrived \in SUBSET ids :
           /\ IF arrived = {} THEN Expand({})
              ELSE q' = [q EXCEPT !.rows = arrived] /\ Then("DepsResolve")
           /\ lost' = (lost \/ arrived # ids)

DepsResolve ==
  /\ Asks("DepsResolve")
  /\ \E x \in q.rows :
       \/ /\ ~\E t \in tags, m \in modules : t.id = x /\ m.id = t.module_id
          /\ ExpandFails("dependency not found")
       \/ \E t \in tags, m \in modules :
            /\ t.id = x /\ m.id = t.module_id
            /\ LET deps == q.deps \cup {Key(m.name, t.tag)}
               IN  IF q.rows = {x} THEN Expand(deps)
                   ELSE /\ q' = [q EXCEPT !.deps = deps, !.rows = @ \ {x}]
                        /\ Then("DepsResolve")
  /\ UNCHANGED lost

-----------------------------------------------------------------------------
(* ListModules, until it gives no token                                    *)

Position(name) == CHOOSE i \in DOMAIN NameOrder : NameOrder[i] = name

\* Mutant: name > token
NamesAfter(token) ==
  {m.name : m \in {x \in modules :
                     token # "" => Position(x.name) > Position(token)}}

\* WHERE name >= token
NamesFrom(token) ==
  {m.name : m \in {x \in modules :
                     token # "" => Position(x.name) >= Position(token)}}

\* ORDER BY name ASC LIMIT n
FirstNames(names, n) ==
  {x \in names : Cardinality({y \in names : Position(y) < Position(x)}) < n}

\* A request without a page size gets the default of 10
PageSize == IF ask.size = 0 THEN 10 ELSE ask.size

\* LIMIT pageSize + 1: the row too many is the token of the next page
ListModules ==
  LET rows == FirstNames(NamesFrom(q.token), PageSize + 1)
  IN  /\ Asks("ListModules")
      /\ \E n \in 0 .. PageSize + 1 :
           LET arrived == FirstNames(rows, n)
               page == FirstNames(arrived, PageSize)
           IN  /\ \/ \E next \in arrived \ page :
                       /\ q' = [q EXCEPT !.pages = Append(@, page), !.token = next]
                       /\ Then("ListModules")
                  \/ /\ arrived \subseteq page
                     /\ q' = [q EXCEPT !.pages = Append(@, page)]
                     /\ Answer("ok")
               /\ lost' = (lost \/ arrived # rows)

-----------------------------------------------------------------------------

\* A statement fails.  The query fails with it, unless it is a statement of a
\* nested GetModuleDependencies.
StatementFails ==
  /\ reply = "none" /\ at # "None"
  /\ ExpandFails("failed")
  /\ lost' = TRUE

\* The query has executed its first statement
Started == at # ask.op \/ q.token # ""

QueryStep ==
  /\ \/ GetModuleRow \/ GetTags \/ GetTagId \/ GetTagMeta \/ GetParsed
     \/ DepsLatestTag \/ DepsTagId \/ DepsRows \/ DepsResolve
     \/ ListModules \/ StatementFails
  /\ steady' = IF ask.op = "ListModules" /\ ~Started
               THEN {m.name : m \in modules} ELSE steady
  /\ UNCHANGED <<vars, dvars, ask, changed>>

\* A step of the handlers of Registry, of interest until the query is answered
RegistryStep ==
  /\ Next /\ reply = "none"
  /\ changed' = (changed \/ (Started /\ <<modules, tags, dependencies>>'
                                        # <<modules, tags, dependencies>>))
  /\ steady' = steady \cap {m.name : m \in modules'}
  /\ UNCHANGED <<dvars, ask, at, reply, q, lost>>

QueryInit ==
  /\ Init
  /\ \E s \in Scenarios : s[1] = req /\ ask = s[2]
  /\ at = ask.op /\ reply = "none"
  /\ q = [InitQuery EXCEPT !.tag = ask.tag]
  /\ tag_meta = {} /\ parsed = {} /\ daemon = [r \in Run |-> Idle]
  /\ changed = FALSE /\ steady = {} /\ lost = FALSE /\ cut = {}

QueryNext ==
  \/ RegistryStep
  \/ QueryStep
  \/ /\ ask.op \in {"GetModule", "GetMetadata"} /\ reply = "none"
     /\ \E r \in Run : DaemonStep(r)

QuerySpec == QueryInit /\ [][QueryNext]_<<vars, qvars>>

-----------------------------------------------------------------------------
(* Properties                                                              *)

\* The packages that GetModule and GetMetadata answer are those of one push of
\* the module and of the tag that was listed or asked for, although the daemon
\* and the handler each take several statements and runs overlap.  They are
\* those of all its files, unless rows were lost with a connection (of the
\* files when a run read them, or of what it has parsed when the query did),
\* or those of none because a delete had removed the files before a run read
\* them.
PackagesOfOnePush ==
  reply = "packages" =>
    \E p \in Client :
      /\ Committed(p) /\ req[p].name = ask.name /\ req[p].tag = q.tag
      /\ q.files \subseteq Elements(req[p].files)
      /\ \/ q.files = Elements(req[p].files)
         \/ q.files = {} /\ \E d \in Client : FilesDeletedBy(d, p)
         \/ p \in cut \/ lost

\* GetModule loses the tag it has just listed, and with PostgreSQL fails as a
\* whole, only if the tag was deleted in between.
StaleTagOnlyAfterDelete ==
  ask.op = "GetModule" /\ reply \in {"ok", "error"} /\ q.tag # "" /\ q.tag_id = None =>
    \E p, d \in Client : /\ Committed(p) /\ TagDeletedBy(d, p)
                         /\ req[p].name = ask.name /\ req[p].tag = q.tag

\* The tag whose dependencies were asked for, q.tag being the latest one if
\* the request named none
Root == Key(ask.name, q.tag)

\* Reference: the dependencies of a tag, and all that can be reached
TagKeys == UNION {{Key(m.name, t.tag) : t \in TagsOfName(m.name)} : m \in modules}

DependenciesOf(k) ==
  {d \in TagKeys : \E x \in TagRows(k.name, k.tag), y \in TagRows(d.name, d.tag) :
                     [tag_id |-> x.id, dependency_tag_id |-> y.id] \in dependencies}

ReachableFrom(k) ==
  {x \in TagKeys : \A S \in SUBSET TagKeys :
     DependenciesOf(k) \subseteq S /\ (\A y \in S : DependenciesOf(y) \subseteq S)
     => x \in S}

\* What the search is to find, in graphs with cycles too (two pushes that
\* overlap can depend on each other).  The tag itself is among them only if it
\* depends on itself directly, or if the request left its tag out: visited
\* then has it under the empty tag.
Transitive ==
  (ReachableFrom(Root) \ {Key(ask.name, ask.tag)}) \cup DependenciesOf(Root)

Dangles(d) == ~\E t \in tags, m \in modules :
                 t.id = d.dependency_tag_id /\ m.id = t.module_id

\* If no table changes meanwhile, the search answers only what can be reached,
\* and all of it unless a dependency dangles, a row was lost or a statement
\* failed: an error of a nested lookup is logged and the answer is still ok.
TransitiveExact ==
  ask.op = "GetTransitive" /\ reply = "ok" /\ ~changed =>
    /\ q.result \subseteq Transitive
    /\ ~lost /\ (\A d \in dependencies : ~Dangles(d)) => q.result = Transitive

\* Whatever changes between two of its statements, the search answers only
\* dependencies that a push of the tag asked for, or of a tag it answers too,
\* has declared.
TransitiveDeclared ==
  \A k \in q.result : \E p \in Client :
    /\ req[p].op = "Push" /\ k \in Elements(req[p].deps)
    /\ Key(req[p].name, req[p].tag) \in q.result \cup {Root}

\* The search ends: it reads the dependencies of each tag at most once.
RoundsBounded == q.rounds <= Cardinality(q.visited)

\* A walk through the pages lists no module twice, and every module that is
\* there from its first page to its last, whatever is registered or deleted
\* between two pages, the module that the token names included; unless rows
\* of a page were lost, which ends the walk as if it were complete.
WalkListsSteady ==
  ask.op = "ListModules" =>
    /\ \A i, j \in DOMAIN q.pages : i < j =>
         \A x \in q.pages[i], y \in q.pages[j] : Position(x) < Position(y)
    /\ reply = "ok" /\ ~lost => steady \subseteq UNION Elements(q.pages)
=============================================================================
