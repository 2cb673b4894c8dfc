-------------------------- MODULE DependencyDrift ---------------------------
(***************************************************************************)
(* What drift means for those who depend on a module: the severity that    *)
(* driftdetection.go gives to the change of a file between two tags, and   *)
(* GetModuleDependencyDriftStatuses, which shows a dependent the severity  *)
(* of each tag newer than the one it is pinned to.                         *)
(*                                                                         *)
(* DriftDaemon has the tags, their pushes and deletes, and the runs of the *)
(* daemon that compare them, with all that can go wrong there.  Here the   *)
(* contents are parsed files, their severities those of the code, and a    *)
(* request for the status is answered beside the rest.                     *)
(***************************************************************************)
EXTENDS DriftDaemon, Integers, Sequences

CONSTANT HalfWord   \* 2^31: an int32 is in -HalfWord .. HalfWord - 1

(***************************************************************************)
(* A parsed file, flattened as the extract functions do it: nested         *)
(* messages under their path, fields of oneofs and maps among the fields,  *)
(* each with its oneof, "" outside.  A dotted name is the sequence of its  *)
(* parts, and the type map<k,v> has the key k, any other the key "".  An   *)
(* enum names the message it is nested in, "" at the top level.  decimal:  *)
(* the literal has decimal digits only, which make up number.  options:    *)
(* the names of all options, the parts in parentheses apart.  rest:        *)
(* comments and whatever else tells two contents apart.                    *)
(***************************************************************************)
Name == Seq(STRING)
Type == [key : STRING, name : Name]
Field == [message : STRING, number : Int, decimal : BOOLEAN, name : STRING,
          type : Type, label : {"optional", "required", "repeated"},
          oneof : STRING]
Enum == [message : STRING, name : STRING]
EnumValue == [enum : Enum, number : Int, decimal : BOOLEAN]
RPC == [service : STRING, name : STRING, request : Name, response : Name,
        streams : BOOLEAN \X BOOLEAN]
OptionName == [extension : Name, path : Name]

ParsedProto ==
  [package : STRING, messages : SUBSET STRING, fields : SUBSET Field,
   enums : SUBSET Enum, values : SUBSET EnumValue, services : SUBSET STRING,
   rpcs : SUBSET RPC, options : SUBSET OptionName, rest : STRING]

\* fieldKey(messageName, fieldNumber)
SameField(f, g) == f.message = g.message /\ f.number = g.number
SameRPC(r, s) == r.service = s.service /\ r.name = s.name

-----------------------------------------------------------------------------
(* determineSeverityFromParsed                                             *)

Fits32(n) == n \in -HalfWord..(HalfWord - 1)

\* extractFieldsByNumberFromMessages: a literal that ParseInt(number, 10, 32)
\* refuses is skipped
ByNumber(elements) == {x \in elements : x.decimal /\ Fits32(x.number)}

\* extractEnumsFromParsed does not descend into messages
TopLevel(enums) == {e \in enums : e.message = ""}
TopLevelValues(values) == {v \in ByNumber(values) : v.enum.message = ""}

HasBreakingChanges(previous, current) ==
  \/ previous.package # current.package
  \/ ~(previous.messages \subseteq current.messages)
  \/ ~(previous.services \subseteq current.services)
  \/ ~(TopLevel(previous.enums) \subseteq TopLevel(current.enums))
  \/ \E f \in ByNumber(previous.fields) :
       \A g \in ByNumber(current.fields) : SameField(f, g) => f.type # g.type
  \/ \E r \in previous.rpcs : r \notin current.rpcs
  \/ ~(TopLevelValues(previous.values) \subseteq TopLevelValues(current.values))

\* countRequiredFields
RequiredFields(p) == {f \in p.fields : f.label = "required"}

HasPotentiallyBreakingChanges(previous, current) ==
  \/ Cardinality(RequiredFields(current)) > Cardinality(RequiredFields(previous))
  \/ \E f \in ByNumber(previous.fields), g \in ByNumber(current.fields) :
       SameField(f, g) /\ f.name # g.name

\* Of two parsed files; ModifiedSeverity has the case that one is missing
DetermineSeverity(previous, current) ==
  IF HasBreakingChanges(previous, current) THEN "critical"
  ELSE IF HasPotentiallyBreakingChanges(previous, current) THEN "warning"
  ELSE "info"

\* A file declares a field number, or an rpc, once
ASSUME ProtoAssumption ==
  /\ HalfWord \in Nat \ {0}
  /\ \A p \in Content :
       /\ p \in ParsedProto /\ IsFiniteSet(p.fields)
       /\ \A f, g \in p.fields : SameField(f, g) => f = g
       /\ \A r, s \in p.rpcs : SameRPC(r, s) => r = s

ASSUME SeverityAssumption ==
  SeverityOf = [c \in Content \X Content |-> DetermineSeverity(c[1], c[2])]

-----------------------------------------------------------------------------
(* GetModuleDependencyDriftStatuses, for one dependency                    *)

VARIABLE reader   \* a request for the drift status of a dependent

\* The handler calls the repository and answers with what it returns, or with
\* an error when a statement fails.  Of history are newer, the tags listed, and
\* compared, those whose drift had been looked for by then.
NewRequest == [pc |-> "start", pinned |-> None, todo |-> {}, newer |-> {},
               compared |-> {}, statuses |-> {}]

\* SELECT the dependency's tag: once it is gone the join has no row
SelectDependency ==
  /\ reader.pc = "start"
  /\ \/ \E d \in Tag : /\ HasRow(d)
                       /\ reader' = [reader EXCEPT !.pc = "newer", !.pinned = d]
     \/ reader' = [reader EXCEPT !.pc = "done"]

\* Mutant: LIMIT 1, the latest tag only
NewerLatest(d) ==
  {t \in Tag : /\ HasRow(d) /\ HasRow(t) /\ ModuleOf[t] = ModuleOf[d]
               /\ updated_at[t] > updated_at[d]
               /\ \A u \in Tag : HasRow(u) => updated_at[u] <= updated_at[t]}

\* updated_at > (SELECT updated_at FROM tags WHERE id = $2), which is NULL and
\* compares with nothing once the pinned tag is gone
Newer(d) ==
  {t \in Tag : /\ HasRow(d) /\ HasRow(t) /\ ModuleOf[t] = ModuleOf[d]
               /\ updated_at[t] > updated_at[d]}

\* The handler answers when there is no tag left to look at
ReadNext(todo) == IF todo = {} THEN "done" ELSE "rank"

\* The daemon is through with t
DriftLookedFor(t) == t \in processed /\ \A r \in Run : t \notin run[r].done

SelectNewer ==
  LET newer == Newer(reader.pinned)
  IN  /\ reader.pc = "newer"
      /\ reader' = [reader EXCEPT !.pc = ReadNext(newer), !.todo = newer,
                      !.newer = newer,
                      !.compared = {t \in Tag : DriftLookedFor(t)}]

SeverityRank == [info |-> 1, warning |-> 2, critical |-> 3]

Ranks(t) == {SeverityRank[e.severity] : e \in {n \in events : n.tag_id = t}}

\* recommendationFromSeverity
Recommendation(rank) == IF rank >= 2 THEN "alert_review" ELSE "suggest_update"

Status(t, rank) ==
  [target |-> t, rank |-> rank, recommendation |-> Recommendation(rank)]

MaxRank(t) == {m \in Ranks(t) : \A n \in Ranks(t) : n <= m}

\* Mutant: a tag without drift events is shown too
StatusesOfAll(t) ==
  {Status(t, m) : m \in IF Ranks(t) = {} THEN {0} ELSE MaxRank(t)}

\* A tag without drift events is not shown
Statuses(t) == {Status(t, m) : m \in MaxRank(t)}

\* SELECT MAX(severity) FROM drift_events, tags in the order of updated_at
SelectRank ==
  /\ reader.pc = "rank"
  /\ \E t \in reader.todo :
       /\ \A u \in reader.todo : updated_at[t] <= updated_at[u]
       /\ reader' = [reader EXCEPT !.pc = ReadNext(reader.todo \ {t}),
                       !.todo = @ \ {t}, !.statuses = @ \cup Statuses(t)]

\* Any statement: the request is answered with an error
ReadFails ==
  /\ reader.pc \in {"start", "newer", "rank"}
  /\ reader' = [reader EXCEPT !.pc = "failed", !.statuses = {}]

ReaderStep == SelectDependency \/ SelectNewer \/ SelectRank \/ ReadFails

-----------------------------------------------------------------------------

StatusInit == Init /\ reader = NewRequest

StatusNext ==
  \/ Next /\ UNCHANGED reader
  \/ ReaderStep /\ UNCHANGED vars

StatusSpec == StatusInit /\ [][StatusNext]_<<vars, reader>>

-----------------------------------------------------------------------------
(* Properties                                                              *)

\* The severity of a status is one of the three, and its target is a tag that
\* was listed.
StatusTypeOK ==
  /\ reader.pc \in {"start", "newer", "rank", "done", "failed"}
  /\ reader.pinned \in Tag \cup {None} /\ reader.newer \subseteq Tag
  /\ reader.todo \subseteq reader.newer /\ reader.compared \subseteq Tag
  /\ reader.statuses \subseteq
       [target : reader.newer, rank : 1..3,
        recommendation : {"alert_review", "suggest_update"}]

\* The rank that the change of a file deserves: 1 info, 2 warning, 3 critical,
\* and 0 if the contents are equal.
Rank(previous, current) ==
  IF previous = current THEN 0 ELSE SeverityRank[TrueSeverity(previous, current)]

\* As in DriftComplete: on PostgreSQL, with pushes that do not overlap, nothing
\* has failed and no tag of the module of t was deleted.
Orderly(t) ==
  /\ SerialPush /\ backend = "postgres" /\ faults = 0
  /\ \A u \in Tag : ModuleOf[u] = ModuleOf[t]
                    => stage[u] \notin {"fileless", "gone"}

\* The daemon was through, when the newer tags were listed, with every tag that
\* an update from d to j passes, and no other tag has the time of d.
Unbroken(d, j) ==
  \A t \in Tag : HasRow(t) /\ ModuleOf[t] = ModuleOf[d] =>
    /\ updated_at[d] < updated_at[t] /\ updated_at[t] <= updated_at[j]
         => t \in reader.compared
    /\ t # d => updated_at[t] # updated_at[d]

\* The statuses up to j tell of the change of file f from the pinned tag to j.
Told(j, f) ==
  LET rank == Rank(pushed[reader.pinned][f], pushed[j][f])
  IN  \/ rank = 0
      \/ \E s \in reader.statuses :
           /\ updated_at[s.target] <= updated_at[j] /\ rank <= s.rank
           /\ rank > 1 => s.recommendation = "alert_review"

\* A dependent that goes from its pinned tag to a newer one meets in no file a
\* change worse than the worst of the statuses up to that tag: severities of
\* single steps add up to no worse a change, however runs of the daemon, pushes
\* and the request interleave.  If the change needs a review, one of them says
\* so.  Exceptions: an older push that commits after a newer one (its
\* comparison may miss hashes and store a critical change as "added", or skip a
\* step), anything that failed, a deleted tag, SQLite's text comparison of
\* times, a step that the daemon has not looked at, and a second tag with the
\* time of the pinned one.
StatusesCoverUpdate ==
  reader.pc = "done" =>
    \A j \in reader.newer : Orderly(j) /\ Unbroken(reader.pinned, j) =>
      \A f \in Filename : Told(j, f)

\* A status is the true severity of a change that the pinned tag does not have
\* yet: the change of some file between the pinned tag or a later one, the one
\* that precedes the target, and the target.  The first four exceptions of
\* StatusesCoverUpdate apply.
StatusesAreNews ==
  \A s \in reader.statuses : Orderly(s.target) =>
    \E p \in Previous(s.target), f \in Filename :
      /\ updated_at[p] >= updated_at[reader.pinned]
      /\ s.rank = Rank(pushed[p][f], pushed[s.target][f])
=============================================================================
