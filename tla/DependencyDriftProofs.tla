----------------------- MODULE DependencyDriftProofs ------------------------
(***************************************************************************)
(* What holds of the drift severities and of the dependency drift status   *)
(* for every set of tags, files, contents and runs.  The argument about    *)
(* the request rests on the invariants of the daemon: DaemonInv of         *)
(* DriftDaemonProofs, and CompleteInv of DriftCompleteness while it is     *)
(* calm.                                                                   *)
(***************************************************************************)
EXTENDS ProtoMeta, DriftCompleteness, FiniteSetTheorems, WellFoundedInduction

FileContent == Content \cup {NoFile}

-----------------------------------------------------------------------------
(* Severities                                                              *)

LEMMA SeverityRanks ==
  /\ SeverityRank["info"] = 1 /\ SeverityRank["warning"] = 2
  /\ SeverityRank["critical"] = 3
  /\ \A s \in Severity : SeverityRank[s] \in 1..3
BY DEF SeverityRank, Severity

LEMMA RequiredType ==
  ASSUME NEW p \in Content
  PROVE  Cardinality(RequiredFields(p)) \in Nat
<1>1. IsFiniteSet(p.fields) BY ProtoAssumption
<1>2. RequiredFields(p) \in SUBSET p.fields BY DEF RequiredFields
<1>3. IsFiniteSet(RequiredFields(p)) BY <1>1, <1>2, FS_Subset
<1> QED BY <1>3, FS_CardinalityType

\* Rank is what detectDrift and determineSeverityFromParsed compute.
LEMMA RankValues ==
  ASSUME NEW a \in FileContent, NEW b \in FileContent, a # b
  PROVE  /\ a = NoFile => Rank(a, b) = 1
         /\ a # NoFile /\ b = NoFile => Rank(a, b) = 3
         /\ a # NoFile /\ b # NoFile =>
              Rank(a, b) = IF HasBreakingChanges(a, b) THEN 3
                           ELSE IF HasPotentiallyBreakingChanges(a, b) THEN 2 ELSE 1
<1>1. ASSUME a # NoFile, b # NoFile
      PROVE  TrueSeverity(a, b) = DetermineSeverity(a, b)
  <2>1. a \in Content /\ b \in Content BY <1>1 DEF FileContent
  <2>2. <<a, b>> \in Content \X Content BY <2>1
  <2>3. SeverityOf[<<a, b>>] = DetermineSeverity(a, b)
    BY <2>2, SeverityAssumption
  <2> QED BY <1>1, <2>3 DEF TrueSeverity
<1>2. a = NoFile => TrueSeverity(a, b) = "info" BY DEF TrueSeverity
<1>3. a # NoFile /\ b = NoFile => TrueSeverity(a, b) = "critical" BY DEF TrueSeverity
<1> QED BY <1>1, <1>2, <1>3, SeverityRanks DEF Rank, DetermineSeverity

LEMMA RankType ==
  ASSUME NEW a \in FileContent, NEW b \in FileContent
  PROVE  Rank(a, b) \in 0..3 /\ (Rank(a, b) = 0 <=> a = b)
<1>1. CASE a = b BY <1>1 DEF Rank
<1>2. CASE a # b BY <1>2, RankValues
<1> QED BY <1>1, <1>2

\* A breaking change does not come about by changes that are not.
LEMMA UnbrokenSteps ==
  ASSUME NEW a \in Content, NEW b \in Content, NEW c \in Content,
         ~HasBreakingChanges(a, b), ~HasBreakingChanges(b, c)
  PROVE  ~HasBreakingChanges(a, c)
<1>1. \A f \in ByNumber(a.fields) : \E g \in ByNumber(c.fields) :
         SameField(f, g) /\ f.type = g.type
  <2> SUFFICES ASSUME NEW f \in ByNumber(a.fields)
               PROVE  \E g \in ByNumber(c.fields) : SameField(f, g) /\ f.type = g.type
      OBVIOUS
  <2>1. PICK g \in ByNumber(b.fields) : SameField(f, g) /\ f.type = g.type
      BY DEF HasBreakingChanges
  <2>2. PICK h \in ByNumber(c.fields) : SameField(g, h) /\ g.type = h.type
      BY DEF HasBreakingChanges
  <2> QED BY <2>1, <2>2 DEF SameField
<1>2. \A r \in a.rpcs : r \in c.rpcs
  BY DEF HasBreakingChanges
<1>3. /\ a.package = c.package
      /\ a.messages \subseteq c.messages
      /\ a.services \subseteq c.services
      /\ TopLevel(a.enums) \subseteq TopLevel(c.enums)
      /\ TopLevelValues(a.values) \subseteq TopLevelValues(c.values)
  BY DEF HasBreakingChanges
<1> QED BY <1>1, <1>2, <1>3 DEF HasBreakingChanges

\* Nor does a potentially breaking one.
LEMMA UnwarnedSteps ==
  ASSUME NEW a \in Content, NEW b \in Content, NEW c \in Content,
         ~HasBreakingChanges(a, b),
         ~HasPotentiallyBreakingChanges(a, b), ~HasPotentiallyBreakingChanges(b, c)
  PROVE  ~HasPotentiallyBreakingChanges(a, c)
<1>1. Cardinality(RequiredFields(c)) <= Cardinality(RequiredFields(a))
  BY RequiredType DEF HasPotentiallyBreakingChanges
<1>2. ASSUME NEW f \in ByNumber(a.fields), NEW h \in ByNumber(c.fields),
             SameField(f, h)
      PROVE  f.name = h.name
  <2>1. PICK g \in ByNumber(b.fields) : SameField(f, g)
      BY DEF HasBreakingChanges
  <2>2. f.name = g.name BY <2>1 DEF HasPotentiallyBreakingChanges
  <2>3. SameField(g, h) BY <1>2, <2>1 DEF SameField
  <2>4. g.name = h.name BY <2>3 DEF HasPotentiallyBreakingChanges
  <2> QED BY <2>2, <2>4
<1>3. ~(Cardinality(RequiredFields(c)) > Cardinality(RequiredFields(a)))
  BY <1>1, RequiredType
<1> QED BY <1>2, <1>3 DEF HasPotentiallyBreakingChanges

\* determineSeverityFromParsed: the change from one content to another is no
\* worse than the worse of the two steps by way of any third.  Hence a dependent
\* that reads every severity between two tags has not missed a worse one.
THEOREM SeverityTriangle ==
  \A a, b, c \in Content \cup {NoFile} :
    Rank(a, c) <= Rank(a, b) \/ Rank(a, c) <= Rank(b, c)
<1> SUFFICES ASSUME NEW a \in FileContent, NEW b \in FileContent, NEW c \in FileContent
             PROVE  Rank(a, c) <= Rank(a, b) \/ Rank(a, c) <= Rank(b, c)
    BY DEF FileContent
<1>0. /\ Rank(a, b) \in 0..3 /\ Rank(b, c) \in 0..3 /\ Rank(a, c) \in 0..3
      /\ Rank(a, c) = 0 <=> a = c
  BY RankType
<1>1. CASE a = c \/ a = b \/ b = c
  BY <1>0, <1>1
<1>2. CASE a # c /\ a # b /\ b # c /\ NoFile \in {a, b, c}
  BY <1>0, <1>2, RankValues
<1>3. CASE a # c /\ a # b /\ b # c /\ NoFile \notin {a, b, c}
  <2>1. a \in Content /\ b \in Content /\ c \in Content BY <1>3 DEF FileContent
  <2>2. /\ Rank(a, b) = IF HasBreakingChanges(a, b) THEN 3
                        ELSE IF HasPotentiallyBreakingChanges(a, b) THEN 2 ELSE 1
        /\ Rank(b, c) = IF HasBreakingChanges(b, c) THEN 3
                        ELSE IF HasPotentiallyBreakingChanges(b, c) THEN 2 ELSE 1
        /\ Rank(a, c) = IF HasBreakingChanges(a, c) THEN 3
                        ELSE IF HasPotentiallyBreakingChanges(a, c) THEN 2 ELSE 1
    BY <1>3, RankValues
  <2>3. CASE HasBreakingChanges(a, b) \/ HasBreakingChanges(b, c)
    BY <1>0, <2>2, <2>3
  <2>4. CASE ~HasBreakingChanges(a, b) /\ ~HasBreakingChanges(b, c)
    <3>1. ~HasBreakingChanges(a, c) BY <2>1, <2>4, UnbrokenSteps
    <3>2. HasPotentiallyBreakingChanges(a, c) =>
            HasPotentiallyBreakingChanges(a, b) \/ HasPotentiallyBreakingChanges(b, c)
      BY <2>1, <2>4, UnwarnedSteps
    <3> QED BY <2>2, <2>4, <3>1, <3>2
  <2> QED BY <2>3, <2>4
<1> QED BY <1>1, <1>2, <1>3

-----------------------------------------------------------------------------
(* The request                                                             *)

Recommendations == {"alert_review", "suggest_update"}

StatusRow == [target : Tag, rank : 1..3, recommendation : Recommendations]

Request ==
  [pc : {"start", "newer", "rank", "done", "failed"}, pinned : Tag \cup {None},
   todo : SUBSET Tag, newer : SUBSET Tag, compared : SUBSET Tag,
   statuses : SUBSET StatusRow]

\* The request q looks at pushed tags of one module, newer than the pinned one.
RequestInv(q) ==
  /\ q \in Request
  /\ q.todo \subseteq q.newer /\ (q.pc = "done" => q.todo = {})
  /\ q.pc \in {"start", "newer"} => q.newer = {} /\ q.statuses = {} /\ q.compared = {}
  /\ q.pc = "newer" \/ q.newer # {} => q.pinned \in Tag /\ Pushed(q.pinned)
  /\ \A t \in q.newer : /\ Pushed(t) /\ ModuleOf[t] = ModuleOf[q.pinned]
                        /\ updated_at[q.pinned] < updated_at[t]
  /\ \A s \in q.statuses : s.target \in q.newer
  /\ \A t \in q.compared :
       /\ Pushed(t)
       /\ q.newer # {} /\ ModuleOf[t] = ModuleOf[q.pinned]
          /\ updated_at[q.pinned] < updated_at[t] => t \in q.newer

\* A status of t tells of the change of file f from p to t.
StepTold(q, p, t, f) ==
  \/ Rank(pushed[p][f], pushed[t][f]) = 0
  \/ \E s \in q.statuses :
       /\ s.target = t /\ Rank(pushed[p][f], pushed[t][f]) <= s.rank
       /\ Rank(pushed[p][f], pushed[t][f]) > 1 => s.recommendation = "alert_review"

StepsTold(q, t) ==
  Previous(t) # {} => \E p \in Previous(t) : \A f \in Filename : StepTold(q, p, t, f)

\* The severity of a status is that of a change from the previous tag.
TrueStatus(s) ==
  \E p \in Previous(s.target), f \in Filename :
    s.rank = Rank(pushed[p][f], pushed[s.target][f])

\* While the daemon is calm: a tag that was compared before the newer ones were
\* listed is parsed, has its events and, once the request has read them, a
\* status that tells of them; and every status is true.
RequestTrue(q) ==
  /\ \A t \in q.compared : Intact(t) => t \in processed /\ Reported(t)
  /\ q.pc \in {"rank", "done"} =>
       \A t \in q.compared \cap q.newer : t \notin q.todo /\ Intact(t) => StepsTold(q, t)
  /\ \A s \in q.statuses : Intact(s.target) => TrueStatus(s)

StatusInv ==
  /\ DaemonInv /\ RequestInv(reader)
  /\ Calm => CompleteInv /\ RequestTrue(reader)

\* A request that waits keeps what it knows.
LEMMA KeptRequest ==
  ASSUME DaemonInv, Kept, NEW q, RequestInv(q)
  PROVE  RequestInv(q)'
<1>0. q \in Request BY DEF RequestInv
<1>1. q.newer \subseteq Tag /\ q.compared \subseteq Tag BY <1>0 DEF Request
<1>2. \A t \in Tag : Pushed(t) => Pushed(t)' /\ updated_at'[t] = updated_at[t]
  BY DEF Kept, Pushed
<1> QED BY <1>0, <1>1, <1>2 DEF RequestInv

LEMMA KeptTold ==
  ASSUME DaemonInv, PushOrder, Calm, Kept, TagsAdvance, NEW t \in Tag, Pushed(t),
         Intact(t)'
  PROVE  /\ \A q : StepsTold(q, t) => StepsTold(q, t)'
         /\ \A s : s.target = t /\ TrueStatus(s) => TrueStatus(s)'
<1>1. /\ Previous(t)' = Previous(t) /\ pushed'[t] = pushed[t]
      /\ \A p \in Previous(t) : pushed'[p] = pushed[p]
  BY Steady DEF Needed
<1>2. ASSUME NEW p \in Previous(t), NEW f
      PROVE  Rank(pushed'[p][f], pushed'[t][f]) = Rank(pushed[p][f], pushed[t][f])
  BY <1>1
<1>3. ASSUME NEW q, StepsTold(q, t) PROVE StepsTold(q, t)'
  <2>1. ASSUME NEW p \in Previous(t), NEW f, StepTold(q, p, t, f)
        PROVE  StepTold(q, p, t, f)'
    BY <1>1, <2>1 DEF StepTold, Rank, TrueSeverity
  <2> QED BY <1>1, <1>3, <2>1 DEF StepsTold
<1>4. ASSUME NEW s, s.target = t, TrueStatus(s) PROVE TrueStatus(s)'
  <2>1. PICK p \in Previous(t) : \E f \in Filename :
          s.rank = Rank(pushed[p][f], pushed[t][f])
    BY <1>4 DEF TrueStatus
  <2>2. PICK f \in Filename : s.rank = Rank(pushed[p][f], pushed[t][f])
    BY <2>1
  <2>3. p \in Previous(s.target)' BY <1>1, <1>4
  <2>4. s.rank = Rank(pushed[p][f], pushed[s.target][f])'
    BY <1>1, <1>4, <2>2 DEF Rank, TrueSeverity
  <2> QED BY <2>3, <2>4 DEF TrueStatus
<1> QED BY <1>3, <1>4

LEMMA KeptRequestTrue ==
  ASSUME DaemonInv, PushOrder, Calm, Advance, NEW q, RequestInv(q), RequestTrue(q)
  PROVE  RequestTrue(q)'
<1>0. /\ q \in Request /\ q.newer \subseteq Tag /\ q.compared \subseteq Tag
      /\ Kept /\ TagsAdvance
      /\ \A s \in q.statuses : s.target \in q.newer
      /\ \A t \in q.newer \cup q.compared : Pushed(t)
  BY DEF RequestInv, Request, Advance
<1>1. ASSUME NEW t \in q.newer \cup q.compared, Intact(t)' PROVE Intact(t)
  BY <1>0, <1>1, Steady
<1>2. ASSUME NEW t \in q.compared, Intact(t)' PROVE t \in processed' /\ Reported(t)'
  <2>1. Intact(t) /\ t \in processed /\ Reported(t) BY <1>1, <1>2 DEF RequestTrue
  <2>2. t \in processed' BY <1>0, <1>2, <2>1, Steady DEF Needed
  <2> QED BY <1>0, <1>2, <2>1, <2>2, KeptReported
<1>3. ASSUME q.pc \in {"rank", "done"}, NEW t \in q.compared \cap q.newer,
             t \notin q.todo, Intact(t)'
      PROVE  StepsTold(q, t)'
  BY <1>0, <1>1, <1>3, KeptTold DEF RequestTrue
<1>4. ASSUME NEW s \in q.statuses, Intact(s.target)' PROVE TrueStatus(s)'
  <2>1. PICK t \in Tag : t = s.target /\ t \in q.newer /\ Pushed(t) BY <1>0
  <2>2. Intact(t)' BY <1>4, <2>1 DEF Intact
  <2>3. Intact(t) BY <1>1, <2>1, <2>2
  <2>4. TrueStatus(s) BY <2>1, <2>3 DEF RequestTrue
  <2> QED BY <1>0, <2>1, <2>2, <2>4, KeptTold
<1> QED BY <1>2, <1>3, <1>4 DEF RequestTrue

-----------------------------------------------------------------------------
(* The statements of the request                                           *)

\* MAX(severity) is the severity of an event, and no event is worse.
LEMMA StatusesOfEvents ==
  ASSUME DaemonInv, NEW t \in Tag
  PROVE  /\ \A s \in Statuses(t) :
              \E e \in events : e.tag_id = t /\ s = Status(t, SeverityRank[e.severity])
         /\ \A e \in events : e.tag_id = t =>
              \E s \in Statuses(t) : /\ s.target = t /\ SeverityRank[e.severity] <= s.rank
                                     /\ s.rank > 1 => s.recommendation = "alert_review"
<1>1. \A e \in events : SeverityRank[e.severity] \in 1..3
  BY TypeParts, SeverityRanks DEF TablesOK, EventRow
<1>2. /\ Ranks(t) \subseteq 1..3
      /\ \A m \in Ranks(t) : \E e \in events : e.tag_id = t /\ m = SeverityRank[e.severity]
      /\ \A e \in events : e.tag_id = t => SeverityRank[e.severity] \in Ranks(t)
  BY <1>1 DEF Ranks
<1>3. ASSUME NEW x \in Ranks(t) PROVE \E m \in MaxRank(t) : x <= m
  <2>1. PICK R : R = Ranks(t) OBVIOUS
  <2>2. R \subseteq 1..3 /\ x \in R BY <1>2, <2>1
  <2>3. \E m \in R : (\A n \in R : n <= m) /\ x <= m
    <3>1. CASE 3 \in R BY <2>2, <3>1
    <3>2. CASE 3 \notin R /\ 2 \in R BY <2>2, <3>2
    <3>3. CASE 3 \notin R /\ 2 \notin R BY <2>2, <3>3
    <3> QED BY <3>1, <3>2, <3>3
  <2> QED BY <2>1, <2>3 DEF MaxRank
<1>4. ASSUME NEW m \in MaxRank(t)
      PROVE  /\ Status(t, m) \in Statuses(t) /\ Status(t, m).target = t
             /\ Status(t, m).rank = m
             /\ m > 1 => Status(t, m).recommendation = "alert_review"
  BY <1>2 DEF Statuses, Status, MaxRank, Recommendation
<1>5. \A s \in Statuses(t) : \E m \in Ranks(t) : s = Status(t, m)
  BY DEF Statuses, MaxRank
<1>6. ASSUME NEW s \in Statuses(t)
      PROVE  \E e \in events : e.tag_id = t /\ s = Status(t, SeverityRank[e.severity])
  BY <1>2, <1>5
<1>7. ASSUME NEW e \in events, e.tag_id = t
      PROVE  \E s \in Statuses(t) : /\ s.target = t /\ SeverityRank[e.severity] <= s.rank
                                    /\ s.rank > 1 => s.recommendation = "alert_review"
  <2>1. PICK m \in MaxRank(t) : SeverityRank[e.severity] <= m BY <1>2, <1>3, <1>7
  <2> QED BY <1>4, <2>1
<1> QED BY <1>6, <1>7

LEMMA StatusesType ==
  ASSUME DaemonInv, NEW t \in Tag
  PROVE  Statuses(t) \subseteq StatusRow /\ \A s \in Statuses(t) : s.target = t
<1>1. ASSUME NEW s \in Statuses(t) PROVE s \in StatusRow /\ s.target = t
  <2>1. PICK e \in events : s = Status(t, SeverityRank[e.severity])
    BY StatusesOfEvents
  <2>2. SeverityRank[e.severity] \in 1..3
    BY TypeParts, SeverityRanks DEF TablesOK, EventRow
  <2> QED BY <2>1, <2>2 DEF Status, StatusRow, Recommendation, Recommendations
<1> QED BY <1>1

\* An event of an intact module has the rank of its change.
LEMMA EventRank ==
  ASSUME DaemonInv, CompleteInv, NEW e \in events, Intact(e.tag_id)
  PROVE  /\ SeverityRank[e.severity] = Rank(e.previous_hash, e.current_hash)
         /\ \E p \in Previous(e.tag_id) :
              /\ e.previous_hash = pushed[p][e.filename]
              /\ e.current_hash = pushed[e.tag_id][e.filename]
<1>1. ExactEvent(e) /\ TruthfulEvent(e)
  BY DEF CompleteInv, DaemonInv, EventsFrom
<1>2. e.previous_hash # e.current_hash BY <1>1 DEF TruthfulEvent
<1>3. e.severity = TrueSeverity(e.previous_hash, e.current_hash)
  BY <1>1 DEF ExactEvent
<1> QED BY <1>1, <1>2, <1>3 DEF ExactEvent, Rank

\* The statuses of a tag are true.
LEMMA StatusesTold ==
  ASSUME DaemonInv, CompleteInv, NEW t \in Tag, Intact(t), NEW s \in Statuses(t)
  PROVE  TrueStatus(s)
<1>1. PICK e \in events : e.tag_id = t /\ s = Status(t, SeverityRank[e.severity])
  BY StatusesOfEvents
<1>2. s.target = t /\ s.rank = SeverityRank[e.severity] BY <1>1 DEF Status
<1>3. Intact(e.tag_id) BY <1>1
<1>4. SeverityRank[e.severity] = Rank(e.previous_hash, e.current_hash)
  BY <1>3, EventRank
<1>5. PICK p \in Previous(e.tag_id) : /\ e.previous_hash = pushed[p][e.filename]
                                      /\ e.current_hash = pushed[e.tag_id][e.filename]
  BY <1>3, EventRank
<1>6. e.filename \in Filename BY TypeParts DEF TablesOK, EventRow
<1>7. p \in Previous(s.target) BY <1>1, <1>2, <1>5
<1>8. s.rank = Rank(pushed[p][e.filename], pushed[s.target][e.filename])
  BY <1>1, <1>2, <1>4, <1>5
<1> QED BY <1>6, <1>7, <1>8 DEF TrueStatus

\* A tag whose drift was reported has a status for its worst change.
LEMMA ReportedTold ==
  ASSUME DaemonInv, CompleteInv, NEW t \in Tag, Intact(t), Reported(t),
         NEW q, Statuses(t) \subseteq q.statuses
  PROVE  StepsTold(q, t)
<1> SUFFICES ASSUME Previous(t) # {}
             PROVE  \E p \in Previous(t) : \A f \in Filename : StepTold(q, p, t, f)
    BY DEF StepsTold
<1>1. PICK p \in Previous(t) : Covers(p, t) BY DEF Reported
<1>2. p \in Tag BY DEF Previous
<1>3. ASSUME NEW f \in Filename PROVE StepTold(q, p, t, f)
  <2>1. PICK a, b : a = pushed[p][f] /\ b = pushed[t][f] OBVIOUS
  <2>2. a \in FileContent /\ b \in FileContent
    BY <1>2, <2>1, TypeParts DEF TablesOK, FileMap, FileContent
  <2>3. CASE a = b BY <2>1, <2>3 DEF StepTold, Rank
  <2>4. CASE a # b
    <3>1. PICK e \in events : /\ e.tag_id = t /\ e.filename = f
                              /\ e.previous_hash = a /\ e.current_hash = b
      BY <1>1, <2>1, <2>4 DEF Covers
    <3>2. SeverityRank[e.severity] = Rank(a, b) BY <3>1, EventRank
    <3>3. PICK s \in Statuses(t) : /\ s.target = t /\ SeverityRank[e.severity] <= s.rank
                                   /\ s.rank > 1 => s.recommendation = "alert_review"
      BY <3>1, StatusesOfEvents
    <3>4. s.rank \in 1..3 /\ Rank(a, b) \in 0..3
      BY <2>2, RankType, StatusesType DEF StatusRow
    <3>5. s \in q.statuses /\ Rank(a, b) <= s.rank
          /\ (Rank(a, b) > 1 => s.recommendation = "alert_review")
      BY <3>2, <3>3, <3>4
    <3> QED BY <2>1, <3>3, <3>5 DEF StepTold
  <2> QED BY <2>3, <2>4
<1> QED BY <1>3

LEMMA DependencySelected ==
  ASSUME DaemonInv, RequestInv(reader), SelectDependency, NEW q, q = reader'
  PROVE  RequestInv(q) /\ (RequestTrue(reader) => RequestTrue(q))
<1>0. /\ reader \in Request /\ reader.pc = "start"
      /\ reader.newer = {} /\ reader.statuses = {} /\ reader.compared = {} /\ reader.todo = {}
  BY DEF RequestInv, SelectDependency
<1>1. CASE q = [reader EXCEPT !.pc = "done"]
  <2>1. /\ q \in Request /\ q.pc = "done"
        /\ q.newer = {} /\ q.statuses = {} /\ q.compared = {} /\ q.todo = {}
    BY <1>0, <1>1 DEF Request
  <2> QED BY <2>1 DEF RequestInv, RequestTrue
<1>2. ASSUME NEW d \in Tag, HasRow(d), q = [reader EXCEPT !.pc = "newer", !.pinned = d]
      PROVE  RequestInv(q) /\ RequestTrue(q)
  <2>1. /\ q \in Request /\ q.pc = "newer" /\ q.pinned = d
        /\ q.newer = {} /\ q.statuses = {} /\ q.compared = {} /\ q.todo = {}
    BY <1>0, <1>2 DEF Request
  <2>2. Pushed(d) BY <1>2 DEF HasRow, Pushed
  <2> QED BY <2>1, <2>2 DEF RequestInv, RequestTrue
<1> QED BY <1>1, <1>2 DEF SelectDependency

\* The tags that are processed and in no run's hands have been reported.
LEMMA NewerSelected ==
  ASSUME DaemonInv, RequestInv(reader), SelectNewer, NEW q, q = reader'
  PROVE  RequestInv(q) /\ (CompleteInv => RequestTrue(q))
<1>0. /\ reader \in Request /\ reader.pc = "newer" /\ reader.statuses = {}
      /\ reader.pinned \in Tag /\ Pushed(reader.pinned)
  BY DEF RequestInv, SelectNewer
<1>1. PICK d \in Tag : d = reader.pinned /\ Pushed(d) BY <1>0
<1>2. PICK n, c : n = Newer(d) /\ c = {t \in Tag : DriftLookedFor(t)} OBVIOUS
<1>3. n \subseteq Tag /\ c \subseteq Tag /\ ReadNext(n) \in {"rank", "done"}
      /\ (ReadNext(n) = "done" => n = {})
  BY <1>2 DEF Newer, ReadNext
<1>4. q = [reader EXCEPT !.pc = ReadNext(n), !.todo = n, !.newer = n, !.compared = c]
  BY <1>1, <1>2 DEF SelectNewer
<1>5. /\ q \in Request /\ q.pc = ReadNext(n) /\ q.todo = n /\ q.newer = n
      /\ q.compared = c /\ q.pinned = d /\ q.statuses = {}
  BY <1>0, <1>1, <1>3, <1>4 DEF Request
<1>6. \A t \in n : /\ Pushed(t) /\ ModuleOf[t] = ModuleOf[d]
                   /\ updated_at[d] < updated_at[t] /\ HasRow(d)
  BY <1>1, <1>2, TypeParts DEF Newer, HasRow, Pushed, TablesOK
<1>7. \A t \in c : t \in processed /\ HasRow(t) /\ Pushed(t)
  BY <1>2 DEF DriftLookedFor, DaemonInv, ProcessedFrom, HasRow, Pushed
<1>8. ASSUME NEW t \in c, n # {}, ModuleOf[t] = ModuleOf[d],
             updated_at[d] < updated_at[t]
      PROVE  t \in n
  <2>1. updated_at[t] \in Nat /\ updated_at[d] \in Nat /\ t \in Tag
    BY <1>3, TypeParts DEF TablesOK
  <2> QED BY <1>2, <1>6, <1>7, <1>8, <2>1 DEF Newer
<1>9. RequestInv(q)
  BY <1>1, <1>3, <1>5, <1>6, <1>7, <1>8 DEF RequestInv
<1>10. ASSUME CompleteInv, NEW t \in c, Intact(t) PROVE t \in processed /\ Reported(t)
  BY <1>2, <1>7, <1>10 DEF CompleteInv, ProcessedReported, DriftLookedFor
<1> QED BY <1>5, <1>9, <1>10 DEF RequestTrue

LEMMA RankSelected ==
  ASSUME DaemonInv, RequestInv(reader), SelectRank, NEW q, q = reader'
  PROVE  RequestInv(q) /\ (CompleteInv /\ RequestTrue(reader) => RequestTrue(q))
<1>0. /\ reader \in Request /\ reader.pc = "rank" /\ reader.todo \subseteq reader.newer
      /\ reader.newer \subseteq Tag
  BY DEF RequestInv, SelectRank, Request
<1>1. PICK t \in reader.todo :
        q = [reader EXCEPT !.pc = ReadNext(reader.todo \ {t}),
               !.todo = reader.todo \ {t},
               !.statuses = reader.statuses \cup Statuses(t)]
  BY DEF SelectRank
<1>2. t \in Tag /\ t \in reader.newer BY <1>0
<1>3. Statuses(t) \subseteq StatusRow /\ \A s \in Statuses(t) : s.target = t
  BY <1>2, StatusesType
<1>4. /\ ReadNext(reader.todo \ {t}) \in {"rank", "done"}
      /\ ReadNext(reader.todo \ {t}) = "done" => reader.todo \ {t} = {}
  BY DEF ReadNext
<1>5. /\ q \in Request /\ q.pc \in {"rank", "done"} /\ q.todo = reader.todo \ {t}
      /\ q.pc = "done" => q.todo = {}
      /\ q.newer = reader.newer /\ q.compared = reader.compared
      /\ q.pinned = reader.pinned /\ q.statuses = reader.statuses \cup Statuses(t)
  <2>1. PICK pc, todo, new : /\ pc = ReadNext(reader.todo \ {t})
                             /\ todo = reader.todo \ {t}
                             /\ new = reader.statuses \cup Statuses(t)
    OBVIOUS
  <2>2. /\ pc \in {"rank", "done"} /\ todo \subseteq Tag /\ new \subseteq StatusRow
        /\ pc = "done" => todo = {}
    BY <1>0, <1>3, <1>4, <2>1 DEF Request
  <2>3. q = [reader EXCEPT !.pc = pc, !.todo = todo, !.statuses = new]
    BY <1>1, <2>1
  <2>4. /\ q \in Request /\ q.pc = pc /\ q.todo = todo /\ q.statuses = new
        /\ q.newer = reader.newer /\ q.compared = reader.compared
        /\ q.pinned = reader.pinned
    BY <1>0, <2>2, <2>3 DEF Request
  <2> QED BY <2>1, <2>2, <2>4
<1>6. RequestInv(q)
  <2>1. q.todo \subseteq q.newer /\ \A s \in q.statuses : s.target \in q.newer
    BY <1>0, <1>2, <1>3, <1>5 DEF RequestInv
  <2> QED BY <1>5, <2>1 DEF RequestInv
<1>7. ASSUME CompleteInv, RequestTrue(reader) PROVE RequestTrue(q)
  <2>1. \A u \in q.compared : Intact(u) => u \in processed /\ Reported(u)
    BY <1>5, <1>7 DEF RequestTrue
  <2>2. ASSUME NEW u \in q.compared \cap q.newer, u \notin q.todo, Intact(u)
        PROVE  StepsTold(q, u)
    <3>1. CASE u = t
      BY <1>2, <1>5, <1>7, <2>1, <2>2, <3>1, ReportedTold
    <3>2. CASE u # t
      <4>1. StepsTold(reader, u)
        BY <1>0, <1>5, <1>7, <2>2, <3>2 DEF RequestTrue
      <4>2. \A p, f : StepTold(reader, p, u, f) => StepTold(q, p, u, f)
        BY <1>5 DEF StepTold
      <4> QED BY <4>1, <4>2 DEF StepsTold
    <3> QED BY <3>1, <3>2
  <2>3. ASSUME NEW s \in q.statuses, Intact(s.target) PROVE TrueStatus(s)
    <3>1. CASE s \in reader.statuses BY <1>7, <2>3, <3>1 DEF RequestTrue
    <3>2. CASE s \in Statuses(t)
      <4>1. Intact(t) BY <1>3, <2>3, <3>2
      <4> QED BY <1>2, <1>7, <3>2, <4>1, StatusesTold
    <3> QED BY <1>5, <2>3, <3>1, <3>2
  <2> QED BY <2>1, <2>2, <2>3 DEF RequestTrue
<1> QED BY <1>6, <1>7

LEMMA ReadFailed ==
  ASSUME RequestInv(reader), ReadFails, NEW q, q = reader'
  PROVE  RequestInv(q) /\ (RequestTrue(reader) => RequestTrue(q))
<1>0. reader \in Request BY DEF RequestInv
<1>1. q = [reader EXCEPT !.pc = "failed", !.statuses = {}] BY DEF ReadFails
<1>2. /\ q \in Request /\ q.pc = "failed" /\ q.statuses = {} /\ q.todo = reader.todo
      /\ q.newer = reader.newer /\ q.compared = reader.compared
      /\ q.pinned = reader.pinned
  BY <1>0, <1>1 DEF Request
<1> QED BY <1>2 DEF RequestInv, RequestTrue

LEMMA StatusInvInit == StatusInit => StatusInv
<1> SUFFICES ASSUME StatusInit PROVE StatusInv OBVIOUS
<1>1. DaemonInv /\ CompleteInv
  BY InitDaemonInv, InitCompletes DEF StatusInit
<1>2. /\ reader.pc = "start" /\ reader.newer = {} /\ reader.statuses = {}
      /\ reader.compared = {} /\ reader.todo = {} /\ reader \in Request
  BY DEF StatusInit, NewRequest, Request
<1>3. RequestInv(reader) /\ RequestTrue(reader)
  BY <1>2 DEF RequestInv, RequestTrue
<1> QED BY <1>1, <1>3 DEF StatusInv

LEMMA StatusInvNext == StatusInv /\ [StatusNext]_<<vars, reader>> => StatusInv'
<1> SUFFICES ASSUME StatusInv, [StatusNext]_<<vars, reader>> PROVE StatusInv'
    OBVIOUS
<1>0. DaemonInv /\ RequestInv(reader) /\ (Calm => CompleteInv /\ RequestTrue(reader))
  BY DEF StatusInv
<1>1. [Next]_vars BY DEF StatusNext
<1>2. DaemonInv' /\ Kept BY <1>0, <1>1, NextDaemonInv
<1>3. Calm' => Calm /\ CompleteInv' /\ Advance
  BY <1>0, <1>1, CalmSteps, NextCompletes, CalmAdvance
<1>4. PICK q : q = reader' OBVIOUS
<1>5. RequestInv(q) /\ (Calm => RequestTrue(q))
  <2>1. CASE reader' = reader BY <1>0, <1>4, <2>1
  <2>2. CASE ReaderStep
    BY <1>0, <1>4, <2>2, DependencySelected, NewerSelected, RankSelected, ReadFailed
       DEF ReaderStep
  <2> QED BY <2>1, <2>2 DEF StatusNext
<1>6. RequestInv(q)' BY <1>0, <1>2, <1>5, KeptRequest
<1>7. Calm' => RequestTrue(q)'
  BY <1>0, <1>3, <1>5, KeptRequestTrue DEF CompleteInv
<1>8. RequestInv(reader)' BY <1>4, <1>6 DEF RequestInv
<1>9. Calm' => RequestTrue(reader)'
  <2>1. \A t : StepsTold(reader, t)' <=> StepsTold(q, t)'
    BY <1>4 DEF StepsTold, StepTold
  <2> QED BY <1>4, <1>7, <2>1 DEF RequestTrue
<1> QED BY <1>2, <1>3, <1>8, <1>9 DEF StatusInv

LEMMA StatusInvariant == StatusSpec => []StatusInv
  BY StatusInvInit, StatusInvNext, PTL DEF StatusSpec

\* GetModuleDependencyDriftStatuses beside the daemon, for every set of tags,
\* files and runs: a status has one of the three severities and one of the two
\* recommendations, and names a tag that was listed.
THEOREM StatusesTyped == StatusSpec => []StatusTypeOK
<1>1. StatusInv => StatusTypeOK
  <2> SUFFICES ASSUME RequestInv(reader) PROVE StatusTypeOK BY DEF StatusInv
  <2>1. reader \in Request /\ reader.newer \subseteq Tag BY DEF RequestInv, Request
  <2>2. ASSUME NEW s \in reader.statuses
        PROVE  s \in [target : reader.newer, rank : 1..3,
                      recommendation : {"alert_review", "suggest_update"}]
    <3>1. s \in StatusRow /\ s.target \in reader.newer
      BY <2>1 DEF Request, RequestInv
    <3> QED BY <3>1 DEF StatusRow, Recommendations
  <2> QED BY <2>1, <2>2 DEF RequestInv, Request, StatusTypeOK
<1> QED BY <1>1, StatusInvariant, PTL

\* GetModuleDependencyDriftStatuses beside overlapping runs of the daemon: while
\* pushes do not overlap, nothing has failed and no tag of the module was
\* deleted, a status is the true severity of the change of a file from the tag
\* before its target, and that tag is the pinned one or later.
THEOREM StatusesTrue == StatusSpec => []StatusesAreNews
<1>1. ASSUME StatusInv, NEW s \in reader.statuses, Orderly(s.target)
      PROVE  \E p \in Previous(s.target), f \in Filename :
               /\ updated_at[p] >= updated_at[reader.pinned]
               /\ s.rank = Rank(pushed[p][f], pushed[s.target][f])
  <2>0. Calm /\ Intact(s.target) /\ DaemonInv /\ RequestInv(reader) /\ RequestTrue(reader)
    BY <1>1 DEF StatusInv, Orderly, Calm, Intact
  <2>1. PICK t \in Tag : /\ t = s.target /\ t \in reader.newer /\ Pushed(t)
                         /\ ModuleOf[t] = ModuleOf[reader.pinned]
                         /\ updated_at[reader.pinned] < updated_at[t]
    BY <2>0 DEF RequestInv, Request
  <2>2. PICK d \in Tag : d = reader.pinned /\ Pushed(d)
    BY <2>0, <2>1 DEF RequestInv
  <2>3. TrueStatus(s) BY <2>0 DEF RequestTrue
  <2>4. PICK p \in Previous(t) : \E f \in Filename :
          s.rank = Rank(pushed[p][f], pushed[t][f])
    BY <2>1, <2>3 DEF TrueStatus
  <2>5. HasRow(d) BY <2>0, <2>1, <2>2 DEF Intact, Pushed, HasRow
  <2>6. updated_at[d] \in Nat /\ updated_at[t] \in Nat
    BY TypeParts, <2>0 DEF TablesOK
  <2>7. d # t /\ Earlier(updated_at[d], updated_at[t])
    BY <2>0, <2>1, <2>2, <2>6 DEF Earlier, Calm
  <2>8. updated_at[d] <= updated_at[p]
    BY <2>1, <2>2, <2>4, <2>5, <2>7 DEF Previous
  <2>9. p \in Tag /\ updated_at[p] \in Nat
    BY TypeParts, <2>0, <2>4 DEF Previous, TablesOK
  <2>10. updated_at[p] >= updated_at[reader.pinned] BY <2>2, <2>6, <2>8, <2>9
  <2> QED BY <2>1, <2>4, <2>10
<1>2. StatusInv => StatusesAreNews BY <1>1 DEF StatusesAreNews
<1> QED BY <1>2, StatusInvariant, PTL

-----------------------------------------------------------------------------
(* The statuses cover the update                                           *)

LEMMA LeastNumber ==
  ASSUME NEW T, T \subseteq Nat, T # {}
  PROVE  \E x \in T : \A y \in T : x <= y
<1>1. PICK R : R = {ss \in Nat \X Nat : ss[1] < ss[2]}
  OBVIOUS
<1>2. IsWellFoundedOn(R, Nat)
  BY <1>1, NatLessThanWellFounded DEF OpToRel
<1>3. PICK x \in T : \A y \in T : <<y, x>> \notin R
  BY <1>2, WFMin
<1>4. ASSUME NEW y \in T PROVE x <= y
  <2>1. x \in Nat /\ y \in Nat /\ <<y, x>> \notin {ss \in Nat \X Nat : ss[1] < ss[2]}
    BY <1>1, <1>3
  <2>2. ~(y < x)
    BY <2>1
  <2> QED
    BY <2>1, <2>2
<1> QED
  BY <1>4

LEMMA GreatestNumber ==
  ASSUME NEW T, T \subseteq Nat, T # {}, NEW u \in Nat, \A y \in T : y <= u
  PROVE  \E x \in T : \A y \in T : y <= x
<1> DEFINE B == {n \in Nat : \A y \in T : y <= n}
<1>1. B \subseteq Nat /\ u \in B OBVIOUS
<1>2. PICK n \in B : \A m \in B : n <= m
  <2> HIDE DEF B
  <2> QED BY <1>1, LeastNumber
<1>3. n \in Nat /\ \A y \in T : y <= n BY <1>2
<1>4. ASSUME n \notin T PROVE FALSE
  <2>1. PICK y \in T : y \in Nat /\ y <= n /\ y # n BY <1>3, <1>4
  <2>2. n - 1 \in Nat BY <1>3, <2>1
  <2>3. \A x \in T : x <= n - 1 BY <1>3, <1>4
  <2>4. n - 1 \in B BY <2>2, <2>3
  <2>5. n <= n - 1 BY <1>2, <2>4
  <2> QED BY <1>3, <2>5
<1> QED BY <1>3, <1>4

\* A tag with an older one has a previous one, which is no older than that.
LEMMA PreviousExists ==
  ASSUME DaemonInv, Calm, NEW d \in Tag, NEW t \in Tag, HasRow(d),
         ModuleOf[t] = ModuleOf[d], updated_at[d] < updated_at[t]
  PROVE  /\ Previous(t) # {}
         /\ \A p \in Previous(t) : /\ p \in Tag /\ HasRow(p) /\ ModuleOf[p] = ModuleOf[d]
                                   /\ updated_at[d] <= updated_at[p]
                                   /\ updated_at[p] < updated_at[t]
<1>0. updated_at \in [Tag -> Nat] BY TypeParts DEF TablesOK
<1>1. PICK older : older = {p \in Tag \ {t} : /\ HasRow(p) /\ ModuleOf[p] = ModuleOf[t]
                                              /\ Earlier(updated_at[p], updated_at[t])}
  OBVIOUS
<1>2. d \in older BY <1>0, <1>1 DEF Earlier, Calm
<1>3. \A p \in older : /\ p \in Tag /\ HasRow(p) /\ ModuleOf[p] = ModuleOf[t]
                       /\ updated_at[p] < updated_at[t]
  BY <1>1 DEF Earlier, Calm
<1>4. Previous(t) = {p \in older : \A q \in older : updated_at[q] <= updated_at[p]}
  BY <1>1 DEF Previous
<1> DEFINE T == {updated_at[p] : p \in older}
<1>5. /\ T \subseteq Nat /\ T # {} /\ updated_at[t] \in Nat
      /\ \A y \in T : y <= updated_at[t]
  BY <1>0, <1>2, <1>3
<1>6. PICK x \in T : \A y \in T : y <= x
  <2> HIDE DEF T
  <2> QED BY <1>5, GreatestNumber
<1>7. PICK p \in older : x = updated_at[p] BY <1>6
<1>8. p \in Previous(t) BY <1>4, <1>6, <1>7
<1> QED BY <1>2, <1>3, <1>4, <1>8

\* One more tag: the update to it is no worse than the update to the tag before
\* it or the step between the two, and both have been told.
LEMMA ToldStep ==
  ASSUME DaemonInv, RequestInv(reader), NEW p \in Tag, NEW t \in Tag, NEW f \in Filename,
         reader.pinned \in Tag, updated_at[p] < updated_at[t],
         StepTold(reader, p, t, f), p = reader.pinned \/ Told(p, f)
  PROVE  Told(t, f)
<1>0. /\ reader \in Request /\ updated_at \in [Tag -> Nat] /\ pushed \in [Tag -> FileMap]
  BY TypeParts DEF RequestInv, TablesOK
<1>1. PICK a, b, c : /\ a = pushed[reader.pinned][f] /\ b = pushed[p][f]
                     /\ c = pushed[t][f]
  OBVIOUS
<1>2. a \in FileContent /\ b \in FileContent /\ c \in FileContent
  BY <1>0, <1>1 DEF FileMap, FileContent
<1>3. PICK x, y, z : x = Rank(a, c) /\ y = Rank(a, b) /\ z = Rank(b, c) OBVIOUS
<1>4. /\ x \in 0..3 /\ y \in 0..3 /\ z \in 0..3 /\ (x <= y \/ x <= z)
      /\ (p = reader.pinned => y = 0)
  BY <1>1, <1>2, <1>3, RankType, SeverityTriangle DEF FileContent
<1>5. \A s \in reader.statuses : s.rank \in 1..3 /\ s.target \in Tag
  BY <1>0 DEF Request, StatusRow
<1>6. CASE x = 0 BY <1>1, <1>3, <1>6 DEF Told
<1>7. CASE x # 0 /\ x <= z
  <2>1. PICK s \in reader.statuses :
          s.target = t /\ z <= s.rank /\ (z > 1 => s.recommendation = "alert_review")
    BY <1>1, <1>3, <1>4, <1>7 DEF StepTold
  <2>2. /\ updated_at[s.target] <= updated_at[t] /\ x <= s.rank
        /\ x > 1 => s.recommendation = "alert_review"
    BY <1>0, <1>4, <1>5, <1>7, <2>1
  <2> QED BY <1>1, <1>3, <2>2 DEF Told
<1>8. CASE x # 0 /\ x <= y
  <2>1. Told(p, f) /\ y # 0 BY <1>4, <1>8
  <2>2. PICK s \in reader.statuses : /\ updated_at[s.target] <= updated_at[p]
                                     /\ y <= s.rank
                                     /\ y > 1 => s.recommendation = "alert_review"
    BY <1>1, <1>3, <2>1 DEF Told
  <2>3. updated_at[s.target] \in Nat /\ updated_at[p] \in Nat /\ updated_at[t] \in Nat
    BY <1>0, <1>5
  <2>4. /\ updated_at[s.target] <= updated_at[t] /\ x <= s.rank
        /\ x > 1 => s.recommendation = "alert_review"
    BY <1>4, <1>5, <1>8, <2>2, <2>3
  <2> QED BY <1>1, <1>3, <2>4 DEF Told
<1> QED BY <1>4, <1>6, <1>7, <1>8

LEMMA AllTold ==
  ASSUME StatusInv, reader.pc = "done", NEW j \in reader.newer, Orderly(j),
         Unbroken(reader.pinned, j)
  PROVE  \A f \in Filename : Told(j, f)
<1>0. /\ Calm /\ Intact(j) /\ DaemonInv /\ CompleteInv /\ RequestInv(reader)
      /\ RequestTrue(reader) /\ updated_at \in [Tag -> Nat]
  BY TypeParts DEF StatusInv, Orderly, Calm, Intact, TablesOK
<1>1. PICK d \in Tag : d = reader.pinned /\ Pushed(d)
  BY <1>0 DEF RequestInv
<1>2. /\ j \in Tag /\ Pushed(j) /\ ModuleOf[j] = ModuleOf[d]
      /\ updated_at[d] < updated_at[j] /\ reader.todo = {}
  BY <1>0, <1>1 DEF RequestInv, Request
<1>3. \A u \in Tag : ModuleOf[u] = ModuleOf[d] =>
        /\ Intact(u)
        /\ Pushed(u) => HasRow(u)
  BY <1>0, <1>2 DEF Intact, Pushed, HasRow
<1> DEFINE B == {t \in Tag : /\ HasRow(t) /\ ModuleOf[t] = ModuleOf[d]
                             /\ updated_at[d] < updated_at[t]
                             /\ updated_at[t] <= updated_at[j]
                             /\ ~(\A f \in Filename : Told(t, f))}
           N == {updated_at[t] : t \in B}
<1>4. SUFFICES ASSUME ~(\A f \in Filename : Told(j, f)) PROVE FALSE OBVIOUS
<1>5. j \in B
  <2>1. HasRow(j) /\ updated_at[j] <= updated_at[j] BY <1>0, <1>2, <1>3
  <2> QED BY <1>2, <1>4, <2>1
<1>6. N \subseteq Nat /\ N # {}
  <2>1. B \subseteq Tag OBVIOUS
  <2> HIDE DEF B
  <2> QED BY <1>0, <1>5, <2>1
<1>7. PICK n \in N : \A m \in N : n <= m
  <2> HIDE DEF N
  <2> QED BY <1>6, LeastNumber
<1>8. PICK t \in B : \A u \in B : updated_at[t] <= updated_at[u] BY <1>7
<1>9. /\ t \in Tag /\ HasRow(t) /\ ModuleOf[t] = ModuleOf[d]
      /\ updated_at[d] < updated_at[t] /\ updated_at[t] <= updated_at[j]
      /\ ~(\A f \in Filename : Told(t, f))
  BY <1>8
<1>10. t \in reader.compared BY <1>1, <1>9 DEF Unbroken
<1>11. t \in reader.newer BY <1>0, <1>1, <1>9, <1>10 DEF RequestInv
<1>12. StepsTold(reader, t)
  BY <1>0, <1>2, <1>3, <1>9, <1>10, <1>11 DEF RequestTrue
<1>13. HasRow(d) BY <1>1, <1>3
<1>14. PICK p \in Previous(t) : \A f \in Filename : StepTold(reader, p, t, f)
  BY <1>0, <1>9, <1>12, <1>13, PreviousExists DEF StepsTold
<1>15. /\ p \in Tag /\ HasRow(p) /\ ModuleOf[p] = ModuleOf[d]
       /\ updated_at[d] <= updated_at[p] /\ updated_at[p] < updated_at[t]
  BY <1>0, <1>9, <1>13, PreviousExists
<1>16. p = d \/ \A f \in Filename : Told(p, f)
  <2>1. updated_at[p] \in Nat /\ updated_at[d] \in Nat /\ updated_at[t] \in Nat
        /\ updated_at[j] \in Nat
    BY <1>0, <1>2, <1>9, <1>15
  <2>2. p # d => updated_at[p] # updated_at[d] BY <1>1, <1>15 DEF Unbroken
  <2>3. p # d => updated_at[d] < updated_at[p] /\ updated_at[p] <= updated_at[j]
    BY <1>9, <1>15, <2>1, <2>2
  <2>4. p \notin B
    <3> HIDE DEF B
    <3> QED BY <1>8, <1>15, <2>1
  <2> QED BY <1>15, <2>3, <2>4
<1>17. \A f \in Filename : Told(t, f)
  BY <1>0, <1>1, <1>9, <1>14, <1>15, <1>16, ToldStep
<1> QED BY <1>9, <1>17

\* GetModuleDependencyDriftStatuses beside the daemon, for every set of tags,
\* files and runs: while pushes do not overlap, nothing has failed and no tag of
\* the module was deleted, the worst status up to a tag is no milder than the
\* change of any file from the pinned tag to it, and a change that needs a
\* review is flagged, if the daemon was through with the steps of the update.
THEOREM StatusesCover == StatusSpec => []StatusesCoverUpdate
<1>1. StatusInv => StatusesCoverUpdate
  BY AllTold DEF StatusesCoverUpdate
<1> QED BY <1>1, StatusInvariant, PTL

-----------------------------------------------------------------------------
(* What a dependent no longer finds after an update                        *)

LEMMA UnchangedUnbroken ==
  ASSUME NEW a \in Content PROVE ~HasBreakingChanges(a, a)
  BY DEF HasBreakingChanges, SameField

\* Atoi and int32() show a decimal number of 32 bits as it is.
LEMMA ShownFits ==
  ASSUME NEW x, x.decimal, x.number \in Int, Fits32(x.number)
  PROVE  ShownNumber(x) = x.number
<1>1. PICK n, h : n = x.number /\ h = HalfWord OBVIOUS
<1>2. n \in Int /\ h \in Nat /\ h >= 1 /\ -h <= n /\ n <= h - 1
  BY <1>1, ProtoAssumption DEF Fits32
<1>3. -(2 * h * h) <= n /\ n <= 2 * h * h - 1
  <2>1. h <= h * h BY <1>2
  <2>2. h * h \in Nat /\ 2 * h * h = 2 * (h * h) BY <1>2
  <2> QED BY <1>2, <2>1, <2>2
<1>4. Fits64(n)
  <2>1. 2 * h * h \in Int BY <1>2
  <2> QED BY <1>1, <1>2, <1>3, <2>1 DEF Fits64
<1>5. ToInt32(n) = n
  <2>1. n + h \in 0..(2 * h - 1) BY <1>2
  <2>2. (n + h) % (2 * h) = n + h BY <1>2, <2>1
  <2> QED BY <1>1, <1>2, <2>2 DEF ToInt32
<1> QED BY <1>1, <1>4, <1>5 DEF ShownNumber

\* A message shows every field that an unbroken change has kept.
LEMMA FieldsStay ==
  ASSUME NEW a \in Content, NEW b \in Content, ~HasBreakingChanges(a, b), NEW m,
         \A f \in a.fields : f.decimal => Fits32(f.number),
         NEW x \in RetrieveFields(a, m), x.tag # -1
  PROVE  \/ \E y \in RetrieveFields(b, m) : y.tag = x.tag /\ y.type = x.type
         \/ \E y \in RetrieveOneOfFields(b, m) : y.type = x.type
<1>0. ASSUME NEW p \in Content, NEW f \in p.fields
      PROVE  f \in Field /\ f.number \in Int /\ f.decimal \in BOOLEAN
  <2>1. p \in ParsedProto BY ProtoAssumption
  <2>2. f \in Field BY <2>1 DEF ParsedProto
  <2> QED BY <2>2 DEF Field
<1>1. PICK f \in a.fields :
        /\ f.message = m
        /\ x = [name |-> f.name, type |-> f.type, tag |-> ShownNumber(f),
                label |-> IF f.type.key = "" THEN f.label ELSE "map"]
  BY DEF RetrieveFields
<1>2. x.type = f.type /\ x.tag = ShownNumber(f) BY <1>1
<1>3. f.decimal /\ Fits32(f.number) /\ x.tag = f.number
  <2>1. f.decimal BY <1>2 DEF ShownNumber
  <2> QED BY <1>0, <1>2, <2>1, ShownFits
<1>4. PICK g \in b.fields : /\ g.decimal /\ g.message = m /\ g.number = f.number
                            /\ g.type = f.type /\ ShownNumber(g) = g.number
  <2>1. f \in ByNumber(a.fields) BY <1>3 DEF ByNumber
  <2>2. PICK g \in ByNumber(b.fields) : SameField(f, g) /\ f.type = g.type
    BY <2>1 DEF HasBreakingChanges
  <2>3. g \in b.fields /\ g.decimal /\ Fits32(g.number) BY <2>2 DEF ByNumber
  <2>4. ShownNumber(g) = g.number BY <1>0, <2>3, ShownFits
  <2> QED BY <1>1, <2>2, <2>3, <2>4 DEF SameField
<1>5. CASE g.oneof = ""
  <2> DEFINE y == [name |-> g.name, type |-> g.type, tag |-> ShownNumber(g),
                   label |-> IF g.type.key = "" THEN g.label ELSE "map"]
  <2>1. y \in RetrieveFields(b, m) BY <1>4, <1>5 DEF RetrieveFields
  <2>2. y.type = x.type /\ y.tag = x.tag BY <1>2, <1>3, <1>4
  <2> QED BY <2>1, <2>2
<1>6. CASE g.oneof # ""
  <2> DEFINE y == [oneof |-> g.oneof, name |-> g.name, type |-> g.type]
  <2>1. y \in RetrieveOneOfFields(b, m) BY <1>4, <1>6 DEF RetrieveOneOfFields
  <2>2. y.type = x.type BY <1>2, <1>4
  <2> QED BY <2>1, <2>2
<1> QED BY <1>5, <1>6

Shown(f, p) ==
  [filename |-> f, messages |-> RetrieveMessages(p), services |-> RetrieveServices(p)]

LEMMA FilesStay ==
  ASSUME NEW a \in Content, NEW b \in Content, ~HasBreakingChanges(a, b), NEW f,
         \A x \in a.fields : x.decimal => Fits32(x.number)
  PROVE  ~FileVanished(Shown(f, a), Shown(f, b))
<1>0. /\ a.messages \subseteq b.messages /\ a.services \subseteq b.services
      /\ \A r \in a.rpcs : r \in b.rpcs
  BY DEF HasBreakingChanges
<1>1. \A p : /\ Shown(f, p).messages = RetrieveMessages(p)
             /\ Shown(f, p).services = RetrieveServices(p)
  BY DEF Shown
<1>2. \A p : DOMAIN RetrieveMessages(p) = p.messages /\ DOMAIN RetrieveServices(p) = p.services
  BY DEF RetrieveMessages, RetrieveServices
<1>3. ASSUME NEW s \in a.services
      PROVE  RetrieveServices(a)[s] \subseteq RetrieveServices(b)[s]
  BY <1>0 DEF RetrieveServices
<1>4. ASSUME NEW m \in a.messages
      PROVE  ~FieldVanished(RetrieveMessages(a)[m], RetrieveMessages(b)[m])
  <2>1. ASSUME NEW p, m \in p.messages
        PROVE  /\ RetrieveMessages(p)[m].fields = RetrieveFields(p, m)
               /\ RetrieveMessages(p)[m].oneofs = RetrieveOneOfFields(p, m)
    BY <2>1 DEF RetrieveMessages
  <2> QED BY <1>0, <2>1, FieldsStay DEF FieldVanished
<1> QED BY <1>0, <1>1, <1>2, <1>3, <1>4 DEF FileVanished

\* GetParsedProtoFiles of a tag, file by file.
LEMMA FilesOfTag ==
  ASSUME NEW t
  PROVE  /\ \A x \in Files(t) : \E f \in Filename :
              parsed[t][f] # NoFile /\ x = [filename |-> f, proto |-> parsed[t][f]]
         /\ \A f \in Filename : parsed[t][f] # NoFile =>
              \E x \in Files(t) : x.filename = f /\ x.proto = parsed[t][f]
<1>1. ASSUME NEW f \in Filename, parsed[t][f] # NoFile
      PROVE  \E x \in Files(t) : x.filename = f /\ x.proto = parsed[t][f]
  <2> DEFINE x == [filename |-> f, proto |-> parsed[t][f]]
  <2>1. x \in Files(t) BY <1>1 DEF Files
  <2>2. x.filename = f /\ x.proto = parsed[t][f] OBVIOUS
  <2> QED BY <2>1, <2>2
<1>2. \A x \in Files(t) : \E f \in Filename :
        parsed[t][f] # NoFile /\ x = [filename |-> f, proto |-> parsed[t][f]]
  BY DEF Files
<1> QED BY <1>1, <1>2

\* GetMetadata of a tag, file by file.
LEMMA MetadataOfTag ==
  ASSUME NEW t, NEW M, M = ToMetadata(Files(t))
  PROVE  /\ \A pkg \in DOMAIN M : pkg # "" /\ \A x \in M[pkg] :
              \E f \in Filename : /\ parsed[t][f] # NoFile /\ parsed[t][f].package = pkg
                                  /\ x = Shown(f, parsed[t][f])
         /\ \A pkg \in DOMAIN M : \E x \in M[pkg] : TRUE
         /\ \A f \in Filename :
              parsed[t][f] # NoFile /\ parsed[t][f].package # "" =>
                /\ parsed[t][f].package \in DOMAIN M
                /\ Shown(f, parsed[t][f]) \in M[parsed[t][f].package]
<1> DEFINE file(f) == [filename |-> f, proto |-> parsed[t][f]]
           entry(x) == [filename |-> x.filename, messages |-> RetrieveMessages(x.proto),
                        services |-> RetrieveServices(x.proto)]
<1>1. \A f : /\ file(f).filename = f /\ file(f).proto = parsed[t][f]
             /\ entry(file(f)) = Shown(f, parsed[t][f])
  BY DEF Shown
<1>2. /\ \A x \in Files(t) : \E f \in Filename : parsed[t][f] # NoFile /\ x = file(f)
      /\ \A f \in Filename : parsed[t][f] # NoFile => file(f) \in Files(t)
  BY DEF Files
<1>3. /\ DOMAIN M = {x.proto.package : x \in Files(t)} \ {""}
      /\ \A pkg \in DOMAIN M :
           M[pkg] = {entry(x) : x \in {y \in Files(t) : y.proto.package = pkg}}
  BY DEF ToMetadata
<1> HIDE DEF file, entry
<1>4. ASSUME NEW pkg \in DOMAIN M
      PROVE  /\ pkg # "" /\ \E x \in M[pkg] : TRUE
             /\ \A x \in M[pkg] : \E f \in Filename :
                  /\ parsed[t][f] # NoFile /\ parsed[t][f].package = pkg
                  /\ x = Shown(f, parsed[t][f])
  <2>1. pkg # "" /\ \E x \in Files(t) : x.proto.package = pkg BY <1>3
  <2>2. M[pkg] = {entry(x) : x \in {y \in Files(t) : y.proto.package = pkg}} BY <1>3
  <2>3. ASSUME NEW z \in M[pkg]
        PROVE  \E f \in Filename : /\ parsed[t][f] # NoFile /\ parsed[t][f].package = pkg
                                   /\ z = Shown(f, parsed[t][f])
    <3>1. PICK x \in Files(t) : x.proto.package = pkg /\ z = entry(x) BY <2>2
    <3>2. PICK f \in Filename : parsed[t][f] # NoFile /\ x = file(f) BY <1>2
    <3> QED BY <1>1, <3>1, <3>2
  <2> QED BY <2>1, <2>2, <2>3
<1>5. ASSUME NEW f \in Filename, parsed[t][f] # NoFile, parsed[t][f].package # ""
      PROVE  /\ parsed[t][f].package \in DOMAIN M
             /\ Shown(f, parsed[t][f]) \in M[parsed[t][f].package]
  <2>1. file(f) \in Files(t) /\ file(f).proto.package = parsed[t][f].package
    BY <1>1, <1>2, <1>5
  <2>2. parsed[t][f].package \in DOMAIN M BY <1>3, <1>5, <2>1
  <2>3. entry(file(f)) \in M[parsed[t][f].package] BY <1>3, <2>1, <2>2
  <2> QED BY <1>1, <2>2, <2>3
<1> QED BY <1>4, <1>5

\* What vanishes from GetMetadata was broken in some file.
LEMMA VanishedBroken ==
  ASSUME NEW d \in Tag, NEW j \in Tag, DaemonInv, parsed[j] = pushed[j],
         \A f \in Filename : parsed[d][f] # NoFile =>
           \A x \in parsed[d][f].fields : x.decimal => Fits32(x.number),
         Vanished(ToMetadata(Files(d)), ToMetadata(Files(j)))
  PROVE  \E f \in Filename : Rank(pushed[d][f], pushed[j][f]) = 3
<1>1. PICK old, new : old = ToMetadata(Files(d)) /\ new = ToMetadata(Files(j))
  OBVIOUS
<1>2. PICK pkg \in DOMAIN old :
        \/ pkg \notin DOMAIN new
        \/ \E x \in old[pkg] : \A y \in new[pkg] :
             y.filename = x.filename => FileVanished(x, y)
  BY <1>1 DEF Vanished
<1>3. /\ pkg # "" /\ \E x \in old[pkg] : TRUE
      /\ \A x \in old[pkg] : \E f \in Filename :
           /\ parsed[d][f] # NoFile /\ parsed[d][f].package = pkg
           /\ x = Shown(f, parsed[d][f])
  BY <1>1, MetadataOfTag
<1>4. PICK x \in old[pkg] :
        \/ pkg \notin DOMAIN new
        \/ \A y \in new[pkg] : y.filename = x.filename => FileVanished(x, y)
  BY <1>2, <1>3
<1>5. PICK f \in Filename : /\ parsed[d][f] # NoFile /\ parsed[d][f].package = pkg
                            /\ x = Shown(f, parsed[d][f])
  BY <1>3
<1>6. PICK a, b : a = pushed[d][f] /\ b = pushed[j][f] OBVIOUS
<1>7. /\ a \in Content /\ b \in FileContent /\ parsed[d][f] = a /\ a # NoFile
      /\ parsed[j][f] = b
  <2>1. pushed \in [Tag -> FileMap] /\ PartOf(parsed[d], d)
    BY TypeParts DEF TablesOK, DaemonInv, ParsedFrom
  <2>2. parsed[d][f] = a BY <1>5, <1>6, <2>1 DEF PartOf
  <2> QED BY <1>5, <1>6, <2>1, <2>2 DEF FileMap, FileContent
<1>8. CASE b = NoFile
  BY <1>6, <1>7, <1>8, RankValues DEF FileContent
<1>9. CASE b # NoFile
  <2>1. b \in Content BY <1>7, <1>9 DEF FileContent
  <2>2. HasBreakingChanges(a, b)
    <3> SUFFICES ASSUME ~HasBreakingChanges(a, b) PROVE FALSE OBVIOUS
    <3>1. b.package = pkg BY <1>5, <1>7 DEF HasBreakingChanges
    <3>2. pkg \in DOMAIN new /\ Shown(f, b) \in new[pkg]
      BY <1>1, <1>3, <1>7, <1>9, <3>1, MetadataOfTag
    <3>3. Shown(f, b).filename = x.filename BY <1>5 DEF Shown
    <3>4. FileVanished(Shown(f, a), Shown(f, b)) BY <1>4, <1>5, <1>7, <3>2, <3>3
    <3> QED BY <1>5, <1>7, <2>1, <3>4, FilesStay
  <2>3. a # b BY <1>7, <2>2, UnchangedUnbroken
  <2> QED BY <1>6, <1>7, <1>9, <2>2, <2>3, RankValues DEF FileContent
<1> QED BY <1>8, <1>9

\* So was a reference to a package that is gone, if drift detection looks at
\* the field and no option was dropped.
LEMMA DroppedBroken ==
  ASSUME NEW a \in Content, NEW b \in Content, a.options \subseteq b.options,
         Referring(a) \subseteq ByNumber(a.fields), ~HasBreakingChanges(a, b)
  PROVE  RefPackages(a) \subseteq RefPackages(b)
<1>1. \A f \in Referring(a) : \E g \in b.fields : g.type = f.type
  BY DEF HasBreakingChanges, ByNumber
<1>2. GetRefPackagesForMessages(a) \ {<<>>} \subseteq GetRefPackagesForMessages(b)
  BY <1>1 DEF GetRefPackagesForMessages, Referring
<1>3. GetRefPackagesFromOptions(a.options) \subseteq GetRefPackagesFromOptions(b.options)
  BY DEF GetRefPackagesFromOptions
<1>4. \A r \in a.rpcs : r \in b.rpcs
  BY DEF HasBreakingChanges
<1>5. UNION {{GetRefPackageName(r.request), GetRefPackageName(r.response)} : r \in a.rpcs}
      \subseteq
      UNION {{GetRefPackageName(r.request), GetRefPackageName(r.response)} : r \in b.rpcs}
  BY <1>4
<1> QED BY <1>2, <1>3, <1>5 DEF RefPackages

\* RetrieveMeta of a tag, file by file.
LEMMA ReferencesOfTag ==
  ASSUME NEW t, NEW pkg
  PROVE  pkg \in RetrieveMeta(Files(t)).refPackages <=>
           \E f \in Filename : parsed[t][f] # NoFile /\ pkg \in RefPackages(parsed[t][f])
<1>1. /\ \A x \in Files(t) : \E f \in Filename : parsed[t][f] # NoFile /\ x.proto = parsed[t][f]
      /\ \A f \in Filename : parsed[t][f] # NoFile =>
           \E x \in Files(t) : x.proto = parsed[t][f]
  <2>1. \A x, f : x = [filename |-> f, proto |-> parsed[t][f]] => x.proto = parsed[t][f]
    OBVIOUS
  <2> QED BY <2>1, FilesOfTag
<1>2. RetrieveMeta(Files(t)).refPackages = UNION {RefPackages(x.proto) : x \in Files(t)}
  BY DEF RetrieveMeta
<1> QED BY <1>1, <1>2

\* What a covered request has read: the newer tag is parsed to the end.
LEMMA CoveredTags ==
  ASSUME StatusInv, NEW j \in reader.newer, Covered(j)
  PROVE  /\ reader.pinned \in Tag /\ j \in Tag /\ DaemonInv
         /\ parsed[j] = pushed[j] /\ PartOf(parsed[reader.pinned], reader.pinned)
<1>0. /\ Calm /\ Intact(j) /\ DaemonInv /\ CompleteInv /\ RequestInv(reader)
      /\ RequestTrue(reader) /\ updated_at \in [Tag -> Nat]
  BY TypeParts DEF Covered, StatusInv, Orderly, Calm, Intact, TablesOK
<1>1. /\ reader.pinned \in Tag /\ j \in Tag /\ Pushed(j)
      /\ ModuleOf[j] = ModuleOf[reader.pinned]
      /\ updated_at[reader.pinned] < updated_at[j]
  BY <1>0 DEF RequestInv, Request
<1>2. stage[j] = "live" /\ HasRow(j) BY <1>0, <1>1 DEF Intact, Pushed, HasRow
<1>3. updated_at[j] <= updated_at[j] BY <1>0, <1>1
<1>4. j \in reader.compared BY <1>1, <1>2, <1>3 DEF Covered, Unbroken
<1>5. j \in processed BY <1>0, <1>4 DEF RequestTrue
<1>6. parsed[j] = pushed[j] BY <1>0, <1>2, <1>5, ParsedComplete DEF CompleteInv
<1> QED BY <1>0, <1>1, <1>6 DEF DaemonInv, ParsedFrom

\* A critical change up to j is among the statuses.
LEMMA CriticalAdvised ==
  ASSUME StatusInv, NEW j \in reader.newer, Covered(j), NEW f \in Filename,
         Rank(pushed[reader.pinned][f], pushed[j][f]) = 3
  PROVE  ReviewAdvised(j)
<1>1. Told(j, f) BY AllTold DEF Covered
<1>2. PICK s \in reader.statuses : /\ updated_at[s.target] <= updated_at[j]
                                   /\ 3 <= s.rank /\ s.recommendation = "alert_review"
  BY <1>1 DEF Told
<1>3. s.rank \in 1..3 BY DEF StatusInv, RequestInv, Request, StatusRow
<1> QED BY <1>2, <1>3 DEF ReviewAdvised

\* ToMetadata against driftdetection.go, for every set of files and numbers of
\* every width: what a dependent saw in GetMetadata of its pinned tag and does
\* not see in that of a newer one, a status announced as a critical change, with
\* the exceptions of VanishedNeedsReview.
THEOREM VanishedIsAdvised == StatusSpec => []VanishedNeedsReview
<1>1. ASSUME StatusInv, NEW j \in reader.newer, Covered(j),
             \A x \in Files(reader.pinned) :
               \A f \in x.proto.fields : f.decimal => Fits32(f.number),
             Vanished(ToMetadata(Files(reader.pinned)), ToMetadata(Files(j)))
      PROVE  ReviewAdvised(j)
  <2>1. PICK d \in Tag : d = reader.pinned BY <1>1, CoveredTags
  <2>2. j \in Tag /\ DaemonInv /\ parsed[j] = pushed[j] BY <1>1, CoveredTags
  <2>3. ASSUME NEW f \in Filename, parsed[d][f] # NoFile
        PROVE  \A x \in parsed[d][f].fields : x.decimal => Fits32(x.number)
    <3>1. PICK x \in Files(d) : x.proto = parsed[d][f] BY <2>3, FilesOfTag
    <3> QED BY <1>1, <2>1, <3>1
  <2>4. PICK f \in Filename : Rank(pushed[d][f], pushed[j][f]) = 3
    BY <1>1, <2>1, <2>2, <2>3, VanishedBroken
  <2> QED BY <1>1, <2>1, <2>4, CriticalAdvised
<1>2. StatusInv => VanishedNeedsReview
  BY <1>1 DEF VanishedNeedsReview
<1> QED BY <1>2, StatusInvariant, PTL

\* RetrieveMeta against driftdetection.go: so was a package that the pinned tag
\* refers to and the newer one does not, as far as the two look at the same
\* fields and no option was dropped.
THEOREM DroppedReferenceIsAdvised == StatusSpec => []DroppedReferenceNeedsReview
<1>1. ASSUME StatusInv, NEW j \in reader.newer, Covered(j),
             \A x \in Files(reader.pinned) :
               /\ Referring(x.proto) \subseteq ByNumber(x.proto.fields)
               /\ \A y \in Files(j) : y.filename = x.filename
                                      => x.proto.options \subseteq y.proto.options,
             ~(RetrieveMeta(Files(reader.pinned)).refPackages
                 \subseteq RetrieveMeta(Files(j)).refPackages)
      PROVE  ReviewAdvised(j)
  <2>1. PICK d \in Tag : d = reader.pinned BY <1>1, CoveredTags
  <2>2. j \in Tag /\ DaemonInv /\ parsed[j] = pushed[j] /\ PartOf(parsed[d], d)
    BY <1>1, <2>1, CoveredTags
  <2>3. PICK pkg \in RetrieveMeta(Files(d)).refPackages :
          pkg \notin RetrieveMeta(Files(j)).refPackages
    BY <1>1, <2>1
  <2>4. PICK f \in Filename : parsed[d][f] # NoFile /\ pkg \in RefPackages(parsed[d][f])
    BY <2>3, ReferencesOfTag
  <2>5. PICK a, b : a = pushed[d][f] /\ b = pushed[j][f] OBVIOUS
  <2>6. /\ a \in Content /\ b \in FileContent /\ parsed[d][f] = a /\ a # NoFile
        /\ parsed[j][f] = b
    <3>1. pushed \in [Tag -> FileMap] BY <2>2, TypeParts DEF TablesOK
    <3>2. parsed[d][f] = a BY <2>2, <2>4, <2>5 DEF PartOf
    <3> QED BY <2>2, <2>4, <2>5, <3>1, <3>2 DEF FileMap, FileContent
  <2>7. Rank(a, b) = 3
    <3>1. CASE b = NoFile
      BY <2>6, <3>1, RankValues DEF FileContent
    <3>2. CASE b # NoFile
      <4>1. b \in Content BY <2>6, <3>2 DEF FileContent
      <4>2. PICK x \in Files(d) : x.filename = f /\ x.proto = a
        BY <2>4, <2>6, FilesOfTag
      <4>3. PICK y \in Files(j) : y.filename = f /\ y.proto = b
        BY <2>6, <3>2, FilesOfTag
      <4>4. Referring(a) \subseteq ByNumber(a.fields) /\ a.options \subseteq b.options
        BY <1>1, <2>1, <4>2, <4>3
      <4>5. pkg \in RefPackages(a) /\ pkg \notin RefPackages(b)
        BY <2>3, <2>4, <2>6, <3>2, ReferencesOfTag
      <4>6. HasBreakingChanges(a, b) BY <2>6, <4>1, <4>4, <4>5, DroppedBroken
      <4>7. a # b BY <2>6, <4>6, UnchangedUnbroken
      <4> QED BY <2>6, <3>2, <4>6, <4>7, RankValues DEF FileContent
    <3> QED BY <3>1, <3>2
  <2> QED BY <1>1, <2>1, <2>5, <2>7, CriticalAdvised
<1>2. StatusInv => DroppedReferenceNeedsReview
  BY <1>1 DEF DroppedReferenceNeedsReview
<1> QED BY <1>2, StatusInvariant, PTL
=============================================================================
