------------------------- MODULE DriftCompleteness --------------------------
(***************************************************************************)
(* The daemon reports every drift: while pushes do not overlap and nothing *)
(* fails, the comparison of a tag finds the hashes and the parsed files of *)
(* the tag and of its previous one in place, however many runs overlap and *)
(* whatever is pushed or deleted meanwhile in other modules.               *)
(***************************************************************************)
EXTENDS DriftDaemonProofs

Calm == SerialPush /\ backend = "postgres" /\ faults = 0

\* No tag of the module of t has been deleted.
Intact(t) ==
  \A u \in Tag : ModuleOf[u] = ModuleOf[t] => stage[u] \notin {"fileless", "gone"}

\* A push that is open is younger than every push that has committed.
PushOrder ==
  /\ \A t \in Tag : updated_at[t] <= now
  /\ \A t, u \in Tag : stage[t] = "begun" /\ stage[u] = "begun" => t = u
  /\ \A t, u \in Tag : stage[t] = "begun" /\ Pushed(u) => updated_at[u] <= updated_at[t]

Older(t) == {p \in Tag : OlderTag(p, t)}

\* The tags whose parsed files and hashes a comparison of t may use.
Needed(t) == {t} \cup Older(t)

ExactEvent(e) ==
  Intact(e.tag_id) =>
    /\ e.severity = TrueSeverity(e.previous_hash, e.current_hash)
    /\ \E p \in Previous(e.tag_id) : /\ e.previous_hash = pushed[p][e.filename]
                                     /\ e.current_hash = pushed[e.tag_id][e.filename]

\* Every difference between p and t has its event.
Covers(p, t) ==
  \A f \in Filename : pushed[p][f] # pushed[t][f] =>
    \E e \in events : /\ e.tag_id = t /\ e.filename = f
                      /\ e.previous_hash = pushed[p][f]
                      /\ e.current_hash = pushed[t][f]

Reported(t) == Previous(t) # {} => \E p \in Previous(t) : Covers(p, t)

HashStored(p, todo) == p \in hashed \cup todo \/ pushed[p] = Empty

\* What a comparison needs is in place, or still to be done by this run.
RunParsed(r) ==
  /\ run[r].pc = "idle" => run[r].done = {}
  /\ run[r].pc \in {"read", "save"} =>
       \A t \in run[r].todo \cup run[r].done :
         Intact(t) => \A p \in Needed(t) : p \in processed \cup run[r].todo
  /\ run[r].pc \notin {"read", "save"} =>
       \A t \in run[r].done : Intact(t) => \A p \in Needed(t) : p \in processed
  /\ run[r].pc = "hash" =>
       \A t \in run[r].done :
         Intact(t) => \A p \in Needed(t) : HashStored(p, run[r].todo)
  /\ run[r].pc \in {"detect"} \cup Comparing =>
       \A t \in run[r].done : Intact(t) => \A p \in Needed(t) : HashStored(p, {})

RunCompares(r) ==
  run[r].pc \in Comparing /\ Intact(run[r].cur) =>
    /\ run[r].prev \in Previous(run[r].cur)
    /\ run[r].pc \in Compared => run[r].files = pushed[run[r].cur]
    /\ run[r].pc = "save events" => run[r].previous = pushed[run[r].prev]

\* A processed tag has its events, or a run is going to compare it.
ProcessedReported ==
  \A t \in processed : Intact(t) => Reported(t) \/ \E r \in Run : t \in run[r].done

CompleteInv ==
  /\ failed.read = {} /\ failed.hash = {}
  /\ PushOrder
  /\ \A e \in events : ExactEvent(e)
  /\ \A r \in Run : RunParsed(r) /\ RunCompares(r)
  /\ ProcessedReported

-----------------------------------------------------------------------------
(* What every step keeps while nothing fails.                              *)

SameChange(e, n) ==
  /\ n.tag_id = e.tag_id /\ n.filename = e.filename /\ n.severity = e.severity
  /\ n.previous_hash = e.previous_hash /\ n.current_hash = e.current_hash

TagsAdvance ==
  \A p \in Tag :
    /\ stage'[p] \in {"live", "fileless", "gone"} =>
         \/ Pushed(p)
         \/ stage[p] = "begun" /\ updated_at'[p] = updated_at[p]
    /\ stage'[p] \notin {"fileless", "gone"} =>
         /\ stage[p] \notin {"fileless", "gone"}
         /\ p \in processed => p \in processed'
         /\ p \in hashed => p \in hashed'

EventsAdvance ==
  \A e \in events : stage'[e.tag_id] # "gone" => \E n \in events' : SameChange(e, n)

Advance == Kept /\ TagsAdvance /\ EventsAdvance

LEMMA SameOlder ==
  ASSUME DaemonInv, PushOrder, Calm, Kept, TagsAdvance, NEW t \in Tag, Pushed(t)
  PROVE  /\ Older(t)' = Older(t)
         /\ \A p \in Needed(t) : /\ p \in Tag /\ Pushed(p) /\ pushed'[p] = pushed[p]
                                 /\ updated_at'[p] = updated_at[p]
                                 /\ ModuleOf[p] = ModuleOf[t]
<1>0. TablesOK /\ updated_at'[t] = updated_at[t] /\ backend' = backend
  BY TypeParts DEF Kept
<1>1. ASSUME NEW p \in Tag PROVE OlderTag(p, t)' <=> OlderTag(p, t)
  <2>1. ASSUME OlderTag(p, t) PROVE OlderTag(p, t)'
    BY <1>0, <2>1 DEF OlderTag, Earlier, Kept, Pushed
  <2>2. ASSUME OlderTag(p, t)', ~Pushed(p) PROVE FALSE
    <3>1. stage[p] = "begun" /\ updated_at'[p] = updated_at[p]
      BY <2>2 DEF OlderTag, TagsAdvance, Pushed
    <3>2. updated_at[t] <= updated_at[p]
      BY <3>1 DEF PushOrder
    <3>3. updated_at[p] < updated_at[t]
      BY <1>0, <2>2, <3>1 DEF OlderTag, Earlier, Calm
    <3>4. updated_at[p] \in Nat /\ updated_at[t] \in Nat
      BY <1>0 DEF TablesOK
    <3> QED
      BY <3>2, <3>3, <3>4
  <2>3. ASSUME OlderTag(p, t)', Pushed(p) PROVE OlderTag(p, t)
    BY <1>0, <2>3 DEF OlderTag, Earlier, Kept
  <2> QED
    BY <2>1, <2>2, <2>3
<1>2. Older(t)' = Older(t)
  BY <1>1 DEF Older
<1>3. \A p \in Needed(t) : p \in Tag /\ Pushed(p) /\ ModuleOf[p] = ModuleOf[t]
  BY DEF Needed, Older, OlderTag
<1> QED
  BY <1>2, <1>3 DEF Kept

\* In a module without deletes every tag that was pushed has its row.
LEMMA PreviousIsLatest ==
  ASSUME NEW t \in Tag
  PROVE  /\ Intact(t) => Previous(t) = {p \in Older(t) : \A q \in Older(t) :
                                          updated_at[q] <= updated_at[p]}
         /\ Intact(t)' => Previous(t)' = {p \in Older(t)' : \A q \in Older(t)' :
                                            updated_at'[q] <= updated_at'[p]}
<1>1. ASSUME Intact(t)
      PROVE  Older(t) = {p \in Tag \ {t} : /\ HasRow(p) /\ ModuleOf[p] = ModuleOf[t]
                                           /\ Earlier(updated_at[p], updated_at[t])}
  BY <1>1 DEF Older, OlderTag, HasRow, Pushed, Intact
<1>2. ASSUME Intact(t)'
      PROVE  Older(t)' = {p \in Tag \ {t} : /\ HasRow(p)' /\ ModuleOf[p] = ModuleOf[t]
                                            /\ Earlier(updated_at[p], updated_at[t])'}
  BY <1>2 DEF Older, OlderTag, HasRow, Pushed, Intact
<1> QED
  BY <1>1, <1>2 DEF Previous

LEMMA Steady ==
  ASSUME DaemonInv, PushOrder, Calm, Kept, TagsAdvance, NEW t \in Tag, Pushed(t),
         Intact(t)'
  PROVE  /\ Intact(t) /\ Needed(t)' = Needed(t) /\ Previous(t)' = Previous(t)
         /\ Previous(t) \subseteq Older(t)
         /\ \A p \in Needed(t) :
              /\ p \in Tag /\ Pushed(p) /\ pushed'[p] = pushed[p]
              /\ stage[p] = "live" /\ stage'[p] = "live"
              /\ p \in processed => p \in processed'
              /\ p \in hashed => p \in hashed'
<1>1. /\ Older(t)' = Older(t)
      /\ \A p \in Needed(t) : /\ p \in Tag /\ Pushed(p) /\ pushed'[p] = pushed[p]
                              /\ updated_at'[p] = updated_at[p]
                              /\ ModuleOf[p] = ModuleOf[t]
  BY SameOlder
<1>2. Intact(t)
  BY DEF Intact, TagsAdvance
<1>3. Needed(t)' = Needed(t)
  BY <1>1 DEF Needed
<1>4. Previous(t)' = Previous(t) /\ Previous(t) \subseteq Older(t)
  <2>1. \A p \in Older(t) : updated_at'[p] = updated_at[p]
    BY <1>1 DEF Needed
  <2> QED
    BY <1>1, <1>2, <2>1, PreviousIsLatest
<1>5. ASSUME NEW p \in Needed(t)
      PROVE  /\ stage[p] = "live" /\ stage'[p] = "live"
             /\ p \in processed => p \in processed'
             /\ p \in hashed => p \in hashed'
  BY <1>1, <1>2 DEF Intact, TagsAdvance, Kept, Pushed
<1> QED
  BY <1>1, <1>2, <1>3, <1>4, <1>5

LEMMA KeptRunParsed ==
  ASSUME DaemonInv, PushOrder, Calm, Kept, TagsAdvance, NEW r \in Run,
         run'[r] = run[r], RunParsed(r)
  PROVE  RunParsed(r)'
<1>0. RunInv(r) /\ run[r].todo \subseteq Tag /\ run[r].done \subseteq Tag
  BY RunFacts
<1>1. ASSUME NEW t \in run[r].todo \cup run[r].done, Intact(t)'
      PROVE  /\ Intact(t)
             /\ \A p : p \in Needed(t)' <=> p \in Needed(t)
             /\ \A p \in Needed(t) : /\ p \in processed => p \in processed'
                                     /\ p \in hashed => p \in hashed'
                                     /\ pushed'[p] = pushed[p]
  <2>1. t \in Tag /\ Pushed(t)
    BY <1>0 DEF RunInv, RunTags
  <2> QED
    BY <1>1, <2>1, Steady
<1>2. run[r].pc \in {"read", "save"} =>
        \A t \in run[r].todo \cup run[r].done :
          Intact(t)' => \A p \in Needed(t)' : p \in processed' \cup run[r].todo
  BY <1>1 DEF RunParsed
<1>3. run[r].pc \notin {"read", "save"} =>
        \A t \in run[r].done : Intact(t)' => \A p \in Needed(t)' : p \in processed'
  BY <1>1 DEF RunParsed
<1>4. run[r].pc = "hash" =>
        \A t \in run[r].done :
          Intact(t)' => \A p \in Needed(t)' : HashStored(p, run[r].todo)'
  BY <1>1 DEF RunParsed, HashStored
<1>5. run[r].pc \in {"detect"} \cup Comparing =>
        \A t \in run[r].done : Intact(t)' => \A p \in Needed(t)' : HashStored(p, {})'
  BY <1>1 DEF RunParsed, HashStored
<1> QED
  BY <1>2, <1>3, <1>4, <1>5 DEF RunParsed

LEMMA KeptRunCompares ==
  ASSUME DaemonInv, PushOrder, Calm, Kept, TagsAdvance, NEW r \in Run,
         run'[r] = run[r], RunCompares(r)
  PROVE  RunCompares(r)'
<1> SUFFICES ASSUME run[r].pc \in Comparing, Intact(run[r].cur)'
             PROVE  /\ run[r].prev \in Previous(run[r].cur)'
                    /\ run[r].pc \in Compared => run[r].files = pushed'[run[r].cur]
                    /\ run[r].pc = "save events" => run[r].previous = pushed'[run[r].prev]
  BY DEF RunCompares
<1>1. PICK t \in Tag : t = run[r].cur /\ Pushed(t)
  <2>1. RunInv(r) /\ run[r].done \subseteq Tag
    BY RunFacts
  <2> QED
    BY <2>1 DEF RunInv, RunTags
<1>2. Intact(t)'
  BY <1>1 DEF Intact
<1>3. /\ Intact(t) /\ Previous(t)' = Previous(t) /\ pushed'[t] = pushed[t]
      /\ \A p \in Previous(t) : pushed'[p] = pushed[p]
  BY <1>1, <1>2, Steady DEF Needed
<1>4. /\ run[r].prev \in Previous(t)
      /\ run[r].pc \in Compared => run[r].files = pushed[t]
      /\ run[r].pc = "save events" => run[r].previous = pushed[run[r].prev]
  BY <1>1, <1>3 DEF RunCompares
<1>5. Previous(run[r].cur)' = Previous(t)'
  BY <1>1 DEF Previous
<1> QED
  BY <1>1, <1>3, <1>4, <1>5

LEMMA KeptExact ==
  ASSUME DaemonInv, PushOrder, Calm, Kept, TagsAdvance, NEW e \in events,
         ExactEvent(e)
  PROVE  ExactEvent(e)'
<1>1. PICK t \in Tag : t = e.tag_id /\ Pushed(t)
  BY TypeParts DEF DaemonInv, EventsFrom, TruthfulEvent, TablesOK, EventRow
<1> SUFFICES ASSUME Intact(t)'
             PROVE  /\ e.severity = TrueSeverity(e.previous_hash, e.current_hash)
                    /\ \E p \in Previous(t)' : /\ e.previous_hash = pushed'[p][e.filename]
                                               /\ e.current_hash = pushed'[t][e.filename]
  BY <1>1 DEF ExactEvent, TrueSeverity
<1>2. /\ Intact(t) /\ Previous(t)' = Previous(t) /\ pushed'[t] = pushed[t]
      /\ \A p \in Previous(t) : pushed'[p] = pushed[p]
  BY <1>1, Steady DEF Needed
<1> QED
  BY <1>1, <1>2 DEF ExactEvent

LEMMA KeptReported ==
  ASSUME DaemonInv, PushOrder, Calm, Advance, NEW t \in Tag, Pushed(t), Intact(t)',
         Reported(t)
  PROVE  Reported(t)'
<1>1. /\ Previous(t)' = Previous(t) /\ pushed'[t] = pushed[t]
      /\ \A p \in Previous(t) : pushed'[p] = pushed[p]
      /\ stage'[t] = "live"
  BY Steady DEF Needed, Advance
<1>2. ASSUME NEW p \in Previous(t), Covers(p, t) PROVE Covers(p, t)'
  <2> SUFFICES ASSUME NEW f \in Filename, pushed'[p][f] # pushed'[t][f]
               PROVE  \E e \in events' : /\ e.tag_id = t /\ e.filename = f
                                         /\ e.previous_hash = pushed'[p][f]
                                         /\ e.current_hash = pushed'[t][f]
    BY DEF Covers
  <2>1. PICK e \in events : /\ e.tag_id = t /\ e.filename = f
                            /\ e.previous_hash = pushed[p][f]
                            /\ e.current_hash = pushed[t][f]
    BY <1>1, <1>2 DEF Covers
  <2>2. PICK n \in events' : SameChange(e, n)
    BY <1>1, <2>1 DEF Advance, EventsAdvance
  <2> QED
    BY <1>1, <2>1, <2>2 DEF SameChange
<1> QED
  BY <1>1, <1>2 DEF Reported

\* What remains to be shown of a step.
LEMMA CompleteFromParts ==
  ASSUME DaemonInv, CompleteInv, Calm, Advance, PushOrder',
         failed'.read = failed.read, failed'.hash = failed.hash,
         \A e \in events' : \/ ExactEvent(e)'
                            \/ \E d \in events : SameChange(d, e),
         \A r \in Run : \/ run'[r] = run[r]
                        \/ RunParsed(r)' /\ RunCompares(r)',
         \A t \in processed' : t \in processed \/ \E r \in Run : t \in run'[r].done,
         \A t \in Tag : Intact(t)' /\ (\E r \in Run : t \in run[r].done) =>
           Reported(t)' \/ \E r \in Run : t \in run'[r].done
  PROVE  CompleteInv'
<1>0. PushOrder /\ Kept /\ TagsAdvance
  BY DEF CompleteInv, Advance
<1>1. ASSUME NEW e \in events' PROVE ExactEvent(e)'
  <2>1. ASSUME NEW d \in events, SameChange(d, e) PROVE ExactEvent(e)'
    <3>1. ExactEvent(d)'
      BY <1>0, KeptExact DEF CompleteInv
    <3> QED
      BY <2>1, <3>1, Zenon DEF ExactEvent, SameChange
  <2> QED
    BY <2>1
<1>2. ASSUME NEW r \in Run PROVE RunParsed(r)' /\ RunCompares(r)'
  BY <1>0, KeptRunParsed, KeptRunCompares DEF CompleteInv
<1>3. ProcessedReported'
  <2> SUFFICES ASSUME NEW t \in processed', Intact(t)'
               PROVE  Reported(t)' \/ \E r \in Run : t \in run'[r].done
    BY DEF ProcessedReported
  <2>1. CASE t \in processed
    <3>1. t \in Tag /\ Pushed(t)
      BY <2>1, TypeParts DEF TablesOK, DaemonInv, ProcessedFrom, HasRow, Pushed
    <3>2. Intact(t)
      BY <1>0, <3>1, Steady
    <3>3. Reported(t) \/ \E r \in Run : t \in run[r].done
      BY <2>1, <3>2 DEF CompleteInv, ProcessedReported
    <3> QED
      BY <1>0, <3>1, <3>3, KeptReported
  <2> QED
    BY <2>1
<1>4. failed'.read = {} /\ failed'.hash = {}
  BY DEF CompleteInv
<1> QED
  BY <1>1, <1>2, <1>3, <1>4 DEF CompleteInv

-----------------------------------------------------------------------------
(* The registry side.                                                      *)

LEMMA QuietAdvance ==
  ASSUME Kept, UNCHANGED <<stage, updated_at>>, processed \subseteq processed',
         hashed \subseteq hashed', events \subseteq events'
  PROVE  Advance
<1>1. TagsAdvance
  BY DEF TagsAdvance, Pushed
<1>2. EventsAdvance
  BY DEF EventsAdvance, SameChange
<1> QED
  BY <1>1, <1>2 DEF Advance

\* The service changes no run.
LEMMA ServiceCompletes ==
  ASSUME DaemonInv, CompleteInv, Calm, Advance, PushOrder',
         run' = run, failed'.read = failed.read, failed'.hash = failed.hash,
         processed' \subseteq processed,
         \A e \in events' : \E d \in events : SameChange(d, e)
  PROVE  CompleteInv'
  BY CompleteFromParts

LEMMA PushAdvance ==
  ASSUME DaemonInv, NEW t \in Tag, BeginPush(t) \/ CommitPush(t) \/ RollbackPush(t)
  PROVE  Advance
<1>0. TablesOK
  BY TypeParts
<1>1. Kept
  BY BeginPushInv, CommitPushInv, RollbackPushInv
<1>2. TagsAdvance
  BY <1>0 DEF BeginPush, CommitPush, RollbackPush, TagsAdvance, TablesOK, Pushed
<1>3. events' = events
  BY DEF BeginPush, CommitPush, RollbackPush
<1>4. EventsAdvance
  BY <1>3 DEF EventsAdvance, SameChange
<1> QED
  BY <1>1, <1>2, <1>4 DEF Advance

LEMMA PushCompletes ==
  ASSUME DaemonInv, CompleteInv, Calm, NEW t \in Tag,
         BeginPush(t) \/ CommitPush(t) \/ RollbackPush(t)
  PROVE  CompleteInv'
<1>0. TablesOK /\ PushOrder
  BY TypeParts DEF CompleteInv
<1>1. Advance
  BY PushAdvance
<1>2. UNCHANGED <<run, processed, events, now>>
  BY DEF BeginPush, CommitPush, RollbackPush
<1>5. failed'.read = failed.read /\ failed'.hash = failed.hash
  BY <1>0 DEF BeginPush, CommitPush, RollbackPush, TablesOK
<1>3. PushOrder'
  <2>0. /\ now \in Nat /\ updated_at \in [Tag -> Nat]
        /\ stage \in [Tag -> {"absent", "begun", "void", "live", "fileless", "gone"}]
    BY <1>0 DEF TablesOK
  <2>1. CASE BeginPush(t)
    <3>1. /\ stage[t] = "absent" /\ stage' = [stage EXCEPT ![t] = "begun"]
          /\ updated_at' = [updated_at EXCEPT ![t] = now]
          /\ \A u \in Tag : stage[u] # "begun"
      BY <2>1 DEF BeginPush, Calm
    <3> QED
      BY <1>0, <1>2, <2>0, <3>1 DEF PushOrder, Pushed
  <2>2. CASE CommitPush(t)
    <3>1. /\ stage[t] = "begun" /\ stage' = [stage EXCEPT ![t] = "live"]
          /\ updated_at' = updated_at
      BY <2>2 DEF CommitPush
    <3> QED
      BY <1>0, <1>2, <2>0, <3>1 DEF PushOrder, Pushed
  <2>3. CASE RollbackPush(t)
    <3>1. /\ stage[t] = "begun" /\ stage' = [stage EXCEPT ![t] = "void"]
          /\ updated_at' = [updated_at EXCEPT ![t] = 0]
      BY <2>3 DEF RollbackPush
    <3> QED
      BY <1>0, <1>2, <2>0, <3>1 DEF PushOrder, Pushed
  <2> QED
    BY <2>1, <2>2, <2>3
<1>4. \A e \in events' : \E d \in events : SameChange(d, e)
  BY <1>2 DEF SameChange
<1> QED
  BY <1>1, <1>2, <1>3, <1>4, <1>5, ServiceCompletes

LEMMA DeleteAdvance ==
  ASSUME DaemonInv, NEW t \in Tag, DeleteFiles(t) \/ DeleteRow(t)
  PROVE  Advance
<1>0. TablesOK /\ \A e \in events : e.tag_id \in Tag
  BY TypeParts DEF TablesOK, EventRow
<1>1. Kept
  BY DeleteFilesInv, DeleteRowInv
<1>2. TagsAdvance
  BY <1>0 DEF DeleteFiles, DeleteRow, TagsAdvance, TablesOK, Pushed
<1>3. EventsAdvance
  BY <1>0 DEF DeleteFiles, DeleteRow, TablesOK, EventsAdvance, SameChange
<1> QED
  BY <1>1, <1>2, <1>3 DEF Advance

LEMMA DeleteCompletes ==
  ASSUME DaemonInv, CompleteInv, Calm, NEW t \in Tag, DeleteFiles(t) \/ DeleteRow(t)
  PROVE  CompleteInv'
<1>0. TablesOK /\ PushOrder
  BY TypeParts DEF CompleteInv
<1>1. Advance
  BY DeleteAdvance
<1>4. UNCHANGED <<run, failed, updated_at, now>> /\ processed' \subseteq processed
      /\ events' \subseteq events
  BY DEF DeleteFiles, DeleteRow
<1>5. PushOrder'
  <2>1. \A u \in Tag : /\ stage'[u] = "begun" => stage[u] = "begun"
                       /\ Pushed(u)' => Pushed(u)
    BY <1>0 DEF DeleteFiles, DeleteRow, TablesOK, Pushed
  <2> QED
    BY <1>0, <1>4, <2>1 DEF PushOrder
<1>6. \A e \in events' : \E d \in events : SameChange(d, e)
  BY <1>4 DEF SameChange
<1> QED
  BY <1>1, <1>4, <1>5, <1>6, ServiceCompletes

LEMMA AcknowledgeAdvance ==
  ASSUME DaemonInv, NEW e \in events, Acknowledge(e)
  PROVE  Advance /\ \A d \in events' : \E c \in events : SameChange(c, d)
<1> DEFINE n == [e EXCEPT !.acknowledged = TRUE]
<1>0. e \in EventRow
  BY TypeParts DEF TablesOK
<1>1. SameChange(e, n)
  BY <1>0 DEF SameChange, EventRow
<1>2. /\ events' = (events \ {e}) \cup {n}
      /\ UNCHANGED <<registry, hashed, processed, run, failed>>
  BY DEF Acknowledge
<1> HIDE DEF n
<1>3. Kept
  BY AcknowledgeInv
<1>4. TagsAdvance
  BY <1>2 DEF TagsAdvance, Pushed, registry
<1>5. \A d \in events : SameChange(d, d)
  BY DEF SameChange
<1>6. EventsAdvance
  BY <1>1, <1>2, <1>5 DEF EventsAdvance
<1>7. \A d \in events' : \E c \in events : SameChange(c, d)
  BY <1>1, <1>2, <1>5
<1> QED
  BY <1>3, <1>4, <1>6, <1>7 DEF Advance

LEMMA AcknowledgeCompletes ==
  ASSUME DaemonInv, CompleteInv, Calm, NEW e \in events, Acknowledge(e)
  PROVE  CompleteInv'
<1>1. Advance /\ \A d \in events' : \E c \in events : SameChange(c, d)
  BY AcknowledgeAdvance
<1>2. UNCHANGED <<registry, hashed, processed, run, failed>>
  BY DEF Acknowledge
<1>3. PushOrder'
  BY <1>2 DEF CompleteInv, PushOrder, Pushed, registry
<1> QED
  BY <1>1, <1>2, <1>3, ServiceCompletes

LEMMA TickCompletes ==
  ASSUME DaemonInv, CompleteInv, Calm, Tick \/ UNCHANGED vars
  PROVE  CompleteInv'
<1>0. TablesOK /\ PushOrder
  BY TypeParts DEF CompleteInv
<1>1. Kept
  BY TickInv, StutterInv
<1>2. UNCHANGED <<stage, updated_at, hashed, processed, events, run, failed>>
  BY DEF Tick, vars
<1>3. now' \in Nat /\ now' >= now
  BY <1>0 DEF Tick, vars, TablesOK
<1>4. PushOrder'
  <2>1. \A t \in Tag : updated_at[t] \in Nat /\ now \in Nat
    BY <1>0 DEF TablesOK
  <2> QED
    BY <1>0, <1>2, <1>3, <2>1 DEF PushOrder, Pushed
<1>5. Advance
  BY <1>1, <1>2, QuietAdvance
<1>6. \A e \in events' : \E d \in events : SameChange(d, e)
  BY <1>2 DEF SameChange
<1> QED
  BY <1>2, <1>4, <1>5, <1>6, ServiceCompletes

-----------------------------------------------------------------------------
(* The runs.                                                               *)

LEMMA SameRegistry ==
  ASSUME UNCHANGED registry, NEW t
  PROVE  /\ Intact(t)' <=> Intact(t)
         /\ \A p : p \in Needed(t)' <=> p \in Needed(t)
         /\ Previous(t)' = Previous(t)
         /\ pushed' = pushed
<1>1. Intact(t)' <=> Intact(t)
  BY DEF Intact, registry
<1>2. Older(t)' = Older(t)
  BY DEF Older, OlderTag, Earlier, Pushed, registry
<1>3. Previous(t)' = Previous(t)
  BY DEF Previous, HasRow, Earlier, registry
<1> QED
  BY <1>1, <1>2, <1>3 DEF Needed, registry

\* In a module without deletes the tags that a comparison uses are in place.
LEMMA NeededLive ==
  ASSUME DaemonInv, NEW t \in Tag, Pushed(t), Intact(t), NEW p \in Needed(t)
  PROVE  p \in Tag /\ Pushed(p) /\ stage[p] = "live" /\ HasRow(p) /\ files[p] = pushed[p]
<1>1. p \in Tag /\ Pushed(p) /\ ModuleOf[p] = ModuleOf[t]
  BY DEF Needed, Older, OlderTag
<1>2. stage[p] = "live"
  BY <1>1 DEF Intact, Pushed
<1> QED
  BY <1>1, <1>2 DEF DaemonInv, FilesFrom, HasRow

LEMMA RunCompletes ==
  ASSUME DaemonInv, CompleteInv, Calm, Kept, NEW r \in Run, RunMoves(r),
         UNCHANGED registry, failed' = failed, hashed \subseteq hashed',
         processed \subseteq processed', processed' \subseteq processed \cup run'[r].done,
         events \subseteq events', \A e \in events' : e \in events \/ ExactEvent(e)',
         RunParsed(r)', RunCompares(r)',
         \A t \in run[r].done : t \in run'[r].done \/ (Intact(t)' => Reported(t)')
  PROVE  CompleteInv'
<1>1. Advance
  BY QuietAdvance DEF registry
<1>2. PushOrder'
  BY DEF CompleteInv, PushOrder, Pushed, registry
<1>3. \A e \in events' : ExactEvent(e)' \/ \E d \in events : SameChange(d, e)
  BY DEF SameChange
<1>4. \A q \in Run : run'[q] = run[q] \/ (RunParsed(q)' /\ RunCompares(q)')
  BY DEF RunMoves
<1>5. \A t \in processed' : t \in processed \/ \E q \in Run : t \in run'[q].done
  OBVIOUS
<1>6. ASSUME NEW t \in Tag, Intact(t)', NEW q \in Run, t \in run[q].done
      PROVE  Reported(t)' \/ \E s \in Run : t \in run'[s].done
  BY <1>6 DEF RunMoves
<1> QED
  BY <1>1, <1>2, <1>3, <1>4, <1>5, <1>6, CompleteFromParts

LEMMA StartRunCompletes ==
  ASSUME DaemonInv, CompleteInv, Calm, NEW r \in Run, StartRun(r)
  PROVE  CompleteInv'
<1> DEFINE todo == {t \in Tag : HasRow(t) /\ t \notin processed}
<1>0. /\ TablesOK /\ run \in [Run -> RunState] /\ Kept /\ run[r].pc = "idle"
      /\ RunParsed(r)
  BY TypeParts, StartRunInv DEF StartRun, CompleteInv
<1>1. /\ Proceed(r, "read", todo, {})
      /\ UNCHANGED <<registry, hashed, processed, parsed, meta, events, faults, failed>>
  BY DEF StartRun
<1>2. RunMoves(r) /\ run'[r].pc = "read" /\ run'[r].todo = todo /\ run'[r].done = {}
  BY <1>0, <1>1, ProceedMoves
<1>3. ASSUME NEW t \in todo, Intact(t)', NEW p \in Needed(t)'
      PROVE  p \in processed' \cup todo
  <2>1. Intact(t) /\ p \in Needed(t) /\ t \in Tag /\ Pushed(t)
    BY <1>1, <1>3, SameRegistry DEF HasRow, Pushed
  <2>2. p \in Tag /\ HasRow(p)
    BY <2>1, NeededLive
  <2> QED
    BY <1>1, <2>2
<1>4. RunParsed(r)'
  BY <1>2, <1>3 DEF RunParsed, Comparing
<1>5. RunCompares(r)'
  BY <1>2 DEF RunCompares, Comparing
<1>6. run[r].done = {}
  BY <1>0 DEF RunParsed
<1> QED
  BY <1>0, <1>1, <1>2, <1>4, <1>5, <1>6, RunCompletes

LEMMA ReadFilesCompletes ==
  ASSUME DaemonInv, CompleteInv, Calm, NEW r \in Run, ReadFiles(r)
  PROVE  CompleteInv'
<1>0. /\ TablesOK /\ Kept /\ run[r].todo \subseteq Tag /\ RunParsed(r)
      /\ run[r].pc = "read"
  BY TypeParts, RunFacts, ReadFilesInv DEF ReadFiles, CompleteInv
<1>1. PICK t \in run[r].todo :
        run' = [run EXCEPT ![r].pc = "save", ![r].cur = t, ![r].files = files[t]]
  BY DEF ReadFiles
<1>2. PICK m \in FileMap : m = files[t]
  BY <1>0 DEF TablesOK
<1>3. HasRead(r, t, m)
  BY <1>1, <1>2, ReadMoves
<1>4. UNCHANGED <<registry, hashed, processed, parsed, meta, events, faults, failed>>
  BY DEF ReadFiles
<1>5. ASSUME NEW u \in run[r].todo \cup run[r].done, Intact(u)', NEW p \in Needed(u)'
      PROVE  p \in processed' \cup run[r].todo
  BY <1>0, <1>4, <1>5, SameRegistry DEF RunParsed
<1>6. RunParsed(r)'
  BY <1>3, <1>5 DEF HasRead, RunParsed, Comparing
<1>7. RunCompares(r)'
  BY <1>3 DEF HasRead, RunCompares, Comparing
<1> QED
  BY <1>0, <1>3, <1>4, <1>6, <1>7, RunCompletes DEF HasRead

LEMMA SaveParsedCompletes ==
  ASSUME DaemonInv, CompleteInv, Calm, NEW r \in Run, SaveParsed(r)
  PROVE  CompleteInv'
<1>0. /\ run \in [Run -> RunState] /\ Kept /\ RunParsed(r) /\ RunInv(r)
      /\ run[r].todo \subseteq Tag /\ run[r].done \subseteq Tag /\ run[r].pc = "save"
  BY TypeParts, RunFacts, SaveParsedInv DEF SaveParsed, CompleteInv
<1>1. PICK t : t = run[r].cur /\ t \in run[r].todo
  BY <1>0 DEF RunInv, RunTags
<1>2. PICK todo, done : todo = run[r].todo \ {t} /\ done = run[r].done \cup {t}
  OBVIOUS
<1>3. /\ processed' = IF HasRow(t) THEN processed \cup {t} ELSE processed
      /\ Proceed(r, AfterTag(todo, done), todo, done)
      /\ UNCHANGED <<registry, hashed, events, faults, failed>>
  BY <1>1, <1>2 DEF SaveParsed
<1>4. PICK pc : pc = AfterTag(todo, done) /\ pc \in {"read", "list"}
                /\ (pc = "list" => todo = {})
  BY <1>2 DEF AfterTag
<1>5. RunMoves(r) /\ run'[r].pc = pc /\ run'[r].todo = todo /\ run'[r].done = done
  BY <1>0, <1>1, <1>2, <1>3, <1>4, ProceedMoves
<1>6. ASSUME NEW u \in todo \cup done, Intact(u)', NEW p \in Needed(u)'
      PROVE  p \in processed' \cup todo
  <2>1. /\ u \in run[r].todo \cup run[r].done /\ Intact(u) /\ p \in Needed(u)
        /\ u \in Tag
    BY <1>0, <1>1, <1>2, <1>3, <1>6, SameRegistry
  <2>2. p \in processed \cup run[r].todo
    BY <1>0, <2>1 DEF RunParsed
  <2>3. HasRow(p)
    BY <1>0, <2>1, NeededLive DEF RunInv, RunTags
  <2> QED
    BY <1>2, <1>3, <2>2, <2>3
<1>7. RunParsed(r)'
  BY <1>4, <1>5, <1>6 DEF RunParsed, Comparing
<1>8. RunCompares(r)'
  BY <1>4, <1>5 DEF RunCompares, Comparing
<1>9. /\ processed \subseteq processed' /\ processed' \subseteq processed \cup run'[r].done
      /\ run[r].done \subseteq run'[r].done
  BY <1>2, <1>3, <1>5
<1> QED
  BY <1>0, <1>3, <1>5, <1>7, <1>8, <1>9, RunCompletes

LEMMA ListUnhashedCompletes ==
  ASSUME DaemonInv, CompleteInv, Calm, NEW r \in Run, ListUnhashed(r)
  PROVE  CompleteInv'
<1>0. /\ run \in [Run -> RunState] /\ Kept /\ RunParsed(r) /\ RunInv(r)
      /\ run[r].done \subseteq Tag /\ run[r].pc = "list"
  BY TypeParts, RunFacts, ListUnhashedInv DEF ListUnhashed, CompleteInv
<1>1. PICK todo : todo = {t \in Tag : files[t] # Empty /\ t \notin hashed}
  OBVIOUS
<1>2. /\ Proceed(r, HashOrDetect(todo), todo, run[r].done)
      /\ UNCHANGED <<registry, hashed, processed, parsed, meta, events, faults, failed>>
  BY <1>1 DEF ListUnhashed
<1>3. PICK pc : pc = HashOrDetect(todo) /\ pc \in {"hash", "detect"}
                /\ (pc = "detect" => todo = {})
  BY DEF HashOrDetect
<1>4. /\ RunMoves(r) /\ run'[r].pc = pc
      /\ run'[r].todo = todo /\ run'[r].done = run[r].done
  BY <1>0, <1>1, <1>2, <1>3, ProceedMoves
<1>5. ASSUME NEW t \in run[r].done, Intact(t)', NEW p \in Needed(t)'
      PROVE  p \in processed' /\ HashStored(p, todo)'
  <2>1. Intact(t) /\ p \in Needed(t) /\ t \in Tag /\ Pushed(t)
    BY <1>0, <1>2, <1>5, SameRegistry DEF RunInv, RunTags
  <2>2. p \in Tag /\ files[p] = pushed[p]
    BY <2>1, NeededLive
  <2>3. p \in processed
    BY <1>0, <2>1 DEF RunParsed
  <2> QED
    BY <1>1, <1>2, <2>2, <2>3 DEF HashStored, registry
<1>6. RunParsed(r)'
  BY <1>3, <1>4, <1>5 DEF RunParsed, Comparing
<1>7. RunCompares(r)'
  BY <1>3, <1>4 DEF RunCompares, Comparing
<1> QED
  BY <1>0, <1>2, <1>4, <1>6, <1>7, RunCompletes

LEMMA ComputeHashesCompletes ==
  ASSUME DaemonInv, CompleteInv, Calm, NEW r \in Run, ComputeHashes(r)
  PROVE  CompleteInv'
<1>0. /\ run \in [Run -> RunState] /\ Kept /\ RunParsed(r) /\ RunInv(r)
      /\ run[r].todo \subseteq Tag /\ run[r].done \subseteq Tag /\ run[r].pc = "hash"
  BY TypeParts, RunFacts, ComputeHashesInv DEF ComputeHashes, CompleteInv
<1>1. PICK t \in run[r].todo :
        /\ hashed' = IF files[t] # Empty THEN hashed \cup {t} ELSE hashed
        /\ Proceed(r, HashOrDetect(run[r].todo \ {t}), run[r].todo \ {t}, run[r].done)
  BY DEF ComputeHashes
<1>2. UNCHANGED <<registry, processed, parsed, meta, events, faults, failed>>
  BY DEF ComputeHashes
<1>3. PICK todo : todo = run[r].todo \ {t}
  OBVIOUS
<1>4. PICK pc : pc = HashOrDetect(todo) /\ pc \in {"hash", "detect"}
                /\ (pc = "detect" => todo = {})
  BY DEF HashOrDetect
<1>5. /\ RunMoves(r) /\ run'[r].pc = pc
      /\ run'[r].todo = todo /\ run'[r].done = run[r].done
  BY <1>0, <1>1, <1>3, <1>4, ProceedMoves
<1>6. ASSUME NEW u \in run[r].done, Intact(u)', NEW p \in Needed(u)'
      PROVE  p \in processed' /\ HashStored(p, todo)'
  <2>1. Intact(u) /\ p \in Needed(u) /\ u \in Tag /\ Pushed(u)
    BY <1>0, <1>2, <1>6, SameRegistry DEF RunInv, RunTags
  <2>2. files[p] = pushed[p]
    BY <2>1, NeededLive
  <2>3. p \in processed /\ HashStored(p, run[r].todo)
    BY <1>0, <2>1 DEF RunParsed
  <2> QED
    BY <1>1, <1>2, <1>3, <2>2, <2>3 DEF HashStored, registry
<1>7. RunParsed(r)'
  BY <1>4, <1>5, <1>6 DEF RunParsed, Comparing
<1>8. RunCompares(r)'
  BY <1>4, <1>5 DEF RunCompares, Comparing
<1>9. hashed \subseteq hashed'
  BY <1>1
<1> QED
  BY <1>0, <1>2, <1>5, <1>7, <1>8, <1>9, RunCompletes

\* While a run compares, what the comparisons need stays in place.
LEMMA DetectRunParsed ==
  ASSUME DaemonInv, NEW r \in Run, RunParsed(r), run[r].pc \in {"detect"} \cup Comparing,
         run'[r].done \subseteq run[r].done,
         run'[r].pc \in {"detect"} \cup Comparing \/ (run'[r].pc = "idle" /\ run'[r].done = {}),
         UNCHANGED <<registry, hashed, processed>>
  PROVE  RunParsed(r)'
<1>1. ASSUME NEW t \in run'[r].done, Intact(t)', NEW p \in Needed(t)'
      PROVE  p \in processed' /\ HashStored(p, {})'
  <2>1. t \in run[r].done /\ Intact(t) /\ p \in Needed(t)
    BY <1>1, SameRegistry
  <2>2. p \in processed /\ HashStored(p, {})
    BY <2>1 DEF RunParsed, Comparing
  <2> QED
    BY <2>2 DEF HashStored, registry
<1> QED
  BY <1>1 DEF RunParsed, Comparing

\* The run goes on without the tag t.
LEMMA DetectNextMoves ==
  ASSUME DaemonInv, NEW r \in Run, RunParsed(r), run[r].pc \in {"detect"} \cup Comparing,
         NEW t, Proceed(r, AfterDetect(run[r].done \ {t}), {}, run[r].done \ {t}),
         UNCHANGED <<registry, hashed, processed>>
  PROVE  /\ RunMoves(r) /\ RunParsed(r)' /\ RunCompares(r)'
         /\ run'[r].done = run[r].done \ {t}
<1>0. /\ run \in [Run -> RunState] /\ run[r].done \subseteq Tag
  BY TypeParts, RunFacts
<1>1. PICK pc : pc = AfterDetect(run[r].done \ {t}) /\ pc \in {"idle", "detect"}
                /\ (pc = "idle" => run[r].done \ {t} = {})
  BY DEF AfterDetect
<1>2. /\ RunMoves(r) /\ run'[r].pc = pc /\ run'[r].done = run[r].done \ {t}
  BY <1>0, <1>1, ProceedMoves
<1>3. RunParsed(r)'
  BY <1>1, <1>2, DetectRunParsed
<1> QED
  BY <1>1, <1>2, <1>3 DEF RunCompares, Comparing

LEMMA SelectPreviousCompletes ==
  ASSUME DaemonInv, CompleteInv, Calm, NEW r \in Run, SelectPrevious(r)
  PROVE  CompleteInv'
<1>0. /\ run \in [Run -> RunState] /\ Kept /\ RunParsed(r) /\ RunInv(r)
      /\ run[r] \in RunState /\ run[r].done \subseteq Tag /\ run[r].pc = "detect"
  BY TypeParts, RunFacts, SelectPreviousInv DEF SelectPrevious, CompleteInv
<1>1. UNCHANGED <<registry, hashed, processed, parsed, meta, events, faults, failed>>
  BY DEF SelectPrevious
<1>2. PICK t \in run[r].done :
        \/ /\ ~HasRow(t) \/ Previous(t) = {}
           /\ Proceed(r, AfterDetect(run[r].done \ {t}), {}, run[r].done \ {t})
        \/ /\ HasRow(t)
           /\ \E p \in Previous(t) :
                run' = [run EXCEPT ![r].pc = "current", ![r].cur = t, ![r].prev = p]
  BY DEF SelectPrevious
<1>3. t \in Tag /\ Pushed(t)
  BY <1>0 DEF RunInv, RunTags
<1>4. CASE /\ ~HasRow(t) \/ Previous(t) = {}
           /\ Proceed(r, AfterDetect(run[r].done \ {t}), {}, run[r].done \ {t})
  <2>1. /\ RunMoves(r) /\ RunParsed(r)' /\ RunCompares(r)'
        /\ run'[r].done = run[r].done \ {t}
    BY <1>0, <1>1, <1>4, DetectNextMoves
  <2>2. ASSUME Intact(t)' PROVE Reported(t)'
    <3>1. Intact(t) /\ Previous(t)' = Previous(t)
      BY <1>1, <2>2, SameRegistry
    <3>2. HasRow(t)
      BY <1>3, <3>1, NeededLive DEF Needed
    <3> QED
      BY <1>4, <3>1, <3>2 DEF Reported
  <2> QED
    BY <1>0, <1>1, <2>1, <2>2, RunCompletes
<1>5. ASSUME NEW p \in Previous(t),
             run' = [run EXCEPT ![r].pc = "current", ![r].cur = t, ![r].prev = p]
      PROVE  CompleteInv'
  <2>1. p \in Tag
    BY <1>5 DEF Previous
  <2>2. /\ RunMoves(r) /\ run'[r].pc = "current" /\ run'[r].cur = t
        /\ run'[r].prev = p /\ run'[r].done = run[r].done
    BY <1>0, <1>3, <1>5, <2>1 DEF RunMoves, RunState
  <2>3. RunParsed(r)'
    BY <1>0, <1>1, <2>2, DetectRunParsed DEF Comparing
  <2>4. RunCompares(r)'
    <3>1. p \in Previous(t)'
      BY <1>1, <1>5, SameRegistry
    <3>2. Previous(run[r].cur)' = Previous(t)'
      BY <2>2 DEF Previous
    <3> QED
      BY <2>2, <3>1, <3>2 DEF RunCompares, Compared
  <2> QED
    BY <1>0, <1>1, <2>2, <2>3, <2>4, RunCompletes
<1> QED
  BY <1>2, <1>4, <1>5

\* A comparison reads every hash of the tags it needs.
LEMMA HashesComplete ==
  ASSUME DaemonInv, NEW t \in Tag, Pushed(t), Intact(t), NEW p \in Needed(t),
         HashStored(p, {})
  PROVE  Hashes(p) = pushed[p]
<1>1. files[p] = pushed[p]
  BY NeededLive
<1> QED
  BY <1>1 DEF Hashes, HashStored

\* The comparison of a run, by the tags it is about.
LEMMA ComparesTags ==
  ASSUME NEW r \in Run, NEW t, NEW p, run'[r].cur = t, run'[r].prev = p,
         UNCHANGED registry,
         Intact(t) => /\ p \in Previous(t)
                      /\ run'[r].pc \in Compared => run'[r].files = pushed[t]
                      /\ run'[r].pc = "save events" => run'[r].previous = pushed[p]
  PROVE  RunCompares(r)'
<1>1. Intact(run[r].cur)' <=> Intact(t)
  BY DEF Intact, registry
<1>2. Previous(run[r].cur)' = Previous(t)
  BY DEF Previous, HasRow, Earlier, registry
<1>3. pushed' = pushed
  BY DEF registry
<1> QED
  BY <1>1, <1>2, <1>3 DEF RunCompares

LEMMA SelectHashesCompletes ==
  ASSUME DaemonInv, CompleteInv, Calm, NEW r \in Run,
         SelectCurrentHashes(r) \/ SelectPreviousHashes(r)
  PROVE  CompleteInv'
<1>0. /\ TablesOK /\ run \in [Run -> RunState] /\ Kept /\ RunParsed(r) /\ RunInv(r)
      /\ run[r] \in RunState /\ run[r].done \subseteq Tag /\ RunCompares(r)
      /\ run[r].pc \in {"current", "previous"} /\ PushOrder
  BY TypeParts, RunFacts, SelectHashesInv DEF SelectCurrentHashes, SelectPreviousHashes,
     CompleteInv
<1>1. UNCHANGED <<registry, hashed, processed, parsed, meta, events, faults, failed>>
  BY DEF SelectCurrentHashes, SelectPreviousHashes
<1>2. PICK t \in Tag, p \in Tag :
        /\ t = run[r].cur /\ p = run[r].prev /\ t \in run[r].done /\ Pushed(t)
  BY <1>0 DEF RunInv, RunTags, Comparing
<1>3. ASSUME Intact(t)
      PROVE  /\ p \in Previous(t) /\ Hashes(t) = pushed[t] /\ Hashes(p) = pushed[p]
             /\ run[r].pc = "previous" => run[r].files = pushed[t]
  <2>1. /\ p \in Previous(t)
        /\ run[r].pc = "previous" => run[r].files = pushed[t]
    BY <1>0, <1>2, <1>3 DEF RunCompares, Comparing, Compared
  <2>2. t \in Needed(t) /\ p \in Needed(t)
    BY <1>3, <2>1, PreviousIsLatest DEF Needed
  <2>3. HashStored(t, {}) /\ HashStored(p, {})
    BY <1>0, <1>2, <1>3, <2>2 DEF RunParsed, Comparing
  <2> QED
    BY <1>2, <1>3, <2>1, <2>2, <2>3, HashesComplete
<1>4. \A u \in Tag : Hashes(u) \in FileMap
  BY <1>0, EmptyMap DEF Hashes, TablesOK
<1>5. ASSUME RunMoves(r), run'[r].done = run[r].done, run'[r].pc \in Compared,
             RunCompares(r)'
      PROVE  CompleteInv'
  <2>1. RunParsed(r)'
    BY <1>0, <1>1, <1>5, DetectRunParsed DEF Comparing, Compared
  <2> QED
    BY <1>0, <1>1, <1>5, <2>1, RunCompletes
<1>6. CASE SelectCurrentHashes(r)
  <2>1. PICK m \in FileMap : m = Hashes(t)
    BY <1>4
  <2>2. run' = [run EXCEPT ![r].pc = "previous", ![r].files = m]
    BY <1>2, <1>6, <2>1 DEF SelectCurrentHashes
  <2>3. /\ RunMoves(r) /\ run'[r].pc = "previous" /\ run'[r].cur = t
        /\ run'[r].prev = p /\ run'[r].done = run[r].done /\ run'[r].files = m
    BY <1>0, <1>2, <2>2 DEF RunMoves, RunState
  <2>4. RunCompares(r)'
    BY <1>1, <1>3, <2>1, <2>3, ComparesTags
  <2> QED
    BY <1>5, <2>3, <2>4 DEF Compared
<1>7. CASE SelectPreviousHashes(r)
  <2>1. PICK m \in FileMap : m = Hashes(p)
    BY <1>4
  <2>2. /\ run[r].pc = "previous"
        /\ run' = [run EXCEPT ![r].pc = "save events", ![r].previous = m]
    BY <1>2, <1>7, <2>1 DEF SelectPreviousHashes
  <2>3. /\ RunMoves(r) /\ run'[r].pc = "save events" /\ run'[r].cur = t
        /\ run'[r].prev = p /\ run'[r].done = run[r].done
        /\ run'[r].files = run[r].files /\ run'[r].previous = m
    BY <1>0, <1>2, <2>2 DEF RunMoves, RunState
  <2>4. RunCompares(r)'
    BY <1>1, <1>3, <2>1, <2>2, <2>3, ComparesTags
  <2> QED
    BY <1>5, <2>3, <2>4 DEF Compared
<1> QED
  BY <1>6, <1>7

-----------------------------------------------------------------------------
(* The events of a complete comparison.                                    *)

LEMMA ParsedComplete ==
  ASSUME DaemonInv, failed.read = {}, NEW p \in processed, stage[p] = "live"
  PROVE  parsed[p] = pushed[p]
  BY DEF DaemonInv, ProcessedFrom

\* The findings of r are the differences between p and t.
FindsAll(r, p, t) ==
  /\ \A e \in Found(r) : /\ e.previous_hash = pushed[p][e.filename]
                         /\ e.current_hash = pushed[t][e.filename]
                         /\ e.severity = TrueSeverity(e.previous_hash, e.current_hash)
  /\ \A f \in Filename : pushed[p][f] # pushed[t][f] =>
       \E e \in Found(r) : /\ e.tag_id = t /\ e.filename = f
                           /\ e.previous_hash = pushed[p][f]
                           /\ e.current_hash = pushed[t][f]

\* So it is when its hashes are those of the two pushes.
LEMMA FoundExact ==
  ASSUME DaemonInv, failed.read = {}, NEW r \in Run, run[r].pc = "save events",
         NEW t \in Tag, NEW p \in Tag, t = run[r].cur, p = run[r].prev,
         run[r].files = pushed[t], run[r].previous = pushed[p],
         parsed[t] = pushed[t], parsed[p] = pushed[p]
  PROVE  FindsAll(r, p, t)
<1>1. PICK old, new : old = pushed[p] /\ new = pushed[t]
  OBVIOUS
<1> DEFINE ev(f) == Event(t, f, EventType(old[f], new[f]), old[f], new[f],
                          EventSeverity(p, t, f, old[f], new[f]))
<1>2. /\ \A e \in Found(r) : \E f \in Filename : e = ev(f)
      /\ \A f \in Filename : old[f] # new[f] => ev(f) \in Found(r)
  <2>1. Found(r) = DetectDrift(p, t, old, new)
    BY <1>1 DEF Found
  <2> QED
    BY <2>1 DEF DetectDrift, Drifted
<1>3. ASSUME NEW f \in Filename
      PROVE  EventSeverity(p, t, f, old[f], new[f]) = TrueSeverity(old[f], new[f])
  <2>1. parsed[p][f] = old[f] /\ parsed[t][f] = new[f]
    BY <1>1
  <2> QED
    BY <2>1 DEF EventSeverity, ModifiedSeverity, TrueSeverity
<1>4. ASSUME NEW f \in Filename
      PROVE  /\ ev(f).tag_id = t /\ ev(f).filename = f
             /\ ev(f).previous_hash = old[f] /\ ev(f).current_hash = new[f]
             /\ ev(f).severity = EventSeverity(p, t, f, old[f], new[f])
  BY DEF Event
<1> HIDE DEF ev
<1>5. ASSUME NEW e \in Found(r)
      PROVE  /\ e.previous_hash = pushed[p][e.filename]
             /\ e.current_hash = pushed[t][e.filename]
             /\ e.severity = TrueSeverity(e.previous_hash, e.current_hash)
  <2>1. PICK f \in Filename : e = ev(f)
    BY <1>2
  <2>2. /\ e.filename = f /\ e.previous_hash = old[f] /\ e.current_hash = new[f]
        /\ e.severity = EventSeverity(p, t, f, old[f], new[f])
    BY <1>4, <2>1
  <2>3. e.severity = TrueSeverity(old[f], new[f])
    BY <1>3, <2>2
  <2> QED
    BY <1>1, <2>2, <2>3
<1>6. ASSUME NEW f \in Filename, pushed[p][f] # pushed[t][f]
      PROVE  \E e \in Found(r) : /\ e.tag_id = t /\ e.filename = f
                                 /\ e.previous_hash = pushed[p][f]
                                 /\ e.current_hash = pushed[t][f]
  <2>1. ev(f) \in Found(r)
    BY <1>1, <1>2, <1>6
  <2> QED
    BY <1>1, <1>4, <2>1
<1> QED
  BY <1>5, <1>6 DEF FindsAll

LEMMA SaveEventsCompletes ==
  ASSUME DaemonInv, CompleteInv, Calm, NEW r \in Run, SaveEvents(r)
  PROVE  CompleteInv'
<1>0. /\ TablesOK /\ Kept /\ RunParsed(r) /\ RunInv(r) /\ RunCompares(r)
      /\ run[r].done \subseteq Tag /\ failed.read = {}
      /\ run[r].pc = "save events" /\ run[r].pc \in Comparing /\ run[r].pc \in Compared
  BY TypeParts, RunFacts, SaveEventsInv DEF SaveEvents, CompleteInv, Comparing, Compared
<1>1. PICK t \in Tag, p \in Tag :
        /\ t = run[r].cur /\ p = run[r].prev /\ t \in run[r].done /\ Pushed(t)
  BY <1>0 DEF RunInv, RunTags
<1>2. /\ events' = IF HasRow(t) THEN Insert(Found(r)) ELSE events
      /\ Proceed(r, AfterDetect(run[r].done \ {t}), {}, run[r].done \ {t})
      /\ UNCHANGED <<registry, hashed, processed, parsed, meta, faults, failed>>
  BY <1>1 DEF SaveEvents, SaveDriftEvents, Found
<1>3. /\ RunMoves(r) /\ RunParsed(r)' /\ RunCompares(r)'
      /\ run'[r].done = run[r].done \ {t}
  BY <1>0, <1>2, DetectNextMoves
<1>4. /\ events \subseteq events'
      /\ \A e \in events' : e \in events \/ e \in Found(r)
      /\ HasRow(t) => \A n \in Found(r) : n \in events' \/ \E e \in events : Key(e) = Key(n)
  BY <1>2 DEF Insert
<1>5. \A e \in Found(r) : e.tag_id = t
  BY <1>0, <1>1, FoundEvents
<1>6. ASSUME Intact(t)
      PROVE  /\ p \in Previous(t) /\ HasRow(t)
             /\ run[r].files = pushed[t] /\ run[r].previous = pushed[p]
             /\ parsed[t] = pushed[t] /\ parsed[p] = pushed[p]
  <2>1. p \in Previous(t) /\ run[r].files = pushed[t] /\ run[r].previous = pushed[p]
    BY <1>0, <1>1, <1>6 DEF RunCompares
  <2>2. t \in Needed(t) /\ p \in Needed(t)
    BY <1>6, <2>1, PreviousIsLatest DEF Needed
  <2>3. t \in processed /\ p \in processed
    BY <1>0, <1>1, <1>6, <2>2 DEF RunParsed, Comparing
  <2>4. stage[t] = "live" /\ stage[p] = "live" /\ HasRow(t)
    BY <1>1, <1>6, <2>2, NeededLive
  <2> QED
    BY <1>0, <2>1, <2>3, <2>4, ParsedComplete
<1>7. ASSUME Intact(t) PROVE FindsAll(r, p, t)
  <2>1. /\ run[r].files = pushed[t] /\ run[r].previous = pushed[p]
        /\ parsed[t] = pushed[t] /\ parsed[p] = pushed[p]
    BY <1>6, <1>7
  <2> QED
    BY <1>0, <1>1, <2>1, FoundExact
<1>8. ASSUME NEW e \in Found(r) PROVE ExactEvent(e)'
  <2>1. e.tag_id = t
    BY <1>5
  <2> SUFFICES ASSUME Intact(t)'
               PROVE  /\ e.severity = TrueSeverity(e.previous_hash, e.current_hash)
                      /\ \E q \in Previous(t)' :
                           /\ e.previous_hash = pushed'[q][e.filename]
                           /\ e.current_hash = pushed'[t][e.filename]
    BY <2>1 DEF ExactEvent, TrueSeverity
  <2>2. Intact(t) /\ Previous(t)' = Previous(t) /\ pushed' = pushed
    BY <1>2, SameRegistry
  <2>3. /\ e.previous_hash = pushed[p][e.filename]
        /\ e.current_hash = pushed[t][e.filename]
        /\ e.severity = TrueSeverity(e.previous_hash, e.current_hash)
    BY <1>7, <2>2 DEF FindsAll
  <2> QED
    BY <1>6, <2>2, <2>3
<1>9. ASSUME Intact(t)' PROVE Reported(t)'
  <2>1. Intact(t) /\ Previous(t)' = Previous(t) /\ pushed' = pushed
    BY <1>2, <1>9, SameRegistry
  <2>2. ASSUME NEW f \in Filename, pushed[p][f] # pushed[t][f]
        PROVE  \E e \in events' : /\ e.tag_id = t /\ e.filename = f
                                  /\ e.previous_hash = pushed[p][f]
                                  /\ e.current_hash = pushed[t][f]
    <3>1. PICK n \in Found(r) : /\ n.tag_id = t /\ n.filename = f
                                /\ n.previous_hash = pushed[p][f]
                                /\ n.current_hash = pushed[t][f]
      BY <1>7, <2>1, <2>2 DEF FindsAll
    <3>2. n \in events' \/ \E e \in events : Key(e) = Key(n)
      BY <1>4, <1>6, <2>1
    <3>3. ASSUME NEW e \in events, Key(e) = Key(n)
          PROVE  /\ e.tag_id = n.tag_id /\ e.filename = n.filename
                 /\ e.previous_hash = n.previous_hash /\ e.current_hash = n.current_hash
      BY <3>3 DEF Key
    <3> QED
      BY <1>4, <3>1, <3>2, <3>3
  <2>3. Covers(p, t)'
    BY <2>1, <2>2 DEF Covers
  <2> QED
    BY <1>6, <2>1, <2>3 DEF Reported
<1>10. \A e \in events' : e \in events \/ ExactEvent(e)'
  BY <1>4, <1>8
<1>11. \A u \in run[r].done : u \in run'[r].done \/ (Intact(u)' => Reported(u)')
  BY <1>3, <1>9
<1> QED
  BY <1>0, <1>2, <1>3, <1>4, <1>10, <1>11, RunCompletes

-----------------------------------------------------------------------------
(* While nothing has failed, only the service and the runs have moved.     *)

LEMMA CalmSteps ==
  ASSUME DaemonInv, [Next]_vars, Calm'
  PROVE  /\ Calm
         /\ \/ Service \/ UNCHANGED vars
            \/ \E r \in Run : StartRun(r) \/ RunStep(r)
<1>0. backend' = backend /\ SerialPush /\ backend = "postgres" /\ faults' = 0
  <2>1. Kept
    BY NextDaemonInv
  <2> QED
    BY <2>1 DEF Kept, Calm
<1>1. faults \in Nat
  BY TypeParts DEF TablesOK
<1>2. faults' # faults + 1
  BY <1>0, <1>1
<1>3. \/ Service \/ UNCHANGED vars
      \/ \E r \in Run : StartRun(r) \/ RunStep(r)
  BY <1>2 DEF Next, ReadFilesCutShort, SaveEventsUnparsed, SkipTag, Exit
<1>4. faults' = faults
  <2>1. CASE Service
    BY <2>1 DEF Service, Tick, BeginPush, CommitPush, RollbackPush, DeleteFiles,
       DeleteRow, Acknowledge
  <2>2. CASE UNCHANGED vars
    BY <2>2 DEF vars
  <2>3. ASSUME NEW r \in Run, StartRun(r) \/ RunStep(r) PROVE faults' = faults
    BY <2>3 DEF StartRun, RunStep, ReadFiles, SaveParsed, ListUnhashed, ComputeHashes,
       SelectPrevious, SelectCurrentHashes, SelectPreviousHashes, SaveEvents
  <2> QED
    BY <1>3, <2>1, <2>2, <2>3
<1>5. Calm
  BY <1>0, <1>4 DEF Calm
<1> QED
  BY <1>3, <1>5

\* Such a step takes nothing away that a comparison or a report rests on.
LEMMA CalmAdvance ==
  ASSUME DaemonInv, [Next]_vars, Calm'
  PROVE  Advance
<1>0. Kept
  BY NextDaemonInv
<1>1. CASE Service
  <2>1. CASE Tick
    BY <1>0, <2>1, QuietAdvance DEF Tick
  <2> QED
    BY <1>1, <2>1, PushAdvance, DeleteAdvance, AcknowledgeAdvance DEF Service
<1>2. CASE UNCHANGED vars
  BY <1>0, <1>2, QuietAdvance DEF vars
<1>3. ASSUME NEW r \in Run, StartRun(r) \/ RunStep(r) PROVE Advance
  <2>1. /\ UNCHANGED registry /\ processed \subseteq processed'
        /\ hashed \subseteq hashed' /\ events \subseteq events'
    BY <1>3 DEF StartRun, RunStep, ReadFiles, SaveParsed, ListUnhashed, ComputeHashes,
       SelectPrevious, SelectCurrentHashes, SelectPreviousHashes, SaveEvents,
       SaveDriftEvents, Insert
  <2> QED
    BY <1>0, <2>1, QuietAdvance DEF registry
<1> QED
  BY <1>1, <1>2, <1>3, CalmSteps

LEMMA NextCompletes ==
  ASSUME DaemonInv, Calm => CompleteInv, [Next]_vars, Calm'
  PROVE  CompleteInv'
<1>0. Calm /\ CompleteInv
  BY CalmSteps
<1>1. CASE Service
  BY <1>0, <1>1, TickCompletes, PushCompletes, DeleteCompletes, AcknowledgeCompletes
     DEF Service
<1>2. CASE UNCHANGED vars
  BY <1>0, <1>2, TickCompletes
<1>3. ASSUME NEW r \in Run, StartRun(r) \/ RunStep(r) PROVE CompleteInv'
  BY <1>0, <1>3, StartRunCompletes, ReadFilesCompletes, SaveParsedCompletes,
     ListUnhashedCompletes, ComputeHashesCompletes, SelectPreviousCompletes,
     SelectHashesCompletes, SaveEventsCompletes DEF RunStep
<1> QED
  BY <1>1, <1>2, <1>3, CalmSteps

LEMMA InitCompletes == Init => CompleteInv
<1> SUFFICES ASSUME Init PROVE CompleteInv
  OBVIOUS
<1>1. PushOrder
  BY DEF Init, PushOrder, Pushed
<1>2. ASSUME NEW r \in Run PROVE RunParsed(r) /\ RunCompares(r)
  <2>1. run[r].pc = "idle" /\ run[r].todo = {} /\ run[r].done = {}
    BY IdleRunState DEF Init
  <2> QED
    BY <2>1 DEF RunParsed, RunCompares, Comparing
<1>3. ProcessedReported /\ (\A e \in events : ExactEvent(e))
      /\ failed.read = {} /\ failed.hash = {}
  BY DEF Init, ProcessedReported
<1> QED
  BY <1>1, <1>2, <1>3 DEF CompleteInv

LEMMA CompleteWhenQuiet ==
  ASSUME DaemonInv, Calm => CompleteInv
  PROVE  DriftComplete
<1> SUFFICES ASSUME Calm, \A r \in Run : run[r].pc = "idle",
                    NEW t \in processed, Intact(t)
             PROVE  /\ Previous(t) # {} => \E p \in Previous(t) : \A f \in Filename :
                         pushed[p][f] # pushed[t][f] =>
                           \E e \in {d \in events : d.tag_id = t} :
                             /\ e.filename = f
                             /\ e.previous_hash = pushed[p][f]
                             /\ e.current_hash = pushed[t][f]
                             /\ e.severity = TrueSeverity(pushed[p][f], pushed[t][f])
                    /\ \A e \in {d \in events : d.tag_id = t} : \E p \in Previous(t) :
                         /\ e.previous_hash = pushed[p][e.filename]
                         /\ e.current_hash = pushed[t][e.filename]
  BY DEF DriftComplete, Calm, Intact
<1>1. \A r \in Run : run[r].done = {}
  BY DEF CompleteInv, RunParsed
<1>2. Reported(t)
  BY <1>1 DEF CompleteInv, ProcessedReported
<1>3. ASSUME NEW e \in events, e.tag_id = t
      PROVE  /\ e.severity = TrueSeverity(e.previous_hash, e.current_hash)
             /\ \E p \in Previous(t) : /\ e.previous_hash = pushed[p][e.filename]
                                       /\ e.current_hash = pushed[t][e.filename]
  BY <1>3 DEF CompleteInv, ExactEvent
<1>4. ASSUME NEW p \in Previous(t), Covers(p, t), NEW f \in Filename,
             pushed[p][f] # pushed[t][f]
      PROVE  \E e \in {d \in events : d.tag_id = t} :
               /\ e.filename = f
               /\ e.previous_hash = pushed[p][f]
               /\ e.current_hash = pushed[t][f]
               /\ e.severity = TrueSeverity(pushed[p][f], pushed[t][f])
  <2>1. PICK e \in events : /\ e.tag_id = t /\ e.filename = f
                            /\ e.previous_hash = pushed[p][f]
                            /\ e.current_hash = pushed[t][f]
    BY <1>4 DEF Covers
  <2>2. e.severity = TrueSeverity(pushed[p][f], pushed[t][f])
    BY <1>3, <2>1
  <2> QED
    BY <2>1, <2>2
<1> QED
  BY <1>2, <1>3, <1>4 DEF Reported

\* For every set of tags, files and runs, and however pushes, deletes in other
\* modules and overlapping runs interleave: while pushes do not overlap and
\* nothing has failed, a quiet daemon on PostgreSQL has saved for every
\* processed tag exactly the differences from its previous tag, each with the
\* severity that its two contents deserve.
THEOREM DriftIsComplete == Spec => []DriftComplete
<1>1. Init => DaemonInv /\ (Calm => CompleteInv)
  BY InitDaemonInv, InitCompletes
<1>2. DaemonInv /\ (Calm => CompleteInv) /\ [Next]_vars
        => (DaemonInv /\ (Calm => CompleteInv))'
  BY NextDaemonInv, NextCompletes
<1>3. DaemonInv /\ (Calm => CompleteInv) => DriftComplete
  BY CompleteWhenQuiet
<1> QED
  BY <1>1, <1>2, <1>3, PTL DEF Spec
=============================================================================
