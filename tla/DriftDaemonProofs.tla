------------------------- MODULE DriftDaemonProofs --------------------------
(***************************************************************************)
(* The proto-parsing daemon for every set of tags, files and runs: what    *)
(* processed tags and drift events owe to the pushes, over PostgreSQL      *)
(* (DriftDaemon) and over SQLite (SqliteDaemon), which implements it.  The *)
(* theorems about DriftDaemon's Spec use none of SqliteDaemon's            *)
(* assumptions.                                                            *)
(***************************************************************************)
EXTENDS SqliteDaemon, TLAPS

(* What the runs and the tables owe to the pushes.                         *)

\* A tag whose push has committed, deleted since or not.
Pushed(t) == stage[t] \in {"live", "fileless", "gone"}

PartOf(m, t) == \A f \in Filename : m[f] # NoFile => m[f] = pushed[t][f]

\* p is a tag that can be a previous one of t, or could until it was deleted.
OlderTag(p, t) ==
  /\ p # t /\ Pushed(p) /\ ModuleOf[p] = ModuleOf[t]
  /\ Earlier(updated_at[p], updated_at[t])

FilesFrom == \A t \in Tag : files[t] = IF stage[t] = "live" THEN pushed[t] ELSE Empty

ParsedFrom == \A t \in Tag : /\ PartOf(parsed[t], t)
                             /\ parsed[t] # Empty => Pushed(t)

ProcessedFrom ==
  \A t \in processed : /\ HasRow(t) /\ t \in meta
                       /\ \/ parsed[t] = pushed[t]
                          \/ stage[t] = "fileless" \/ t \in failed.read

\* The content that a comparison has for file f of the older tag p.
OlderContent(p, f, c) ==
  \/ c = pushed[p][f]
  \/ c = NoFile /\ (stage[p] # "live" \/ p \in failed.hash \cup failed.late)

TruthfulEvent(e) ==
  LET t == e.tag_id
      f == e.filename
  IN  /\ Pushed(t)
      /\ e.event_type = EventType(e.previous_hash, e.current_hash)
      /\ e.previous_hash # e.current_hash
      /\ \/ e.current_hash = pushed[t][f]
         \/ e.current_hash = NoFile /\ (stage[t] # "live" \/ t \in failed.hash)
      /\ \E p \in Tag : OlderTag(p, t) /\ OlderContent(p, f, e.previous_hash)

EventsFrom == \A e \in events : TruthfulEvent(e)

\* idx_drift_events_unique
KeysUnique == \A e, n \in events : Key(e) = Key(n) => e = n

\* The phases of a run.
Comparing == {"current", "previous", "save events"}
Compared == {"previous", "save events"}

\* The hash of t is stored, is still to come in this phase, or cannot come.
HashKnown(t, todo) ==
  stage[t] = "live" => t \in hashed \cup todo \cup failed.hash \/ pushed[t] = Empty

RunTags(r) ==
  /\ \A t \in run[r].todo \cup run[r].done : Pushed(t)
  /\ run[r].pc = "save" => run[r].cur \in run[r].todo
  /\ run[r].pc \in Comparing => /\ run[r].cur \in run[r].done
                                /\ run[r].prev \in Tag
                                /\ OlderTag(run[r].prev, run[r].cur)

RunFiles(r) ==
  /\ run[r].pc = "save" =>
       /\ PartOf(run[r].files, run[r].cur)
       /\ stage[run[r].cur] = "live" => \/ run[r].files = pushed[run[r].cur]
                                        \/ run[r].cur \in failed.read
  /\ run[r].pc \in Compared =>
       /\ PartOf(run[r].files, run[r].cur)
       /\ stage[run[r].cur] = "live" => \/ run[r].files = pushed[run[r].cur]
                                        \/ run[r].cur \in failed.hash
  /\ run[r].pc = "save events" =>
       /\ PartOf(run[r].previous, run[r].prev)
       /\ stage[run[r].prev] = "live" =>
            \/ run[r].previous = pushed[run[r].prev]
            \/ run[r].prev \in failed.hash \cup failed.late

RunHashed(r) ==
  /\ run[r].pc = "hash" =>
       /\ \A t \in run[r].done : HashKnown(t, run[r].todo)
       /\ \A t \in Tag : HashKnown(t, run[r].todo \cup failed.late)
  /\ run[r].pc \in {"detect"} \cup Comparing =>
       /\ \A t \in run[r].done : HashKnown(t, {})
       /\ \A t \in Tag : HashKnown(t, failed.late)

RunInv(r) == RunTags(r) /\ RunFiles(r) /\ RunHashed(r)

DaemonInv ==
  /\ TypeOK
  /\ FilesFrom /\ ParsedFrom /\ ProcessedFrom
  /\ EventsFrom /\ KeysUnique
  /\ \A r \in Run : RunInv(r)

\* DELETE FROM tags cascades.
EventsHaveRow == \A e \in events : HasRow(e.tag_id)

-----------------------------------------------------------------------------
(* What every step keeps.                                                  *)

TablesOK ==
  /\ backend \in Backends /\ now \in Nat /\ faults \in Nat
  /\ stage \in [Tag -> {"absent", "begun", "void", "live", "fileless", "gone"}]
  /\ updated_at \in [Tag -> Nat]
  /\ pushed \in [Tag -> FileMap] /\ files \in [Tag -> FileMap]
  /\ parsed \in [Tag -> FileMap]
  /\ hashed \subseteq Tag /\ processed \subseteq Tag /\ meta \subseteq Tag
  /\ failed \in [read : SUBSET Tag, hash : SUBSET Tag, late : SUBSET Tag]
  /\ events \subseteq EventRow

\* A push that has committed is not changed: its tag only goes away.  One that
\* commits behind the list of a run is late.
Kept ==
  /\ backend' = backend
  /\ \A t \in Tag : Pushed(t) =>
       /\ stage'[t] \in {"live", "fileless", "gone"}
       /\ pushed'[t] = pushed[t] /\ updated_at'[t] = updated_at[t]
       /\ stage'[t] = "live" => stage[t] = "live" /\ (t \in hashed => t \in hashed')
  /\ \A t \in Tag : ~Pushed(t) /\ stage'[t] = "live" =>
       t \in failed'.late \/ \A r \in Run : ~PastList(r)
  /\ failed.read \subseteq failed'.read /\ failed.hash \subseteq failed'.hash
  /\ failed.late \subseteq failed'.late

LEMMA EmptyMap == Empty \in FileMap /\ \A f \in Filename : Empty[f] = NoFile
  BY DEF Empty, FileMap

LEMMA TypeParts == DaemonInv => TablesOK /\ run \in [Run -> RunState]
  BY DEF DaemonInv, TypeOK, TablesOK

LEMMA RunFacts ==
  ASSUME DaemonInv, NEW r \in Run
  PROVE  /\ run[r] \in RunState /\ RunInv(r)
         /\ run[r].todo \subseteq Tag /\ run[r].done \subseteq Tag
         /\ run[r].files \in FileMap /\ run[r].previous \in FileMap
  BY TypeParts DEF DaemonInv, RunState

\* The tags at which a run uses them are tags.
LEMMA TypeFromRuns ==
  ASSUME TablesOK', run' \in [Run -> RunState], \A r \in Run : RunTags(r)'
  PROVE  TypeOK'
<1>1. ASSUME NEW r \in Run
      PROVE  /\ run'[r].pc \in {"save", "current", "previous", "save events"}
                  => run'[r].cur \in Tag
             /\ run'[r].pc \in {"current", "previous", "save events"}
                  => run'[r].prev \in Tag \ {run'[r].cur}
  <2>1. run'[r].todo \subseteq Tag /\ run'[r].done \subseteq Tag
    BY DEF RunState
  <2> QED
    BY <2>1 DEF RunTags, Comparing, OlderTag
<1> QED
  BY <1>1 DEF TypeOK, TablesOK

\* A run that does not move keeps what it knows.
LEMMA KeptRun ==
  ASSUME DaemonInv, Kept, NEW r \in Run, run'[r] = run[r]
  PROVE  RunInv(r)'
<1>0. /\ RunInv(r) /\ run[r].todo \subseteq Tag /\ run[r].done \subseteq Tag
      /\ TablesOK
  BY RunFacts, TypeParts
<1>1. \A t \in run[r].todo \cup run[r].done :
        /\ Pushed(t) /\ Pushed(t)' /\ pushed'[t] = pushed[t]
        /\ stage'[t] = "live" => stage[t] = "live"
  BY <1>0 DEF RunInv, RunTags, Kept, Pushed
<1>2. RunTags(r)'
  <2>1. ASSUME run[r].pc \in Comparing
        PROVE  OlderTag(run[r].prev, run[r].cur)' /\ pushed'[run[r].prev] = pushed[run[r].prev]
    <3>1. /\ run[r].cur \in run[r].done /\ run[r].prev \in Tag
          /\ OlderTag(run[r].prev, run[r].cur)
      BY <1>0, <2>1 DEF RunInv, RunTags
    <3>2. /\ updated_at'[run[r].cur] = updated_at[run[r].cur]
          /\ updated_at'[run[r].prev] = updated_at[run[r].prev]
          /\ pushed'[run[r].prev] = pushed[run[r].prev] /\ backend' = backend
          /\ Pushed(run[r].prev)'
      BY <1>0, <1>1, <3>1 DEF OlderTag, Kept, Pushed
    <3> QED
      BY <3>1, <3>2 DEF OlderTag, Earlier
  <2> QED
    BY <1>0, <1>1, <2>1 DEF RunInv, RunTags
<1>3. RunFiles(r)'
  <2>1. ASSUME run[r].pc = "save" \/ run[r].pc \in Compared
        PROVE  /\ run[r].cur \in run[r].todo \cup run[r].done
               /\ PartOf(run[r].files, run[r].cur) => PartOf(run[r].files, run[r].cur)'
    BY <1>0, <1>1, <2>1 DEF RunInv, RunTags, Comparing, Compared, PartOf
  <2>2. ASSUME run[r].pc = "save events"
        PROVE  /\ PartOf(run[r].previous, run[r].prev) => PartOf(run[r].previous, run[r].prev)'
               /\ pushed'[run[r].prev] = pushed[run[r].prev]
               /\ stage'[run[r].prev] = "live" => stage[run[r].prev] = "live"
    <3>1. run[r].prev \in Tag /\ Pushed(run[r].prev)
      BY <1>0, <2>2 DEF RunInv, RunTags, Comparing, OlderTag
    <3> QED
      BY <3>1 DEF Kept, PartOf
  <2> QED
    BY <1>0, <1>1, <2>1, <2>2 DEF RunInv, RunFiles, Kept
<1>4. RunHashed(r)'
  <2>1. ASSUME NEW t \in Tag, NEW todo \in SUBSET Tag, PastList(r),
               HashKnown(t, todo \cup failed.late)
        PROVE  stage'[t] = "live" => \/ t \in hashed' \cup todo \cup failed'.late \cup failed'.hash
                                     \/ pushed'[t] = Empty
    <3>1. CASE Pushed(t)
      BY <2>1, <3>1 DEF HashKnown, Kept
    <3>2. CASE ~Pushed(t)
      BY <2>1, <3>2 DEF Kept
    <3> QED
      BY <3>1, <3>2
  <2>2. ASSUME NEW t \in run[r].done, NEW todo \in SUBSET Tag, HashKnown(t, todo)
        PROVE  stage'[t] = "live" => \/ t \in hashed' \cup todo \cup failed'.hash
                                     \/ pushed'[t] = Empty
    BY <1>0, <1>1, <2>2 DEF HashKnown, Kept
  <2>3. CASE run[r].pc = "hash"
    <3>1. /\ \A t \in Tag : HashKnown(t, run[r].todo \cup failed.late)
          /\ \A t \in run[r].done : HashKnown(t, run[r].todo)
          /\ PastList(r) /\ run[r].todo \in SUBSET Tag
      BY <1>0, <2>3 DEF RunInv, RunHashed, PastList
    <3> QED
      BY <2>1, <2>2, <2>3, <3>1 DEF RunHashed, HashKnown, Comparing
  <2>4. CASE run[r].pc \in {"detect"} \cup Comparing
    <3>1. /\ \A t \in Tag : HashKnown(t, {} \cup failed.late)
          /\ \A t \in run[r].done : HashKnown(t, {})
          /\ PastList(r)
      BY <1>0, <2>4 DEF RunInv, RunHashed, PastList, Comparing, HashKnown
    <3>2. \A t \in Tag : stage'[t] = "live" =>
             t \in hashed' \cup failed'.late \cup failed'.hash \/ pushed'[t] = Empty
      BY <2>1, <3>1
    <3>3. \A t \in run[r].done : stage'[t] = "live" =>
             t \in hashed' \cup failed'.hash \/ pushed'[t] = Empty
      BY <2>2, <3>1
    <3>4. run[r].pc # "hash"
      BY <2>4 DEF Comparing
    <3> QED
      BY <3>2, <3>3, <3>4 DEF RunHashed, HashKnown
  <2> QED
    BY <2>3, <2>4 DEF RunHashed
<1> QED
  BY <1>2, <1>3, <1>4 DEF RunInv

LEMMA KeptEvent ==
  ASSUME DaemonInv, Kept, NEW e \in events
  PROVE  TruthfulEvent(e)'
<1>1. TruthfulEvent(e) /\ e \in EventRow
  BY TypeParts DEF DaemonInv, EventsFrom, TablesOK
<1>2. e.tag_id \in Tag
  BY <1>1 DEF EventRow
<1>3. PICK p \in Tag : /\ OlderTag(p, e.tag_id)
                       /\ OlderContent(p, e.filename, e.previous_hash)
  BY <1>1 DEF TruthfulEvent
<1>4. OlderTag(p, e.tag_id)' /\ OlderContent(p, e.filename, e.previous_hash)'
  BY <1>1, <1>2, <1>3 DEF TruthfulEvent, OlderTag, OlderContent, Earlier, Kept, Pushed
<1> QED
  BY <1>1, <1>2, <1>3, <1>4 DEF TruthfulEvent, Kept, Pushed

LEMMA InvFromParts ==
  ASSUME DaemonInv, Kept, TablesOK', run' \in [Run -> RunState],
         FilesFrom', ParsedFrom', ProcessedFrom', KeysUnique',
         \A e \in events' : e \in events \/ TruthfulEvent(e)',
         \A r \in Run : run'[r] = run[r] \/ RunInv(r)'
  PROVE  DaemonInv'
<1>1. \A r \in Run : RunInv(r)'
  BY KeptRun
<1>2. EventsFrom'
  BY KeptEvent DEF EventsFrom
<1>3. TypeOK'
  BY <1>1, TypeFromRuns DEF RunInv
<1> QED
  BY <1>1, <1>2, <1>3 DEF DaemonInv

-----------------------------------------------------------------------------
(* The registry side.                                                      *)

LEMMA BeginPushInv ==
  ASSUME DaemonInv, NEW t \in Tag, BeginPush(t)
  PROVE  DaemonInv' /\ Kept
<1>0. TablesOK /\ run \in [Run -> RunState]
  BY TypeParts
<1>1. PICK m \in FileMap : pushed' = [pushed EXCEPT ![t] = m]
  BY DEF BeginPush
<1>2. /\ stage[t] = "absent" /\ stage' = [stage EXCEPT ![t] = "begun"]
      /\ updated_at' = [updated_at EXCEPT ![t] = now]
      /\ UNCHANGED <<backend, now, files, hashed, processed, parsed, meta, events,
                     run, faults, failed>>
  BY DEF BeginPush
<1>3. \A u \in Tag \ {t} : /\ stage'[u] = stage[u] /\ updated_at'[u] = updated_at[u]
                           /\ pushed'[u] = pushed[u]
  BY <1>0, <1>1, <1>2 DEF TablesOK
<1>4. stage'[t] = "begun" /\ stage' \in [Tag -> {"absent", "begun", "void", "live", "fileless", "gone"}]
  BY <1>0, <1>2 DEF TablesOK
<1>5. Kept
  BY <1>0, <1>2, <1>3 DEF Kept, Pushed, TablesOK
<1>6. TablesOK' /\ run' \in [Run -> RunState]
  BY <1>0, <1>1, <1>2, <1>4 DEF TablesOK
<1>7. FilesFrom'
  BY <1>2, <1>3, <1>4 DEF DaemonInv, FilesFrom
<1>8. ParsedFrom'
  <2>1. ASSUME NEW u \in Tag PROVE PartOf(parsed[u], u)' /\ (parsed[u] # Empty => Pushed(u)')
    <3>1. CASE u = t
      BY <1>2, <1>4, <3>1, EmptyMap DEF DaemonInv, ParsedFrom, PartOf, Pushed
    <3>2. CASE u # t
      BY <1>2, <1>3, <3>2 DEF DaemonInv, ParsedFrom, PartOf, Pushed
    <3> QED
      BY <3>1, <3>2
  <2> QED
    BY <1>2, <2>1 DEF ParsedFrom
<1>9. ProcessedFrom'
  BY <1>0, <1>2, <1>3 DEF DaemonInv, ProcessedFrom, HasRow, TablesOK
<1>10. KeysUnique'
  BY <1>2 DEF DaemonInv, KeysUnique
<1> QED
  BY <1>2, <1>5, <1>6, <1>7, <1>8, <1>9, <1>10, InvFromParts

LEMMA CommitPushInv ==
  ASSUME DaemonInv, NEW t \in Tag, CommitPush(t)
  PROVE  DaemonInv' /\ Kept
<1>0. TablesOK /\ run \in [Run -> RunState]
  BY TypeParts
<1>2. /\ stage[t] = "begun" /\ stage' = [stage EXCEPT ![t] = "live"]
      /\ files' = [files EXCEPT ![t] = pushed[t]]
      /\ failed' = [failed EXCEPT !.late = IF \E r \in Run : PastList(r)
                                           THEN @ \cup {t} ELSE @]
      /\ UNCHANGED <<backend, now, updated_at, pushed, hashed, processed, parsed,
                     meta, events, run, faults>>
  BY DEF CommitPush
<1>3. /\ stage'[t] = "live" /\ files'[t] = pushed[t]
      /\ \A u \in Tag \ {t} : stage'[u] = stage[u] /\ files'[u] = files[u]
  BY <1>0, <1>2 DEF TablesOK
<1>4. /\ failed' \in [read : SUBSET Tag, hash : SUBSET Tag, late : SUBSET Tag]
      /\ failed'.read = failed.read /\ failed'.hash = failed.hash
      /\ failed.late \subseteq failed'.late
      /\ (\E r \in Run : PastList(r)) => t \in failed'.late
  BY <1>0, <1>2 DEF TablesOK
<1>5. Kept
  BY <1>0, <1>2, <1>3, <1>4 DEF Kept, Pushed, TablesOK
<1>6. TablesOK' /\ run' \in [Run -> RunState]
  BY <1>0, <1>2, <1>4 DEF TablesOK
<1>7. FilesFrom'
  BY <1>2, <1>3 DEF DaemonInv, FilesFrom
<1>8. ParsedFrom'
  BY <1>2, <1>3 DEF DaemonInv, ParsedFrom, PartOf, Pushed
<1>9. ProcessedFrom'
  BY <1>0, <1>2, <1>3, <1>4 DEF DaemonInv, ProcessedFrom, HasRow, TablesOK
<1>10. KeysUnique'
  BY <1>2 DEF DaemonInv, KeysUnique
<1> QED
  BY <1>2, <1>5, <1>6, <1>7, <1>8, <1>9, <1>10, InvFromParts

LEMMA RollbackPushInv ==
  ASSUME DaemonInv, NEW t \in Tag, RollbackPush(t)
  PROVE  DaemonInv' /\ Kept
<1>0. TablesOK /\ run \in [Run -> RunState]
  BY TypeParts
<1>2. /\ stage[t] = "begun" /\ stage' = [stage EXCEPT ![t] = "void"]
      /\ updated_at' = [updated_at EXCEPT ![t] = 0]
      /\ pushed' = [pushed EXCEPT ![t] = Empty]
      /\ UNCHANGED <<backend, now, files, hashed, processed, parsed, meta, events,
                     run, faults, failed>>
  BY DEF RollbackPush
<1>3. /\ stage'[t] = "void"
      /\ \A u \in Tag \ {t} : /\ stage'[u] = stage[u] /\ updated_at'[u] = updated_at[u]
                              /\ pushed'[u] = pushed[u]
  BY <1>0, <1>2 DEF TablesOK
<1>5. Kept
  BY <1>0, <1>2, <1>3 DEF Kept, Pushed, TablesOK
<1>6. TablesOK' /\ run' \in [Run -> RunState]
  BY <1>0, <1>2, EmptyMap DEF TablesOK
<1>7. FilesFrom'
  BY <1>2, <1>3 DEF DaemonInv, FilesFrom
<1>8. ParsedFrom'
  <2>1. ASSUME NEW u \in Tag PROVE PartOf(parsed[u], u)' /\ (parsed[u] # Empty => Pushed(u)')
    <3>1. CASE u = t
      BY <1>2, <1>3, <3>1, EmptyMap DEF DaemonInv, ParsedFrom, PartOf, Pushed
    <3>2. CASE u # t
      BY <1>2, <1>3, <3>2 DEF DaemonInv, ParsedFrom, PartOf, Pushed
    <3> QED
      BY <3>1, <3>2
  <2> QED
    BY <1>2, <2>1 DEF ParsedFrom
<1>9. ProcessedFrom'
  BY <1>0, <1>2, <1>3 DEF DaemonInv, ProcessedFrom, HasRow, TablesOK
<1>10. KeysUnique'
  BY <1>2 DEF DaemonInv, KeysUnique
<1> QED
  BY <1>2, <1>5, <1>6, <1>7, <1>8, <1>9, <1>10, InvFromParts

LEMMA DeleteFilesInv ==
  ASSUME DaemonInv, NEW t \in Tag, DeleteFiles(t)
  PROVE  DaemonInv' /\ Kept
<1>0. TablesOK /\ run \in [Run -> RunState]
  BY TypeParts
<1>2. /\ stage[t] = "live" /\ stage' = [stage EXCEPT ![t] = "fileless"]
      /\ files' = [files EXCEPT ![t] = Empty] /\ hashed' = hashed \ {t}
      /\ UNCHANGED <<backend, now, updated_at, pushed, processed, parsed, meta,
                     events, run, faults, failed>>
  BY DEF DeleteFiles
<1>3. /\ stage'[t] = "fileless" /\ files'[t] = Empty
      /\ \A u \in Tag \ {t} : stage'[u] = stage[u] /\ files'[u] = files[u]
  BY <1>0, <1>2 DEF TablesOK
<1>5. Kept
  BY <1>0, <1>2, <1>3 DEF Kept, Pushed, TablesOK
<1>6. TablesOK' /\ run' \in [Run -> RunState]
  BY <1>0, <1>2, EmptyMap DEF TablesOK
<1>7. FilesFrom'
  BY <1>2, <1>3 DEF DaemonInv, FilesFrom
<1>8. ParsedFrom'
  BY <1>2, <1>3 DEF DaemonInv, ParsedFrom, PartOf, Pushed
<1>9. ProcessedFrom'
  BY <1>0, <1>2, <1>3 DEF DaemonInv, ProcessedFrom, HasRow, TablesOK
<1>10. KeysUnique'
  BY <1>2 DEF DaemonInv, KeysUnique
<1> QED
  BY <1>2, <1>5, <1>6, <1>7, <1>8, <1>9, <1>10, InvFromParts

\* Whether the events go with the tag or stay.
LEMMA DeleteRowInv ==
  ASSUME DaemonInv, NEW t \in Tag, DeleteRow(t) \/ DeleteRowUncascaded(t)
  PROVE  DaemonInv' /\ Kept
<1>0. TablesOK /\ run \in [Run -> RunState]
  BY TypeParts
<1>2. /\ stage[t] = "fileless" /\ stage' = [stage EXCEPT ![t] = "gone"]
      /\ processed' = processed \ {t} /\ events' \subseteq events
      /\ UNCHANGED <<backend, now, updated_at, pushed, files, hashed, parsed, meta,
                     run, faults, failed>>
  BY DEF DeleteRow, DeleteRowUncascaded
<1>3. /\ stage'[t] = "gone"
      /\ \A u \in Tag \ {t} : stage'[u] = stage[u]
  BY <1>0, <1>2 DEF TablesOK
<1>5. Kept
  BY <1>0, <1>2, <1>3 DEF Kept, Pushed, TablesOK
<1>6. TablesOK' /\ run' \in [Run -> RunState]
  BY <1>0, <1>2 DEF TablesOK
<1>7. FilesFrom'
  BY <1>2, <1>3 DEF DaemonInv, FilesFrom
<1>8. ParsedFrom'
  BY <1>2, <1>3 DEF DaemonInv, ParsedFrom, PartOf, Pushed
<1>9. ProcessedFrom'
  BY <1>0, <1>2, <1>3 DEF DaemonInv, ProcessedFrom, HasRow, TablesOK
<1>10. KeysUnique'
  BY <1>2 DEF DaemonInv, KeysUnique
<1> QED
  BY <1>2, <1>5, <1>6, <1>7, <1>8, <1>9, <1>10, InvFromParts

\* Nothing but the events, the clock, the runs or the count of errors moves.
LEMMA TablesKept ==
  ASSUME DaemonInv, now' \in Nat, faults' \in Nat,
         failed' \in [read : SUBSET Tag, hash : SUBSET Tag, late : SUBSET Tag],
         failed.read \subseteq failed'.read, failed.hash \subseteq failed'.hash,
         failed.late \subseteq failed'.late,
         events' \subseteq EventRow, KeysUnique',
         hashed \subseteq hashed', hashed' \subseteq Tag,
         UNCHANGED <<backend, stage, updated_at, pushed, files, processed, parsed, meta>>
  PROVE  TablesOK' /\ Kept /\ FilesFrom' /\ ParsedFrom' /\ ProcessedFrom'
<1>0. TablesOK
  BY TypeParts
<1>1. TablesOK'
  BY <1>0 DEF TablesOK
<1>2. Kept
  BY <1>0 DEF Kept, Pushed
<1>3. FilesFrom' /\ ParsedFrom'
  BY DEF DaemonInv, FilesFrom, ParsedFrom, PartOf, Pushed
<1>4. ProcessedFrom'
  BY DEF DaemonInv, ProcessedFrom, HasRow
<1> QED
  BY <1>1, <1>2, <1>3, <1>4

LEMMA AcknowledgeInv ==
  ASSUME DaemonInv, NEW e \in events, Acknowledge(e)
  PROVE  DaemonInv' /\ Kept
<1> DEFINE n == [e EXCEPT !.acknowledged = TRUE]
<1>0. TablesOK /\ run \in [Run -> RunState] /\ e \in EventRow
  BY TypeParts DEF TablesOK
<1>1. /\ events' = (events \ {e}) \cup {n}
      /\ UNCHANGED <<registry, hashed, processed, parsed, meta, run, faults, failed>>
  BY DEF Acknowledge
<1>2. n \in EventRow
  BY <1>0 DEF EventRow
<1>3. /\ n.tag_id = e.tag_id /\ n.filename = e.filename /\ n.event_type = e.event_type
      /\ n.previous_hash = e.previous_hash /\ n.current_hash = e.current_hash
  BY <1>0 DEF EventRow
<1>4. Key(n) = Key(e)
  BY <1>3 DEF Key
<1> HIDE DEF n
<1>5. KeysUnique'
  <2> SUFFICES ASSUME NEW a \in events', NEW b \in events', Key(a) = Key(b)
               PROVE  a = b
    BY DEF KeysUnique
  <2> QED
    BY <1>1, <1>4 DEF DaemonInv, KeysUnique
<1>6. /\ TablesOK' /\ Kept /\ FilesFrom' /\ ParsedFrom' /\ ProcessedFrom'
  BY <1>0, <1>1, <1>2, <1>5, TablesKept DEF TablesOK, registry
<1>7. TruthfulEvent(n)'
  BY <1>3, <1>6, KeptEvent DEF TruthfulEvent
<1> QED
  BY <1>0, <1>1, <1>5, <1>6, <1>7, InvFromParts

LEMMA TickInv ==
  ASSUME DaemonInv, Tick
  PROVE  DaemonInv' /\ Kept
<1>0. TablesOK /\ run \in [Run -> RunState]
  BY TypeParts
<1>1. /\ now' = now + 1
      /\ UNCHANGED <<backend, stage, updated_at, pushed, files, hashed, processed,
                     parsed, meta, events, run, faults, failed>>
  BY DEF Tick
<1>2. KeysUnique'
  BY <1>1 DEF DaemonInv, KeysUnique
<1>3. /\ TablesOK' /\ Kept /\ FilesFrom' /\ ParsedFrom' /\ ProcessedFrom'
  BY <1>0, <1>1, <1>2, TablesKept DEF TablesOK
<1> QED
  BY <1>0, <1>1, <1>2, <1>3, InvFromParts

-----------------------------------------------------------------------------
(* The runs.                                                               *)

\* Only run r moves, and the tables it may write.
RunMoves(r) ==
  /\ run' \in [Run -> RunState]
  /\ \A q \in Run \ {r} : run'[q] = run[q]

LEMMA IdleRunState ==
  /\ IdleRun \in RunState /\ IdleRun.pc = "idle"
  /\ IdleRun.todo = {} /\ IdleRun.done = {} /\ IdleRun.cur = None
  BY EmptyMap DEF IdleRun, RunState

LEMMA ProceedMoves ==
  ASSUME run \in [Run -> RunState], NEW r \in Run, NEW pc, NEW todo, NEW done,
         todo \subseteq Tag, done \subseteq Tag,
         pc \in {"idle", "read", "list", "hash", "detect"},
         Proceed(r, pc, todo, done)
  PROVE  /\ RunMoves(r)
         /\ run'[r].pc = pc /\ run'[r].todo = todo /\ run'[r].done = done
<1> DEFINE s == [IdleRun EXCEPT !.pc = pc, !.todo = todo, !.done = done]
<1>1. s \in RunState /\ s.pc = pc /\ s.todo = todo /\ s.done = done
  BY EmptyMap DEF IdleRun, RunState
<1>2. run' = [run EXCEPT ![r] = s]
  BY DEF Proceed
<1> HIDE DEF s
<1> QED
  BY <1>1, <1>2 DEF RunMoves

\* A step of a run that writes no table.
LEMMA QuietStepInv ==
  ASSUME DaemonInv, NEW r \in Run, RunMoves(r), RunInv(r)', faults' \in Nat,
         failed' \in [read : SUBSET Tag, hash : SUBSET Tag, late : SUBSET Tag],
         failed.read \subseteq failed'.read, failed.hash \subseteq failed'.hash,
         failed.late \subseteq failed'.late,
         UNCHANGED <<registry, hashed, processed, parsed, meta, events>>
  PROVE  DaemonInv' /\ Kept
<1>0. TablesOK
  BY TypeParts
<1>1. KeysUnique'
  BY DEF DaemonInv, KeysUnique
<1>2. /\ TablesOK' /\ Kept /\ FilesFrom' /\ ParsedFrom' /\ ProcessedFrom'
  BY <1>0, <1>1, TablesKept DEF TablesOK, registry
<1> QED
  BY <1>1, <1>2, InvFromParts DEF RunMoves

\* Between two tags a run knows only which tags it has to do.
LEMMA ProceedInv ==
  ASSUME NEW r \in Run, run'[r].pc \in {"idle", "read", "list", "hash", "detect"},
         \A t \in run'[r].todo \cup run'[r].done : Pushed(t)',
         RunHashed(r)'
  PROVE  RunInv(r)'
  BY DEF RunInv, RunTags, RunFiles, Comparing, Compared

LEMMA StartRunInv ==
  ASSUME DaemonInv, NEW r \in Run, StartRun(r)
  PROVE  DaemonInv' /\ Kept
<1> DEFINE todo == {t \in Tag : HasRow(t) /\ t \notin processed}
<1>0. TablesOK /\ run \in [Run -> RunState]
  BY TypeParts
<1>1. /\ Proceed(r, "read", todo, {})
      /\ UNCHANGED <<registry, hashed, processed, parsed, meta, events, faults, failed>>
  BY DEF StartRun
<1>2. RunMoves(r) /\ run'[r].pc = "read" /\ run'[r].todo = todo /\ run'[r].done = {}
  BY <1>0, <1>1, ProceedMoves
<1>3. RunInv(r)'
  BY <1>1, <1>2, ProceedInv DEF RunHashed, Comparing, HasRow, Pushed, registry
<1> QED
  BY <1>0, <1>1, <1>2, <1>3, QuietStepInv DEF TablesOK

\* Run r has read the files m of its tag t.
HasRead(r, t, m) ==
  /\ RunMoves(r) /\ run'[r].pc = "save" /\ run'[r].cur = t /\ run'[r].files = m
  /\ run'[r].todo = run[r].todo /\ run'[r].done = run[r].done

LEMMA ReadMoves ==
  ASSUME DaemonInv, NEW r \in Run, NEW t \in run[r].todo, NEW m \in FileMap,
         run' = [run EXCEPT ![r].pc = "save", ![r].cur = t, ![r].files = m]
  PROVE  HasRead(r, t, m)
<1>0. run \in [Run -> RunState] /\ run[r] \in RunState /\ t \in Tag
  BY TypeParts, RunFacts
<1> QED
  BY <1>0 DEF HasRead, RunMoves, RunState

\* The files of a tag, all or those that arrived.
LEMMA ReadInv ==
  ASSUME DaemonInv, NEW r \in Run, NEW t \in run[r].todo,
         NEW m, \A f \in Filename : m[f] # NoFile => m[f] = files[t][f],
         m = files[t] \/ t \in failed'.read,
         HasRead(r, t, m), faults' \in Nat,
         failed' \in [read : SUBSET Tag, hash : SUBSET Tag, late : SUBSET Tag],
         failed.read \subseteq failed'.read, failed.hash \subseteq failed'.hash,
         failed.late \subseteq failed'.late,
         UNCHANGED <<registry, hashed, processed, parsed, meta, events>>
  PROVE  DaemonInv' /\ Kept
<1>0. t \in Tag /\ Pushed(t)
  BY RunFacts DEF RunInv, RunTags
<1>2. files[t] = IF stage[t] = "live" THEN pushed[t] ELSE Empty
  BY <1>0 DEF DaemonInv, FilesFrom
<1>3. PartOf(m, t)' /\ (stage[t] = "live" => m = pushed[t] \/ t \in failed'.read)
  BY <1>2, EmptyMap DEF PartOf, registry
<1>4. RunTags(r)'
  BY RunFacts DEF RunInv, RunTags, Comparing, Pushed, registry, HasRead
<1>5. RunFiles(r)'
  BY <1>3 DEF RunFiles, Compared, registry, HasRead
<1>6. RunHashed(r)'
  BY DEF RunHashed, Comparing, HasRead
<1> QED
  BY <1>4, <1>5, <1>6, QuietStepInv DEF RunInv, HasRead

LEMMA ReadFilesInv ==
  ASSUME DaemonInv, NEW r \in Run, ReadFiles(r) \/ ReadFilesCutShort(r)
  PROVE  DaemonInv' /\ Kept
<1>0. TablesOK /\ run[r].todo \subseteq Tag
  BY TypeParts, RunFacts
<1>1. CASE ReadFiles(r)
  <2>1. PICK t \in run[r].todo :
          run' = [run EXCEPT ![r].pc = "save", ![r].cur = t, ![r].files = files[t]]
    BY <1>1 DEF ReadFiles
  <2>2. PICK m : m = files[t]
    OBVIOUS
  <2>3. m \in FileMap
    BY <1>0, <2>2 DEF TablesOK
  <2>4. HasRead(r, t, m)
    BY <2>1, <2>2, <2>3, ReadMoves
  <2> QED
    BY <1>0, <1>1, <2>2, <2>4, ReadInv DEF ReadFiles, TablesOK
<1>2. CASE ReadFilesCutShort(r)
  <2>1. PICK t \in run[r].todo, F \in SUBSET Filename :
          /\ run' = [run EXCEPT ![r].pc = "save", ![r].cur = t,
                       ![r].files = [f \in Filename |->
                                       IF f \in F THEN files[t][f] ELSE NoFile]]
          /\ failed' = [failed EXCEPT !.read = @ \cup {t}]
    BY <1>2 DEF ReadFilesCutShort
  <2>2. PICK m : m = [f \in Filename |-> IF f \in F THEN files[t][f] ELSE NoFile]
    OBVIOUS
  <2>3. m \in FileMap /\ \A f \in Filename : m[f] # NoFile => m[f] = files[t][f]
    <3>1. files[t] \in FileMap
      BY <1>0 DEF TablesOK
    <3> QED
      BY <2>2, <3>1 DEF FileMap
  <2>4. HasRead(r, t, m)
    BY <2>1, <2>2, <2>3, ReadMoves
  <2>5. /\ failed' \in [read : SUBSET Tag, hash : SUBSET Tag, late : SUBSET Tag] /\ t \in failed'.read
        /\ failed.read \subseteq failed'.read /\ failed.hash \subseteq failed'.hash
        /\ failed.late \subseteq failed'.late
    BY <1>0, <2>1 DEF TablesOK
  <2>6. /\ faults' = faults + 1
        /\ UNCHANGED <<registry, hashed, processed, parsed, meta, events>>
    BY <1>2 DEF ReadFilesCutShort
  <2>7. faults' \in Nat
    BY <1>0, <2>6 DEF TablesOK
  <2> QED
    BY <2>3, <2>4, <2>5, <2>6, <2>7, ReadInv
<1> QED
  BY <1>1, <1>2

LEMMA SaveParsedInv ==
  ASSUME DaemonInv, NEW r \in Run, SaveParsed(r)
  PROVE  DaemonInv' /\ Kept
<1> DEFINE t == run[r].cur
           todo == run[r].todo \ {t}
           done == run[r].done \cup {t}
           m == run[r].files
<1>0. TablesOK /\ run \in [Run -> RunState] /\ RunInv(r) /\ m \in FileMap
  BY TypeParts, RunFacts
<1>1. /\ run[r].pc = "save" /\ meta' = meta \cup {t}
      /\ parsed' = [parsed EXCEPT ![t] = [f \in Filename |->
                      IF m[f] = NoFile THEN parsed[t][f] ELSE m[f]]]
      /\ processed' = IF HasRow(t) THEN processed \cup {t} ELSE processed
      /\ Proceed(r, AfterTag(todo, done), todo, done)
      /\ UNCHANGED <<registry, hashed, events, faults, failed>>
  BY DEF SaveParsed
<1>2. /\ t \in Tag /\ t \in run[r].todo /\ Pushed(t)
      /\ run[r].todo \subseteq Tag /\ run[r].done \subseteq Tag
  BY <1>0, <1>1, RunFacts DEF RunInv, RunTags
<1>3. /\ RunMoves(r) /\ run'[r].pc \in {"idle", "read", "list"}
      /\ run'[r].todo = todo /\ run'[r].done = done
  <2>1. AfterTag(todo, done) \in {"idle", "read", "list"}
    BY DEF AfterTag
  <2> QED
    BY <1>0, <1>1, <1>2, <2>1, ProceedMoves
<1>4. RunInv(r)'
  <2>1. \A u \in run'[r].todo \cup run'[r].done : Pushed(u)'
    BY <1>0, <1>1, <1>2, <1>3 DEF RunInv, RunTags, Pushed, registry
  <2> QED
    BY <1>3, <2>1, ProceedInv DEF RunHashed, Comparing
<1>5. /\ parsed' \in [Tag -> FileMap]
      /\ \A u \in Tag \ {t} : parsed'[u] = parsed[u]
      /\ \A f \in Filename : parsed'[t][f] = IF m[f] = NoFile THEN parsed[t][f] ELSE m[f]
  <2>1. parsed[t] \in FileMap
    BY <1>0, <1>2 DEF TablesOK
  <2>2. [f \in Filename |-> IF m[f] = NoFile THEN parsed[t][f] ELSE m[f]] \in FileMap
    BY <1>0, <2>1 DEF FileMap
  <2> QED
    BY <1>0, <1>1, <1>2, <2>2 DEF TablesOK
<1>6. PartOf(m, t) /\ (stage[t] = "live" => m = pushed[t] \/ t \in failed.read)
  BY <1>0, <1>1 DEF RunInv, RunFiles
<1>7. ParsedFrom'
  <2>2. ASSUME NEW u \in Tag PROVE PartOf(parsed[u], u)' /\ (parsed'[u] # Empty => Pushed(u)')
    <3>1. CASE u = t
      <4>1. Pushed(u)'
        BY <1>1, <1>2, <3>1 DEF Pushed, registry
      <4>2. PartOf(parsed[u], u) /\ PartOf(m, u) /\ pushed' = pushed
        BY <1>1, <1>6, <3>1 DEF DaemonInv, ParsedFrom, registry
      <4> QED
        BY <1>5, <3>1, <4>1, <4>2 DEF PartOf
    <3>2. CASE u # t
      BY <1>1, <1>5, <3>2 DEF DaemonInv, ParsedFrom, PartOf, Pushed, registry
    <3> QED
      BY <3>1, <3>2
  <2> QED
    BY <2>2 DEF ParsedFrom
<1>8. ASSUME \A f \in Filename : parsed[t][f] = pushed[t][f] \/ m[f] = pushed[t][f]
      PROVE  parsed'[t] = pushed[t]
  <2>1. ASSUME NEW f \in Filename PROVE parsed'[t][f] = pushed[t][f]
    BY <1>2, <1>5, <1>6, <1>8 DEF DaemonInv, ParsedFrom, PartOf
  <2>2. parsed'[t] \in FileMap /\ pushed[t] \in FileMap
    BY <1>0, <1>2, <1>5 DEF TablesOK
  <2> QED
    BY <2>1, <2>2 DEF FileMap
<1>9. ProcessedFrom'
  <2> SUFFICES ASSUME NEW u \in processed'
               PROVE  /\ HasRow(u) /\ u \in meta'
                      /\ \/ parsed'[u] = pushed[u]
                         \/ stage[u] = "fileless" \/ u \in failed.read
    BY <1>1 DEF ProcessedFrom, HasRow, registry
  <2>1. CASE u # t
    BY <1>0, <1>1, <1>5, <2>1 DEF DaemonInv, ProcessedFrom, TablesOK
  <2>2. CASE u = t
    <3>1. HasRow(t)
      BY <1>1, <2>2 DEF DaemonInv, ProcessedFrom
    <3>2. stage[t] = "live" => m = pushed[t] \/ t \in failed.read
      BY <1>6
    <3> QED
      BY <1>1, <1>8, <2>2, <3>1, <3>2 DEF HasRow
  <2> QED
    BY <2>1, <2>2
<1>10. FilesFrom' /\ KeysUnique'
  BY <1>1 DEF DaemonInv, FilesFrom, KeysUnique, registry
<1>11. TablesOK' /\ Kept
  <2>1. processed' \subseteq Tag /\ meta' \subseteq Tag
    BY <1>0, <1>1, <1>2 DEF TablesOK
  <2> QED
    BY <1>0, <1>1, <1>5, <2>1 DEF TablesOK, Kept, Pushed, registry
<1> QED
  BY <1>1, <1>3, <1>4, <1>7, <1>9, <1>10, <1>11, InvFromParts DEF RunMoves

LEMMA ListUnhashedInv ==
  ASSUME DaemonInv, NEW r \in Run, ListUnhashed(r)
  PROVE  DaemonInv' /\ Kept
<1> DEFINE todo == {t \in Tag : files[t] # Empty /\ t \notin hashed}
<1>0. TablesOK /\ run \in [Run -> RunState] /\ RunInv(r) /\ run[r].done \subseteq Tag
  BY TypeParts, RunFacts
<1>1. /\ Proceed(r, HashOrDetect(todo), todo, run[r].done)
      /\ UNCHANGED <<registry, hashed, processed, parsed, meta, events, faults, failed>>
  BY DEF ListUnhashed
<1>2. PICK pc : pc = HashOrDetect(todo) /\ pc \in {"hash", "detect"}
                /\ (pc = "detect" => todo = {})
  BY DEF HashOrDetect
<1>3. /\ RunMoves(r) /\ run'[r].pc = pc
      /\ run'[r].todo = todo /\ run'[r].done = run[r].done
  BY <1>0, <1>1, <1>2, ProceedMoves
<1>4. \A t \in Tag : t \in todo \/ t \in hashed \/ files[t] = Empty
  OBVIOUS
<1>5. \A t \in Tag : HashKnown(t, todo) /\ HashKnown(t, todo \cup failed.late)
  BY <1>0, <1>4 DEF HashKnown, DaemonInv, FilesFrom
<1>6. RunHashed(r)'
  BY <1>0, <1>1, <1>2, <1>3, <1>5 DEF RunHashed, HashKnown, Comparing, registry
<1>7. \A t \in run'[r].todo \cup run'[r].done : Pushed(t)'
  BY <1>0, <1>1, <1>3 DEF DaemonInv, FilesFrom, RunInv, RunTags, Pushed, registry
<1> QED
  BY <1>0, <1>1, <1>2, <1>3, <1>6, <1>7, ProceedInv, QuietStepInv DEF TablesOK

\* The run goes on without t, whose hashes are stored, not needed or given up.
LEMMA HashNextInv ==
  ASSUME DaemonInv, NEW r \in Run, run[r].pc = "hash", NEW t \in run[r].todo,
         HashNext(r, t), hashed \subseteq hashed', hashed' \subseteq Tag,
         t \in hashed' \cup failed'.hash \/ files[t] = Empty,
         faults' \in Nat, failed' \in [read : SUBSET Tag, hash : SUBSET Tag, late : SUBSET Tag],
         failed.read \subseteq failed'.read, failed.hash \subseteq failed'.hash,
         failed.late \subseteq failed'.late,
         UNCHANGED <<registry, processed, parsed, meta, events>>
  PROVE  DaemonInv' /\ Kept
<1> DEFINE todo == run[r].todo \ {t}
<1>0. /\ TablesOK /\ run \in [Run -> RunState] /\ RunInv(r)
      /\ run[r].done \subseteq Tag /\ run[r].todo \subseteq Tag
  BY TypeParts, RunFacts
<1>1. Proceed(r, HashOrDetect(todo), todo, run[r].done)
  BY DEF HashNext
<1>2. PICK pc : pc = HashOrDetect(todo) /\ pc \in {"hash", "detect"}
                /\ (pc = "detect" => todo = {})
  BY DEF HashOrDetect
<1>3. /\ RunMoves(r) /\ run'[r].pc = pc
      /\ run'[r].todo = todo /\ run'[r].done = run[r].done
  BY <1>0, <1>1, <1>2, ProceedMoves
<1>4. ASSUME NEW u \in Tag, stage[u] = "live"
      PROVE  /\ u \in hashed' \cup todo \cup failed'.late \cup failed'.hash \/ pushed[u] = Empty
             /\ u \in run[r].done =>
                  u \in hashed' \cup todo \cup failed'.hash \/ pushed[u] = Empty
  <2>1. /\ HashKnown(u, run[r].todo \cup failed.late)
        /\ u \in run[r].done => HashKnown(u, run[r].todo)
    BY <1>0, <1>4 DEF RunInv, RunHashed
  <2>2. files[u] = pushed[u]
    BY <1>0, <1>4 DEF DaemonInv, FilesFrom
  <2> QED
    BY <1>4, <2>1, <2>2 DEF HashKnown
<1>5. RunHashed(r)'
  BY <1>0, <1>2, <1>3, <1>4 DEF RunHashed, HashKnown, Comparing, registry
<1>6. \A u \in run'[r].todo \cup run'[r].done : Pushed(u)'
  BY <1>0, <1>3 DEF RunInv, RunTags, Pushed, registry
<1>7. RunInv(r)'
  BY <1>2, <1>3, <1>5, <1>6, ProceedInv
<1>8. KeysUnique'
  BY DEF DaemonInv, KeysUnique
<1>9. TablesOK' /\ Kept /\ FilesFrom' /\ ParsedFrom' /\ ProcessedFrom'
  BY <1>0, <1>8, TablesKept DEF TablesOK, registry
<1> QED
  BY <1>3, <1>7, <1>8, <1>9, InvFromParts DEF RunMoves

LEMMA ComputeHashesInv ==
  ASSUME DaemonInv, NEW r \in Run, ComputeHashes(r)
  PROVE  DaemonInv' /\ Kept
<1>0. TablesOK /\ run[r].todo \subseteq Tag
  BY TypeParts, RunFacts
<1>1. PICK t \in run[r].todo :
        /\ hashed' = IF files[t] # Empty THEN hashed \cup {t} ELSE hashed
        /\ Proceed(r, HashOrDetect(run[r].todo \ {t}), run[r].todo \ {t}, run[r].done)
  BY DEF ComputeHashes
<1>2. HashNext(r, t)
  BY <1>1 DEF HashNext
<1>3. /\ run[r].pc = "hash"
      /\ UNCHANGED <<registry, processed, parsed, meta, events, faults, failed>>
  BY DEF ComputeHashes
<1>4. /\ hashed \subseteq hashed' /\ hashed' \subseteq Tag
      /\ t \in hashed' \/ files[t] = Empty
  BY <1>0, <1>1 DEF TablesOK
<1> QED
  BY <1>0, <1>2, <1>3, <1>4, HashNextInv DEF TablesOK

\* The run goes on without the tag t, compared or not.
LEMMA DetectNextInv ==
  ASSUME DaemonInv, NEW r \in Run, run[r].pc \in {"detect"} \cup Comparing, NEW t,
         Proceed(r, AfterDetect(run[r].done \ {t}), {}, run[r].done \ {t}),
         hashed' = hashed, failed' = failed, UNCHANGED registry
  PROVE  RunMoves(r) /\ RunInv(r)'
<1>0. /\ run \in [Run -> RunState] /\ RunInv(r) /\ run[r].done \subseteq Tag
  BY TypeParts, RunFacts
<1>1. PICK pc : pc = AfterDetect(run[r].done \ {t}) /\ pc \in {"idle", "detect"}
  BY DEF AfterDetect
<1>2. /\ RunMoves(r) /\ run'[r].pc = pc
      /\ run'[r].todo = {} /\ run'[r].done = run[r].done \ {t}
  BY <1>0, <1>1, ProceedMoves
<1>3. RunHashed(r)'
  BY <1>0, <1>1, <1>2 DEF RunInv, RunHashed, HashKnown, Comparing, registry
<1>4. \A u \in run'[r].todo \cup run'[r].done : Pushed(u)'
  BY <1>0, <1>2 DEF RunInv, RunTags, Pushed, registry
<1> QED
  BY <1>1, <1>2, <1>3, <1>4, ProceedInv

LEMMA SelectPreviousInv ==
  ASSUME DaemonInv, NEW r \in Run, SelectPrevious(r)
  PROVE  DaemonInv' /\ Kept
<1>0. /\ TablesOK /\ run \in [Run -> RunState] /\ RunInv(r) /\ run[r] \in RunState
      /\ run[r].done \subseteq Tag
  BY TypeParts, RunFacts
<1>1. /\ run[r].pc = "detect"
      /\ UNCHANGED <<registry, hashed, processed, parsed, meta, events, faults, failed>>
  BY DEF SelectPrevious
<1>2. PICK t \in run[r].done :
        \/ Proceed(r, AfterDetect(run[r].done \ {t}), {}, run[r].done \ {t})
        \/ \E p \in Previous(t) :
             run' = [run EXCEPT ![r].pc = "current", ![r].cur = t, ![r].prev = p]
  BY DEF SelectPrevious
<1>3. CASE Proceed(r, AfterDetect(run[r].done \ {t}), {}, run[r].done \ {t})
  <2>1. RunMoves(r) /\ RunInv(r)'
    BY <1>1, <1>3, DetectNextInv
  <2> QED
    BY <1>0, <1>1, <2>1, QuietStepInv DEF TablesOK
<1>4. ASSUME NEW p \in Previous(t),
             run' = [run EXCEPT ![r].pc = "current", ![r].cur = t, ![r].prev = p]
      PROVE  DaemonInv' /\ Kept
  <2>1. /\ p \in Tag /\ p # t /\ HasRow(p) /\ ModuleOf[p] = ModuleOf[t]
        /\ Earlier(updated_at[p], updated_at[t])
    BY <1>4 DEF Previous
  <2>2. OlderTag(p, t)'
    BY <1>1, <2>1 DEF OlderTag, Earlier, HasRow, Pushed, registry
  <2>3. /\ RunMoves(r) /\ run'[r].pc = "current" /\ run'[r].cur = t
        /\ run'[r].prev = p /\ run'[r].todo = run[r].todo /\ run'[r].done = run[r].done
    BY <1>0, <1>2, <1>4, <2>1 DEF RunMoves, RunState
  <2>4. RunTags(r)' /\ RunFiles(r)'
    BY <1>0, <1>1, <1>2, <2>1, <2>2, <2>3 DEF RunInv, RunTags, RunFiles, Compared,
       Pushed, registry
  <2>5. RunHashed(r)'
    BY <1>0, <1>1, <2>3 DEF RunInv, RunHashed, HashKnown, registry
  <2> QED
    BY <1>0, <1>1, <2>3, <2>4, <2>5, QuietStepInv DEF RunInv, TablesOK
<1> QED
  BY <1>2, <1>3, <1>4

LEMMA SelectHashesInv ==
  ASSUME DaemonInv, NEW r \in Run, SelectCurrentHashes(r) \/ SelectPreviousHashes(r)
  PROVE  DaemonInv' /\ Kept
<1>0. /\ TablesOK /\ run \in [Run -> RunState] /\ RunInv(r) /\ run[r] \in RunState
      /\ run[r].done \subseteq Tag
  BY TypeParts, RunFacts
<1>1. /\ run[r].pc \in {"current", "previous"}
      /\ UNCHANGED <<registry, hashed, processed, parsed, meta, events, faults, failed>>
  BY DEF SelectCurrentHashes, SelectPreviousHashes
<1>2. PICK t \in Tag, p \in Tag :
        /\ t = run[r].cur /\ p = run[r].prev /\ t \in run[r].done /\ OlderTag(p, t)
  BY <1>0, <1>1 DEF RunInv, RunTags, Comparing
<1>3. ASSUME NEW u \in Tag
      PROVE  Hashes(u) \in FileMap /\ PartOf(Hashes(u), u)
  <2>1. files[u] = IF stage[u] = "live" THEN pushed[u] ELSE Empty
    BY DEF DaemonInv, FilesFrom
  <2>2. files[u] \in FileMap
    BY <1>0 DEF TablesOK
  <2> QED
    BY <2>1, <2>2, EmptyMap DEF Hashes, PartOf
<1>4. ASSUME run'[r].cur = run[r].cur, run'[r].prev = run[r].prev,
             run'[r].todo = run[r].todo, run'[r].done = run[r].done,
             run'[r].pc \in Compared
      PROVE  RunTags(r)' /\ RunHashed(r)'
  <2>1. OlderTag(p, t)'
    BY <1>1, <1>2 DEF OlderTag, Earlier, Pushed, registry
  <2>2. RunTags(r)'
    BY <1>0, <1>1, <1>2, <1>4, <2>1 DEF RunInv, RunTags, Pushed, Compared, registry
  <2>3. RunHashed(r)'
    BY <1>0, <1>1, <1>4 DEF RunInv, RunHashed, HashKnown, Compared, Comparing, registry
  <2> QED
    BY <2>2, <2>3
<1>5. CASE SelectCurrentHashes(r)
  <2>1. PICK m : m = Hashes(t)
    OBVIOUS
  <2>2. /\ run[r].pc = "current"
        /\ run' = [run EXCEPT ![r].pc = "previous", ![r].files = m]
    BY <1>2, <1>5, <2>1 DEF SelectCurrentHashes
  <2>3. m \in FileMap /\ PartOf(m, t)
    BY <1>3, <2>1
  <2>4. /\ RunMoves(r) /\ run'[r].pc = "previous" /\ run'[r].cur = run[r].cur
        /\ run'[r].prev = run[r].prev /\ run'[r].todo = run[r].todo
        /\ run'[r].done = run[r].done /\ run'[r].files = m
    BY <1>0, <2>2, <2>3 DEF RunMoves, RunState
  <2>5. stage[t] = "live" => m = pushed[t] \/ t \in failed.hash
    <3>1. HashKnown(t, {}) /\ (stage[t] = "live" => files[t] = pushed[t])
      BY <1>0, <1>2, <2>2 DEF RunInv, RunHashed, Comparing, DaemonInv, FilesFrom
    <3> QED
      BY <2>1, <3>1 DEF HashKnown, Hashes
  <2>6. RunFiles(r)'
    BY <1>1, <1>2, <2>3, <2>4, <2>5 DEF RunFiles, PartOf, registry
  <2>7. RunInv(r)'
    BY <1>4, <2>4, <2>6 DEF RunInv, Compared
  <2> QED
    BY <1>0, <1>1, <2>4, <2>7, QuietStepInv DEF TablesOK
<1>6. CASE SelectPreviousHashes(r)
  <2>1. PICK m : m = Hashes(p)
    OBVIOUS
  <2>2. /\ run[r].pc = "previous"
        /\ run' = [run EXCEPT ![r].pc = "save events", ![r].previous = m]
    BY <1>2, <1>6, <2>1 DEF SelectPreviousHashes
  <2>3. m \in FileMap /\ PartOf(m, p)
    BY <1>3, <2>1
  <2>4. /\ RunMoves(r) /\ run'[r].pc = "save events" /\ run'[r].cur = run[r].cur
        /\ run'[r].prev = run[r].prev /\ run'[r].todo = run[r].todo
        /\ run'[r].done = run[r].done /\ run'[r].files = run[r].files
        /\ run'[r].previous = m
    BY <1>0, <2>2, <2>3 DEF RunMoves, RunState
  <2>5. RunFiles(r)'
    <3>1. PICK c : c = run[r].files
      OBVIOUS
    <3>2. PartOf(c, t) /\ (stage[t] = "live" => c = pushed[t] \/ t \in failed.hash)
      BY <1>0, <1>2, <2>2, <3>1 DEF RunInv, RunFiles, Compared
    <3>3. PartOf(c, t)' /\ PartOf(m, p)'
      BY <1>1, <2>3, <3>2 DEF PartOf, registry
    <3>4. stage[p] = "live" => m = pushed[p] \/ p \in failed.hash \cup failed.late
      <4>1. HashKnown(p, failed.late) /\ (stage[p] = "live" => files[p] = pushed[p])
        BY <1>0, <2>2 DEF RunInv, RunHashed, Comparing, DaemonInv, FilesFrom
      <4> QED
        BY <2>1, <4>1 DEF HashKnown, Hashes
    <3> QED
      BY <1>1, <1>2, <2>4, <3>1, <3>2, <3>3, <3>4 DEF RunFiles, registry
  <2>6. RunInv(r)'
    BY <1>4, <2>4, <2>5 DEF RunInv, Compared
  <2> QED
    BY <1>0, <1>1, <2>4, <2>6, QuietStepInv DEF TablesOK
<1> QED
  BY <1>5, <1>6

-----------------------------------------------------------------------------
(* The events of a comparison.                                             *)

LEMMA SeverityOK ==
  ASSUME TablesOK, NEW p \in Tag, NEW t \in Tag, NEW f \in Filename
  PROVE  ModifiedSeverity(p, t, f) \in Severity
<1>1. parsed[p] \in FileMap /\ parsed[t] \in FileMap
  BY DEF TablesOK
<1>2. parsed[p][f] \in Content \cup {NoFile} /\ parsed[t][f] \in Content \cup {NoFile}
  BY <1>1 DEF FileMap
<1> QED
  BY <1>2, FunctionAssumption DEF ModifiedSeverity, Severity

\* What detectDrift finds for a run that is about to save it.
Found(r) == DetectDrift(run[r].prev, run[r].cur, run[r].previous, run[r].files)

LEMMA FoundEvents ==
  ASSUME DaemonInv, NEW r \in Run, run[r].pc = "save events", NEW e \in Found(r)
  PROVE  /\ e \in EventRow /\ e.tag_id = run[r].cur /\ ~e.acknowledged
         /\ TruthfulEvent(e)
         /\ e.previous_hash = run[r].previous[e.filename]
         /\ e.current_hash = run[r].files[e.filename]
<1>0. /\ TablesOK /\ RunInv(r) /\ run[r].files \in FileMap
      /\ run[r].previous \in FileMap /\ run[r].done \subseteq Tag
  BY TypeParts, RunFacts
<1>1. PICK t \in Tag, p \in Tag :
        /\ t = run[r].cur /\ p = run[r].prev /\ t \in run[r].done
        /\ OlderTag(p, t) /\ Pushed(t)
  BY <1>0 DEF RunInv, RunTags, Comparing
<1>2. PICK old, new : old = run[r].previous /\ new = run[r].files
  OBVIOUS
<1>3. PICK f \in Filename :
        /\ old[f] # new[f]
        /\ e = Event(t, f, EventType(old[f], new[f]), old[f], new[f],
                     EventSeverity(p, t, f, old[f], new[f]))
  BY <1>1, <1>2 DEF Found, DetectDrift, Drifted
<1>4. /\ old[f] \in Content \cup {NoFile} /\ new[f] \in Content \cup {NoFile}
      /\ EventType(old[f], new[f]) \in {"added", "modified", "deleted"}
      /\ EventSeverity(p, t, f, old[f], new[f]) \in Severity
  BY <1>0, <1>2, SeverityOK DEF FileMap, EventType, EventSeverity, Severity
<1>5. /\ e.tag_id = t /\ e.filename = f /\ e.event_type = EventType(old[f], new[f])
      /\ e.previous_hash = old[f] /\ e.current_hash = new[f] /\ e.acknowledged = FALSE
  BY <1>3 DEF Event
<1>6. e \in EventRow
  BY <1>1, <1>3, <1>4 DEF Event, EventRow
<1>7. /\ PartOf(new, t) /\ PartOf(old, p)
      /\ stage[t] = "live" => new = pushed[t] \/ t \in failed.hash
      /\ stage[p] = "live" => old = pushed[p] \/ p \in failed.hash \cup failed.late
  BY <1>0, <1>1, <1>2 DEF RunInv, RunFiles, Compared
<1>8. TruthfulEvent(e)
  <2>1. /\ new[f] # NoFile => new[f] = pushed[t][f]
        /\ old[f] # NoFile => old[f] = pushed[p][f]
    BY <1>3, <1>7 DEF PartOf
  <2>2. OlderContent(p, f, old[f])
    BY <1>7, <2>1 DEF OlderContent
  <2> QED
    BY <1>1, <1>3, <1>5, <1>7, <2>1, <2>2 DEF TruthfulEvent
<1> QED
  BY <1>1, <1>2, <1>5, <1>6, <1>8

\* Two findings of one comparison are about two files.
LEMMA FoundKeys ==
  ASSUME DaemonInv, NEW r \in Run, run[r].pc = "save events",
         NEW e \in Found(r), NEW n \in Found(r), e.filename = n.filename
  PROVE  e = n
<1> DEFINE ev(f) == Event(run[r].cur, f,
                          EventType(run[r].previous[f], run[r].files[f]),
                          run[r].previous[f], run[r].files[f],
                          EventSeverity(run[r].prev, run[r].cur, f,
                                        run[r].previous[f], run[r].files[f]))
<1>1. PICK f \in Filename : e = ev(f)
  BY DEF Found, DetectDrift, Drifted
<1>2. PICK g \in Filename : n = ev(g)
  BY DEF Found, DetectDrift, Drifted
<1>3. \A x \in Filename : ev(x).filename = x
  BY DEF Event
<1> HIDE DEF ev
<1> QED
  BY <1>1, <1>2, <1>3

\* Rows that a run may insert.
Insertable(r, new) ==
  /\ \A n \in new : /\ n \in EventRow /\ n.tag_id = run[r].cur /\ ~n.acknowledged
                    /\ TruthfulEvent(n)
  /\ \A a, b \in new : Key(a) = Key(b) => a = b

LEMMA FoundInsertable ==
  ASSUME DaemonInv, NEW r \in Run, run[r].pc = "save events"
  PROVE  Insertable(r, Found(r))
<1>1. ASSUME NEW a \in Found(r), NEW b \in Found(r), Key(a) = Key(b) PROVE a = b
  <2>1. a.filename = b.filename
    BY <1>1 DEF Key
  <2> QED
    BY <2>1, FoundKeys
<1> QED
  BY <1>1, FoundEvents DEF Insertable

\* The rating of SaveEventsUnparsed.
Unrated(e, unread) ==
  IF e.event_type = "modified" /\ e.filename \in unread
  THEN [e EXCEPT !.severity = "warning"] ELSE e

LEMMA UnratedInsertable ==
  ASSUME DaemonInv, NEW r \in Run, run[r].pc = "save events", NEW unread
  PROVE  Insertable(r, {Unrated(e, unread) : e \in Found(r)})
<1>1. ASSUME NEW e \in Found(r)
      PROVE  /\ Unrated(e, unread) \in EventRow /\ Unrated(e, unread).tag_id = e.tag_id
             /\ Unrated(e, unread).filename = e.filename /\ Unrated(e, unread).acknowledged = e.acknowledged
             /\ Unrated(e, unread).event_type = e.event_type
             /\ Unrated(e, unread).previous_hash = e.previous_hash
             /\ Unrated(e, unread).current_hash = e.current_hash
  <2>1. e \in EventRow
    BY FoundEvents
  <2> QED
    BY <2>1 DEF Unrated, EventRow, Severity
<1>2. ASSUME NEW n \in {Unrated(e, unread) : e \in Found(r)}
      PROVE  /\ n \in EventRow /\ n.tag_id = run[r].cur /\ ~n.acknowledged
             /\ TruthfulEvent(n)
  <2>1. PICK e \in Found(r) : n = Unrated(e, unread)
    OBVIOUS
  <2>2. TruthfulEvent(e) /\ e.tag_id = run[r].cur /\ ~e.acknowledged
    BY FoundEvents
  <2>3. TruthfulEvent(n)
    BY <1>1, <2>1, <2>2 DEF TruthfulEvent
  <2> QED
    BY <1>1, <2>1, <2>2, <2>3
<1>3. ASSUME NEW a \in {Unrated(e, unread) : e \in Found(r)},
             NEW b \in {Unrated(e, unread) : e \in Found(r)}, Key(a) = Key(b)
      PROVE  a = b
  <2>1. PICK d \in Found(r) : a = Unrated(d, unread)
    OBVIOUS
  <2>2. PICK e \in Found(r) : b = Unrated(e, unread)
    OBVIOUS
  <2>3. a.filename = b.filename
    BY <1>3 DEF Key
  <2>4. d = e
    BY <1>1, <2>1, <2>2, <2>3, FoundKeys
  <2> QED
    BY <2>1, <2>2, <2>4
<1> QED
  BY <1>2, <1>3 DEF Insertable

LEMMA InsertInv ==
  ASSUME DaemonInv, NEW r \in Run, run[r].pc = "save events", NEW new,
         Insertable(r, new), events' = events \/ events' = Insert(new),
         Proceed(r, AfterDetect(run[r].done \ {run[r].cur}), {},
                 run[r].done \ {run[r].cur}),
         UNCHANGED <<registry, hashed, processed, parsed, meta, failed>>,
         faults' \in Nat
  PROVE  DaemonInv' /\ Kept
<1>0. TablesOK
  BY TypeParts
<1>1. RunMoves(r) /\ RunInv(r)'
  BY DetectNextInv DEF Comparing
<1>2. /\ \A n \in events' : n \in events \/ n \in new
      /\ \A n \in events' : n \in events \/ \A e \in events : Key(e) # Key(n)
  BY DEF Insert
<1>3. KeysUnique'
  BY <1>2 DEF DaemonInv, KeysUnique, Insertable
<1>4. events' \subseteq EventRow
  BY <1>0, <1>2 DEF TablesOK, Insertable
<1>5. TablesOK' /\ Kept /\ FilesFrom' /\ ParsedFrom' /\ ProcessedFrom'
  BY <1>0, <1>3, <1>4, TablesKept DEF TablesOK, registry
<1>6. ASSUME NEW n \in new PROVE TruthfulEvent(n)'
  <2>1. TruthfulEvent(n)
    BY DEF Insertable
  <2>2. PICK p \in Tag : /\ OlderTag(p, n.tag_id)
                         /\ OlderContent(p, n.filename, n.previous_hash)
    BY <2>1 DEF TruthfulEvent
  <2>3. OlderTag(p, n.tag_id)' /\ OlderContent(p, n.filename, n.previous_hash)'
    BY <2>2 DEF OlderTag, OlderContent, Earlier, Pushed, registry
  <2> QED
    BY <2>1, <2>3 DEF TruthfulEvent, Pushed, registry
<1> QED
  BY <1>1, <1>2, <1>3, <1>5, <1>6, InvFromParts DEF RunMoves

\* What a statement that saves events does to them.
LEMMA SaveEventsShape ==
  ASSUME DaemonInv, NEW r \in Run,
         SaveEvents(r) \/ SaveEventsUnparsed(r) \/ SaveOrphanEvents(r)
  PROVE  /\ run[r].pc = "save events"
         /\ faults' \in Nat /\ faults' >= faults
         /\ \E new : Insertable(r, new) /\ (events' = events \/ events' = Insert(new))
         /\ Proceed(r, AfterDetect(run[r].done \ {run[r].cur}), {},
                    run[r].done \ {run[r].cur})
         /\ UNCHANGED <<registry, hashed, processed, parsed, meta, failed>>
<1>0. faults \in Nat
  BY TypeParts DEF TablesOK
<1>1. CASE SaveEvents(r) \/ SaveOrphanEvents(r)
  <2>1. /\ run[r].pc = "save events" /\ faults' = faults
        /\ events' = events \/ events' = Insert(Found(r))
        /\ Proceed(r, AfterDetect(run[r].done \ {run[r].cur}), {},
                    run[r].done \ {run[r].cur})
        /\ UNCHANGED <<registry, hashed, processed, parsed, meta, failed>>
    BY <1>1 DEF SaveEvents, SaveOrphanEvents, SaveDriftEvents, Found
  <2>2. faults' \in Nat /\ faults' >= faults
    <3>1. faults' = faults
      BY <2>1
    <3> QED
      BY <1>0, <3>1
  <2>3. Insertable(r, Found(r))
    BY <2>1, FoundInsertable
  <2>4. \E new : Insertable(r, new) /\ (events' = events \/ events' = Insert(new))
    BY <2>1, <2>3
  <2> QED
    BY <2>1, <2>2, <2>4
<1>2. CASE SaveEventsUnparsed(r)
  <2>1. PICK unread \in SUBSET Filename :
          /\ run[r].pc = "save events" /\ faults' = faults + 1
          /\ SaveDriftEvents(r, {Unrated(e, unread) : e \in Found(r)})
          /\ failed' = failed
    BY <1>2 DEF SaveEventsUnparsed, Unrated, Found
  <2>2. /\ events' = events \/ events' = Insert({Unrated(e, unread) : e \in Found(r)})
        /\ Proceed(r, AfterDetect(run[r].done \ {run[r].cur}), {},
                    run[r].done \ {run[r].cur})
        /\ UNCHANGED <<registry, hashed, processed, parsed, meta, failed>>
    BY <2>1 DEF SaveDriftEvents
  <2>3. faults' = faults + 1
    BY <2>1
  <2>4. faults' \in Nat /\ faults' >= faults
    BY <1>0, <2>3
  <2> QED
    BY <2>1, <2>2, <2>4, UnratedInsertable
<1> QED
  BY <1>1, <1>2

LEMMA SaveEventsInv ==
  ASSUME DaemonInv, NEW r \in Run,
         SaveEvents(r) \/ SaveEventsUnparsed(r) \/ SaveOrphanEvents(r)
  PROVE  DaemonInv' /\ Kept
  BY SaveEventsShape, InsertInv

-----------------------------------------------------------------------------
(* Failures.                                                               *)

LEMMA SkipTagInv ==
  ASSUME DaemonInv, NEW r \in Run, SkipTag(r)
  PROVE  DaemonInv' /\ Kept
<1>0. /\ TablesOK /\ run \in [Run -> RunState] /\ RunInv(r)
      /\ run[r].done \subseteq Tag /\ run[r].todo \subseteq Tag
  BY TypeParts, RunFacts
<1>1. /\ faults' = faults + 1
      /\ UNCHANGED <<registry, hashed, processed, parsed, meta, events>>
  BY DEF SkipTag
<1>2. faults' \in Nat
  BY <1>0, <1>1 DEF TablesOK
<1>3. ASSUME RunMoves(r), RunInv(r)', failed' = failed PROVE DaemonInv' /\ Kept
  BY <1>0, <1>1, <1>2, <1>3, QuietStepInv DEF TablesOK
<1>4. CASE run[r].pc = "read"
  <2>1. failed' = failed
    BY <1>4 DEF SkipTag
  <2>2. PICK t \in run[r].todo : Proceed(r, AfterTag(run[r].todo \ {t}, run[r].done),
                                         run[r].todo \ {t}, run[r].done)
    BY <1>4 DEF SkipTag
  <2>3. PICK pc : pc = AfterTag(run[r].todo \ {t}, run[r].done)
                  /\ pc \in {"idle", "read", "list"}
    BY DEF AfterTag
  <2>4. /\ RunMoves(r) /\ run'[r].pc = pc
        /\ run'[r].todo = run[r].todo \ {t} /\ run'[r].done = run[r].done
    BY <1>0, <2>2, <2>3, ProceedMoves
  <2>5. \A u \in run'[r].todo \cup run'[r].done : Pushed(u)'
    BY <1>0, <1>1, <2>4 DEF RunInv, RunTags, Pushed, registry
  <2>6. RunInv(r)'
    BY <2>3, <2>4, <2>5, ProceedInv DEF RunHashed, Comparing
  <2> QED
    BY <1>3, <2>1, <2>4, <2>6
<1>5. CASE run[r].pc = "list"
  <2>1. failed' = failed /\ Proceed(r, "idle", {}, {})
    BY <1>5 DEF SkipTag
  <2>2. RunMoves(r) /\ run'[r].pc = "idle" /\ run'[r].todo = {} /\ run'[r].done = {}
    BY <1>0, <2>1, ProceedMoves
  <2>3. RunInv(r)'
    BY <2>2, ProceedInv DEF RunHashed, Comparing
  <2> QED
    BY <1>3, <2>1, <2>2, <2>3
<1>6. CASE run[r].pc = "hash"
  <2>1. PICK t \in run[r].todo :
          /\ Proceed(r, HashOrDetect(run[r].todo \ {t}), run[r].todo \ {t}, run[r].done)
          /\ failed' = [failed EXCEPT !.hash = @ \cup {t}]
    BY <1>6 DEF SkipTag
  <2>2. /\ failed' \in [read : SUBSET Tag, hash : SUBSET Tag, late : SUBSET Tag] /\ t \in failed'.hash
        /\ failed.read \subseteq failed'.read /\ failed.hash \subseteq failed'.hash
        /\ failed.late \subseteq failed'.late
    BY <1>0, <2>1 DEF TablesOK
  <2>3. HashNext(r, t)
    BY <2>1 DEF HashNext
  <2> QED
    BY <1>0, <1>1, <1>2, <1>6, <2>2, <2>3, HashNextInv DEF TablesOK
<1>7. CASE run[r].pc \in {"detect"} \cup Comparing
  <2>1. failed' = failed
    BY <1>7 DEF SkipTag, Comparing
  <2>2. PICK t : Proceed(r, AfterDetect(run[r].done \ {t}), {}, run[r].done \ {t})
    BY <1>7 DEF SkipTag, Comparing
  <2>3. RunMoves(r) /\ RunInv(r)'
    BY <1>1, <1>7, <2>1, <2>2, DetectNextInv
  <2> QED
    BY <1>3, <2>1, <2>3
<1> QED
  BY <1>4, <1>5, <1>6, <1>7 DEF SkipTag, Comparing

LEMMA ExitInv ==
  ASSUME DaemonInv, Exit
  PROVE  DaemonInv' /\ Kept
<1>0. TablesOK
  BY TypeParts
<1>1. /\ faults' = faults + 1 /\ run' = [r \in Run |-> IdleRun]
      /\ UNCHANGED <<registry, hashed, processed, parsed, meta, events, failed>>
  BY DEF Exit
<1>2. KeysUnique'
  BY <1>1 DEF DaemonInv, KeysUnique
<1>3. faults' \in Nat
  BY <1>0, <1>1 DEF TablesOK
<1>4. TablesOK' /\ Kept /\ FilesFrom' /\ ParsedFrom' /\ ProcessedFrom'
  BY <1>0, <1>1, <1>2, <1>3, TablesKept DEF TablesOK, registry
<1>5. run' \in [Run -> RunState] /\ \A r \in Run : RunInv(r)'
  <2>1. \A r \in Run : run'[r].pc = "idle" /\ run'[r].todo = {} /\ run'[r].done = {}
    BY <1>1, IdleRunState
  <2>2. run' \in [Run -> RunState]
    BY <1>1, IdleRunState
  <2> QED
    BY <2>1, <2>2, ProceedInv DEF RunHashed, Comparing
<1> QED
  BY <1>1, <1>2, <1>4, <1>5, InvFromParts

-----------------------------------------------------------------------------
(* The daemon over PostgreSQL.                                             *)

LEMMA InitDaemonInv == Init => DaemonInv
<1> SUFFICES ASSUME Init PROVE DaemonInv
  OBVIOUS
<1>1. TypeOK
  <2>1. run \in [Run -> RunState] /\ \A r \in Run : run[r].pc = "idle"
    BY IdleRunState DEF Init
  <2>2. \A r \in Run :
          /\ run[r].pc \notin {"save", "current", "previous", "save events"}
    BY <2>1
  <2>3. TablesOK
    BY EmptyMap DEF Init, TablesOK
  <2> QED
    BY <2>1, <2>2, <2>3 DEF TypeOK, TablesOK
<1>2. FilesFrom /\ ParsedFrom
  BY EmptyMap DEF Init, FilesFrom, ParsedFrom, PartOf
<1>3. ProcessedFrom /\ EventsFrom /\ KeysUnique
  BY DEF Init, ProcessedFrom, EventsFrom, KeysUnique
<1>4. ASSUME NEW r \in Run PROVE RunInv(r)
  <2>1. run[r].pc = "idle" /\ run[r].todo = {} /\ run[r].done = {}
    BY IdleRunState DEF Init
  <2> QED
    BY <2>1 DEF RunInv, RunTags, RunFiles, RunHashed, Comparing, Compared
<1> QED
  BY <1>1, <1>2, <1>3, <1>4 DEF DaemonInv

LEMMA StutterInv ==
  ASSUME DaemonInv, UNCHANGED vars
  PROVE  DaemonInv' /\ Kept
<1>0. TablesOK /\ run \in [Run -> RunState]
  BY TypeParts
<1>1. KeysUnique'
  BY DEF DaemonInv, KeysUnique, vars
<1>2. TablesOK' /\ Kept /\ FilesFrom' /\ ParsedFrom' /\ ProcessedFrom'
  BY <1>0, <1>1, TablesKept DEF TablesOK, vars
<1> QED
  BY <1>0, <1>1, <1>2, InvFromParts DEF vars

LEMMA NextDaemonInv ==
  ASSUME DaemonInv, [Next]_vars
  PROVE  DaemonInv' /\ Kept
<1>1. CASE Service
  BY <1>1, TickInv, BeginPushInv, CommitPushInv, RollbackPushInv, DeleteFilesInv,
     DeleteRowInv, AcknowledgeInv DEF Service
<1>2. ASSUME NEW r \in Run,
             \/ StartRun(r) \/ RunStep(r)
             \/ ReadFilesCutShort(r) \/ SaveEventsUnparsed(r) \/ SkipTag(r)
      PROVE  DaemonInv' /\ Kept
  BY <1>2, StartRunInv, ReadFilesInv, SaveParsedInv, ListUnhashedInv,
     ComputeHashesInv, SelectPreviousInv, SelectHashesInv, SaveEventsInv, SkipTagInv
     DEF RunStep
<1>3. CASE Exit
  BY <1>3, ExitInv
<1>4. CASE UNCHANGED vars
  BY <1>4, StutterInv
<1> QED
  BY <1>1, <1>2, <1>3, <1>4 DEF Next

LEMMA DaemonInvariant == Spec => []DaemonInv
<1>1. DaemonInv /\ [Next]_vars => DaemonInv'
  BY NextDaemonInv
<1> QED
  BY <1>1, InitDaemonInv, PTL DEF Spec

\* For every set of tags, files and runs the tables of the daemon stay well
\* formed, and a run has its current and its previous tag where it uses them.
THEOREM DaemonTypeCorrect == Spec => []TypeOK
<1>1. DaemonInv => TypeOK
  BY DEF DaemonInv
<1> QED
  BY <1>1, DaemonInvariant, PTL

\* For any number of overlapping runs, errors and crashes a tag that is marked
\* processed has its metadata and the parsed form of all its files, but for a
\* delete or a read that broke off unnoticed.
THEOREM ProcessedTagsParsed == Spec => []ProcessedIsParsed
<1>1. DaemonInv => ProcessedIsParsed
  BY DEF DaemonInv, ProcessedFrom, ProcessedIsParsed
<1> QED
  BY <1>1, DaemonInvariant, PTL

\* An event of a tag that has its row is true of the pushed files.
LEMMA TruthfulIsTrue ==
  ASSUME DaemonInv, NEW e \in events, HasRow(e.tag_id)
  PROVE  LET t == e.tag_id
             f == e.filename
             older == {p \in Tag \ {t} : /\ ModuleOf[p] = ModuleOf[t]
                                         /\ Earlier(updated_at[p], updated_at[t])}
         IN  /\ e.event_type = EventType(e.previous_hash, e.current_hash)
             /\ e.previous_hash # e.current_hash
             /\ \/ e.current_hash = pushed[t][f]
                \/ /\ e.current_hash = NoFile
                   /\ stage[t] = "fileless" \/ t \in failed.hash
             /\ \E p \in older :
                  \/ e.previous_hash = pushed[p][f]
                  \/ /\ e.previous_hash = NoFile
                     /\ \/ stage[p] \in {"fileless", "gone"}
                        \/ p \in failed.hash \cup failed.late
<1>1. TruthfulEvent(e)
  BY DEF DaemonInv, EventsFrom
<1>2. PICK p \in Tag : /\ OlderTag(p, e.tag_id)
                       /\ OlderContent(p, e.filename, e.previous_hash)
  BY <1>1 DEF TruthfulEvent
<1>3. p \in {q \in Tag \ {e.tag_id} : /\ ModuleOf[q] = ModuleOf[e.tag_id]
                                       /\ Earlier(updated_at[q], updated_at[e.tag_id])}
  BY <1>2 DEF OlderTag
<1>4. \/ e.previous_hash = pushed[p][e.filename]
      \/ /\ e.previous_hash = NoFile
         /\ stage[p] \in {"fileless", "gone"} \/ p \in failed.hash \cup failed.late
  BY <1>2 DEF OlderTag, OlderContent, Pushed
<1> QED
  BY <1>1, <1>3, <1>4 DEF TruthfulEvent, HasRow

LEMMA NextEventsHaveRow ==
  ASSUME DaemonInv, EventsHaveRow, [Next]_vars
  PROVE  EventsHaveRow'
<1>0. TablesOK /\ \A e \in events : e.tag_id \in Tag
  BY TypeParts DEF TablesOK, EventRow
<1>1. ASSUME NEW t \in Tag,
             \/ BeginPush(t) \/ CommitPush(t) \/ RollbackPush(t) \/ DeleteFiles(t)
      PROVE  EventsHaveRow'
  BY <1>0, <1>1 DEF BeginPush, CommitPush, RollbackPush, DeleteFiles, EventsHaveRow,
     HasRow, TablesOK
<1>2. ASSUME NEW t \in Tag, DeleteRow(t) PROVE EventsHaveRow'
  BY <1>0, <1>2 DEF DeleteRow, EventsHaveRow, HasRow, TablesOK
<1>3. ASSUME NEW e \in events, Acknowledge(e) PROVE EventsHaveRow'
  <2>1. e \in EventRow
    BY <1>0 DEF TablesOK
  <2>2. [e EXCEPT !.acknowledged = TRUE].tag_id = e.tag_id
    BY <2>1 DEF EventRow
  <2> QED
    BY <1>3, <2>2 DEF Acknowledge, EventsHaveRow, HasRow, registry
<1>4. ASSUME NEW r \in Run, SaveEvents(r) \/ SaveEventsUnparsed(r) PROVE EventsHaveRow'
  <2>1. PICK new : Insertable(r, new) /\ (events' = events \/ events' = Insert(new))
    BY <1>4, SaveEventsShape
  <2>2. stage' = stage
    BY <1>4, SaveEventsShape DEF registry
  <2>3. HasRow(run[r].cur) \/ events' = events
    BY <1>4 DEF SaveEvents, SaveEventsUnparsed, SaveDriftEvents
  <2>4. ASSUME NEW e \in events' PROVE HasRow(e.tag_id)
    BY <2>1, <2>3 DEF Insertable, Insert, EventsHaveRow
  <2> QED
    BY <2>2, <2>4 DEF EventsHaveRow, HasRow
<1>5. ASSUME NEW r \in Run, ReadFiles(r) \/ ReadFilesCutShort(r) \/ SaveParsed(r)
             \/ ListUnhashed(r) \/ ComputeHashes(r) \/ SelectPrevious(r)
             \/ SelectCurrentHashes(r) \/ SelectPreviousHashes(r) \/ StartRun(r)
             \/ SkipTag(r)
      PROVE  events' = events /\ stage' = stage
  BY <1>5 DEF ReadFiles, ReadFilesCutShort, SaveParsed, ListUnhashed, ComputeHashes,
     SelectPrevious, SelectCurrentHashes, SelectPreviousHashes, StartRun, SkipTag, registry
<1>6. ASSUME Exit \/ Tick \/ UNCHANGED vars PROVE events' = events /\ stage' = stage
  BY <1>6 DEF Exit, Tick, registry, vars
<1>7. events' = events /\ stage' = stage => EventsHaveRow'
  BY DEF EventsHaveRow, HasRow
<1> QED
  BY <1>1, <1>2, <1>3, <1>4, <1>5, <1>6, <1>7 DEF Next, Service, RunStep

\* For any interleaving of pushes, deletes and runs, an event says what is true
\* of the pushed files of its tag and of an older one.  A false "added" or
\* "deleted" has one of the causes that EventsTruthful names: a delete, hashes
\* that could not be stored, or an older tag committed behind the list of a run.
THEOREM EventsAreTruthful == Spec => []EventsTruthful
<1>1. Init => EventsHaveRow
  BY DEF Init, EventsHaveRow
<1>2. DaemonInv /\ EventsHaveRow /\ [Next]_vars => EventsHaveRow'
  BY NextEventsHaveRow
<1>3. DaemonInv /\ EventsHaveRow => EventsTruthful
  BY TruthfulIsTrue DEF EventsTruthful, EventsHaveRow
<1> QED
  BY <1>1, <1>2, <1>3, DaemonInvariant, PTL DEF Spec

\* However often the daemon is run again, it opens no acknowledged event again:
\* the keys stay unique and an INSERT leaves the rows that are there.
THEOREM AcknowledgedEventsStay == Spec => AcknowledgedStays
<1>1. ASSUME DaemonInv, [Next]_vars
      PROVE  [\A e \in events : e.acknowledged =>
                 \/ stage'[e.tag_id] = "gone"
                 \/ /\ e \in events'
                    /\ \A n \in events' : Key(n) = Key(e) => n.acknowledged]_vars
  <2> SUFFICES ASSUME NEW e \in events, e.acknowledged, stage'[e.tag_id] # "gone"
               PROVE  /\ e \in events'
                      /\ \A n \in events' : Key(n) = Key(e) => n.acknowledged
    OBVIOUS
  <2>0. TablesOK /\ e \in EventRow /\ e.tag_id \in Tag /\ KeysUnique
    BY <1>1, TypeParts DEF TablesOK, EventRow, DaemonInv
  <2>1. CASE events' = events
    BY <2>0, <2>1 DEF KeysUnique
  <2>2. ASSUME NEW t \in Tag, DeleteRow(t) PROVE e \in events' /\ events' \subseteq events
    BY <2>0, <2>2 DEF DeleteRow, TablesOK
  <2>3. ASSUME NEW d \in events, Acknowledge(d)
        PROVE  /\ e \in events'
               /\ \A n \in events' : Key(n) = Key(e) => n.acknowledged
    <3>1. [d EXCEPT !.acknowledged = TRUE].acknowledged
      BY <2>0 DEF TablesOK, EventRow
    <3> QED
      BY <2>0, <2>3, <3>1 DEF Acknowledge, KeysUnique
  <2>4. ASSUME NEW r \in Run, SaveEvents(r) \/ SaveEventsUnparsed(r)
        PROVE  /\ e \in events'
               /\ \A n \in events' : Key(n) = Key(e) => n.acknowledged
    <3>1. PICK new : events' = events \/ events' = Insert(new)
      BY <1>1, <2>4, SaveEventsShape
    <3> QED
      BY <2>0, <3>1 DEF Insert, KeysUnique
  <2>5. \/ events' = events
        \/ \E t \in Tag : DeleteRow(t)
        \/ \E d \in events : Acknowledge(d)
        \/ \E r \in Run : SaveEvents(r) \/ SaveEventsUnparsed(r)
    <3>1. CASE Service
      BY <3>1 DEF Service, Tick, BeginPush, CommitPush, RollbackPush, DeleteFiles
    <3>2. ASSUME NEW r \in Run, ReadFiles(r) \/ ReadFilesCutShort(r) \/ SaveParsed(r)
                 \/ ListUnhashed(r) \/ ComputeHashes(r) \/ SelectPrevious(r)
                 \/ SelectCurrentHashes(r) \/ SelectPreviousHashes(r) \/ StartRun(r)
                 \/ SkipTag(r)
          PROVE  events' = events
      BY <3>2 DEF ReadFiles, ReadFilesCutShort, SaveParsed, ListUnhashed,
         ComputeHashes, SelectPrevious, SelectCurrentHashes, SelectPreviousHashes,
         StartRun, SkipTag
    <3>3. CASE Exit \/ UNCHANGED vars
      BY <3>3 DEF Exit, vars
    <3> QED
      BY <1>1, <3>1, <3>2, <3>3 DEF Next, RunStep
  <2> QED
    BY <2>0, <2>1, <2>2, <2>3, <2>4, <2>5 DEF KeysUnique
<1> QED
  BY <1>1, DaemonInvariant, PTL DEF Spec, AcknowledgedStays

-----------------------------------------------------------------------------
(* The lock and the snapshots of SqliteDaemon.                             *)

StoreTypeOK ==
  /\ writer \in Tag \cup Run \cup {None}
  /\ snapshot \in [Run -> [tag : Tag \cup {None}, stale : BOOLEAN]]

PushLock == \A t \in Tag : stage[t] = "begun" <=> writer = t

\* A run that has the lock is saving, or hashing what is still as it read it.
RunLock(r) ==
  writer = r => /\ run[r].pc \in {"save", "hash"}
                /\ run[r].pc = "hash" => snapshot[r].tag # None /\ ~snapshot[r].stale

SnapshotFrom(r) ==
  LET t == snapshot[r].tag
  IN  /\ snapshot[r].stale => t # None
      /\ t # None => run[r].pc = "hash" /\ t \in run[r].todo
      /\ t # None /\ ~snapshot[r].stale => files[t] # Empty /\ t \notin hashed

StoreInv ==
  /\ DaemonInv /\ StoreTypeOK /\ PushLock
  /\ \A r \in Run : RunLock(r) /\ SnapshotFrom(r)

LEMMA SnapshotTypes ==
  ASSUME StoreTypeOK, NEW r \in Run
  PROVE  /\ snapshot[r] \in [tag : Tag \cup {None}, stale : BOOLEAN]
         /\ snapshot[r].tag \in Tag \cup {None}
         /\ snapshot[r].stale \in BOOLEAN
         /\ NoSnapshot \in [tag : Tag \cup {None}, stale : BOOLEAN]
         /\ NoSnapshot.tag = None /\ NoSnapshot.stale = FALSE
  BY DEF StoreTypeOK, NoSnapshot

\* A commit of somebody else: nothing is current any more.
LEMMA OvertakenSnapshot ==
  ASSUME StoreTypeOK, NEW r \in Run
  PROVE  /\ Overtaken(r) \in [tag : Tag \cup {None}, stale : BOOLEAN]
         /\ Overtaken(r).tag = snapshot[r].tag
         /\ Overtaken(r).stale <=> snapshot[r].stale \/ snapshot[r].tag # None
<1>1. /\ snapshot[r] \in [tag : Tag \cup {None}, stale : BOOLEAN]
      /\ snapshot[r].tag \in Tag \cup {None} /\ snapshot[r].stale \in BOOLEAN
  BY SnapshotTypes
<1>2. PICK b \in BOOLEAN : b = (snapshot[r].stale \/ snapshot[r].tag # None)
  BY <1>1
<1>3. Overtaken(r) = [snapshot[r] EXCEPT !.stale = b]
  BY <1>2 DEF Overtaken
<1> QED
  BY <1>1, <1>2, <1>3

\* A run that is neither saving nor hashing has no transaction.
LEMMA NoTransaction ==
  ASSUME StoreInv, NEW r \in Run,
         run[r].pc \notin {"save", "hash"} \/ (run[r].pc = "hash" /\ snapshot[r].tag = None)
  PROVE  writer # r /\ snapshot[r].tag = None /\ snapshot[r].stale = FALSE
<1>1. RunLock(r) /\ SnapshotFrom(r) /\ snapshot[r].stale \in BOOLEAN
  BY SnapshotTypes DEF StoreInv
<1> QED
  BY <1>1 DEF RunLock, SnapshotFrom

\* Only run r moves, if any does.
OnlyRun(r) == \A q \in Run \ {r} : run'[q] = run[q]

\* A statement that writes nothing leaves the others alone.
LEMMA ReadOnlyInv ==
  ASSUME StoreInv, DaemonInv', NEW r \in Run, OnlyRun(r),
         run'[r] = run[r] \/ (writer # r /\ snapshot[r].tag = None),
         UNCHANGED <<writer, snapshot, stage, files, hashed>>
  PROVE  StoreInv'
<1>1. StoreTypeOK' /\ PushLock'
  BY DEF StoreInv, StoreTypeOK, PushLock
<1>2. ASSUME NEW q \in Run PROVE RunLock(q)' /\ SnapshotFrom(q)'
  <2>1. RunLock(q) /\ SnapshotFrom(q)
    BY DEF StoreInv
  <2>2. CASE run'[q] = run[q]
    BY <2>1, <2>2 DEF RunLock, SnapshotFrom
  <2>3. CASE run'[q] # run[q]
    BY <2>1, <2>3 DEF RunLock, SnapshotFrom, OnlyRun
  <2> QED
    BY <2>2, <2>3
<1> QED
  BY <1>1, <1>2 DEF StoreInv

\* After a commit of somebody else no snapshot is current.
LEMMA OvertakenFrom ==
  ASSUME StoreInv, NEW q \in Run, snapshot'[q] = Overtaken(q),
         run'[q] = run[q] \/ snapshot[q].tag = None
  PROVE  SnapshotFrom(q)'
<1>1. /\ SnapshotFrom(q) /\ snapshot'[q].tag = snapshot[q].tag
      /\ snapshot'[q].stale <=> snapshot[q].stale \/ snapshot[q].tag # None
  BY OvertakenSnapshot DEF StoreInv
<1> QED
  BY <1>1 DEF SnapshotFrom

LEMMA AutoCommitInv ==
  ASSUME StoreInv, AutoCommit, DaemonInv',
         \A t \in Tag : stage'[t] = "begun" <=> stage[t] = "begun",
         \A q \in Run : run'[q] = run[q] \/ run[q].pc \notin {"save", "hash"}
  PROVE  StoreInv'
<1>1. /\ writer = None /\ writer' = None
      /\ snapshot' = [r \in Run |-> Overtaken(r)]
  BY DEF AutoCommit
<1>2. StoreTypeOK'
  BY <1>1, OvertakenSnapshot DEF StoreInv, StoreTypeOK
<1>3. PushLock'
  BY <1>1 DEF StoreInv, PushLock
<1>4. ASSUME NEW q \in Run PROVE RunLock(q)' /\ SnapshotFrom(q)'
  <2>1. RunLock(q)'
    BY <1>1, WriterAssumption DEF RunLock
  <2>2. run'[q] = run[q] \/ snapshot[q].tag = None
    BY NoTransaction
  <2> QED
    BY <1>1, <2>1, <2>2, OvertakenFrom
<1> QED
  BY <1>2, <1>3, <1>4 DEF StoreInv

\* A transaction of run r ends, by COMMIT or by ROLLBACK.
LEMMA EndOfTransaction ==
  ASSUME StoreInv, DaemonInv', NEW r \in Run, OnlyRun(r),
         \/ Commit(r)
         \/ Rollback(r) /\ UNCHANGED hashed,
         UNCHANGED <<stage, files>>
  PROVE  StoreInv'
<1>1. /\ writer' = IF writer = r THEN None ELSE writer
      /\ snapshot' \in [Run -> {NoSnapshot} \cup {Overtaken(q) : q \in Run} \cup {snapshot[q] : q \in Run}]
      /\ snapshot'[r] = NoSnapshot
      /\ \A q \in Run \ {r} : \/ snapshot'[q] = Overtaken(q)
                              \/ snapshot'[q] = snapshot[q] /\ hashed' = hashed
  BY DEF Commit, Rollback
<1>2. StoreTypeOK'
  BY <1>1, OvertakenSnapshot, SnapshotTypes DEF StoreInv, StoreTypeOK
<1>3. PushLock'
  BY <1>1, WriterAssumption, TagAssumption DEF StoreInv, PushLock
<1>4. SnapshotFrom(r)' /\ RunLock(r)'
  BY <1>1, SnapshotTypes, WriterAssumption DEF SnapshotFrom, RunLock, StoreInv
<1>5. ASSUME NEW q \in Run \ {r} PROVE RunLock(q)' /\ SnapshotFrom(q)'
  <2>1. RunLock(q) /\ SnapshotFrom(q) /\ run'[q] = run[q]
    BY DEF StoreInv, OnlyRun
  <2>2. CASE snapshot'[q] = Overtaken(q) /\ Commit(r)
    <3>1. writer' # q
      BY <1>1, <2>2, WriterAssumption DEF Commit
    <3> QED
      BY <2>1, <2>2, <3>1, OvertakenFrom DEF RunLock
  <2>3. CASE snapshot'[q] = snapshot[q] /\ hashed' = hashed
    BY <1>1, <2>1, <2>3, WriterAssumption DEF RunLock, SnapshotFrom
  <2> QED
    BY <1>1, <2>2, <2>3 DEF Commit, Rollback
<1> QED
  BY <1>2, <1>3, <1>4, <1>5 DEF StoreInv

LEMMA LockInv ==
  ASSUME StoreInv, NEW r \in Run, Lock(r), UNCHANGED vars,
         \/ run[r].pc = "save"
         \/ snapshot[r].tag # None /\ ~snapshot[r].stale
  PROVE  StoreInv'
<1>1. writer = None /\ writer' = r /\ snapshot' = snapshot
  BY DEF Lock
<1>2. DaemonInv'
  BY StutterInv DEF StoreInv
<1>3. StoreTypeOK'
  BY <1>1 DEF StoreInv, StoreTypeOK
<1>4. PushLock'
  BY <1>1, WriterAssumption, TagAssumption DEF StoreInv, PushLock, vars
<1>5. ASSUME NEW q \in Run PROVE RunLock(q)' /\ SnapshotFrom(q)'
  BY <1>1 DEF StoreInv, RunLock, SnapshotFrom, vars
<1> QED
  BY <1>2, <1>3, <1>4, <1>5 DEF StoreInv

LEMMA PushModuleInv ==
  ASSUME StoreInv, NEW t \in Tag, PushModule(t)
  PROVE  StoreInv'
<1>0. TablesOK /\ DaemonInv /\ StoreTypeOK /\ PushLock
  BY TypeParts DEF StoreInv
<1>1. CASE Lock(t) /\ BeginPush(t)
  <2>1. DaemonInv'
    BY <1>0, <1>1, BeginPushInv
  <2>2. /\ writer = None /\ writer' = t /\ snapshot' = snapshot
        /\ stage' = [stage EXCEPT ![t] = "begun"]
        /\ UNCHANGED <<files, hashed, run>>
    BY <1>1 DEF Lock, BeginPush
  <2>3. StoreTypeOK'
    BY <1>0, <2>2 DEF StoreTypeOK
  <2>4. PushLock'
    BY <1>0, <2>2, TagAssumption DEF PushLock, TablesOK
  <2>5. ASSUME NEW q \in Run PROVE RunLock(q)' /\ SnapshotFrom(q)'
    BY <2>2, WriterAssumption DEF StoreInv, RunLock, SnapshotFrom
  <2> QED
    BY <2>1, <2>3, <2>4, <2>5 DEF StoreInv
<1>2. CASE Commit(t) /\ CommitPush(t)
  <2>1. DaemonInv'
    BY <1>0, <1>2, CommitPushInv
  <2>2. /\ writer = t /\ writer' = None
        /\ snapshot' = [r \in Run |-> Overtaken(r)]
        /\ stage' = [stage EXCEPT ![t] = "live"] /\ UNCHANGED run
    BY <1>2, WriterAssumption DEF Commit, CommitPush
  <2>3. StoreTypeOK'
    BY <1>0, <2>2, OvertakenSnapshot DEF StoreTypeOK
  <2>4. PushLock'
    BY <1>0, <2>2, TagAssumption DEF PushLock, TablesOK
  <2>5. ASSUME NEW q \in Run PROVE RunLock(q)' /\ SnapshotFrom(q)'
    <3>1. SnapshotFrom(q)'
      BY <2>2, OvertakenFrom
    <3> QED
      BY <2>2, <3>1, WriterAssumption DEF RunLock
  <2> QED
    BY <2>1, <2>3, <2>4, <2>5 DEF StoreInv
<1>3. CASE Rollback(t) /\ RollbackPush(t)
  <2>1. DaemonInv'
    BY <1>0, <1>3, RollbackPushInv
  <2>2. /\ stage[t] = "begun" /\ stage' = [stage EXCEPT ![t] = "void"]
        /\ UNCHANGED <<files, hashed, run>>
    BY <1>3 DEF RollbackPush
  <2>3. writer = t
    BY <1>0, <2>2 DEF PushLock
  <2>4. writer' = None /\ snapshot' = [r \in Run |-> snapshot[r]]
    BY <1>3, <2>3, WriterAssumption DEF Rollback
  <2>5. StoreTypeOK'
    BY <1>0, <2>4, SnapshotTypes DEF StoreTypeOK
  <2>6. PushLock'
    BY <1>0, <2>2, <2>3, <2>4, TagAssumption DEF PushLock, TablesOK
  <2>7. ASSUME NEW q \in Run PROVE RunLock(q)' /\ SnapshotFrom(q)'
    BY <2>2, <2>4, WriterAssumption DEF StoreInv, RunLock, SnapshotFrom
  <2> QED
    BY <2>1, <2>5, <2>6, <2>7 DEF StoreInv
<1> QED
  BY <1>1, <1>2, <1>3 DEF PushModule

LEMMA DeleteModuleTagInv ==
  ASSUME StoreInv, NEW t \in Tag, DeleteModuleTag(t)
  PROVE  StoreInv'
<1>0. TablesOK /\ DaemonInv
  BY TypeParts DEF StoreInv
<1>1. AutoCommit /\ (DeleteFiles(t) \/ DeleteRow(t) \/ DeleteRowUncascaded(t))
  BY DEF DeleteModuleTag
<1>2. DaemonInv'
  BY <1>0, <1>1, DeleteFilesInv, DeleteRowInv
<1>3. run' = run /\ \A u \in Tag : stage'[u] = "begun" <=> stage[u] = "begun"
  BY <1>0, <1>1 DEF DeleteFiles, DeleteRow, DeleteRowUncascaded, TablesOK
<1> QED
  BY <1>1, <1>2, <1>3, AutoCommitInv

LEMMA AcknowledgeDriftEventInv ==
  ASSUME StoreInv, NEW e \in events, AcknowledgeDriftEvent(e)
  PROVE  StoreInv'
<1>1. AutoCommit /\ Acknowledge(e) /\ DaemonInv
  BY DEF AcknowledgeDriftEvent, StoreInv
<1>2. DaemonInv' /\ run' = run /\ stage' = stage
  BY <1>1, AcknowledgeInv DEF Acknowledge, registry
<1> QED
  BY <1>1, <1>2, AutoCommitInv

LEMMA ProceedOnly ==
  ASSUME run \in [Run -> RunState], NEW r \in Run, NEW pc, NEW todo, NEW done,
         Proceed(r, pc, todo, done)
  PROVE  OnlyRun(r)
  BY DEF Proceed, OnlyRun

LEMMA SelectStatementInv ==
  ASSUME StoreInv, NEW r \in Run,
         \/ GetUnprocessedTagIds(r) \/ GetProtoFilesForTagId(r)
         \/ GetTagsWithoutHashes(r) \/ GetPreviousTagID(r) \/ GetFileHashesForTag(r)
  PROVE  StoreInv'
<1>0. TablesOK /\ DaemonInv /\ run \in [Run -> RunState]
  BY TypeParts DEF StoreInv
<1>1. /\ UNCHANGED <<writer, snapshot>>
      /\ \/ StartRun(r) \/ ReadFiles(r) \/ ReadFilesCutShort(r) \/ ListUnhashed(r)
         \/ SelectPrevious(r) \/ SelectCurrentHashes(r) \/ SelectPreviousHashes(r)
  BY DEF GetUnprocessedTagIds, GetProtoFilesForTagId, GetTagsWithoutHashes,
     GetPreviousTagID, GetFileHashesForTag, Select, svars
<1>2. DaemonInv'
  BY <1>0, <1>1, StartRunInv, ReadFilesInv, ListUnhashedInv, SelectPreviousInv,
     SelectHashesInv
<1>3. /\ run[r].pc \notin {"save", "hash"} /\ UNCHANGED <<stage, files, hashed>>
  BY <1>1 DEF StartRun, ReadFiles, ReadFilesCutShort, ListUnhashed, SelectPrevious,
     SelectCurrentHashes, SelectPreviousHashes, registry
<1>4. OnlyRun(r)
  <2>1. CASE StartRun(r) \/ ListUnhashed(r)
    BY <1>0, <2>1, ProceedOnly DEF StartRun, ListUnhashed
  <2>2. CASE ReadFiles(r) \/ ReadFilesCutShort(r) \/ SelectCurrentHashes(r)
             \/ SelectPreviousHashes(r)
    BY <1>0, <2>2 DEF ReadFiles, ReadFilesCutShort, SelectCurrentHashes,
       SelectPreviousHashes, OnlyRun
  <2>3. CASE SelectPrevious(r)
    <3>1. PICK t \in run[r].done :
            \/ Proceed(r, AfterDetect(run[r].done \ {t}), {}, run[r].done \ {t})
            \/ \E p \in Previous(t) :
                 run' = [run EXCEPT ![r].pc = "current", ![r].cur = t, ![r].prev = p]
      BY <2>3 DEF SelectPrevious
    <3> QED
      BY <1>0, <3>1, ProceedOnly DEF OnlyRun
  <2> QED
    BY <1>1, <2>1, <2>2, <2>3
<1>5. writer # r /\ snapshot[r].tag = None
  BY <1>3, NoTransaction
<1> QED
  BY <1>1, <1>2, <1>3, <1>4, <1>5, ReadOnlyInv

LEMMA SaveParsedProtoFilesInv ==
  ASSUME StoreInv, NEW r \in Run, SaveParsedProtoFiles(r)
  PROVE  StoreInv'
<1>0. DaemonInv /\ run \in [Run -> RunState]
  BY TypeParts DEF StoreInv
<1>1. CASE run[r].pc = "save" /\ Lock(r) /\ UNCHANGED vars
  BY <1>1, LockInv
<1>2. CASE Commit(r) /\ SaveParsed(r)
  <2>1. DaemonInv' /\ UNCHANGED <<stage, files>>
    BY <1>0, <1>2, SaveParsedInv DEF SaveParsed, registry
  <2>2. OnlyRun(r)
    BY <1>0, <1>2, ProceedOnly DEF SaveParsed
  <2> QED
    BY <1>2, <2>1, <2>2, EndOfTransaction
<1> QED
  BY <1>1, <1>2 DEF SaveParsedProtoFiles

LEMMA InsertDriftEventsInv ==
  ASSUME StoreInv, NEW r \in Run, InsertDriftEvents(r)
  PROVE  StoreInv'
<1>0. DaemonInv /\ run \in [Run -> RunState]
  BY TypeParts DEF StoreInv
<1>1. AutoCommit /\ (SaveEvents(r) \/ SaveEventsUnparsed(r) \/ SaveOrphanEvents(r))
  BY DEF InsertDriftEvents
<1>2. DaemonInv'
  BY <1>0, <1>1, SaveEventsInv
<1>3. /\ run[r].pc = "save events" /\ UNCHANGED registry
      /\ Proceed(r, AfterDetect(run[r].done \ {run[r].cur}), {},
                 run[r].done \ {run[r].cur})
  BY <1>0, <1>1, SaveEventsShape
<1>4. OnlyRun(r) /\ stage' = stage
  BY <1>0, <1>3, ProceedOnly DEF registry
<1>5. \A q \in Run : run'[q] = run[q] \/ run[q].pc \notin {"save", "hash"}
  BY <1>3, <1>4 DEF OnlyRun
<1> QED
  BY <1>1, <1>2, <1>4, <1>5, AutoCommitInv

\* A run that gives up its snapshot, or commits what it has computed from it.
LEMMA HashTransaction ==
  ASSUME StoreInv, NEW r \in Run, BusySnapshot(r) \/ CommitHashes(r)
  PROVE  /\ run[r].pc = "hash" /\ snapshot[r].tag \in run[r].todo
         /\ HashNext(r, snapshot[r].tag)
         /\ CommitHashes(r) => files[snapshot[r].tag] # Empty
<1>1. /\ RunLock(r) /\ SnapshotFrom(r) /\ snapshot[r].tag \in Tag \cup {None}
      /\ HashNext(r, snapshot[r].tag)
  BY SnapshotTypes DEF StoreInv, BusySnapshot, CommitHashes
<1>2. CASE BusySnapshot(r) /\ ~CommitHashes(r)
  BY <1>1, <1>2 DEF BusySnapshot, SnapshotFrom
<1>3. CASE CommitHashes(r)
  <2>1. writer = r /\ run[r].pc = "hash"
    BY <1>3 DEF CommitHashes, Commit
  <2> QED
    BY <1>1, <1>3, <2>1 DEF RunLock, SnapshotFrom
<1> QED
  BY <1>2, <1>3

LEMMA ComputeAndStoreHashesInv ==
  ASSUME StoreInv, NEW r \in Run, ComputeAndStoreHashes(r)
  PROVE  StoreInv'
<1>0. /\ TablesOK /\ DaemonInv /\ StoreTypeOK /\ run \in [Run -> RunState]
      /\ run[r].todo \subseteq Tag
  BY TypeParts, RunFacts DEF StoreInv
<1>1. CASE SelectUnhashed(r)
  <2>1. run[r].pc = "hash" /\ snapshot[r].tag = None
    BY <1>1 DEF SelectUnhashed
  <2>2. writer # r /\ snapshot[r].stale = FALSE
    BY <2>1, NoTransaction
  <2>3. PICK t \in run[r].todo :
          \/ /\ files[t] # Empty /\ t \notin hashed
             /\ snapshot' = [snapshot EXCEPT ![r].tag = t]
             /\ UNCHANGED <<vars, writer>>
          \/ /\ files[t] = Empty \/ t \in hashed
             /\ HashNext(r, t)
             /\ UNCHANGED <<registry, hashed, processed, parsed, meta, events,
                            faults, failed, svars>>
    BY <1>1 DEF SelectUnhashed
  <2>4. CASE snapshot' = [snapshot EXCEPT ![r].tag = t] /\ UNCHANGED <<vars, writer>>
             /\ files[t] # Empty /\ t \notin hashed
    <3>1. DaemonInv'
      BY <1>0, <2>4, StutterInv
    <3>2. /\ StoreTypeOK' /\ snapshot'[r].tag = t /\ snapshot'[r].stale = FALSE
          /\ \A q \in Run \ {r} : snapshot'[q] = snapshot[q]
      BY <1>0, <2>2, <2>4, SnapshotTypes DEF StoreTypeOK
    <3>3. PushLock'
      BY <2>4 DEF StoreInv, PushLock, vars
    <3>4. RunLock(r)' /\ SnapshotFrom(r)'
      BY <2>1, <2>2, <2>3, <2>4, <3>2 DEF RunLock, SnapshotFrom, vars
    <3>5. ASSUME NEW q \in Run \ {r} PROVE RunLock(q)' /\ SnapshotFrom(q)'
      BY <2>4, <3>2 DEF StoreInv, RunLock, SnapshotFrom, vars
    <3> QED
      BY <3>1, <3>2, <3>3, <3>4, <3>5 DEF StoreInv
  <2>5. CASE /\ files[t] = Empty \/ t \in hashed
             /\ HashNext(r, t)
             /\ UNCHANGED <<registry, hashed, processed, parsed, meta, events,
                            faults, failed, svars>>
    <3>1. DaemonInv'
      BY <1>0, <2>1, <2>5, HashNextInv DEF TablesOK
    <3>2. OnlyRun(r)
      BY <1>0, <2>5, ProceedOnly DEF HashNext
    <3> QED
      BY <2>1, <2>2, <2>5, <3>1, <3>2, ReadOnlyInv DEF registry, svars
  <2> QED
    BY <2>3, <2>4, <2>5
<1>2. CASE UpdateHashes(r)
  BY <1>2, LockInv DEF UpdateHashes
<1>3. CASE BusySnapshot(r)
  <2>1. PICK t : t = snapshot[r].tag
    OBVIOUS
  <2>2. run[r].pc = "hash" /\ t \in run[r].todo /\ HashNext(r, t)
    BY <1>3, <2>1, HashTransaction
  <2>3. /\ Rollback(r) /\ faults' = faults + 1
        /\ failed' = [failed EXCEPT !.hash = @ \cup {t}]
        /\ UNCHANGED <<registry, hashed, processed, parsed, meta, events>>
    BY <1>3, <2>1 DEF BusySnapshot
  <2>4. /\ failed' \in [read : SUBSET Tag, hash : SUBSET Tag, late : SUBSET Tag] /\ t \in failed'.hash
        /\ failed.read \subseteq failed'.read /\ failed.hash \subseteq failed'.hash
        /\ failed.late \subseteq failed'.late
    BY <1>0, <2>2, <2>3 DEF TablesOK
  <2>5. faults' \in Nat
    BY <1>0, <2>3 DEF TablesOK
  <2>6. DaemonInv'
    BY <1>0, <2>2, <2>3, <2>4, <2>5, HashNextInv DEF TablesOK
  <2>7. OnlyRun(r)
    BY <1>0, <2>2, ProceedOnly DEF HashNext
  <2> QED
    BY <2>3, <2>6, <2>7, EndOfTransaction DEF registry
<1>4. CASE CommitHashes(r)
  <2>1. PICK t : t = snapshot[r].tag
    OBVIOUS
  <2>2. run[r].pc = "hash" /\ t \in run[r].todo /\ HashNext(r, t)
    BY <1>4, <2>1, HashTransaction
  <2>3. /\ Commit(r) /\ hashed' = hashed \cup {t}
        /\ UNCHANGED <<registry, processed, parsed, meta, events, faults, failed>>
    BY <1>4, <2>1 DEF CommitHashes
  <2>4. hashed \subseteq hashed' /\ hashed' \subseteq Tag /\ t \in hashed'
    BY <1>0, <2>2, <2>3 DEF TablesOK
  <2>5. DaemonInv'
    BY <1>0, <2>2, <2>3, <2>4, HashNextInv DEF TablesOK
  <2>6. OnlyRun(r)
    BY <1>0, <2>2, ProceedOnly DEF HashNext
  <2> QED
    BY <2>3, <2>5, <2>6, EndOfTransaction DEF registry
<1> QED
  BY <1>1, <1>2, <1>3, <1>4 DEF ComputeAndStoreHashes

LEMMA FailStatementInv ==
  ASSUME StoreInv, NEW r \in Run, FailStatement(r)
  PROVE  StoreInv'
<1>0. DaemonInv /\ run \in [Run -> RunState]
  BY TypeParts DEF StoreInv
<1>1. SkipTag(r) /\ Rollback(r)
  BY DEF FailStatement
<1>2. DaemonInv' /\ UNCHANGED <<stage, files, hashed>>
  BY <1>0, <1>1, SkipTagInv DEF SkipTag, registry
<1>3. OnlyRun(r)
  BY <1>0, <1>1, ProceedOnly DEF SkipTag
<1> QED
  BY <1>1, <1>2, <1>3, EndOfTransaction

LEMMA ExitProcessInv ==
  ASSUME StoreInv, ExitProcess
  PROVE  StoreInv'
<1>1. /\ Exit /\ writer' = IF writer \in Run THEN None ELSE writer
      /\ snapshot' = [r \in Run |-> NoSnapshot] /\ DaemonInv
  BY DEF ExitProcess, StoreInv
<1>2. DaemonInv' /\ stage' = stage
  BY <1>1, ExitInv DEF Exit, registry
<1>3. StoreTypeOK'
  BY <1>1, SnapshotTypes DEF StoreInv, StoreTypeOK
<1>4. PushLock'
  BY <1>1, <1>2, WriterAssumption, TagAssumption DEF StoreInv, PushLock
<1>5. ASSUME NEW q \in Run PROVE RunLock(q)' /\ SnapshotFrom(q)'
  BY <1>1, SnapshotTypes, WriterAssumption DEF StoreInv, RunLock, SnapshotFrom
<1> QED
  BY <1>2, <1>3, <1>4, <1>5 DEF StoreInv

LEMMA InitStoreInv == StoreInit => StoreInv
<1> SUFFICES ASSUME StoreInit PROVE StoreInv
  OBVIOUS
<1>1. /\ DaemonInv /\ writer = None /\ snapshot = [r \in Run |-> NoSnapshot]
      /\ stage = [t \in Tag |-> "absent"]
  BY InitDaemonInv DEF StoreInit, Init
<1>2. StoreTypeOK
  BY <1>1 DEF StoreTypeOK, NoSnapshot
<1>3. PushLock
  BY <1>1, TagAssumption DEF PushLock
<1>4. ASSUME NEW q \in Run PROVE RunLock(q) /\ SnapshotFrom(q)
  BY <1>1, <1>2, SnapshotTypes, WriterAssumption DEF RunLock, SnapshotFrom
<1> QED
  BY <1>1, <1>2, <1>3, <1>4 DEF StoreInv

LEMMA NextStoreInv == StoreInv /\ [SqliteNext]_<<vars, svars>> => StoreInv'
<1> SUFFICES ASSUME StoreInv, [SqliteNext]_<<vars, svars>> PROVE StoreInv'
  OBVIOUS
<1>0. DaemonInv
  BY DEF StoreInv
<1>1. ASSUME DaemonInv', run' = run, UNCHANGED <<writer, snapshot, stage, files, hashed>>
      PROVE  StoreInv'
  BY <1>1 DEF StoreInv, StoreTypeOK, PushLock, RunLock, SnapshotFrom
<1>2. CASE Tick /\ Select
  <2>1. DaemonInv'
    BY <1>0, <1>2, TickInv
  <2> QED
    BY <1>1, <1>2, <2>1 DEF Tick, Select, svars
<1>3. CASE UNCHANGED <<vars, svars>>
  <2>1. DaemonInv'
    BY <1>0, <1>3, StutterInv
  <2> QED
    BY <1>1, <1>3, <2>1 DEF vars, svars
<1>4. ASSUME NEW r \in Run, GetUnprocessedTagIds(r) \/ SqliteRunStep(r) \/ FailStatement(r)
      PROVE  StoreInv'
  BY <1>4, SelectStatementInv, SaveParsedProtoFilesInv, ComputeAndStoreHashesInv,
     InsertDriftEventsInv, FailStatementInv DEF SqliteRunStep
<1> QED
  BY <1>2, <1>3, <1>4, PushModuleInv, DeleteModuleTagInv, AcknowledgeDriftEventInv,
     ExitProcessInv DEF SqliteNext

LEMMA StoreInvariant == StoreSpec => []StoreInv
  BY InitStoreInv, NextStoreInv, PTL DEF StoreSpec

\* For any number of runs the one write lock of SQLite is held only by a push
\* that has begun or by a run that is saving or hashing, so that it comes free.
THEOREM LockIsInTransaction == StoreSpec => []LockHeldInTransaction
<1>1. StoreInv => LockHeldInTransaction
  BY DEF StoreInv, StoreTypeOK, PushLock, RunLock, LockHeldInTransaction
<1> QED
  BY <1>1, StoreInvariant, PTL

\* Over SQLite, for any interleaving, what the listings of drift events show is
\* true of the pushed files, with the exceptions EventsTruthful states.
THEOREM ListedEventsAreTruthful == StoreSpec => []ListedEventsTruthful
<1>1. StoreInv => ListedEventsTruthful
  <2> SUFFICES ASSUME StoreInv, NEW e \in events, HasRow(e.tag_id)
               PROVE  LET t == e.tag_id
                          f == e.filename
                          older == {p \in Tag \ {t} :
                                      /\ ModuleOf[p] = ModuleOf[t]
                                      /\ Earlier(updated_at[p], updated_at[t])}
                      IN  /\ e.event_type = EventType(e.previous_hash, e.current_hash)
                          /\ e.previous_hash # e.current_hash
                          /\ \/ e.current_hash = pushed[t][f]
                             \/ /\ e.current_hash = NoFile
                                /\ stage[t] = "fileless" \/ t \in failed.hash
                          /\ \E p \in older :
                               \/ e.previous_hash = pushed[p][f]
                               \/ /\ e.previous_hash = NoFile
                                  /\ \/ stage[p] \in {"fileless", "gone"}
                                     \/ p \in failed.hash \cup failed.late
    BY DEF ListedEventsTruthful, Daemon!EventsTruthful, ListedEvents,
       Daemon!Earlier, Earlier, Daemon!EventType, EventType
  <2> QED
    BY TruthfulIsTrue DEF StoreInv
<1> QED
  BY <1>1, StoreInvariant, PTL

-----------------------------------------------------------------------------
(* SqliteDaemon implements DriftDaemon.                                    *)

LEMMA SameOperators ==
  /\ Daemon!Empty = Empty /\ Daemon!IdleRun = IdleRun /\ Daemon!FileMap = FileMap
  /\ \A t : Daemon!HasRow(t) <=> HasRow(t)
  /\ \A t : Daemon!Hashes(t) = Hashes(t)
  /\ \A a, b : Daemon!AfterTag(a, b) = AfterTag(a, b)
  /\ \A a : Daemon!HashOrDetect(a) = HashOrDetect(a)
  /\ \A a : Daemon!AfterDetect(a) = AfterDetect(a)
<1>1. Daemon!Empty = Empty /\ Daemon!FileMap = FileMap
  BY DEF Daemon!Empty, Empty, Daemon!FileMap, FileMap
<1>2. Daemon!IdleRun = IdleRun
  BY <1>1 DEF Daemon!IdleRun, IdleRun, Daemon!None, None
<1>3. /\ \A t : Daemon!HasRow(t) <=> HasRow(t)
      /\ \A t : Daemon!Hashes(t) = Hashes(t)
  BY <1>1 DEF Daemon!HasRow, HasRow, Daemon!Hashes, Hashes
<1>4. /\ \A a, b : Daemon!AfterTag(a, b) = AfterTag(a, b)
      /\ \A a : Daemon!HashOrDetect(a) = HashOrDetect(a)
      /\ \A a : Daemon!AfterDetect(a) = AfterDetect(a)
  BY DEF Daemon!AfterTag, AfterTag, Daemon!HashOrDetect, HashOrDetect,
     Daemon!AfterDetect, AfterDetect
<1> QED
  BY <1>1, <1>2, <1>3, <1>4

LEMMA SameProceed ==
  ASSUME NEW r, NEW pc, NEW todo, NEW done
  PROVE  Daemon!Proceed(r, pc, todo, done) <=> Proceed(r, pc, todo, done)
  BY SameOperators DEF Daemon!Proceed, Proceed

LEMMA SamePrevious ==
  ASSUME NEW t
  PROVE  Daemon!Previous(t) = Previous(t)
  BY DEF Daemon!Previous, Previous, Daemon!Earlier, Earlier, Daemon!HasRow, HasRow

LEMMA SameDrift ==
  ASSUME NEW p, NEW t, NEW old, NEW new
  PROVE  Daemon!DetectDrift(p, t, old, new) = DetectDrift(p, t, old, new)
  BY DEF Daemon!DetectDrift, DetectDrift, Daemon!Drifted, Drifted, Daemon!Event, Event,
     Daemon!EventType, EventType, Daemon!EventSeverity, EventSeverity,
     Daemon!ModifiedSeverity, ModifiedSeverity

\* The listing does not change while no event and no row of one changes.
LEMMA ListedKept ==
  ASSUME events' = events, \A e \in events : HasRow(e.tag_id)' <=> HasRow(e.tag_id)
  PROVE  ListedEvents' = ListedEvents
  BY DEF ListedEvents

LEMMA PushImplements ==
  ASSUME StoreInv, NEW t \in Tag, BeginPush(t) \/ CommitPush(t) \/ RollbackPush(t)
  PROVE  Daemon!Next
<1>0. TablesOK /\ \A e \in events : Pushed(e.tag_id) /\ e.tag_id \in Tag
  BY TypeParts DEF StoreInv, DaemonInv, EventsFrom, TruthfulEvent, TablesOK, EventRow
<1>1. ListedEvents' = ListedEvents
  <2>1. events' = events
    BY DEF BeginPush, CommitPush, RollbackPush
  <2>2. \A e \in events : HasRow(e.tag_id)' <=> HasRow(e.tag_id)
    BY <1>0 DEF BeginPush, CommitPush, RollbackPush, HasRow, Pushed, TablesOK
  <2> QED
    BY <2>1, <2>2, ListedKept
<1>2. Daemon!BeginPush(t) \/ Daemon!CommitPush(t) \/ Daemon!RollbackPush(t)
  <2>1. CASE BeginPush(t)
    BY <1>1, <2>1, SameOperators DEF BeginPush, Daemon!BeginPush
  <2>2. CASE CommitPush(t)
    BY <1>1, <2>2 DEF CommitPush, Daemon!CommitPush, PastList, Daemon!PastList
  <2>3. CASE RollbackPush(t)
    BY <1>1, <2>3, SameOperators DEF RollbackPush, Daemon!RollbackPush
  <2> QED
    BY <2>1, <2>2, <2>3
<1> QED
  BY <1>2 DEF Daemon!Next, Daemon!Service

LEMMA DeleteImplements ==
  ASSUME StoreInv, NEW t \in Tag, DeleteFiles(t) \/ DeleteRow(t) \/ DeleteRowUncascaded(t)
  PROVE  Daemon!Next
<1>0. TablesOK /\ \A e \in events : e.tag_id \in Tag
  BY TypeParts DEF StoreInv, DaemonInv, TablesOK, EventRow
<1>1. CASE DeleteFiles(t)
  <2>1. ListedEvents' = ListedEvents
    <3>1. events' = events /\ \A e \in events : HasRow(e.tag_id)' <=> HasRow(e.tag_id)
      BY <1>0, <1>1 DEF DeleteFiles, HasRow, TablesOK
    <3> QED
      BY <3>1, ListedKept
  <2>2. Daemon!DeleteFiles(t)
    BY <1>1, <2>1, SameOperators DEF DeleteFiles, Daemon!DeleteFiles
  <2> QED
    BY <2>2 DEF Daemon!Next, Daemon!Service
<1>2. CASE DeleteRow(t) \/ DeleteRowUncascaded(t)
  <2>1. ListedEvents' = {e \in ListedEvents : e.tag_id # t}
    <3>1. \A e \in events : e.tag_id # t => e \in events' /\ (HasRow(e.tag_id)' <=> HasRow(e.tag_id))
      BY <1>0, <1>2 DEF DeleteRow, DeleteRowUncascaded, HasRow, TablesOK
    <3>2. events' \subseteq events /\ ~HasRow(t)'
      BY <1>0, <1>2 DEF DeleteRow, DeleteRowUncascaded, HasRow, TablesOK
    <3> QED
      BY <3>1, <3>2 DEF ListedEvents
  <2>2. Daemon!DeleteRow(t)
    BY <1>2, <2>1 DEF DeleteRow, DeleteRowUncascaded, Daemon!DeleteRow
  <2> QED
    BY <2>2 DEF Daemon!Next, Daemon!Service
<1> QED
  BY <1>1, <1>2

LEMMA AcknowledgeImplements ==
  ASSUME StoreInv, NEW e \in events, Acknowledge(e)
  PROVE  Daemon!Next \/ UNCHANGED Daemon!vars
<1> DEFINE n == [e EXCEPT !.acknowledged = TRUE]
<1>0. e \in EventRow
  BY TypeParts DEF StoreInv, DaemonInv, TablesOK
<1>1. n.tag_id = e.tag_id
  BY <1>0 DEF EventRow
<1>2. /\ events' = (events \ {e}) \cup {n} /\ ~e.acknowledged
      /\ UNCHANGED <<registry, hashed, processed, parsed, meta, run, faults, failed>>
  BY DEF Acknowledge
<1>3. \A d : HasRow(d)' <=> HasRow(d)
  BY <1>2 DEF HasRow, registry
<1> HIDE DEF n
<1>4. CASE HasRow(e.tag_id)
  <2>1. ListedEvents' = (ListedEvents \ {e}) \cup {n} /\ e \in ListedEvents
    BY <1>1, <1>2, <1>3, <1>4 DEF ListedEvents
  <2>2. Daemon!Acknowledge(e)
    BY <1>2, <2>1 DEF Daemon!Acknowledge, Daemon!registry, registry, n
  <2> QED
    BY <2>1, <2>2 DEF Daemon!Next, Daemon!Service
<1>5. CASE ~HasRow(e.tag_id)
  <2>1. ListedEvents' = ListedEvents
    BY <1>1, <1>2, <1>3, <1>5 DEF ListedEvents
  <2> QED
    BY <1>2, <2>1 DEF Daemon!vars, registry
<1> QED
  BY <1>4, <1>5

LEMMA ListedUnchanged ==
  ASSUME UNCHANGED <<stage, events>>
  PROVE  ListedEvents' = ListedEvents
<1>1. \A e \in events : HasRow(e.tag_id)' <=> HasRow(e.tag_id)
  BY DEF HasRow
<1> QED
  BY <1>1, ListedKept

LEMMA ReadImplements ==
  ASSUME StoreInv, NEW r \in Run,
         \/ StartRun(r) \/ ReadFiles(r) \/ ReadFilesCutShort(r) \/ SaveParsed(r)
         \/ ListUnhashed(r)
  PROVE  Daemon!Next
<1>0. faults \in Nat /\ MaxErrors \in Nat /\ MaxFaults \in Nat /\ MaxErrors >= MaxFaults
  BY TypeParts, ErrorsAssumption, BoundAssumption DEF StoreInv, TablesOK
<1>1. ListedEvents' = ListedEvents
  BY ListedUnchanged DEF StartRun, ReadFiles, ReadFilesCutShort, SaveParsed,
     ListUnhashed, registry
<1>2. CASE StartRun(r)
  <2>1. Daemon!StartRun(r)
    BY <1>1, <1>2, SameOperators, SameProceed DEF StartRun, Daemon!StartRun,
       Daemon!registry, registry
  <2> QED
    BY <2>1 DEF Daemon!Next
<1>3. CASE ReadFiles(r)
  <2>1. Daemon!ReadFiles(r)
    BY <1>1, <1>3 DEF ReadFiles, Daemon!ReadFiles, Daemon!registry, registry
  <2> QED
    BY <2>1 DEF Daemon!Next, Daemon!RunStep
<1>4. CASE ReadFilesCutShort(r)
  <2>1. faults < MaxFaults
    BY <1>4 DEF ReadFilesCutShort
  <2>2. faults < MaxErrors
    BY <1>0, <2>1
  <2>3. Daemon!ReadFilesCutShort(r)
    BY <1>1, <1>4, <2>2 DEF ReadFilesCutShort, Daemon!ReadFilesCutShort,
       Daemon!registry, registry
  <2> QED
    BY <2>3 DEF Daemon!Next
<1>5. CASE SaveParsed(r)
  <2>1. Daemon!SaveParsed(r)
    BY <1>1, <1>5, SameOperators, SameProceed DEF SaveParsed, Daemon!SaveParsed,
       Daemon!registry, registry
  <2> QED
    BY <2>1 DEF Daemon!Next, Daemon!RunStep
<1>6. CASE ListUnhashed(r)
  <2>1. Daemon!ListUnhashed(r)
    BY <1>1, <1>6, SameOperators, SameProceed DEF ListUnhashed, Daemon!ListUnhashed,
       Daemon!registry, registry
  <2> QED
    BY <2>1 DEF Daemon!Next, Daemon!RunStep
<1> QED
  BY <1>2, <1>3, <1>4, <1>5, <1>6

LEMMA CompareImplements ==
  ASSUME StoreInv, NEW r \in Run,
         SelectPrevious(r) \/ SelectCurrentHashes(r) \/ SelectPreviousHashes(r)
  PROVE  Daemon!Next
<1>1. ListedEvents' = ListedEvents
  BY ListedUnchanged DEF SelectPrevious, SelectCurrentHashes, SelectPreviousHashes,
     registry
<1>2. CASE SelectPrevious(r)
  <2>1. Daemon!SelectPrevious(r)
    BY <1>1, <1>2, SameOperators, SameProceed, SamePrevious DEF SelectPrevious,
       Daemon!SelectPrevious, Daemon!registry, registry
  <2> QED
    BY <2>1 DEF Daemon!Next, Daemon!RunStep
<1>3. CASE SelectCurrentHashes(r)
  <2>1. Daemon!SelectCurrentHashes(r)
    BY <1>1, <1>3, SameOperators DEF SelectCurrentHashes, Daemon!SelectCurrentHashes,
       Daemon!registry, registry
  <2> QED
    BY <2>1 DEF Daemon!Next, Daemon!RunStep
<1>4. CASE SelectPreviousHashes(r)
  <2>1. Daemon!SelectPreviousHashes(r)
    BY <1>1, <1>4, SameOperators DEF SelectPreviousHashes, Daemon!SelectPreviousHashes,
       Daemon!registry, registry
  <2> QED
    BY <2>1 DEF Daemon!Next, Daemon!RunStep
<1> QED
  BY <1>2, <1>3, <1>4

\* A hash transaction that commits, is overtaken or has nothing to do.
LEMMA HashImplements ==
  ASSUME StoreInv, NEW r \in Run, ComputeAndStoreHashes(r)
  PROVE  Daemon!Next \/ UNCHANGED Daemon!vars
<1>0. TablesOK /\ RunLock(r) /\ SnapshotFrom(r)
  BY TypeParts DEF StoreInv
<1>1. CASE UNCHANGED vars
  BY <1>1, ListedUnchanged DEF vars, Daemon!vars
<1>2. ASSUME NEW t \in run[r].todo, files[t] = Empty \/ t \in hashed, HashNext(r, t),
             run[r].pc = "hash",
             UNCHANGED <<registry, hashed, processed, parsed, meta, events, faults,
                         failed, svars>>
      PROVE  Daemon!Next
  <2>1. ListedEvents' = ListedEvents
    BY <1>2, ListedUnchanged DEF registry
  <2>2. hashed' = IF files[t] # Empty THEN hashed \cup {t} ELSE hashed
    BY <1>2
  <2>3. Daemon!ComputeHashes(r)
    BY <1>2, <2>1, <2>2, SameOperators, SameProceed DEF HashNext,
       Daemon!ComputeHashes, Daemon!registry, registry
  <2> QED
    BY <2>3 DEF Daemon!Next, Daemon!RunStep
<1>3. CASE CommitHashes(r)
  <2>1. PICK t : t = snapshot[r].tag
    OBVIOUS
  <2>2. /\ run[r].pc = "hash" /\ t \in run[r].todo /\ HashNext(r, t)
        /\ files[t] # Empty
    BY <1>3, <2>1, HashTransaction
  <2>3. /\ hashed' = hashed \cup {t}
        /\ UNCHANGED <<registry, processed, parsed, meta, events, faults, failed>>
    BY <1>3, <2>1 DEF CommitHashes
  <2>4. ListedEvents' = ListedEvents
    BY <2>3, ListedUnchanged DEF registry
  <2>5. Daemon!ComputeHashes(r)
    BY <2>2, <2>3, <2>4, SameOperators, SameProceed DEF HashNext,
       Daemon!ComputeHashes, Daemon!registry, registry
  <2> QED
    BY <2>5 DEF Daemon!Next, Daemon!RunStep
<1>4. CASE BusySnapshot(r)
  <2>1. PICK t : t = snapshot[r].tag
    OBVIOUS
  <2>2. run[r].pc = "hash" /\ t \in run[r].todo /\ HashNext(r, t)
    BY <1>4, <2>1, HashTransaction
  <2>3. /\ faults < MaxErrors /\ faults' = faults + 1
        /\ failed' = [failed EXCEPT !.hash = @ \cup {t}]
        /\ UNCHANGED <<registry, hashed, processed, parsed, meta, events>>
    BY <1>4, <2>1 DEF BusySnapshot
  <2>4. ListedEvents' = ListedEvents
    BY <2>3, ListedUnchanged DEF registry
  <2>5. Daemon!SkipTag(r)
    BY <2>2, <2>3, <2>4, SameOperators, SameProceed DEF HashNext,
       Daemon!SkipTag, Daemon!registry, registry
  <2> QED
    BY <2>5 DEF Daemon!Next
<1> QED
  BY <1>1, <1>2, <1>3, <1>4 DEF ComputeAndStoreHashes, SelectUnhashed, UpdateHashes

\* The rows of a tag that is listed conflict only with rows that are listed.
LEMMA ListedInsert ==
  ASSUME StoreInv, NEW r \in Run, NEW new, Insertable(r, new), UNCHANGED stage,
         events' = Insert(new)
  PROVE  ListedEvents' = IF HasRow(run[r].cur) THEN Daemon!Insert(new) ELSE ListedEvents
<1>1. \A n \in new : n.tag_id = run[r].cur
  BY DEF Insertable
<1>2. \A d : HasRow(d)' <=> HasRow(d)
  BY DEF HasRow
<1>3. \A n \in new, e \in events : Key(e) = Key(n) => e.tag_id = run[r].cur
  BY <1>1 DEF Key
<1>4. \A x : x \in ListedEvents' <=> /\ x \in events \/ (x \in new /\ \A e \in events : Key(e) # Key(x))
                                     /\ HasRow(x.tag_id)
  BY <1>2 DEF ListedEvents, Insert
<1>5. \A x : x \in ListedEvents <=> x \in events /\ HasRow(x.tag_id)
  BY DEF ListedEvents
<1>6. \A x : x \in Daemon!Insert(new) <=>
        x \in ListedEvents \/ (x \in new /\ \A e \in ListedEvents : Key(e) # Key(x))
  BY DEF Daemon!Insert, Daemon!Key, Key
<1>7. CASE HasRow(run[r].cur)
  <2>1. \A x : x \in ListedEvents' <=> x \in Daemon!Insert(new)
    BY <1>1, <1>3, <1>4, <1>5, <1>6, <1>7
  <2> QED
    BY <1>7, <2>1
<1>8. CASE ~HasRow(run[r].cur)
  <2>1. \A x : x \in ListedEvents' <=> x \in ListedEvents
    BY <1>1, <1>4, <1>5, <1>8
  <2> QED
    BY <1>8, <2>1
<1> QED
  BY <1>7, <1>8

LEMMA SaveImplements ==
  ASSUME StoreInv, NEW r \in Run,
         SaveEvents(r) \/ SaveEventsUnparsed(r) \/ SaveOrphanEvents(r)
  PROVE  Daemon!Next
<1>0. /\ faults \in Nat /\ MaxErrors \in Nat /\ MaxFaults \in Nat
      /\ MaxErrors >= MaxFaults /\ DaemonInv
  BY TypeParts, ErrorsAssumption, BoundAssumption DEF StoreInv, TablesOK
<1>1. /\ run[r].pc = "save events"
      /\ Proceed(r, AfterDetect(run[r].done \ {run[r].cur}), {},
                 run[r].done \ {run[r].cur})
      /\ UNCHANGED <<registry, hashed, processed, parsed, meta, failed>>
  BY <1>0, SaveEventsShape
<1>2. stage' = stage
  BY <1>1 DEF registry
<1>3. ASSUME NEW new, Insertable(r, new),
             events' = IF HasRow(run[r].cur) THEN Insert(new) ELSE events
      PROVE  Daemon!SaveDriftEvents(r, new)
  <2>1. ListedEvents' = IF HasRow(run[r].cur) THEN Daemon!Insert(new) ELSE ListedEvents
    <3>1. CASE HasRow(run[r].cur)
      BY <1>2, <1>3, <3>1, ListedInsert
    <3>2. CASE ~HasRow(run[r].cur)
      BY <1>2, <1>3, <3>2, ListedUnchanged
    <3> QED
      BY <3>1, <3>2
  <2> QED
    BY <1>1, <2>1, SameOperators, SameProceed DEF Daemon!SaveDriftEvents,
       Daemon!registry, registry
<1>4. CASE SaveEvents(r)
  <2>1. events' = IF HasRow(run[r].cur) THEN Insert(Found(r)) ELSE events
    BY <1>4 DEF SaveEvents, SaveDriftEvents, Found
  <2>2. Daemon!SaveDriftEvents(r, Found(r))
    BY <1>0, <1>1, <1>3, <2>1, FoundInsertable
  <2>3. Daemon!SaveEvents(r)
    BY <1>1, <1>4, <2>2, SameDrift DEF SaveEvents, Daemon!SaveEvents, Found
  <2> QED
    BY <2>3 DEF Daemon!Next, Daemon!RunStep
<1>5. CASE SaveOrphanEvents(r)
  <2>1. ~HasRow(run[r].cur) /\ events' = Insert(Found(r)) /\ faults' = faults
    BY <1>5 DEF SaveOrphanEvents, Found
  <2>2. Insertable(r, Found(r))
    BY <1>0, <1>1, FoundInsertable
  <2>3. ListedEvents' = ListedEvents
    BY <1>2, <2>1, <2>2, ListedInsert
  <2>4. Daemon!SaveDriftEvents(r, Found(r))
    BY <1>1, <2>1, <2>3, SameOperators, SameProceed DEF Daemon!SaveDriftEvents,
       Daemon!registry, registry
  <2>5. Daemon!SaveEvents(r)
    BY <1>1, <2>1, <2>4, SameDrift DEF Daemon!SaveEvents, Found
  <2> QED
    BY <2>5 DEF Daemon!Next, Daemon!RunStep
<1>6. CASE SaveEventsUnparsed(r)
  <2>1. PICK unread \in SUBSET Filename :
          /\ faults < MaxFaults /\ faults' = faults + 1
          /\ SaveDriftEvents(r, {Unrated(e, unread) : e \in Found(r)})
    BY <1>6 DEF SaveEventsUnparsed, Unrated, Found
  <2>2. events' = IF HasRow(run[r].cur) THEN Insert({Unrated(e, unread) : e \in Found(r)})
                  ELSE events
    BY <2>1 DEF SaveDriftEvents
  <2>3. Insertable(r, {Unrated(e, unread) : e \in Found(r)})
    BY <1>0, <1>1, UnratedInsertable
  <2>4. Daemon!SaveDriftEvents(r, {Unrated(e, unread) : e \in Found(r)})
    BY <1>3, <2>2, <2>3
  <2>5. faults < MaxFaults
    BY <2>1
  <2>6. faults < MaxErrors
    BY <1>0, <2>5
  <2>7. PICK found : found = Found(r)
    OBVIOUS
  <2>8. Daemon!DetectDrift(run[r].prev, run[r].cur, run[r].previous, run[r].files) = found
    BY <2>7, SameDrift DEF Found
  <2>9. Daemon!SaveEventsUnparsed(r)
    BY <1>1, <2>1, <2>4, <2>6, <2>7, <2>8 DEF Daemon!SaveEventsUnparsed, Unrated
  <2> QED
    BY <2>9 DEF Daemon!Next
<1> QED
  BY <1>4, <1>5, <1>6

LEMMA FailureImplements ==
  ASSUME StoreInv, Exit \/ \E r \in Run : SkipTag(r)
  PROVE  Daemon!Next
<1>0. faults \in Nat /\ MaxErrors \in Nat /\ MaxFaults \in Nat /\ MaxErrors >= MaxFaults
  BY TypeParts, ErrorsAssumption, BoundAssumption DEF StoreInv, TablesOK
<1>1. faults < MaxFaults /\ UNCHANGED <<registry, events>>
  BY DEF Exit, SkipTag
<1>2. faults < MaxErrors
  BY <1>0, <1>1
<1>3. ListedEvents' = ListedEvents
  BY <1>1, ListedUnchanged DEF registry
<1>4. CASE Exit
  <2>1. Daemon!Exit
    BY <1>2, <1>3, <1>4, SameOperators DEF Exit, Daemon!Exit, Daemon!registry, registry
  <2> QED
    BY <2>1 DEF Daemon!Next
<1>5. ASSUME NEW r \in Run, SkipTag(r) PROVE Daemon!Next
  <2>1. Daemon!SkipTag(r)
    BY <1>2, <1>3, <1>5, SameOperators, SameProceed DEF SkipTag, Daemon!SkipTag,
       Daemon!registry, registry
  <2> QED
    BY <2>1 DEF Daemon!Next
<1> QED
  BY <1>4, <1>5

LEMMA StepImplements ==
  ASSUME StoreInv, [SqliteNext]_<<vars, svars>>
  PROVE  [Daemon!Next]_(Daemon!vars)
<1>1. CASE UNCHANGED vars
  BY <1>1, ListedUnchanged DEF vars, Daemon!vars
<1>2. CASE Tick /\ Select
  <2>1. ListedEvents' = ListedEvents
    BY <1>2, ListedUnchanged DEF Tick
  <2>2. Daemon!Tick
    BY <1>2, <2>1 DEF Tick, Daemon!Tick
  <2> QED
    BY <2>2 DEF Daemon!Next, Daemon!Service
<1>3. ASSUME NEW t \in Tag, PushModule(t) \/ DeleteModuleTag(t)
      PROVE  Daemon!Next
  BY <1>3, PushImplements, DeleteImplements DEF PushModule, DeleteModuleTag
<1>4. ASSUME NEW e \in events, AcknowledgeDriftEvent(e)
      PROVE  Daemon!Next \/ UNCHANGED Daemon!vars
  BY <1>4, AcknowledgeImplements DEF AcknowledgeDriftEvent
<1>5. ASSUME NEW r \in Run, GetUnprocessedTagIds(r) \/ SqliteRunStep(r) \/ FailStatement(r)
      PROVE  Daemon!Next \/ UNCHANGED Daemon!vars \/ UNCHANGED vars
  BY <1>5, ReadImplements, CompareImplements, HashImplements, SaveImplements,
     FailureImplements
  DEF GetUnprocessedTagIds, SqliteRunStep, GetProtoFilesForTagId,
      SaveParsedProtoFiles, GetTagsWithoutHashes, GetPreviousTagID,
      GetFileHashesForTag, InsertDriftEvents, FailStatement
<1>6. CASE ExitProcess
  BY <1>6, FailureImplements DEF ExitProcess
<1> QED
  BY <1>1, <1>2, <1>3, <1>4, <1>5, <1>6 DEF SqliteNext

\* Over SQLite the daemon, its transactions cut into statements that hold the
\* write lock, implements DriftDaemon for every set of tags, files and runs.
THEOREM SqliteDaemonImplementsDaemon == StoreSpec => ImplementsDaemon
<1>1. StoreInit => Daemon!Init
  <2> SUFFICES ASSUME StoreInit PROVE Daemon!Init
    OBVIOUS
  <2>1. ListedEvents = {}
    BY DEF StoreInit, Init, ListedEvents
  <2> QED
    BY <2>1, SameOperators DEF StoreInit, Init, Daemon!Init
<1>2. StoreInv /\ [SqliteNext]_<<vars, svars>> => [Daemon!Next]_(Daemon!vars)
  BY StepImplements
<1> QED
  BY <1>1, <1>2, StoreInvariant, PTL DEF StoreSpec, ImplementsDaemon, Daemon!Spec
=============================================================================
