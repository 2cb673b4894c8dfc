---------------------------- MODULE DriftDaemon -----------------------------
(***************************************************************************)
(* The proto-parsing daemon (internal/background): every minute a Run      *)
(* parses the stable tags that are not processed yet, hashes the files of  *)
(* every tag that has no hashes, and compares each tag it processed with   *)
(* the previous tag of the module, saving the differences as drift events. *)
(*                                                                         *)
(* It shares the database with the registry service, so pushes commit and  *)
(* tags are deleted between any two of its statements; cron starts a new   *)
(* Run although an older one is still going; and the process can die at    *)
(* any point (log.Fatalf on an error of a Run, or a crash) and is started  *)
(* again.  One action is one statement or one transaction.                 *)
(***************************************************************************)
EXTENDS Naturals, FiniteSets

CONSTANTS
  Tag,          \* the stable tags that may be pushed: rows of tags
  Deletable,    \* those among them that a client may delete
  Filename,
  Content,      \* file contents; computeHash is injective on them
  NoFile,       \* "no such file"
  Run,          \* the runs of the daemon that may overlap
  ModuleOf,     \* the module of each tag
  SeverityOf,   \* determineSeverityFromParsed on two parsed contents
  Backends,     \* the database drivers to consider
  SerialPush,   \* TRUE: pushes do not overlap (a single publisher)
  DayLength,    \* clock ticks in a day
  MaxNow,       \* bound of the clock
  MaxFaults     \* bound on errors and crashes

None == "none"

Severity == {"info", "warning", "critical"}

FileMap == [Filename -> Content \cup {NoFile}]

ASSUME TagAssumption == NoFile \notin Content /\ None \notin Tag
                        /\ Deletable \subseteq Tag

ASSUME FunctionAssumption ==
  /\ DOMAIN ModuleOf = Tag
  /\ SeverityOf \in [Content \X Content -> Severity]

ASSUME BoundAssumption ==
  /\ Backends \subseteq {"postgres", "sqlite"} /\ SerialPush \in BOOLEAN
  /\ DayLength \in Nat \ {0} /\ MaxNow \in Nat /\ MaxFaults \in Nat

VARIABLES
  backend,    \* the driver of this deployment
  now,        \* the database clock
  stage,      \* of a tag: absent, begun, void (rolled back), live,
              \* fileless, gone
  updated_at, \* tags.updated_at
  pushed,     \* history: the files each tag was pushed with
  files,      \* protofiles, as a map for each tag
  hashed,     \* the tags whose protofiles have their content_hash
  processed,  \* the tags with is_processed
  parsed,     \* proto_parsed_data, as a map for each tag
  meta,       \* the tags with a tag_meta row
  events,     \* drift_events
  run,        \* the runs of the daemon
  faults,     \* errors and crashes so far
  failed      \* history: the tags whose files were read or hashed with an
              \* error, and those committed behind the list of a run

registry == <<backend, now, stage, updated_at, pushed, files>>
vars == <<backend, now, stage, updated_at, pushed, files, hashed, processed,
          parsed, meta, events, run, faults, failed>>

Empty == [f \in Filename |-> NoFile]

HasRow(t) == stage[t] \in {"live", "fileless"}

-----------------------------------------------------------------------------
(* The registry side: what the service's statements do to these tables.    *)

\* The push transaction starts: NOW() is fixed here on PostgreSQL.  SQLite
\* stamps the row at the INSERT, which holds its only write lock to the end.
BeginPush(t) ==
  /\ stage[t] = "absent"
  /\ SerialPush \/ backend = "sqlite" => \A u \in Tag : stage[u] # "begun"
  /\ stage' = [stage EXCEPT ![t] = "begun"]
  /\ updated_at' = [updated_at EXCEPT ![t] = now]
  /\ \E m \in FileMap : pushed' = [pushed EXCEPT ![t] = m]
  /\ UNCHANGED <<backend, now, files, hashed, processed, parsed, meta, events,
                 run, faults, failed>>

\* The run r has listed the tags without hashes and has not ended
PastList(r) == run[r].pc \in {"hash", "detect", "current", "previous", "save events"}

CommitPush(t) ==
  /\ stage[t] = "begun"
  /\ stage' = [stage EXCEPT ![t] = "live"]
  /\ files' = [files EXCEPT ![t] = pushed[t]]
  /\ failed' = [failed EXCEPT !.late = IF \E r \in Run : PastList(r)
                                       THEN @ \cup {t} ELSE @]
  /\ UNCHANGED <<backend, now, updated_at, pushed, hashed, processed, parsed,
                 meta, events, run, faults>>

\* The deferred Rollback, when an INSERT or the request fails; another attempt
\* is another row
RollbackPush(t) ==
  /\ stage[t] = "begun"
  /\ stage' = [stage EXCEPT ![t] = "void"]
  /\ updated_at' = [updated_at EXCEPT ![t] = 0]
  /\ pushed' = [pushed EXCEPT ![t] = Empty]
  /\ UNCHANGED <<backend, now, files, hashed, processed, parsed, meta, events,
                 run, faults, failed>>

\* DeleteModuleTag: DELETE FROM protofiles ...
DeleteFiles(t) ==
  /\ t \in Deletable /\ stage[t] = "live"
  /\ stage' = [stage EXCEPT ![t] = "fileless"]
  /\ files' = [files EXCEPT ![t] = Empty]
  /\ hashed' = hashed \ {t}
  /\ UNCHANGED <<backend, now, updated_at, pushed, processed, parsed, meta,
                 events, run, faults, failed>>

\* ... and, if the request gets that far, DELETE FROM tags.  drift_events
\* cascades; proto_parsed_data and tag_meta have no foreign key.
DeleteRow(t) ==
  /\ stage[t] = "fileless"
  /\ stage' = [stage EXCEPT ![t] = "gone"]
  /\ processed' = processed \ {t}
  /\ events' = {e \in events : e.tag_id # t}
  /\ UNCHANGED <<backend, now, updated_at, pushed, files, hashed, parsed, meta,
                 run, faults, failed>>

\* AcknowledgeDriftEvent: UPDATE ... SET acknowledged = true WHERE id
Acknowledge(e) ==
  /\ e \in events /\ ~e.acknowledged
  /\ events' = (events \ {e}) \cup {[e EXCEPT !.acknowledged = TRUE]}
  /\ UNCHANGED <<registry, hashed, processed, parsed, meta, run, faults,
                 failed>>

Tick ==
  /\ now < MaxNow
  /\ now' = now + 1
  /\ UNCHANGED <<backend, stage, updated_at, pushed, files, hashed, processed,
                 parsed, meta, events, run, faults, failed>>

-----------------------------------------------------------------------------
(* protoParsingDaemon.Run                                                  *)

IdleRun == [pc |-> "idle", todo |-> {}, done |-> {}, cur |-> None,
            prev |-> None, files |-> Empty, previous |-> Empty]

\* The run r goes on at pc; the buffers of the last tag go out of scope
Proceed(r, pc, todo, done) ==
  run' = [run EXCEPT ![r] = [IdleRun EXCEPT !.pc = pc, !.todo = todo,
                                            !.done = done]]

\* Mutant: the tags are found through their files
StartRunWithFiles(r) ==
  LET todo == {t \in Tag : HasRow(t) /\ t \notin processed /\ files[t] # Empty}
  IN  /\ run[r].pc = "idle" /\ todo # {}
      /\ Proceed(r, "read", todo, {})
      /\ UNCHANGED <<registry, hashed, processed, parsed, meta, events, faults,
                     failed>>

\* GetUnprocessedTagIds.  A run that finds no tag ends there.  A list that
\* breaks off unnoticed is this one and a SkipTag for each tag that is missing.
StartRun(r) ==
  LET todo == {t \in Tag : HasRow(t) /\ t \notin processed}
  IN  /\ run[r].pc = "idle" /\ todo # {}
      /\ Proceed(r, "read", todo, {})
      /\ UNCHANGED <<registry, hashed, processed, parsed, meta, events, faults,
                     failed>>

\* GetProtoFilesForTagId; the order of the tags is the database's
ReadFiles(r) ==
  /\ run[r].pc = "read"
  /\ \E t \in run[r].todo :
       run' = [run EXCEPT ![r].pc = "save", ![r].cur = t, ![r].files = files[t]]
  /\ UNCHANGED <<registry, hashed, processed, parsed, meta, events, faults,
                 failed>>

\* The connection breaks while the rows arrive: rows.Err() is not looked at,
\* so the files read so far pass for all of them
ReadFilesCutShort(r) ==
  /\ run[r].pc = "read"
  /\ faults < MaxFaults /\ faults' = faults + 1
  /\ \E t \in run[r].todo, F \in SUBSET Filename :
       /\ run' = [run EXCEPT ![r].pc = "save", ![r].cur = t,
                    ![r].files = [f \in Filename |->
                                    IF f \in F THEN files[t][f] ELSE NoFile]]
       /\ failed' = [failed EXCEPT !.read = @ \cup {t}]
  /\ UNCHANGED <<registry, hashed, processed, parsed, meta, events>>

\* The next tag; after the last one drift detection, if any tag was processed
AfterTag(todo, done) ==
  IF todo # {} THEN "read" ELSE IF done # {} THEN "list" ELSE "idle"

\* Mutant: the UPDATE lacks its WHERE id
SaveParsedMarksAll(r) ==
  LET t == run[r].cur
      todo == run[r].todo \ {t}
      done == run[r].done \cup {t}
  IN  /\ run[r].pc = "save"
      /\ parsed' = [parsed EXCEPT ![t] = run[r].files]
      /\ meta' = meta \cup {t}
      /\ processed' = {u \in Tag : HasRow(u)}
      /\ Proceed(r, AfterTag(todo, done), todo, done)
      /\ UNCHANGED <<registry, hashed, events, faults, failed>>

\* SaveParsedProtoFiles, one transaction: parsed rows are added or updated but
\* never removed, and a tag that has been deleted is not marked.
SaveParsed(r) ==
  LET t == run[r].cur
      todo == run[r].todo \ {t}
      done == run[r].done \cup {t}
  IN  /\ run[r].pc = "save"
      /\ parsed' = [parsed EXCEPT ![t] = [f \in Filename |->
                      IF run[r].files[f] = NoFile THEN @[f] ELSE run[r].files[f]]]
      /\ meta' = meta \cup {t}
      /\ processed' = IF HasRow(t) THEN processed \cup {t} ELSE processed
      /\ Proceed(r, AfterTag(todo, done), todo, done)
      /\ UNCHANGED <<registry, hashed, events, faults, failed>>

-----------------------------------------------------------------------------
(* runDriftDetection, phase 1: hashes                                      *)

HashOrDetect(todo) == IF todo # {} THEN "hash" ELSE "detect"

\* Mutant: a run hashes the tags that it has processed itself
ListUnhashedOwn(r) ==
  LET todo == {t \in run[r].done : files[t] # Empty /\ t \notin hashed}
  IN  /\ run[r].pc = "list"
      /\ Proceed(r, HashOrDetect(todo), todo, run[r].done)
      /\ UNCHANGED <<registry, hashed, processed, parsed, meta, events, faults,
                     failed>>

\* GetTagsWithoutHashes
ListUnhashed(r) ==
  LET todo == {t \in Tag : files[t] # Empty /\ t \notin hashed}
  IN  /\ run[r].pc = "list"
      /\ Proceed(r, HashOrDetect(todo), todo, run[r].done)
      /\ UNCHANGED <<registry, hashed, processed, parsed, meta, events, faults,
                     failed>>

\* ComputeAndStoreHashes: all files of the tag in one transaction
ComputeHashes(r) ==
  /\ run[r].pc = "hash"
  /\ \E t \in run[r].todo :
       /\ hashed' = IF files[t] # Empty THEN hashed \cup {t} ELSE hashed
       /\ Proceed(r, HashOrDetect(run[r].todo \ {t}), run[r].todo \ {t}, run[r].done)
  /\ UNCHANGED <<registry, processed, parsed, meta, events, faults, failed>>

-----------------------------------------------------------------------------
(* runDriftDetection, phase 2: comparison with the previous tag            *)

\* updated_at < $3.  SQLite compares the stored "YYYY-MM-DD hh:mm:ss" with
\* "YYYY-MM-DDThh:mm:ssZ" as text: on the same day the space sorts first.
Earlier(a, b) ==
  IF backend = "postgres" THEN a < b
  ELSE (a \div DayLength) <= (b \div DayLength)

\* Mutant: ORDER BY updated_at without DESC
PreviousOldest(t) ==
  LET older == {p \in Tag \ {t} : /\ HasRow(p) /\ ModuleOf[p] = ModuleOf[t]
                                  /\ Earlier(updated_at[p], updated_at[t])}
  IN  {p \in older : \A q \in older : updated_at[p] <= updated_at[q]}

\* GetPreviousTagID: the latest earlier tag of the module, ties in any order
Previous(t) ==
  LET older == {p \in Tag \ {t} : /\ HasRow(p) /\ ModuleOf[p] = ModuleOf[t]
                                  /\ Earlier(updated_at[p], updated_at[t])}
  IN  {p \in older : \A q \in older : updated_at[q] <= updated_at[p]}

AfterDetect(done) == IF done # {} THEN "detect" ELSE "idle"

\* GetTagInfo and GetPreviousTagID; a tag that is gone or has no previous one
\* has no drift
SelectPrevious(r) ==
  /\ run[r].pc = "detect"
  /\ \E t \in run[r].done :
       \/ /\ ~HasRow(t) \/ Previous(t) = {}
          /\ Proceed(r, AfterDetect(run[r].done \ {t}), {}, run[r].done \ {t})
       \/ /\ HasRow(t)
          /\ \E p \in Previous(t) :
               run' = [run EXCEPT ![r].pc = "current", ![r].cur = t,
                                  ![r].prev = p]
  /\ UNCHANGED <<registry, hashed, processed, parsed, meta, events, faults,
                 failed>>

\* GetFileHashesForTag: the files that have a hash
Hashes(t) == IF t \in hashed THEN files[t] ELSE Empty

SelectCurrentHashes(r) ==
  /\ run[r].pc = "current"
  /\ run' = [run EXCEPT ![r].pc = "previous", ![r].files = Hashes(run[r].cur)]
  /\ UNCHANGED <<registry, hashed, processed, parsed, meta, events, faults,
                 failed>>

SelectPreviousHashes(r) ==
  /\ run[r].pc = "previous"
  /\ run' = [run EXCEPT ![r].pc = "save events",
                        ![r].previous = Hashes(run[r].prev)]
  /\ UNCHANGED <<registry, hashed, processed, parsed, meta, events, faults,
                 failed>>

\* determineSeverityFromParsed on what proto_parsed_data holds
ModifiedSeverity(p, t, f) ==
  IF parsed[p][f] = NoFile \/ parsed[t][f] = NoFile THEN "warning"
  ELSE SeverityOf[parsed[p][f], parsed[t][f]]

Event(t, f, type, old, new, severity) ==
  [tag_id |-> t, filename |-> f, event_type |-> type, previous_hash |-> old,
   current_hash |-> new, severity |-> severity, acknowledged |-> FALSE]

\* Mutant: deleted files are not looked for
DriftedNotDeleted(old, new) ==
  {f \in Filename : old[f] # new[f] /\ new[f] # NoFile}

Drifted(old, new) == {f \in Filename : old[f] # new[f]}

EventType(old, new) ==
  IF old = NoFile THEN "added" ELSE IF new = NoFile THEN "deleted" ELSE "modified"

\* Mutant: the severity of an added file is left at its zero value
EventSeverityUnset(p, t, f, old, new) ==
  IF old = NoFile THEN ""
  ELSE IF new = NoFile THEN "critical" ELSE ModifiedSeverity(p, t, f)

EventSeverity(p, t, f, old, new) ==
  IF old = NoFile THEN "info"
  ELSE IF new = NoFile THEN "critical" ELSE ModifiedSeverity(p, t, f)

\* detectDrift on the hashes of the previous tag p and of the tag t
DetectDrift(p, t, old, new) ==
  {Event(t, f, EventType(old[f], new[f]), old[f], new[f],
         EventSeverity(p, t, f, old[f], new[f])) : f \in Drifted(old, new)}

\* The columns of idx_drift_events_unique
Key(e) == <<e.tag_id, e.filename, e.event_type, e.previous_hash, e.current_hash>>

\* Mutant: ON CONFLICT DO UPDATE, with a fresh acknowledged column
InsertReopening(new) ==
  {e \in events : \A n \in new : Key(n) # Key(e)} \cup new

\* INSERT ... ON CONFLICT DO NOTHING
Insert(new) == events \cup {n \in new : \A e \in events : Key(e) # Key(n)}

\* SaveDriftEvents, and the next tag.  The foreign key refuses events of a tag
\* that is gone; the error is logged and the loop goes on.
SaveDriftEvents(r, new) ==
  /\ events' = IF HasRow(run[r].cur) THEN Insert(new) ELSE events
  /\ Proceed(r, AfterDetect(run[r].done \ {run[r].cur}), {},
             run[r].done \ {run[r].cur})
  /\ UNCHANGED <<registry, hashed, processed, parsed, meta>>

\* Mutant: the two hash maps are swapped
SaveEventsSwapped(r) ==
  /\ run[r].pc = "save events"
  /\ SaveDriftEvents(r, DetectDrift(run[r].prev, run[r].cur, run[r].files,
                                    run[r].previous))
  /\ UNCHANGED <<faults, failed>>

\* detectDrift returns its events and they are saved
SaveEvents(r) ==
  /\ run[r].pc = "save events"
  /\ SaveDriftEvents(r, DetectDrift(run[r].prev, run[r].cur, run[r].previous,
                                    run[r].files))
  /\ UNCHANGED <<faults, failed>>

\* getParsedProtoMap fails, which is logged, or breaks off among the rows, which
\* is not noticed: a modified file without a parsed one is rated "warning"
SaveEventsUnparsed(r) ==
  LET found == DetectDrift(run[r].prev, run[r].cur, run[r].previous, run[r].files)
      rated(e, unread) == IF e.event_type = "modified" /\ e.filename \in unread
                          THEN [e EXCEPT !.severity = "warning"] ELSE e
  IN  /\ run[r].pc = "save events"
      /\ faults < MaxFaults /\ faults' = faults + 1
      /\ \E unread \in SUBSET Filename :
           SaveDriftEvents(r, {rated(e, unread) : e \in found})
      /\ UNCHANGED failed

-----------------------------------------------------------------------------
(* Failures                                                                *)

\* A database error at a statement whose error is logged and skipped: the tag
\* is left out of this phase; without the list of tags the phase is left out.
SkipTag(r) ==
  /\ faults < MaxFaults /\ faults' = faults + 1
  /\ \/ /\ run[r].pc = "read"
        /\ \E t \in run[r].todo :
             Proceed(r, AfterTag(run[r].todo \ {t}, run[r].done),
                     run[r].todo \ {t}, run[r].done)
        /\ UNCHANGED failed
     \/ /\ run[r].pc = "list"
        /\ Proceed(r, "idle", {}, {})
        /\ UNCHANGED failed
     \/ /\ run[r].pc = "hash"
        /\ \E t \in run[r].todo :
             /\ Proceed(r, HashOrDetect(run[r].todo \ {t}), run[r].todo \ {t},
                        run[r].done)
             /\ failed' = [failed EXCEPT !.hash = @ \cup {t}]
     \/ /\ run[r].pc = "detect"
        /\ \E t \in run[r].done :
             Proceed(r, AfterDetect(run[r].done \ {t}), {}, run[r].done \ {t})
        /\ UNCHANGED failed
     \/ /\ run[r].pc \in {"current", "previous", "save events"}
        /\ Proceed(r, AfterDetect(run[r].done \ {run[r].cur}), {},
                   run[r].done \ {run[r].cur})
        /\ UNCHANGED failed
  /\ UNCHANGED <<registry, hashed, processed, parsed, meta, events>>

\* The process exits, by log.Fatalf when a Run returns an error or by a crash:
\* every run of it is lost.  Docker restarts it and cron starts new runs.
Exit ==
  /\ faults < MaxFaults /\ faults' = faults + 1
  /\ \E r \in Run : run[r].pc # "idle"
  /\ run' = [r \in Run |-> IdleRun]
  /\ UNCHANGED <<registry, hashed, processed, parsed, meta, events, failed>>

-----------------------------------------------------------------------------

Init ==
  /\ backend \in Backends
  /\ now = 0
  /\ stage = [t \in Tag |-> "absent"]
  /\ updated_at = [t \in Tag |-> 0]
  /\ pushed = [t \in Tag |-> Empty]
  /\ files = [t \in Tag |-> Empty]
  /\ hashed = {} /\ processed = {} /\ meta = {} /\ events = {}
  /\ parsed = [t \in Tag |-> Empty]
  /\ run = [r \in Run |-> IdleRun]
  /\ faults = 0 /\ failed = [read |-> {}, hash |-> {}, late |-> {}]

RunStep(r) ==
  \/ ReadFiles(r) \/ SaveParsed(r) \/ ListUnhashed(r) \/ ComputeHashes(r)
  \/ SelectPrevious(r) \/ SelectCurrentHashes(r) \/ SelectPreviousHashes(r)
  \/ SaveEvents(r)

Service ==
  \/ Tick
  \/ \E t \in Tag : \/ BeginPush(t) \/ CommitPush(t) \/ RollbackPush(t)
                     \/ DeleteFiles(t) \/ DeleteRow(t)
  \/ \E e \in events : Acknowledge(e)

Next ==
  \/ Service
  \/ \E r \in Run :
       \/ StartRun(r) \/ RunStep(r)
       \/ ReadFilesCutShort(r) \/ SaveEventsUnparsed(r) \/ SkipTag(r)
  \/ Exit

Spec == Init /\ [][Next]_vars

\* Cron starts a run every minute and a run that has started goes on until its
\* end, an error or a crash; errors and crashes are finitely many.
FairSpec ==
  /\ Spec
  /\ \A r \in Run : WF_vars(StartRun(r)) /\ WF_vars(RunStep(r))

-----------------------------------------------------------------------------
(* Properties                                                              *)

EventRow == [tag_id : Tag, filename : Filename,
             event_type : {"added", "modified", "deleted"},
             previous_hash : Content \cup {NoFile},
             current_hash : Content \cup {NoFile},
             severity : Severity, acknowledged : BOOLEAN]

RunState == [pc : {"idle", "read", "save", "list", "hash", "detect", "current",
                   "previous", "save events"},
             todo : SUBSET Tag, done : SUBSET Tag, cur : Tag \cup {None},
             prev : Tag \cup {None}, files : FileMap, previous : FileMap]

\* The tables and the runs stay well formed: the severity of a saved event is
\* one the CHECK constraint of drift_events accepts, and a run has a current
\* tag, and a previous one, at every statement that uses them.
TypeOK ==
  /\ backend \in Backends /\ now \in Nat /\ faults \in Nat
  /\ stage \in [Tag -> {"absent", "begun", "void", "live", "fileless", "gone"}]
  /\ updated_at \in [Tag -> Nat]
  /\ pushed \in [Tag -> FileMap] /\ files \in [Tag -> FileMap]
  /\ parsed \in [Tag -> FileMap]
  /\ hashed \subseteq Tag /\ processed \subseteq Tag /\ meta \subseteq Tag
  /\ failed \in [read : SUBSET Tag, hash : SUBSET Tag, late : SUBSET Tag]
  /\ events \subseteq EventRow
  /\ run \in [Run -> RunState]
  /\ \A r \in Run :
       /\ run[r].pc \in {"save", "current", "previous", "save events"}
            => run[r].cur \in Tag
       /\ run[r].pc \in {"current", "previous", "save events"}
            => run[r].prev \in Tag \ {run[r].cur}

\* A tag that is marked processed has its metadata and the parsed form of
\* every file it was pushed with, whatever runs overlapped and wherever one
\* died.  Two exceptions: a delete that had removed its files first, and a read
\* of its files that broke off without GetProtoFilesForTagId noticing.
ProcessedIsParsed ==
  \A t \in processed :
    t \in meta /\ (\/ parsed[t] = pushed[t]
                   \/ stage[t] = "fileless" \/ t \in failed.read)

\* An event says what is true of the pushed files of its tag and of one older
\* tag of the module: it compares two different contents, and each of them is
\* the file's in that tag or its absence there.  A file is taken for absent
\* although it was pushed in these cases only: the files of that tag are being
\* deleted, or were, when it is the older one; its hashes could not be stored,
\* when ComputeAndStoreHashes failed; or the older tag was committed after a
\* run had listed the tags to hash.  A false "added" or "deleted" has one of
\* these causes, whatever else overlapped, failed or died.
EventsTruthful ==
  \A e \in events :
    LET t == e.tag_id
        f == e.filename
        older == {p \in Tag \ {t} : /\ ModuleOf[p] = ModuleOf[t]
                                    /\ Earlier(updated_at[p], updated_at[t])}
    IN  /\ e.event_type = EventType(e.previous_hash, e.current_hash)
        /\ e.previous_hash # e.current_hash
        /\ \/ e.current_hash = pushed[t][f]
           \/ /\ e.current_hash = NoFile
              /\ stage[t] = "fileless" \/ t \in failed.hash
        /\ \E p \in older :
             \/ e.previous_hash = pushed[p][f]
             \/ /\ e.previous_hash = NoFile
                /\ \/ stage[p] \in {"fileless", "gone"}
                   \/ p \in failed.hash \cup failed.late

\* What a change from one content to another deserves.
TrueSeverity(old, new) ==
  IF old = NoFile THEN "info" ELSE IF new = NoFile THEN "critical"
  ELSE SeverityOf[old, new]

\* When pushes do not overlap, nothing has failed and no tag of the module was
\* deleted, a quiet daemon has reported for every processed tag exactly the
\* differences from its previous tag, with the severity of the two contents,
\* however many runs overlapped.
DriftComplete ==
  SerialPush /\ backend = "postgres" /\ faults = 0
  /\ (\A r \in Run : run[r].pc = "idle") =>
    \A t \in processed :
      LET reported == {e \in events : e.tag_id = t}
          true(p, f) ==
            \E e \in reported :
              /\ e.filename = f
              /\ e.previous_hash = pushed[p][f] /\ e.current_hash = pushed[t][f]
              /\ e.severity = TrueSeverity(pushed[p][f], pushed[t][f])
      IN  (\A u \in Tag : ModuleOf[u] = ModuleOf[t]
                          => stage[u] \notin {"fileless", "gone"})
          => /\ Previous(t) # {} => \E p \in Previous(t) : \A f \in Filename :
                  pushed[p][f] # pushed[t][f] => true(p, f)
             /\ \A e \in reported : \E p \in Previous(t) :
                  /\ e.previous_hash = pushed[p][e.filename]
                  /\ e.current_hash = pushed[t][e.filename]

\* Once somebody has acknowledged an event, no rerun of the daemon opens it
\* again, neither by resetting the row nor by a second row for the same
\* change; it disappears only with its tag.
AcknowledgedStays ==
  [][\A e \in events : e.acknowledged =>
       \/ stage'[e.tag_id] = "gone"
       \/ /\ e \in events'
          /\ \A n \in events' : Key(n) = Key(e) => n.acknowledged]_vars

\* Every tag that is pushed is processed in the end, unless it is deleted:
\* runs that overlap, fail or die only delay it.
EveryTagProcessed ==
  \A t \in Tag : stage[t] = "live" ~> (t \in processed \/ stage[t] # "live")

\* protoparsing.go: "Compute and store hashes for ALL tags that don't have them
\* yet.  This ensures previous tags have hashes before we compare against
\* them".
PreviousHashedBeforeCompare ==
  \A r \in Run :
    run[r].pc = "previous" /\ files[run[r].prev] # Empty => run[r].prev \in hashed

\* GetPreviousTagID: "Find the previous STABLE tag by updated_at timestamp".
PreviousIsOlder ==
  \A r \in Run :
    run[r].pc \in {"current", "previous", "save events"} =>
      updated_at[run[r].prev] <= updated_at[run[r].cur]
=============================================================================
