----------------------------- MODULE ManagedFiles -----------------------------
(***************************************************************************)
(* Managed files: the content in the storage and the row in file_objects,  *)
(* which no transaction joins; the references of business records to them; *)
(* the export and import tasks of the worker, which store their results as *)
(* files; and the two jobs that remove content again.                      *)
(*                                                                         *)
(* A file is one upload: its object key is fresh, and its id follows the   *)
(* order of the uploads.  Workers select and claim tasks in two steps, as  *)
(* they may with PostgreSQL's READ COMMITTED.                              *)
(***************************************************************************)
EXTENDS Integers, FiniteSets

CONSTANTS
  Files,            \* file ids, in the order the database gives them: 1 .. n
  ExportTasks,      \* ids of import_export_tasks: 1 .. n
  TaskKinds,        \* of "log" (log export), "export" and "import" (of a business module)
  FileWorkers,      \* worker activations that process tasks
  Records,          \* business records a file can be attached to
  CleanupBatch,     \* LIMIT of a cleanup (100 in the code)
  MaxFileFaults     \* crashes, lost replies and storage failures

ASSUME FilesAssumption ==
  /\ IsFiniteSet(Files) /\ Files = 1 .. Cardinality(Files)
  /\ IsFiniteSet(ExportTasks) /\ ExportTasks = 1 .. Cardinality(ExportTasks)
  /\ TaskKinds \subseteq {"log", "export", "import"}
  /\ CleanupBatch \in Nat \ {0} /\ MaxFileFaults \in Nat

VARIABLES objects,    \* the files whose content is stored
          rows,       \* file_objects
          references, \* active file_references
          attaching,  \* attachments whose file has been looked at
          uploads,    \* where each upload is, and who uploads
          exports,    \* import_export_tasks
          handlers,   \* what each worker activation is at
          purging,    \* the files a cleanup still has to go through
          abandoned,  \* uploads that were cut off with their content stored
          deleted,    \* files an administrator has deleted
          fileFaults  \* faults so far

filesVars == <<objects, rows, references, attaching, uploads, exports, handlers, purging,
               abandoned, deleted, fileFaults>>

-----------------------------------------------------------------------------
NoFile == 0
NoTask == 0
Cleanups == {"invalid", "results"}

FileRow == [status : {"none", "active", "invalid"}, purged : BOOLEAN]  \* contentDeletedAt
UploadStep == {"none", "stored", "unconfirmed", "done", "removed"}
UploadRow == [step : UploadStep, by : FileWorkers \cup {"api"}]
TaskStatus == {"none", "pending", "running", "succeeded", "failed"}
ExportRow == [status : TaskStatus, kind : {"log", "export", "import"}, source : Files \cup {NoFile},
              result : Files \cup {NoFile}, expired : BOOLEAN]
HandlerSteps == {"idle", "selected", "working", "uploading", "completing", "failing"}
Handler == [step : HandlerSteps, task : ExportTasks \cup {NoTask},
            file : Files \cup {NoFile}]

FilesTypeOK ==
  /\ objects \subseteq Files
  /\ rows \in [Files -> FileRow]
  /\ references \subseteq Files \X Records /\ attaching \subseteq Files \X Records
  /\ uploads \in [Files -> UploadRow]
  /\ exports \in [ExportTasks -> ExportRow]
  /\ handlers \in [FileWorkers -> Handler]
  /\ purging \in [Cleanups -> SUBSET Files]
  /\ abandoned \subseteq Files /\ deleted \subseteq Files
  /\ fileFaults \in 0 .. MaxFileFaults

Resting == [step |-> "idle", task |-> NoTask, file |-> NoFile]

FilesInit ==
  /\ objects = {} /\ references = {} /\ attaching = {}
  /\ rows = [f \in Files |-> [status |-> "none", purged |-> FALSE]]
  /\ uploads = [f \in Files |-> [step |-> "none", by |-> "api"]]
  /\ exports = [t \in ExportTasks |->
                 [status |-> "none", kind |-> "log", source |-> NoFile, result |-> NoFile,
                  expired |-> FALSE]]
  /\ handlers = [w \in FileWorkers |-> Resting]
  /\ purging = [c \in Cleanups |-> {}]
  /\ abandoned = {} /\ deleted = {} /\ fileFaults = 0

Faulty == fileFaults < MaxFileFaults /\ fileFaults' = fileFaults + 1

-----------------------------------------------------------------------------
(* Uploads: put the content, insert the row, read the row back; when the    *)
(* row cannot be confirmed, remove the content again.                       *)

Put(f, by) ==
  /\ uploads[f].step = "none" /\ \A g \in Files : g < f => uploads[g].step # "none"
  /\ objects' = objects \cup {f}
  /\ uploads' = [uploads EXCEPT ![f] = [step |-> "stored", by |-> by]]

UploadFile(f) ==
  /\ Put(f, "api")
  /\ UNCHANGED <<rows, references, attaching, exports, handlers, purging, abandoned,
                 deleted, fileFaults>>

\* A worker whose upload has ended goes on with the task or fails it.
HandlerAfter(f, next) ==
  IF uploads[f].by = "api" THEN handlers
  ELSE [handlers EXCEPT ![uploads[f].by].step = next]

InsertFile(f) ==
  /\ uploads[f].step = "stored"
  /\ rows' = [rows EXCEPT ![f].status = "active"]
  /\ uploads' = [uploads EXCEPT ![f].step = "done"]
  /\ handlers' = HandlerAfter(f, "completing")
  /\ UNCHANGED <<objects, references, attaching, exports, purging, abandoned, deleted,
                 fileFaults>>

\* The INSERT fails, or it succeeds and reading the row back does not.
InsertFails(f) ==
  /\ uploads[f].step = "stored" /\ Faulty
  /\ \/ rows' = rows
     \/ rows' = [rows EXCEPT ![f].status = "active"]
  /\ uploads' = [uploads EXCEPT ![f].step = "unconfirmed"]
  /\ UNCHANGED <<objects, references, attaching, exports, handlers, purging, abandoned,
                 deleted>>

\* compensateUpload; its own failure is only reported.
Compensate(f) ==
  /\ uploads[f].step = "unconfirmed"
  /\ \/ objects' = objects \ {f} /\ UNCHANGED <<abandoned, fileFaults>>
     \/ Faulty /\ abandoned' = abandoned \cup {f} /\ UNCHANGED objects
  /\ uploads' = [uploads EXCEPT ![f].step = "removed"]
  /\ handlers' = HandlerAfter(f, "failing")
  /\ UNCHANGED <<rows, references, attaching, exports, purging, deleted>>

CutOff(by) == {f \in Files : uploads[f].by \in by /\ uploads[f].step \in {"stored", "unconfirmed"}}
Cut(by) ==
  /\ abandoned' = abandoned \cup CutOff(by)
  /\ uploads' = [f \in Files |-> IF f \in CutOff(by) THEN [uploads[f] EXCEPT !.step = "removed"]
                                 ELSE uploads[f]]

CrashApi ==
  /\ Faulty /\ Cut({"api"}) /\ attaching' = {}
  /\ UNCHANGED <<objects, rows, references, exports, handlers, purging, deleted>>

-----------------------------------------------------------------------------
(* Administrators and business modules.                                     *)

\* One transaction; the row is not looked at first.
DeleteFile(f) ==
  /\ rows[f].status # "none" /\ f \notin deleted
  /\ rows' = [rows EXCEPT ![f].status = "invalid"]
  /\ references' = {r \in references : r[1] # f}
  /\ deleted' = deleted \cup {f}
  /\ UNCHANGED <<objects, attaching, uploads, exports, handlers, purging, abandoned,
                 fileFaults>>

\* attach looks at the file, and its transaction does not look again.
CheckAttachment(f, r) ==
  /\ rows[f].status = "active" /\ <<f, r>> \notin attaching
  /\ attaching' = attaching \cup {<<f, r>>}
  /\ UNCHANGED <<objects, rows, references, uploads, exports, handlers, purging, abandoned,
                 deleted, fileFaults>>

AttachFile(f, r, single) ==
  /\ <<f, r>> \in attaching
  /\ attaching' = attaching \ {<<f, r>>}
  /\ references' = {<<f, r>>} \cup
       {other \in references : ~(single /\ <<f, r>> \notin references /\ other[2] = r)}
  /\ UNCHANGED <<objects, rows, uploads, exports, handlers, purging, abandoned, deleted,
                 fileFaults>>

DetachFile(f, r) ==
  /\ <<f, r>> \in references
  /\ references' = references \ {<<f, r>>}
  /\ UNCHANGED <<objects, rows, attaching, uploads, exports, handlers, purging, abandoned,
                 deleted, fileFaults>>

-----------------------------------------------------------------------------
(* Export and import tasks.                                                 *)

CreateTask(t, kind, source) ==
  /\ exports[t].status = "none"
  /\ IF kind = "import" THEN source \in {f \in Files : rows[f].status = "active"}
                               ELSE source = NoFile
  /\ exports' = [exports EXCEPT ![t].status = "pending", ![t].kind = kind,
                                ![t].source = source]
  /\ UNCHANGED <<objects, rows, references, attaching, uploads, handlers, purging, abandoned,
                 deleted, fileFaults>>

\* Thirty days pass after the result, or after the request of a module's task.
ResultExpires(t) ==
  /\ exports[t].status \in {"succeeded", "failed"} /\ ~exports[t].expired
  /\ exports' = [exports EXCEPT ![t].expired = TRUE]
  /\ UNCHANGED <<objects, rows, references, attaching, uploads, handlers, purging, abandoned,
                 deleted, fileFaults>>

SelectTask(w, t) ==
  /\ handlers[w].step = "idle" /\ exports[t].status = "pending"
  /\ handlers' = [handlers EXCEPT ![w] = [step |-> "selected", task |-> t, file |-> NoFile]]
  /\ UNCHANGED <<objects, rows, references, attaching, uploads, exports, purging, abandoned,
                 deleted, fileFaults>>

\* claimPendingExportTasks updates a pending row and returns the task in any
\* case; markRunning updates whatever is there.
ClaimTask(w) ==
  LET t == handlers[w].task IN
  /\ handlers[w].step = "selected"
  /\ exports' = IF exports[t].kind = "log" /\ exports[t].status # "pending" THEN exports
                ELSE [exports EXCEPT ![t].status = "running"]
  /\ handlers' = [handlers EXCEPT ![w].step = "working"]
  /\ UNCHANGED <<objects, rows, references, attaching, uploads, purging, abandoned, deleted,
                 fileFaults>>

\* readManagedCsv
Readable(f) == rows[f].status = "active" /\ f \in objects

\* The file gets written: an export, or the errors of an import.
WriteResult(w, f) ==
  LET t == handlers[w].task IN
  /\ handlers[w].step = "working"
  /\ exports[t].kind = "import" => Readable(exports[t].source)
  /\ Put(f, w)
  /\ handlers' = [handlers EXCEPT ![w].step = "uploading", ![w].file = f]
  /\ UNCHANGED <<rows, references, attaching, exports, purging, abandoned, deleted,
                 fileFaults>>

\* An import without errors writes no file.
ImportWithoutErrors(w) ==
  LET t == handlers[w].task IN
  /\ handlers[w].step = "working" /\ exports[t].kind = "import" /\ Readable(exports[t].source)
  /\ handlers' = [handlers EXCEPT ![w].step = "completing"]
  /\ UNCHANGED <<objects, rows, references, attaching, uploads, exports, purging, abandoned,
                 deleted, fileFaults>>

\* The source of an import is gone, or the module's code or the storage fails.
WorkFails(w) ==
  LET t == handlers[w].task IN
  /\ handlers[w].step = "working"
  /\ \/ exports[t].kind = "import" /\ ~Readable(exports[t].source) /\ UNCHANGED fileFaults
     \/ Faulty
  /\ handlers' = [handlers EXCEPT ![w].step = "failing"]
  /\ UNCHANGED <<objects, rows, references, attaching, uploads, exports, purging, abandoned,
                 deleted>>

\* A module's task with an error file is failed; a log export counts its
\* thirty days from here.
CompleteTask(w) ==
  LET t == handlers[w].task
      errors == exports[t].kind = "import" /\ handlers[w].file # NoFile
  IN
  /\ handlers[w].step = "completing"
  /\ exports' = [exports EXCEPT ![t].status = IF errors THEN "failed" ELSE "succeeded",
                                ![t].result = handlers[w].file,
                                ![t].expired = IF exports[t].kind = "log" THEN FALSE ELSE @]
  /\ handlers' = [handlers EXCEPT ![w] = Resting]
  /\ UNCHANGED <<objects, rows, references, attaching, uploads, purging, abandoned, deleted,
                 fileFaults>>

\* failTask, markFailed
FailTask(w) ==
  /\ handlers[w].step = "failing"
  /\ exports' = [exports EXCEPT ![handlers[w].task].status = "failed"]
  /\ handlers' = [handlers EXCEPT ![w] = Resting]
  /\ UNCHANGED <<objects, rows, references, attaching, uploads, purging, abandoned, deleted,
                 fileFaults>>

\* The task stays running: nothing selects it any more.
CrashWorker(w) ==
  /\ handlers[w].step # "idle" /\ Faulty /\ Cut({w})
  /\ handlers' = [handlers EXCEPT ![w] = Resting]
  /\ UNCHANGED <<objects, rows, references, attaching, exports, purging, deleted>>

-----------------------------------------------------------------------------
(* The cleanup jobs.                                                        *)

Lowest(ids) == {i \in ids : Cardinality({j \in ids : j <= i}) <= CleanupBatch}

\* Mutant: files whose content is gone are selected again.
InvalidFiles == {f \in Files : rows[f].status = "invalid"}

\* Mutant: the thirty days are not looked at.
FinishedTasks == {t \in ExportTasks : exports[t].result # NoFile}

Unpurged == {f \in Files : rows[f].status = "invalid" /\ ~rows[f].purged}
ExpiredTasks == {t \in ExportTasks : exports[t].expired}
ExpiredFiles == {exports[t].result : t \in Lowest(ExpiredTasks)} \ {NoFile}

StartFileCleanup ==
  /\ purging["invalid"] = {} /\ Unpurged # {}
  /\ purging' = [purging EXCEPT !["invalid"] = Lowest(Unpurged)]
  /\ UNCHANGED <<objects, rows, references, attaching, uploads, exports, handlers, abandoned,
                 deleted, fileFaults>>

\* The files are invalidated in one transaction; their references are not.
StartResultCleanup ==
  /\ purging["results"] = {} /\ ExpiredFiles # {}
  /\ purging' = [purging EXCEPT !["results"] = ExpiredFiles]
  /\ rows' = [f \in Files |-> IF f \in ExpiredFiles THEN [rows[f] EXCEPT !.status = "invalid"]
                              ELSE rows[f]]
  /\ UNCHANGED <<objects, references, attaching, uploads, exports, handlers, abandoned,
                 deleted, fileFaults>>

\* deleteFileContents, one file at a time, in the order of the ids.
Purge(c, f) ==
  /\ f \in purging[c] /\ \A g \in purging[c] : f <= g
  /\ purging' = [purging EXCEPT ![c] = @ \ {f}]
  /\ objects' = objects \ {f}
  /\ \/ rows' = [rows EXCEPT ![f].purged = TRUE] /\ UNCHANGED fileFaults
     \/ Faulty /\ UNCHANGED rows       \* the UPDATE fails
  /\ UNCHANGED <<references, attaching, uploads, exports, handlers, abandoned, deleted>>

PurgeFails(c, f) ==
  /\ f \in purging[c] /\ \A g \in purging[c] : f <= g
  /\ Faulty
  /\ purging' = [purging EXCEPT ![c] = @ \ {f}]
  /\ UNCHANGED <<objects, rows, references, attaching, uploads, exports, handlers, abandoned,
                 deleted>>

\* The process of a cleanup ends: the next one selects again.
CleanupCrashes(c) ==
  /\ purging[c] # {} /\ Faulty
  /\ purging' = [purging EXCEPT ![c] = {}]
  /\ UNCHANGED <<objects, rows, references, attaching, uploads, exports, handlers, abandoned,
                 deleted>>

Work(w) ==
  \/ ClaimTask(w) \/ ImportWithoutErrors(w) \/ WorkFails(w) \/ CompleteTask(w) \/ FailTask(w)
  \/ \E f \in Files : WriteResult(w, f)

Cleaning == StartFileCleanup \/ StartResultCleanup
              \/ \E c \in Cleanups, f \in Files : Purge(c, f)

FilesNext ==
  \/ \E f \in Files : UploadFile(f) \/ InsertFile(f) \/ InsertFails(f) \/ Compensate(f)
                      \/ DeleteFile(f)
  \/ CrashApi
  \/ \E f \in Files, r \in Records :
       \/ CheckAttachment(f, r) \/ DetachFile(f, r)
       \/ \E single \in BOOLEAN : AttachFile(f, r, single)
  \/ \E t \in ExportTasks :
       \/ ResultExpires(t)
       \/ \E kind \in TaskKinds, source \in Files \cup {NoFile} : CreateTask(t, kind, source)
       \/ \E w \in FileWorkers : SelectTask(w, t)
  \/ \E w \in FileWorkers : Work(w) \/ CrashWorker(w)
  \/ Cleaning
  \/ \E c \in Cleanups : CleanupCrashes(c) \/ \E f \in Files : PurgeFails(c, f)

\* Scheduled jobs run again and again, and run to their end.
FilesFairness == /\ WF_filesVars(StartFileCleanup) /\ WF_filesVars(StartResultCleanup)
                 /\ \A c \in Cleanups : WF_filesVars(\E f \in Files : Purge(c, f))

FilesSpec == FilesInit /\ [][FilesNext]_filesVars /\ FilesFairness

-----------------------------------------------------------------------------
(* Properties.                                                              *)

\* Content goes after the row has become invalid, never before: what an active
\* row names can be read, except after an upload whose row was inserted and
\* could not be read back.
ActiveHasContent ==
  \A f \in Files :
     rows[f].status = "active" /\ f \notin objects => uploads[f].step = "removed"

\* No content is left behind: what is stored has a row, is being uploaded, or
\* belongs to an upload that was cut off.
StoredIsKnown ==
  \A f \in objects :
     rows[f].status = "none" => uploads[f].step \in {"stored", "unconfirmed"} \/ f \in abandoned

\* An export keeps its result until it expires or an administrator deletes the
\* file, whatever the cleanups and other workers do meanwhile.
ResultsAreKept ==
  \A t \in ExportTasks :
     LET f == exports[t].result IN
     f # NoFile /\ ~exports[t].expired /\ f \notin deleted
       => rows[f].status = "active" /\ f \in objects

\* Rows, content and results agree, however uploads, tasks, deletions and
\* cleanups interleave and wherever a process stops.
FilesAreSound == FilesTypeOK /\ ActiveHasContent /\ StoredIsKnown /\ ResultsAreKept

\* The content of an invalid file is removed at last, though the storage and
\* the job may fail on the way.
InvalidIsPurged ==
  \A f \in Files : rows[f].status = "invalid" ~> rows[f].purged /\ f \notin objects

\* A result is removed some time after it has expired.
ExpiredIsPurged ==
  \A t \in ExportTasks :
     exports[t].expired /\ exports[t].result # NoFile
       ~> (exports[t].result = NoFile \/ rows[exports[t].result].purged)
=============================================================================
