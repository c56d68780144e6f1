------------------------------ MODULE StateBackup ------------------------------
(***************************************************************************)
(* The small JSON files the server owns: an evaluation report, a custom     *)
(* test set and a verification receipt, written by their stores, exported   *)
(* to and restored from an archive by state_backup.py, a program of its     *)
(* own.  Every writer writes a temporary file and renames it.               *)
(***************************************************************************)
EXTENDS Integers, FiniteSets

CONSTANTS
    Kept,      \* schemas of the files there may be at the start
    Values,    \* what tells the contents of two files apart
    MaxSaves,  \* bound: saves of the server
    MaxJobs    \* bound: runs of the tool

VARIABLES
    online,    \* the server saves while the tool runs
    file, temp, staged, \* per kind: the file, `.json.tmp` and `.json.restore-tmp`
    writer,    \* writer[k]: the save under way
    archive,   \* [entries, sound], or NoArchive
    job,       \* the run of the tool
    before,    \* the files when it began
    saves, jobs

vars == <<online, file, temp, staged, writer, archive, job, before, saves, jobs>>

Kinds == {"report", "set", "receipt"}
Absent == [schema |-> "none", body |-> FALSE, value |-> 0]
\* A file that has been opened and not been written to the end.
Torn == [schema |-> "torn", body |-> FALSE, value |-> 0]
Contents == [schema : {"legacy", "one", "future"}, body : BOOLEAN, value : Values]
NoArchive == [entries |-> [k \in {} |-> Absent], sound |-> FALSE]
NoJob == [pc |-> "idle", replace |-> FALSE, todo |-> {}, done |-> {}, open |-> "none",
          read |-> NoArchive.entries, result |-> "none"]
NoSave == [pc |-> "idle", content |-> Absent]
Nothing == [k \in Kinds |-> Absent]

Init ==
    /\ online \in BOOLEAN
    /\ file \in [Kinds -> {Absent} \cup [schema : Kept, body : {TRUE}, value : {1}]]
    /\ temp = Nothing /\ staged = Nothing /\ before = Nothing
    /\ writer = [k \in Kinds |-> NoSave]
    /\ archive = NoArchive /\ job = NoJob
    /\ saves = 0 /\ jobs = 0

-----------------------------------------------------------------------------
(* The formats. *)

\* What may be exported and restored.  body stands for the rest of the format: the
\* manifest and the name of a report, the samples and expectations of a test set and
\* its name, the fields of a receipt.
ValidReport(c) == c.body /\ c.schema \in {"legacy", "one"}
ValidSet(c) == c.body /\ c.schema = "one"
ValidReceipt(c) == c.body /\ c.schema \in {"legacy", "one"}

Valid(k, c) == CASE k = "report" -> ValidReport(c)
                 [] k = "set" -> ValidSet(c)
                 [] k = "receipt" -> ValidReceipt(c)

\* What the stores can read back: the history does not look at a report's schema, and
\* a receipt is read as it is, not from the wrapping that schema 1 allows.
ReadableReport(c) == c.body
ReadableSet(c) == c.body /\ c.schema = "one"
ReadableReceipt(c) == c.body /\ c.schema # "one"

Readable(k, c) == CASE k = "report" -> ReadableReport(c)
                    [] k = "set" -> ReadableSet(c)
                    [] k = "receipt" -> ReadableReceipt(c)

-----------------------------------------------------------------------------
(* Saves: EvaluationStore, CustomTestSetStore, ArtifactVerificationStore. *)

Idle == job.pc = "idle"

Save(k, replace, schema) ==
    /\ writer[k].pc = "idle" /\ saves < MaxSaves /\ (online \/ Idle)
    /\ saves' = saves + 1
    /\ \E v \in Values :
          IF file[k] # Absent /\ ~replace
          THEN UNCHANGED writer
          ELSE writer' = [writer EXCEPT ![k] =
                  [pc |-> "open", content |-> [schema |-> schema, body |-> TRUE, value |-> v]]]
    /\ UNCHANGED <<online, file, temp, staged, archive, job, before, jobs>>

\* A report is never replaced, a test set when the upload says so, a receipt always.
SaveReport == Save("report", FALSE, "legacy")
SaveSet == \E replace \in BOOLEAN : Save("set", replace, "one")
SaveReceipt == Save("receipt", TRUE, "legacy")

SaveOpen(k) ==
    /\ writer[k].pc = "open"
    /\ temp' = [temp EXCEPT ![k] = Torn]
    /\ writer' = [writer EXCEPT ![k].pc = "write"]
    /\ UNCHANGED <<online, file, staged, archive, job, before, saves, jobs>>

SaveWrite(k) ==
    /\ writer[k].pc = "write"
    /\ temp' = [temp EXCEPT ![k] = writer[k].content]
    /\ writer' = [writer EXCEPT ![k].pc = "rename"]
    /\ UNCHANGED <<online, file, staged, archive, job, before, saves, jobs>>

SaveRename(k) ==
    /\ writer[k].pc = "rename"
    /\ file' = [file EXCEPT ![k] = temp[k]]
    /\ temp' = [temp EXCEPT ![k] = Absent]
    /\ writer' = [writer EXCEPT ![k] = NoSave]
    /\ UNCHANGED <<online, staged, archive, job, before, saves, jobs>>

\* The disk is full, or the server is killed.
SaveStops(k) ==
    /\ writer[k].pc # "idle"
    /\ writer' = [writer EXCEPT ![k] = NoSave]
    /\ UNCHANGED <<online, file, temp, staged, archive, job, before, saves, jobs>>

-----------------------------------------------------------------------------
(* Export: every file is read and validated, one after the other. *)

Quiet == online \/ \A k \in Kinds : writer[k].pc = "idle"

Begins(pc, replace, todo) ==
    /\ Idle /\ Quiet /\ jobs < MaxJobs
    /\ jobs' = jobs + 1
    /\ before' = file
    /\ job' = [NoJob EXCEPT !.pc = pc, !.replace = replace, !.todo = todo]

Ends(result) == job' = [NoJob EXCEPT !.pc = "done", !.replace = job.replace, !.result = result]

ExportBegin ==
    /\ Begins("export", FALSE, {k \in Kinds : file[k] # Absent})
    /\ UNCHANGED <<online, file, temp, staged, writer, archive, saves>>

ExportFile(k) ==
    /\ job.pc = "export" /\ k \in job.todo
    /\ IF Valid(k, file[k])
       THEN job' = [job EXCEPT !.todo = @ \ {k},
                       !.read = [i \in DOMAIN @ \cup {k} |-> IF i = k THEN file[k] ELSE @[i]]]
       ELSE Ends("refused")
    /\ UNCHANGED <<online, file, temp, staged, writer, archive, before, saves, jobs>>

\* The archive replaces an older one by a rename.
ExportEnd ==
    /\ job.pc = "export" /\ job.todo = {}
    /\ archive' = [entries |-> job.read, sound |-> TRUE]
    /\ Ends("exported")
    /\ UNCHANGED <<online, file, temp, staged, writer, before, saves, jobs>>

\* Somebody edits the archive: its checksums, or its schema, no longer hold.
Tamper ==
    /\ Idle /\ archive.sound
    /\ archive' = [archive EXCEPT !.sound = FALSE]
    /\ UNCHANGED <<online, file, temp, staged, writer, job, before, saves, jobs>>

\* The machine loses files, or another machine has none.
Lose(k) ==
    /\ Idle /\ Quiet /\ file[k] # Absent
    /\ file' = [file EXCEPT ![k] = Absent]
    /\ UNCHANGED <<online, temp, staged, writer, archive, job, before, saves, jobs>>

-----------------------------------------------------------------------------
(* Restore. *)

RestoreBegin ==
    /\ archive # NoArchive
    /\ \E replace \in BOOLEAN : Begins("validate", replace, DOMAIN archive.entries)
    /\ UNCHANGED <<online, file, temp, staged, writer, archive, saves>>

\* validate_archive, before anything is written.
RestoreValidate ==
    /\ job.pc = "validate"
    /\ IF archive.sound /\ \A k \in job.todo : Valid(k, archive.entries[k])
       THEN job' = [job EXCEPT !.pc = "check"]
       ELSE Ends("refused")
    /\ UNCHANGED <<online, file, temp, staged, writer, archive, before, saves, jobs>>

Occupied(k) == file[k] # Absent

RestoreCheck ==
    /\ job.pc = "check"
    /\ IF job.replace \/ ~\E k \in job.todo : Occupied(k)
       THEN job' = [job EXCEPT !.pc = "stage"]
       ELSE Ends("refused")
    /\ UNCHANGED <<online, file, temp, staged, writer, archive, before, saves, jobs>>

\* Mutant of StageOpen: the content goes to the file itself.
StageOpenInPlace(k) ==
    /\ job.pc = "stage" /\ k \in job.todo \ job.done /\ job.open = "none"
    /\ file' = [file EXCEPT ![k] = Torn]
    /\ job' = [job EXCEPT !.open = k]
    /\ UNCHANGED <<online, temp, staged, writer, archive, before, saves, jobs>>

\* write_bytes; what an earlier run has left there is overwritten.
StageOpen(k) ==
    /\ job.pc = "stage" /\ k \in job.todo \ job.done /\ job.open = "none"
    /\ staged' = [staged EXCEPT ![k] = Torn]
    /\ job' = [job EXCEPT !.open = k]
    /\ UNCHANGED <<online, file, temp, writer, archive, before, saves, jobs>>

StageWrite(k) ==
    /\ job.pc = "stage" /\ job.open = k
    /\ staged' = [staged EXCEPT ![k] = archive.entries[k]]
    /\ job' = [job EXCEPT !.open = "none", !.done = @ \cup {k}]
    /\ UNCHANGED <<online, file, temp, writer, archive, before, saves, jobs>>

StageEnd ==
    /\ job.pc = "stage"
    /\ job.done = job.todo
    /\ job' = [job EXCEPT !.pc = "promote"]
    /\ UNCHANGED <<online, file, temp, staged, writer, archive, before, saves, jobs>>

Promote(k) ==
    /\ job.pc = "promote" /\ k \in job.todo
    /\ file' = [file EXCEPT ![k] = staged[k]]
    /\ staged' = [staged EXCEPT ![k] = Absent]
    /\ job' = [job EXCEPT !.todo = @ \ {k}]
    /\ UNCHANGED <<online, temp, writer, archive, before, saves, jobs>>

RestoreEnd ==
    /\ job.pc = "promote" /\ job.todo = {}
    /\ Ends("restored")
    /\ UNCHANGED <<online, file, temp, staged, writer, archive, before, saves, jobs>>

\* Staging or a rename fails: the finally clause removes what had been staged to the
\* end; a file that broke off stays.
RestoreFails ==
    /\ job.pc \in {"stage", "promote"}
    /\ staged' = [k \in Kinds |-> IF k \in job.done THEN Absent ELSE staged[k]]
    /\ Ends(IF job.pc = "stage" THEN "refused" ELSE "halfway")
    /\ UNCHANGED <<online, file, temp, writer, archive, before, saves, jobs>>

Killed ==
    /\ job.pc \notin {"idle", "done"}
    /\ Ends(IF job.pc = "promote" THEN "halfway" ELSE "refused")
    /\ UNCHANGED <<online, file, temp, staged, writer, archive, before, saves, jobs>>

Return ==
    /\ job.pc = "done"
    /\ job' = NoJob
    /\ UNCHANGED <<online, file, temp, staged, writer, archive, before, saves, jobs>>

Next ==
    \/ \E k \in Kinds :
          SaveOpen(k) \/ SaveWrite(k) \/ SaveRename(k) \/ SaveStops(k)
          \/ ExportFile(k) \/ Lose(k) \/ StageOpen(k) \/ StageWrite(k) \/ Promote(k)
    \/ SaveReport \/ SaveSet \/ SaveReceipt
    \/ ExportBegin \/ ExportEnd \/ Tamper \/ RestoreBegin \/ RestoreValidate \/ RestoreCheck
    \/ StageEnd \/ RestoreEnd \/ RestoreFails \/ Killed \/ Return

Spec == Init /\ [][Next]_vars

-----------------------------------------------------------------------------
(* Properties. *)

TypeOK ==
    /\ \A k \in Kinds : {file[k], temp[k], staged[k]} \subseteq Contents \cup {Absent, Torn}
    /\ archive.entries \in [DOMAIN archive.entries -> Contents] /\ job.todo \subseteq Kinds

\* Whatever is killed or fails, and even with server and tool at work together, a
\* reader finds a file whole or not at all.
FilesAreWhole == \A k \in Kinds : file[k] # Torn

\* With the server stopped (state-recovery.md: "Existing target files fail the restore
\* by default ...; unrelated files are never deleted"): a restore writes archived
\* content only, over existing files only when told so; refused it has changed
\* nothing, and finished it has restored everything.
RestoreIsFaithful ==
    ~online /\ ~Idle =>
        /\ \A k \in Kinds :
              \/ file[k] = before[k]
              \/ /\ k \in DOMAIN archive.entries /\ file[k] = archive.entries[k]
                 /\ job.replace \/ before[k] = Absent
        /\ job.result = "refused" => file = before
        /\ job.result = "restored" =>
              \A k \in DOMAIN archive.entries : /\ file[k] = archive.entries[k]
                                                /\ staged[k] = Absent

=============================================================================
