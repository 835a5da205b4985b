---------------------------- MODULE QueryRecords ----------------------------
(***************************************************************************)
(* One query record of MongoDB and everybody who writes it: the routes of  *)
(* api/query_record_routes.py (create, PATCH, cancel), and the pipelines   *)
(* through api/_query_persistence.py, all by update_query_record of        *)
(* infrastructure/chat_store.py.                                           *)
(*                                                                         *)
(* The routes read the record and write it in a later step.  The client    *)
(* may submit the creation twice.                                          *)
(***************************************************************************)
EXTENDS Naturals, FiniteSets

CONSTANTS
    Writers,            \* requests and pipeline tasks that touch the record
    MaxProgress,        \* 100
    NoRecord            \* the record does not exist

ASSUME RecordAssumption ==
    /\ IsFiniteSet(Writers)
    /\ MaxProgress \in Nat \ {0}

Terminal == {"completed", "failed", "cancelled"}

ValidStatus == {"pending", "running"} \cup Terminal

VARIABLES
    records,    \* the records with the client's key, by the writer that inserted them
    writer,     \* writer[w]: the request or task
    answer      \* answer[w]: the record a creation returned, if any

recordVars == <<records, writer, answer>>

Stamp == {"completed_at", "cancelled_at"}

Doc == [status : ValidStatus, progress : 0..MaxProgress, stamps : SUBSET Stamp]

ASSUME NoRecordAssumption == NoRecord \notin Doc \cup Writers

Job == {"none", "create", "patch", "cancel", "link", "mark"}

RecordTypeOK ==
    /\ records \in [Writers -> Doc \cup {NoRecord}]
    /\ writer \in [Writers -> [job : Job, step : {"new", "start", "write", "reply", "done"},
                               status : ValidStatus \cup {"absent"}, progress : 0..(MaxProgress + 1),
                               read : ValidStatus]]
    /\ answer \in [Writers -> Writers \cup {NoRecord}]

RecordInit ==
    /\ records = [w \in Writers |-> NoRecord]
    /\ writer = [w \in Writers |-> [job |-> "none", step |-> "new", status |-> "absent",
                                    progress |-> 0, read |-> "pending"]]
    /\ answer = [w \in Writers |-> NoRecord]

-----------------------------------------------------------------------------
Existing == {w \in Writers : records[w] # NoRecord}

WriterGoes(w, step) == writer' = [writer EXCEPT ![w].step = step]

\* A request of the client or a step of a pipeline that knows the record.
WriterStarts(w) ==
    /\ writer[w].step = "new"
    /\ \E job \in Job \ {"none"}, status \in ValidStatus \cup {"absent"},
          progress \in 0..(MaxProgress + 1) :
          /\ job # "create" => Existing # {}
          /\ job = "mark" => status \in Terminal
          /\ job \notin {"patch", "mark"} => status = "absent"
          /\ job # "patch" => progress = 0
          /\ writer' = [writer EXCEPT ![w] = [@ EXCEPT !.job = job, !.step = "start",
                                       !.status = status, !.progress = progress]]
    /\ UNCHANGED <<records, answer>>

\* create_query_record: an upsert on the key the client sent.
CreateRecord(w) ==
    /\ writer[w].job = "create" /\ writer[w].step = "start"
    /\ records' = IF Existing # {} THEN records
                  ELSE [records EXCEPT ![w] =
                          [status |-> "pending", progress |-> 0, stamps |-> {}]]
    /\ \E d \in Writers : records'[d] # NoRecord /\ answer' = [answer EXCEPT ![w] = d]
    /\ WriterGoes(w, "done")

\* The route of PATCH and cancel_query_record read the record.
ReadRecord(w) ==
    /\ writer[w].job \in {"patch", "cancel"} /\ writer[w].step = "start"
    /\ \E d \in Existing :
          writer' = [writer EXCEPT ![w] = [@ EXCEPT !.read = records[d].status,
             !.step = IF writer[w].job = "cancel" /\ records[d].status \in Terminal
                      THEN "done" ELSE "write"]]
    /\ UNCHANGED <<records, answer>>

Clamp(n) == IF n > MaxProgress THEN MaxProgress ELSE n

StampOf(status) == IF status = "cancelled" THEN "cancelled_at" ELSE "completed_at"

\* Faulty variant: only a successful end is stamped.
NewStampsSuccess(w) ==
    IF writer[w].status = "completed" /\ writer[w].read \notin Terminal
    THEN {StampOf(writer[w].status)} ELSE {}

\* "Auto-stamp completed_at when status flips to a terminal value", judged by the
\* status that was read.
NewStamps(w) ==
    IF writer[w].status \in Terminal /\ writer[w].read \notin Terminal
    THEN {StampOf(writer[w].status)} ELSE {}

\* PATCH: the $set of the fields sent and the stamp.
PatchRecord(w) ==
    /\ writer[w].job = "patch" /\ writer[w].step = "write"
    /\ \E d \in Existing :
          records' = [records EXCEPT ![d] =
                       [status |-> IF writer[w].status = "absent" THEN @.status
                                   ELSE writer[w].status,
                        progress |-> Clamp(writer[w].progress),
                        stamps |-> @.stamps \cup NewStamps(w)]]
    /\ WriterGoes(w, "done")
    /\ UNCHANGED answer

\* cancel_query_record writes what it decided when it read.
CancelRecord(w) ==
    /\ writer[w].job = "cancel" /\ writer[w].step = "write"
    /\ \E d \in Existing :
          records' = [records EXCEPT ![d] = [status |-> "cancelled", progress |-> @.progress,
                                             stamps |-> @.stamps \cup {"cancelled_at"}]]
    /\ WriterGoes(w, "done")
    /\ UNCHANGED answer

\* A pipeline that starts links itself to the record and sets it running.
LinkSession(w) ==
    /\ writer[w].job = "link" /\ writer[w].step = "start"
    /\ \E d \in Existing : records' = [records EXCEPT ![d].status = "running"]
    /\ WriterGoes(w, "done")
    /\ UNCHANGED answer

\* mark_query_completed, mark_query_failed, mark_query_cancelled.
MarkQuery(w) ==
    /\ writer[w].job = "mark" /\ writer[w].step = "start"
    /\ \E d \in Existing :
          records' = [records EXCEPT ![d] =
             [status |-> writer[w].status,
              progress |-> IF writer[w].status = "completed" THEN MaxProgress ELSE @.progress,
              stamps |-> @.stamps \cup {StampOf(writer[w].status)}]]
    /\ WriterGoes(w, "done")
    /\ UNCHANGED answer

\* A write that fails for good: HTTP 500, or a warning in the log of the pipeline.
WriterFails(w) ==
    /\ writer[w].step \in {"start", "write"}
    /\ WriterGoes(w, "done")
    /\ UNCHANGED <<records, answer>>

RecordNext ==
    \E w \in Writers : \/ WriterStarts(w) \/ CreateRecord(w) \/ ReadRecord(w)
                       \/ PatchRecord(w) \/ CancelRecord(w) \/ LinkSession(w)
                       \/ MarkQuery(w) \/ WriterFails(w)

RecordSpec == RecordInit /\ [][RecordNext]_recordVars

-----------------------------------------------------------------------------
(* Properties *)

\* A record that is over says when: whatever the order of pipelines, PATCHes and
\* cancellations, and though the route decides on the stamp by a status read
\* earlier, a terminal status never stands without a time stamp.
TerminalStamped == \A d \in Existing : records[d].status \in Terminal => records[d].stamps # {}

\* Creations with one key all return the same record ("POST safe to retry").
OneRecordPerKey ==
    \A v, w \in Writers : answer[v] # NoRecord /\ answer[w] # NoRecord => answer[v] = answer[w]

\* Both: a record is one, and tells when it was over.
RecordSound == TerminalStamped /\ OneRecordPerKey

=============================================================================
