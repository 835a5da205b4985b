------------------------- MODULE QueryRecordsProofs -------------------------
(***************************************************************************)
(* Proof that a query record is one and tells when it was over, for any    *)
(* number of requests and pipelines and any progress scale.                *)
(***************************************************************************)
EXTENDS QueryRecords, TLAPS

\* The type, without what the proof does not use.
RecordShape ==
    /\ records \in [Writers -> Doc \cup {NoRecord}]
    /\ writer \in [Writers -> [job : Job, step : {"new", "start", "write", "reply", "done"},
                               status : ValidStatus \cup {"absent"}, progress : 0..(MaxProgress + 1),
                               read : ValidStatus]]
    /\ answer \in [Writers -> Writers \cup {NoRecord}]
    /\ \A w \in Writers : writer[w].job = "mark" => writer[w].status \in Terminal

\* At most one record exists, and it is what every creation returned.
OneRecord ==
    /\ \A d, e \in Existing : d = e
    /\ \A w \in Writers : answer[w] # NoRecord => answer[w] \in Existing

\* A writer that read a terminal status read it of a record with a stamp, which
\* no write removes: it may leave the stamp out.
ReadStamped ==
    \A w \in Writers : writer[w].step = "write" =>
        /\ Existing # {}
        /\ writer[w].read \in Terminal => \A d \in Existing : records[d].stamps # {}

RecordInv == RecordShape /\ OneRecord /\ TerminalStamped /\ ReadStamped

-----------------------------------------------------------------------------

LEMMA RecordInitInv == RecordInit => RecordInv
  BY RecordAssumption DEF RecordInit, RecordInv, RecordShape, OneRecord, TerminalStamped,
     ReadStamped, Existing, Job, ValidStatus, Terminal

LEMMA ExistingIsDoc ==
    ASSUME RecordShape, NEW d \in Writers
    PROVE  (d \in Existing) <=> (records[d] \in Doc)
  BY NoRecordAssumption DEF RecordShape, Existing

\* The write of one record: what it must be for the invariant to stay.
LEMMA WriteRecord ==
    ASSUME RecordInv, NEW d \in Existing, NEW doc \in Doc, NEW w \in Writers,
           records' = [records EXCEPT ![d] = doc], WriterGoes(w, "done"), UNCHANGED answer,
           doc.status \in Terminal => doc.stamps # {},
           records[d].stamps # {} => doc.stamps # {}
    PROVE  RecordInv'
<1>0. d \in Writers
  BY DEF Existing
<1>1. Existing' = Existing
  BY <1>0, NoRecordAssumption DEF RecordInv, RecordShape, Existing
<1>2. RecordShape'
  BY <1>0 DEF RecordInv, RecordShape, WriterGoes
<1>3. OneRecord'
  BY <1>1 DEF RecordInv, OneRecord
<1>4. records'[d] = doc /\ \A e \in Existing : e = d
  BY <1>0 DEF RecordInv, RecordShape, OneRecord
<1>5. TerminalStamped'
  BY <1>1, <1>4 DEF TerminalStamped
<1>6. \A v \in Writers : writer'[v].step = "write" => v # w /\ writer'[v] = writer[v]
  BY DEF RecordInv, RecordShape, WriterGoes
<1>7. ReadStamped'
  BY <1>1, <1>4, <1>6 DEF RecordInv, ReadStamped
<1>. QED  BY <1>2, <1>3, <1>5, <1>7 DEF RecordInv

\* A step that leaves the records alone and brings nobody to a write.
LEMMA NoWrite ==
    ASSUME RecordInv, UNCHANGED <<records, answer>>, RecordShape',
           \A v \in Writers : writer'[v].step = "write" => writer'[v] = writer[v]
    PROVE  RecordInv'
<1>1. Existing' = Existing
  BY DEF Existing
<1>2. OneRecord' /\ TerminalStamped'
  BY <1>1 DEF RecordInv, OneRecord, TerminalStamped
<1>3. ReadStamped'
  BY <1>1 DEF RecordInv, ReadStamped
<1>. QED  BY <1>2, <1>3 DEF RecordInv

LEMMA StartsKeeps ==
    ASSUME RecordInv, NEW w \in Writers, WriterStarts(w)
    PROVE  RecordInv'
<1>1. PICK job \in Job \ {"none"}, status \in ValidStatus \cup {"absent"},
           progress \in 0..(MaxProgress + 1) :
             /\ job = "mark" => status \in Terminal
             /\ writer' = [writer EXCEPT ![w] = [@ EXCEPT !.job = job, !.step = "start",
                                          !.status = status, !.progress = progress]]
  BY DEF WriterStarts
<1>2. UNCHANGED <<records, answer>>
  BY DEF WriterStarts
<1>3. RecordShape'
  <2>. DEFINE new == [writer[w] EXCEPT !.job = job, !.step = "start",
                                       !.status = status, !.progress = progress]
  <2>1. /\ new \in [job : Job, step : {"new", "start", "write", "reply", "done"},
                     status : ValidStatus \cup {"absent"}, progress : 0..(MaxProgress + 1),
                     read : ValidStatus]
        /\ new.job = "mark" => new.status \in Terminal
    BY <1>1 DEF RecordInv, RecordShape
  <2>2. writer' = [writer EXCEPT ![w] = new]
    BY <1>1
  <2>. HIDE DEF new
  <2>. QED  BY <1>2, <2>1, <2>2 DEF RecordInv, RecordShape
<1>4. \A v \in Writers : writer'[v].step = "write" => writer'[v] = writer[v]
  BY <1>1 DEF RecordInv, RecordShape
<1>. QED  BY <1>2, <1>3, <1>4, NoWrite

LEMMA CreateKeeps ==
    ASSUME RecordInv, NEW w \in Writers, CreateRecord(w)
    PROVE  RecordInv'
<1>. DEFINE fresh == [status |-> "pending", progress |-> 0, stamps |-> {}]
<1>0. fresh \in Doc
  BY RecordAssumption DEF Doc, ValidStatus, Stamp
<1>1. RecordShape'
  <2>1. records' \in [Writers -> Doc \cup {NoRecord}]
    BY <1>0 DEF RecordInv, RecordShape, CreateRecord
  <2>2. PICK d \in Writers : answer' = [answer EXCEPT ![w] = d]
    BY DEF CreateRecord
  <2>. QED  BY <2>1, <2>2 DEF RecordInv, RecordShape, CreateRecord, WriterGoes
<1>2. PICK d \in Writers : records'[d] # NoRecord /\ answer' = [answer EXCEPT ![w] = d]
  BY DEF CreateRecord
<1>3. \A v \in Writers : writer'[v].step = "write" => writer'[v] = writer[v]
  BY DEF RecordInv, RecordShape, CreateRecord, WriterGoes
<1>4. CASE Existing # {}
  <2>1. records' = records /\ Existing' = Existing
    BY <1>4 DEF CreateRecord, Existing
  <2>2. OneRecord'
    BY <1>2, <2>1 DEF RecordInv, RecordShape, OneRecord, Existing
  <2>3. TerminalStamped' /\ ReadStamped'
    BY <1>3, <2>1 DEF RecordInv, TerminalStamped, ReadStamped
  <2>. QED  BY <1>1, <2>2, <2>3 DEF RecordInv
<1>5. CASE Existing = {}
  <2>1. records' = [records EXCEPT ![w] = fresh]
    BY <1>5 DEF CreateRecord
  <2>2. Existing' = {w} /\ records'[w] = fresh
    BY <1>0, <1>5, <2>1, NoRecordAssumption DEF RecordInv, RecordShape, Existing
  <2>3. d = w /\ \A v \in Writers : answer[v] = NoRecord
    BY <1>2, <1>5, <2>2 DEF RecordInv, OneRecord, Existing
  <2>4. OneRecord'
    BY <1>2, <2>2, <2>3 DEF RecordInv, RecordShape, OneRecord
  <2>5. TerminalStamped'
    BY <2>2 DEF TerminalStamped, Terminal
  <2>6. ReadStamped'
    BY <1>3, <1>5, <2>2 DEF RecordInv, ReadStamped
  <2>. QED  BY <1>1, <2>4, <2>5, <2>6 DEF RecordInv
<1>. QED  BY <1>4, <1>5

LEMMA ReadKeeps ==
    ASSUME RecordInv, NEW w \in Writers, ReadRecord(w)
    PROVE  RecordInv'
<1>1. PICK d \in Existing :
          writer' = [writer EXCEPT ![w] = [@ EXCEPT !.read = records[d].status,
             !.step = IF writer[w].job = "cancel" /\ records[d].status \in Terminal
                      THEN "done" ELSE "write"]]
  BY DEF ReadRecord
<1>2. UNCHANGED <<records, answer>> /\ Existing' = Existing
  BY DEF ReadRecord, Existing
<1>3. records[d] \in Doc /\ d \in Writers
  BY ExistingIsDoc DEF RecordInv, Existing
<1>. DEFINE step == IF writer[w].job = "cancel" /\ records[d].status \in Terminal
                    THEN "done" ELSE "write"
            new == [writer[w] EXCEPT !.read = records[d].status, !.step = step]
<1>4. step \in {"new", "start", "write", "reply", "done"}
  OBVIOUS
<1>. HIDE DEF step
<1>5. /\ new \in [job : Job, step : {"new", "start", "write", "reply", "done"},
                   status : ValidStatus \cup {"absent"}, progress : 0..(MaxProgress + 1),
                   read : ValidStatus]
      /\ new.job = "mark" => new.status \in Terminal
      /\ new.read = records[d].status
  BY <1>3, <1>4 DEF RecordInv, RecordShape, Doc
<1>6. writer' = [writer EXCEPT ![w] = new]
  BY <1>1 DEF step
<1>. HIDE DEF new
<1>7. RecordShape'
  BY <1>2, <1>5, <1>6 DEF RecordInv, RecordShape
<1>8. OneRecord' /\ TerminalStamped'
  BY <1>2 DEF RecordInv, OneRecord, TerminalStamped
<1>9. ReadStamped'
  <2>. SUFFICES ASSUME NEW v \in Writers, writer'[v].step = "write"
                PROVE  /\ Existing # {}
                       /\ writer'[v].read \in Terminal =>
                             \A e \in Existing : records[e].stamps # {}
    BY <1>2 DEF ReadStamped
  <2>1. CASE v = w
    BY <1>5, <1>6, <2>1 DEF RecordInv, RecordShape, TerminalStamped, OneRecord
  <2>2. CASE v # w
    BY <1>6, <2>2 DEF RecordInv, RecordShape, ReadStamped
  <2>. QED  BY <2>1, <2>2
<1>. QED  BY <1>7, <1>8, <1>9 DEF RecordInv

LEMMA PatchKeeps ==
    ASSUME RecordInv, NEW w \in Writers, PatchRecord(w)
    PROVE  RecordInv'
<1>. DEFINE doc(d) == [status |-> IF writer[w].status = "absent" THEN records[d].status
                                  ELSE writer[w].status,
                       progress |-> Clamp(writer[w].progress),
                       stamps |-> records[d].stamps \cup NewStamps(w)]
<1>1. PICK d \in Existing : records' = [records EXCEPT ![d] = doc(d)]
  BY DEF PatchRecord
<1>2. records[d] \in Doc
  BY ExistingIsDoc DEF RecordInv, Existing
<1>3. writer[w].step = "write" /\ WriterGoes(w, "done") /\ UNCHANGED answer
  BY DEF PatchRecord
<1>4. Clamp(writer[w].progress) \in 0..MaxProgress
  BY RecordAssumption DEF RecordInv, RecordShape, Clamp
<1>5. NewStamps(w) \subseteq Stamp
  BY DEF NewStamps, StampOf, Stamp
<1>6. doc(d) \in Doc
  BY <1>2, <1>4, <1>5 DEF RecordInv, RecordShape, Doc
<1>7. doc(d).status \in Terminal => doc(d).stamps # {}
  <2>1. CASE writer[w].status = "absent"
    BY <1>1, <2>1 DEF RecordInv, TerminalStamped
  <2>2. CASE writer[w].read \in Terminal
    BY <1>1, <1>3, <2>2 DEF RecordInv, ReadStamped
  <2>3. CASE writer[w].status # "absent" /\ writer[w].read \notin Terminal
    BY <2>3 DEF NewStamps
  <2>. QED  BY <2>1, <2>2, <2>3
<1>8. records[d].stamps # {} => doc(d).stamps # {}
  OBVIOUS
<1>. HIDE DEF doc
<1>. QED  BY <1>1, <1>3, <1>6, <1>7, <1>8, WriteRecord

LEMMA CancelKeeps ==
    ASSUME RecordInv, NEW w \in Writers, CancelRecord(w)
    PROVE  RecordInv'
<1>. DEFINE doc(d) == [status |-> "cancelled", progress |-> records[d].progress,
                       stamps |-> records[d].stamps \cup {"cancelled_at"}]
<1>1. PICK d \in Existing : records' = [records EXCEPT ![d] = doc(d)]
  BY DEF CancelRecord
<1>2. records[d] \in Doc
  BY ExistingIsDoc DEF RecordInv, Existing
<1>3. doc(d) \in Doc /\ doc(d).stamps # {}
  BY <1>2 DEF Doc, ValidStatus, Terminal, Stamp
<1>4. WriterGoes(w, "done") /\ UNCHANGED answer
  BY DEF CancelRecord
<1>. HIDE DEF doc
<1>. QED  BY <1>1, <1>3, <1>4, WriteRecord

LEMMA LinkKeeps ==
    ASSUME RecordInv, NEW w \in Writers, LinkSession(w)
    PROVE  RecordInv'
<1>. DEFINE doc(d) == [records[d] EXCEPT !.status = "running"]
<1>1. PICK d \in Existing : records' = [records EXCEPT ![d] = doc(d)]
  BY DEF LinkSession
<1>2. records[d] \in Doc
  BY ExistingIsDoc DEF RecordInv, Existing
<1>3. /\ doc(d) \in Doc /\ doc(d).status \notin Terminal
      /\ records[d].stamps # {} => doc(d).stamps # {}
  BY <1>2 DEF Doc, ValidStatus, Terminal
<1>4. WriterGoes(w, "done") /\ UNCHANGED answer
  BY DEF LinkSession
<1>. HIDE DEF doc
<1>. QED  BY <1>1, <1>3, <1>4, WriteRecord

LEMMA MarkKeeps ==
    ASSUME RecordInv, NEW w \in Writers, MarkQuery(w)
    PROVE  RecordInv'
<1>. DEFINE doc(d) ==
       [status |-> writer[w].status,
        progress |-> IF writer[w].status = "completed" THEN MaxProgress ELSE records[d].progress,
        stamps |-> records[d].stamps \cup {StampOf(writer[w].status)}]
<1>1. PICK d \in Existing : records' = [records EXCEPT ![d] = doc(d)]
  BY DEF MarkQuery
<1>2. records[d] \in Doc
  BY ExistingIsDoc DEF RecordInv, Existing
<1>3. writer[w].status \in Terminal
  BY DEF MarkQuery, RecordInv, RecordShape
<1>4. doc(d) \in Doc /\ doc(d).stamps # {}
  BY <1>2, <1>3, RecordAssumption DEF Doc, ValidStatus, StampOf, Stamp
<1>5. WriterGoes(w, "done") /\ UNCHANGED answer
  BY DEF MarkQuery
<1>. HIDE DEF doc
<1>. QED  BY <1>1, <1>4, <1>5, WriteRecord

LEMMA FailsKeeps ==
    ASSUME RecordInv, NEW w \in Writers, WriterFails(w)
    PROVE  RecordInv'
<1>1. RecordShape'
  BY DEF RecordInv, RecordShape, WriterFails, WriterGoes
<1>2. \A v \in Writers : writer'[v].step = "write" => writer'[v] = writer[v]
  BY DEF RecordInv, RecordShape, WriterFails, WriterGoes
<1>. QED  BY <1>1, <1>2, NoWrite DEF WriterFails

LEMMA RecordStepInv == RecordInv /\ [RecordNext]_recordVars => RecordInv'
<1>. SUFFICES ASSUME RecordInv, [RecordNext]_recordVars
              PROVE  RecordInv'
  OBVIOUS
<1>1. ASSUME NEW w \in Writers,
             \/ WriterStarts(w) \/ CreateRecord(w) \/ ReadRecord(w) \/ PatchRecord(w)
             \/ CancelRecord(w) \/ LinkSession(w) \/ MarkQuery(w) \/ WriterFails(w)
      PROVE  RecordInv'
  BY <1>1, StartsKeeps, CreateKeeps, ReadKeeps, PatchKeeps, CancelKeeps, LinkKeeps,
     MarkKeeps, FailsKeeps
<1>2. CASE UNCHANGED recordVars
  BY <1>2 DEF recordVars, RecordInv, RecordShape, OneRecord, TerminalStamped, ReadStamped,
     Existing
<1>. QED  BY <1>1, <1>2 DEF RecordNext

\* Whatever the requests and pipelines and their order: a record that is over has
\* a time stamp, and all creations with one key return the same record.
THEOREM RecordIsSound == RecordSpec => []RecordSound
<1>1. RecordInv => RecordSound
  BY DEF RecordInv, OneRecord, RecordSound, OneRecordPerKey
<1>. QED  BY <1>1, RecordInitInv, RecordStepInv, PTL DEF RecordSpec
=============================================================================
