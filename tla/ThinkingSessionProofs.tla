------------------------ MODULE ThinkingSessionProofs ------------------------
(***************************************************************************)
(* Proofs about ThinkingSession for any number of replicas, requests and   *)
(* phases: its type invariant, that a completed query record implies a     *)
(* complete chat history when no write is lost, and that the outcome in    *)
(* the memory of the session's own replica is settled.                     *)
(***************************************************************************)
EXTENDS ThinkingSession, TLAPS

\* The stages of the runner after the final status was written to memory.
Closing == {"save_final", "say_user", "say_assistant", "mark", "ended"}

\* What the runner has stored of the conversation at each stage.
HistoryInv ==
    /\ run = "say_assistant" => "user" \in chat
    /\ run = "mark" /\ payload.status = "completed" =>
          /\ "user" \in chat
          /\ payload.result = "text" => "assistant" \in chat
    /\ record = "completed" =>
          /\ \/ run \in {"ended", "dead"}
             \/ run \in {"save_final", "mark"} /\ payload.status = "cancelled"
          /\ "user" \in chat
          /\ payload.result = "text" => "assistant" \in chat

ReqType == [kind : {"none"} \cup Kinds, at : Replicas \cup {Nobody},
            step : ReqStep, copy : Copy]

\* Only an idle runner has no replica, and what the runner stamps the record
\* with is a final status.
RunInv ==
    /\ home = Nobody => run = "idle"
    /\ run \in Closing \ {"ended"} => payload.status \in Final

-----------------------------------------------------------------------------
\* Writing a status into a session dictionary keeps it one, and changes only
\* the status.
LEMMA WithStatus ==
    ASSUME NEW k \in Copy, NEW s \in {"started", "in_progress"} \cup Final
    PROVE  /\ [k EXCEPT !.status = s] \in Copy
           /\ [k EXCEPT !.status = s].status = s
           /\ [k EXCEPT !.status = s].result = k.result
  BY DEF Copy, Final

\* The same for the end of a phase.
LEMMA WithPhase ==
    ASSUME NEW k \in Copy, k.done < Phases, NEW x \in {k.result, "text"}
    PROVE  /\ [k EXCEPT !.done = @ + 1, !.result = x] \in Copy
           /\ [k EXCEPT !.done = @ + 1, !.result = x].status = k.status
<1> DEFINE d == k.done + 1
<1>1. d \in 0..Phases
  BY ThinkingAssumption DEF Copy
<1>2. x \in {"none", "text"}
  BY DEF Copy
<1> HIDE DEF d
<1>3. [k EXCEPT !.done = d, !.result = x] \in Copy
  BY <1>1, <1>2 DEF Copy
<1>4. [k EXCEPT !.done = d, !.result = x].status = k.status
  BY DEF Copy
<1>5. QED
  BY <1>3, <1>4 DEF d

LEMMA NoCopyType == NoCopy \in Copy /\ NoCopy.status = "absent"
  BY ThinkingAssumption DEF NoCopy, Copy

LEMMA CancelledType ==
    ASSUME NEW k \in Copy
    PROVE  Cancelled(k) \in Copy /\ Cancelled(k).status = "cancelled"
  BY WithStatus DEF Cancelled, Final

\* One step of the type invariant, together with RunInv.
LEMMA TypeStep ==
    ASSUME TypeOK, RunInv, [Next]_vars
    PROVE  TypeOK' /\ RunInv'
<1> USE DEF TypeOK, RunInv, Closing
<1>1. CASE UNCHANGED vars
  BY <1>1 DEF vars
<1>2. ASSUME NEW r \in Replicas, StartThink(r)
      PROVE  TypeOK' /\ RunInv'
  <2> DEFINE new == [NoCopy EXCEPT !.status = "started"]
  <2>1. new \in Copy
    BY NoCopyType, WithStatus
  <2>2. mem' = [mem EXCEPT ![r] = new] /\ payload' = new
    BY <1>2 DEF StartThink, Mutate
  <2> HIDE DEF new
  <2>3. mem' \in [Replicas -> Copy] /\ payload' \in Copy
    BY <2>1, <2>2
  <2>4. QED
    BY <1>2, <2>3, ThinkingAssumption DEF StartThink, RunStep, Saving
<1>3. CASE LinkRecord
  BY <1>3 DEF LinkRecord, Written, RunStep
<1>4. ASSUME NEW k \in Copy, NEW s \in Saving, run # "idle", MutateAndSave(k, s)
      PROVE  /\ mem' \in [Replicas -> Copy]
             /\ payload' = k
             /\ run' = s
             /\ run' \in RunStep
  BY <1>4 DEF MutateAndSave, Mutate, RunStep
<1>5. run # "idle" => home \in Replicas /\ mem[home] \in Copy
  OBVIOUS
<1>6. CASE Begin
  <2>1. [mem[home] EXCEPT !.status = "in_progress"] \in Copy
    BY <1>5, <1>6, WithStatus DEF Begin
  <2>2. QED
    BY <1>4, <1>6, <2>1 DEF Begin, Saving, MutateAndSave
<1>7. CASE PhaseEnds
  <2>1. PICK x \in {mem[home].result, "text"} :
           MutateAndSave([mem[home] EXCEPT !.done = @ + 1, !.result = x], "save_phase")
    BY <1>7 DEF PhaseEnds
  <2>2. [mem[home] EXCEPT !.done = @ + 1, !.result = x] \in Copy
    BY <1>5, <1>7, WithPhase DEF PhaseEnds
  <2>3. QED
    BY <1>4, <1>7, <2>1, <2>2 DEF PhaseEnds, Saving, MutateAndSave
<1>8. CASE Completes
  <2> DEFINE k == [mem[home] EXCEPT !.status = "completed"]
  <2>1. k \in Copy /\ k.status \in Final
    BY <1>5, <1>8, WithStatus DEF Completes, Final
  <2>2. MutateAndSave(k, "save_final")
    BY <1>8 DEF Completes
  <2> HIDE DEF k
  <2>3. mem' \in [Replicas -> Copy] /\ payload' = k /\ run' \in RunStep
    BY <1>4, <1>8, <2>1, <2>2 DEF Completes, Saving
  <2>4. QED
    BY <1>8, <2>1, <2>3 DEF Completes
<1>9. ASSUME NEW s \in Final, StoppedAs(s)
      PROVE  TypeOK' /\ RunInv'
  <2> DEFINE k == [mem[home] EXCEPT !.status = s]
  <2>1. k \in Copy /\ k.status \in Final
    BY <1>5, <1>9, WithStatus DEF StoppedAs
  <2>2. redis' \in Copy
    BY <1>9 DEF StoppedAs
  <2>3. MutateAndSave(k, "save_final")
    BY <1>9 DEF StoppedAs
  <2>4. run # "idle"
    BY <1>9 DEF StoppedAs
  <2> HIDE DEF k
  <2>5. mem' \in [Replicas -> Copy] /\ payload' = k /\ run' \in RunStep
    BY <1>4, <2>1, <2>3, <2>4 DEF Saving
  <2>6. QED
    BY <1>9, <2>1, <2>2, <2>4, <2>5 DEF StoppedAs
<1>25. CASE InterruptedLate
  <2> DEFINE k == [payload EXCEPT !.status = "cancelled"]
  <2>1. k \in Copy /\ k.status \in Final
    BY WithStatus DEF Final
  <2>2. MutateAndSave(k, "save_final") /\ run # "idle"
    BY <1>25 DEF InterruptedLate
  <2> HIDE DEF k
  <2>3. mem' \in [Replicas -> Copy] /\ payload' = k /\ run' \in RunStep
    BY <1>4, <2>1, <2>2 DEF Saving
  <2>4. QED
    BY <1>25, <2>1, <2>2, <2>3 DEF InterruptedLate, Final
<1>10. CASE Persist
  BY <1>10 DEF Persist, Written, AfterSave, RunStep, Saving
<1>11. CASE SayUser
  BY <1>11 DEF SayUser, Written, RunStep
<1>12. CASE SayAssistant
  BY <1>12 DEF SayAssistant, Written, RunStep
<1>13. CASE Mark
  BY <1>13 DEF Mark, Written, RunStep
<1>14. ASSUME NEW c \in Clients, NEW st \in ReqStep, NEW k \in Copy,
              Request(c, st, k)
       PROVE  req' \in [Clients -> ReqType]
  BY <1>14 DEF Request, ReqType
<1>15. ASSUME NEW c \in Clients, NEW kind \in Kinds, NEW r \in Replicas,
              NEW st \in ReqStep, NEW k \in Copy, Open(c, kind, r, st, k)
       PROVE  req' \in [Clients -> ReqType]
  BY <1>15 DEF Open, ReqType
<1>16. ASSUME NEW c \in Clients, NEW r \in Replicas, AskHit(c, r)
       PROVE  TypeOK' /\ RunInv'
  <2>1. mem[r] \in Copy /\ Cancelled(mem[r]) \in Copy
    BY CancelledType
  <2>2. req' \in [Clients -> ReqType] /\ mem' \in [Replicas -> Copy]
    <3>1. CASE /\ "status" \in Kinds
               /\ Open(c, "status", r, "answered", mem[r])
               /\ UNCHANGED mem
      BY <1>15, <2>1, <3>1 DEF ReqStep
    <3>2. CASE /\ "cancel" \in Kinds
               /\ Mutate(r, Cancelled(mem[r]))
               /\ Open(c, "cancel", r, "saving", Cancelled(mem[r]))
      BY <1>15, <2>1, <3>2 DEF ReqStep, Mutate
    <3>3. CASE /\ "cancel" \in Kinds
               /\ Open(c, "cancel", r, "answered", mem[r])
               /\ UNCHANGED mem
      BY <1>15, <2>1, <3>3 DEF ReqStep
    <3>4. QED
      BY <1>16, <3>1, <3>2, <3>3, Zenon DEF AskHit
  <2>3. QED
    BY <1>16, <2>2 DEF AskHit, ReqType
<1>17. ASSUME NEW c \in Clients, NEW r \in Replicas, AskMiss(c, r)
       PROVE  TypeOK' /\ RunInv'
  <2>1. req' \in [Clients -> ReqType]
    BY <1>15, <1>17 DEF AskMiss, ReqStep
  <2>2. QED
    BY <1>17, <2>1 DEF AskMiss, ReqType
<1>18. ASSUME NEW c \in Clients, Loaded(c)
       PROVE  TypeOK' /\ RunInv'
  <2>1. req[c].copy \in Copy /\ Cancelled(req[c].copy) \in Copy
    BY CancelledType
  <2>2. req' \in [Clients -> ReqType] /\ mem' \in [Replicas -> Copy]
    <3>1. CASE /\ Mutate(req[c].at, Cancelled(req[c].copy))
               /\ Request(c, "saving", Cancelled(req[c].copy))
      BY <1>14, <2>1, <3>1 DEF ReqStep, Mutate
    <3>2. CASE /\ UNCHANGED mem \/ Mutate(req[c].at, req[c].copy)
               /\ Request(c, "answered", req[c].copy)
      BY <1>14, <2>1, <3>2 DEF ReqStep, Mutate
    <3>3. QED
      BY <1>18, <3>1, <3>2, Zenon DEF Loaded
  <2>3. QED
    BY <1>18, <2>2 DEF Loaded, ReqType
<1>19. ASSUME NEW c \in Clients, CancelPersist(c)
       PROVE  TypeOK' /\ RunInv'
  <2>1. req' \in [Clients -> ReqType]
    BY <1>14, <1>19 DEF CancelPersist, ReqStep
  <2>2. QED
    BY <1>19, <2>1 DEF CancelPersist, Written, ReqType
<1>20. ASSUME NEW c \in Clients, CancelMark(c)
       PROVE  TypeOK' /\ RunInv'
  <2>1. req' \in [Clients -> ReqType]
    BY <1>14, <1>20 DEF CancelMark, ReqStep
  <2>2. QED
    BY <1>20, <2>1 DEF CancelMark, Written, ReqType, Final
<1>21. ASSUME NEW c \in Clients, NEW r \in Replicas, RecordCancelRead(c, r)
       PROVE  TypeOK' /\ RunInv'
  <2>1. req' \in [Clients -> ReqType]
    BY <1>15, <1>21, NoCopyType DEF RecordCancelRead, ReqStep
  <2>2. QED
    BY <1>21, <2>1 DEF RecordCancelRead, ReqType
<1>22. ASSUME NEW c \in Clients, RecordCancelWrite(c)
       PROVE  TypeOK' /\ RunInv'
  <2>1. req' \in [Clients -> ReqType]
    BY <1>14, <1>22, NoCopyType DEF RecordCancelWrite, ReqStep
  <2>2. QED
    BY <1>22, <2>1 DEF RecordCancelWrite, Written, ReqType, Final
<1>23. ASSUME NEW r \in Replicas, Crash(r)
       PROVE  TypeOK' /\ RunInv'
  <2>1. mem' \in [Replicas -> Copy]
    BY <1>23, NoCopyType DEF Crash, Mutate
  <2>2. req' \in [Clients -> ReqType]
    BY <1>23 DEF Crash, ReqType, ReqStep
  <2>3. run' \in RunStep /\ RunInv'
    BY <1>23, ThinkingAssumption DEF Crash, RunStep, Known
  <2>4. crashes' \in 0..MaxCrashes
    BY <1>23, ThinkingAssumption DEF Crash
  <2>5. QED
    BY <1>23, <2>1, <2>2, <2>3, <2>4 DEF Crash, ReqType
<1>24. QED
  BY <1>1, <1>2, <1>3, <1>6, <1>7, <1>8, <1>9, <1>10, <1>11, <1>12, <1>13, <1>16,
     <1>17, <1>18, <1>19, <1>20, <1>21, <1>22, <1>23, <1>25
  DEF Next, Run, Serve, TimesOut, Interrupted, Final

\* The type invariant and RunInv hold in every reachable state.
LEMMA InductiveTypes == Spec => [](TypeOK /\ RunInv)
<1>1. Init => TypeOK /\ RunInv
  BY NoCopyType, ThinkingAssumption
  DEF Init, TypeOK, RunInv, RunStep, Idle, ReqStep, Closing
<1>2. TypeOK /\ RunInv /\ [Next]_vars => (TypeOK /\ RunInv)'
  BY TypeStep
<1>3. QED
  BY <1>1, <1>2, PTL DEF Spec

\* The type invariant holds in every reachable state, for all constants.
THEOREM TypeCorrect == Spec => []TypeOK
  BY InductiveTypes, PTL

-----------------------------------------------------------------------------
\* One step of HistoryInv when the stores lose nothing: the runner stamps the
\* record only after both messages, and its payload is fixed by then.
LEMMA HistoryStep ==
    ASSUME TypeOK, HistoryInv, ~StoreMayFail, [Next]_vars
    PROVE  HistoryInv'
<1> USE DEF HistoryInv
<1>1. CASE UNCHANGED vars
  BY <1>1 DEF vars
<1>2. ASSUME NEW r \in Replicas, StartThink(r)
      PROVE  HistoryInv'
  BY <1>2 DEF StartThink
<1>3. CASE LinkRecord
  BY <1>3 DEF LinkRecord, Written
<1>4. CASE Begin
  BY <1>4 DEF Begin, MutateAndSave
<1>5. CASE PhaseEnds
  BY <1>5 DEF PhaseEnds, MutateAndSave
<1>6. CASE Completes
  BY <1>6 DEF Completes, MutateAndSave
<1>7. ASSUME NEW s \in Final, StoppedAs(s)
      PROVE  HistoryInv'
  BY <1>7 DEF StoppedAs, MutateAndSave
<1>17. CASE InterruptedLate
  <2> DEFINE k == [payload EXCEPT !.status = "cancelled"]
  <2>1. k.status = "cancelled" /\ k.result = payload.result
    BY WithStatus DEF TypeOK, Final
  <2>2. payload' = k /\ run' = "save_final"
    BY <1>17 DEF InterruptedLate, MutateAndSave
  <2> HIDE DEF k
  <2>3. QED
    BY <1>17, <2>1, <2>2 DEF InterruptedLate
<1>8. CASE Persist
  <2>1. run' = AfterSave(run) /\ run \in Saving /\ UNCHANGED <<record, chat, payload>>
    BY <1>8 DEF Persist
  <2>2. CASE run = "save_started"
    BY <2>1, <2>2 DEF AfterSave
  <2>3. CASE run \in {"save_begun", "save_phase"}
    BY <2>1, <2>3 DEF AfterSave
  <2>4. CASE run = "save_final"
    BY <2>1, <2>4 DEF AfterSave
  <2>5. QED
    BY <2>1, <2>2, <2>3, <2>4 DEF Saving
<1>9. CASE SayUser
  BY <1>9 DEF SayUser, Written
<1>10. CASE SayAssistant
  BY <1>10 DEF SayAssistant, Written
<1>11. CASE Mark
  BY <1>11 DEF Mark, Written
<1>12. ASSUME NEW c \in Clients, NEW r \in Replicas,
              AskHit(c, r) \/ AskMiss(c, r) \/ RecordCancelRead(c, r)
       PROVE  HistoryInv'
  BY <1>12 DEF AskHit, AskMiss, RecordCancelRead
<1>13. ASSUME NEW c \in Clients, Loaded(c) \/ CancelPersist(c)
       PROVE  HistoryInv'
  BY <1>13 DEF Loaded, CancelPersist
<1>14. ASSUME NEW c \in Clients, CancelMark(c) \/ RecordCancelWrite(c)
       PROVE  HistoryInv'
  BY <1>14 DEF CancelMark, RecordCancelWrite, Written
<1>15. ASSUME NEW r \in Replicas, Crash(r)
       PROVE  HistoryInv'
  BY <1>15 DEF Crash, Known
<1>16. QED
  BY <1>1, <1>2, <1>3, <1>4, <1>5, <1>6, <1>7, <1>8, <1>9, <1>10, <1>11, <1>12,
     <1>13, <1>14, <1>15, <1>17
  DEF Next, Run, Serve, TimesOut, Interrupted, Final

\* When no write is lost, a query record says "completed" only after the chat
\* holds the messages of the run, whatever requests and restarts interleave.
THEOREM HistoryBeforeRecord ==
    ASSUME ~StoreMayFail
    PROVE  Spec => []RecordAfterHistory
<1>1. Init => HistoryInv
  BY DEF Init, HistoryInv
<1>2. TypeOK /\ HistoryInv /\ [Next]_vars => HistoryInv'
  BY HistoryStep
<1>3. HistoryInv => RecordAfterHistory
  BY DEF HistoryInv, RecordAfterHistory
<1>4. QED
  BY <1>1, <1>2, <1>3, TypeCorrect, PTL DEF Spec

-----------------------------------------------------------------------------
\* Until a restart the session's replica has it in memory, so that no request
\* there waits for Redis, and a settled outcome means the engine has returned:
\* what this says of one replica, of one request, and in all.
HomeAt(r) == r = home => /\ mem[r].status # "absent"
                         /\ mem[r].status \in {"completed", "failed"} => run \in Closing

LoadAt(c) == req[c].step = "loading" => req[c].at # home /\ home # Nobody

HomeParts == crashes = 0 => /\ run = "idle" => home = Nobody
                            /\ \A r \in Replicas : HomeAt(r)
                            /\ \A c \in Clients : LoadAt(c)

\* A step leaves a settled outcome at the session's replica as it is, unless it
\* cancels the runner.
Settled(r) ==
    r = home /\ mem[r].status \in {"completed", "failed"}
       => mem'[r] = mem[r] \/ (req' = req /\ mem'[r].status = "cancelled")

\* One step without a restart keeps HomeParts and every settled outcome.
LEMMA HomeStep ==
    ASSUME TypeOK, RunInv, HomeParts, [Next]_vars, crashes' = 0
    PROVE  HomeParts' /\ \A r \in Replicas : Settled(r)
<1>0. crashes = 0
  <2>1. CASE UNCHANGED crashes
    BY <2>1
  <2>2. ASSUME NEW r \in Replicas, Crash(r) PROVE FALSE
    BY <2>2, ThinkingAssumption DEF Crash, TypeOK
  <2>3. QED
    BY <2>1, <2>2
    DEF Next, Run, Serve, StartThink, LinkRecord, Begin, PhaseEnds, Completes, TimesOut,
        Interrupted, InterruptedLate, StoppedAs, Persist, SayUser, SayAssistant, Mark, AskHit, AskMiss,
        RecordCancelRead, Loaded, CancelPersist, CancelMark, RecordCancelWrite, vars
<1>1. /\ run = "idle" => home = Nobody
      /\ \A r \in Replicas : HomeAt(r)
      /\ \A c \in Clients : LoadAt(c)
  BY <1>0 DEF HomeParts
<1>2. SUFFICES /\ run' = "idle" => home' = Nobody
               /\ \A r \in Replicas : HomeAt(r)' /\ Settled(r)
               /\ \A c \in Clients : LoadAt(c)'
  BY DEF HomeParts
<1>3. CASE UNCHANGED vars
  BY <1>1, <1>3 DEF vars, HomeAt, LoadAt, Settled
<1>4. ASSUME NEW r \in Replicas, StartThink(r)
      PROVE  /\ run' = "idle" => home' = Nobody
             /\ \A q \in Replicas : HomeAt(q)' /\ Settled(q)
             /\ \A c \in Clients : LoadAt(c)'
  <2>1. mem' = [mem EXCEPT ![r] = [NoCopy EXCEPT !.status = "started"]]
    BY <1>4 DEF StartThink, Mutate
  <2>2. [NoCopy EXCEPT !.status = "started"].status = "started"
    BY NoCopyType, WithStatus
  <2>3. mem'[r].status = "started"
    BY <2>1, <2>2 DEF TypeOK
  <2>4. home = Nobody /\ home' = r /\ run' = "save_started" /\ req' = req
    BY <1>1, <1>4 DEF StartThink
  <2>5. QED
    BY <1>1, <2>3, <2>4, ThinkingAssumption DEF HomeAt, LoadAt, Settled
<1>5. ASSUME NEW k \in Copy, NEW st \in Saving, run \notin Closing, run # "idle",
             k.status # "absent",
             k.status \in {"completed", "failed"} => st = "save_final",
             MutateAndSave(k, st), UNCHANGED <<home, req>>
      PROVE  /\ run' = "idle" => home' = Nobody
             /\ \A r \in Replicas : HomeAt(r)' /\ Settled(r)
             /\ \A c \in Clients : LoadAt(c)'
  BY <1>1, <1>5 DEF MutateAndSave, Mutate, HomeAt, LoadAt, Settled, TypeOK, Saving, Closing
<1>6. run # "idle" => home \in Replicas /\ mem[home] \in Copy
  BY DEF TypeOK, RunInv
<1>7. CASE Begin
  <2> DEFINE k == [mem[home] EXCEPT !.status = "in_progress"]
  <2>1. k \in Copy /\ k.status = "in_progress"
    BY <1>6, <1>7, WithStatus DEF Begin
  <2>2. MutateAndSave(k, "save_begun") /\ UNCHANGED <<home, req>> /\ run = "queued"
    BY <1>7 DEF Begin
  <2> HIDE DEF k
  <2>3. QED
    BY <1>5, <2>1, <2>2 DEF Saving, Closing
<1>8. CASE PhaseEnds
  <2>1. PICK x \in {mem[home].result, "text"} :
           MutateAndSave([mem[home] EXCEPT !.done = @ + 1, !.result = x], "save_phase")
    BY <1>8 DEF PhaseEnds
  <2> DEFINE k == [mem[home] EXCEPT !.done = @ + 1, !.result = x]
  <2>2. k \in Copy /\ k.status = mem[home].status
    BY <1>6, <1>8, WithPhase DEF PhaseEnds
  <2>3. MutateAndSave(k, "save_phase") /\ UNCHANGED <<home, req>> /\ run = "thinking"
    BY <1>8, <2>1 DEF PhaseEnds
  <2>4. mem[home].status \notin {"absent", "completed", "failed"}
    BY <1>1, <1>6, <2>3 DEF HomeAt, Closing
  <2> HIDE DEF k
  <2>5. QED
    BY <1>5, <2>2, <2>3, <2>4 DEF Saving, Closing
<1>9. CASE Completes
  <2> DEFINE k == [mem[home] EXCEPT !.status = "completed"]
  <2>1. k \in Copy /\ k.status = "completed"
    BY <1>6, <1>9, WithStatus DEF Completes, Final
  <2>2. MutateAndSave(k, "save_final") /\ UNCHANGED <<home, req>> /\ run = "thinking"
    BY <1>9 DEF Completes
  <2> HIDE DEF k
  <2>3. QED
    BY <1>5, <2>1, <2>2 DEF Saving, Closing
<1>10. ASSUME NEW s \in Final, StoppedAs(s)
       PROVE  /\ run' = "idle" => home' = Nobody
              /\ \A r \in Replicas : HomeAt(r)' /\ Settled(r)
              /\ \A c \in Clients : LoadAt(c)'
  <2> DEFINE k == [mem[home] EXCEPT !.status = s]
  <2>1. k \in Copy /\ k.status = s
    BY <1>6, <1>10, WithStatus DEF StoppedAs
  <2>2. /\ MutateAndSave(k, "save_final") /\ UNCHANGED <<home, req>>
        /\ run \in {"thinking", "save_phase"}
    BY <1>10 DEF StoppedAs
  <2> HIDE DEF k
  <2>3. QED
    BY <1>5, <2>1, <2>2 DEF Saving, Closing, Final
<1>22. CASE InterruptedLate
  <2> DEFINE k == [payload EXCEPT !.status = "cancelled"]
  <2>1. k.status = "cancelled"
    BY WithStatus DEF TypeOK, Final
  <2>2. /\ mem' = [mem EXCEPT ![home] = k] /\ run' = "save_final"
        /\ UNCHANGED <<home, req>> /\ run # "idle"
    BY <1>22 DEF InterruptedLate, MutateAndSave, Mutate
  <2> HIDE DEF k
  <2>3. \A r \in Replicas : HomeAt(r)' /\ Settled(r)
    BY <2>1, <2>2 DEF HomeAt, Settled, TypeOK, Closing
  <2>4. QED
    BY <1>1, <2>2, <2>3 DEF LoadAt
<1>11. ASSUME UNCHANGED <<mem, home, req>>, run \in Closing => run' \in Closing,
              run # "idle", run' # "idle"
       PROVE  /\ run' = "idle" => home' = Nobody
              /\ \A r \in Replicas : HomeAt(r)' /\ Settled(r)
              /\ \A c \in Clients : LoadAt(c)'
  BY <1>1, <1>11 DEF HomeAt, LoadAt, Settled
<1>12. CASE LinkRecord
  BY <1>11, <1>12 DEF LinkRecord, Closing
<1>13. CASE Persist
  <2>1. run' = AfterSave(run) /\ run \in Saving /\ UNCHANGED <<mem, home, req>>
    BY <1>13 DEF Persist
  <2>2. CASE run = "save_started"
    BY <1>11, <2>1, <2>2 DEF AfterSave, Closing
  <2>3. CASE run \in {"save_begun", "save_phase"}
    BY <1>11, <2>1, <2>3 DEF AfterSave, Closing
  <2>4. CASE run = "save_final"
    BY <1>11, <2>1, <2>4 DEF AfterSave, Closing
  <2>5. QED
    BY <2>1, <2>2, <2>3, <2>4 DEF Saving
<1>14. CASE SayUser \/ SayAssistant \/ Mark
  BY <1>11, <1>14 DEF SayUser, SayAssistant, Mark, Closing
<1>15. ASSUME NEW c \in Clients, NEW r \in Replicas, AskHit(c, r)
       PROVE  /\ run' = "idle" => home' = Nobody
              /\ \A q \in Replicas : HomeAt(q)' /\ Settled(q)
              /\ \A d \in Clients : LoadAt(d)'
  <2>1. UNCHANGED <<run, home>> /\ run # "idle"
    BY <1>15 DEF AskHit, Known
  <2>2. \A d \in Clients : LoadAt(d)'
    BY <1>1, <1>15, <2>1 DEF AskHit, Open, LoadAt, TypeOK
  <2>3. /\ \/ UNCHANGED mem
           \/ CancelOpen(mem[r]) /\ mem' = [mem EXCEPT ![r] = Cancelled(mem[r])]
    BY <1>15, Zenon DEF AskHit, Mutate
  <2>4. Cancelled(mem[r]).status = "cancelled"
    BY CancelledType DEF TypeOK
  <2>5. \A q \in Replicas : HomeAt(q)' /\ Settled(q)
    BY <1>1, <2>1, <2>3, <2>4 DEF HomeAt, Settled, CancelOpen, Final, TypeOK
  <2>6. QED
    BY <2>1, <2>2, <2>5
<1>16. ASSUME NEW c \in Clients, NEW r \in Replicas, AskMiss(c, r)
       PROVE  /\ run' = "idle" => home' = Nobody
              /\ \A q \in Replicas : HomeAt(q)' /\ Settled(q)
              /\ \A d \in Clients : LoadAt(d)'
  <2>1. UNCHANGED <<mem, run, home>> /\ run # "idle" /\ mem[r] = NoCopy
    BY <1>16 DEF AskMiss, Known
  <2>2. r # home /\ home # Nobody
    BY <1>1, <2>1, NoCopyType DEF HomeAt, RunInv
  <2>3. \A d \in Clients : LoadAt(d)'
    BY <1>1, <1>16, <2>1, <2>2 DEF AskMiss, Open, LoadAt, TypeOK
  <2>4. QED
    BY <1>1, <2>1, <2>3 DEF HomeAt, Settled
<1>17. ASSUME NEW c \in Clients, Loaded(c)
       PROVE  /\ run' = "idle" => home' = Nobody
              /\ \A q \in Replicas : HomeAt(q)' /\ Settled(q)
              /\ \A d \in Clients : LoadAt(d)'
  <2>1. UNCHANGED <<run, home>> /\ req[c].step = "loading" /\ req[c].at # home
        /\ home # Nobody
    BY <1>1, <1>17 DEF Loaded, LoadAt
  <2>2. \A d \in Clients : LoadAt(d)'
    BY <1>1, <1>17, <2>1 DEF Loaded, Request, LoadAt, TypeOK
  <2>3. \A q \in Replicas : q = home => mem'[q] = mem[q]
    BY <1>17, <2>1 DEF Loaded, Mutate, TypeOK
  <2>4. QED
    BY <1>1, <2>1, <2>2, <2>3 DEF HomeAt, Settled
<1>18. ASSUME NEW c \in Clients,
              CancelPersist(c) \/ CancelMark(c) \/ RecordCancelWrite(c)
       PROVE  /\ run' = "idle" => home' = Nobody
              /\ \A q \in Replicas : HomeAt(q)' /\ Settled(q)
              /\ \A d \in Clients : LoadAt(d)'
  <2>1. UNCHANGED <<mem, run, home>>
    BY <1>18 DEF CancelPersist, CancelMark, RecordCancelWrite
  <2>2. \A d \in Clients : LoadAt(d)'
    BY <1>1, <1>18, <2>1
    DEF CancelPersist, CancelMark, RecordCancelWrite, Request, LoadAt, TypeOK
  <2>3. QED
    BY <1>1, <2>1, <2>2 DEF HomeAt, Settled
<1>19. ASSUME NEW c \in Clients, NEW r \in Replicas, RecordCancelRead(c, r)
       PROVE  /\ run' = "idle" => home' = Nobody
              /\ \A q \in Replicas : HomeAt(q)' /\ Settled(q)
              /\ \A d \in Clients : LoadAt(d)'
  <2>1. UNCHANGED <<mem, run, home>>
    BY <1>19 DEF RecordCancelRead
  <2>2. \A d \in Clients : LoadAt(d)'
    BY <1>1, <1>19, <2>1 DEF RecordCancelRead, Open, LoadAt, TypeOK
  <2>3. QED
    BY <1>1, <2>1, <2>2 DEF HomeAt, Settled
<1>20. ASSUME NEW r \in Replicas, Crash(r) PROVE FALSE
  BY <1>0, <1>20 DEF Crash
<1>21. QED
  BY <1>3, <1>4, <1>7, <1>8, <1>9, <1>10, <1>12, <1>13, <1>14, <1>15, <1>16, <1>17,
     <1>18, <1>19, <1>20, <1>22
  DEF Next, Run, Serve, TimesOut, Interrupted, Final

\* Until a restart, the outcome in the memory of the replica that ran the
\* session is never changed again by any cancel or load at any replica.
THEOREM HomeOutcomeIsSettled == Spec => HomeOutcomeSettled
<1>1. Init => HomeParts
  BY ThinkingAssumption DEF Init, HomeParts, HomeAt, LoadAt, Idle
<1>2. TypeOK /\ RunInv /\ HomeParts /\ [Next]_vars => HomeParts'
  BY HomeStep DEF HomeParts
<1>3. TypeOK /\ RunInv /\ HomeParts /\ [Next]_vars =>
        [\A r \in Replicas :
          r = home /\ mem[r].status \in {"completed", "failed"} /\ crashes' = 0
             => mem'[r] = mem[r] \/ (req' = req /\ mem'[r].status = "cancelled")]_vars
  BY HomeStep DEF Settled
<1>4. QED
  BY <1>1, <1>2, <1>3, InductiveTypes, PTL DEF Spec, HomeOutcomeSettled
=============================================================================
