-------------------------- MODULE DeadLetterQueue --------------------------
(***************************************************************************)
(* ErrorHandler and DeadLetterQueue (reliability/error_handler.py):        *)
(* messages are executed, retried while handle_error says so and then      *)
(* parked in the queue; retry_dlq_messages goes through a copy of the      *)
(* queue and removes by index.  Its awaits (the processor, the lock of     *)
(* remove_message) let executions, other passes and clear() in between.    *)
(***************************************************************************)
EXTENDS Naturals, Sequences, SequencesExt, FiniteSets

CONSTANTS
    Messages,     \* the messages handed to execute_with_error_handling
    Passes,       \* calls of retry_dlq_messages
    Limits,       \* their limit arguments, 0 for None
    MaxRetries,   \* ErrorHandler.max_retries
    MayClear      \* TRUE iff clear() may be called

ASSUME DLQAssumption ==
    /\ Limits \subseteq Nat
    /\ MaxRetries \in Nat
    /\ MayClear \in BOOLEAN

VARIABLES
    retry_count,  \* retry_count[m]: the count passed with the next execution
    execution,    \* execution[m]: where the caller's executions of m stand
    messages,     \* DeadLetterQueue.messages
    pass,         \* pass[p]: a call of retry_dlq_messages
    delivered,    \* messages a processor accepted
    accepted,     \* how many times a processor accepted a message in a pass
    cleared       \* messages dropped by clear()

dlqVars == <<retry_count, execution, messages, pass, delivered, accepted, cleared>>

Fresh == [step |-> "idle", batch |-> <<>>, i |-> 0, failure_count |-> 0]

DlqTypeOK ==
    /\ retry_count \in [Messages -> 0..MaxRetries]
    /\ execution \in [Messages -> {"due", "succeeded", "parked"}]
    /\ messages \in Seq(Messages)
    /\ \A p \in Passes :
          /\ pass[p].step \in {"idle", "processing", "removing", "returned"}
          /\ pass[p].i \in 0..Len(pass[p].batch)
          /\ pass[p].failure_count \in 0..pass[p].i
    /\ delivered \subseteq Messages
    /\ cleared \subseteq Messages

DlqInit ==
    /\ retry_count = [m \in Messages |-> 0]
    /\ execution = [m \in Messages |-> "due"]
    /\ messages = <<>>
    /\ pass = [p \in Passes |-> Fresh]
    /\ delivered = {}
    /\ accepted = 0
    /\ cleared = {}

-----------------------------------------------------------------------------
(* Execution *)

ExecuteSucceeds(m) ==
    /\ execution[m] = "due"
    /\ execution' = [execution EXCEPT ![m] = "succeeded"]
    /\ UNCHANGED <<retry_count, messages, pass, delivered, accepted, cleared>>

\* The error is re-raised while handle_error grants a retry, which the caller
\* makes with the next count; otherwise the message is parked.
ExecuteFails(m) ==
    /\ execution[m] = "due"
    /\ \/ /\ retry_count[m] < MaxRetries
          /\ retry_count' = [retry_count EXCEPT ![m] = @ + 1]
          /\ UNCHANGED <<execution, messages>>
       \/ /\ retry_count[m] >= MaxRetries
          /\ execution' = [execution EXCEPT ![m] = "parked"]
          /\ messages' = Append(messages, m)
          /\ UNCHANGED retry_count
    /\ UNCHANGED <<pass, delivered, accepted, cleared>>

-----------------------------------------------------------------------------
(* retry_dlq_messages *)

\* get_messages copies the queue, up to the limit.
Copied(limit) == IF limit = 0 \/ limit > Len(messages) THEN messages
                 ELSE SubSeq(messages, 1, limit)

\* Advance to the next entry of the copy, or return.
Advanced(p, failures) ==
    [p EXCEPT !.i = @ + 1, !.failure_count = @ + failures,
              !.step = IF p.i + 1 = Len(p.batch) THEN "returned" ELSE "processing"]

StartPass(p) ==
    /\ pass[p].step = "idle"
    /\ \E limit \in Limits :
          pass' = [pass EXCEPT ![p] =
             [@ EXCEPT !.batch = Copied(limit),
                       !.step = IF messages = <<>> THEN "returned" ELSE "processing"]]
    /\ UNCHANGED <<retry_count, execution, messages, delivered, accepted, cleared>>

ProcessorAccepts(p) ==
    /\ pass[p].step = "processing"
    /\ pass' = [pass EXCEPT ![p].step = "removing"]
    /\ delivered' = delivered \cup {pass[p].batch[pass[p].i + 1]}
    /\ accepted' = accepted + 1
    /\ UNCHANGED <<retry_count, execution, messages, cleared>>

\* Faulty variant: an entry leaves the queue whether or not it was accepted.
ProcessorFailsAndRemoves(p) ==
    /\ pass[p].step = "processing"
    /\ pass' = [pass EXCEPT ![p].step = "removing"]
    /\ UNCHANGED <<retry_count, execution, messages, delivered, accepted, cleared>>

ProcessorFails(p) ==
    /\ pass[p].step = "processing"
    /\ pass' = [pass EXCEPT ![p] = Advanced(@, 1)]
    /\ UNCHANGED <<retry_count, execution, messages, delivered, accepted, cleared>>

\* remove_message(i - failure_count): a position of Python's list, counted
\* from 0 and ignored when the list is not that long.
RemoveMessage(p) ==
    LET index == pass[p].i - pass[p].failure_count
    IN  /\ pass[p].step = "removing"
        /\ \/ /\ index < Len(messages)
              /\ messages' = RemoveAt(messages, index + 1)
           \/ /\ index >= Len(messages)
              /\ UNCHANGED messages
        /\ pass' = [pass EXCEPT ![p] = Advanced(@, 0)]
        /\ UNCHANGED <<retry_count, execution, delivered, accepted, cleared>>

Clear ==
    /\ MayClear
    /\ messages # <<>>
    /\ cleared' = cleared \cup ToSet(messages)
    /\ messages' = <<>>
    /\ UNCHANGED <<retry_count, execution, pass, delivered, accepted>>

DlqNext ==
    \/ \E m \in Messages : ExecuteSucceeds(m) \/ ExecuteFails(m)
    \/ \E p \in Passes : \/ StartPass(p)
                         \/ ProcessorAccepts(p)
                         \/ ProcessorFails(p)
                         \/ RemoveMessage(p)
    \/ Clear

DlqSpec == DlqInit /\ [][DlqNext]_dlqVars

-----------------------------------------------------------------------------
(* Properties *)

Parked == {m \in Messages : execution[m] = "parked"}

\* Whatever index it is removed at, the queue shrinks by at most one entry for
\* every message that a retry pass got accepted: passes, executions and clear()
\* together account for every parked message.
EveryEntryAccounted ==
    /\ Cardinality(Parked) <= Len(messages) + accepted + Cardinality(cleared)
    /\ ToSet(messages) \subseteq Parked
    /\ IsInjective(messages)

\* "Success - remove from DLQ" (310), of a queue that "stores failed messages
\* for later retry or manual processing" (19): a message that was parked and
\* not cleared is still in the queue unless a processor accepted it.
FailedMessagesKept == Parked \ (delivered \cup cleared) \subseteq ToSet(messages)
=============================================================================
