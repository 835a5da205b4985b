------------------------------ MODULE MCRecords ------------------------------
(***************************************************************************)
(* What users find again later, for TLC: a thinking session in Redis, the  *)
(* chats and folders in MongoDB, the query records, the accounts, and a    *)
(* conversation as the page stores it.  A behaviour is about one of them,  *)
(* chosen at the start.                                                    *)
(***************************************************************************)
EXTENDS ThinkingSession, ChatStore, QueryRecords, Auth, ChatPage

VARIABLE subject     \* the part this behaviour is about

recordsVars == <<subject, vars, chatVars, recordVars, authVars, chatPageVars>>

RecordsInit ==
    /\ subject \in {"session", "chat", "record", "account", "page"}
    /\ Init /\ RecordInit /\ AuthInit
    /\ ChatInit /\ ChatPageInit
    /\ subject # "chat" => folders["first"].owner = FirstUser
    /\ subject # "page" => open = FirstChat

RecordsNext ==
    \/ /\ subject = "session" /\ Next
       /\ UNCHANGED <<subject, chatVars, recordVars, authVars, chatPageVars>>
    \/ /\ subject = "chat" /\ ChatNext
       /\ UNCHANGED <<subject, vars, recordVars, authVars, chatPageVars>>
    \/ /\ subject = "record" /\ RecordNext
       /\ UNCHANGED <<subject, vars, chatVars, authVars, chatPageVars>>
    \/ /\ subject = "account" /\ AuthNext
       /\ UNCHANGED <<subject, vars, chatVars, recordVars, chatPageVars>>
    \/ /\ subject = "page" /\ ChatPageNext
       /\ UNCHANGED <<subject, vars, chatVars, recordVars, authVars>>

RecordsSpec == RecordsInit /\ [][RecordsNext]_recordsVars

\* Every variable of the five parts keeps its type and every counter its bound.
RecordsTypesOK == TypeOK /\ ChatTypeOK /\ RecordTypeOK /\ AuthTypeOK /\ ChatPageTypeOK
=============================================================================
