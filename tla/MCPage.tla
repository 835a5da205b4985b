------------------------------- MODULE MCPage -------------------------------
(***************************************************************************)
(* The progress of a session on its way to the user, for TLC: the event    *)
(* streams of the server, or the page that watches them.  A behaviour is   *)
(* about one of the two, chosen at the start.                              *)
(***************************************************************************)
EXTENDS EventStream, PageWatch, FiniteSets

VARIABLE subject     \* the part this behaviour is about

progressVars == <<subject, vars, watchVars>>

\* Bound: one connection while Redis fails, or one with a request to cancel, or
\* two connections; a failure, a cancel and a second connection do not meet.
RedisFailed ==
    lost # {} \/ \E s \in Streams : stream[s].step = "open" /\ stream[s].pump = "none"
TwoConnected == Cardinality({s \in Streams : stream[s].step # "idle"}) > 1
Cancelled == cancel.step # "none"

\* The connections are alike: one of them comes first.
FirstStream == CHOOSE s \in Streams : TRUE
InOrder == (\E s \in Streams : stream[s].step # "idle") => stream[FirstStream].step # "idle"

OneAtATime ==
    /\ InOrder'
    /\ ~(RedisFailed' /\ TwoConnected') /\ ~(RedisFailed' /\ Cancelled')
    /\ ~(TwoConnected' /\ Cancelled')

ProgressInit ==
    /\ subject \in {"stream", "watch"}
    /\ Init
    /\ WatchInit

ProgressNext ==
    \/ subject = "stream" /\ Next /\ OneAtATime /\ UNCHANGED <<subject, watchVars>>
    \/ subject = "watch" /\ WatchNext /\ UNCHANGED <<subject, vars>>

OfStream(A) == subject = "stream" /\ A

OfWatch(A) == subject = "watch" /\ A

\* The server's tasks and the browser's callbacks run; nobody has to connect,
\* to disconnect or to sign in again.
ProgressFairness ==
    /\ WF_vars(OfStream(Publisher))
    /\ \A s \in Streams : WF_vars(OfStream(Serve(s)))
    /\ WF_watchVars(OfWatch(SourceMoves))
    /\ WF_watchVars(OfWatch(RefreshReturns))
    /\ WF_watchVars(OfWatch(TimerFires))
    /\ WF_watchVars(OfWatch(Poll))

ProgressSpec == ProgressInit /\ [][ProgressNext]_progressVars /\ ProgressFairness

\* Every variable of the two parts keeps its type and every counter its bound.
ProgressTypesOK == TypeOK /\ WatchTypeOK

\* Both: a stream ends with its session, and the page ends its watch.
ProgressEnds == (\A s \in Streams : StreamEnds(s)) /\ WatchEnds
=============================================================================
