------------------------------ MODULE PageWatch ------------------------------
(***************************************************************************)
(* The page watches one session until it is over (web_ui/static/js/        *)
(* chat-research.js: _sseLoop, with the polling that follows a failed      *)
(* stream).  An EventSource that fails is replaced: at once when the       *)
(* refresh of the token succeeds (its event reaches onAuthChanged), and    *)
(* once more by the timer that the failure sets.                           *)
(*                                                                         *)
(* The steps are the callbacks of the browser's event loop.  The variable  *)
(* es of the closure names the latest source only: a source that was       *)
(* replaced without being closed goes on, and its callbacks act on es.     *)
(* The server's end of a stream is the one of EventStream, without losses. *)
(***************************************************************************)
EXTENDS Naturals

CONSTANTS
    MaxReconnects,  \* MAX_RECONNECTS
    MaxAttempts,    \* maxAttempts of the polling
    MaxPending,     \* bound: failures being handled at once
    MaxStray        \* bound: stray sources told apart, the last value for more

ASSUME PageWatchAssumption ==
    {MaxReconnects, MaxAttempts, MaxPending, MaxStray} \subseteq Nat \ {0}

VARIABLES
    session,     \* the session's status at the server
    down,        \* the server answers no more
    watch,       \* "stream", "poll" or "settled"
    shown,       \* what the page shows in the end
    es,          \* the state of the source that es names
    stray,       \* number of open sources that es no longer names
    reconnects,  \* failures since the last message
    refreshing,  \* failures whose handler awaits the refresh of the token
    timers,      \* timers set to open a source
    attempts,    \* status requests of the polling so far
    reopened     \* a second source was opened (history)

watchVars == <<session, down, watch, shown, es, stray, reconnects, refreshing,
               timers, attempts, reopened>>

Over == {"completed", "failed", "cancelled"}

\* A source waits for its first answer; gets events; gets none, since it came
\* after a cancellation; was ended by the server after the snapshot; is closed.
Open == {"connecting", "live", "silent", "ended"}

WatchTypeOK ==
    /\ session \in Over \cup {"running"}
    /\ down \in BOOLEAN
    /\ watch \in {"stream", "poll", "settled"}
    /\ shown \in {"nothing", "result", "error"}
    /\ es \in Open \cup {"closed"}
    /\ stray \in 0..MaxStray
    /\ reconnects \in 0..MaxReconnects
    /\ {refreshing, timers, refreshing + timers} \subseteq 0..MaxPending
    /\ attempts \in 0..MaxAttempts
    /\ reopened \in BOOLEAN

WatchInit ==
    /\ session = "running"
    /\ down = FALSE
    /\ watch = "stream"
    /\ shown = "nothing"
    /\ es = "connecting"
    /\ stray = 0
    /\ reconnects = 0
    /\ refreshing = 0
    /\ timers = 0
    /\ attempts = 0
    /\ reopened = FALSE

-----------------------------------------------------------------------------
(* The server *)

SessionEnds ==
    /\ session = "running"
    /\ ~down
    /\ session' \in Over
    /\ UNCHANGED <<down, watch, shown, es, stray, reconnects, refreshing, timers,
                   attempts, reopened>>

GoesDown ==
    /\ ~down
    /\ down' = TRUE
    /\ UNCHANGED <<session, watch, shown, es, stray, reconnects, refreshing,
                   timers, attempts, reopened>>

-----------------------------------------------------------------------------
(* _sseLoop *)

\* finish: the stream has brought the result, or the polling takes over.
Finish(ok) ==
    /\ watch' = IF ok THEN "settled" ELSE "poll"
    /\ shown' = IF ok THEN "result" ELSE shown
    /\ es' = "closed"

\* event_stream sends a snapshot, and ends after it when the session is over.
\* The page takes the snapshot for a sign of life and not for an end.
Connects ==
    /\ watch = "stream"
    /\ es = "connecting"
    /\ ~down
    /\ es' = CASE session \in {"completed", "failed"} -> "ended"
               [] session = "cancelled" -> "silent"
               [] session = "running" -> "live"
    /\ reconnects' = 0
    /\ UNCHANGED <<session, down, watch, shown, stray, refreshing, timers,
                   attempts, reopened>>

\* onmessage with the event of a phase, or with the snapshot that a stray
\* source gets when the browser has opened it again.
Message ==
    /\ watch = "stream"
    /\ ~down
    /\ (session = "running" /\ es = "live") \/ stray > 0
    /\ reconnects' = 0
    /\ UNCHANGED <<session, down, watch, shown, es, stray, refreshing, timers,
                   attempts, reopened>>

\* onmessage with "done", "error" or "cancelled", from any open source.
LastMessage ==
    /\ watch = "stream"
    /\ session \in Over
    /\ ~down
    /\ es = "live" \/ stray > 0
    /\ Finish(session = "completed")
    /\ reconnects' = 0
    /\ UNCHANGED <<session, down, stray, refreshing, timers, attempts, reopened>>

\* Faulty variant: the failures are not counted.
OnErrorUncounted ==
    IF reconnects >= MaxReconnects
    THEN /\ Finish(FALSE)
         /\ UNCHANGED <<reconnects, refreshing>>
    ELSE /\ refreshing + timers < MaxPending
         /\ refreshing' = refreshing + 1
         /\ es' = "closed"
         /\ UNCHANGED <<watch, shown, reconnects>>

\* onerror up to its await: es is closed, whichever source has failed.
OnError ==
    IF reconnects >= MaxReconnects
    THEN /\ Finish(FALSE)
         /\ UNCHANGED <<reconnects, refreshing>>
    ELSE /\ refreshing + timers < MaxPending
         /\ refreshing' = refreshing + 1
         /\ reconnects' = reconnects + 1
         /\ es' = "closed"
         /\ UNCHANGED <<watch, shown>>

\* The source of es is refused, is interrupted, or was ended by the server.
SourceFails ==
    /\ watch = "stream"
    /\ es \in Open
    /\ OnError
    /\ UNCHANGED <<session, down, stray, timers, attempts, reopened>>

\* A stray source fails: the browser opens it again by itself, or, when the
\* server refused it, gives it up.
StrayFails ==
    /\ watch = "stream"
    /\ stray > 0
    /\ stray' \in {stray, stray - 1}
    /\ OnError
    /\ UNCHANGED <<session, down, timers, attempts, reopened>>

\* open(), once the stream is not over: a source that es named and that is
\* still open becomes stray.
Reopen ==
    /\ stray' = IF es \in Open /\ stray < MaxStray THEN stray + 1 ELSE stray
    /\ es' = "connecting"
    /\ reopened' = TRUE

\* onAuthChanged closes the source before it opens another one.
OnAuthChanged ==
    /\ es' = "connecting"
    /\ reopened' = TRUE

\* Faulty variant: a failed refresh ends the handler.
RefreshReturnsOrThrows ==
    /\ refreshing > 0
    /\ refreshing' = refreshing - 1
    /\ \/ /\ watch = "stream"
          /\ ~down
          /\ timers' = timers + 1
          /\ OnAuthChanged
       \/ UNCHANGED <<es, reopened, timers>>
    /\ UNCHANGED <<session, down, watch, shown, stray, reconnects, attempts>>

\* The refresh of the token returns: applyTokens has told onAuthChanged, or it
\* failed; in both cases the handler sets a timer.
RefreshReturns ==
    /\ refreshing > 0
    /\ refreshing' = refreshing - 1
    /\ timers' = timers + 1
    /\ \/ /\ watch = "stream"
          /\ ~down
          /\ OnAuthChanged
       \/ UNCHANGED <<es, reopened>>
    /\ UNCHANGED <<session, down, watch, shown, stray, reconnects, attempts>>

\* The token changes for another reason: its own timer, a login, a logout.
AuthChanges ==
    /\ watch = "stream"
    /\ OnAuthChanged
    /\ UNCHANGED <<session, down, watch, shown, stray, reconnects, refreshing,
                   timers, attempts>>

TimerFires ==
    /\ timers > 0
    /\ timers' = timers - 1
    /\ \/ watch = "stream" /\ Reopen
       \/ watch # "stream" /\ UNCHANGED <<es, stray, reopened>>
    /\ UNCHANGED <<session, down, watch, shown, reconnects, refreshing, attempts>>

-----------------------------------------------------------------------------
(* _pollThinking, _pollResearchInto *)

Settle(what) == watch' = "settled" /\ shown' = what

\* A cancelled session is neither completed nor failed: the polling goes on.
PollAnswers ==
    /\ watch = "poll"
    /\ ~down
    /\ \/ session = "completed" /\ Settle("result") /\ UNCHANGED attempts
       \/ session = "failed" /\ Settle("error") /\ UNCHANGED attempts
       \/ /\ session \in {"running", "cancelled"}
          /\ attempts' = attempts + 1
          /\ IF attempts + 1 < MaxAttempts THEN UNCHANGED <<watch, shown>>
                                           ELSE Settle("error")
    /\ UNCHANGED <<session, down, es, stray, reconnects, refreshing, timers, reopened>>

PollFails ==
    /\ watch = "poll"
    /\ Settle("error")
    /\ UNCHANGED <<session, down, es, stray, reconnects, refreshing, timers,
                   attempts, reopened>>

-----------------------------------------------------------------------------

\* A source that is connecting is answered or fails, one that the server ended
\* fails, and so does every source of a server that is down.
SourceMoves ==
    \/ Connects
    \/ LastMessage
    \/ (down \/ es = "ended") /\ SourceFails

Poll == PollAnswers \/ PollFails

WatchNext ==
    \/ SessionEnds \/ GoesDown
    \/ Connects \/ Message \/ LastMessage
    \/ SourceFails \/ StrayFails \/ AuthChanges
    \/ RefreshReturns \/ TimerFires
    \/ Poll

WatchSpec == WatchInit /\ [][WatchNext]_watchVars

WatchFairSpec ==
    /\ WatchSpec
    /\ WF_watchVars(SourceMoves)
    /\ WF_watchVars(RefreshReturns) /\ WF_watchVars(TimerFires) /\ WF_watchVars(Poll)

-----------------------------------------------------------------------------
(* Properties *)

\* While the stream is watched something is under way that brings it on: an
\* open source, a handler that awaits the refresh, or a timer.
NeverStranded ==
    watch = "stream" => es \in Open \/ refreshing + timers > 0

\* The result is shown only of a session that completed.
ShownIsTrue ==
    shown = "result" => session = "completed"

\* The self-healing stream neither gets stuck with nothing to wait for nor
\* makes a result of a session that failed, was cancelled or still runs.
WatchSound == NeverStranded /\ ShownIsTrue

\* The watch ends when the server is gone (the reconnects are capped), and
\* when the session ends while the first source gets its events.  No more can
\* be said: a source that connects after the end gets a snapshot, which sets
\* reconnects to 0, and is closed, over and over.
WatchEnds ==
    (down \/ (session \in Over /\ es = "live" /\ ~reopened))
       ~> (watch = "settled" \/ (reopened /\ ~down))

=============================================================================
