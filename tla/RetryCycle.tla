------------------------------ MODULE RetryCycle ------------------------------
(***************************************************************************)
(* One upload of one started queue, from answer to answer: the transport   *)
(* (HttpTransport) ends an attempt, the processor decides and waits as     *)
(* RetryDelay says, the wake timer finds the upload again.                 *)
(*                                                                         *)
(* The parts that other modules take apart are single steps here: what the *)
(* processor does with an answer (UploadLifecycle), and a call of process()*)
(* and of scheduleWake() (QueueRunner).  What is new is what passes        *)
(* between them: instants, delays, and who ended a request.                *)
(***************************************************************************)
EXTENDS HttpTransport

CONSTANTS
    Configs,      \* the RetryConfigs considered
    MaxAttempts,  \* task.maxAttempts
    TimerMax,     \* the longest delay setTimeout() keeps: 2^31 - 1 ms
    MaxCalls,     \* bound: calls of the application altogether
    MaxTime       \* bound: clock

ASSUME CycleAssumption ==
    /\ Configs \subseteq RetryConfig
    /\ MaxAttempts \in Nat \ {0}
    /\ TimerMax \in Nat \ {0} /\ MaxCalls \in Nat /\ MaxTime \in Nat

VARIABLES
    setup,         \* retryStrategy, and the destination of the upload, fixed
    row,           \* the upload
    now,           \* the clock
    started,       \* start() was called, stop() was not called since
    shuttingDown,  \* a stop() waits for the attempt
    cycle,         \* "rest", "process", "attempt", or "query": scheduleWake()
    timer,         \* when the wake timer fires, or NULL
    asked,         \* history: before when no request should go out, or NULL
    used           \* calls of the application so far

flags == <<started, shuttingDown>>
vars == <<transport, setup, row, now, flags, cycle, timer, asked, used>>

Token == 1

Init ==
    /\ setup \in [retry: {ResolveRetryStrategy(c) : c \in Configs}, destination: Destinations]
    /\ row = Enqueued
    /\ now = 0
    /\ started = FALSE /\ shuttingDown = FALSE
    /\ cycle = "rest"
    /\ timer = NULL
    /\ asked = NULL
    /\ used = 0
    /\ TransportInit

-----------------------------------------------------------------------------
(* process() and the wake timer                                            *)

(* A call of process() that finds another one running leaves its work to   *)
(* it.                                                                     *)
Trigger == cycle' = IF cycle = "rest" THEN "process" ELSE cycle

TriggerIfStarted == IF started THEN Trigger ELSE UNCHANGED cycle

(* Mutation: a pending upload is launched whenever it is looked at. *)
ReadyAtAnyTime == row.status = "pending"

Ready == Due(row, now)

(* claim() and the call of the transport. *)
Attempt ==
    /\ cycle = "process" /\ ~shuttingDown /\ Ready
    /\ row' = Claimed(row, Token, now)
    /\ Upload(setup.destination)
    /\ cycle' = "attempt"
    /\ asked' = NULL
    /\ UNCHANGED <<setup, now, flags, timer, used>>

NothingDue ==
    /\ cycle = "process" /\ (shuttingDown \/ ~Ready)
    /\ cycle' = "query"
    /\ UNCHANGED <<transport, setup, row, now, flags, timer, asked, used>>

(* How long the host's timer takes: a delay that overflows may fire at once. *)
TimerDelays(delay) == IF delay > TimerMax THEN {1, delay} ELSE {delay}

(* Mutation: a retry that overflows the timer gets none. *)
ScheduleShort ==
    IF started /\ row.status = "pending" /\ row.nextAttemptAt # NULL /\ row.nextAttemptAt - now <= TimerMax
       THEN timer' = AtLeast(now, row.nextAttemptAt)
       ELSE timer' = NULL

(* WakeScheduler.schedule(), or cancel() when the queue is not started. *)
Schedule ==
    IF started /\ row.status = "pending" /\ row.nextAttemptAt # NULL
       THEN \E delay \in TimerDelays(AtLeast(0, row.nextAttemptAt - now)) : timer' = now + delay
       ELSE timer' = NULL

ScheduleWake ==
    /\ cycle = "query"
    /\ Schedule
    /\ cycle' = "rest"
    /\ UNCHANGED <<transport, setup, row, now, flags, asked, used>>

Wake ==
    /\ timer # NULL /\ timer <= now
    /\ timer' = NULL
    /\ Trigger
    /\ UNCHANGED <<transport, setup, row, now, flags, asked, used>>

-----------------------------------------------------------------------------
(* The end of an attempt: runClaimed() and handleFailure()                 *)

(* Retry-After is kept from a 429 only. *)
KeptRetryAfter(answer) ==
    IF ClassifyHttpStatus(answer.code) = "rate-limit" THEN answer.retryAfter ELSE NULL

(* The rows a retry may leave: with the server's delay, or one of the      *)
(* strategy's.  An instant beyond the range of a Date throws out of        *)
(* handleFailure(), and process() gives the claim back.                    *)
RetryRows(kind, retryAfter) ==
    LET attempts == row.attempts + 1
        delays == IF retryAfter = NULL THEN NextDelays(setup.retry, attempts) ELSE {retryAfter}
    IN  {IF Representable(now + delay) THEN Rescheduled(row, kind, now + delay)
                                       ELSE Released(row, "unknown") : delay \in delays}

FailureRows(kind, retryAfter) ==
    IF kind \in RetryableKind /\ row.attempts + 1 < MaxAttempts
       THEN RetryRows(kind, retryAfter)
       ELSE {GivenUp(row, "failed", kind)}

HandleAnswer(answer) ==
    LET kind == ClassifyHttpStatus(answer.code)
    IN  IF Accepted(answer.code) THEN {Completed(row)}
        ELSE IF kind \in {"authentication", "authorization"} THEN {GivenUp(row, "blocked", kind)}
        ELSE FailureRows(kind, KeptRetryAfter(answer))

(* An aborted attempt of a queue that shuts down is given back uncharged.  *)
HandleThrown(thrown) ==
    IF thrown = "AbortError"
       THEN IF shuttingDown THEN {Released(row, "cancelled")} ELSE {GivenUp(row, "failed", "cancelled")}
       ELSE FailureRows(ClassifyThrown(thrown), NULL)

(* By reference: what a 429 asks for, and what the backoff asks for.       *)
ServerAsks(code, header) ==
    CASE code = 429 /\ header.form = "seconds" -> now + header.value * Second
      [] code = 429 /\ header.form = "date"    -> header.value
      [] OTHER                                 -> NULL

BackoffAsks ==
    LET backoff == Backoff(setup.retry, row.attempts + 1)
    IN  now + (IF setup.retry.jitter THEN backoff \div 2 ELSE backoff)

(* The write is dropped when the user has taken the row meanwhile.  What   *)
(* is asked for does not depend on what is written; an abort asks nothing. *)
Settle ==
    /\ cycle = "attempt" /\ Forget
    /\ cycle' = "query"
    /\ IF HeldBy(row, Token)
          THEN /\ row' \in (IF outcome.thrown # NULL THEN HandleThrown(outcome.thrown) ELSE HandleAnswer(outcome))
               /\ asked' = IF outcome.thrown = "AbortError" THEN NULL ELSE Given(asked, BackoffAsks)
          ELSE UNCHANGED row /\ asked' = NULL
    /\ UNCHANGED <<setup, now, flags, timer, used>>

-----------------------------------------------------------------------------
(* The application, and time                                               *)

Call == used < MaxCalls /\ used' = used + 1

(* abortUpload(), abortAll(): there is a controller until the attempt ends. *)
Abort == IF pc # "idle" /\ ~signal THEN AbortSignal ELSE UNCHANGED transport

Start ==
    /\ Call
    /\ cycle = "rest" /\ ~shuttingDown
    /\ started' = TRUE
    /\ cycle' = "process"
    /\ UNCHANGED <<transport, setup, row, now, shuttingDown, timer, asked>>

StopBegin ==
    /\ Call
    /\ ~shuttingDown
    /\ started' = FALSE /\ shuttingDown' = TRUE
    /\ timer' = NULL
    /\ Abort
    /\ UNCHANGED <<setup, row, now, cycle, asked>>

StopEnd ==
    /\ shuttingDown /\ cycle # "attempt"
    /\ shuttingDown' = FALSE
    /\ UNCHANGED <<transport, setup, row, now, started, cycle, timer, asked, used>>

Pause ==
    /\ Call
    /\ CanTransition(row.status, "paused")
    /\ row' = Decided(row, "paused")
    /\ Abort
    /\ UNCHANGED <<setup, now, flags, cycle, timer, asked>>

(* The user's word takes the place of what was asked for. *)
Resume ==
    /\ Call
    /\ row.status # "pending" /\ CanTransition(row.status, "pending") /\ row.status # "uploading"
    /\ row' = Decided(row, "pending")
    /\ asked' = NULL
    /\ TriggerIfStarted
    /\ UNCHANGED <<transport, setup, now, flags, timer>>

Tick ==
    /\ now < MaxTime
    /\ now' = now + 1
    /\ UNCHANGED <<transport, setup, row, flags, cycle, timer, asked, used>>

-----------------------------------------------------------------------------
(* A step of the transport; the history notes what the answer asks for.    *)
Request ==
    /\ \/ TransportMoves /\ UNCHANGED asked
       \/ \E code \in Codes, header \in Headers :
              TextArrives(code, header, now) /\ asked' = ServerAsks(code, header)
    /\ UNCHANGED <<setup, row, now, flags, cycle, timer, used>>

Next ==
    \/ Attempt \/ NothingDue \/ Request \/ Settle
    \/ ScheduleWake \/ Wake
    \/ Start \/ StopBegin \/ StopEnd \/ Pause \/ Resume
    \/ Tick

(* Promises run their continuations, due timers fire, time passes; what    *)
(* TransportOwes owes comes.  The server owes no answer.                   *)
Owed ==
    /\ TransportOwes
    /\ UNCHANGED <<setup, row, now, flags, cycle, timer, asked, used>>

Spec ==
    /\ Init /\ [][Next]_vars
    /\ WF_vars(Attempt) /\ WF_vars(NothingDue) /\ WF_vars(Settle) /\ WF_vars(Owed)
    /\ WF_vars(ScheduleWake) /\ WF_vars(Wake) /\ WF_vars(StopEnd) /\ WF_vars(Tick)

-----------------------------------------------------------------------------
(* The variables have their types. *)
CycleType ==
    /\ TransportType
    /\ row \in Row
    /\ now \in 0 .. MaxTime
    /\ started \in BOOLEAN /\ shuttingDown \in BOOLEAN
    /\ cycle \in {"rest", "process", "attempt", "query"}
    /\ timer \in Optional(Nat)
    /\ asked \in Optional(Nat)
    /\ used \in 0 .. MaxCalls

(* Retry-After and the backoff hold where a Date can represent the instant *)
(* they ask for (DatesFit): whatever wakes the queue, early timers         *)
(* included, no request goes out before the instant a 429 named or,        *)
(* without one, before the (jittered) exponential wait is over, unless the *)
(* user resumed the upload.  Where toISOString() throws, the claim is      *)
(* given back and the upload is sent again at once, against README.md,     *)
(* which says that Retry-After always wins.                                *)
WaitsAsAsked == [][cycle = "process" /\ cycle' = "attempt" /\ asked # NULL => now >= asked]_vars

(* A retry that is scheduled within the clock's bound is made, whatever    *)
(* the timer does, unless the user or stop() comes between.                *)
RetryTaken ==
    (started /\ row.status = "pending" /\ row.nextAttemptAt # NULL /\ row.nextAttemptAt <= MaxTime)
        ~> (row.status # "pending" \/ row.nextAttemptAt = NULL \/ ~started)

-----------------------------------------------------------------------------
(* What they rest on                                                       *)

(* There is a call of upload() during an attempt, and only then; a claim   *)
(* on the row is that of the attempt.                                      *)
Phases ==
    /\ setup \in [retry: {ResolveRetryStrategy(c) : c \in Configs}, destination: Destinations]
    /\ pc = "idle" <=> cycle # "attempt"
    /\ pc = "settled" => outcome \in Outcome
    /\ HeldBy(row, Token) => row.status = "uploading" /\ row.nextAttemptAt = NULL

(* What a 429 asks for is what its answer says, as long as the attempt has *)
(* its claim; ...                                                          *)
AnswerSaysWhatIsAsked ==
    /\ cycle = "attempt" /\ pc # "settled" => asked = NULL
    /\ cycle = "attempt" /\ pc = "settled" /\ HeldBy(row, Token) =>
          IF asked = NULL
             THEN outcome.code = 429 => outcome.retryAfter = NULL
             ELSE /\ outcome.thrown = NULL /\ outcome.code = 429 /\ outcome.retryAfter # NULL
                  /\ asked <= now + outcome.retryAfter

(* ... and, as long as every instant that the end of an attempt may have   *)
(* to write is a Date's, ...                                               *)
DatesFit ==
    cycle = "attempt" /\ pc = "settled" /\ HeldBy(row, Token) =>
        \A delay \in NextDelays(setup.retry, row.attempts + 1) \cup ({outcome.retryAfter} \ {NULL}) :
            Representable(now + delay)

(* ... what is asked for is in the row, once it is pending again.          *)
RowWaitsAsAsked ==
    cycle # "attempt" /\ row.status = "pending" /\ asked # NULL =>
        row.nextAttemptAt # NULL /\ asked <= row.nextAttemptAt

CycleInv == CycleType /\ Phases /\ AnswerSaysWhatIsAsked
==============================================================================
