--------------------------- MODULE RetryCycleProofs ---------------------------
(***************************************************************************)
(* Theorems of RetryCycle, for any options, destinations, statuses,        *)
(* headers, configurations and bounds: first about the transport of        *)
(* HttpTransport, then about waiting, with the arithmetic of the backoff.  *)
(***************************************************************************)
EXTENDS RetryCycle, InductionLemmas

Signals == [aborted: BOOLEAN, timer: BOOLEAN, timedOut: BOOLEAN, listener: BOOLEAN]

SignalTypes ==
    /\ signal \in BOOLEAN
    /\ combined \in Signals
    /\ pc \in TransportPhase
    /\ fault \in {"TypeError", "AbortError", NULL}

(* A request with a deadline whose controller has not been aborted still   *)
(* listens to the caller.                                                  *)
Listening == pc \in Sent /\ options.deadline => combined.aborted \/ combined.listener

(* A call begins with a signal that is not aborted. *)
FreshAtRest == pc = "idle" => ~signal

(* Nobody but the caller and the deadline aborts a request. *)
AbortsHaveCause ==
    /\ pc \in Sent /\ RequestAborted => signal \/ combined.timedOut
    /\ pc = "rejected" /\ fault = "AbortError" => signal \/ combined.timedOut

RequestInv ==
    /\ SignalTypes
    /\ NothingLeaks
    /\ AbortReachesRequest
    /\ Listening
    /\ FreshAtRest
    /\ AbortsHaveCause

USE DEF Sent, TransportPhase

-----------------------------------------------------------------------------
(* Every way to send the request begins with the caller's signal as it is. *)
LEMMA SendKeeps ==
    ASSUME RequestInv, pc \in {"idle", "token", "body"}, Send(signal),
           UNCHANGED <<options, signal, fault>>
    PROVE  RequestInv'
BY DEF RequestInv, SignalTypes, Signals, NothingLeaks, AbortReachesRequest, Listening, FreshAtRest,
       AbortsHaveCause, RequestAborted, Send, CombineSignals, NotCombined

(* A step to a phase without a request changes no signal. *)
LEMMA QuietKeeps ==
    ASSUME RequestInv, pc \in {"idle", "token", "body"}, pc' \in {"token", "body", "settled"},
           UNCHANGED <<options, signal, combined, fault>>
    PROVE  RequestInv'
BY DEF RequestInv, SignalTypes, NothingLeaks, AbortReachesRequest, Listening, FreshAtRest,
       AbortsHaveCause

LEMMA BuildBodyKeeps ==
    ASSUME RequestInv, pc \in {"idle", "token"}, BuildBody(signal),
           UNCHANGED <<options, signal, fault>>
    PROVE  RequestInv'
<1>1. CASE options.body
  BY <1>1, QuietKeeps DEF BuildBody
<1>2. CASE ~options.body
  BY <1>2, SendKeeps DEF BuildBody
<1> QED BY <1>1, <1>2

(* The call of upload(). *)
LEMMA UploadKeeps ==
    ASSUME RequestInv, NEW destination, Upload(destination)
    PROVE  RequestInv'
<1>1. pc = "idle" /\ signal = FALSE /\ UNCHANGED <<options, signal, fault>>
  BY DEF Upload, RequestInv, SignalTypes, FreshAtRest
<1>2. CASE destination # "path" /\ ~options.absolute
  BY <1>1, <1>2, QuietKeeps DEF Upload
<1>3. CASE ~(destination # "path" /\ ~options.absolute) /\ options.token /\ destination # "away"
  BY <1>1, <1>3, QuietKeeps DEF Upload
<1>4. CASE ~(destination # "path" /\ ~options.absolute) /\ ~(options.token /\ destination # "away")
  BY <1>1, <1>4, BuildBodyKeeps DEF Upload
<1> QED BY <1>2, <1>3, <1>4

(* The steps of the request itself. *)
LEMMA RequestStepsKeep ==
    ASSUME RequestInv,
           \/ ResponseArrives \/ NetworkFails \/ AbortSeen \/ Catch \/ DeadlinePasses
           \/ \E code, header : TextArrives(code, header, now)
    PROVE  RequestInv'
<1> USE DEF RequestInv, SignalTypes, Signals, NothingLeaks, AbortReachesRequest, Listening,
            FreshAtRest, AbortsHaveCause, RequestAborted
<1>1. CASE ResponseArrives
  BY <1>1 DEF ResponseArrives
<1>2. CASE NetworkFails
  BY <1>2 DEF NetworkFails, Reject
<1>3. CASE AbortSeen
  BY <1>3 DEF AbortSeen, Reject
<1>4. CASE Catch
  BY <1>4 DEF Catch, Release
<1>5. CASE DeadlinePasses
  BY <1>5 DEF DeadlinePasses
<1>6. ASSUME NEW code, NEW header, TextArrives(code, header, now)
      PROVE  RequestInv'
  BY <1>6 DEF TextArrives, Release
<1> QED BY <1>1, <1>2, <1>3, <1>4, <1>5, <1>6

LEMMA MovesKeep ==
    ASSUME RequestInv, TransportMoves
    PROVE  RequestInv'
<1>1. CASE TokenReady
  <2>1. pc = "token" /\ BuildBody(signal) /\ UNCHANGED <<options, signal, fault>>
    BY <1>1 DEF TokenReady
  <2> QED BY <2>1, BuildBodyKeeps
<1>2. CASE BodyReady
  <2>1. pc = "body" /\ Send(signal) /\ UNCHANGED <<options, signal, fault>>
    BY <1>2 DEF BodyReady
  <2> QED BY <2>1, SendKeeps
<1>3. ASSUME NEW error \in Rejections, PreparationFails(error)
      PROVE  RequestInv'
  <2>1. /\ pc \in {"token", "body"} /\ pc' = "settled"
        /\ UNCHANGED <<options, signal, combined, fault>>
    BY <1>3 DEF PreparationFails
  <2> QED BY <2>1, QuietKeeps
<1>4. CASE ResponseArrives \/ NetworkFails \/ AbortSeen \/ Catch \/ DeadlinePasses
  BY <1>4, RequestStepsKeep
<1> QED BY <1>1, <1>2, <1>3, <1>4 DEF TransportMoves, TransportOwes

(* Forget() leaves nothing of a call that has settled. *)
LEMMA ForgetKeeps ==
    ASSUME RequestInv, Forget
    PROVE  RequestInv'
BY DEF Forget, NotCombined, RequestInv, SignalTypes, Signals, NothingLeaks, AbortReachesRequest,
       Listening, FreshAtRest, AbortsHaveCause, RequestAborted

(* An abort of stop() or pause(), at any moment of a call. *)
LEMMA AbortKeeps ==
    ASSUME RequestInv, Abort
    PROVE  RequestInv'
<1> USE DEF RequestInv, SignalTypes, Signals, NothingLeaks, AbortReachesRequest, Listening,
            FreshAtRest, AbortsHaveCause, RequestAborted
<1>1. CASE pc # "idle" /\ ~signal
  BY <1>1 DEF Abort, AbortSignal
<1>2. CASE ~(pc # "idle" /\ ~signal)
  BY <1>2 DEF Abort, transport
<1> QED BY <1>1, <1>2

LEMMA StutterKeeps ==
    ASSUME RequestInv, UNCHANGED transport
    PROVE  RequestInv'
BY DEF transport, RequestInv, SignalTypes, NothingLeaks, AbortReachesRequest, Listening,
       FreshAtRest, AbortsHaveCause, RequestAborted

LEMMA RequestInvInit == Init => RequestInv
<1>1. Init => TransportInit
  BY DEF Init
<1>2. TransportInit => SignalTypes /\ NothingLeaks /\ FreshAtRest
  <2>1. NotCombined \in Signals /\ ~NotCombined.timer /\ ~NotCombined.listener
    BY DEF NotCombined, Signals
  <2>2. TransportInit => signal \in BOOLEAN /\ ~signal
    BY Zenon DEF TransportInit
  <2> QED BY <2>1, <2>2 DEF TransportInit, SignalTypes, NothingLeaks, FreshAtRest
<1>3. TransportInit => AbortReachesRequest /\ Listening /\ AbortsHaveCause
  BY DEF TransportInit, AbortReachesRequest, Listening, AbortsHaveCause
<1> QED BY <1>1, <1>2, <1>3 DEF RequestInv

LEMMA RequestInvStep == RequestInv /\ [Next]_vars => RequestInv'
<1> SUFFICES ASSUME RequestInv, [Next]_vars PROVE RequestInv'
  OBVIOUS
<1>1. CASE Attempt
  BY <1>1, UploadKeeps DEF Attempt
<1>2. CASE Request
  <2>1. CASE TransportMoves
    BY <2>1, MovesKeep
  <2>2. ASSUME NEW code \in Codes, NEW header \in Headers, TextArrives(code, header, now)
        PROVE  RequestInv'
    BY <2>2, RequestStepsKeep
  <2> QED BY <1>2, <2>1, <2>2 DEF Request
<1>3. CASE Settle
  BY <1>3, ForgetKeeps DEF Settle
<1>4. CASE StopBegin \/ Pause
  BY <1>4, AbortKeeps DEF StopBegin, Pause
<1>5. CASE \/ NothingDue \/ ScheduleWake \/ Wake \/ Start \/ StopEnd \/ Resume \/ Tick
           \/ UNCHANGED vars
  BY <1>5, StutterKeeps
     DEF NothingDue, ScheduleWake, Wake, Start, StopEnd, Resume, Tick, vars
<1> QED BY <1>1, <1>2, <1>3, <1>4, <1>5 DEF Next

LEMMA RequestInvHolds == Spec => []RequestInv
BY RequestInvInit, RequestInvStep, PTL DEF Spec

-----------------------------------------------------------------------------
(* Whichever way upload() ends, and at every await before the request, the *)
(* deadline timer is cleared and the abort listener removed                *)
(* (combineSignals() and the finally clause).                              *)
THEOREM NothingLeaksEver == Spec => []NothingLeaks
<1>1. RequestInv => NothingLeaks
  BY DEF RequestInv
<1> QED BY <1>1, RequestInvHolds, PTL

(* An abort that has happened, before or after the signals were combined,  *)
(* has reached the request that is under way (combineSignals(), the        *)
(* awaits of upload() and abortUpload()).                                  *)
THEOREM AbortsArrive == Spec => []AbortReachesRequest
<1>1. RequestInv => AbortReachesRequest
  BY DEF RequestInv
<1> QED BY <1>1, RequestInvHolds, PTL

(* The catch clause of upload() names who ended the request, provided the  *)
(* application's own getAccessToken() and buildBody() reject with no       *)
(* AbortError.                                                             *)
THEOREM ErrorsNameTheirCause ==
    ASSUME "AbortError" \notin Rejections, NULL \notin {"AbortError", "timeout"}
    PROVE  Spec => ThrownSaysWhoEndedIt
<1> DEFINE Told == (pc # "settled" /\ pc' = "settled") =>
                      /\ outcome'.thrown = "AbortError" => signal
                      /\ outcome'.thrown = "timeout" => combined.timedOut /\ ~signal
<1>1. ASSUME RequestInv, Catch PROVE Told
  BY <1>1 DEF Catch, ErrorThrown, Throw, RequestInv, SignalTypes, AbortsHaveCause
<1>2. ASSUME NEW error \in Rejections, PreparationFails(error) PROVE Told
  BY <1>2, TransportAssumption DEF PreparationFails, Throw
<1>3. ASSUME NEW code, NEW header, TextArrives(code, header, now) PROVE Told
  BY <1>3 DEF TextArrives, Answer
<1>4. ASSUME NEW destination, Upload(destination) PROVE Told
  <2>1. CASE destination # "path" /\ ~options.absolute
    <3>1. outcome' = Throw("destination rejected")
      BY <1>4, <2>1 DEF Upload
    <3> QED BY <3>1 DEF Throw
  <2>2. CASE ~(destination # "path" /\ ~options.absolute)
    <3>1. pc' \in {"token", "body", "fetch"}
      BY <1>4, <2>2 DEF Upload, BuildBody, Send
    <3> QED BY <3>1
  <2> QED BY <2>1, <2>2
<1>5. ASSUME RequestInv, TransportMoves PROVE Told
  BY <1>1, <1>2, <1>5
     DEF TransportMoves, TransportOwes, TokenReady, BodyReady, BuildBody, Send, AbortSeen,
         DeadlinePasses, ResponseArrives, NetworkFails, Reject
<1>6. ASSUME RequestInv, [Next]_vars PROVE [Told]_transport
  <2>1. CASE Attempt
    BY <1>4, <2>1 DEF Attempt
  <2>2. CASE Request
    BY <1>3, <1>5, <1>6, <2>2 DEF Request
  <2>3. CASE Settle \/ StopBegin \/ Pause
    BY <2>3 DEF Settle, Forget, StopBegin, Pause, Abort, AbortSignal, transport
  <2>4. CASE \/ NothingDue \/ ScheduleWake \/ Wake \/ Start \/ StopEnd \/ Resume \/ Tick
             \/ UNCHANGED vars
    BY <2>4 DEF NothingDue, ScheduleWake, Wake, Start, StopEnd, Resume, Tick, vars
  <2> QED BY <1>6, <2>1, <2>2, <2>3, <2>4 DEF Next
<1> QED BY <1>6, RequestInvHolds, PTL DEF Spec, ThrownSaysWhoEndedIt

-----------------------------------------------------------------------------
(* Waiting                                                                 *)

(* Parts of a row may be rewritten one after the other.                    *)
LEMMA RowUpdates ==
    ASSUME NEW task \in Row
    PROVE  /\ \A s \in RowStatus, n \in Nat : [task EXCEPT !.status = s, !.attempts = n] \in Row
           /\ \A t \in Nat \cup {NULL}, n \in Int \cup {NULL} :
                 [task EXCEPT !.processingToken = t, !.processingStartedAt = n] \in Row
           /\ \A n \in Int \cup {NULL}, p \in {0, 1} :
                 [task EXCEPT !.nextAttemptAt = n, !.progress = p] \in Row
           /\ \A k \in ErrorKind \cup {NULL} : [task EXCEPT !.lastError = k] \in Row
BY DEF Row

(* A row that has let its claim go, whatever else is written.              *)
LetsGo(new) == new \in Row /\ new.processingToken = NULL

Freed(task, status, attempts, at, progress, error) ==
    [task EXCEPT !.status = status, !.attempts = attempts,
                 !.processingToken = NULL, !.processingStartedAt = NULL,
                 !.nextAttemptAt = at, !.progress = progress, !.lastError = error]

LEMMA FreedLetsGo ==
    ASSUME NEW task \in Row, NEW status \in {"pending", "paused", "completed", "failed", "blocked"},
           NEW n \in Nat, NEW at \in Int \cup {NULL}, NEW p \in {0, 1},
           NEW k \in ErrorKind \cup {NULL}
    PROVE  LetsGo(Freed(task, status, n, at, p, k))
<1> DEFINE r1 == [task EXCEPT !.status = status, !.attempts = n]
           r2 == [r1 EXCEPT !.processingToken = NULL, !.processingStartedAt = NULL]
           r3 == [r2 EXCEPT !.nextAttemptAt = at, !.progress = p]
           r4 == [r3 EXCEPT !.lastError = k]
<1>1. r1 \in Row
  BY RowUpdates DEF RowStatus, Status
<1>2. r2 \in Row
  <2> HIDE DEF r1
  <2> QED BY <1>1, RowUpdates
<1>3. r3 \in Row
  <2> HIDE DEF r2
  <2> QED BY <1>2, RowUpdates
<1>4. r4 \in Row
  <2> HIDE DEF r3
  <2> QED BY <1>3, RowUpdates
<1>5. Freed(task, status, n, at, p, k) = r4
  BY DEF Freed
<1>6. r4.processingToken = NULL
  BY DEF Row
<1> HIDE DEF r4
<1> QED BY <1>4, <1>5, <1>6 DEF LetsGo

(* A claim leaves a row.                                                   *)
LEMMA ClaimedIsRow ==
    ASSUME NEW task \in Row, NEW token \in Nat, NEW time \in Nat
    PROVE  Claimed(task, token, time) \in Row
<1> DEFINE r == [task EXCEPT !.status = "uploading", !.attempts = task.attempts]
           q == [r EXCEPT !.processingToken = token, !.processingStartedAt = time]
<1>1. r \in Row
  <2>1. "uploading" \in RowStatus /\ task.attempts \in Nat
    BY DEF Row, RowStatus, Status
  <2> QED BY <2>1, RowUpdates
<1>2. q \in Row
  <2>1. token \in Nat \cup {NULL} /\ time \in Int \cup {NULL}
    OBVIOUS
  <2> HIDE DEF r
  <2> QED BY <1>1, <2>1, RowUpdates
<1>3. [q EXCEPT !.nextAttemptAt = NULL, !.progress = 0] \in Row
  <2> HIDE DEF q
  <2> QED BY <1>2, RowUpdates
<1>4. Claimed(task, token, time) = [q EXCEPT !.nextAttemptAt = NULL, !.progress = 0]
  BY DEF Claimed, Row
<1> QED BY <1>3, <1>4

(* Whatever else is written lets the claim go.                             *)
LEMMA WritesLetGo ==
    ASSUME NEW task \in Row
    PROVE  /\ \A status \in {"pending", "paused"} : LetsGo(Decided(task, status))
           /\ LetsGo(Completed(task))
           /\ \A status \in {"failed", "blocked"}, kind \in ErrorKind :
                 LetsGo(GivenUp(task, status, kind))
           /\ \A kind \in ErrorKind, at \in Nat : LetsGo(Rescheduled(task, kind, at))
           /\ \A kind \in ErrorKind : LetsGo(Released(task, kind))
<1>0. /\ task.attempts \in Nat /\ task.attempts + 1 \in Nat
      /\ task.nextAttemptAt \in Int \cup {NULL} /\ task.progress \in {0, 1}
      /\ task.lastError \in ErrorKind \cup {NULL}
  BY DEF Row
<1>1. ASSUME NEW status \in {"pending", "paused"}
      PROVE  LetsGo(Decided(task, status))
  <2>1. Decided(task, status)
        = Freed(task, status, task.attempts, NULL, task.progress, task.lastError)
    BY DEF Decided, Freed, Row
  <2> QED BY <1>0, <2>1, FreedLetsGo
<1>2. LetsGo(Completed(task))
  <2>1. Completed(task) = Freed(task, "completed", task.attempts + 1, NULL, 1, NULL)
    BY DEF Completed, Freed
  <2> QED BY <1>0, <2>1, FreedLetsGo
<1>3. ASSUME NEW status \in {"failed", "blocked"}, NEW kind \in ErrorKind
      PROVE  LetsGo(GivenUp(task, status, kind))
  <2>1. GivenUp(task, status, kind) = Freed(task, status, task.attempts + 1, NULL, 0, kind)
    BY DEF GivenUp, Freed
  <2> QED BY <1>0, <2>1, FreedLetsGo
<1>4. ASSUME NEW kind \in ErrorKind, NEW at \in Nat
      PROVE  LetsGo(Rescheduled(task, kind, at))
  <2>1. Rescheduled(task, kind, at) = Freed(task, "pending", task.attempts + 1, at, 0, kind)
    BY DEF Rescheduled, Freed
  <2> QED BY <1>0, <2>1, FreedLetsGo
<1>5. ASSUME NEW kind \in ErrorKind
      PROVE  LetsGo(Released(task, kind))
  <2>1. Released(task, kind)
        = Freed(task, "pending", task.attempts, task.nextAttemptAt, task.progress, kind)
    BY DEF Released, Freed, Row
  <2> QED BY <1>0, <2>1, FreedLetsGo
<1> QED BY <1>1, <1>2, <1>3, <1>4, <1>5

(* What the rows say of their next attempt.                                *)
LEMMA RowsSay ==
    ASSUME NEW task \in Row
    PROVE  /\ \A token, time : /\ Claimed(task, token, time).status = "uploading"
                               /\ Claimed(task, token, time).nextAttemptAt = NULL
           /\ \A status : /\ Decided(task, status).status = status
                          /\ Decided(task, status).nextAttemptAt = NULL
           /\ Completed(task).status = "completed"
           /\ \A status, kind : GivenUp(task, status, kind).status = status
           /\ \A kind, at : Rescheduled(task, kind, at).nextAttemptAt = at
BY DEF Row, Claimed, Decided, Completed, GivenUp, Rescheduled, Released

(* A factor of at least one half leaves at least half of the wait.         *)
LEMMA HalfAtLeast ==
    ASSUME NEW c \in Nat, NEW steps \in Nat \ {0}, NEW j \in Nat
    PROVE  /\ (c * (steps + 2 * j)) \div (2 * steps) \in Nat
           /\ (c * (steps + 2 * j)) \div (2 * steps) >= c \div 2
<1> DEFINE q == c \div 2
           n == c * (steps + 2 * j)
           d == 2 * steps
<1>1. q \in Nat /\ 2 * q <= c
  OBVIOUS
<1>2. d \in Nat \ {0} /\ n \in Nat
  OBVIOUS
<1>3. n >= c * steps
  <2>1. n = c * steps + 2 * (c * j)
    OBVIOUS
  <2>2. c * j \in Nat
    OBVIOUS
  <2> QED BY <2>1, <2>2
<1>4. c * steps >= (2 * q) * steps
  BY <1>1
<1>5. n >= d * q
  BY <1>1, <1>3, <1>4
<1>6. n \div d >= q /\ n \div d \in Nat
  <2> HIDE DEF n, d, q
  <2> QED BY <1>1, <1>2, <1>5
<1> QED BY <1>6

(* The largest factor is below one and a half.                             *)
LEMMA HalfAsMuchAgain ==
    ASSUME NEW c \in Nat, NEW steps \in Nat \ {0}, NEW j \in 0 .. steps - 1
    PROVE  2 * ((c * (steps + 2 * j)) \div (2 * steps)) <= 3 * c
<1> DEFINE n == c * (steps + 2 * j)
           d == 2 * steps
           q == n \div d
<1>1. d \in Nat \ {0} /\ n \in Nat
  OBVIOUS
<1>2. q \in Nat /\ d * q <= n
  <2> HIDE DEF n, d
  <2> QED BY <1>1
<1>3. n <= steps * (3 * c)
  <2>1. 3 * steps - (steps + 2 * j) \in Nat
    OBVIOUS
  <2>2. c * (3 * steps - (steps + 2 * j)) \in Nat
    BY <2>1
  <2>3. steps * (3 * c) - n = c * (3 * steps - (steps + 2 * j))
    OBVIOUS
  <2> QED BY <2>2, <2>3
<1>4. steps * (2 * q) <= steps * (3 * c)
  <2>1. d * q = steps * (2 * q)
    BY <1>2
  <2> QED BY <1>1, <1>2, <1>3, <2>1
<1>5. ASSUME NEW x \in Nat, NEW y \in Nat, steps * x <= steps * y PROVE x <= y
  BY <1>5
<1>6. 2 * q \in Nat /\ 3 * c \in Nat
  BY <1>2
<1> HIDE DEF n, d, q
<1> QED BY <1>4, <1>5, <1>6 DEF q, n, d

(* The power obeys its recursion: there is a function that does.           *)
LEMMA PowerLaws ==
    ASSUME NEW m \in Nat
    PROVE  /\ Power(m, 0) = 1
           /\ \A n \in Nat : Power(m, n) \in Nat /\ Power(m, n + 1) = Power(m, n) * m
<1> DEFINE F(g) == [n \in Nat |-> IF n = 0 THEN 1 ELSE g[n - 1] * m]
           power == CHOOSE g : g = F(g)
<1>1. \E g : g = F(g)
  <2>1. PICK step \in [Nat -> Nat] : \A x \in Nat : step[x] = x * m
    <3>1. [x \in Nat |-> x * m] \in [Nat -> Nat]
      OBVIOUS
    <3> QED BY <3>1
  <2>2. PICK g \in [Nat -> Nat] : g[0] = 1 /\ \A n \in Nat : g[n + 1] = step[g[n]]
    <3>1. 1 \in Nat
      OBVIOUS
    <3>2. PICK g : Iterates(g, Nat, 1, step)
      BY <2>1, <3>1, Iteration
    <3> QED BY <3>2 DEF Iterates
  <2>3. ASSUME NEW n \in Nat PROVE g[n] = IF n = 0 THEN 1 ELSE g[n - 1] * m
    <3>1. CASE n = 0
      BY <2>2, <3>1
    <3>2. CASE n # 0
      <4>1. n - 1 \in Nat /\ (n - 1) + 1 = n
        BY <3>2
      <4>2. g[(n - 1) + 1] = step[g[n - 1]] /\ g[n - 1] \in Nat
        BY <2>2, <4>1
      <4>3. step[g[n - 1]] = g[n - 1] * m
        BY <2>1, <4>2
      <4> QED BY <3>2, <4>1, <4>2, <4>3
    <3> QED BY <3>1, <3>2
  <2> QED BY <2>2, <2>3
<1>2. power = F(power)
  <2> HIDE DEF F
  <2> QED BY <1>1
<1>3. \A n \in Nat : Power(m, n) = power[n]
  BY DEF Power
<1>4. /\ power[0] = 1
      /\ \A n \in Nat : power[n + 1] = power[n] * m
  <2> HIDE DEF power
  <2>1. \A n \in Nat : n + 1 \in Nat /\ n + 1 # 0 /\ (n + 1) - 1 = n
    OBVIOUS
  <2> QED BY <1>2, <2>1
<1>5. Nat \subseteq {n \in Nat : power[n] \in Nat}
  <2> HIDE DEF power
  <2>1. 0 \in {n \in Nat : power[n] \in Nat}
    BY <1>4
  <2>2. \A n \in Nat : n \in {k \in Nat : power[k] \in Nat} => n + 1 \in {k \in Nat : power[k] \in Nat}
    BY <1>4
  <2> QED BY <2>1, <2>2, SetInduction
<1> HIDE DEF power
<1> QED BY <1>3, <1>4, <1>5

(* What one more attempt does to a wait and to its cap.                    *)
LEMMA CapOnceMore ==
    ASSUME NEW x \in Nat, NEW m \in Nat, NEW max \in Nat
    PROVE  AtMost(AtMost(x, max) * m, max) = AtMost(x * m, max)
<1>1. CASE x <= max
  BY <1>1 DEF AtMost
<1>2. CASE x > max /\ m = 0
  BY <1>2 DEF AtMost
<1>3. CASE x > max /\ m >= 1
  <2>1. PICK k \in Nat : m = k + 1
    <3>1. m - 1 \in Nat /\ m = (m - 1) + 1
      BY <1>3
    <3> QED BY <3>1
  <2>2. max * k \in Nat /\ x * k \in Nat
    OBVIOUS
  <2>3. max * m = max * k + max /\ x * m = x * k + x
    BY <2>1
  <2>4. max * m >= max /\ x * m > max
    BY <1>3, <2>2, <2>3
  <2>5. AtMost(x, max) = max
    BY <1>3 DEF AtMost
  <2> QED BY <2>4, <2>5 DEF AtMost
<1> QED BY <1>1, <1>2, <1>3

(* The power nextDelayMs() computes is the reference: each wait multiplies *)
(* the one before it, up to the cap, whatever the configuration.           *)
LEMMA CappedIsBackoff ==
    ASSUME NEW s, s.initial \in Nat, s.max \in Nat, s.multiplier \in Nat,
           NEW attempts \in Nat \ {0}
    PROVE  Capped(s, attempts) \in Nat /\ Backoff(s, attempts) = Capped(s, attempts)
<1> DEFINE x(n) == s.initial * Power(s.multiplier, n)
           F(w) == [n \in 1 .. attempts |->
                      IF n = 1 THEN AtMost(s.initial, s.max)
                               ELSE AtMost(w[n - 1] * s.multiplier, s.max)]
           wait == CHOOSE w : w = F(w)
           W == [n \in 1 .. attempts |-> AtMost(x(n - 1), s.max)]
<1>1. /\ x(0) = s.initial
      /\ \A n \in Nat : x(n) \in Nat /\ x(n + 1) = x(n) * s.multiplier
  <2>1. x(0) = s.initial
    <3>1. Power(s.multiplier, 0) = 1
      BY PowerLaws
    <3> QED BY <3>1
  <2>2. ASSUME NEW n \in Nat PROVE x(n) \in Nat /\ x(n + 1) = x(n) * s.multiplier
    <3>1. Power(s.multiplier, n) \in Nat /\ Power(s.multiplier, n + 1) = Power(s.multiplier, n) * s.multiplier
      BY PowerLaws
    <3> QED BY <3>1
  <2> QED BY <2>1, <2>2
<1> HIDE DEF x
<1>2. \A n \in Nat : AtMost(x(n), s.max) \in Nat
  BY <1>1 DEF AtMost
<1>3. \A n \in Nat : AtMost(AtMost(x(n), s.max) * s.multiplier, s.max) = AtMost(x(n + 1), s.max)
  <2> SUFFICES ASSUME NEW n \in Nat
               PROVE  AtMost(AtMost(x(n), s.max) * s.multiplier, s.max) = AtMost(x(n + 1), s.max)
    OBVIOUS
  <2>1. x(n) \in Nat
    BY <1>1
  <2>2. AtMost(AtMost(x(n), s.max) * s.multiplier, s.max) = AtMost(x(n) * s.multiplier, s.max)
    BY <2>1, CapOnceMore, Zenon
  <2> QED BY <1>1, <2>2
<1>4. W = F(W)
  <2>1. ASSUME NEW n \in 1 .. attempts
        PROVE  W[n] = IF n = 1 THEN AtMost(s.initial, s.max)
                               ELSE AtMost(W[n - 1] * s.multiplier, s.max)
    <3>1. CASE n = 1
      BY <1>1, <3>1
    <3>2. CASE n # 1
      <4>1. n - 2 \in Nat /\ n - 1 \in 1 .. attempts /\ (n - 2) + 1 = n - 1 /\ (n - 1) - 1 = n - 2
        BY <3>2
      <4>2. W[n - 1] = AtMost(x(n - 2), s.max) /\ W[n] = AtMost(x(n - 1), s.max)
        BY <4>1
      <4>3. AtMost(AtMost(x(n - 2), s.max) * s.multiplier, s.max) = AtMost(x(n - 1), s.max)
        BY <1>3, <4>1
      <4> HIDE DEF W
      <4> QED BY <3>2, <4>2, <4>3
    <3> QED BY <3>1, <3>2
  <2>2. W = [n \in 1 .. attempts |-> W[n]]
    OBVIOUS
  <2> HIDE DEF W
  <2> QED BY <2>1, <2>2
<1>5. wait = F(wait)
  <2> HIDE DEF F, W
  <2> QED BY <1>4
<1> DEFINE S == {n \in Nat : n + 1 <= attempts => wait[n + 1] = AtMost(x(n), s.max)}
<1>6. 0 \in S
  <2> HIDE DEF wait
  <2>1. 1 \in 1 .. attempts
    OBVIOUS
  <2>2. wait[1] = AtMost(s.initial, s.max)
    BY <1>5, <2>1
  <2> QED BY <1>1, <2>2
<1>7. ASSUME NEW n \in Nat, n \in S PROVE n + 1 \in S
  <2> HIDE DEF wait
  <2> SUFFICES ASSUME (n + 1) + 1 <= attempts
               PROVE  wait[(n + 1) + 1] = AtMost(x(n + 1), s.max)
    OBVIOUS
  <2>1. (n + 1) + 1 \in 1 .. attempts /\ (n + 1) + 1 # 1 /\ ((n + 1) + 1) - 1 = n + 1
    OBVIOUS
  <2>2. wait[(n + 1) + 1] = AtMost(wait[n + 1] * s.multiplier, s.max)
    BY <1>5, <2>1
  <2>3. wait[n + 1] = AtMost(x(n), s.max)
    BY <1>7
  <2> QED BY <1>3, <2>2, <2>3
<1>8. Nat \subseteq S
  <2> HIDE DEF S
  <2> QED BY <1>6, <1>7, SetInduction
<1>9. attempts - 1 \in Nat /\ (attempts - 1) + 1 = attempts
  OBVIOUS
<1>10. wait[attempts] = AtMost(x(attempts - 1), s.max)
  <2> HIDE DEF wait
  <2> QED BY <1>8, <1>9
<1>11. Backoff(s, attempts) = wait[attempts]
  BY DEF Backoff
<1>12. Capped(s, attempts) = AtMost(x(attempts - 1), s.max)
  <2>1. AtLeast(attempts - 1, 0) = attempts - 1
    BY <1>9 DEF AtLeast
  <2> QED BY <2>1 DEF Capped, x
<1> HIDE DEF wait
<1> QED BY <1>2, <1>9, <1>10, <1>11, <1>12

(* Every delay of nextDelayMs() is, without jitter, the reference wait, and *)
(* otherwise between the half of it and one and a half times it, whatever   *)
(* the configuration, the attempt and the random number; so it exceeds      *)
(* maxDelayMs by half at most, and without jitter never                     *)
(* (exponential-backoff.ts, where the factor comes after the cap).          *)
THEOREM DelaysInRange ==
    ASSUME NEW s, s.initial \in Nat, s.max \in Nat, s.multiplier \in Nat, s.jitter \in BOOLEAN,
           NEW attempts \in Nat \ {0}, NEW delay \in NextDelays(s, attempts)
    PROVE  LET wait == Backoff(s, attempts)
           IN  /\ wait \in Nat /\ wait <= s.max
               /\ delay \in Nat
               /\ s.jitter => wait \div 2 <= delay /\ 2 * delay <= 3 * wait
               /\ ~s.jitter => delay = wait
<1> DEFINE c == Capped(s, attempts)
<1>1. c \in Nat /\ Backoff(s, attempts) = c
  BY CappedIsBackoff
<1>2. c <= s.max
  <2>1. AtLeast(attempts - 1, 0) \in Nat
    BY DEF AtLeast
  <2>2. Power(s.multiplier, AtLeast(attempts - 1, 0)) \in Nat
    BY <2>1, PowerLaws
  <2> QED BY <2>2 DEF Capped, AtMost
<1>3. CASE s.jitter
  <2>1. PICK j \in 0 .. JitterSteps - 1 :
           delay = (c * (JitterSteps + 2 * j)) \div (2 * JitterSteps)
    BY <1>3 DEF NextDelays
  <2>2. JitterSteps \in Nat \ {0} /\ j \in Nat
    BY DelayAssumption
  <2> HIDE DEF c
  <2>3. delay \in Nat /\ delay >= c \div 2
    BY <1>1, <2>1, <2>2, HalfAtLeast
  <2>4. 2 * delay <= 3 * c
    BY <1>1, <2>1, <2>2, HalfAsMuchAgain
  <2> QED BY <1>1, <1>2, <1>3, <2>3, <2>4
<1>4. CASE ~s.jitter
  BY <1>1, <1>2, <1>4 DEF NextDelays
<1> QED BY <1>3, <1>4

(* The reference of the upload's strategy is what the strategy computes.   *)
LEMMA StrategyKnown ==
    ASSUME Phases, row \in Row
    PROVE  LET c == Capped(setup.retry, row.attempts + 1)
           IN  c \in Nat /\ Backoff(setup.retry, row.attempts + 1) = c
<1> DEFINE s == setup.retry
           n == row.attempts + 1
           c == Capped(s, n)
<1>1. PICK config \in Configs : s = ResolveRetryStrategy(config)
  BY DEF Phases
<1>2. n \in Nat \ {0}
  BY DEF Row
<1>3. c \in Nat /\ Backoff(s, n) = c
  <2>1. /\ config \in RetryConfig
        /\ DefaultDelay \in Nat /\ DefaultMaxDelay \in Nat /\ 1 \in Nat /\ 2 \in Nat
    BY CycleAssumption, DelayAssumption DEF CycleAssumption, DelayAssumption
  <2>2. \A value, default : value \in Optional(Nat) /\ default \in Nat => Given(value, default) \in Nat
    BY DEF Optional, Given
  <2>3. s.initial \in Nat /\ s.max \in Nat /\ s.multiplier \in Nat
    <3>1. /\ config.initialDelay \in Optional(Nat) /\ config.maxDelay \in Optional(Nat)
          /\ config.multiplier \in Optional(Nat)
      BY <2>1 DEF RetryConfig
    <3> DEFINE initial == Given(config.initialDelay, DefaultDelay)
               cap == IF config.strategy = "fixed" THEN Given(config.maxDelay, initial)
                                                   ELSE Given(config.maxDelay, DefaultMaxDelay)
               factor == IF config.strategy = "fixed" THEN 1 ELSE Given(config.multiplier, 2)
    <3>2. s.initial = initial /\ s.max = cap /\ s.multiplier = factor
      BY <1>1 DEF ResolveRetryStrategy
    <3>3. initial \in Nat
      BY <2>1, <2>2, <3>1
    <3>4. cap \in Nat
      BY <2>1, <2>2, <3>1, <3>3
    <3>5. factor \in Nat
      BY <2>1, <2>2, <3>1
    <3> QED BY <3>2, <3>3, <3>4, <3>5
  <2> HIDE DEF s, n
  <2> QED BY <1>2, <2>3, CappedIsBackoff
<1> QED BY <1>3

(* A wait of the strategy is no shorter than the reference asks, which     *)
(* asks for an instant of the clock.                                       *)
LEMMA StrategyWaits ==
    ASSUME Phases, row \in Row, now \in Nat
    PROVE  /\ BackoffAsks \in Nat
           /\ \A delay \in NextDelays(setup.retry, row.attempts + 1) :
                 delay \in Nat /\ BackoffAsks <= now + delay
<1> DEFINE s == setup.retry
           n == row.attempts + 1
           c == Capped(s, n)
<1>3. c \in Nat /\ Backoff(s, n) = c
  BY StrategyKnown
<1>4. BackoffAsks = now + (IF s.jitter THEN c \div 2 ELSE c)
  BY <1>3, Zenon DEF BackoffAsks
<1>1. BackoffAsks \in Nat
  <2>1. c \div 2 \in Nat
    <3> HIDE DEF c
    <3> QED BY <1>3
  <2> HIDE DEF s, c
  <2> QED BY <1>3, <1>4, <2>1
<1> SUFFICES ASSUME NEW delay \in NextDelays(s, n)
             PROVE  delay \in Nat /\ BackoffAsks <= now + delay
  BY <1>1
<1>5. CASE s.jitter
  <2>1. PICK j \in 0 .. JitterSteps - 1 : delay = (c * (JitterSteps + 2 * j)) \div (2 * JitterSteps)
    <3> HIDE DEF s, n
    <3> QED BY <1>5 DEF NextDelays, s, n
  <2>2. delay \in Nat /\ delay >= c \div 2
    <3>1. JitterSteps \in Nat \ {0} /\ j \in Nat
      BY DelayAssumption DEF DelayAssumption
    <3> HIDE DEF c
    <3> QED BY <1>3, <2>1, <3>1, HalfAtLeast
  <2> HIDE DEF s, c
  <2> QED BY <1>3, <1>4, <1>5, <2>2
<1>6. CASE ~s.jitter
  <2>1. delay = c
    BY <1>6 DEF NextDelays
  <2> HIDE DEF s, c
  <2> QED BY <1>3, <1>4, <1>6, <2>1
<1> QED BY <1>5, <1>6

(* The instants a retry may write are a Date's.                            *)
Fits(retryAfter) ==
    \A delay \in NextDelays(setup.retry, row.attempts + 1) \cup ({retryAfter} \ {NULL}) :
        Representable(now + delay)

(* A row that, if it is pending, waits as the answer or, without one, the  *)
(* strategy asks.                                                          *)
Waits(new, retryAfter) ==
    new.status = "pending" =>
        /\ new.nextAttemptAt \in Nat
        /\ retryAfter = NULL => BackoffAsks <= new.nextAttemptAt
        /\ retryAfter # NULL => new.nextAttemptAt = now + retryAfter

(* What a retry leaves.                                                    *)
LEMMA RetryRowsWait ==
    ASSUME Phases, row \in Row, row.nextAttemptAt = NULL, now \in Nat,
           NEW kind \in ErrorKind, NEW retryAfter \in Optional(Nat),
           NEW new \in RetryRows(kind, retryAfter)
    PROVE  LetsGo(new) /\ (Fits(retryAfter) => Waits(new, retryAfter))
<1> DEFINE delays == IF retryAfter = NULL THEN NextDelays(setup.retry, row.attempts + 1)
                                          ELSE {retryAfter}
<1>1. PICK delay \in delays :
         new = IF Representable(now + delay) THEN Rescheduled(row, kind, now + delay)
                                             ELSE Released(row, "unknown")
  BY DEF RetryRows
<1>2. /\ delay \in Nat
      /\ retryAfter = NULL => BackoffAsks <= now + delay
      /\ retryAfter # NULL => delay = retryAfter
      /\ Fits(retryAfter) => Representable(now + delay)
  <2>1. CASE retryAfter = NULL
    BY <2>1, StrategyWaits DEF Fits
  <2>2. CASE retryAfter # NULL
    BY <2>2 DEF Optional, Fits
  <2> QED BY <2>1, <2>2
<1>3. CASE ~Representable(now + delay)
  <2>1. "unknown" \in ErrorKind /\ new = Released(row, "unknown") /\ ~Fits(retryAfter)
    BY <1>1, <1>2, <1>3 DEF ErrorKind
  <2> QED BY <2>1, WritesLetGo
<1>4. CASE Representable(now + delay)
  <2>0. new = Rescheduled(row, kind, now + delay)
    BY <1>1, <1>4
  <2>1. now + delay \in Nat
    BY <1>2
  <2>2. LetsGo(new)
    BY <2>0, <2>1, WritesLetGo
  <2>3. new.nextAttemptAt = now + delay
    BY <2>0, RowsSay
  <2> QED BY <1>2, <2>1, <2>2, <2>3 DEF Waits
<1> QED BY <1>3, <1>4

(* Whatever a failure leaves, waits.                                       *)
LEMMA FailureRowsWait ==
    ASSUME Phases, row \in Row, row.nextAttemptAt = NULL, now \in Nat,
           NEW kind \in ErrorKind, NEW retryAfter \in Optional(Nat),
           NEW new \in FailureRows(kind, retryAfter)
    PROVE  LetsGo(new) /\ (Fits(retryAfter) => Waits(new, retryAfter))
<1>1. CASE new \in RetryRows(kind, retryAfter)
  BY <1>1, RetryRowsWait
<1>2. CASE new = GivenUp(row, "failed", kind)
  BY <1>2, WritesLetGo, RowsSay DEF Waits
<1> QED BY <1>1, <1>2 DEF FailureRows

(* The classifier only speaks of known kinds, and of a rate limit for 429. *)
LEMMA KindsKnown ==
    ASSUME NEW x
    PROVE  /\ ClassifyHttpStatus(x) \in ErrorKind /\ ClassifyThrown(x) \in ErrorKind
           /\ ClassifyHttpStatus(x) = "rate-limit" <=> x = 429
BY DEF ClassifyHttpStatus, ClassifyThrown, ErrorKind

(* How the answer settles a row that the attempt still holds.              *)
LEMMA AnsweredRowsWait ==
    ASSUME Phases, row \in Row, row.nextAttemptAt = NULL, now \in Nat,
           NEW answer \in Outcome, NEW new \in HandleAnswer(answer)
    PROVE  LetsGo(new) /\ (Fits(KeptRetryAfter(answer)) => Waits(new, KeptRetryAfter(answer)))
<1> DEFINE kind == ClassifyHttpStatus(answer.code)
<1>1. kind \in ErrorKind
  BY KindsKnown
<1>2. KeptRetryAfter(answer) \in Optional(Nat)
  BY DEF KeptRetryAfter, Outcome, Optional
<1>3. CASE new = Completed(row)
  BY <1>3, WritesLetGo, RowsSay DEF Waits
<1>4. CASE new = GivenUp(row, "blocked", kind)
  BY <1>1, <1>4, WritesLetGo, RowsSay DEF Waits
<1>5. CASE new \in FailureRows(kind, KeptRetryAfter(answer))
  <2> HIDE DEF kind
  <2> QED BY <1>1, <1>2, <1>5, FailureRowsWait
<1> QED BY <1>3, <1>4, <1>5 DEF HandleAnswer

(* So does an error that was thrown.                                       *)
LEMMA ThrownRowsWait ==
    ASSUME Phases, row \in Row, row.nextAttemptAt = NULL, now \in Nat,
           NEW thrown, NEW new \in HandleThrown(thrown)
    PROVE  LetsGo(new) /\ (Fits(NULL) /\ thrown # "AbortError" => Waits(new, NULL))
<1> DEFINE kind == ClassifyThrown(thrown)
<1>1. kind \in ErrorKind /\ "cancelled" \in ErrorKind /\ NULL \in Optional(Nat)
  BY KindsKnown DEF ErrorKind, Optional
<1>2. CASE thrown = "AbortError" /\ new = Released(row, "cancelled")
  BY <1>1, <1>2, WritesLetGo
<1>3. CASE new = GivenUp(row, "failed", "cancelled")
  BY <1>1, <1>3, WritesLetGo, RowsSay DEF Waits
<1>4. CASE new \in FailureRows(kind, NULL)
  <2> HIDE DEF kind
  <2> QED BY <1>1, <1>4, FailureRowsWait
<1>5. new = GivenUp(row, "failed", "cancelled") \/ new \in FailureRows(kind, NULL)
      \/ (thrown = "AbortError" /\ new = Released(row, "cancelled"))
  <2> HIDE DEF kind
  <2> QED BY DEF HandleThrown, kind
<1> QED BY <1>2, <1>3, <1>4, <1>5

-----------------------------------------------------------------------------
(* What upload() returns and throws has its type.                          *)
LEMMA OutcomesTyped ==
    /\ \A error \in Optional(ThrownKind) : Throw(error) \in Outcome
    /\ \A code \in Codes, header \in Headers, time \in Nat : Answer(code, header, time) \in Outcome
<1>1. \A error \in Optional(ThrownKind) : Throw(error) \in Outcome
  BY DEF Throw, Outcome, Optional
<1>2. ASSUME NEW code \in Codes, NEW header \in Headers, NEW time \in Nat
      PROVE  Answer(code, header, time) \in Outcome
  <2>1. header.value \in Nat /\ Second \in Nat
    BY TransportAssumption, DelayAssumption DEF TransportAssumption, DelayAssumption, IsHeader
  <2>2. header.value * Second \in Nat /\ AtLeast(0, header.value - time) \in Nat
    BY <2>1 DEF AtLeast
  <2>3. ParseRetryAfter(header, time) \in Optional(Nat)
    BY <2>2 DEF ParseRetryAfter, Optional
  <2> QED BY <2>3 DEF Answer, Outcome, Optional
<1> QED BY <1>1, <1>2

(* What of the types RequestInv does not say.                              *)
OutcomeTyped ==
    /\ options \in Options
    /\ outcome # NULL => outcome \in Outcome
    /\ pc = "settled" => outcome \in Outcome

LEMMA TransportParts == RequestInv /\ OutcomeTyped => TransportType
BY DEF RequestInv, SignalTypes, Signals, OutcomeTyped, TransportType

(* The steps of the transport but the arrival of the text end the call, if *)
(* they end it, with an error.                                             *)
LEMMA MovesOutcome ==
    ASSUME RequestInv, OutcomeTyped, TransportMoves
    PROVE  /\ OutcomeTyped'
           /\ pc \notin {"idle", "settled"} /\ pc' # "idle"
           /\ pc' = "settled" => outcome'.code = NULL /\ outcome'.retryAfter = NULL
<1>1. CASE TokenReady
  BY <1>1 DEF TokenReady, BuildBody, Send, OutcomeTyped
<1>2. CASE BodyReady
  BY <1>2 DEF BodyReady, Send, OutcomeTyped
<1>3. CASE AbortSeen \/ NetworkFails
  BY <1>3 DEF AbortSeen, NetworkFails, Reject, OutcomeTyped
<1>4. CASE Catch
  <2>1. ErrorThrown \in Optional(ThrownKind)
    BY DEF ErrorThrown, RequestInv, SignalTypes, Optional, ThrownKind
  <2>2. Throw(ErrorThrown) \in Outcome
    BY <2>1, OutcomesTyped
  <2> QED BY <1>4, <2>2 DEF Catch, Throw, OutcomeTyped
<1>5. CASE DeadlinePasses
  BY <1>5 DEF DeadlinePasses, OutcomeTyped, RequestInv, NothingLeaks
<1>6. CASE ResponseArrives
  BY <1>6 DEF ResponseArrives, OutcomeTyped
<1>7. ASSUME NEW error \in Rejections, PreparationFails(error)
      PROVE  /\ OutcomeTyped'
             /\ pc \notin {"idle", "settled"} /\ pc' # "idle"
             /\ pc' = "settled" => outcome'.code = NULL /\ outcome'.retryAfter = NULL
  <2>1. error \in Optional(ThrownKind)
    BY TransportAssumption DEF TransportAssumption, Optional, ThrownKind
  <2>2. Throw(error) \in Outcome
    BY <2>1, OutcomesTyped
  <2> QED BY <1>7, <2>2 DEF PreparationFails, Throw, OutcomeTyped
<1> QED BY <1>1, <1>2, <1>3, <1>4, <1>5, <1>6, <1>7 DEF TransportMoves, TransportOwes

(* So does the call of upload().                                           *)
LEMMA UploadOutcome ==
    ASSUME OutcomeTyped, NEW destination, Upload(destination)
    PROVE  /\ OutcomeTyped'
           /\ pc = "idle" /\ pc' # "idle"
           /\ pc' = "settled" => outcome'.code = NULL /\ outcome'.retryAfter = NULL
<1>1. CASE destination # "path" /\ ~options.absolute
  <2>1. Throw("destination rejected") \in Outcome
    BY OutcomesTyped DEF Optional, ThrownKind
  <2>2. pc = "idle" /\ pc' = "settled" /\ outcome' = Throw("destination rejected") /\ UNCHANGED options
    BY <1>1 DEF Upload
  <2>3. Throw("destination rejected").code = NULL /\ Throw("destination rejected").retryAfter = NULL
    BY DEF Throw
  <2> QED BY <2>1, <2>2, <2>3 DEF OutcomeTyped
<1>2. CASE ~(destination # "path" /\ ~options.absolute)
  BY <1>2 DEF Upload, BuildBody, Send, OutcomeTyped
<1> QED BY <1>1, <1>2

(* The variables of the cycle itself.                                      *)
CycleTyped ==
    /\ row \in Row
    /\ now \in 0 .. MaxTime /\ now \in Nat
    /\ started \in BOOLEAN /\ shuttingDown \in BOOLEAN
    /\ cycle \in {"rest", "process", "attempt", "query"}
    /\ timer \in Optional(Nat) /\ asked \in Optional(Nat)
    /\ used \in 0 .. MaxCalls

Inv == RequestInv /\ OutcomeTyped /\ CycleTyped /\ Phases /\ AnswerSaysWhatIsAsked

LEMMA InvParts == Inv => CycleInv
<1>1. Inv => TransportType
  BY TransportParts DEF Inv
<1> QED BY <1>1 DEF Inv, CycleTyped, CycleType, CycleInv

(* Numbers are not NULL.                                                   *)
LEMMA NumbersGiven == \A n \in Int : n # NULL
BY NullAssumption DEF NullAssumption

(* The claim and the call of upload().                                     *)
LEMMA AttemptInv ==
    ASSUME Inv, Attempt
    PROVE  Inv'
<1>1. RequestInv'
  BY RequestInvStep DEF Inv, Next
<1>2. /\ OutcomeTyped' /\ pc' # "idle"
      /\ pc' = "settled" => outcome'.code = NULL /\ outcome'.retryAfter = NULL
  BY UploadOutcome DEF Attempt, Inv
<1>3. /\ row' \in Row /\ row'.status = "uploading" /\ row'.nextAttemptAt = NULL
  <2>1. row' = Claimed(row, Token, now) /\ Token \in Nat /\ now \in Nat /\ row \in Row
    BY DEF Attempt, Token, Inv, CycleTyped
  <2> QED BY <2>1, ClaimedIsRow, RowsSay
<1>4. cycle' = "attempt" /\ asked' = NULL /\ UNCHANGED <<setup, now, started, shuttingDown, timer, used>>
  BY DEF Attempt, flags
<1>5. CycleTyped'
  BY <1>3, <1>4 DEF Inv, CycleTyped, Optional
<1>6. Phases'
  BY <1>2, <1>3, <1>4 DEF Inv, Phases, OutcomeTyped
<1>7. AnswerSaysWhatIsAsked'
  BY <1>2, <1>4 DEF AnswerSaysWhatIsAsked
<1> QED BY <1>1, <1>2, <1>5, <1>6, <1>7 DEF Inv

(* A step of the transport.                                                *)
LEMMA RequestInvKept ==
    ASSUME Inv, Request
    PROVE  Inv'
<1>0. /\ RequestInv' /\ UNCHANGED <<setup, row, now, started, shuttingDown, cycle, timer, used>>
      /\ now \in Nat
  BY RequestInvStep DEF Inv, Next, Request, flags, CycleTyped
<1>1. CASE TransportMoves /\ UNCHANGED asked
  <2>1. /\ OutcomeTyped' /\ pc \notin {"idle", "settled"} /\ pc' # "idle"
        /\ pc' = "settled" => outcome'.code = NULL /\ outcome'.retryAfter = NULL
    BY <1>1, MovesOutcome DEF Inv
  <2>2. cycle = "attempt" /\ asked = NULL
    BY <2>1 DEF Inv, Phases, AnswerSaysWhatIsAsked
  <2>3. CycleTyped'
    BY <1>0, <1>1 DEF Inv, CycleTyped
  <2>4. Phases'
    BY <1>0, <2>1, <2>2 DEF Inv, Phases, OutcomeTyped, HeldBy, Present
  <2>5. AnswerSaysWhatIsAsked'
    BY <1>0, <1>1, <2>1, <2>2 DEF AnswerSaysWhatIsAsked
  <2> QED BY <1>0, <2>1, <2>3, <2>4, <2>5 DEF Inv
<1>2. ASSUME NEW code \in Codes, NEW header \in Headers, TextArrives(code, header, now),
             asked' = ServerAsks(code, header)
      PROVE  Inv'
  <2>1. /\ pc = "text" /\ pc' = "settled" /\ outcome' = Answer(code, header, now) /\ UNCHANGED options
    BY <1>2 DEF TextArrives
  <2>2. outcome' \in Outcome
    BY <1>0, <2>1, OutcomesTyped
  <2>3. OutcomeTyped'
    BY <2>1, <2>2 DEF Inv, OutcomeTyped
  <2>4. cycle = "attempt" /\ cycle' = "attempt"
    BY <1>0, <2>1 DEF Inv, Phases
  <2>5. /\ outcome'.thrown = NULL /\ outcome'.code = code
        /\ outcome'.retryAfter = ParseRetryAfter(header, now)
    BY <2>1 DEF Answer
  <2>6. /\ asked' \in Optional(Nat)
        /\ asked' = NULL => (code = 429 => ParseRetryAfter(header, now) = NULL)
        /\ asked' # NULL => /\ code = 429 /\ ParseRetryAfter(header, now) # NULL
                            /\ asked' <= now + ParseRetryAfter(header, now)
    <3>0. header.value \in Nat /\ header.value * Second \in Nat
      <4>1. header.value \in Nat /\ Second \in Nat
        BY TransportAssumption, DelayAssumption DEF TransportAssumption, DelayAssumption, IsHeader
      <4> QED BY <4>1
    <3>1. CASE code = 429 /\ header.form = "seconds"
      <4>1. asked' = now + header.value * Second /\ ParseRetryAfter(header, now) = header.value * Second
        BY <1>2, <3>1 DEF ServerAsks, ParseRetryAfter
      <4> DEFINE wait == header.value * Second
      <4> HIDE DEF wait
      <4>2. asked' = now + wait /\ ParseRetryAfter(header, now) = wait /\ wait \in Nat
        BY <3>0, <4>1 DEF wait
      <4> QED BY <1>0, <3>1, <4>2, NumbersGiven DEF Optional
    <3>2. CASE code = 429 /\ header.form = "date"
      <4>1. asked' = header.value /\ ParseRetryAfter(header, now) = AtLeast(0, header.value - now)
        BY <1>2, <3>2 DEF ServerAsks, ParseRetryAfter
      <4> QED BY <1>0, <3>0, <3>2, <4>1, NumbersGiven DEF Optional, AtLeast
    <3>3. CASE ~(code = 429 /\ header.form \in {"seconds", "date"})
      <4>1. asked' = NULL
        BY <1>2, <3>3 DEF ServerAsks
      <4>2. code = 429 => ParseRetryAfter(header, now) = NULL
        BY <3>3 DEF ParseRetryAfter
      <4> QED BY <4>1, <4>2 DEF Optional
    <3> QED BY <3>1, <3>2, <3>3
  <2>7. CycleTyped'
    BY <1>0, <2>6 DEF Inv, CycleTyped
  <2>8. Phases'
    BY <1>0, <2>1, <2>2, <2>4 DEF Inv, Phases, HeldBy, Present
  <2>9. AnswerSaysWhatIsAsked'
    BY <1>0, <2>1, <2>4, <2>5, <2>6 DEF AnswerSaysWhatIsAsked
  <2> QED BY <1>0, <2>3, <2>7, <2>8, <2>9 DEF Inv
<1> QED BY <1>1, <1>2 DEF Request

(* The end of an attempt.                                                  *)
LEMMA SettleInv ==
    ASSUME Inv, Settle
    PROVE  Inv'
<1>0. /\ RequestInv' /\ UNCHANGED <<setup, now, started, shuttingDown, timer, used>>
      /\ cycle = "attempt" /\ cycle' = "query" /\ pc = "settled" /\ pc' = "idle"
      /\ outcome' = NULL /\ UNCHANGED options
  BY RequestInvStep DEF Inv, Next, Settle, Forget, flags
<1>1. OutcomeTyped'
  BY <1>0 DEF Inv, OutcomeTyped
<1>2. CASE HeldBy(row, Token)
  <2>1. /\ row \in Row /\ row.nextAttemptAt = NULL /\ now \in Nat /\ outcome \in Outcome
        /\ asked \in Optional(Nat)
    BY <1>0, <1>2 DEF Inv, Phases, CycleTyped
  <2>3. LetsGo(row')
    <3>1. CASE outcome.thrown # NULL
      BY <1>2, <2>1, <3>1, ThrownRowsWait DEF Settle, Inv
    <3>2. CASE outcome.thrown = NULL
      BY <1>2, <2>1, <3>2, AnsweredRowsWait DEF Settle, Inv
    <3> QED BY <3>1, <3>2
  <2>4. row' \in Row /\ row'.processingToken = NULL
    BY <2>3 DEF LetsGo
  <2>6. asked' \in Optional(Nat)
    <3>1. asked' \in {NULL, asked, BackoffAsks}
      BY <1>2 DEF Settle, Given
    <3>2. BackoffAsks \in Nat
      BY <2>1, StrategyWaits DEF Inv
    <3> QED BY <2>1, <3>1, <3>2 DEF Optional
  <2>7. CycleTyped'
    BY <1>0, <2>4, <2>6 DEF Inv, CycleTyped
  <2>8. Phases'
    <3>1. ~HeldBy(row, Token)'
      BY <2>4, NumbersGiven DEF HeldBy, Token
    <3> QED BY <1>0, <3>1 DEF Inv, Phases
  <2>9. AnswerSaysWhatIsAsked'
    BY <1>0 DEF AnswerSaysWhatIsAsked
  <2> QED BY <1>0, <1>1, <2>7, <2>8, <2>9 DEF Inv
<1>3. CASE ~HeldBy(row, Token)
  <2>1. UNCHANGED row /\ asked' = NULL
    BY <1>3 DEF Settle
  <2>2. CycleTyped'
    BY <1>0, <2>1 DEF Inv, CycleTyped, Optional
  <2>3. Phases'
    BY <1>0, <1>3, <2>1 DEF Inv, Phases, HeldBy, Present
  <2>4. AnswerSaysWhatIsAsked'
    BY <1>0 DEF AnswerSaysWhatIsAsked
  <2> QED BY <1>0, <1>1, <2>2, <2>3, <2>4 DEF Inv
<1> QED BY <1>2, <1>3

(* The end of a call that finds nothing, the timer, and the application.   *)
LEMMA OthersInv ==
    ASSUME Inv,
           \/ NothingDue \/ ScheduleWake \/ Wake \/ Start \/ StopBegin \/ StopEnd \/ Pause \/ Resume
           \/ Tick \/ UNCHANGED vars
    PROVE  Inv'
<1>0. /\ RequestInv' /\ row \in Row /\ now \in Nat /\ now \in 0 .. MaxTime /\ MaxTime \in Nat
      /\ timer \in Optional(Nat)
      /\ asked \in Optional(Nat) /\ cycle \in {"rest", "process", "attempt", "query"}
      /\ started \in BOOLEAN /\ shuttingDown \in BOOLEAN
      /\ used \in 0 .. MaxCalls /\ MaxCalls \in Nat
  BY RequestInvStep, CycleAssumption DEF Inv, Next, CycleTyped, CycleAssumption
<1>1. /\ UNCHANGED <<options, pc, outcome, setup>>
      /\ OutcomeTyped'
  <2>1. UNCHANGED <<options, pc, outcome, setup>>
    BY DEF NothingDue, ScheduleWake, Wake, Start, StopBegin, StopEnd, Pause, Resume, Tick, vars,
           transport, Abort, AbortSignal
  <2> QED BY <2>1 DEF Inv, OutcomeTyped
(* The row and what was asked for stay, and so does the phase.             *)
<1>2. ASSUME UNCHANGED <<row, asked>>, cycle' = "attempt" <=> cycle = "attempt", CycleTyped',
             now' \in Nat /\ now <= now'
      PROVE  Inv'
  <2>1. Phases'
    BY <1>1, <1>2 DEF Inv, Phases, HeldBy, Present
  <2>3. AnswerSaysWhatIsAsked'
    <3>1. ASSUME pc = "settled", cycle = "attempt", HeldBy(row, Token), asked # NULL
          PROVE  asked <= now' + outcome.retryAfter
      <4>1. asked <= now + outcome.retryAfter /\ outcome.retryAfter # NULL /\ outcome \in Outcome
        BY <3>1 DEF Inv, AnswerSaysWhatIsAsked, OutcomeTyped
      <4>2. outcome.retryAfter \in Nat /\ asked \in Nat
        BY <1>0, <3>1, <4>1 DEF Outcome, Optional
      <4> QED BY <1>0, <1>2, <4>1, <4>2
    <3> QED BY <1>1, <1>2, <3>1 DEF Inv, AnswerSaysWhatIsAsked, HeldBy, Present
  <2> QED BY <1>0, <1>1, <2>1, <2>3, <1>2 DEF Inv
<1>3. CASE NothingDue
  BY <1>0, <1>2, <1>3 DEF NothingDue, flags, CycleTyped
<1>4. CASE ScheduleWake
  <2>1. timer' \in Optional(Nat)
    <3>1. CASE timer' = NULL
      BY <3>1 DEF Optional
    <3>2. CASE \E delay \in TimerDelays(AtLeast(0, row.nextAttemptAt - now)) :
                  row.nextAttemptAt # NULL /\ timer' = now + delay
      <4>1. row.nextAttemptAt \in Int
        BY <1>0, <3>2 DEF Row
      <4>2. AtLeast(0, row.nextAttemptAt - now) \in Nat
        BY <1>0, <4>1 DEF AtLeast
      <4>3. TimerDelays(AtLeast(0, row.nextAttemptAt - now)) \subseteq Nat
        BY <4>2 DEF TimerDelays
      <4> QED BY <1>0, <3>2, <4>3 DEF Optional
    <3> QED BY <1>4, <3>1, <3>2 DEF ScheduleWake, Schedule
  <2> QED BY <1>0, <1>2, <1>4, <2>1 DEF ScheduleWake, flags, CycleTyped
<1>5. CASE Wake
  BY <1>0, <1>2, <1>5 DEF Wake, Trigger, flags, CycleTyped, Optional
<1>6. CASE Start
  BY <1>0, <1>2, <1>6 DEF Start, Call, CycleTyped
<1>7. CASE StopBegin
  <2>1. /\ UNCHANGED <<row, now, cycle, asked>> /\ timer' = NULL
        /\ started' = FALSE /\ shuttingDown' = TRUE /\ Call
    BY <1>7, Zenon DEF StopBegin
  <2>2. started' \in BOOLEAN /\ shuttingDown' \in BOOLEAN /\ used' \in 0 .. MaxCalls
    <3>1. started' \in BOOLEAN /\ shuttingDown' \in BOOLEAN
      BY <2>1, Zenon
    <3>2. used' \in 0 .. MaxCalls
      BY <1>0, <2>1 DEF Call
    <3> QED BY <3>1, <3>2
  <2>3. CycleTyped'
    BY <1>0, <2>1, <2>2 DEF CycleTyped, Optional
  <2> QED BY <1>0, <1>2, <2>1, <2>3
<1>8. CASE StopEnd
  <2>1. UNCHANGED <<row, now, started, cycle, timer, asked, used>> /\ shuttingDown' \in BOOLEAN
    BY <1>8 DEF StopEnd
  <2>2. CycleTyped'
    BY <1>0, <2>1 DEF CycleTyped
  <2> QED BY <1>0, <1>2, <2>1, <2>2
<1>9. CASE Tick
  BY <1>0, <1>2, <1>9 DEF Tick, flags, CycleTyped
<1>10. CASE UNCHANGED vars
  BY <1>0, <1>2, <1>10 DEF vars, flags, CycleTyped
(* The user's word: the row waits for nothing.                             *)
<1>11. ASSUME NEW status \in {"pending", "paused"}, row' = Decided(row, status),
              status = "pending" => asked' = NULL, asked' \in {asked, NULL},
              cycle' = "attempt" <=> cycle = "attempt", cycle' \in {"rest", "process", "attempt", "query"},
              UNCHANGED <<now, started, shuttingDown, timer>>, used' \in 0 .. MaxCalls
       PROVE  Inv'
  <2>1. LetsGo(row') /\ row'.status = status /\ row'.nextAttemptAt = NULL
    BY <1>0, <1>11, WritesLetGo, RowsSay
  <2>2. ~HeldBy(row, Token)'
    BY <2>1, NumbersGiven DEF LetsGo, HeldBy, Token
  <2>3. CycleTyped'
    BY <1>0, <1>11, <2>1 DEF CycleTyped, LetsGo, Optional
  <2>4. Phases'
    BY <1>1, <1>11, <2>2 DEF Inv, Phases
  <2>5. AnswerSaysWhatIsAsked'
    BY <1>1, <1>11, <2>2 DEF Inv, AnswerSaysWhatIsAsked
  <2> QED BY <1>0, <1>1, <2>3, <2>4, <2>5 DEF Inv
<1>12. CASE Pause
  BY <1>0, <1>11, <1>12 DEF Pause, Call, flags
<1>13. CASE Resume
  BY <1>0, <1>11, <1>13 DEF Resume, Call, TriggerIfStarted, Trigger, flags
<1> QED BY <1>3, <1>4, <1>5, <1>6, <1>7, <1>8, <1>9, <1>10, <1>12, <1>13

LEMMA InvStep == Inv /\ [Next]_vars => Inv'
BY AttemptInv, RequestInvKept, SettleInv, OthersInv DEF Next

LEMMA InvInit == Init => Inv
<1> SUFFICES ASSUME Init PROVE Inv
  OBVIOUS
<1>1. RequestInv
  BY RequestInvInit
<1>2. pc = "idle" /\ outcome = NULL /\ options \in Options
  BY Zenon DEF Init, TransportInit
<1>3. OutcomeTyped
  BY <1>2 DEF OutcomeTyped
<1>4. Enqueued \in Row /\ ~HeldBy(Enqueued, Token)
  BY NumbersGiven DEF Enqueued, NoRow, Row, RowStatus, Status, HeldBy, Token
<1>5. CycleTyped
  <2>1. /\ row = Enqueued /\ now = 0 /\ cycle = "rest" /\ timer = NULL /\ asked = NULL /\ used = 0
        /\ started \in BOOLEAN /\ shuttingDown \in BOOLEAN
    BY DEF Init
  <2>2. MaxTime \in Nat /\ MaxCalls \in Nat
    BY CycleAssumption DEF CycleAssumption
  <2> QED BY <1>4, <2>1, <2>2 DEF CycleTyped, Optional
<1>6. Phases /\ AnswerSaysWhatIsAsked
  BY <1>2, <1>4 DEF Init, Phases, AnswerSaysWhatIsAsked
<1> QED BY <1>1, <1>3, <1>5, <1>6 DEF Inv

LEMMA InvHolds == Spec => []Inv
<1>1. Inv /\ [Next]_vars => Inv'
  BY InvStep
<1> QED BY <1>1, InvInit, PTL DEF Spec

(* Every variable of the cycle keeps its type: instants and delays are     *)
(* numbers, whatever the server's header and the strategies say.           *)
THEOREM TypeCorrect == Spec => []CycleType
<1>1. Inv => CycleType
  BY InvParts DEF CycleInv
<1> QED BY <1>1, InvHolds, PTL

(* What a 429 asks for is what its answer says, until the claim is let go: *)
(* the invariant that WaitsAsAsked rests on.                               *)
THEOREM Invariant == Spec => []CycleInv
BY InvParts, InvHolds, PTL

-----------------------------------------------------------------------------
(* What is asked for is in the row                                         *)

(* The end of an attempt: what is asked for is what the row waits for.     *)
LEMMA SettleWaits ==
    ASSUME Inv, DatesFit, Settle
    PROVE  RowWaitsAsAsked'
<1>1. cycle = "attempt" /\ pc = "settled"
  BY DEF Settle, Forget
<1>2. CASE ~HeldBy(row, Token)
  BY <1>2 DEF Settle, RowWaitsAsAsked
<1>3. CASE HeldBy(row, Token)
  <2>1. /\ row \in Row /\ row.nextAttemptAt = NULL /\ now \in Nat /\ outcome \in Outcome
        /\ asked \in Optional(Nat)
    BY <1>1, <1>3 DEF Inv, Phases, CycleTyped
  <2>2. /\ asked = NULL => (outcome.code = 429 => outcome.retryAfter = NULL)
        /\ asked # NULL => /\ outcome.thrown = NULL /\ outcome.code = 429
                           /\ outcome.retryAfter # NULL /\ asked <= now + outcome.retryAfter
    BY <1>1, <1>3 DEF Inv, AnswerSaysWhatIsAsked
  <2>3. Fits(NULL) /\ Fits(outcome.retryAfter)
    BY <1>1, <1>3 DEF DatesFit, Fits
  <2>4. asked' = IF outcome.thrown = "AbortError" THEN NULL ELSE Given(asked, BackoffAsks)
    BY <1>3 DEF Settle
  <2>5. SUFFICES ASSUME row'.status = "pending", asked' # NULL
                 PROVE  row'.nextAttemptAt # NULL /\ asked' <= row'.nextAttemptAt
    BY DEF RowWaitsAsAsked
  <2>6. outcome.thrown # "AbortError" /\ asked' = Given(asked, BackoffAsks)
    BY <2>4, <2>5
  <2>7. CASE outcome.thrown # NULL
    <3>1. row' \in HandleThrown(outcome.thrown)
      BY <1>3, <2>7 DEF Settle
    <3>2. Waits(row', NULL)
      BY <2>1, <2>3, <2>6, <3>1, ThrownRowsWait DEF Inv
    <3>3. asked' = BackoffAsks
      BY <2>2, <2>6, <2>7 DEF Given
    <3> QED BY <2>5, <3>2, <3>3, NumbersGiven DEF Waits
  <2>8. CASE outcome.thrown = NULL
    <3>1. row' \in HandleAnswer(outcome)
      BY <1>3, <2>8 DEF Settle
    <3>2. KeptRetryAfter(outcome) = IF outcome.code = 429 THEN outcome.retryAfter ELSE NULL
      BY KindsKnown DEF KeptRetryAfter
    <3>3. Waits(row', KeptRetryAfter(outcome))
      BY <2>1, <2>3, <3>1, <3>2, AnsweredRowsWait DEF Inv
    <3>4. CASE asked = NULL
      <4>1. KeptRetryAfter(outcome) = NULL /\ asked' = BackoffAsks
        BY <2>2, <2>6, <3>2, <3>4 DEF Given
      <4> QED BY <2>5, <3>3, <4>1, NumbersGiven DEF Waits
    <3>5. CASE asked # NULL
      <4>1. KeptRetryAfter(outcome) = outcome.retryAfter /\ asked' = asked
        BY <2>2, <2>6, <3>2, <3>5 DEF Given
      <4>2. row'.nextAttemptAt \in Nat /\ row'.nextAttemptAt = now + outcome.retryAfter
        BY <2>2, <2>5, <3>3, <3>5, <4>1 DEF Waits
      <4> QED BY <2>2, <3>5, <4>1, <4>2, NumbersGiven
    <3> QED BY <3>4, <3>5
  <2> QED BY <2>7, <2>8
<1> QED BY <1>2, <1>3

(* No other step makes a row pending that something is asked of.           *)
LEMMA WaitsKept ==
    ASSUME Inv, DatesFit, RowWaitsAsAsked, [Next]_vars
    PROVE  RowWaitsAsAsked'
<1>1. CASE Attempt
  BY <1>1 DEF Attempt, RowWaitsAsAsked
<1>2. CASE Request
  <2>1. cycle = "attempt"
    <3>1. ASSUME NEW code \in Codes, NEW header \in Headers, TextArrives(code, header, now)
          PROVE  pc # "idle"
      BY <3>1 DEF TextArrives
    <3>2. ASSUME TransportMoves PROVE pc # "idle"
      BY <3>2, MovesOutcome DEF Inv
    <3> QED BY <1>2, <3>1, <3>2 DEF Request, Inv, Phases
  <2> QED BY <1>2, <2>1 DEF Request, RowWaitsAsAsked
<1>3. CASE Settle
  BY <1>3, SettleWaits
<1>4. CASE \/ NothingDue \/ ScheduleWake \/ Wake \/ Start \/ StopBegin \/ StopEnd \/ Tick
           \/ UNCHANGED vars
  <2>1. UNCHANGED <<row, asked>> /\ (cycle' = "attempt" <=> cycle = "attempt")
    BY <1>4 DEF NothingDue, ScheduleWake, Wake, Trigger, Start, StopBegin, StopEnd, Tick, vars
  <2> QED BY <2>1 DEF RowWaitsAsAsked
<1>5. CASE Pause
  <2>1. row' = Decided(row, "paused") /\ row \in Row
    BY <1>5 DEF Pause, Inv, CycleTyped
  <2>2. row'.status = "paused"
    BY <2>1, RowsSay
  <2> QED BY <2>2 DEF RowWaitsAsAsked
<1>6. CASE Resume
  BY <1>6 DEF Resume, RowWaitsAsAsked
<1> QED BY <1>1, <1>2, <1>3, <1>4, <1>5, <1>6 DEF Next

(* From the answer of the server over the row and the timer to the next    *)
(* request: for any headers, strategies, timers and bounds, no request     *)
(* goes out before the instant that a 429 named or that the backoff asks   *)
(* for, unless the user resumed the upload, as long as a Date can          *)
(* represent every instant that handleFailure() computes.                  *)
THEOREM RequestsWait == Spec /\ []DatesFit => WaitsAsAsked
<1> DEFINE Waited == cycle = "process" /\ cycle' = "attempt" /\ asked # NULL => now >= asked
<1>1. ASSUME Inv, RowWaitsAsAsked, [Next]_vars PROVE [Waited]_vars
  <2>1. CASE Attempt
    <3>1. ASSUME cycle = "process", asked # NULL
          PROVE  now >= asked
      <4>1. row.status = "pending" /\ (row.nextAttemptAt # NULL => row.nextAttemptAt <= now)
        BY <2>1 DEF Attempt, Ready, Due
      <4>2. row.nextAttemptAt # NULL /\ asked <= row.nextAttemptAt
        BY <1>1, <3>1, <4>1 DEF RowWaitsAsAsked
      <4>3. asked \in Nat /\ row.nextAttemptAt \in Int /\ now \in Nat
        BY <1>1, <3>1, <4>2 DEF Inv, CycleTyped, Row, Optional
      <4> QED BY <4>1, <4>2, <4>3
    <3> QED BY <3>1
  <2>2. CASE ~Attempt
    BY <1>1, <2>2 DEF Next, NothingDue, Request, Settle, ScheduleWake, Wake, Trigger, Start, StopBegin,
                      StopEnd, Pause, Resume, TriggerIfStarted, Tick
  <2> QED BY <2>1, <2>2
<1>2. Init => RowWaitsAsAsked
  BY DEF Init, RowWaitsAsAsked
<1>3. Inv /\ DatesFit /\ RowWaitsAsAsked /\ [Next]_vars => RowWaitsAsAsked'
  BY WaitsKept
<1> QED BY <1>1, <1>2, <1>3, InvHolds, PTL DEF Spec, WaitsAsAsked
==============================================================================
