---------------------------- MODULE HttpTransport ----------------------------
(***************************************************************************)
(* adapters/http/http-upload-transport.ts: one call of upload(), from the  *)
(* task it is given to the answer it returns or the error it throws.  The  *)
(* call waits for a token, for a body, for the response and for its text;  *)
(* meanwhile the caller may abort its signal and, once the request is      *)
(* sent, the deadline may pass.                                            *)
(*                                                                         *)
(* fetch is external.  It is taken to reject a request whose signal is     *)
(* aborted, but an answer that is already on its way may win.              *)
(* URL joining, headers and multipart bodies are left out, save for what   *)
(* they decide: whether a destination is accepted and gets the token.      *)
(***************************************************************************)
EXTENDS RetryDelay

CONSTANTS
    Options,       \* the configurations of createHttpUploadTransport() considered
    Destinations,  \* kinds of task.destination: "path", "home" or "away"
    Codes,         \* HTTP statuses the server answers with
    Headers,       \* Retry-After headers it sends
    Rejections     \* what getAccessToken() and buildBody() may reject with

(* token: getAccessToken is given.  body: buildBody is given.  deadline:   *)
(* timeoutMs is given.  absolute: allowAbsoluteDestinations.               *)
ASSUME TransportAssumption ==
    /\ Options \subseteq [token: BOOLEAN, body: BOOLEAN, deadline: BOOLEAN, absolute: BOOLEAN]
    /\ Options # {}
    /\ Destinations \subseteq {"path", "home", "away"}
    /\ Codes \subseteq Nat
    /\ \A header \in Headers : IsHeader(header)
    /\ Rejections \subseteq {"Error", "TypeError", "AbortError"}

VARIABLES
    options,   \* the configuration, fixed
    pc,        \* where upload() is
    signal,    \* the caller's signal is aborted
    combined,  \* what combineSignals() made
    fault,     \* what the pending request rejected with
    outcome    \* what upload() returned or threw

transport == <<options, pc, signal, combined, fault, outcome>>

(* The awaits: "token", "body", "fetch", "text".  "rejected": fetch or     *)
(* text() has rejected, the catch clause has not run.                      *)
TransportPhase == {"idle", "token", "body", "fetch", "text", "rejected", "settled"}

Sent == {"fetch", "text", "rejected"}

Answer(code, header, now) ==
    [thrown |-> NULL, code |-> code, retryAfter |-> ParseRetryAfter(header, now)]

Throw(error) == [thrown |-> error, code |-> NULL, retryAfter |-> NULL]

ThrownKind == {"timeout", "TypeError", "Error", "AbortError", "destination rejected"}

NotCombined == [aborted |-> FALSE, timer |-> FALSE, timedOut |-> FALSE, listener |-> FALSE]

TransportInit ==
    /\ options \in Options
    /\ pc = "idle"
    /\ signal = FALSE
    /\ combined = NotCombined
    /\ fault = NULL
    /\ outcome = NULL

-----------------------------------------------------------------------------
(* combineSignals()                                                        *)

(* Mutation: a signal that is aborted already is only listened to. *)
CombineLate(aborted) ==
    IF options.deadline
       THEN [aborted |-> FALSE, timer |-> TRUE, timedOut |-> FALSE, listener |-> TRUE]
       ELSE NotCombined

(* Without a deadline the caller's signal is passed on as it is. *)
CombineSignals(aborted) ==
    IF options.deadline
       THEN [aborted |-> aborted, timer |-> TRUE, timedOut |-> FALSE, listener |-> ~aborted]
       ELSE NotCombined

RequestAborted == IF options.deadline THEN combined.aborted ELSE signal

Release(signals) == [signals EXCEPT !.timer = FALSE, !.listener = FALSE]

-----------------------------------------------------------------------------
(* upload()                                                                *)

(* The request goes out.  onProgress(0), which goes with it, is a progress *)
(* write of UploadLifecycle.                                               *)
Send(aborted) ==
    /\ combined' = CombineSignals(aborted)
    /\ pc' = "fetch"
    /\ UNCHANGED outcome

BuildBody(aborted) ==
    IF options.body THEN pc' = "body" /\ UNCHANGED <<combined, outcome>> ELSE Send(aborted)

(* The call, up to its first await.  The token goes to the base URL's own  *)
(* origin, and a destination that is a URL of its own must be allowed.     *)
Upload(destination) ==
    /\ pc = "idle"
    /\ IF destination # "path" /\ ~options.absolute
          THEN /\ pc' = "settled" /\ outcome' = Throw("destination rejected")
               /\ UNCHANGED combined
          ELSE IF options.token /\ destination # "away"
               THEN pc' = "token" /\ UNCHANGED <<combined, outcome>>
               ELSE BuildBody(FALSE)
    /\ UNCHANGED <<options, signal, fault>>

TokenReady ==
    /\ pc = "token"
    /\ BuildBody(signal)
    /\ UNCHANGED <<options, signal, fault>>

BodyReady ==
    /\ pc = "body"
    /\ Send(signal)
    /\ UNCHANGED <<options, signal, fault>>

(* getAccessToken() or buildBody() rejects: nothing was combined yet. *)
PreparationFails(error) ==
    /\ pc \in {"token", "body"}
    /\ pc' = "settled"
    /\ outcome' = Throw(error)
    /\ UNCHANGED <<options, signal, combined, fault>>

ResponseArrives ==
    /\ pc = "fetch"
    /\ pc' = "text"
    /\ UNCHANGED <<options, signal, combined, fault, outcome>>

(* Mutation: the timer and the listener are given up on errors only. *)
TextArrivesUnreleased(code, header, now) ==
    /\ pc = "text"
    /\ pc' = "settled"
    /\ outcome' = Answer(code, header, now)
    /\ UNCHANGED <<options, signal, combined, fault>>

(* The text is read, the answer returned, and the finally clause run. *)
TextArrives(code, header, now) ==
    /\ pc = "text"
    /\ pc' = "settled"
    /\ outcome' = Answer(code, header, now)
    /\ combined' = Release(combined)
    /\ UNCHANGED <<options, signal, fault>>

Reject(error) ==
    /\ pc \in {"fetch", "text"}
    /\ pc' = "rejected"
    /\ fault' = error
    /\ UNCHANGED <<options, signal, combined, outcome>>

NetworkFails == Reject("TypeError")

AbortSeen == RequestAborted /\ Reject("AbortError")

(* Mutation: a deadline is a timeout whatever the caller did meanwhile. *)
ErrorOfDeadline == IF combined.timedOut THEN "timeout" ELSE fault

(* The catch clause: the deadline is reported as what it is, unless the    *)
(* caller has aborted by now.                                              *)
ErrorThrown == IF combined.timedOut /\ ~signal THEN "timeout" ELSE fault

(* catch and finally. *)
Catch ==
    /\ pc = "rejected"
    /\ pc' = "settled"
    /\ outcome' = Throw(ErrorThrown)
    /\ combined' = Release(combined)
    /\ UNCHANGED <<options, signal, fault>>

(* The caller has its answer, and nothing holds on to the call any more.   *)
Forget ==
    /\ pc = "settled"
    /\ pc' = "idle" /\ signal' = FALSE /\ combined' = NotCombined
    /\ fault' = NULL /\ outcome' = NULL
    /\ UNCHANGED options

-----------------------------------------------------------------------------
(* The deadline and the caller                                             *)

DeadlinePasses ==
    /\ combined.timer
    /\ combined' = [combined EXCEPT !.timer = FALSE, !.timedOut = TRUE, !.aborted = TRUE]
    /\ UNCHANGED <<options, pc, signal, fault, outcome>>

(* controller.abort() of the queue: the listener passes it on. *)
AbortSignal ==
    /\ ~signal
    /\ signal' = TRUE
    /\ combined' = [combined EXCEPT !.aborted = @ \/ combined.listener]
    /\ UNCHANGED <<options, pc, fault, outcome>>

(* The steps that somebody owes: a token and a body arrive or do not, an   *)
(* aborted request is rejected, the deadline passes.  The server owes      *)
(* nothing.                                                                *)
TransportOwes ==
    \/ TokenReady \/ BodyReady \/ AbortSeen \/ Catch \/ DeadlinePasses

(* Every step but the arrival of the text. *)
TransportMoves ==
    \/ TransportOwes \/ ResponseArrives \/ NetworkFails
    \/ \E error \in Rejections : PreparationFails(error)

-----------------------------------------------------------------------------
Outcome == [thrown: Optional(ThrownKind), code: Optional(Codes), retryAfter: Optional(Nat)]

TransportType ==
    /\ options \in Options
    /\ pc \in TransportPhase
    /\ signal \in BOOLEAN
    /\ combined \in [aborted: BOOLEAN, timer: BOOLEAN, timedOut: BOOLEAN, listener: BOOLEAN]
    /\ fault \in {"TypeError", "AbortError", NULL}
    /\ outcome # NULL => outcome \in Outcome

(* CHANGELOG.md: the transport leaks neither its deadline timer nor its    *)
(* abort listener, whichever way upload() ends.                            *)
NothingLeaks ==
    pc \in {"idle", "token", "body", "settled"} => ~combined.timer /\ ~combined.listener

(* An abort reaches the request that is under way, also one that came      *)
(* while upload() waited for the token or the body, when no signal was     *)
(* combined yet, and whether or not there is a deadline.  stop() waits for *)
(* the request to end by it.                                               *)
AbortReachesRequest == pc \in Sent /\ signal => RequestAborted

(* What is thrown says who ended the request: AbortError only if the       *)
(* caller aborted, a timeout only if the deadline passed and the caller    *)
(* did not abort.  The processor turns the first into a decision of the    *)
(* user or of stop(), and charges an attempt for the second.               *)
ThrownSaysWhoEndedIt ==
    [][(pc # "settled" /\ pc' = "settled") =>
          /\ outcome'.thrown = "AbortError" => signal
          /\ outcome'.thrown = "timeout" => combined.timedOut /\ ~signal]_transport
==============================================================================
