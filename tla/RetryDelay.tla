------------------------------ MODULE RetryDelay ------------------------------
(***************************************************************************)
(* How long an upload waits before its next attempt: the strategies of     *)
(* core/retry, the choice between them in core/queue/upload-queue.ts, the  *)
(* Retry-After header as core/utils.ts reads it, and the range of a Date.  *)
(* Pure operators.  A time is a number of ticks; RetryConfig leaves out    *)
(* what it does not say (NULL).  A strategy object of the caller's own is  *)
(* left out.                                                               *)
(***************************************************************************)
EXTENDS UploadTask

CONSTANTS
    DefaultDelay,     \* initialDelayMs where RetryConfig has none: 2_000
    DefaultMaxDelay,  \* maxDelayMs of the exponential strategy: 60_000
    JitterSteps,      \* bound: the values of random(), 0 .. JitterSteps - 1
    Second,           \* the ticks of a second
    DateMax           \* the last instant a Date can represent

ASSUME DelayAssumption ==
    /\ DefaultDelay \in Nat /\ DefaultMaxDelay \in Nat
    /\ JitterSteps \in Nat \ {0}
    /\ Second \in Nat \ {0}
    /\ DateMax \in Nat

Optional(S) == S \cup {NULL}

RetryConfig == [strategy: Optional({"fixed", "exponential"}), initialDelay: Optional(Nat),
                maxDelay: Optional(Nat), multiplier: Optional(Nat), jitter: Optional(BOOLEAN)]

Given(value, default) == IF value = NULL THEN default ELSE value

AtMost(a, b) == IF a <= b THEN a ELSE b
AtLeast(a, b) == IF a >= b THEN a ELSE b

(* A fixed delay has itself as its cap. *)
ResolveRetryStrategy(config) ==
    LET delay == Given(config.initialDelay, DefaultDelay)
    IN  IF config.strategy = "fixed"
           THEN [initial |-> delay, max |-> Given(config.maxDelay, delay),
                 multiplier |-> 1, jitter |-> FALSE]
           ELSE [initial |-> delay, max |-> Given(config.maxDelay, DefaultMaxDelay),
                 multiplier |-> Given(config.multiplier, 2),
                 jitter |-> Given(config.jitter, TRUE)]

(* multiplier ** exponent, as the recursion the proofs can take apart.     *)
Power(multiplier, exponent) ==
    LET power[n \in Nat] == IF n = 0 THEN 1 ELSE power[n - 1] * multiplier
    IN  power[exponent]

(* Mutation: the exponent counts attempts from one too few. *)
CappedOffByOne(s, attempt) ==
    AtMost(s.initial * Power(s.multiplier, AtLeast(attempt - 2, 0)), s.max)

(* With multiplier 1 this is FixedBackoffStrategy. *)
Capped(s, attempt) ==
    AtMost(s.initial * Power(s.multiplier, AtLeast(attempt - 1, 0)), s.max)

(* Every value nextDelayMs() may return.  The factor is 0.5 + random(), so  *)
(* it comes after the cap and may exceed it.                               *)
NextDelays(s, attempt) ==
    LET capped == Capped(s, attempt)
    IN  IF s.jitter
           THEN {(capped * (JitterSteps + 2 * j)) \div (2 * JitterSteps) : j \in 0 .. JitterSteps - 1}
           ELSE {capped}

-----------------------------------------------------------------------------
(* parseRetryAfterHeader()                                                 *)

(* "text" is anything that is neither a number nor a date. *)
Header(form, value) == [form |-> form, value |-> value]

IsHeader(h) == h.form \in {"none", "seconds", "date", "text"} /\ h.value \in Nat

(* Mutation: the seconds of the header are taken for milliseconds. *)
ParseSecondsAsTicks(h, now) ==
    CASE h.form = "seconds" -> h.value
      [] h.form = "date"    -> AtLeast(0, h.value - now)
      [] OTHER              -> NULL

(* Mutation: a date that has passed gives a negative delay. *)
ParsePastDates(h, now) ==
    CASE h.form = "seconds" -> h.value * Second
      [] h.form = "date"    -> h.value - now
      [] OTHER              -> NULL

ParseRetryAfter(h, now) ==
    CASE h.form = "seconds" -> h.value * Second
      [] h.form = "date"    -> AtLeast(0, h.value - now)
      [] OTHER              -> NULL

(* new Date(...).toISOString() throws RangeError. *)
Representable(at) == at <= DateMax

-----------------------------------------------------------------------------
(* The reference: each wait multiplies the last one, up to the cap.        *)

Backoff(s, attempts) ==
    LET wait[n \in 1 .. attempts] ==
            IF n = 1 THEN AtMost(s.initial, s.max) ELSE AtMost(wait[n - 1] * s.multiplier, s.max)
    IN  wait[attempts]
==============================================================================
