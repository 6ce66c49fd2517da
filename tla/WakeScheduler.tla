---------------------------- MODULE WakeScheduler ----------------------------
(***************************************************************************)
(* core/queue/wake-scheduler.ts: the timer that wakes the queue when the   *)
(* next retry comes due.  The class keeps the handle of one timer, but     *)
(* schedule() awaits storage between clearing the old timer and setting    *)
(* the new one, so more timers can be alive than the one it remembers.     *)
(*                                                                         *)
(* The operators are parts of QueueRunner's actions, which say when they   *)
(* are taken and what they trigger.                                        *)
(***************************************************************************)
EXTENDS Integers

CONSTANTS
    Handles,   \* bound: timers alive at once
    NULL

ASSUME WakeAssumption == Handles \subseteq Nat /\ NULL \notin Int

VARIABLES
    timers,    \* [Handles -> when the timer fires, or NULL if it is not set]
    timer      \* WakeScheduler.timer: the handle remembered, or NULL

WakeType ==
    /\ timers \in [Handles -> Nat \cup {NULL}]
    /\ timer \in Handles \cup {NULL}

WakeInit ==
    /\ timers = [h \in Handles |-> NULL]
    /\ timer = NULL

Alive == {h \in Handles : timers[h] # NULL}

(* cancel() clears the timer it remembers, and no other. *)
CancelTimer ==
    /\ timers' = IF timer = NULL THEN timers ELSE [timers EXCEPT ![timer] = NULL]
    /\ timer' = NULL

(* setTimeout in the continuation of schedule(): a timer set by somebody   *)
(* else meanwhile is forgotten, not cleared.                               *)
SetTimer(at) ==
    \E h \in Handles \ Alive :
        /\ \A k \in Handles \ Alive : h <= k
        /\ timers' = [timers EXCEPT ![h] = at]
        /\ timer' = h

(* Any timer that fires makes the scheduler forget the one it remembers. *)
Expire(h, now) ==
    /\ h \in Alive
    /\ timers[h] <= now
    /\ timers' = [timers EXCEPT ![h] = NULL]
    /\ timer' = NULL
==============================================================================
