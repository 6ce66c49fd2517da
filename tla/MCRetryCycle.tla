----------------------------- MODULE MCRetryCycle -----------------------------
(* Values of RetryCycle's constants for TLC that a .cfg cannot write down. *)
EXTENDS RetryCycle

MCOptions == {[token |-> TRUE, body |-> TRUE, deadline |-> TRUE, absolute |-> FALSE],
              [token |-> FALSE, body |-> FALSE, deadline |-> FALSE, absolute |-> TRUE]}

(* The last header makes the upload wait beyond the end of the run. *)
MCHeaders == {Header("none", 0), Header("seconds", 2), Header("date", 3),
              Header("text", 1), Header("seconds", 9)}

MCConfigs == {[strategy |-> "fixed", initialDelay |-> 2, maxDelay |-> NULL,
               multiplier |-> NULL, jitter |-> NULL],
              [strategy |-> NULL, initialDelay |-> 1, maxDelay |-> NULL,
               multiplier |-> NULL, jitter |-> NULL]}
==============================================================================
