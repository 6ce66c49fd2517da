----------------------------- MODULE UploadError -----------------------------
(***************************************************************************)
(* errors/classify.ts: what an attempt's HTTP status or thrown value means *)
(* for the upload.  Pure operators.                                        *)
(***************************************************************************)
EXTENDS Integers

ErrorKind == {"network", "authentication", "authorization", "rate-limit", "validation",
              "server", "file-not-found", "cancelled", "unknown"}

RetryableKind == {"network", "rate-limit", "server"}

(* Reached only for a status outside 200..299. *)
ClassifyHttpStatus(code) ==
    CASE code = 401  -> "authentication"
      [] code = 403  -> "authorization"
      [] code = 408  -> "network"
      [] code = 429  -> "rate-limit"
      [] code >= 500 -> "server"
      [] code \in 400 .. 499 \ {401, 403, 408, 429} -> "validation"
      [] OTHER       -> "unknown"

(* What a transport may throw other than the abort of its own signal.  The *)
(* transport's deadline arrives as an UploadQueueError of kind network.    *)
Thrown == {"timeout", "TypeError", "Error", "Error with a network hint",
           "destination rejected", "not an Error"}

ClassifyThrown(thrown) ==
    CASE thrown \in {"timeout", "TypeError", "Error with a network hint"} -> "network"
      [] thrown = "destination rejected" -> "validation"
      [] OTHER -> "unknown"

Accepted(code) == code \in 200 .. 299
==============================================================================
