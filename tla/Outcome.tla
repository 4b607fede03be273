------------------------------ MODULE Outcome -------------------------------
(***************************************************************************)
(* What the caller of b2x is told: the exit code (main.go, report) and the *)
(* word in the summary (stats.go, setVerdict).                             *)
(*                                                                         *)
(* An error is a kind, the one that report finds in its chain:             *)
(*   "none"                                                                *)
(*   "refused" 401, 403   "missing" 404   "bad" another 4xx                *)
(*   "server"  5xx, 408, 429, after the last try                           *)
(*   "net" a broken connection      "dial" one that could not be made in   *)
(*   time   "disk" an error of the machine   "short" a short read          *)
(*   "stall" stallError   "slow" slowError   "mismatch" integrityError     *)
(*   "unsigned" an object without a digest under --verify                  *)
(*   "canceled", "deadline" the context's   "internal" not complete        *)
(***************************************************************************)

Terminal == {"refused", "missing", "bad"}

\* net maps the end of a connection attempt's own 15 s to an error that says
\* it is a context.DeadlineExceeded.
IsDeadlineExceeded(e) == e \in {"deadline", "dial"}

\* Mutation: the deadline is looked at first, and a floor breach cancels too.
ReportDeadlineFirst(e) ==
  CASE e = "none"     -> 0
    [] e = "mismatch" -> 6
    [] e \in {"slow", "deadline", "dial"} -> 7
    [] e = "refused"  -> 3
    [] e = "missing"  -> 4
    [] OTHER          -> 5

Report(e) ==
  CASE e = "none"            -> 0
    [] e = "mismatch"        -> 6
    [] e = "slow"            -> 8
    [] IsDeadlineExceeded(e) -> 7
    [] e = "refused"         -> 3
    [] e = "missing"         -> 4
    [] OTHER                 -> 5

\* Mutation: setVerdict has not learned of slowError.
SetVerdictWithoutSlow(e) ==
  CASE e = "none"            -> "ok"
    [] IsDeadlineExceeded(e) -> "timeout"
    [] e = "stall"           -> "stalled"
    [] OTHER                 -> "error"

SetVerdict(e) ==
  CASE e = "none"            -> "ok"
    [] e = "slow"            -> "slow"
    [] IsDeadlineExceeded(e) -> "timeout"
    [] e = "stall"           -> "stalled"
    [] OTHER                 -> "error"
=============================================================================
