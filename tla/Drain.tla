-------------------------------- MODULE Drain -------------------------------
(***************************************************************************)
(* What pull.go and push.go rely on when they call runParts, with no word  *)
(* of workers, channels or contexts: jobs get done until it returns, once, *)
(* and never after; it returns nil when all of them are done, an error     *)
(* when one failed, the deadline's error when that struck; and a cancelled *)
(* caller gets nil whatever is left (the callers look for themselves).     *)
(***************************************************************************)
CONSTANT Jobs

VARIABLES finished, failed, ctx, result

vars == <<finished, failed, ctx, result>>

Init == finished = {} /\ failed = FALSE /\ ctx = "live" /\ result = "none"

Work(i) ==
  /\ result = "none" /\ i \notin finished
  /\ finished' = finished \cup {i}
  /\ UNCHANGED <<failed, ctx, result>>

Break ==
  /\ result = "none" /\ failed' = TRUE
  /\ UNCHANGED <<finished, ctx, result>>

Die(why) ==
  /\ ctx = "live" /\ ctx' = why
  /\ UNCHANGED <<finished, failed, result>>

Return ==
  /\ result = "none"
  /\ result' = IF failed THEN "error"
               ELSE IF ctx = "deadline" THEN "deadline"
               ELSE "nil"
  /\ result' = "nil" => finished = Jobs \/ ctx = "canceled"
  /\ UNCHANGED <<finished, failed, ctx>>

Next ==
  \/ \E i \in Jobs : Work(i)
  \/ Break
  \/ \E why \in {"canceled", "deadline"} : Die(why)
  \/ Return

Safety == Init /\ [][Next]_vars
Spec   == Safety /\ <>(result # "none")
=============================================================================
