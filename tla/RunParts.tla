------------------------------ MODULE RunParts ------------------------------
(***************************************************************************)
(* runParts (pull.go): a feeder hands the jobs, in order, to a pool of     *)
(* workers over an unbuffered channel; the first error cancels the pool's  *)
(* context; a goroutine saves the state from time to time; the caller      *)
(* waits for the workers, and for nobody else.                             *)
(***************************************************************************)
EXTENDS Integers, FiniteSets

CONSTANTS
  n,        \* how many jobs
  workers   \* how many workers the caller asks for

ASSUME PoolAssumption == n \in Nat /\ workers \in Int

Jobs == 0 .. n - 1

\* The clamp: no more workers than jobs, and at least one.
PoolSize ==
  LET w == IF workers > n THEN n ELSE workers
  IN  IF w < 1 THEN 1 ELSE w

Workers == 1 .. PoolSize

\* Mutation: errCh is unbuffered, so an error is dropped.
ErrCapNone == 0

ErrCap == PoolSize      \* the capacity of errCh

VARIABLES
  next,      \* the index the feeder offers
  feeder,    \* "feeding" or "gone": it closes idx when it goes
  stage,     \* worker -> "recv", "got", "busy", "failed", "told", "gone"
  hand,      \* worker -> the index it received last
  finished,  \* the jobs whose do() returned nil
  errs,      \* how many errors errCh holds
  ctx,       \* the caller's context: "live", "canceled" or "deadline"
  inner,     \* the pool's own, derived from it
  saver,     \* the checkpoint goroutine: "waiting", "saving" or "gone"
  result     \* "none" until runParts returns "nil", "error" or "deadline"

caller == <<ctx, result>>
pool   == <<stage, hand, finished, errs>>
vars   == <<next, feeder, pool, caller, inner, saver>>

Init ==
  /\ next = 0 /\ feeder = "feeding"
  /\ stage = [w \in Workers |-> "recv"]
  /\ hand = [w \in Workers |-> 0]
  /\ finished = {} /\ errs = 0
  /\ ctx = "live" /\ inner = "live"
  /\ saver = "waiting" /\ result = "none"

Goes(w, from, to) == stage[w] = from /\ stage' = [stage EXCEPT ![w] = to]

-----------------------------------------------------------------------------
(* the feeder *)

\* Mutation: the loop runs to n.
FeedPastEnd(w) ==
  /\ feeder = "feeding" /\ next <= n
  /\ Goes(w, "recv", "got")
  /\ hand' = [hand EXCEPT ![w] = next]
  /\ next' = next + 1
  /\ UNCHANGED <<feeder, finished, errs, caller, inner, saver>>

\* Both arms of the select may be ready: a dead context does not stop a send.
Feed(w) ==
  /\ feeder = "feeding" /\ next < n
  /\ Goes(w, "recv", "got")
  /\ hand' = [hand EXCEPT ![w] = next]
  /\ next' = next + 1
  /\ UNCHANGED <<feeder, finished, errs, caller, inner, saver>>

FeederGoes ==
  /\ feeder = "feeding"
  /\ next = n \/ inner # "live"
  /\ feeder' = "gone"
  /\ UNCHANGED <<next, pool, caller, inner, saver>>

-----------------------------------------------------------------------------
(* a worker *)

\* idx is closed: the range loop ends.
Closed(w) ==
  /\ feeder = "gone" /\ Goes(w, "recv", "gone")
  /\ UNCHANGED <<next, feeder, hand, finished, errs, caller, inner, saver>>

\* The job it holds is dropped when the context is dead.
LooksAtContext(w) ==
  /\ Goes(w, "got", IF inner = "live" THEN "busy" ELSE "gone")
  /\ UNCHANGED <<next, feeder, hand, finished, errs, caller, inner, saver>>

Does(w) ==
  /\ Goes(w, "busy", "recv")
  /\ finished' = finished \cup {hand[w]}
  /\ UNCHANGED <<next, feeder, hand, errs, caller, inner, saver>>

Fails(w) ==
  /\ Goes(w, "busy", "failed")
  /\ UNCHANGED <<next, feeder, hand, finished, errs, caller, inner, saver>>

\* The error goes into errCh unless that is full.
Tells(w) ==
  /\ Goes(w, "failed", "told")
  /\ errs' = IF errs < ErrCap THEN errs + 1 ELSE errs
  /\ UNCHANGED <<next, feeder, hand, finished, caller, inner, saver>>

CancelsPool(w) ==
  /\ Goes(w, "told", "gone")
  /\ inner' = IF inner = "live" THEN "canceled" ELSE inner
  /\ UNCHANGED <<next, feeder, hand, finished, errs, caller, saver>>

-----------------------------------------------------------------------------
(* the checkpoint goroutine, the caller's context, and the return *)

Tick ==
  /\ saver = "waiting" /\ saver' = "saving"
  /\ UNCHANGED <<next, feeder, pool, caller, inner>>

Saved ==
  /\ saver = "saving" /\ saver' = "waiting"
  /\ UNCHANGED <<next, feeder, pool, caller, inner>>

SaverGoes ==
  /\ saver = "waiting" /\ inner # "live" /\ saver' = "gone"
  /\ UNCHANGED <<next, feeder, pool, caller, inner>>

\* The signal or the floor watch cancels it, or its deadline passes.
Dies(why) ==
  /\ ctx = "live" /\ ctx' = why
  /\ inner' = IF inner = "live" THEN why ELSE inner
  /\ UNCHANGED <<next, feeder, pool, saver, result>>

\* Mutation: the deadline is not looked at.
ReturnsPastDeadline ==
  /\ result = "none"
  /\ \A w \in Workers : stage[w] = "gone"
  /\ result' = IF errs > 0 THEN "error" ELSE "nil"
  /\ inner' = IF inner = "live" THEN "canceled" ELSE inner
  /\ UNCHANGED <<next, feeder, pool, ctx, saver>>

\* Mutation: there is no deferred cancel.
ReturnsWithoutCancel ==
  /\ result = "none"
  /\ \A w \in Workers : stage[w] = "gone"
  /\ result' = IF errs > 0 THEN "error"
               ELSE IF inner = "deadline" THEN "deadline"
               ELSE "nil"
  /\ UNCHANGED <<next, feeder, pool, ctx, inner, saver>>

\* wg.Wait, the two looks, and the deferred cancel.
Returns ==
  /\ result = "none"
  /\ \A w \in Workers : stage[w] = "gone"
  /\ result' = IF errs > 0 THEN "error"
               ELSE IF inner = "deadline" THEN "deadline"
               ELSE "nil"
  /\ inner' = IF inner = "live" THEN "canceled" ELSE inner
  /\ UNCHANGED <<next, feeder, pool, ctx, saver>>

\* Everybody has gone.
Over ==
  /\ result # "none" /\ feeder = "gone" /\ saver = "gone"
  /\ UNCHANGED vars

WorkerStep(w) ==
  \/ Closed(w) \/ LooksAtContext(w) \/ Does(w) \/ Fails(w) \/ Tells(w) \/ CancelsPool(w)

FeederStep == FeederGoes \/ \E w \in Workers : Feed(w)

Next ==
  \/ FeederStep
  \/ \E w \in Workers : WorkerStep(w)
  \/ Tick \/ Saved \/ SaverGoes
  \/ \E why \in {"canceled", "deadline"} : Dies(why)
  \/ Returns
  \/ Over

\* Goroutines are scheduled, and do() and save() return.  select picks among
\* its ready arms at random, so a saver that keeps finding the context dead
\* goes at last.
Fairness ==
  /\ WF_vars(FeederStep)
  /\ \A w \in Workers : WF_vars(WorkerStep(w))
  /\ WF_vars(Saved) /\ SF_vars(SaverGoes)
  /\ WF_vars(Returns)

Spec == Init /\ [][Next]_vars /\ Fairness

-----------------------------------------------------------------------------
(* Properties *)

\* Every variable holds a value the code can put there; no index beyond the
\* jobs is handed out and errCh holds no more than its capacity.
TypeOK ==
  /\ next \in 0 .. n
  /\ feeder \in {"feeding", "gone"}
  /\ stage \in [Workers -> {"recv", "got", "busy", "failed", "told", "gone"}]
  /\ hand \in [Workers -> 0 .. n]
  /\ \A w \in Workers : stage[w] \in {"got", "busy"} => hand[w] \in Jobs
  /\ finished \subseteq Jobs
  /\ errs \in 0 .. ErrCap
  /\ {ctx, inner} \subseteq {"live", "canceled", "deadline"}
  /\ saver \in {"waiting", "saving", "gone"}
  /\ result \in {"none", "nil", "error", "deadline"}

\* nil means that every job was done, unless the caller's own context had been
\* cancelled (pull.go:496-504): no error is lost on the way, no job is dropped
\* between the feeder and a worker that stops.
NilMeansAll == result = "nil" /\ ctx # "canceled" => finished = Jobs

\* runParts is what its callers rely on.  A job has failed once its worker has
\* seen the error.
Relied == INSTANCE Drain WITH
  failed <- errs > 0 \/ \E w \in Workers : stage[w] = "failed"
Contract == Relied!Spec

\* Once it has returned the feeder and the saver go too, whoever stopped the
\* pool: the deferred cancel and the closed channel leave no goroutine waiting
\* (the channel is unbuffered and nobody receives any more).
NobodyIsLeft == result # "none" ~> feeder = "gone" /\ saver = "gone"
=============================================================================
