--------------------------- MODULE RunPartsProofs ---------------------------
(***************************************************************************)
(* For every number of jobs and of workers: runParts keeps its types, nil  *)
(* means that every job was done unless the caller was cancelled, and each *)
(* of its steps is one its callers rely on.                                *)
(***************************************************************************)
EXTENDS RunParts, TLAPS

Holding == {"got", "busy"}

\* No job is in two hands, or done while somebody holds it.
OneHand ==
  /\ \A w \in Workers : stage[w] \in Holding => hand[w] < next /\ hand[w] \notin finished
  /\ \A v, w \in Workers :
       v # w /\ stage[v] \in Holding /\ stage[w] \in Holding => hand[v] # hand[w]
  /\ \A i \in finished : i < next

\* While nothing has gone wrong every job sent is done or in somebody's hand.
NoneLost ==
  \/ inner # "live"
  \/ \E w \in Workers : stage[w] \in {"failed", "told"}
  \/ \A i \in 0 .. next - 1 :
       i \in finished \/ \E w \in Workers : stage[w] \in Holding /\ hand[w] = i

\* Without an error in errCh the pool's context is the caller's; a worker that
\* has reported has left its error there.
Causes ==
  /\ result = "none" /\ errs = 0 => inner = ctx
  /\ \A w \in Workers : stage[w] = "told" => errs > 0

\* Nobody leaves a live pool before the last job is sent, and all have left
\* when runParts returns.
Leaving ==
  /\ \A w \in Workers : stage[w] # "gone" => result = "none"
  /\ feeder = "gone" => next = n \/ inner # "live"
  /\ \A w \in Workers : stage[w] = "gone" => feeder = "gone" \/ inner # "live"

RInv == TypeOK /\ OneHand /\ NoneLost /\ Causes /\ Leaving /\ NilMeansAll

LEMMA PoolFacts ==
  /\ n \in Nat /\ PoolSize \in Nat \ {0} /\ ErrCap \in Nat \ {0}
  /\ 1 \in Workers /\ Jobs = 0 .. n - 1
<1>1. n \in Nat /\ workers \in Int
  BY PoolAssumption
<1> QED BY <1>1 DEF PoolSize, Workers, ErrCap, Jobs

USE DEF Holding

LEMMA RInit == Init => RInv
BY PoolFacts DEF Init, RInv, TypeOK, OneHand, NoneLost, Causes, Leaving, NilMeansAll

LEMMA FeedStep ==
  ASSUME RInv, NEW u \in Workers, Feed(u)
  PROVE  RInv'
<1>0. /\ TypeOK /\ OneHand /\ NoneLost /\ Causes /\ Leaving /\ NilMeansAll
      /\ next < n /\ next' = next + 1 /\ stage[u] = "recv" /\ feeder = "feeding"
      /\ stage' = [stage EXCEPT ![u] = "got"] /\ hand' = [hand EXCEPT ![u] = next]
      /\ UNCHANGED <<feeder, finished, errs, ctx, result, inner, saver>>
  BY DEF RInv, Feed, Goes, caller
<1>1. TypeOK'
  BY <1>0, PoolFacts DEF TypeOK
<1>2. OneHand'
  BY <1>0, <1>1, PoolFacts DEF OneHand, TypeOK
<1>3. NoneLost'
  <2>1. CASE inner # "live"
    BY <1>0, <2>1 DEF NoneLost
  <2>2. CASE \E w \in Workers : stage[w] \in {"failed", "told"}
    BY <1>0, <2>2 DEF NoneLost, TypeOK
  <2>3. CASE \A i \in 0 .. next - 1 :
               i \in finished \/ \E w \in Workers : stage[w] \in Holding /\ hand[w] = i
    <3>1. ASSUME NEW i \in 0 .. next' - 1
          PROVE  i \in finished' \/ \E w \in Workers : stage'[w] \in Holding /\ hand'[w] = i
      <4>1. CASE i = next
        BY <1>0, <4>1 DEF TypeOK
      <4>2. CASE i \in 0 .. next - 1
        BY <1>0, <2>3, <4>2 DEF TypeOK
      <4> QED BY <1>0, <4>1, <4>2 DEF TypeOK
    <3> QED BY <3>1 DEF NoneLost
  <2> QED BY <1>0, <2>1, <2>2, <2>3 DEF NoneLost
<1>4. Causes' /\ Leaving' /\ NilMeansAll'
  BY <1>0 DEF Causes, Leaving, NilMeansAll, TypeOK
<1> QED BY <1>1, <1>2, <1>3, <1>4 DEF RInv

LEMMA WorkStep ==
  ASSUME RInv, NEW u \in Workers, WorkerStep(u)
  PROVE  RInv'
<1>0. /\ TypeOK /\ OneHand /\ NoneLost /\ Causes /\ Leaving /\ NilMeansAll
      /\ UNCHANGED <<next, feeder, hand, ctx, result, saver>>
  BY DEF RInv, WorkerStep, Closed, LooksAtContext, Does, Fails, Tells, CancelsPool, caller
<1>a. stage \in [Workers -> {"recv", "got", "busy", "failed", "told", "gone"}]
  BY <1>0 DEF TypeOK
<1>1. CASE Closed(u)
  <2>0. /\ feeder = "gone" /\ stage[u] = "recv" /\ stage' = [stage EXCEPT ![u] = "gone"]
        /\ UNCHANGED <<finished, errs, inner>>
    BY <1>1 DEF Closed, Goes
  <2>1. TypeOK'
    BY <1>0, <2>0 DEF TypeOK
  <2>2. OneHand'
    BY <1>0, <1>a, <2>0 DEF OneHand
  <2>3. NoneLost'
    BY <1>0, <1>a, <2>0 DEF NoneLost
  <2>4. Causes' /\ Leaving' /\ NilMeansAll'
    BY <1>0, <1>a, <2>0 DEF Causes, Leaving, NilMeansAll
  <2> QED BY <2>1, <2>2, <2>3, <2>4 DEF RInv
<1>2. CASE LooksAtContext(u)
  <2>0. /\ stage[u] = "got"
        /\ stage' = [stage EXCEPT ![u] = IF inner = "live" THEN "busy" ELSE "gone"]
        /\ UNCHANGED <<finished, errs, inner>>
    BY <1>2 DEF LooksAtContext, Goes
  <2>1. TypeOK'
    BY <1>0, <1>a, <2>0 DEF TypeOK
  <2>2. OneHand'
    BY <1>0, <1>a, <2>0 DEF OneHand
  <2>3. NoneLost'
    BY <1>0, <1>a, <2>0 DEF NoneLost
  <2>4. Causes' /\ Leaving' /\ NilMeansAll'
    BY <1>0, <1>a, <2>0 DEF Causes, Leaving, NilMeansAll
  <2> QED BY <2>1, <2>2, <2>3, <2>4 DEF RInv
<1>3. CASE Does(u)
  <2>0. /\ stage[u] = "busy" /\ stage' = [stage EXCEPT ![u] = "recv"]
        /\ finished' = finished \cup {hand[u]}
        /\ UNCHANGED <<errs, inner>>
    BY <1>3 DEF Does, Goes
  <2>1. TypeOK'
    BY <1>0, <1>a, <2>0 DEF TypeOK
  <2>2. OneHand'
    BY <1>0, <1>a, <2>0 DEF OneHand
  <2>3. NoneLost'
    BY <1>0, <1>a, <2>0 DEF NoneLost
  <2>4. Causes' /\ Leaving'
    BY <1>0, <1>a, <2>0 DEF Causes, Leaving
  <2>5. NilMeansAll'
    BY <1>0, <2>0, <2>1 DEF NilMeansAll, TypeOK
  <2> QED BY <2>1, <2>2, <2>3, <2>4, <2>5 DEF RInv
<1>4. CASE Fails(u)
  <2>0. /\ stage[u] = "busy" /\ stage' = [stage EXCEPT ![u] = "failed"]
        /\ UNCHANGED <<finished, errs, inner>>
    BY <1>4 DEF Fails, Goes
  <2>1. TypeOK'
    BY <1>0, <1>a, <2>0 DEF TypeOK
  <2>2. OneHand'
    BY <1>0, <1>a, <2>0 DEF OneHand
  <2>3. NoneLost'
    BY <1>0, <1>a, <2>0 DEF NoneLost
  <2>4. Causes' /\ Leaving' /\ NilMeansAll'
    BY <1>0, <1>a, <2>0 DEF Causes, Leaving, NilMeansAll
  <2> QED BY <2>1, <2>2, <2>3, <2>4 DEF RInv
<1>5. CASE Tells(u)
  <2>0. /\ stage[u] = "failed" /\ stage' = [stage EXCEPT ![u] = "told"]
        /\ errs' = IF errs < ErrCap THEN errs + 1 ELSE errs
        /\ UNCHANGED <<finished, inner>>
    BY <1>5 DEF Tells, Goes
  <2>e. errs' \in 0 .. ErrCap /\ errs' > 0
    BY <1>0, <2>0, PoolFacts DEF TypeOK
  <2>1. TypeOK'
    BY <1>0, <1>a, <2>0, <2>e DEF TypeOK
  <2>2. OneHand'
    BY <1>0, <1>a, <2>0 DEF OneHand
  <2>3. NoneLost'
    BY <1>0, <1>a, <2>0 DEF NoneLost
  <2>4. Causes' /\ Leaving' /\ NilMeansAll'
    BY <1>0, <1>a, <2>0, <2>e DEF Causes, Leaving, NilMeansAll
  <2> QED BY <2>1, <2>2, <2>3, <2>4 DEF RInv
<1>6. CASE CancelsPool(u)
  <2>0. /\ stage[u] = "told" /\ stage' = [stage EXCEPT ![u] = "gone"]
        /\ inner' = IF inner = "live" THEN "canceled" ELSE inner
        /\ UNCHANGED <<finished, errs>>
    BY <1>6 DEF CancelsPool, Goes
  <2>i. inner' # "live" /\ errs > 0
    BY <1>0, <2>0 DEF Causes
  <2>1. TypeOK'
    BY <1>0, <1>a, <2>0 DEF TypeOK
  <2>2. OneHand'
    BY <1>0, <1>a, <2>0 DEF OneHand
  <2>3. NoneLost'
    BY <2>i DEF NoneLost
  <2>4. Causes'
    BY <1>0, <1>a, <2>0, <2>i DEF Causes
  <2>5. Leaving' /\ NilMeansAll'
    BY <1>0, <1>a, <2>0, <2>i DEF Leaving, NilMeansAll
  <2> QED BY <2>1, <2>2, <2>3, <2>4, <2>5 DEF RInv
<1> QED BY <1>1, <1>2, <1>3, <1>4, <1>5, <1>6 DEF WorkerStep

\* Only now does result change: what is left when the workers have gone.
LEMMA AllGone ==
  ASSUME RInv, result = "none", \A w \in Workers : stage[w] = "gone", errs = 0
  PROVE  /\ inner = ctx
         /\ inner = "live" => finished = Jobs
<1>0. TypeOK /\ OneHand /\ NoneLost /\ Causes /\ Leaving
  BY DEF RInv
<1>1. inner = ctx
  BY <1>0 DEF Causes
<1>2. ASSUME inner = "live"
      PROVE  finished = Jobs
  <2>1. feeder = "gone"
    BY <1>0, <1>2, PoolFacts DEF Leaving
  <2>2. next = n
    BY <1>0, <1>2, <2>1 DEF Leaving
  <2>3. \A i \in 0 .. next - 1 : i \in finished
    BY <1>0, <1>2 DEF NoneLost
  <2> QED BY <1>0, <2>2, <2>3, PoolFacts DEF TypeOK
<1> QED BY <1>1, <1>2

LEMMA ReturnStep ==
  ASSUME RInv, Returns
  PROVE  RInv'
<1>0. /\ TypeOK /\ OneHand /\ NoneLost /\ Causes /\ Leaving /\ NilMeansAll
      /\ result = "none" /\ \A w \in Workers : stage[w] = "gone"
      /\ result' = IF errs > 0 THEN "error" ELSE IF inner = "deadline" THEN "deadline" ELSE "nil"
      /\ inner' = IF inner = "live" THEN "canceled" ELSE inner
      /\ UNCHANGED <<next, feeder, stage, hand, finished, errs, ctx, saver>>
  BY DEF RInv, Returns, pool
<1>i. inner' # "live" /\ result' # "none"
  BY <1>0
<1>1. TypeOK'
  BY <1>0 DEF TypeOK
<1>2. OneHand' /\ NoneLost' /\ Causes' /\ Leaving'
  BY <1>0, <1>i DEF OneHand, NoneLost, Causes, Leaving
<1>3. NilMeansAll'
  <2> SUFFICES ASSUME result' = "nil", ctx # "canceled" PROVE finished = Jobs
    BY <1>0 DEF NilMeansAll
  <2>1. ~(errs > 0) /\ inner # "deadline"
    BY <1>0
  <2>2. errs = 0
    BY <1>0, <2>1 DEF TypeOK
  <2>3. inner = ctx /\ (inner = "live" => finished = Jobs)
    BY <1>0, <2>2, AllGone
  <2> QED BY <1>0, <2>1, <2>3 DEF TypeOK
<1> QED BY <1>1, <1>2, <1>3 DEF RInv

LEMMA OtherSteps ==
  ASSUME RInv,
         FeederGoes \/ Tick \/ Saved \/ SaverGoes \/ Over \/ UNCHANGED vars
           \/ \E why \in {"canceled", "deadline"} : Dies(why)
  PROVE  RInv'
<1>0. /\ TypeOK /\ OneHand /\ NoneLost /\ Causes /\ Leaving /\ NilMeansAll
      /\ UNCHANGED <<next, stage, hand, finished, errs, result>>
  BY DEF RInv, FeederGoes, Tick, Saved, SaverGoes, Over, Dies, vars, pool, caller
<1>1. CASE FeederGoes
  BY <1>0, <1>1 DEF FeederGoes, caller, RInv, TypeOK, OneHand, NoneLost, Causes, Leaving,
                    NilMeansAll
<1>2. CASE Tick \/ Saved \/ SaverGoes \/ Over \/ UNCHANGED vars
  BY <1>0, <1>2 DEF Tick, Saved, SaverGoes, Over, vars, caller, RInv, TypeOK, OneHand,
                    NoneLost, Causes, Leaving, NilMeansAll
<1>3. ASSUME NEW why \in {"canceled", "deadline"}, Dies(why)
      PROVE  RInv'
  <2>0. /\ ctx = "live" /\ ctx' = why /\ inner' = IF inner = "live" THEN why ELSE inner
        /\ UNCHANGED <<feeder, saver>>
    BY <1>3 DEF Dies
  <2>1. TypeOK' /\ OneHand'
    BY <1>0, <2>0 DEF TypeOK, OneHand
  <2>2. NoneLost' /\ Leaving'
    BY <1>0, <2>0 DEF NoneLost, Leaving
  <2>3. Causes'
    BY <1>0, <2>0 DEF Causes
  <2>4. NilMeansAll'
    BY <1>0, <2>0 DEF NilMeansAll
  <2> QED BY <2>1, <2>2, <2>3, <2>4 DEF RInv
<1> QED BY <1>1, <1>2, <1>3

LEMMA RStep == RInv /\ [Next]_vars => RInv'
<1> SUFFICES ASSUME RInv, [Next]_vars PROVE RInv'
  OBVIOUS
<1>1. CASE \E w \in Workers : Feed(w)
  BY <1>1, FeedStep
<1>2. CASE \E w \in Workers : WorkerStep(w)
  BY <1>2, WorkStep
<1>3. CASE Returns
  BY <1>3, ReturnStep
<1>4. CASE FeederGoes \/ Tick \/ Saved \/ SaverGoes \/ Over \/ UNCHANGED vars
             \/ \E why \in {"canceled", "deadline"} : Dies(why)
  BY <1>4, OtherSteps
<1> QED BY <1>1, <1>2, <1>3, <1>4 DEF Next, FeederStep

LEMMA RInvariant == Spec => []RInv
BY RInit, RStep, PTL DEF Spec

\* Whatever the number of jobs and of workers, no index beyond the jobs is handed
\* out, only a job that some worker held is done, and errCh holds no more than it
\* has places for (pull.go:430-506).
THEOREM PoolTypeCorrect == Spec => []TypeOK
<1>1. RInv => TypeOK
  BY DEF RInv
<1> QED BY <1>1, RInvariant, PTL

\* Whatever the number of jobs and of workers, nil means that every job was
\* done unless the caller's context was cancelled (pull.go:496-504).
THEOREM PoolNilMeansAll == Spec => []NilMeansAll
<1>1. RInv => NilMeansAll
  BY DEF RInv
<1> QED BY <1>1, RInvariant, PTL

\* Every step of runParts is a step its callers rely on, or none they see: jobs
\* are done once and never after it returned, no error is lost, and the result
\* is the one they were promised.
THEOREM PoolKeepsContract == Spec => Relied!Safety
<1> DEFINE failed == errs > 0 \/ \E w \in Workers : stage[w] = "failed"
<1>1. Init => Relied!Init
  BY PoolFacts DEF Init, Relied!Init
<1>2. RInv /\ [Next]_vars => [Relied!Next]_(Relied!vars)
  <2> SUFFICES ASSUME RInv, [Next]_vars
               PROVE  [Relied!Next]_(Relied!vars)
    OBVIOUS
  <2>t. TypeOK /\ OneHand /\ NoneLost /\ Causes /\ Leaving
    BY DEF RInv
  <2>a. stage \in [Workers -> {"recv", "got", "busy", "failed", "told", "gone"}]
    BY <2>t DEF TypeOK
  <2> DEFINE Same == UNCHANGED <<finished, ctx, result>> /\ failed' = failed
  <2>s. Same => [Relied!Next]_(Relied!vars)
    BY DEF Relied!vars
  <2>1. ASSUME NEW w \in Workers, Feed(w)
        PROVE  Same
    BY <2>a, <2>1 DEF Feed, Goes, caller
  <2>2. ASSUME NEW w \in Workers, WorkerStep(w)
        PROVE  [Relied!Next]_(Relied!vars)
    <3>r. result = "none" /\ UNCHANGED <<ctx, result>>
      BY <2>2, <2>t DEF Leaving, WorkerStep, Closed, LooksAtContext, Does, Fails, Tells,
                        CancelsPool, Goes, caller
    <3>1. CASE Closed(w) \/ LooksAtContext(w)
      <4>1. Same
        BY <2>a, <3>1 DEF Closed, LooksAtContext, Goes, caller
      <4> QED BY <4>1, <2>s
    <3>2. CASE Does(w)
      <4>1. /\ stage[w] = "busy" /\ stage' = [stage EXCEPT ![w] = "recv"]
            /\ finished' = finished \cup {hand[w]} /\ errs' = errs
        BY <3>2 DEF Does, Goes
      <4>2. hand[w] \in Jobs /\ hand[w] \notin finished
        BY <4>1, <2>t DEF TypeOK, OneHand
      <4>3. failed' = failed
        BY <2>a, <4>1
      <4>4. Relied!Work(hand[w])
        BY <3>r, <4>1, <4>2, <4>3 DEF Relied!Work
      <4> QED BY <4>2, <4>4 DEF Relied!Next
    <3>3. CASE Fails(w)
      <4>1. /\ stage[w] = "busy" /\ stage' = [stage EXCEPT ![w] = "failed"]
            /\ finished' = finished
        BY <3>3 DEF Fails, Goes
      <4>2. failed' = TRUE
        BY <2>a, <4>1
      <4>3. Relied!Break
        BY <3>r, <4>1, <4>2 DEF Relied!Break
      <4> QED BY <4>3 DEF Relied!Next
    <3>4. CASE Tells(w)
      <4>1. /\ stage[w] = "failed" /\ finished' = finished
            /\ errs' = IF errs < ErrCap THEN errs + 1 ELSE errs
        BY <3>4 DEF Tells, Goes
      <4>2. errs' > 0
        BY <4>1, <2>t, PoolFacts DEF TypeOK
      <4>3. failed = TRUE /\ failed' = TRUE
        BY <4>1, <4>2
      <4> QED BY <2>s, <3>r, <4>1, <4>3
    <3>5. CASE CancelsPool(w)
      <4>1. /\ stage[w] = "told" /\ stage' = [stage EXCEPT ![w] = "gone"]
            /\ finished' = finished /\ errs' = errs
        BY <3>5 DEF CancelsPool, Goes
      <4>2. failed' = failed
        BY <2>a, <4>1
      <4> QED BY <2>s, <3>r, <4>1, <4>2
    <3> QED BY <2>2, <3>1, <3>2, <3>3, <3>4, <3>5 DEF WorkerStep
  <2>3. CASE Returns
    <3>0. /\ result = "none" /\ \A w \in Workers : stage[w] = "gone"
          /\ result' = IF errs > 0 THEN "error"
                       ELSE IF inner = "deadline" THEN "deadline" ELSE "nil"
          /\ UNCHANGED <<stage, finished, errs, ctx>>
      BY <2>3 DEF Returns, pool
    <3>1. failed = (errs > 0) /\ failed' = failed
      BY <3>0
    <3>2. errs = 0 => inner = ctx /\ (inner = "live" => finished = Jobs)
      BY <3>0, AllGone
    <3>3. errs > 0 \/ errs = 0
      BY <2>t DEF TypeOK
    <3>4. ctx \in {"live", "canceled", "deadline"}
      BY <2>t DEF TypeOK
    <3>5. CASE errs > 0
      <4>1. Relied!Return
        BY <3>0, <3>1, <3>5 DEF Relied!Return
      <4> QED BY <4>1 DEF Relied!Next
    <3>6. CASE errs = 0
      <4>1. ~failed /\ ~failed'
        BY <3>1, <3>6
      <4>2. Relied!Return
        BY <3>0, <3>2, <3>4, <3>6, <4>1 DEF Relied!Return
      <4> QED BY <4>2 DEF Relied!Next
    <3> QED BY <3>3, <3>5, <3>6
  <2>4. ASSUME NEW why \in {"canceled", "deadline"}, Dies(why)
        PROVE  [Relied!Next]_(Relied!vars)
    <3>1. Relied!Die(why)
      BY <2>4 DEF Dies, pool, Relied!Die
    <3> QED BY <3>1 DEF Relied!Next
  <2>5. CASE FeederGoes \/ Tick \/ Saved \/ SaverGoes \/ Over \/ UNCHANGED vars
    <3>1. Same
      BY <2>5 DEF FeederGoes, Tick, Saved, SaverGoes, Over, vars, pool, caller
    <3> QED BY <2>s, <3>1
  <2> QED BY <2>1, <2>2, <2>3, <2>4, <2>5, <2>s DEF Next, FeederStep
<1> QED BY <1>1, <1>2, RInvariant, PTL DEF Spec, Relied!Safety
=============================================================================
