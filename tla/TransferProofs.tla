--------------------------- MODULE TransferProofs ---------------------------
(***************************************************************************)
(* Proofs about Transfer, for any number of parts, reads, tries and        *)
(* attempts: exit 0 means that all was moved, every other code names what  *)
(* happened, a refusal is final, and the byte counter is what landed.      *)
(***************************************************************************)
EXTENDS Transfer, FiniteSetTheorems, TLAPS

\* Who is at work in which phase.
Placed ==
  /\ st["main"] \in {"idle", "call", "backoff"}
  /\ st["main"] # "idle" => phase \in {"head", "list", "verify"}
  /\ phase \in {"head", "pool", "verify"} => op = "pull"
  /\ phase = "files" => op = "push" /\ \A j \in Parts : st[j] \in {"idle", "call", "landed", "failed"}
  /\ phase \in {"head", "list"} =>
       "slow" \notin met /\ first = "none" /\ \A j \in Parts : st[j] = "idle"
  /\ phase \notin {"pool", "files"} =>
       \A j \in Parts : st[j] \in {"idle", "landed", "failed", "dropped"}
  /\ phase \in {"tail", "told"} /\ op = "pull" => \A j \in Parts : st[j] # "idle"
  /\ "late" \in met => phase \in {"told", "verify", "over"}

\* Trouble that the transfer has met explains the error; the cancel of the
\* floor watch looks like any other.
Told(e) == e \in met \cup {"none"} \/ (e = "canceled" /\ met \cap {"slow", "late"} # {})

\* Every error that is kept has a cause, and every part that is given up an
\* error.
Caused ==
  /\ ctx # "live" => Told(ctx)
  /\ Told(first)
  /\ \A j \in Parts :
       /\ guard[j] = "fired" => "stall" \in met
       /\ Told(err[j]) \/ guard[j] = "fired"
       /\ st[j] = "erred" <=> err[j] # "none"
       /\ st[j] = "failed" => first # "none"
       /\ st[j] = "dropped" => first # "none" \/ ctx # "live"
  /\ RefusalIsFinal

\* The error is one of what was met; a breach that came late looks like a
\* signal.
Named(e) == e \in met \cup {"none"} \/ (e = "canceled" /\ "late" \in met)

\* What the tails have before them, and what they made of it.
Ended ==
  /\ phase = "tail" /\ op = "pull" =>
       /\ Told(result)
       /\ result = "none" => /\ first = "none"
                             /\ \A j \in Parts : st[j] = "dropped" => ctx = "canceled"
  /\ phase = "tail" /\ op = "push" /\ ctx = "live" /\ first = "none" => AllLanded
  /\ phase \in {"told", "verify"} => "slow" \notin met
  /\ phase = "told" /\ op = "pull" =>
       /\ Named(result)
       /\ result = "none" => AllLanded \/ "canceled" \in met
  /\ phase = "told" /\ op = "push" /\ ctx = "live" /\ first = "none" => AllLanded
  /\ phase = "verify" => AllLanded
  /\ phase = "over" =>
       /\ Named(result) \/ (result = "internal" /\ "canceled" \in met)
       /\ result = "none" => AllLanded
       /\ "slow" \in met => result = "slow"

TInv == TypeOK /\ Placed /\ Caused /\ Ended

\* A request that ends in an error: the part has it to judge; after HEAD comes
\* LIST or the end, after LIST the end or, in a push, the files.
LEMMA Returned ==
  ASSUME TInv, NEW r \in Requesters, NEW e \in Kinds \ {"none", "internal"}, DoReturns(r, e),
         st[r] \in {"call", "backoff"}, UNCHANGED <<given, meter, ctx>>,
         met \subseteq met', met' \subseteq Kinds, met' \cap {"slow", "late"} \subseteq met,
         op = "pull" \/ r = "main",
         Told(e)' \/ (r \in Parts /\ guard[r] = "fired")
  PROVE  TInv'
<1>0. TypeOK /\ Placed /\ Caused /\ Ended
  BY DEF TInv
<1> USE DEF given, part, meter, Goes
<1>1. CASE r = "main"
  <2>1. Told(e)' /\ MainFails(e) /\ phase \in {"head", "list", "verify"} /\ r \notin Parts
    BY <1>0, <1>1, TransferAssumption DEF DoReturns, Placed
  <2>2. CASE MainAsks("list") /\ phase = "head"
    BY <1>0, <2>1, <2>2, TransferAssumption DEF MainAsks, TInv, TypeOK, Placed, Caused, Ended, Told, Named, RefusalIsFinal, AllLanded, Requesters
  <2>3. CASE Starts("files") /\ phase = "list" /\ op = "push"
    BY <1>0, <2>1, <2>3 DEF Starts, TInv, TypeOK, Placed, Caused, Ended, Told, Named, RefusalIsFinal, AllLanded, Requesters
  <2>4. CASE MainEnds(e)
    BY <1>0, <2>1, <2>4 DEF MainEnds, TInv, TypeOK, Placed, Caused, Ended, Told, Named, RefusalIsFinal, AllLanded, Requesters
  <2>5. CASE MainEnds("none") /\ phase = "verify"
    BY <1>0, <2>1, <2>5 DEF MainEnds, TInv, TypeOK, Placed, Caused, Ended, Told, Named, RefusalIsFinal, AllLanded, Requesters, Kinds
  <2> QED BY <1>0, <2>1, <2>2, <2>3, <2>4, <2>5 DEF MainFails, TypeOK
<1>2. CASE r # "main"
  <2>1. /\ r \in Parts /\ st' = [st EXCEPT ![r] = "erred"] /\ err' = [err EXCEPT ![r] = e]
        /\ UNCHANGED <<phase, try, attempt, got, guard, first, result>>
    BY <1>2 DEF DoReturns, Requesters
  <2>2. TypeOK'
    BY <1>0, <2>1 DEF TypeOK
  <2>3. Placed'
    BY <1>0, <2>1 DEF TypeOK, Placed
  <2>4. Caused'
    BY <1>0, <2>1 DEF TypeOK, Caused, Told, RefusalIsFinal
  <2>5. Ended'
    BY <1>0, <2>1 DEF TypeOK, Placed, Ended, Told, Named, AllLanded
  <2> QED BY <2>2, <2>3, <2>4, <2>5 DEF TInv
<1> QED BY <1>1, <1>2

\* A try that failed, and is not the last, is tried again.
LEMMA Retried ==
  ASSUME TInv, NEW r \in Requesters, NEW e \in Kinds \ {"none", "slow", "late", "internal"}, TriesAgain(r, e),
         st[r] \in {"call", "backoff"}, UNCHANGED <<given, meter, ctx>>, met' = met \cup {e},
         op = "pull" \/ r = "main"
  PROVE  TInv'
<1>0. TypeOK /\ Placed /\ Caused /\ Ended
  BY DEF TInv
<1>1. CASE DoReturns(r, e)
  BY <1>0, <1>1, Returned DEF Told, TypeOK
<1>2. CASE ~DoReturns(r, e)
  <2>1. /\ st' = [st EXCEPT ![r] = "backoff"] /\ try' = [try EXCEPT ![r] = @ + 1] /\ try[r] + 1 < maxTries
        /\ UNCHANGED <<phase, part, first, result>>
    BY <1>2 DEF TriesAgain, Goes
  <2> USE DEF given, part, meter
  <2>2. TypeOK'
    BY <1>0, <2>1, TransferAssumption DEF TypeOK
  <2>3. Placed'
    BY <1>0, <2>1, TransferAssumption DEF TypeOK, Placed, Requesters
  <2>4. Caused'
    BY <1>0, <2>1, TransferAssumption DEF TypeOK, Caused, Told, RefusalIsFinal, Requesters
  <2>5. Ended'
    BY <1>0, <2>1, TransferAssumption DEF TypeOK, Placed, Ended, Told, Named, AllLanded, Requesters
  <2> QED BY <2>2, <2>3, <2>4, <2>5 DEF TInv
<1> QED BY <1>1, <1>2

\* A dead request ends in an error that can be told.
LEMMA DeadTold ==
  ASSUME TInv, NEW r \in Requesters, Dead(r)
  PROVE  /\ CtxErr(r) \in Kinds \ {"none", "slow", "late", "internal"}
         /\ Told(CtxErr(r)) \/ (r \in Parts /\ guard[r] = "fired")
BY DEF TInv, TypeOK, Caused, Dead, CtxErr, Kinds

\* Every step keeps the invariant.
LEMMA TNext == TInv /\ [Next]_vars => TInv'
<1> SUFFICES ASSUME TypeOK, Placed, Caused, Ended, [Next]_vars PROVE TInv'
  BY DEF TInv
<1>0. TInv
  BY DEF TInv
<1> USE DEF given, part, meter, Goes, Meets
<1>1. ASSUME UNCHANGED vars PROVE TInv'
  BY <1>1 DEF vars, TInv, TypeOK, Placed, Caused, Ended, Told, Named, RefusalIsFinal, AllLanded
<1>2. ASSUME NEW r \in Requesters, NEW e \in ErrorReplies, Fails(r, e) PROVE TInv'
  <2>1. /\ st[r] = "call" /\ (op = "pull" \/ r = "main") /\ UNCHANGED <<given, meter, ctx>>
        /\ e \in Kinds \ {"none", "slow", "late", "internal"} /\ met' = met \cup {e}
    BY <1>2 DEF Fails, ErrorReplies, NoStatus, Kinds, Terminal
  <2>2. met \subseteq met' /\ met' \subseteq Kinds /\ met' \cap {"slow", "late"} \subseteq met
    BY <2>1 DEF TypeOK
  <2>3. CASE e \in NoStatus /\ Dead(r)
    <3>1. PICK c \in Kinds \ {"none", "internal"} : c = CtxErr(r)
      BY <1>0, <2>3, DeadTold
    <3>2. DoReturns(r, c)
      BY <1>2, <2>3, <3>1 DEF Fails
    <3>3. Told(c)' \/ (r \in Parts /\ guard[r] = "fired")
      BY <1>0, <2>1, <2>3, <3>1, DeadTold DEF Told
    <3> QED BY <1>0, <2>1, <2>2, <3>2, <3>3, Returned
  <2>4. CASE DoReturns(r, e)
    <3>1. Told(e)'
      BY <2>1 DEF Told
    <3> QED BY <1>0, <2>1, <2>2, <2>4, <3>1, Returned
  <2>5. CASE TriesAgain(r, e)
    BY <1>0, <2>1, <2>5, Retried
  <2> QED BY <1>2, <2>3, <2>4, <2>5 DEF Fails
<1>3. ASSUME NEW r \in Requesters, Interrupted(r) PROVE TInv'
  <2>1. /\ Dead(r) /\ st[r] \in {"call", "backoff"} /\ (op = "pull" \/ r = "main")
        /\ UNCHANGED <<given, meter, met, ctx>>
    BY <1>3 DEF Interrupted
  <2>2. PICK c \in Kinds \ {"none", "internal"} : c = CtxErr(r)
    BY <1>0, <2>1, DeadTold
  <2>3. DoReturns(r, c)
    BY <1>3, <2>2 DEF Interrupted
  <2>4. Told(c)' \/ (r \in Parts /\ guard[r] = "fired")
    BY <1>0, <2>1, <2>2, DeadTold DEF Told
  <2>5. met \subseteq Kinds
    BY DEF TypeOK
  <2> QED BY <1>0, <2>1, <2>3, <2>4, <2>5, Returned
<1>4. ASSUME ListBreaksOff PROVE TInv'
  BY <1>0, <1>4, Retried DEF ListBreaksOff, Requesters, Kinds
<1>5. ASSUME NEW r \in Requesters, BackoffOver(r) PROVE TInv'
  <2>1. TypeOK'
    BY <1>5 DEF TypeOK, BackoffOver
  <2>2. Placed'
    BY <1>5 DEF Placed, BackoffOver
  <2>3. Caused'
    BY <1>5 DEF Caused, Told, RefusalIsFinal, BackoffOver
  <2>4. Ended'
    BY <1>5 DEF Ended, Told, Named, AllLanded, BackoffOver
  <2> QED BY <2>1, <2>2, <2>3, <2>4 DEF TInv
<1>6. ASSUME HeadAnswers PROVE TInv'
  <2>1. TypeOK'
    BY <1>6 DEF TypeOK, HeadAnswers, Starts
  <2>2. Placed'
    BY <1>6 DEF TypeOK, Placed, Requesters, HeadAnswers, Starts
  <2>3. Caused'
    BY <1>6 DEF Caused, Told, RefusalIsFinal, HeadAnswers, Starts
  <2>4. Ended'
    BY <1>6 DEF Ended, HeadAnswers, Starts
  <2> QED BY <2>1, <2>2, <2>3, <2>4 DEF TInv
<1>7. ASSUME ListAnswers PROVE TInv'
  <2>1. TypeOK'
    BY <1>7 DEF TypeOK, ListAnswers, Starts
  <2>2. Placed'
    BY <1>7 DEF TypeOK, Placed, Requesters, ListAnswers, Starts
  <2>3. Caused'
    BY <1>7 DEF Caused, Told, RefusalIsFinal, ListAnswers, Starts
  <2>4. Ended'
    BY <1>7 DEF Ended, ListAnswers, Starts
  <2> QED BY <2>1, <2>2, <2>3, <2>4 DEF TInv
<1>8. ASSUME NothingListed PROVE TInv'
  <2>1. TypeOK'
    BY <1>8 DEF TypeOK, Kinds, Terminal, NothingListed, MainEnds
  <2>2. Placed'
    BY <1>8 DEF TypeOK, Placed, Requesters, NothingListed, MainEnds
  <2>3. Caused'
    BY <1>8 DEF Caused, Told, RefusalIsFinal, NothingListed, MainEnds
  <2>4. Ended'
    BY <1>8 DEF Placed, Ended, Named, NothingListed, MainEnds
  <2> QED BY <2>1, <2>2, <2>3, <2>4 DEF TInv
<1>9. ASSUME NotPrepared PROVE TInv'
  <2>1. TypeOK'
    BY <1>9 DEF TypeOK, Kinds, NotPrepared, MainEnds
  <2>2. Placed'
    BY <1>9 DEF TypeOK, Placed, Requesters, NotPrepared, MainEnds
  <2>3. Caused'
    BY <1>9 DEF Caused, Told, RefusalIsFinal, NotPrepared, MainEnds
  <2>4. Ended'
    BY <1>9 DEF Placed, Ended, Named, NotPrepared, MainEnds
  <2> QED BY <2>1, <2>2, <2>3, <2>4 DEF TInv
<1>10. ASSUME NEW j \in Parts, Take(j) PROVE TInv'
  <2>1. TypeOK'
    BY <1>10, TransferAssumption DEF TypeOK, Take, Attempt
  <2>2. Placed'
    BY <1>10, TransferAssumption DEF TypeOK, Placed, Requesters, Take, Attempt
  <2>3. Caused'
    BY <1>10 DEF TypeOK, Caused, Told, RefusalIsFinal, Requesters, Take, Attempt, PoolLive
  <2>4. Ended'
    BY <1>10 DEF Ended, Take
  <2> QED BY <2>1, <2>2, <2>3, <2>4 DEF TInv
<1>11. ASSUME NEW j \in Parts, Streams(j) PROVE TInv'
  <2>1. TypeOK'
    BY <1>11 DEF TypeOK, Streams
  <2>2. Placed'
    BY <1>11 DEF Placed, Streams
  <2>3. Caused'
    BY <1>11 DEF Caused, Told, RefusalIsFinal, Streams
  <2>4. Ended'
    BY <1>11 DEF Ended, Streams
  <2> QED BY <2>1, <2>2, <2>3, <2>4 DEF TInv
<1>12. ASSUME NEW j \in Parts, Reads(j) PROVE TInv'
  <2>1. TypeOK'
    BY <1>12, TransferAssumption DEF TypeOK, Reads
  <2>2. Placed'
    BY <1>12 DEF Placed, Reads
  <2>3. Caused'
    BY <1>12 DEF Caused, Told, RefusalIsFinal, Reads
  <2>4. Ended'
    BY <1>12 DEF Ended, Told, Named, AllLanded, Reads
  <2> QED BY <2>1, <2>2, <2>3, <2>4 DEF TInv
<1>13. ASSUME NEW j \in Parts, NEW e \in {"net", "disk"}, CopyFails(j, e) PROVE TInv'
  <2>1. TypeOK'
    BY <1>13 DEF TypeOK, Kinds, CopyFails
  <2>2. Placed'
    BY <1>13 DEF Placed, CopyFails
  <2>3. Caused'
    BY <1>13 DEF TypeOK, Caused, Told, RefusalIsFinal, Requesters, CopyFails
  <2>4. Ended'
    BY <1>13 DEF Ended, Told, Named, AllLanded, CopyFails
  <2> QED BY <2>1, <2>2, <2>3, <2>4 DEF TInv
<1>14. ASSUME NEW j \in Parts, CopyCut(j) PROVE TInv'
  <2>1. TypeOK'
    BY <1>14 DEF TypeOK, Kinds, CopyCut, CtxErr
  <2>2. Placed'
    BY <1>14 DEF Placed, CopyCut
  <2>3. Caused'
    BY <1>14 DEF TypeOK, Caused, Told, RefusalIsFinal, Requesters, CopyCut, Dead, CtxErr
  <2>4. Ended'
    BY <1>14 DEF Ended, Told, Named, AllLanded, CopyCut
  <2> QED BY <2>1, <2>2, <2>3, <2>4 DEF TInv
<1>15. ASSUME NEW j \in Parts, Lands(j) PROVE TInv'
  <2>1. TypeOK'
    BY <1>15 DEF TypeOK, Lands
  <2>2. Placed'
    BY <1>15 DEF Placed, Lands
  <2>3. Caused'
    BY <1>15 DEF Caused, Told, RefusalIsFinal, Lands
  <2>4. Ended'
    BY <1>15 DEF Ended, Told, Named, AllLanded, Lands
  <2> QED BY <2>1, <2>2, <2>3, <2>4 DEF TInv
<1>16. ASSUME NEW j \in Parts, ComesUpShort(j) PROVE TInv'
  <2>1. TypeOK'
    BY <1>16, TransferAssumption DEF TypeOK, Kinds, ComesUpShort, AnotherAttempt, AttemptOver,
           GivesUp
  <2>2. Placed'
    BY <1>16 DEF TypeOK, Placed, Requesters, ComesUpShort, AnotherAttempt, GivesUp
  <2>3. Caused'
    BY <1>16 DEF TypeOK, Caused, Told, RefusalIsFinal, Terminal, Requesters, ComesUpShort,
           AnotherAttempt, AttemptOver, GivesUp
  <2>4. Ended'
    BY <1>16 DEF Placed, Ended, ComesUpShort
  <2> QED BY <2>1, <2>2, <2>3, <2>4 DEF TInv
<1>17. ASSUME NEW j \in Parts, Judge(j) PROVE TInv'
  <2>1. TypeOK'
    BY <1>17, TransferAssumption DEF TypeOK, Kinds, Judge, Classified, AnotherAttempt, AttemptOver,
           GivesUp
  <2>2. Placed'
    BY <1>17 DEF TypeOK, Placed, Requesters, Judge, AnotherAttempt, GivesUp
  <2>3. Caused'
    BY <1>17 DEF TypeOK, Caused, Told, RefusalIsFinal, Terminal, Requesters, Judge, Classified,
           AnotherAttempt, AttemptOver, GivesUp
  <2>4. Ended'
    BY <1>17 DEF Placed, Ended, Judge
  <2> QED BY <2>1, <2>2, <2>3, <2>4 DEF TInv
<1>18. ASSUME NEW j \in Parts, PauseOver(j) PROVE TInv'
  <2>1. TypeOK'
    BY <1>18, TransferAssumption DEF TypeOK, Requesters, PauseOver, Attempt
  <2>2. Placed'
    BY <1>18 DEF Placed, PauseOver, Attempt
  <2>3. Caused'
    BY <1>18 DEF Caused, Told, RefusalIsFinal, PauseOver, Attempt
  <2>4. Ended'
    BY <1>18 DEF Ended, Told, Named, AllLanded, PauseOver, Attempt
  <2> QED BY <2>1, <2>2, <2>3, <2>4 DEF TInv
<1>19. ASSUME NEW j \in Parts, PauseCut(j) PROVE TInv'
  <2>1. TypeOK'
    BY <1>19 DEF TypeOK, Kinds, PauseCut, GivesUp
  <2>2. Placed'
    BY <1>19 DEF Placed, PauseCut, GivesUp
  <2>3. Caused'
    BY <1>19 DEF TypeOK, Caused, Told, RefusalIsFinal, PauseCut, GivesUp
  <2>4. Ended'
    BY <1>19 DEF Placed, Ended, PauseCut
  <2> QED BY <2>1, <2>2, <2>3, <2>4 DEF TInv
<1>20. ASSUME NEW j \in Parts, StallGuardFires(j) PROVE TInv'
  <2>1. TypeOK'
    BY <1>20 DEF TypeOK, Kinds, StallGuardFires
  <2>2. Placed'
    BY <1>20 DEF Placed, StallGuardFires
  <2>3. Caused'
    BY <1>20 DEF Caused, Told, RefusalIsFinal, StallGuardFires
  <2>4. Ended'
    BY <1>20 DEF Ended, Told, Named, AllLanded, StallGuardFires
  <2> QED BY <2>1, <2>2, <2>3, <2>4 DEF TInv
<1>21. ASSUME CeilingStrikes PROVE TInv'
  <2>1. TypeOK'
    BY <1>21 DEF TypeOK, Kinds, CeilingStrikes
  <2>2. Placed'
    BY <1>21 DEF Placed, CeilingStrikes
  <2>3. Caused'
    BY <1>21 DEF Caused, Told, RefusalIsFinal, CeilingStrikes
  <2>4. Ended'
    BY <1>21 DEF Ended, Told, Named, AllLanded, CeilingStrikes
  <2> QED BY <2>1, <2>2, <2>3, <2>4 DEF TInv
<1>22. ASSUME FloorBreached PROVE TInv'
  <2>1. TypeOK'
    BY <1>22 DEF TypeOK, Kinds, FloorBreached
  <2>2. Placed'
    BY <1>22 DEF Placed, Guarded, FloorBreached
  <2>3. Caused'
    BY <1>22 DEF Caused, Told, RefusalIsFinal, Guarded, FloorBreached
  <2>4. Ended'
    BY <1>22 DEF Placed, Ended, Told, Named, AllLanded, Guarded, FloorBreached
  <2> QED BY <2>1, <2>2, <2>3, <2>4 DEF TInv
<1>23. ASSUME Signal PROVE TInv'
  <2>1. TypeOK'
    BY <1>23 DEF TypeOK, Kinds, Signal
  <2>2. Placed'
    BY <1>23 DEF Placed, Signal
  <2>3. Caused'
    BY <1>23 DEF Caused, Told, RefusalIsFinal, Signal
  <2>4. Ended'
    BY <1>23 DEF Ended, Told, Named, AllLanded, Signal
  <2> QED BY <2>1, <2>2, <2>3, <2>4 DEF TInv
<1>24. ASSUME PoolOver PROVE TInv'
  <2>1. TypeOK'
    BY <1>24 DEF TypeOK, Kinds, PoolOver
  <2>2. Placed'
    BY <1>24 DEF Placed, PoolOver
  <2>3. Caused'
    BY <1>24 DEF Caused, Told, RefusalIsFinal, PoolOver
  <2>4. Ended'
    BY <1>24 DEF TypeOK, Caused, Ended, Told, Named, AllLanded, PoolOver
  <2> QED BY <2>1, <2>2, <2>3, <2>4 DEF TInv
<1>25. ASSUME PullTail PROVE TInv'
  <2>1. TypeOK'
    BY <1>25, TransferAssumption DEF TypeOK, Kinds, PullTail, MainEnds, MainAsks
  <2>2. Placed'
    BY <1>25 DEF TypeOK, Placed, Requesters, PullTail, MainEnds, MainAsks
  <2>3. Caused'
    BY <1>25 DEF TypeOK, Placed, Caused, Told, RefusalIsFinal, Requesters, PullTail, MainEnds,
           MainAsks
  <2>4. Ended'
    BY <1>25 DEF TypeOK, Placed, Caused, Ended, Told, Named, AllLanded, Requesters, PullTail, MainEnds,
           MainAsks
  <2> QED BY <2>1, <2>2, <2>3, <2>4 DEF TInv
<1>33. ASSUME FloorAsked PROVE TInv'
  <2>1. TypeOK'
    BY <1>33 DEF TypeOK, Kinds, FloorAsked, MainEnds
  <2>2. Placed'
    BY <1>33 DEF TypeOK, Placed, Requesters, FloorAsked, MainEnds
  <2>3. Caused'
    BY <1>33 DEF TypeOK, Placed, Caused, Told, RefusalIsFinal, Requesters, FloorAsked, MainEnds
  <2>4. Ended'
    BY <1>33 DEF TypeOK, Placed, Caused, Ended, Told, Named, AllLanded, Requesters, FloorAsked, MainEnds
  <2> QED BY <2>1, <2>2, <2>3, <2>4 DEF TInv
<1>26. ASSUME NEW e \in {"none", "mismatch", "unsigned", "disk"}, Verified(e) PROVE TInv'
  <2>1. TypeOK'
    <3>1. met' \subseteq Kinds /\ e \in Kinds
      BY <1>26 DEF Verified, TypeOK, Kinds
    <3> QED BY <1>26, <3>1, TransferAssumption DEF Verified, MainEnds, TypeOK, Placed, Requesters
  <2>2. Placed'
    BY <1>26 DEF TypeOK, Placed, Requesters, Verified, MainEnds
  <2>3. Caused'
    BY <1>26 DEF Caused, Told, RefusalIsFinal, Verified, MainEnds
  <2>4. Ended'
    BY <1>26 DEF Ended, Named, AllLanded, Verified, MainEnds
  <2> QED BY <2>1, <2>2, <2>3, <2>4 DEF TInv
<1>27. ASSUME NEW j \in Parts, Upload(j) PROVE TInv'
  <2>1. TypeOK'
    BY <1>27 DEF TypeOK, Upload
  <2>2. Placed'
    BY <1>27, TransferAssumption DEF Placed, Upload
  <2>3. Caused'
    BY <1>27 DEF Caused, Told, RefusalIsFinal, Upload
  <2>4. Ended'
    BY <1>27 DEF Ended, Upload
  <2> QED BY <2>1, <2>2, <2>3, <2>4 DEF TInv
<1>28. ASSUME NEW j \in Parts, Uploaded(j) PROVE TInv'
  <2>1. TypeOK'
    BY <1>28 DEF TypeOK, Uploaded
  <2>2. Placed'
    BY <1>28 DEF Placed, Uploaded
  <2>3. Caused'
    BY <1>28 DEF Caused, Told, RefusalIsFinal, Uploaded
  <2>4. Ended'
    BY <1>28 DEF Ended, Uploaded
  <2> QED BY <2>1, <2>2, <2>3, <2>4 DEF TInv
<1>29. ASSUME NEW j \in Parts, NEW e \in ErrorReplies \cup {"disk"}, UploadFails(j, e) PROVE TInv'
  <2>1. TypeOK'
    BY <1>29 DEF TypeOK, Kinds, UploadFails, GivesUp, ErrorReplies, NoStatus
  <2>2. Placed'
    BY <1>29 DEF Placed, UploadFails, GivesUp, ErrorReplies, NoStatus, Terminal
  <2>3. Caused'
    BY <1>29 DEF Caused, Told, RefusalIsFinal, Terminal, UploadFails, GivesUp, ErrorReplies,
           NoStatus
  <2>4. Ended'
    BY <1>29 DEF Ended, UploadFails
  <2> QED BY <2>1, <2>2, <2>3, <2>4 DEF TInv
<1>30. ASSUME NEW j \in Parts, UploadCut(j) PROVE TInv'
  <2>1. TypeOK'
    BY <1>30 DEF TypeOK, Kinds, UploadCut, GivesUp
  <2>2. Placed'
    BY <1>30 DEF Placed, UploadCut, GivesUp
  <2>3. Caused'
    BY <1>30 DEF TypeOK, Caused, Told, RefusalIsFinal, UploadCut, GivesUp
  <2>4. Ended'
    BY <1>30 DEF Ended, UploadCut
  <2> QED BY <2>1, <2>2, <2>3, <2>4 DEF TInv
<1>31. ASSUME FilesOver PROVE TInv'
  <2>1. TypeOK'
    BY <1>31 DEF TypeOK, FilesOver
  <2>2. Placed'
    BY <1>31 DEF Placed, FilesOver, Uploading
  <2>3. Caused'
    BY <1>31 DEF Caused, Told, RefusalIsFinal, FilesOver
  <2>4. Ended'
    BY <1>31 DEF Placed, Caused, Ended, AllLanded, FilesOver, Uploading
  <2> QED BY <2>1, <2>2, <2>3, <2>4 DEF TInv
<1>32. ASSUME PushTail PROVE TInv'
  <2>1. TypeOK'
    BY <1>32 DEF TypeOK, Kinds, PushTail, MainEnds
  <2>2. Placed'
    BY <1>32 DEF Placed, PushTail, MainEnds
  <2>3. Caused'
    BY <1>32 DEF Placed, Caused, Told, RefusalIsFinal, PushTail, MainEnds
  <2>4. Ended'
    BY <1>32 DEF TypeOK, Placed, Caused, Ended, Told, Named, AllLanded, PushTail, MainEnds
  <2> QED BY <2>1, <2>2, <2>3, <2>4 DEF TInv
<1> QED BY <1>1, <1>2, <1>3, <1>4, <1>5, <1>6, <1>7, <1>8, <1>9, <1>10, <1>11, <1>12, <1>13, <1>14,
       <1>15, <1>16, <1>17, <1>18, <1>19, <1>20, <1>21, <1>22, <1>23, <1>24, <1>25, <1>26, <1>27,
       <1>28, <1>29, <1>30, <1>31, <1>32, <1>33 DEF Next, PartStep, MainStep, Answers, Over, Requesters

LEMMA TInit == Init => TInv
<1> SUFFICES ASSUME Init PROVE TInv
  OBVIOUS
<1>1. st["main"] \in {"idle", "call"} /\ \A j \in Parts : st[j] = "idle"
  BY TransferAssumption DEF Init, Requesters
<1>2. TypeOK
  BY TransferAssumption DEF Init, TypeOK, Kinds, Requesters
<1>3. Placed
  BY <1>1 DEF Init, Placed, Requesters
<1>4. Caused
  BY <1>1 DEF Init, Caused, Told, RefusalIsFinal
<1>5. Ended
  BY DEF Init, Ended
<1> QED BY <1>2, <1>3, <1>4, <1>5 DEF TInv

LEMMA TInvariant == Spec => []TInv
BY TInit, TNext, PTL DEF Spec

-----------------------------------------------------------------------------
(* What the caller is told *)

\* Every variable holds a value the code can put there, for any number of parts,
\* reads, tries and attempts; no request and no part is tried more often.
THEOREM TransferTypeCorrect == Spec => []TypeOK
BY TInvariant, PTL DEF TInv

\* Exit 0 means that everything was moved, however many parts a stopped pool
\* dropped and wherever the context ended.
THEOREM ExitZeroIsAll == Spec => []ExitZeroMeansAll
<1>1. TInv => ExitZeroMeansAll
  BY DEF TInv, Ended, ExitZeroMeansAll, code, Report, IsDeadlineExceeded
<1> QED BY <1>1, TInvariant, PTL

\* report turns every kind of trouble into a code that stands for it.
LEMMA CodeOfKind ==
  ASSUME NEW e, e \notin {"none", "late"}
  PROVE  Report(e) \in CodesOf(e)
BY DEF Report, IsDeadlineExceeded, CodesOf

\* The exit code names something that happened, and a breach that the floor
\* watch had stored when the tail asked it is reported as nothing else.
THEOREM CodeTellsCause == Spec => []CodeNamesCause
<1>1. TInv => CodeNamesCause
  <2>1. SUFFICES ASSUME TInv, phase = "over"
                 PROVE  /\ code # 0 => \E k \in met : code \in CodesOf(k)
                        /\ "slow" \in met => code = 8
    BY DEF CodeNamesCause
  <2>2. "slow" \in met => code = 8
    BY <2>1 DEF TInv, Ended, code, Report, IsDeadlineExceeded
  <2>3. CASE result \in met /\ result # "none"
    <3>1. result # "late" => code \in CodesOf(result)
      BY <2>3, CodeOfKind DEF code
    <3>2. result = "late" => code \in CodesOf("late")
      BY DEF code, Report, IsDeadlineExceeded, CodesOf
    <3> QED BY <2>2, <2>3, <3>1, <3>2
  <2>4. CASE result = "none"
    <3>1. code = 0
      BY <2>4 DEF code, Report, IsDeadlineExceeded
    <3> QED BY <2>2, <3>1
  <2>5. CASE result = "internal" /\ "canceled" \in met
    <3>1. code \in CodesOf("canceled")
      BY <2>5 DEF code, Report, IsDeadlineExceeded, CodesOf
    <3> QED BY <2>2, <2>5, <3>1
  <2>6. CASE result = "canceled" /\ "late" \in met
    <3>1. code \in CodesOf("late")
      BY <2>6 DEF code, Report, IsDeadlineExceeded, CodesOf
    <3> QED BY <2>2, <2>6, <3>1
  <2> QED BY <2>1, <2>2, <2>3, <2>4, <2>5, <2>6 DEF TInv, Ended, Named
<1> QED BY <1>1, TInvariant, PTL

\* report and setVerdict agree on every error there is.
LEMMA WordAndCode ==
  ASSUME NEW e
  PROVE  /\ SetVerdict(e) = "ok"      => Report(e) = 0
         /\ SetVerdict(e) = "slow"    => Report(e) = 8
         /\ SetVerdict(e) = "timeout" => Report(e) = 7
         /\ SetVerdict(e) = "stalled" => Report(e) = 5
         /\ SetVerdict(e) = "error"   => Report(e) \in {3, 4, 5, 6}
BY DEF SetVerdict, Report, IsDeadlineExceeded

\* The word in the summary and the exit code tell one story.
THEOREM WordsMatchCodes == Spec => []WordMatchesCode
<1>1. WordMatchesCode
  BY WordAndCode DEF WordMatchesCode, code
<1> QED BY <1>1, PTL

\* A part is asked for again only after trouble that may pass.
THEOREM RefusalsAreFinal == Spec => []RefusalIsFinal
BY TInvariant, PTL DEF TInv, Caused

-----------------------------------------------------------------------------
(* The byte counter *)

\* No attempt begins with bytes in it.
Fresh == \A j \in Parts : st[j] \in {"idle", "pause"} => got[j] = 0

CInv == CountsWhatLanded /\ Fresh /\ counted \in Int /\ extra \in Nat

\* The reads that are in the files can be counted.
LEMMA ReadsFinite == IsFiniteSet(ReadsLanded)
<1>1. IsFiniteSet(1 .. Size)
  BY FS_Interval, TransferAssumption
<1>2. IsFiniteSet(Parts \X (1 .. Size))
  BY <1>1, FS_Product, TransferAssumption
<1>3. ReadsLanded \in SUBSET (Parts \X (1 .. Size))
  BY DEF ReadsLanded
<1> QED BY <1>2, <1>3, FS_Subset

\* One read more.
LEMMA OneRead ==
  ASSUME TypeOK, NEW j \in Parts, got[j] < Size, got' = [got EXCEPT ![j] = @ + 1]
  PROVE  Cardinality(ReadsLanded') = Cardinality(ReadsLanded) + 1
<1> DEFINE new == <<j, got[j] + 1>>
<1>1. got \in [Parts -> 0 .. Size] /\ Size \in Nat
  BY TransferAssumption DEF TypeOK
<1>2. got[j] + 1 \in 1 .. Size /\ got[j] \in Nat
  BY <1>1
<1>3. ReadsLanded' = ReadsLanded \cup {new}
  <2>1. ASSUME NEW i \in Parts, NEW n \in 1 .. Size
        PROVE  n <= got'[i] <=> n <= got[i] \/ (i = j /\ n = got[j] + 1)
    BY <1>1, <1>2
  <2>2. \A r \in Parts \X (1 .. Size) : r = <<r[1], r[2]>> /\ r[1] \in Parts /\ r[2] \in 1 .. Size
    OBVIOUS
  <2>3. ReadsLanded' \subseteq ReadsLanded \cup {new}
    BY <2>1, <2>2 DEF ReadsLanded
  <2>4. new \in Parts \X (1 .. Size) /\ new[1] = j /\ new[2] = got[j] + 1
    BY <1>2
  <2>5. ReadsLanded \cup {new} \subseteq ReadsLanded'
    BY <1>2, <2>1, <2>2, <2>4 DEF ReadsLanded
  <2> QED BY <2>3, <2>5
<1>4. new \notin ReadsLanded
  BY <1>2 DEF ReadsLanded
<1> QED BY <1>3, <1>4, ReadsFinite, FS_AddElement

\* An attempt that is over takes all its reads with it.
LEMMA AllReadsOff ==
  ASSUME TypeOK, NEW j \in Parts, got' = [got EXCEPT ![j] = 0]
  PROVE  Cardinality(ReadsLanded') = Cardinality(ReadsLanded) - got[j]
<1> DEFINE off == {j} \X (1 .. got[j])
<1>1. got \in [Parts -> 0 .. Size] /\ Size \in Nat /\ got[j] \in Nat /\ got[j] <= Size
  BY TransferAssumption DEF TypeOK
<1>2. IsFiniteSet(1 .. got[j]) /\ Cardinality(1 .. got[j]) = got[j]
  BY <1>1, FS_Interval
<1>3. IsFiniteSet({j}) /\ Cardinality({j}) = 1
  BY FS_Singleton
<1>4. Cardinality(off) = got[j]
  BY <1>1, <1>2, <1>3, FS_Product
<1>5. \A r \in Parts \X (1 .. Size) : r = <<r[1], r[2]>> /\ r[1] \in Parts /\ r[2] \in 1 .. Size
  OBVIOUS
<1>6. ReadsLanded' = ReadsLanded \ off
  <2>1. ASSUME NEW i \in Parts, NEW n \in 1 .. Size
        PROVE  n <= got'[i] <=> n <= got[i] /\ ~(<<i, n>> \in off)
    BY <1>1
  <2> HIDE DEF off
  <2> QED BY <1>5, <2>1 DEF ReadsLanded
<1>7. ReadsLanded \cap off = off
  BY <1>1 DEF ReadsLanded
<1> HIDE DEF off
<1>8. Cardinality(ReadsLanded \ off) = Cardinality(ReadsLanded) - Cardinality(ReadsLanded \cap off)
  BY ReadsFinite, FS_Difference
<1> QED BY <1>4, <1>6, <1>7, <1>8

\* A step reads, ends an attempt, or leaves the counter alone.
Counts ==
  \/ UNCHANGED <<got, counted, extra>>
  \/ \E j \in Parts : got[j] < Size /\ got' = [got EXCEPT ![j] = @ + 1] /\ counted' = counted + 1 /\ extra' = extra
  \/ \E j \in Parts : got' = [got EXCEPT ![j] = 0] /\ counted' - extra' = counted - extra - got[j]
                     /\ counted' \in Int /\ extra' \in Nat

LEMMA CNext ==
  ASSUME TInv, CInv, [Next]_vars
  PROVE  CInv'
<1> USE DEF given, part, meter, Goes, Meets
<1>1. /\ got \in [Parts -> 0 .. Size] /\ counted \in Int /\ extra \in Nat /\ Size \in Nat
      /\ st \in [Requesters -> {"idle", "call", "backoff", "body", "erred", "pause", "landed", "failed", "dropped"}]
      /\ "main" \notin Parts /\ Requesters = Parts \cup {"main"} /\ Fresh
  BY TransferAssumption DEF TInv, TypeOK, CInv, Requesters
<1>2. Counts /\ Fresh' /\ op' = op
  <2>1. CASE UNCHANGED vars \/ Over
    BY <1>1, <2>1 DEF vars, Over, Counts, Fresh
  <2>2. ASSUME NEW r \in Requesters, NEW e, DoReturns(r, e), st[r] # "idle", UNCHANGED <<given, meter>> PROVE Counts /\ Fresh' /\ op' = op
    <3>1. CASE r = "main"
      <4>1. phase \in {"head", "list", "verify"}
        BY <2>2, <3>1 DEF TInv, Placed
      <4>2. UNCHANGED <<got, counted, extra, op>> /\ \A j \in Parts : st'[j] = st[j]
        BY <1>1, <2>2, <3>1, <4>1 DEF DoReturns, MainFails, MainAsks, MainEnds, Starts
      <4> QED BY <4>2, <1>1 DEF Counts, Fresh
    <3>2. CASE r # "main"
      BY <1>1, <2>2, <3>2 DEF DoReturns, Counts, Fresh
    <3> QED BY <3>1, <3>2
  <2>3. ASSUME NEW r \in Requesters, NEW e, TriesAgain(r, e), st[r] # "idle", UNCHANGED <<given, meter>> PROVE Counts /\ Fresh' /\ op' = op
    <3>1. CASE DoReturns(r, e)
      BY <2>2, <2>3, <3>1
    <3>2. CASE ~DoReturns(r, e)
      BY <1>1, <2>3, <3>2 DEF TriesAgain, Counts, Fresh
    <3> QED BY <3>1, <3>2
  <2>4. ASSUME NEW r \in Requesters, NEW e, Fails(r, e) PROVE Counts /\ Fresh' /\ op' = op
    BY <2>2, <2>3, <2>4 DEF Fails
  <2>5. ASSUME NEW r \in Requesters, Interrupted(r) \/ BackoffOver(r) PROVE Counts /\ Fresh' /\ op' = op
    <3>1. CASE Interrupted(r)
      BY <2>2, <3>1 DEF Interrupted
    <3>2. CASE BackoffOver(r)
      BY <1>1, <3>2 DEF BackoffOver, Counts, Fresh
    <3> QED BY <2>5, <3>1, <3>2
  <2>6. CASE HeadAnswers \/ ListAnswers \/ NothingListed \/ NotPrepared \/ PoolOver \/ FloorAsked \/ PullTail \/ FilesOver \/ PushTail
             \/ \E e \in {"none", "mismatch", "unsigned", "disk"} : Verified(e)
    BY <1>1, <2>6 DEF HeadAnswers, ListAnswers, NothingListed, NotPrepared, PoolOver, FloorAsked, PullTail, FilesOver, PushTail, Verified,
                      MainAsks, MainEnds, Starts, Counts, Fresh
  <2>7. CASE ListBreaksOff
    BY <1>1, <2>3, <2>7 DEF ListBreaksOff
  <2>8. CASE CeilingStrikes \/ FloorBreached \/ Signal \/ \E j \in Parts : StallGuardFires(j)
    BY <1>1, <2>8 DEF CeilingStrikes, FloorBreached, Signal, StallGuardFires, Counts, Fresh
  <2>9. ASSUME NEW j \in Parts, Streams(j) \/ Uploaded(j) \/ Upload(j) \/ Lands(j) \/ CopyCut(j)
               \/ \E e \in {"net", "disk"} : CopyFails(j, e)
        PROVE  Counts /\ Fresh' /\ op' = op
    BY <1>1, <2>9 DEF Streams, Uploaded, Upload, Lands, CopyCut, CopyFails, Counts, Fresh
  <2>10. ASSUME NEW j \in Parts, PauseCut(j) \/ UploadCut(j) \/ \E e \in ErrorReplies \cup {"disk"} : UploadFails(j, e)
         PROVE  Counts /\ Fresh' /\ op' = op
    BY <1>1, <2>10 DEF PauseCut, UploadCut, UploadFails, GivesUp, Counts, Fresh
  <2>11. ASSUME NEW j \in Parts, Take(j) \/ PauseOver(j) PROVE Counts /\ Fresh' /\ op' = op
    <3>1. CASE Attempt(j) /\ UNCHANGED <<given, meter>>
      <4>1. got[j] = 0
        BY <1>1, <2>11 DEF Take, PauseOver, Fresh
      <4>2. got' = got
        BY <1>1, <3>1, <4>1 DEF Attempt
      <4> QED BY <1>1, <3>1, <4>2 DEF Attempt, Counts, Fresh
    <3>2. CASE ~Attempt(j)
      BY <1>1, <2>11, <3>2 DEF Take, PauseOver, Counts, Fresh
    <3> QED BY <2>11, <3>1, <3>2 DEF Take, PauseOver
  <2>12. ASSUME NEW j \in Parts, Reads(j) PROVE Counts /\ Fresh' /\ op' = op
    BY <1>1, <2>12 DEF Reads, Counts, Fresh
  <2>13. ASSUME NEW j \in Parts, Judge(j) \/ ComesUpShort(j) PROVE Counts /\ Fresh' /\ op' = op
    <3>1. got' = [got EXCEPT ![j] = 0] /\ op' = op /\ got[j] \in Nat
      BY <1>1, <2>13 DEF Judge, ComesUpShort, AttemptOver
    <3>2. counted' - extra' = counted - extra - got[j] /\ counted' \in Int /\ extra' \in Nat
      BY <1>1, <2>13, <3>1 DEF Judge, ComesUpShort
    <3>3. \A i \in Parts : i # j => st'[i] = st[i]
      BY <1>1, <2>13 DEF Judge, ComesUpShort, GivesUp, AnotherAttempt
    <3>4. Fresh'
      BY <1>1, <3>1, <3>3 DEF Fresh
    <3> QED BY <3>1, <3>2, <3>4 DEF Counts
  <2> QED BY <2>1, <2>4, <2>5, <2>6, <2>7, <2>8, <2>9, <2>10, <2>11, <2>12, <2>13
       DEF Next, MainStep, PartStep, Answers, Requesters
<1> DEFINE c == Cardinality(ReadsLanded)
<1>3. c \in Nat
  BY ReadsFinite, FS_CardinalityType
<1>4. TypeOK
  BY DEF TInv
<1>5. CASE UNCHANGED <<got, counted, extra>>
  BY <1>1, <1>2, <1>5 DEF CInv, CountsWhatLanded, ReadsLanded
<1>6. ASSUME NEW j \in Parts, got[j] < Size, got' = [got EXCEPT ![j] = @ + 1], counted' = counted + 1, extra' = extra
      PROVE  CInv'
  <2>1. Cardinality(ReadsLanded') = c + 1
    BY <1>4, <1>6, OneRead
  <2> HIDE DEF c
  <2> QED BY <1>1, <1>2, <1>3, <1>6, <2>1 DEF CInv, CountsWhatLanded, c
<1>7. ASSUME NEW j \in Parts, got' = [got EXCEPT ![j] = 0], counted' - extra' = counted - extra - got[j],
             counted' \in Int, extra' \in Nat
      PROVE  CInv'
  <2>1. Cardinality(ReadsLanded') = c - got[j]
    BY <1>4, <1>7, AllReadsOff
  <2> HIDE DEF c
  <2>2. counted = c + extra => counted' = (c - got[j]) + extra'
    <3>1. got[j] \in Int
      BY <1>1
    <3> QED BY <1>1, <1>3, <1>7, <3>1
  <2> QED BY <1>2, <1>7, <2>1, <2>2 DEF CInv, CountsWhatLanded, c
<1> QED BY <1>2, <1>5, <1>6, <1>7 DEF Counts

LEMMA CInit == Init => CInv
<1> SUFFICES ASSUME Init PROVE CInv
  OBVIOUS
<1>1. ReadsLanded = {}
  <2>1. \A r \in Parts \X (1 .. Size) : got[r[1]] = 0 /\ ~(r[2] <= 0)
    BY TransferAssumption DEF Init
  <2> QED BY <2>1 DEF ReadsLanded
<1>2. Cardinality(ReadsLanded) = 0
  BY <1>1, FS_EmptySet
<1> QED BY <1>2 DEF Init, CInv, CountsWhatLanded, Fresh

\* The counter that the floor watch samples (guard.go:186-196) is, at any moment
\* of a pull, the reads that are in the files and those of attempts that came up
\* short: what a broken attempt counted is taken back to the last read.
THEOREM CounterIsHonest == Spec => []CountsWhatLanded
<1>1. TInv /\ CInv /\ [Next]_vars => CInv'
  BY CNext
<1>2. CInv => CountsWhatLanded
  BY DEF CInv
<1> QED BY <1>1, <1>2, CInit, TInvariant, PTL DEF Spec

\* So the counter is never behind what is in the files: what is taken back is what
\* the attempt had counted and no more, and no flow is condemned for it.
THEOREM CounterIsNeverBehind == Spec => []NeverUndercounted
<1>1. TInv /\ CInv /\ [Next]_vars => CInv'
  BY CNext
<1>2. CInv => NeverUndercounted
  BY ReadsFinite, FS_CardinalityType DEF CInv, CountsWhatLanded, NeverUndercounted
<1> QED BY <1>1, <1>2, CInit, TInvariant, PTL DEF Spec
=============================================================================
