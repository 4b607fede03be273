------------------------------ MODULE Transfer ------------------------------
(***************************************************************************)
(* One transfer from its first request to its exit code: the requests and  *)
(* their retries (s3.go), the parts of a pull and their retries, the stall *)
(* guard of each attempt (guard.go), the ceiling and the floor that end    *)
(* the context, and the tails of runPull and runPush that choose which of  *)
(* several errors is the one to report.                                    *)
(***************************************************************************)
EXTENDS Integers, FiniteSets, Outcome

CONSTANTS
  Parts,        \* the parts a pull has to fetch, or the files a push has to
                \* send (only a directory is listed first)
  Size,         \* reads in a part
  maxTries,     \* tries of a request
  partTries,    \* attempts at a part
  Armings,      \* the sets of guards to run with, of "stall" and "ceiling"
  MaxTroubles   \* bound: how many kinds of trouble the server, the network
                \* and the disk make in one transfer

ASSUME TransferAssumption ==
  /\ IsFiniteSet(Parts) /\ "main" \notin Parts
  /\ Size \in Nat \ {0} /\ maxTries \in Nat \ {0} /\ partTries \in Nat \ {0}
  /\ Armings \subseteq SUBSET {"stall", "ceiling"} /\ MaxTroubles \in Nat

Requesters == Parts \cup {"main"}    \* "main" asks for HEAD and LIST

VARIABLES
  op,       \* "pull" or "push"
  armed,    \* which of "stall" and "ceiling" are on
  phase,    \* "head", "list", "pool" or "files", "tail", "told" (the watch has
            \* been asked), "verify", "over"
  st,       \* requester -> "idle"; "call", "backoff" (do); "body", "erred",
            \* "pause" (fetchPart); "landed", "failed", "dropped"
  try,      \* requester -> tries of its request that have failed
  attempt,  \* part -> attempts that have failed
  got,      \* part -> reads of this attempt that are in the file
  guard,    \* part -> "off", "armed" or "fired"
  err,      \* part -> the error of an attempt that has not been judged yet
  counted,  \* stats.done, in reads
  extra,    \* of these, the reads of attempts that came up short
  met,      \* the kinds of trouble met so far
  ctx,      \* the transfer's context: "live", "canceled" or "deadline"
  first,    \* the first error of the pool, or firstErr of a push
  result    \* what runPull or runPush returns

given  == <<op, armed>>
part   == <<attempt, got, guard, err>>
meter  == <<counted, extra>>
vars   == <<given, phase, st, try, part, meter, met, ctx, first, result>>

Init ==
  /\ op \in {"pull", "push"} /\ armed \in Armings
  /\ phase \in IF op = "pull" THEN {"head"} ELSE {"list", "files"}
  /\ st = [r \in Requesters |-> IF r = "main" /\ phase # "files" THEN "call" ELSE "idle"]
  /\ try = [r \in Requesters |-> 0]
  /\ attempt = [j \in Parts |-> 0] /\ got = [j \in Parts |-> 0]
  /\ guard = [j \in Parts |-> "off"] /\ err = [j \in Parts |-> "none"]
  /\ counted = 0 /\ extra = 0
  /\ met = {} /\ ctx = "live" /\ first = "none" /\ result = "none"

\* Trouble of kind k happens.  What the guards and the signal do is not bounded.
Meets(k) ==
  /\ met' = met \cup {k}
  /\ Cardinality(met' \ {"stall", "slow", "late", "canceled", "deadline"}) <= MaxTroubles

Goes(r, to) == st' = [st EXCEPT ![r] = to]

-----------------------------------------------------------------------------
(* do (s3.go): one request, its tries and what it returns *)

\* Mutation: HEAD runs under the context of the signals alone.
DeadPartsOnly(r) == r \in Parts /\ (ctx # "live" \/ guard[r] = "fired")

\* A part's request runs under a context of its own, derived from the
\* transfer's, that the stall guard cancels.
Dead(r) == ctx # "live" \/ (r \in Parts /\ guard[r] = "fired")
CtxErr(r) == IF ctx = "live" THEN "canceled" ELSE ctx

\* main goes on with HEAD or LIST, or has its result.
MainAsks(to) ==
  /\ phase' = to /\ Goes("main", "call") /\ try' = [try EXCEPT !["main"] = 0]
  /\ UNCHANGED <<part, first, result>>

MainEnds(e) ==
  /\ phase' = "over" /\ result' = e /\ Goes("main", "idle")
  /\ UNCHANGED <<try, part, first>>

Starts(to) ==
  /\ phase' = to /\ Goes("main", "idle")
  /\ UNCHANGED <<try, part, first, result>>

\* HEAD: 401, 403, 404 and errors without a status leave the answer to LIST.
\* LIST: an error ends a pull; a push goes on as if the prefix were empty.
\* The last HEAD: an error counts under --verify, and else is dropped.
MainFails(e) ==
  CASE phase = "head" ->
         IF e \in {"bad", "server"} THEN MainEnds(e) ELSE MainAsks("list")
    [] phase = "list" ->
         IF op = "pull" THEN MainEnds(e) ELSE Starts("files")
    [] phase = "verify" -> MainEnds(e) \/ MainEnds("none")

DoReturns(r, e) ==
  IF r = "main" THEN MainFails(e)
  ELSE /\ Goes(r, "erred") /\ err' = [err EXCEPT ![r] = e]
       /\ UNCHANGED <<phase, try, attempt, got, guard, first, result>>

\* Mutation: one try too many.
TriesOnceMore(r, e) ==
  IF try[r] < maxTries
  THEN /\ Goes(r, "backoff") /\ try' = [try EXCEPT ![r] = @ + 1]
       /\ UNCHANGED <<phase, part, first, result>>
  ELSE DoReturns(r, e)

TriesAgain(r, e) ==
  IF try[r] + 1 < maxTries
  THEN /\ Goes(r, "backoff") /\ try' = [try EXCEPT ![r] = @ + 1]
       /\ UNCHANGED <<phase, part, first, result>>
  ELSE DoReturns(r, e)

NoStatus == {"net", "dial"}
ErrorReplies == Terminal \cup NoStatus \cup {"server"}

\* The server, or the network, answers with an error.  (A push's uploads are
\* one step each.)
Fails(r, e) ==
  /\ st[r] = "call" /\ (op = "pull" \/ r = "main") /\ Meets(e)
  /\ IF e \in NoStatus /\ Dead(r) THEN DoReturns(r, CtxErr(r))
     ELSE IF e \in Terminal THEN DoReturns(r, e)
     ELSE TriesAgain(r, e)
  /\ UNCHANGED <<given, meter, ctx>>

\* The context ends the request, or the wait before the next try.
Interrupted(r) ==
  /\ st[r] \in {"call", "backoff"} /\ Dead(r)
  /\ op = "pull" \/ r = "main"
  /\ DoReturns(r, CtxErr(r))
  /\ UNCHANGED <<given, meter, met, ctx>>

\* The select may prefer the timer to a dead context.
BackoffOver(r) ==
  /\ st[r] = "backoff" /\ Goes(r, "call")
  /\ UNCHANGED <<given, phase, try, part, meter, met, ctx, first, result>>

\* A body that breaks off is read again, whatever the context.
ListBreaksOff ==
  /\ phase = "list" /\ st["main"] = "call" /\ Meets("net")
  /\ TriesAgain("main", "net")
  /\ UNCHANGED <<given, meter, ctx>>

HeadAnswers ==
  /\ phase = "head" /\ st["main"] = "call"
  /\ Starts("pool")
  /\ UNCHANGED <<given, meter, met, ctx>>

ListAnswers ==
  /\ phase = "list" /\ st["main"] = "call"
  /\ Starts(IF op = "pull" THEN "pool" ELSE "files")
  /\ UNCHANGED <<given, meter, met, ctx>>

NothingListed ==
  /\ phase = "list" /\ st["main"] = "call" /\ op = "pull" /\ Meets("missing")
  /\ MainEnds("missing")
  /\ UNCHANGED <<given, meter, ctx>>

\* Nothing matches the filters, or a partial file cannot be made.
NotPrepared ==
  /\ phase \in {"head", "list"} /\ st["main"] = "call" /\ op = "pull" /\ Meets("disk")
  /\ MainEnds("disk")
  /\ UNCHANGED <<given, meter, ctx>>

-----------------------------------------------------------------------------
(* fetchPart, fetchPartOnce and copyToOffset (pull.go) *)

PoolLive == ctx = "live" /\ first = "none"

\* Mutation: one guard per part, not one per attempt.
AttemptUnguarded(j) ==
  /\ Goes(j, "call") /\ try' = [try EXCEPT ![j] = 0]
  /\ got' = [got EXCEPT ![j] = 0]
  /\ guard' = [guard EXCEPT ![j] = IF "stall" \in armed /\ attempt[j] = 0 THEN "armed" ELSE "off"]

\* The guard is armed before the request.
Attempt(j) ==
  /\ Goes(j, "call") /\ try' = [try EXCEPT ![j] = 0]
  /\ got' = [got EXCEPT ![j] = 0]
  /\ guard' = [guard EXCEPT ![j] = IF "stall" \in armed THEN "armed" ELSE "off"]

Take(j) ==
  /\ phase = "pool" /\ st[j] = "idle"
  /\ IF PoolLive THEN Attempt(j)
     ELSE Goes(j, "dropped") /\ UNCHANGED <<try, got, guard>>
  /\ UNCHANGED <<given, phase, attempt, err, meter, met, ctx, first, result>>

Streams(j) ==
  /\ phase = "pool" /\ st[j] = "call" /\ Goes(j, "body")
  /\ UNCHANGED <<given, phase, try, part, meter, met, ctx, first, result>>

Reads(j) ==
  /\ st[j] = "body" /\ got[j] < Size
  /\ got' = [got EXCEPT ![j] = @ + 1]
  /\ counted' = counted + 1
  /\ UNCHANGED <<given, phase, st, try, attempt, guard, err, extra, met, ctx, first, result>>

\* The read fails, or the write: what was read last is not in the file.
CopyFails(j, e) ==
  /\ st[j] = "body" /\ Meets(e)
  /\ Goes(j, "erred") /\ err' = [err EXCEPT ![j] = e]
  /\ UNCHANGED <<given, phase, try, attempt, got, guard, meter, ctx, first, result>>

CopyCut(j) ==
  /\ st[j] = "body" /\ Dead(j)
  /\ Goes(j, "erred") /\ err' = [err EXCEPT ![j] = CtxErr(j)]
  /\ UNCHANGED <<given, phase, try, attempt, got, guard, meter, met, ctx, first, result>>

\* runPull marks the part.
Lands(j) ==
  /\ st[j] = "body" /\ got[j] = Size
  /\ Goes(j, "landed") /\ guard' = [guard EXCEPT ![j] = "off"]
  /\ UNCHANGED <<given, phase, try, attempt, got, err, meter, met, ctx, first, result>>

\* The error that the pool reports is the one that is first in errCh.
GivesUp(j, e) ==
  /\ Goes(j, "failed")
  /\ first' = IF first = "none" THEN e ELSE first
  /\ UNCHANGED attempt

AnotherAttempt(j, e) ==
  IF attempt[j] + 1 < partTries
  THEN /\ Goes(j, "pause") /\ attempt' = [attempt EXCEPT ![j] = @ + 1]
       /\ UNCHANGED first
  ELSE GivesUp(j, e)

AttemptOver(j) ==
  /\ guard' = [guard EXCEPT ![j] = "off"]
  /\ got' = [got EXCEPT ![j] = 0]

\* No error and too few bytes.  They stay counted.
ComesUpShort(j) ==
  /\ st[j] = "body" /\ got[j] < Size /\ Meets("short")
  /\ AnotherAttempt(j, "short") /\ AttemptOver(j)
  /\ extra' = extra + got[j]
  /\ UNCHANGED <<given, phase, try, err, counted, ctx, result>>

\* classify: any error is a stall once the guard has fired.
Classified(j) == IF guard[j] = "fired" THEN "stall" ELSE err[j]

\* Mutation: every error is worth another attempt.
JudgeAllTransient(j) ==
  /\ st[j] = "erred"
  /\ IF ctx # "live" THEN GivesUp(j, Classified(j)) ELSE AnotherAttempt(j, Classified(j))
  /\ AttemptOver(j) /\ err' = [err EXCEPT ![j] = "none"]
  /\ counted' = counted - got[j]
  /\ UNCHANGED <<given, phase, try, extra, met, ctx, result>>

\* Mutation: the length of the part is uncounted, not what the attempt moved.
JudgeUncountingPart(j) ==
  /\ st[j] = "erred"
  /\ IF ctx # "live" \/ Classified(j) \in Terminal
     THEN GivesUp(j, Classified(j))
     ELSE AnotherAttempt(j, Classified(j))
  /\ AttemptOver(j) /\ err' = [err EXCEPT ![j] = "none"]
  /\ counted' = counted - Size
  /\ UNCHANGED <<given, phase, try, extra, met, ctx, result>>

Judge(j) ==
  /\ st[j] = "erred"
  /\ IF ctx # "live" \/ Classified(j) \in Terminal
     THEN GivesUp(j, Classified(j))
     ELSE AnotherAttempt(j, Classified(j))
  /\ AttemptOver(j) /\ err' = [err EXCEPT ![j] = "none"]
  /\ counted' = counted - got[j]
  /\ UNCHANGED <<given, phase, try, extra, met, ctx, result>>

PauseOver(j) ==
  /\ st[j] = "pause" /\ Attempt(j)
  /\ UNCHANGED <<given, phase, attempt, err, meter, met, ctx, first, result>>

PauseCut(j) ==
  /\ st[j] = "pause" /\ ctx # "live" /\ GivesUp(j, ctx)
  /\ UNCHANGED <<given, phase, try, got, guard, err, meter, met, ctx, result>>

-----------------------------------------------------------------------------
(* the guards and the signal *)

\* No byte came for B2X_STALL_S, also while do waits between two tries.  The
\* timer may win against a read, an error, or the end of the attempt.
StallGuardFires(j) ==
  /\ guard[j] = "armed" /\ st[j] \in {"call", "backoff", "body", "erred"}
  /\ Meets("stall")
  /\ guard' = [guard EXCEPT ![j] = "fired"]
  /\ UNCHANGED <<given, phase, st, try, attempt, got, err, meter, ctx, first, result>>

Guarded == {"pool", "files", "tail", "told", "verify"}

CeilingStrikes ==
  /\ "ceiling" \in armed /\ phase \in Guarded /\ ctx = "live" /\ Meets("deadline")
  /\ ctx' = "deadline"
  /\ UNCHANGED <<given, phase, st, try, part, meter, first, result>>

\* Halting the watch does not wait for it: it may condemn at any time until the
\* end, also when it has been asked, which makes the breach a "late" one.  Its
\* cancel does nothing to a context that is dead.
FloorBreached ==
  /\ phase \in Guarded /\ met \cap {"slow", "late"} = {}
  /\ Meets(IF phase \in {"told", "verify"} THEN "late" ELSE "slow")
  /\ ctx' = IF ctx = "live" THEN "canceled" ELSE ctx
  /\ UNCHANGED <<given, phase, st, try, part, meter, first, result>>

Signal ==
  /\ phase # "over" /\ ctx = "live" /\ Meets("canceled")
  /\ ctx' = "canceled"
  /\ UNCHANGED <<given, phase, st, try, part, meter, first, result>>

-----------------------------------------------------------------------------
(* the tail of runPull *)

\* runParts: an error from a worker, else the deadline's, else nil.
PoolOver ==
  /\ phase = "pool" /\ \A j \in Parts : st[j] \in {"landed", "failed", "dropped"}
  /\ phase' = "tail"
  /\ result' = IF first # "none" THEN first
               ELSE IF ctx = "deadline" THEN "deadline"
               ELSE "none"
  /\ UNCHANGED <<given, st, try, part, meter, met, ctx, first>>

AllLanded == \A j \in Parts : st[j] = "landed"

\* Mutation: the tail does not ask the watch.
FloorUnasked ==
  /\ phase = "tail" /\ phase' = "told"
  /\ UNCHANGED <<given, st, try, part, meter, met, ctx, first, result>>

\* The verdict of the watch comes first, in either tail.
FloorAsked ==
  /\ phase = "tail"
  /\ IF "slow" \in met THEN MainEnds("slow")
     ELSE phase' = "told" /\ UNCHANGED <<st, try, part, first, result>>
  /\ UNCHANGED <<given, meter, met, ctx>>

\* Mutation: nil from runParts is believed.
PullTailTrusting ==
  /\ phase = "told" /\ op = "pull"
  /\ IF result # "none" THEN MainEnds(result) ELSE MainAsks("verify")
  /\ UNCHANGED <<given, meter, met, ctx>>

\* Then the pool's error, then a look at what has landed, and the HEAD of the
\* verification.
PullTail ==
  /\ phase = "told" /\ op = "pull"
  /\ IF result # "none" THEN MainEnds(result)
     ELSE IF ~AllLanded THEN MainEnds("internal")
     ELSE MainAsks("verify")
  /\ UNCHANGED <<given, meter, met, ctx>>

\* The digest is there and right, there and wrong, or not there (an error under
\* --verify); and the rename may fail.
Verified(e) ==
  /\ phase = "verify" /\ st["main"] = "call"
  /\ IF e = "none" THEN UNCHANGED met ELSE Meets(e)
  /\ MainEnds(e)
  /\ UNCHANGED <<given, meter, ctx>>

-----------------------------------------------------------------------------
(* the loop and the tail of runPush *)

Uploading == \E j \in Parts : st[j] = "call"

Upload(j) ==
  /\ phase = "files" /\ st[j] = "idle" /\ ~Uploading /\ ctx = "live"
  /\ Goes(j, "call")
  /\ UNCHANGED <<given, phase, try, part, meter, met, ctx, first, result>>

Uploaded(j) ==
  /\ phase = "files" /\ st[j] = "call" /\ Goes(j, "landed")
  /\ UNCHANGED <<given, phase, try, part, meter, met, ctx, first, result>>

\* One bad file does not stop the others, the end of the context does.
UploadFails(j, e) ==
  /\ phase = "files" /\ st[j] = "call" /\ Meets(e)
  /\ GivesUp(j, e)
  /\ UNCHANGED <<given, phase, try, got, guard, err, meter, ctx, result>>

UploadCut(j) ==
  /\ phase = "files" /\ st[j] = "call" /\ ctx # "live"
  /\ GivesUp(j, ctx)
  /\ UNCHANGED <<given, phase, try, got, guard, err, meter, met, ctx, result>>

FilesOver ==
  /\ phase = "files" /\ ~Uploading
  /\ ctx # "live" \/ \A j \in Parts : st[j] # "idle"
  /\ phase' = "tail"
  /\ UNCHANGED <<given, st, try, part, meter, met, ctx, first, result>>

\* A context that ends after the last file counts as well.
PushTail ==
  /\ phase = "told" /\ op = "push"
  /\ MainEnds(IF ctx # "live" THEN ctx ELSE first)
  /\ UNCHANGED <<given, meter, met, ctx>>

-----------------------------------------------------------------------------

Over == phase = "over" /\ UNCHANGED vars

\* What the process does by itself.
PartStep(j) ==
  \/ Take(j) \/ Judge(j) \/ PauseOver(j) \/ PauseCut(j) \/ Lands(j)
  \/ BackoffOver(j) \/ Interrupted(j)
  \/ CopyCut(j) \/ Upload(j) \/ UploadCut(j)

MainStep ==
  \/ BackoffOver("main") \/ Interrupted("main")
  \/ PoolOver \/ FilesOver \/ FloorAsked \/ PullTail \/ PushTail

\* What depends on the server, the network or the disk.
Answers ==
  \/ HeadAnswers \/ ListAnswers \/ NothingListed \/ NotPrepared \/ ListBreaksOff
  \/ \E r \in Requesters, e \in ErrorReplies : Fails(r, e)
  \/ \E j \in Parts : Streams(j) \/ Reads(j) \/ ComesUpShort(j) \/ Uploaded(j)
  \/ \E j \in Parts, e \in {"net", "disk"} : CopyFails(j, e)
  \/ \E j \in Parts, e \in ErrorReplies \cup {"disk"} : UploadFails(j, e)
  \/ \E e \in {"none", "mismatch", "unsigned", "disk"} : Verified(e)

Next ==
  \/ MainStep \/ \E j \in Parts : PartStep(j)
  \/ Answers
  \/ CeilingStrikes \/ FloorBreached \/ Signal
  \/ \E j \in Parts : StallGuardFires(j)
  \/ Over

\* Goroutines are scheduled and timers expire; a server may stay silent for
\* ever.
Fairness ==
  /\ WF_vars(MainStep) /\ WF_vars(CeilingStrikes)
  /\ \A j \in Parts : WF_vars(PartStep(j)) /\ WF_vars(StallGuardFires(j))

Spec == Init /\ [][Next]_vars /\ Fairness

-----------------------------------------------------------------------------
(* Properties *)

Kinds == Terminal \cup {"none", "server", "net", "dial", "disk", "short", "stall", "slow",
                        "late", "mismatch", "unsigned", "canceled", "deadline", "internal"}

\* Every variable holds a value the code can put there; no request has more
\* tries and no part more attempts than it may.
TypeOK ==
  /\ op \in {"pull", "push"} /\ armed \in Armings
  /\ phase \in {"head", "list", "pool", "files", "tail", "told", "verify", "over"}
  /\ st \in [Requesters -> {"idle", "call", "backoff", "body", "erred", "pause",
                            "landed", "failed", "dropped"}]
  /\ try \in [Requesters -> 0 .. maxTries - 1]
  /\ attempt \in [Parts -> 0 .. partTries - 1]
  /\ got \in [Parts -> 0 .. Size]
  /\ guard \in [Parts -> {"off", "armed", "fired"}]
  /\ err \in [Parts -> Kinds]
  /\ met \subseteq Kinds
  /\ ctx \in {"live", "canceled", "deadline"}
  /\ {first, result} \subseteq Kinds

code == Report(result)

\* A pull or a push that ends in 0 has moved everything it set out to move:
\* a part dropped by a pool that a signal stopped, or a file left out when the
\* context ended, is never taken for done (pull.go:271-273, push.go:217).
ExitZeroMeansAll == phase = "over" /\ code = 0 => AllLanded

\* The codes that report gives to a kind of trouble.  The documentation has others
\* for three of them: "late" would be 8 (guard.go:178-181), "unsigned" 6
\* (docs/USAGE.md:123-124), and "dial", a connection not made within the dialer's
\* 15 s, never 7 (docs/USAGE.md:282).
CodesOf(k) ==
  CASE k = "refused"  -> {3}
    [] k = "missing"  -> {4}
    [] k = "mismatch" -> {6}
    [] k = "deadline" -> {7}
    [] k = "slow"     -> {8}
    [] k = "late"     -> {5}
    [] k = "dial"     -> {5, 7}
    [] OTHER          -> {5}

\* The exit code names something that happened, and a breach that the watch had
\* stored when it was asked is told as one: whatever context died first, whatever
\* error the pool saw first and wherever the two met, 3 is a refusal, 7 a
\* deadline or an attempt to connect that timed out, 8 a slow host
\* (main.go:272-323, pull.go:253-258, push.go:211-217).
CodeNamesCause ==
  phase = "over" =>
    /\ code # 0 => \E k \in met : code \in CodesOf(k)
    /\ "slow" \in met => code = 8

\* "mirroring the exit codes" (docs/USAGE.md:267-268), "keep the two in step"
\* (stats.go:71): the word in the summary and the exit code tell one story.
WordMatchesCode ==
  phase = "over" =>
    \A w \in {<<"ok", {0}>>, <<"slow", {8}>>, <<"timeout", {7}>>,
             <<"stalled", {5}>>, <<"error", {3, 4, 5, 6}>>} :
      SetVerdict(result) = w[1] => code \in w[2]

\* "a verdict that will not change" is not retried (pull.go:331-335): a part is
\* asked for again only after trouble that may pass, which a refusal becomes
\* when the stall guard fires before it is judged.
RefusalIsFinal ==
  (\E j \in Parts : attempt[j] > 0) => \E k \in met : k \notin Terminal

\* The reads of the attempts so far that are in the files.
ReadsLanded == {r \in Parts \X (1 .. Size) : r[2] <= got[r[1]]}

\* A healthy flow never looks slow: however often attempts break, are judged and
\* uncounted, the counter that the floor watch samples is not behind what the
\* attempts in hand have put into the files (pull.go:396-402).
NeverUndercounted == op = "pull" => counted >= Cardinality(ReadsLanded)

\* By how much it is ahead: by the reads of attempts that came up short, which are
\* never taken back (pull.go:359-366), though docs/USAGE.md:244-245 says that
\* "bytes from a failed part attempt are *uncounted*, so a flapping flow cannot
\* look fast".
CountsWhatLanded == op = "pull" => counted = Cardinality(ReadsLanded) + extra

\* "A silent flow is bounded rather than parked forever" (pull.go:410): with
\* the stall guard or the ceiling armed the pool drains, whatever server stays
\* silent at whatever point of an attempt.
PoolEnds == phase = "pool" /\ armed # {} ~> phase # "pool"

\* "bound its own runtime so a slow or flaky host surfaces as a NAMED,
\* distinguishable failure instead of a silent hang" (guard.go:13-16): with a
\* ceiling everything behind it ends, the verification's HEAD and the uploads of
\* a push included, which no stall guard watches.  HEAD and LIST run before any
\* guard, and a server that stays silent there holds the run for ever.
CeilingEndsAll == phase \in Guarded /\ "ceiling" \in armed ~> phase = "over"
=============================================================================
