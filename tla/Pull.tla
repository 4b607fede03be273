-------------------------------- MODULE Pull --------------------------------
(***************************************************************************)
(* b2x pull (pull.go, state.go): a sequence of runs of the command over    *)
(* one bucket and one disk.  A run lists the objects, decides for each     *)
(* destination whether to skip, resume or transfer it, preallocates a      *)
(* partial file per destination, drains the parts through a pool of        *)
(* workers, records the finished parts in state.json and renames the       *)
(* partial files that are whole.  A run can be killed between any two      *)
(* steps; what survives is the bucket, the files and state.json.           *)
(*                                                                         *)
(* A name is one (object, destination) pair a command line can select.     *)
(* Bytes are measured in parts (PartPlan models the split): a file is a    *)
(* function from part indices to the version each part's bytes come from,  *)
(* or Junk where they come from no version (never written, or torn).       *)
(* A version stands for the content, the ETag and the size of an object.   *)
(***************************************************************************)
EXTENDS Integers, FiniteSets

CONSTANTS
  Keys, Rels, Paths,     \* bucket keys, state.json entries, destination paths
  Names,                 \* what a command line can select
  KeyOf, RelOf, DstOf,   \* the key, the state entry and the path of a name
  Requests,              \* the command lines: each a set of names
  Versions, PartsOf,     \* contents, and how many parts each is split into
  StockOf,               \* the versions that may be stored under a key
  Foreign,               \* the versions another tool may have left on the disk
  Signed,                \* the versions b2x uploaded, which carry b2x-sha256
  ForceVerify,           \* --verify
  SavesMayFail,          \* whether a save of state.json can be lost
  FinalsRemoved,         \* whether whole files are ever removed by hand
  Workers,               \* size of the worker pool
  Absent, NoFile, NoEntry, Junk,
  MaxRuns, MaxEvents     \* bounds: runs of the command, and events around them

Parts(v) == 0 .. PartsOf[v] - 1

\* The bytes of a whole object of version v.
Whole(v) == [i \in Parts(v) |-> v]

Empty == [i \in {} |-> Junk]

File == {Empty} \cup UNION {[Parts(v) -> Versions \cup {Junk}] : v \in Versions}

\* fileState: size and etag are those of a version.
Entry == [etag: Versions, nparts: Nat, done: SUBSET Nat, complete: BOOLEAN]

Fresh(v)   == [etag |-> v, nparts |-> PartsOf[v], done |-> {}, complete |-> FALSE]
Adopted(v) == [etag |-> v, nparts |-> 0, done |-> {}, complete |-> TRUE]

ASSUME ConstantsAssumption ==
  /\ KeyOf \in [Names -> Keys]
  /\ RelOf \in [Names -> Rels]
  /\ DstOf \in [Names -> Paths]
  /\ Requests \subseteq SUBSET Names
  /\ PartsOf \in [Versions -> Nat]
  /\ StockOf \in [Keys -> SUBSET Versions]
  /\ Signed \subseteq Versions
  /\ Foreign \subseteq Versions
  /\ ForceVerify \in BOOLEAN
  /\ SavesMayFail \in BOOLEAN
  /\ FinalsRemoved \in BOOLEAN
  /\ Workers \in Nat \ {0}
  /\ {MaxRuns, MaxEvents} \subseteq Nat

ASSUME SentinelsAssumption ==
  /\ Absent \notin Versions
  /\ Junk \notin Versions
  /\ NoFile \notin File
  /\ NoEntry \notin Entry

\* Within one command line no two names share a key, an entry or a path.
ASSUME RequestsAssumption ==
  \A r \in Requests : \A m, n \in r :
    (KeyOf[m] = KeyOf[n] \/ RelOf[m] = RelOf[n] \/ DstOf[m] = DstOf[n]) => m = n

VARIABLES
  \* the bucket
  remote,    \* key -> version stored there, or Absent
  seen,      \* key -> the versions ever stored there (history)
  \* the disk
  partial,   \* path -> the .b2x-partial file beside it, or NoFile
  final,     \* path -> the file at the path itself, or NoFile
  durable,   \* rel -> its entry in state.json, or NoEntry
  \* the process
  pc,        \* "idle", "queued", "drain", "promote"
  db,        \* stateDB.Files
  ver,       \* name -> the version listed for it in this run, or Absent
  verdict,   \* name -> "none", "complete", "resume", "transfer"
  held,      \* key -> the versions stored there since the run began (history)
  asked,     \* the target being promoted, once its HEAD is over, with the version
             \* whose digest came back, or Absent when nothing is to be compared
  todo,      \* names left in the loop over the targets
  queue,     \* jobs no worker has taken
  air,       \* jobs whose range is being read
  landed,    \* jobs whose bytes are in the partial file, not yet marked
  done,      \* rels whose last part was marked in this run
  werr,      \* a worker reported an error (errCh)
  ctx,       \* "live", or dead by a "guard" (ceiling, floor watch) or a "signal"
  runs,      \* commands issued so far (bounded by MaxRuns)
  events     \* stores, wipes and broken attempts so far (bounded by MaxEvents)

bucket  == <<remote, seen>>
disk    == <<partial, final, durable>>
planned == <<ver, verdict, held, asked>>
pool    == <<queue, air, landed, done, werr, ctx>>
bounds  == <<runs, events>>
vars    == <<bucket, disk, pc, db, planned, todo, pool, bounds>>

Happens == events < MaxEvents /\ events' = events + 1 /\ UNCHANGED runs
Issued  == runs < MaxRuns /\ runs' = runs + 1 /\ UNCHANGED events

NoTargets == [n \in Names |-> Absent]
NoVerdict == [n \in Names |-> "none"]
NoState   == [l \in Rels |-> NoEntry]
NoneHeld  == [k \in Keys |-> {}]

NoProcess ==
  /\ pc = "idle" /\ db = NoState
  /\ ver = NoTargets /\ verdict = NoVerdict /\ todo = {}
  /\ held = NoneHeld /\ asked = {}
  /\ queue = {} /\ air = {} /\ landed = {} /\ done = {}
  /\ werr = FALSE /\ ctx = "live"

Init ==
  /\ remote \in [Keys -> Versions] /\ \A k \in Keys : remote[k] \in StockOf[k]
  /\ seen = [k \in Keys |-> {remote[k]}]
  /\ partial = [p \in Paths |-> NoFile]
  \* nothing, or a file some other tool wrote whole (the upgrade path)
  /\ final \in [Paths -> {NoFile} \cup {Whole(v) : v \in Foreign}]
  /\ durable = NoState
  /\ NoProcess
  /\ runs = 0 /\ events = 0

-----------------------------------------------------------------------------
(* state.go: entries, the skip decision, saving *)

\* Mutation: the bound of the loop is off by one.
MissingPartsOffByOne(e) == IF e.complete THEN {} ELSE (0 .. e.nparts) \ e.done

MissingParts(e) == IF e.complete THEN {} ELSE (0 .. e.nparts - 1) \ e.done

\* Mutation: > for >=, so the last part completes nothing.
MarkedLate(e, i) ==
  IF i \in e.done THEN e
  ELSE IF e.nparts > 0 /\ Cardinality(e.done \cup {i}) > e.nparts
       THEN [e EXCEPT !.done = {}, !.complete = TRUE]
       ELSE [e EXCEPT !.done = @ \cup {i}]

\* The entry after markPart.
Marked(e, i) ==
  IF i \in e.done THEN e
  ELSE IF e.nparts > 0 /\ Cardinality(e.done \cup {i}) >= e.nparts
       THEN [e EXCEPT !.done = {}, !.complete = TRUE]
       ELSE [e EXCEPT !.done = @ \cup {i}]

RightSize(f, v) == f # NoFile /\ DOMAIN f = Parts(v)

\* Mutation: the ETag is not compared.
ResumableWhateverETag(n, v) ==
  LET e == durable[RelOf[n]]
  IN  /\ e # NoEntry
      /\ ~e.complete /\ e.nparts > 0
      /\ RightSize(partial[DstOf[n]], v)
      /\ MissingParts(e) # {}

Resumable(n, v) ==
  LET e == durable[RelOf[n]]
  IN  /\ e # NoEntry
      /\ ~e.complete /\ e.etag = v /\ e.nparts > 0
      /\ RightSize(partial[DstOf[n]], v)
      /\ MissingParts(e) # {}

\* Mutation: the state file is believed without a look at the disk.
DecideSkipByState(n, v) ==
  LET e == durable[RelOf[n]]
  IN  IF RightSize(final[DstOf[n]], v) \/ (e # NoEntry /\ e.etag = v /\ e.complete)
      THEN "complete"
      ELSE IF Resumable(n, v) THEN "resume" ELSE "transfer"

\* Mutation: any file at the destination will do.
DecideSkipAnySize(n, v) ==
  IF final[DstOf[n]] # NoFile THEN "complete"
  ELSE IF Resumable(n, v) THEN "resume"
  ELSE "transfer"

DecideSkip(n, v) ==
  IF RightSize(final[DstOf[n]], v) THEN "complete"
  ELSE IF Resumable(n, v) THEN "resume"
  ELSE "transfer"

\* Nobody looks at what save returns, nor waits for the checkpoint's: a save may
\* be lost (or overtaken by an older one, as if it and those since had been lost),
\* or leave a torn text, which loadState reads as no state at all (StateFile).
Save == durable' \in {db} \cup (IF SavesMayFail THEN {durable, NoState} ELSE {})

-----------------------------------------------------------------------------
(* runPull up to the queue: probe, list, decide, plan *)

Listed(r) == {n \in r : remote[KeyOf[n]] # Absent}

Wanted(n, vd) ==
  CASE vd = "complete" -> {}
    [] vd = "resume"   -> MissingParts(durable[RelOf[n]])
    [] vd = "transfer" -> Parts(remote[KeyOf[n]])

\* db.set for every listed name that is not resumed, over the loaded state.
Entered(listed, vd) ==
  [l \in Rels |->
    IF \E n \in listed : RelOf[n] = l /\ vd[n] # "resume"
    THEN LET n == CHOOSE m \in listed : RelOf[m] = l
             v == remote[KeyOf[n]]
         IN  IF vd[n] = "complete" THEN Adopted(v) ELSE Fresh(v)
    ELSE durable[l]]

Begin(r) ==
  LET listed == Listed(r)
      vd == [n \in Names |->
               IF n \in listed THEN DecideSkip(n, remote[KeyOf[n]]) ELSE "none"]
  IN  /\ pc = "idle" /\ Issued
      /\ listed # {}
      /\ pc' = "queued"
      /\ ver' = [n \in Names |-> IF n \in listed THEN remote[KeyOf[n]] ELSE Absent]
      /\ verdict' = vd
      /\ held' = [k \in Keys |-> {remote[k]}]
      /\ db' = Entered(listed, vd)
      /\ queue' = UNION {{n} \X Wanted(n, vd[n]) : n \in listed}
      /\ todo' = {n \in listed : vd[n] # "complete"}
      /\ UNCHANGED <<bucket, disk, asked, air, landed, done, werr, ctx>>

\* The probe and the list find nothing, or fail.
BeginFails(r) ==
  /\ pc = "idle" /\ Issued
  /\ UNCHANGED <<bucket, disk, pc, db, planned, todo, pool>>

\* runPull returns: memory is gone with the process.
Return ==
  /\ pc' = "idle" /\ db' = NoState
  /\ ver' = NoTargets /\ verdict' = NoVerdict /\ todo' = {}
  /\ held' = NoneHeld /\ asked' = {}
  /\ queue' = {} /\ air' = {} /\ landed' = {} /\ done' = {}
  /\ werr' = FALSE /\ ctx' = "live"

\* The targets that are not complete: each gets a partial file.
NeedsFile == {n \in Names : verdict[n] \in {"resume", "transfer"}}

NothingToDo ==
  /\ pc = "queued" /\ queue = {}
  /\ Save
  /\ Return
  /\ UNCHANGED <<bucket, partial, final, bounds>>

DryRun ==
  /\ pc = "queued" /\ todo = NeedsFile
  /\ Return
  /\ UNCHANGED <<bucket, disk, bounds>>

-----------------------------------------------------------------------------
(* preallocation: biggest first, O_RDWR|O_CREATE then Truncate *)

BiggestOf(S) == {n \in S : \A m \in S : PartsOf[ver[m]] <= PartsOf[ver[n]]}

Truncated(f, v) ==
  [i \in Parts(v) |-> IF f # NoFile /\ i \in DOMAIN f THEN f[i] ELSE Junk]

Preallocate(n) ==
  /\ pc = "queued" /\ queue # {} /\ n \in BiggestOf(todo)
  /\ partial' = [partial EXCEPT ![DstOf[n]] = Truncated(@, ver[n])]
  /\ IF todo = {n} THEN pc' = "drain" /\ todo' = NeedsFile
                   ELSE pc' = pc /\ todo' = todo \ {n}
  /\ UNCHANGED <<bucket, final, durable, db, planned, pool, bounds>>

\* Mutation: the file is opened with O_TRUNC.
PreallocateFailsTruncating(n) ==
  /\ pc = "queued" /\ queue # {} /\ n \in BiggestOf(todo)
  /\ partial' \in {partial, [partial EXCEPT ![DstOf[n]] = Empty]}
  /\ Return
  /\ UNCHANGED <<bucket, final, durable, bounds>>

\* Creating or extending the file fails; a file just created stays, empty.
PreallocateFails(n) ==
  /\ pc = "queued" /\ queue # {} /\ n \in BiggestOf(todo)
  /\ partial' \in {partial,
        [partial EXCEPT ![DstOf[n]] = IF @ = NoFile THEN Empty ELSE @]}
  /\ Return
  /\ UNCHANGED <<bucket, final, durable, bounds>>

-----------------------------------------------------------------------------
(* the drain: runParts with fetchPart and markPart, and the checkpoint *)

\* runParts' own context: dead after a worker's error or with the outer one.
PoolLive == ~werr /\ ctx = "live"

\* The server holds the range, so the read can end well.
Served(j) == LET v == remote[KeyOf[j[1]]] IN v # Absent /\ j[2] \in Parts(v)

WritePart(j, u) ==
  partial' = [partial EXCEPT ![DstOf[j[1]]] = [@ EXCEPT ![j[2]] = u]]

Take(j) ==
  /\ pc = "drain" /\ j \in queue /\ PoolLive
  /\ Cardinality(air \cup landed) < Workers
  /\ queue' = queue \ {j}
  /\ air' = air \cup {j}
  /\ UNCHANGED <<bucket, disk, pc, db, planned, todo, landed, done, werr, ctx,
                 bounds>>

\* Mutation: an empty body is taken for the range.
LandUnwritten(j) ==
  /\ pc = "drain" /\ j \in air /\ Served(j)
  /\ air' = air \ {j}
  /\ landed' = landed \cup {j}
  /\ UNCHANGED <<bucket, disk, pc, db, planned, todo, queue, done, werr, ctx,
                 bounds>>

\* The whole range is read and written: the bytes are those the key holds now.
Land(j) ==
  /\ pc = "drain" /\ j \in air /\ Served(j)
  /\ WritePart(j, remote[KeyOf[j[1]]])
  /\ air' = air \ {j}
  /\ landed' = landed \cup {j}
  /\ UNCHANGED <<bucket, final, durable, pc, db, planned, todo, queue, done,
                 werr, ctx, bounds>>

\* An attempt dies mid-body and is retried at the same offset.
Retry(j) ==
  /\ pc = "drain" /\ j \in air /\ ctx = "live"
  /\ Happens
  /\ WritePart(j, Junk)
  /\ UNCHANGED <<bucket, final, durable, pc, db, planned, todo, pool>>

\* A terminal status, the last attempt failing, or the outer context dying:
\* the worker reports the error and stops, and no worker takes another job.
FetchFails(j) ==
  /\ pc = "drain" /\ j \in air
  /\ \/ UNCHANGED partial
     \/ WritePart(j, Junk)
  /\ air' = air \ {j}
  /\ werr' = TRUE
  /\ UNCHANGED <<bucket, final, durable, pc, db, planned, todo, queue, landed,
                 done, ctx, bounds>>

Mark(j) ==
  LET l == RelOf[j[1]]
      e == Marked(db[l], j[2])
  IN  /\ pc = "drain" /\ j \in landed
      /\ db' = [db EXCEPT ![l] = e]
      /\ done' = IF e.complete THEN done \cup {l} ELSE done
      /\ landed' = landed \ {j}
      /\ UNCHANGED <<bucket, disk, pc, planned, todo, queue, air, werr, ctx,
                     bounds>>

Checkpoint ==
  /\ pc = "drain" /\ durable # db
  /\ Save
  /\ UNCHANGED <<bucket, partial, final, pc, db, planned, todo, pool, bounds>>

\* The ceiling, the floor watch, or SIGINT/SIGTERM.  (Before the drain nothing
\* looks at the context; after it a dead one only leaves HEADs unanswered.)
Cancel(why) ==
  /\ pc = "drain" /\ ctx = "live"
  /\ ctx' = why
  /\ UNCHANGED <<bucket, disk, pc, db, planned, todo, queue, air, landed, done,
                 werr, bounds>>

\* Mutation: the pool waits for its queue even when nobody takes from it.
DrainedQueue == air = {} /\ landed = {} /\ queue = {}

Drained == air = {} /\ landed = {} /\ (queue = {} \/ ~PoolLive)

\* runParts returns an error, or the floor watch has a verdict.
DrainFails ==
  /\ pc = "drain" /\ Drained
  /\ werr \/ ctx = "guard"
  /\ Save
  /\ Return
  /\ UNCHANGED <<bucket, partial, final, bounds>>

\* runParts returns nil: also when a signal stopped it before the end.
DrainEnds ==
  /\ pc = "drain" /\ Drained
  /\ ~werr /\ ctx \in {"live", "signal"}
  /\ Save
  /\ pc' = "promote"
  /\ UNCHANGED <<bucket, partial, final, db, planned, todo, pool, bounds>>

-----------------------------------------------------------------------------
(* promotion: fsync, whole?, HEAD; then hash, compare, rename *)

\* Mutation: --verify is not asked about where there is nothing to compare with.
DigestsUnforced(n) ==
  {Absent} \cup (IF ctx = "live" THEN {remote[KeyOf[n]]} \cap Signed ELSE {})

\* What verifyIfPossible has to compare with when its HEAD is over: the digest of
\* the version there, or nothing, where --verify insists on neither an answer nor
\* a digest.  A dead context or an absent object answers no HEAD; a live one may
\* not either.
Digests(n) ==
  (IF ctx = "live" THEN {remote[KeyOf[n]]} \cap Signed ELSE {})
    \cup (IF ForceVerify THEN {} ELSE {Absent})

\* Mutation: the "not complete after drain" check is dropped.
AskDigestUnchecked(n) ==
  /\ pc = "promote" /\ asked = {} /\ n \in BiggestOf(todo)
  /\ \E w \in Digests(n) : asked' = {<<n, w>>}
  /\ UNCHANGED <<bucket, disk, pc, db, ver, verdict, held, todo, pool, bounds>>

AskDigest(n) ==
  /\ pc = "promote" /\ asked = {} /\ n \in BiggestOf(todo)
  /\ RelOf[n] \in done
  /\ \E w \in Digests(n) : asked' = {<<n, w>>}
  /\ UNCHANGED <<bucket, disk, pc, db, ver, verdict, held, todo, pool, bounds>>

\* Mutation: the size is compared instead of the digest.
PromoteBySize(n) ==
  /\ pc = "promote"
  /\ \E w \in Versions \cup {Absent} :
       asked = {<<n, w>>} /\ (w \in Versions => RightSize(partial[DstOf[n]], w))
  /\ final' = [final EXCEPT ![DstOf[n]] = partial[DstOf[n]]]
  /\ partial' = [partial EXCEPT ![DstOf[n]] = NoFile]
  /\ todo' = todo \ {n} /\ asked' = {}
  /\ UNCHANGED <<bucket, durable, pc, db, ver, verdict, held, pool, bounds>>

\* The partial file, which nobody else touches, is hashed where there is a digest,
\* and renamed.
Promote(n) ==
  /\ pc = "promote"
  /\ \E w \in Versions \cup {Absent} :
       asked = {<<n, w>>} /\ (w \in Versions => partial[DstOf[n]] = Whole(w))
  /\ final' = [final EXCEPT ![DstOf[n]] = partial[DstOf[n]]]
  /\ partial' = [partial EXCEPT ![DstOf[n]] = NoFile]
  /\ todo' = todo \ {n} /\ asked' = {}
  /\ UNCHANGED <<bucket, durable, pc, db, ver, verdict, held, pool, bounds>>

\* A part is missing, the digest differs or cannot be demanded, or the fsync,
\* the hashing or the rename fails.
PromoteFails(n) ==
  /\ pc = "promote" /\ n \in BiggestOf(todo)
  /\ Return
  /\ UNCHANGED <<bucket, disk, bounds>>

Finish ==
  /\ pc = "promote" /\ todo = {}
  /\ Save
  /\ Return
  /\ UNCHANGED <<bucket, partial, final, bounds>>

-----------------------------------------------------------------------------
(* what happens around the process *)

Kill ==
  /\ pc # "idle"
  /\ Return
  /\ UNCHANGED <<bucket, disk, bounds>>

\* Somebody stores a version, or deletes the object.
Store(k, v) ==
  /\ v # remote[k] /\ v \in StockOf[k] \cup {Absent}
  /\ Happens
  /\ remote' = [remote EXCEPT ![k] = v]
  /\ seen' = [seen EXCEPT ![k] = @ \cup {v}]
  /\ held' = IF pc = "idle" THEN held ELSE [held EXCEPT ![k] = @ \cup {v}]
  /\ UNCHANGED <<disk, pc, db, ver, verdict, asked, todo, pool>>

Wipe ==
  /\ pc = "idle" /\ Happens
  /\ UNCHANGED <<bucket, pc, db, planned, todo, pool>>

\* rm -r .b2x ("always safe", state.go)
RemoveState == Wipe /\ durable' = NoState /\ UNCHANGED <<partial, final>>

RemoveFinal(p) ==
  /\ FinalsRemoved /\ Wipe /\ final[p] # NoFile
  /\ final' = [final EXCEPT ![p] = NoFile]
  /\ UNCHANGED <<partial, durable>>

RemovePartial(p) ==
  /\ Wipe /\ partial[p] # NoFile
  /\ partial' = [partial EXCEPT ![p] = NoFile]
  /\ UNCHANGED <<final, durable>>

\* No command is issued any more.
Rest == pc = "idle" /\ runs = MaxRuns /\ UNCHANGED vars

-----------------------------------------------------------------------------
(* Progress: what the process does by itself, once it has begun. *)
Progress ==
  \/ NothingToDo
  \/ \E n \in Names : Preallocate(n)
  \/ \E j \in air \cup queue \cup landed : Take(j) \/ Land(j) \/ FetchFails(j) \/ Mark(j)
  \/ DrainFails \/ DrainEnds
  \/ \E n \in Names : AskDigest(n) \/ Promote(n) \/ PromoteFails(n)
  \/ Finish

RunStep ==
  \/ \E r \in Requests : Begin(r) \/ BeginFails(r)
  \/ DryRun
  \/ \E n \in Names : PreallocateFails(n)
  \/ \E j \in air : Retry(j)
  \/ Checkpoint
  \/ \E why \in {"guard", "signal"} : Cancel(why)
  \/ Progress

\* The calm world: objects are replaced between runs, by content that is new,
\* and only whole files and state files are removed by hand.
Next ==
  \/ RunStep
  \/ Kill
  \/ \E k \in Keys, v \in Versions \cup {Absent} :
       pc = "idle" /\ v \notin seen[k] /\ Store(k, v)
  \/ RemoveState
  \/ \E p \in Paths : RemoveFinal(p)
  \/ Rest

Spec == Init /\ [][Next]_vars /\ WF_vars(Progress)

\* The harsh world: objects change under a run and old content comes back,
\* and partial files are removed by hand as well.
HarshNext ==
  \/ RunStep
  \/ Kill
  \/ \E k \in Keys, v \in Versions \cup {Absent} : Store(k, v)
  \/ RemoveState
  \/ \E p \in Paths : RemoveFinal(p) \/ RemovePartial(p)
  \/ Rest

HarshSpec == Init /\ [][HarshNext]_vars /\ WF_vars(Progress)
=============================================================================
