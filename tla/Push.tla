-------------------------------- MODULE Push --------------------------------
(***************************************************************************)
(* b2x push (push.go): a sequence of runs of the command over one tree of  *)
(* files and one bucket.  A run walks the tree, passing over what it       *)
(* cannot read, skips what the bucket has at the same size, and uploads    *)
(* the rest, newest first and one file at a time: in one PUT when the plan *)
(* has at most one part, else as a multipart upload whose parts go through *)
(* runParts.  Calls may fail, and the reply of a call the server has       *)
(* carried out may be lost (s3.go retries it).  While it runs, files grow  *)
(* and shrink at their end.                                                *)
(*                                                                         *)
(* Lengths are in parts (PartPlan models the split).  A file keeps its     *)
(* prefix, so its first k parts are told by k: an object is the parts it   *)
(* is made of, and the length over which its b2x-sha256 was computed.      *)
(***************************************************************************)
EXTENDS Integers, Sequences, FiniteSets, SequencesExt

CONSTANTS
  Files, Absent,
  Workers,              \* workersFor(concurrency, 1)
  Lens, MaxLen,         \* bounds: parts of a file at the start, and ever
  MaxRuns, MaxEvents    \* bounds: runs, and lost replies and changes of files

ASSUME PushAssumption ==
  /\ Files # {} /\ IsFiniteSet(Files) /\ Absent \notin Files
  /\ Workers \in Nat \ {0}
  /\ {MaxLen, MaxRuns, MaxEvents} \subseteq Nat
  /\ Lens \subseteq 0 .. MaxLen

\* An object, told by its length.
Object(k) == [sum |-> k, body |-> 0 .. k - 1]

ASSUME AbsentAssumption == \A k \in 0 .. MaxLen : Object(k) # Absent

VARIABLES
  local,      \* file -> its length
  remote,     \* file -> the object at its key, or Absent
  open,       \* the multipart uploads the server keeps open
  nextId,     \* the id of the next one
  pc,         \* "idle", "next", "open", "put", "create", "parts", "complete", "abort"
  want,       \* file -> its length when the tree was walked (pushItem.size)
  before,     \* file -> the object at its key at that time (history)
  seen,       \* the files the walk yielded
  plan, todo, \* the files to upload in this run, and those left; newest first
  failed,     \* the files whose uploadOne returned an error in this run
  upload,     \* the id of the current upload
  queue, air, \* its parts no worker has taken, and those in the hands of one
  stored,     \* its parts whose ETag came back
  werr, ctx,  \* a worker failed; "live", "canceled" or "deadline"
  runs, events

bucket == <<remote, open, nextId>>
walked == <<want, before, seen, plan>>
loop   == <<todo, failed>>
mpu    == <<upload, queue, air, stored, werr>>
bounds == <<runs, events>>
vars   == <<local, bucket, pc, walked, loop, mpu, ctx, bounds>>

OnB2(f, k) == remote[f] # Absent /\ Cardinality(remote[f].body) = k

Happens == events < MaxEvents /\ events' = events + 1 /\ UNCHANGED runs

NoUpload == upload = 0 /\ queue = {} /\ air = {} /\ stored = {} /\ werr = FALSE
NoSizes  == [f \in Files |-> 0]
NoObject == [f \in Files |-> Absent]

Init ==
  /\ local \in [Files -> Lens]
  /\ remote = NoObject /\ open = {} /\ nextId = 1
  /\ pc = "idle" /\ seen = {} /\ plan = <<>> /\ todo = <<>> /\ failed = {}
  /\ want = NoSizes /\ before = NoObject
  /\ NoUpload /\ ctx = "live"
  /\ runs = 0 /\ events = 0

-----------------------------------------------------------------------------
(* runPush: walk, skip, loop, return *)

\* Of the files the walk yielded, those to upload: a listing that fails skips
\* nothing.
Unsent(walk, answered) == {f \in walk : ~(answered /\ OnB2(f, local[f]))}

\* The files sorted by mtime, which the model does not keep.
Orders(S) == Bijection(1 .. Cardinality(S), S)

\* The walk passes over what it cannot read, and what the filters leave out.
Begin(walk, order) ==
  /\ pc = "idle" /\ runs < MaxRuns /\ runs' = runs + 1
  /\ order # <<>>
  /\ pc' = "next"
  /\ seen' = walk /\ want' = local /\ before' = remote
  /\ plan' = order /\ todo' = order
  /\ UNCHANGED <<local, bucket, failed, mpu, ctx, events>>

\* Everything the walk yielded is on B2, or the run is dry: it returns at once.
BeginsNothing ==
  /\ pc = "idle" /\ runs < MaxRuns /\ runs' = runs + 1
  /\ UNCHANGED <<local, bucket, pc, walked, loop, mpu, ctx, events>>

\* Mutation: the oldest file first.
curOldest == Last(todo)

cur == Head(todo)

NextFile ==
  /\ pc = "next" /\ todo # <<>> /\ ctx = "live"
  /\ pc' = "open"
  /\ UNCHANGED <<local, bucket, walked, loop, mpu, ctx, bounds>>

\* What is left of the process when it is over.
Gone ==
  /\ pc' = "idle" /\ ctx' = "live"
  /\ want' = NoSizes /\ before' = NoObject /\ seen' = {} /\ plan' = <<>>
  /\ todo' = <<>> /\ failed' = {}
  /\ upload' = 0 /\ queue' = {} /\ air' = {} /\ stored' = {} /\ werr' = FALSE

Return ==
  /\ pc = "next" /\ (todo = <<>> \/ ctx # "live")
  /\ Gone
  /\ UNCHANGED <<local, bucket, bounds>>

\* Mutation: a failure ends the loop.
FileEndsLoop(ok) ==
  /\ pc' = "next" /\ todo' = IF ok THEN Tail(todo) ELSE <<>>
  /\ failed' = IF ok THEN failed ELSE failed \cup {cur}
  /\ upload' = 0 /\ queue' = {} /\ air' = {} /\ stored' = {} /\ werr' = FALSE
  /\ UNCHANGED <<local, walked, ctx>>

\* uploadOne returns; the loop goes on to the next file either way.
FileEnds(ok) ==
  /\ pc' = "next" /\ todo' = Tail(todo)
  /\ failed' = IF ok THEN failed ELSE failed \cup {cur}
  /\ upload' = 0 /\ queue' = {} /\ air' = {} /\ stored' = {} /\ werr' = FALSE
  /\ UNCHANGED <<local, walked, ctx>>

-----------------------------------------------------------------------------
(* uploadOne *)

\* Mutation: over the whole file as it is now, as push.go once did.
HashedNow(f) == local[f]

\* The digest is computed over exactly the walked length (fileSHA256N).
Hashed(f) == want[f]

\* The file is opened and hashed, and read when one PUT will do.
Opens ==
  /\ pc = "open" /\ local[cur] >= want[cur]
  /\ pc' = IF want[cur] <= 1 THEN "put" ELSE "create"
  /\ UNCHANGED <<local, bucket, walked, loop, mpu, ctx, bounds>>

\* It cannot be read, or has shrunk.
OpenFails ==
  /\ pc = "open" /\ FileEnds(FALSE)
  /\ UNCHANGED <<bucket, bounds>>

Published(sum, body) == remote' = [remote EXCEPT ![cur] = [sum |-> sum, body |-> body]]

\* A call is carried out by the server and its reply arrives, or is lost and the
\* call repeated; or it fails for good (a terminal status, the last try, a dead
\* context).
PutServed == ctx = "live" /\ Published(Hashed(cur), 0 .. want[cur] - 1)

Put ==
  /\ pc = "put" /\ PutServed /\ FileEnds(TRUE)
  /\ UNCHANGED <<open, nextId, bounds>>

PutLost ==
  /\ pc = "put" /\ PutServed /\ Happens
  /\ UNCHANGED <<local, open, nextId, pc, walked, loop, mpu, ctx>>

PutFails ==
  /\ pc = "put" /\ FileEnds(FALSE)
  /\ UNCHANGED <<bucket, bounds>>

CreateServed ==
  /\ ctx = "live"
  /\ open' = open \cup {[id |-> nextId, file |-> cur, sum |-> Hashed(cur), parts |-> {}]}
  /\ nextId' = nextId + 1

Create ==
  /\ pc = "create" /\ CreateServed
  /\ upload' = nextId /\ queue' = 0 .. want[cur] - 1
  /\ pc' = "parts"
  /\ UNCHANGED <<local, remote, walked, loop, air, stored, werr, ctx, bounds>>

CreateLost ==
  /\ pc = "create" /\ CreateServed /\ Happens
  /\ UNCHANGED <<local, remote, pc, walked, loop, mpu, ctx>>

CreateFails ==
  /\ pc = "create" /\ FileEnds(FALSE)
  /\ UNCHANGED <<bucket, bounds>>

-----------------------------------------------------------------------------
(* its parts, drained by runParts (RunParts) *)

PoolLive == ~werr /\ ctx = "live"

Take(j) ==
  /\ pc = "parts" /\ j \in queue /\ PoolLive
  /\ Cardinality(air) < Workers
  /\ queue' = queue \ {j} /\ air' = air \cup {j}
  /\ UNCHANGED <<local, bucket, pc, walked, loop, upload, stored, werr, ctx, bounds>>

\* ReadAt fills the buffer with the part, or as much of it as the file has.
Bytes(j) == {j} \cap 0 .. local[cur] - 1

\* It filled the buffer, and the server keeps the part.
PartServed(j) ==
  /\ Bytes(j) # {}
  /\ open' = {IF u.id = upload THEN [u EXCEPT !.parts = @ \cup Bytes(j)] ELSE u : u \in open}

Part(j) ==
  /\ pc = "parts" /\ j \in air /\ PartServed(j)
  /\ air' = air \ {j} /\ stored' = stored \cup {j}
  /\ UNCHANGED <<local, remote, nextId, pc, walked, loop, upload, queue, werr, ctx, bounds>>

PartLost(j) ==
  /\ pc = "parts" /\ j \in air /\ PartServed(j) /\ Happens
  /\ UNCHANGED <<local, remote, nextId, pc, walked, loop, mpu, ctx>>

\* Mutation: the part is counted before its upload is known to have worked.
PartFailsCounted(j) ==
  /\ pc = "parts" /\ j \in air
  /\ air' = air \ {j} /\ werr' = TRUE /\ stored' = stored \cup {j}
  /\ UNCHANGED <<local, bucket, pc, walked, loop, upload, queue, ctx, bounds>>

\* A short read, a terminal status, the last try, or a dead context.
PartFails(j) ==
  /\ pc = "parts" /\ j \in air
  /\ air' = air \ {j} /\ werr' = TRUE
  /\ UNCHANGED <<local, bucket, pc, walked, loop, upload, queue, stored, ctx, bounds>>

Drained == air = {} /\ (queue = {} \/ ~PoolLive)

\* runParts returns an error.
PartsFail ==
  /\ pc = "parts" /\ Drained /\ (werr \/ ctx = "deadline")
  /\ pc' = "abort"
  /\ UNCHANGED <<local, bucket, walked, loop, mpu, ctx, bounds>>

\* runParts returns nil: also when a cancel found no worker with a part.
PartsEnd ==
  /\ pc = "parts" /\ Drained /\ ~werr /\ ctx # "deadline"
  /\ pc' = "complete"
  /\ UNCHANGED <<local, bucket, walked, loop, mpu, ctx, bounds>>

-----------------------------------------------------------------------------
(* abort, on a context of its own; complete, on the caller's *)

Current == {u \in open : u.id = upload}

Abort ==
  /\ pc = "abort" /\ FileEnds(FALSE)
  /\ open' = open \ Current
  /\ UNCHANGED <<remote, nextId, bounds>>

AbortFails ==
  /\ pc = "abort" /\ FileEnds(FALSE)
  /\ UNCHANGED <<bucket, bounds>>

\* The server wants an ETag for every part listed and makes them an object.
CompleteServed ==
  /\ ctx = "live" /\ stored = 0 .. want[cur] - 1
  /\ \E u \in Current : Published(u.sum, u.parts)
  /\ open' = open \ Current

Complete ==
  /\ pc = "complete" /\ CompleteServed /\ FileEnds(TRUE)
  /\ UNCHANGED <<nextId, bounds>>

CompleteLost ==
  /\ pc = "complete" /\ CompleteServed /\ Happens
  /\ UNCHANGED <<local, nextId, pc, walked, loop, mpu, ctx>>

\* A repeated call: the server may say that it is done, or (CompleteFails) that
\* it knows of no such upload.
CompleteAgain ==
  /\ pc = "complete" /\ ctx = "live" /\ Current = {}
  /\ FileEnds(TRUE)
  /\ UNCHANGED <<bucket, bounds>>

CompleteFails ==
  /\ pc = "complete" /\ FileEnds(FALSE)
  /\ UNCHANGED <<bucket, bounds>>

-----------------------------------------------------------------------------
(* what happens around the loop *)

\* The ceiling; the floor watch, SIGINT or SIGTERM.
Cancel(why) ==
  /\ pc # "idle" /\ ctx = "live" /\ ctx' = why
  /\ UNCHANGED <<local, bucket, pc, walked, loop, mpu, bounds>>

Kill ==
  /\ pc # "idle" /\ Gone
  /\ UNCHANGED <<local, bucket, bounds>>

Resize(f, k) ==
  /\ k # local[f] /\ Happens
  /\ local' = [local EXCEPT ![f] = k]
  /\ UNCHANGED <<bucket, pc, walked, loop, mpu, ctx>>

Rest == pc = "idle" /\ runs = MaxRuns /\ UNCHANGED vars

Progress ==
  \/ NextFile \/ Return \/ Opens \/ OpenFails
  \/ Put \/ PutFails \/ Create \/ CreateFails
  \/ \E j \in queue \cup air : Take(j) \/ Part(j) \/ PartFails(j)
  \/ PartsFail \/ PartsEnd \/ Abort
  \/ Complete \/ CompleteAgain \/ CompleteFails

\* A world where every reply arrives, every abort is carried out and nobody
\* kills the process.
CalmNext ==
  \/ \E walk \in SUBSET Files, answered \in BOOLEAN :
       \E order \in Orders(Unsent(walk, answered)) : Begin(walk, order)
  \/ BeginsNothing
  \/ Progress
  \/ \E why \in {"canceled", "deadline"} : Cancel(why)
  \/ \E f \in Files, k \in 0 .. MaxLen : Resize(f, k)
  \/ Rest

Next ==
  \/ CalmNext
  \/ PutLost \/ CreateLost \/ CompleteLost \/ AbortFails
  \/ \E j \in air : PartLost(j)
  \/ Kill

Spec     == Init /\ [][Next]_vars
CalmSpec == Init /\ [][CalmNext]_vars

-----------------------------------------------------------------------------
(* Properties *)

\* Every variable holds a value the code or the server can put there, and the
\* two agree on the upload in progress: the parts whose ETags uploadOne holds
\* are parts the server keeps for that file and digest.
TypeOK ==
  /\ local \in [Files -> 0 .. MaxLen] /\ want \in [Files -> 0 .. MaxLen]
  /\ \A f \in Files : remote[f] = Absent \/
       (remote[f].sum \in 0 .. MaxLen /\ remote[f].body \subseteq 0 .. MaxLen - 1)
  /\ pc \in {"idle", "next", "open", "put", "create", "parts", "complete", "abort"}
  /\ ToSet(todo) \subseteq ToSet(plan) /\ failed \subseteq ToSet(plan)
  /\ ToSet(plan) \subseteq seen /\ seen \subseteq Files
  /\ \A u, v \in open : u.id = v.id => u = v
  /\ \A u \in Current : stored \subseteq u.parts /\ u.file = cur /\ u.sum = want[cur]
  /\ queue \cup air \cup stored \subseteq 0 .. MaxLen - 1
  /\ queue \cap air = {} /\ queue \cap stored = {} /\ air \cap stored = {}
  /\ Cardinality(air) <= Workers
  /\ ctx \in {"live", "canceled", "deadline"} /\ werr \in BOOLEAN

\* No reader of the bucket ever sees a torn object, and the digest each carries
\* is that of its own bytes: however the source grows or shrinks under the
\* upload, whatever call fails or is repeated (push.go:17-19, 249-259, 292-297).
WholeObjects ==
  \A f \in Files : remote[f] # Absent => remote[f] = Object(remote[f].sum)

\* When a run that was not interrupted returns, every file its walk yielded is in
\* the bucket at its walked length, but those whose own upload failed; so exit 0
\* means all of them, and one bad file costs no other (docs/USAGE.md: "One bad
\* file does not abandon the rest of a flush").  A file the walk could not read
\* is passed over and exit 0 says nothing of it, as push.go:68-69 intends.
OthersArrive ==
  [][Return /\ ctx = "live" =>
       \A f \in seen : f \in failed \/ OnB2(f, want[f])]_vars

\* At every moment, so wherever a run is cut short, what it has published is a
\* prefix of its newest files, but for those whose upload failed
\* (push.go:12-19, 185-188).
NewestPrefix ==
  \A i, j \in DOMAIN plan :
    i < j /\ remote[plan[j]] # before[plan[j]] =>
      plan[i] \in failed \/ OnB2(plan[i], want[plan[i]])
=============================================================================
