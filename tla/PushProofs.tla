----------------------------- MODULE PushProofs -----------------------------
(***************************************************************************)
(* Proofs about Push, for every tree, every number of workers and every    *)
(* bound: no torn object is ever in the bucket, what a run has published   *)
(* is a prefix of its newest files, and one bad file costs no other.       *)
(***************************************************************************)
EXTENDS Push, FiniteSetTheorems, TLAPS

\* Where the loop has a file in hand, and where that file has an upload.
Sending   == {"open", "put", "create", "parts", "complete", "abort"}
Uploading == {"parts", "complete", "abort"}

\* Objects are whole; an upload the server keeps is for parts of one length.
Kept ==
  /\ local \in [Files -> 0 .. MaxLen] /\ want \in [Files -> 0 .. MaxLen]
  /\ remote \in [Files -> {Object(k) : k \in 0 .. MaxLen} \cup {Absent}]
  /\ nextId \in Nat \ {0}
  /\ open \subseteq [id: 1 .. nextId - 1, file: Files, sum: 0 .. MaxLen, parts: SUBSET Int]
  /\ \A u \in open : u.parts \subseteq 0 .. u.sum - 1
  /\ \A u, v \in open : u.id = v.id => u = v

\* The plan names a file once, and what is left of it is its end.
Planned ==
  /\ plan \in Seq(Files) /\ todo \in Seq(Files)
  /\ \A i, j \in 1 .. Len(plan) : plan[i] = plan[j] => i = j
  /\ Len(todo) <= Len(plan)
  /\ \A i \in 1 .. Len(todo) : todo[i] = plan[Len(plan) - Len(todo) + i]
  /\ failed \subseteq ToSet(plan)
  /\ ToSet(plan) \subseteq seen /\ seen \subseteq Files
  /\ pc = "idle" => failed = {}

\* The server has the upload of the file in hand until it is completed, and it
\* has every part whose ETag came back.
Working ==
  /\ pc \in Sending \cup {"idle", "next"}
  /\ ctx \in {"live", "canceled", "deadline"} /\ werr \in BOOLEAN
  /\ pc \in Sending => todo # <<>>
  /\ pc \notin Uploading => upload = 0 /\ queue = {} /\ air = {} /\ stored = {}
  /\ pc \in Uploading => /\ upload \in Nat \ {0}
                         /\ queue \cup air \cup stored \subseteq 0 .. want[cur] - 1
                         /\ Current = {} => pc = "complete" /\ remote[cur] = Object(want[cur])
  /\ queue \cap air = {} /\ queue \cap stored = {} /\ air \cap stored = {}
  /\ Cardinality(air) <= Workers
  /\ \A u \in Current : stored \subseteq u.parts /\ u.file = cur /\ u.sum = want[cur]

\* The files before the one in hand are done with, those after it untouched,
\* those not in the plan were in the bucket.
Passed ==
  LET d == Len(plan) - Len(todo)
  IN  /\ \A i \in 1 .. d : plan[i] \in failed \/ OnB2(plan[i], want[plan[i]])
      /\ \A j \in 1 .. Len(plan) : j > d + 1 => remote[plan[j]] = before[plan[j]]
      /\ pc # "idle" => \A f \in seen \ ToSet(plan) : OnB2(f, want[f])

PInv == Kept /\ Planned /\ Working /\ Passed

-----------------------------------------------------------------------------
(* Helpers *)

LEMMA ObjectFacts ==
  ASSUME NEW k \in Nat
  PROVE  /\ Object(k).sum = k /\ Object(k).body = 0 .. k - 1
         /\ Cardinality(Object(k).body) = k
<1>1. Object(k).sum = k /\ Object(k).body = 0 .. k - 1
  BY DEF Object
<1>2. Cardinality(0 .. k - 1) = k
  <2> DEFINE b == k - 1
  <2>1. b \in Int /\ (IF 0 > b THEN 0 ELSE b - 0 + 1) = k
    OBVIOUS
  <2> HIDE DEF b
  <2>2. Cardinality(0 .. b) = IF 0 > b THEN 0 ELSE b - 0 + 1
    BY <2>1, 0 \in Int, FS_Interval, Zenon
  <2> QED BY <2>1, <2>2 DEF b
<1> QED BY <1>1, <1>2

\* The parts of one file are finitely many.
LEMMA PartsFinite ==
  ASSUME NEW k \in Nat, NEW S \in SUBSET (0 .. k - 1)
  PROVE  IsFiniteSet(S)
<1>1. k - 1 \in Int
  OBVIOUS
<1>2. IsFiniteSet(0 .. k - 1)
  BY <1>1, 0 \in Int, FS_Interval, Zenon
<1> QED BY <1>2, FS_Subset

\* An object at a key has the length it is told by.
LEMMA Sent ==
  ASSUME Kept, NEW f \in Files, NEW k \in 0 .. MaxLen, remote[f] = Object(k)
  PROVE  OnB2(f, k)
<1>1. k \in Nat /\ Object(k) # Absent
  BY AbsentAssumption
<1> QED BY <1>1, ObjectFacts DEF OnB2

\* The file in hand is the first that is left of the plan.
LEMMA CurFacts ==
  ASSUME Planned, todo # <<>>
  PROVE  /\ cur \in Files
         /\ Len(plan) - Len(todo) + 1 \in 1 .. Len(plan)
         /\ cur = plan[Len(plan) - Len(todo) + 1]
         /\ \A i \in 1 .. Len(plan) : i # Len(plan) - Len(todo) + 1 => plan[i] # cur
         /\ cur \in ToSet(plan)
         /\ \A i \in 1 .. Len(plan) : plan[i] \in Files
<1>1. Len(todo) \in Nat /\ Len(plan) \in Nat /\ Len(todo) >= 1 /\ Len(todo) <= Len(plan)
  BY DEF Planned
<1>2. cur = todo[1] /\ cur \in Files
  BY <1>1 DEF Planned, cur
<1>3. Len(plan) - Len(todo) + 1 \in 1 .. Len(plan) /\ cur = plan[Len(plan) - Len(todo) + 1]
  BY <1>1, <1>2 DEF Planned
<1>4. cur \in ToSet(plan)
  BY <1>3 DEF ToSet, Planned
<1>5. \A i \in 1 .. Len(plan) : plan[i] \in Files
  BY DEF Planned
<1> QED BY <1>2, <1>3, <1>4, <1>5 DEF Planned

\* The object an upload replaces is another's, or the one of the file in hand.
Replaced == remote' = remote \/ remote' = [remote EXCEPT ![cur] = Object(want[cur])]

\* Storing the file in hand leaves what is before and after it in the plan.
LEMMA PassedStep ==
  ASSUME PInv, todo # <<>>, Replaced, UNCHANGED <<walked, failed>>, todo' = todo, pc' # "idle", pc # "idle"
  PROVE  Passed'
<1> DEFINE d == Len(plan) - Len(todo)
<1>1. /\ cur \in Files /\ d + 1 \in 1 .. Len(plan) /\ cur \in ToSet(plan)
      /\ \A i \in 1 .. Len(plan) : plan[i] \in Files /\ (i # d + 1 => plan[i] # cur)
  BY CurFacts DEF PInv
<1>2. \A f \in Files : f # cur => remote'[f] = remote[f]
  BY DEF Replaced, PInv, Kept
<1>3. \A i \in 1 .. Len(plan) : i # d + 1 => remote'[plan[i]] = remote[plan[i]]
  BY <1>1, <1>2
<1>4. seen' = seen /\ plan' = plan /\ want' = want /\ before' = before /\ failed' = failed /\ todo' = todo
  BY DEF walked
<1>5. d \in Int /\ d <= Len(plan) /\ Len(plan) \in Nat
  BY <1>1
<1>6. \A i \in 1 .. d : plan[i] \in failed \/ OnB2(plan[i], want[plan[i]])'
  BY <1>3, <1>4, <1>5 DEF PInv, Passed, OnB2
<1>7. \A j \in 1 .. Len(plan) : j > d + 1 => remote'[plan[j]] = before[plan[j]]
  BY <1>3, <1>5 DEF PInv, Passed
<1>8. \A f \in seen \ ToSet(plan) : OnB2(f, want[f])'
  BY <1>1, <1>2, <1>4 DEF PInv, Planned, Passed, OnB2
<1> QED BY <1>4, <1>6, <1>7, <1>8 DEF Passed

\* The bucket after a call.
LEMMA KeptStep ==
  ASSUME Kept, cur \in Files, Replaced, local' \in [Files -> 0 .. MaxLen],
         want' = want, open' \subseteq open, nextId' = nextId
  PROVE  Kept'
BY DEF Kept, Replaced

\* uploadOne returns: nil only if the file in hand is in the bucket.
LEMMA PFileEnds ==
  ASSUME PInv, pc \in Sending, NEW ok \in BOOLEAN, FileEnds(ok), Replaced,
         ok => remote'[cur] = Object(want[cur]),
         open' \subseteq open, nextId' = nextId
  PROVE  PInv'
<1> DEFINE d == Len(plan) - Len(todo)
<1>0. /\ todo # <<>>
      /\ seen' = seen /\ plan' = plan /\ want' = want /\ before' = before /\ local' = local /\ ctx' = ctx
      /\ pc' = "next" /\ todo' = Tail(todo)
      /\ failed' = IF ok THEN failed ELSE failed \cup {cur}
      /\ upload' = 0 /\ queue' = {} /\ air' = {} /\ stored' = {} /\ werr' = FALSE
  BY DEF PInv, Working, FileEnds, walked
<1>1. /\ cur \in Files /\ d + 1 \in 1 .. Len(plan) /\ cur \in ToSet(plan) /\ cur = plan[d + 1]
      /\ \A i \in 1 .. Len(plan) : plan[i] \in Files /\ (i # d + 1 => plan[i] # cur)
  BY <1>0, CurFacts DEF PInv
<1>2. Kept'
  BY <1>0, <1>1, KeptStep DEF PInv, Kept
<1>3. /\ Tail(todo) \in Seq(Files) /\ Len(Tail(todo)) = Len(todo) - 1
      /\ \A i \in 1 .. Len(todo) - 1 : Tail(todo)[i] = todo[i + 1]
      /\ Len(todo) \in Nat /\ Len(plan) \in Nat /\ Len(todo) <= Len(plan) /\ Len(todo) >= 1
  BY <1>0 DEF PInv, Planned
<1>4. Planned'
  <2>1. \A i \in 1 .. Len(todo) - 1 : Tail(todo)[i] = plan[Len(plan) - (Len(todo) - 1) + i]
    <3>1. SUFFICES ASSUME NEW i \in 1 .. Len(todo) - 1
                   PROVE  Tail(todo)[i] = plan[Len(plan) - (Len(todo) - 1) + i]
      OBVIOUS
    <3>2. i + 1 \in 1 .. Len(todo) /\ Len(plan) - Len(todo) + (i + 1) = Len(plan) - (Len(todo) - 1) + i
      BY <1>3
    <3> QED BY <1>3, <3>2 DEF PInv, Planned
  <2> QED BY <1>0, <1>1, <1>3, <2>1 DEF PInv, Planned
<1>5. Working'
  <2>1. \A u \in open' : u.id # 0
    BY <1>2, <1>0 DEF Kept
  <2>2. Current' = {}
    BY <1>0, <2>1 DEF Current
  <2>3. Cardinality({}) = 0
    BY FS_EmptySet
  <2>4. Cardinality(air') <= Workers
    BY <1>0, <2>3, PushAssumption
  <2>5. ctx' \in {"live", "canceled", "deadline"} /\ werr' \in BOOLEAN
    BY <1>0 DEF PInv, Working
  <2>6. pc' \notin Sending /\ pc' \notin Uploading /\ pc' \in Sending \cup {"idle", "next"}
    BY <1>0 DEF Sending, Uploading
  <2> QED BY <1>0, <2>2, <2>4, <2>5, <2>6 DEF Working
<1>6. Passed'
  <2>1. \A f \in Files : f # cur => remote'[f] = remote[f]
    BY <1>1 DEF Replaced, PInv, Kept
  <2>2. \A i \in 1 .. Len(plan) : i # d + 1 => remote'[plan[i]] = remote[plan[i]]
    BY <1>1, <2>1
  <2>3. d \in Int /\ d + 1 <= Len(plan) /\ d >= 0 /\ Len(plan') - Len(todo') = d + 1
    BY <1>0, <1>1, <1>3
  <2>4. ok => remote'[cur] # Absent /\ Cardinality(remote'[cur].body) = want[cur]
    <3>1. want[cur] \in 0 .. MaxLen
      BY <1>1 DEF PInv, Kept
    <3>2. want[cur] \in Nat /\ Object(want[cur]) # Absent
      BY <3>1, AbsentAssumption
    <3> QED BY <3>2, ObjectFacts
  <2>5. \A i \in 1 .. d + 1 : plan[i] \in failed' \/ OnB2(plan[i], want[plan[i]])'
    <3>1. SUFFICES ASSUME NEW i \in 1 .. d + 1
                   PROVE  plan[i] \in failed' \/ OnB2(plan[i], want[plan[i]])'
      OBVIOUS
    <3>2. CASE i = d + 1
      <4>1. plan'[i] = cur /\ want'[plan'[i]] = want[cur]
        BY <1>0, <1>1, <3>2
      <4>2. CASE ok
        BY <1>0, <1>1, <2>4, <3>2, <4>1, <4>2 DEF OnB2
      <4>3. CASE ~ok
        BY <1>0, <1>1, <3>2, <4>3
      <4> QED BY <4>2, <4>3
    <3>3. CASE i # d + 1
      <4>1. i \in 1 .. d /\ i \in 1 .. Len(plan)
        BY <2>3, <3>3
      <4> QED BY <1>0, <2>2, <3>3, <4>1 DEF PInv, Passed, OnB2
    <3> QED BY <3>2, <3>3
  <2>6. \A j \in 1 .. Len(plan) : j > d + 1 + 1 => remote'[plan[j]] = before[plan[j]]
    BY <2>2, <2>3 DEF PInv, Passed
  <2>7. \A f \in seen \ ToSet(plan) : OnB2(f, want[f])'
    BY <1>0, <1>1, <2>1 DEF PInv, Planned, Passed, OnB2, Sending
  <2> QED BY <1>0, <2>3, <2>5, <2>6, <2>7 DEF Passed
<1> QED BY <1>2, <1>4, <1>5, <1>6 DEF PInv

-----------------------------------------------------------------------------
(* The steps of uploadOne *)

\* A step within uploadOne: the file in hand stays, and so does what the walk
\* found.
Within ==
  /\ pc \in Sending /\ pc' \in Sending
  /\ UNCHANGED <<walked, loop>> /\ ctx' \in {"live", "canceled", "deadline"}

LEMMA WithinStep ==
  ASSUME PInv, Within, Replaced
  PROVE  Planned' /\ Passed' /\ cur' = cur /\ cur \in Files /\ want' = want /\ todo' # <<>>
<1>1. todo # <<>> /\ pc # "idle" /\ pc' # "idle"
  BY DEF PInv, Working, Within, Sending
<1>2. seen' = seen /\ plan' = plan /\ todo' = todo /\ failed' = failed /\ want' = want
  BY DEF Within, walked, loop
<1>3. Passed'
  BY <1>1, <1>2, PassedStep DEF Within
<1>4. Planned'
  BY <1>1, <1>2 DEF PInv, Planned
<1> QED BY <1>1, <1>2, <1>3, <1>4, CurFacts DEF PInv, cur

\* Opening the file, the end of the context, and a call repeated for a lost
\* reply leave the upload alone.
LEMMA PSame ==
  ASSUME PInv, pc \in Sending,
         Opens \/ PutLost \/ PartsFail \/ PartsEnd \/ \E why \in {"canceled", "deadline"} : Cancel(why)
  PROVE  PInv'
<1>1. /\ Within /\ UNCHANGED <<local, open, nextId, mpu>>
      /\ pc' \in Uploading <=> pc \in Uploading
      /\ pc' = "complete" \/ pc # "complete"
  BY DEF Opens, PutLost, PartsFail, PartsEnd, Cancel, Within, Sending, Uploading, bucket, PInv, Working
<1>2. Replaced
  BY DEF Opens, PutLost, PutServed, Published, Hashed, Object, PartsFail, PartsEnd, Cancel, Replaced, bucket
<1>3. Planned' /\ Passed' /\ cur' = cur /\ cur \in Files /\ want' = want /\ todo' # <<>>
  BY <1>1, <1>2, WithinStep
<1>4. Kept'
  BY <1>1, <1>2, <1>3, KeptStep DEF PInv, Kept
<1>5. /\ upload' = upload /\ queue' = queue /\ air' = air /\ stored' = stored /\ werr' = werr
      /\ open' = open /\ Current' = Current
  BY <1>1 DEF mpu, Current
<1>6. pc \in Uploading /\ Current = {} => pc' = "complete" /\ remote'[cur] = Object(want[cur])
  <2>1. pc \in Uploading /\ Current = {} => pc = "complete" /\ remote[cur] = Object(want[cur])
    BY DEF PInv, Working
  <2>2. remote'[cur] = remote[cur] \/ remote'[cur] = Object(want[cur])
    BY <1>2, <1>3 DEF Replaced, PInv, Kept
  <2> QED BY <1>1, <2>1, <2>2
<1>7. Working'
  BY <1>1, <1>3, <1>5, <1>6 DEF PInv, Working, Within
<1> QED BY <1>3, <1>4, <1>7 DEF PInv

\* The server opens an upload for the file in hand; a repeated call opens a
\* second one.
LEMMA PCreate ==
  ASSUME PInv, Create \/ CreateLost
  PROVE  PInv'
<1> DEFINE u0 == [id |-> nextId, file |-> cur, sum |-> want[cur], parts |-> {}]
<1>1. /\ pc = "create" /\ Within /\ remote' = remote /\ local' = local
      /\ open' = open \cup {u0} /\ nextId' = nextId + 1
      /\ air' = air /\ stored' = stored /\ werr' = werr
  BY DEF Create, CreateLost, CreateServed, Hashed, Within, Sending, mpu, PInv, Working
<1>2. Replaced
  BY <1>1 DEF Replaced
<1>3. Planned' /\ Passed' /\ cur' = cur /\ cur \in Files /\ want' = want /\ todo' # <<>>
  BY <1>1, <1>2, WithinStep
<1>4. want[cur] \in 0 .. MaxLen /\ nextId \in Nat \ {0}
  BY <1>3 DEF PInv, Kept
<1>5. Kept'
  <2> DEFINE Uploads == [id: 1 .. nextId' - 1, file: Files, sum: 0 .. MaxLen, parts: SUBSET Int]
  <2>1. nextId \in 1 .. nextId' - 1 /\ 1 .. nextId - 1 \subseteq 1 .. nextId' - 1
    BY <1>1, <1>4
  <2>2. u0 \in Uploads /\ open \subseteq Uploads
    BY <1>3, <1>4, <2>1 DEF PInv, Kept
  <2>3. u0.id = nextId /\ u0.parts = {} /\ \A u \in open : u.id # nextId
    BY <1>4 DEF PInv, Kept
  <2> HIDE DEF u0, Uploads
  <2>4. \A u, v \in open' : u.id = v.id => u = v
    BY <1>1, <2>3 DEF PInv, Kept
  <2>5. \A u \in open' : u.parts \subseteq 0 .. u.sum - 1
    BY <1>1, <2>3 DEF PInv, Kept
  <2>6. open' \subseteq Uploads
    BY <1>1, <2>2
  <2> QED BY <1>1, <1>3, <1>4, <2>4, <2>5, <2>6 DEF PInv, Kept, Uploads
<1>6. air = {} /\ stored = {} /\ queue = {} /\ upload = 0
  BY <1>1 DEF PInv, Working, Uploading
<1>7. \A u \in open : u.id # nextId /\ u.id # 0
  BY <1>4 DEF PInv, Kept
<1>8. CASE Create
  <2>1. pc' = "parts" /\ upload' = nextId /\ queue' = 0 .. want[cur] - 1
    BY <1>8 DEF Create
  <2>2. Current' = {u0}
    BY <1>1, <1>7, <2>1 DEF Current
  <2>3. \A u \in Current' : stored' \subseteq u.parts /\ u.file = cur' /\ u.sum = want'[cur']
    BY <1>1, <1>3, <1>6, <2>2
  <2>4. Working'
    BY <1>1, <1>3, <1>4, <1>6, <2>1, <2>2, <2>3 DEF PInv, Working, Within, Uploading
  <2> QED BY <1>3, <1>5, <2>4 DEF PInv
<1>9. CASE CreateLost
  <2>1. pc' = "create" /\ upload' = upload /\ queue' = queue
    BY <1>1, <1>9 DEF CreateLost, mpu
  <2>2. Current' = {}
    BY <1>1, <1>4, <1>6, <1>7, <2>1 DEF Current
  <2>3. Working'
    BY <1>1, <1>3, <1>6, <2>1, <2>2 DEF PInv, Working, Within, Uploading, Sending
  <2> QED BY <1>3, <1>5, <2>3 DEF PInv
<1> QED BY <1>8, <1>9

\* The workers: a job is waiting, in hand, stored or lost, never two of these.
LEMMA PTakeFail ==
  ASSUME PInv, NEW j \in queue \cup air, Take(j) \/ PartFails(j)
  PROVE  PInv'
<1>1. /\ pc = "parts" /\ Within /\ remote' = remote /\ local' = local
      /\ open' = open /\ nextId' = nextId /\ upload' = upload /\ stored' = stored /\ pc' = pc
      /\ queue' \cup air' \subseteq queue \cup air
  BY DEF Take, PartFails, Within, Sending, bucket, PInv, Working
<1>2. Replaced
  BY <1>1 DEF Replaced
<1>3. Planned' /\ Passed' /\ cur' = cur /\ cur \in Files /\ want' = want /\ todo' # <<>>
  BY <1>1, <1>2, WithinStep
<1>4. Kept'
  BY <1>1, <1>2, <1>3, KeptStep DEF PInv, Kept
<1>5. Current' = Current
  BY <1>1 DEF Current
<1>6. IsFiniteSet(air)
  <2>1. air \subseteq 0 .. want[cur] - 1
    BY <1>1 DEF PInv, Working, Uploading
  <2>2. want[cur] \in Nat
    BY <1>3, PushAssumption DEF PInv, Kept
  <2> QED BY <2>1, <2>2, PartsFinite
<1>7. /\ queue' \cap air' = {} /\ queue' \cap stored' = {} /\ air' \cap stored' = {}
      /\ Cardinality(air') <= Workers /\ werr' \in BOOLEAN
  <2>1. CASE Take(j)
    <3>1. queue' = queue \ {j} /\ air' = air \cup {j} /\ j \in queue /\ Cardinality(air) < Workers
          /\ werr' = werr
      BY <2>1 DEF Take
    <3>2. Cardinality(air') <= Workers
      <4>1. Cardinality(air) \in Nat /\ Workers \in Nat
        BY <1>6, FS_CardinalityType, PushAssumption
      <4>2. j \notin air
        BY <3>1 DEF PInv, Working
      <4>3. Cardinality(air') = Cardinality(air) + 1
        BY <1>6, <3>1, <4>2, FS_AddElement
      <4> QED BY <3>1, <4>1, <4>3
    <3> QED BY <1>1, <3>1, <3>2 DEF PInv, Working
  <2>2. CASE PartFails(j)
    <3>1. queue' = queue /\ air' = air \ {j} /\ werr' = TRUE
      BY <2>2 DEF PartFails
    <3>2. Cardinality(air') <= Cardinality(air) /\ Cardinality(air') \in Nat /\ Cardinality(air) \in Nat
      BY <1>6, <3>1, FS_Subset, FS_CardinalityType
    <3> QED BY <1>1, <3>1, <3>2, PushAssumption DEF PInv, Working
  <2> QED BY <2>1, <2>2
<1>8. queue' \cup air' \cup stored' \subseteq 0 .. want[cur] - 1 /\ upload' \in Nat \ {0}
  BY <1>1 DEF PInv, Working, Uploading
<1>9. Current' = {} => pc' = "complete"
  BY <1>1, <1>5 DEF PInv, Working, Uploading
<1>10. \A u \in Current' : stored' \subseteq u.parts /\ u.file = cur' /\ u.sum = want'[cur']
  BY <1>1, <1>3, <1>5 DEF PInv, Working
<1>11. Working'
  BY <1>1, <1>3, <1>7, <1>8, <1>9, <1>10 DEF Working, Within, Uploading, Sending
<1> QED BY <1>3, <1>4, <1>11 DEF PInv

\* The server keeps the part for the upload in progress; its ETag may be lost.
LEMMA PPart ==
  ASSUME PInv, NEW j \in air, Part(j) \/ PartLost(j)
  PROVE  PInv'
<1> DEFINE grown(u) == IF u.id = upload THEN [u EXCEPT !.parts = @ \cup {j}] ELSE u
<1>1. /\ pc = "parts" /\ Within /\ remote' = remote /\ local' = local /\ PartServed(j)
      /\ nextId' = nextId /\ upload' = upload /\ queue' = queue /\ pc' = pc /\ werr' = werr
      /\ \/ air' = air \ {j} /\ stored' = stored \cup {j}
         \/ air' = air /\ stored' = stored
  BY DEF Part, PartLost, Within, Sending, mpu, PInv, Working
<1>2. open' = {grown(u) : u \in open}
  BY <1>1 DEF PartServed, Bytes
<1>3. Replaced
  BY <1>1 DEF Replaced
<1>4. Planned' /\ Passed' /\ cur' = cur /\ cur \in Files /\ want' = want /\ todo' # <<>>
  BY <1>1, <1>3, WithinStep
<1>5. /\ queue \cup air \cup stored \subseteq 0 .. want[cur] - 1 /\ upload \in Nat \ {0}
      /\ Current # {} /\ \A u \in Current : stored \subseteq u.parts /\ u.file = cur /\ u.sum = want[cur]
  BY <1>1 DEF PInv, Working, Uploading
<1>6. ASSUME NEW u \in open
      PROVE  /\ grown(u) \in [id: 1 .. nextId - 1, file: Files, sum: 0 .. MaxLen, parts: SUBSET Int]
             /\ grown(u).id = u.id /\ grown(u).file = u.file /\ grown(u).sum = u.sum
             /\ grown(u).parts \subseteq 0 .. u.sum - 1
             /\ grown(u).parts = IF u.id = upload THEN u.parts \cup {j} ELSE u.parts
  <2>1. u \in [id: 1 .. nextId - 1, file: Files, sum: 0 .. MaxLen, parts: SUBSET Int]
        /\ u.parts \subseteq 0 .. u.sum - 1
    BY DEF PInv, Kept
  <2>2. u.id = upload => j \in 0 .. u.sum - 1
    BY <1>5 DEF Current
  <2>3. 0 .. u.sum - 1 \subseteq Int
    OBVIOUS
  <2> QED BY <2>1, <2>2, <2>3
<1> HIDE DEF grown
<1>7. Kept'
  <2>1. \A u, v \in open' : u.id = v.id => u = v
    <3>1. SUFFICES ASSUME NEW u \in open, NEW v \in open, grown(u).id = grown(v).id
                   PROVE  grown(u) = grown(v)
      BY <1>2
    <3>2. u.id = v.id
      BY <3>1, <1>6
    <3> QED BY <3>2 DEF PInv, Kept
  <2>2. open' \subseteq [id: 1 .. nextId - 1, file: Files, sum: 0 .. MaxLen, parts: SUBSET Int]
    BY <1>2, <1>6
  <2>3. \A u \in open' : u.parts \subseteq 0 .. u.sum - 1
    BY <1>2, <1>6
  <2> QED BY <1>1, <1>4, <2>1, <2>2, <2>3 DEF PInv, Kept
<1>8. Current' # {} /\ \A u \in Current' : stored' \subseteq u.parts /\ u.file = cur' /\ u.sum = want'[cur']
  <2>1. Current' = {grown(u) : u \in Current}
    <3>1. \A u \in open : grown(u).id = u.id
      BY <1>6
    <3>2. Current' = {w \in {grown(u) : u \in open} : w.id = upload}
      BY <1>1, <1>2 DEF Current
    <3> QED BY <3>1, <3>2 DEF Current
  <2>2. \A u \in Current : u \in open /\ u.id = upload
    BY DEF Current
  <2>3. ASSUME NEW u \in Current
        PROVE  stored' \subseteq grown(u).parts /\ grown(u).file = cur' /\ grown(u).sum = want'[cur']
    BY <1>1, <1>4, <1>5, <1>6, <2>2
  <2> QED BY <1>5, <2>1, <2>3
<1>9. /\ queue' \cap air' = {} /\ queue' \cap stored' = {} /\ air' \cap stored' = {}
      /\ queue' \cup air' \cup stored' \subseteq 0 .. want[cur] - 1
  BY <1>1, <1>5 DEF PInv, Working
<1>10. Cardinality(air') <= Workers
  <2>1. want[cur] \in Nat
    BY <1>4, PushAssumption DEF PInv, Kept
  <2>2. IsFiniteSet(air)
    BY <1>5, <2>1, PartsFinite
  <2>3. Cardinality(air') <= Cardinality(air) /\ Cardinality(air') \in Nat /\ Cardinality(air) \in Nat
    BY <1>1, <2>2, FS_Subset, FS_CardinalityType
  <2> QED BY <2>3, PushAssumption DEF PInv, Working
<1>11. Working'
  BY <1>1, <1>4, <1>5, <1>8, <1>9, <1>10 DEF PInv, Working, Within, Uploading, Sending
<1> QED BY <1>4, <1>7, <1>11 DEF PInv

\* What completing publishes is the whole of the file in hand.
LEMMA Completed ==
  ASSUME PInv, pc = "complete", CompleteServed
  PROVE  Replaced /\ remote' = [remote EXCEPT ![cur] = Object(want[cur])]
<1>1. stored = 0 .. want[cur] - 1 /\ todo # <<>>
  BY DEF CompleteServed, PInv, Working, Sending
<1>2. PICK u \in Current : Published(u.sum, u.parts)
  BY DEF CompleteServed
<1>3. u.sum = want[cur] /\ stored \subseteq u.parts /\ u.parts \subseteq 0 .. u.sum - 1
  BY <1>2 DEF PInv, Working, Kept, Current
<1>4. [sum |-> u.sum, body |-> u.parts] = Object(want[cur])
  BY <1>1, <1>3 DEF Object
<1> QED BY <1>2, <1>4 DEF Published, Replaced

LEMMA PCompleteLost ==
  ASSUME PInv, CompleteLost
  PROVE  PInv'
<1>1. /\ pc = "complete" /\ CompleteServed /\ Within /\ local' = local /\ nextId' = nextId /\ pc' = pc
      /\ open' = open \ Current
      /\ upload' = upload /\ queue' = queue /\ air' = air /\ stored' = stored /\ werr' = werr
  BY DEF CompleteLost, CompleteServed, Within, Sending, mpu, PInv, Working
<1>2. Replaced /\ remote' = [remote EXCEPT ![cur] = Object(want[cur])]
  BY <1>1, Completed
<1>3. Planned' /\ Passed' /\ cur' = cur /\ cur \in Files /\ want' = want /\ todo' # <<>>
  BY <1>1, <1>2, WithinStep
<1>4. Kept'
  BY <1>1, <1>2, <1>3, KeptStep DEF PInv, Kept
<1>5. Current' = {}
  BY <1>1 DEF Current
<1>6. remote'[cur] = Object(want[cur])
  BY <1>2, <1>3 DEF PInv, Kept
<1>7. Working'
  BY <1>1, <1>3, <1>5, <1>6 DEF PInv, Working, Within
<1> QED BY <1>3, <1>4, <1>7 DEF PInv

\* Every way uploadOne returns.
LEMMA PEnds ==
  ASSUME PInv,
         \/ OpenFails \/ Put \/ PutFails \/ CreateFails \/ Abort \/ AbortFails
         \/ Complete \/ CompleteAgain \/ CompleteFails
  PROVE  PInv'
<1>1. CASE OpenFails \/ PutFails \/ CreateFails \/ Abort \/ AbortFails \/ CompleteFails
  <2>1. /\ pc \in Sending /\ FileEnds(FALSE)
        /\ remote' = remote /\ open' \subseteq open /\ nextId' = nextId
    BY <1>1 DEF OpenFails, PutFails, CreateFails, Abort, AbortFails, CompleteFails, Sending, bucket
  <2>2. Replaced
    BY <2>1 DEF Replaced
  <2> QED BY <2>1, <2>2, PFileEnds
<1>2. CASE Put
  <2>1. pc \in Sending /\ FileEnds(TRUE) /\ open' = open /\ nextId' = nextId
    BY <1>2 DEF Put, Sending
  <2>2. remote' = [remote EXCEPT ![cur] = Object(want[cur])]
    BY <1>2 DEF Put, PutServed, Published, Hashed, Object
  <2>3. cur \in Files
    BY <2>1, CurFacts DEF PInv, Working
  <2>4. Replaced /\ remote'[cur] = Object(want[cur])
    BY <2>2, <2>3 DEF Replaced, PInv, Kept
  <2> QED BY <2>1, <2>4, PFileEnds
<1>3. CASE Complete
  <2>1. pc = "complete" /\ pc \in Sending /\ CompleteServed /\ FileEnds(TRUE) /\ nextId' = nextId
    BY <1>3 DEF Complete, Sending
  <2>2. open' \subseteq open
    BY <2>1 DEF CompleteServed
  <2>3. Replaced /\ remote' = [remote EXCEPT ![cur] = Object(want[cur])]
    BY <2>1, Completed
  <2>4. cur \in Files
    BY <2>1, CurFacts DEF PInv, Working
  <2>5. remote'[cur] = Object(want[cur])
    BY <2>3, <2>4 DEF PInv, Kept
  <2> QED BY <2>1, <2>2, <2>3, <2>5, PFileEnds
<1>4. CASE CompleteAgain
  <2>1. /\ pc \in Sending /\ pc \in Uploading /\ FileEnds(TRUE) /\ Current = {}
        /\ remote' = remote /\ open' = open /\ nextId' = nextId
    BY <1>4 DEF CompleteAgain, Sending, Uploading, bucket
  <2>2. remote[cur] = Object(want[cur])
    BY <2>1 DEF PInv, Working
  <2>3. Replaced
    BY <2>1 DEF Replaced
  <2> QED BY <2>1, <2>2, <2>3, PFileEnds
<1> QED BY <1>1, <1>2, <1>3, <1>4

-----------------------------------------------------------------------------
(* The steps of runPush *)

\* What is left of the process when it is over.
LEMMA PGone ==
  ASSUME PInv, Gone, UNCHANGED <<local, bucket>>
  PROVE  PInv'
<1>1. /\ local' = local /\ remote' = remote /\ open' = open /\ nextId' = nextId
      /\ pc' = "idle" /\ ctx' = "live" /\ want' = NoSizes /\ seen' = {}
      /\ plan' = <<>> /\ todo' = <<>> /\ failed' = {}
      /\ upload' = 0 /\ queue' = {} /\ air' = {} /\ stored' = {} /\ werr' = FALSE
  BY DEF Gone, bucket
<1>2. Kept'
  <2>1. NoSizes \in [Files -> 0 .. MaxLen]
    BY PushAssumption DEF NoSizes
  <2> QED BY <1>1, <2>1 DEF PInv, Kept
<1>3. Planned'
  <2>1. ToSet(plan') = {}
    BY <1>1 DEF ToSet
  <2> QED BY <1>1, <2>1 DEF Planned
<1>4. Working'
  <2>1. Current' = {}
    BY <1>1 DEF Current, PInv, Kept
  <2>2. Cardinality(air') <= Workers
    BY <1>1, FS_EmptySet, PushAssumption
  <2> QED BY <1>1, <2>1, <2>2 DEF Working, Sending, Uploading
<1>5. Passed'
  BY <1>1 DEF Passed
<1> QED BY <1>2, <1>3, <1>4, <1>5 DEF PInv

\* A step that leaves the upload, the plan and the bucket alone.
LEMMA PElsewhere ==
  ASSUME PInv, UNCHANGED <<bucket, walked, loop, mpu>>, local' \in [Files -> 0 .. MaxLen],
         ctx' \in {"live", "canceled", "deadline"},
         pc' = pc \/ (pc = "next" /\ pc' = "open" /\ todo # <<>>)
  PROVE  PInv'
<1>1. /\ remote' = remote /\ open' = open /\ nextId' = nextId
      /\ seen' = seen /\ want' = want /\ before' = before /\ plan' = plan /\ todo' = todo /\ failed' = failed
      /\ upload' = upload /\ queue' = queue /\ air' = air /\ stored' = stored /\ werr' = werr
  BY DEF bucket, walked, loop, mpu
<1>2. Kept'
  BY <1>1 DEF PInv, Kept
<1>3. Planned'
  BY <1>1 DEF PInv, Planned
<1>4. Working'
  <2>1. Current' = Current /\ cur' = cur
    BY <1>1 DEF Current, cur
  <2>2. pc' \in Sending \cup {"idle", "next"} /\ (pc' \in Uploading <=> pc \in Uploading)
        /\ (pc' \in Sending => todo # <<>>) /\ (pc = "complete" => pc' = "complete")
    BY DEF PInv, Working, Sending, Uploading
  <2> QED BY <1>1, <2>1, <2>2 DEF PInv, Working
<1>5. Passed'
  BY <1>1 DEF PInv, Passed, OnB2
<1> QED BY <1>2, <1>3, <1>4, <1>5 DEF PInv

\* A run begins: its plan names, once each, the files the bucket has not.
LEMMA PBegin ==
  ASSUME PInv, NEW walk \in SUBSET Files, NEW answered \in BOOLEAN,
         NEW order \in Orders(Unsent(walk, answered)), Begin(walk, order)
  PROVE  PInv'
<1> DEFINE S == Unsent(walk, answered)
           n == Cardinality(S)
<1>1. /\ pc = "idle" /\ pc' = "next" /\ order # <<>>
      /\ seen' = walk /\ want' = local /\ before' = remote /\ plan' = order /\ todo' = order
      /\ remote' = remote /\ open' = open /\ nextId' = nextId /\ local' = local /\ failed' = failed
      /\ upload' = upload /\ queue' = queue /\ air' = air /\ stored' = stored /\ werr' = werr /\ ctx' = ctx
  BY DEF Begin, bucket, mpu
<1>2. S \subseteq walk /\ S \subseteq Files /\ \A f \in walk \ S : OnB2(f, local[f])
  BY DEF Unsent
<1>3. n \in Nat
  BY <1>2, PushAssumption, FS_Subset, FS_CardinalityType
<1> HIDE DEF S
<1>4. /\ order \in [1 .. n -> S]
      /\ \A i, j \in 1 .. n : order[i] = order[j] => i = j
      /\ \A f \in S : \E i \in 1 .. n : order[i] = f
  BY DEF S, Orders, Bijection, Injection, Surjection, IsInjective
<1> HIDE DEF n
<1>5. order \in Seq(Files) /\ Len(order) = n
  BY <1>2, <1>3, <1>4
<1>6. S \subseteq ToSet(order)
  BY <1>4 DEF ToSet
<1>7. Kept'
  BY <1>1 DEF PInv, Kept
<1>8. Planned'
  <2>1. failed' = {}
    BY <1>1 DEF PInv, Planned
  <2>2. \A i \in 1 .. Len(order) : order[i] = order[Len(order) - Len(order) + i]
    BY <1>3, <1>5
  <2>3. ToSet(order) \subseteq walk
    BY <1>2, <1>4 DEF ToSet
  <2> QED BY <1>1, <1>3, <1>4, <1>5, <2>1, <2>2, <2>3 DEF Planned
<1>9. Working'
  <2>1. pc \notin Uploading /\ pc' \notin Uploading /\ pc' \notin Sending
    BY <1>1 DEF Uploading, Sending
  <2>2. upload' = 0 /\ queue' = {} /\ air' = {} /\ stored' = {}
    BY <1>1, <2>1 DEF PInv, Working
  <2>3. Current' = {}
    BY <1>1, <2>2 DEF Current, PInv, Kept
  <2> QED BY <1>1, <2>1, <2>2, <2>3 DEF PInv, Working
<1>10. Passed'
  <2>1. Len(plan') - Len(todo') = 0
    BY <1>1, <1>3, <1>5
  <2>2. \A j \in 1 .. Len(plan') : remote'[plan'[j]] = before'[plan'[j]]
    BY <1>1
  <2>3. \A f \in seen' \ ToSet(plan') : OnB2(f, want[f])'
    BY <1>1, <1>2, <1>6 DEF OnB2
  <2> QED BY <2>1, <2>2, <2>3 DEF Passed
<1> QED BY <1>7, <1>8, <1>9, <1>10 DEF PInv

LEMMA PInit == Init => PInv
<1>1. SUFFICES ASSUME Init PROVE PInv
  OBVIOUS
<1>2. Kept
  <2>1. local \in [Files -> 0 .. MaxLen]
    BY <1>1, PushAssumption DEF Init
  <2>2. want \in [Files -> 0 .. MaxLen]
    BY <1>1, PushAssumption DEF Init, NoSizes
  <2>3. remote \in [Files -> {Object(k) : k \in 0 .. MaxLen} \cup {Absent}]
    BY <1>1 DEF Init, NoObject
  <2>4. open = {} /\ nextId = 1
    BY <1>1 DEF Init
  <2> QED BY <2>1, <2>2, <2>3, <2>4 DEF Kept
<1>3. Planned
  <2>1. ToSet(plan) = {}
    BY <1>1 DEF Init, ToSet
  <2> QED BY <1>1, <2>1 DEF Init, Planned
<1>4. Working
  <2>1. Current = {} /\ Cardinality(air) <= Workers
    BY <1>1, FS_EmptySet, PushAssumption DEF Init, NoUpload, Current
  <2> QED BY <1>1, <2>1 DEF Init, NoUpload, Working, Sending, Uploading
<1>5. Passed
  BY <1>1 DEF Init, Passed
<1> QED BY <1>2, <1>3, <1>4, <1>5 DEF PInv

LEMMA PNext == PInv /\ [Next]_vars => PInv'
<1> SUFFICES ASSUME PInv, [Next]_vars PROVE PInv'
  OBVIOUS
<1>1. ASSUME UNCHANGED vars PROVE PInv'
  <2>1. UNCHANGED <<local, bucket, walked, loop, mpu, ctx, pc>>
    BY <1>1 DEF vars
  <2>2. local' \in [Files -> 0 .. MaxLen] /\ ctx' \in {"live", "canceled", "deadline"}
    BY <2>1 DEF PInv, Kept, Working
  <2> QED BY <2>1, <2>2, PElsewhere
<1>2. ASSUME Progress PROVE PInv'
  <2>1. CASE NextFile
    BY <2>1, PElsewhere DEF NextFile, PInv, Kept, Working
  <2>2. CASE Return
    BY <2>2, PGone DEF Return
  <2>3. CASE Opens \/ PartsFail \/ PartsEnd
    BY <2>3, PSame DEF Opens, PartsFail, PartsEnd, Sending
  <2>4. CASE Create
    BY <2>4, PCreate
  <2>5. CASE \E j \in queue \cup air : Take(j) \/ Part(j) \/ PartFails(j)
    <3>1. PICK j \in queue \cup air : Take(j) \/ Part(j) \/ PartFails(j)
      BY <2>5
    <3>2. CASE Part(j)
      BY <3>2, PPart DEF Part
    <3> QED BY <3>1, <3>2, PTakeFail
  <2>6. CASE OpenFails \/ Put \/ PutFails \/ CreateFails \/ Abort \/ Complete \/ CompleteAgain \/ CompleteFails
    BY <2>6, PEnds
  <2> QED BY <1>2, <2>1, <2>2, <2>3, <2>4, <2>5, <2>6 DEF Progress
<1>3. ASSUME NEW why \in {"canceled", "deadline"}, Cancel(why) PROVE PInv'
  <2>1. CASE pc \in Sending
    BY <1>3, <2>1, PSame
  <2>2. CASE pc \notin Sending
    BY <1>3, PElsewhere DEF Cancel, PInv, Kept
  <2> QED BY <2>1, <2>2
<1>4. ASSUME NEW f \in Files, NEW k \in 0 .. MaxLen, Resize(f, k) PROVE PInv'
  BY <1>4, PElsewhere DEF Resize, PInv, Kept, Working
<1>5. ASSUME BeginsNothing PROVE PInv'
  BY <1>5, PElsewhere DEF BeginsNothing, PInv, Kept, Working
<1>6. ASSUME PutLost PROVE PInv'
  BY <1>6, PSame DEF PutLost, Sending
<1>7. ASSUME NEW j \in air, PartLost(j) PROVE PInv'
  BY <1>7, PPart
<1>8. ASSUME Kill PROVE PInv'
  BY <1>8, PGone DEF Kill
<1>9. ASSUME Rest PROVE PInv'
  BY <1>1, <1>9 DEF Rest
<1>10. ASSUME CalmNext PROVE PInv'
  BY <1>2, <1>3, <1>4, <1>5, <1>9, <1>10, PBegin DEF CalmNext
<1> QED BY <1>1, <1>6, <1>7, <1>8, <1>10, PCreate, PCompleteLost, PEnds DEF Next

LEMMA PInvariant == Spec => []PInv
BY PInit, PNext, PTL DEF Spec

-----------------------------------------------------------------------------
(* What push promises *)

\* Every value is one the code or the server can put there, and the two agree
\* on the upload in progress, whatever fails, is repeated or is cut short.
THEOREM PushTypeCorrect == Spec => []TypeOK
<1>1. PInv => TypeOK
  <2>1. SUFFICES ASSUME PInv PROVE TypeOK
    OBVIOUS
  <2>2. \A f \in Files : remote[f] = Absent \/ (remote[f].sum \in 0 .. MaxLen /\ remote[f].body \subseteq 0 .. MaxLen - 1)
    <3>1. SUFFICES ASSUME NEW f \in Files, remote[f] # Absent
                   PROVE  remote[f].sum \in 0 .. MaxLen /\ remote[f].body \subseteq 0 .. MaxLen - 1
      OBVIOUS
    <3>2. PICK k \in 0 .. MaxLen : remote[f] = Object(k)
      BY <2>1, <3>1 DEF PInv, Kept
    <3>3. k \in Nat /\ k <= MaxLen /\ MaxLen \in Nat
      BY PushAssumption
    <3>4. remote[f].sum = k /\ remote[f].body = 0 .. k - 1
      BY <3>2, <3>3, ObjectFacts
    <3> QED BY <3>3, <3>4
  <2>3. ToSet(todo) \subseteq ToSet(plan)
    <3>1. Len(todo) \in Nat /\ Len(plan) \in Nat /\ Len(todo) <= Len(plan)
      BY <2>1 DEF PInv, Planned
    <3>2. \A i \in 1 .. Len(todo) : Len(plan) - Len(todo) + i \in 1 .. Len(plan)
      BY <3>1
    <3>3. DOMAIN todo = 1 .. Len(todo) /\ DOMAIN plan = 1 .. Len(plan)
      BY <2>1 DEF PInv, Planned
    <3>4. \A i \in 1 .. Len(todo) : todo[i] = plan[Len(plan) - Len(todo) + i]
      BY <2>1 DEF PInv, Planned
    <3>5. ASSUME NEW f \in ToSet(todo) PROVE f \in ToSet(plan)
      <4>1. PICK i \in 1 .. Len(todo) : todo[i] = f
        BY <3>3, <3>5 DEF ToSet
      <4> DEFINE k == Len(plan) - Len(todo) + i
      <4>2. k \in 1 .. Len(plan) /\ plan[k] = f
        BY <3>2, <3>4, <4>1
      <4> HIDE DEF k
      <4> QED BY <3>3, <4>2 DEF ToSet
    <3> QED BY <3>5
  <2>4. queue \cup air \cup stored \subseteq 0 .. MaxLen - 1
    <3>1. CASE pc \in Uploading
      <4>1. cur \in Files
        BY <2>1, <3>1, CurFacts DEF PInv, Working, Uploading, Sending
      <4>2. want[cur] \in 0 .. MaxLen
        BY <2>1, <4>1 DEF PInv, Kept
      <4> QED BY <2>1, <3>1, <4>2, PushAssumption DEF PInv, Working
    <3> QED BY <2>1, <3>1 DEF PInv, Working
  <2> QED BY <2>1, <2>2, <2>3, <2>4 DEF PInv, Kept, Planned, Working, Sending, TypeOK
<1> QED BY <1>1, PInvariant, PTL

\* No reader of the bucket ever sees a torn object, and each carries the digest
\* of its own bytes, for files of any length that grow and shrink at any time.
THEOREM PushWholeObjects == Spec => []WholeObjects
<1>1. PInv => WholeObjects
  <2>1. SUFFICES ASSUME PInv, NEW f \in Files, remote[f] # Absent
                 PROVE  remote[f] = Object(remote[f].sum)
    BY DEF WholeObjects
  <2>2. PICK k \in 0 .. MaxLen : remote[f] = Object(k)
    BY <2>1 DEF PInv, Kept
  <2> QED BY <2>2, ObjectFacts
<1> QED BY <1>1, PInvariant, PTL

\* Wherever a run is cut short, what it has published is a prefix of its newest
\* files, but for those whose upload failed.
THEOREM PushNewestPrefix == Spec => []NewestPrefix
<1>1. PInv => NewestPrefix
  <2>1. SUFFICES ASSUME PInv, NEW i \in DOMAIN plan, NEW j \in DOMAIN plan,
                        i < j, remote[plan[j]] # before[plan[j]]
                 PROVE  plan[i] \in failed \/ OnB2(plan[i], want[plan[i]])
    BY DEF NewestPrefix
  <2>2. DOMAIN plan = 1 .. Len(plan) /\ Len(plan) \in Nat /\ Len(todo) \in Nat
    BY <2>1 DEF PInv, Planned
  <2>3. j <= Len(plan) - Len(todo) + 1
    BY <2>1, <2>2 DEF PInv, Passed
  <2>4. i \in 1 .. Len(plan) - Len(todo)
    BY <2>1, <2>2, <2>3
  <2> QED BY <2>1, <2>4 DEF PInv, Passed
<1> QED BY <1>1, PInvariant, PTL

\* A run that was not interrupted returns with every file its walk yielded in
\* the bucket at its walked length, but those whose own upload failed.
THEOREM PushOthersArrive == Spec => OthersArrive
<1>1. PInv /\ [Next]_vars =>
        [Return /\ ctx = "live" => \A f \in seen : f \in failed \/ OnB2(f, want[f])]_vars
  <2>1. SUFFICES ASSUME PInv, Return, ctx = "live", NEW f \in seen
                 PROVE  f \in failed \/ OnB2(f, want[f])
    OBVIOUS
  <2>2. todo = <<>> /\ pc # "idle"
    BY <2>1 DEF Return
  <2>3. Len(plan) \in Nat /\ DOMAIN plan = 1 .. Len(plan) /\ Len(plan) - Len(todo) = Len(plan)
    BY <2>1, <2>2 DEF PInv, Planned
  <2>4. CASE f \in ToSet(plan)
    <3>1. PICK i \in 1 .. Len(plan) : plan[i] = f
      BY <2>3, <2>4 DEF ToSet
    <3> QED BY <2>1, <2>3, <3>1 DEF PInv, Passed
  <2>5. CASE f \notin ToSet(plan)
    BY <2>1, <2>2, <2>5 DEF PInv, Passed
  <2> QED BY <2>4, <2>5
<1> QED BY <1>1, PInvariant, PTL DEF Spec, OthersArrive
=============================================================================
