----------------------------- MODULE PullTypes ------------------------------
(***************************************************************************)
(* Type correctness of Pull, in the harsh world and so in the calm one.    *)
(***************************************************************************)
EXTENDS PullProps, TLAPS

\* The names of the command line that is running.
Targets == {n \in Names : verdict[n] # "none"}

\* A run's targets share no state entry and no path.
Distinct ==
  \A m, n \in Targets : RelOf[m] = RelOf[n] \/ DstOf[m] = DstOf[n] => m = n

\* What is fetched has an entry for the version listed.
Planned ==
  \A n \in NeedsFile : db[RelOf[n]] # NoEntry /\ db[RelOf[n]].etag = ver[n]

Sized(n) == RightSize(partial[DstOf[n]], ver[n])

\* Where the loops over the targets stand, and which partial files are open.
Opened ==
  /\ pc = "idle" => NoProcess
  /\ pc = "queued" => \A n \in NeedsFile \ todo : Sized(n)
  /\ pc = "drain" => todo = NeedsFile
  /\ pc \in {"drain", "promote"} => \A n \in todo : Sized(n)
  /\ pc # "promote" => asked = {}

TInv == TypeOK /\ Distinct /\ Planned /\ Opened

USE ConstantsAssumption, SentinelsAssumption

-----------------------------------------------------------------------------
\* A file as long as version v holds one unit per part of v.
LEMMA FileShape ==
  ASSUME NEW f \in File, NEW v \in Versions, DOMAIN f = Parts(v)
  PROVE  f \in [Parts(v) -> Versions \cup {Junk}]
<1>1. CASE f = Empty
  <2>1. Parts(v) = {} /\ f = [i \in Parts(v) |-> Junk]
    BY <1>1 DEF Empty
  <2> QED
    BY <2>1
<1>2. CASE f # Empty
  <2>1. PICK w \in Versions : f \in [Parts(w) -> Versions \cup {Junk}]
    BY <1>2 DEF File
  <2>2. Parts(w) = Parts(v)
    BY <2>1
  <2> QED
    BY <2>1, <2>2
<1> QED
  BY <1>1, <1>2

\* ... and conversely such functions are files.
LEMMA ShapeFile ==
  ASSUME NEW v \in Versions, NEW f \in [Parts(v) -> Versions \cup {Junk}]
  PROVE  f \in File /\ f # NoFile /\ RightSize(f, v)
<1>1. f \in File
  BY DEF File
<1>2. f # NoFile
  BY <1>1
<1>3. DOMAIN f = Parts(v)
  OBVIOUS
<1> QED
  BY <1>1, <1>2, <1>3 DEF RightSize

\* Extending or cutting a file to the size of v makes a file of v's size.
LEMMA TruncatedFile ==
  ASSUME NEW f \in File \cup {NoFile}, NEW v \in Versions
  PROVE  Truncated(f, v) \in [Parts(v) -> Versions \cup {Junk}]
<1>1. ASSUME NEW i \in Parts(v), f # NoFile, i \in DOMAIN f
      PROVE  f[i] \in Versions \cup {Junk}
  <2>1. CASE f = Empty
    BY <1>1, <2>1 DEF Empty
  <2>2. CASE f # Empty
    <3>1. PICK w \in Versions : f \in [Parts(w) -> Versions \cup {Junk}]
      BY <1>1, <2>2 DEF File
    <3> QED
      BY <1>1, <3>1
  <2> QED
    BY <2>1, <2>2
<1>2. QED
  BY <1>1 DEF Truncated

\* Writing one part keeps a file a file of its size.
LEMMA WrittenFile ==
  ASSUME NEW v \in Versions, NEW f \in File, RightSize(f, v),
         NEW i \in Parts(v), NEW u \in Versions \cup {Junk}
  PROVE  [f EXCEPT ![i] = u] \in [Parts(v) -> Versions \cup {Junk}]
BY FileShape DEF RightSize

\* Marking a part the object has keeps the entry well formed.
LEMMA MarkedEntry ==
  ASSUME NEW e \in Entry, Fits(e), NEW i \in Parts(e.etag)
  PROVE  Marked(e, i) \in Entry /\ Marked(e, i).etag = e.etag /\ Fits(Marked(e, i))
<1>1. CASE i \in e.done
  BY <1>1 DEF Marked
<1>2. CASE i \notin e.done /\ e.nparts > 0 /\ Cardinality(e.done \cup {i}) >= e.nparts
  BY <1>2 DEF Marked, Entry, Fits
<1>3. CASE i \notin e.done /\ ~(e.nparts > 0 /\ Cardinality(e.done \cup {i}) >= e.nparts)
  <2>1. Marked(e, i) = [e EXCEPT !.done = @ \cup {i}]
    BY <1>3 DEF Marked
  <2>2. i \in Nat
    BY DEF Parts, Entry
  <2> QED
    BY <2>1, <2>2 DEF Entry, Fits
<1> QED
  BY <1>1, <1>2, <1>3

\* The calm world's steps are steps of the harsh one.
LEMMA CalmIsHarsh == Next => HarshNext
BY DEF Next, HarshNext

-----------------------------------------------------------------------------
LEMMA TInit == Init => TInv
<1> SUFFICES ASSUME Init PROVE TInv
  OBVIOUS
<1>1. \A v \in Versions : Whole(v) \in File
  BY ShapeFile DEF Whole
<1>2. TypeOK
  <2>1. NeedsFile = {} /\ Pending = {}
    BY DEF Init, NoProcess, NoVerdict, NeedsFile, Pending
  <2>2. final \in [Paths -> File \cup {NoFile}]
    BY <1>1 DEF Init
  <2> QED
    BY <2>1, <2>2 DEF Init, NoProcess, NoVerdict, NoTargets, NoState, NoneHeld, TypeOK, Fits
<1>3. Distinct /\ Planned /\ Opened
  BY DEF Init, NoProcess, NoVerdict, NeedsFile, Distinct, Targets, Planned, Opened
<1> QED
  BY <1>2, <1>3 DEF TInv

-----------------------------------------------------------------------------
\* Returning or dying leaves no process, whatever became of the disk.
LEMMA TReturn ==
  ASSUME TInv, Return, UNCHANGED bucket, runs' \in Nat, events' \in Nat,
         partial' \in [Paths -> File \cup {NoFile}],
         final' \in [Paths -> File \cup {NoFile}],
         durable' \in [Rels -> Entry \cup {NoEntry}],
         \A l \in Rels : Fits(durable'[l])
  PROVE  TInv'
<1>1. NeedsFile' = {} /\ Pending' = {} /\ Targets' = {}
  BY DEF Return, NoVerdict, NeedsFile, Pending, Targets
<1>2. TypeOK'
  BY <1>1 DEF TInv, TypeOK, Return, NoVerdict, NoTargets, NoState, NoneHeld, Fits, bucket
<1>3. Distinct' /\ Planned' /\ Opened'
  BY <1>1 DEF Distinct, Planned, Opened, Return, NoProcess
<1> QED
  BY <1>2, <1>3 DEF TInv

\* Saving puts nothing but well-formed entries on the disk.
LEMMA TSave ==
  ASSUME TInv, Save
  PROVE  /\ durable' \in [Rels -> Entry \cup {NoEntry}]
         /\ \A l \in Rels : Fits(durable'[l])
<1>1. durable' = db \/ durable' = durable \/ durable' = NoState
  BY DEF Save
<1> QED
  BY <1>1 DEF TInv, TypeOK, Fits, NoState

\* The entries of a run that begins: what is fetched is entered for the version
\* listed, and nothing but well-formed entries is added to those on the disk.
LEMMA EnteredState ==
  ASSUME TInv, NEW r \in Requests,
         NEW vd \in [Names -> {"none", "complete", "resume", "transfer"}],
         \A n \in Listed(r) : vd[n] = "resume" => Resumable(n, remote[KeyOf[n]])
  PROVE  /\ Entered(Listed(r), vd) \in [Rels -> Entry \cup {NoEntry}]
         /\ \A l \in Rels : Fits(Entered(Listed(r), vd)[l])
         /\ \A n \in Listed(r) : vd[n] \in {"resume", "transfer"} =>
              LET e == Entered(Listed(r), vd)[RelOf[n]]
              IN  e # NoEntry /\ e.etag = remote[KeyOf[n]]
<1> DEFINE listed == Listed(r)
           db1 == Entered(listed, vd)
<1>1. listed \subseteq r /\ \A n \in listed : n \in Names /\ remote[KeyOf[n]] \in Versions
  BY DEF Listed, TInv, TypeOK
<1>2. \A v \in Versions : /\ Adopted(v) \in Entry /\ Fits(Adopted(v))
                          /\ Fresh(v) \in Entry /\ Fits(Fresh(v)) /\ Fresh(v).etag = v
  BY DEF Adopted, Fresh, Entry, Fits
<1>3. ASSUME NEW n \in listed, vd[n] # "resume"
      PROVE  db1[RelOf[n]] = IF vd[n] = "complete" THEN Adopted(remote[KeyOf[n]])
                                                  ELSE Fresh(remote[KeyOf[n]])
  <2>1. n = CHOOSE m \in listed : RelOf[m] = RelOf[n]
    <3>1. \A m \in listed : RelOf[m] = RelOf[n] => m = n
      BY <1>1, RequestsAssumption
    <3> QED
      BY <3>1
  <2>2. RelOf[n] \in Rels
    BY <1>1
  <2> QED
    BY <1>3, <2>1, <2>2 DEF Entered
<1>4. ASSUME NEW l \in Rels, ~ \E n \in listed : RelOf[n] = l /\ vd[n] # "resume"
      PROVE  db1[l] = durable[l]
  BY <1>4 DEF Entered
<1>5. ASSUME NEW l \in Rels
      PROVE  db1[l] \in Entry \cup {NoEntry} /\ Fits(db1[l])
  <2>1. CASE \E n \in listed : RelOf[n] = l /\ vd[n] # "resume"
    BY <1>1, <1>2, <1>3, <2>1
  <2>2. CASE ~ \E n \in listed : RelOf[n] = l /\ vd[n] # "resume"
    BY <1>4, <2>2 DEF TInv, TypeOK
  <2> QED
    BY <2>1, <2>2
<1>6. ASSUME NEW n \in listed, vd[n] \in {"resume", "transfer"}
      PROVE  db1[RelOf[n]] # NoEntry /\ db1[RelOf[n]].etag = remote[KeyOf[n]]
  <2>1. CASE vd[n] = "transfer"
    BY <1>1, <1>2, <1>3, <2>1
  <2>2. CASE vd[n] = "resume"
    <3>1. ~ \E m \in listed : RelOf[m] = RelOf[n] /\ vd[m] # "resume"
      BY <1>1, <2>2, RequestsAssumption
    <3>2. db1[RelOf[n]] = durable[RelOf[n]]
      BY <1>1, <1>4, <3>1
    <3> QED
      BY <2>2, <3>2 DEF Resumable
  <2> QED
    BY <1>6, <2>1, <2>2
<1>7. db1 = [l \in Rels |-> db1[l]]
  BY DEF Entered
<1> QED
  BY <1>5, <1>6, <1>7

\* The parts a run wants of an object are parts the object has.
LEMMA WantedParts ==
  ASSUME TInv, NEW r \in Requests, NEW n \in Listed(r),
         NEW vd \in {"complete", "resume", "transfer"},
         vd = "resume" => Resumable(n, remote[KeyOf[n]])
  PROVE  Wanted(n, vd) \subseteq Parts(remote[KeyOf[n]])
<1>1. CASE vd = "resume"
  <2> DEFINE e == durable[RelOf[n]]
  <2>1. n \in Names /\ RelOf[n] \in Rels
    BY DEF Listed
  <2>2. ~e.complete /\ e # NoEntry /\ e.etag = remote[KeyOf[n]] /\ Fits(e)
    BY <1>1, <2>1 DEF Resumable, TInv, TypeOK
  <2>3. MissingParts(e) \subseteq Parts(remote[KeyOf[n]])
    BY <2>2 DEF MissingParts, Fits, Parts
  <2> QED
    BY <1>1, <2>3 DEF Wanted
<1>2. CASE vd # "resume"
  BY <1>2 DEF Wanted
<1> QED
  BY <1>1, <1>2

LEMMA TBegin ==
  ASSUME TInv, NEW r \in Requests, Begin(r)
  PROVE  TInv'
<1> DEFINE listed == Listed(r)
           vd == [n \in Names |->
                    IF n \in listed THEN DecideSkip(n, remote[KeyOf[n]]) ELSE "none"]
<1>1. /\ pc' = "queued" /\ verdict' = vd
      /\ ver' = [n \in Names |-> IF n \in listed THEN remote[KeyOf[n]] ELSE Absent]
      /\ db' = Entered(listed, vd)
      /\ queue' = UNION {{n} \X Wanted(n, vd[n]) : n \in listed}
      /\ todo' = {n \in listed : vd[n] # "complete"}
      /\ held' = [k \in Keys |-> {remote[k]}]
      /\ UNCHANGED <<bucket, disk, asked, air, landed, done, werr, ctx>>
      /\ pc = "idle" /\ Issued
  BY DEF Begin
<1>2. /\ listed \subseteq r /\ listed \subseteq Names
      /\ \A n \in listed : remote[KeyOf[n]] \in Versions
  BY DEF Listed, TInv, TypeOK
<1>3. /\ vd \in [Names -> {"none", "complete", "resume", "transfer"}]
      /\ \A n \in listed : /\ vd[n] \in {"complete", "resume", "transfer"}
                           /\ vd[n] = "resume" => Resumable(n, remote[KeyOf[n]])
      /\ \A n \in Names \ listed : vd[n] = "none"
  BY <1>2 DEF DecideSkip
<1> HIDE DEF listed, vd
<1>4. NeedsFile' = todo' /\ Targets' = listed
  BY <1>1, <1>2, <1>3 DEF NeedsFile, Targets
<1>5. air = {} /\ landed = {} /\ asked = {}
  BY <1>1 DEF TInv, Opened, NoProcess
<1>6. ASSUME NEW j \in queue'
      PROVE  j \in todo' \X Nat /\ j[2] \in Parts(ver'[j[1]])
  <2>1. PICK n \in listed : j \in {n} \X Wanted(n, vd[n])
    BY <1>1, <1>6
  <2>2. Wanted(n, vd[n]) \subseteq Parts(remote[KeyOf[n]])
    BY <1>3, WantedParts DEF listed
  <2>3. vd[n] # "complete"
    BY <2>1 DEF Wanted
  <2>4. j = <<n, j[2]>> /\ j[2] \in Parts(remote[KeyOf[n]])
    BY <2>1, <2>2
  <2>5. ver'[n] = remote[KeyOf[n]] /\ Parts(remote[KeyOf[n]]) \subseteq Nat
    BY <1>1, <1>2 DEF Parts
  <2> QED
    BY <1>1, <2>3, <2>4, <2>5
<1>7. TypeOK'
  <2> USE DEF listed
  <2>1. /\ db' \in [Rels -> Entry \cup {NoEntry}]
        /\ \A l \in Rels : Fits(db'[l]) /\ Fits(durable'[l])
    BY <1>1, <1>3, EnteredState DEF TInv, TypeOK, disk
  <2>2. Pending' = queue'
    BY <1>1, <1>5 DEF Pending
  <2>3. \A n \in NeedsFile' : ver'[n] # Absent
    BY <1>1, <1>2, <1>4
  <2>4. /\ Pending' \subseteq NeedsFile' \X Nat
        /\ \A j \in Pending' : j[2] \in Parts(ver'[j[1]])
    BY <1>4, <1>6, <2>2
  <2>5. ver' \in [Names -> Versions \cup {Absent}]
    BY <1>1, <1>2
  <2>6. verdict' \in [Names -> {"none", "complete", "resume", "transfer"}]
    BY <1>1, <1>3
  <2>7. runs' \in Nat /\ events' \in Nat
    BY <1>1 DEF Issued, TInv, TypeOK
  <2>8. held' \in [Keys -> SUBSET (Versions \cup {Absent})] /\ asked' = {}
    BY <1>1, <1>5 DEF TInv, TypeOK
  <2> QED
    BY <1>1, <1>4, <2>1, <2>3, <2>4, <2>5, <2>6, <2>7, <2>8 DEF TInv, TypeOK, bucket, disk
<1>8. Distinct'
  BY <1>2, <1>4, RequestsAssumption DEF Distinct
<1>9. Planned'
  <2>1. \A n \in NeedsFile' : ver'[n] = remote[KeyOf[n]] /\ vd[n] \in {"resume", "transfer"}
    BY <1>1, <1>2, <1>3, <1>4
  <2>2. \A n \in listed : vd[n] \in {"resume", "transfer"} =>
          db'[RelOf[n]] # NoEntry /\ db'[RelOf[n]].etag = remote[KeyOf[n]]
    BY <1>1, <1>3, EnteredState DEF listed
  <2> QED
    BY <1>1, <1>4, <2>1, <2>2 DEF Planned
<1>10. Opened'
  BY <1>1, <1>4, <1>5 DEF Opened
<1> QED
  BY <1>7, <1>8, <1>9, <1>10 DEF TInv

-----------------------------------------------------------------------------
\* What is known of a job of the drain.
LEMMA JobFacts ==
  ASSUME TInv, pc = "drain", NEW j \in Pending
  PROVE  /\ j = <<j[1], j[2]>>
         /\ j[1] \in NeedsFile /\ j[1] \in Names /\ j[1] \in Targets
         /\ ver[j[1]] \in Versions /\ j[2] \in Parts(ver[j[1]])
         /\ Sized(j[1]) /\ partial[DstOf[j[1]]] \in File
         /\ RelOf[j[1]] \in Rels /\ DstOf[j[1]] \in Paths /\ KeyOf[j[1]] \in Keys
<1>1. j[1] \in NeedsFile /\ j = <<j[1], j[2]>>
  BY DEF TInv, TypeOK
<1>2. j[1] \in Names /\ j[1] \in Targets
  BY <1>1 DEF NeedsFile, Targets
<1>3. ver[j[1]] \in Versions /\ j[2] \in Parts(ver[j[1]])
  BY <1>1, <1>2 DEF TInv, TypeOK
<1>4. Sized(j[1])
  BY <1>1 DEF TInv, Opened
<1>5. partial[DstOf[j[1]]] \in File
  BY <1>2, <1>4 DEF TInv, TypeOK, Sized, RightSize
<1> QED
  BY <1>1, <1>2, <1>3, <1>4, <1>5

\* Writing a part of a job leaves every partial file a file, of its size.
LEMMA TWrite ==
  ASSUME TInv, pc = "drain", NEW j \in Pending,
         NEW u \in Versions \cup {Junk}, WritePart(j, u)
  PROVE  /\ partial' \in [Paths -> File \cup {NoFile}]
         /\ \A n \in NeedsFile : RightSize(partial'[DstOf[n]], ver[n])
<1> DEFINE p == DstOf[j[1]]
           v == ver[j[1]]
           f == [partial[p] EXCEPT ![j[2]] = u]
<1>1. p \in Paths /\ v \in Versions
  BY JobFacts
<1>2. f \in [Parts(v) -> Versions \cup {Junk}]
  BY JobFacts, WrittenFile DEF Sized
<1>3. f \in File /\ RightSize(f, v)
  BY <1>1, <1>2, ShapeFile
<1>4. partial' = [partial EXCEPT ![p] = f]
  BY DEF WritePart
<1>5. partial \in [Paths -> File \cup {NoFile}]
  BY DEF TInv, TypeOK
<1>6. ASSUME NEW n \in NeedsFile
      PROVE  RightSize(partial'[DstOf[n]], ver[n])
  <2>1. n \in Names /\ n \in Targets /\ j[1] \in Targets
    BY JobFacts DEF NeedsFile, Targets
  <2>2. CASE DstOf[n] = p
    <3>1. n = j[1]
      BY <2>1, <2>2 DEF TInv, Distinct
    <3> QED
      BY <1>1, <1>3, <1>4, <1>5, <3>1
  <2>3. CASE DstOf[n] # p
    BY <1>4, <1>5, <2>1, <2>3 DEF TInv, Opened, Sized
  <2> QED
    BY <2>2, <2>3
<1> HIDE DEF f, p, v
<1> QED
  BY <1>1, <1>3, <1>4, <1>5, <1>6

LEMMA TTake ==
  ASSUME TInv, NEW j, Take(j)
  PROVE  TInv'
<1>1. Pending' = Pending /\ NeedsFile' = NeedsFile /\ Targets' = Targets
  BY DEF Take, Pending, NeedsFile, Targets, planned
<1>2. TypeOK'
  BY <1>1 DEF TInv, TypeOK, Take, bucket, disk, planned, bounds
<1>3. Distinct' /\ Planned' /\ Opened'
  BY <1>1 DEF TInv, Distinct, Planned, Opened, Sized, Take, bucket, disk, planned
<1> QED
  BY <1>2, <1>3 DEF TInv

\* A step that writes a part, or none, and hands out no new job.
LEMMA TFetch ==
  ASSUME TInv, pc = "drain", NEW j \in Pending,
         NEW u \in Versions \cup {Junk}, WritePart(j, u) \/ UNCHANGED partial,
         Pending' \subseteq Pending, werr' \in BOOLEAN,
         UNCHANGED <<bucket, final, durable, pc, db, planned, todo, done, ctx>>,
         runs' \in Nat, events' \in Nat
  PROVE  TInv'
<1>1. NeedsFile' = NeedsFile /\ Targets' = Targets
  BY DEF NeedsFile, Targets, planned
<1>2. /\ partial' \in [Paths -> File \cup {NoFile}]
      /\ \A n \in NeedsFile : RightSize(partial'[DstOf[n]], ver[n])
  BY TWrite DEF TInv, TypeOK, Opened, Sized
<1>3. TypeOK'
  BY <1>1, <1>2 DEF TInv, TypeOK, bucket, planned
<1>4. Distinct' /\ Planned' /\ Opened'
  BY <1>1, <1>2 DEF TInv, Distinct, Planned, Opened, Sized, planned
<1> QED
  BY <1>3, <1>4 DEF TInv

LEMMA TLandRetryFail ==
  ASSUME TInv, NEW j, Land(j) \/ Retry(j) \/ FetchFails(j)
  PROVE  TInv'
<1>1. pc = "drain" /\ j \in air /\ j \in Pending
  BY DEF Land, Retry, FetchFails, Pending
<1>2. CASE Land(j)
  <2>1. remote[KeyOf[j[1]]] \in Versions
    BY <1>1, <1>2, JobFacts DEF Land, Served, TInv, TypeOK
  <2>2. Pending' \subseteq Pending /\ werr' \in BOOLEAN /\ runs' \in Nat /\ events' \in Nat
    BY <1>1, <1>2 DEF Land, Pending, TInv, TypeOK, bounds
  <2> QED
    BY <1>1, <1>2, <2>1, <2>2, TFetch DEF Land
<1>3. CASE Retry(j)
  <2>1. Pending' \subseteq Pending /\ werr' \in BOOLEAN /\ runs' \in Nat /\ events' \in Nat
    BY <1>1, <1>3 DEF Retry, Pending, TInv, TypeOK, pool, Happens
  <2> QED
    BY <1>1, <1>3, <2>1, TFetch DEF Retry, pool
<1>4. CASE FetchFails(j)
  <2>1. Pending' \subseteq Pending /\ werr' \in BOOLEAN /\ runs' \in Nat /\ events' \in Nat
    BY <1>1, <1>4 DEF FetchFails, Pending, TInv, TypeOK, bounds
  <2> QED
    BY <1>1, <1>4, <2>1, TFetch DEF FetchFails
<1> QED
  BY <1>2, <1>3, <1>4

LEMMA TMark ==
  ASSUME TInv, NEW j, Mark(j)
  PROVE  TInv'
<1> DEFINE l == RelOf[j[1]]
           e == Marked(db[l], j[2])
<1>1. pc = "drain" /\ j \in Pending
  BY DEF Mark, Pending
<1>2. /\ db' = [db EXCEPT ![l] = e]
      /\ done' = IF e.complete THEN done \cup {l} ELSE done
      /\ landed' = landed \ {j}
      /\ UNCHANGED <<bucket, disk, pc, planned, todo, queue, air, werr, ctx, bounds>>
  BY DEF Mark
<1>3. l \in Rels
  BY <1>1, JobFacts
<1>4. db[l] \in Entry /\ Fits(db[l]) /\ db[l].etag = ver[j[1]]
  BY <1>1, <1>3, JobFacts DEF TInv, TypeOK, Planned
<1>5. e \in Entry /\ Fits(e) /\ e.etag = db[l].etag
  BY <1>1, <1>4, JobFacts, MarkedEntry
<1> HIDE DEF e, l
<1>6. Pending' \subseteq Pending /\ NeedsFile' = NeedsFile /\ Targets' = Targets
  BY <1>2 DEF Pending, NeedsFile, Targets, planned
<1>7. /\ db' \in [Rels -> Entry \cup {NoEntry}]
      /\ \A m \in Rels : Fits(db'[m])
  BY <1>2, <1>3, <1>4, <1>5 DEF TInv, TypeOK
<1>8. TypeOK'
  BY <1>2, <1>3, <1>6, <1>7 DEF TInv, TypeOK, bucket, disk, planned, bounds
<1>9. Planned'
  <2>1. ASSUME NEW n \in NeedsFile
        PROVE  db'[RelOf[n]] # NoEntry /\ db'[RelOf[n]].etag = ver[n]
    <3>1. RelOf[n] \in Rels /\ db[RelOf[n]].etag = ver[n] /\ db[RelOf[n]] # NoEntry
      BY DEF TInv, Planned, NeedsFile
    <3>2. CASE RelOf[n] = l
      BY <1>2, <1>3, <1>4, <1>5, <3>1, <3>2 DEF TInv, TypeOK
    <3>3. CASE RelOf[n] # l
      BY <1>2, <3>1, <3>3 DEF TInv, TypeOK
    <3> QED
      BY <3>2, <3>3
  <2> QED
    BY <1>2, <1>6, <2>1 DEF Planned, planned
<1>10. Distinct' /\ Opened'
  BY <1>1, <1>2, <1>6 DEF TInv, Distinct, Opened, Sized, disk, planned
<1> QED
  BY <1>8, <1>9, <1>10 DEF TInv

-----------------------------------------------------------------------------
LEMMA TPreallocate ==
  ASSUME TInv, NEW n \in Names, Preallocate(n)
  PROVE  TInv'
<1> DEFINE p == DstOf[n]
           f == Truncated(partial[p], ver[n])
<1>1. /\ pc = "queued" /\ n \in todo
      /\ partial' = [partial EXCEPT ![p] = f]
      /\ IF todo = {n} THEN pc' = "drain" /\ todo' = NeedsFile
                       ELSE pc' = pc /\ todo' = todo \ {n}
      /\ UNCHANGED <<bucket, final, durable, db, planned, pool, bounds>>
  BY DEF Preallocate, BiggestOf
<1>2. n \in NeedsFile /\ n \in Targets /\ p \in Paths /\ ver[n] \in Versions
  BY <1>1 DEF TInv, TypeOK, NeedsFile, Targets
<1>3. f \in [Parts(ver[n]) -> Versions \cup {Junk}]
  BY <1>2, TruncatedFile DEF TInv, TypeOK
<1>4. f \in File /\ RightSize(f, ver[n])
  BY <1>2, <1>3, ShapeFile
<1> HIDE DEF f, p
<1>5. NeedsFile' = NeedsFile /\ Targets' = Targets /\ Pending' = Pending
  BY <1>1 DEF NeedsFile, Targets, Pending, planned, pool
<1>6. partial' \in [Paths -> File \cup {NoFile}]
  BY <1>1, <1>2, <1>4 DEF TInv, TypeOK
<1>11. asked = {} /\ asked' = {}
  BY <1>1 DEF TInv, Opened, planned
<1>12. todo' \subseteq NeedsFile'
  BY <1>1, <1>5 DEF TInv, TypeOK
<1>7. TypeOK'
  BY <1>1, <1>5, <1>6, <1>11, <1>12 DEF TInv, TypeOK, bucket, planned, pool, bounds
<1>8. Distinct' /\ Planned'
  BY <1>1, <1>5 DEF TInv, Distinct, Planned, planned
<1>9. ASSUME NEW m \in NeedsFile, m \notin todo \ {n}
      PROVE  Sized(m)'
  <2>1. ver' = ver /\ m \in Names /\ DstOf[m] \in Paths
    BY <1>1 DEF planned, NeedsFile
  <2>2. CASE m = n
    BY <1>1, <1>2, <1>4, <2>1, <2>2 DEF Sized, TInv, TypeOK, p
  <2>3. CASE m # n
    <3>1. DstOf[m] # p
      BY <1>2, <2>3 DEF TInv, Distinct, NeedsFile, Targets, p
    <3>2. Sized(m)
      BY <1>1, <1>9, <2>3 DEF TInv, Opened
    <3> QED
      BY <1>1, <2>1, <3>1, <3>2 DEF Sized, TInv, TypeOK
  <2> QED
    BY <2>2, <2>3
<1>10. Opened'
  <2>1. CASE todo = {n}
    BY <1>1, <1>5, <1>9, <1>11, <2>1 DEF Opened
  <2>2. CASE todo # {n}
    BY <1>1, <1>5, <1>9, <1>11, <2>2 DEF Opened
  <2> QED
    BY <2>1, <2>2
<1> QED
  BY <1>7, <1>8, <1>10 DEF TInv

LEMMA TAskDigest ==
  ASSUME TInv, NEW n \in Names, AskDigest(n)
  PROVE  TInv'
<1>1. /\ pc = "promote" /\ n \in todo
      /\ UNCHANGED <<bucket, disk, pc, db, ver, verdict, held, todo, pool, bounds>>
  BY DEF AskDigest, BiggestOf
<1>2. PICK w \in Digests(n) : asked' = {<<n, w>>}
  BY DEF AskDigest
<1>3. w \in Versions \cup {Absent}
  BY <1>2 DEF Digests
<1>4. NeedsFile' = NeedsFile /\ Targets' = Targets /\ Pending' = Pending
  BY <1>1 DEF NeedsFile, Targets, Pending, pool
<1>5. asked' \subseteq todo' \X (Versions \cup {Absent})
  BY <1>1, <1>2, <1>3
<1>6. TypeOK'
  BY <1>1, <1>4, <1>5 DEF TInv, TypeOK, bucket, disk, pool, bounds
<1>7. Distinct' /\ Planned' /\ Opened'
  BY <1>1, <1>4 DEF TInv, Distinct, Planned, Opened, Sized, disk
<1> QED
  BY <1>6, <1>7 DEF TInv

\* What is known of the target that is promoted.
LEMMA PromoteFacts ==
  ASSUME TInv, NEW n, Promote(n)
  PROVE  /\ pc = "promote" /\ pc' = "promote" /\ n \in todo /\ todo' = todo \ {n}
         /\ n \in NeedsFile /\ n \in Names /\ n \in Targets
         /\ \E w \in Versions \cup {Absent} :
              <<n, w>> \in asked /\ (w \in Versions => partial[DstOf[n]] = Whole(w))
         /\ final' = [final EXCEPT ![DstOf[n]] = partial[DstOf[n]]]
         /\ partial' = [partial EXCEPT ![DstOf[n]] = NoFile]
         /\ asked' = {}
         /\ UNCHANGED <<bucket, durable, pc, db, ver, verdict, held, pool, bounds>>
<1>1. PICK w \in Versions \cup {Absent} :
        asked = {<<n, w>>} /\ (w \in Versions => partial[DstOf[n]] = Whole(w))
  BY DEF Promote
<1>2. n \in todo
  BY <1>1 DEF TInv, TypeOK
<1>3. n \in NeedsFile
  BY <1>2 DEF TInv, TypeOK
<1>4. <<n, w>> \in asked
  BY <1>1
<1> QED
  BY <1>1, <1>2, <1>3, <1>4 DEF Promote, NeedsFile, Targets

LEMMA TPromote ==
  ASSUME TInv, NEW n \in Names, Promote(n)
  PROVE  TInv'
<1>1. /\ pc = "promote" /\ n \in todo /\ todo' = todo \ {n} /\ asked' = {}
      /\ final' = [final EXCEPT ![DstOf[n]] = partial[DstOf[n]]]
      /\ partial' = [partial EXCEPT ![DstOf[n]] = NoFile]
      /\ UNCHANGED <<bucket, durable, pc, db, ver, verdict, held, pool, bounds>>
  BY PromoteFacts
<1>2. NeedsFile' = NeedsFile /\ Targets' = Targets /\ Pending' = Pending
  BY <1>1 DEF NeedsFile, Targets, Pending, pool
<1>3. DstOf[n] \in Paths
  OBVIOUS
<1>4. /\ partial' \in [Paths -> File \cup {NoFile}]
      /\ final' \in [Paths -> File \cup {NoFile}]
  BY <1>1, <1>3 DEF TInv, TypeOK
<1>5. TypeOK'
  BY <1>1, <1>2, <1>4 DEF TInv, TypeOK, bucket, pool, bounds
<1>6. Distinct' /\ Planned'
  BY <1>1, <1>2 DEF TInv, Distinct, Planned
<1>7. ASSUME NEW m \in todo'
      PROVE  Sized(m)'
  <2>1. Sized(m) /\ m \in Names /\ m # n /\ m \in Targets /\ n \in Targets
    BY <1>1 DEF TInv, TypeOK, Opened, NeedsFile, Targets
  <2>2. DstOf[m] # DstOf[n]
    BY <2>1 DEF TInv, Distinct
  <2> QED
    BY <1>1, <1>3, <2>1, <2>2 DEF Sized, TInv, TypeOK
<1>8. Opened'
  BY <1>1, <1>7 DEF Opened
<1> QED
  BY <1>5, <1>6, <1>8 DEF TInv

\* Steps that change the bucket, the disk or the bounds but not the run.
LEMMA TOutside ==
  ASSUME TInv,
         UNCHANGED <<pc, db, ver, verdict, asked, todo, queue, air, landed, done, werr>>,
         ctx' \in {"live", "guard", "signal"},
         pc # "drain" => ctx' = ctx,
         pc = "idle" => held' = held,
         held' \in [Keys -> SUBSET (Versions \cup {Absent})],
         UNCHANGED partial \/ pc = "idle",
         remote' \in [Keys -> Versions \cup {Absent}],
         seen' \in [Keys -> SUBSET (Versions \cup {Absent})],
         partial' \in [Paths -> File \cup {NoFile}],
         final' \in [Paths -> File \cup {NoFile}],
         durable' \in [Rels -> Entry \cup {NoEntry}],
         \A l \in Rels : Fits(durable'[l]),
         runs' \in Nat, events' \in Nat
  PROVE  TInv'
<1>1. NeedsFile' = NeedsFile /\ Targets' = Targets /\ Pending' = Pending
  BY DEF NeedsFile, Targets, Pending
<1>2. TypeOK'
  BY <1>1 DEF TInv, TypeOK
<1>3. Distinct' /\ Planned'
  BY <1>1 DEF TInv, Distinct, Planned
<1>4. Opened'
  BY <1>1 DEF TInv, Opened, Sized, NoProcess
<1> QED
  BY <1>2, <1>3, <1>4 DEF TInv

LEMMA TDrainEnds ==
  ASSUME TInv, DrainEnds
  PROVE  TInv'
<1>1. NeedsFile' = NeedsFile /\ Targets' = Targets /\ Pending' = Pending
  BY DEF DrainEnds, NeedsFile, Targets, Pending, planned, pool
<1>2. /\ durable' \in [Rels -> Entry \cup {NoEntry}]
      /\ \A l \in Rels : Fits(durable'[l])
  BY TSave DEF DrainEnds
<1>3. TypeOK'
  BY <1>1, <1>2 DEF DrainEnds, TInv, TypeOK, bucket, planned, pool, bounds
<1>4. Distinct' /\ Planned' /\ Opened'
  BY <1>1 DEF DrainEnds, TInv, Distinct, Planned, Opened, Sized, planned
<1> QED
  BY <1>3, <1>4 DEF TInv

LEMMA TStep == TInv /\ [HarshNext]_vars => TInv'
<1> SUFFICES ASSUME TInv, [HarshNext]_vars PROVE TInv'
  OBVIOUS
<1> USE DEF bounds, bucket, disk, pool, planned
<1>1. ASSUME NEW r \in Requests, Begin(r) PROVE TInv'
  BY <1>1, TBegin
<1>2. ASSUME NEW r \in Requests, BeginFails(r) PROVE TInv'
  BY <1>2, TOutside DEF BeginFails, Issued, TInv, TypeOK
<1>3. CASE NothingToDo
  BY <1>3, TReturn, TSave DEF NothingToDo, TInv, TypeOK
<1>4. CASE DryRun
  BY <1>4, TReturn DEF DryRun, TInv, TypeOK
<1>5. ASSUME NEW n \in Names, Preallocate(n) PROVE TInv'
  BY <1>5, TPreallocate
<1>6. ASSUME NEW n \in Names, PreallocateFails(n) PROVE TInv'
  <2>1. Empty \in File
    BY DEF File
  <2>2. partial \in [Paths -> File \cup {NoFile}]
    BY DEF TInv, TypeOK
  <2>3. partial' \in [Paths -> File \cup {NoFile}]
    BY <1>6, <2>1, <2>2 DEF PreallocateFails
  <2>4. /\ Return /\ UNCHANGED bucket
        /\ final' = final /\ durable' = durable /\ runs' = runs /\ events' = events
    BY <1>6 DEF PreallocateFails, bounds
  <2>5. /\ final' \in [Paths -> File \cup {NoFile}] /\ durable' \in [Rels -> Entry \cup {NoEntry}]
        /\ runs' \in Nat /\ events' \in Nat /\ \A l \in Rels : Fits(durable'[l])
    BY <2>4 DEF TInv, TypeOK
  <2> QED
    BY <2>3, <2>4, <2>5, TReturn
<1>7. ASSUME NEW j, Take(j) PROVE TInv'
  BY <1>7, TTake
<1>8. ASSUME NEW j, Land(j) \/ Retry(j) \/ FetchFails(j) PROVE TInv'
  BY <1>8, TLandRetryFail
<1>9. ASSUME NEW j, Mark(j) PROVE TInv'
  BY <1>9, TMark
<1>10. CASE Checkpoint
  BY <1>10, TSave, TOutside DEF Checkpoint, TInv, TypeOK
<1>11. ASSUME NEW why \in {"guard", "signal"}, Cancel(why) PROVE TInv'
  BY <1>11, TOutside DEF Cancel, TInv, TypeOK
<1>12. CASE DrainFails
  BY <1>12, TReturn, TSave DEF DrainFails, TInv, TypeOK
<1>13. CASE DrainEnds
  BY <1>13, TDrainEnds
<1>14. ASSUME NEW n \in Names, Promote(n) PROVE TInv'
  BY <1>14, TPromote
<1>24. ASSUME NEW n \in Names, AskDigest(n) PROVE TInv'
  BY <1>24, TAskDigest
<1>15. ASSUME NEW n \in Names, PromoteFails(n) PROVE TInv'
  BY <1>15, TReturn DEF PromoteFails, TInv, TypeOK
<1>16. CASE Finish
  BY <1>16, TReturn, TSave DEF Finish, TInv, TypeOK
<1>17. CASE Kill
  BY <1>17, TReturn DEF Kill, TInv, TypeOK
<1>18. ASSUME NEW k \in Keys, NEW v \in Versions \cup {Absent}, Store(k, v) PROVE TInv'
  BY <1>18, TOutside DEF Store, Happens, TInv, TypeOK
<1>19. CASE RemoveState
  BY <1>19, TOutside DEF RemoveState, Wipe, Happens, NoState, Fits, TInv, TypeOK
<1>20. ASSUME NEW p \in Paths, RemoveFinal(p) PROVE TInv'
  BY <1>20, TOutside DEF RemoveFinal, Wipe, Happens, TInv, TypeOK
<1>21. ASSUME NEW p \in Paths, RemovePartial(p) PROVE TInv'
  BY <1>21, TOutside DEF RemovePartial, Wipe, Happens, TInv, TypeOK
<1>22. CASE UNCHANGED vars
  BY <1>22, TOutside DEF vars, TInv, TypeOK
<1>23. Rest => UNCHANGED vars
  BY DEF Rest
<1> QED
  BY <1>1, <1>2, <1>3, <1>4, <1>5, <1>6, <1>7, <1>8, <1>9, <1>10, <1>11, <1>12,
     <1>13, <1>14, <1>15, <1>16, <1>17, <1>18, <1>19, <1>20, <1>21, <1>22, <1>23, <1>24
     DEF HarshNext, RunStep, Progress

\* However the bucket, the disk and the command line behave, every variable
\* keeps a value the code could have put there, no entry of state.json counts
\* parts its object has not, and no job asks for bytes beyond its object.
THEOREM TypeCorrectHarsh == HarshSpec => []TypeOK
<1>1. TInv => TypeOK
  BY DEF TInv
<1> QED
  BY TInit, TStep, <1>1, PTL DEF HarshSpec

\* The same of the calm world, as the runs check it.
THEOREM TypeCorrect == Spec => []TypeOK
<1>1. TInv => TypeOK
  BY DEF TInv
<1>2. TInv /\ [Next]_vars => TInv'
  BY TStep, CalmIsHarsh
<1> QED
  BY TInit, <1>1, <1>2, PTL DEF Spec
=============================================================================
