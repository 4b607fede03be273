----------------------------- MODULE PullSafety -----------------------------
(***************************************************************************)
(* The safety of Pull for every value of the constants.                    *)
(*                                                                         *)
(* In the calm world, where names agree and either no save is lost or no   *)
(* whole file is removed by hand, the inductive invariant says that every  *)
(* part recorded for the object now in the bucket, in memory (db) or on    *)
(* the disk (durable), is in the partial file, or else the whole file is   *)
(* already at its path; that no pending job contradicts either record; and *)
(* that a partial file whose last part was marked is whole.                *)
(*                                                                         *)
(* In the harsh world --verify alone keeps torn files from the paths.      *)
(* And as long as no object is empty, a run forgets no part and exit 0     *)
(* means that everything listed is at its path, calm or harsh.             *)
(***************************************************************************)
EXTENDS PullTypes, FiniteSetTheorems

USE ConstantsAssumption, SentinelsAssumption

\* One state entry per destination, one destination per state entry.
NamesAgree ==
  \A m, n \in Names : RelOf[m] = RelOf[n] \/ DstOf[m] = DstOf[n] => m = n

\* No save is lost, or no whole file is ever removed by hand.  With both, a record
\* that survived a promotion meets a file that is started again.
RecordsTrusted == SavesMayFail = FALSE \/ FinalsRemoved = FALSE

\* e records some but not all parts of the object now in the bucket.
Current(e, n) == e # NoEntry /\ ~e.complete /\ e.etag = remote[KeyOf[n]]

Backed(e, n) ==
  Current(e, n) /\ e.done # {} =>
    /\ RightSize(partial[DstOf[n]], e.etag)
    /\ \A i \in e.done : partial[DstOf[n]][i] = e.etag
    /\ e.done # Parts(e.etag)

\* The whole file is at its path, so nobody will ask what was recorded of it: what
\* a promotion leaves behind whose last saves were lost.
Excused(n) ==
  /\ SavesMayFail = TRUE /\ partial[DstOf[n]] = NoFile
  /\ RightSize(final[DstOf[n]], remote[KeyOf[n]])

Record(e, n) == Backed(e, n) \/ Excused(n)

Claims == \A n \in Names : Record(durable[RelOf[n]], n) /\ Record(db[RelOf[n]], n)

\* What is still to be fetched or promoted is not at its path yet.
Unfinished ==
  /\ pc \in {"queued", "drain"} =>
       \A n \in NeedsFile : ~RightSize(final[DstOf[n]], ver[n])
  /\ pc = "promote" => \A n \in todo : ~RightSize(final[DstOf[n]], ver[n])

\* Entries describe versions that were stored under the key.
Known ==
  /\ \A k \in Keys : remote[k] \in seen[k]
  /\ \A n \in Names :
       /\ durable[RelOf[n]] # NoEntry => durable[RelOf[n]].etag \in seen[KeyOf[n]]
       /\ db[RelOf[n]] # NoEntry => db[RelOf[n]].etag \in seen[KeyOf[n]]

\* What was listed is what is in the bucket.
Steady == \A n \in Targets : ver[n] = remote[KeyOf[n]]

\* A job is in one place, and for a part neither record counts as done; the
\* bytes of a landed one are in the partial file.
Jobs ==
  /\ queue \cap air = {} /\ queue \cap landed = {} /\ air \cap landed = {}
  /\ pc = "queued" => air = {} /\ landed = {}
  /\ \A j \in Pending :
       /\ ~db[RelOf[j[1]]].complete /\ j[2] \notin db[RelOf[j[1]]].done
       /\ Current(durable[RelOf[j[1]]], j[1]) => j[2] \notin durable[RelOf[j[1]]].done
  /\ \A j \in landed : partial[DstOf[j[1]]][j[2]] = ver[j[1]]

\* A file whose last part was marked is whole, and its entry complete; only such a
\* file's digest is asked for.
DoneWhole ==
  /\ pc \in {"idle", "queued"} => done = {}
  /\ \A n \in todo : RelOf[n] \in done =>
       db[RelOf[n]].complete /\ partial[DstOf[n]] = Whole(ver[n])
  /\ \A q \in asked : RelOf[q[1]] \in done

\* Promotion begins with the state saved, where saves are not lost.
Saved == pc = "promote" /\ SavesMayFail = FALSE => durable = db

SInv ==
  /\ TInv /\ Claims /\ Unfinished /\ Known /\ Steady /\ Jobs /\ DoneWhole /\ Saved
  /\ FinalIntact

-----------------------------------------------------------------------------
\* markPart: the entry becomes complete exactly with the object's last part.
LEMMA MarkedDone ==
  ASSUME NEW e \in Entry, Fits(e), ~e.complete, NEW i \in Parts(e.etag), i \notin e.done
  PROVE  /\ Marked(e, i).complete => e.done \cup {i} = Parts(e.etag)
         /\ ~Marked(e, i).complete => /\ Marked(e, i).done = e.done \cup {i}
                                      /\ e.done \cup {i} # Parts(e.etag)
<1> DEFINE D == e.done \cup {i}
           P == Parts(e.etag)
<1>1. e.etag \in Versions /\ e.nparts = PartsOf[e.etag] /\ e.nparts \in Nat /\ e # NoEntry
  BY DEF Entry, Fits
<1>2. P = 0 .. (e.nparts - 1) /\ e.nparts > 0
  BY <1>1 DEF Parts
<1>3. IsFiniteSet(P) /\ Cardinality(P) = e.nparts
  <2> DEFINE b == e.nparts - 1
  <2>1. b \in Int /\ ~(0 > b) /\ b - 0 + 1 = e.nparts
    BY <1>1, <1>2
  <2> HIDE DEF b
  <2>2. IsFiniteSet(0 .. b) /\ Cardinality(0 .. b) = IF 0 > b THEN 0 ELSE b - 0 + 1
    BY <2>1, 0 \in Int, FS_Interval, Zenon
  <2> QED
    BY <1>2, <2>1, <2>2 DEF b
<1>4. D \subseteq P
  BY <1>1 DEF Fits
<1>5. Cardinality(D) <= e.nparts /\ (Cardinality(D) = e.nparts => D = P)
  BY <1>3, <1>4, FS_Subset
<1>6. Cardinality(D) \in Nat
  BY <1>3, <1>4, FS_Subset, FS_CardinalityType
<1>7. CASE Cardinality(D) >= e.nparts
  <2>1. D = P
    BY <1>1, <1>5, <1>6, <1>7
  <2>2. Marked(e, i) = [e EXCEPT !.done = {}, !.complete = TRUE]
    BY <1>2, <1>7 DEF Marked
  <2> QED
    BY <2>1, <2>2 DEF Entry
<1>8. CASE ~(Cardinality(D) >= e.nparts)
  <2>1. D # P
    <3> HIDE DEF D, P
    <3>1. Cardinality(D) # Cardinality(P)
      BY <1>1, <1>3, <1>6, <1>8
    <3> QED
      BY <3>1
  <2>2. Marked(e, i) = [e EXCEPT !.done = @ \cup {i}]
    BY <1>8 DEF Marked
  <2> QED
    BY <2>1, <2>2 DEF Entry
<1> QED
  BY <1>7, <1>8

LEMMA SInit == Init => SInv
<1> SUFFICES ASSUME Init PROVE SInv
  OBVIOUS
<1>1. TInv
  BY TInit
<1>2. /\ durable = NoState /\ db = NoState /\ verdict = NoVerdict /\ todo = {}
      /\ queue = {} /\ air = {} /\ landed = {} /\ done = {} /\ asked = {} /\ pc = "idle"
  BY DEF Init, NoProcess
<1>3. \A n \in Names : durable[RelOf[n]] = NoEntry /\ db[RelOf[n]] = NoEntry
  BY <1>2 DEF NoState
<1>4. Claims /\ Known
  BY <1>3 DEF Claims, Record, Backed, Current, Known, Init
<1>5. Steady /\ Jobs /\ DoneWhole /\ Saved /\ Unfinished
  BY <1>2 DEF Steady, Targets, NoVerdict, Jobs, Pending, DoneWhole, Saved, Unfinished
<1>6. FinalIntact
  BY DEF Init, FinalIntact
<1> QED
  BY <1>1, <1>4, <1>5, <1>6 DEF SInv

\* What is fetched is not excused by a whole file at its path.
LEMMA Unexcused ==
  ASSUME SInv, NEW n \in NeedsFile, pc \in {"queued", "drain"}
  PROVE  /\ ~RightSize(final[DstOf[n]], remote[KeyOf[n]])
         /\ ~Excused(n)
         /\ Backed(durable[RelOf[n]], n) /\ Backed(db[RelOf[n]], n)
<1>1. n \in Names /\ ver[n] = remote[KeyOf[n]]
  BY DEF SInv, Steady, Targets, NeedsFile
<1>2. ~RightSize(final[DstOf[n]], ver[n])
  BY DEF SInv, Unfinished
<1>3. ~Excused(n)
  BY <1>1, <1>2 DEF Excused
<1> QED
  BY <1>1, <1>2, <1>3 DEF SInv, Claims, Record

\* With no process left, only the disk's record matters.
LEMMA SReturn ==
  ASSUME NamesAgree, SInv, TInv', Return, UNCHANGED <<bucket, final>>,
         durable' = durable \/ durable' = db \/ durable' = NoState,
         UNCHANGED partial \/
           \E n \in Names : n \in todo /\ pc = "queued" /\ partial[DstOf[n]] = NoFile
                            /\ \E f : partial' = [partial EXCEPT ![DstOf[n]] = f]
  PROVE  SInv'
<1>1. /\ db' = NoState /\ verdict' = NoVerdict /\ todo' = {} /\ asked' = {}
      /\ queue' = {} /\ air' = {} /\ landed' = {} /\ done' = {} /\ pc' = "idle"
  BY DEF Return
<1>2. \A n \in Names : db'[RelOf[n]] = NoEntry
  BY <1>1 DEF NoState
<1>3. \A n \in Names : /\ Record(durable'[RelOf[n]], n)
                       /\ ~Excused(n) => Backed(durable'[RelOf[n]], n)
  BY DEF SInv, Claims, Record, Backed, Current, NoState
<1>4. ASSUME NEW n \in Names PROVE Record(durable[RelOf[n]], n)'
  <2>1. CASE UNCHANGED partial
    BY <1>3, <2>1 DEF Record, Excused, Backed, Current, bucket
  <2>2. CASE ~ UNCHANGED partial
    <3>1. PICK m \in Names : /\ partial[DstOf[m]] = NoFile /\ m \in todo /\ pc = "queued"
                             /\ \E f : partial' = [partial EXCEPT ![DstOf[m]] = f]
      BY <2>2
    <3>2. CASE DstOf[n] = DstOf[m]
      <4>1. n = m /\ m \in NeedsFile
        BY <3>1, <3>2 DEF NamesAgree, SInv, TInv, TypeOK
      <4>2. Backed(durable'[RelOf[n]], n)
        BY <1>3, <3>1, <4>1, Unexcused
      <4>3. ~RightSize(partial[DstOf[n]], durable'[RelOf[n]].etag)
        BY <3>1, <3>2 DEF RightSize
      <4>4. ~(Current(durable'[RelOf[n]], n) /\ durable'[RelOf[n]].done # {})
        BY <4>2, <4>3 DEF Backed
      <4> QED
        BY <4>4 DEF Record, Backed, Current, bucket
    <3>3. CASE DstOf[n] # DstOf[m]
      <4>1. partial'[DstOf[n]] = partial[DstOf[n]]
        BY <3>1, <3>3 DEF SInv, TInv, TypeOK
      <4> QED
        BY <1>3, <4>1 DEF Record, Excused, Backed, Current, bucket
    <3> QED
      BY <3>2, <3>3
  <2> QED
    BY <2>1, <2>2
<1>5. Claims'
  BY <1>2, <1>4 DEF Claims, Record, Backed, Current
<1>6. Known'
  BY <1>2 DEF SInv, Known, bucket, NoState
<1>7. Steady' /\ Jobs' /\ DoneWhole' /\ Saved' /\ Unfinished'
  BY <1>1 DEF Steady, Targets, NoVerdict, Jobs, Pending, DoneWhole, Saved, Unfinished
<1>8. FinalIntact'
  BY DEF SInv, FinalIntact
<1> QED
  BY <1>5, <1>6, <1>7, <1>8 DEF SInv

-----------------------------------------------------------------------------
\* What Entered enters for one name of the run, and what it leaves alone.
LEMMA EnteredFor ==
  ASSUME NamesAgree, SInv, NEW r \in Requests, NEW vd, NEW n \in Names
  PROVE  LET e == Entered(Listed(r), vd)[RelOf[n]]
         IN  IF n \in Listed(r) /\ vd[n] # "resume"
             THEN e = IF vd[n] = "complete" THEN Adopted(remote[KeyOf[n]])
                                            ELSE Fresh(remote[KeyOf[n]])
             ELSE e = durable[RelOf[n]]
<1> DEFINE listed == Listed(r)
<1>1. listed \subseteq Names /\ RelOf[n] \in Rels
  BY DEF Listed
<1>2. \A m \in listed : RelOf[m] = RelOf[n] => m = n
  BY <1>1 DEF NamesAgree
<1>3. CASE n \in listed /\ vd[n] # "resume"
  <2>1. n = CHOOSE m \in listed : RelOf[m] = RelOf[n]
    BY <1>2, <1>3
  <2> QED
    BY <1>1, <1>3, <2>1 DEF Entered
<1>4. CASE ~(n \in listed /\ vd[n] # "resume")
  <2>1. ~ \E m \in listed : RelOf[m] = RelOf[n] /\ vd[m] # "resume"
    BY <1>2, <1>4
  <2> QED
    BY <1>1, <1>4, <2>1 DEF Entered
<1> QED
  BY <1>3, <1>4

\* An entry with parts done is never thrown away by decideSkip, unless its file is
\* at its path.
LEMMA BackedResumes ==
  ASSUME SInv, NEW n \in Names, remote[KeyOf[n]] \in Versions,
         Current(durable[RelOf[n]], n), durable[RelOf[n]].done # {},
         ~RightSize(final[DstOf[n]], remote[KeyOf[n]])
  PROVE  Resumable(n, remote[KeyOf[n]])
<1> DEFINE e == durable[RelOf[n]]
           v == remote[KeyOf[n]]
<1>1. e \in Entry /\ Fits(e) /\ e # NoEntry /\ ~e.complete /\ e.etag = v
  BY DEF SInv, TInv, TypeOK, Current
<1>2. RightSize(partial[DstOf[n]], v) /\ e.done # Parts(v)
  BY <1>1 DEF SInv, Claims, Record, Excused, Backed
<1>3. e.nparts = PartsOf[v] /\ e.done \subseteq Parts(v)
  BY <1>1 DEF Fits
<1>4. e.nparts \in Nat /\ e.nparts > 0
  <2>1. PICK i \in Parts(v) : TRUE
    BY <1>3
  <2> QED
    BY <1>3, <2>1 DEF Parts
<1>5. MissingParts(e) # {}
  BY <1>1, <1>2, <1>3 DEF MissingParts, Parts
<1> QED
  BY <1>1, <1>2, <1>4, <1>5 DEF Resumable

LEMMA SBegin ==
  ASSUME NamesAgree, SInv, TInv', NEW r \in Requests, Begin(r)
  PROVE  SInv'
<1> DEFINE listed == Listed(r)
           vd == [n \in Names |->
                    IF n \in listed THEN DecideSkip(n, remote[KeyOf[n]]) ELSE "none"]
<1>1. /\ pc' = "queued" /\ verdict' = vd
      /\ ver' = [n \in Names |-> IF n \in listed THEN remote[KeyOf[n]] ELSE Absent]
      /\ db' = Entered(listed, vd)
      /\ queue' = UNION {{n} \X Wanted(n, vd[n]) : n \in listed}
      /\ todo' = {n \in listed : vd[n] # "complete"}
      /\ UNCHANGED <<bucket, disk, asked, air, landed, done, werr, ctx>>
      /\ pc = "idle"
  BY DEF Begin
<1>2. /\ listed \subseteq Names
      /\ \A n \in listed : remote[KeyOf[n]] \in Versions
  BY DEF Listed, SInv, TInv, TypeOK
<1>3. /\ \A n \in listed : vd[n] = DecideSkip(n, remote[KeyOf[n]])
      /\ \A n \in Names \ listed : vd[n] = "none"
  BY <1>2
<1>4. \A n \in Names :
        IF n \in listed /\ vd[n] # "resume"
        THEN db'[RelOf[n]] = IF vd[n] = "complete" THEN Adopted(remote[KeyOf[n]])
                                                  ELSE Fresh(remote[KeyOf[n]])
        ELSE db'[RelOf[n]] = durable[RelOf[n]]
  BY <1>1, EnteredFor
<1> HIDE DEF listed, vd
<1>5. air = {} /\ landed = {} /\ done = {} /\ asked = {}
  BY <1>1 DEF SInv, TInv, Opened, NoProcess
<1>6. Claims'
  <2>1. \A v : Adopted(v).complete /\ Fresh(v).done = {}
    BY DEF Adopted, Fresh
  <2>2. ASSUME NEW n \in Names
        PROVE  Record(durable[RelOf[n]], n)' /\ Record(db[RelOf[n]], n)'
    <3>1. Record(durable[RelOf[n]], n)'
      BY <1>1 DEF SInv, Claims, Record, Excused, Backed, Current, bucket, disk
    <3>2. CASE n \in listed /\ vd[n] # "resume"
      <4>1. db'[RelOf[n]].complete \/ db'[RelOf[n]].done = {}
        BY <1>4, <2>1, <3>2
      <4> QED
        BY <3>1, <4>1 DEF Record, Backed, Current
    <3>3. CASE ~(n \in listed /\ vd[n] # "resume")
      <4>1. db'[RelOf[n]] = durable'[RelOf[n]]
        BY <1>1, <1>4, <3>3 DEF disk
      <4> QED
        BY <3>1, <4>1 DEF Record, Backed, Current, Excused
    <3> QED
      BY <3>2, <3>3
  <2> QED
    BY <2>2 DEF Claims
<1>7. Known'
  <2>1. \A v : Adopted(v).etag = v /\ Fresh(v).etag = v
    BY DEF Adopted, Fresh
  <2>2. ASSUME NEW n \in Names, db'[RelOf[n]] # NoEntry
        PROVE  db'[RelOf[n]].etag \in seen[KeyOf[n]]
    <3>1. KeyOf[n] \in Keys
      OBVIOUS
    <3> QED
      BY <1>4, <2>1, <2>2, <3>1 DEF SInv, Known
  <2> QED
    BY <1>1, <2>2 DEF SInv, Known, bucket, disk
<1>8. Steady'
  <2>1. Targets' \subseteq listed
    BY <1>1, <1>3 DEF Targets
  <2> QED
    BY <1>1, <1>2, <2>1 DEF Steady, bucket
<1>9. Jobs'
  <2>1. ASSUME NEW j \in queue'
        PROVE  /\ ~db'[RelOf[j[1]]].complete /\ j[2] \notin db'[RelOf[j[1]]].done
               /\ Current(durable[RelOf[j[1]]], j[1]) => j[2] \notin durable[RelOf[j[1]]].done
    <3>1. PICK n \in listed : j \in {n} \X Wanted(n, vd[n])
      BY <1>1, <2>1
    <3>2. j[1] = n /\ j[2] \in Wanted(n, vd[n]) /\ n \in Names
      BY <1>2, <3>1
    <3>3. CASE vd[n] = "transfer"
      <4>1. db'[RelOf[n]] = Fresh(remote[KeyOf[n]])
        BY <1>2, <1>4, <3>3
      <4>2. ~Resumable(n, remote[KeyOf[n]]) /\ ~RightSize(final[DstOf[n]], remote[KeyOf[n]])
        BY <1>3, <3>3 DEF DecideSkip
      <4>3. Current(durable[RelOf[n]], n) => durable[RelOf[n]].done = {}
        BY <1>2, <4>2, BackedResumes
      <4> QED
        BY <3>2, <4>1, <4>3 DEF Fresh
    <3>4. CASE vd[n] = "resume"
      <4>1. db'[RelOf[n]] = durable[RelOf[n]]
        BY <1>2, <1>4, <3>4
      <4>2. ~durable[RelOf[n]].complete
        BY <1>3, <3>4 DEF DecideSkip, Resumable
      <4>3. j[2] \in MissingParts(durable[RelOf[n]])
        BY <3>2, <3>4 DEF Wanted
      <4> QED
        BY <3>2, <4>1, <4>2, <4>3 DEF MissingParts
    <3>5. CASE vd[n] \notin {"transfer", "resume"}
      <4>1. vd[n] = "complete"
        BY <1>3, <3>5 DEF DecideSkip
      <4> QED
        BY <3>2, <4>1 DEF Wanted
    <3> QED
      BY <3>3, <3>4, <3>5
  <2>2. Pending' = queue'
    BY <1>1, <1>5 DEF Pending
  <2> QED
    BY <1>1, <1>5, <2>1, <2>2 DEF Jobs, Current, bucket, disk
<1>10. DoneWhole' /\ Saved'
  BY <1>1, <1>5 DEF DoneWhole, Saved
<1>11. FinalIntact'
  BY <1>1 DEF SInv, FinalIntact, disk
<1>12. Unfinished'
  <2>1. ASSUME NEW n \in NeedsFile'
        PROVE  ~RightSize(final'[DstOf[n]], ver'[n])
    <3>1. n \in listed /\ vd[n] # "complete"
      BY <1>1, <1>2, <1>3, <2>1 DEF NeedsFile
    <3>2. ~RightSize(final[DstOf[n]], remote[KeyOf[n]])
      BY <1>3, <3>1 DEF DecideSkip
    <3>3. ver'[n] = remote[KeyOf[n]] /\ final' = final
      BY <1>1, <1>2, <3>1 DEF disk
    <3> QED
      BY <3>2, <3>3
  <2> QED
    BY <1>1, <2>1 DEF Unfinished
<1> QED
  BY <1>6, <1>7, <1>8, <1>9, <1>10, <1>11, <1>12 DEF SInv

-----------------------------------------------------------------------------
\* The disk under a step of the drain that writes part j[2], or nothing.
LEMMA WriteFrame ==
  ASSUME NamesAgree, SInv, pc = "drain", NEW j \in Pending,
         NEW u \in Versions \cup {Junk}, WritePart(j, u) \/ UNCHANGED partial
  PROVE  \A n \in Names :
           /\ \A v : RightSize(partial[DstOf[n]], v) => RightSize(partial'[DstOf[n]], v)
           /\ \A i \in DOMAIN partial[DstOf[n]] : n # j[1] \/ i # j[2] =>
                partial'[DstOf[n]][i] = partial[DstOf[n]][i]
           /\ n # j[1] => partial'[DstOf[n]] = partial[DstOf[n]]
<1> DEFINE p == DstOf[j[1]]
           f == [partial[p] EXCEPT ![j[2]] = u]
<1>1. TInv /\ p \in Paths /\ j[1] \in Names /\ ver[j[1]] \in Versions
  BY JobFacts DEF SInv
<1>2. partial \in [Paths -> File \cup {NoFile}]
  BY <1>1 DEF TInv, TypeOK
<1>3. CASE UNCHANGED partial
  BY <1>3
<1>4. CASE WritePart(j, u)
  <2>1. partial' = [partial EXCEPT ![p] = f]
    BY <1>4 DEF WritePart
  <2>2. f \in File
    BY <1>1, JobFacts, WrittenFile, ShapeFile DEF Sized
  <2>3. DOMAIN f = DOMAIN partial[p] /\ \A i \in DOMAIN partial[p] : i # j[2] => f[i] = partial[p][i]
    <3>1. partial[p] \in [Parts(ver[j[1]]) -> Versions \cup {Junk}]
      BY <1>1, JobFacts, FileShape DEF Sized, RightSize
    <3>2. ASSUME NEW i \in DOMAIN partial[p], i # j[2] PROVE f[i] = partial[p][i]
      BY <3>1, <3>2
    <3> QED
      BY <3>1, <3>2
  <2> HIDE DEF f, p
  <2>4. ASSUME NEW n \in Names, n # j[1]
        PROVE  partial'[DstOf[n]] = partial[DstOf[n]]
    <3>1. DstOf[n] # p
      BY <1>1, <2>4 DEF NamesAgree, p
    <3> QED
      BY <1>2, <2>1, <3>1
  <2>5. partial'[p] = f
    BY <1>1, <1>2, <2>1
  <2>6. ASSUME NEW v, RightSize(partial[p], v) PROVE RightSize(partial'[p], v)
    BY <2>2, <2>3, <2>5, <2>6 DEF RightSize
  <2>7. ASSUME NEW n \in Names, n = j[1]
        PROVE  /\ \A v : RightSize(partial[DstOf[n]], v) => RightSize(partial'[DstOf[n]], v)
               /\ \A i \in DOMAIN partial[DstOf[n]] :
                    i # j[2] => partial'[DstOf[n]][i] = partial[DstOf[n]][i]
    BY <2>3, <2>5, <2>6, <2>7 DEF p
  <2> QED
    BY <2>4, <2>7
<1> QED
  BY <1>3, <1>4

\* No part either record counts as done is ever the part of a job, so writing
\* a job's part disturbs nothing that is recorded.
LEMMA SWrite ==
  ASSUME NamesAgree, SInv, TInv', pc = "drain", NEW j \in queue \cup air,
         NEW u \in Versions \cup {Junk}, WritePart(j, u) \/ UNCHANGED partial,
         UNCHANGED <<bucket, final, durable, pc, db, planned, todo, done>>
  PROVE  /\ Claims' /\ Unfinished' /\ Known' /\ Steady' /\ DoneWhole' /\ Saved' /\ FinalIntact'
         /\ \A k \in landed : partial'[DstOf[k[1]]][k[2]] = ver[k[1]]
<1> DEFINE m == j[1]
<1>1. j \in Pending /\ j \notin landed
  BY DEF Pending, SInv, Jobs
<1>2. m \in Names /\ m \in NeedsFile /\ m \in Targets /\ j = <<m, j[2]>>
      /\ ver[m] = remote[KeyOf[m]]
  BY <1>1, JobFacts DEF SInv, Steady
<1>3. /\ ~db[RelOf[m]].complete /\ j[2] \notin db[RelOf[m]].done
      /\ Current(durable[RelOf[m]], m) => j[2] \notin durable[RelOf[m]].done
  BY <1>1 DEF SInv, Jobs
<1>4. \A n \in Names :
        /\ \A v : RightSize(partial[DstOf[n]], v) => RightSize(partial'[DstOf[n]], v)
        /\ \A i \in DOMAIN partial[DstOf[n]] :
             n # m \/ i # j[2] => partial'[DstOf[n]][i] = partial[DstOf[n]][i]
        /\ n # m => partial'[DstOf[n]] = partial[DstOf[n]]
  BY <1>1, WriteFrame
<1> HIDE DEF m
<1>5. ASSUME NEW n \in Names, NEW e, Backed(e, n), Fits(e),
             n = m => (Current(e, n) => j[2] \notin e.done)
      PROVE  /\ Current(e, n) /\ e.done # {} =>
                  /\ RightSize(partial'[DstOf[n]], e.etag)
                  /\ \A i \in e.done : partial'[DstOf[n]][i] = e.etag
                  /\ e.done # Parts(e.etag)
  <2> SUFFICES ASSUME Current(e, n), e.done # {}
               PROVE  /\ RightSize(partial'[DstOf[n]], e.etag)
                      /\ \A i \in e.done : partial'[DstOf[n]][i] = e.etag
                      /\ e.done # Parts(e.etag)
    OBVIOUS
  <2>1. /\ RightSize(partial[DstOf[n]], e.etag)
        /\ \A i \in e.done : partial[DstOf[n]][i] = e.etag
        /\ e.done # Parts(e.etag)
    BY <1>5 DEF Backed
  <2>2. e.done \subseteq DOMAIN partial[DstOf[n]]
    BY <1>5, <2>1 DEF Current, Fits, RightSize
  <2>3. \A i \in e.done : n # m \/ i # j[2]
    BY <1>5
  <2> QED
    BY <1>4, <2>1, <2>2, <2>3
<1>6. Claims'
  <2>1. ASSUME NEW n \in Names
        PROVE  Record(durable[RelOf[n]], n)' /\ Record(db[RelOf[n]], n)'
    <3>1. /\ Record(durable[RelOf[n]], n) /\ Record(db[RelOf[n]], n)
          /\ Fits(durable[RelOf[n]]) /\ Fits(db[RelOf[n]])
      BY DEF SInv, Claims, TInv, TypeOK
    <3>2. CASE Excused(n)
      <4>1. n # m
        BY <1>2, <3>2, Unexcused
      <4>2. partial'[DstOf[n]] = partial[DstOf[n]]
        BY <1>4, <4>1
      <4>3. Excused(n)'
        BY <3>2, <4>2 DEF Excused, bucket
      <4> QED
        BY <4>3 DEF Record
    <3>3. CASE ~Excused(n)
      BY <1>3, <1>5, <3>1, <3>3 DEF Record, Backed, Current, bucket
    <3> QED
      BY <3>2, <3>3
  <2> QED
    BY <2>1 DEF Claims
<1>7. Known' /\ Saved' /\ FinalIntact'
  BY DEF SInv, Known, Saved, FinalIntact, bucket
<1>8. Steady'
  BY DEF SInv, Steady, Targets, bucket, planned
<1>9. DoneWhole'
  <2>1. \A n \in todo : RelOf[n] \in done => n # m
    BY <1>3 DEF SInv, DoneWhole
  <2>2. todo \subseteq Names
    BY DEF SInv, TInv, TypeOK, NeedsFile
  <2> QED
    BY <1>4, <2>1, <2>2 DEF SInv, DoneWhole, planned
<1>10. ASSUME NEW k \in landed
       PROVE  partial'[DstOf[k[1]]][k[2]] = ver[k[1]]
  <2>1. k \in Pending /\ k # j
    BY <1>1 DEF Pending
  <2>2. k[1] \in Names /\ k = <<k[1], k[2]>>
    BY <2>1, JobFacts DEF SInv
  <2>3. k[1] # m \/ k[2] # j[2]
    BY <1>2, <2>1, <2>2
  <2>4. k[2] \in DOMAIN partial[DstOf[k[1]]]
    BY <2>1, JobFacts DEF SInv, Sized, RightSize
  <2> QED
    BY <1>4, <2>2, <2>3, <2>4 DEF SInv, Jobs
<1>11. Unfinished'
  BY DEF SInv, Unfinished, NeedsFile, planned
<1> QED
  BY <1>6, <1>7, <1>8, <1>9, <1>10, <1>11

LEMMA SLandRetryFail ==
  ASSUME NamesAgree, SInv, TInv', NEW j, Land(j) \/ Retry(j) \/ FetchFails(j)
  PROVE  SInv'
<1>1. pc = "drain" /\ pc' = "drain" /\ j \in air /\ j \in Pending
  BY DEF Land, Retry, FetchFails, Pending
<1>2. UNCHANGED <<bucket, final, durable, pc, db, planned, todo, done, queue>>
  BY DEF Land, Retry, FetchFails, pool
<1>3. /\ j[1] \in Names /\ ver[j[1]] = remote[KeyOf[j[1]]] /\ ver[j[1]] \in Versions
      /\ Sized(j[1]) /\ j[2] \in Parts(ver[j[1]]) /\ DstOf[j[1]] \in Paths
  BY <1>1, JobFacts DEF SInv, Steady
<1>4. PICK u \in Versions \cup {Junk} :
        /\ WritePart(j, u) \/ UNCHANGED partial
        /\ Land(j) => WritePart(j, u) /\ u = ver[j[1]]
  <2>1. CASE Land(j)
    BY <1>3, <2>1 DEF Land
  <2>2. CASE ~Land(j)
    BY <2>2 DEF Retry, FetchFails
  <2> QED
    BY <2>1, <2>2
<1>5. /\ Claims' /\ Unfinished' /\ Known' /\ Steady' /\ DoneWhole' /\ Saved' /\ FinalIntact'
      /\ \A k \in landed : partial'[DstOf[k[1]]][k[2]] = ver[k[1]]
  BY <1>1, <1>2, <1>4, SWrite
<1>6. /\ air' = air \/ air' = air \ {j}
      /\ landed' = landed \/ (Land(j) /\ landed' = landed \cup {j} /\ air' = air \ {j})
  BY DEF Land, Retry, FetchFails, pool
<1>7. Land(j) => partial'[DstOf[j[1]]][j[2]] = ver[j[1]]
  <2> SUFFICES ASSUME Land(j) PROVE partial'[DstOf[j[1]]][j[2]] = ver[j[1]]
    OBVIOUS
  <2>1. partial'[DstOf[j[1]]] = [partial[DstOf[j[1]]] EXCEPT ![j[2]] = ver[j[1]]]
    BY <1>3, <1>4 DEF WritePart, SInv, TInv, TypeOK
  <2>2. j[2] \in DOMAIN partial[DstOf[j[1]]]
    BY <1>3 DEF Sized, RightSize
  <2> QED
    BY <2>1, <2>2
<1>8. Jobs'
  <2>1. Pending' \subseteq Pending
    BY <1>1, <1>2, <1>6 DEF Pending
  <2>2. \A k \in Pending' :
          /\ ~db'[RelOf[k[1]]].complete /\ k[2] \notin db'[RelOf[k[1]]].done
          /\ Current(durable[RelOf[k[1]]], k[1])' => k[2] \notin durable'[RelOf[k[1]]].done
    BY <1>2, <2>1 DEF SInv, Jobs, Current, bucket
  <2>3. /\ queue' \cap air' = {} /\ queue' \cap landed' = {} /\ air' \cap landed' = {}
    BY <1>1, <1>2, <1>6 DEF SInv, Jobs
  <2>4. \A k \in landed' : partial'[DstOf[k[1]]][k[2]] = ver'[k[1]]
    BY <1>2, <1>5, <1>6, <1>7 DEF planned
  <2> QED
    BY <1>1, <2>2, <2>3, <2>4 DEF Jobs
<1> QED
  BY <1>5, <1>8 DEF SInv

LEMMA STake ==
  ASSUME SInv, TInv', NEW j, Take(j)
  PROVE  SInv'
<1>1. /\ pc = "drain" /\ j \in queue /\ queue' = queue \ {j} /\ air' = air \cup {j}
      /\ UNCHANGED <<bucket, disk, pc, db, planned, todo, landed, done>>
  BY DEF Take
<1>2. Pending' = Pending
  BY <1>1 DEF Pending
<1>3. Jobs'
  BY <1>1, <1>2 DEF SInv, Jobs, Current, bucket, disk, planned
<1>4. Claims' /\ Known' /\ Steady'
  BY <1>1 DEF SInv, Claims, Record, Excused, Backed, Current, Known, Steady, Targets, bucket, disk, planned
<1>5. DoneWhole' /\ Saved' /\ FinalIntact' /\ Unfinished'
  BY <1>1 DEF SInv, DoneWhole, Saved, FinalIntact, Unfinished, NeedsFile, disk, planned
<1> QED
  BY <1>3, <1>4, <1>5 DEF SInv

LEMMA SMark ==
  ASSUME NamesAgree, SInv, TInv', NEW j, Mark(j)
  PROVE  SInv'
<1> DEFINE n == j[1]
           i == j[2]
           l == RelOf[n]
           e == db[l]
           e2 == Marked(e, i)
           f == partial[DstOf[n]]
<1>1. /\ pc = "drain" /\ j \in landed /\ j \in Pending
      /\ db' = [db EXCEPT ![l] = e2]
      /\ done' = IF e2.complete THEN done \cup {l} ELSE done
      /\ landed' = landed \ {j}
      /\ UNCHANGED <<bucket, disk, pc, planned, todo, queue, air>>
  BY DEF Mark, Pending
<1>2. /\ n \in Names /\ n \in NeedsFile /\ l \in Rels /\ ver[n] \in Versions
      /\ i \in Parts(ver[n]) /\ ver[n] = remote[KeyOf[n]] /\ RightSize(f, ver[n])
      /\ f \in File /\ j = <<n, i>>
  BY <1>1, JobFacts DEF SInv, Steady, Sized
<1>3. /\ e \in Entry /\ Fits(e) /\ e.etag = ver[n] /\ ~e.complete /\ i \notin e.done
      /\ e # NoEntry
  BY <1>1, <1>2 DEF SInv, TInv, TypeOK, Planned, Jobs
<1>4. e2 \in Entry /\ e2.etag = e.etag /\ Fits(e2)
  BY <1>2, <1>3, MarkedEntry
<1>5. /\ e2.complete => e.done \cup {i} = Parts(ver[n])
      /\ ~e2.complete => e2.done = e.done \cup {i} /\ e2.done # Parts(ver[n])
  BY <1>2, <1>3, MarkedDone
<1>6. \A k \in e.done \cup {i} : f[k] = ver[n]
  <2>1. f[i] = ver[n]
    BY <1>1 DEF SInv, Jobs
  <2>2. Backed(e, n)
    <3>1. pc = "drain" /\ j[1] \in NeedsFile /\ j[1] \in Names
      BY <1>1, <1>2
    <3>2. Backed(db[RelOf[j[1]]], j[1])
      BY <3>1, Unexcused
    <3> QED
      BY <3>2
  <2> QED
    BY <1>2, <1>3, <2>1, <2>2 DEF Backed, Current
<1>7. /\ db'[l] = e2
      /\ \A m \in Names : m # n => db'[RelOf[m]] = db[RelOf[m]]
  <2>1. db \in [Rels -> Entry \cup {NoEntry}]
    BY DEF SInv, TInv, TypeOK
  <2>2. \A m \in Names : m # n => RelOf[m] # l
    BY <1>2 DEF NamesAgree
  <2> HIDE DEF e2, l
  <2> QED
    BY <1>1, <1>2, <2>1, <2>2
<1> HIDE DEF e2, e, f, n, i, l
<1>8. Claims'
  <2>1. ASSUME NEW m \in Names
        PROVE  Record(durable[RelOf[m]], m)' /\ Record(db[RelOf[m]], m)'
    <3>1. Record(durable[RelOf[m]], m)' /\ (db'[RelOf[m]] = db[RelOf[m]] => Record(db[RelOf[m]], m)')
      BY <1>1 DEF SInv, Claims, Record, Excused, Backed, Current, bucket, disk
    <3>2. CASE m # n
      BY <1>7, <3>1, <3>2
    <3>3. CASE m = n
      <4>1. e2.complete \/ /\ RightSize(f, e2.etag) /\ e2.done # Parts(e2.etag)
                           /\ \A k \in e2.done : f[k] = e2.etag
        BY <1>2, <1>3, <1>4, <1>5, <1>6
      <4>2. db'[RelOf[m]] = e2 /\ partial'[DstOf[m]] = f
        BY <1>1, <1>7, <3>3 DEF f, l, disk
      <4> QED
        BY <3>1, <4>1, <4>2 DEF Record, Backed, Current
    <3> QED
      BY <3>2, <3>3
  <2> QED
    BY <2>1 DEF Claims
<1>9. Known'
  <2>1. e.etag \in seen[KeyOf[n]]
    BY <1>2, <1>3 DEF SInv, Known, e, l
  <2>2. ASSUME NEW m \in Names, db'[RelOf[m]] # NoEntry
        PROVE  db'[RelOf[m]].etag \in seen[KeyOf[m]]
    BY <1>4, <1>7, <2>1, <2>2 DEF SInv, Known, l
  <2> QED
    BY <1>1, <2>2 DEF SInv, Known, bucket, disk
<1>10. Steady' /\ Saved' /\ FinalIntact' /\ Unfinished'
  BY <1>1 DEF SInv, Steady, Targets, Saved, FinalIntact, Unfinished, NeedsFile, bucket, disk,
     planned
<1>11. ASSUME NEW k \in Pending'
       PROVE  ~db'[RelOf[k[1]]].complete /\ k[2] \notin db'[RelOf[k[1]]].done
  <2>1. k \in Pending /\ k # j
    BY <1>1, <1>11 DEF Pending, SInv, Jobs
  <2>2. /\ k[1] \in Names /\ k = <<k[1], k[2]>> /\ k[2] \in Parts(ver[k[1]])
        /\ ~db[RelOf[k[1]]].complete /\ k[2] \notin db[RelOf[k[1]]].done
    BY <1>1, <2>1, JobFacts DEF SInv, Jobs
  <2>3. CASE k[1] # n
    BY <1>7, <2>2, <2>3
  <2>4. CASE k[1] = n
    <3>1. k[2] # i /\ k[2] \notin e.done
      BY <1>2, <2>1, <2>2, <2>4 DEF e, l
    <3>2. ~e2.complete /\ k[2] \notin e2.done
      BY <1>5, <2>2, <2>4, <3>1
    <3> QED
      BY <1>7, <2>4, <3>2 DEF l
  <2> QED
    BY <2>3, <2>4
<1>12. Jobs'
  <2>1. Pending' \subseteq Pending
    BY <1>1 DEF Pending
  <2> QED
    BY <1>1, <1>11, <2>1 DEF SInv, Jobs, Current, bucket, disk, planned
<1>13. DoneWhole'
  <2>1. ASSUME NEW m \in todo, RelOf[m] \in done'
        PROVE  db'[RelOf[m]].complete /\ partial[DstOf[m]] = Whole(ver[m])
    <3>1. m \in Names
      BY DEF SInv, TInv, TypeOK, NeedsFile
    <3>2. CASE m # n
      <4>1. RelOf[m] # l
        BY <1>2, <3>1, <3>2 DEF NamesAgree, l
      <4>2. RelOf[m] \in done
        BY <1>1, <2>1, <4>1
      <4> QED
        BY <1>7, <3>1, <3>2, <4>2 DEF SInv, DoneWhole
    <3>3. CASE m = n
      <4>1. l \notin done
        BY <1>3, <2>1, <3>3 DEF SInv, DoneWhole, e, l
      <4>2. e2.complete
        BY <1>1, <2>1, <3>3, <4>1 DEF l
      <4>3. f \in [Parts(ver[n]) -> Versions \cup {Junk}]
        BY <1>2, FileShape DEF RightSize
      <4>4. \A k \in Parts(ver[n]) : f[k] = ver[n]
        BY <1>5, <1>6, <4>2
      <4>5. f = Whole(ver[n])
        BY <4>3, <4>4 DEF Whole
      <4> QED
        BY <1>7, <3>3, <4>2, <4>5 DEF f, l
    <3> QED
      BY <3>2, <3>3
  <2> QED
    BY <1>1, <2>1 DEF SInv, DoneWhole, disk, planned
<1> QED
  BY <1>8, <1>9, <1>10, <1>12, <1>13 DEF SInv

\* Saving puts the memory's record on the disk, which is as well backed, or leaves
\* there what was there, or nothing.
LEMMA SSave ==
  ASSUME SInv, TInv', pc = "drain",
         durable' = db \/ durable' = durable \/ durable' = NoState,
         SavesMayFail = TRUE \/ durable' = db,
         pc' \in {"drain", "promote"},
         UNCHANGED <<bucket, partial, final, db, planned, todo, pool>>
  PROVE  SInv'
<1>1. Claims'
  BY DEF SInv, Claims, Record, Excused, Backed, Current, bucket, NoState
<1>2. Known' /\ Steady'
  BY DEF SInv, Known, Steady, Targets, bucket, planned, NoState
<1>3. Jobs'
  <2>1. Pending' = Pending /\ UNCHANGED <<queue, air, landed, ver, remote>>
    BY DEF Pending, pool, planned, bucket
  <2>2. \A j \in Pending : j[1] \in Names
    BY DEF SInv, TInv, TypeOK, NeedsFile
  <2>3. ASSUME NEW j \in Pending, Current(durable[RelOf[j[1]]], j[1])'
        PROVE  j[2] \notin durable'[RelOf[j[1]]].done
    BY <2>1, <2>2, <2>3 DEF SInv, Jobs, Current, NoState
  <2> QED
    BY <2>1, <2>3 DEF SInv, Jobs
<1>4. DoneWhole' /\ Saved' /\ FinalIntact'
  BY DEF SInv, DoneWhole, Saved, FinalIntact, planned, pool
<1>5. Unfinished'
  <2>1. todo = NeedsFile
    BY DEF SInv, TInv, Opened
  <2> QED
    BY <2>1 DEF SInv, Unfinished, NeedsFile, planned
<1> QED
  BY <1>1, <1>2, <1>3, <1>4, <1>5 DEF SInv

LEMMA SPreallocate ==
  ASSUME NamesAgree, SInv, TInv', NEW n \in Names, Preallocate(n)
  PROVE  SInv'
<1> DEFINE p == DstOf[n]
           f == Truncated(partial[p], ver[n])
<1>1. /\ pc = "queued" /\ n \in todo /\ pc' \in {"queued", "drain"}
      /\ partial' = [partial EXCEPT ![p] = f]
      /\ todo' = NeedsFile \/ todo' = todo \ {n}
      /\ UNCHANGED <<bucket, final, durable, db, planned, pool>>
  BY DEF Preallocate, BiggestOf
<1>2. /\ p \in Paths /\ ver[n] \in Versions /\ ver[n] = remote[KeyOf[n]]
      /\ air = {} /\ landed = {} /\ done = {} /\ n \in NeedsFile
  BY <1>1 DEF SInv, TInv, TypeOK, NeedsFile, Steady, Targets, Jobs, DoneWhole
<1>3. RightSize(partial[p], ver[n]) => f = partial[p]
  <2> SUFFICES ASSUME RightSize(partial[p], ver[n]) PROVE f = partial[p]
    OBVIOUS
  <2>1. partial[p] \in [Parts(ver[n]) -> Versions \cup {Junk}]
    BY <1>2, FileShape DEF RightSize, SInv, TInv, TypeOK
  <2> QED
    BY <2>1 DEF Truncated, RightSize
<1> HIDE DEF f, p
<1>4. \A m \in Names : RightSize(partial[DstOf[m]], remote[KeyOf[m]])
                         => partial'[DstOf[m]] = partial[DstOf[m]]
  <2> SUFFICES ASSUME NEW m \in Names, RightSize(partial[DstOf[m]], remote[KeyOf[m]])
               PROVE  partial'[DstOf[m]] = partial[DstOf[m]]
    OBVIOUS
  <2>1. CASE m = n
    BY <1>1, <1>2, <1>3, <2>1 DEF SInv, TInv, TypeOK, p
  <2>2. CASE m # n
    <3>1. DstOf[m] # p
      BY <2>2 DEF NamesAgree, p
    <3> QED
      BY <1>1, <3>1 DEF SInv, TInv, TypeOK
  <2> QED
    BY <2>1, <2>2
<1>5. Claims'
  <2>1. ASSUME NEW m \in Names, NEW e, Backed(e, m), Current(e, m), e.done # {}
        PROVE  /\ RightSize(partial'[DstOf[m]], e.etag)
               /\ \A i \in e.done : partial'[DstOf[m]][i] = e.etag
               /\ e.done # Parts(e.etag)
    BY <1>4, <2>1 DEF Backed, Current
  <2>2. ASSUME NEW m \in Names
        PROVE  Record(durable[RelOf[m]], m)' /\ Record(db[RelOf[m]], m)'
    <3>1. Record(durable[RelOf[m]], m) /\ Record(db[RelOf[m]], m)
      BY DEF SInv, Claims
    <3>2. CASE Excused(m)
      <4>1. m # n
        BY <1>1, <1>2, <3>2, Unexcused
      <4>2. DstOf[m] # p
        BY <4>1 DEF NamesAgree, p
      <4>3. partial'[DstOf[m]] = partial[DstOf[m]]
        BY <1>1, <4>2 DEF SInv, TInv, TypeOK
      <4> QED
        BY <1>1, <3>2, <4>3 DEF Record, Excused, bucket
    <3>3. CASE ~Excused(m)
      BY <1>1, <2>1, <3>1, <3>3 DEF Record, Backed, Current, bucket
    <3> QED
      BY <3>2, <3>3
  <2> QED
    BY <2>2 DEF Claims
<1>6. Known' /\ Steady'
  BY <1>1 DEF SInv, Known, Steady, Targets, bucket, planned
<1>7. Jobs'
  BY <1>1, <1>2 DEF SInv, Jobs, Pending, Current, bucket, planned, pool
<1>8. DoneWhole' /\ Saved' /\ FinalIntact' /\ Unfinished'
  BY <1>1, <1>2 DEF SInv, DoneWhole, Saved, FinalIntact, Unfinished, NeedsFile, pool, planned
<1> QED
  BY <1>5, <1>6, <1>7, <1>8 DEF SInv

\* A digest is asked for a file that is whole.
LEMMA SAskDigest ==
  ASSUME SInv, TInv', NEW n \in Names, AskDigest(n)
  PROVE  SInv'
<1>1. /\ RelOf[n] \in done
      /\ \E w : asked' = {<<n, w>>}
      /\ UNCHANGED <<bucket, disk, pc, db, ver, verdict, todo, pool>>
  BY DEF AskDigest
<1>2. NeedsFile' = NeedsFile /\ Pending' = Pending /\ Targets' = Targets
  BY <1>1 DEF NeedsFile, Pending, Targets, pool
<1>3. Claims' /\ Known' /\ Steady' /\ Saved' /\ FinalIntact'
  BY <1>1, <1>2 DEF SInv, Claims, Record, Excused, Backed, Current, Known, Steady, Saved,
     FinalIntact, bucket, disk
<1>4. Jobs'
  BY <1>1, <1>2 DEF SInv, Jobs, Current, bucket, disk, pool
<1>5. DoneWhole' /\ Unfinished'
  BY <1>1, <1>2 DEF SInv, DoneWhole, Unfinished, disk, pool
<1> QED
  BY <1>3, <1>4, <1>5 DEF SInv

\* The file that is promoted has had its last part marked.
LEMMA PromoteDone ==
  ASSUME SInv, NEW n, Promote(n)
  PROVE  RelOf[n] \in done
<1>1. PICK w : <<n, w>> \in asked
  BY PromoteFacts DEF SInv
<1> QED
  BY <1>1 DEF SInv, DoneWhole

\* Renaming a partial file into place: it is whole; its entry is saved, or else
\* is excused from now on.
LEMMA SPromote ==
  ASSUME NamesAgree, SInv, TInv', NEW n \in Names, Promote(n)
  PROVE  SInv'
<1>1. /\ pc = "promote" /\ n \in todo /\ todo' = todo \ {n} /\ RelOf[n] \in done
      /\ final' = [final EXCEPT ![DstOf[n]] = partial[DstOf[n]]]
      /\ partial' = [partial EXCEPT ![DstOf[n]] = NoFile] /\ asked' = {}
      /\ UNCHANGED <<bucket, durable, pc, db, ver, verdict, pool>>
  BY PromoteFacts, PromoteDone DEF SInv
<1>2. /\ db[RelOf[n]].complete /\ (SavesMayFail = FALSE => durable[RelOf[n]].complete)
      /\ partial[DstOf[n]] = Whole(ver[n]) /\ ver[n] \in Versions
      /\ ver[n] = remote[KeyOf[n]] /\ DstOf[n] \in Paths
  BY <1>1 DEF SInv, DoneWhole, Saved, TInv, TypeOK, Steady, Targets, NeedsFile
<1>3. \A m \in Names : m # n => /\ partial'[DstOf[m]] = partial[DstOf[m]]
                                /\ final'[DstOf[m]] = final[DstOf[m]]
  BY <1>1 DEF NamesAgree, SInv, TInv, TypeOK
<1>4. /\ partial'[DstOf[n]] = NoFile /\ final'[DstOf[n]] = Whole(ver[n])
      /\ RightSize(final'[DstOf[n]], ver[n])
  <2>1. RightSize(Whole(ver[n]), ver[n])
    BY <1>2, ShapeFile DEF Whole
  <2> QED
    BY <1>1, <1>2, <2>1 DEF SInv, TInv, TypeOK
<1>5. Claims'
  <2>1. ASSUME NEW m \in Names
        PROVE  Record(durable[RelOf[m]], m)' /\ Record(db[RelOf[m]], m)'
    <3>1. CASE m = n
      <4>1. Record(db[RelOf[m]], m)'
        BY <1>1, <1>2, <3>1 DEF Record, Backed, Current
      <4>2. CASE SavesMayFail = TRUE
        BY <1>1, <1>2, <1>4, <3>1, <4>1, <4>2 DEF Record, Excused, bucket
      <4>3. CASE SavesMayFail = FALSE
        BY <1>1, <1>2, <3>1, <4>1, <4>3 DEF Record, Backed, Current
      <4> QED
        BY <4>2, <4>3
    <3>2. CASE m # n
      BY <1>1, <1>3, <3>2 DEF SInv, Claims, Record, Excused, Backed, Current, bucket
    <3> QED
      BY <3>1, <3>2
  <2> QED
    BY <2>1 DEF Claims
<1>6. Known' /\ Steady' /\ Saved'
  BY <1>1 DEF SInv, Known, Steady, Targets, Saved, bucket
<1>7. Jobs'
  <2>1. ASSUME NEW k \in landed
        PROVE  partial'[DstOf[k[1]]][k[2]] = ver[k[1]]
    <3>1. k \in Pending
      BY DEF Pending
    <3>2. k[1] \in Names /\ k[1] # n
      BY <1>2, <3>1 DEF SInv, Jobs, TInv, TypeOK, NeedsFile
    <3> QED
      BY <1>3, <3>2 DEF SInv, Jobs
  <2> QED
    BY <1>1, <2>1 DEF SInv, Jobs, Pending, Current, bucket, pool
<1>8. DoneWhole' /\ Unfinished'
  <2>1. todo \subseteq Names
    BY DEF SInv, TInv, TypeOK, NeedsFile
  <2> QED
    BY <1>1, <1>3, <2>1 DEF SInv, DoneWhole, Unfinished, pool
<1>9. FinalIntact'
  BY <1>1, <1>2 DEF SInv, FinalIntact, TInv, TypeOK
<1> QED
  BY <1>5, <1>6, <1>7, <1>8, <1>9 DEF SInv

\* New content is unlike any that an entry describes.
LEMMA SStore ==
  ASSUME SInv, TInv', NEW k \in Keys, NEW v \in Versions \cup {Absent},
         pc = "idle", v \notin seen[k], Store(k, v)
  PROVE  SInv'
<1>1. /\ remote' = [remote EXCEPT ![k] = v]
      /\ seen' = [seen EXCEPT ![k] = @ \cup {v}]
      /\ UNCHANGED <<disk, pc, db, ver, verdict, asked, todo, pool>>
  BY DEF Store
<1>2. remote \in [Keys -> Versions \cup {Absent}] /\ DOMAIN seen = Keys
  BY DEF SInv, TInv, TypeOK
<1>3. Known'
  BY <1>1, <1>2 DEF SInv, Known, disk
<1>4. Claims'
  <2>1. ASSUME NEW n \in Names, NEW e, Record(e, n), e # NoEntry => e.etag \in seen[KeyOf[n]]
        PROVE  Record(e, n)'
    <3>1. KeyOf[n] \in Keys
      OBVIOUS
    <3>2. CASE KeyOf[n] = k
      <4>1. e # NoEntry => e.etag # remote'[KeyOf[n]]
        BY <1>1, <1>2, <2>1, <3>2
      <4> QED
        BY <4>1 DEF Record, Backed, Current
    <3>3. CASE KeyOf[n] # k
      <4>1. remote'[KeyOf[n]] = remote[KeyOf[n]]
        BY <1>1, <1>2, <3>1, <3>3
      <4> QED
        BY <1>1, <2>1, <4>1 DEF Record, Excused, Backed, Current, disk
    <3> QED
      BY <3>2, <3>3
  <2> QED
    BY <1>1, <2>1 DEF SInv, Claims, Known, Record, Excused, Backed, Current, disk
<1>5. /\ verdict = NoVerdict /\ todo = {} /\ queue = {} /\ air = {} /\ landed = {}
      /\ done = {} /\ asked = {}
  BY DEF SInv, TInv, Opened, NoProcess
<1>6. Steady' /\ Jobs' /\ DoneWhole' /\ Saved' /\ FinalIntact' /\ Unfinished'
  BY <1>1, <1>5 DEF SInv, Steady, Targets, NoVerdict, Jobs, Pending, DoneWhole, Saved,
     FinalIntact, Unfinished, disk, pool
<1> QED
  BY <1>3, <1>4, <1>6 DEF SInv

\* Steps that touch neither the bucket, the partial files nor the run; a state
\* file may be removed, and whole files may be.
LEMMA SOutside ==
  ASSUME SInv, TInv',
         UNCHANGED <<bucket, partial, pc, db, planned, todo, queue, air, landed, done>>,
         durable' = durable \/ (durable' = NoState /\ pc = "idle"),
         UNCHANGED final \/ (SavesMayFail = FALSE /\ pc = "idle"),
         \A p \in Paths : final'[p] = final[p] \/ final'[p] = NoFile
  PROVE  SInv'
<1>1. \A n \in Names : durable'[RelOf[n]] = durable[RelOf[n]] \/ durable'[RelOf[n]] = NoEntry
  BY DEF NoState
<1>2. Claims' /\ Known'
  BY <1>1 DEF SInv, Claims, Record, Excused, Backed, Current, Known, bucket
<1>3. Steady' /\ DoneWhole' /\ Saved' /\ FinalIntact' /\ Unfinished'
  BY DEF SInv, Steady, Targets, DoneWhole, Saved, FinalIntact, Unfinished, NeedsFile, bucket,
     planned
<1>4. Jobs'
  <2>1. Pending' = Pending
    BY DEF Pending
  <2>2. Pending \subseteq Names \X Nat
    BY DEF SInv, TInv, TypeOK, NeedsFile
  <2>3. \A j \in Pending : Current(durable[RelOf[j[1]]], j[1])'
                             => j[2] \notin durable'[RelOf[j[1]]].done
    BY <1>1, <2>2 DEF SInv, Jobs, Current, bucket
  <2> QED
    BY <2>1, <2>3 DEF SInv, Jobs, planned
<1> QED
  BY <1>2, <1>3, <1>4 DEF SInv

-----------------------------------------------------------------------------
LEMMA SStep ==
  ASSUME NamesAgree, RecordsTrusted
  PROVE  SInv /\ [Next]_vars => SInv'
<1> SUFFICES ASSUME SInv, [Next]_vars PROVE SInv'
  OBVIOUS
<1>0. TInv'
  BY TStep, CalmIsHarsh DEF SInv
<1>S. Save => /\ durable' = db \/ durable' = durable \/ durable' = NoState
              /\ SavesMayFail = TRUE \/ durable' = db
  BY DEF Save
<1>1. ASSUME NEW r \in Requests, Begin(r) PROVE SInv'
  BY <1>0, <1>1, SBegin
<1>2. ASSUME NEW r \in Requests, BeginFails(r) PROVE SInv'
  BY <1>0, <1>2, SOutside DEF BeginFails, disk, pool
<1>3. CASE NothingToDo
  BY <1>0, <1>S, <1>3, SReturn DEF NothingToDo
<1>4. CASE DryRun
  BY <1>0, <1>4, SReturn DEF DryRun, disk
<1>5. ASSUME NEW n \in Names, Preallocate(n) PROVE SInv'
  BY <1>0, <1>5, SPreallocate
<1>6. ASSUME NEW n \in Names, PreallocateFails(n) PROVE SInv'
  <2>1. /\ n \in todo /\ pc = "queued" /\ Return /\ UNCHANGED <<bucket, final, durable>>
        /\ \/ UNCHANGED partial
           \/ partial' = [partial EXCEPT ![DstOf[n]] = IF @ = NoFile THEN Empty ELSE @]
    BY <1>6 DEF PreallocateFails, BiggestOf
  <2>2. CASE partial[DstOf[n]] = NoFile
    <3>1. UNCHANGED partial \/ \E f : partial' = [partial EXCEPT ![DstOf[n]] = f]
      BY <2>1
    <3> QED
      BY <1>0, <2>1, <2>2, <3>1, SReturn
  <2>3. CASE partial[DstOf[n]] # NoFile
    <3>1. UNCHANGED partial
      BY <2>1, <2>3 DEF SInv, TInv, TypeOK
    <3> QED
      BY <1>0, <2>1, <3>1, SReturn
  <2> QED
    BY <2>2, <2>3
<1>7. ASSUME NEW j, Take(j) PROVE SInv'
  BY <1>0, <1>7, STake
<1>8. ASSUME NEW j, Land(j) \/ Retry(j) \/ FetchFails(j) PROVE SInv'
  BY <1>0, <1>8, SLandRetryFail
<1>9. ASSUME NEW j, Mark(j) PROVE SInv'
  BY <1>0, <1>9, SMark
<1>10. CASE Checkpoint
  <2>1. /\ pc = "drain" /\ pc' = "drain" /\ Save
        /\ UNCHANGED <<bucket, partial, final, db, planned, todo, pool>>
    BY <1>10 DEF Checkpoint
  <2> QED
    BY <1>0, <1>S, <2>1, SSave
<1>11. ASSUME NEW why \in {"guard", "signal"}, Cancel(why) PROVE SInv'
  BY <1>0, <1>11, SOutside DEF Cancel, disk
<1>12. CASE DrainFails
  BY <1>0, <1>S, <1>12, SReturn DEF DrainFails
<1>13. CASE DrainEnds
  BY <1>0, <1>S, <1>13, SSave DEF DrainEnds
<1>14. ASSUME NEW n \in Names, Promote(n) PROVE SInv'
  BY <1>0, <1>14, SPromote
<1>23. ASSUME NEW n \in Names, AskDigest(n) PROVE SInv'
  BY <1>0, <1>23, SAskDigest
<1>15. ASSUME NEW n \in Names, PromoteFails(n) PROVE SInv'
  BY <1>0, <1>15, SReturn DEF PromoteFails, disk
<1>16. CASE Finish
  BY <1>0, <1>S, <1>16, SReturn DEF Finish
<1>17. CASE Kill
  BY <1>0, <1>17, SReturn DEF Kill, disk
<1>18. ASSUME NEW k \in Keys, NEW v \in Versions \cup {Absent},
              pc = "idle", v \notin seen[k], Store(k, v)
       PROVE  SInv'
  BY <1>0, <1>18, SStore
<1>19. CASE RemoveState
  <2>1. /\ UNCHANGED <<bucket, partial, final, pc, db, planned, todo, pool>>
        /\ durable' = NoState /\ pc = "idle"
    BY <1>19 DEF RemoveState, Wipe
  <2> QED
    BY <1>0, <2>1, SOutside DEF pool
<1>20. ASSUME NEW p \in Paths, RemoveFinal(p) PROVE SInv'
  <2>1. /\ \A q \in Paths : final'[q] = final[q] \/ final'[q] = NoFile
        /\ SavesMayFail = FALSE /\ pc = "idle"
        /\ UNCHANGED <<bucket, partial, durable, pc, db, planned, todo, pool>>
    BY <1>20 DEF RemoveFinal, Wipe, RecordsTrusted, SInv, TInv, TypeOK
  <2> QED
    BY <1>0, <2>1, SOutside DEF pool
<1>21. CASE UNCHANGED vars
  BY <1>0, <1>21, SOutside DEF vars, disk, pool
<1>22. Rest => UNCHANGED vars
  BY DEF Rest
<1> QED
  BY <1>1, <1>2, <1>3, <1>4, <1>5, <1>6, <1>7, <1>8, <1>9, <1>10, <1>11, <1>12,
     <1>13, <1>14, <1>15, <1>16, <1>17, <1>18, <1>19, <1>20, <1>21, <1>22,
     <1>23
     DEF Next, RunStep, Progress

\* As long as names agree, objects change only between runs and never back, no
\* partial file is removed by hand, and either no save of state.json is lost or no
\* whole file is removed by hand (with both, an old entry meets a new file), no
\* torn file is ever at a destination path, however often runs are killed.
THEOREM CalmFinalIntact ==
  ASSUME NamesAgree, RecordsTrusted
  PROVE  Spec => []FinalIntact
<1>1. SInv => FinalIntact
  BY DEF SInv
<1> QED
  BY SInit, SStep, <1>1, PTL DEF Spec

\* Under the same conditions, whichever saves are lost where no whole file is
\* removed, state.json never records a part of the current object that the
\* partial file does not hold.
THEOREM CalmStateWithinDisk ==
  ASSUME NamesAgree, RecordsTrusted
  PROVE  Spec => []StateWithinDisk
<1>1. SInv => StateWithinDisk
  <2> SUFFICES ASSUME SInv, NEW n \in Names,
                      LET e == durable[RelOf[n]]
                      IN  /\ e # NoEntry /\ ~e.complete /\ e.etag = remote[KeyOf[n]]
                          /\ RightSize(partial[DstOf[n]], remote[KeyOf[n]]),
                      NEW i \in durable[RelOf[n]].done
               PROVE  partial[DstOf[n]][i] = remote[KeyOf[n]]
    BY DEF StateWithinDisk
  <2>1. ~Excused(n)
    BY DEF Excused, RightSize
  <2> QED
    BY <2>1 DEF SInv, Claims, Record, Backed, Current
<1> QED
  BY SInit, SStep, <1>1, PTL DEF Spec

-----------------------------------------------------------------------------
\* What the bucket held, and which digests it gave out, since the run began.
Remembered ==
  /\ pc # "idle" => \A k \in Keys : remote[k] \in held[k]
  /\ \A q \in asked : IF q[2] = Absent THEN ForceVerify = FALSE ELSE q[2] \in held[KeyOf[q[1]]]

LEMMA RInit == Init => Remembered
BY DEF Init, NoProcess, Remembered

LEMMA RStep == TInv /\ Remembered /\ [HarshNext]_vars => Remembered'
<1> SUFFICES ASSUME TInv, Remembered, [HarshNext]_vars PROVE Remembered'
  OBVIOUS
<1>1. ASSUME pc' = "idle", asked' = {} PROVE Remembered'
  BY <1>1 DEF Remembered
<1>2. ASSUME NEW r \in Requests, Begin(r) PROVE Remembered'
  <2>1. asked' = {} /\ UNCHANGED remote /\ held' = [k \in Keys |-> {remote[k]}]
    BY <1>2 DEF Begin, TInv, Opened, bucket
  <2> QED
    BY <2>1 DEF Remembered
<1>3. ASSUME NEW n \in Names, AskDigest(n) PROVE Remembered'
  <2>1. PICK w \in Digests(n) : asked' = {<<n, w>>}
    BY <1>3 DEF AskDigest
  <2>2. /\ remote[KeyOf[n]] \in held[KeyOf[n]] /\ Absent \notin Signed
        /\ UNCHANGED <<remote, held, pc>>
    BY <1>3 DEF AskDigest, Remembered, bucket
  <2>3. IF w = Absent THEN ForceVerify = FALSE ELSE w \in held[KeyOf[n]]
    BY <2>2 DEF Digests
  <2> QED
    BY <2>1, <2>2, <2>3 DEF Remembered
<1>4. ASSUME NEW n \in Names, Promote(n) PROVE Remembered'
  BY <1>4, PromoteFacts DEF Remembered, bucket
<1>5. ASSUME NEW k \in Keys, NEW v \in Versions \cup {Absent}, Store(k, v) PROVE Remembered'
  <2>1. /\ remote' = [remote EXCEPT ![k] = v] /\ UNCHANGED <<pc, asked>>
        /\ held' = IF pc = "idle" THEN held ELSE [held EXCEPT ![k] = @ \cup {v}]
    BY <1>5 DEF Store
  <2>2. /\ remote \in [Keys -> Versions \cup {Absent}]
        /\ held \in [Keys -> SUBSET (Versions \cup {Absent})]
    BY DEF TInv, TypeOK
  <2>3. \A l \in Keys : held[l] \subseteq held'[l] /\ (pc # "idle" => remote'[l] \in held'[l])
    BY <2>1, <2>2 DEF Remembered
  <2>4. \A q \in asked : KeyOf[q[1]] \in Keys
    BY DEF TInv, TypeOK, NeedsFile
  <2> QED
    BY <2>1, <2>3, <2>4 DEF Remembered
<1>6. ASSUME UNCHANGED <<pc, remote, held, asked>> PROVE Remembered'
  BY <1>6 DEF Remembered
<1>7. ASSUME pc # "idle", UNCHANGED <<remote, held, asked>> PROVE Remembered'
  BY <1>7 DEF Remembered
<1> QED
  BY <1>1, <1>2, <1>3, <1>4, <1>5, <1>6, <1>7
     DEF HarshNext, RunStep, Progress, BeginFails, NothingToDo, DryRun, Preallocate,
     PreallocateFails, Take, Land, Retry, FetchFails, Mark, Checkpoint, Cancel, DrainFails,
     DrainEnds, PromoteFails, Finish, Kill, RemoveState, RemoveFinal, RemovePartial, Wipe,
     Rest, Return, vars, disk, bucket, planned

\* With --verify, what is promoted is the whole of a version held meanwhile.
LEMMA VerifiedPromote ==
  ASSUME ForceVerify = TRUE, TInv, Remembered, NEW n, Promote(n)
  PROVE  \E v \in held[KeyOf[n]] \ {Absent} : v \in Versions /\ partial[DstOf[n]] = Whole(v)
<1>1. PICK w \in Versions \cup {Absent} :
        <<n, w>> \in asked /\ (w \in Versions => partial[DstOf[n]] = Whole(w))
  BY PromoteFacts
<1>2. w # Absent /\ w \in held[KeyOf[n]]
  BY <1>1 DEF Remembered
<1> QED
  BY <1>1, <1>2

\* Only promotions and removals change what lies at the destination paths.
LEMMA FinalChanges ==
  ASSUME HarshNext, final' # final
  PROVE  \/ \E n \in Names : Promote(n)
         \/ \E p \in Paths : RemoveFinal(p)
BY DEF HarshNext, RunStep, Progress, Begin, BeginFails, NothingToDo, DryRun, Preallocate,
   PreallocateFails, Take, Land, Retry, FetchFails, Mark, Checkpoint, Cancel, DrainFails,
   DrainEnds, AskDigest, PromoteFails, Finish, Kill, Store, RemoveState, RemovePartial,
   Wipe, Rest, vars, disk

\* With --verify no torn file is ever at a destination path, whatever happens to
\* the bucket, the partial files and state.json, and however names are chosen.
THEOREM VerifiedFinalIntact ==
  ASSUME ForceVerify = TRUE
  PROVE  HarshSpec => []FinalIntact
<1>1. Init => FinalIntact
  BY DEF Init, FinalIntact
<1>2. TInv /\ Remembered /\ FinalIntact /\ [HarshNext]_vars => FinalIntact'
  <2> SUFFICES ASSUME TInv, Remembered, FinalIntact, [HarshNext]_vars PROVE FinalIntact'
    OBVIOUS
  <2>1. CASE final' = final
    BY <2>1 DEF FinalIntact
  <2>2. ASSUME NEW n \in Names, Promote(n) PROVE FinalIntact'
    <3>1. \E v \in Versions : partial[DstOf[n]] = Whole(v)
      BY <2>2, VerifiedPromote
    <3>2. final' = [final EXCEPT ![DstOf[n]] = partial[DstOf[n]]]
      BY <2>2 DEF Promote
    <3> QED
      BY <3>1, <3>2 DEF FinalIntact, TInv, TypeOK
  <2>3. ASSUME NEW p \in Paths, RemoveFinal(p) PROVE FinalIntact'
    BY <2>3 DEF RemoveFinal, FinalIntact, TInv, TypeOK
  <2>4. final' # final => HarshNext
    BY DEF vars, disk
  <2> QED
    BY <2>1, <2>2, <2>3, <2>4, FinalChanges
<1> QED
  BY TInit, TStep, RInit, RStep, <1>1, <1>2, PTL DEF HarshSpec

\* The steps of a pull, seen from the destination paths.
LEMMA DeliveredStep ==
  ASSUME TInv, [HarshNext]_vars,
         \A n \in Names : Promote(n) =>
           \E v \in held[KeyOf[n]] \ {Absent} : partial[DstOf[n]] = Whole(v)
  PROVE  [Delivered!Next]_(Delivered!vars)
<1> USE DEF Delivered!vars
<1>1. ASSUME NEW n \in Names, Promote(n) PROVE Delivered!Next
  <2>1. Delivered!Install(KeyOf[n], DstOf[n])
    BY <1>1, PromoteFacts DEF Delivered!Install, bucket
  <2>2. <<KeyOf[n], DstOf[n]>> \in {<<KeyOf[m], DstOf[m]>> : m \in Names}
    OBVIOUS
  <2> QED
    BY <2>1, <2>2 DEF Delivered!Next
<1>2. ASSUME NEW p \in Paths, RemoveFinal(p) PROVE Delivered!Next
  <2>1. Delivered!Remove(p)
    BY <1>2 DEF Delivered!Remove, RemoveFinal, Wipe, bucket, planned
  <2> QED
    BY <2>1 DEF Delivered!Next
<1>3. ASSUME NEW k \in Keys, NEW v \in Versions \cup {Absent}, Store(k, v)
      PROVE  Delivered!Next
  <2>1. Delivered!Replace(k)
    BY <1>3 DEF Delivered!Replace, Store, disk
  <2> QED
    BY <2>1 DEF Delivered!Next
<1>4. ASSUME NEW r \in Requests, Begin(r) PROVE Delivered!Next
  <2>1. Delivered!Start
    BY <1>4 DEF Delivered!Start, Begin, bucket, disk
  <2> QED
    BY <2>1 DEF Delivered!Next
<1>5. ASSUME pc # "idle", Return, UNCHANGED <<remote, final>> PROVE Delivered!Next
  BY <1>5 DEF Delivered!Next, Delivered!Stop, Return, NoneHeld
<1>6. ASSUME UNCHANGED <<remote, final, held>>, pc' = pc \/ (pc # "idle" /\ pc' # "idle")
      PROVE  UNCHANGED Delivered!vars
  BY <1>6
<1>7. \/ \E n \in Names : Promote(n)
      \/ \E p \in Paths : RemoveFinal(p)
      \/ \E k \in Keys, v \in Versions \cup {Absent} : Store(k, v)
      \/ \E r \in Requests : Begin(r)
      \/ pc # "idle" /\ Return /\ UNCHANGED <<remote, final>>
      \/ /\ UNCHANGED <<remote, final, held>>
         /\ pc' = pc \/ (pc # "idle" /\ pc' # "idle")
  BY DEF HarshNext, RunStep, Progress, BeginFails, NothingToDo, DryRun, Preallocate,
     PreallocateFails, Take, Land, Retry, FetchFails, Mark, Checkpoint, Cancel, DrainFails,
     DrainEnds, AskDigest, PromoteFails, Finish, Kill, RemoveState, RemovePartial, Wipe,
     Rest, vars, disk, bucket, planned
<1> QED
  BY <1>1, <1>2, <1>3, <1>4, <1>5, <1>6, <1>7

LEMMA DeliveredInit == Init => Delivered!Init
BY DEF Init, NoProcess, NoneHeld, Delivered!Init

\* In the calm world, with the assumptions of CalmFinalIntact, a pull implements
\* the contract of Delivery: a path only ever changes, in one step, to the whole
\* of an object the bucket has held since the pull began.
THEOREM CalmDelivers ==
  ASSUME NamesAgree, RecordsTrusted
  PROVE  Spec => Delivered!Safety
<1>1. SInv /\ Remembered /\ [Next]_vars => [Delivered!Next]_(Delivered!vars)
  <2> SUFFICES ASSUME SInv, Remembered, [Next]_vars PROVE [Delivered!Next]_(Delivered!vars)
    OBVIOUS
  <2>1. ASSUME NEW n \in Names, Promote(n)
        PROVE  \E v \in held[KeyOf[n]] \ {Absent} : partial[DstOf[n]] = Whole(v)
    <3>1. pc = "promote" /\ n \in todo /\ RelOf[n] \in done /\ n \in Targets
      BY <2>1, PromoteFacts, PromoteDone DEF SInv
    <3>2. partial[DstOf[n]] = Whole(ver[n]) /\ ver[n] \in Versions
      BY <3>1 DEF SInv, DoneWhole, TInv, TypeOK, NeedsFile
    <3>3. ver[n] = remote[KeyOf[n]] /\ remote[KeyOf[n]] \in held[KeyOf[n]]
      BY <3>1 DEF SInv, Steady, Remembered
    <3> QED
      BY <3>2, <3>3
  <2> QED
    BY <2>1, DeliveredStep, CalmIsHarsh DEF SInv
<1>2. SInv /\ Remembered /\ [Next]_vars => Remembered'
  BY RStep, CalmIsHarsh DEF SInv
<1> QED
  BY SInit, SStep, RInit, <1>1, <1>2, DeliveredInit, PTL DEF Spec, Delivered!Safety

\* So does a pull with --verify in the harsh world, though objects may be replaced
\* between the HEAD and the rename: what was compared is what is installed.
THEOREM VerifiedDelivers ==
  ASSUME ForceVerify = TRUE
  PROVE  HarshSpec => Delivered!Safety
<1>1. TInv /\ Remembered /\ [HarshNext]_vars => [Delivered!Next]_(Delivered!vars)
  BY VerifiedPromote, DeliveredStep
<1> QED
  BY TInit, TStep, RInit, RStep, <1>1, DeliveredInit, PTL DEF HarshSpec, Delivered!Safety
-----------------------------------------------------------------------------
(* What a run accounts for, in the harsh world and so in the calm one *)

\* No object is empty: an empty one has no part to be fetched or marked, so a pull
\* of it alone returns without an error and without a file (pull.go:163).
NoneEmpty == \A v \in Versions : PartsOf[v] > 0

\* Every part of every file to be fetched is recorded in memory or in a pending
\* job, until the file is done; then the drain ends with all files done.
Accounted ==
  /\ pc = "queued" => air = {} /\ landed = {} /\ done = {} /\ werr = FALSE
  /\ pc \in {"queued", "drain"} =>
       \A n \in NeedsFile :
         \/ werr = TRUE \/ RelOf[n] \in done
         \/ /\ ~db[RelOf[n]].complete /\ db[RelOf[n]].done # Parts(ver[n])
            /\ \A i \in Parts(ver[n]) : i \in db[RelOf[n]].done \/ <<n, i>> \in Pending
  /\ pc = "promote" /\ ctx = "live" => \A n \in NeedsFile : RelOf[n] \in done

\* A name is at its path at the listed size from the moment it is skipped or
\* promoted.
Arrived ==
  /\ pc \in {"queued", "drain", "promote"} =>
       \A n \in Names : verdict[n] = "complete" => RightSize(final[DstOf[n]], ver[n])
  /\ pc = "promote" => \A n \in NeedsFile \ todo : RightSize(final[DstOf[n]], ver[n])

GInv == TInv /\ Accounted /\ Arrived

\* Without a process nothing is accounted for and nothing has arrived.
LEMMA GIdle == pc = "idle" => Accounted /\ Arrived
BY DEF Accounted, Arrived

\* Steps that keep the records, the plan and the paths of a run, and lose no job
\* unless a worker reports it.
LEMMA GFrame ==
  ASSUME TInv, Accounted, Arrived, pc # "promote",
         UNCHANGED <<pc, db, planned, done, final>>,
         werr' = werr \/ (werr' = TRUE /\ pc = "drain"),
         Pending \subseteq Pending' \/ werr' = TRUE,
         pc = "queued" => UNCHANGED <<air, landed>>
  PROVE  Accounted' /\ Arrived'
<1>1. NeedsFile' = NeedsFile
  BY DEF NeedsFile, planned
<1>2. /\ pc' = pc /\ db' = db /\ ver' = ver /\ verdict' = verdict /\ done' = done /\ final' = final
      /\ pc = "queued" => air' = air /\ landed' = landed
  BY DEF planned
<1>3. ASSUME NEW n \in NeedsFile, pc \in {"queued", "drain"}
      PROVE  \/ werr' = TRUE \/ RelOf[n] \in done
             \/ /\ ~db[RelOf[n]].complete /\ db[RelOf[n]].done # Parts(ver[n])
                /\ \A i \in Parts(ver[n]) : i \in db[RelOf[n]].done \/ <<n, i>> \in Pending'
  BY <1>3 DEF Accounted
<1>4. pc' = "queued" => air' = {} /\ landed' = {} /\ done' = {} /\ werr' = FALSE
  BY <1>2 DEF Accounted
<1>5. Accounted'
  BY <1>1, <1>2, <1>3, <1>4 DEF Accounted
<1>6. Arrived'
  BY <1>1, <1>2 DEF Arrived
<1> QED
  BY <1>5, <1>6

\* A file to be fetched is entered with a part missing, and every missing part
\* becomes a job.
LEMMA EnteredWanted ==
  ASSUME NoneEmpty, TInv, NEW r \in Requests, NEW n \in Listed(r),
         NEW vd \in [Names -> {"none", "complete", "resume", "transfer"}],
         vd[n] \in {"resume", "transfer"},
         vd[n] = "resume" => Resumable(n, remote[KeyOf[n]])
  PROVE  LET e == Entered(Listed(r), vd)[RelOf[n]]
         IN  /\ ~e.complete /\ e.done # Parts(remote[KeyOf[n]])
             /\ \A i \in Parts(remote[KeyOf[n]]) : i \in e.done \/ i \in Wanted(n, vd[n])
<1> DEFINE v == remote[KeyOf[n]]
           e == Entered(Listed(r), vd)[RelOf[n]]
<1>1. /\ Listed(r) \subseteq Names /\ v \in Versions /\ RelOf[n] \in Rels
      /\ \A m \in Listed(r) : RelOf[m] = RelOf[n] => m = n
  BY RequestsAssumption DEF Listed, TInv, TypeOK
<1>2. CASE vd[n] = "transfer"
  <2>1. n = CHOOSE m \in Listed(r) : RelOf[m] = RelOf[n]
    BY <1>1
  <2>2. e = Fresh(v)
    BY <1>1, <1>2, <2>1 DEF Entered
  <2>3. 0 \in Parts(v)
    BY <1>1 DEF Parts, NoneEmpty
  <2> QED
    BY <1>2, <2>2, <2>3 DEF Fresh, Wanted
<1>3. CASE vd[n] = "resume"
  <2>1. ~ \E m \in Listed(r) : RelOf[m] = RelOf[n] /\ vd[m] # "resume"
    BY <1>1, <1>3
  <2>2. e = durable[RelOf[n]]
    BY <1>1, <2>1 DEF Entered
  <2>3. /\ ~e.complete /\ e.etag = v /\ MissingParts(e) # {} /\ e # NoEntry /\ Fits(e)
    BY <1>1, <1>3, <2>2 DEF Resumable, TInv, TypeOK
  <2>4. MissingParts(e) = Parts(v) \ e.done
    BY <2>3 DEF MissingParts, Fits, Parts
  <2> HIDE DEF e
  <2>5. Wanted(n, vd[n]) = MissingParts(e)
    BY <1>3, <2>2 DEF Wanted
  <2> QED
    BY <2>3, <2>4, <2>5 DEF e
<1> QED
  BY <1>2, <1>3

LEMMA GBegin ==
  ASSUME NoneEmpty, GInv, NEW r \in Requests, Begin(r)
  PROVE  Accounted' /\ Arrived'
<1> DEFINE listed == Listed(r)
           vd == [n \in Names |->
                    IF n \in listed THEN DecideSkip(n, remote[KeyOf[n]]) ELSE "none"]
<1>1. /\ pc' = "queued" /\ verdict' = vd /\ pc = "idle"
      /\ ver' = [n \in Names |-> IF n \in listed THEN remote[KeyOf[n]] ELSE Absent]
      /\ db' = Entered(listed, vd)
      /\ queue' = UNION {{n} \X Wanted(n, vd[n]) : n \in listed}
      /\ UNCHANGED <<disk, air, landed, done, werr, ctx>>
  BY DEF Begin
<1>2. air = {} /\ landed = {} /\ done = {} /\ werr = FALSE
  BY <1>1 DEF GInv, TInv, Opened, NoProcess
<1>3. /\ vd \in [Names -> {"none", "complete", "resume", "transfer"}]
      /\ \A n \in Names : vd[n] # "none" => n \in listed /\ vd[n] = DecideSkip(n, remote[KeyOf[n]])
  BY DEF DecideSkip
<1> HIDE DEF listed, vd
<1>4. ASSUME NEW n \in NeedsFile'
      PROVE  /\ ~db'[RelOf[n]].complete /\ db'[RelOf[n]].done # Parts(ver'[n])
             /\ \A i \in Parts(ver'[n]) : i \in db'[RelOf[n]].done \/ <<n, i>> \in Pending'
  <2>1. n \in Names /\ n \in listed /\ vd[n] \in {"resume", "transfer"}
    BY <1>1, <1>3, <1>4 DEF NeedsFile
  <2>2. vd[n] = "resume" => Resumable(n, remote[KeyOf[n]])
    BY <1>3, <2>1 DEF DecideSkip
  <2>3. ver'[n] = remote[KeyOf[n]]
    BY <1>1, <2>1
  <2>4. /\ ~db'[RelOf[n]].complete /\ db'[RelOf[n]].done # Parts(remote[KeyOf[n]])
        /\ \A i \in Parts(remote[KeyOf[n]]) : i \in db'[RelOf[n]].done \/ i \in Wanted(n, vd[n])
    BY <1>1, <1>3, <2>1, <2>2, EnteredWanted DEF GInv, listed
  <2>5. \A i \in Wanted(n, vd[n]) : <<n, i>> \in queue'
    BY <1>1, <2>1
  <2> QED
    BY <2>3, <2>4, <2>5 DEF Pending
<1>5. ASSUME NEW n \in Names, vd[n] = "complete"
      PROVE  RightSize(final'[DstOf[n]], ver'[n])
  <2>1. RightSize(final[DstOf[n]], remote[KeyOf[n]])
    BY <1>3, <1>5 DEF DecideSkip
  <2>2. ver'[n] = remote[KeyOf[n]] /\ final' = final
    BY <1>1, <1>3, <1>5 DEF disk
  <2> QED
    BY <2>1, <2>2
<1>6. Accounted'
  BY <1>1, <1>2, <1>4 DEF Accounted
<1>7. Arrived'
  BY <1>1, <1>5 DEF Arrived
<1> QED
  BY <1>6, <1>7

LEMMA GMark ==
  ASSUME GInv, NEW j, Mark(j)
  PROVE  Accounted' /\ Arrived'
<1> DEFINE n == j[1]
           i == j[2]
           l == RelOf[n]
           e == db[l]
           e2 == Marked(e, i)
<1>t. TInv /\ Accounted /\ Arrived
  BY DEF GInv
<1>1. /\ pc = "drain" /\ j \in landed /\ j \in Pending
      /\ db' = [db EXCEPT ![l] = e2]
      /\ done' = IF e2.complete THEN done \cup {l} ELSE done
      /\ landed' = landed \ {j}
      /\ UNCHANGED <<bucket, disk, pc, planned, todo, queue, air, werr>>
  BY DEF Mark, Pending
<1>2. /\ n \in Names /\ n \in NeedsFile /\ l \in Rels /\ ver[n] \in Versions
      /\ i \in Parts(ver[n]) /\ j = <<n, i>> /\ n \in Targets
  BY <1>1, <1>t, JobFacts
<1>3. e \in Entry /\ Fits(e) /\ e.etag = ver[n]
  BY <1>2, <1>t DEF TInv, TypeOK, Planned
<1>4. ASSUME ~e.complete, e.done # Parts(ver[n])
      PROVE  \/ e2.complete
             \/ ~e2.complete /\ e2.done = e.done \cup {i} /\ e2.done # Parts(ver[n])
  <2>1. CASE i \in e.done
    BY <1>4, <2>1 DEF Marked
  <2>2. CASE i \notin e.done
    BY <1>2, <1>3, <1>4, <2>2, MarkedDone
  <2> QED
    BY <2>1, <2>2
<1>5. /\ db'[l] = e2
      /\ \A m \in NeedsFile : m # n => db'[RelOf[m]] = db[RelOf[m]]
  <2>1. db \in [Rels -> Entry \cup {NoEntry}]
    BY <1>t DEF TInv, TypeOK
  <2>2. \A m \in NeedsFile : m # n => RelOf[m] # l /\ RelOf[m] \in Rels
    BY <1>2, <1>t DEF TInv, Distinct, NeedsFile, Targets
  <2> HIDE DEF e2, l
  <2> QED
    BY <1>1, <1>2, <2>1, <2>2
<1> HIDE DEF e2, e, n, i, l
<1>6. NeedsFile' = NeedsFile /\ ver' = ver /\ verdict' = verdict /\ final' = final /\ done \subseteq done'
  BY <1>1 DEF NeedsFile, planned, disk
<1>7. \A k \in Pending : k # j => k \in Pending'
  BY <1>1 DEF Pending
<1>8. ASSUME NEW m \in NeedsFile
      PROVE  \/ werr' = TRUE \/ RelOf[m] \in done'
             \/ /\ ~db'[RelOf[m]].complete /\ db'[RelOf[m]].done # Parts(ver[m])
                /\ \A k \in Parts(ver[m]) : k \in db'[RelOf[m]].done \/ <<m, k>> \in Pending'
  <2>1. \/ werr = TRUE \/ RelOf[m] \in done
        \/ /\ ~db[RelOf[m]].complete /\ db[RelOf[m]].done # Parts(ver[m])
           /\ \A k \in Parts(ver[m]) : k \in db[RelOf[m]].done \/ <<m, k>> \in Pending
    BY <1>1, <1>t DEF Accounted
  <2>2. CASE werr = TRUE \/ RelOf[m] \in done
    BY <1>1, <1>6, <2>2
  <2>3. CASE m # n /\ ~(werr = TRUE \/ RelOf[m] \in done)
    <3>1. \A k \in Parts(ver[m]) : <<m, k>> # j
      BY <1>2, <2>3
    <3> QED
      BY <1>5, <1>7, <2>1, <2>3, <3>1
  <2>4. CASE m = n /\ ~(werr = TRUE \/ RelOf[m] \in done)
    <3>1. /\ ~e.complete /\ e.done # Parts(ver[n])
          /\ \A k \in Parts(ver[n]) : k \in e.done \/ <<n, k>> \in Pending
      BY <2>1, <2>4 DEF e, l
    <3>2. CASE e2.complete
      BY <1>1, <2>4, <3>2 DEF l
    <3>3. CASE ~e2.complete
      <4>1. e2.done = e.done \cup {i} /\ e2.done # Parts(ver[n])
        BY <1>4, <3>1, <3>3
      <4>2. \A k \in Parts(ver[n]) : k \in e2.done \/ <<n, k>> \in Pending'
        BY <1>2, <1>7, <3>1, <4>1
      <4> QED
        BY <1>5, <2>4, <3>3, <4>1, <4>2 DEF l
    <3> QED
      BY <3>2, <3>3
  <2> QED
    BY <2>2, <2>3, <2>4
<1>9. Accounted'
  BY <1>1, <1>6, <1>8 DEF Accounted
<1>10. Arrived'
  BY <1>1, <1>6, <1>t DEF Arrived
<1> QED
  BY <1>9, <1>10

\* When no job is left and no worker has failed, every file is done.
LEMMA AllDone ==
  ASSUME TInv, Accounted, pc \in {"queued", "drain"}, werr = FALSE, Pending = {}
  PROVE  \A n \in NeedsFile : RelOf[n] \in done
<1> SUFFICES ASSUME NEW n \in NeedsFile, RelOf[n] \notin done PROVE FALSE
  OBVIOUS
<1> DEFINE e == db[RelOf[n]]
<1>1. /\ ~e.complete /\ e.done # Parts(ver[n])
      /\ \A i \in Parts(ver[n]) : i \in e.done
  BY DEF Accounted
<1>2. RelOf[n] \in Rels /\ Fits(e) /\ e # NoEntry /\ e.etag = ver[n]
  BY DEF TInv, TypeOK, Planned, NeedsFile
<1>3. e.done \subseteq Parts(ver[n])
  BY <1>1, <1>2 DEF Fits
<1> QED
  BY <1>1, <1>3

LEMMA GDrainEnds ==
  ASSUME GInv, DrainEnds
  PROVE  Accounted' /\ Arrived'
<1>1. /\ pc = "drain" /\ pc' = "promote" /\ ~werr /\ Drained
      /\ UNCHANGED <<final, db, planned, todo, pool>>
  BY DEF DrainEnds
<1>2. NeedsFile' = NeedsFile /\ ver' = ver /\ verdict' = verdict /\ todo = NeedsFile
  BY <1>1 DEF NeedsFile, planned, GInv, TInv, Opened
<1>3. ASSUME ctx = "live"
      PROVE  \A n \in NeedsFile : RelOf[n] \in done
  <2>1. Pending = {} /\ werr = FALSE
    BY <1>1, <1>3 DEF Drained, PoolLive, Pending, GInv, TInv, TypeOK
  <2> QED
    BY <1>1, <2>1, AllDone DEF GInv
<1>4. Accounted'
  BY <1>1, <1>2, <1>3 DEF Accounted, pool
<1>5. Arrived'
  BY <1>1, <1>2 DEF Arrived, GInv
<1> QED
  BY <1>4, <1>5

LEMMA GPromote ==
  ASSUME GInv, NEW n \in Names, Promote(n)
  PROVE  Accounted' /\ Arrived'
<1>1. /\ pc = "promote" /\ pc' = pc /\ n \in todo /\ todo' = todo \ {n}
      /\ final' = [final EXCEPT ![DstOf[n]] = partial[DstOf[n]]]
      /\ ver' = ver /\ verdict' = verdict /\ done' = done /\ ctx' = ctx
  BY PromoteFacts DEF GInv, pool
<1>2. NeedsFile' = NeedsFile
  BY <1>1 DEF NeedsFile
<1>3. n \in NeedsFile /\ Sized(n) /\ n \in Targets
  BY <1>1 DEF GInv, TInv, TypeOK, Opened, NeedsFile, Targets
<1>4. RightSize(final'[DstOf[n]], ver[n])
  BY <1>1, <1>3 DEF GInv, TInv, TypeOK, Sized
<1>5. \A m \in Targets : m # n => final'[DstOf[m]] = final[DstOf[m]]
  BY <1>1, <1>3 DEF GInv, TInv, TypeOK, Distinct, Targets
<1>6. Accounted'
  BY <1>1, <1>2 DEF GInv, Accounted
<1>7. ASSUME NEW m \in Names, verdict[m] = "complete"
      PROVE  RightSize(final'[DstOf[m]], ver[m])
  <2>1. m \in Targets /\ m # n /\ RightSize(final[DstOf[m]], ver[m])
    BY <1>1, <1>3, <1>7 DEF GInv, Arrived, Targets, NeedsFile
  <2> QED
    BY <1>5, <2>1
<1>8. ASSUME NEW m \in NeedsFile \ (todo \ {n})
      PROVE  RightSize(final'[DstOf[m]], ver[m])
  <2>1. CASE m = n
    BY <1>4, <2>1
  <2>2. CASE m # n
    <3>1. m \in Targets /\ RightSize(final[DstOf[m]], ver[m])
      BY <1>1, <1>8, <2>2 DEF GInv, Arrived, Targets, NeedsFile
    <3> QED
      BY <1>5, <2>2, <3>1
  <2> QED
    BY <2>1, <2>2
<1>9. Arrived'
  BY <1>1, <1>2, <1>7, <1>8 DEF Arrived
<1> QED
  BY <1>6, <1>9

LEMMA GStep ==
  ASSUME NoneEmpty
  PROVE  GInv /\ [HarshNext]_vars => GInv'
<1> SUFFICES ASSUME GInv, [HarshNext]_vars PROVE Accounted' /\ Arrived'
  BY TStep DEF GInv
<1> USE DEF bounds, disk
<1>t. TInv /\ Accounted /\ Arrived
  BY DEF GInv
<1>i. pc' = "idle" => Accounted' /\ Arrived'
  BY DEF Accounted, Arrived
<1>1. ASSUME NEW r \in Requests, Begin(r) PROVE Accounted' /\ Arrived'
  BY <1>1, GBegin
<1>2. ASSUME NEW n \in Names, Preallocate(n) PROVE Accounted' /\ Arrived'
  <2>1. /\ pc = "queued" /\ pc' \in {"queued", "drain"}
        /\ UNCHANGED <<final, db, planned, queue, air, landed, done, werr, ctx>>
    BY <1>2 DEF Preallocate, pool
  <2>2. NeedsFile' = NeedsFile /\ Pending' = Pending /\ ver' = ver /\ verdict' = verdict
    BY <2>1 DEF NeedsFile, Pending, planned
  <2>3. Accounted'
    BY <1>t, <2>1, <2>2 DEF Accounted
  <2>4. Arrived'
    BY <1>t, <2>1, <2>2 DEF Arrived
  <2> QED
    BY <2>3, <2>4
<1>3. ASSUME NEW j, Take(j) \/ Land(j) \/ Retry(j) \/ FetchFails(j)
      PROVE  Accounted' /\ Arrived'
  <2>1. /\ pc = "drain" /\ UNCHANGED <<pc, db, planned, done, final>>
        /\ werr' = werr \/ werr' = TRUE
        /\ Pending \subseteq Pending' \/ werr' = TRUE
    BY <1>3 DEF Take, Land, Retry, FetchFails, Pending, pool
  <2> QED
    BY <1>t, <2>1, GFrame
<1>4. ASSUME NEW j, Mark(j) PROVE Accounted' /\ Arrived'
  BY <1>4, GMark
<1>5. ASSUME Checkpoint \/ \E why \in {"guard", "signal"} : Cancel(why)
      PROVE  Accounted' /\ Arrived'
  <2>1. pc = "drain" /\ UNCHANGED <<pc, db, planned, done, final, werr>> /\ Pending' = Pending
    BY <1>5 DEF Checkpoint, Cancel, Pending, pool
  <2> QED
    BY <1>t, <2>1, GFrame
<1>6. CASE DrainEnds
  BY <1>6, GDrainEnds
<1>7. ASSUME NEW n \in Names, Promote(n) PROVE Accounted' /\ Arrived'
  BY <1>7, GPromote
<1>8. ASSUME \/ \E r \in Requests : BeginFails(r)
             \/ NothingToDo \/ DryRun \/ DrainFails \/ Finish \/ Kill \/ RemoveState
             \/ \E n \in Names : PreallocateFails(n) \/ PromoteFails(n)
             \/ \E p \in Paths : RemoveFinal(p) \/ RemovePartial(p)
      PROVE  Accounted' /\ Arrived'
  <2>1. pc' = "idle"
    BY <1>8 DEF BeginFails, NothingToDo, DryRun, DrainFails, Finish, Kill, RemoveState,
       PreallocateFails, PromoteFails, RemoveFinal, RemovePartial, Return, Wipe
  <2> QED
    BY <1>i, <2>1
<1>9. ASSUME \/ \E k \in Keys, v \in Versions \cup {Absent} : Store(k, v)
             \/ \E n \in Names : AskDigest(n)
             \/ Rest \/ UNCHANGED vars
      PROVE  Accounted' /\ Arrived'
  <2>1. UNCHANGED <<final, pc, db, ver, verdict, todo, pool>>
    BY <1>9 DEF Store, AskDigest, Rest, vars, planned
  <2>2. NeedsFile' = NeedsFile /\ Pending' = Pending
    BY <2>1 DEF NeedsFile, Pending, pool
  <2>3. Accounted'
    BY <1>t, <2>1, <2>2 DEF Accounted, pool
  <2>4. Arrived'
    BY <1>t, <2>1, <2>2 DEF Arrived
  <2> QED
    BY <2>3, <2>4
<1> QED
  BY <1>1, <1>2, <1>3, <1>4, <1>5, <1>6, <1>7, <1>8, <1>9 DEF HarshNext, RunStep, Progress

LEMMA GInit == Init => GInv
BY TInit, GIdle DEF Init, NoProcess, GInv

\* What is proved of the harsh world holds in the calm one.
LEMMA CalmSpecIsHarsh == Spec => HarshSpec
<1>1. [Next]_vars => [HarshNext]_vars
  BY CalmIsHarsh
<1> QED
  BY <1>1, PTL DEF Spec, HarshSpec

\* "internal: not complete after drain" (pull.go:278) is an internal error: in
\* the harsh world too, a drain that ended with no error and a live context
\* forgot no part, as long as every object has a part to forget.
THEOREM DrainForgetsNothing ==
  ASSUME NoneEmpty
  PROVE  HarshSpec => []NothingForgotten
<1>1. GInv => NothingForgotten
  BY DEF GInv, TInv, TypeOK, Accounted, NothingForgotten
<1> QED
  BY GInit, GStep, <1>1, PTL DEF HarshSpec

\* A run that ends with exit code 0 has every name it listed at its path at the
\* listed size (docs/USAGE.md:98-101), skipped, resumed or fetched, whatever
\* happens to the bucket meanwhile, as long as no object is empty.
THEOREM OkDeliversAll ==
  ASSUME NoneEmpty
  PROVE  HarshSpec => OkDelivers
<1>1. ASSUME GInv, Finish \/ NothingToDo, NEW n \in Names, verdict[n] # "none"
      PROVE  RightSize(final[DstOf[n]], ver[n])
  <2>t. TInv /\ Accounted /\ Arrived
    BY <1>1 DEF GInv
  <2>1. n \in NeedsFile \/ verdict[n] = "complete"
    BY <1>1, <2>t DEF TInv, TypeOK, NeedsFile
  <2>2. CASE verdict[n] = "complete"
    BY <1>1, <2>t, <2>2 DEF Finish, NothingToDo, Arrived
  <2>3. CASE n \in NeedsFile /\ Finish
    BY <2>t, <2>3 DEF Finish, Arrived
  <2>4. CASE n \in NeedsFile /\ NothingToDo
    <3>1. pc = "queued" /\ Pending = {} /\ werr = FALSE /\ done = {}
      BY <2>t, <2>4 DEF NothingToDo, Accounted, Pending
    <3>2. RelOf[n] \in done
      BY <2>t, <2>4, <3>1, AllDone
    <3> QED
      BY <3>1, <3>2
  <2> QED
    BY <1>1, <2>1, <2>2, <2>3, <2>4
<1>2. GInv /\ [HarshNext]_vars =>
        [Finish \/ NothingToDo =>
           \A n \in Names : verdict[n] # "none" => RightSize(final[DstOf[n]], ver[n])]_vars
  BY <1>1
<1> QED
  BY GInit, GStep, <1>2, PTL DEF HarshSpec, OkDelivers

\* A pull that was cut short after a checkpoint is resumed, never restarted
\* (pull.go:250-251, docs/USAGE.md:129-130): as long as names agree, no partial
\* file is removed by hand, and no save is lost or no whole file removed, decideSkip
\* finds what it needs whatever was killed or failed in between.
THEOREM CalmResumes ==
  ASSUME NamesAgree, RecordsTrusted
  PROVE  Spec => InterruptedIsResumed
<1>1. ASSUME SInv, NEW r \in Requests, Begin(r), NEW n \in Listed(r),
             Current(durable[RelOf[n]], n), durable[RelOf[n]].done # {}
      PROVE  verdict'[n] # "transfer"
  <2>1. n \in Names /\ remote[KeyOf[n]] \in Versions
    BY <1>1 DEF Listed, SInv, TInv, TypeOK
  <2>2. \/ RightSize(final[DstOf[n]], remote[KeyOf[n]])
        \/ Resumable(n, remote[KeyOf[n]])
    BY <1>1, <2>1, BackedResumes
  <2>3. verdict'[n] = DecideSkip(n, remote[KeyOf[n]])
    BY <1>1, <2>1 DEF Begin
  <2> QED
    BY <2>2, <2>3 DEF DecideSkip
<1>2. SInv /\ [Next]_vars =>
        [\A r \in Requests : Begin(r) => \A n \in Listed(r) :
           LET e == durable[RelOf[n]]
           IN  e # NoEntry /\ ~e.complete /\ e.etag = remote[KeyOf[n]] /\ e.done # {}
                 => verdict'[n] # "transfer"]_vars
  BY <1>1 DEF Current
<1> QED
  BY SInit, SStep, <1>2, PTL DEF Spec, InterruptedIsResumed
=============================================================================
