------------------------------ MODULE PartPlan ------------------------------
(***************************************************************************)
(* plan.go: how an object is split into parts, how many workers a set of   *)
(* objects is given, and in which order the parts are handed to them.      *)
(* Sizes are in any unit; the constants are those of plan.go, scaled.      *)
(***************************************************************************)
EXTENDS Integers, Sequences, FiniteSets, SequencesExt

CONSTANTS
  minPartSize, maxPartsPerObject, s3MaxParts, maxInFlightPerObject

ASSUME PlanAssumption ==
  {minPartSize, maxPartsPerObject, s3MaxParts, maxInFlightPerObject}
    \subseteq Nat \ {0}

ceilDiv(a, b) == IF b = 0 THEN 0 ELSE (a + b - 1) \div b

\* The inversion: the size of a part follows from how many are asked for, and
\* the count from the size.
Split(size, n) ==
  LET ps == ceilDiv(size, n)
  IN  [Size |-> size, PartSize |-> ps, NParts |-> ceilDiv(size, ps)]

\* Mutation: the count is rounded up, as plan.go once did.
SupplyRoundedUp(size) ==
  LET k == ceilDiv(size, minPartSize)
  IN  IF k > maxPartsPerObject THEN maxPartsPerObject ELSE k

\* As many parts as the object fills at minPartSize, up to the cap.
Supply(size) ==
  LET k == size \div minPartSize
  IN  IF k > maxPartsPerObject THEN maxPartsPerObject ELSE k

planParts(size) ==
  IF size <= 0 THEN [Size |-> size, PartSize |-> 0, NParts |-> 0]
  ELSE IF size <= minPartSize THEN [Size |-> size, PartSize |-> size, NParts |-> 1]
  ELSE LET p == Split(size, Supply(size))
       IN  IF p.NParts > s3MaxParts THEN Split(size, s3MaxParts) ELSE p

\* Mutation: the last range is not cut at the end of the object.
partRangeUncut(p, i) == [off |-> i * p.PartSize, n |-> p.PartSize]

partRange(p, i) ==
  LET off == i * p.PartSize
  IN  [off |-> off,
       n   |-> IF off + p.PartSize > p.Size THEN p.Size - off ELSE p.PartSize]

workersFor(budget, nObjects) ==
  LET cap == maxInFlightPerObject * (IF nObjects < 1 THEN 1 ELSE nObjects)
  IN  IF budget > cap THEN cap ELSE budget

-----------------------------------------------------------------------------
(* interleaveByObject, over the sequence of the jobs' object identities *)

\* The indices of S, as a loop over 1 .. n meets them.
Ascending(S, n) ==
  LET f[i \in 0 .. n] ==
        IF i = 0 THEN <<>> ELSE IF i \in S THEN Append(f[i - 1], i) ELSE f[i - 1]
  IN  f[n]

\* groups[k]: the jobs of object k, in order.
Group(key, k) == Ascending({i \in DOMAIN key : key[i] = k}, Len(key))

\* order: the first job of every object.
FirstSeen(key) == {i \in DOMAIN key : \A j \in DOMAIN key : key[j] = key[i] => i <= j}

\* One round: the r-th job of every object that has so many, as first seen.
Round(key, r) ==
  LET due == Ascending({i \in FirstSeen(key) : r <= Len(Group(key, key[i]))}, Len(key))
  IN  [x \in DOMAIN due |-> Group(key, key[due[x]])[r]]

\* Mutation: the loop stops one round early.
interleaveOneShort(key) ==
  FlattenSeq([r \in 1 .. Len(key) - 1 |-> Round(key, r)])

\* Mutation: the jobs stay in the order they were queued.
interleaveNothing(key) == [i \in DOMAIN key |-> i]

interleaveByObject(key) == FlattenSeq([r \in DOMAIN key |-> Round(key, r)])
=============================================================================
