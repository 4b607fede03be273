------------------------------- MODULE Planner ------------------------------
(***************************************************************************)
(* The planning loop of runPull (pull.go): the targets, biggest first, add *)
(* the jobs of the parts they miss to one queue, which is then interleaved *)
(* by object for the pool.  The properties are those of every plan it      *)
(* makes.                                                                  *)
(***************************************************************************)
EXTENDS PartPlan

CONSTANTS Sizes, MaxTargets   \* bounds: sizes of objects, and how many there are

VARIABLES
  targets,    \* the sizes planned so far
  done,       \* target -> its parts that need no transfer
  jobs        \* the queue

vars == <<targets, done, jobs>>

Init == targets = <<>> /\ done = <<>> /\ jobs = <<>>

Parts(size) == 0 .. planParts(size).NParts - 1

\* Mutation: the first parts of a plan are taken for those recorded.
missingPartsCounted(size, recorded) ==
  [x \in 1 .. planParts(size).NParts - Cardinality(recorded) |->
     Cardinality(recorded) + x - 1]

\* The parts of a plan that are not among those recorded, in order.
missingParts(size, recorded) ==
  LET n == planParts(size).NParts
      m == Ascending({i \in 1 .. n : i - 1 \notin recorded}, n)
  IN  [x \in DOMAIN m |-> m[x] - 1]

\* The next target in descending order of size; its jobs are <<target, part>>.
\* What is there already is nothing (skipNo), what its entry records
\* (skipResume), or all of it (skipComplete).  The entry's plan is that of its
\* size, which is the object's: both are of one build.
Plan(size, there) ==
  LET t == Len(targets) + 1  missing == missingParts(size, there)
  IN  /\ t <= MaxTargets
      /\ targets # <<>> => size <= Last(targets)
      /\ targets' = Append(targets, size)
      /\ done' = Append(done, there)
      /\ jobs' = jobs \o [x \in DOMAIN missing |-> <<t, missing[x]>>]

Next == \E size \in Sizes : \E there \in SUBSET Parts(size) : Plan(size, there)

Spec == Init /\ [][Next]_vars

-----------------------------------------------------------------------------
Keys  == [i \in DOMAIN jobs |-> jobs[i][1]]
Order == interleaveByObject(Keys)

PartBytes(t, i) ==
  LET r == partRange(planParts(targets[t]), i)
  IN  r.off .. r.off + r.n - 1

Bytes(j) == PartBytes(j[1], j[2])

\* The ranges of the jobs of a target are the bytes that are not there already,
\* each exactly once: no gap, no overlap, nothing beyond the end, no request for
\* nothing, and nothing fetched again (plan.go:89-142, state.go:107-123).
JobsTileTargets ==
  \A t \in DOMAIN targets :
    LET js == {j \in ToSet(jobs) : j[1] = t}
        there == UNION {PartBytes(t, i) : i \in done[t]}
    IN  /\ \A j \in js : Bytes(j) # {}
        /\ \A j, k \in js : j # k => Bytes(j) \cap Bytes(k) = {}
        /\ UNION {Bytes(j) : j \in js} = (0 .. targets[t] - 1) \ there

\* No object is split finer than the floor (but for its last part, which gets
\* what is left), nor into more parts than the cap or than an S3 upload may
\* have (plan.go:43-60, 101-130).
FloorAndCap ==
  \A t \in DOMAIN targets :
    LET p == planParts(targets[t])
    IN  /\ p.NParts > 1 => p.PartSize >= minPartSize
        /\ p.NParts <= maxPartsPerObject /\ p.NParts <= s3MaxParts

\* The order hands out every job exactly once, those of one object in the order
\* of their parts (plan.go:167-169).
OrderIsFair ==
  LET keys == Keys  order == Order
  IN  /\ Len(order) = Len(jobs) /\ ToSet(order) = DOMAIN jobs
      /\ \A x, y \in DOMAIN order :
           x < y /\ keys[order[x]] = keys[order[y]] => order[x] < order[y]

\* Whatever prefix of the order the pool has taken, no object is more than one
\* job ahead of another that still has jobs waiting (plan.go:165-167).
OrderSpreads ==
  LET order == Order
      Taken(t, n) == Cardinality({x \in 1 .. n : jobs[order[x]][1] = t})
  IN  \A n \in 0 .. Len(order) : \A t, u \in DOMAIN targets :
        Taken(u, n) < Cardinality(Parts(targets[u]) \ done[u]) =>
          Taken(t, n) <= Taken(u, n) + 1
=============================================================================
