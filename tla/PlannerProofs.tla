---------------------------- MODULE PlannerProofs ---------------------------
(***************************************************************************)
(* For every size of object and every value of plan.go's constants: the    *)
(* parts of a plan tile the object, respect the floor and the cap, and the *)
(* queue the planner builds holds exactly those parts.  For every queue:   *)
(* the order of issue holds each job once and spreads over the objects.    *)
(***************************************************************************)
EXTENDS Planner, FiniteSetTheorems, WellFoundedInduction, TLAPS

-----------------------------------------------------------------------------
(* Arithmetic *)

LEMMA MulOrder ==
  ASSUME NEW a \in Int, NEW b \in Int, NEW c \in Nat \ {0}
  PROVE  /\ a * c \in Int
         /\ a <= b <=> a * c <= b * c
         /\ a < b <=> a * c < b * c
BY SMT

LEMMA MulMono ==
  ASSUME NEW a \in Int, NEW b \in Int, NEW c \in Nat, a <= b
  PROVE  a * c <= b * c
BY SMT

LEMMA Division ==
  ASSUME NEW a \in Nat, NEW b \in Nat \ {0}
  PROVE  /\ a \div b \in Nat
         /\ (a \div b) * b <= a
         /\ a < (a \div b) * b + b
BY SMT

\* ceilDiv rounds up: that many of b cover a, and one fewer do not.
LEMMA CeilDivRoundsUp ==
  ASSUME NEW a \in Nat, NEW b \in Nat \ {0}
  PROVE  /\ ceilDiv(a, b) \in Nat
         /\ a <= ceilDiv(a, b) * b
         /\ (ceilDiv(a, b) - 1) * b < a
<1> DEFINE q == (a + b - 1) \div b
<1>1. ceilDiv(a, b) = q
  BY DEF ceilDiv
<1>2. /\ q \in Nat
      /\ q * b <= a + b - 1
      /\ a + b - 1 < q * b + b
  <2>1. a + b - 1 \in Nat
    OBVIOUS
  <2> QED BY <2>1, Division
<1>3. (q - 1) * b = q * b - b /\ q * b \in Nat
  BY <1>2, SMT
<1> HIDE DEF q
<1> QED BY <1>1, <1>2, <1>3

-----------------------------------------------------------------------------
(* What a plan for a nonempty object is *)

\* All parts but the last are full, and the last is not empty.
Covers(p) ==
  /\ p.Size \in Nat \ {0} /\ p.PartSize \in Nat \ {0} /\ p.NParts \in Nat \ {0}
  /\ (p.NParts - 1) * p.PartSize < p.Size
  /\ p.Size <= p.NParts * p.PartSize

LEMMA SplitCovers ==
  ASSUME NEW size \in Nat \ {0}, NEW n \in Nat \ {0}
  PROVE  /\ Covers(Split(size, n))
         /\ Split(size, n).Size = size
         /\ Split(size, n).NParts <= n
         /\ \A m \in Nat : n * m <= size => m <= Split(size, n).PartSize
<1> DEFINE ps == ceilDiv(size, n)
           np == ceilDiv(size, ps)
<1>1. Split(size, n) = [Size |-> size, PartSize |-> ps, NParts |-> np]
  BY DEF Split
<1>2. ps \in Nat /\ size <= ps * n
  BY CeilDivRoundsUp
<1>3. ps # 0
  BY <1>2
<1>4. np \in Nat /\ size <= np * ps /\ (np - 1) * ps < size
  BY <1>2, <1>3, CeilDivRoundsUp
<1> HIDE DEF ps, np
<1>5. np # 0
  BY <1>2, <1>4
<1>6. np <= n
  <2>1. (np - 1) * ps < n * ps
    BY <1>2, <1>4, SMT
  <2>2. np - 1 < n
    BY <1>2, <1>3, <1>4, <2>1, MulOrder
  <2> QED BY <1>4, <2>2
<1>7. ASSUME NEW m \in Nat, n * m <= size
      PROVE  m <= ps
  <2>1. m * n <= ps * n
    BY <1>2, <1>7, SMT
  <2> QED BY <1>2, <2>1, MulOrder
<1> QED BY <1>1, <1>2, <1>3, <1>4, <1>5, <1>6, <1>7 DEF Covers

LEMMA SupplyKeepsFloor ==
  ASSUME NEW size \in Nat, size > minPartSize
  PROVE  /\ Supply(size) \in Nat \ {0}
         /\ Supply(size) <= maxPartsPerObject
         /\ Supply(size) * minPartSize <= size
<1> DEFINE n == size \div minPartSize
<1>0. minPartSize \in Nat \ {0} /\ maxPartsPerObject \in Nat \ {0}
  BY PlanAssumption
<1>1. n \in Nat /\ n * minPartSize <= size /\ size < n * minPartSize + minPartSize
  BY <1>0, Division
<1>2. Supply(size) = IF n > maxPartsPerObject THEN maxPartsPerObject ELSE n
  BY DEF Supply
<1> HIDE DEF n
<1>3. n # 0
  BY <1>0, <1>1
<1>4. Supply(size) \in Nat \ {0} /\ Supply(size) <= n /\ Supply(size) <= maxPartsPerObject
  BY <1>0, <1>1, <1>2, <1>3
<1>5. Supply(size) * minPartSize <= n * minPartSize
  BY <1>0, <1>1, <1>4, MulMono
<1> QED BY <1>0, <1>1, <1>4, <1>5, SMT

\* A plan covers its object, keeps the floor unless it is one part, and
\* respects both limits on the count.
THEOREM PlanIsSound ==
  ASSUME NEW size \in Nat \ {0}
  PROVE  LET p == planParts(size)
         IN  /\ Covers(p) /\ p.Size = size
             /\ p.NParts > 1 => p.PartSize >= minPartSize
             /\ p.NParts <= maxPartsPerObject /\ p.NParts <= s3MaxParts
<1>0. /\ minPartSize \in Nat \ {0} /\ maxPartsPerObject \in Nat \ {0}
      /\ s3MaxParts \in Nat \ {0}
  BY PlanAssumption
<1>1. CASE size <= minPartSize
  <2>1. planParts(size) = [Size |-> size, PartSize |-> size, NParts |-> 1]
    BY <1>1 DEF planParts
  <2> QED BY <1>0, <2>1 DEF Covers
<1>2. CASE size > minPartSize
  <2> DEFINE n == Supply(size)
             p == Split(size, n)
             q == Split(size, s3MaxParts)
  <2>1. n \in Nat \ {0} /\ n <= maxPartsPerObject /\ n * minPartSize <= size
    BY <1>2, SupplyKeepsFloor
  <2>2. /\ Covers(p) /\ p.Size = size /\ p.NParts <= n
        /\ minPartSize <= p.PartSize
    BY <1>0, <2>1, SplitCovers
  <2>3. Covers(q) /\ q.Size = size /\ q.NParts <= s3MaxParts
    BY <1>0, SplitCovers
  <2>4. planParts(size) = IF p.NParts > s3MaxParts THEN q ELSE p
    BY <1>2, <1>0 DEF planParts
  <2>5. p.NParts \in Nat /\ q.NParts \in Nat
    BY <2>2, <2>3 DEF Covers
  <2>6. CASE p.NParts > s3MaxParts
    <3>1. s3MaxParts <= n
      BY <1>0, <2>1, <2>2, <2>5, <2>6
    <3>2. s3MaxParts * minPartSize <= n * minPartSize
      BY <1>0, <2>1, <3>1, MulMono
    <3>3. s3MaxParts * minPartSize <= size
      BY <1>0, <2>1, <3>2, SMT
    <3>4. minPartSize <= q.PartSize
      BY <1>0, <3>3, SplitCovers
    <3> HIDE DEF p, q, n
    <3>5. planParts(size) = q
      BY <2>4, <2>6
    <3>6. q.PartSize \in Nat
      BY <2>3 DEF Covers
    <3> QED BY <1>0, <2>1, <2>3, <2>5, <3>1, <3>4, <3>5, <3>6
  <2>7. CASE ~(p.NParts > s3MaxParts)
    <3> HIDE DEF p, q, n
    <3>1. planParts(size) = p
      BY <2>4, <2>7
    <3>2. p.PartSize \in Nat
      BY <2>2 DEF Covers
    <3> QED BY <1>0, <2>1, <2>2, <2>5, <2>7, <3>1, <3>2
  <2> QED BY <2>6, <2>7
<1> QED BY <1>0, <1>1, <1>2

-----------------------------------------------------------------------------
(* The ranges of a plan *)

RangeOf(p, i) ==
  LET r == partRange(p, i)
  IN  r.off .. r.off + r.n - 1

\* Part i holds byte b exactly when b lies between its offset and the next.
LEMMA RangeHolds ==
  ASSUME NEW p, Covers(p), NEW i \in 0 .. p.NParts - 1, NEW b \in Int
  PROVE  b \in RangeOf(p, i) <=>
           b < p.Size /\ i * p.PartSize <= b /\ b < i * p.PartSize + p.PartSize
<1> DEFINE off == i * p.PartSize
<1>1. p.Size \in Nat /\ p.PartSize \in Nat /\ off \in Int
  BY SMT DEF Covers
<1>2. /\ partRange(p, i).off = off
      /\ partRange(p, i).n =
           IF off + p.PartSize > p.Size THEN p.Size - off ELSE p.PartSize
  BY DEF partRange
<1> HIDE DEF off
<1>3. CASE off + p.PartSize > p.Size
  <2>1. partRange(p, i).n = p.Size - off
    BY <1>2, <1>3
  <2> QED BY <1>1, <1>2, <1>3, <2>1 DEF RangeOf, off
<1>4. CASE ~(off + p.PartSize > p.Size)
  <2>1. partRange(p, i).n = p.PartSize
    BY <1>2, <1>4
  <2> QED BY <1>1, <1>2, <1>4, <2>1 DEF RangeOf, off
<1> QED BY <1>3, <1>4

\* No range is empty, two ranges share no byte, and together they are the
\* object: what partRange asks for tiles it.
THEOREM RangesTile ==
  ASSUME NEW p, Covers(p)
  PROVE  /\ \A i \in 0 .. p.NParts - 1 : RangeOf(p, i) # {}
         /\ \A i, j \in 0 .. p.NParts - 1 :
              i # j => RangeOf(p, i) \cap RangeOf(p, j) = {}
         /\ UNION {RangeOf(p, i) : i \in 0 .. p.NParts - 1} = 0 .. p.Size - 1
<1>0. /\ p.Size \in Nat \ {0} /\ p.PartSize \in Nat \ {0} /\ p.NParts \in Nat \ {0}
      /\ (p.NParts - 1) * p.PartSize < p.Size
      /\ p.Size <= p.NParts * p.PartSize
  BY DEF Covers
<1>1. ASSUME NEW i \in 0 .. p.NParts - 1
      PROVE  RangeOf(p, i) # {}
  <2>1. i * p.PartSize <= (p.NParts - 1) * p.PartSize
    BY <1>0, MulMono
  <2>2. i * p.PartSize \in Int
    BY <1>0, SMT
  <2>3. i * p.PartSize < p.Size
    BY <1>0, <2>1, <2>2, SMT
  <2>4. i * p.PartSize \in RangeOf(p, i)
    BY <1>0, <2>2, <2>3, RangeHolds
  <2> QED BY <2>4
<1>2. ASSUME NEW i \in 0 .. p.NParts - 1, NEW j \in 0 .. p.NParts - 1,
             i < j, NEW b \in RangeOf(p, i) \cap RangeOf(p, j)
      PROVE  FALSE
  <2>1. b \in Int
    BY DEF RangeOf
  <2>2. b < i * p.PartSize + p.PartSize /\ j * p.PartSize <= b
    BY <2>1, RangeHolds
  <2>3. (i + 1) * p.PartSize <= j * p.PartSize
    BY <1>0, <1>2, MulMono
  <2>4. /\ (i + 1) * p.PartSize = i * p.PartSize + p.PartSize
        /\ i * p.PartSize \in Int /\ j * p.PartSize \in Int
    BY <1>0, SMT
  <2> QED BY <1>0, <2>1, <2>2, <2>3, <2>4
<1>3. ASSUME NEW i \in 0 .. p.NParts - 1, NEW j \in 0 .. p.NParts - 1, i # j
      PROVE  RangeOf(p, i) \cap RangeOf(p, j) = {}
  <2>1. i < j \/ j < i
    BY <1>3
  <2> QED BY <1>2, <2>1
<1>4. ASSUME NEW i \in 0 .. p.NParts - 1, NEW b \in RangeOf(p, i)
      PROVE  b \in 0 .. p.Size - 1
  <2>1. b \in Int
    BY DEF RangeOf
  <2>2. b < p.Size /\ i * p.PartSize <= b
    BY <2>1, RangeHolds
  <2>3. i * p.PartSize \in Int /\ 0 <= i * p.PartSize
    BY <1>0, SMT
  <2> QED BY <1>0, <2>1, <2>2, <2>3
<1>5. ASSUME NEW b \in 0 .. p.Size - 1
      PROVE  \E i \in 0 .. p.NParts - 1 : b \in RangeOf(p, i)
  <2> DEFINE i == b \div p.PartSize
  <2>0. b \in Nat /\ p.PartSize \in Nat \ {0}
    BY <1>0
  <2>1. i \in Nat /\ i * p.PartSize <= b /\ b < i * p.PartSize + p.PartSize
    BY <2>0, Division
  <2> HIDE DEF i
  <2>2. i * p.PartSize < p.NParts * p.PartSize
    BY <1>0, <2>1, SMT
  <2>3. i < p.NParts
    BY <1>0, <2>1, <2>2, MulOrder
  <2>4. i \in 0 .. p.NParts - 1
    BY <1>0, <2>1, <2>3
  <2>5. b \in RangeOf(p, i)
    BY <1>0, <2>1, <2>4, RangeHolds
  <2> QED BY <2>4, <2>5
<1> QED BY <1>1, <1>3, <1>4, <1>5

-----------------------------------------------------------------------------
(* Sequences built by recursion on their length *)

LEMMA Least ==
  ASSUME NEW T \in SUBSET Nat, T # {}
  PROVE  \E x \in T : \A y \in T : x <= y
<1>1. PICK x \in T : \A y \in T : ~ (<<y, x>> \in OpToRel(<, Nat))
  BY NatLessThanWellFounded, WFMin
<1>2. \A y \in T : ~(y < x)
  BY <1>1 DEF OpToRel
<1> QED BY <1>2

\* A set that holds 0 and the successor of each of its members holds every number.
LEMMA Inductive ==
  ASSUME NEW T \in SUBSET Nat, 0 \in T, \A m \in T : m + 1 \in T
  PROVE  T = Nat
<1> SUFFICES ASSUME T # Nat PROVE FALSE
  OBVIOUS
<1>1. PICK x \in Nat \ T : \A y \in Nat \ T : x <= y
  BY Least
<1>2. x - 1 \in Nat /\ ~(x <= x - 1)
  BY <1>1
<1>3. x - 1 \in T
  BY <1>1, <1>2
<1>4. (x - 1) + 1 = x
  OBVIOUS
<1> QED BY <1>1, <1>3, <1>4

AscendingFix(f, S, n) ==
  f = [i \in 0 .. n |-> IF i = 0 THEN <<>> ELSE IF i \in S THEN Append(f[i - 1], i) ELSE f[i - 1]]

LEMMA AscendingAt ==
  ASSUME NEW S, NEW n \in Nat, NEW f, AscendingFix(f, S, n)
  PROVE  /\ f[0] = <<>>
         /\ \A i \in 1 .. n : f[i] = IF i \in S THEN Append(f[i - 1], i) ELSE f[i - 1]
<1>1. \A i \in 0 .. n : f[i] = IF i = 0 THEN <<>> ELSE IF i \in S THEN Append(f[i - 1], i) ELSE f[i - 1]
  BY DEF AscendingFix
<1>2. 0 \in 0 .. n /\ \A i \in 1 .. n : i \in 0 .. n /\ i # 0
  OBVIOUS
<1> QED BY <1>1, <1>2

LEMMA AscendingExists ==
  ASSUME NEW S
  PROVE  \A n \in Nat : \E f : AscendingFix(f, S, n)
<1> DEFINE T == {n \in Nat : \E f : AscendingFix(f, S, n)}
<1>1. 0 \in T
  <2>1. AscendingFix([i \in 0 .. 0 |-> <<>>], S, 0)
    BY DEF AscendingFix
  <2> QED BY <2>1
<1>2. ASSUME NEW m \in T PROVE m + 1 \in T
  <2>1. PICK f : AscendingFix(f, S, m)
    OBVIOUS
  <2> DEFINE g == [i \in 0 .. m + 1 |-> IF i <= m THEN f[i]
                     ELSE IF i \in S THEN Append(f[m], i) ELSE f[m]]
  <2>2. m \in Nat /\ \A i \in 0 .. m : g[i] = f[i]
    OBVIOUS
  <2>3. \A i \in 0 .. m + 1 : g[i] = IF i = 0 THEN <<>> ELSE IF i \in S THEN Append(g[i - 1], i) ELSE g[i - 1]
    <3> TAKE i \in 0 .. m + 1
    <3>1. CASE i = 0
      BY <2>1, <2>2, <3>1 DEF AscendingFix
    <3>2. CASE i \in 1 .. m
      <4>1. i - 1 \in 0 .. m /\ g[i] = f[i] /\ g[i - 1] = f[i - 1]
        BY <2>2, <3>2
      <4>2. f[i] = IF i \in S THEN Append(f[i - 1], i) ELSE f[i - 1]
        BY <2>1, <2>2, <3>2, AscendingAt
      <4> HIDE DEF g
      <4> QED BY <3>2, <4>1, <4>2
    <3>3. CASE i = m + 1
      <4>1. i - 1 = m /\ g[i - 1] = f[m]
        BY <2>2, <3>3
      <4>2. g[i] = IF i \in S THEN Append(f[m], i) ELSE f[m]
        BY <2>2, <3>3
      <4> HIDE DEF g
      <4> QED BY <2>2, <3>3, <4>1, <4>2
    <3> QED BY <2>2, <3>1, <3>2, <3>3
  <2>4. g = [i \in 0 .. m + 1 |-> g[i]]
    OBVIOUS
  <2> HIDE DEF g
  <2>5. AscendingFix(g, S, m + 1)
    BY <2>3, <2>4 DEF AscendingFix
  <2> QED BY <2>2, <2>5
<1> HIDE DEF T
<1>3. T \subseteq Nat
  BY DEF T
<1>4. T = Nat
  BY <1>1, <1>2, <1>3, Inductive
<1> QED BY <1>4 DEF T

LEMMA AscendingUnfolds ==
  ASSUME NEW S, NEW n \in Nat
  PROVE  \E f : AscendingFix(f, S, n) /\ Ascending(S, n) = f[n]
<1> DEFINE f == CHOOSE g : AscendingFix(g, S, n)
<1>1. AscendingFix(f, S, n)
  BY AscendingExists
<1>2. Ascending(S, n) = f[n]
  BY DEF Ascending, AscendingFix
<1> QED BY <1>1, <1>2
\* s holds the members of Y, each once, in the order of the relation L.
Holds(s, Y, L) ==
  /\ s \in Seq(Y)
  /\ \A x, y \in 1 .. Len(s) : x < y => <<s[x], s[y]>> \in L
  /\ \A i \in Y : \E x \in 1 .. Len(s) : s[x] = i

LEMMA ConcatHolds ==
  ASSUME NEW L, NEW Y, NEW Z, NEW s, NEW u, Holds(s, Y, L), Holds(u, Z, L),
         \A a \in Y, b \in Z : <<a, b>> \in L
  PROVE  Holds(s \o u, Y \cup Z, L)
<1> DEFINE w == s \o u
<1>1. s \in Seq(Y \cup Z) /\ u \in Seq(Y \cup Z)
  BY DEF Holds
<1>2. /\ w \in Seq(Y \cup Z) /\ Len(w) = Len(s) + Len(u) /\ Len(s) \in Nat /\ Len(u) \in Nat
      /\ \A x \in 1 .. Len(s) : w[x] = s[x]
      /\ \A x \in 1 .. Len(u) : w[Len(s) + x] = u[x]
  BY <1>1
<1> HIDE DEF w
<1>3. /\ \A x \in 1 .. Len(s) : s[x] \in Y
      /\ \A x \in 1 .. Len(u) : u[x] \in Z
  BY DEF Holds
<1>4. ASSUME NEW x \in 1 .. Len(w), NEW y \in 1 .. Len(w), x < y
      PROVE  <<w[x], w[y]>> \in L
  <2>1. CASE y \in 1 .. Len(s)
    <3>1. x \in 1 .. Len(s)
      BY <1>2, <1>4, <2>1
    <3> QED BY <1>2, <1>4, <2>1, <3>1 DEF Holds
  <2>2. CASE x \in 1 .. Len(s) /\ y \notin 1 .. Len(s)
    <3>1. y - Len(s) \in 1 .. Len(u) /\ Len(s) + (y - Len(s)) = y
      BY <1>2, <2>2
    <3>2. w[y] = u[y - Len(s)] /\ w[x] = s[x]
      BY <1>2, <2>2, <3>1
    <3> QED BY <1>3, <2>2, <3>1, <3>2
  <2>3. CASE x \notin 1 .. Len(s)
    <3>1. /\ y - Len(s) \in 1 .. Len(u) /\ Len(s) + (y - Len(s)) = y
          /\ x - Len(s) \in 1 .. Len(u) /\ Len(s) + (x - Len(s)) = x
          /\ x - Len(s) < y - Len(s)
      BY <1>2, <1>4, <2>3
    <3>2. w[y] = u[y - Len(s)] /\ w[x] = u[x - Len(s)]
      BY <1>2, <3>1
    <3> QED BY <3>1, <3>2 DEF Holds
  <2> QED BY <2>1, <2>2, <2>3
<1>5. ASSUME NEW i \in Y PROVE \E x \in 1 .. Len(w) : w[x] = i
  <2>1. PICK x \in 1 .. Len(s) : s[x] = i
    BY DEF Holds
  <2> QED BY <1>2, <2>1
<1>6. ASSUME NEW i \in Z PROVE \E x \in 1 .. Len(w) : w[x] = i
  <2>1. PICK x \in 1 .. Len(u) : u[x] = i
    BY DEF Holds
  <2>2. Len(s) + x \in 1 .. Len(w) /\ w[Len(s) + x] = i
    BY <1>2, <2>1
  <2> QED BY <2>2
<1>7. Holds(w, Y \cup Z, L)
  BY <1>2, <1>4, <1>5, <1>6 DEF Holds
<1> QED BY <1>7 DEF w

\* The pairs of numbers in order.
Smaller == {p \in Nat \X Nat : p[1] < p[2]}

LEMMA SmallerIs ==
  ASSUME NEW a, NEW b
  PROVE  <<a, b>> \in Smaller <=> a \in Nat /\ b \in Nat /\ a < b
BY DEF Smaller

\* The indices of a set, each once, the smaller first.
LEMMA AscendingHolds ==
  ASSUME NEW n \in Nat, NEW S \in SUBSET (1 .. n)
  PROVE  Holds(Ascending(S, n), S, Smaller)
<1>1. PICK f : AscendingFix(f, S, n) /\ Ascending(S, n) = f[n]
  BY AscendingUnfolds
<1>2. /\ f[0] = <<>>
      /\ \A i \in 1 .. n : f[i] = IF i \in S THEN Append(f[i - 1], i) ELSE f[i - 1]
  BY <1>1, AscendingAt
<1> DEFINE upto(m) == S \cap (1 .. m)
           T == {m \in Nat : m <= n => Holds(f[m], upto(m), Smaller)}
<1>3. 0 \in T
  <2>1. upto(0) = {} /\ f[0] = <<>> /\ Len(<<>>) = 0 /\ 1 .. 0 = {} /\ <<>> \in Seq({})
    BY <1>2
  <2> QED BY <2>1 DEF Holds
<1>4. ASSUME NEW m \in T PROVE m + 1 \in T
  <2> SUFFICES ASSUME m + 1 <= n PROVE Holds(f[m + 1], upto(m + 1), Smaller)
    OBVIOUS
  <2> DEFINE e == m + 1
  <2>1. m \in Nat /\ Holds(f[m], upto(m), Smaller) /\ e \in 1 .. n /\ e - 1 = m
    OBVIOUS
  <2>2. f[e] = IF e \in S THEN Append(f[m], e) ELSE f[m]
    BY <1>2, <2>1
  <2>3. CASE e \notin S
    <3>1. upto(e) = upto(m)
      BY <2>1, <2>3
    <3>2. f[e] = f[m]
      BY <2>2, <2>3
    <3> QED BY <2>1, <3>1, <3>2
  <2>4. CASE e \in S
    <3>1. upto(e) = upto(m) \cup {e} /\ \A a \in upto(m), b \in {e} : <<a, b>> \in Smaller
      BY <2>1, <2>4 DEF Smaller
    <3> HIDE DEF e, upto
    <3>2. Holds(<<e>>, {e}, Smaller)
      BY DEF Holds
    <3>3. f[m] \in Seq(upto(m) \cup {e})
      BY <2>1 DEF Holds
    <3>4. f[m] \o <<e>> = Append(f[m], e)
      BY <3>3
    <3>5. Holds(f[m] \o <<e>>, upto(m) \cup {e}, Smaller)
      BY <2>1, <3>1, <3>2, ConcatHolds
    <3>6. Holds(f[e], upto(e), Smaller)
      BY <2>2, <2>4, <3>1, <3>4, <3>5
    <3> QED BY <3>6 DEF e
  <2> QED BY <2>3, <2>4
<1>5. T \subseteq Nat
  OBVIOUS
<1> HIDE DEF T
<1>6. T = Nat
  BY <1>3, <1>4, <1>5, Inductive
<1>7. n \in T /\ n <= n
  BY <1>6
<1>8. upto(n) = S
  OBVIOUS
<1> HIDE DEF upto
<1> QED BY <1>1, <1>7, <1>8 DEF T

-----------------------------------------------------------------------------
(* The planner *)

\* planParts of any size names a number of parts.
LEMMA PartCount ==
  ASSUME NEW size \in Nat
  PROVE  planParts(size).NParts \in Nat
<1>1. CASE size = 0
  BY <1>1 DEF planParts
<1>2. CASE size # 0
  BY <1>2, PlanIsSound DEF Covers
<1> QED BY <1>1, <1>2

\* The parts of target t that are to be transferred.
Wanted(ts, ds, t) == Parts(ts[t]) \ ds[t]

PlannedJobs(ts, ds) == UNION {{t} \X Wanted(ts, ds, t) : t \in DOMAIN ts}

LEMMA PlannedJob ==
  ASSUME NEW ts, NEW ds, NEW t, NEW i
  PROVE  <<t, i>> \in PlannedJobs(ts, ds) <=> t \in DOMAIN ts /\ i \in Wanted(ts, ds, t)
BY DEF PlannedJobs

LEMMA PlannedPair ==
  ASSUME NEW ts, NEW ds, NEW j \in PlannedJobs(ts, ds)
  PROVE  \E t \in DOMAIN ts : \E i \in Wanted(ts, ds, t) : j = <<t, i>>
BY DEF PlannedJobs

\* The queue holds, of every target so far, exactly the parts that are not there.
QueueHoldsPlans ==
  /\ targets \in Seq(Nat)
  /\ done \in Seq(SUBSET Nat) /\ Len(done) = Len(targets)
  /\ \A t \in DOMAIN targets : done[t] \subseteq Parts(targets[t])
  /\ jobs \in Seq((Nat \ {0}) \X Nat)
  /\ ToSet(jobs) = PlannedJobs(targets, done)

\* What is recorded and what is missing make up the plan.
LEMMA MissingIs ==
  ASSUME NEW size \in Nat, NEW recorded
  PROVE  /\ missingParts(size, recorded) \in Seq(Nat)
         /\ ToSet(missingParts(size, recorded)) = Parts(size) \ recorded
<1> DEFINE n == planParts(size).NParts
           S == {i \in 1 .. n : i - 1 \notin recorded}
           m == Ascending(S, n)
           u == missingParts(size, recorded)
<1>1. n \in Nat
  BY PartCount
<1>2. u = [x \in DOMAIN m |-> m[x] - 1]
  BY DEF missingParts
<1>3. Holds(m, S, Smaller)
  <2>1. S \in SUBSET (1 .. n)
    OBVIOUS
  <2> HIDE DEF S, n
  <2> QED BY <1>1, <2>1, AscendingHolds
<1>4. \A i : i \in S <=> i \in 1 .. n /\ i - 1 \notin recorded
  OBVIOUS
<1>5. Parts(size) = 0 .. n - 1
  BY DEF Parts
<1> HIDE DEF n, S, m, u
<1>6. /\ Len(m) \in Nat /\ DOMAIN m = 1 .. Len(m)
      /\ \A x \in 1 .. Len(m) : m[x] \in S
      /\ \A i \in S : \E x \in 1 .. Len(m) : m[x] = i
  BY <1>3 DEF Holds
<1>7. \A x \in 1 .. Len(m) : m[x] - 1 \in Nat /\ m[x] - 1 \in Parts(size) \ recorded
  BY <1>1, <1>4, <1>5, <1>6
<1>8. u \in Seq(Nat) /\ DOMAIN u = 1 .. Len(m) /\ \A x \in 1 .. Len(m) : u[x] = m[x] - 1
  BY <1>2, <1>6, <1>7
<1>9. ASSUME NEW i \in Parts(size) \ recorded PROVE i \in ToSet(u)
  <2>1. i + 1 \in S /\ (i + 1) - 1 = i
    BY <1>1, <1>4, <1>5
  <2>2. PICK x \in 1 .. Len(m) : m[x] = i + 1
    BY <1>6, <2>1
  <2>3. u[x] = i
    BY <1>8, <2>1, <2>2
  <2> QED BY <1>8, <2>3 DEF ToSet
<1>10. ASSUME NEW i \in ToSet(u) PROVE i \in Parts(size) \ recorded
  <2>1. PICK x \in DOMAIN u : u[x] = i
    BY DEF ToSet
  <2> QED BY <1>7, <1>8, <2>1
<1>11. ToSet(u) = Parts(size) \ recorded
  BY <1>9, <1>10
<1> QED BY <1>8, <1>11 DEF u

LEMMA AppendedJobs ==
  ASSUME NEW s \in Seq((Nat \ {0}) \X Nat), NEW t \in Nat \ {0}, NEW m \in Seq(Nat)
  PROVE  LET u == s \o [x \in DOMAIN m |-> <<t, m[x]>>]
         IN  /\ u \in Seq((Nat \ {0}) \X Nat)
             /\ ToSet(u) = ToSet(s) \cup {<<t, i>> : i \in ToSet(m)}
<1> DEFINE e == [x \in DOMAIN m |-> <<t, m[x]>>]
           n == Len(m)
           u == s \o e
<1>0. n \in Nat /\ DOMAIN m = 1 .. n /\ \A x \in 1 .. n : m[x] \in Nat
  OBVIOUS
<1>1. e \in Seq((Nat \ {0}) \X Nat) /\ Len(e) = n
  BY <1>0
<1>2. /\ u \in Seq((Nat \ {0}) \X Nat) /\ Len(u) = Len(s) + n
      /\ \A x \in 1 .. Len(s) : u[x] = s[x]
      /\ \A x \in 1 .. n : u[Len(s) + x] = <<t, m[x]>>
  BY <1>0, <1>1
<1>3. ASSUME NEW x \in DOMAIN u
      PROVE  u[x] \in ToSet(s) \cup {<<t, i>> : i \in ToSet(m)}
  <2>1. CASE x <= Len(s)
    BY <1>2, <2>1 DEF ToSet
  <2>2. CASE x > Len(s)
    <3>1. x - Len(s) \in 1 .. n
      BY <1>0, <1>2, <2>2
    <3>2. u[Len(s) + (x - Len(s))] = <<t, m[x - Len(s)]>>
      BY <1>2, <3>1
    <3>3. Len(s) + (x - Len(s)) = x
      BY <1>2
    <3>4. m[x - Len(s)] \in ToSet(m)
      BY <1>0, <3>1 DEF ToSet
    <3> HIDE DEF u
    <3> QED BY <3>2, <3>3, <3>4
  <2>3. x \in Nat /\ Len(s) \in Nat
    BY <1>2
  <2> HIDE DEF u
  <2> QED BY <2>1, <2>2, <2>3
<1>4. ASSUME NEW j \in ToSet(s)
      PROVE  j \in ToSet(u)
  <2>1. PICK x \in DOMAIN s : j = s[x]
    BY DEF ToSet
  <2>2. x \in 1 .. Len(s) /\ x \in DOMAIN u
    BY <1>2
  <2>3. u[x] = j
    BY <1>2, <2>1, <2>2
  <2> HIDE DEF u
  <2> QED BY <2>2, <2>3 DEF ToSet
<1>5. ASSUME NEW i \in ToSet(m)
      PROVE  <<t, i>> \in ToSet(u)
  <2>1. PICK x \in 1 .. n : m[x] = i
    BY <1>0 DEF ToSet
  <2>2. Len(s) + x \in DOMAIN u /\ u[Len(s) + x] = <<t, i>>
    BY <1>0, <1>2, <2>1
  <2> HIDE DEF u
  <2> QED BY <2>2 DEF ToSet
<1> HIDE DEF u
<1>6. ToSet(u) = ToSet(s) \cup {<<t, i>> : i \in ToSet(m)}
  BY <1>3, <1>4, <1>5 DEF ToSet
<1> QED BY <1>2, <1>6 DEF u

\* One more target adds the parts of its plan that are not there, and those alone.
LEMMA PlannedJobsGrow ==
  ASSUME NEW ts \in Seq(Nat), NEW ds \in Seq(SUBSET Nat), Len(ds) = Len(ts),
         NEW size \in Nat, NEW there \in SUBSET Nat
  PROVE  PlannedJobs(Append(ts, size), Append(ds, there)) =
           PlannedJobs(ts, ds) \cup {<<Len(ts) + 1, i>> : i \in Parts(size) \ there}
<1> DEFINE us == Append(ts, size)
           es == Append(ds, there)
           t == Len(ts) + 1
<1>1. /\ DOMAIN us = DOMAIN ts \cup {t} /\ t \notin DOMAIN ts
      /\ \A x \in DOMAIN ts : us[x] = ts[x] /\ es[x] = ds[x]
      /\ us[t] = size /\ es[t] = there
  OBVIOUS
<1> HIDE DEF us, es, t
<1>2. Wanted(us, es, t) = Parts(size) \ there
  BY <1>1 DEF Wanted
<1>3. \A x \in DOMAIN ts : Wanted(us, es, x) = Wanted(ts, ds, x)
  BY <1>1 DEF Wanted
<1>4. ASSUME NEW j \in PlannedJobs(us, es)
      PROVE  j \in PlannedJobs(ts, ds) \cup {<<t, i>> : i \in Parts(size) \ there}
  <2>1. PICK x \in DOMAIN us : \E i \in Wanted(us, es, x) : j = <<x, i>>
    BY PlannedPair
  <2>2. PICK i \in Wanted(us, es, x) : j = <<x, i>>
    BY <2>1
  <2>3. CASE x = t
    BY <1>2, <2>2, <2>3
  <2>4. CASE x \in DOMAIN ts
    BY <1>3, <2>2, <2>4, PlannedJob
  <2> QED BY <1>1, <2>3, <2>4
<1>5. ASSUME NEW j \in PlannedJobs(ts, ds)
      PROVE  j \in PlannedJobs(us, es)
  <2>1. PICK x \in DOMAIN ts : \E i \in Wanted(ts, ds, x) : j = <<x, i>>
    BY PlannedPair
  <2>2. PICK i \in Wanted(ts, ds, x) : j = <<x, i>>
    BY <2>1
  <2> QED BY <1>1, <1>3, <2>2, PlannedJob
<1>6. ASSUME NEW i \in Parts(size) \ there
      PROVE  <<t, i>> \in PlannedJobs(us, es)
  BY <1>1, <1>2, PlannedJob
<1>7. PlannedJobs(us, es) = PlannedJobs(ts, ds) \cup {<<t, i>> : i \in Parts(size) \ there}
  BY <1>4, <1>5, <1>6
<1> QED BY <1>7 DEF us, es, t

LEMMA Appended ==
  ASSUME NEW S, NEW s \in Seq(S), NEW x \in S
  PROVE  LET u == Append(s, x)
         IN  /\ u \in Seq(S) /\ Len(u) = Len(s) + 1 /\ u[Len(s) + 1] = x
             /\ DOMAIN u = DOMAIN s \cup {Len(s) + 1} /\ Len(s) + 1 \notin DOMAIN s
             /\ \A y \in DOMAIN s : u[y] = s[y]
OBVIOUS

LEMMA PlannerStep ==
  ASSUME Sizes \subseteq Nat, QueueHoldsPlans, [Next]_vars
  PROVE  QueueHoldsPlans'
<1>1. CASE UNCHANGED vars
  BY <1>1 DEF QueueHoldsPlans, vars, ToSet
<1>2. CASE Next
  <2>1. PICK size \in Sizes : \E there \in SUBSET Parts(size) : Plan(size, there)
    BY <1>2 DEF Next
  <2>2. PICK there \in SUBSET Parts(size) : Plan(size, there)
    BY <2>1
  <2> DEFINE t == Len(targets) + 1
             m == missingParts(size, there)
             e == {<<t, i>> : i \in Parts(size) \ there}
  <2>3. /\ targets \in Seq(Nat) /\ size \in Nat /\ t \in Nat \ {0}
        /\ done \in Seq(SUBSET Nat) /\ Len(done) = Len(targets)
        /\ jobs \in Seq((Nat \ {0}) \X Nat)
        /\ ToSet(jobs) = PlannedJobs(targets, done)
    BY DEF QueueHoldsPlans
  <2>4. /\ targets' = Append(targets, size)
        /\ done' = Append(done, there)
        /\ jobs' = jobs \o [x \in DOMAIN m |-> <<t, m[x]>>]
    BY <2>2 DEF Plan
  <2>5. there \in SUBSET Nat
    <3>1. planParts(size).NParts \in Nat
      BY <2>3, PartCount
    <3>2. Parts(size) \subseteq Nat
      BY <3>1 DEF Parts
    <3> QED BY <3>2
  <2>6. m \in Seq(Nat) /\ ToSet(m) = Parts(size) \ there
    BY <2>3, MissingIs
  <2> HIDE DEF m
  <2>7. /\ jobs' \in Seq((Nat \ {0}) \X Nat)
        /\ ToSet(jobs') = ToSet(jobs) \cup e
    BY <2>3, <2>4, <2>6, AppendedJobs
  <2>8. PlannedJobs(targets', done') = PlannedJobs(targets, done) \cup e
    <3>1. PlannedJobs(Append(targets, size), Append(done, there)) = PlannedJobs(targets, done) \cup e
      BY <2>3, <2>5, PlannedJobsGrow
    <3> QED BY <2>4, <3>1
  <2>9. /\ targets' \in Seq(Nat) /\ done' \in Seq(SUBSET Nat) /\ Len(done') = Len(targets')
        /\ \A x \in DOMAIN targets' : done'[x] \subseteq Parts(targets'[x])
    <3>1. /\ targets' \in Seq(Nat) /\ Len(targets') = t /\ targets'[t] = size
          /\ DOMAIN targets' = DOMAIN targets \cup {t}
          /\ \A x \in DOMAIN targets : targets'[x] = targets[x]
      BY <2>3, <2>4, Appended
    <3>2. /\ done' \in Seq(SUBSET Nat) /\ Len(done') = t /\ done'[t] = there
          /\ \A x \in DOMAIN done : done'[x] = done[x]
          /\ DOMAIN done = DOMAIN targets
      BY <2>3, <2>4, <2>5, Appended
    <3> HIDE DEF t
    <3>3. \A x \in DOMAIN targets : done[x] \subseteq Parts(targets[x])
      BY DEF QueueHoldsPlans
    <3>4. \A x \in DOMAIN targets' : done'[x] \subseteq Parts(targets'[x])
      BY <3>1, <3>2, <3>3
    <3> QED BY <3>1, <3>2, <3>4
  <2>10. ToSet(jobs') = PlannedJobs(targets', done')
    BY <2>3, <2>7, <2>8
  <2> QED BY <2>7, <2>9, <2>10 DEF QueueHoldsPlans, ToSet, PlannedJobs, Wanted
<1> QED BY <1>1, <1>2

LEMMA PlannerInv ==
  ASSUME Sizes \subseteq Nat
  PROVE  Spec => []QueueHoldsPlans
<1>1. Init => QueueHoldsPlans
  <2> SUFFICES ASSUME Init PROVE QueueHoldsPlans
    OBVIOUS
  <2>1. targets = <<>> /\ done = <<>> /\ jobs = <<>>
    BY DEF Init
  <2>2. /\ targets \in Seq(Nat) /\ jobs \in Seq((Nat \ {0}) \X Nat)
        /\ done \in Seq(SUBSET Nat) /\ Len(done) = Len(targets) /\ DOMAIN targets = {}
    BY <2>1
  <2>3. ToSet(jobs) = {}
    BY <2>1 DEF ToSet
  <2>4. \A j : j \notin PlannedJobs(targets, done)
    BY <2>2, PlannedPair
  <2> QED BY <2>2, <2>3, <2>4 DEF QueueHoldsPlans
<1>2. QueueHoldsPlans /\ [Next]_vars => QueueHoldsPlans'
  BY PlannerStep
<1> QED BY <1>1, <1>2, PTL DEF Spec

\* Whatever the objects and the constants: no part is finer than the floor but
\* the last of its object, and the counts keep to both limits.
THEOREM PlannerFloorAndCap ==
  ASSUME Sizes \subseteq Nat
  PROVE  Spec => []FloorAndCap
<1>1. QueueHoldsPlans => FloorAndCap
  <2> SUFFICES ASSUME QueueHoldsPlans, NEW t \in DOMAIN targets
               PROVE  LET p == planParts(targets[t])
                      IN  /\ p.NParts > 1 => p.PartSize >= minPartSize
                          /\ p.NParts <= maxPartsPerObject /\ p.NParts <= s3MaxParts
    BY DEF FloorAndCap
  <2>1. targets[t] \in Nat
    BY DEF QueueHoldsPlans
  <2>2. CASE targets[t] = 0
    BY <2>2, PlanAssumption DEF planParts
  <2>3. CASE targets[t] # 0
    BY <2>1, <2>3, PlanIsSound
  <2> QED BY <2>2, <2>3
<1> QED BY <1>1, PlannerInv, PTL

\* Whatever the objects, what is there of each and the constants: the jobs of a
\* target ask for the bytes that are not there, each exactly once.
THEOREM PlannerTiles ==
  ASSUME Sizes \subseteq Nat
  PROVE  Spec => []JobsTileTargets
<1>1. QueueHoldsPlans => JobsTileTargets
  <2> SUFFICES ASSUME QueueHoldsPlans, NEW t \in DOMAIN targets
               PROVE  LET js == {j \in ToSet(jobs) : j[1] = t}
                          there == UNION {PartBytes(t, i) : i \in done[t]}
                      IN  /\ \A j \in js : Bytes(j) # {}
                          /\ \A j, k \in js : j # k => Bytes(j) \cap Bytes(k) = {}
                          /\ UNION {Bytes(j) : j \in js} = (0 .. targets[t] - 1) \ there
    BY DEF JobsTileTargets
  <2> DEFINE p == planParts(targets[t])
             N == 0 .. p.NParts - 1
             js == {j \in ToSet(jobs) : j[1] = t}
             there == UNION {PartBytes(t, i) : i \in done[t]}
  <2>1. targets[t] \in Nat /\ p.NParts \in Nat
    BY PartCount DEF QueueHoldsPlans
  <2>2. done[t] \subseteq N /\ Wanted(targets, done, t) = N \ done[t]
    BY DEF QueueHoldsPlans, Wanted, Parts
  <2>3. js = {<<t, i>> : i \in N \ done[t]}
    <3>1. js = {j \in PlannedJobs(targets, done) : j[1] = t}
      BY DEF QueueHoldsPlans
    <3>2. \A i \in N \ done[t] : <<t, i>> \in js
      BY <2>2, <3>1, PlannedJob
    <3>3. ASSUME NEW j \in js PROVE \E i \in N \ done[t] : j = <<t, i>>
      <4>1. PICK x \in DOMAIN targets : \E i \in Wanted(targets, done, x) : j = <<x, i>>
        BY <3>1, PlannedPair
      <4>2. x = t
        BY <3>1, <4>1
      <4> QED BY <2>2, <4>1, <4>2
    <3> HIDE DEF p, N, js
    <3> QED BY <3>2, <3>3
  <2>4. \A i : PartBytes(t, i) = RangeOf(p, i)
    BY DEF PartBytes, RangeOf
  <2>5. \A j \in js : Bytes(j) = RangeOf(p, j[2])
    BY <2>4 DEF Bytes
  <2>6. CASE targets[t] = 0
    <3>1. p.NParts = 0
      BY <2>6 DEF planParts
    <3>2. js = {} /\ 0 .. targets[t] - 1 = {}
      BY <2>3, <2>6, <3>1
    <3> QED BY <3>2
  <2>7. CASE targets[t] # 0
    <3>1. Covers(p) /\ p.Size = targets[t]
      BY <2>1, <2>7, PlanIsSound
    <3> HIDE DEF p
    <3>2. /\ \A i \in N : RangeOf(p, i) # {}
          /\ \A i, j \in N : i # j => RangeOf(p, i) \cap RangeOf(p, j) = {}
          /\ UNION {RangeOf(p, i) : i \in N} = 0 .. targets[t] - 1
      BY <3>1, RangesTile
    <3> HIDE DEF N
    <3>31. /\ \A j \in js : j[2] \in N /\ j[2] \notin done[t]
          /\ \A j, k \in js : j # k => j[2] # k[2]
      BY <2>3
    <3>32. ASSUME NEW i \in N \ done[t] PROVE \E j \in js : j[2] = i
      <4>1. <<t, i>> \in js /\ <<t, i>>[2] = i
        BY <2>3
      <4> HIDE DEF js
      <4> QED BY <4>1
    <3> HIDE DEF js
    <3>3. /\ \A j \in js : j[2] \in N /\ j[2] \notin done[t]
          /\ \A j, k \in js : j # k => j[2] # k[2]
          /\ \A i \in N \ done[t] : \E j \in js : j[2] = i
      BY <3>31, <3>32
    <3>4. \A j \in js : Bytes(j) # {}
      BY <2>5, <3>2, <3>3
    <3>5. \A j, k \in js : j # k => Bytes(j) \cap Bytes(k) = {}
      BY <2>5, <3>2, <3>3
    <3>6. ASSUME NEW b \in UNION {Bytes(j) : j \in js}
          PROVE  b \in (0 .. targets[t] - 1) \ there
      <4>1. PICK j \in js : b \in RangeOf(p, j[2])
        BY <2>5
      <4>2. b \in UNION {RangeOf(p, i) : i \in N}
        BY <3>3, <4>1
      <4>3. ASSUME NEW i \in done[t] PROVE b \notin PartBytes(t, i)
        BY <2>2, <2>4, <3>2, <3>3, <4>1
      <4> QED BY <3>2, <4>2, <4>3
    <3>7. ASSUME NEW b \in (0 .. targets[t] - 1) \ there
          PROVE  b \in UNION {Bytes(j) : j \in js}
      <4>1. PICK i \in N : b \in RangeOf(p, i)
        BY <3>2
      <4>2. i \notin done[t]
        BY <2>4, <4>1
      <4>3. PICK j \in js : j[2] = i
        BY <3>3, <4>2
      <4>4. b \in Bytes(j)
        BY <2>5, <4>1, <4>3
      <4> QED BY <4>4
    <3> HIDE DEF there
    <3>8. UNION {Bytes(j) : j \in js} = (0 .. targets[t] - 1) \ there
      BY <3>6, <3>7
    <3> QED BY <3>4, <3>5, <3>8 DEF js, there
  <2> QED BY <2>6, <2>7
<1> QED BY <1>1, PlannerInv, PTL

-----------------------------------------------------------------------------
FlattenFix(f, s, n) ==
  f = [i \in 1 .. n |-> IF i = 1 THEN s[i] ELSE f[i - 1] \o s[i]]

LEMMA FlattenAt ==
  ASSUME NEW s, NEW n \in Nat, NEW f, FlattenFix(f, s, n)
  PROVE  \A i \in 1 .. n : f[i] = IF i = 1 THEN s[i] ELSE f[i - 1] \o s[i]
BY DEF FlattenFix

LEMMA FlattenExists ==
  ASSUME NEW s
  PROVE  \A n \in Nat : \E f : FlattenFix(f, s, n)
<1> DEFINE T == {n \in Nat : \E f : FlattenFix(f, s, n)}
<1>1. 0 \in T
  <2>1. FlattenFix([i \in 1 .. 0 |-> <<>>], s, 0)
    BY DEF FlattenFix
  <2> QED BY <2>1
<1>2. ASSUME NEW m \in T PROVE m + 1 \in T
  <2>1. PICK f : FlattenFix(f, s, m)
    OBVIOUS
  <2> DEFINE g == [i \in 1 .. m + 1 |-> IF i <= m THEN f[i]
                     ELSE IF i = 1 THEN s[i] ELSE f[m] \o s[i]]
  <2>a. m \in Nat /\ \A i \in 1 .. m : i \in 1 .. m + 1 /\ i <= m
    OBVIOUS
  <2>2. m \in Nat /\ \A i \in 1 .. m : g[i] = f[i]
    BY <2>a
  <2>3. \A i \in 1 .. m + 1 : g[i] = IF i = 1 THEN s[i] ELSE g[i - 1] \o s[i]
    <3> TAKE i \in 1 .. m + 1
    <3>1. CASE i \in 1 .. m
      <4>1. g[i] = f[i] /\ (i # 1 => i - 1 \in 1 .. m /\ g[i - 1] = f[i - 1])
        BY <2>2, <3>1
      <4>2. f[i] = IF i = 1 THEN s[i] ELSE f[i - 1] \o s[i]
        BY <2>1, <2>2, <3>1, FlattenAt
      <4> HIDE DEF g
      <4> QED BY <4>1, <4>2
    <3>2. CASE i = m + 1
      <4>1. i # 1 => i - 1 = m /\ g[i - 1] = f[m]
        BY <2>2, <3>2
      <4>2. g[i] = IF i = 1 THEN s[i] ELSE f[m] \o s[i]
        BY <2>2, <3>2
      <4> HIDE DEF g
      <4> QED BY <4>1, <4>2
    <3> QED BY <2>2, <3>1, <3>2
  <2>4. g = [i \in 1 .. m + 1 |-> g[i]]
    OBVIOUS
  <2> HIDE DEF g
  <2>5. FlattenFix(g, s, m + 1)
    BY <2>3, <2>4 DEF FlattenFix
  <2> QED BY <2>2, <2>5
<1>3. T \subseteq Nat
  OBVIOUS
<1> HIDE DEF T
<1>4. T = Nat
  BY <1>1, <1>2, <1>3, Inductive
<1> QED BY <1>4 DEF T

\* Rounds, each with the members of one rank, laid end to end: every member
\* once, the smaller ranks first.
LEMMA FlattenHolds ==
  ASSUME NEW n \in Nat \ {0}, NEW X, NEW L, NEW rk \in [X -> 1 .. n],
         NEW s, Len(s) = n,
         \A r \in 1 .. n : Holds(s[r], {i \in X : rk[i] = r}, L),
         \A a, b \in X : rk[a] < rk[b] => <<a, b>> \in L
  PROVE  Holds(FlattenSeq(s), X, L)
<1> DEFINE f == CHOOSE g : FlattenFix(g, s, n)
           upto(m) == {i \in X : rk[i] <= m}
           T == {m \in Nat : m \in 1 .. n => Holds(f[m], upto(m), L)}
<1>1. FlattenFix(f, s, n)
  BY FlattenExists
<1>2. FlattenSeq(s) = f[n]
  BY DEF FlattenSeq, FlattenFix
<1> HIDE DEF f
<1>3. \A i \in 1 .. n : f[i] = IF i = 1 THEN s[i] ELSE f[i - 1] \o s[i]
  BY <1>1, FlattenAt
<1>4. 0 \in T
  OBVIOUS
<1>5. ASSUME NEW m \in T PROVE m + 1 \in T
  <2>a. m \in Nat /\ (m \in 1 .. n => Holds(f[m], upto(m), L))
    OBVIOUS
  <2> SUFFICES ASSUME m + 1 \in 1 .. n PROVE Holds(f[m + 1], upto(m + 1), L)
    <3> HIDE DEF upto
    <3> QED BY <2>a
  <2> DEFINE e == m + 1  Y == {i \in X : rk[i] = e}
  <2>1. m \in Nat /\ e \in 1 .. n /\ e - 1 = m /\ Holds(s[e], Y, L)
    BY <2>a
  <2>2. upto(e) = upto(m) \cup Y /\ \A a \in upto(m), b \in Y : rk[a] < rk[b]
    BY <2>1
  <2>3. CASE m = 0
    <3>1. upto(m) = {}
      BY <2>3
    <3>2. f[e] = s[e]
      BY <1>3, <2>1, <2>3
    <3>3. upto(e) = Y
      BY <2>2, <3>1
    <3> HIDE DEF Y, upto
    <3> QED BY <2>1, <3>2, <3>3
  <2>4. CASE m # 0
    <3>1. m \in 1 .. n /\ e # 1
      BY <2>1, <2>4
    <3>3. Holds(f[m], upto(m), L)
      BY <2>a, <3>1
    <3>4. f[e] = f[m] \o s[e]
      BY <1>3, <2>1, <3>1
    <3>2. \A a \in upto(m), b \in Y : <<a, b>> \in L
      BY <2>2
    <3> HIDE DEF Y, upto
    <3> QED BY <2>1, <2>2, <3>2, <3>3, <3>4, ConcatHolds
  <2> QED BY <2>3, <2>4
<1>6. T \subseteq Nat
  OBVIOUS
<1> HIDE DEF T
<1>7. T = Nat
  BY <1>4, <1>5, <1>6, Inductive
<1>8. n \in T /\ n \in 1 .. n
  BY <1>7
<1>9. upto(n) = X
  OBVIOUS
<1> HIDE DEF upto
<1> QED BY <1>2, <1>8, <1>9 DEF T

-----------------------------------------------------------------------------
(* interleaveByObject *)

\* Nothing precedes itself, so a sequence that holds a set lists it without
\* repetition.
LEMMA HoldsOnce ==
  ASSUME NEW Y, NEW L, NEW s, Holds(s, Y, L), \A i \in Y : <<i, i>> \notin L
  PROVE  /\ Len(s) \in Nat
         /\ \A x, y \in 1 .. Len(s) : s[x] = s[y] => x = y
         /\ IsFiniteSet(Y) /\ Cardinality(Y) = Len(s)
<1> DEFINE m == Len(s)
           f == [x \in 1 .. m |-> s[x]]
<1>1. m \in Nat /\ \A x \in 1 .. m : s[x] \in Y
  BY DEF Holds
<1>2. ASSUME NEW x \in 1 .. m, NEW y \in 1 .. m, s[x] = s[y] PROVE x = y
  <2>1. \A a, b \in 1 .. m : a < b => <<s[a], s[b]>> \in L
    BY DEF Holds
  <2>2. <<s[x], s[x]>> \notin L /\ <<s[y], s[y]>> \notin L
    BY <1>1
  <2> HIDE DEF m, f
  <2>3. ~(x < y) /\ ~(y < x)
    BY <1>2, <2>1, <2>2
  <2> QED BY <1>1, <2>3
<1>3. \A i \in Y : \E x \in 1 .. m : s[x] = i
  BY DEF Holds
<1> HIDE DEF m
<1>4. f \in [1 .. m -> Y] /\ \A x \in 1 .. m : f[x] = s[x]
  BY <1>1
<1> HIDE DEF f
<1>5. f \in Injection(1 .. m, Y) /\ f \in Surjection(1 .. m, Y)
  BY <1>2, <1>3, <1>4 DEF Injection, Surjection, IsInjective
<1>6. IsFiniteSet(1 .. m) /\ Cardinality(1 .. m) = m
  BY <1>1, FS_Interval
<1>7. IsFiniteSet(Y) /\ Cardinality(Y) = m
  BY <1>5, <1>6, FS_Surjection
<1> QED BY <1>1, <1>2, <1>7 DEF m

\* The indices of a set, as listed by Ascending, are no more than the range.
LEMMA AscendingLength ==
  ASSUME NEW n \in Nat, NEW S \in SUBSET (1 .. n), NEW s, Holds(s, S, Smaller)
  PROVE  /\ Len(s) \in Nat /\ Len(s) <= n
         /\ Cardinality(S) = Len(s)
<1>1. \A i \in S : <<i, i>> \notin Smaller
  BY SmallerIs
<1>2. Len(s) \in Nat /\ Cardinality(S) = Len(s)
  BY <1>1, HoldsOnce
<1>3. IsFiniteSet(1 .. n) /\ Cardinality(1 .. n) = n
  BY FS_Interval
<1>4. Cardinality(S) <= Cardinality(1 .. n)
  BY <1>3, FS_Subset
<1> QED BY <1>2, <1>3, <1>4

\* A group: the indices of one key, the smaller first.
GroupFacts(key, k) ==
  LET g == Group(key, k)
  IN  /\ Len(g) \in Nat /\ Len(g) <= Len(key)
      /\ Len(g) = Cardinality({i \in 1 .. Len(key) : key[i] = k})
      /\ \A x \in 1 .. Len(g) : g[x] \in 1 .. Len(key) /\ key[g[x]] = k
      /\ \A x, y \in 1 .. Len(g) : x < y => g[x] < g[y]
      /\ \A i \in 1 .. Len(key) : key[i] = k => \E x \in 1 .. Len(g) : g[x] = i

LEMMA GroupIs ==
  ASSUME NEW key \in Seq(Nat), NEW k
  PROVE  GroupFacts(key, k)
<1> DEFINE n == Len(key)  S == {i \in 1 .. n : key[i] = k}  g == Group(key, k)
<1>1. n \in Nat /\ DOMAIN key = 1 .. n /\ S \in SUBSET (1 .. n)
  OBVIOUS
<1>2. g = Ascending(S, n)
  BY <1>1 DEF Group
<1>3. Holds(g, S, Smaller)
  BY <1>1, <1>2, AscendingHolds
<1>4. Len(g) \in Nat /\ Len(g) <= n /\ Cardinality(S) = Len(g)
  BY <1>1, <1>3, AscendingLength
<1>5. \A x \in 1 .. Len(g) : g[x] \in S
  BY <1>3 DEF Holds
<1>6. \A x, y \in 1 .. Len(g) : x < y => g[x] < g[y]
  BY <1>3, SmallerIs DEF Holds
<1>7. \A i \in S : \E x \in 1 .. Len(g) : g[x] = i
  BY <1>3 DEF Holds
<1> HIDE DEF g
<1>8. \A x \in 1 .. Len(g) : g[x] \in 1 .. n /\ key[g[x]] = k
  BY <1>5
<1>9. \A i \in 1 .. n : key[i] = k => \E x \in 1 .. Len(g) : g[x] = i
  BY <1>7
<1> QED BY <1>4, <1>6, <1>8, <1>9 DEF g, GroupFacts

\* The place of every job among those of its object.
Rank(key) ==
  [i \in DOMAIN key |-> CHOOSE x \in 1 .. Len(Group(key, key[i])) : Group(key, key[i])[x] = i]

LEMMA RankIs ==
  ASSUME NEW key \in Seq(Nat)
  PROVE  /\ Rank(key) \in [1 .. Len(key) -> 1 .. Len(key)]
         /\ \A i \in 1 .. Len(key) :
              /\ Rank(key)[i] \in 1 .. Len(Group(key, key[i]))
              /\ Group(key, key[i])[Rank(key)[i]] = i
         /\ \A k : \A x \in 1 .. Len(Group(key, k)) : Rank(key)[Group(key, k)[x]] = x
<1> DEFINE n == Len(key)
<1>1. n \in Nat /\ DOMAIN key = 1 .. n
  OBVIOUS
<1>g. \A k : /\ Len(Group(key, k)) \in Nat /\ Len(Group(key, k)) <= n
             /\ \A x \in 1 .. Len(Group(key, k)) :
                  Group(key, k)[x] \in 1 .. n /\ key[Group(key, k)[x]] = k
             /\ \A x, y \in 1 .. Len(Group(key, k)) : x < y => Group(key, k)[x] < Group(key, k)[y]
             /\ \A i \in 1 .. n : key[i] = k =>
                  \E x \in 1 .. Len(Group(key, k)) : Group(key, k)[x] = i
  BY GroupIs DEF GroupFacts
<1>2. ASSUME NEW i \in 1 .. n
      PROVE  /\ Rank(key)[i] \in 1 .. Len(Group(key, key[i]))
             /\ Group(key, key[i])[Rank(key)[i]] = i
  <2>1. \E x \in 1 .. Len(Group(key, key[i])) : Group(key, key[i])[x] = i
    BY <1>2, <1>g
  <2>2. Rank(key)[i] = CHOOSE x \in 1 .. Len(Group(key, key[i])) : Group(key, key[i])[x] = i
    BY <1>1 DEF Rank
  <2> QED BY <2>1, <2>2
<1>3. \A i \in 1 .. n : Len(Group(key, key[i])) \in Nat /\ Len(Group(key, key[i])) <= n
  BY <1>g
<1>4. \A i \in 1 .. n : Rank(key)[i] \in 1 .. n
  BY <1>1, <1>2, <1>3
<1>5. Rank(key) = [i \in 1 .. n |-> Rank(key)[i]]
  BY <1>1 DEF Rank
<1>6. Rank(key) \in [1 .. n -> 1 .. n]
  BY <1>4, <1>5
<1>7. ASSUME NEW k, NEW x \in 1 .. Len(Group(key, k))
      PROVE  Rank(key)[Group(key, k)[x]] = x
  <2> DEFINE i == Group(key, k)[x]  y == Rank(key)[i]
  <2>1. i \in 1 .. n /\ key[i] = k
    BY <1>7, <1>g
  <2>2. y \in 1 .. Len(Group(key, k)) /\ Group(key, k)[y] = Group(key, k)[x]
    BY <1>2, <2>1
  <2>3. /\ Len(Group(key, k)) \in Nat
        /\ \A a \in 1 .. Len(Group(key, k)) : Group(key, k)[a] \in 1 .. n
        /\ \A a, b \in 1 .. Len(Group(key, k)) : a < b => Group(key, k)[a] < Group(key, k)[b]
    BY <1>g
  <2> HIDE DEF y, n
  <2>4. ~(x < y) /\ ~(y < x)
    BY <1>1, <1>7, <2>2, <2>3
  <2>5. x = y
    BY <1>7, <2>2, <2>3, <2>4
  <2> QED BY <2>5 DEF y
<1> QED BY <1>2, <1>6, <1>7

\* Among the jobs of one object the places are in the order of the indices.
LEMMA RankOrders ==
  ASSUME NEW key \in Seq(Nat),
         NEW i \in 1 .. Len(key), NEW j \in 1 .. Len(key), key[i] = key[j]
  PROVE  /\ Rank(key)[i] < Rank(key)[j] => i < j
         /\ Rank(key)[i] = Rank(key)[j] => i = j
<1> DEFINE g == Group(key, key[i])  x == Rank(key)[i]  y == Rank(key)[j]
<1>1. x \in 1 .. Len(g) /\ g[x] = i /\ y \in 1 .. Len(g) /\ g[y] = j
  BY RankIs
<1>2. \A a, b \in 1 .. Len(g) : a < b => g[a] < g[b]
  BY GroupIs DEF GroupFacts
<1> HIDE DEF g, x, y
<1>3. (x < y => i < j) /\ (x = y => i = j)
  BY <1>1, <1>2
<1> QED BY <1>3 DEF x, y

\* The order of issue: by place, and jobs of one place are of different objects.
Before(key) ==
  {p \in (DOMAIN key) \X (DOMAIN key) :
     \/ Rank(key)[p[1]] < Rank(key)[p[2]]
     \/ Rank(key)[p[1]] = Rank(key)[p[2]] /\ key[p[1]] # key[p[2]]}

LEMMA RoundHolds ==
  ASSUME NEW key \in Seq(Nat), NEW r \in 1 .. Len(key)
  PROVE  Holds(Round(key, r), {i \in 1 .. Len(key) : Rank(key)[i] = r}, Before(key))
<1> DEFINE n == Len(key)
           D == {i \in FirstSeen(key) : r <= Len(Group(key, key[i]))}
           due == Ascending(D, n)
           w == Round(key, r)
           Y == {i \in 1 .. n : Rank(key)[i] = r}
<1>1. n \in Nat /\ DOMAIN key = 1 .. n /\ r \in 1 .. n
  OBVIOUS
<1>g. \A k : /\ Len(Group(key, k)) \in Nat /\ Len(Group(key, k)) <= n
             /\ \A x \in 1 .. Len(Group(key, k)) :
                  Group(key, k)[x] \in 1 .. n /\ key[Group(key, k)[x]] = k
             /\ \A x, y \in 1 .. Len(Group(key, k)) : x < y => Group(key, k)[x] < Group(key, k)[y]
             /\ \A i \in 1 .. n : key[i] = k =>
                  \E x \in 1 .. Len(Group(key, k)) : Group(key, k)[x] = i
  BY GroupIs DEF GroupFacts
<1>2. /\ D \in SUBSET (1 .. n)
      /\ \A i \in D : r <= Len(Group(key, key[i]))
      /\ \A i \in D : \A j \in 1 .. n : key[j] = key[i] => i <= j
  BY <1>1 DEF FirstSeen
<1>d. D = {i \in FirstSeen(key) : r <= Len(Group(key, key[i]))}
  OBVIOUS
<1>3. Holds(due, D, Smaller)
  BY <1>1, <1>2, AscendingHolds
<1> HIDE DEF due, D
<1>4. /\ due \in Seq(D) /\ Len(due) \in Nat /\ DOMAIN due = 1 .. Len(due)
      /\ \A x \in 1 .. Len(due) : due[x] \in D
      /\ \A x, y \in 1 .. Len(due) : x < y => due[x] < due[y]
      /\ \A i \in D : \E x \in 1 .. Len(due) : due[x] = i
  <2>1. due \in Seq(D)
    BY <1>3 DEF Holds
  <2>2. \A x, y \in 1 .. Len(due) : x < y => due[x] < due[y]
    BY <1>3, SmallerIs DEF Holds
  <2>3. \A i \in D : \E x \in 1 .. Len(due) : due[x] = i
    BY <1>3 DEF Holds
  <2> QED BY <2>1, <2>2, <2>3
<1>5. w = [x \in DOMAIN due |-> Group(key, key[due[x]])[r]]
  BY DEF Round, due, D
<1> HIDE DEF w
<1>6. \A x \in 1 .. Len(due) :
        /\ w[x] = Group(key, key[due[x]])[r]
        /\ w[x] \in 1 .. n /\ key[w[x]] = key[due[x]] /\ Rank(key)[w[x]] = r
  <2> TAKE x \in 1 .. Len(due)
  <2>1. w[x] = Group(key, key[due[x]])[r]
    BY <1>4, <1>5
  <2>2. due[x] \in D
    BY <1>4
  <2>3. r \in 1 .. Len(Group(key, key[due[x]]))
    <3>1. Len(Group(key, key[due[x]])) \in Nat
      BY <1>g
    <3>2. r <= Len(Group(key, key[due[x]]))
      BY <1>2, <2>2
    <3> QED BY <1>1, <3>1, <3>2
  <2>4. w[x] \in 1 .. n /\ key[w[x]] = key[due[x]]
    BY <2>1, <2>3, <1>g
  <2>5. Rank(key)[w[x]] = r
    BY <2>1, <2>3, RankIs
  <2> QED BY <2>1, <2>4, <2>5
<1>7. w \in Seq(Y) /\ Len(w) = Len(due)
  <2>1. \A x \in 1 .. Len(due) : w[x] \in Y
    BY <1>6
  <2>2. w = [x \in 1 .. Len(due) |-> w[x]]
    BY <1>4, <1>5
  <2> HIDE DEF Y
  <2> QED BY <1>4, <2>1, <2>2
<1>8. ASSUME NEW x \in 1 .. Len(w), NEW y \in 1 .. Len(w), x < y
      PROVE  <<w[x], w[y]>> \in Before(key)
  <2>1. x \in 1 .. Len(due) /\ y \in 1 .. Len(due)
    BY <1>7
  <2>2. due[x] < due[y] /\ due[x] \in D /\ due[y] \in D /\ due[x] \in 1 .. n /\ due[y] \in 1 .. n
    BY <1>2, <1>4, <1>8, <2>1
  <2>3. key[due[x]] # key[due[y]]
    <3>1. key[due[x]] = key[due[y]] => due[y] <= due[x]
      BY <1>2, <2>2
    <3> QED BY <1>1, <2>2, <3>1
  <2>4. /\ w[x] \in 1 .. n /\ w[y] \in 1 .. n /\ key[w[x]] # key[w[y]]
        /\ Rank(key)[w[x]] = Rank(key)[w[y]]
    BY <1>6, <2>1, <2>3
  <2> QED BY <1>1, <2>4 DEF Before
<1>9. ASSUME NEW i \in Y PROVE \E x \in 1 .. Len(w) : w[x] = i
  <2> DEFINE g == Group(key, key[i])  h == g[1]
  <2>1. i \in 1 .. n /\ Rank(key)[i] = r
    OBVIOUS
  <2>2. r \in 1 .. Len(g) /\ g[r] = i
    BY <2>1, RankIs
  <2>3. Len(g) \in Nat /\ 1 \in 1 .. Len(g)
    <3>1. Len(g) \in Nat
      BY <1>g
    <3> QED BY <2>2, <3>1
  <2>4. h \in 1 .. n /\ key[h] = key[i]
    BY <2>3, <1>g
  <2>5. \A j \in 1 .. n : key[j] = key[i] => h <= j
    <3> SUFFICES ASSUME NEW j \in 1 .. n, key[j] = key[i] PROVE h <= j
      OBVIOUS
    <3>1. PICK y \in 1 .. Len(g) : g[y] = j
      BY <1>g
    <3>2. 1 < y => h < j
      BY <2>3, <3>1, <1>g
    <3>3. y = 1 => h = j
      BY <3>1
    <3> HIDE DEF h, g
    <3> QED BY <1>1, <2>3, <2>4, <3>1, <3>2, <3>3
  <2>6. h \in D
    <3>1. h \in FirstSeen(key)
      BY <1>1, <2>4, <2>5 DEF FirstSeen
    <3>2. r <= Len(Group(key, key[h]))
      BY <2>2, <2>4
    <3> HIDE DEF h
    <3> QED BY <1>d, <3>1, <3>2
  <2>7. PICK x \in 1 .. Len(due) : due[x] = h
    BY <1>4, <2>6
  <2>8. w[x] = i
    BY <1>6, <2>2, <2>4, <2>7
  <2> QED BY <1>7, <2>7, <2>8
<1>10. Holds(w, Y, Before(key))
  BY <1>7, <1>8, <1>9 DEF Holds
<1> QED BY <1>10 DEF w

\* What interleaveByObject returns: every job once, place by place.
LEMMA InterleaveHolds ==
  ASSUME NEW key \in Seq(Nat)
  PROVE  Holds(interleaveByObject(key), 1 .. Len(key), Before(key))
<1> DEFINE n == Len(key)
           s == [r \in DOMAIN key |-> Round(key, r)]
           rk == Rank(key)
<1>1. n \in Nat /\ DOMAIN key = 1 .. n
  OBVIOUS
<1>2. Len(s) = n /\ \A r \in 1 .. n : s[r] = Round(key, r)
  BY <1>1
<1>3. interleaveByObject(key) = FlattenSeq(s)
  BY DEF interleaveByObject
<1>4. CASE n = 0
  <2>1. FlattenSeq(s) = <<>>
    BY <1>1, <1>2, <1>4 DEF FlattenSeq
  <2>2. 1 .. Len(key) = {} /\ Len(<<>>) = 0 /\ 1 .. 0 = {} /\ <<>> \in Seq({})
    BY <1>4
  <2> QED BY <1>3, <2>1, <2>2 DEF Holds
<1>5. CASE n # 0
  <2>1. rk \in [1 .. n -> 1 .. n]
    BY RankIs
  <2>2. \A r \in 1 .. n : Holds(s[r], {i \in 1 .. n : rk[i] = r}, Before(key))
    BY <1>2, RoundHolds
  <2>3. \A a, b \in 1 .. n : rk[a] < rk[b] => <<a, b>> \in Before(key)
    BY <1>1 DEF Before
  <2>4. n \in Nat \ {0}
    BY <1>1, <1>5
  <2> HIDE DEF n, s, rk
  <2>5. Holds(FlattenSeq(s), 1 .. n, Before(key))
    BY <1>2, <2>1, <2>2, <2>3, <2>4, FlattenHolds
  <2> QED BY <1>3, <2>5 DEF n
<1> QED BY <1>4, <1>5

LEMMA BeforeIs ==
  ASSUME NEW key \in Seq(Nat), NEW i, NEW j
  PROVE  <<i, j>> \in Before(key) <=>
           /\ i \in 1 .. Len(key) /\ j \in 1 .. Len(key)
           /\ \/ Rank(key)[i] < Rank(key)[j]
              \/ Rank(key)[i] = Rank(key)[j] /\ key[i] # key[j]
<1>1. DOMAIN key = 1 .. Len(key)
  OBVIOUS
<1> QED BY <1>1 DEF Before

\* The issue order of any queue holds every job once, the jobs of one object in
\* the order in which they were queued.
THEOREM InterleaveIsFair ==
  ASSUME NEW key \in Seq(Nat)
  PROVE  LET o == interleaveByObject(key)
         IN  /\ o \in Seq(1 .. Len(key)) /\ Len(o) = Len(key)
             /\ \A i \in 1 .. Len(key) : \E x \in 1 .. Len(o) : o[x] = i
             /\ \A x, y \in 1 .. Len(o) : o[x] = o[y] => x = y
             /\ \A x, y \in 1 .. Len(o) : x < y /\ key[o[x]] = key[o[y]] => o[x] < o[y]
<1> DEFINE o == interleaveByObject(key)  n == Len(key)
<1>1. Holds(o, 1 .. n, Before(key))
  BY InterleaveHolds
<1>2. n \in Nat /\ Rank(key) \in [1 .. n -> 1 .. n]
  BY RankIs
<1> HIDE DEF o
<1>3. \A i \in 1 .. n : <<i, i>> \notin Before(key)
  <2> TAKE i \in 1 .. n
  <2>1. Rank(key)[i] \in Nat
    BY <1>2
  <2> QED BY <2>1, BeforeIs
<1>4. /\ Len(o) \in Nat
      /\ \A x, y \in 1 .. Len(o) : o[x] = o[y] => x = y
      /\ Cardinality(1 .. n) = Len(o)
  <2> DEFINE Y == 1 .. n  L == Before(key)
  <2>1. Holds(o, Y, L) /\ \A i \in Y : <<i, i>> \notin L
    BY <1>1, <1>3
  <2> HIDE DEF Y, L
  <2>2. /\ Len(o) \in Nat /\ Cardinality(Y) = Len(o)
        /\ \A x, y \in 1 .. Len(o) : o[x] = o[y] => x = y
    BY <2>1, HoldsOnce
  <2> QED BY <2>2 DEF Y
<1>5. Cardinality(1 .. n) = n
  BY <1>2, FS_Interval
<1>6. o \in Seq(1 .. n) /\ \A i \in 1 .. n : \E x \in 1 .. Len(o) : o[x] = i
  BY <1>1 DEF Holds
<1>7. ASSUME NEW x \in 1 .. Len(o), NEW y \in 1 .. Len(o), x < y, key[o[x]] = key[o[y]]
      PROVE  o[x] < o[y]
  <2>1. <<o[x], o[y]>> \in Before(key)
    BY <1>1, <1>7 DEF Holds
  <2>2. o[x] \in 1 .. n /\ o[y] \in 1 .. n /\ Rank(key)[o[x]] < Rank(key)[o[y]]
    BY <1>7, <2>1, BeforeIs
  <2> QED BY <1>7, <2>2, RankOrders
<1> QED BY <1>4, <1>5, <1>6, <1>7 DEF o

\* A finite set whose members carry all the numbers to m has m members or more.
LEMMA CoverCount ==
  ASSUME NEW A, IsFiniteSet(A), NEW f \in [A -> Nat], NEW m \in Nat,
         \A r \in 1 .. m : \E x \in A : f[x] = r
  PROVE  m <= Cardinality(A)
<1> DEFINE B == {x \in A : f[x] \in 1 .. m}  h == [x \in B |-> f[x]]
<1>1. B \in SUBSET A
  OBVIOUS
<1>2. IsFiniteSet(B) /\ Cardinality(B) <= Cardinality(A)
  <2> HIDE DEF B
  <2> QED BY <1>1, FS_Subset
<1>3. h \in [B -> 1 .. m] /\ \A r \in 1 .. m : \E x \in B : h[x] = r
  OBVIOUS
<1> HIDE DEF B, h
<1>4. h \in Surjection(B, 1 .. m)
  BY <1>3 DEF Surjection
<1>5. Cardinality(1 .. m) <= Cardinality(B)
  BY <1>2, <1>4, FS_Surjection
<1>6. Cardinality(1 .. m) = m
  BY FS_Interval
<1>7. Cardinality(A) \in Nat /\ Cardinality(B) \in Nat
  BY <1>2, FS_CardinalityType
<1> QED BY <1>2, <1>5, <1>6, <1>7

\* A set whose members carry different numbers to m has m members at most.
LEMMA DistinctCount ==
  ASSUME NEW A, NEW m \in Nat, NEW f \in [A -> 1 .. m],
         \A x, y \in A : f[x] = f[y] => x = y
  PROVE  Cardinality(A) <= m
<1>1. f \in Injection(A, 1 .. m)
  BY DEF Injection, IsInjective
<1>2. IsFiniteSet(1 .. m) /\ Cardinality(1 .. m) = m
  BY FS_Interval
<1>3. Cardinality(A) <= Cardinality(1 .. m)
  BY <1>1, <1>2, FS_Injection
<1> QED BY <1>2, <1>3

\* How many of the first n jobs of the order are of object k.
TakenOf(key, k, n) == Cardinality({x \in 1 .. n : key[interleaveByObject(key)[x]] = k})

\* In every prefix of the issue order, an object that still has jobs waiting is
\* at most one job behind any other.
THEOREM InterleaveSpreads ==
  ASSUME NEW key \in Seq(Nat), NEW n \in 0 .. Len(interleaveByObject(key)), NEW t, NEW u
  PROVE  TakenOf(key, u, n) < Len(Group(key, u)) =>
           TakenOf(key, t, n) <= TakenOf(key, u, n) + 1
<1> DEFINE o == interleaveByObject(key)
           A(k) == {x \in 1 .. n : key[o[x]] = k}
           g == Group(key, u)
           rk == Rank(key)
           Q == {q \in 1 .. Len(g) : \A x \in 1 .. n : o[x] # g[q]}
<1>1. /\ Len(o) = Len(key) /\ Len(key) \in Nat
      /\ \A x \in 1 .. Len(o) : o[x] \in 1 .. Len(key)
      /\ \A i \in 1 .. Len(key) : \E x \in 1 .. Len(o) : o[x] = i
      /\ \A x, y \in 1 .. Len(o) : o[x] = o[y] => x = y
  <2>1. /\ o \in Seq(1 .. Len(key)) /\ Len(o) = Len(key)
        /\ \A i \in 1 .. Len(key) : \E x \in 1 .. Len(o) : o[x] = i
        /\ \A x, y \in 1 .. Len(o) : o[x] = o[y] => x = y
    BY InterleaveIsFair
  <2>2. Len(key) \in Nat
    OBVIOUS
  <2> DEFINE Y == 1 .. Len(key)
  <2>3. o \in Seq(Y)
    BY <2>1
  <2> HIDE DEF o, Y
  <2>4. \A x \in 1 .. Len(o) : o[x] \in Y
    BY <2>3
  <2> QED BY <2>1, <2>2, <2>4 DEF Y
<1>2. \A x, y \in 1 .. Len(o) : x < y => <<o[x], o[y]>> \in Before(key)
  BY InterleaveHolds DEF Holds
<1>3. /\ rk \in [1 .. Len(key) -> 1 .. Len(key)]
      /\ \A x \in 1 .. Len(g) : rk[g[x]] = x
      /\ Len(g) \in Nat /\ \A x \in 1 .. Len(g) : g[x] \in 1 .. Len(key) /\ key[g[x]] = u
  BY RankIs, GroupIs DEF GroupFacts
<1> HIDE DEF o, rk
<1>0. n \in Nat /\ n <= Len(o) /\ \A x \in 1 .. n : x \in 1 .. Len(o) /\ o[x] \in 1 .. Len(key)
  BY <1>1 DEF o
<1>4. \A k : IsFiniteSet(A(k)) /\ Cardinality(A(k)) \in Nat
  <2> TAKE k
  <2>1. A(k) \in SUBSET (1 .. n) /\ IsFiniteSet(1 .. n)
    BY <1>0, FS_Interval
  <2> HIDE DEF A
  <2>2. IsFiniteSet(A(k))
    BY <2>1, FS_Subset
  <2> QED BY <2>2, FS_CardinalityType
<1> DEFINE f == [x \in A(u) |-> rk[o[x]]]
<1>5. f \in [A(u) -> Nat] /\ \A x \in A(u) : f[x] = rk[o[x]]
  BY <1>0, <1>3
<1>6. ASSUME NEW q \in 1 .. Len(g), q \notin Q
      PROVE  \E x \in A(u) : f[x] = q
  <2>1. PICK x \in 1 .. n : o[x] = g[q]
    BY <1>6
  <2>2. x \in A(u) /\ rk[o[x]] = q
    BY <1>3, <2>1
  <2> QED BY <1>5, <2>2
<1> SUFFICES ASSUME Cardinality(A(u)) < Len(g) PROVE Cardinality(A(t)) <= Cardinality(A(u)) + 1
  BY DEF o, TakenOf
<1>7. Q # {}
  <2> SUFFICES ASSUME Q = {} PROVE FALSE
    OBVIOUS
  <2>1. \A q \in 1 .. Len(g) : \E x \in A(u) : f[x] = q
    BY <1>6
  <2> HIDE DEF A, f, g, Q
  <2>2. Len(g) <= Cardinality(A(u))
    BY <1>3, <1>4, <1>5, <2>1, CoverCount
  <2> QED BY <1>3, <1>4, <2>2
<1>8. PICK q \in Q : \A r \in Q : q <= r
  <2>1. Q \in SUBSET Nat
    OBVIOUS
  <2> HIDE DEF Q
  <2> QED BY <1>7, <2>1, Least
<1>9. q \in 1 .. Len(g) /\ q \in Nat \ {0} /\ \A x \in 1 .. n : o[x] # g[q]
  OBVIOUS
<1>10. q - 1 <= Cardinality(A(u))
  <2>1. ASSUME NEW r \in 1 .. q - 1 PROVE \E x \in A(u) : f[x] = r
    <3>1. r \in 1 .. Len(g) /\ ~(q <= r)
      BY <1>3, <1>9
    <3>2. r \notin Q
      BY <1>8, <3>1
    <3> HIDE DEF Q, A, f
    <3> QED BY <1>6, <3>1, <3>2
  <2>2. q - 1 \in Nat
    BY <1>9
  <2> HIDE DEF A, f, g, Q
  <2> QED BY <1>4, <1>5, <2>1, <2>2, CoverCount
<1>11. PICK p \in 1 .. Len(o) : o[p] = g[q]
  BY <1>1, <1>3, <1>9
<1>12. p > n
  BY <1>0, <1>9, <1>11
<1> DEFINE h == [x \in A(t) |-> rk[o[x]]]
<1>13. \A x \in A(t) : x \in 1 .. n /\ key[o[x]] = t
  OBVIOUS
<1> HIDE DEF A, Q
<1>14. \A x \in A(t) : rk[o[x]] \in 1 .. q
  <2> TAKE x \in A(t)
  <2>1. x \in 1 .. Len(o) /\ x < p /\ o[x] \in 1 .. Len(key)
    BY <1>0, <1>12, <1>13
  <2>2. <<o[x], g[q]>> \in Before(key)
    BY <1>2, <1>11, <2>1
  <2>3. rk[o[x]] < rk[g[q]] \/ rk[o[x]] = rk[g[q]]
    BY <2>2, BeforeIs DEF rk
  <2>4. rk[g[q]] = q /\ rk[o[x]] \in 1 .. Len(key)
    BY <1>3, <1>9, <2>1
  <2> QED BY <1>9, <2>3, <2>4
<1>15. \A x, y \in A(t) : rk[o[x]] = rk[o[y]] => x = y
  <2> TAKE x, y \in A(t)
  <2>1. x \in 1 .. Len(o) /\ y \in 1 .. Len(o) /\ o[x] \in 1 .. Len(key) /\ o[y] \in 1 .. Len(key)
    BY <1>0, <1>13
  <2>2. key[o[x]] = key[o[y]]
    BY <1>13
  <2>3. rk[o[x]] = rk[o[y]] => o[x] = o[y]
    BY <2>1, <2>2, RankOrders DEF rk
  <2> QED BY <1>1, <2>1, <2>3
<1>16. h \in [A(t) -> 1 .. q] /\ \A x, y \in A(t) : h[x] = h[y] => x = y
  BY <1>14, <1>15
<1> HIDE DEF h
<1>17. Cardinality(A(t)) <= q
  BY <1>9, <1>16, DistinctCount
<1> QED BY <1>4, <1>9, <1>10, <1>17

-----------------------------------------------------------------------------
(* The issue order of the planner's queue *)

LEMMA KeysOfQueue ==
  ASSUME QueueHoldsPlans
  PROVE  /\ Keys \in Seq(Nat) /\ Len(Keys) = Len(jobs) /\ Len(jobs) \in Nat
         /\ DOMAIN jobs = 1 .. Len(jobs)
         /\ \A i \in 1 .. Len(jobs) : Keys[i] = jobs[i][1]
<1>1. jobs \in Seq((Nat \ {0}) \X Nat)
  BY DEF QueueHoldsPlans
<1>2. /\ Len(jobs) \in Nat /\ DOMAIN jobs = 1 .. Len(jobs)
      /\ \A i \in 1 .. Len(jobs) : jobs[i] \in (Nat \ {0}) \X Nat
  BY <1>1
<1>3. \A i \in 1 .. Len(jobs) : jobs[i][1] \in Nat
  BY <1>2
<1>4. Keys = [i \in 1 .. Len(jobs) |-> jobs[i][1]]
  BY <1>2 DEF Keys
<1>5. Keys \in Seq(Nat) /\ Len(Keys) = Len(jobs)
  BY <1>2, <1>3, <1>4
<1>6. \A i \in 1 .. Len(jobs) : Keys[i] = jobs[i][1]
  BY <1>4
<1> QED BY <1>2, <1>5, <1>6

\* A target has no fewer jobs in the queue than its plan has parts that are not
\* there.
LEMMA PartsAreQueued ==
  ASSUME QueueHoldsPlans, NEW u \in DOMAIN targets
  PROVE  /\ Cardinality(Parts(targets[u]) \ done[u]) \in Nat
         /\ Cardinality(Parts(targets[u]) \ done[u]) <= Len(Group(Keys, u))
<1> DEFINE n == Len(jobs)
           A == {i \in 1 .. n : Keys[i] = u}
           W == Wanted(targets, done, u)
           C == {i \in A : jobs[i][2] \in W}
<1>1. /\ Keys \in Seq(Nat) /\ Len(Keys) = n /\ n \in Nat /\ DOMAIN jobs = 1 .. n
      /\ \A i \in 1 .. n : Keys[i] = jobs[i][1]
  BY KeysOfQueue
<1>2. Len(Group(Keys, u)) = Cardinality(A)
  BY <1>1, GroupIs DEF GroupFacts
<1>3. IsFiniteSet(A)
  <2>1. A \in SUBSET (1 .. n) /\ IsFiniteSet(1 .. n)
    BY <1>1, FS_Interval
  <2> HIDE DEF A
  <2> QED BY <2>1, FS_Subset
<1>4. ASSUME NEW i \in W PROVE \E x \in C : jobs[x][2] = i
  <2>1. <<u, i>> \in ToSet(jobs)
    BY PlannedJob DEF QueueHoldsPlans
  <2>2. PICK x \in 1 .. n : jobs[x] = <<u, i>>
    BY <1>1, <2>1 DEF ToSet
  <2>3. x \in C /\ jobs[x][2] = i
    BY <1>1, <2>2
  <2> HIDE DEF C
  <2> QED BY <2>3
<1>5. C \in SUBSET A /\ \A i \in C : jobs[i][2] \in W
  OBVIOUS
<1> DEFINE g == [i \in C |-> jobs[i][2]]
<1>6. g \in [C -> W] /\ \A i \in C : g[i] = jobs[i][2]
  BY <1>5
<1> HIDE DEF A, C, W, g
<1>7. IsFiniteSet(C) /\ Cardinality(C) <= Cardinality(A)
  BY <1>3, <1>5, FS_Subset
<1>8. g \in Surjection(C, W)
  BY <1>4, <1>6 DEF Surjection
<1>9. IsFiniteSet(W) /\ Cardinality(W) <= Cardinality(C)
  BY <1>7, <1>8, FS_Surjection
<1>10. Cardinality(W) \in Nat /\ Cardinality(C) \in Nat /\ Cardinality(A) \in Nat
  BY <1>3, <1>7, <1>9, FS_CardinalityType
<1>11. Cardinality(W) <= Cardinality(A)
  BY <1>7, <1>9, <1>10
<1> QED BY <1>2, <1>10, <1>11 DEF W, Wanted

\* Whatever the objects and the constants: the order hands out every job of the
\* queue once, those of one object in the order of their parts.
THEOREM PlannerOrderIsFair ==
  ASSUME Sizes \subseteq Nat
  PROVE  Spec => []OrderIsFair
<1>1. QueueHoldsPlans => OrderIsFair
  <2> SUFFICES ASSUME QueueHoldsPlans PROVE OrderIsFair
    OBVIOUS
  <2> DEFINE n == Len(jobs)  o == Order
  <2>1. Keys \in Seq(Nat) /\ Len(Keys) = n /\ DOMAIN jobs = 1 .. n
    BY KeysOfQueue
  <2>2. /\ o \in Seq(1 .. Len(Keys)) /\ Len(o) = Len(Keys)
        /\ \A i \in 1 .. Len(Keys) : \E x \in 1 .. Len(o) : o[x] = i
        /\ \A x, y \in 1 .. Len(o) : x < y /\ Keys[o[x]] = Keys[o[y]] => o[x] < o[y]
    BY <2>1, InterleaveIsFair DEF Order
  <2> HIDE DEF n, o
  <2>3. o \in Seq(1 .. n) /\ Len(o) = n /\ \A i \in 1 .. n : \E x \in 1 .. Len(o) : o[x] = i
    BY <2>1, <2>2
  <2>4. DOMAIN o = 1 .. Len(o)
    BY <2>3
  <2>5. ToSet(o) = 1 .. n
    <3> DEFINE Y == 1 .. n
    <3>1. o \in Seq(Y) /\ \A i \in Y : \E x \in DOMAIN o : o[x] = i
      BY <2>3, <2>4
    <3> HIDE DEF Y
    <3>2. \A x \in DOMAIN o : o[x] \in Y
      BY <3>1
    <3>3. ToSet(o) = Y
      BY <3>1, <3>2 DEF ToSet
    <3> QED BY <3>3 DEF Y
  <2>6. \A x, y \in DOMAIN o : x < y /\ Keys[o[x]] = Keys[o[y]] => o[x] < o[y]
    BY <2>2, <2>4
  <2> QED BY <2>1, <2>3, <2>5, <2>6 DEF OrderIsFair, n, o
<1> QED BY <1>1, PlannerInv, PTL

\* Whatever the objects, the constants and the prefix of the order the pool has
\* taken: no object is more than one job ahead of another that has jobs waiting.
THEOREM PlannerOrderSpreads ==
  ASSUME Sizes \subseteq Nat
  PROVE  Spec => []OrderSpreads
<1>1. QueueHoldsPlans => OrderSpreads
  <2> DEFINE Taken(t, n) == Cardinality({x \in 1 .. n : jobs[Order[x]][1] = t})
  <2> SUFFICES ASSUME QueueHoldsPlans, NEW n \in 0 .. Len(Order),
                      NEW t \in DOMAIN targets, NEW u \in DOMAIN targets,
                      Taken(u, n) < Cardinality(Parts(targets[u]) \ done[u])
               PROVE  Taken(t, n) <= Taken(u, n) + 1
    BY DEF OrderSpreads
  <2>1. /\ Keys \in Seq(Nat) /\ Len(Keys) = Len(jobs) /\ Len(jobs) \in Nat
        /\ \A i \in 1 .. Len(jobs) : Keys[i] = jobs[i][1]
    BY KeysOfQueue
  <2>2. /\ Order \in Seq(1 .. Len(Keys)) /\ Len(Order) = Len(Keys)
    BY <2>1, InterleaveIsFair DEF Order
  <2>3. n \in Nat /\ \A x \in 1 .. n : Order[x] \in 1 .. Len(jobs)
    <3> DEFINE Y == 1 .. Len(jobs)
    <3>1. Order \in Seq(Y) /\ Len(Order) = Len(jobs)
      BY <2>1, <2>2
    <3> HIDE DEF Y
    <3>2. \A x \in 1 .. Len(Order) : Order[x] \in Y
      BY <3>1
    <3>3. n \in Nat /\ \A x \in 1 .. n : x \in 1 .. Len(Order)
      BY <2>1, <3>1
    <3> QED BY <3>2, <3>3 DEF Y
  <2>4. ASSUME NEW k PROVE Taken(k, n) = TakenOf(Keys, k, n)
    <3>1. {x \in 1 .. n : jobs[Order[x]][1] = k} = {x \in 1 .. n : Keys[Order[x]] = k}
      BY <2>1, <2>3
    <3> QED BY <3>1 DEF TakenOf, Order
  <2>5. /\ Cardinality(Parts(targets[u]) \ done[u]) \in Nat
        /\ Cardinality(Parts(targets[u]) \ done[u]) <= Len(Group(Keys, u))
    BY PartsAreQueued
  <2>6. Len(Group(Keys, u)) \in Nat
    BY <2>1, GroupIs DEF GroupFacts
  <2>8. Taken(u, n) \in Nat
    <3> DEFINE A == {x \in 1 .. n : jobs[Order[x]][1] = u}
    <3>1. A \in SUBSET (1 .. n) /\ IsFiniteSet(1 .. n)
      BY <2>3, FS_Interval
    <3> HIDE DEF A
    <3>2. IsFiniteSet(A)
      BY <3>1, FS_Subset
    <3>3. Cardinality(A) \in Nat
      BY <3>2, FS_CardinalityType
    <3> QED BY <3>3 DEF A
  <2> HIDE DEF Taken
  <2>9. TakenOf(Keys, u, n) < Len(Group(Keys, u))
    BY <2>4, <2>5, <2>6, <2>8
  <2>10. TakenOf(Keys, t, n) <= TakenOf(Keys, u, n) + 1
    <3>1. n \in 0 .. Len(interleaveByObject(Keys))
      BY DEF Order
    <3> QED BY <2>1, <2>9, <3>1, InterleaveSpreads
  <2> QED BY <2>4, <2>10
<1> QED BY <1>1, PlannerInv, PTL
=============================================================================
