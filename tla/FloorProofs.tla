---------------------------- MODULE FloorProofs ----------------------------
(***************************************************************************)
(* Proofs about Floor, for every window, step, lag, rate and size: who is  *)
(* condemned was slow over a full window, who is dead is condemned in      *)
(* time, and the ceiling leaves the floor to go first.                     *)
(***************************************************************************)
EXTENDS Floor, WellFoundedInduction, TLAPS

Samples == [t : Nat, b : Nat, w : Nat, l : Nat]

latest == hist[Len(hist)]

\* Every counter is a number, and no byte is in two places.
Numbers ==
  /\ op \in {"pull", "push"} /\ knobs \in [rate : RateKnobs, window : WindowKnobs]
  /\ clock \in Nat /\ kept \in Nat /\ pending \in Nat /\ lost \in Nat /\ wasted \in Nat
  /\ due \in Nat /\ due <= clock /\ gained \in Nat /\ gained <= clock
  /\ kept + pending <= Total /\ pending <= Capacity
  /\ verdict \in {"none", "slow", "deadline", "finished"}

\* The samples are in the order of time, and none is of the future.
Ordered ==
  /\ Numbers
  /\ hist \in Seq(Samples) /\ hist # <<>>
  /\ \A i, j \in 1 .. Len(hist) : i < j => hist[i].t < hist[j].t
  /\ latest.t <= clock /\ (due # 0 => latest.t < due)

\* A sample counts no byte that had been lost, nor one that never came; what it
\* counted is counted still, or lost.
Honest ==
  \A i \in 1 .. Len(hist) :
    /\ hist[i].b <= hist[i].w - hist[i].l
    /\ hist[i].b <= Total + wasted /\ hist[i].b <= counted + lost

\* While the watch is on, the last sample is at most a tick and its lag old.
Punctual ==
  FloorOn =>
    /\ due = 0 => clock - (clock % Step) <= latest.t
    /\ due # 0 => due <= latest.t + Step /\ clock - due <= Lag

\* Since a byte was counted: the first sample came in time, none is of fewer
\* bytes than are counted now, and none was a window old at a later one.
Watched ==
  /\ \A i \in 1 .. Len(hist) : hist[i].t > gained => hist[i].b >= counted
  /\ FloorOn /\ Running =>
       /\ latest.t > gained =>
            \E i \in 1 .. Len(hist) : gained < hist[i].t /\ hist[i].t <= gained + Step + Lag
       /\ \A i \in 1 .. Len(hist) : hist[i].t > gained => latest.t - hist[i].t < floorWindow

\* Who has not been condemned kept to the floor, but for the first window; the
\* left edge is the first sample or a window old.
Sustained ==
  FloorOn =>
    /\ hist[1].t = 0 \/ latest.t - hist[1].t >= floorWindow
    /\ verdict # "slow" =>
         \A i \in 1 .. Len(hist) : hist[i].b >= minMBps * (hist[i].t - floorWindow)

Struck == verdict = "deadline" => AutoDeadline(Total) # 0 /\ clock >= AutoDeadline(Total)

FInv == Ordered /\ Honest /\ Punctual /\ Watched /\ Sustained /\ Struck /\ CondemnedWasSlow

-----------------------------------------------------------------------------
(* Arithmetic *)

\* The remainder grows by one, or wraps.
LEMMA ModStep ==
  ASSUME NEW c \in Nat, NEW S \in Nat \ {0}
  PROVE /\ c % S \in Nat /\ c % S < S
        /\ (c + 1) % S # 0 => (c + 1) % S = (c % S) + 1
<1>1. c \div S \in Nat /\ c % S \in Nat /\ c % S < S
  OBVIOUS
<1>2. c % S = c - S * (c \div S)
  BY Z3
<1>5. (c + 1) \div S \in Nat /\ (c + 1) % S \in Nat /\ (c + 1) % S < S
  OBVIOUS
<1>6. (c + 1) % S = (c + 1) - S * ((c + 1) \div S)
  BY Z3
<1> DEFINE q == c \div S
           m == c % S
           p == (c + 1) \div S
           k == (c + 1) % S
<1> HIDE DEF q, m, p, k
<1>3. q \in Nat /\ m \in Nat /\ m < S /\ c = S * q + m /\ p \in Nat /\ k \in Nat /\ k < S /\ c + 1 = S * p + k
  BY <1>1, <1>2, <1>5, <1>6 DEF q, m, p, k
<1>4. ASSUME k # 0 PROVE k = m + 1
  <2>1. CASE p > q
    <3>1. S * p >= S * (q + 1)
      BY <1>3, <2>1
    <3>2. S * (q + 1) = S * q + S
      BY <1>3
    <3> QED BY <1>3, <1>4, <3>1, <3>2
  <2>2. CASE p < q
    <3>1. S * q >= S * (p + 1)
      BY <1>3, <2>2
    <3>2. S * (p + 1) = S * p + S
      BY <1>3
    <3> QED BY <1>3, <1>4, <3>1, <3>2
  <2>3. CASE p = q
    BY <1>3, <2>3
  <2> QED BY <1>3, <2>1, <2>2, <2>3
<1> QED BY <1>1, <1>4 DEF k, m

\* A set of naturals has a least element.
LEMMA Least ==
  ASSUME NEW T \in SUBSET Nat, T # {}
  PROVE  \E x \in T : \A y \in T : x <= y
<1>1. PICK x \in T : \A y \in T : ~ (<<y, x>> \in OpToRel(<, Nat))
  BY NatLessThanWellFounded, WFMin
<1>2. \A y \in T : ~(y < x)
  BY <1>1 DEF OpToRel
<1> QED BY <1>2

\* A set of indices has a greatest one, and Max is it.
LEMMA MaxIs ==
  ASSUME NEW n \in Nat, NEW T \in SUBSET (1 .. n), T # {}
  PROVE  Max(T) \in T /\ \A y \in T : y <= Max(T)
<1> DEFINE U == {n - i : i \in T}
<1>1. \A i \in T : i \in 1 .. n /\ n - i \in Nat /\ n - i \in U
  OBVIOUS
<1>2. U \in SUBSET Nat /\ U # {}
  BY <1>1
<1>3. PICK x \in U : \A y \in U : x <= y
  <2> HIDE DEF U
  <2> QED BY <1>2, Least
<1>4. PICK i \in T : x = n - i
  OBVIOUS
<1>5. \A y \in T : n - i <= n - y
  BY <1>1, <1>3, <1>4
<1>6. \A y \in T : y <= i /\ i >= y
  BY <1>1, <1>5
<1>7. Max(T) \in T /\ \A y \in T : Max(T) >= y
  BY <1>6 DEF Max
<1> QED BY <1>1, <1>7

LEMMA MaxOfTwo ==
  ASSUME NEW a \in Int, NEW b \in Int
  PROVE  Max({a, b}) \in {a, b} /\ Max({a, b}) >= a /\ Max({a, b}) >= b
<1>1. \E x \in {a, b} : \A y \in {a, b} : x >= y
  OBVIOUS
<1> QED BY <1>1 DEF Max

\* Every sample is one.
LEMMA HistFacts ==
  ASSUME Ordered
  PROVE  /\ Len(hist) \in Nat \ {0} /\ latest \in Samples /\ latest.t \in Nat /\ latest.t <= clock
         /\ \A i \in 1 .. Len(hist) :
              /\ hist[i] \in Samples
              /\ hist[i].t \in Nat /\ hist[i].b \in Nat /\ hist[i].w \in Nat /\ hist[i].l \in Nat
              /\ hist[i].t <= clock /\ hist[i].t <= latest.t
<1>1. Len(hist) \in Nat \ {0} /\ Len(hist) \in 1 .. Len(hist) /\ \A i \in 1 .. Len(hist) : hist[i] \in Samples
  BY DEF Ordered
<1>2. latest \in Samples /\ latest.t <= clock /\ \A i \in 1 .. Len(hist) : i # Len(hist) => hist[i].t < latest.t
  BY <1>1 DEF Ordered, latest
<1>3. \A x \in Samples : x.t \in Nat /\ x.b \in Nat /\ x.w \in Nat /\ x.l \in Nat
  BY DEF Samples
<1>4. \A i \in 1 .. Len(hist) : hist[i].t <= latest.t
  BY <1>1, <1>2, <1>3 DEF latest
<1>5. clock \in Nat
  BY DEF Ordered, Numbers
<1> QED BY <1>1, <1>2, <1>3, <1>4, <1>5

LEMMA NatSum == \A a, b, c \in Nat : a + b + c \in Nat
OBVIOUS

LEMMA TimesPositive ==
  ASSUME NEW a \in Nat \ {0}, NEW b \in Nat \ {0}
  PROVE  a * b >= 1
OBVIOUS

\* What a guard reads of its knobs is a number.
LEMMA KnobFacts ==
  ASSUME Ordered
  PROVE  minMBps \in Int /\ floorWindow \in Nat
<1>1. knobs.rate \in RateKnobs /\ knobs.window \in WindowKnobs
  BY DEF Ordered, Numbers
<1>2. EnvFloat(knobs.rate, defaultRate) \in Int /\ EnvFloat(knobs.window, defaultWindow) \in Int
  BY <1>1, FloorAssumption DEF EnvFloat
<1> QED BY <1>2, FloorAssumption DEF minMBps, floorWindow, EnvSeconds

\* The ceiling is the time at the floor rate, and the slack, at the least.
LEMMA CeilingFacts ==
  ASSUME Ordered, minMBps > 0
  PROVE  /\ Total \div minMBps \in Nat /\ minMBps * (Total \div minMBps + 1) > Total
         /\ AutoDeadline(Total) \in Int /\ AutoDeadline(Total) >= Total \div minMBps + slack
<1> DEFINE r == minMBps
<1>1. r \in Nat \ {0} /\ Total \in Nat /\ slack \in Nat /\ minDeadline \in Nat
  BY KnobFacts, FloorAssumption
<1> HIDE DEF r
<1>2. Total \div r \in Nat /\ r * (Total \div r + 1) > Total
  BY <1>1
<1> DEFINE need == Total \div r + slack
<1>3. need \in Int /\ minDeadline \in Int
  BY <1>1, <1>2
<1> HIDE DEF need
<1>4. Max({need, minDeadline}) \in Int /\ Max({need, minDeadline}) >= need
  BY <1>3, MaxOfTwo
<1>5. AutoDeadline(Total) = Max({need, minDeadline})
  BY <1>1 DEF AutoDeadline, need, r
<1> QED BY <1>2, <1>4, <1>5 DEF r, need

-----------------------------------------------------------------------------
(* A sample *)

\* The history after a sample is the old one and the new sample, cut at the
\* newest that is a window old, if there is one.
LEMMA SampleCuts ==
  ASSUME Ordered, Sample
  PROVE  /\ Sampled \in Seq(Samples) /\ Len(Sampled) = Len(hist) + 1 /\ Len(hist) \in Nat \ {0}
         /\ \A i \in 1 .. Len(hist) : Sampled[i] = hist[i]
         /\ Sampled[Len(hist) + 1] = [t |-> clock, b |-> counted, w |-> wire, l |-> lost]
         /\ \E m \in 1 .. Len(hist) + 1 :
              /\ hist' \in Seq(Samples) /\ Len(hist') = Len(hist) + 2 - m
              /\ \A i \in 1 .. Len(hist') : hist'[i] = Sampled[i + m - 1]
              /\ \A i \in 1 .. Len(hist) + 1 : clock - Sampled[i].t >= floorWindow => i <= m
              /\ m = 1 \/ clock - Sampled[m].t >= floorWindow
<1> DEFINE new == [t |-> clock, b |-> counted, w |-> wire, l |-> lost]
           h == Sampled
           n == Len(hist)
           old == {i \in DOMAIN h : clock - h[i].t >= floorWindow}
<1>1. new \in Samples /\ hist \in Seq(Samples) /\ n \in Nat \ {0}
  BY DEF Ordered, Numbers, Samples, counted, wire
<1>2. h = Append(hist, new)
  BY DEF Sampled
<1> HIDE DEF new
<1>3. /\ h \in Seq(Samples) /\ Len(h) = n + 1 /\ h[n + 1] = new /\ DOMAIN h = 1 .. n + 1
      /\ \A i \in 1 .. n : h[i] = hist[i]
  BY <1>1, <1>2
<1>4. hist' = IF old = {} THEN h ELSE SubSeq(h, Max(old), Len(h))
  BY DEF Sample, Cut
<1> HIDE DEF h
<1>5. CASE old = {}
  <2>1. hist' = h /\ \A i \in 1 .. n + 1 : ~(clock - h[i].t >= floorWindow)
    BY <1>3, <1>4, <1>5
  <2>2. Len(hist') = n + 2 - 1 /\ \A i \in 1 .. Len(hist') : hist'[i] = h[i + 1 - 1]
    BY <1>1, <1>3, <2>1
  <2>3. 1 \in 1 .. n + 1
    BY <1>1
  <2> QED BY <1>1, <1>3, <2>1, <2>2, <2>3 DEF new, h
<1>6. CASE old # {}
  <2> DEFINE m == Max(old)
  <2>1. n + 1 \in Nat /\ old \in SUBSET (1 .. n + 1)
    BY <1>1, <1>3
  <2> HIDE DEF old
  <2>2. m \in old /\ \A y \in old : y <= m
    BY <1>6, <2>1, MaxIs
  <2> HIDE DEF m
  <2>3. m \in 1 .. n + 1
    BY <2>1, <2>2
  <2>4. hist' = SubSeq(h, m, n + 1)
    BY <1>3, <1>4, <1>6 DEF m
  <2>5. /\ hist' \in Seq(Samples) /\ Len(hist') = n + 2 - m
        /\ \A i \in 1 .. Len(hist') : hist'[i] = h[i + m - 1]
    BY <1>1, <1>3, <2>3, <2>4
  <2>6. /\ \A i \in 1 .. n + 1 : clock - h[i].t >= floorWindow => i <= m
        /\ clock - h[m].t >= floorWindow
    BY <1>3, <2>2 DEF old
  <2> QED BY <1>1, <1>3, <2>3, <2>5, <2>6 DEF new, h
<1> QED BY <1>5, <1>6

-----------------------------------------------------------------------------
(* The steps that take no sample *)

Same == UNCHANGED <<op, knobs, hist>>

\* Everything but a sample.
Passes == \/ \E k \in Gains : Pass(k)
          \/ PartsLand \/ AttemptBreaks \/ ComesUpShort \/ CeilingStrikes \/ Finishes
          \/ UNCHANGED vars

LEMMA SameKnobs ==
  ASSUME UNCHANGED <<op, knobs>>
  PROVE  minMBps' = minMBps /\ floorWindow' = floorWindow /\ FloorOn' = FloorOn
         /\ AutoDeadline(Total)' = AutoDeadline(Total)
BY DEF minMBps, floorWindow, FloorOn, AutoDeadline, EnvSeconds, EnvFloat

LEMMA PassesOrdered ==
  ASSUME Ordered, Passes
  PROVE  Ordered' /\ Same /\ latest' = latest
<1>1. Same
  BY DEF Passes, Same, vars, bytes, watch, Pass, PartsLand, AttemptBreaks, ComesUpShort, CeilingStrikes, Finishes
<1>2. latest' = latest /\ latest.t \in Nat /\ latest.t <= clock
  BY <1>1, HistFacts DEF Same, latest
<1>3. Numbers'
  <2>1. CASE \E k \in Gains : Pass(k)
    <3>1. PICK k \in Gains : Pass(k)
      BY <2>1
    <3>2. k \in Nat
      BY FloorAssumption
    <3> QED BY <1>1, <3>1, <3>2 DEF Ordered, Numbers, Same, Pass, Running
  <2>2. CASE PartsLand \/ AttemptBreaks \/ ComesUpShort
    <3>1. /\ UNCHANGED <<clock, due>> /\ pending' = 0 /\ gained' \in {gained, clock} /\ verdict' = verdict
          /\ kept' = kept + pending \/ kept' = kept
          /\ lost' = lost + pending \/ lost' = lost
          /\ wasted' = wasted + pending \/ wasted' = wasted
      BY <2>2 DEF watch, PartsLand, AttemptBreaks, ComesUpShort
    <3>2. Numbers /\ Capacity \in Nat /\ Total \in Nat
      BY FloorAssumption DEF Ordered
    <3> QED BY <1>1, <3>1, <3>2 DEF Numbers, Same
  <2>3. CASE CeilingStrikes \/ Finishes \/ UNCHANGED vars
    BY <1>1, <2>3 DEF Ordered, Numbers, Same, vars, bytes, watch, CeilingStrikes, Finishes
  <2> QED BY <2>1, <2>2, <2>3 DEF Passes
<1>4. clock' >= clock /\ (due' = due \/ due' = clock + 1) /\ clock \in Nat /\ clock' \in Nat
  <2>1. clock \in Nat /\ clock' \in Nat
    BY <1>3 DEF Ordered, Numbers
  <2>2. CASE \E k \in Gains : Pass(k)
    <3>1. clock' = clock + 1 /\ (due' = due \/ due' = clock')
      BY <2>2 DEF Pass
    <3> QED BY <2>1, <3>1
  <2>3. CASE UNCHANGED <<clock, due>>
    BY <2>1, <2>3
  <2> QED BY <2>1, <2>2, <2>3
       DEF Passes, vars, watch, PartsLand, AttemptBreaks, ComesUpShort, CeilingStrikes, Finishes
<1>5. latest'.t <= clock' /\ (due' # 0 => latest'.t < due')
  BY <1>2, <1>4 DEF Ordered
<1> QED BY <1>1, <1>2, <1>3, <1>5 DEF Ordered, Same

\* Where the bytes under way may go: the bytes kept, under way, lost and wasted,
\* before and after.
Moves(k, p, l, w, k1, p1, l1, w1) ==
  \/ k1 = k /\ p1 >= p /\ l1 = l /\ w1 = w
  \/ k1 = k + p /\ p1 = 0 /\ l1 = l /\ w1 = w
  \/ k1 = k /\ p1 = 0 /\ l1 = l + p /\ w1 = w
  \/ k1 = k /\ p1 = 0 /\ l1 = l /\ w1 = w + p

\* A byte that is no longer counted is lost.
LEMMA NoByteVanishes ==
  ASSUME Ordered, Passes
  PROVE  counted + lost \in Nat /\ counted' + lost' \in Nat /\ counted' + lost' >= counted + lost
<1>1. /\ kept \in Nat /\ pending \in Nat /\ lost \in Nat /\ wasted \in Nat /\ op \in {"pull", "push"}
      /\ kept' \in Nat /\ pending' \in Nat /\ lost' \in Nat /\ wasted' \in Nat /\ op' = op
  BY PassesOrdered DEF Ordered, Numbers, Same
<1>2. Moves(kept, pending, lost, wasted, kept', pending', lost', wasted')
  <2>1. ASSUME NEW k \in Gains, Pass(k) PROVE Moves(kept, pending, lost, wasted, kept', pending', lost', wasted')
    <3>1. k \in Nat
      BY FloorAssumption
    <3> QED BY <1>1, <2>1, <3>1 DEF Pass, Moves
  <2>2. CASE PartsLand \/ AttemptBreaks \/ ComesUpShort
    BY <2>2 DEF PartsLand, AttemptBreaks, ComesUpShort, Moves
  <2>3. CASE CeilingStrikes \/ Finishes \/ UNCHANGED vars
    BY <1>1, <2>3 DEF CeilingStrikes, Finishes, vars, bytes, Moves
  <2> QED BY <2>1, <2>2, <2>3 DEF Passes
<1>3. /\ kept' + wasted' + pending' + lost' >= kept + wasted + pending + lost
      /\ kept' + wasted' + lost' >= kept + wasted + lost
      /\ kept + wasted + pending + lost \in Nat /\ kept' + wasted' + pending' + lost' \in Nat
      /\ kept + wasted + lost \in Nat /\ kept' + wasted' + lost' \in Nat
  <2>1. /\ kept \in Nat /\ pending \in Nat /\ lost \in Nat /\ wasted \in Nat
        /\ kept' \in Nat /\ pending' \in Nat /\ lost' \in Nat /\ wasted' \in Nat
    BY <1>1
  <2>2. PICK k1 \in Nat, p1 \in Nat, l1 \in Nat, w1 \in Nat : k1 = kept' /\ p1 = pending' /\ l1 = lost' /\ w1 = wasted'
    BY <2>1
  <2>3. Moves(kept, pending, lost, wasted, k1, p1, l1, w1)
    BY <1>2, <2>2
  <2>4. /\ k1 + w1 + p1 + l1 >= kept + wasted + pending + lost /\ k1 + w1 + l1 >= kept + wasted + lost
        /\ kept + wasted + pending + lost \in Nat /\ k1 + w1 + p1 + l1 \in Nat
        /\ kept + wasted + lost \in Nat /\ k1 + w1 + l1 \in Nat
    BY <2>1, <2>3 DEF Moves
  <2> QED BY <2>2, <2>4
<1>4. CASE op = "pull"
  <2>1. counted = kept + wasted + pending /\ counted' = kept' + wasted' + pending'
    BY <1>1, <1>4 DEF counted
  <2> QED BY <1>3, <2>1
<1>5. CASE op # "pull"
  <2>1. counted = kept + wasted + 0 /\ counted' = kept' + wasted' + 0
    BY <1>1, <1>5 DEF counted
  <2>2. kept + wasted + 0 = kept + wasted /\ kept' + wasted' + 0 = kept' + wasted'
    BY <1>1
  <2> QED BY <1>3, <2>1, <2>2
<1> QED BY <1>4, <1>5

\* No byte is unlost or unwasted.
LEMMA PassesHonest ==
  ASSUME Ordered, Honest, Passes
  PROVE  Honest'
<1>1. Same /\ wasted' >= wasted /\ wasted' \in Nat /\ wasted \in Nat
  <2>1. Ordered' /\ Same
    BY PassesOrdered
  <2>2. wasted' = wasted \/ wasted' = wasted + pending
    BY DEF Passes, vars, bytes, Pass, PartsLand, AttemptBreaks, ComesUpShort, CeilingStrikes, Finishes
  <2> QED BY <2>1, <2>2 DEF Ordered, Numbers
<1>2. \A i \in 1 .. Len(hist) : hist[i].b \in Nat
  BY HistFacts
<1>3. Total \in Nat
  BY FloorAssumption
<1> DEFINE x == counted + lost
           y == counted' + lost'
<1>4. x \in Nat /\ y \in Nat /\ y >= x
  BY NoByteVanishes
<1>5. \A i \in 1 .. Len(hist) : hist[i].b <= x
  BY DEF Honest
<1>6. SUFFICES ASSUME NEW i \in 1 .. Len(hist)
               PROVE  hist[i].b <= hist[i].w - hist[i].l /\ hist[i].b <= Total + wasted' /\ hist[i].b <= y
  BY <1>1 DEF Honest, Same
<1> HIDE DEF x, y
<1> QED BY <1>1, <1>2, <1>3, <1>4, <1>5 DEF Honest

\* The ticker keeps its beat.
LEMMA PassesPunctual ==
  ASSUME Ordered, Punctual, Passes
  PROVE  Punctual'
<1>1. Ordered' /\ Same /\ latest' = latest /\ latest.t \in Nat /\ Step \in Nat \ {0} /\ Lag \in Nat /\ clock \in Nat
  BY PassesOrdered, HistFacts, FloorAssumption DEF Ordered, Numbers
<1>2. FloorOn' = FloorOn
  BY <1>1, SameKnobs DEF Same
<1>3. ASSUME NEW k \in Gains, Pass(k), FloorOn PROVE Punctual'
  <2>1. /\ clock % Step \in Nat /\ clock % Step < Step
        /\ (clock + 1) % Step # 0 => (clock + 1) % Step = (clock % Step) + 1
    BY <1>1, ModStep
  <2>2. /\ clock' = clock + 1 /\ (due # 0 => clock - due < Lag)
        /\ due' = IF due = 0 /\ (clock + 1) % Step = 0 THEN clock + 1 ELSE due
    BY <1>3 DEF Pass
  <2> DEFINE m == clock % Step
             k1 == (clock + 1) % Step
  <2>3. /\ due = 0 => clock - m <= latest.t
        /\ due # 0 => due <= latest.t + Step /\ clock - due <= Lag
    BY <1>3 DEF Punctual
  <2>4. due \in Nat
    BY DEF Ordered, Numbers
  <2> HIDE DEF m, k1
  <2>5. m \in Nat /\ m < Step /\ (k1 # 0 => k1 = m + 1)
        /\ due' = IF due = 0 /\ k1 = 0 THEN clock + 1 ELSE due
    BY <2>1, <2>2 DEF m, k1
  <2>6. /\ due' = 0 => clock' - k1 <= latest.t
        /\ due' # 0 => due' <= latest.t + Step /\ clock' - due' <= Lag
    BY <1>1, <2>2, <2>3, <2>4, <2>5
  <2>7. clock' % Step = k1
    BY <2>2 DEF k1
  <2> QED BY <1>1, <2>6, <2>7 DEF Punctual
<1>4. CASE UNCHANGED <<clock, due>>
  BY <1>1, <1>2, <1>4 DEF Punctual
<1>5. CASE ~FloorOn
  BY <1>2, <1>5 DEF Punctual
<1> QED BY <1>3, <1>4, <1>5
     DEF Passes, vars, watch, PartsLand, AttemptBreaks, ComesUpShort, CeilingStrikes, Finishes

\* A byte counted makes every sample one of before; none that is lost is
\* counted any more.
LEMMA PassesWatched ==
  ASSUME Ordered, Watched, Passes
  PROVE  Watched'
<1>1. Ordered' /\ Same /\ latest' = latest
  BY PassesOrdered
<1>2. \A i \in 1 .. Len(hist) : hist[i] \in Samples /\ hist[i].t \in Nat /\ hist[i].b \in Nat /\ hist[i].t <= clock
  BY HistFacts
<1>3. (gained' = gained /\ counted' <= counted) \/ gained' >= clock
  <2>1. CASE \E k \in Gains : Pass(k)
    <3>1. PICK k \in Gains : Pass(k)
      BY <2>1
    <3>2. k \in Nat
      BY FloorAssumption
    <3> QED BY <3>1, <3>2 DEF Pass, counted, Ordered, Numbers
  <2>2. CASE ~\E k \in Gains : Pass(k)
    BY <2>2 DEF Passes, PartsLand, AttemptBreaks, ComesUpShort, CeilingStrikes, Finishes, vars, bytes, counted, Ordered, Numbers
  <2> QED BY <2>1, <2>2
<1>4. counted \in Nat /\ counted' \in Nat /\ gained \in Nat /\ gained' \in Nat /\ clock \in Nat
  <2>1. /\ kept \in Nat /\ wasted \in Nat /\ pending \in Nat
        /\ kept' \in Nat /\ wasted' \in Nat /\ pending' \in Nat
    BY <1>1 DEF Ordered, Numbers
  <2>2. counted \in Nat /\ counted' \in Nat
    BY <2>1, NatSum DEF counted
  <2> QED BY <1>1, <2>2 DEF Ordered, Numbers
<1>5. FloorOn' = FloorOn /\ floorWindow' = floorWindow /\ (Running' => Running)
  BY <1>1, SameKnobs DEF Same, Passes, Running, vars, Pass, PartsLand, AttemptBreaks, ComesUpShort, CeilingStrikes, Finishes
<1>6. CASE gained' = gained /\ counted' <= counted
  BY <1>1, <1>2, <1>4, <1>5, <1>6 DEF Watched, Same
<1>7. CASE gained' >= clock
  <2>1. \A i \in 1 .. Len(hist) : ~(hist[i].t > gained')
    BY <1>2, <1>4, <1>7
  <2>2. ~(latest.t > gained')
    BY <2>1, HistFacts DEF latest
  <2> QED BY <1>1, <2>1, <2>2 DEF Watched, Same
<1> QED BY <1>3, <1>6, <1>7

\* Nobody is condemned between two samples, and who is struck has met the
\* ceiling.
LEMMA PassesRest ==
  ASSUME Ordered, Sustained, Struck, CondemnedWasSlow, Passes
  PROVE  Sustained' /\ Struck' /\ CondemnedWasSlow'
<1>1. Same /\ latest' = latest /\ hist' = hist
  BY PassesOrdered DEF Same
<1>2. FloorOn' = FloorOn /\ floorWindow' = floorWindow /\ minMBps' = minMBps
      /\ AutoDeadline(Total)' = AutoDeadline(Total)
  BY <1>1, SameKnobs DEF Same
<1>3. verdict' = "slow" => UNCHANGED vars
  BY DEF Passes, Pass, PartsLand, AttemptBreaks, ComesUpShort, CeilingStrikes, Finishes, Running
<1>4. verdict = "slow" => UNCHANGED vars
  BY DEF Passes, Pass, PartsLand, AttemptBreaks, ComesUpShort, CeilingStrikes, Finishes, Running
<1>5. Sustained'
  <2>1. verdict' # "slow" => verdict # "slow"
    BY <1>4 DEF vars
  <2> QED BY <1>1, <1>2, <2>1 DEF Sustained
<1>6. Struck'
  <2>1. CASE CeilingStrikes
    BY <1>2, <2>1 DEF Struck, CeilingStrikes
  <2>2. CASE ~CeilingStrikes
    <3>1. verdict' = "deadline" => verdict = "deadline" /\ clock' = clock
      BY <2>2 DEF Passes, Pass, PartsLand, AttemptBreaks, ComesUpShort, Finishes, Running, vars
    <3> QED BY <1>2, <3>1 DEF Struck
  <2> QED BY <2>1, <2>2
<1>7. CondemnedWasSlow'
  <2>1. CASE UNCHANGED vars
    <3>1. /\ verdict' = verdict /\ clock' = clock /\ op' = op /\ lost' = lost /\ wire' = wire
      BY <2>1 DEF vars, bytes, wire
    <3> QED BY <1>1, <1>2, <3>1 DEF CondemnedWasSlow
  <2>2. CASE verdict' # "slow"
    BY <2>2 DEF CondemnedWasSlow
  <2> QED BY <1>3, <2>1, <2>2
<1> QED BY <1>5, <1>6, <1>7

-----------------------------------------------------------------------------
(* The samples *)

\* What is left is the samples from the m-th.
CutAt(m) ==
  /\ hist' \in Seq(Samples) /\ Len(hist') = Len(hist) + 2 - m
  /\ hist'[1] = Sampled[m] /\ latest' = Sampled[Len(hist) + 1]
  /\ \A i \in 1 .. Len(hist') : i + m - 1 \in m .. Len(hist) + 1 /\ hist'[i] = Sampled[i + m - 1]
  /\ \A i \in m .. Len(hist) + 1 : i - m + 1 \in 1 .. Len(hist') /\ hist'[i - m + 1] = Sampled[i]
  /\ \A i \in 1 .. Len(hist) + 1 : clock - Sampled[i].t >= floorWindow => i <= m
  /\ m = 1 \/ clock - Sampled[m].t >= floorWindow

\* What a sample leaves: the samples from the m-th, and itself.
LEMMA Sampling ==
  ASSUME Ordered, Sample
  PROVE  /\ UNCHANGED <<op, knobs, clock, kept, pending, lost, wasted, gained>> /\ due' = 0 /\ due # 0
         /\ Running /\ counted' = counted /\ wire' = wire
         /\ Len(hist) \in Nat \ {0} /\ clock \in Nat /\ counted \in Nat
         /\ Sampled[Len(hist) + 1] = [t |-> clock, b |-> counted, w |-> wire, l |-> lost]
         /\ \A i \in 1 .. Len(hist) : Sampled[i] = hist[i] /\ Sampled[i].t < clock
         /\ \A i, j \in 1 .. Len(hist) + 1 : i < j => Sampled[i].t < Sampled[j].t
         /\ \A i \in 1 .. Len(hist) + 1 : Sampled[i].t \in Nat /\ Sampled[i].b \in Nat
         /\ \E m \in 1 .. Len(hist) + 1 : CutAt(m)
<1> DEFINE n == Len(hist)
           h == Sampled
<1>1. /\ op' = op /\ knobs' = knobs /\ clock' = clock /\ kept' = kept /\ pending' = pending
      /\ lost' = lost /\ wasted' = wasted /\ gained' = gained /\ due' = 0 /\ due # 0 /\ Running
  BY DEF Sample, bytes
<1>2. counted' = counted /\ wire' = wire
  BY <1>1 DEF counted, wire
<1>3. clock \in Nat /\ due \in Nat /\ due <= clock /\ latest.t < due
  BY <1>1 DEF Ordered, Numbers
<1>4. counted \in Nat
  BY NatSum DEF counted, Ordered, Numbers
<1>5. /\ n \in Nat \ {0} /\ latest.t \in Nat
      /\ \A i \in 1 .. n : hist[i].t \in Nat /\ hist[i].b \in Nat /\ hist[i].t <= latest.t
  BY HistFacts
<1>6. /\ h[n + 1] = [t |-> clock, b |-> counted, w |-> wire, l |-> lost]
      /\ \A i \in 1 .. n : h[i] = hist[i]
      /\ \E m \in 1 .. n + 1 :
           /\ hist' \in Seq(Samples) /\ Len(hist') = n + 2 - m
           /\ \A i \in 1 .. Len(hist') : hist'[i] = h[i + m - 1]
           /\ \A i \in 1 .. n + 1 : clock - h[i].t >= floorWindow => i <= m
           /\ m = 1 \/ clock - h[m].t >= floorWindow
  BY SampleCuts
<1>7. PICK m \in 1 .. n + 1 :
           /\ hist' \in Seq(Samples) /\ Len(hist') = n + 2 - m
           /\ \A i \in 1 .. Len(hist') : hist'[i] = h[i + m - 1]
           /\ \A i \in 1 .. n + 1 : clock - h[i].t >= floorWindow => i <= m
           /\ m = 1 \/ clock - h[m].t >= floorWindow
  BY <1>6
<1> HIDE DEF h
<1>8. \A i \in 1 .. n : h[i] = hist[i] /\ h[i].t < clock
  <2>1. latest.t < clock
    BY <1>3, <1>5
  <2>2. \A i \in 1 .. n : hist[i].t < clock
    BY <1>3, <1>5, <2>1
  <2> QED BY <1>6, <2>2
<1>9. \A i \in 1 .. n + 1 : h[i].t \in Nat /\ h[i].b \in Nat
  <2>1. SUFFICES ASSUME NEW i \in 1 .. n + 1 PROVE h[i].t \in Nat /\ h[i].b \in Nat
    OBVIOUS
  <2>2. CASE i = n + 1
    BY <1>3, <1>4, <1>6, <2>2
  <2>3. CASE i # n + 1
    <3>1. i \in 1 .. n
      BY <1>5, <2>3
    <3> QED BY <1>5, <1>6, <3>1
  <2> QED BY <2>2, <2>3
<1>10. \A i, j \in 1 .. n + 1 : i < j => h[i].t < h[j].t
  <2>1. SUFFICES ASSUME NEW i \in 1 .. n + 1, NEW j \in 1 .. n + 1, i < j PROVE h[i].t < h[j].t
    OBVIOUS
  <2>2. i \in 1 .. n
    BY <1>5, <2>1
  <2>3. CASE j = n + 1
    BY <1>6, <1>8, <2>2, <2>3
  <2>4. CASE j # n + 1
    <3>1. j \in 1 .. n
      BY <1>5, <2>4
    <3> QED BY <1>6, <2>1, <2>2, <3>1 DEF Ordered
  <2> QED BY <2>3, <2>4
<1>11. \A i \in 1 .. Len(hist') : i + m - 1 \in m .. n + 1 /\ hist'[i] = h[i + m - 1]
  BY <1>5, <1>7
<1>12. \A i \in m .. n + 1 : i - m + 1 \in 1 .. Len(hist') /\ hist'[i - m + 1] = h[i]
  <2>1. SUFFICES ASSUME NEW i \in m .. n + 1
                 PROVE  i - m + 1 \in 1 .. Len(hist') /\ hist'[i - m + 1] = h[i]
    OBVIOUS
  <2>2. i - m + 1 \in 1 .. Len(hist') /\ (i - m + 1) + m - 1 = i
    BY <1>5, <1>7
  <2> QED BY <1>7, <2>2
<1>13. hist'[1] = h[m] /\ latest' = h[n + 1]
  <2>1. 1 \in 1 .. Len(hist') /\ 1 + m - 1 = m /\ Len(hist') \in 1 .. Len(hist') /\ Len(hist') + m - 1 = n + 1
    BY <1>5, <1>7
  <2>2. hist'[1] = h[1 + m - 1] /\ hist'[Len(hist')] = h[Len(hist') + m - 1]
    BY <1>7, <2>1
  <2> QED BY <2>1, <2>2 DEF latest
<1> QED BY <1>1, <1>2, <1>3, <1>4, <1>5, <1>6, <1>7, <1>8, <1>9, <1>10, <1>11, <1>12, <1>13 DEF h, CutAt

LEMMA SampleOrdered ==
  ASSUME Ordered, Sample
  PROVE  Ordered'
<1> DEFINE n == Len(hist)
           h == Sampled
<1>1. PICK m \in 1 .. n + 1 : CutAt(m)
  BY Sampling
<1>2. /\ UNCHANGED <<op, knobs, clock, kept, pending, lost, wasted, gained>> /\ due' = 0
      /\ n \in Nat \ {0} /\ clock \in Nat /\ h[n + 1].t = clock
      /\ \A i, j \in 1 .. n + 1 : i < j => h[i].t < h[j].t
  BY Sampling
<1>3. verdict' \in {"slow", "none"}
  BY DEF Sample
<1>4. Numbers'
  BY <1>2, <1>3 DEF Ordered, Numbers
<1> HIDE DEF h
<1>5. hist' \in Seq(Samples) /\ Len(hist') = n + 2 - m /\ latest' = h[n + 1]
  BY <1>1 DEF CutAt, h
<1>6. hist' # <<>>
  BY <1>2, <1>5
<1>7. \A i, j \in 1 .. Len(hist') : i < j => hist'[i].t < hist'[j].t
  <2>1. SUFFICES ASSUME NEW i \in 1 .. Len(hist'), NEW j \in 1 .. Len(hist'), i < j
                 PROVE  hist'[i].t < hist'[j].t
    OBVIOUS
  <2>2. /\ i + m - 1 \in m .. n + 1 /\ hist'[i] = h[i + m - 1]
        /\ j + m - 1 \in m .. n + 1 /\ hist'[j] = h[j + m - 1]
    BY <1>1 DEF CutAt, h
  <2> DEFINE x == i + m - 1
             y == j + m - 1
  <2>3. x < y /\ n \in Nat
    BY <1>2, <2>1
  <2>4. x \in m .. n + 1 /\ hist'[i] = h[x] /\ y \in m .. n + 1 /\ hist'[j] = h[y]
    BY <2>2
  <2> HIDE DEF x, y
  <2>5. x \in 1 .. n + 1 /\ y \in 1 .. n + 1
    BY <2>3, <2>4
  <2> QED BY <1>2, <2>3, <2>4, <2>5
<1>8. latest'.t <= clock' /\ ~(due' # 0)
  BY <1>2, <1>5
<1> QED BY <1>4, <1>5, <1>6, <1>7, <1>8 DEF Ordered

\* What a sample counts has come, and is not lost.
LEMMA SampleHonest ==
  ASSUME Ordered, Honest, Sample
  PROVE  Honest'
<1> DEFINE n == Len(hist)
           h == Sampled
<1>1. PICK m \in 1 .. n + 1 : CutAt(m)
  BY Sampling
<1>2. /\ wasted' = wasted /\ counted' = counted /\ lost' = lost /\ n \in Nat \ {0}
      /\ h[n + 1] = [t |-> clock, b |-> counted, w |-> wire, l |-> lost]
      /\ \A i \in 1 .. n : h[i] = hist[i]
  BY Sampling
<1>3. counted <= wire - lost /\ counted <= Total + wasted /\ counted <= counted + lost
  <2>1. /\ kept \in Nat /\ pending \in Nat /\ lost \in Nat /\ wasted \in Nat
        /\ kept + pending <= Total /\ Total \in Nat
    BY FloorAssumption DEF Ordered, Numbers
  <2> QED BY <2>1 DEF counted, wire
<1> HIDE DEF h
<1>4. \A i \in 1 .. n + 1 : h[i].b <= h[i].w - h[i].l /\ h[i].b <= Total + wasted /\ h[i].b <= counted + lost
  <2>1. SUFFICES ASSUME NEW i \in 1 .. n + 1
                 PROVE  h[i].b <= h[i].w - h[i].l /\ h[i].b <= Total + wasted /\ h[i].b <= counted + lost
    OBVIOUS
  <2>2. CASE i = n + 1
    BY <1>2, <1>3, <2>2
  <2>3. CASE i # n + 1
    <3>1. i \in 1 .. n
      BY <1>2, <2>3
    <3> QED BY <1>2, <3>1 DEF Honest
  <2> QED BY <2>2, <2>3
<1>5. \A i \in 1 .. Len(hist') : i + m - 1 \in 1 .. n + 1 /\ hist'[i] = h[i + m - 1]
  BY <1>1, <1>2 DEF CutAt, h
<1> QED BY <1>2, <1>4, <1>5 DEF Honest

LEMMA SamplePunctual ==
  ASSUME Ordered, Sample
  PROVE  Punctual'
<1>1. clock' = clock /\ due' = 0 /\ clock \in Nat /\ latest'.t = clock
  BY Sampling DEF CutAt
<1>2. clock % Step \in Nat
  BY <1>1, ModStep, FloorAssumption
<1> QED BY <1>1, <1>2 DEF Punctual

\* Who is not condemned has counted a byte since the left edge of a full window.
LEMMA NotCondemned ==
  ASSUME Ordered, Watched, FloorOn, Sample, verdict' # "slow"
  PROVE  hist'[1].t > gained => clock - hist'[1].t < floorWindow
<1> DEFINE n == Len(hist)
           h == Sampled
<1>1. PICK m \in 1 .. n + 1 : CutAt(m)
  BY Sampling
<1>2. /\ n \in Nat \ {0} /\ clock \in Nat /\ counted \in Nat /\ h[n + 1].t = clock
      /\ \A i \in 1 .. n : h[i] = hist[i]
      /\ \A i \in 1 .. n + 1 : h[i].t \in Nat /\ h[i].b \in Nat
  BY Sampling
<1>3. minMBps \in Nat \ {0} /\ floorWindow \in Nat \ {0}
  BY KnobFacts DEF FloorOn
<1> HIDE DEF h
<1>4. hist'[1] = h[m]
  BY <1>1 DEF CutAt, h
<1>5. SUFFICES ASSUME h[m].t > gained, clock - h[m].t >= floorWindow PROVE FALSE
  BY <1>2, <1>3, <1>4
<1> DEFINE span == clock - h[m].t
<1>6. span \in Nat \ {0} /\ m \in 1 .. n
  BY <1>2, <1>3, <1>5
<1>7. h[m].b >= counted
  BY <1>2, <1>5, <1>6 DEF Watched
<1>8. minMBps * span >= 1 /\ minMBps * span \in Int
  BY <1>3, <1>6, TimesPositive
<1>9. verdict' = IF span >= floorWindow /\ counted - h[m].b < minMBps * span THEN "slow" ELSE "none"
  BY <1>4 DEF Sample
<1>10. counted - h[m].b <= 0 /\ counted - h[m].b \in Int
  BY <1>2, <1>7
<1> HIDE DEF span
<1>11. counted - h[m].b < minMBps * span
  BY <1>8, <1>10
<1> QED BY <1>5, <1>9, <1>11 DEF span

LEMMA SampleWatched ==
  ASSUME Ordered, Punctual, Watched, Sample
  PROVE  Watched'
<1> DEFINE n == Len(hist)
           h == Sampled
<1>1. PICK m \in 1 .. n + 1 : CutAt(m)
  BY Sampling
<1>2. /\ UNCHANGED <<op, knobs, clock, gained>> /\ due # 0 /\ Running /\ counted' = counted
      /\ n \in Nat \ {0} /\ clock \in Nat /\ counted \in Nat
      /\ h[n + 1].t = clock /\ h[n + 1].b = counted
      /\ \A i \in 1 .. n : h[i] = hist[i] /\ h[i].t < clock
      /\ \A i, j \in 1 .. n + 1 : i < j => h[i].t < h[j].t
      /\ \A i \in 1 .. n + 1 : h[i].t \in Nat /\ h[i].b \in Nat
  BY Sampling
<1>3. FloorOn' = FloorOn /\ floorWindow' = floorWindow
  BY <1>2, SameKnobs
<1>4. gained \in Nat /\ due \in Nat /\ floorWindow \in Nat /\ Step \in Nat /\ Lag \in Nat
  BY KnobFacts, FloorAssumption DEF Ordered, Numbers
<1> HIDE DEF h
<1>5. /\ Len(hist') = n + 2 - m /\ hist'[1] = h[m] /\ latest' = h[n + 1]
      /\ \A i \in 1 .. Len(hist') : i + m - 1 \in m .. n + 1 /\ hist'[i] = h[i + m - 1]
      /\ \A i \in m .. n + 1 : i - m + 1 \in 1 .. Len(hist') /\ hist'[i - m + 1] = h[i]
      /\ \A i \in 1 .. n + 1 : clock - h[i].t >= floorWindow => i <= m
      /\ m = 1 \/ clock - h[m].t >= floorWindow
  BY <1>1 DEF CutAt, h
<1>6. \A i \in 1 .. n + 1 : h[i].t > gained => h[i].b >= counted
  <2>1. SUFFICES ASSUME NEW i \in 1 .. n + 1, h[i].t > gained PROVE h[i].b >= counted
    OBVIOUS
  <2>2. CASE i = n + 1
    BY <1>2, <2>2
  <2>3. CASE i # n + 1
    <3>1. i \in 1 .. n
      BY <1>2, <2>3
    <3> QED BY <1>2, <2>1, <3>1 DEF Watched
  <2> QED BY <2>2, <2>3
<1>7. \A i \in 1 .. Len(hist') : hist'[i].t > gained => hist'[i].b >= counted
  <2>1. \A i \in 1 .. Len(hist') : i + m - 1 \in 1 .. n + 1
    BY <1>2, <1>5
  <2> QED BY <1>5, <1>6, <2>1
<1>8. ASSUME FloorOn, Running' PROVE h[m].t > gained => clock - h[m].t < floorWindow
  BY <1>5, <1>8, NotCondemned DEF Running
<1>9. ASSUME FloorOn, Running', latest.t > gained
      PROVE  \E i \in 1 .. Len(hist') : gained < hist'[i].t /\ hist'[i].t <= gained + Step + Lag
  <2>1. PICK i \in 1 .. n : gained < hist[i].t /\ hist[i].t <= gained + Step + Lag
    BY <1>2, <1>9 DEF Watched
  <2>2. i \in 1 .. n + 1 /\ h[i] = hist[i]
    BY <1>2, <2>1
  <2>3. i >= m
    <3>1. SUFFICES ASSUME i < m PROVE FALSE
      BY <1>2
    <3>2. m # 1 /\ h[i].t < h[m].t
      BY <1>2, <2>2, <3>1
    <3>3. h[m].t > gained
      BY <1>2, <1>4, <2>1, <2>2, <3>2
    <3> QED BY <1>2, <1>4, <1>5, <1>8, <1>9, <3>2, <3>3
  <2>4. i \in m .. n + 1
    BY <1>2, <2>2, <2>3
  <2> QED BY <1>5, <2>1, <2>2, <2>4
<1>10. ASSUME FloorOn, ~(latest.t > gained)
       PROVE  \E i \in 1 .. Len(hist') : hist'[i].t <= gained + Step + Lag /\ hist'[i].t = clock
  <2> DEFINE end == latest.t
  <2>1. due <= end + Step /\ clock - due <= Lag /\ end \in Nat /\ ~(end > gained)
    BY <1>2, <1>10, HistFacts DEF Punctual
  <2>2. clock \in Nat
    BY <1>2
  <2> HIDE DEF end
  <2>3. clock <= gained + Step + Lag
    BY <1>4, <2>1, <2>2
  <2>4. n + 1 \in m .. n + 1
    BY <1>2
  <2> QED BY <1>2, <1>5, <2>3, <2>4
<1>11. ASSUME FloorOn, Running'
       PROVE  \A i \in 1 .. Len(hist') : hist'[i].t > gained => clock - hist'[i].t < floorWindow
  <2>1. SUFFICES ASSUME NEW i \in 1 .. Len(hist'), hist'[i].t > gained, ~(clock - hist'[i].t < floorWindow)
                 PROVE  FALSE
    OBVIOUS
  <2>2. i + m - 1 \in m .. n + 1 /\ hist'[i] = h[i + m - 1]
    BY <1>5
  <2> DEFINE j == i + m - 1
  <2>3. j \in 1 .. n + 1 /\ hist'[i] = h[j]
    BY <1>2, <2>2
  <2> HIDE DEF j
  <2>4. h[j].t \in Nat
    BY <1>2, <2>3
  <2>5. j \in 1 .. n + 1 /\ clock - h[j].t >= floorWindow
    <3> DEFINE x == h[j].t
    <3>1. x \in Nat /\ clock \in Nat /\ ~(clock - x < floorWindow)
      BY <1>2, <2>1, <2>3, <2>4
    <3> HIDE DEF x
    <3>2. clock - x >= floorWindow
      BY <1>4, <3>1
    <3> QED BY <2>3, <3>2 DEF x
  <2>6. i + m - 1 \in 1 .. n + 1 /\ clock - h[i + m - 1].t >= floorWindow
    BY <2>5 DEF j
  <2>7. i + m - 1 = m
    BY <1>2, <1>5, <2>2, <2>6
  <2> QED BY <1>8, <1>11, <2>1, <2>2, <2>7
<1>12. ASSUME FloorOn, Running', clock > gained
       PROVE  \E i \in 1 .. Len(hist') : gained < hist'[i].t /\ hist'[i].t <= gained + Step + Lag
  BY <1>9, <1>10, <1>12
<1> QED BY <1>2, <1>3, <1>5, <1>7, <1>11, <1>12 DEF Watched

LEMMA TimesNegative ==
  ASSUME NEW a \in Nat, NEW b \in Nat
  PROVE  a * (0 - b) <= 0
OBVIOUS

LEMMA TimesMonotone ==
  ASSUME NEW a \in Nat
  PROVE  \A x, y \in Int : x >= y => a * x >= a * y
<1>1. \A n \in Nat : a * n >= 0
  OBVIOUS
<1> TAKE x, y \in Int
<1>2. a * x = a * y + a * (x - y)
  OBVIOUS
<1> HAVE x >= y
<1>3. x - y \in Nat
  OBVIOUS
<1> DEFINE u == a * x
           v == a * y
           w == a * (x - y)
<1>4. u \in Int /\ v \in Int /\ w \in Int /\ w >= 0 /\ u = v + w
  BY <1>1, <1>2, <1>3
<1> HIDE DEF u, v, w
<1>5. u >= v
  BY <1>4
<1> QED BY <1>5 DEF u, v

LEMMA Distribute == \A a, x, y \in Int : a * x + a * y = a * (x + y)
OBVIOUS

LEMMA SampleSustained ==
  ASSUME Ordered, Sustained, Sample
  PROVE  Sustained'
<1> DEFINE n == Len(hist)
           h == Sampled
           r == minMBps
           W == floorWindow
<1>1. PICK m \in 1 .. n + 1 : CutAt(m)
  BY Sampling
<1>2. /\ UNCHANGED <<op, knobs>> /\ Running
      /\ n \in Nat \ {0} /\ clock \in Nat /\ counted \in Nat
      /\ h[n + 1].t = clock /\ h[n + 1].b = counted
      /\ \A i \in 1 .. n : h[i] = hist[i] /\ h[i].t < clock
      /\ \A i \in 1 .. n + 1 : h[i].t \in Nat /\ h[i].b \in Nat
  BY Sampling
<1>3. FloorOn' = FloorOn /\ floorWindow' = W /\ minMBps' = r
  BY <1>2, SameKnobs
<1>4. SUFFICES ASSUME FloorOn PROVE Sustained'
  BY <1>3 DEF Sustained
<1>5. r \in Nat \ {0} /\ W \in Nat \ {0}
  BY <1>4, KnobFacts DEF FloorOn
<1>6. verdict' = IF clock - hist'[1].t >= W /\ counted - hist'[1].b < r * (clock - hist'[1].t)
                 THEN "slow" ELSE "none"
  BY DEF Sample
<1> HIDE DEF h, r, W
<1>7. /\ hist'[1] = h[m] /\ latest' = h[n + 1]
      /\ \A i \in 1 .. Len(hist') : i + m - 1 \in m .. n + 1 /\ hist'[i] = h[i + m - 1]
      /\ m = 1 \/ clock - h[m].t >= W
  BY <1>1 DEF CutAt, h, W
<1>8. /\ hist[1].t = 0 \/ latest.t - hist[1].t >= W
      /\ \A i \in 1 .. n : hist[i].b >= r * (hist[i].t - W)
  BY <1>2, <1>4 DEF Sustained, Running, r, W
<1>9. h[m].t = 0 \/ clock - h[m].t >= W
  <2>1. CASE m = 1
    <3>1. 1 \in 1 .. n /\ n \in 1 .. n /\ h[1] = hist[1] /\ latest = h[n]
      BY <1>2 DEF latest
    <3>2. latest.t < clock /\ latest.t \in Nat /\ h[1].t \in Nat
      BY <1>2, <3>1
    <3> DEFINE end == latest.t
               t1 == h[1].t
    <3>3. end < clock /\ end \in Nat /\ t1 \in Nat /\ clock \in Nat /\ (t1 = 0 \/ end - t1 >= W)
      BY <1>2, <1>8, <3>1, <3>2
    <3> HIDE DEF end, t1
    <3>4. t1 = 0 \/ clock - t1 >= W
      BY <1>5, <3>3
    <3> QED BY <2>1, <3>4 DEF t1
  <2> QED BY <1>7, <2>1
<1>10. ASSUME verdict' # "slow" PROVE counted >= r * (clock - W)
  <2>1. CASE ~(clock - h[m].t >= W)
    <3>1. W - clock \in Nat /\ clock - W = 0 - (W - clock)
      BY <1>2, <1>5, <1>9, <2>1
    <3>2. r * (0 - (W - clock)) <= 0
      BY <1>5, <3>1, TimesNegative
    <3> DEFINE x == r * (clock - W)
    <3>3. x \in Int /\ x <= 0
      BY <1>2, <1>5, <3>1, <3>2
    <3> HIDE DEF x
    <3>4. counted >= x
      BY <1>2, <3>3
    <3> QED BY <3>4 DEF x
  <2>2. CASE clock - h[m].t >= W
    <3>1. m \in 1 .. n
      BY <1>2, <1>5, <2>2
    <3> DEFINE b1 == h[m].b
               t1 == h[m].t
    <3>2. b1 \in Nat /\ t1 \in Nat /\ b1 >= r * (t1 - W)
      BY <1>2, <1>8, <3>1
    <3>3. ~(counted - b1 < r * (clock - t1))
      BY <1>6, <1>7, <1>10, <2>2
    <3> HIDE DEF b1, t1
    <3>4. clock - t1 \in Int /\ t1 - W \in Int /\ (t1 - W) + (clock - t1) = clock - W
      BY <1>2, <1>5, <3>2
    <3>5. r * (t1 - W) + r * (clock - t1) = r * (clock - W)
      BY <1>5, <3>4, Distribute
    <3> DEFINE x == r * (t1 - W)
               y == r * (clock - t1)
    <3>6. x \in Int /\ y \in Int
      BY <1>5, <3>4
    <3>7. b1 >= x /\ ~(counted - b1 < y) /\ x + y = r * (clock - W)
      BY <3>2, <3>3, <3>5
    <3> HIDE DEF x, y
    <3>8. counted >= x + y
      BY <1>2, <3>2, <3>6, <3>7
    <3> QED BY <3>7, <3>8
  <2> QED BY <2>1, <2>2
<1>11. ASSUME verdict' # "slow", NEW i \in 1 .. Len(hist') PROVE hist'[i].b >= r * (hist'[i].t - W)
  <2>1. i + m - 1 \in m .. n + 1 /\ hist'[i] = h[i + m - 1]
    BY <1>7
  <2>2. CASE i + m - 1 = n + 1
    BY <1>2, <1>10, <1>11, <2>1, <2>2
  <2>3. CASE i + m - 1 # n + 1
    <3>1. i + m - 1 \in 1 .. n
      BY <1>2, <2>1, <2>3
    <3> QED BY <1>2, <1>8, <2>1, <3>1
  <2> QED BY <2>2, <2>3
<1>12. /\ hist'[1].t = 0 \/ latest'.t - hist'[1].t >= W
  BY <1>2, <1>7, <1>9
<1> QED BY <1>3, <1>11, <1>12 DEF Sustained, r, W

\* Who is condemned counted too little since the left edge; what was counted
\* there had come.
LEMMA SampleCondemned ==
  ASSUME Ordered, Honest, Sample
  PROVE  CondemnedWasSlow'
<1>1. Ordered' /\ Honest'
  BY SampleOrdered, SampleHonest
<1>2. /\ UNCHANGED <<op, knobs, clock, kept, pending, lost, wasted>> /\ counted' = counted /\ wire' = wire
  BY Sampling
<1>3. floorWindow' = floorWindow /\ minMBps' = minMBps
  BY <1>2, SameKnobs
<1>4. SUFFICES ASSUME verdict' = "slow" PROVE CondemnedWasSlow'
  BY DEF CondemnedWasSlow
<1> DEFINE e == hist'[1]
           s == clock - e.t
           rs == minMBps * s
<1>5. s >= floorWindow /\ counted - e.b < rs
  BY <1>4 DEF Sample
<1>6. e \in Samples /\ e.b <= e.w - e.l
  <2>1. 1 \in 1 .. Len(hist') /\ hist'[1] \in Samples
    BY <1>1 DEF Ordered
  <2> QED BY <1>1, <2>1 DEF Honest
<1>7. /\ kept \in Nat /\ pending \in Nat /\ lost \in Nat /\ wasted \in Nat /\ pending <= Capacity
      /\ op \in {"pull", "push"} /\ clock \in Nat /\ minMBps \in Int /\ Capacity \in Nat
  BY KnobFacts, FloorAssumption DEF Ordered, Numbers
<1>8. e.b \in Nat /\ e.w \in Nat /\ e.l \in Nat /\ e.t \in Nat
  BY <1>6 DEF Samples
<1>9. rs \in Int
  BY <1>7, <1>8
<1> HIDE DEF rs
<1>10. wire - e.w < rs + (lost - e.l) + (IF op = "push" THEN Capacity ELSE 0)
  BY <1>5, <1>6, <1>7, <1>8, <1>9 DEF wire, counted
<1> QED BY <1>2, <1>3, <1>5, <1>10 DEF CondemnedWasSlow, rs

-----------------------------------------------------------------------------
(* The invariant *)

LEMMA FInit == Init => FInv
<1> SUFFICES ASSUME Init PROVE FInv
  OBVIOUS
<1> DEFINE first == [t |-> 0, b |-> 0, w |-> 0, l |-> 0]
<1>1. /\ op \in {"pull", "push"} /\ knobs \in [rate : RateKnobs, window : WindowKnobs]
      /\ clock = 0 /\ kept = 0 /\ pending = 0 /\ lost = 0 /\ wasted = 0 /\ due = 0 /\ hist = <<first>>
      /\ gained = 0 /\ verdict = "none"
  BY DEF Init
<1>2. Total \in Nat /\ Capacity \in Nat /\ Step \in Nat \ {0}
  BY FloorAssumption
<1>3. first \in Samples
  BY DEF Samples
<1>4. first.t = 0 /\ first.b = 0 /\ first.w = 0 /\ first.l = 0
  OBVIOUS
<1> HIDE DEF first
<1>5. Len(hist) = 1 /\ hist \in Seq(Samples) /\ hist # <<>> /\ \A i \in 1 .. Len(hist) : i = 1 /\ hist[i] = first
  BY <1>1, <1>3
<1>6. latest = first /\ hist[1] = first
  BY <1>5 DEF latest
<1>7. Numbers
  BY <1>1, <1>2 DEF Numbers
<1>8. Ordered
  <2>1. \A i, j \in 1 .. Len(hist) : ~(i < j)
    BY <1>5
  <2> QED BY <1>1, <1>4, <1>5, <1>6, <1>7, <2>1 DEF Ordered
<1>9. Honest
  BY <1>1, <1>2, <1>4, <1>5 DEF Honest, counted
<1>10. Punctual
  <2>1. clock % Step \in Nat
    BY <1>1, <1>2, ModStep
  <2> QED BY <1>1, <1>4, <1>6, <2>1 DEF Punctual
<1>11. Watched
  BY <1>1, <1>4, <1>5, <1>6 DEF Watched
<1>12. Sustained
  <2>1. SUFFICES ASSUME FloorOn PROVE Sustained
    BY DEF Sustained
  <2> DEFINE r == minMBps
             W == floorWindow
  <2>2. r \in Nat /\ W \in Nat
    BY <1>8, <2>1, KnobFacts DEF FloorOn
  <2> HIDE DEF r, W
  <2>3. 0 >= r * (0 - W)
    BY <2>2, TimesNegative
  <2>4. \A i \in 1 .. Len(hist) : hist[i].b >= r * (hist[i].t - W)
    BY <1>4, <1>5, <2>3
  <2> QED BY <1>4, <1>6, <2>4 DEF Sustained, r, W
<1> QED BY <1>1, <1>8, <1>9, <1>10, <1>11, <1>12 DEF FInv, Struck, CondemnedWasSlow

LEMMA FNext == FInv /\ [Next]_vars => FInv'
<1> SUFFICES ASSUME FInv, [Next]_vars PROVE FInv'
  OBVIOUS
<1>1. Ordered /\ Honest /\ Punctual /\ Watched /\ Sustained /\ Struck /\ CondemnedWasSlow
  BY DEF FInv
<1>2. CASE Passes
  BY <1>1, <1>2, PassesOrdered, PassesHonest, PassesPunctual, PassesWatched, PassesRest DEF FInv
<1>3. CASE Sample
  <2>1. Struck'
    BY <1>3 DEF Sample, Struck
  <2> QED BY <1>1, <1>3, <2>1, SampleOrdered, SampleHonest, SamplePunctual, SampleWatched, SampleSustained,
             SampleCondemned DEF FInv
<1> QED BY <1>2, <1>3 DEF Next, Over, Passes

LEMMA FInvariant == Spec => []FInv
BY FInit, FNext, PTL DEF Spec

\* The last sample is at most a tick and its lag old.
LEMMA LastSample ==
  ASSUME Ordered, Punctual, FloorOn
  PROVE  clock - latest.t <= Step + Lag
<1> DEFINE m == clock % Step
<1>1. m \in Nat /\ m < Step
  BY ModStep, FloorAssumption DEF Ordered, Numbers
<1>2. clock \in Nat /\ due \in Nat /\ latest.t \in Nat /\ Step \in Nat /\ Lag \in Nat
  BY HistFacts, FloorAssumption DEF Ordered, Numbers
<1>3. /\ due = 0 => clock - m <= latest.t
      /\ due # 0 => due <= latest.t + Step /\ clock - due <= Lag
  BY DEF Punctual
<1> HIDE DEF m
<1> QED BY <1>1, <1>2, <1>3

\* Nothing under way goes uncounted or twice over, and the history is in the
\* order of time (guard.go:186-196).
THEOREM FloorTypeCorrect == Spec => []TypeOK
<1>1. FInv => TypeOK
  <2> SUFFICES ASSUME FInv PROVE TypeOK
    OBVIOUS
  <2>1. Ordered
    BY DEF FInv
  <2>2. \A i \in 1 .. Len(hist) - 1 : hist[i].t < hist[i + 1].t
    <3>1. Len(hist) \in Nat
      BY <2>1, HistFacts
    <3>2. \A i \in 1 .. Len(hist) - 1 : i \in 1 .. Len(hist) /\ i + 1 \in 1 .. Len(hist) /\ i < i + 1
      BY <3>1
    <3> QED BY <2>1, <3>2 DEF Ordered
  <2> QED BY <2>1, <2>2 DEF Ordered, Numbers, TypeOK
<1> QED BY <1>1, FInvariant, PTL

\* Whoever the floor watch condemns (guard.go:205-215) was under the floor over
\* a full window, but for what was taken back in it and, for a push, for the
\* parts still under way; whatever the rate, the window and the pace.
THEOREM CondemnedIsSlow == Spec => []CondemnedWasSlow
<1>1. FInv => CondemnedWasSlow
  BY DEF FInv
<1> QED BY <1>1, FInvariant, PTL

\* Nobody who counts no byte goes on for a window and two late ticks, unless a
\* knob asks for it; no value that is a mistake disarms the watch
\* (config.go:165-189).
THEOREM DeadAreCaught == Spec => []DeadIsCaught
<1>1. FInv => DeadIsCaught
  <2> SUFFICES ASSUME FInv, ~Asked, Running PROVE clock - gained < Reaction
    BY DEF DeadIsCaught
  <2>1. Ordered /\ Punctual /\ Watched
    BY DEF FInv
  <2>2. FloorOn
    <3>1. knobs.rate \in RateKnobs /\ knobs.window \in WindowKnobs
      BY <2>1 DEF Ordered, Numbers
    <3>2. minMBps > 0
      BY <3>1, FloorAssumption DEF Asked, minMBps, EnvFloat
    <3>3. floorWindow > 0
      BY <3>1, FloorAssumption DEF Asked, floorWindow, EnvSeconds, EnvFloat
    <3> QED BY <3>2, <3>3 DEF FloorOn
  <2>3. clock - latest.t <= Step + Lag
    BY <2>1, <2>2, LastSample
  <2>4. /\ clock \in Nat /\ gained \in Nat /\ latest.t \in Nat /\ Step \in Nat /\ Lag \in Nat
        /\ floorWindow \in Nat \ {0}
    <3>1. clock \in Nat /\ gained \in Nat
      BY <2>1 DEF Ordered, Numbers
    <3>2. latest.t \in Nat
      BY <2>1, HistFacts
    <3>3. floorWindow \in Nat \ {0}
      BY <2>1, <2>2, KnobFacts DEF FloorOn
    <3> QED BY <3>1, <3>2, <3>3, FloorAssumption
  <2>5. CASE latest.t > gained
    <3>1. PICK i \in 1 .. Len(hist) : gained < hist[i].t /\ hist[i].t <= gained + Step + Lag
      BY <2>1, <2>2, <2>5 DEF Watched
    <3>2. latest.t - hist[i].t < floorWindow /\ hist[i].t \in Nat
      BY <2>1, <2>2, <3>1, HistFacts DEF Watched
    <3> DEFINE end == latest.t
               s == hist[i].t
               late == Step + Lag
    <3>3. /\ clock - end <= late /\ end - s < floorWindow
          /\ s \in Nat /\ end \in Nat /\ late \in Nat
      BY <2>3, <2>4, <3>2
    <3>4. s <= gained + late
      BY <2>4, <3>1, <3>2
    <3> HIDE DEF end, s, late
    <3>5. clock - gained < floorWindow + 2 * late
      BY <2>4, <3>3, <3>4
    <3> QED BY <3>5 DEF Reaction, late
  <2>6. CASE ~(latest.t > gained)
    BY <2>3, <2>4, <2>6 DEF Reaction
  <2> QED BY <2>5, <2>6
<1> QED BY <1>1, FInvariant, PTL

\* Whomever the ceiling strikes kept to the floor until a window and a late tick
\* before it, but for the bytes taken back, and what it counted of short reads
\* makes up for the slack beyond those, whatever the slack is (guard.go:205-228,
\* 282-287).
THEOREM FloorGoesFirst == Spec => []FloorComesFirst
<1>1. FInv => FloorComesFirst
  <2> SUFFICES ASSUME FInv, verdict = "deadline", FloorOn
               PROVE  /\ counted + lost >= minMBps * (clock - Blind)
                      /\ wasted > minMBps * (slack - Blind - 1)
    BY DEF FloorComesFirst
  <2>1. Ordered /\ Honest /\ Punctual /\ Sustained /\ Struck
    BY DEF FInv
  <2> DEFINE r == minMBps
             W == floorWindow
             B == Blind
             D == Total \div minMBps
             end == latest.t
             b == latest.b
             c == counted + lost
  <2>2. r \in Nat \ {0} /\ W \in Nat \ {0} /\ Total \in Nat /\ Step \in Nat \ {0} /\ Lag \in Nat /\ slack \in Nat
    BY <2>1, KnobFacts, FloorAssumption DEF FloorOn
  <2>3. D \in Nat /\ r * (D + 1) > Total /\ AutoDeadline(Total) \in Int /\ AutoDeadline(Total) >= D + slack
    BY <2>1, CeilingFacts DEF FloorOn
  <2>4. clock >= AutoDeadline(Total)
    BY <2>1 DEF Struck
  <2>5. clock - end <= Step + Lag /\ end \in Nat /\ clock \in Nat /\ wasted \in Nat
    BY <2>1, LastSample, HistFacts DEF Ordered, Numbers
  <2>6. b >= r * (end - W) /\ b <= Total + wasted /\ b <= c /\ b \in Nat /\ c \in Nat
    <3>1. Len(hist) \in 1 .. Len(hist) /\ latest = hist[Len(hist)]
      BY <2>1, HistFacts DEF latest
    <3>2. c \in Nat
      BY <2>1, NatSum DEF counted, Ordered, Numbers
    <3> QED BY <2>1, <3>1, <3>2, HistFacts DEF Sustained, Honest
  <2>7. B \in Nat /\ B = W + Step + Lag
    BY <2>2 DEF Blind
  <2> HIDE DEF r, W, B, D, end, b, c
  <2>8. end - W >= clock - B /\ clock - B >= (D + 1) + (slack - B - 1)
    BY <2>2, <2>3, <2>4, <2>5, <2>7
  <2>9. \A x, y \in Int : x >= y => r * x >= r * y
    BY <2>2, TimesMonotone
  <2>10. r * (end - W) >= r * (clock - B)
    BY <2>2, <2>5, <2>7, <2>8, <2>9
  <2>11. r * (clock - B) >= r * (D + 1) + r * (slack - B - 1)
    <3>1. r * (D + 1) + r * (slack - B - 1) = r * ((D + 1) + (slack - B - 1))
      BY <2>2, <2>3, <2>7, Distribute
    <3> QED BY <2>2, <2>3, <2>5, <2>7, <2>8, <2>9, <3>1
  <2> DEFINE x == r * (end - W)
             y == r * (clock - B)
             z == r * (slack - B - 1)
             f == r * (D + 1)
  <2>12. x \in Int /\ y \in Int /\ z \in Int /\ f \in Int
    BY <2>2, <2>3, <2>5, <2>7
  <2>13. b >= x /\ x >= y /\ y >= f + z /\ f > Total
    BY <2>3, <2>6, <2>10, <2>11
  <2> HIDE DEF x, y, z, f
  <2>14. c >= y /\ wasted > z
    BY <2>2, <2>5, <2>6, <2>12, <2>13
  <2> QED BY <2>14 DEF c, y, z, r, B
<1> QED BY <1>1, FInvariant, PTL
=============================================================================
