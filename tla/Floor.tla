------------------------------- MODULE Floor --------------------------------
(***************************************************************************)
(* The floor watch and the derived ceiling (guard.go) over a transfer      *)
(* whose bytes come at any pace, with a discrete clock.  A pull counts the *)
(* bytes that it reads and takes those of a broken attempt back; a push    *)
(* counts a part when it is through.                                       *)
(***************************************************************************)
EXTENDS Integers, Sequences, FiniteSetsExt

CONSTANTS
  RateKnobs,      \* values of B2X_MIN_MBPS: integers, Unset or Garbage
  WindowKnobs,    \* values of B2X_MIN_MBPS_WINDOW_S
  Unset, Garbage,
  defaultRate, defaultWindow,
  Step,           \* the interval of the ticker
  Lag,            \* bound: how late the watch takes a tick
  Total,          \* the bytes to move
  Gains,          \* bytes that may pass in a unit of time
  Capacity,       \* bytes of parts under way, at most
  slack,          \* B2X_DEADLINE_SLACK_S
  minDeadline,    \* B2X_MIN_DEADLINE_S
  MaxClock, MaxLost   \* bounds: the time, and the bytes lost or wasted

ASSUME FloorAssumption ==
  /\ \A c \in {defaultRate, defaultWindow, Step, Total, Capacity} : c \in Nat \ {0}
  /\ {Lag, slack, minDeadline, MaxClock, MaxLost} \subseteq Nat /\ Gains \subseteq Nat
  /\ (RateKnobs \cup WindowKnobs) \ {Unset, Garbage} \subseteq Int

VARIABLES
  op,        \* "pull" or "push"
  knobs,     \* the two knobs, as they are set
  clock,     \* since the guards were armed
  kept,      \* bytes of parts that are through
  pending,   \* bytes of parts under way
  lost,      \* bytes of attempts that broke
  wasted,    \* bytes of attempts that came up short, counted for good
  due,       \* when the tick was sent that waits in the ticker's channel, or 0
  hist,      \* the samples: when and how many bytes (t, b), and, for the
             \* properties, what had passed and been lost by then (w, l)
  gained,    \* when a byte was counted last
  verdict    \* "none", "slow", "deadline" or "finished"

bytes == <<kept, pending, lost, wasted>>
watch == <<due, hist>>
vars  == <<op, knobs, clock, bytes, watch, gained, verdict>>

-----------------------------------------------------------------------------
(* config.go and autoDeadline *)

\* Mutation: what is no number is 0.
EnvFloatOrZero(v, def) == IF v = Unset THEN def ELSE IF v = Garbage THEN 0 ELSE v

EnvFloat(v, def) == IF v \in {Unset, Garbage} THEN def ELSE v

EnvSeconds(v, def) == IF EnvFloat(v, def) < 0 THEN def ELSE EnvFloat(v, def)

minMBps     == EnvFloat(knobs.rate, defaultRate)
floorWindow == EnvSeconds(knobs.window, defaultWindow)
FloorOn     == minMBps > 0 /\ floorWindow > 0

\* Mutation: no slack.
AutoDeadlineTight(n) ==
  IF minMBps <= 0 THEN 0 ELSE Max({n \div minMBps, minDeadline})

\* 0 is no ceiling.
AutoDeadline(n) ==
  IF minMBps <= 0 THEN 0 ELSE Max({n \div minMBps + slack, minDeadline})

-----------------------------------------------------------------------------

\* What really passed, and stats.done.
wire    == kept + pending + lost + wasted
counted == kept + wasted + (IF op = "pull" THEN pending ELSE 0)

Init ==
  /\ op \in {"pull", "push"}
  /\ knobs \in [rate : RateKnobs, window : WindowKnobs]
  /\ clock = 0
  /\ kept = 0 /\ pending = 0 /\ lost = 0 /\ wasted = 0
  /\ due = 0 /\ hist = <<[t |-> 0, b |-> 0, w |-> 0, l |-> 0]>>
  /\ gained = 0 /\ verdict = "none"

Running == verdict = "none"

\* Time passes, and k bytes with it.  The ticker drops a tick when the last
\* one has not been taken.
Pass(k) ==
  /\ Running /\ clock < MaxClock
  /\ due # 0 => clock - due < Lag
  /\ AutoDeadline(Total) # 0 => clock < AutoDeadline(Total)
  /\ kept + pending + k <= Total /\ pending + k <= Capacity
  /\ clock' = clock + 1
  /\ pending' = pending + k
  /\ due' = IF FloorOn /\ due = 0 /\ clock' % Step = 0 THEN clock' ELSE due
  /\ gained' = IF op = "pull" /\ k > 0 THEN clock' ELSE gained
  /\ UNCHANGED <<op, knobs, kept, lost, wasted, hist, verdict>>

\* Mutation: a part that is through stays under way.
PartsLandTwice ==
  /\ Running /\ pending > 0
  /\ kept' = kept + pending
  /\ gained' = IF op = "push" THEN clock ELSE gained
  /\ UNCHANGED <<op, knobs, clock, pending, lost, wasted, watch, verdict>>

\* The parts under way are through.
PartsLand ==
  /\ Running /\ pending > 0
  /\ kept' = kept + pending /\ pending' = 0
  /\ gained' = IF op = "push" THEN clock ELSE gained
  /\ UNCHANGED <<op, knobs, clock, lost, wasted, watch, verdict>>

\* They break, and begin again.
AttemptBreaks ==
  /\ Running /\ pending > 0 /\ lost + wasted + pending <= MaxLost
  /\ lost' = lost + pending /\ pending' = 0
  /\ UNCHANGED <<op, knobs, clock, kept, wasted, watch, gained, verdict>>

\* A clean end before the end: the bytes stay counted.
ComesUpShort ==
  /\ Running /\ pending > 0 /\ op = "pull" /\ lost + wasted + pending <= MaxLost
  /\ wasted' = wasted + pending /\ pending' = 0
  /\ UNCHANGED <<op, knobs, clock, kept, lost, watch, gained, verdict>>

Sampled == Append(hist, [t |-> clock, b |-> counted, w |-> wire, l |-> lost])

\* Mutation: what is older than the window goes, its left edge too.
CutWhole(h) == SelectSeq(h, LAMBDA s : clock - s.t < floorWindow)

\* The newest of the samples that are older than the window stays, as its
\* left edge.
Cut(h) ==
  LET old == {i \in DOMAIN h : clock - h[i].t >= floorWindow}
  IN  IF old = {} THEN h ELSE SubSeq(h, Max(old), Len(h))

\* Mutation: a window that is not full is judged as well.
SampleEarly ==
  /\ Running /\ due # 0
  /\ hist' = Cut(Sampled) /\ due' = 0
  /\ LET span == clock - hist'[1].t
     IN  verdict' = IF span > 0 /\ counted - hist'[1].b < minMBps * span
                    THEN "slow" ELSE "none"
  /\ UNCHANGED <<op, knobs, clock, bytes, gained>>

\* A tick: a rate under the floor over a full window is condemned.
Sample ==
  /\ Running /\ due # 0
  /\ hist' = Cut(Sampled) /\ due' = 0
  /\ LET span == clock - hist'[1].t
     IN  verdict' = IF span >= floorWindow /\ counted - hist'[1].b < minMBps * span
                    THEN "slow" ELSE "none"
  /\ UNCHANGED <<op, knobs, clock, bytes, gained>>

CeilingStrikes ==
  /\ Running /\ AutoDeadline(Total) # 0 /\ clock >= AutoDeadline(Total)
  /\ verdict' = "deadline"
  /\ UNCHANGED <<op, knobs, clock, bytes, watch, gained>>

Finishes ==
  /\ Running /\ kept = Total
  /\ verdict' = "finished"
  /\ UNCHANGED <<op, knobs, clock, bytes, watch, gained>>

Over == (~Running \/ clock = MaxClock) /\ UNCHANGED vars

Next ==
  \/ \E k \in Gains : Pass(k)
  \/ PartsLand \/ AttemptBreaks \/ ComesUpShort
  \/ Sample \/ CeilingStrikes \/ Finishes
  \/ Over

Spec == Init /\ [][Next]_vars

-----------------------------------------------------------------------------
(* Properties *)

\* Every variable holds a value the code can put there, no byte is counted for
\* two places, and the samples are in the order of time.
TypeOK ==
  /\ {clock, kept, pending, lost, wasted, due, gained} \subseteq Nat
  /\ kept + pending <= Total /\ pending <= Capacity
  /\ verdict \in {"none", "slow", "deadline", "finished"}
  /\ \A i \in 1 .. Len(hist) - 1 : hist[i].t < hist[i + 1].t

\* "AGGREGATE bytes over a FULL window, never an instantaneous sample"
\* (guard.go:155-157): who is condemned moved less than the floor over some
\* full window, but for what had to be taken back in it and, for a push, for
\* the parts that were under way at its end and not counted yet (push.go:310).
CondemnedWasSlow ==
  verdict = "slow" =>
    LET edge == hist[1]
        span == clock - edge.t
    IN  /\ span >= floorWindow
        /\ wire - edge.w < minMBps * span + (lost - edge.l)
                           + (IF op = "push" THEN Capacity ELSE 0)

\* How long the watch takes to see that nothing moves: the first sample after
\* the last byte, a window from there, and the first tick after that; each of the
\* two ticks may be taken late.
Reaction == floorWindow + 2 * (Step + Lag)

Asked ==
  \/ knobs.rate \notin {Unset, Garbage} /\ knobs.rate <= 0
  \/ knobs.window = 0

\* A dead transfer is condemned in that time, unless a knob says otherwise: "a
\* typo in an env var must never silently disarm a guard" (config.go:165-166).
DeadIsCaught == ~Asked /\ Running => clock - gained < Reaction

\* What the watch has not judged yet: a window, and the last tick.
Blind == floorWindow + Step + Lag

\* Whom the ceiling ends while the watch runs, that had no cause to end before:
\* but for what it has not judged, or what was taken back, the floor was kept to.
\* And what was counted of short reads makes up for the slack beyond that: a
\* slack of a window and two late ticks leaves the ceiling to those alone
\* (guard.go:205-228, 282-287).
FloorComesFirst ==
  verdict = "deadline" /\ FloorOn =>
    /\ counted + lost >= minMBps * (clock - Blind)
    /\ wasted > minMBps * (slack - Blind - 1)

\* "A transfer sustaining exactly the floor finishes strictly inside its ceiling,
\* so the ceiling only fires where the floor already should have"
\* (docs/USAGE.md:240-242, guard.go:270-273).  Refuted where the slack is no
\* longer than the window, as in config.go:86-91, by a transfer that dies in a
\* window that began late; short reads, whose bytes stay counted, are left out.
FloorAlwaysFirst == verdict = "deadline" /\ FloorOn => wasted > 0
=============================================================================
