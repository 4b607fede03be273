----------------------------- MODULE StateFile ------------------------------
(***************************************************************************)
(* The state of one file under transfer, in memory and in state.json       *)
(* (state.go), while runParts works by its contract (Drain): a checkpoint  *)
(* goroutine that nobody waits for and runPull itself save it, both        *)
(* through the one state.json.tmp.                                         *)
(***************************************************************************)
EXTENDS Integers, FiniteSets

CONSTANTS
  Parts,        \* the parts of the file
  Earlier,      \* those an earlier run has landed and recorded
  MaxFailures,  \* bound: how many I/O errors the saves meet
  Absent, Empty, Torn   \* what a file may be besides a set of parts: not
                        \* there, just truncated, or no JSON

ASSUME FileAssumption ==
  /\ IsFiniteSet(Parts) /\ Earlier \subseteq Parts /\ MaxFailures \in Nat
  /\ \A P \in SUBSET Parts : P \notin {Absent, Empty, Torn}
  /\ Absent # Empty /\ Absent # Torn /\ Empty # Torn

Jobs == Parts \ Earlier

Savers == {"checkpoint", "final"}

VARIABLES
  finished, failed, ctx, result,   \* runParts, see Drain
  landed,       \* the parts whose bytes are in the partial file
  dirty,        \* stateDB.dirty
  pc,           \* saver -> "idle", "taken", "open", "written", "over"
  text,         \* saver -> the parts it is about to write
  fd,           \* saver -> what its open file is called now: "none",
                \* "tmp", "state", or "orphan" when it has no name left
  disk,         \* "state", "tmp" -> Absent, Empty, Torn or a set of parts
  alive,        \* the process runs
  failures,     \* I/O errors so far
  overlapped    \* a save began while the other was under way

drain  == <<finished, failed, ctx, result>>
files  == <<text, fd, disk>>
vars   == <<drain, landed, dirty, pc, files, alive, failures, overlapped>>

Pool == INSTANCE Drain

known == Earlier \cup finished      \* Done, in memory

Init ==
  /\ Pool!Init
  /\ landed = Earlier
  /\ dirty \in BOOLEAN              \* entries of other files may be new
  /\ pc = [p \in Savers |-> "idle"]
  /\ text = [p \in Savers |-> {}]
  /\ fd = [p \in Savers |-> "none"]
  /\ disk = [state |-> IF Earlier = {} THEN Absent ELSE Earlier, tmp |-> Absent]
  /\ alive = TRUE /\ failures = 0 /\ overlapped = FALSE

-----------------------------------------------------------------------------
(* the pool *)

Land(i) ==
  /\ alive /\ result = "none" /\ i \notin landed
  /\ landed' = landed \cup {i}
  /\ UNCHANGED <<drain, dirty, pc, files, alive, failures, overlapped>>

\* Mutation: the mark comes before the bytes.
MarkPartEarly(i) ==
  /\ alive
  /\ Pool!Work(i)
  /\ dirty' = TRUE
  /\ UNCHANGED <<landed, pc, files, alive, failures, overlapped>>

\* The job is done once its part is marked.
MarkPart(i) ==
  /\ alive /\ i \in landed
  /\ Pool!Work(i)
  /\ dirty' = TRUE
  /\ UNCHANGED <<landed, pc, files, alive, failures, overlapped>>

PoolEvent ==
  /\ alive
  /\ Pool!Break \/ \E why \in {"canceled", "deadline"} : Pool!Die(why)
  /\ UNCHANGED <<landed, dirty, pc, files, alive, failures, overlapped>>

\* Every worker has gone: a part that landed unmarked was an error at the end.
PoolReturns ==
  /\ alive /\ (landed = known \/ failed)
  /\ Pool!Return
  /\ UNCHANGED <<landed, dirty, pc, files, alive, failures, overlapped>>

-----------------------------------------------------------------------------
(* stateDB.save, called by p *)

Other(p) == CHOOSE q \in Savers : q # p
Busy(p)  == pc[p] \in {"taken", "open", "written"}

\* The caller goes on, whether save returned an error or not: the goroutine
\* waits for its next tick, runPull promotes.
SaveOver(p) == pc' = [pc EXCEPT ![p] = IF p = "final" THEN "over" ELSE "idle"]

\* runPull saves when runParts has returned.  The goroutine saves at its ticks
\* until it finds the pool's context dead, and it may prefer a tick to that.
MaySave(p) == alive /\ pc[p] = "idle" /\ (p = "final" => result # "none")

\* The lock is held while the snapshot is taken and dirty is cleared.
TakesSnapshot(p) ==
  /\ MaySave(p) /\ dirty
  /\ text' = [text EXCEPT ![p] = known]
  /\ dirty' = FALSE
  /\ pc' = [pc EXCEPT ![p] = "taken"]
  /\ overlapped' = (overlapped \/ Busy(Other(p)))
  /\ UNCHANGED <<drain, landed, fd, disk, alive, failures>>

FindsItClean(p) ==
  /\ MaySave(p) /\ ~dirty
  /\ SaveOver(p)
  /\ overlapped' = (overlapped \/ Busy(Other(p)))
  /\ UNCHANGED <<drain, landed, dirty, files, alive, failures>>

\* The snapshot shares the array of Done with the map.  markPart sorts that
\* array in place when the last part lands, and a json.Marshal that reads it
\* meanwhile finds any of the parts in the places it reads.
Marshalled(S) ==
  {S} \cup IF known = Parts /\ S # Parts
           THEN {P \in SUBSET Parts : P # {} /\ Cardinality(P) <= Cardinality(S)}
           ELSE {}

\* Mutation: state.json is written in place.
OpensInPlace(p) ==
  /\ alive /\ pc[p] = "taken"
  /\ \E t \in Marshalled(text[p]) : text' = [text EXCEPT ![p] = t]
  /\ disk' = [disk EXCEPT !.state = Empty]
  /\ fd' = [fd EXCEPT ![p] = "state"]
  /\ pc' = [pc EXCEPT ![p] = "open"]
  /\ UNCHANGED <<drain, landed, dirty, alive, failures, overlapped>>

\* Opening truncates the temporary file, also under the other saver.
Opens(p) ==
  /\ alive /\ pc[p] = "taken"
  /\ \E t \in Marshalled(text[p]) : text' = [text EXCEPT ![p] = t]
  /\ disk' = [disk EXCEPT !.tmp = Empty]
  /\ fd' = [fd EXCEPT ![p] = "tmp"]
  /\ pc' = [pc EXCEPT ![p] = "open"]
  /\ UNCHANGED <<drain, landed, dirty, alive, failures, overlapped>>

\* The other saver may have written its text meanwhile.  A list of more parts
\* is the longer text and covers it; a complete file has no list.
Overwritten(old, new) ==
  IF old = Empty THEN {new}
  ELSE IF old # Torn /\ old \subseteq new /\ new # Parts THEN {new}
  ELSE {new, Torn}

\* Mutation: the file is not closed.
PutsAndLeaks(p, contents) ==
  /\ IF fd[p] = "orphan" THEN UNCHANGED disk
     ELSE \E c \in contents : disk' = [disk EXCEPT ![fd[p]] = c]
  /\ UNCHANGED fd

Puts(p, contents) ==
  /\ IF fd[p] = "orphan" THEN UNCHANGED disk
     ELSE \E c \in contents : disk' = [disk EXCEPT ![fd[p]] = c]
  /\ fd' = [fd EXCEPT ![p] = "none"]

Writes(p) ==
  /\ alive /\ pc[p] = "open"
  /\ Puts(p, IF fd[p] = "orphan" THEN {} ELSE Overwritten(disk[fd[p]], text[p]))
  /\ pc' = [pc EXCEPT ![p] = "written"]
  /\ UNCHANGED <<drain, landed, dirty, text, alive, failures, overlapped>>

\* The directory or the file cannot be made, or the disk is full: the error
\* goes back to a caller that drops it, and dirty stays cleared.
SaveFails(p) ==
  /\ alive /\ failures < MaxFailures /\ Busy(p)
  /\ IF pc[p] = "open" THEN Puts(p, {Empty, Torn}) ELSE UNCHANGED <<fd, disk>>
  /\ failures' = failures + 1
  /\ SaveOver(p)
  /\ UNCHANGED <<drain, landed, dirty, text, alive, overlapped>>

\* A file keeps its open descriptors when it is renamed or replaced.
Renamed(name) ==
  CASE name = "tmp" -> "state" [] name = "state" -> "orphan" [] OTHER -> name

\* Mutation: dirty is cleared when the text is in place.
RenamesAndCleans(p) ==
  /\ alive /\ pc[p] = "written"
  /\ IF disk.tmp = Absent
     THEN UNCHANGED <<disk, fd>>
     ELSE /\ disk' = [state |-> disk.tmp, tmp |-> Absent]
          /\ fd' = [q \in Savers |-> Renamed(fd[q])]
  /\ SaveOver(p) /\ dirty' = FALSE
  /\ UNCHANGED <<drain, landed, text, alive, failures, overlapped>>

Renames(p) ==
  /\ alive /\ pc[p] = "written"
  /\ IF disk.tmp = Absent         \* the other saver has renamed it: an error
     THEN UNCHANGED <<disk, fd>>
     ELSE /\ disk' = [state |-> disk.tmp, tmp |-> Absent]
          /\ fd' = [q \in Savers |-> Renamed(fd[q])]
  /\ SaveOver(p)
  /\ UNCHANGED <<drain, landed, dirty, text, alive, failures, overlapped>>

-----------------------------------------------------------------------------

\* runPull has returned and main exits, or the process is killed: either way
\* every goroutine stops where it is.
Stops ==
  /\ alive /\ alive' = FALSE
  /\ UNCHANGED <<drain, landed, dirty, pc, files, failures, overlapped>>

Gone == ~alive /\ UNCHANGED vars

Next ==
  \/ \E i \in Jobs : Land(i) \/ MarkPart(i)
  \/ PoolEvent \/ PoolReturns
  \/ \E p \in Savers :
       TakesSnapshot(p) \/ FindsItClean(p) \/ Opens(p) \/ Writes(p) \/ SaveFails(p) \/ Renames(p)
  \/ Stops \/ Gone

Spec == Init /\ [][Next]_vars

-----------------------------------------------------------------------------
(* Properties *)

\* Every variable holds a value the code can put there, and only a saver
\* between its open and its write has a file open.
TypeOK ==
  /\ finished \subseteq Jobs /\ Earlier \subseteq landed /\ landed \subseteq Parts
  /\ {failed, dirty, alive, overlapped} \subseteq BOOLEAN
  /\ ctx \in {"live", "canceled", "deadline"}
  /\ result \in {"none", "nil", "error", "deadline"}
  /\ pc \in [Savers -> {"idle", "taken", "open", "written", "over"}]
  /\ text \in [Savers -> SUBSET Parts]
  /\ \A p \in Savers : IF pc[p] = "open" THEN fd[p] \in {"tmp", "state", "orphan"}
                       ELSE fd[p] = "none"
  /\ DOMAIN disk = {"state", "tmp"}
  /\ \A name \in DOMAIN disk :
       disk[name] \in {Absent, Empty, Torn} \/ disk[name] \subseteq Parts
  /\ failures \in 0 .. MaxFailures

\* What loadState makes of the file: nothing of a file that does not parse.
Loaded == IF disk.state \in {Absent, Empty, Torn} THEN {} ELSE disk.state

\* "an interrupted pull must leave a state file that describes strictly LESS
\* than what is on disk (never more)" (state.go:126-127): wherever the process
\* stops, whatever the two savers do to each other's temporary file and
\* whatever the sort of Done does to a snapshot, the next run takes no part
\* for landed that has not.
NeverAhead == Loaded \subseteq landed

\* "save writes the state atomically" (state.go:125): as long as the savers
\* keep out of each other's way, no kill and no failed write leaves a
\* state.json that does not parse, which would cost all progress.
AtomicAlone == ~overlapped => disk.state \notin {Empty, Torn}

\* "Always persist what landed, even on failure" (pull.go:250): when runPull's
\* save is over, every mark is in state.json, also those set while a
\* checkpoint was being written -- unless a write failed or a checkpoint was
\* still under way (PersistsWhatLanded).
FinalKeeps == pc["final"] = "over" /\ ~overlapped /\ failures = 0 => Loaded = known

\* The comment without the exceptions, once both savers are done: no write
\* fails, and yet the checkpoint that runParts did not wait for puts its older
\* snapshot, or a torn file, over what the final save wrote.
PersistsWhatLanded ==
  pc["final"] = "over" /\ ~Busy("checkpoint") /\ failures = 0 => known \subseteq Loaded
=============================================================================
