# b2x in TLA+

Specifications, model checks and proofs for b2x (`src/`), a command that pulls
objects from Backblaze B2 into files and pushes files into B2, in parts, over
many connections, so that a transfer can be killed at any moment and taken up
again.

## 1. The system

b2x is one process without a daemon. It lives for one command; what outlives it
is the bucket, the files, and `.b2x/state.json` beside them.

| part | state | operations | what makes it correct |
|---|---|---|---|
| **pull** (`pull.go`) | targets with their verdicts, the queue of part jobs, the open partial files, the set of whole files | list, decide, plan, preallocate, drain, promote | a path never holds a torn file; exit 0 means everything is there; an interrupted pull resumes |
| **state** (`state.go`) | `stateDB`: an entry per destination (size, ETag, parts done), and its copy in `state.json` | `loadState`, `set`, `markPart`, `save`, `decideSkip` | the copy never describes more than the disk holds |
| **planner** (`plan.go`) | none | `planParts`, `partRange`, `workersFor`, `interleaveByObject` | ranges tile the object; parts respect the floor and the caps; the order is complete and fair |
| **runParts** (`pull.go:437-505`) | a channel of indices, a channel of errors, a context, n workers, a feeder, a checkpoint goroutine | drain n jobs | nil means done; no error is lost; nobody is left waiting |
| **push** (`push.go`) | the files to upload, newest first, and one upload at a time | walk, skip, upload, complete, abort | objects are whole, their digest is their own; the newest arrive first; a bad file costs no other |
| **S3 client** (`s3.go`) | none between calls | signed requests with retries, list, multipart upload | a repeated call does no harm; tries are bounded; a refusal is final |
| **guards** (`guard.go`) | the stall timer of an attempt, the window of the floor watch, the derived ceiling | cancel an attempt, or the transfer | only a dead or slow flow is condemned, and every one is |
| **counters, exit codes** (`stats.go`, `main.go`) | atomic counters, a verdict | report | the code names the cause, and 0 means all |
| **configuration** (`config.go`) | none | read the environment | |
| **signing** (`sigv4.go`), **selftest**, **scripts** | none | | |

They interact through calls (pull and push both call `runParts` with a closure,
and the closure calls the client), through two contexts (the caller's, which a
signal, the ceiling or the floor watch kills, and the pool's own), through the
byte counter (which the floor watch reads), through the
`stateDB` (marked by the workers, saved by the checkpoint goroutine and by
`runPull`) and, across runs, through the disk and the bucket.

What is hard here, and hard to test: a kill between any two effects on the disk;
marks, checkpoints and writes of parts in every order; an object replaced while
its parts are being read; a cancel that finds every worker between two jobs;
several workers failing at once; two saves of the state over one temporary file;
a guard firing while an attempt fails by itself, and several guards firing at
once; a peer that stays silent, or ends every answer early; a reply lost after the server did its work; a
source file that grows or shrinks under its upload. `PROJECT.json` lists these
hazards, each at its line, with the properties that cover it.

## 2. The modules

| module | models | composed with |
|---|---|---|
| `Pull` | `runPull`, `fetchPart`, `decideSkip`, `markPart`, `save`, over several runs and what happens around them | |
| `PullProps` | its properties | extends `Pull`, instantiates `Delivery` |
| `Delivery` | abstract: what a reader of the destination paths relies on | |
| `PartPlan`, `Planner` | `plan.go`, and the planning loop of `runPull` | `Planner` extends `PartPlan` |
| `RunParts` | `runParts`, channel operation by channel operation | instantiates `Drain` |
| `Drain` | abstract: what the callers of `runParts` rely on | |
| `Push` | `runPush`, `uploadOne` and the multipart protocol, over several runs | |
| `StateFile` | `markPart` and `save`, with the dirty flag, the temporary file and its open descriptors, for the two goroutines that save | instantiates `Drain` as its pool |
| `Transfer` | one transfer from its first request to its exit code: `do`, `fetchPart`, the stall guard, the ends of the context, the tails of `runPull` and `runPush` | extends `Outcome` |
| `Outcome` | `report` and `setVerdict`, over kinds of errors | |
| `Floor` | `startFloorWatch` and `autoDeadline` over a clock, and the knobs they read | |
| `MCPull`, `MCPlanner`, `MCPush`, `MCFloor` | instances for TLC | |
| `PullTypes`, `PullSafety` | theorems and proofs about `Pull` | `PullSafety` extends `PullTypes` and `PullProps` |
| `PlannerProofs`, `RunPartsProofs`, `StateFileProofs`, `PushProofs`, `TransferProofs`, `FloorProofs` | theorems and proofs | extend the module they are about |

An operator whose comment begins with *Mutation* is a plausible mistake in the
definition that follows it. No specification uses one: `PROJECT.json` pairs each
with the property that must fail when it takes the definition's place.

### Pull

A *name* is an (object, destination) pair a command line can select; `KeyOf`,
`RelOf` and `DstOf` give its bucket key, its entry in `state.json` and its path.
They are separate because the code separates them: two single-file pulls have
different paths and the same entry.

Bytes are counted in parts. A file is a function from part indices to the
*version* its bytes come from, or `Junk` (a hole, a torn write). A version stands
for a content, its ETag and its size. So a file of two versions, a hole and a
file of the wrong length can be told apart, and nothing else can.

| variables | code |
|---|---|
| `remote`, `seen` | the bucket; every version ever there (history) |
| `partial`, `final` | `.b2x-partial-<name>` and the file itself |
| `db`, `durable` | `stateDB.Files`, and `state.json` |
| `ver`, `verdict`, `todo` | `targets`, and what its loops have left |
| `held` | what each key has held since the run began (history) |
| `asked` | the target being verified, with the version whose digest its HEAD brought |
| `queue`, `air`, `landed`, `done` | jobs not taken; being read; written but not yet marked; the map `done` |
| `werr`, `ctx`, `pc` | a worker's error; the outer context; the phase of `runPull` |

A run goes `Begin` (probe, list, decide, plan) → `Preallocate` for each target,
biggest first → the drain (`Take`, `Land`, `Mark`, `Retry`, `FetchFails`,
`Checkpoint`, `Cancel`) → `DrainEnds` or `DrainFails` → `AskDigest` and
`Promote` for each target → `Finish`. `NothingToDo` and `DryRun` are its early
returns, and the `...Fails` actions its error paths. `Kill` ends it anywhere.
`AskDigest` is the done check and the HEAD; the bucket may change before
`Promote`, which hashes the partial file, compares and renames: it is one step
because nobody else touches that file meanwhile.

Each save is part of the step that makes it. Nobody looks at what `save`
returns, so where `SavesMayFail` a save may be lost, or leave a torn text, which
`loadState` reads as no state.

There are two worlds. In the *calm* one (`Spec`) an object changes only between
runs, to content it never had, and only the state and, with `FinalsRemoved`,
whole files are removed by hand: what the code claims without verification is
claimed there. In the *harsh* one (`HarshSpec`) objects change under a run, to
old content too, and partial files are removed as well.

`Delivery` lets a path be replaced by any content the bucket has held since the
pull began, and not only by what it holds at that moment: an object replaced
between the HEAD and the rename is installed in its older form.

Abstracted: filters, byte counters, log text. Parts are taken in any order (the
code's order is one of them; `Planner` checks it). A save is one step here;
`StateFile` takes it apart. The loss of power is not modelled. One process at a
time.

### PartPlan and Planner

Sizes are bytes, small ones, with the limits of `plan.go` scaled down as
constants. `Plan` is one turn of the planning loop: a target with none of its
bytes (transfer), some of its parts (resume) or all of them (complete, no job);
`done` keeps which parts need no transfer, and `missingParts` gives the others
their jobs. `Interleave` is the order in which the pool is given them.

### RunParts

One action per operation on a channel or a context. `Feed` is the rendezvous of
the feeder with a receiving worker; both arms of its `select` may be ready, so a
dead context does not prevent it. `LooksAtContext`, `Does`/`Fails`, `Tells`,
`CancelsPool` are the worker's loop, and between them any other goroutine moves.
`Returns` is `wg.Wait`, the two looks at the end and the deferred cancel.

`Pull` and `Push` use a coarser pool: there a worker's error and the cancel of
the pool are one step. `Drain` is the contract both grains share.

### Push

Lengths are counted in parts; a file grows and shrinks at its end, so its first
k parts are known by k. An object is the set of parts it is made of and the
length its `b2x-sha256` was computed over; it is honest when they agree.
Modification times are not kept: each run may meet the files in any order.
The server side of a multipart upload (`open`) is modelled from how `s3.go` uses
it. Each call may succeed, fail for good, or be carried out with its reply lost,
after which the client repeats it. Hashing and the read of a single PUT are one
step; parts are read one by one.

`seen` is what the walk of this run yielded: any of the files, because a
directory or an entry that cannot be read is passed over without an error
(`push.go:67-76`), as are those the filters and the minimum age leave out. What
exit 0 promises (`OthersArrive`) is about the files seen.

### StateFile

The entry of one file, whose parts land and are marked by the pool's contract
(`Drain`: no state of `RunParts` is repeated here). A *saver* is one caller of
`save`, the checkpoint goroutine or `runPull`; `pc` follows it through the lock
(`TakesSnapshot`), `os.WriteFile` (`Opens`, `Writes`) and the rename, and `fd` is
the name its open file has at the moment, because a file opened by one saver may
be renamed or replaced by the other. `Marshalled` is the data race of the code:
the snapshot copies the header of `Done` and not its array, `markPart` sorts that
array when the last part lands, and the text of a save in between may have any of
its parts. `overlapped` is history: a save began while the other was under way.

### Transfer and Outcome

An error is a *kind*, the one `report` would find in its chain. `st` follows each
requester (a part, or `main` for HEAD and LIST) through a request of `do`
(`call`, `backoff`), the body, the judgement of an error by `fetchPart`
(`erred`), and its pause. `met` is history: the kinds of trouble that happened,
which is what an exit code may be compared with. `counted` is `stats.done`.

The tails of `runPull` and `runPush` are not one step: `FloorAsked` reads the
verdict of the watch (phase "tail" to "told"), and `PullTail` or `PushTail` does
the rest. Stopping the watch does not wait for it, so a breach may still be
stored after that; the history calls its kind "late", and the code then returns
the error of a dead context, which names no cause. `CodesOf` maps a kind of
trouble to the codes `report` gives it, as the code does, also where the
documentation says otherwise ("late", "dial" and "unsigned": see the findings).

The guards are on when `Armings` says so, the floor watch and the signal always.
The pool is coarse again, as in `Pull`: its error is the first one told, a dead
context drops the parts not taken. A file of a push is uploaded in one step that
may fail in any way (`Push` has the steps), and so is a HEAD or a page of a
listing; more than one page, or one target, is not modelled.

### Floor

Bytes pass at any pace (`Gains` per unit of time), a part is through or its
attempt breaks or comes up short at any moment, and what `stats.done` shows of
that depends on the command: a pull counts each read and takes back those of a
broken attempt, a push counts a part when it is through. The ticker's channel
has one place (`due`), so a tick is dropped when the last one was not taken, and
the watch may be late for it by `Lag`. Rates are in bytes per unit of time;
the knobs are given as they are set, and go through `EnvFloat` and `EnvSeconds`.

Two lengths of time matter. `Blind` (a window and one late tick) is what the
watch has not judged when the ceiling strikes; `Reaction` (a window and two late
ticks) is how long it may take to see a dead transfer. `FloorComesFirst` has no
premise about the slack: who is ended by the ceiling while the watch runs has
kept to the floor up to `Blind` before it, and what is missing to `Blind` in the
slack is made up by bytes counted of short reads. With a slack of `Reaction`
only those bring a transfer to its ceiling; the defaults have less, and there a
transfer can also get there by dying late (`FloorDefaults`).

## 3. What TLC checks

| run | instance | properties |
|---|---|---|
| `PullCalm` | two objects (2 parts and 1), two versions of the first, saves lost or torn, no whole file removed by hand, 2 workers, 3 runs, 1 event | `TypeOK`, `FinalIntact`, `StateWithinDisk`, `NothingForgotten`, `OkDelivers`, `InterruptedIsResumed`, `Returns`, `Contract` |
| `PullHarsh` | as `PullCalm` with a third version of another size, a foreign file, whole files removed by hand, `--verify`; 2 runs | `NothingForgotten`, `FinalIntact`, `OkDelivers`, `Contract` |
| `Planner` | up to 3 targets of 12 sizes from 0 to 18, any of their parts there; floor 3, caps 5 and 4 | `JobsTileTargets`, `FloorAndCap`, `OrderIsFair`, `OrderSpreads` |
| `RunParts` | 4 jobs, 3 workers | `TypeOK`, `NilMeansAll`, `Contract`, `NobodyIsLeft` |
| `Push` | 2 files of 0 to 2 parts, 2 workers, 2 runs, 1 event | `TypeOK`, `WholeObjects`, `NewestPrefix`, `OthersArrive` |
| `StateFile` | 4 parts, one landed earlier, 2 savers, 1 I/O error | `TypeOK`, `NeverAhead`, `AtomicAlone`, `FinalKeeps` |
| `Transfer` | 2 parts of two reads, or 2 files; 2 tries of a request, 2 attempts at a part; stall guard or ceiling; one kind of trouble | `TypeOK`, `ExitZeroMeansAll`, `CodeNamesCause`, `WordMatchesCode`, `RefusalIsFinal`, `NeverUndercounted`, `PoolEnds`, `CeilingEndsAll` |
| `Floor` | 6 bytes at 0, 1 or 5 per unit, 5 of them under way at most; a window of 3 ticks, taken up to 2 late; slack 8; 16 units of time, 5 bytes lost | `TypeOK`, `CondemnedWasSlow`, `DeadIsCaught`, `FloorComesFirst` |

An *event* is a change of the bucket or the disk by somebody else, a lost reply,
or an attempt that breaks in the middle of a part. Failures, cancels, kills and
checkpoints are not bounded (`MaxRuns` bounds the runs, and so everything).

Why the bounds are enough to be of interest: three runs are an interrupted pull,
a resumed one that is interrupted again, and a last one; two parts are the least
for a file to be torn, and two objects the least for one to fail while the other
goes on; four jobs over three workers leave a job to be dropped when all three
fail at once, and more jobs than the error channel has places; the sizes of
`Planner` reach each branch of `planParts`: below the floor, between floor and
twice the floor, capped, and above the limit of S3 (set below the other cap so
that it is reached), each at its step and beside it; three targets are the least
for the order to choose between two after one has run out. `Push` has symmetry in the files, which no definition
distinguishes. `Planner` stops when it has `MaxTargets` targets, hence no
deadlock check there; elsewhere deadlock is checked, and a run of the process
can always go on. In `StateFile` two savers are all there are; three parts to
land are the least for two snapshots that differ and a mark after both. In
`Transfer` one kind of trouble may happen any number of times, to every request
and part, besides stalls, the ceiling, a floor breach and a signal, which are
never bounded; two parts are the least for one to fail while the other is in any
phase, and two reads the least for a body that ends early to have moved something. In `Floor` the time reaches past the derived ceiling (6 / 1 + 8), and so
covers every length of dead time that a window and its ticks can hide: the bytes
last until the watch has had samples as late as they can be (with `Reaction` one
unit shorter, `DeadIsCaught` fails in this run). The slack is between `Blind` and
`Reaction`, so that both halves of `FloorComesFirst` say something, and the bytes
that may be wasted are enough to keep a transfer above the floor to the ceiling.
`FloorDefaults` has the default knobs with 25 seconds to a unit of time: window
and slack of 12, a tick every 2.

Distinct states: `PullCalm` 301,662, `PullHarsh` 754,438,
`Planner` 210,814, `Push` 993,339, `Transfer` 396,096, `Floor` 1,121,811; the
others are smaller.

### Disagreements between the documentation and the code

Each is a run that TLC must find violated.

| run | property | what happens |
|---|---|---|
| `PullCopies` | `FinalIntact` | one object pulled to two paths of a directory: the state of one is taken for the other's, and a file with holes is promoted (`pull.go:105`) |
| `PullHoles` | `StateWithinDisk` | a removed partial file, and a kill before the first save of the next run: the old state describes a new file of holes (`pull.go:142`) |
| `SaveRace` | `PersistsWhatLanded` | a checkpoint is being saved when `runPull` saves for the last time: an older snapshot, or torn text, becomes `state.json` though nothing failed (`state.go:152`, `pull.go:470`) |
| `FloorDefaults` | `FloorAlwaysFirst` | at the default knobs a transfer in bursts that dies late is ended by the ceiling, with every window judged so far above the floor (`guard.go:283`, `config.go:86-91`) |

Each is also why a property that holds is stated as it is: `PullCopies` is the
hypothesis `NamesAgree` of the theorems below, `PullHoles` the reason partial
files are not removed in the calm world, `SaveRace` the reason `AtomicAlone` and
`FinalKeeps` speak of saves that do not overlap, and `FloorDefaults` the reason
`FloorComesFirst` speaks of `Blind`.

Other disagreements, seen while modelling and not given a run of their own. The
first six are behaviours of the models, and the reason a passing property or a
theorem makes an exception for them:

- An empty object has no part, so nothing creates it: alone it leaves a run that
  returns 0 without its file, beside others one that fails (`pull.go:163`, against
  `docs/USAGE.md:100-101`). The stock of the passing pulls has none, and
  `NoneEmpty` is a hypothesis.
- A save is lost without a word (`pull.go:246`, `252`, `288`). When those after a
  checkpoint are, and the delivered file is removed later, a transfer from the
  start that is killed before its first save leaves the old entry beside a
  preallocated file, as in `PullHoles`, and the run after that promotes a file with
  holes (against `docs/USAGE.md:121`). `RecordsTrusted` is the hypothesis that
  excludes it.
- A floor breach stored after the tail has asked the watch, which nobody waits for,
  ends a push in an anonymous context error with exit 5 (`guard.go:234`,
  `push.go:214-217`, against `guard.go:178-181`): the kind "late" of `CodesOf`.
- `--verify` of an object without a digest ends with 5 (`pull.go:307`, against
  exit 6 in `docs/USAGE.md:35` and `123-124`): the kind "unsigned".
- A connection that cannot be made within the dialer's 15 s is an error that says
  it is a `context.DeadlineExceeded`, so it ends with 7 without any ceiling
  (`main.go:292`, against `docs/USAGE.md:282`): the kind "dial".
- The bytes of a body that ended early stay counted although the attempt failed
  (`pull.go:359-366`, against `docs/USAGE.md:244-245`). `CountsWhatLanded`, which is
  proved, says exactly by how much; `NeverUndercounted` is the half of the claim
  that holds.
- Killed between the last mark and the rename, a pull fetches the whole object
  again: its entry is complete, so it is not resumed (`state.go:220`, against
  `docs/USAGE.md:115-116`).
- An object replaced by another of the same size is never fetched again, though
  the state records the old ETag (`state.go:214`, against
  `docs/USAGE.md:109-117`).
- The last object left is read by the whole pool, above its ceiling
  (`plan.go:156`; `plan.go:65-66` says otherwise, `plan.go:149` calls it an
  average).
- A push cancelled between two parts never aborts its upload: no worker fails,
  and the completion fails on the dead context (`push.go:314`, against
  `docs/USAGE.md:148-150`).
- HEAD and LIST run before any guard is armed and the HTTP client has no timeout
  for a silent peer, so `--deadline` does not bound them (`pull.go:67`,
  `push.go:122`). `PoolEnds` and `CeilingEndsAll` therefore begin at the pool.
- The second save at the end of a pull (`pull.go:288`) never has anything to
  write, and a save that failed has cleared `dirty`, so the next one may not write
  either (`state.go:142`); `FinalKeeps` speaks of runs where no write failed.
- A negative `B2X_MIN_MBPS` disarms floor and ceiling (`config.go:168`), where a
  negative window falls back to its default.
- `guard.go:274-275` gives the ceiling the shape "just above the floor but never
  converges": what is counted reaches the total before that ceiling, so only
  bytes counted of short reads have this shape. The ceiling also ends transfers
  of another shape, those that die late (`FloorDefaults`).
- A push exits 0 though a part of the tree could not be read (`push.go:67-76`).

### Fairness

`Pull`: weak fairness of `Progress`, the steps the process takes by itself once
begun: workers are scheduled, calls return (stall guard and client bound each
attempt, and the attempts are bounded), loops go on. Nothing is assumed of
commands, kills, cancels, checkpoints or of success: a failing step satisfies it
as well. `RunParts`: weak fairness of the feeder, of each worker, of a save and
of the return; strong fairness of the saver's leaving, since Go's `select`
chooses at random among its ready arms, so the arm of the dead context, ready
again and again, is chosen at last. `Transfer`: weak fairness of what the
process does by itself (goroutines are scheduled, timers of backoffs, pauses and
guards expire) and none of the server, the network and the disk, which may stay silent for
ever; that is the point of `PoolEnds` and `CeilingEndsAll`. `Push`, `StateFile`
and `Floor` have no fairness: their properties are safety (`DeadIsCaught` bounds
a time by the clock).

## 4. What is proved

With TLAPS, for every value of the constants that satisfies the assumptions
stated in the modules: `ConstantsAssumption`, `SentinelsAssumption` and
`RequestsAssumption` of `Pull`, `PlanAssumption`, `PoolAssumption`,
`PushAssumption`, `AbsentAssumption` (no object is the mark for no object),
`FileAssumption`, `TransferAssumption`, `FloorAssumption`. Three more are
hypotheses of single theorems, because the code has no such guarantee:

- `NamesAgree`: no two names share an entry or a path (otherwise `PullCopies`).
  For `CalmFinalIntact`, `CalmStateWithinDisk`, `CalmDelivers`, `CalmResumes`.
- `RecordsTrusted`: no save is lost, or no whole file is removed by hand. For the
  same four. The code drops the errors of its saves, and `SaveRace` loses one
  without an error, so this is an assumption about the disk and the user and not
  a fact about the code (without it: section 3, the second of the other
  disagreements). Either half is enough; `PullCalm` checks the second, lost saves.
- `NoneEmpty`: no object is empty (the first of them). For
  `DrainForgetsNothing` and `OkDeliversAll`.

Every safety invariant and every action property of a passing run is proved.

- `PullTypes`: `TypeOK` in both worlds (`TypeCorrect`, `TypeCorrectHarsh`). The
  invariant adds to `TypeOK` how the phases constrain the queues, and that a
  listed name that is resumed has an entry of the version listed.
- `PullSafety`, calm world (`CalmFinalIntact`, `CalmStateWithinDisk`,
  `CalmDelivers`). Neither property is inductive. `SInv` adds: every entry, in
  memory and on disk, that describes the object now in the bucket is backed by
  bytes in the partial file, or (`Excused`) what it describes was promoted and is
  whole at its path, and only its last saves were lost (`Claims`); what is still
  to be fetched is not at its path, so nobody resumes by an excused entry
  (`Unfinished`); entries describe versions the key has had (`Known`, which is why
  new content cannot match an old entry); the object does not change under a run
  (`Steady`); no pending job contradicts either record, so a retry cannot spoil a
  recorded part (`Jobs`); a file whose last part was marked is whole
  (`DoneWhole`); and where no save is lost, promotion begins with the state saved
  (`Saved`). An excused entry stops being harmless when its file is removed, which
  is what `RecordsTrusted` rules out.
- `PullSafety`, harsh world (`VerifiedFinalIntact`, `VerifiedDelivers`): with
  `--verify` the digest alone keeps torn files away, whatever the state says,
  whichever saves are lost and whatever the bucket does, also between the HEAD
  and the rename.
- `PullSafety`, what a run accounts for (`DrainForgetsNothing`, `OkDeliversAll`;
  harsh world, and so the calm one). `Accounted` says that every part of every
  file to fetch is recorded in memory or in a pending job until the file is in
  `done` or a worker has failed, `Arrived` that a name skipped or promoted is at
  its path. They need `NoneEmpty`.
- `PullSafety`, `CalmResumes`: what `SInv` says of the entries is what
  `decideSkip` asks for, so an interrupted pull of an unchanged object resumes.
- `CalmDelivers`, `VerifiedDelivers`: `Pull` implements the safety part of
  `Delivery`. A path is replaced only while a pull runs, and only by the whole
  of the object as the bucket has held it at some time since the run began (the
  digest is asked for before the rename, and the object may be replaced in
  between; `Remembered` says that what was asked for is among what was held). Its liveness, that a run ends, is
  checked by TLC (`Contract`, `Returns`).
- `PlannerProofs`: a plan of an object of any size is sound (`PlanIsSound`), its
  ranges tile the object (`RangesTile`), and so for every reachable queue, where
  the jobs of a target are the bytes it misses, each once
  (`PlannerFloorAndCap`, `PlannerTiles`). The argument is about `ceilDiv`: the
  count is rounded down, so the part size derived from it is at least the floor,
  and recounting from the part size leaves no empty range.
- `PlannerProofs`, the issue order (`InterleaveIsFair`, `InterleaveSpreads`, and
  of every reachable queue `PlannerOrderIsFair`, `PlannerOrderSpreads`). `Rank` is
  the place of a job among those of its object, `Before` the order by rank in
  which two jobs of one rank have different objects. `Holds` says that a sequence
  lists a set in such an order; `Ascending`, a `Round` and the flattening of the
  rounds are shown to hold theirs (`AscendingHolds`, `RoundHolds`,
  `FlattenHolds`). `InterleaveSpreads` counts with it: the least rank that an
  object has waiting bounds from below what was taken of it, and from above the
  ranks taken of any other. The library's induction rules cannot be applied, so
  `AscendingHolds` and `FlattenHolds` take the least counterexample (`Least`,
  from the theorem that the naturals are well-founded).
- `RunPartsProofs`: for any number of jobs and workers, `TypeOK`, `NilMeansAll`
  and the safety part of `Drain` (`PoolTypeCorrect`, `PoolNilMeansAll`,
  `PoolKeepsContract`). The invariant says that a job already offered is finished,
  in the hand of exactly one worker, or accounted for by a cause (an error told or
  about to be told, or a dead context), and that a worker leaves only for such a
  cause or when there is nothing more to receive.
- `StateFileProofs`: `NeverAhead` because every mark, snapshot, text and file
  names landed parts only (`LInv`), whatever the savers do to each other.
  `AtomicAlone` and `FinalKeeps` have an invariant of what a lone save has done so
  far: the temporary file is its own, empty and then its text (`AInv`), and a
  clean state is in the file or in the text of the saver at work (`KInv`).
- `PushProofs`: `TypeOK`, `WholeObjects`, `NewestPrefix`, `OthersArrive`. `Kept`
  says that an upload the server keeps has parts of one length only, `Working`
  that the file in hand has one and that each ETag held is of a part it keeps,
  or else that a completion whose reply was lost has put the whole object there.
  `Passed` splits the plan: the files before the one in hand are there or
  failed, those after it are as they were. `OthersArrive` is about the files the
  walk yielded.
- `TransferProofs`: `TypeOK`, `ExitZeroMeansAll`, `CodeNamesCause`,
  `WordMatchesCode`, `RefusalIsFinal`, `NeverUndercounted` (by the exact count,
  `CountsWhatLanded`). `Caused` says that
  every error kept anywhere (judged or not, first of the pool, end of the
  context) was met, and that every part given up left an error; `Ended` carries
  that through the tails of `runPull` and `runPush`. `CodeNamesCause` says that a
  breach stored when the watch is asked is told as one; of a late one it says only
  that the code is one of those `CodesOf` gives it. `WordMatchesCode` holds of
  every error by itself and needs no invariant. The byte counter is compared with
  the number of reads in the files: a read adds one, the end of an attempt takes
  all of its own, and no attempt begins with reads in it (`Fresh`).
- `FloorProofs`: `TypeOK`, `CondemnedWasSlow`, `DeadIsCaught`, `FloorComesFirst`,
  for any knobs, rates, steps and lags. `Honest`: a sample counts no lost byte.
  `Punctual`: the ticker keeps its beat, so the last sample is at most a step and
  a lag old. `Watched`: since the last byte counted, the first sample came within
  a step and a lag, and none of those samples had become a window old at a
  later one (else the transfer was condemned). `Sustained`: who was not condemned
  has at each sample counted the floor rate for all the time but one window.
  `DeadIsCaught` adds up the first two and the window; `FloorComesFirst` follows
  since at the ceiling the last sample is at most a step and a lag old, and had
  counted the floor rate for all the time but the window before it.

The proof of `DeadIsCaught` found the model wrong: `Reaction` used to allow one
lag only, and TLC agreed, because the instance had too few bytes for both ticks
to come late. It now allows two, and the instance reaches the difference. The
attempt also showed that the knobs have to be integers, which is an assumption now.

Only model-checked: all liveness (`Returns`, `NobodyIsLeft`, `PoolEnds`,
`CeilingEndsAll`, the fairness halves of the contracts), which is out of the
prover's reach.

## 5. Not modelled, and the plan

What is left to prove is how the parts fit together: that the pool of
`Transfer`, coarse as it is, implements the safety part of `Drain`, as `RunParts`
does and as `StateFile` assumes. The queue of `Planner` could also be handed to
`RunParts`, whose jobs have no objects so far.

Not modelled:

- The loss of power between the rename of `state.json` and the flush of what it
  describes; two processes on one destination (the code has no lock, and nothing
  it promises would hold); two plans across two versions of the binary.
- The pages of a listing and the parsing of answers: a listing is one answer.
- `publish.sh` and `verify_prefix.sh`, shell around the binary.
- Request signing (hashes of strings, covered by known answers), parsing of the
  command line and of globs, the choice of credentials (a lookup by prefix),
  `cat`, `ls` and `stat` (one request each), progress output and the selftest
  script: no state, or output only.
