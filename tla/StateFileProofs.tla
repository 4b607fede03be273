--------------------------- MODULE StateFileProofs --------------------------
(***************************************************************************)
(* Proofs about StateFile, for every file, every state that an earlier run *)
(* left and every number of I/O errors.                                    *)
(***************************************************************************)
EXTENDS StateFile, TLAPS

\* What has no part of the file in it.
NoParts == {Absent, Empty, Torn}

\* TypeOK says nothing of the names that a descriptor takes on its way.
FInv ==
  /\ TypeOK
  /\ fd \in [Savers -> {"none", "tmp", "state", "orphan"}]

\* A part is marked, snapshot, written or renamed only when its bytes are there.
LInv ==
  /\ finished \subseteq landed
  /\ \A p \in Savers : text[p] \subseteq landed
  /\ \A name \in {"state", "tmp"} : disk[name] \in NoParts \/ disk[name] \subseteq landed

\* Until two saves overlap, one saver at a time owns the temporary file: it is
\* empty when opened and holds the saver's text when written.
AInv ==
  ~overlapped =>
    /\ \A p, q \in Savers : Busy(p) /\ Busy(q) => p = q
    /\ \A p \in Savers : pc[p] = "open" => fd[p] = "tmp" /\ disk["tmp"] = Empty
    /\ \A p \in Savers : pc[p] = "written" => disk["tmp"] = text[p]
    /\ disk["state"] \notin {Empty, Torn}

\* Without overlap and without an error, a clean state is a state that is in
\* the file, or in the text of the saver at work; and no mark follows runPull's
\* save, which makes it the last one.
KInv ==
  /\ pc["final"] # "idle" => result # "none" /\ ~dirty
  /\ ~overlapped =>
       /\ pc["final"] # "idle" => ~Busy("checkpoint")
       /\ failures = 0 /\ ~dirty =>
            /\ \A p \in Savers : Busy(p) => text[p] = known
            /\ (\A p \in Savers : ~Busy(p)) => Loaded = known

-----------------------------------------------------------------------------
(* Helpers *)

LEMMA OtherSaver == /\ Other("final") = "checkpoint" /\ Other("checkpoint") = "final"
                    /\ \A p \in Savers : Other(p) \in Savers /\ Other(p) # p
BY DEF Other, Savers

\* What json.Marshal makes of a snapshot is the snapshot, or some of the parts
\* once all of them are marked.
LEMMA MarshalledParts ==
  ASSUME NEW S \in SUBSET Parts, NEW t \in Marshalled(S)
  PROVE  t \subseteq Parts /\ (t = S \/ (known = Parts /\ S # Parts))
BY DEF Marshalled

\* What a write leaves in the file is the text or a torn mixture; over an empty
\* file it is the text.
LEMMA OverwrittenText ==
  ASSUME NEW old, NEW new, NEW c \in Overwritten(old, new)
  PROVE  c = new \/ (c = Torn /\ old # Empty)
BY DEF Overwritten

\* A set of parts is none of the other things a file can be.
LEMMA PartsAreParts == \A P : P \subseteq Parts => P \notin NoParts
BY FileAssumption DEF NoParts

-----------------------------------------------------------------------------
(* Types *)

\* One write: the file that the descriptor names becomes one of the contents.
LEMMA PutsType ==
  ASSUME FInv, NEW p \in Savers, NEW contents, pc[p] = "open", Puts(p, contents),
         \A c \in contents : c \in NoParts \/ c \subseteq Parts
  PROVE  /\ DOMAIN disk' = {"state", "tmp"}
         /\ \A name \in DOMAIN disk' : disk'[name] \in NoParts \/ disk'[name] \subseteq Parts
         /\ fd' \in [Savers -> {"none", "tmp", "state", "orphan"}]
         /\ fd' = [fd EXCEPT ![p] = "none"]
BY DEF FInv, TypeOK, Puts, NoParts

LEMMA FStep ==
  ASSUME FInv, [Next]_vars
  PROVE  FInv'
<1> USE DEF FInv, drain, files
<1>t. TypeOK /\ fd \in [Savers -> {"none", "tmp", "state", "orphan"}]
  OBVIOUS
<1>1. ASSUME NEW i \in Jobs, Land(i) \/ MarkPart(i)
      PROVE  FInv'
  BY <1>1, <1>t, FileAssumption DEF Land, MarkPart, Pool!Work, TypeOK, Jobs
<1>2. CASE PoolEvent \/ PoolReturns
  BY <1>2, <1>t DEF PoolEvent, PoolReturns, Pool!Break, Pool!Die, Pool!Return, TypeOK
<1>3. ASSUME NEW p \in Savers, TakesSnapshot(p)
      PROVE  FInv'
  <2>1. known \subseteq Parts
    BY <1>t, FileAssumption DEF known, TypeOK, Jobs
  <2> QED BY <1>3, <1>t, <2>1 DEF TakesSnapshot, MaySave, TypeOK
<1>4. ASSUME NEW p \in Savers, FindsItClean(p)
      PROVE  FInv'
  BY <1>4, <1>t DEF FindsItClean, MaySave, SaveOver, TypeOK
<1>5. ASSUME NEW p \in Savers, Opens(p)
      PROVE  FInv'
  <2>1. PICK t \in Marshalled(text[p]) : text' = [text EXCEPT ![p] = t]
    BY <1>5 DEF Opens
  <2>2. t \subseteq Parts
    BY <2>1, <1>t, MarshalledParts DEF TypeOK
  <2> QED BY <1>5, <1>t, <2>1, <2>2 DEF Opens, TypeOK
<1>6. ASSUME NEW p \in Savers, Writes(p)
      PROVE  FInv'
  <2> DEFINE contents == IF fd[p] = "orphan" THEN {} ELSE Overwritten(disk[fd[p]], text[p])
  <2>1. \A c \in contents : c \in NoParts \/ c \subseteq Parts
    BY <1>t, OverwrittenText DEF TypeOK, NoParts
  <2>2. pc[p] = "open" /\ Puts(p, contents) /\ pc' = [pc EXCEPT ![p] = "written"]
        /\ UNCHANGED <<drain, landed, dirty, text, alive, failures, overlapped>>
    BY <1>6 DEF Writes
  <2> HIDE DEF contents
  <2>3. /\ DOMAIN disk' = {"state", "tmp"}
        /\ \A name \in DOMAIN disk' : disk'[name] \in NoParts \/ disk'[name] \subseteq Parts
        /\ fd' \in [Savers -> {"none", "tmp", "state", "orphan"}]
        /\ fd' = [fd EXCEPT ![p] = "none"]
    BY <2>1, <2>2, PutsType
  <2> QED BY <1>t, <2>2, <2>3 DEF TypeOK, NoParts
<1>7. ASSUME NEW p \in Savers, SaveFails(p)
      PROVE  FInv'
  <2>1. /\ Busy(p) /\ SaveOver(p) /\ failures < MaxFailures /\ failures' = failures + 1
        /\ UNCHANGED <<drain, landed, dirty, text, alive, overlapped>>
    BY <1>7 DEF SaveFails
  <2>2. /\ DOMAIN disk' = {"state", "tmp"}
        /\ \A name \in DOMAIN disk' : disk'[name] \in NoParts \/ disk'[name] \subseteq Parts
        /\ fd' \in [Savers -> {"none", "tmp", "state", "orphan"}]
        /\ fd' = [fd EXCEPT ![p] = "none"]
    <3>1. CASE pc[p] = "open"
      <4>1. Puts(p, {Empty, Torn})
        BY <1>7, <3>1 DEF SaveFails
      <4> QED BY <3>1, <4>1, PutsType DEF NoParts
    <3>2. CASE pc[p] # "open"
      BY <1>7, <1>t, <3>2 DEF SaveFails, TypeOK, NoParts
    <3> QED BY <3>1, <3>2
  <2> QED BY <1>t, <2>1, <2>2, FileAssumption DEF TypeOK, NoParts, SaveOver
<1>8. ASSUME NEW p \in Savers, Renames(p)
      PROVE  FInv'
  BY <1>8, <1>t DEF Renames, Renamed, SaveOver, TypeOK
<1>9. CASE Stops \/ Gone \/ UNCHANGED vars
  BY <1>9, <1>t DEF Stops, Gone, vars, TypeOK
<1> QED BY <1>1, <1>2, <1>3, <1>4, <1>5, <1>6, <1>7, <1>8, <1>9 DEF Next

LEMMA FInit == Init => FInv
<1> SUFFICES ASSUME Init PROVE FInv
  OBVIOUS
<1>1. DOMAIN disk = {"state", "tmp"} /\ disk["tmp"] = Absent
      /\ (disk["state"] = Absent \/ disk["state"] \subseteq Parts)
  BY FileAssumption DEF Init
<1>2. \A name \in DOMAIN disk : disk[name] \in {Absent, Empty, Torn} \/ disk[name] \subseteq Parts
  BY <1>1
<1>3. /\ pc \in [Savers -> {"idle"}] /\ text \in [Savers -> {{}}] /\ fd \in [Savers -> {"none"}]
  BY DEF Init
<1>4. /\ pc \in [Savers -> {"idle", "taken", "open", "written", "over"}]
      /\ text \in [Savers -> SUBSET Parts]
      /\ \A p \in Savers : pc[p] = "idle" /\ fd[p] = "none"
  BY <1>3
<1>5. finished \subseteq Jobs /\ Earlier \subseteq landed /\ landed \subseteq Parts
  BY FileAssumption DEF Init, Pool!Init
<1>6. {failed, dirty, alive, overlapped} \subseteq BOOLEAN
  BY DEF Init, Pool!Init
<1>7. ctx = "live" /\ result = "none" /\ failures \in 0 .. MaxFailures
  BY FileAssumption DEF Init, Pool!Init
<1> QED BY <1>7, <1>1, <1>2, <1>3, <1>4, <1>5, <1>6 DEF FInv, TypeOK

LEMMA Typed == Spec => []FInv
<1>1. FInv /\ [Next]_vars => FInv'
  BY FStep
<1> QED BY FInit, <1>1, PTL DEF Spec

\* Every variable of the state file holds a value the code can put there, and
\* only a saver between its open and its write has a file open (state.go, save).
THEOREM StateFileTypeCorrect == Spec => []TypeOK
BY Typed, PTL DEF FInv
-----------------------------------------------------------------------------
(* Nothing is written that has not landed *)

LEMMA LStep ==
  ASSUME FInv, LInv, [Next]_vars
  PROVE  LInv'
<1> USE DEF drain, files
<1>t. TypeOK /\ fd \in [Savers -> {"none", "tmp", "state", "orphan"}]
      /\ finished \subseteq landed
      /\ \A p \in Savers : text[p] \subseteq landed
      /\ \A name \in {"state", "tmp"} : disk[name] \in NoParts \/ disk[name] \subseteq landed
  BY DEF FInv, LInv
<1>k. known \subseteq landed
  BY <1>t DEF known, TypeOK
<1>1. ASSUME NEW i \in Jobs, Land(i)
      PROVE  LInv'
  BY <1>1, <1>t DEF Land, LInv
<1>2. ASSUME NEW i \in Jobs, MarkPart(i)
      PROVE  LInv'
  BY <1>2, <1>t DEF MarkPart, Pool!Work, LInv
<1>3. CASE PoolEvent \/ PoolReturns
  BY <1>3, <1>t DEF PoolEvent, PoolReturns, Pool!Break, Pool!Die, Pool!Return, LInv
<1>4. ASSUME NEW p \in Savers, TakesSnapshot(p)
      PROVE  LInv'
  BY <1>4, <1>t, <1>k DEF TakesSnapshot, LInv, TypeOK
<1>5. ASSUME NEW p \in Savers, FindsItClean(p)
      PROVE  LInv'
  BY <1>5, <1>t DEF FindsItClean, LInv
<1>6. ASSUME NEW p \in Savers, Opens(p)
      PROVE  LInv'
  <2>1. PICK t \in Marshalled(text[p]) : text' = [text EXCEPT ![p] = t]
    BY <1>6 DEF Opens
  <2>2. t \subseteq landed
    BY <2>1, <1>t, <1>k, MarshalledParts DEF TypeOK
  <2>3. disk' = [disk EXCEPT !["tmp"] = Empty] /\ UNCHANGED <<drain, landed>>
    BY <1>6 DEF Opens
  <2> QED BY <1>t, <2>1, <2>2, <2>3 DEF LInv, NoParts, TypeOK
<1>7. ASSUME NEW p \in Savers, Writes(p)
      PROVE  LInv'
  <2>1. CASE fd[p] = "orphan"
    BY <1>7, <1>t, <2>1 DEF Writes, Puts, LInv
  <2>2. CASE fd[p] # "orphan"
    <3>1. PICK c \in Overwritten(disk[fd[p]], text[p]) : disk' = [disk EXCEPT ![fd[p]] = c]
      BY <1>7, <2>2 DEF Writes, Puts
    <3>2. c \in NoParts \/ c \subseteq landed
      BY <1>t, OverwrittenText DEF NoParts
    <3> QED BY <1>7, <1>t, <3>1, <3>2 DEF Writes, LInv, TypeOK
  <2> QED BY <2>1, <2>2
<1>8. ASSUME NEW p \in Savers, SaveFails(p)
      PROVE  LInv'
  <2>1. disk' = disk \/ \E c \in {Empty, Torn} : disk' = [disk EXCEPT ![fd[p]] = c]
    BY <1>8 DEF SaveFails, Puts
  <2> QED BY <1>8, <1>t, <2>1 DEF SaveFails, LInv, NoParts, TypeOK
<1>9. ASSUME NEW p \in Savers, Renames(p)
      PROVE  LInv'
  <2>1. \/ disk' = disk
        \/ disk'["state"] = disk["tmp"] /\ disk'["tmp"] = Absent
    BY <1>9 DEF Renames
  <2> QED BY <1>9, <1>t, <2>1 DEF Renames, LInv, NoParts
<1>10. CASE Stops \/ Gone \/ UNCHANGED vars
  BY <1>10, <1>t DEF Stops, Gone, vars, LInv
<1> QED BY <1>1, <1>2, <1>3, <1>4, <1>5, <1>6, <1>7, <1>8, <1>9, <1>10 DEF Next

\* Wherever the process stops, whatever the two savers do to each other's
\* temporary file and whatever the sort of Done does to a snapshot, the state
\* file describes no part that has not landed (state.go:126-127).
THEOREM StateFileNeverAhead == Spec => []NeverAhead
<1>1. Init => LInv
  BY DEF Init, Pool!Init, LInv, NoParts
<1>2. FInv /\ LInv /\ [Next]_vars => LInv'
  BY LStep
<1>3. LInv => NeverAhead
  BY DEF LInv, NeverAhead, Loaded, NoParts
<1> QED BY <1>1, <1>2, <1>3, Typed, PTL DEF Spec
-----------------------------------------------------------------------------
(* One saver at a time *)

\* A saver that finds the other one busy has overlapped; the others leave
\* overlapped alone.
LEMMA OverlapGrows ==
  ASSUME FInv, [Next]_vars, ~overlapped'
  PROVE  ~overlapped
BY DEF Next, Land, MarkPart, PoolEvent, PoolReturns, TakesSnapshot, FindsItClean, Opens, Writes,
       SaveFails, Renames, Stops, Gone, vars

\* What a step of a saver that is alone does to the two files.
LEMMA AloneStep ==
  ASSUME FInv, AInv, ~overlapped, NEW p \in Savers
  PROVE  /\ Opens(p) => disk' = [disk EXCEPT !["tmp"] = Empty] /\ fd'[p] = "tmp"
         /\ Writes(p) => disk' = [disk EXCEPT !["tmp"] = text[p]]
         /\ SaveFails(p) => disk'["state"] = disk["state"]
         /\ Renames(p) => disk'["state"] = text[p] /\ text[p] \notin NoParts
<1>t. /\ TypeOK /\ fd \in [Savers -> {"none", "tmp", "state", "orphan"}]
      /\ pc[p] = "open" => fd[p] = "tmp" /\ disk["tmp"] = Empty
      /\ pc[p] = "written" => disk["tmp"] = text[p]
  BY DEF FInv, AInv
<1>1. text[p] \notin NoParts
  BY <1>t, PartsAreParts DEF TypeOK
<1>2. Opens(p) => disk' = [disk EXCEPT !["tmp"] = Empty] /\ fd'[p] = "tmp"
  BY <1>t DEF Opens
<1>3. ASSUME Writes(p)
      PROVE  disk' = [disk EXCEPT !["tmp"] = text[p]]
  <2>1. PICK c \in Overwritten(disk["tmp"], text[p]) : disk' = [disk EXCEPT !["tmp"] = c]
    BY <1>t, <1>3 DEF Writes, Puts
  <2>2. c = text[p]
    BY <1>t, <1>3, <2>1, OverwrittenText DEF Writes
  <2> QED BY <2>1, <2>2
<1>4. SaveFails(p) => disk'["state"] = disk["state"]
  BY <1>t DEF SaveFails, Puts, TypeOK
<1>5. ASSUME Renames(p)
      PROVE  disk'["state"] = text[p]
  <2>1. disk["tmp"] = text[p] /\ disk["tmp"] # Absent
    BY <1>t, <1>1, <1>5 DEF Renames, NoParts
  <2> QED BY <1>5, <2>1 DEF Renames
<1> QED BY <1>1, <1>2, <1>3, <1>4, <1>5

LEMMA AStep ==
  ASSUME FInv, AInv, [Next]_vars
  PROVE  AInv'
<1> SUFFICES ASSUME ~overlapped'
             PROVE  /\ \A p, q \in Savers : Busy(p)' /\ Busy(q)' => p = q
                    /\ \A p \in Savers : pc'[p] = "open" => fd'[p] = "tmp" /\ disk'["tmp"] = Empty
                    /\ \A p \in Savers : pc'[p] = "written" => disk'["tmp"] = text'[p]
                    /\ disk'["state"] \notin {Empty, Torn}
  BY DEF AInv
<1> USE DEF drain, files, Busy
<1>t. /\ ~overlapped
      /\ TypeOK /\ fd \in [Savers -> {"none", "tmp", "state", "orphan"}]
      /\ \A p, q \in Savers : Busy(p) /\ Busy(q) => p = q
      /\ \A p \in Savers : pc[p] = "open" => fd[p] = "tmp" /\ disk["tmp"] = Empty
      /\ \A p \in Savers : pc[p] = "written" => disk["tmp"] = text[p]
      /\ disk["state"] \notin {Empty, Torn}
  BY OverlapGrows DEF AInv, FInv
<1>1. ASSUME NEW i \in Jobs, Land(i) \/ MarkPart(i)
      PROVE  UNCHANGED <<pc, text, fd, disk>>
  BY <1>1 DEF Land, MarkPart
<1>2. CASE PoolEvent \/ PoolReturns \/ Stops \/ Gone \/ UNCHANGED vars
  BY <1>2, <1>t DEF PoolEvent, PoolReturns, Stops, Gone, vars
<1>3. ASSUME NEW p \in Savers, TakesSnapshot(p)
      PROVE  AInv'
  <2>1. \A q \in Savers : ~Busy(q)
    BY <1>3, <1>t, OtherSaver DEF TakesSnapshot, MaySave, Savers
  <2> QED BY <1>3, <1>t, <2>1 DEF TakesSnapshot, TypeOK, AInv
<1>4. ASSUME NEW p \in Savers, FindsItClean(p)
      PROVE  AInv'
  BY <1>4, <1>t DEF FindsItClean, SaveOver, TypeOK, AInv
<1>5. ASSUME NEW p \in Savers, Opens(p)
      PROVE  AInv'
  <2>1. /\ pc[p] = "taken" /\ pc' = [pc EXCEPT ![p] = "open"]
        /\ fd' = [fd EXCEPT ![p] = "tmp"] /\ disk' = [disk EXCEPT !["tmp"] = Empty]
    BY <1>5 DEF Opens
  <2>2. \A q \in Savers : q # p => ~Busy(q)
    BY <1>t, <2>1
  <2> QED BY <1>t, <2>1, <2>2 DEF TypeOK, AInv
<1>6. ASSUME NEW p \in Savers, Writes(p)
      PROVE  AInv'
  <2>1. /\ pc[p] = "open" /\ pc' = [pc EXCEPT ![p] = "written"] /\ text' = text
        /\ disk' = [disk EXCEPT !["tmp"] = text[p]]
    BY <1>6, <1>t, AloneStep DEF Writes
  <2>2. \A q \in Savers : q # p => ~Busy(q)
    BY <1>t, <2>1
  <2> QED BY <1>t, <2>1, <2>2 DEF TypeOK, AInv
<1>7. ASSUME NEW p \in Savers, SaveFails(p)
      PROVE  AInv'
  <2>1. /\ Busy(p) /\ SaveOver(p) /\ disk'["state"] = disk["state"]
    BY <1>7, <1>t, AloneStep DEF SaveFails
  <2>2. \A q \in Savers : ~Busy(q)'
    BY <1>t, <2>1 DEF SaveOver, TypeOK
  <2> QED BY <1>t, <2>1, <2>2 DEF AInv
<1>8. ASSUME NEW p \in Savers, Renames(p)
      PROVE  AInv'
  <2>1. Busy(p) /\ SaveOver(p) /\ disk'["state"] \notin {Empty, Torn}
    BY <1>8, <1>t, AloneStep DEF Renames, NoParts
  <2>2. \A q \in Savers : ~Busy(q)'
    BY <1>t, <2>1 DEF SaveOver, TypeOK
  <2> QED BY <2>1, <2>2 DEF AInv
<1> QED BY <1>t, <1>1, <1>2, <1>3, <1>4, <1>5, <1>6, <1>7, <1>8 DEF Next, AInv

LEMMA AInit == Init => AInv
<1> SUFFICES ASSUME Init PROVE AInv
  OBVIOUS
<1>1. \A p \in Savers : pc[p] = "idle"
  BY DEF Init
<1>2. disk["state"] \notin {Empty, Torn}
  BY FileAssumption DEF Init
<1> QED BY <1>1, <1>2 DEF AInv, Busy

LEMMA OneAtATime == Spec => [](FInv /\ AInv)
<1>1. FInv /\ AInv /\ [Next]_vars => AInv'
  BY AStep
<1> QED BY AInit, <1>1, Typed, PTL DEF Spec

\* save writes the state atomically (state.go:125): as long as the savers keep
\* out of each other's way, no kill and no failed write, and they may be any
\* number, leaves a state.json that does not parse.
THEOREM SaveIsAtomicAlone == Spec => []AtomicAlone
<1>1. AInv => AtomicAlone
  BY DEF AInv, AtomicAlone
<1> QED BY <1>1, OneAtATime, PTL
-----------------------------------------------------------------------------
(* What the last save leaves *)

\* known is fixed from the return of runParts on, and marks set dirty.
LEMMA KStep ==
  ASSUME FInv, AInv, KInv, [Next]_vars
  PROVE  KInv'
<1> USE DEF drain, files, Busy
<1>t. TypeOK
  BY DEF FInv
<1>b. /\ Savers = {"checkpoint", "final"}
      /\ pc["final"] # "idle" => result # "none" /\ ~dirty
  BY DEF KInv, Savers
<1>o. ~overlapped' => ~overlapped
  BY OverlapGrows
<1>k. ~overlapped =>
       /\ pc["final"] # "idle" => ~Busy("checkpoint")
       /\ failures = 0 /\ ~dirty =>
            /\ \A p \in Savers : Busy(p) => text[p] = known
            /\ (\A p \in Savers : ~Busy(p)) => Loaded = known
  BY DEF KInv
<1>f. failures' = 0 => failures = 0
  BY <1>t DEF Next, Land, MarkPart, PoolEvent, PoolReturns, TakesSnapshot, FindsItClean, Opens, Writes,
       SaveFails, Renames, Stops, Gone, vars, TypeOK
<1>1. ASSUME NEW i \in Jobs, Land(i)
      PROVE  KInv'
  BY <1>1, <1>b, <1>k DEF Land, KInv, known, Loaded
<1>2. ASSUME NEW i \in Jobs, MarkPart(i)
      PROVE  KInv'
  BY <1>2, <1>b, <1>k DEF MarkPart, Pool!Work, KInv
<1>3. CASE PoolEvent \/ PoolReturns
  <2>1. /\ UNCHANGED <<finished, dirty, pc, text, disk, failures, overlapped>>
        /\ result # "none" => result' # "none"
    BY <1>3 DEF PoolEvent, PoolReturns, Pool!Break, Pool!Die, Pool!Return
  <2> QED BY <2>1, <1>b, <1>k DEF KInv, known, Loaded
<1>4. ASSUME NEW p \in Savers, TakesSnapshot(p)
      PROVE  KInv'
  <2>1. /\ MaySave(p) /\ dirty /\ text' = [text EXCEPT ![p] = known] /\ ~dirty'
        /\ pc' = [pc EXCEPT ![p] = "taken"] /\ overlapped' = (overlapped \/ Busy(Other(p)))
        /\ UNCHANGED <<drain, disk, failures>>
    BY <1>4 DEF TakesSnapshot
  <2>2. pc["final"] = "idle" /\ (p = "final" => result # "none")
    BY <2>1, <1>b DEF MaySave
  <2>3. ~overlapped' => \A q \in Savers : q # p => ~Busy(q)
    BY <2>1, <1>b, OtherSaver
  <2> QED BY <1>t, <1>b, <2>1, <2>2, <2>3 DEF KInv, TypeOK, known
<1>5. ASSUME NEW p \in Savers, FindsItClean(p)
      PROVE  KInv'
  <2>1. /\ MaySave(p) /\ ~dirty /\ SaveOver(p) /\ overlapped' = (overlapped \/ Busy(Other(p)))
        /\ UNCHANGED <<drain, dirty, text, disk, failures>>
    BY <1>5 DEF FindsItClean
  <2>2. \A q \in Savers : Busy(q)' <=> Busy(q)
    BY <2>1, <1>t DEF SaveOver, MaySave, TypeOK
  <2>3. ~overlapped' /\ p = "final" => ~Busy("checkpoint")
    BY <2>1, OtherSaver
  <2>4. pc'["final"] # "idle" => pc["final"] # "idle" \/ p = "final"
    BY <2>1, <1>t, <1>b DEF SaveOver, TypeOK
  <2>5. p = "final" => result # "none"
    BY <2>1 DEF MaySave
  <2>6. UNCHANGED <<known, Loaded>>
    BY <2>1 DEF known, Loaded
  <2>7. pc'["final"] # "idle" => result' # "none" /\ ~dirty'
    BY <1>b, <2>1, <2>4, <2>5
  <2>8. ASSUME ~overlapped'
        PROVE  pc'["final"] # "idle" => ~Busy("checkpoint")'
    BY <1>b, <1>k, <1>o, <2>2, <2>3, <2>4, <2>8
  <2>9. ASSUME ~overlapped', failures' = 0, ~dirty'
        PROVE  /\ \A q \in Savers : Busy(q)' => text'[q] = known'
               /\ (\A q \in Savers : ~Busy(q)') => Loaded' = known'
    BY <1>k, <1>o, <2>1, <2>2, <2>6, <2>9
  <2> QED BY <2>7, <2>8, <2>9 DEF KInv
<1>6. ASSUME NEW p \in Savers, Opens(p)
      PROVE  KInv'
  <2>1. PICK t \in Marshalled(text[p]) : text' = [text EXCEPT ![p] = t]
    BY <1>6 DEF Opens
  <2>2. t = text[p] \/ text[p] # known
    BY <1>t, <2>1, MarshalledParts DEF TypeOK
  <2>3. /\ Busy(p) /\ pc' = [pc EXCEPT ![p] = "open"]
        /\ UNCHANGED <<drain, dirty, failures, overlapped>>
    BY <1>6 DEF Opens
  <2>4. \A q \in Savers : Busy(q)' <=> Busy(q)
    BY <1>t, <2>3 DEF TypeOK
  <2>5. pc'["final"] # "idle" => pc["final"] # "idle"
    BY <1>t, <1>b, <2>3 DEF TypeOK
  <2>6. ASSUME ~overlapped', failures' = 0, ~dirty', NEW q \in Savers, Busy(q)'
        PROVE  text'[q] = known'
    BY <1>t, <1>k, <2>1, <2>2, <2>3, <2>4, <2>6 DEF TypeOK, known
  <2>7. Busy(p)'
    BY <2>3, <2>4
  <2> QED BY <1>b, <1>k, <2>3, <2>4, <2>5, <2>6, <2>7 DEF KInv
<1>7. ASSUME NEW p \in Savers, Writes(p)
      PROVE  KInv'
  <2>1. /\ Busy(p) /\ pc' = [pc EXCEPT ![p] = "written"]
        /\ UNCHANGED <<drain, dirty, text, failures, overlapped>>
    BY <1>7 DEF Writes
  <2>2. \A q \in Savers : Busy(q)' <=> Busy(q)
    BY <1>t, <2>1 DEF TypeOK
  <2>3. pc'["final"] # "idle" => pc["final"] # "idle"
    BY <1>t, <1>b, <2>1 DEF TypeOK
  <2> QED BY <1>b, <1>k, <2>1, <2>2, <2>3 DEF KInv, known
<1>8. ASSUME NEW p \in Savers, SaveFails(p)
      PROVE  KInv'
  <2>1. /\ Busy(p) /\ SaveOver(p) /\ failures' # 0
        /\ UNCHANGED <<drain, dirty, overlapped>>
    BY <1>8, <1>t DEF SaveFails, TypeOK
  <2>2. \A q \in Savers : Busy(q)' => Busy(q)
    BY <1>t, <2>1 DEF SaveOver, TypeOK
  <2>3. pc'["final"] # "idle" => pc["final"] # "idle"
    BY <1>t, <1>b, <2>1 DEF SaveOver, TypeOK
  <2> QED BY <1>b, <1>k, <2>1, <2>2, <2>3 DEF KInv
<1>9. ASSUME NEW p \in Savers, Renames(p)
      PROVE  KInv'
  <2>1. /\ Busy(p) /\ SaveOver(p)
        /\ UNCHANGED <<drain, dirty, text, failures, overlapped>>
    BY <1>9 DEF Renames
  <2>2. \A q \in Savers : Busy(q)' => Busy(q) /\ q # p
    BY <1>t, <2>1 DEF SaveOver, TypeOK
  <2>3. pc'["final"] # "idle" => pc["final"] # "idle"
    BY <1>t, <1>b, <2>1 DEF SaveOver, TypeOK
  <2>4. ~overlapped => Loaded' = text[p]
    BY <1>9, AloneStep DEF Loaded, NoParts
  <2>5. ASSUME ~overlapped', failures' = 0, ~dirty'
        PROVE  /\ \A q \in Savers : Busy(q)' => text'[q] = known'
               /\ Loaded' = known'
    BY <1>k, <2>1, <2>2, <2>4, <2>5 DEF known
  <2> QED BY <1>b, <1>k, <2>1, <2>2, <2>3, <2>5 DEF KInv
<1>10. CASE Stops \/ Gone \/ UNCHANGED vars
  BY <1>10, <1>b, <1>k DEF Stops, Gone, vars, KInv, known, Loaded
<1> QED BY <1>1, <1>2, <1>3, <1>4, <1>5, <1>6, <1>7, <1>8, <1>9, <1>10 DEF Next

LEMMA KInit == Init => KInv
<1> SUFFICES ASSUME Init PROVE KInv
  OBVIOUS
<1>1. \A p \in Savers : pc[p] = "idle" /\ ~Busy(p)
  BY DEF Init, Busy
<1>2. known = Earlier
  BY DEF Init, Pool!Init, known
<1>3. Loaded = Earlier
  BY PartsAreParts, FileAssumption DEF Init, Loaded, NoParts
<1> QED BY <1>1, <1>2, <1>3 DEF KInv, Savers

\* "Always persist what landed, even on failure" (pull.go:250): when runPull's
\* save is over, every mark is in state.json, also those set while a checkpoint
\* was being written, unless a write failed or two saves overlapped.
THEOREM FinalSaveKeeps == Spec => []FinalKeeps
<1>1. FInv /\ AInv /\ KInv /\ [Next]_vars => KInv'
  BY KStep
<1>2. FInv /\ KInv => FinalKeeps
  BY DEF FInv, TypeOK, KInv, FinalKeeps, Busy, Savers
<1> QED BY KInit, <1>1, <1>2, OneAtATime, PTL DEF Spec
=============================================================================
