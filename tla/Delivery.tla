------------------------------ MODULE Delivery ------------------------------
(***************************************************************************)
(* What a pull promises to whoever reads the destination paths, with no    *)
(* word of parts, partial files, state or verification (docs/USAGE.md:     *)
(* "Downloads are atomic").  While a pull runs, a path may be replaced, in *)
(* one step, by the whole of an object the bucket has held since the pull  *)
(* began; nothing else changes a path while it runs, and the pull ends.    *)
(* The bucket changes when it likes; a file is removed only between pulls. *)
(***************************************************************************)
CONSTANTS Keys, Paths, Sources, Versions, Absent, NoFile, Content(_)
\* Sources: the pairs <<key, path>> a command line can select.
\* Content(v): the bytes of version v.

VARIABLES
  remote, final, running,
  held    \* key -> the versions stored there since the pull began

vars == <<remote, final, running, held>>

Init ==
  /\ remote \in [Keys -> Versions]
  /\ final \in [Paths -> {NoFile} \cup {Content(v) : v \in Versions}]
  /\ running = FALSE
  /\ held = [k \in Keys |-> {}]

Start ==
  /\ ~running /\ running' = TRUE
  /\ held' = [k \in Keys |-> {remote[k]}]
  /\ UNCHANGED <<remote, final>>

Install(k, p) ==
  /\ running
  /\ \E v \in held[k] \ {Absent} : final' = [final EXCEPT ![p] = Content(v)]
  /\ UNCHANGED <<remote, running, held>>

Stop ==
  /\ running /\ running' = FALSE
  /\ held' = [k \in Keys |-> {}]
  /\ UNCHANGED <<remote, final>>

Replace(k) ==
  /\ \E v \in Versions \cup {Absent} :
       /\ remote' = [remote EXCEPT ![k] = v]
       /\ held' = IF running THEN [held EXCEPT ![k] = @ \cup {v}] ELSE held
  /\ UNCHANGED <<final, running>>

Remove(p) ==
  /\ ~running
  /\ final' = [final EXCEPT ![p] = NoFile]
  /\ UNCHANGED <<remote, running, held>>

Next ==
  \/ Start \/ Stop
  \/ \E s \in Sources : Install(s[1], s[2])
  \/ \E k \in Keys : Replace(k)
  \/ \E p \in Paths : Remove(p)

Safety == Init /\ [][Next]_vars
Spec   == Safety /\ WF_vars(Stop)
=============================================================================
