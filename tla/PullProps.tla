----------------------------- MODULE PullProps ------------------------------
(***************************************************************************)
(* What b2x pull promises, stated over Pull.                               *)
(***************************************************************************)
EXTENDS Pull

\* The jobs not yet marked.
Pending == queue \cup air \cup landed

\* An entry that is not complete counts parts of the object it describes.
Fits(e) ==
  e # NoEntry /\ ~e.complete => e.nparts = PartsOf[e.etag] /\ e.done \subseteq Parts(e.etag)

\* Every variable holds a value the code could have put there; no entry counts
\* parts its object has not (planParts, markPart) and no job asks for a range
\* beyond the object that was listed (partRange, missingParts).
TypeOK ==
  /\ remote \in [Keys -> Versions \cup {Absent}]
  /\ seen \in [Keys -> SUBSET (Versions \cup {Absent})]
  /\ partial \in [Paths -> File \cup {NoFile}]
  /\ final \in [Paths -> File \cup {NoFile}]
  /\ durable \in [Rels -> Entry \cup {NoEntry}]
  /\ pc \in {"idle", "queued", "drain", "promote"}
  /\ db \in [Rels -> Entry \cup {NoEntry}]
  /\ ver \in [Names -> Versions \cup {Absent}]
  /\ verdict \in [Names -> {"none", "complete", "resume", "transfer"}]
  /\ held \in [Keys -> SUBSET (Versions \cup {Absent})]
  /\ asked \subseteq todo \X (Versions \cup {Absent})
  /\ todo \subseteq NeedsFile
  /\ Pending \subseteq NeedsFile \X Nat
  /\ \A n \in NeedsFile : ver[n] # Absent
  /\ \A j \in Pending : j[2] \in Parts(ver[j[1]])
  /\ \A l \in Rels : Fits(durable[l]) /\ Fits(db[l])
  /\ done \subseteq Rels
  /\ werr \in BOOLEAN
  /\ ctx \in {"live", "guard", "signal"}
  /\ runs \in Nat /\ events \in Nat

\* A reader of a destination path never sees a torn file: whatever lies there
\* is the whole content of one version (state.go:181-187, the rename
\* discipline that makes the size-only skip sound).
FinalIntact ==
  \A p \in Paths : final[p] # NoFile => \E v \in Versions : final[p] = Whole(v)

\* state.json never describes more than is on the disk (state.go:125-128): a
\* part it records for the object now in the bucket is in the partial file,
\* with the bytes of that very version.
StateWithinDisk ==
  \A n \in Names :
    LET e == durable[RelOf[n]]
        v == remote[KeyOf[n]]
        f == partial[DstOf[n]]
    IN  e # NoEntry /\ ~e.complete /\ e.etag = v /\ RightSize(f, v)
          => \A i \in e.done : f[i] = v

\* "internal: not complete after drain" (pull.go:278) is what its text says:
\* a drain that ended with no error and a live context forgot no part.
NothingForgotten ==
  pc = "promote" /\ ctx = "live" => \A n \in todo : RelOf[n] \in done

\* Exit 0 means every listed object is at its path at the listed size
\* (docs/USAGE.md:98-101), whether it was fetched, resumed or skipped.
OkDelivers ==
  [][Finish \/ NothingToDo =>
       \A n \in Names : verdict[n] # "none" => RightSize(final[DstOf[n]], ver[n])]_vars

\* A pull that was cut short after a checkpoint is resumed, never restarted,
\* as long as its object is unchanged and not yet whole (pull.go:250-251,
\* docs/USAGE.md:129-130): whatever happened in between, state.json and the
\* partial file still agree enough for decideSkip to resume.
InterruptedIsResumed ==
  [][\A r \in Requests : Begin(r) => \A n \in Listed(r) :
       LET e == durable[RelOf[n]]
       IN  e # NoEntry /\ ~e.complete /\ e.etag = remote[KeyOf[n]] /\ e.done # {}
             => verdict'[n] # "transfer"]_vars

-----------------------------------------------------------------------------
\* Every run of the command returns: workers, feeder and guards leave nobody
\* waiting, whatever fails (runParts; the retries of an attempt are bounded).
Returns == pc # "idle" ~> pc = "idle"

\* The pull implements the contract a consumer of the files relies on.
Delivered == INSTANCE Delivery WITH
  Sources <- {<<KeyOf[n], DstOf[n]>> : n \in Names},
  Content <- Whole,
  running <- (pc # "idle")
Contract == Delivered!Spec
=============================================================================
