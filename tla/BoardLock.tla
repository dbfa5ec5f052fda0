------------------------------- MODULE BoardLock -------------------------------
(* The claim on one board: a lockfile with the pid of its owner, read, created  *)
(* and written in separate system calls (m5stack-core-hil/src/lock.rs). A       *)
(* process that is killed leaves its file behind.                               *)
EXTENDS Naturals

CONSTANT Procs              \* the processes that may want the board

VARIABLES
  file,                     \* what the lockfile holds: a pid, or one of NoPid
  linked,                   \* the processes whose open file is still the one at the path
  claim,                    \* where each process stands
  raced                     \* history: two acquires overlapped, and not all is over since

lockVars == <<file, linked, claim, raced>>

NoPid == {"absent", "empty", "stale"}
Stages == {"gone", "found_free", "created", "held", "leaving"}

ASSUME ProcsAssumption == Procs \cap NoPid = {}

LockTypeOK ==
  /\ file \in Procs \cup NoPid
  /\ linked \in SUBSET Procs
  /\ claim \in [Procs -> Stages]
  /\ raced \in BOOLEAN

LockInit ==
  /\ file = "absent"
  /\ linked = {}
  /\ claim = [p \in Procs |-> "gone"]
  /\ raced = FALSE

Alive(p) == claim[p] # "gone"

Acquiring == {p \in Procs : claim[p] \in {"found_free", "created"}}

Holders == {p \in Procs : claim[p] \in {"held", "leaving"}}

Goes(p, stage) == claim' = [claim EXCEPT ![p] = stage]

\* Mutant: nobody asks whether the process in the file is alive.
CheckNotAsking(p) ==
  /\ claim[p] = "gone"
  /\ Goes(p, "found_free")
  /\ raced' = (raced \/ Acquiring # {})
  /\ UNCHANGED <<file, linked>>

\* The file names nobody, or somebody who is no more. A file that was created
\* and not yet written parses as nobody's.
Check(p) ==
  /\ claim[p] = "gone"
  /\ file \in Procs => ~Alive(file)
  /\ Goes(p, "found_free")
  /\ raced' = (raced \/ Acquiring # {})
  /\ UNCHANGED <<file, linked>>

\* File::create makes a file, or empties the one that is there.
Create(p) ==
  /\ claim[p] = "found_free"
  /\ Goes(p, "created")
  /\ file' = "empty"
  /\ linked' = linked \cup {p}
  /\ UNCHANGED raced

\* The pid goes into the file p opened, which another's Drop may have removed.
WritePid(p) ==
  /\ claim[p] = "created"
  /\ Goes(p, "held")
  /\ file' = IF p \in linked THEN p ELSE file
  /\ UNCHANGED <<linked, raced>>

\* Two that raced remove each other's file, so that others claim beside them;
\* with the last process goes what the race has left.
RaceEndsWith(p) == raced' = (raced /\ \E q \in Procs \ {p} : Alive(q))

\* Drop removes the path, whoever's file is there.
Remove(p) ==
  /\ claim[p] = "leaving"
  /\ Goes(p, "gone")
  /\ file' = "absent"
  /\ linked' = {}
  /\ RaceEndsWith(p)

\* A signal ends the process without Drop; its pid stays in the file.
Die(p) ==
  /\ Alive(p)
  /\ Goes(p, "gone")
  /\ file' = IF file = p THEN "stale" ELSE file
  /\ linked' = linked \ {p}
  /\ RaceEndsWith(p)

\* Never: while one run holds the board another claims it (lock.rs 2, 13-15).
OneClaim == \A p, q \in Holders : p = q

\* A board has one owner unless two runs were inside acquire together, and again
\* when these and whoever came beside them are gone: a claim outlives neither its
\* run nor a kill, a stale or empty file is taken over once, and no race is
\* remembered by what it left on the disk.
OneClaimUnlessRaced == ~raced => OneClaim
================================================================================
