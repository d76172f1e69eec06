------------------------------- MODULE PlanLock -------------------------------
(***************************************************************************)
(* The lock directory of one plan folder,                                  *)
(* packages/agent-workflows/src/lock/plan-lock.ts: acquireLock with its    *)
(* sweep, the judgement of staleness and the takeover, and releaseLock,    *)
(* run by several operating-system processes.                              *)
(*                                                                         *)
(* An action is one file-system call, or the synchronous code between two. *)
(* Processes die at any point, and a later process may be given the same   *)
(* pid: it is the next life of the same element of Procs.                  *)
(***************************************************************************)
EXTENDS Naturals, FiniteSets

CONSTANTS
  Procs,            \* pids
  Remote,           \* those that run on another host and share the folder
  MaxAttempts,      \* maxAttempts, 16 in the code
  ResidueThreshold, \* crashResidueThreshold, 4 in the code
  MaxDeaths         \* bound: processes that die

ASSUME LockAssumption ==
  /\ Remote \subseteq Procs
  /\ MaxAttempts \in Nat \ {0} /\ ResidueThreshold \in Nat \ {0}
  /\ MaxDeaths \in Nat

VARIABLES
  lock,     \* the lock directory: present, its metadata, older than a day
  life,     \* which process has the pid now
  pc,       \* the call each process is about to make
  saw,      \* the metadata it last read
  missing,  \* consecutiveMissingMeta
  attempt,  \* the loop counter of acquireLock
  robbed,   \* history: who lost the directory it last took to another process
  orphaned, \* history: the owner of the directory ended without a release
  peace     \* history: nobody died, and missing metadata was judged residue by none

lockVars == <<lock, life, pc, saw, missing, attempt, robbed, orphaned, peace>>

Unknown == 0        \* ps did not answer: processStartedAt is ""
Lives == 1 .. MaxDeaths + 1

(* metadata.json: whose it is, when that process started, and whether the  *)
(* file is written to its end.                                             *)
Metadata == [pid : Procs, born : Lives \cup {Unknown}, whole : BOOLEAN]
NoMeta == [none |-> TRUE]
NoDir == [present |-> FALSE, meta |-> NoMeta, old |-> FALSE]
Dir(meta) == [present |-> TRUE, meta |-> meta, old |-> FALSE]

SweepSteps == {"sweepRead", "sweepJudge", "sweepUnlink", "sweepRmdir"}
LoopSteps == {"mkdir", "open", "fill", "read", "judge", "rename"}
ReleaseSteps == {"unlink", "rmdir"}

LockTypeOK ==
  /\ lock \in [present : BOOLEAN, meta : Metadata \cup {NoMeta}, old : BOOLEAN]
  /\ ~lock.present => lock = NoDir
  /\ life \in [Procs -> Lives]
  /\ saw \in [Procs -> Metadata \cup {NoMeta}]
  /\ missing \in [Procs -> 0 .. ResidueThreshold]
  /\ attempt \in [Procs -> 0 .. MaxAttempts - 1]
  /\ robbed \subseteq Procs
  /\ orphaned \in BOOLEAN /\ peace \in BOOLEAN

LockInit ==
  /\ lock = NoDir
  /\ life = [p \in Procs |-> 1]
  /\ pc = [p \in Procs |-> "idle"]
  /\ saw = [p \in Procs |-> NoMeta]
  /\ missing = [p \in Procs |-> 0]
  /\ attempt = [p \in Procs |-> 0]
  /\ robbed = {} /\ orphaned = FALSE
  /\ peace = TRUE

-----------------------------------------------------------------------------
Goto(p, step) == pc' = [pc EXCEPT ![p] = step]

Dead(p) == pc[p] = "dead"

(* What a reader makes of the directory: a file that is absent or not      *)
(* written to its end is no metadata.                                      *)
Readable == IF lock.meta # NoMeta /\ lock.meta.whole THEN lock.meta ELSE NoMeta

(* Broken variant: a start time that ps cannot tell counts as another one. *)
StaleIfUntold(p, m, started) ==
  \/ (p \in Remote) # (m.pid \in Remote)
  \/ Dead(m.pid)
  \/ m.born # Unknown /\ started # m.born

(* Another host's lock, a dead pid's, or a pid that is another process now *)
(* - if ps tells when that process started.                                *)
Stale(p, m, started) ==
  \/ (p \in Remote) # (m.pid \in Remote)
  \/ Dead(m.pid)
  \/ m.born # Unknown /\ started # Unknown /\ started # m.born

(* The answers ps may give about a pid.                                    *)
Started(q) == {Unknown, life[q]}

(* Who has no lock to lose: nobody else's pc is one of these.              *)
Without ==
  {"idle", "dead", "rmdir"} \cup SweepSteps \cup (LoopSteps \ {"fill"})

(* This step takes away the metadata of its owner, if that is another one. *)
Rob(p) ==
  robbed' = IF lock.meta = NoMeta THEN robbed
            ELSE robbed \cup {q \in {lock.meta.pid} \ {p} : pc[q] \notin Without}
Take(p) == Rob(p) /\ orphaned' = FALSE

(* Here p ends without a release.                                          *)
Orphan(p) == orphaned' = (orphaned \/ (lock.meta # NoMeta /\ lock.meta.pid = p))

(* acquireLock returns or throws, and its locals are gone.                 *)
Return(p, step) ==
  /\ Goto(p, step)
  /\ missing' = [missing EXCEPT ![p] = 0]
  /\ attempt' = [attempt EXCEPT ![p] = 0]

(* `continue` of the loop with `count` misses, and LockHeldError when the   *)
(* attempts are used up.                                                   *)
Retry(p, count) ==
  IF attempt[p] + 1 < MaxAttempts
  THEN /\ attempt' = [attempt EXCEPT ![p] = @ + 1]
       /\ missing' = [missing EXCEPT ![p] = count]
       /\ Goto(p, "mkdir")
  ELSE Return(p, "idle")

-----------------------------------------------------------------------------
(* acquireLock begins with the sweep, which looks at lock directories that *)
(* are older than a day only.                                              *)
Begin(p) ==
  /\ pc[p] = "idle"
  /\ Goto(p, IF lock.old THEN "sweepRead" ELSE "mkdir")
  /\ UNCHANGED <<lock, life, saw, missing, attempt, robbed, orphaned, peace>>

SweepRead(p) ==
  /\ pc[p] = "sweepRead"
  /\ saw' = [saw EXCEPT ![p] = Readable]
  /\ Goto(p, IF Readable = NoMeta THEN "sweepUnlink" ELSE "sweepJudge")
  /\ peace' = (peace /\ Readable # NoMeta)
  /\ UNCHANGED <<lock, life, missing, attempt, robbed, orphaned>>

SweepJudge(p) ==
  /\ pc[p] = "sweepJudge"
  /\ \E started \in Started(saw[p].pid) :
       Goto(p, IF Stale(p, saw[p], started) THEN "sweepUnlink" ELSE "mkdir")
  /\ saw' = [saw EXCEPT ![p] = NoMeta]
  /\ UNCHANGED <<lock, life, missing, attempt, robbed, orphaned, peace>>

(* rm -r empties the directory that is there now ...                       *)
Empty(p) ==
  /\ lock' = IF lock.meta = NoMeta THEN lock ELSE Dir(NoMeta)
  /\ Take(p)

(* ... and removes it if it is still empty.                                *)
RemoveEmpty == lock' = IF lock.meta = NoMeta THEN NoDir ELSE lock

SweepUnlink(p) ==
  /\ pc[p] = "sweepUnlink"
  /\ Empty(p)
  /\ Goto(p, "sweepRmdir")
  /\ UNCHANGED <<life, saw, missing, attempt, peace>>

SweepRmdir(p) ==
  /\ pc[p] = "sweepRmdir"
  /\ RemoveEmpty
  /\ Goto(p, "mkdir")
  /\ UNCHANGED <<life, saw, missing, attempt, robbed, orphaned, peace>>

-----------------------------------------------------------------------------
(* The loop.  mkdir fails if the directory exists.                         *)
Mkdir(p) ==
  /\ pc[p] = "mkdir"
  /\ IF lock.present
       THEN Goto(p, "read") /\ UNCHANGED lock
       ELSE Goto(p, "open") /\ lock' = Dir(NoMeta)
  /\ UNCHANGED <<life, saw, missing, attempt, robbed, orphaned, peace>>

Create(p) ==
  /\ \E born \in Started(p) :
       lock' = Dir([pid |-> p, born |-> born, whole |-> FALSE])
  /\ robbed' = robbed \ {p}
  /\ Goto(p, "fill")
  /\ UNCHANGED <<missing, attempt>>

(* writeFile with flag wx creates the file, or fails when it exists or its *)
(* directory has gone.                                                     *)
Open(p) ==
  /\ pc[p] = "open"
  /\ IF lock.present /\ lock.meta = NoMeta
       THEN Create(p)
       ELSE Retry(p, missing[p]) /\ UNCHANGED <<lock, robbed>>
  /\ UNCHANGED <<life, saw, orphaned, peace>>

(* The content goes to the file that was opened, wherever it is now; the   *)
(* lock is taken.                                                          *)
Fill(p) ==
  /\ pc[p] = "fill"
  /\ lock' = IF lock.meta # NoMeta /\ lock.meta.pid = p
               THEN [lock EXCEPT !.meta.whole = TRUE] ELSE lock
  /\ Return(p, "held")
  /\ UNCHANGED <<life, saw, robbed, orphaned, peace>>

(* Broken variant: the counter of missing metadata starts over each time.  *)
ReadForgetful(p) ==
  /\ pc[p] = "read"
  /\ saw' = [saw EXCEPT ![p] = Readable]
  /\ IF Readable # NoMeta
       THEN Goto(p, "judge") /\ UNCHANGED <<missing, attempt>>
       ELSE Retry(p, 1)
  /\ UNCHANGED <<lock, life, robbed, orphaned, peace>>

(* Metadata is judged; none is polled for, and given up on as the residue  *)
(* of a crash at the threshold.                                            *)
Read(p) ==
  /\ pc[p] = "read"
  /\ saw' = [saw EXCEPT ![p] = Readable]
  /\ \/ /\ Readable # NoMeta
        /\ missing' = [missing EXCEPT ![p] = 0]
        /\ Goto(p, "judge")
        /\ UNCHANGED <<attempt, peace>>
     \/ /\ Readable = NoMeta
        /\ missing[p] + 1 < ResidueThreshold
        /\ Retry(p, missing[p] + 1)
        /\ UNCHANGED peace
     \/ /\ Readable = NoMeta
        /\ missing[p] + 1 >= ResidueThreshold
        /\ missing' = [missing EXCEPT ![p] = ResidueThreshold]
        /\ peace' = FALSE
        /\ Goto(p, "rename")
        /\ UNCHANGED attempt
  /\ UNCHANGED <<lock, life, robbed, orphaned>>

Judge(p) ==
  /\ pc[p] = "judge"
  /\ saw' = [saw EXCEPT ![p] = NoMeta]
  /\ \E started \in Started(saw[p].pid) :
       IF Stale(p, saw[p], started)
       THEN Goto(p, "rename") /\ UNCHANGED <<missing, attempt>>
       ELSE Return(p, "idle")
  /\ UNCHANGED <<lock, life, robbed, orphaned, peace>>

(* The takeover renames away whatever directory is there now.              *)
Rename(p) ==
  /\ pc[p] = "rename"
  /\ IF lock.present
       THEN Take(p) /\ Retry(p, 0)
       ELSE UNCHANGED <<robbed, orphaned>> /\ Retry(p, missing[p])
  /\ lock' = NoDir
  /\ UNCHANGED <<life, saw, peace>>

Acquiring(p) ==
  \/ Begin(p) \/ SweepRead(p) \/ SweepJudge(p) \/ SweepUnlink(p) \/ SweepRmdir(p)
  \/ Mkdir(p) \/ Open(p) \/ Fill(p) \/ Read(p) \/ Judge(p) \/ Rename(p)

-----------------------------------------------------------------------------
(* releaseLock, once pc is "unlink": rm -r of the directory, whosever.     *)
Unlink(p) ==
  /\ pc[p] = "unlink"
  /\ Empty(p)
  /\ Goto(p, "rmdir")
  /\ UNCHANGED <<life, saw, missing, attempt, peace>>

Rmdir(p) ==
  /\ pc[p] = "rmdir"
  /\ RemoveEmpty
  /\ Goto(p, "idle")
  /\ UNCHANGED <<life, saw, missing, attempt, robbed, orphaned, peace>>

Releasing(p) == Unlink(p) \/ Rmdir(p)

-----------------------------------------------------------------------------
(* The environment.                                                        *)
Deaths ==
  Cardinality({d \in Procs \X Lives :
                 d[2] < life[d[1]] \/ (d[2] = life[d[1]] /\ Dead(d[1]))})

Die(p) ==
  /\ ~Dead(p)
  /\ Deaths < MaxDeaths
  /\ Return(p, "dead")
  /\ saw' = [saw EXCEPT ![p] = NoMeta]
  /\ Orphan(p)
  /\ peace' = FALSE
  /\ UNCHANGED <<lock, life, robbed>>

(* The pid is given to a new process.                                      *)
Reuse(p) ==
  /\ Dead(p)
  /\ life' = [life EXCEPT ![p] = @ + 1]
  /\ Goto(p, "idle")
  /\ UNCHANGED <<lock, saw, missing, attempt, robbed, orphaned, peace>>

(* A day passes, in which nobody is halfway through a call.                *)
Resting == {"idle", "dead", "body"}
Age ==
  /\ lock.present /\ ~lock.old
  /\ \A p \in Procs : pc[p] \in Resting
  /\ lock' = [lock EXCEPT !.old = TRUE]
  /\ UNCHANGED <<life, pc, saw, missing, attempt, robbed, orphaned, peace>>

=============================================================================
