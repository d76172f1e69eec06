------------------------------ MODULE RunWorkflow ------------------------------
(***************************************************************************)
(* runWorkflow of packages/agent-workflows/src/orchestrator/               *)
(* run-workflow.ts: processes that take the lock of one plan folder, open  *)
(* its workflow.json, run the body, settle the status and clean up.        *)
(*                                                                         *)
(* The callbacks and the body are the caller's: they return or throw.  A   *)
(* run that gets no lock is over; onLockHeld and afterLockRelease change   *)
(* nothing here, and a resume that is declined starts no run.              *)
(***************************************************************************)
EXTENDS PlanLock

CONSTANTS
  Tools,
  ToolOf,       \* ownerTool of the runs of each process
  Takeovers     \* pairs <<new, old>>: allowOwnerTakeoverFrom

ASSUME WorkflowAssumption ==
  /\ ToolOf \in [Procs -> Tools] /\ Takeovers \subseteq Tools \X Tools

VARIABLES
  wf,        \* workflow.json
  copy,      \* what each run read of it
  runtime,   \* whether `runtime` of the run was built
  abandoned  \* history: the last "running" was left behind

vars == <<lockVars, wf, copy, runtime, abandoned>>

NoFile == [none |-> TRUE]
Statuses == {"running", "completed", "failed"}
Workflow == [owner : Tools, status : Statuses]

RunSteps == {"held", "startWrite", "body", "finWrite", "failRead", "failWrite"}

TypeOK ==
  /\ LockTypeOK
  /\ pc \in [Procs -> {"idle", "dead"} \cup SweepSteps \cup LoopSteps
                       \cup ReleaseSteps \cup RunSteps]
  /\ wf \in Workflow \cup {NoFile}
  /\ copy \in [Procs -> Workflow \cup {NoFile}]
  /\ runtime \in [Procs -> BOOLEAN]
  /\ abandoned \in BOOLEAN

Init ==
  /\ LockInit
  /\ wf = NoFile
  /\ copy = [p \in Procs |-> NoFile]
  /\ runtime = [p \in Procs |-> FALSE]
  /\ abandoned = FALSE

-----------------------------------------------------------------------------
(* A step of the run that calls nothing of the lock.                       *)
Step(p, from, to) ==
  /\ pc[p] = from
  /\ Goto(p, to)
  /\ UNCHANGED <<lock, life, saw, missing, attempt, robbed, peace>>

MayOwn(p) ==
  wf # NoFile => wf.owner = ToolOf[p] \/ <<ToolOf[p], wf.owner>> \in Takeovers

(* startWorkflowMetadata reads, and throws for another owner's workflow:   *)
(* the finally block only has the lock to give back.                       *)
StartRead(p) ==
  /\ \/ MayOwn(p) /\ Step(p, "held", "startWrite")
     \/ ~MayOwn(p) /\ Step(p, "held", "unlink")
  /\ copy' = [copy EXCEPT ![p] = IF MayOwn(p) THEN wf ELSE NoFile]
  /\ UNCHANGED <<orphaned, wf, runtime, abandoned>>

StartWrite(p) ==
  /\ copy' = [copy EXCEPT ![p] = NoFile]
  /\ \/ /\ Step(p, "startWrite", "body")
        /\ wf' = [owner |-> ToolOf[p], status |-> "running"]
        /\ abandoned' = FALSE
     \/ /\ Step(p, "startWrite", "unlink")
        /\ UNCHANGED <<wf, abandoned>>
  /\ UNCHANGED <<orphaned, runtime>>

(* Broken variant: a reporter that cannot be created leaves without        *)
(* settling the status.                                                    *)
BodySkips(p) ==
  /\ copy' = [copy EXCEPT ![p] = wf]
  /\ \/ Step(p, "body", "finWrite") /\ runtime' = [runtime EXCEPT ![p] = TRUE]
     \/ Step(p, "body", "failWrite") /\ runtime' = [runtime EXCEPT ![p] = TRUE]
     \/ Step(p, "body", "unlink") /\ UNCHANGED runtime
  /\ UNCHANGED <<orphaned, wf, abandoned>>

(* createReporter, resolveBaseline, the body and onSuccess: all of them    *)
(* return, one throws, or createReporter throws and there is no runtime.   *)
(* Then finishWorkflowMetadata reads.                                      *)
Body(p) ==
  /\ copy' = [copy EXCEPT ![p] = wf]
  /\ \/ Step(p, "body", "finWrite") /\ runtime' = [runtime EXCEPT ![p] = TRUE]
     \/ Step(p, "body", "failWrite") /\ runtime' = [runtime EXCEPT ![p] = TRUE]
     \/ Step(p, "body", "failWrite") /\ UNCHANGED runtime
  /\ UNCHANGED <<orphaned, wf, abandoned>>

(* The copy that was read is written back under the new status.            *)
Settle(p, status) ==
  /\ wf' = [copy[p] EXCEPT !.status = status]
  /\ abandoned' = FALSE

(* Broken variant: the lock is released together with the runtime.         *)
LeaveWithRuntime(p, from) ==
  /\ \/ runtime[p] /\ Step(p, from, "unlink") /\ UNCHANGED orphaned
     \/ ~runtime[p] /\ Step(p, from, "idle") /\ UNCHANGED orphaned
     \/ runtime[p] /\ Step(p, from, "idle") /\ Orphan(p)
  /\ runtime' = [runtime EXCEPT ![p] = FALSE]
  /\ copy' = [copy EXCEPT ![p] = NoFile]

(* onError, and the finally block.  beforeReporterDispose and              *)
(* afterReporterDispose are not guarded: one that throws goes past the     *)
(* release of the lock.                                                    *)
Leave(p, from) ==
  /\ \/ Step(p, from, "unlink") /\ UNCHANGED orphaned
     \/ runtime[p] /\ Step(p, from, "idle") /\ Orphan(p)
  /\ runtime' = [runtime EXCEPT ![p] = FALSE]
  /\ copy' = [copy EXCEPT ![p] = NoFile]

(* A write of "completed" that fails goes to the catch block, which reads  *)
(* again.                                                                  *)
FinishWrite(p) ==
  \/ /\ Leave(p, "finWrite")
     /\ Settle(p, "completed")
  \/ /\ Step(p, "finWrite", "failRead")
     /\ UNCHANGED <<orphaned, wf, copy, runtime, abandoned>>

FailRead(p) ==
  /\ Step(p, "failRead", "failWrite")
  /\ copy' = [copy EXCEPT ![p] = wf]
  /\ UNCHANGED <<orphaned, wf, runtime, abandoned>>

(* In the catch block a write that fails is ignored.                       *)
FailWrite(p) ==
  /\ Leave(p, "failWrite")
  /\ \/ Settle(p, "failed")
     \/ abandoned' = TRUE /\ UNCHANGED wf

(* releaseLock may fail, which is ignored.                                 *)
ReleaseFails(p) ==
  /\ Step(p, "unlink", "idle")
  /\ Orphan(p)
  /\ UNCHANGED <<wf, copy, runtime, abandoned>>

Run(p) ==
  \/ StartRead(p) \/ StartWrite(p) \/ Body(p) \/ FinishWrite(p)
  \/ FailRead(p) \/ FailWrite(p) \/ ReleaseFails(p)

(* Where the workflow is marked "running" on behalf of p.                  *)
Underway == {"body", "finWrite", "failRead", "failWrite"}

Crash(p) ==
  /\ Die(p)
  /\ copy' = [copy EXCEPT ![p] = NoFile]
  /\ runtime' = [runtime EXCEPT ![p] = FALSE]
  /\ abandoned' = (abandoned \/ pc[p] \in Underway)
  /\ UNCHANGED wf

Others == UNCHANGED <<wf, copy, runtime, abandoned>>
Locking(p) == (Acquiring(p) \/ Releasing(p)) /\ Others
RunStep(p) == Locking(p) \/ Run(p)

Next ==
  \/ \E p \in Procs : RunStep(p) \/ Crash(p)
  \/ (Age \/ \E p \in Procs : Reuse(p)) /\ Others

Spec == Init /\ [][Next]_vars

(* A process that lives goes on, and keeps being asked for runs.           *)
FairSpec == Spec /\ \A p \in Procs : WF_vars(RunStep(p))

-----------------------------------------------------------------------------
(* The claim of agent-workflows/README.md:21, "Atomic plan-folder lock     *)
(* acquisition": no two runs are inside one plan folder.                   *)
Inside(p) == pc[p] \in RunSteps \cup {"unlink"}

MutualExclusion == \A p, q \in Procs : p # q => ~(Inside(p) /\ Inside(q))

(* mkdir, the exclusive creation of the metadata and the release never     *)
(* admit a second run by themselves.  When two are inside, the directory   *)
(* of one of them was taken away, by someone who had judged it stale or by *)
(* a release of a run that had lost its own; and before that a process had *)
(* died, or missing metadata was taken for the residue of a crash: a live  *)
(* owner is never judged stale, whatever ps answers (plan-lock.ts:78-161). *)
ExclusiveUnlessRobbed ==
  \A p, q \in Procs : p # q /\ Inside(p) /\ Inside(q)
    => ~peace /\ (p \in robbed \/ q \in robbed)

(* A process that is not in a run has left no lock behind, except by       *)
(* dying, by a cleanup callback that threw or by a removal that failed:    *)
(* every other way out of runWorkflow gives the lock back                  *)
(* (run-workflow.ts:160-192).                                              *)
LockGivenBack ==
  \A p \in Procs : pc[p] \in Without /\ lock.meta # NoMeta /\ lock.meta.pid = p => orphaned

(* workflow.json says "running" exactly while a run is: a run that ends,   *)
(* however it ends, settles the status, unless it died or could not write; *)
(* and no other run settles it, unless one lost its lock                   *)
(* (run-workflow.ts:112-172).                                              *)
StatusTold ==
  /\ wf # NoFile /\ wf.status = "running" =>
       abandoned \/ \E p \in Procs : pc[p] \in Underway
  /\ robbed = {} => \A p \in Procs : pc[p] \in Underway => wf.status = "running"

(* A lock directory whose owner is dead, or that a crash left without      *)
(* metadata, does not stay while processes keep trying: it is removed, or  *)
(* a living process owns it (plan-lock.ts:93-122).                         *)
DeadLockReplaced ==
  []<>(\E p \in Procs : ~Dead(p))
    => []<>(~lock.present \/ (Readable # NoMeta /\ ~Dead(lock.meta.pid)))
=============================================================================
