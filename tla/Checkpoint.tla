------------------------------- MODULE Checkpoint -------------------------------
(***************************************************************************)
(* The checkpoint runtime of one workflow,                                 *)
(* packages/agent-workflows/src/state/checkpoint-runtime.ts over           *)
(* checkpoint-store.ts and artifacts/atomic-write.ts.                      *)
(*                                                                         *)
(* A body may have several text steps in flight: their updates of          *)
(* checkpoints.json go through a queue.  A void step is synchronous and    *)
(* goes past the queue.  The process may die anywhere; the next one finds  *)
(* the files.  What a step is given is its input, what it produces is      *)
(* named by the input it was produced from.                                *)
(***************************************************************************)
EXTENDS Naturals, Sequences

CONSTANTS
  TextSteps, VoidSteps,
  InputsOf     \* the inputs each step may be given

ASSUME CheckpointAssumption ==
  /\ TextSteps \cap VoidSteps = {} /\ TextSteps \cup VoidSteps # {}
  /\ DOMAIN InputsOf = TextSteps \cup VoidSteps

VARIABLES
  store,      \* checkpoints.json: the record of each step, or Corrupt
  artifact,   \* the input each artifact file was produced from
  call,       \* the call of each step: where it is and its input
  queue,      \* updates that were asked for; the first is under way
  phase,      \* what the first does next
  next,       \* what the first is going to write
  stolen,     \* a void step renamed away the .tmp file the first had opened
  resume,     \* resumeMode of this process
  clash       \* history: the void steps that last ran in the middle of an update

vars == <<store, artifact, call, queue, phase, next, stolen, resume, clash>>

Steps == TextSteps \cup VoidSteps
Inputs == UNION {InputsOf[s] : s \in Steps}
None == "none"

Status == {"started", "completed", "failed"}
Record == [status : Status, input : Inputs \cup {None}]
(* A file that does not parse.                                             *)
Corrupt == [s \in Steps |-> [status |-> "corrupt", input |-> None]]
Absent == [status |-> None, input |-> None]
Stores == [Steps -> Record \cup {Absent}]
Update == [step : TextSteps, status : Status, input : Inputs]

TypeOK ==
  /\ store \in Stores \cup {Corrupt} /\ next \in Stores
  /\ artifact \in [TextSteps -> Inputs \cup {None}]
  /\ call \in [Steps -> [pc : {"idle", "starting", "producing", "writing",
                               "completing", "failing", "noting", "done"},
                         input : Inputs \cup {None}]]
  /\ queue \in Seq(Update)
  /\ \A i, j \in DOMAIN queue : queue[i].step = queue[j].step => i = j
  /\ phase \in {"load", "open", "write", "rename"}
  /\ stolen \in BOOLEAN /\ resume \in BOOLEAN /\ clash \subseteq VoidSteps

EmptyStore == [s \in Steps |-> Absent]
Idle == [pc |-> "idle", input |-> None]

Init ==
  /\ store = EmptyStore /\ next = EmptyStore
  /\ artifact = [s \in TextSteps |-> None]
  /\ call = [s \in Steps |-> Idle]
  /\ queue = <<>> /\ phase = "load" /\ stolen = FALSE
  /\ resume \in BOOLEAN
  /\ clash = {}

-----------------------------------------------------------------------------
(* recordCheckpointStarted; recordCheckpointCompleted and -Failed keep the *)
(* input fingerprint that is recorded.                                     *)
Apply(file, u) ==
  [file EXCEPT ![u.step] =
     [status |-> u.status,
      input |-> IF u.status = "started" THEN u.input ELSE file[u.step].input]]

Goto(s, step) == call' = [call EXCEPT ![s].pc = step]
Fail(s) == call' = [call EXCEPT ![s] = Idle]

(* mutate: the update joins the queue, and the step waits for it.          *)
Enqueue(s, status, input) ==
  queue' = Append(queue, [step |-> s, status |-> status, input |-> input])

(* A completed record of the same input is reused.                         *)
Reusable(s, input) ==
  store[s].status = "completed" /\ store[s].input = input

-----------------------------------------------------------------------------
(* runTextStep.  In resume mode the store is read: one that does not parse *)
(* is an error, and the artifact of a reusable record is returned.         *)
Call(s) ==
  /\ call[s].pc \in {"idle", "done"}
  /\ \E input \in InputsOf[s] :
       \/ /\ resume /\ store = Corrupt
          /\ Fail(s)
          /\ UNCHANGED queue
       \/ /\ resume /\ Reusable(s, input)
          /\ call' = [call EXCEPT ![s] = [pc |-> "done", input |-> input]]
          /\ UNCHANGED queue
       \/ /\ resume => store # Corrupt /\ ~Reusable(s, input)
          /\ call' = [call EXCEPT ![s] = [pc |-> "starting", input |-> input]]
          /\ Enqueue(s, "started", input)
  /\ UNCHANGED <<store, artifact, phase, next, stolen, resume, clash>>

(* recordStarted, of a step that is not in flight.                         *)
RecordStarted(s) ==
  /\ call[s].pc \in {"idle", "done"}
  /\ \E input \in InputsOf[s] :
       /\ call' = [call EXCEPT ![s] = [pc |-> "noting", input |-> input]]
       /\ Enqueue(s, "started", input)
  /\ UNCHANGED <<store, artifact, phase, next, stolen, resume, clash>>

(* The producer returns or throws.                                         *)
Produce(s) ==
  /\ call[s].pc = "producing"
  /\ \/ Goto(s, "writing") /\ UNCHANGED queue
     \/ Goto(s, "failing") /\ Enqueue(s, "failed", call[s].input)
  /\ UNCHANGED <<store, artifact, phase, next, stolen, resume, clash>>

(* Broken variant: an artifact that could not be written is passed over.   *)
WriteArtifactAnyway(s) ==
  /\ call[s].pc = "writing"
  /\ artifact' \in {artifact, [artifact EXCEPT ![s] = call[s].input]}
  /\ Goto(s, "completing")
  /\ Enqueue(s, "completed", call[s].input)
  /\ UNCHANGED <<store, phase, next, stolen, resume, clash>>

(* The artifact takes its place in one rename; then the step is recorded   *)
(* as completed, or as failed if the write failed.                         *)
WriteArtifact(s) ==
  /\ call[s].pc = "writing"
  /\ \/ /\ artifact' = [artifact EXCEPT ![s] = call[s].input]
        /\ Goto(s, "completing")
        /\ Enqueue(s, "completed", call[s].input)
     \/ /\ Goto(s, "failing")
        /\ Enqueue(s, "failed", call[s].input)
        /\ UNCHANGED artifact
  /\ UNCHANGED <<store, phase, next, stolen, resume, clash>>

-----------------------------------------------------------------------------
(* The update at the head of the queue.                                    *)
First == queue[1]

(* What its caller does when it is through ...                             *)
Answered(s) ==
  CASE call[s].pc = "starting"   -> Goto(s, "producing") /\ queue' = Tail(queue)
    [] call[s].pc = "completing" -> Goto(s, "done") /\ queue' = Tail(queue)
    [] call[s].pc \in {"failing", "noting"} -> Fail(s) /\ queue' = Tail(queue)

(* Broken variant: the caller is not told.                                 *)
RejectedSilently(s) == UNCHANGED call /\ queue' = Tail(queue)

(* ... and when it failed: a completion that was not recorded is recorded  *)
(* as failed, the other failures end the call.                             *)
Rejected(s) ==
  IF call[s].pc = "completing"
  THEN /\ Goto(s, "failing")
       /\ queue' = Append(Tail(queue), [First EXCEPT !.status = "failed"])
  ELSE Fail(s) /\ queue' = Tail(queue)

UpdateFails ==
  /\ phase' = "load" /\ stolen' = FALSE
  /\ next' = EmptyStore
  /\ Rejected(First.step)

(* Broken variant: an update works on the store its runtime began with.    *)
LoadEmpty ==
  /\ queue # <<>> /\ phase = "load"
  /\ phase' = "open"
  /\ next' = Apply(EmptyStore, First)
  /\ UNCHANGED <<store, artifact, call, queue, stolen, resume, clash>>

Load ==
  /\ queue # <<>> /\ phase = "load"
  /\ \/ /\ store = Corrupt
        /\ UpdateFails
     \/ /\ store # Corrupt
        /\ phase' = "open"
        /\ next' = Apply(store, First)
        /\ UNCHANGED <<call, queue, stolen>>
  /\ UNCHANGED <<store, artifact, resume, clash>>

(* writeFile opens checkpoints.json.tmp, ...                               *)
Open ==
  /\ queue # <<>> /\ phase = "open"
  /\ phase' = "write"
  /\ UNCHANGED <<store, artifact, call, queue, next, stolen, resume, clash>>

(* ... and writes to what it has opened: if that was renamed meanwhile, it *)
(* is the store itself, over the content it had.                           *)
Write ==
  /\ queue # <<>> /\ phase = "write"
  /\ \/ /\ phase' = "rename"
        /\ store' \in IF stolen THEN {next, Corrupt} ELSE {store}
        /\ UNCHANGED <<call, queue, next, stolen>>
     \/ /\ UpdateFails
        /\ UNCHANGED store
  /\ UNCHANGED <<artifact, resume, clash>>

Rename ==
  /\ queue # <<>> /\ phase = "rename"
  /\ \/ /\ ~stolen
        /\ store' = next
        /\ phase' = "load" /\ next' = EmptyStore
        /\ Answered(First.step)
        /\ UNCHANGED stolen
     \/ /\ stolen
        /\ UpdateFails
        /\ UNCHANGED store
  /\ UNCHANGED <<artifact, resume, clash>>

-----------------------------------------------------------------------------
(* runVoidStepSync: all of it happens between two awaits of the others.    *)
VoidEnds(s, input, status) ==
  /\ store' = [store EXCEPT ![s] = [status |-> status, input |-> input]]
  /\ stolen' = (stolen \/ phase \in {"write", "rename"})
  /\ clash' = IF phase = "load" THEN clash \ {s} ELSE clash \cup {s}

VoidStep(s) ==
  /\ call[s].pc \in {"idle", "done"}
  /\ store # Corrupt
  /\ \E input \in InputsOf[s] :
       \/ /\ resume /\ Reusable(s, input)
          /\ call' = [call EXCEPT ![s] = [pc |-> "done", input |-> input]]
          /\ UNCHANGED <<store, stolen, clash>>
       \/ /\ ~(resume /\ Reusable(s, input))
          /\ VoidEnds(s, input, "completed")
          /\ call' = [call EXCEPT ![s] = [pc |-> "done", input |-> input]]
       \/ /\ ~(resume /\ Reusable(s, input))
          /\ VoidEnds(s, input, "failed")
          /\ Fail(s)
  /\ UNCHANGED <<artifact, queue, phase, next, resume>>

-----------------------------------------------------------------------------
(* The process dies; what is in memory is gone, what was returned before   *)
(* was returned.  The next one may resume or start over.                   *)
Die ==
  /\ call' = [s \in Steps |-> IF call[s].pc = "done" THEN call[s] ELSE Idle]
  /\ queue' = <<>> /\ phase' = "load" /\ next' = EmptyStore /\ stolen' = FALSE
  /\ resume' \in BOOLEAN
  /\ UNCHANGED <<store, artifact, clash>>

Work(s) == Produce(s) \/ WriteArtifact(s)
Queue == Load \/ Open \/ Write \/ Rename

Next ==
  \/ \E s \in TextSteps : Call(s) \/ RecordStarted(s) \/ Work(s)
  \/ \E s \in VoidSteps : VoidStep(s)
  \/ Queue
  \/ Die

(* The event loop goes on, and producers end.                              *)
Spec == Init /\ [][Next]_vars /\ WF_vars(Queue) /\ \A s \in TextSteps : WF_vars(Work(s))

-----------------------------------------------------------------------------
(* A step whose call has returned stays recorded as completed, with the    *)
(* input it was given, whatever the other steps of the body do, and after  *)
(* a crash - unless a void step ran between the load and the write of an   *)
(* update and overwrote it, or its .tmp file (checkpoint-runtime.ts:50-59, *)
(* :176-192).  A store that does not parse comes of nothing else, neither  *)
(* of a crash nor of a write that failed (atomic-write.ts:4-9).            *)
ReturnedIsRecorded ==
  IF store = Corrupt THEN clash # {}
  ELSE \A s \in Steps \ clash :
         call[s].pc = "done" => store[s] = [status |-> "completed", input |-> call[s].input]

(* A step is never recorded as completed before its output is on disk, and *)
(* a completed record tells the input its output came from: what a resumed *)
(* run reuses is the output of the same input                              *)
(* (checkpoint-runtime.ts:80-102).                                         *)
CompletedHasArtifact ==
  store # Corrupt =>
    \A s \in TextSteps : store[s].status = "completed" => artifact[s] = store[s].input

(* Every call of a text step ends: whoever waits in the queue is answered, *)
(* also when the update before it failed (checkpoint-runtime.ts:50-59).    *)
EveryCallEnds == \A s \in TextSteps : []<>(call[s].pc \in {"idle", "done"})
=============================================================================
