--------------------------- MODULE Checkpoint_proofs ---------------------------
(***************************************************************************)
(* What checkpoints.json says of a step is true: the step has returned, or *)
(* its artifact is there and comes from the recorded input.                *)
(***************************************************************************)
EXTENDS Checkpoint, TLAPS

\* An update in the queue is what the call it belongs to waits for.
Awaited(u) ==
  LET c == call[u.step] IN
  \/ u.status = "started" /\ c.pc \in {"starting", "noting"} /\ u.input = c.input
  \/ u.status = "completed" /\ c.pc = "completing"
  \/ u.status = "failed" /\ c.pc = "failing"

QueueInv ==
  /\ \A i \in DOMAIN queue : Awaited(queue[i])
  /\ phase # "load" => queue # <<>>

\* When a store can be spoilt.
SpoiltInv ==
  /\ phase \in {"open", "write"} => store # Corrupt
  /\ stolen => phase # "load" /\ clash # {}
  /\ store = Corrupt => clash # {}
  /\ store = Corrupt /\ phase = "rename" => stolen

\* What the update under way is going to write: its own record, and those of
\* the store, unless a void step has changed one meanwhile.
NextInv ==
  /\ phase # "load" /\ store # Corrupt =>
       \A s \in Steps \ clash : s # First.step => next[s] = store[s]
  /\ phase # "load" =>
       LET mine == next[First.step] IN
       /\ mine.status = First.status
       /\ First.status = "started" => mine.input = First.input
       /\ First.status = "completed" => mine.input = call[First.step].input

\* A step that is producing, or has its artifact written, is recorded with its
\* input, and not yet as completed.
StartedAt(s) ==
  /\ store # Corrupt /\ call[s].pc \in {"producing", "writing", "completing"} =>
       store[s].input = call[s].input
  /\ store # Corrupt /\ call[s].pc \in {"producing", "writing"} =>
       store[s].status # "completed"
  /\ call[s].pc = "completing" => artifact[s] = call[s].input
  /\ call[s].pc # "idle" => call[s].input \in Inputs

StartedInv == \A s \in TextSteps : StartedAt(s)

RecordedAt(s) ==
  store # Corrupt /\ call[s].pc = "done" =>
    store[s] = [status |-> "completed", input |-> call[s].input]

CheckpointInv ==
  /\ TypeOK /\ QueueInv /\ SpoiltInv /\ NextInv /\ StartedInv
  /\ CompletedHasArtifact /\ ReturnedIsRecorded

LEMMA CheckpointInitial == Init => CheckpointInv
<1> SUFFICES ASSUME Init PROVE CheckpointInv
  OBVIOUS
<1> USE CheckpointAssumption DEF Init, Steps, EmptyStore, Idle, Absent, None
<1>1. store # Corrupt
  BY DEF Corrupt
<1>2. TypeOK
  <2>1. EmptyStore \in Stores /\ call \in [Steps -> [pc : {"idle"}, input : {None}]]
    BY DEF Stores
  <2>2. artifact \in [TextSteps -> Inputs \cup {None}] /\ queue \in Seq(Update)
    BY DEF Inputs
  <2>3. store \in Stores \cup {Corrupt} /\ next \in Stores
    BY <2>1
  <2>4. call \in [Steps -> [pc : {"idle", "starting", "producing", "writing",
                               "completing", "failing", "noting", "done"},
                         input : Inputs \cup {None}]]
    OBVIOUS
  <2>5. /\ \A i, j \in DOMAIN queue : queue[i].step = queue[j].step => i = j
        /\ phase \in {"load", "open", "write", "rename"}
        /\ stolen \in BOOLEAN /\ resume \in BOOLEAN /\ clash \subseteq VoidSteps
    <3>1. DOMAIN queue = {} /\ phase = "load" /\ clash = {} /\ stolen = FALSE
      OBVIOUS
    <3>2. resume \in BOOLEAN
      OBVIOUS
    <3> HIDE DEF Init
    <3>3. QED  BY <3>1, <3>2
  <2> HIDE DEF Init, EmptyStore, Idle, Absent, None
  <2>6. QED  BY <2>2, <2>3, <2>4, <2>5 DEF TypeOK
<1>3. QueueInv /\ SpoiltInv /\ NextInv
  BY <1>1 DEF QueueInv, SpoiltInv, NextInv
<1>4. StartedInv /\ CompletedHasArtifact /\ ReturnedIsRecorded
  BY <1>1 DEF StartedInv, StartedAt, CompletedHasArtifact, ReturnedIsRecorded
<1>5. QED  BY <1>2, <1>3, <1>4 DEF CheckpointInv

-----------------------------------------------------------------------------
\* What the actions are made of.

\* An update that joins the queue, for a call that had none in it.
LEMMA EnqueueKeeps ==
  ASSUME CheckpointInv, NEW s \in TextSteps, NEW status \in Status, NEW input \in Inputs,
         call[s].pc \in {"idle", "done", "producing", "writing"},
         Enqueue(s, status, input),
         call' = [call EXCEPT ![s] = call'[s]],
         Awaited([step |-> s, status |-> status, input |-> input])',
         UNCHANGED phase
  PROVE  /\ queue' \in Seq(Update)
         /\ \A i, j \in DOMAIN queue' : queue'[i].step = queue'[j].step => i = j
         /\ QueueInv'
         /\ phase # "load" => First' = First
<1> DEFINE u == [step |-> s, status |-> status, input |-> input]
<1>1. u \in Update /\ queue \in Seq(Update) /\ queue' = Append(queue, u)
  BY DEF Update, CheckpointInv, TypeOK, Enqueue
<1>2. \A i \in DOMAIN queue : queue[i].step # s
  BY DEF CheckpointInv, QueueInv, Awaited
<1>3. queue' \in Seq(Update)
  BY <1>1
<1>4. /\ DOMAIN queue = 1..Len(queue) /\ DOMAIN queue' = 1..(Len(queue) + 1)
      /\ \A i \in 1..Len(queue) : queue'[i] = queue[i]
      /\ queue'[Len(queue) + 1] = u
      /\ Len(queue) \in Nat
  BY <1>1
<1>5. \A i, j \in DOMAIN queue' : queue'[i].step = queue'[j].step => i = j
  <2>1. \A i, j \in DOMAIN queue : queue[i].step = queue[j].step => i = j
    BY DEF CheckpointInv, TypeOK
  <2>2. QED  BY <1>2, <1>4, <2>1
<1>6. \A i \in DOMAIN queue' : Awaited(queue[i])'
  <2> TAKE i \in DOMAIN queue'
  <2>1. CASE i = Len(queue) + 1
    BY <1>4, <2>1
  <2>2. CASE i # Len(queue) + 1
    <3>1. i \in DOMAIN queue /\ queue'[i] = queue[i]
      BY <1>4, <2>2
    <3>2. queue[i] \in Update
      BY <1>1, <1>4, <3>1
    <3>6. queue[i].step # s /\ Awaited(queue[i]) /\ queue[i].step \in TextSteps
      BY <1>2, <3>1, <3>2 DEF CheckpointInv, QueueInv, Update
    <3>3. call'[queue[i].step] = call[queue[i].step]
      BY <3>6 DEF CheckpointInv, TypeOK, Steps
    <3>4. QED  BY <3>1, <3>6, <3>3 DEF Awaited
  <2>3. QED  BY <2>1, <2>2
<1>7. queue' # <<>>
  BY <1>4
<1>8. phase # "load" => First' = First
  <2> HAVE phase # "load"
  <2>1. 1 \in 1..Len(queue)
    BY <1>1 DEF CheckpointInv, QueueInv
  <2>2. QED  BY <1>4, <2>1 DEF First
<1>9. QED  BY <1>3, <1>5, <1>6, <1>7, <1>8 DEF QueueInv

\* The first update leaves the queue, and its call goes on.
LEMMA FirstGone ==
  ASSUME CheckpointInv, queue # <<>>,
         call' = [call EXCEPT ![First.step] = call'[First.step]]
  PROVE  /\ First \in Update /\ First.step \in TextSteps /\ Awaited(First)
         /\ Tail(queue) \in Seq(Update)
         /\ \A i \in DOMAIN Tail(queue) :
              /\ Awaited(Tail(queue)[i])
              /\ Tail(queue)[i].step \in TextSteps \ {First.step}
         /\ \A i, j \in DOMAIN Tail(queue) :
              Tail(queue)[i].step = Tail(queue)[j].step => i = j
         /\ \A i \in DOMAIN Tail(queue) :
              call'[Tail(queue)[i].step] = call[Tail(queue)[i].step]
<1>1. queue \in Seq(Update) /\ Len(queue) \in Nat /\ Len(queue) > 0 /\ DOMAIN queue = 1..Len(queue)
  BY DEF CheckpointInv, TypeOK
<1>2. First \in Update /\ First.step \in TextSteps /\ Awaited(First)
  <2>1. 1 \in DOMAIN queue /\ queue[1] \in Update
    BY <1>1
  <2>2. QED  BY <2>1 DEF First, Update, CheckpointInv, QueueInv
<1>3. /\ Tail(queue) \in Seq(Update) /\ DOMAIN Tail(queue) = 1..(Len(queue) - 1)
      /\ \A i \in 1..(Len(queue) - 1) : Tail(queue)[i] = queue[i + 1]
  BY <1>1
<1>4. \A i, j \in DOMAIN queue : queue[i].step = queue[j].step => i = j
  BY DEF CheckpointInv, TypeOK
<1>5. ASSUME NEW i \in DOMAIN Tail(queue)
      PROVE  /\ Awaited(Tail(queue)[i])
             /\ Tail(queue)[i].step \in TextSteps \ {First.step}
             /\ call'[Tail(queue)[i].step] = call[Tail(queue)[i].step]
  <2>1. i + 1 \in DOMAIN queue /\ 1 \in DOMAIN queue /\ i + 1 # 1 /\ Tail(queue)[i] = queue[i + 1]
    BY <1>1, <1>3
  <2>2. Awaited(queue[i + 1]) /\ queue[i + 1] \in Update
    BY <1>1, <2>1 DEF CheckpointInv, QueueInv
  <2>3. queue[i + 1].step \in TextSteps /\ queue[i + 1].step # First.step
    BY <1>4, <2>1, <2>2 DEF Update, First
  <2>4. call'[queue[i + 1].step] = call[queue[i + 1].step]
    BY <2>3 DEF CheckpointInv, TypeOK, Steps
  <2>5. QED  BY <2>1, <2>2, <2>3, <2>4
<1>6. \A i, j \in DOMAIN Tail(queue) : Tail(queue)[i].step = Tail(queue)[j].step => i = j
  <2> TAKE i, j \in DOMAIN Tail(queue)
  <2>1. i + 1 \in DOMAIN queue /\ j + 1 \in DOMAIN queue /\ i \in Nat /\ j \in Nat
        /\ Tail(queue)[i] = queue[i + 1] /\ Tail(queue)[j] = queue[j + 1]
    BY <1>1, <1>3
  <2>2. QED  BY <1>4, <2>1
<1>7. QED  BY <1>2, <1>3, <1>5, <1>6

\* ... whether the update was recorded,
LEMMA AnsweredKeeps ==
  ASSUME CheckpointInv, queue # <<>>, Answered(First.step), phase' = "load"
  PROVE  /\ call' = [call EXCEPT ![First.step] = call'[First.step]]
         /\ call'[First.step] =
              IF call[First.step].pc = "starting" THEN [call[First.step] EXCEPT !.pc = "producing"]
              ELSE IF call[First.step].pc = "completing" THEN [call[First.step] EXCEPT !.pc = "done"]
              ELSE Idle
         /\ queue' \in Seq(Update)
         /\ \A i, j \in DOMAIN queue' : queue'[i].step = queue'[j].step => i = j
         /\ QueueInv'
<1>1. queue \in Seq(Update) /\ queue[1] \in Update /\ Awaited(First)
  BY DEF CheckpointInv, TypeOK, QueueInv, First
<1>2. First.step \in TextSteps /\ First.step \in DOMAIN call
  BY <1>1 DEF First, Update, CheckpointInv, TypeOK, Steps
<1>3. /\ queue' = Tail(queue)
      /\ call' = [call EXCEPT ![First.step] = call'[First.step]]
      /\ call'[First.step] =
           IF call[First.step].pc = "starting" THEN [call[First.step] EXCEPT !.pc = "producing"]
           ELSE IF call[First.step].pc = "completing" THEN [call[First.step] EXCEPT !.pc = "done"]
           ELSE Idle
  BY <1>1, <1>2 DEF Answered, Awaited, Goto, Fail
<1>4. \A i \in DOMAIN queue' : Awaited(queue[i])'
  BY <1>3, FirstGone DEF Awaited
<1>5. QED  BY <1>3, <1>4, FirstGone DEF QueueInv

\* ... or it failed, and a completion that was not recorded queues again.
LEMMA UpdateFailsKeeps ==
  ASSUME CheckpointInv, queue # <<>>, UpdateFails, UNCHANGED <<store, artifact, resume, clash>>
  PROVE  CheckpointInv'
<1> DEFINE s == First.step
<1> DEFINE again == [First EXCEPT !.status = "failed"]
<1>1. queue \in Seq(Update) /\ First \in Update /\ s \in TextSteps /\ s \in Steps /\ Awaited(First)
  <2>1. queue \in Seq(Update) /\ 1 \in DOMAIN queue
    BY DEF CheckpointInv, TypeOK
  <2>3. queue[1] \in Update
    BY <2>1
  <2>2. QED  BY <2>1, <2>3 DEF First, Update, CheckpointInv, QueueInv, Steps
<1>2. /\ phase' = "load" /\ ~stolen' /\ next' = EmptyStore
      /\ \/ /\ call' = [call EXCEPT ![s].pc = "failing"] /\ call[s].pc = "completing"
            /\ queue' = Append(Tail(queue), again)
         \/ /\ call' = [call EXCEPT ![s] = Idle]
            /\ queue' = Tail(queue)
  BY DEF UpdateFails, Rejected, Goto, Fail
<1>3. s \in DOMAIN call /\ call' = [call EXCEPT ![s] = call'[s]]
      /\ call'[s].pc \in {"failing", "idle"} /\ call'[s].input \in Inputs \cup {None}
  BY <1>1, <1>2 DEF CheckpointInv, TypeOK, Idle, Steps
<1>4. \A t \in Steps \ {s} : call'[t] = call[t]
  BY <1>3 DEF CheckpointInv, TypeOK
<1>5. /\ queue' \in Seq(Update)
      /\ \A i, j \in DOMAIN queue' : queue'[i].step = queue'[j].step => i = j
      /\ \A i \in DOMAIN queue' : Awaited(queue[i])'
  <2> DEFINE rest == Tail(queue)
  <2>0. /\ rest \in Seq(Update) /\ Len(rest) \in Nat /\ DOMAIN rest = 1..Len(rest)
        /\ \A i \in DOMAIN rest : Awaited(rest[i]) /\ rest[i].step \in TextSteps \ {s}
        /\ \A i, j \in DOMAIN rest : rest[i].step = rest[j].step => i = j
        /\ \A i \in DOMAIN rest : call'[rest[i].step] = call[rest[i].step]
    BY <1>3, FirstGone
  <2> HIDE DEF rest
  <2>1. CASE queue' = rest
    BY <2>0, <2>1 DEF Awaited
  <2>2. CASE queue' = Append(rest, again) /\ call' = [call EXCEPT ![s].pc = "failing"]
    <3>1. again \in Update /\ again.step = s /\ again.status = "failed"
      BY <1>1 DEF Update, Status
    <3> HIDE DEF again, s
    <3>2. /\ queue' \in Seq(Update) /\ DOMAIN queue' = 1..(Len(rest) + 1)
          /\ \A i \in 1..Len(rest) : queue'[i] = rest[i]
          /\ queue'[Len(rest) + 1] = again
      BY <2>0, <2>2, <3>1
    <3>3. \A i, j \in DOMAIN queue' : queue'[i].step = queue'[j].step => i = j
      BY <2>0, <3>1, <3>2
    <3>4. call'[s].pc = "failing"
      BY <1>1, <1>3, <2>2 DEF CheckpointInv, TypeOK
    <3>5. \A i \in DOMAIN queue' : Awaited(queue[i])'
      <4> TAKE i \in DOMAIN queue'
      <4>1. CASE i = Len(rest) + 1
        BY <3>1, <3>2, <3>4, <4>1 DEF Awaited
      <4>2. CASE i # Len(rest) + 1
        <5>1. i \in DOMAIN rest /\ queue'[i] = rest[i]
          BY <2>0, <3>2, <4>2
        <5>2. QED  BY <2>0, <5>1 DEF Awaited
      <4>3. QED  BY <4>1, <4>2
    <3>6. QED  BY <3>2, <3>3, <3>5
  <2>3. QED  BY <1>2, <2>1, <2>2 DEF rest
<1> HIDE DEF s, again
<1>6. QueueInv'
  BY <1>2, <1>5 DEF QueueInv
<1>7. TypeOK'
  <2>1. EmptyStore \in Stores
    BY DEF EmptyStore, Stores, Absent
  <2>2. call' \in [Steps -> [pc : {"idle", "starting", "producing", "writing",
                               "completing", "failing", "noting", "done"},
                         input : Inputs \cup {None}]]
    <3>1. call'[s] \in [pc : {"idle", "failing"}, input : Inputs \cup {None}]
      BY <1>1, <1>2 DEF CheckpointInv, TypeOK, Idle
    <3>2. QED  BY <1>1, <1>3, <3>1 DEF CheckpointInv, TypeOK
  <2>3. /\ UNCHANGED <<store, artifact, resume, clash>> /\ TypeOK
        /\ phase' \in {"load", "open", "write", "rename"} /\ stolen' \in BOOLEAN
        /\ next' \in Stores
    BY <1>2, <2>1 DEF CheckpointInv, UpdateFails
  <2>4. QED  BY <1>5, <2>2, <2>3 DEF TypeOK
<1>8. SpoiltInv' /\ NextInv'
  BY <1>2 DEF CheckpointInv, SpoiltInv, NextInv
<1>9. StartedInv'
  <2>1. call'[s].pc # "idle" => call'[s].input \in Inputs
    BY <1>1, <1>2 DEF CheckpointInv, TypeOK, StartedInv, StartedAt, Idle
  <2>2. QED  BY <1>3, <1>4, <2>1 DEF CheckpointInv, StartedInv, StartedAt, Steps
<1>10. CompletedHasArtifact' /\ ReturnedIsRecorded'
  BY <1>3, <1>4 DEF CheckpointInv, CompletedHasArtifact, ReturnedIsRecorded
<1>11. QED  BY <1>6, <1>7, <1>8, <1>9, <1>10 DEF CheckpointInv

-----------------------------------------------------------------------------
\* What a call in the state of s knows of.
CallStates == {"idle", "starting", "producing", "writing", "completing", "failing", "noting", "done"}
Calls == [pc : CallStates, input : Inputs \cup {None}]

\* The call of a step that waits for no update moves on by itself.
LEMMA QueueKept ==
  ASSUME CheckpointInv, NEW s \in Steps,
         s \in VoidSteps \/ call[s].pc \in {"idle", "done", "producing", "writing"},
         call' = [call EXCEPT ![s] = call'[s]],
         UNCHANGED <<queue, phase>>
  PROVE  QueueInv'
<1>1. ASSUME NEW i \in DOMAIN queue PROVE Awaited(queue[i])'
  <2>1. queue[i] \in Update /\ Awaited(queue[i])
    BY DEF CheckpointInv, TypeOK, QueueInv
  <2>2. queue[i].step \in TextSteps /\ queue[i].step # s
    BY <2>1, CheckpointAssumption DEF Update, Awaited
  <2>3. call'[queue[i].step] = call[queue[i].step]
    BY <2>2 DEF CheckpointInv, TypeOK, Steps
  <2>4. QED  BY <2>1, <2>3 DEF Awaited
<1>2. QED  BY <1>1 DEF QueueInv, CheckpointInv

LEMMA CallMoves ==
  ASSUME CheckpointInv, NEW s \in TextSteps,
         call[s].pc \in {"idle", "done", "producing", "writing"},
         call' = [call EXCEPT ![s] = call'[s]], call'[s] \in Calls,
         queue' \in Seq(Update),
         \A i, j \in DOMAIN queue' : queue'[i].step = queue'[j].step => i = j,
         QueueInv', phase # "load" => First' = First,
         \/ artifact' = artifact
         \/ call[s].pc = "writing" /\ artifact' = [artifact EXCEPT ![s] = call[s].input],
         StartedAt(s)', RecordedAt(s)',
         UNCHANGED <<store, phase, next, stolen, resume, clash>>
  PROVE  CheckpointInv'
<1>1. s \in Steps /\ \A t \in Steps \ {s} : call'[t] = call[t]
  BY DEF CheckpointInv, TypeOK, Steps
<1>2. TypeOK'
  <2>1. call' \in [Steps -> Calls]
    BY <1>1 DEF CheckpointInv, TypeOK, Calls, CallStates
  <2>2. call[s].input \in Inputs \cup {None}
    BY <1>1 DEF CheckpointInv, TypeOK
  <2>3. artifact' \in [TextSteps -> Inputs \cup {None}]
    BY <2>2 DEF CheckpointInv, TypeOK
  <2>4. TypeOK
    BY DEF CheckpointInv
  <2>5. QED  BY <2>1, <2>3, <2>4 DEF TypeOK, Calls, CallStates
<1>3. SpoiltInv'
  BY DEF CheckpointInv, SpoiltInv
<1>4. NextInv'
  <2>1. ASSUME phase # "load" PROVE First.step \in TextSteps /\ First.step # s
    <3>1. queue \in Seq(Update) /\ 1 \in DOMAIN queue
      BY <2>1 DEF CheckpointInv, TypeOK, QueueInv
    <3>2. queue[1] \in Update /\ Awaited(First)
      BY <3>1 DEF CheckpointInv, QueueInv, First
    <3>3. QED  BY <3>2 DEF Update, First, Awaited
  <2>2. phase # "load" => call'[First.step] = call[First.step]
    BY <1>1, <2>1 DEF Steps
  <2>3. QED  BY <2>2 DEF CheckpointInv, NextInv
<1>5. StartedInv'
  <2> SUFFICES ASSUME NEW t \in TextSteps, t # s PROVE StartedAt(t)'
    BY DEF StartedInv
  <2>1. call'[t] = call[t] /\ artifact'[t] = artifact[t] /\ StartedAt(t)
    BY <1>1 DEF Steps, CheckpointInv, TypeOK, StartedInv
  <2>2. QED  BY <2>1 DEF StartedAt
<1>6. CompletedHasArtifact'
  <2>1. ASSUME store # Corrupt, NEW t \in TextSteps, store[t].status = "completed"
        PROVE  artifact'[t] = store[t].input
    <3>1. artifact[t] = store[t].input
      BY <2>1 DEF CheckpointInv, CompletedHasArtifact
    <3>2. t = s => call[s].pc # "writing"
      BY <2>1 DEF CheckpointInv, StartedInv, StartedAt
    <3>3. artifact'[t] = artifact[t]
      BY <3>2 DEF CheckpointInv, TypeOK
    <3>4. QED  BY <3>1, <3>3
  <2>2. QED  BY <2>1 DEF CompletedHasArtifact
<1>7. ReturnedIsRecorded'
  <2>1. store = Corrupt => clash # {}
    BY DEF CheckpointInv, SpoiltInv
  <2>2. ASSUME store # Corrupt, NEW t \in Steps \ clash, call'[t].pc = "done"
        PROVE  store[t] = [status |-> "completed", input |-> call'[t].input]
    <3>1. CASE t = s
      BY <2>2, <3>1 DEF RecordedAt
    <3>2. CASE t # s
      BY <1>1, <2>2, <3>2 DEF CheckpointInv, ReturnedIsRecorded
    <3>3. QED  BY <3>1, <3>2
  <2>3. QED  BY <2>1, <2>2 DEF ReturnedIsRecorded
<1>8. QED  BY <1>2, <1>3, <1>4, <1>5, <1>6, <1>7 DEF CheckpointInv

-----------------------------------------------------------------------------
\* The actions.

\* A call that ends, or begins with an update, from a state that waits for none.
LEMMA CallStarts ==
  ASSUME CheckpointInv, NEW s \in TextSteps, Call(s) \/ RecordStarted(s)
  PROVE  CheckpointInv'
<1>1. PICK input \in InputsOf[s] :
        \/ /\ store = Corrupt /\ Fail(s) /\ UNCHANGED queue
        \/ /\ store # Corrupt => Reusable(s, input)
           /\ call' = [call EXCEPT ![s] = [pc |-> "done", input |-> input]]
           /\ UNCHANGED queue
        \/ \E pc \in {"starting", "noting"} :
             /\ call' = [call EXCEPT ![s] = [pc |-> pc, input |-> input]]
             /\ Enqueue(s, "started", input)
  BY DEF Call, RecordStarted
<1>2. /\ call[s].pc \in {"idle", "done"}
      /\ UNCHANGED <<store, artifact, phase, next, stolen, resume, clash>>
  BY DEF Call, RecordStarted
<1>3. s \in Steps /\ input \in Inputs /\ s \in DOMAIN call
  BY DEF Inputs, Steps, CheckpointInv, TypeOK
<1>4. CASE store = Corrupt /\ Fail(s) /\ UNCHANGED queue
  <2>1. call' = [call EXCEPT ![s] = call'[s]] /\ call'[s] = Idle
    BY <1>3, <1>4 DEF Fail
  <2>2. call'[s] \in Calls /\ StartedAt(s)' /\ RecordedAt(s)'
    BY <2>1 DEF Idle, Calls, CallStates, StartedAt, RecordedAt
  <2>3. QueueInv'
    BY <1>2, <1>3, <1>4, <2>1, QueueKept
  <2>4. QED  BY <1>2, <1>4, <2>1, <2>2, <2>3, CallMoves DEF CheckpointInv, TypeOK, First
<1>5. CASE /\ store # Corrupt => Reusable(s, input)
           /\ call' = [call EXCEPT ![s] = [pc |-> "done", input |-> input]]
           /\ UNCHANGED queue
  <2>1. call' = [call EXCEPT ![s] = call'[s]] /\ call'[s] = [pc |-> "done", input |-> input]
    BY <1>3, <1>5
  <2>2. call'[s] \in Calls /\ StartedAt(s)'
    BY <1>3, <2>1 DEF Calls, CallStates, StartedAt
  <2>3. RecordedAt(s)'
    <3>1. ASSUME store # Corrupt PROVE store[s] = [status |-> "completed", input |-> input]
      <4>1. store \in Stores /\ store[s].status = "completed" /\ store[s].input = input
        BY <1>5, <3>1 DEF Reusable, CheckpointInv, TypeOK
      <4>2. store[s] \in Record \cup {Absent}
        BY <1>3, <4>1 DEF Stores
      <4>3. QED  BY <4>1, <4>2 DEF Record, Absent
    <3>2. QED  BY <1>2, <2>1, <3>1 DEF RecordedAt
  <2>4. QueueInv'
    BY <1>2, <1>3, <1>5, <2>1, QueueKept
  <2>5. QED  BY <1>2, <1>5, <2>1, <2>2, <2>3, <2>4, CallMoves DEF CheckpointInv, TypeOK, First
<1>6. ASSUME NEW pc \in {"starting", "noting"},
             call' = [call EXCEPT ![s] = [pc |-> pc, input |-> input]],
             Enqueue(s, "started", input)
      PROVE  CheckpointInv'
  <2>1. call' = [call EXCEPT ![s] = call'[s]] /\ call'[s] = [pc |-> pc, input |-> input]
    BY <1>3, <1>6
  <2>2. call'[s] \in Calls /\ StartedAt(s)' /\ RecordedAt(s)'
    BY <1>3, <2>1 DEF Calls, CallStates, StartedAt, RecordedAt
  <2>3. Awaited([step |-> s, status |-> "started", input |-> input])'
    BY <2>1 DEF Awaited
  <2>4. "started" \in Status
    BY DEF Status
  <2>5. /\ queue' \in Seq(Update)
        /\ \A i, j \in DOMAIN queue' : queue'[i].step = queue'[j].step => i = j
        /\ QueueInv' /\ (phase # "load" => First' = First)
    BY <1>2, <1>3, <1>6, <2>1, <2>3, <2>4, EnqueueKeeps
  <2>6. QED  BY <1>2, <2>1, <2>2, <2>5, CallMoves
<1>7. QED  BY <1>1, <1>4, <1>5, <1>6

LEMMA WorkKeeps ==
  ASSUME CheckpointInv, NEW s \in TextSteps, Work(s)
  PROVE  CheckpointInv'
<1>1. /\ s \in Steps /\ s \in DOMAIN call /\ call[s] \in Calls
      /\ call[s].input \in Inputs \cup {None} /\ StartedAt(s)
  BY DEF Steps, CheckpointInv, TypeOK, Calls, CallStates, StartedInv
<1>2. call[s].pc \in {"producing", "writing"}
  BY DEF Work, Produce, WriteArtifact
<1>3. UNCHANGED <<store, phase, next, stolen, resume, clash>>
  BY DEF Work, Produce, WriteArtifact
<1>4. CASE Goto(s, "writing") /\ UNCHANGED <<queue, artifact>>
  <2>1. call' = [call EXCEPT ![s] = call'[s]] /\ call'[s] = [call[s] EXCEPT !.pc = "writing"]
    BY <1>1, <1>4 DEF Goto
  <2>2. call'[s] \in Calls /\ call'[s].pc = "writing" /\ call'[s].input = call[s].input
    BY <1>1, <2>1 DEF Calls, CallStates
  <2>3. StartedAt(s)' /\ RecordedAt(s)'
    BY <1>1, <1>2, <1>3, <1>4, <2>2 DEF StartedAt, RecordedAt
  <2>4. QueueInv'
    BY <1>1, <1>2, <1>3, <1>4, <2>1, QueueKept
  <2>5. QED  BY <1>2, <1>3, <1>4, <2>1, <2>2, <2>3, <2>4, CallMoves DEF CheckpointInv, TypeOK, First
<1>5. ASSUME NEW status \in {"failed", "completed"},
             NEW pc \in {"failing", "completing"}, (status = "failed") = (pc = "failing"),
             Goto(s, pc), Enqueue(s, status, call[s].input),
             IF status = "failed" THEN UNCHANGED artifact
             ELSE call[s].pc = "writing" /\ artifact' = [artifact EXCEPT ![s] = call[s].input]
      PROVE  CheckpointInv'
  <2>1. call' = [call EXCEPT ![s] = call'[s]] /\ call'[s] = [call[s] EXCEPT !.pc = pc]
    BY <1>1, <1>5 DEF Goto
  <2>2. call'[s] \in Calls /\ call'[s].pc = pc /\ call'[s].input = call[s].input
    BY <1>1, <2>1 DEF Calls, CallStates
  <2>3. status = "completed" => artifact'[s] = call[s].input
    BY <1>5 DEF CheckpointInv, TypeOK
  <2>4. StartedAt(s)' /\ RecordedAt(s)'
    BY <1>1, <1>2, <1>3, <1>5, <2>2, <2>3 DEF StartedAt, RecordedAt
  <2>5. PICK input \in Inputs : input = call[s].input
    BY <1>1, <1>2 DEF StartedAt
  <2>6. Awaited([step |-> s, status |-> status, input |-> input])'
    BY <1>5, <2>2 DEF Awaited
  <2>7. status \in Status /\ Enqueue(s, status, input)
    BY <1>5, <2>5 DEF Status
  <2>8. /\ queue' \in Seq(Update)
        /\ \A i, j \in DOMAIN queue' : queue'[i].step = queue'[j].step => i = j
        /\ QueueInv' /\ (phase # "load" => First' = First)
    BY <1>2, <1>3, <2>1, <2>6, <2>7, EnqueueKeeps
  <2>9. \/ artifact' = artifact
        \/ call[s].pc = "writing" /\ artifact' = [artifact EXCEPT ![s] = call[s].input]
    BY <1>5
  <2>10. QED  BY <1>2, <1>3, <2>1, <2>2, <2>4, <2>8, <2>9, CallMoves
<1>6. \/ Goto(s, "writing") /\ UNCHANGED <<queue, artifact>>
      \/ Goto(s, "failing") /\ Enqueue(s, "failed", call[s].input) /\ UNCHANGED artifact
      \/ /\ Goto(s, "completing") /\ Enqueue(s, "completed", call[s].input)
         /\ call[s].pc = "writing" /\ artifact' = [artifact EXCEPT ![s] = call[s].input]
  BY DEF Work, Produce, WriteArtifact
<1>7. CASE Goto(s, "failing") /\ Enqueue(s, "failed", call[s].input) /\ UNCHANGED artifact
  BY <1>5, <1>7
<1>8. CASE /\ Goto(s, "completing") /\ Enqueue(s, "completed", call[s].input)
           /\ call[s].pc = "writing" /\ artifact' = [artifact EXCEPT ![s] = call[s].input]
  BY <1>5, <1>8
<1>9. QED  BY <1>4, <1>6, <1>7, <1>8

\* A void step changes its own record, and is in clash if it does so in the
\* middle of an update.
LEMMA VoidKeeps ==
  ASSUME CheckpointInv, NEW s \in VoidSteps, VoidStep(s)
  PROVE  CheckpointInv'
<1>1. /\ s \in Steps /\ s \notin TextSteps /\ s \in DOMAIN call /\ store \in Stores
      /\ store # Corrupt /\ store[s] \in Record \cup {Absent}
  BY CheckpointAssumption DEF Steps, CheckpointInv, TypeOK, VoidStep, Stores
<1>2. PICK input \in InputsOf[s] :
        \/ /\ Reusable(s, input)
           /\ call' = [call EXCEPT ![s] = [pc |-> "done", input |-> input]]
           /\ UNCHANGED <<store, stolen, clash>>
        \/ /\ VoidEnds(s, input, "completed")
           /\ call' = [call EXCEPT ![s] = [pc |-> "done", input |-> input]]
        \/ /\ VoidEnds(s, input, "failed")
           /\ call' = [call EXCEPT ![s] = Idle]
  BY DEF VoidStep, Fail
<1>3. UNCHANGED <<artifact, queue, phase, next, resume>>
  BY DEF VoidStep
<1>4. input \in Inputs
  BY <1>1 DEF Inputs
<1>5. /\ call' = [call EXCEPT ![s] = call'[s]] /\ call'[s] \in Calls
      /\ \A t \in Steps \ {s} : call'[t] = call[t]
      /\ call'[s].pc = "done" => call'[s].input = input
  BY <1>1, <1>2, <1>4 DEF Calls, CallStates, Idle, CheckpointInv, TypeOK
\* The store: another record of s, unless it was reused.
<1>6. /\ store' \in Stores /\ store' # Corrupt
      /\ \A t \in Steps \ {s} : store'[t] = store[t]
      /\ call'[s].pc = "done" => store'[s] = [status |-> "completed", input |-> input]
  <2>1. CASE Reusable(s, input) /\ UNCHANGED store
    BY <1>1, <2>1 DEF Reusable, Record, Absent
  <2>2. ASSUME NEW status \in {"completed", "failed"}, VoidEnds(s, input, status),
               call'[s].pc = "done" => status = "completed"
        PROVE  <1>6
    <3>1. /\ store' = [store EXCEPT ![s] = [status |-> status, input |-> input]]
          /\ [status |-> status, input |-> input] \in Record
      BY <1>4, <2>2 DEF VoidEnds, Record, Status
    <3>2. store'[s] = [status |-> status, input |-> input] /\ store' \in Stores
      BY <1>1, <3>1 DEF Stores
    <3>3. Corrupt[s].status = "corrupt"
      BY <1>1 DEF Corrupt
    <3>4. QED  BY <1>1, <2>2, <3>1, <3>2, <3>3 DEF Stores
  <2>3. QED  BY <1>1, <1>2, <2>1, <2>2 DEF Idle, CheckpointInv, TypeOK
<1>7. /\ clash' \subseteq VoidSteps /\ stolen' \in BOOLEAN
      /\ stolen' => phase # "load" /\ clash' # {}
      /\ clash \ {s} \subseteq clash'
      /\ s \notin clash' /\ phase # "load" => s \notin clash /\ store' = store
  <2>1. /\ clash \subseteq VoidSteps /\ stolen \in BOOLEAN
        /\ stolen => phase # "load" /\ clash # {}
    BY DEF CheckpointInv, TypeOK, SpoiltInv
  <2>2. CASE UNCHANGED <<store, stolen, clash>>
    BY <2>1, <2>2
  <2>3. CASE /\ stolen' = (stolen \/ phase \in {"write", "rename"})
             /\ clash' = IF phase = "load" THEN clash \ {s} ELSE clash \cup {s}
    <3>1. CASE phase = "load"
      BY <2>1, <2>3, <3>1
    <3>2. CASE phase # "load"
      BY <2>1, <2>3, <3>2
    <3>3. QED  BY <3>1, <3>2
  <2>4. QED  BY <1>2, <2>2, <2>3 DEF VoidEnds
<1>8. QueueInv'
  BY <1>1, <1>3, <1>5, QueueKept
<1>9. TypeOK'
  <2>1. call' \in [Steps -> Calls]
    BY <1>5 DEF CheckpointInv, TypeOK, Calls, CallStates
  <2>2. TypeOK
    BY DEF CheckpointInv
  <2>3. QED  BY <1>3, <1>6, <1>7, <2>1, <2>2 DEF TypeOK, Calls, CallStates
<1>10. SpoiltInv'
  BY <1>1, <1>3, <1>6, <1>7 DEF CheckpointInv, SpoiltInv
<1>11. NextInv'
  <2>1. ASSUME phase # "load" PROVE First.step \in TextSteps
    <3>1. queue \in Seq(Update) /\ 1 \in DOMAIN queue
      BY <2>1 DEF CheckpointInv, TypeOK, QueueInv
    <3>2. queue[1] \in Update
      BY <3>1
    <3>3. QED  BY <3>2 DEF Update, First
  <2>2. phase # "load" => call'[First.step] = call[First.step]
    BY <1>1, <1>5, <2>1 DEF Steps
  <2>3. ASSUME phase # "load", NEW t \in Steps \ clash', t # First.step
        PROVE  next[t] = store'[t]
    <3>1. CASE t = s
      BY <1>1, <1>7, <2>3, <3>1 DEF CheckpointInv, NextInv
    <3>2. CASE t # s
      BY <1>1, <1>6, <1>7, <2>3, <3>2 DEF CheckpointInv, NextInv
    <3>3. QED  BY <3>1, <3>2
  <2>4. First' = First
    BY <1>3 DEF First
  <2>5. QED  BY <1>3, <2>2, <2>3, <2>4 DEF CheckpointInv, NextInv
<1>12. StartedInv'
  <2> SUFFICES ASSUME NEW t \in TextSteps PROVE StartedAt(t)'
    BY DEF StartedInv
  <2>1. t \in Steps \ {s} /\ StartedAt(t)
    BY <1>1 DEF Steps, CheckpointInv, StartedInv
  <2>2. call'[t] = call[t] /\ store'[t] = store[t]
    BY <1>5, <1>6, <2>1
  <2>3. QED  BY <1>1, <1>3, <2>1, <2>2 DEF StartedAt
<1>13. CompletedHasArtifact'
  BY <1>1, <1>3, <1>6 DEF Steps, CheckpointInv, CompletedHasArtifact
<1>14. ReturnedIsRecorded'
  <2>1. ASSUME NEW t \in Steps \ clash', call'[t].pc = "done"
        PROVE  store'[t] = [status |-> "completed", input |-> call'[t].input]
    <3>1. CASE t = s
      BY <1>5, <1>6, <2>1, <3>1
    <3>2. CASE t # s
      BY <1>1, <1>5, <1>6, <1>7, <2>1, <3>2 DEF CheckpointInv, ReturnedIsRecorded
    <3>3. QED  BY <3>1, <3>2
  <2>2. QED  BY <1>6, <2>1 DEF ReturnedIsRecorded
<1>15. QED
  BY <1>8, <1>9, <1>10, <1>11, <1>12, <1>13, <1>14 DEF CheckpointInv

-----------------------------------------------------------------------------
\* The update at the head of the queue.

LEMMA FirstTyped ==
  ASSUME CheckpointInv, queue # <<>>
  PROVE  /\ First \in Update /\ First.step \in TextSteps /\ First.step \in Steps
         /\ First.step \notin VoidSteps
         /\ First.status \in Status /\ First.input \in Inputs
         /\ Awaited(First) /\ call[First.step] \in Calls
<1>1. queue \in Seq(Update) /\ 1 \in DOMAIN queue
  BY DEF CheckpointInv, TypeOK
<1>2. queue[1] \in Update /\ Awaited(First)
  BY <1>1 DEF CheckpointInv, QueueInv, First
<1>3. QED  BY <1>2, CheckpointAssumption
            DEF First, Update, Steps, CheckpointInv, TypeOK, Calls, CallStates

LEMMA LoadKeeps == ASSUME CheckpointInv, Load PROVE CheckpointInv'
<1> DEFINE s == First.step
<1>1. queue # <<>> /\ phase = "load" /\ UNCHANGED <<store, artifact, resume, clash>>
  BY DEF Load
<1>2. CASE store = Corrupt /\ UpdateFails
  BY <1>1, <1>2, UpdateFailsKeeps
<1>3. CASE /\ store # Corrupt /\ phase' = "open" /\ next' = Apply(store, First)
           /\ UNCHANGED <<call, queue, stolen>>
  <2>1. /\ s \in Steps /\ s \in TextSteps /\ First.status \in Status /\ First.input \in Inputs
        /\ Awaited(First)
    BY <1>1, FirstTyped
  <2>2. store \in Stores /\ store[s] \in Record \cup {Absent}
    BY <1>3, <2>1 DEF CheckpointInv, TypeOK, Stores
  <2> DEFINE mine == [status |-> First.status,
                      input |-> IF First.status = "started" THEN First.input ELSE store[s].input]
  <2>3. next' = [store EXCEPT ![s] = mine]
    BY <1>3 DEF Apply
  <2>4. mine \in Record
    BY <2>1, <2>2 DEF Record, Absent
  <2>5. /\ next' \in Stores /\ next'[s] = mine
        /\ \A t \in Steps \ {s} : next'[t] = store[t]
    BY <2>1, <2>2, <2>3, <2>4 DEF Stores
  <2>6. First.status = "completed" => store[s].input = call[s].input
    BY <1>3, <2>1 DEF CheckpointInv, StartedInv, StartedAt, Awaited
  <2>7. NextInv'
    <3>1. /\ mine.status = First.status
          /\ First.status = "started" => mine.input = First.input
          /\ First.status = "completed" => mine.input = call[s].input
      BY <2>6
    <3> HIDE DEF mine
    <3>2. First' = First /\ call' = call /\ store' = store
      BY <1>1, <1>3 DEF First
    <3>3. QED  BY <2>5, <3>1, <3>2 DEF NextInv
  <2>8. TypeOK /\ TypeOK'
    BY <1>1, <1>3, <2>5 DEF CheckpointInv, TypeOK
  <2>9. QueueInv'
    BY <1>1, <1>3 DEF CheckpointInv, QueueInv, Awaited
  <2>10. SpoiltInv' /\ StartedInv' /\ CompletedHasArtifact' /\ ReturnedIsRecorded'
    BY <1>1, <1>3 DEF CheckpointInv, SpoiltInv, StartedInv, StartedAt, CompletedHasArtifact,
                      ReturnedIsRecorded
  <2>11. QED  BY <2>7, <2>8, <2>9, <2>10 DEF CheckpointInv
<1>4. QED  BY <1>2, <1>3 DEF Load

\* While the update goes on, what it is going to write stays the same.
LEMMA UpdateGoesOn ==
  ASSUME CheckpointInv, queue # <<>>, phase # "load", phase' \in {"write", "rename"},
         phase' = "rename" \/ phase = "open",
         UNCHANGED <<store, artifact, call, queue, next, stolen, resume, clash>>
  PROVE  CheckpointInv'
<1>1. TypeOK'
  BY DEF CheckpointInv, TypeOK
<1>2. QueueInv' /\ StartedInv' /\ CompletedHasArtifact' /\ ReturnedIsRecorded'
  BY DEF CheckpointInv, QueueInv, Awaited, StartedInv, StartedAt, CompletedHasArtifact,
         ReturnedIsRecorded
<1>3. SpoiltInv'
  BY DEF CheckpointInv, TypeOK, SpoiltInv
<1>4. NextInv'
  BY DEF CheckpointInv, NextInv, First
<1>5. QED  BY <1>1, <1>2, <1>3, <1>4 DEF CheckpointInv

\* What is about to be written is as true as the store, and more recent.
LEMMA NextIsTrue ==
  ASSUME CheckpointInv, queue # <<>>, phase # "load", store # Corrupt
  PROVE  /\ next \in Stores
         /\ \A t \in TextSteps \ {First.step} : next[t] = store[t]
         /\ \A t \in TextSteps : next[t].status = "completed" => artifact[t] = next[t].input
         /\ \A t \in Steps \ clash : call[t].pc = "done" => next[t] = store[t]
<1>1. next \in Stores /\ clash \subseteq VoidSteps /\ First.step \in TextSteps
      /\ Awaited(First) /\ TextSteps \cap VoidSteps = {}
  BY FirstTyped, CheckpointAssumption DEF CheckpointInv, TypeOK
<1>2. \A t \in Steps \ clash : t # First.step => next[t] = store[t]
  BY DEF CheckpointInv, NextInv
<1>3. \A t \in TextSteps \ {First.step} : next[t] = store[t]
  BY <1>1, <1>2 DEF Steps
<1>4. ASSUME next[First.step].status = "completed"
      PROVE  artifact[First.step] = next[First.step].input
  <2>1. First.status = "completed" /\ next[First.step].input = call[First.step].input
    BY <1>4 DEF CheckpointInv, NextInv
  <2>2. call[First.step].pc = "completing"
    BY <1>1, <2>1 DEF Awaited
  <2>3. QED  BY <1>1, <2>1, <2>2 DEF CheckpointInv, StartedInv, StartedAt
<1>5. \A t \in TextSteps : next[t].status = "completed" => artifact[t] = next[t].input
  BY <1>3, <1>4 DEF CheckpointInv, CompletedHasArtifact
<1>6. call[First.step].pc # "done"
  BY <1>1 DEF Awaited
<1>7. QED  BY <1>1, <1>2, <1>3, <1>5, <1>6

LEMMA WriteKeeps == ASSUME CheckpointInv, Write PROVE CheckpointInv'
<1>1. queue # <<>> /\ phase = "write" /\ UNCHANGED <<artifact, resume, clash>> /\ store # Corrupt
  BY DEF Write, CheckpointInv, SpoiltInv
<1>2. CASE UpdateFails /\ UNCHANGED store
  BY <1>1, <1>2, UpdateFailsKeeps
<1>3. CASE /\ phase' = "rename" /\ store' = store
           /\ UNCHANGED <<call, queue, next, stolen>>
  BY <1>1, <1>3, UpdateGoesOn
<1>4. CASE /\ phase' = "rename" /\ stolen /\ store' \in {next, Corrupt}
           /\ UNCHANGED <<call, queue, next, stolen>>
  <2>1. TypeOK'
    BY <1>1, <1>4 DEF CheckpointInv, TypeOK
  <2>2. QueueInv'
    BY <1>1, <1>4 DEF CheckpointInv, QueueInv, Awaited
  <2>3. SpoiltInv'
    BY <1>1, <1>4 DEF CheckpointInv, SpoiltInv
  <2>4. store' # Corrupt => store' = next
    BY <1>4
  <2>5. NextInv'
    BY <1>1, <1>4, <2>4 DEF CheckpointInv, NextInv, First
  <2>6. StartedInv'
    <3> SUFFICES ASSUME NEW t \in TextSteps PROVE StartedAt(t)'
      BY DEF StartedInv
    <3>1. StartedAt(t) /\ Awaited(First)
      BY <1>1, FirstTyped DEF CheckpointInv, StartedInv
    <3>2. CASE t = First.step
      BY <1>1, <1>4, <2>4, <3>1, <3>2 DEF StartedAt, Awaited, CheckpointInv, NextInv
    <3>3. CASE t # First.step
      <4>1. next[t] = store[t]
        BY <1>1, <3>3, NextIsTrue
      <4>2. QED  BY <1>1, <1>4, <2>4, <3>1, <4>1 DEF StartedAt
    <3>4. QED  BY <3>2, <3>3
  <2>7. CompletedHasArtifact'
    BY <1>1, <1>4, <2>4, NextIsTrue DEF CompletedHasArtifact
  <2>8. ReturnedIsRecorded'
    <3>1. clash' # {}
      BY <1>1, <1>4 DEF CheckpointInv, SpoiltInv
    <3>2. QED  BY <1>1, <1>4, <2>4, <3>1, NextIsTrue DEF CheckpointInv, ReturnedIsRecorded
  <2>9. QED  BY <2>1, <2>2, <2>3, <2>5, <2>6, <2>7, <2>8 DEF CheckpointInv
<1>5. QED  BY <1>2, <1>3, <1>4 DEF Write

LEMMA OpenKeeps == ASSUME CheckpointInv, Open PROVE CheckpointInv'
BY UpdateGoesOn DEF Open

\* The .tmp file is the one the update wrote: the store becomes what was to be
\* written, and the caller of the update goes on.
LEMMA RecordKeeps ==
  ASSUME CheckpointInv, queue # <<>>, phase = "rename", ~stolen,
         store' = next, phase' = "load", next' = EmptyStore, Answered(First.step),
         UNCHANGED <<artifact, stolen, resume, clash>>
  PROVE  CheckpointInv'
<1> DEFINE s == First.step
<1>1. /\ s \in TextSteps /\ s \in Steps /\ s \notin VoidSteps /\ First.input \in Inputs
      /\ Awaited(First) /\ call[s] \in Calls /\ StartedAt(s)
  BY FirstTyped DEF CheckpointInv, StartedInv
<1>2. store # Corrupt
  BY DEF CheckpointInv, SpoiltInv
<1>3. /\ next \in Stores
      /\ \A t \in TextSteps \ {s} : next[t] = store[t]
      /\ \A t \in TextSteps : next[t].status = "completed" => artifact[t] = next[t].input
      /\ \A t \in Steps \ clash : call[t].pc = "done" => next[t] = store[t]
  BY <1>2, NextIsTrue
<1>4. /\ call' = [call EXCEPT ![s] = call'[s]]
      /\ call'[s] =
           IF call[s].pc = "starting" THEN [call[s] EXCEPT !.pc = "producing"]
           ELSE IF call[s].pc = "completing" THEN [call[s] EXCEPT !.pc = "done"]
           ELSE Idle
      /\ queue' \in Seq(Update)
      /\ \A i, j \in DOMAIN queue' : queue'[i].step = queue'[j].step => i = j
      /\ QueueInv'
  BY AnsweredKeeps
<1>5. /\ next[s].status = First.status
      /\ First.status = "started" => next[s].input = First.input
      /\ First.status = "completed" => next[s].input = call[s].input
  BY DEF CheckpointInv, NextInv
<1>6. \A t \in Steps \ {s} : call'[t] = call[t]
  BY <1>1, <1>4 DEF CheckpointInv, TypeOK
<1>7. next[s] \in Record \cup {Absent} /\ next # Corrupt
  <2>1. next[s] \in Record \cup {Absent}
    BY <1>1, <1>3 DEF Stores
  <2>2. next[s].status # "corrupt"
    BY <2>1 DEF Record, Status, Absent, None
  <2>3. Corrupt[s].status = "corrupt"
    BY <1>1 DEF Corrupt
  <2>4. QED  BY <2>1, <2>2, <2>3
<1> HIDE DEF s
<1>8. call'[s] \in Calls
  BY <1>1, <1>4 DEF Calls, CallStates, Idle
\* What the caller has been told.
<1>9. /\ call'[s].pc \in {"producing", "done", "idle"}
      /\ call'[s].pc = "producing" =>
           /\ call'[s].input = call[s].input /\ call[s].input \in Inputs
           /\ next[s] .input = call[s].input /\ next[s].status = "started"
      /\ call'[s].pc = "done" =>
           /\ call'[s].input = call[s].input /\ call[s].input \in Inputs
           /\ next[s].input = call[s].input /\ next[s].status = "completed"
  <2>1. CASE call[s].pc = "starting"
    <3>1. call'[s].pc = "producing" /\ call'[s].input = call[s].input
      BY <1>1, <1>4, <2>1 DEF Calls
    <3>2. First.status = "started" /\ First.input = call[s].input
      BY <1>1, <2>1 DEF Awaited, s
    <3>3. call[s].input \in Inputs
      BY <1>1, <2>1 DEF StartedAt
    <3>4. QED  BY <1>5, <3>1, <3>2, <3>3
  <2>2. CASE call[s].pc = "completing"
    <3>1. call'[s].pc = "done" /\ call'[s].input = call[s].input
      BY <1>1, <1>4, <2>2 DEF Calls
    <3>2. First.status = "completed"
      BY <1>1, <2>2 DEF Awaited, s
    <3>3. call[s].input \in Inputs
      BY <1>1, <2>2 DEF StartedAt
    <3>4. QED  BY <1>5, <3>1, <3>2, <3>3
  <2>3. CASE call[s].pc \notin {"starting", "completing"}
    <3>1. call'[s].pc = "idle"
      BY <1>4, <2>3 DEF Idle
    <3>2. QED  BY <3>1
  <2>4. QED  BY <2>1, <2>2, <2>3
<1>10. TypeOK'
  <2>1. call' \in [Steps -> Calls]
    BY <1>1, <1>4, <1>6, <1>8 DEF CheckpointInv, TypeOK, Calls, CallStates
  <2>2. EmptyStore \in Stores
    BY DEF EmptyStore, Stores, Absent
  <2>3. TypeOK
    BY DEF CheckpointInv
  <2>4. QED  BY <1>3, <1>4, <2>1, <2>2, <2>3 DEF TypeOK, Calls, CallStates
<1>11. SpoiltInv' /\ NextInv'
  BY <1>7 DEF CheckpointInv, SpoiltInv, NextInv
<1>12. StartedInv'
  <2> SUFFICES ASSUME NEW t \in TextSteps PROVE StartedAt(t)'
    BY DEF StartedInv
  <2>1. CASE t = s
    BY <1>9, <2>1 DEF StartedAt
  <2>2. CASE t # s
    <3>1. StartedAt(t) /\ call'[t] = call[t] /\ next[t] = store[t]
      BY <1>3, <1>6, <2>2 DEF CheckpointInv, StartedInv, Steps, s
    <3>2. QED  BY <1>2, <3>1 DEF StartedAt
  <2>3. QED  BY <2>1, <2>2
<1>13. CompletedHasArtifact'
  BY <1>3 DEF CompletedHasArtifact
<1>14. ReturnedIsRecorded'
  <2>1. ASSUME NEW t \in Steps \ clash', call'[t].pc = "done"
        PROVE  next[t] = [status |-> "completed", input |-> call'[t].input]
    <3>1. CASE t = s
      <4>1. next[s].status = "completed" /\ next[s].input = call'[s].input
        BY <1>9, <2>1, <3>1
      <4>2. next[s] \in Record
        BY <1>7, <4>1 DEF Absent, None
      <4>3. QED  BY <3>1, <4>1, <4>2 DEF Record
    <3>2. CASE t # s
      <4>1. call'[t] = call[t] /\ next[t] = store[t]
        BY <1>3, <1>6, <2>1, <3>2
      <4>2. QED  BY <1>2, <2>1, <4>1 DEF CheckpointInv, ReturnedIsRecorded
    <3>3. QED  BY <3>1, <3>2
  <2>2. QED  BY <1>7, <2>1 DEF ReturnedIsRecorded
<1>15. QED
  BY <1>4, <1>10, <1>11, <1>12, <1>13, <1>14 DEF CheckpointInv

LEMMA RenameKeeps == ASSUME CheckpointInv, Rename PROVE CheckpointInv'
<1>1. queue # <<>> /\ phase = "rename" /\ UNCHANGED <<artifact, resume, clash>>
  BY DEF Rename
<1>2. CASE stolen /\ UpdateFails /\ UNCHANGED store
  BY <1>1, <1>2, UpdateFailsKeeps
<1>3. CASE /\ ~stolen /\ store' = next /\ phase' = "load" /\ next' = EmptyStore
           /\ Answered(First.step) /\ UNCHANGED stolen
  BY <1>1, <1>3, RecordKeeps
<1>4. QED  BY <1>2, <1>3 DEF Rename

\* A dead process has no call and no update in flight: the files stay true.
LEMMA DieKeeps == ASSUME CheckpointInv, Die PROVE CheckpointInv'
<1>1. /\ queue' = <<>> /\ phase' = "load" /\ next' = EmptyStore /\ stolen' = FALSE
      /\ resume' \in BOOLEAN /\ UNCHANGED <<store, artifact, clash>>
      /\ call' = [s \in Steps |-> IF call[s].pc = "done" THEN call[s] ELSE Idle]
  BY DEF Die
<1>2. \A s \in Steps : /\ call'[s].pc \in {"idle", "done"}
                       /\ call'[s].pc = "done" => call'[s] = call[s]
  BY <1>1 DEF Idle
<1>3. TypeOK'
  <2>1. EmptyStore \in Stores /\ Idle \in Calls
    BY DEF EmptyStore, Stores, Absent, Idle, Calls, CallStates
  <2>2. call \in [Steps -> Calls]
    BY DEF CheckpointInv, TypeOK, Calls, CallStates
  <2>3. call' \in [Steps -> Calls]
    BY <1>1, <2>1, <2>2
  <2>4. queue' \in Seq(Update) /\ DOMAIN queue' = {}
    BY <1>1
  <2>5. TypeOK
    BY DEF CheckpointInv
  <2>6. QED  BY <1>1, <2>1, <2>3, <2>4, <2>5 DEF TypeOK, Calls, CallStates
<1>4. QueueInv' /\ SpoiltInv' /\ NextInv'
  BY <1>1 DEF CheckpointInv, QueueInv, SpoiltInv, NextInv
<1>5. StartedInv'
  <2> SUFFICES ASSUME NEW t \in TextSteps PROVE StartedAt(t)'
    BY DEF StartedInv
  <2>1. t \in Steps /\ StartedAt(t)
    BY DEF CheckpointInv, StartedInv, Steps
  <2>2. QED  BY <1>2, <2>1 DEF StartedAt
<1>6. CompletedHasArtifact' /\ ReturnedIsRecorded'
  BY <1>1, <1>2 DEF CheckpointInv, CompletedHasArtifact, ReturnedIsRecorded
<1>7. QED  BY <1>3, <1>4, <1>5, <1>6 DEF CheckpointInv

LEMMA CheckpointStep == CheckpointInv /\ [Next]_vars => CheckpointInv'
<1> SUFFICES ASSUME CheckpointInv, [Next]_vars PROVE CheckpointInv'
  OBVIOUS
<1>1. ASSUME NEW s \in TextSteps, Call(s) \/ RecordStarted(s) PROVE CheckpointInv'
  BY <1>1, CallStarts
<1>2. ASSUME NEW s \in TextSteps, Work(s) PROVE CheckpointInv'
  BY <1>2, WorkKeeps
<1>3. ASSUME NEW s \in VoidSteps, VoidStep(s) PROVE CheckpointInv'
  BY <1>3, VoidKeeps
<1>4. CASE Queue
  BY <1>4, LoadKeeps, OpenKeeps, WriteKeeps, RenameKeeps DEF Queue
<1>5. CASE Die
  BY <1>5, DieKeeps
<1>6. CASE UNCHANGED vars
  BY <1>6 DEF vars, CheckpointInv, TypeOK, QueueInv, Awaited, SpoiltInv, NextInv, First,
              StartedInv, StartedAt, CompletedHasArtifact, ReturnedIsRecorded
<1>7. QED  BY <1>1, <1>2, <1>3, <1>4, <1>5, <1>6 DEF Next

-----------------------------------------------------------------------------
\* checkpoint-runtime.ts, whatever the steps, their inputs and the writes that
\* fail, and wherever the process dies: its types, the queue of updates, and
\* what the file under way is going to say.
THEOREM CheckpointTheorem == Spec => []CheckpointInv
<1>1. Init => CheckpointInv
  BY CheckpointInitial
<1>2. CheckpointInv /\ [Next]_vars => CheckpointInv'
  BY CheckpointStep
<1>3. QED  BY <1>1, <1>2, PTL DEF Spec

\* A record says completed only of an artifact that is there and was produced
\* from the input the record names (checkpoint-runtime.ts:80-102).
THEOREM CompletedTheorem == Spec => []CompletedHasArtifact
<1>1. CheckpointInv => CompletedHasArtifact
  BY DEF CheckpointInv
<1>2. QED  BY <1>1, CheckpointTheorem, PTL

\* A step that has returned stays recorded with its input, but for void steps
\* that ran into an update, and nothing else spoils the file
\* (checkpoint-runtime.ts:50-59, :176-192, atomic-write.ts:4-9).
THEOREM ReturnedTheorem == Spec => []ReturnedIsRecorded
<1>1. CheckpointInv => ReturnedIsRecorded
  BY DEF CheckpointInv
<1>2. QED  BY <1>1, CheckpointTheorem, PTL
=============================================================================
