-------------------------- MODULE RunWorkflow_proofs --------------------------
(***************************************************************************)
(* Runs in one plan folder, for any number of processes, deaths and        *)
(* attempts: what the lock directory guarantees, and what workflow.json    *)
(* says of the run inside.                                                 *)
(*                                                                         *)
(* Whoever is in a run owns the directory or was robbed of it; and nobody  *)
(* is robbed before a process has died or a missing metadata file was      *)
(* taken for residue.                                                      *)
(***************************************************************************)
EXTENDS RunWorkflow, TLAPS

Points == {"idle", "dead"} \cup SweepSteps \cup LoopSteps \cup ReleaseSteps \cup RunSteps
Records == [pid : Procs, born : Nat, whole : BOOLEAN]
Locks == [present : BOOLEAN, meta : Records \cup {NoMeta}, old : BOOLEAN]

Mine(p) == lock.meta # NoMeta /\ lock.meta.pid = p

ShapeInv ==
  /\ lock \in Locks /\ (~lock.present => lock.meta = NoMeta)
  /\ life \in [Procs -> Nat] /\ pc \in [Procs -> Points]
  /\ saw \in [Procs -> Records \cup {NoMeta}]
  /\ \A p \in Procs : pc[p] \in {"judge", "sweepJudge"} => saw[p] # NoMeta

\* A process on its way into a run, or in one.
Owned == \A p \in Procs : pc[p] \notin Without => Mine(p) \/ p \in robbed

\* Metadata of a process that is still in its first life.
FirstLife(m) == m # NoMeta => m.born \in {Unknown, 1}

\* The steps that lead to a removal, and those after one.
Judged == {"dead", "sweepUnlink", "sweepRmdir", "rename"}

PeaceInv ==
  Remote = {} /\ peace =>
    /\ robbed = {} /\ FirstLife(lock.meta)
    /\ \A p \in Procs : life[p] = 1 /\ pc[p] \notin Judged /\ FirstLife(saw[p])

FolderInv == ShapeInv /\ Owned /\ PeaceInv /\ LockGivenBack

LEMMA RecordIsMeta == \A m \in Records : m # NoMeta
BY DEF Records, NoMeta

LEMMA FolderInitial == Init => FolderInv
<1> SUFFICES ASSUME Init PROVE FolderInv
  OBVIOUS
<1>1. /\ lock = NoDir /\ life = [p \in Procs |-> 1] /\ pc = [p \in Procs |-> "idle"]
      /\ saw = [p \in Procs |-> NoMeta] /\ robbed = {}
  BY DEF Init, LockInit
<1>2. lock.meta = NoMeta /\ lock \in Locks
  BY <1>1 DEF NoDir, Locks
<1>3. ShapeInv
  BY <1>1, <1>2 DEF ShapeInv, Points
<1>4. Owned /\ PeaceInv /\ LockGivenBack
  BY <1>1, <1>2 DEF Owned, Without, PeaceInv, FirstLife, Judged, LockGivenBack
<1>5. QED  BY <1>3, <1>4 DEF FolderInv

-----------------------------------------------------------------------------
\* What the steps are made of.

\* A step that takes the lock from nobody, and keeps it or leaves by a way that
\* is told as orphaned.
LEMMA QuietKeeps ==
  ASSUME FolderInv, NEW p \in Procs, NEW step \in Points,
         pc' = [pc EXCEPT ![p] = step],
         UNCHANGED <<life, robbed>>,
         lock' \in Locks, ~lock'.present => lock'.meta = NoMeta,
         lock'.meta = NoMeta <=> lock.meta = NoMeta,
         lock.meta # NoMeta => lock'.meta.pid = lock.meta.pid /\ lock'.meta.born = lock.meta.born,
         saw' = [saw EXCEPT ![p] = saw'[p]], saw'[p] \in Records \cup {NoMeta},
         step \in {"judge", "sweepJudge"} => saw'[p] # NoMeta,
         step \notin Without => pc[p] \notin Without,
         orphaned => orphaned',
         step \in Without /\ pc[p] \notin Without /\ Mine(p) => orphaned',
         peace' => peace,
         Remote = {} /\ peace' => step \notin Judged /\ FirstLife(saw'[p])
  PROVE  FolderInv'
<1>1. /\ pc'[p] = step /\ \A q \in Procs \ {p} : pc'[q] = pc[q] /\ saw'[q] = saw[q]
      /\ pc' \in [Procs -> Points] /\ saw' \in [Procs -> Records \cup {NoMeta}]
  BY DEF FolderInv, ShapeInv
<1>2. \A q : Mine(q)' = Mine(q)
  BY DEF Mine
<1>3. ShapeInv'
  BY <1>1 DEF FolderInv, ShapeInv
<1>4. Owned'
  BY <1>1, <1>2 DEF FolderInv, Owned
<1>5. LockGivenBack'
  BY <1>1, <1>2 DEF FolderInv, LockGivenBack, Mine
<1>6. PeaceInv'
  BY <1>1 DEF FolderInv, PeaceInv, FirstLife
<1>7. QED  BY <1>3, <1>4, <1>5, <1>6 DEF FolderInv

\* A step that removes the metadata that is there.
LEMMA TakeKeeps ==
  ASSUME FolderInv, NEW p \in Procs, NEW step \in Points,
         pc' = [pc EXCEPT ![p] = step], step \in Without \ {"judge", "sweepJudge"},
         lock' \in Locks, lock'.meta = NoMeta, Take(p),
         UNCHANGED <<life, saw, peace>>,
         Remote = {} /\ peace => pc[p] = "unlink" /\ step = "rmdir"
  PROVE  FolderInv'
<1>1. /\ pc'[p] = step /\ \A q \in Procs \ {p} : pc'[q] = pc[q]
      /\ pc' \in [Procs -> Points]
  BY DEF FolderInv, ShapeInv
<1>2. \A q : ~Mine(q)'
  BY DEF Mine
<1>3. ShapeInv'
  BY <1>1 DEF FolderInv, ShapeInv
<1>4. LockGivenBack'
  BY <1>2 DEF LockGivenBack, Mine
<1>5. Owned'
  <2> SUFFICES ASSUME NEW q \in Procs, pc'[q] \notin Without PROVE q \in robbed'
    BY DEF Owned
  <2>1. q # p /\ pc[q] \notin Without
    BY <1>1
  <2>2. Mine(q) \/ q \in robbed
    BY <2>1 DEF FolderInv, Owned
  <2>3. QED  BY <2>1, <2>2 DEF Take, Rob, Mine
<1>6. PeaceInv'
  <2> SUFFICES ASSUME Remote = {}, peace
               PROVE  /\ robbed' = {} /\ FirstLife(lock.meta)'
                      /\ \A q \in Procs : life'[q] = 1 /\ pc'[q] \notin Judged /\ FirstLife(saw[q])'
    BY DEF PeaceInv
  <2>1. /\ robbed = {}
        /\ \A q \in Procs : life[q] = 1 /\ pc[q] \notin Judged /\ FirstLife(saw[q])
    BY DEF FolderInv, PeaceInv
  <2>2. pc[p] \notin Without /\ step \notin Judged
    BY DEF Without, SweepSteps, LoopSteps, Judged
  <2>3. Mine(p)
    BY <2>1, <2>2 DEF FolderInv, Owned
  <2>4. robbed' = {}
    BY <2>1, <2>3 DEF Take, Rob, Mine
  <2>5. FirstLife(lock.meta)'
    BY DEF FirstLife
  <2>6. QED  BY <1>1, <2>1, <2>2, <2>4, <2>5 DEF FirstLife
<1>7. QED  BY <1>3, <1>4, <1>5, <1>6 DEF FolderInv

\* The exclusive creation of the metadata: there was none.
LEMMA CreateKeeps ==
  ASSUME FolderInv, NEW p \in Procs, pc[p] = "open", lock.meta = NoMeta, Create(p),
         UNCHANGED <<life, saw, orphaned, peace>>
  PROVE  FolderInv'
<1>1. PICK born \in Started(p) : lock' = Dir([pid |-> p, born |-> born, whole |-> FALSE])
  BY DEF Create
<1>2. born \in Nat /\ born \in {Unknown, life[p]}
  BY DEF Started, Unknown, FolderInv, ShapeInv
<1>3. /\ lock'.meta = [pid |-> p, born |-> born, whole |-> FALSE] /\ lock'.meta \in Records
      /\ lock'.present /\ lock' \in Locks
  BY <1>1, <1>2 DEF Dir, Records, Locks
<1>4. lock'.meta # NoMeta /\ lock'.meta.pid = p
  <2>1. lock'.meta # NoMeta
    BY <1>3, RecordIsMeta
  <2>2. lock'.meta.pid = p
    BY <1>3
  <2>3. QED  BY <2>1, <2>2
<1>5. /\ pc'[p] = "fill" /\ \A q \in Procs \ {p} : pc'[q] = pc[q]
      /\ pc' \in [Procs -> Points] /\ robbed' = robbed \ {p}
  BY DEF Create, Goto, FolderInv, ShapeInv, Points, LoopSteps
<1>6. ShapeInv'
  BY <1>3, <1>5 DEF FolderInv, ShapeInv
<1>7. Owned'
  BY <1>4, <1>5 DEF FolderInv, Owned, Mine
<1>8. LockGivenBack'
  <2>1. "fill" \notin Without
    BY DEF Without, SweepSteps, LoopSteps
  <2>2. QED  BY <1>4, <1>5, <2>1 DEF LockGivenBack
<1>9. PeaceInv'
  BY <1>2, <1>3, <1>5 DEF FolderInv, PeaceInv, FirstLife, Judged
<1>10. QED  BY <1>6, <1>7, <1>8, <1>9 DEF FolderInv

\* Of living processes in their first life none is judged stale.
LEMMA NotStale ==
  ASSUME FolderInv, Remote = {}, peace, NEW p \in Procs, saw[p] # NoMeta,
         NEW started \in Started(saw[p].pid)
  PROVE  ~Stale(p, saw[p], started)
<1>1. saw[p] \in Records /\ saw[p].pid \in Procs /\ saw[p].born \in {Unknown, 1}
  BY DEF FolderInv, ShapeInv, PeaceInv, FirstLife, Records
<1>2. life[saw[p].pid] = 1 /\ ~Dead(saw[p].pid)
  BY <1>1 DEF FolderInv, PeaceInv, Judged, Dead
<1>3. QED  BY <1>1, <1>2 DEF Stale, Started, Unknown

\* What was read is a record, and in peace of a first life.
LEMMA ReadableIsRecord ==
  ASSUME FolderInv
  PROVE  /\ Readable \in Records \cup {NoMeta}
         /\ Remote = {} /\ peace => FirstLife(Readable)
BY DEF FolderInv, ShapeInv, PeaceInv, FirstLife, Readable, Locks

LEMMA RetryStep ==
  ASSUME NEW p, NEW count, Retry(p, count)
  PROVE  \E step \in {"mkdir", "idle"} : pc' = [pc EXCEPT ![p] = step]
BY DEF Retry, Return, Goto

-----------------------------------------------------------------------------
\* The steps.

\* The steps of acquireLock that only look.
LEMMA LookKeeps ==
  ASSUME FolderInv, NEW p \in Procs,
         Begin(p) \/ SweepRead(p) \/ SweepJudge(p) \/ Read(p) \/ Judge(p)
  PROVE  FolderInv'
<1> USE DEF Points, SweepSteps, LoopSteps, ReleaseSteps
<1>1. /\ pc[p] \in {"idle", "sweepRead", "sweepJudge", "read", "judge"}
      /\ UNCHANGED <<lock, life, robbed, orphaned>> /\ (peace' => peace)
  <2>1. pc[p] \in {"idle", "sweepRead", "sweepJudge", "read", "judge"}
    BY DEF Begin, SweepRead, SweepJudge, Read, Judge
  <2>2. UNCHANGED <<lock, life, robbed, orphaned>>
    BY DEF Begin, SweepRead, SweepJudge, Read, Judge
  <2>3. peace' => peace
    BY Zenon DEF Begin, SweepRead, SweepJudge, Read, Judge
  <2>4. QED  BY <2>1, <2>2, <2>3
<1>2. /\ lock \in Locks /\ (~lock.present => lock.meta = NoMeta)
      /\ saw \in [Procs -> Records \cup {NoMeta}]
      /\ pc[p] \in {"judge", "sweepJudge"} => saw[p] # NoMeta
  BY DEF FolderInv, ShapeInv
<1>3. PICK step \in {"sweepRead", "mkdir", "sweepUnlink", "sweepJudge", "idle", "judge", "rename"} :
        pc' = [pc EXCEPT ![p] = step]
  <2>1. CASE Begin(p) \/ SweepRead(p) \/ SweepJudge(p)
    BY <2>1 DEF Begin, SweepRead, SweepJudge, Goto
  <2>2. CASE Read(p) \/ Judge(p)
    BY <2>2, RetryStep DEF Read, Judge, Goto, Return
  <2>3. QED  BY <2>1, <2>2
<1>4. saw' = [saw EXCEPT ![p] = saw'[p]] /\ saw'[p] \in {saw[p], NoMeta, Readable}
  BY <1>2 DEF Begin, SweepRead, SweepJudge, Read, Judge
<1>5. saw'[p] \in Records \cup {NoMeta} /\ (Remote = {} /\ peace => FirstLife(saw'[p]))
  BY <1>2, <1>4, ReadableIsRecord DEF FolderInv, PeaceInv, FirstLife
<1>6. step \in {"judge", "sweepJudge"} => saw'[p] # NoMeta
  <2>1. pc'[p] = step
    BY <1>3 DEF FolderInv, ShapeInv
  <2>2. CASE Begin(p) \/ SweepJudge(p) \/ Judge(p)
    BY <2>1, <2>2 DEF Begin, SweepJudge, Judge, Goto, Return, FolderInv, ShapeInv
  <2>3. CASE SweepRead(p)
    BY <1>2, <2>1, <2>3 DEF SweepRead, Goto, FolderInv, ShapeInv
  <2>4. CASE Read(p)
    <3>1. saw'[p] = Readable
      BY <1>2, <2>4 DEF Read
    <3>2. CASE Readable = NoMeta
      <4>1. \E next \in {"mkdir", "idle", "rename"} : pc' = [pc EXCEPT ![p] = next]
        BY <2>4, <3>2, RetryStep DEF Read, Goto
      <4>2. QED  BY <2>1, <4>1 DEF FolderInv, ShapeInv
    <3>3. QED  BY <3>1, <3>2
  <2>5. QED  BY <2>2, <2>3, <2>4
<1>7. Remote = {} /\ peace' => step \notin Judged
  <2> SUFFICES ASSUME Remote = {}, peace' PROVE step \notin Judged
    OBVIOUS
  <2>1. pc'[p] = step /\ peace
    BY <1>1, <1>3 DEF FolderInv, ShapeInv
  <2>2. CASE Begin(p)
    BY <2>1, <2>2 DEF Begin, Goto, Judged, FolderInv, ShapeInv
  <2>3. CASE SweepRead(p)
    BY <2>1, <2>3 DEF SweepRead, Goto, Judged, FolderInv, ShapeInv
  <2>4. CASE SweepJudge(p) \/ Judge(p)
    <3>1. saw[p] # NoMeta
      BY <1>2, <2>4 DEF SweepJudge, Judge
    <3>2. \A started \in Started(saw[p].pid) : ~Stale(p, saw[p], started)
      BY <2>1, <3>1, NotStale
    <3>3. pc' = [pc EXCEPT ![p] = "mkdir"] \/ pc' = [pc EXCEPT ![p] = "idle"]
      BY <2>4, <3>2 DEF SweepJudge, Judge, Goto, Return
    <3>4. QED  BY <2>1, <3>3 DEF Judged, FolderInv, ShapeInv
  <2>5. CASE Read(p)
    <3>1. \E next \in {"mkdir", "idle", "judge"} : pc' = [pc EXCEPT ![p] = next]
      BY <2>1, <2>5, RetryStep DEF Read, Goto
    <3>2. QED  BY <2>1, <3>1 DEF Judged, FolderInv, ShapeInv
  <2>6. QED  BY <2>2, <2>3, <2>4, <2>5
<1>8. step \in Without /\ pc[p] \in Without
  BY <1>1, <1>3 DEF Without
<1>9. QED
  BY <1>1, <1>2, <1>3, <1>4, <1>5, <1>6, <1>7, <1>8, QuietKeeps

\* The steps that make or remove an empty directory, or fill the file that was
\* opened, and the attempt to open one that is there.
LEMMA DirectoryKeeps ==
  ASSUME FolderInv, NEW p \in Procs,
         \/ SweepRmdir(p) \/ Rmdir(p) \/ Mkdir(p) \/ Fill(p)
         \/ Open(p) /\ ~(lock.present /\ lock.meta = NoMeta)
  PROVE  FolderInv'
<1> USE DEF Points, SweepSteps, LoopSteps, ReleaseSteps, RunSteps
<1>1. UNCHANGED <<life, saw, robbed, orphaned, peace>>
  BY DEF SweepRmdir, Rmdir, Mkdir, Fill, Open
<1>2. /\ lock \in Locks /\ (~lock.present => lock.meta = NoMeta)
      /\ saw \in [Procs -> Records \cup {NoMeta}]
      /\ saw' = [saw EXCEPT ![p] = saw'[p]] /\ saw'[p] = saw[p]
      /\ saw[p] \in Records \cup {NoMeta}
  BY <1>1 DEF FolderInv, ShapeInv
<1>3. /\ lock' \in Locks /\ (~lock'.present => lock'.meta = NoMeta)
      /\ lock'.meta = NoMeta <=> lock.meta = NoMeta
      /\ lock.meta # NoMeta => lock'.meta.pid = lock.meta.pid /\ lock'.meta.born = lock.meta.born
  <2>1. CASE lock' = lock
    BY <1>2, <2>1
  <2>2. CASE lock.meta = NoMeta /\ (lock' = NoDir \/ lock' = Dir(NoMeta))
    <3>1. /\ NoDir \in Locks /\ NoDir.meta = NoMeta
          /\ Dir(NoMeta) \in Locks /\ Dir(NoMeta).meta = NoMeta
      BY DEF NoDir, Dir, Locks
    <3>2. QED  BY <2>2, <3>1
  <2>3. CASE lock.meta # NoMeta /\ lock' = [lock EXCEPT !.meta.whole = TRUE]
    <3>1. lock.meta \in Records
      BY <1>2, <2>3 DEF Locks
    <3>2. lock' = [lock EXCEPT !.meta = [lock.meta EXCEPT !.whole = TRUE]]
      BY <2>3
    <3> DEFINE m == [lock.meta EXCEPT !.whole = TRUE]
    <3>3. m \in Records /\ m.pid = lock.meta.pid /\ m.born = lock.meta.born
      BY <3>1 DEF Records
    <3>4. m # NoMeta
      BY <3>3, RecordIsMeta
    <3> HIDE DEF m
    <3>5. lock' \in Locks /\ lock'.meta = m /\ lock'.present = lock.present
      BY <1>2, <3>2, <3>3 DEF Locks, m
    <3>6. QED  BY <1>2, <2>3, <3>3, <3>4, <3>5
  <2>4. QED
    BY <1>2, <2>1, <2>2, <2>3 DEF SweepRmdir, Rmdir, RemoveEmpty, Mkdir, Fill, Open
<1>4. PICK step \in {"mkdir", "idle", "read", "open", "held"} :
        /\ pc' = [pc EXCEPT ![p] = step]
        /\ step = "held" => pc[p] = "fill"
        /\ step # "held" => pc[p] \in {"sweepRmdir", "rmdir", "mkdir", "open"}
  <2>1. CASE SweepRmdir(p) \/ Rmdir(p) \/ Mkdir(p) \/ Fill(p)
    BY <2>1 DEF SweepRmdir, Rmdir, Mkdir, Fill, Goto, Return
  <2>2. CASE Open(p) /\ ~(lock.present /\ lock.meta = NoMeta)
    BY <2>2, RetryStep DEF Open
  <2>3. QED  BY <2>1, <2>2
<1>5. /\ step \in Points /\ step \notin {"judge", "sweepJudge"} /\ step \notin Judged
      /\ step \notin Without => pc[p] \notin Without
      /\ step \in Without => pc[p] \in Without
  BY <1>4 DEF Without, Judged
<1>6. Remote = {} /\ peace' => FirstLife(saw'[p])
  BY <1>1, <1>2 DEF FolderInv, PeaceInv, FirstLife
<1>7. QED  BY <1>1, <1>2, <1>3, <1>4, <1>5, <1>6, QuietKeeps

\* The removals.
LEMMA RemoveKeeps ==
  ASSUME FolderInv, NEW p \in Procs, SweepUnlink(p) \/ Rename(p) \/ Unlink(p)
  PROVE  FolderInv'
<1> USE DEF Points, SweepSteps, LoopSteps, ReleaseSteps
<1>1. /\ UNCHANGED <<life, saw, peace>> /\ pc[p] \in {"sweepUnlink", "rename", "unlink"}
      /\ lock \in Locks /\ (~lock.present => lock.meta = NoMeta)
      /\ Remote = {} /\ peace => pc[p] \notin Judged
  BY DEF SweepUnlink, Rename, Unlink, FolderInv, ShapeInv, PeaceInv
<1>2. lock' \in Locks /\ lock'.meta = NoMeta
  <2>1. NoDir \in Locks /\ Dir(NoMeta) \in Locks /\ NoDir.meta = NoMeta /\ Dir(NoMeta).meta = NoMeta
    BY DEF NoDir, Dir, Locks
  <2>2. lock' = NoDir \/ lock' = Dir(NoMeta) \/ (lock' = lock /\ lock.meta = NoMeta)
    BY DEF SweepUnlink, Rename, Unlink, Empty
  <2>3. QED  BY <1>1, <2>1, <2>2
<1>3. CASE SweepUnlink(p)
  <2>1. pc' = [pc EXCEPT ![p] = "sweepRmdir"] /\ Take(p) /\ pc[p] = "sweepUnlink"
    BY <1>3 DEF SweepUnlink, Empty, Goto
  <2>2. "sweepRmdir" \in Points /\ "sweepRmdir" \in Without \ {"judge", "sweepJudge"}
    BY DEF Without
  <2>3. QED  BY <1>1, <1>2, <2>1, <2>2, TakeKeeps DEF Judged
<1>4. CASE Unlink(p)
  <2>1. pc' = [pc EXCEPT ![p] = "rmdir"] /\ Take(p) /\ pc[p] = "unlink"
    BY <1>4 DEF Unlink, Empty, Goto
  <2>2. "rmdir" \in Points /\ "rmdir" \in Without \ {"judge", "sweepJudge"}
    BY DEF Without
  <2>3. QED  BY <1>1, <1>2, <2>1, <2>2, TakeKeeps
<1>5. CASE Rename(p)
  <2>1. PICK step \in {"mkdir", "idle"} : pc' = [pc EXCEPT ![p] = step]
    BY <1>5, RetryStep DEF Rename
  <2>2. step \in Points /\ step \in Without \ {"judge", "sweepJudge"} /\ pc[p] = "rename"
    BY <1>5 DEF Without, Rename
  <2>3. CASE lock.present
    <3>1. Take(p)
      BY <1>5, <2>3 DEF Rename
    <3>2. QED  BY <1>1, <1>2, <2>1, <2>2, <3>1, TakeKeeps DEF Judged
  <2>4. CASE ~lock.present
    <3>1. UNCHANGED <<robbed, orphaned>> /\ lock.meta = NoMeta
      BY <1>1, <1>5, <2>4 DEF Rename
    <3>2. /\ saw' = [saw EXCEPT ![p] = saw'[p]] /\ saw'[p] \in Records \cup {NoMeta}
          /\ pc[p] \in Without
          /\ Remote = {} /\ peace' => FALSE
      BY <1>1, <2>2 DEF FolderInv, ShapeInv, Without, Judged
    <3>3. QED  BY <1>1, <1>2, <2>1, <2>2, <3>1, <3>2, QuietKeeps
  <2>5. QED  BY <2>3, <2>4
<1>6. QED  BY <1>3, <1>4, <1>5

\* A step inside a run, or out of one.
LEMMA InsideKeeps ==
  ASSUME FolderInv, NEW p \in Procs, NEW step \in Points,
         pc' = [pc EXCEPT ![p] = step],
         UNCHANGED <<lock, life, robbed>>, saw' \in {saw, [saw EXCEPT ![p] = NoMeta]},
         \/ step \in RunSteps \cup {"unlink"} /\ pc[p] \in RunSteps /\ UNCHANGED orphaned
         \/ step \in {"idle", "dead"} /\ Orphan(p),
         peace' \in {peace, FALSE}, step = "dead" => ~peace'
  PROVE  FolderInv'
<1>1. /\ lock \in Locks /\ (~lock.present => lock.meta = NoMeta)
      /\ saw' = [saw EXCEPT ![p] = saw'[p]] /\ saw'[p] \in {saw[p], NoMeta}
      /\ saw[p] \in Records \cup {NoMeta}
  BY DEF FolderInv, ShapeInv
<1>2. /\ step \notin {"judge", "sweepJudge"} /\ step \notin Judged \ {"dead"}
      /\ step \notin Without => pc[p] \notin Without
      /\ step \in Without /\ Mine(p) => orphaned'
      /\ orphaned => orphaned'
  <2>1. CASE step \in RunSteps \cup {"unlink"} /\ pc[p] \in RunSteps /\ UNCHANGED orphaned
    BY <2>1 DEF RunSteps, Judged, Without, SweepSteps, LoopSteps
  <2>2. CASE step \in {"idle", "dead"} /\ Orphan(p)
    <3>1. (Mine(p) => orphaned') /\ (orphaned => orphaned')
      BY <2>2, Zenon DEF Orphan, Mine
    <3>2. QED  BY <2>2, <3>1 DEF Judged, Without
  <2>3. QED  BY <2>1, <2>2
<1>3. peace' => peace
  OBVIOUS
<1>4. Remote = {} /\ peace' => step \notin Judged /\ FirstLife(saw'[p])
  BY <1>1, <1>2, <1>3 DEF FolderInv, PeaceInv, FirstLife
<1>5. QED  BY <1>1, <1>2, <1>3, <1>4, QuietKeeps

LEMMA RunKeeps == ASSUME FolderInv, NEW p \in Procs, Run(p) PROVE FolderInv'
<1>1. UNCHANGED <<lock, life, saw, robbed, peace>>
  BY DEF Run, StartRead, StartWrite, Body, FinishWrite, Leave, FailRead, FailWrite,
         ReleaseFails, Step
<1>2. \E step \in Points :
        /\ pc' = [pc EXCEPT ![p] = step]
        /\ \/ step \in RunSteps \cup {"unlink"} /\ pc[p] \in RunSteps /\ UNCHANGED orphaned
           \/ step = "idle" /\ Orphan(p)
  <2> USE DEF Step, Goto, Points, RunSteps, ReleaseSteps
  <2>1. CASE StartRead(p)
    BY <2>1 DEF StartRead
  <2>2. CASE StartWrite(p)
    BY <2>2 DEF StartWrite
  <2>3. CASE Body(p)
    BY <2>3 DEF Body
  <2>4. CASE FinishWrite(p)
    BY <2>4 DEF FinishWrite, Leave
  <2>5. CASE FailRead(p)
    BY <2>5 DEF FailRead
  <2>6. CASE FailWrite(p)
    BY <2>6 DEF FailWrite, Leave
  <2>7. CASE ReleaseFails(p)
    BY <2>7 DEF ReleaseFails
  <2>8. QED  BY <2>1, <2>2, <2>3, <2>4, <2>5, <2>6, <2>7 DEF Run
<1>3. PICK step \in Points :
        /\ pc' = [pc EXCEPT ![p] = step]
        /\ \/ step \in RunSteps \cup {"unlink"} /\ pc[p] \in RunSteps /\ UNCHANGED orphaned
           \/ step = "idle" /\ Orphan(p)
  BY <1>2
<1>4. step # "dead"
  BY <1>3 DEF RunSteps
<1>5. saw' = saw /\ peace' = peace
  BY <1>1
<1>6. QED  BY <1>1, <1>3, <1>4, <1>5, InsideKeeps

LEMMA CrashKeeps == ASSUME FolderInv, NEW p \in Procs, Crash(p) PROVE FolderInv'
<1>1. /\ pc' = [pc EXCEPT ![p] = "dead"] /\ UNCHANGED <<lock, life, robbed>>
      /\ saw' = [saw EXCEPT ![p] = NoMeta] /\ Orphan(p) /\ peace' = FALSE
  BY DEF Crash, Die, Return, Goto
<1>2. QED  BY <1>1, InsideKeeps DEF Points

\* A pid is given to a new process, and a directory gets old.
LEMMA WorldKeeps ==
  ASSUME FolderInv, Age \/ \E p \in Procs : Reuse(p) PROVE FolderInv'
<1>1. CASE Age
  <2>1. /\ lock' = [lock EXCEPT !.old = TRUE] /\ lock.present /\ lock \in Locks
        /\ UNCHANGED <<life, pc, saw, robbed, orphaned, peace>>
    BY <1>1 DEF Age, FolderInv, ShapeInv
  <2>2. lock'.meta = lock.meta /\ lock'.present /\ lock' \in Locks
    BY <2>1 DEF Locks
  <2>3. QED  BY <2>1, <2>2 DEF FolderInv, ShapeInv, Owned, Mine, PeaceInv, FirstLife, LockGivenBack
<1>2. ASSUME NEW p \in Procs, Reuse(p) PROVE FolderInv'
  <2>1. /\ pc[p] = "dead" /\ life' = [life EXCEPT ![p] = @ + 1] /\ pc' = [pc EXCEPT ![p] = "idle"]
        /\ UNCHANGED <<lock, saw, robbed, orphaned, peace>>
    BY <1>2 DEF Reuse, Dead, Goto
  <2>2. /\ life' \in [Procs -> Nat] /\ pc' \in [Procs -> Points]
        /\ pc'[p] = "idle" /\ \A q \in Procs \ {p} : pc'[q] = pc[q]
        /\ pc[p] \in Without /\ pc'[p] \in Without
    BY <2>1 DEF FolderInv, ShapeInv, Points, Without
  <2>3. ShapeInv' /\ Owned' /\ LockGivenBack'
    BY <2>1, <2>2 DEF FolderInv, ShapeInv, Owned, Mine, LockGivenBack
  <2>4. ~(Remote = {} /\ peace)
    BY <2>1 DEF FolderInv, PeaceInv, Judged
  <2>5. QED  BY <2>1, <2>3, <2>4 DEF FolderInv, PeaceInv
<1>3. QED  BY <1>1, <1>2

LEMMA FolderStep == FolderInv /\ [Next]_vars => FolderInv'
<1> SUFFICES ASSUME FolderInv, [Next]_vars PROVE FolderInv'
  OBVIOUS
<1>1. ASSUME NEW p \in Procs, Acquiring(p) \/ Releasing(p) PROVE FolderInv'
  <2>1. CASE Open(p) /\ lock.present /\ lock.meta = NoMeta
    <3>1. pc[p] = "open" /\ Create(p) /\ UNCHANGED <<life, saw, orphaned, peace>>
      BY <2>1 DEF Open
    <3>2. QED  BY <2>1, <3>1, CreateKeeps
  <2>2. QED
    BY <1>1, <2>1, LookKeeps, DirectoryKeeps, RemoveKeeps DEF Acquiring, Releasing
<1>2. ASSUME NEW p \in Procs, RunStep(p) \/ Crash(p) PROVE FolderInv'
  BY <1>1, <1>2, RunKeeps, CrashKeeps DEF RunStep, Locking
<1>3. CASE UNCHANGED vars
  BY <1>3 DEF vars, lockVars, FolderInv, ShapeInv, Owned, Mine, PeaceInv, FirstLife, LockGivenBack
<1>4. QED  BY <1>2, <1>3, WorldKeeps DEF Next

-----------------------------------------------------------------------------
\* workflow.json.

StatusInv ==
  /\ wf \in Workflow \cup {NoFile} /\ copy \in [Procs -> Workflow \cup {NoFile}]
  /\ \A p \in Procs : pc[p] \in Underway => wf # NoFile
  /\ \A p \in Procs : pc[p] \in {"finWrite", "failWrite"} => copy[p] \in Workflow
  /\ StatusTold

\* No two are in a run and own the directory.
LEMMA OneUnderway ==
  ASSUME FolderInv, robbed = {}, NEW p \in Procs, NEW q \in Procs,
         pc[p] \notin Without, pc[q] \notin Without
  PROVE  p = q
BY DEF FolderInv, Owned, Mine

LEMMA UnderwayIsWithin ==
  \A p : pc[p] \in RunSteps => pc[p] \notin Without
BY DEF RunSteps, Without, SweepSteps, LoopSteps

\* A step of p outside the part of a run that workflow.json tells of.
LEMMA ElsewhereKeeps ==
  ASSUME FolderInv, FolderInv', StatusInv, NEW p \in Procs, NEW step \in Points,
         pc' = [pc EXCEPT ![p] = step], pc[p] \notin Underway, step \notin Underway,
         copy' = [copy EXCEPT ![p] = copy'[p]], copy'[p] \in Workflow \cup {NoFile},
         robbed' = {} => robbed = {} \/ Mine(p)',
         UNCHANGED wf, abandoned => abandoned'
  PROVE  StatusInv'
<1>1. /\ pc'[p] = step
      /\ \A q \in Procs \ {p} : pc'[q] = pc[q] /\ copy'[q] = copy[q]
      /\ copy' \in [Procs -> Workflow \cup {NoFile}]
  BY DEF FolderInv, ShapeInv, StatusInv
<1>2. \A q \in Procs : pc'[q] \in Underway <=> pc[q] \in Underway
  BY <1>1
<1>3. \A q \in Procs : pc'[q] \in {"finWrite", "failWrite"} => copy'[q] \in Workflow
  <2>1. \A q \in Procs : pc'[q] \in {"finWrite", "failWrite"} => q # p
    BY <1>1 DEF Underway
  <2>2. QED  BY <1>1, <2>1 DEF StatusInv
<1>4. robbed' = {} => \A q \in Procs : pc'[q] \in Underway => wf.status = "running"
  <2> SUFFICES ASSUME robbed' = {}, NEW q \in Procs, pc[q] \in Underway
               PROVE  wf.status = "running"
    BY <1>2
  <2>1. CASE robbed = {}
    BY <2>1 DEF StatusInv, StatusTold
  <2>2. CASE Mine(p)'
    <3>1. q # p /\ pc'[q] \in RunSteps /\ pc'[q] \notin Without
      BY <1>2 DEF Underway, RunSteps, Without, SweepSteps, LoopSteps
    <3>2. Mine(q)' \/ q \in robbed'
      BY <3>1 DEF FolderInv, Owned
    <3>3. QED  BY <2>2, <3>1, <3>2 DEF Mine
  <2>3. QED  BY <2>1, <2>2
<1>5. wf # NoFile /\ wf.status = "running" => abandoned' \/ \E q \in Procs : pc'[q] \in Underway
  BY <1>2 DEF StatusInv, StatusTold
<1>6. QED  BY <1>1, <1>2, <1>3, <1>4, <1>5 DEF StatusInv, StatusTold

\* A step from one of its parts to another.
LEMMA UnderwayKeeps ==
  ASSUME FolderInv, StatusInv, NEW p \in Procs, NEW step \in Underway,
         pc' = [pc EXCEPT ![p] = step], pc[p] \in Underway,
         copy' = [copy EXCEPT ![p] = copy'[p]], copy'[p] \in Workflow \cup {NoFile},
         step \in {"finWrite", "failWrite"} => copy'[p] \in Workflow,
         UNCHANGED <<wf, abandoned, robbed>>
  PROVE  StatusInv'
<1>1. /\ pc'[p] = step
      /\ \A q \in Procs \ {p} : pc'[q] = pc[q] /\ copy'[q] = copy[q]
      /\ copy' \in [Procs -> Workflow \cup {NoFile}]
  BY DEF FolderInv, ShapeInv, StatusInv
<1>2. \A q \in Procs : pc'[q] \in Underway <=> pc[q] \in Underway
  BY <1>1
<1>3. \A q \in Procs : pc'[q] \in {"finWrite", "failWrite"} => copy'[q] \in Workflow
  BY <1>1 DEF StatusInv
<1>4. QED  BY <1>1, <1>2, <1>3 DEF StatusInv, StatusTold

\* The end of it: the status is settled, or left behind.
LEMMA EndKeeps ==
  ASSUME FolderInv, StatusInv, NEW p \in Procs, NEW step \in Points \ Underway,
         pc' = [pc EXCEPT ![p] = step], pc[p] \in Underway,
         copy' = [copy EXCEPT ![p] = NoFile],
         \/ wf' \in Workflow /\ wf'.status # "running"
         \/ wf' = wf /\ abandoned' = TRUE,
         UNCHANGED robbed
  PROVE  StatusInv'
<1>1. /\ pc'[p] = step
      /\ \A q \in Procs \ {p} : pc'[q] = pc[q] /\ copy'[q] = copy[q]
      /\ copy' \in [Procs -> Workflow \cup {NoFile}]
  BY DEF FolderInv, ShapeInv, StatusInv
<1>2. \A q \in Procs : pc'[q] \in Underway => q # p /\ pc[q] \in Underway
  BY <1>1
<1>3. \A q \in Procs : pc'[q] \in {"finWrite", "failWrite"} => copy'[q] \in Workflow
  <2>1. \A q \in Procs : pc'[q] \in {"finWrite", "failWrite"} => q # p
    BY <1>1 DEF Underway
  <2>2. QED  BY <1>1, <2>1 DEF StatusInv
<1>4. robbed = {} => \A q \in Procs : pc'[q] \notin Underway
  <2> SUFFICES ASSUME robbed = {}, NEW q \in Procs, pc'[q] \in Underway PROVE FALSE
    OBVIOUS
  <2>1. pc[p] \notin Without /\ pc[q] \notin Without /\ p # q
    BY <1>2 DEF Underway, Without, SweepSteps, LoopSteps
  <2>2. QED  BY <2>1, OneUnderway
<1>5. wf' \in Workflow \cup {NoFile} /\ (wf # NoFile => wf' # NoFile)
  <2>1. \A w \in Workflow : w # NoFile
    BY DEF Workflow, NoFile
  <2>2. QED  BY <2>1 DEF StatusInv
<1>6. wf # NoFile
  BY DEF StatusInv
<1>7. wf' # NoFile /\ wf'.status = "running" => abandoned'
  OBVIOUS
<1>8. QED  BY <1>1, <1>3, <1>4, <1>5, <1>6, <1>7 DEF StatusInv, StatusTold

LEMMA StartKeeps ==
  ASSUME FolderInv, StatusInv, NEW p \in Procs, Step(p, "startWrite", "body"),
         copy' = [copy EXCEPT ![p] = NoFile],
         wf' = [owner |-> ToolOf[p], status |-> "running"]
  PROVE  StatusInv'
<1>1. /\ pc' = [pc EXCEPT ![p] = "body"] /\ pc'[p] = "body"
      /\ copy' \in [Procs -> Workflow \cup {NoFile}]
      /\ \A q \in Procs \ {p} : pc'[q] = pc[q] /\ copy'[q] = copy[q]
  BY DEF Step, Goto, FolderInv, ShapeInv, StatusInv
<1>2. wf' \in Workflow /\ wf'.status = "running"
  BY WorkflowAssumption DEF Workflow, Statuses
<1>3. wf' # NoFile
  BY <1>2 DEF Workflow, NoFile
<1>4. \A q \in Procs : pc'[q] \in {"finWrite", "failWrite"} => copy'[q] \in Workflow
  BY <1>1 DEF StatusInv
<1>5. pc'[p] \in Underway
  BY <1>1 DEF Underway
<1>6. QED  BY <1>1, <1>2, <1>3, <1>4, <1>5 DEF StatusInv, StatusTold

LEMMA LockingStatus ==
  ASSUME FolderInv, FolderInv', StatusInv, NEW p \in Procs, Locking(p)
  PROVE  StatusInv'
<1> USE DEF Points, SweepSteps, LoopSteps, ReleaseSteps, RunSteps
<1>1. UNCHANGED <<wf, copy, abandoned>> /\ (Acquiring(p) \/ Releasing(p))
  BY DEF Locking, Others
<1>2. copy' = [copy EXCEPT ![p] = copy'[p]] /\ copy'[p] \in Workflow \cup {NoFile}
  BY <1>1 DEF StatusInv
<1>3. PICK step \in SweepSteps \cup LoopSteps \cup {"idle", "rmdir", "held"} :
        pc' = [pc EXCEPT ![p] = step]
  BY <1>1, RetryStep
     DEF Acquiring, Releasing, Begin, SweepRead, SweepJudge, SweepUnlink, SweepRmdir, Mkdir, Open,
         Create, Fill, Read, Judge, Rename, Unlink, Rmdir, Goto, Return
<1>4. pc[p] \notin Underway
  BY <1>1 DEF Acquiring, Releasing, Begin, SweepRead, SweepJudge, SweepUnlink, SweepRmdir,
              Mkdir, Open, Fill, Read, Judge, Rename, Unlink, Rmdir, Underway
<1>5. robbed' = {} => robbed = {} \/ Mine(p)'
  <2>1. CASE Open(p) /\ lock.present /\ lock.meta = NoMeta
    <3>1. PICK born \in Started(p) : lock' = Dir([pid |-> p, born |-> born, whole |-> FALSE])
      BY <2>1 DEF Open, Create
    <3>2. lock'.meta = [pid |-> p, born |-> born, whole |-> FALSE]
      BY <3>1 DEF Dir
    <3>3. [pid |-> p, born |-> born, whole |-> FALSE] # NoMeta
      BY DEF NoMeta
    <3>4. QED  BY <3>2, <3>3 DEF Mine
  <2>2. CASE ~(Open(p) /\ lock.present /\ lock.meta = NoMeta)
    <3>1. robbed' = robbed \/ Rob(p)
      BY <1>1, <2>2
         DEF Acquiring, Releasing, Begin, SweepRead, SweepJudge, SweepUnlink, SweepRmdir, Mkdir,
             Open, Fill, Read, Judge, Rename, Unlink, Rmdir, Empty, Take
    <3>2. QED  BY <3>1 DEF Rob
  <2>3. QED  BY <2>1, <2>2
<1>6. step \in Points /\ step \notin Underway
  BY <1>3 DEF Underway
<1>7. QED  BY <1>1, <1>2, <1>3, <1>4, <1>5, <1>6, ElsewhereKeeps

LEMMA RunStatus ==
  ASSUME FolderInv, FolderInv', StatusInv, NEW p \in Procs, Run(p)
  PROVE  StatusInv'
<1> USE DEF Points, ReleaseSteps, RunSteps
<1>1. robbed' = robbed /\ copy \in [Procs -> Workflow \cup {NoFile}] /\ wf \in Workflow \cup {NoFile}
  BY DEF Run, StartRead, StartWrite, Body, FinishWrite, Leave, FailRead, FailWrite,
         ReleaseFails, Step, StatusInv
<1>2. \A value \in Workflow \cup {NoFile} : copy' = [copy EXCEPT ![p] = value] =>
        copy' = [copy EXCEPT ![p] = copy'[p]] /\ copy'[p] = value
  BY <1>1
<1>3. CASE StartRead(p) \/ ReleaseFails(p) \/ (StartWrite(p) /\ Step(p, "startWrite", "unlink"))
  <2>1. /\ UNCHANGED <<wf, abandoned>>
        /\ \E step \in {"startWrite", "unlink", "idle"} :
             pc' = [pc EXCEPT ![p] = step]
        /\ pc[p] \in {"held", "startWrite", "unlink"}
    BY <1>3 DEF StartRead, ReleaseFails, StartWrite, Step, Goto, FolderInv, ShapeInv
  <2>2. \E value \in Workflow \cup {NoFile} : copy' = [copy EXCEPT ![p] = value]
    BY <1>1, <1>3 DEF StartRead, ReleaseFails, StartWrite
  <2>3. PICK step \in {"startWrite", "unlink", "idle"} : pc' = [pc EXCEPT ![p] = step]
    BY <2>1
  <2>4. step \in Points /\ step \notin Underway /\ pc[p] \notin Underway
    BY <2>1, <2>3 DEF Underway
  <2>5. copy' = [copy EXCEPT ![p] = copy'[p]] /\ copy'[p] \in Workflow \cup {NoFile}
    BY <1>2, <2>2
  <2>6. QED  BY <1>1, <2>1, <2>3, <2>4, <2>5, ElsewhereKeeps
<1>4. CASE StartWrite(p) /\ ~Step(p, "startWrite", "unlink")
  BY <1>4, StartKeeps DEF StartWrite
<1>5. CASE Body(p) \/ FailRead(p) \/ (FinishWrite(p) /\ Step(p, "finWrite", "failRead") /\ UNCHANGED <<wf, copy, abandoned>>)
  <2>1. /\ UNCHANGED <<wf, abandoned>> /\ pc[p] \in Underway
        /\ \E step \in {"finWrite", "failWrite", "failRead"} : pc' = [pc EXCEPT ![p] = step]
        /\ \/ copy' = [copy EXCEPT ![p] = wf]
           \/ pc' = [pc EXCEPT ![p] = "failRead"] /\ copy' = copy
    BY <1>5 DEF Body, FailRead, FinishWrite, Step, Goto, Underway
  <2>2. PICK step \in {"finWrite", "failWrite", "failRead"} : pc' = [pc EXCEPT ![p] = step]
    BY <2>1
  <2>3. wf \in Workflow
    BY <2>1 DEF StatusInv
  <2>4. copy' = [copy EXCEPT ![p] = copy'[p]] /\ copy'[p] \in Workflow \cup {NoFile}
    BY <1>1, <2>1
  <2>5. step \in {"finWrite", "failWrite"} => copy'[p] \in Workflow
    BY <1>1, <2>1, <2>2, <2>3 DEF FolderInv, ShapeInv
  <2>6. step \in Underway
    BY <2>2 DEF Underway
  <2>7. QED  BY <1>1, <2>1, <2>2, <2>4, <2>5, <2>6, UnderwayKeeps
<1>6. CASE \/ FinishWrite(p) /\ Leave(p, "finWrite") /\ Settle(p, "completed")
           \/ FailWrite(p)
  <2>1. /\ copy' = [copy EXCEPT ![p] = NoFile] /\ pc[p] \in {"finWrite", "failWrite"}
        /\ \E step \in {"unlink", "idle"} : pc' = [pc EXCEPT ![p] = step]
    BY <1>6 DEF FinishWrite, FailWrite, Leave, Step, Goto
  <2>2. PICK step \in {"unlink", "idle"} : pc' = [pc EXCEPT ![p] = step]
    BY <2>1
  <2>3. pc[p] \in Underway /\ step \in Points \ Underway /\ copy[p] \in Workflow
    BY <2>1, <2>2 DEF Underway, StatusInv
  <2>4. \/ \E status \in {"completed", "failed"} : wf' = [copy[p] EXCEPT !.status = status]
        \/ wf' = wf /\ abandoned' = TRUE
    BY <1>6 DEF FailWrite, Settle
  <2>5. \/ wf' \in Workflow /\ wf'.status # "running"
        \/ wf' = wf /\ abandoned' = TRUE
    <3>1. ASSUME NEW status \in {"completed", "failed"}, wf' = [copy[p] EXCEPT !.status = status]
          PROVE  wf' \in Workflow /\ wf'.status # "running"
      BY <2>3, <3>1 DEF Workflow, Statuses
    <3>2. QED  BY <2>4, <3>1
  <2>6. QED  BY <1>1, <2>1, <2>2, <2>3, <2>5, EndKeeps
<1>7. QED  BY <1>3, <1>4, <1>5, <1>6 DEF Run, FinishWrite

LEMMA CrashStatus ==
  ASSUME FolderInv, FolderInv', StatusInv, NEW p \in Procs, Crash(p)
  PROVE  StatusInv'
<1>1. /\ pc' = [pc EXCEPT ![p] = "dead"] /\ copy' = [copy EXCEPT ![p] = NoFile]
      /\ UNCHANGED <<wf, robbed>>
  BY DEF Crash, Die, Return, Goto
<1>2. "dead" \in Points \ Underway
  BY DEF Points, Underway
<1>3. CASE pc[p] \in Underway
  <2>1. abandoned' = TRUE
    BY <1>3 DEF Crash
  <2>2. QED  BY <1>1, <1>2, <1>3, <2>1, EndKeeps
<1>4. CASE pc[p] \notin Underway
  <2>1. copy' = [copy EXCEPT ![p] = copy'[p]] /\ copy'[p] \in Workflow \cup {NoFile}
    BY <1>1 DEF StatusInv
  <2>2. abandoned => abandoned'
    BY Zenon DEF Crash
  <2>3. QED  BY <1>1, <1>2, <1>4, <2>1, <2>2, ElsewhereKeeps
<1>5. QED  BY <1>3, <1>4

LEMMA WorldStatus ==
  ASSUME FolderInv, StatusInv, Age \/ \E p \in Procs : Reuse(p), Others
  PROVE  StatusInv'
<1>1. UNCHANGED <<wf, copy, abandoned, robbed>>
  BY DEF Others, Age, Reuse
<1>2. \A p \in Procs : \/ pc'[p] = pc[p]
                       \/ pc[p] \notin Underway /\ pc'[p] \notin Underway
  BY DEF Age, Reuse, Dead, Goto, FolderInv, ShapeInv, Underway
<1>3. QED  BY <1>1, <1>2 DEF StatusInv, StatusTold, Underway

LEMMA StatusStep == FolderInv /\ FolderInv' /\ StatusInv /\ [Next]_vars => StatusInv'
<1> SUFFICES ASSUME FolderInv, FolderInv', StatusInv, [Next]_vars PROVE StatusInv'
  OBVIOUS
<1>1. ASSUME NEW p \in Procs, RunStep(p) \/ Crash(p) PROVE StatusInv'
  BY <1>1, LockingStatus, RunStatus, CrashStatus DEF RunStep
<1>2. CASE UNCHANGED vars
  BY <1>2 DEF vars, lockVars, StatusInv, StatusTold
<1>3. QED  BY <1>1, <1>2, WorldStatus DEF Next

-----------------------------------------------------------------------------
\* The lock directory, whoever dies, and whatever ps answers.
THEOREM FolderTheorem == Spec => []FolderInv
<1>1. FolderInv /\ [Next]_vars => FolderInv'
  BY FolderStep
<1>2. QED  BY <1>1, FolderInitial, PTL DEF Spec

\* Every way out of runWorkflow gives the lock back (run-workflow.ts:160-192).
THEOREM GivenBackTheorem == Spec => []LockGivenBack
<1>1. FolderInv => LockGivenBack
  BY DEF FolderInv
<1>2. QED  BY <1>1, FolderTheorem, PTL

\* With all processes on one host, no two runs are in one plan folder unless one
\* was robbed of its lock, and that only after a death, or after missing metadata
\* was taken for residue (plan-lock.ts:78-161).
THEOREM ExclusiveTheorem == ASSUME Remote = {} PROVE Spec => []ExclusiveUnlessRobbed
<1>1. FolderInv => ExclusiveUnlessRobbed
  <2> SUFFICES ASSUME FolderInv, NEW p \in Procs, NEW q \in Procs, p # q, Inside(p), Inside(q)
               PROVE  ~peace /\ (p \in robbed \/ q \in robbed)
    BY DEF ExclusiveUnlessRobbed
  <2>1. pc[p] \notin Without /\ pc[q] \notin Without
    BY DEF Inside, RunSteps, Without, SweepSteps, LoopSteps
  <2>2. p \in robbed \/ q \in robbed
    BY <2>1 DEF FolderInv, Owned, Mine
  <2>3. ~peace
    BY <2>2 DEF FolderInv, PeaceInv
  <2>4. QED  BY <2>2, <2>3
<1>2. QED  BY <1>1, FolderTheorem, PTL

\* workflow.json says "running" while a run is, and of no other
\* (run-workflow.ts:112-172).
THEOREM StatusTheorem == Spec => []StatusTold
<1>1. Init => StatusInv
  BY DEF Init, LockInit, StatusInv, StatusTold, Underway
<1>2. FolderInv /\ FolderInv' /\ StatusInv /\ [Next]_vars => StatusInv'
  BY StatusStep
<1>3. StatusInv => StatusTold
  BY DEF StatusInv
<1>4. QED  BY <1>1, <1>2, <1>3, FolderTheorem, PTL DEF Spec
==============================================================================
