---------------------------- MODULE Sessions_proofs ----------------------------
(***************************************************************************)
(* What sessions and calls of a host keep between them, for any number of  *)
(* them: the cache of verification commands that have passed and the plan  *)
(* index (agent-workflows), the state file of a flow's phases (flow), the  *)
(* browser profile of web calls (web), the pacing of requests (qwen-proxy) *)
(* and the design cache (figma); what one call gathers that walks from     *)
(* issue to issue (atlassian); and what a release leaves at origin.        *)
(***************************************************************************)
EXTENDS VerificationGate, FlowRun, WebAccess, StoryWalk, PlanIndex, Pacing, DesignCache, Release,
        FiniteSetTheorems, SequenceTheorems, WellFoundedInduction, TLAPS

\* A set of naturals has a least element: the finite sets of what is below its
\* elements have a minimal one.
LEMMA LeastNatural ==
  ASSUME NEW S \in SUBSET Nat, S # {}
  PROVE  \E n \in S : \A m \in S : n <= m
PROOF
<1> DEFINE Below(n) == {m \in S : m < n}
           Cuts == {Below(n) : n \in S}
<1>1. ASSUME NEW n \in S PROVE Below(n) \in FiniteSubsetsOf(S)
  <2>1. \A x \in Below(n) : x <= n
    OBVIOUS
  <2>2. Below(n) \in SUBSET Nat /\ Below(n) \in SUBSET S
    OBVIOUS
  <2> HIDE DEF Below
  <2> QED BY <2>1, <2>2, FS_BoundedSetOfNaturals DEF FiniteSubsetsOf
<1>2. Cuts \subseteq FiniteSubsetsOf(S) /\ Cuts # {}
  BY <1>1
<1>3. PICK C \in Cuts : \A D \in Cuts : ~(<<D, C>> \in StrictSubsetOrdering(S))
  <2> HIDE DEF Cuts
  <2> QED BY <1>2, WFMin, FS_StrictSubsetOrderingWellFounded
<1>4. PICK n \in S : C = Below(n)
  OBVIOUS
<1>5. ASSUME NEW m \in S, m < n PROVE FALSE
  <2>1. Below(m) \subseteq Below(n) /\ m \in Below(n) /\ m \notin Below(m)
    <3>1. m \in Nat /\ n \in Nat /\ ~(m < m) /\ \A x \in S : x < m => x < n
      BY <1>5
    <3> QED BY <1>5, <3>1
  <2>2. Below(m) \in SUBSET S /\ Below(n) \in SUBSET S /\ Below(m) \in Cuts
    OBVIOUS
  <2> HIDE DEF Below, Cuts
  <2> QED BY <1>3, <1>4, <2>1, <2>2 DEF StrictSubsetOrdering
<1> QED BY <1>5

-----------------------------------------------------------------------------
(* What a verification cache holds has passed, in every tool's memory, in  *)
(* the file, and in each copy of it on its way to the file.                *)
\* The fingerprint of a running command is of the files as they are; that of
\* one which has ended has passed.
PrintTrue(p) ==
  /\ tool[p].at = "running" => print[p] = Fingerprint(tool[p].k)
  /\ tool[p].at \in {"passed", "marking"} => print[p] \in passed

CachesTrue ==
  /\ disk \subseteq passed
  /\ \A p \in Tools : memory[p] \subseteq passed /\ loaded[p] \subseteq passed

Functions ==
  /\ DOMAIN tool = Tools /\ DOMAIN print = Tools
  /\ DOMAIN memory = Tools /\ DOMAIN loaded = Tools

GateInv ==
  /\ Functions
  /\ ~disturbed => CachesTrue /\ \A p \in Tools : PrintTrue(p)

LEMMA GateInitial == GateInit => GateInv
  BY DEF GateInit, GateInv, Functions, CachesTrue, PrintTrue, Idle

\* A tool that goes on to its next command, or ends, has no command running.
LEMMA OnwardsIdle ==
  ASSUME NEW p \in Tools, DOMAIN tool = Tools, NEW k, Onwards(p, k)
  PROVE  /\ tool' = [tool EXCEPT ![p] = tool'[p]]
         /\ tool'[p].at = "idle"
  BY DEF Onwards, Step, Idle

LEMMA GateStep == GateInv /\ [GateNext]_gateVars => GateInv'
<1> SUFFICES ASSUME GateInv, [GateNext]_gateVars PROVE GateInv'
  OBVIOUS
<1>f. Functions /\ DOMAIN tool = Tools /\ DOMAIN print = Tools
      /\ DOMAIN memory = Tools /\ DOMAIN loaded = Tools
  BY DEF GateInv, Functions
<1>1. ASSUME NEW p \in Tools, Skip(p) PROVE GateInv'
  <2>1. /\ tool' = [tool EXCEPT ![p] = tool'[p]] /\ tool'[p].at = "idle"
    BY <1>1, <1>f, OnwardsIdle DEF Skip
  <2>2. UNCHANGED <<tree, print, memory, disk, loaded, passed, disturbed>>
    BY <1>1 DEF Skip
  <2>3. Functions'
    BY <2>1, <2>2, <1>f DEF Functions
  <2>4. ASSUME ~disturbed', NEW q \in Tools PROVE PrintTrue(q)'
    BY <2>1, <2>2, <2>4, <1>f DEF GateInv, PrintTrue, Fingerprint
  <2>5. QED  BY <2>2, <2>3, <2>4 DEF GateInv, CachesTrue
<1>2. ASSUME NEW p \in Tools, Take(p) PROVE GateInv'
  <2>1. /\ tool' = [tool EXCEPT ![p] = [at |-> "running", k |-> tool[p].k]]
        /\ print' = [print EXCEPT ![p] = Fingerprint(tool[p].k)]
        /\ UNCHANGED <<tree, memory, disk, loaded, passed, disturbed>>
    BY <1>2 DEF Take, Step
  <2>2. Functions'
    BY <2>1, <1>f DEF Functions
  <2>3. ASSUME ~disturbed', NEW q \in Tools PROVE PrintTrue(q)'
    <3>1. CASE q = p
      BY <2>1, <1>f, <3>1 DEF PrintTrue, Fingerprint
    <3>2. CASE q # p
      BY <2>1, <2>3, <1>f, <3>2 DEF GateInv, PrintTrue, Fingerprint
    <3>3. QED  BY <3>1, <3>2
  <2>4. QED  BY <2>1, <2>2, <2>3 DEF GateInv, CachesTrue
<1>3. ASSUME NEW p \in Tools, Passes(p) PROVE GateInv'
  \* Nothing has changed since the fingerprint: it is what passes.
  <2>1. /\ tool[p].at = "running"
        /\ tool' = [tool EXCEPT ![p] = [at |-> "passed", k |-> tool[p].k]]
        /\ passed' = passed \cup {Fingerprint(tool[p].k)}
        /\ UNCHANGED <<tree, print, memory, disk, loaded, disturbed>>
    BY <1>3 DEF Passes, Step, Fingerprint
  <2>2. Functions'
    BY <2>1, <1>f DEF Functions
  <2>3. ASSUME ~disturbed', NEW q \in Tools PROVE PrintTrue(q)'
    <3>1. CASE q = p
      BY <2>1, <2>3, <1>f, <3>1 DEF GateInv, PrintTrue, Fingerprint
    <3>2. CASE q # p
      BY <2>1, <2>3, <1>f, <3>2 DEF GateInv, PrintTrue, Fingerprint
    <3>3. QED  BY <3>1, <3>2
  <2>4. ~disturbed' => CachesTrue'
    BY <2>1 DEF GateInv, CachesTrue
  <2>5. QED  BY <2>2, <2>3, <2>4 DEF GateInv
<1>4. ASSUME NEW p \in Tools, Fails(p) PROVE GateInv'
  <2>1. UNCHANGED <<tree, memory, disk, loaded, passed, disturbed>>
    BY <1>4 DEF Fails
  <2>2. \/ UNCHANGED <<tool, print>>
        \/ /\ tool' = [tool EXCEPT ![p] = Idle]
           /\ print' = [print EXCEPT ![p] = <<>>]
    BY <1>4 DEF Fails
  <2>3. Functions'
    BY <2>1, <2>2, <1>f DEF Functions
  <2>4. ASSUME ~disturbed', NEW q \in Tools PROVE PrintTrue(q)'
    BY <2>1, <2>2, <2>4, <1>f DEF GateInv, PrintTrue, Fingerprint, Idle
  <2>5. QED  BY <2>1, <2>3, <2>4 DEF GateInv, CachesTrue
<1>5. ASSUME NEW p \in Tools, MarkPassed(p) PROVE GateInv'
  <2>1. /\ tool[p].at = "passed"
        /\ memory' = [memory EXCEPT ![p] = memory'[p]]
        /\ memory'[p] \subseteq memory[p] \cup {print[p]}
        /\ UNCHANGED <<tree, disk, passed, disturbed>>
    BY <1>5, <1>f DEF MarkPassed
  <2>2. CASE cacheMode[p] = "persistent"
    <3>1. /\ loaded' = [loaded EXCEPT ![p] = disk \cup {print[p]}]
          /\ tool' = [tool EXCEPT ![p] = [at |-> "marking", k |-> tool[p].k]]
          /\ UNCHANGED print
      BY <1>5, <2>2 DEF MarkPassed, Step
    <3>2. Functions'
      BY <2>1, <3>1, <1>f DEF Functions
    <3>3. ASSUME ~disturbed' PROVE print[p] \in passed /\ CachesTrue'
      <4>1. print[p] \in passed
        BY <2>1, <3>3 DEF GateInv, PrintTrue
      <4>2. CachesTrue'
        BY <2>1, <3>1, <3>3, <4>1, <1>f DEF GateInv, CachesTrue
      <4>3. QED  BY <4>1, <4>2
    <3>4. ASSUME ~disturbed', NEW q \in Tools PROVE PrintTrue(q)'
      <4>1. CASE q = p
        BY <2>1, <3>1, <3>3, <3>4, <1>f, <4>1 DEF PrintTrue
      <4>2. CASE q # p
        BY <2>1, <3>1, <3>4, <1>f, <4>2 DEF GateInv, PrintTrue, Fingerprint
      <4>3. QED  BY <4>1, <4>2
    <3>5. QED  BY <3>2, <3>3, <3>4 DEF GateInv
  <2>3. CASE cacheMode[p] # "persistent"
    <3>1. Onwards(p, tool[p].k) /\ Clear(p) /\ UNCHANGED loaded
      BY <1>5, <2>3 DEF MarkPassed
    <3>2. /\ tool' = [tool EXCEPT ![p] = tool'[p]] /\ tool'[p].at = "idle"
      BY <3>1, <1>f, OnwardsIdle
    <3>3. /\ print' = [print EXCEPT ![p] = <<>>] /\ UNCHANGED loaded
      BY <3>1 DEF Clear
    <3>4. Functions'
      BY <2>1, <3>2, <3>3, <1>f DEF Functions
    <3>5. ASSUME ~disturbed' PROVE CachesTrue'
      <4>1. print[p] \in passed
        BY <2>1, <3>5 DEF GateInv, PrintTrue
      <4>2. QED  BY <2>1, <3>3, <3>5, <4>1, <1>f DEF GateInv, CachesTrue
    <3>6. ASSUME ~disturbed', NEW q \in Tools PROVE PrintTrue(q)'
      BY <2>1, <3>2, <3>3, <3>6, <1>f DEF GateInv, PrintTrue, Fingerprint
    <3>7. QED  BY <3>4, <3>5, <3>6 DEF GateInv
  <2>4. QED  BY <2>2, <2>3
<1>6. ASSUME NEW p \in Tools, Persist(p) PROVE GateInv'
  <2>1. /\ disk' = loaded[p]
        /\ loaded' = [loaded EXCEPT ![p] = {}]
        /\ print' = [print EXCEPT ![p] = <<>>]
        /\ UNCHANGED <<tree, memory, passed, disturbed>>
    BY <1>6 DEF Persist, Clear
  <2>2. /\ tool' = [tool EXCEPT ![p] = tool'[p]] /\ tool'[p].at = "idle"
    BY <1>6, <1>f, OnwardsIdle DEF Persist
  <2>3. Functions'
    BY <2>1, <2>2, <1>f DEF Functions
  <2>4. ~disturbed' => CachesTrue'
    BY <2>1, <1>f DEF GateInv, CachesTrue
  <2>5. ASSUME ~disturbed', NEW q \in Tools PROVE PrintTrue(q)'
    BY <2>1, <2>2, <2>5, <1>f DEF GateInv, PrintTrue, Fingerprint
  <2>6. QED  BY <2>3, <2>4, <2>5 DEF GateInv
<1>7. ASSUME NEW p \in Tools, Ends(p) PROVE GateInv'
  <2>1. /\ tool' = [tool EXCEPT ![p] = Idle]
        /\ print' = [print EXCEPT ![p] = <<>>]
        /\ memory' = [memory EXCEPT ![p] = {}]
        /\ loaded' = [loaded EXCEPT ![p] = {}]
        /\ disk' \subseteq disk
        /\ UNCHANGED <<tree, passed, disturbed>>
    BY <1>7 DEF Ends, Clear
  <2>2. Functions'
    BY <2>1, <1>f DEF Functions
  <2>3. ~disturbed' => CachesTrue'
    BY <2>1, <1>f DEF GateInv, CachesTrue
  <2>4. ASSUME ~disturbed', NEW q \in Tools PROVE PrintTrue(q)'
    BY <2>1, <2>4, <1>f DEF GateInv, PrintTrue, Fingerprint, Idle
  <2>5. QED  BY <2>2, <2>3, <2>4 DEF GateInv
<1>8. ASSUME Edit PROVE GateInv'
  \* Files that change under no running command leave every fingerprint in
  \* hand one that has passed.
  <2>1. /\ UNCHANGED <<tool, print, memory, disk, loaded, passed>>
        /\ ~disturbed' => ~disturbed /\ \A q \in Tools : tool[q].at # "running"
    BY <1>8 DEF Edit
  <2>2. ~disturbed' => \A q \in Tools : PrintTrue(q)'
    BY <2>1 DEF GateInv, PrintTrue
  <2>3. QED  BY <2>1, <2>2, <1>f DEF GateInv, Functions, CachesTrue
<1>9. CASE UNCHANGED gateVars
  BY <1>9 DEF gateVars, GateInv, Functions, CachesTrue, PrintTrue, Fingerprint
<1>10. QED
  BY <1>1, <1>2, <1>3, <1>4, <1>5, <1>6, <1>7, <1>8, <1>9 DEF GateNext

LEMMA InvImpliesSkipped == GateInv => SkippedHavingPassed
  BY DEF GateInv, CachesTrue, SkippedHavingPassed, Hit, Fingerprint

(* For any tools, commands, attempts and checkouts: runVerificationPolicy  *)
(* (runner.ts) skips a command only when it has passed on the very files   *)
(* that are there, as long as no file changes while a command runs.        *)
THEOREM GateTheorem == GateSpec => []SkippedHavingPassed
<1>1. GateSpec => []GateInv
  BY GateInitial, GateStep, PTL DEF GateSpec
<1>2. QED  BY <1>1, InvImpliesSkipped, PTL

-----------------------------------------------------------------------------
(* The state file of a flow.  Nil is no file and no input, and a plan is a *)
(* sequence of entities.                                                   *)
\* What an entity can publish.
Names == {"worktreePath"} \cup UNION {Plan[k].publish : k \in Entities}

File ==
  [input : Inputs \cup {Nil}, status : [Entities -> {"pending", "blocked", "success"}],
   outputs : [Entities -> SUBSET Names]]

FlowAssumption ==
  /\ Nil \notin Inputs /\ Nil \notin File
  /\ Plan \in Seq([worktree : {"prepare", "none", "finalize"}, group : BOOLEAN,
                   require : SUBSET STRING, publish : SUBSET STRING])

\* The plan ends the worktree it works in.
PlanFinalizes == \E k \in Entities : Plan[k].worktree = "finalize"

Stages == {"off", "seeding", "entering", "ready", "working", "completing", "blocking"}

FlowTypes ==
  /\ file \in File \cup {Nil} /\ copy \in [Sessions -> File \cup {Nil}]
  /\ at \in [Sessions -> [pc : Stages, k : 0..(Len(Plan) + 1)]]
  /\ input \in [Sessions -> Inputs \cup {Nil}]
  /\ handle \in [Sessions -> BOOLEAN]
  /\ result \in [Sessions -> {"none", "blocked", "success"}]
  /\ done \in SUBSET (Inputs \X Entities)

\* A live session has an input and, once it has seeded, a file; it works on an
\* entity, and a call of it that has loaded the file holds a copy.
Placed(s) ==
  /\ at[s].pc # "off" => input[s] \in Inputs
  /\ at[s].pc \notin {"off", "seeding"} => file # Nil
  /\ at[s].pc \in {"working", "completing", "blocking"} => at[s].k \in Entities
  /\ at[s].pc \in {"seeding", "completing", "blocking"} => copy[s] \in File

FlowPlaced == FlowTypes /\ \A s \in Sessions : Placed(s)

Finalized == worktree = "removed" \/ refused
Finalizes(k) == Plan[k].worktree = "finalize"

\* Whoever is past the prologue of a finalize phase has finalized.
FinalizeRan ==
  /\ \A s \in Sessions :
       at[s].pc \in {"working", "completing", "blocking"} /\ Finalizes(at[s].k) => Finalized
  /\ \A d \in done : Finalizes(d[2]) => Finalized

\* The successes of a file are history for input i.
HasDone(f, i) == \A k \in Entities : f.status[k] = "success" => <<i, k>> \in done

Agree == \A s, t \in Live : input[s] = input[t]
FileTrue == file # Nil => HasDone(file, file.input)

\* The file is of a session's input, and so is the copy it is about to write:
\* a copy claims no more than the history and the entity just completed.
OwnTrue(s) ==
  /\ at[s].pc \notin {"off", "seeding"} => file.input = input[s]
  /\ at[s].pc = "seeding" => copy[s] = Fresh(input[s])
  /\ at[s].pc \in {"completing", "blocking"} => copy[s].input = input[s]
  /\ at[s].pc = "blocking" => HasDone(copy[s], input[s])
  /\ at[s].pc = "completing" =>
       \A k \in Entities \ {at[s].k} :
         copy[s].status[k] = "success" => <<input[s], k>> \in done

FlowTrue == Agree /\ FileTrue /\ \A s \in Sessions : OwnTrue(s)

FlowInv == FlowPlaced /\ FinalizeRan /\ (~crossed => FlowTrue)

\* The first entity that is no success comes after successes only.
LEMMA FirstIncompleteIs ==
  ASSUME FlowAssumption, NEW f
  PROVE  /\ FirstIncomplete(f) \in 1..(Len(Plan) + 1)
         /\ \A j \in 1..(FirstIncomplete(f) - 1) : f.status[j] = "success"
PROOF
<1> DEFINE Open == {k \in 1..Len(Plan) : f.status[k] # "success"}
           IsFirst(k) == /\ k \in Entities => f.status[k] # "success"
                         /\ \A j \in 1..(k - 1) : f.status[j] = "success"
<1>1. Len(Plan) \in Nat /\ Entities = 1..Len(Plan)
  BY LenProperties DEF FlowAssumption, Entities
<1>2. \E k \in 1..(Len(Plan) + 1) : IsFirst(k)
  <2>1. CASE Open = {}
    <3>1. IsFirst(Len(Plan) + 1)
      BY <1>1, <2>1
    <3> QED BY <1>1, <3>1
  <2>2. CASE Open # {}
    <3>1. PICK k \in Open : \A j \in Open : k <= j
      <4>1. Open \in SUBSET Nat
        BY <1>1
      <4> HIDE DEF Open
      <4> QED BY <2>2, <4>1, LeastNatural
    <3>2. \A j \in 1..(k - 1) : j \in 1..Len(Plan) /\ ~(k <= j)
      BY <1>1
    <3>3. IsFirst(k)
      BY <3>1, <3>2
    <3> QED BY <1>1, <3>3
  <2> QED BY <2>1, <2>2
<1>3. FirstIncomplete(f) \in 1..(Len(Plan) + 1) /\ IsFirst(FirstIncomplete(f))
  BY <1>2 DEF FirstIncomplete
<1> QED BY <1>3

LEMMA FreshIsFile ==
  ASSUME NEW i \in Inputs \cup {Nil}
  PROVE  Fresh(i) \in File /\ \A k \in Entities : Fresh(i).status[k] # "success"
  BY DEF Fresh, File

LEMMA LoadedIsFile ==
  ASSUME file \in File \cup {Nil}
  PROVE  Loaded \in File
  BY FreshIsFile DEF Loaded

LEMMA FlowInitial == FlowAssumption /\ FlowInit => FlowInv
PROOF
<1> SUFFICES ASSUME FlowAssumption, FlowInit PROVE FlowInv
  OBVIOUS
<1>1. FlowPlaced
  BY DEF FlowAssumption, FlowInit, FlowPlaced, FlowTypes, Placed, Off, Stages, Entities
<1>2. FinalizeRan
  BY DEF FlowInit, FinalizeRan, Off
<1>3. FlowTrue
  BY DEF FlowInit, FlowTrue, Agree, FileTrue, OwnTrue, Off, Live
<1> QED BY <1>1, <1>2, <1>3 DEF FlowInv

-----------------------------------------------------------------------------
\* A session moves alone: nothing of another one changes.
Alone(s) ==
  \A t \in Sessions \ {s} : /\ at'[t] = at[t] /\ input'[t] = input[t]
                           /\ copy'[t] = copy[t]

\* To leave is to drop the input and the copy.
LEMMA LeaveIs ==
  ASSUME FlowTypes, NEW s \in Sessions, NEW v \in {"none", "blocked", "success"}, Leave(s, v)
  PROVE  /\ Alone(s) /\ at'[s].pc = "off"
         /\ at' \in [Sessions -> [pc : Stages, k : 0..(Len(Plan) + 1)]]
         /\ input' \in [Sessions -> Inputs \cup {Nil}]
         /\ handle' \in [Sessions -> BOOLEAN]
         /\ copy' \in [Sessions -> File \cup {Nil}]
         /\ result' \in [Sessions -> {"none", "blocked", "success"}]
PROOF
<1>1. Off \in [pc : Stages, k : 0..(Len(Plan) + 1)]
  BY DEF Off, Stages
<1> QED BY <1>1 DEF Leave, FlowTypes, Alone, Off

LEMMA GotoIs ==
  ASSUME FlowTypes, NEW s \in Sessions, NEW place \in Stages, NEW k \in 0..(Len(Plan) + 1),
         Goto(s, place, k)
  PROVE  /\ at'[s].pc = place /\ at'[s].k = k
         /\ \A t \in Sessions \ {s} : at'[t] = at[t]
         /\ at' \in [Sessions -> [pc : Stages, k : 0..(Len(Plan) + 1)]]
  BY DEF Goto, FlowTypes

\* Blocked, AssertFails, BlockedSaved, Return and Die: a session that leaves
\* writes at most the copy of a group that has not converged.
LEMMA LeaveKeeps ==
  ASSUME FlowAssumption, FlowInv,
         NEW s \in Sessions, NEW v \in {"none", "blocked", "success"}, Leave(s, v),
         file' = file \/ (at[s].pc = "blocking" /\ file' = copy[s]),
         UNCHANGED <<worktree, history>>
  PROVE  FlowInv'
PROOF
<1>0. FlowPlaced /\ FlowTypes /\ \A t \in Sessions : Placed(t)
  BY DEF FlowInv, FlowPlaced
<1>1. /\ Alone(s) /\ at'[s].pc = "off"
      /\ UNCHANGED <<done, crossed, refused, worktree>>
  BY <1>0, LeaveIs DEF history
<1>2. FlowPlaced'
  <2>1. file' \in File \cup {Nil} /\ (file # Nil => file' # Nil)
    BY <1>0 DEF FlowTypes, Placed, FlowAssumption
  <2>2. FlowTypes'
    BY <1>0, <1>1, <2>1, LeaveIs DEF FlowTypes
  <2>3. ASSUME NEW t \in Sessions PROVE Placed(t)'
    BY <1>0, <1>1, <2>1 DEF Placed, Alone
  <2> QED BY <2>2, <2>3 DEF FlowPlaced
<1>3. FinalizeRan'
  BY <1>1 DEF FlowInv, FinalizeRan, Finalized, Alone
<1>4. ASSUME ~crossed PROVE FlowTrue'
  <2>1. FlowTrue
    BY <1>4 DEF FlowInv
  <2>2. Agree'
    BY <1>1, <2>1 DEF FlowTrue, Agree, Live, Alone
  <2>3. FileTrue'
    BY <1>1, <2>1 DEF FlowTrue, FileTrue, OwnTrue, HasDone
  <2>4. ASSUME NEW t \in Sessions \ {s} PROVE OwnTrue(t)'
    <3>1. at[t].pc \notin {"off", "seeding"} => file'.input = input[t]
      BY <2>1 DEF FlowTrue, OwnTrue, Agree, Live
    <3> QED BY <1>1, <2>1, <2>4, <3>1 DEF FlowTrue, OwnTrue, Alone, HasDone
  <2>5. OwnTrue(s)'
    BY <1>1 DEF OwnTrue
  <2> QED BY <2>2, <2>3, <2>4, <2>5 DEF FlowTrue
<1> QED BY <1>1, <1>2, <1>3, <1>4 DEF FlowInv

\* A session that starts and finds no one of another input on the slug reads
\* the file of its input, or is about to write a fresh one.
LEMMA StartKeeps ==
  ASSUME FlowAssumption, FlowInv, NEW s \in Sessions, NEW i \in Inputs, Start(s, i)
  PROVE  FlowInv'
PROOF
<1>0. FlowPlaced /\ FlowTypes /\ \A t \in Sessions : Placed(t)
  BY DEF FlowInv, FlowPlaced
<1>1. /\ UNCHANGED <<file, worktree, handle, done, refused>>
      /\ input' = [input EXCEPT ![s] = i] /\ result' = [result EXCEPT ![s] = "none"]
      /\ crossed' = (crossed \/ \E t \in Live : input[t] # i)
      /\ at[s].pc = "off"
  BY DEF Start
<1>2. \/ /\ file # Nil /\ file.input = i /\ copy' = copy /\ Goto(s, "entering", 0)
      \/ copy' = [copy EXCEPT ![s] = Fresh(i)] /\ Goto(s, "seeding", 0)
  BY DEF Start, Resumes
<1>3. Fresh(i) \in File
  BY FreshIsFile
<1>4. /\ at' \in [Sessions -> [pc : Stages, k : 0..(Len(Plan) + 1)]]
      /\ \A t \in Sessions \ {s} : at'[t] = at[t]
      /\ at'[s].pc \in {"entering", "seeding"}
  <2>1. 0 \in 0..(Len(Plan) + 1) /\ "entering" \in Stages /\ "seeding" \in Stages
    BY LenProperties DEF FlowAssumption, Stages
  <2> QED BY <1>0, <1>2, <2>1, GotoIs
<1>5. /\ at'[s].pc = "entering" => file # Nil /\ file.input = i
      /\ at'[s].pc = "seeding" => copy'[s] = Fresh(i)
  <2>1. CASE Goto(s, "entering", 0) /\ file # Nil /\ file.input = i
    BY <1>0, <2>1 DEF Goto, FlowTypes
  <2>2. CASE Goto(s, "seeding", 0) /\ copy' = [copy EXCEPT ![s] = Fresh(i)]
    BY <1>0, <2>2 DEF Goto, FlowTypes
  <2> QED BY <1>2, <2>1, <2>2
<1>6. Alone(s) /\ input'[s] = i /\ copy' \in [Sessions -> File \cup {Nil}]
  BY <1>0, <1>1, <1>2, <1>3, <1>4 DEF Alone, FlowTypes
<1>7. FlowPlaced'
  <2>1. FlowTypes'
    BY <1>0, <1>1, <1>4, <1>6 DEF FlowTypes
  <2>2. ASSUME NEW t \in Sessions PROVE Placed(t)'
    BY <1>0, <1>1, <1>3, <1>4, <1>5, <1>6 DEF Placed, Alone
  <2> QED BY <2>1, <2>2 DEF FlowPlaced
<1>8. FinalizeRan'
  BY <1>1, <1>4 DEF FlowInv, FinalizeRan, Finalized
<1>9. ASSUME ~crossed' PROVE FlowTrue'
  <2>1. FlowTrue /\ \A t \in Live : input[t] = i
    BY <1>1, <1>9 DEF FlowInv
  <2>2. \A t \in Live' : input'[t] = i
    BY <1>6, <2>1 DEF Live, Alone
  <2>3. Agree' /\ FileTrue'
    BY <1>1, <2>1, <2>2 DEF FlowTrue, Agree, FileTrue, HasDone
  <2>4. ASSUME NEW t \in Sessions PROVE OwnTrue(t)'
    BY <1>1, <1>4, <1>5, <1>6, <2>1 DEF FlowTrue, OwnTrue, Alone, HasDone
  <2> QED BY <2>3, <2>4 DEF FlowTrue
<1> QED BY <1>7, <1>8, <1>9 DEF FlowInv

\* A fresh file claims nothing, and what other live sessions rest on is of
\* the input whose history is kept.
LEMMA SeedKeeps ==
  ASSUME FlowAssumption, FlowInv, NEW s \in Sessions, Seed(s)
  PROVE  FlowInv'
PROOF
<1>0. FlowPlaced /\ FlowTypes /\ \A t \in Sessions : Placed(t)
  BY DEF FlowInv, FlowPlaced
<1>1. /\ UNCHANGED <<worktree, input, handle, result, crossed, refused>>
      /\ at[s].pc = "seeding" /\ file' = copy[s] /\ copy' = [copy EXCEPT ![s] = Nil]
      /\ done' = {d \in done : d[1] = input[s]} /\ Goto(s, "entering", 0)
  BY DEF Seed
<1>2. /\ at' \in [Sessions -> [pc : Stages, k : 0..(Len(Plan) + 1)]]
      /\ \A t \in Sessions \ {s} : at'[t] = at[t]
      /\ at'[s].pc = "entering"
  <2>1. 0 \in 0..(Len(Plan) + 1) /\ "entering" \in Stages
    BY LenProperties DEF FlowAssumption, Stages
  <2> QED BY <1>0, <1>1, <2>1, GotoIs
<1>3. file' \in File /\ file' # Nil /\ Alone(s)
  BY <1>0, <1>1, <1>2 DEF FlowTypes, Placed, FlowAssumption, Alone
<1>4. FlowPlaced'
  <2>1. FlowTypes'
    BY <1>0, <1>1, <1>2, <1>3 DEF FlowTypes
  <2>2. ASSUME NEW t \in Sessions PROVE Placed(t)'
    BY <1>0, <1>1, <1>2, <1>3 DEF Placed, Alone
  <2> QED BY <2>1, <2>2 DEF FlowPlaced
<1>5. FinalizeRan'
  BY <1>1, <1>2 DEF FlowInv, FinalizeRan, Finalized
<1>6. ASSUME ~crossed PROVE FlowTrue'
  <2>1. FlowTrue
    BY <1>6 DEF FlowInv
  <2>2. file' = Fresh(input[s]) /\ file'.input = input[s]
    BY <1>1, <2>1 DEF FlowTrue, OwnTrue, Fresh
  <2>3. FileTrue'
    BY <1>0, <2>2, FreshIsFile DEF FileTrue, HasDone, FlowTypes
  <2>4. Agree'
    BY <1>1, <1>2, <2>1 DEF FlowTrue, Agree, Live
  <2>5. ASSUME NEW t \in Sessions \ {s} PROVE OwnTrue(t)'
    <3>1. at[t].pc # "off" => input[t] = input[s]
      BY <1>1, <2>1 DEF FlowTrue, Agree, Live
    <3>2. ASSUME NEW k, <<input[s], k>> \in done PROVE <<input[s], k>> \in done'
      BY <1>1, <3>2
    <3> QED BY <1>1, <1>3, <2>1, <2>2, <2>5, <3>1, <3>2 DEF FlowTrue, OwnTrue, Alone, HasDone
  <2>6. OwnTrue(s)'
    BY <1>1, <1>2, <2>2 DEF OwnTrue
  <2> QED BY <2>3, <2>4, <2>5, <2>6 DEF FlowTrue
<1> QED BY <1>1, <1>4, <1>5, <1>6 DEF FlowInv

\* Enter and Prologue: a session that is on the file goes on, writing nothing.
LEMMA GoesOn ==
  ASSUME FlowAssumption, FlowInv, NEW s \in Sessions,
         NEW place \in {"ready", "working"}, NEW k \in 0..(Len(Plan) + 1), Goto(s, place, k),
         at[s].pc \notin {"off", "seeding"}, place = "working" => k \in Entities,
         UNCHANGED <<file, input, copy, result, done, crossed>>,
         handle' \in [Sessions -> BOOLEAN],
         Finalized => Finalized', place = "working" /\ Finalizes(k) => Finalized'
  PROVE  FlowInv'
PROOF
<1>0. FlowPlaced /\ FlowTypes /\ \A t \in Sessions : Placed(t)
  BY DEF FlowInv, FlowPlaced
<1>1. /\ at' \in [Sessions -> [pc : Stages, k : 0..(Len(Plan) + 1)]]
      /\ \A t \in Sessions \ {s} : at'[t] = at[t]
      /\ at'[s].pc = place /\ at'[s].k = k
  BY <1>0, GotoIs DEF Stages
<1>2. FlowPlaced'
  <2>1. FlowTypes'
    BY <1>0, <1>1 DEF FlowTypes
  <2>2. ASSUME NEW t \in Sessions PROVE Placed(t)'
    BY <1>0, <1>1 DEF Placed
  <2> QED BY <2>1, <2>2 DEF FlowPlaced
<1>3. FinalizeRan'
  BY <1>1 DEF FlowInv, FinalizeRan
<1>4. ASSUME ~crossed PROVE FlowTrue'
  <2>1. FlowTrue
    BY <1>4 DEF FlowInv
  <2>2. Agree' /\ FileTrue'
    BY <1>1, <2>1 DEF FlowTrue, Agree, Live, FileTrue, HasDone
  <2>3. ASSUME NEW t \in Sessions PROVE OwnTrue(t)'
    BY <1>1, <2>1 DEF FlowTrue, OwnTrue, HasDone
  <2> QED BY <2>2, <2>3 DEF FlowTrue
<1> QED BY <1>2, <1>3, <1>4 DEF FlowInv

LEMMA EnterKeeps ==
  ASSUME FlowAssumption, FlowInv, NEW s \in Sessions, Enter(s)
  PROVE  FlowInv'
PROOF
<1> DEFINE k == IF file.input = input[s] THEN FirstIncomplete(file) ELSE 1
<1>1. /\ Goto(s, "ready", k) /\ at[s].pc = "entering"
      /\ UNCHANGED <<file, worktree, input, handle, copy, result, done, crossed, refused>>
  BY DEF Enter, history
<1>2. k \in 0..(Len(Plan) + 1)
  <2>1. Len(Plan) \in Nat
    BY LenProperties DEF FlowAssumption
  <2>2. FirstIncomplete(file) \in 1..(Len(Plan) + 1)
    BY FirstIncompleteIs
  <2> QED BY <2>1, <2>2
<1>3. handle' \in [Sessions -> BOOLEAN] /\ (Finalized => Finalized')
  BY <1>1 DEF FlowInv, FlowPlaced, FlowTypes, Finalized
<1> HIDE DEF k
<1> QED BY <1>1, <1>2, <1>3, GoesOn

\* A finalize phase cannot get past its prologue without having called git.
LEMMA PrologueKeeps ==
  ASSUME FlowAssumption, FlowInv, NEW s \in Sessions, Prologue(s)
  PROVE  FlowInv'
PROOF
<1> DEFINE k == at[s].k
<1>1. /\ Goto(s, "working", k) /\ at[s].pc = "ready" /\ k \in Entities
      /\ UNCHANGED <<file, input, copy, result, done, crossed>>
      /\ CASE Plan[k].worktree = "prepare"  -> PrepareWorktree(s) /\ UNCHANGED refused
           [] Plan[k].worktree = "finalize" -> FinalizeWorktree /\ UNCHANGED handle
           [] OTHER -> UNCHANGED <<worktree, handle, refused>>
  BY DEF Prologue
<1>2. k \in 0..(Len(Plan) + 1) /\ handle \in [Sessions -> BOOLEAN]
  BY DEF FlowInv, FlowPlaced, FlowTypes
<1>3. CASE Plan[k].worktree = "prepare"
  <2>1. PrepareWorktree(s) /\ UNCHANGED refused
    BY <1>1, <1>3
  <2>2. handle' \in [Sessions -> BOOLEAN] /\ (Finalized => Finalized') /\ ~Finalizes(k)
    BY <1>2, <1>3, <2>1 DEF PrepareWorktree, Finalized, Finalizes
  <2> HIDE DEF k
  <2> QED BY <1>1, <1>2, <2>2, GoesOn
<1>4. CASE Plan[k].worktree = "finalize"
  <2>1. FinalizeWorktree /\ UNCHANGED handle
    BY <1>1, <1>4
  <2>2. Finalized'
    BY <2>1 DEF FinalizeWorktree, Finalized
  <2> HIDE DEF k
  <2> QED BY <1>1, <1>2, <2>1, <2>2, GoesOn
<1>5. CASE Plan[k].worktree \notin {"prepare", "finalize"}
  <2>1. UNCHANGED <<worktree, handle, refused>>
    BY <1>1, <1>5
  <2>2. (Finalized => Finalized') /\ ~Finalizes(k)
    BY <1>5, <2>1 DEF Finalized, Finalizes
  <2> HIDE DEF k
  <2> QED BY <1>1, <1>2, <2>1, <2>2, GoesOn
<1> QED BY <1>3, <1>4, <1>5

\* Complete and NotConverged: the copy is the file but for the one entity.
LEMMA LoadKeeps ==
  ASSUME FlowAssumption, FlowInv, NEW s \in Sessions, NEW new \in File,
         NEW place \in {"completing", "blocking"}, at[s].pc = "working", Goto(s, place, at[s].k),
         copy' = [copy EXCEPT ![s] = new],
         new.input = file.input,
         \A j \in Entities \ {at[s].k} : new.status[j] = file.status[j],
         place = "blocking" => new.status[at[s].k] # "success",
         UNCHANGED <<file, worktree, input, handle, result, history>>
  PROVE  FlowInv'
PROOF
<1>0. FlowPlaced /\ FlowTypes /\ \A t \in Sessions : Placed(t)
  BY DEF FlowInv, FlowPlaced
<1>1. /\ at' \in [Sessions -> [pc : Stages, k : 0..(Len(Plan) + 1)]]
      /\ \A t \in Sessions \ {s} : at'[t] = at[t]
      /\ at'[s].pc = place /\ at'[s].k = at[s].k
  <2>1. at[s].k \in 0..(Len(Plan) + 1)
    BY <1>0 DEF FlowTypes
  <2> QED BY <1>0, <2>1, GotoIs DEF Stages
<1>2. /\ Alone(s) /\ copy'[s] = new /\ copy' \in [Sessions -> File \cup {Nil}]
      /\ UNCHANGED <<done, crossed, refused>>
  BY <1>0, <1>1 DEF Alone, FlowTypes, history
<1>3. FlowPlaced'
  <2>1. FlowTypes'
    BY <1>0, <1>1, <1>2 DEF FlowTypes
  <2>2. ASSUME NEW t \in Sessions PROVE Placed(t)'
    BY <1>0, <1>1, <1>2 DEF Placed, Alone
  <2> QED BY <2>1, <2>2 DEF FlowPlaced
<1>4. FinalizeRan'
  BY <1>1, <1>2 DEF FlowInv, FinalizeRan, Finalized
<1>5. ASSUME ~crossed PROVE FlowTrue'
  <2>1. FlowTrue /\ file # Nil /\ file.input = input[s]
    BY <1>0, <1>5 DEF FlowInv, FlowTrue, OwnTrue, Placed
  <2>2. Agree' /\ FileTrue'
    BY <1>1, <1>2, <2>1 DEF FlowTrue, Agree, Live, FileTrue, HasDone
  <2>3. ASSUME NEW t \in Sessions \ {s} PROVE OwnTrue(t)'
    BY <1>2, <2>1 DEF FlowTrue, OwnTrue, HasDone, Alone
  <2>4. \A j \in Entities \ {at[s].k} : new.status[j] = "success" => <<input[s], j>> \in done
    BY <2>1 DEF FlowTrue, FileTrue, HasDone
  <2>5. OwnTrue(s)'
    BY <1>1, <1>2, <2>1, <2>4 DEF OwnTrue, HasDone
  <2> QED BY <2>2, <2>3, <2>5 DEF FlowTrue
<1> QED BY <1>2, <1>3, <1>4, <1>5 DEF FlowInv

\* A call of a session that is at work loads the file, which is there.
LEMMA LoadedHere ==
  ASSUME FlowAssumption, FlowInv, NEW s \in Sessions, at[s].pc = "working"
  PROVE  Loaded = file /\ file \in File /\ at[s].k \in Entities
  BY DEF FlowInv, FlowPlaced, FlowTypes, Placed, Loaded

LEMMA CompleteKeeps ==
  ASSUME FlowAssumption, FlowInv, NEW s \in Sessions, Complete(s)
  PROVE  FlowInv'
PROOF
<1> DEFINE k == at[s].k
<1>1. at[s].pc = "working" /\ Goto(s, "completing", k)
      /\ UNCHANGED <<file, worktree, input, handle, result, history>>
  BY DEF Complete
<1>2. Loaded = file /\ file \in File /\ k \in Entities
  BY <1>1, LoadedHere
<1>3. PICK answered \in SUBSET Plan[k].publish :
        copy' = [copy EXCEPT ![s] =
          [file EXCEPT !.status[k] = "success",
                       !.outputs[k] = Republished(k, answered \cup Worktree(s, k))]]
  BY <1>2 DEF Complete
<1> DEFINE given == Republished(k, answered \cup Worktree(s, k))
           new == [file EXCEPT !.status[k] = "success", !.outputs[k] = given]
<1>4. given \in SUBSET Names
  <2>1. Plan[k].publish \in SUBSET Names /\ Worktree(s, k) \in SUBSET Names
    BY <1>2 DEF Names, Worktree
  <2>2. file.outputs[k] \in SUBSET Names
    BY <1>2 DEF File
  <2> HIDE DEF k
  <2> QED BY <1>2, <2>1, <2>2 DEF Republished
<1>5. /\ new \in File /\ new.input = file.input
      /\ \A j \in Entities \ {k} : new.status[j] = file.status[j]
  <2> HIDE DEF given, k
  <2> QED BY <1>2, <1>4 DEF File
<1>6. copy' = [copy EXCEPT ![s] = new]
  BY <1>3
<1> HIDE DEF new, given
<1> QED BY <1>1, <1>5, <1>6, LoadKeeps

LEMMA NotConvergedKeeps ==
  ASSUME FlowAssumption, FlowInv, NEW s \in Sessions, NotConverged(s)
  PROVE  FlowInv'
PROOF
<1> DEFINE k == at[s].k
           new == [file EXCEPT !.status[k] = "blocked"]
<1>1. at[s].pc = "working" /\ Goto(s, "blocking", k)
      /\ UNCHANGED <<file, worktree, input, handle, result, history>>
  BY DEF NotConverged
<1>2. Loaded = file /\ file \in File /\ k \in Entities
  BY <1>1, LoadedHere
<1>3. copy' = [copy EXCEPT ![s] = new]
  BY <1>2 DEF NotConverged
<1>4. /\ new \in File /\ new.input = file.input /\ new.status[k] = "blocked"
      /\ \A j \in Entities \ {k} : new.status[j] = file.status[j]
  BY <1>2 DEF File
<1> HIDE DEF new
<1> QED BY <1>1, <1>3, <1>4, LoadKeeps

\* The rename: what the copy claims is history now.
LEMMA CompleteSavedKeeps ==
  ASSUME FlowAssumption, FlowInv, NEW s \in Sessions, CompleteSaved(s)
  PROVE  FlowInv'
PROOF
<1>0. FlowPlaced /\ FlowTypes /\ \A t \in Sessions : Placed(t)
  BY DEF FlowInv, FlowPlaced
<1>1. /\ UNCHANGED <<worktree, input, handle, result, crossed, refused>>
      /\ at[s].pc = "completing" /\ file' = copy[s] /\ copy' = [copy EXCEPT ![s] = Nil]
      /\ done' = done \cup {<<input[s], at[s].k>>} /\ Goto(s, "ready", at[s].k + 1)
  BY DEF CompleteSaved
<1>2. at[s].k \in Entities /\ input[s] \in Inputs /\ copy[s] \in File /\ copy[s] # Nil
  BY <1>0, <1>1 DEF Placed, FlowAssumption
<1>3. /\ at' \in [Sessions -> [pc : Stages, k : 0..(Len(Plan) + 1)]]
      /\ \A t \in Sessions \ {s} : at'[t] = at[t]
      /\ at'[s].pc = "ready"
  <2>1. at[s].k + 1 \in 0..(Len(Plan) + 1) /\ "ready" \in Stages
    BY <1>2, LenProperties DEF FlowAssumption, Entities, Stages
  <2> QED BY <1>0, <1>1, <2>1, GotoIs
<1>4. Alone(s) /\ copy' \in [Sessions -> File \cup {Nil}]
  BY <1>0, <1>1, <1>3 DEF Alone, FlowTypes
<1>5. FlowPlaced'
  <2>1. FlowTypes'
    BY <1>0, <1>1, <1>2, <1>3, <1>4 DEF FlowTypes
  <2>2. ASSUME NEW t \in Sessions PROVE Placed(t)'
    BY <1>0, <1>1, <1>2, <1>3, <1>4 DEF Placed, Alone
  <2> QED BY <2>1, <2>2 DEF FlowPlaced
<1>6. FinalizeRan'
  <2>1. Finalizes(at[s].k) => Finalized
    BY <1>1 DEF FlowInv, FinalizeRan
  <2> QED BY <1>1, <1>3, <2>1 DEF FlowInv, FinalizeRan, Finalized
<1>7. ASSUME ~crossed PROVE FlowTrue'
  <2>1. FlowTrue /\ file'.input = input[s]
    BY <1>1, <1>7 DEF FlowInv, FlowTrue, OwnTrue
  <2>2. \A k \in Entities : file'.status[k] = "success" => <<input[s], k>> \in done'
    BY <1>1, <2>1 DEF FlowTrue, OwnTrue
  <2>3. FileTrue'
    BY <2>1, <2>2 DEF FileTrue, HasDone
  <2>6. Agree'
    BY <1>1, <1>3, <2>1 DEF FlowTrue, Agree, Live
  <2>4. ASSUME NEW t \in Sessions \ {s} PROVE OwnTrue(t)'
    <3>1. at[t].pc # "off" => input[t] = input[s]
      BY <1>1, <2>1 DEF FlowTrue, Agree, Live
    <3> QED BY <1>1, <1>4, <2>1, <3>1 DEF FlowTrue, OwnTrue, Alone, HasDone
  <2>5. OwnTrue(s)'
    BY <1>1, <1>3, <2>1 DEF OwnTrue
  <2> QED BY <2>3, <2>4, <2>5, <2>6 DEF FlowTrue
<1> QED BY <1>1, <1>5, <1>6, <1>7 DEF FlowInv

LEMMA FlowStep == FlowAssumption /\ FlowInv /\ [FlowNext]_flowVars => FlowInv'
PROOF
<1> SUFFICES ASSUME FlowAssumption, FlowInv, [FlowNext]_flowVars PROVE FlowInv'
  OBVIOUS
<1>1. ASSUME NEW s \in Sessions, NEW i \in Inputs, Start(s, i) PROVE FlowInv'
  BY <1>1, StartKeeps
<1>2. ASSUME NEW s \in Sessions, Seed(s) PROVE FlowInv'
  BY <1>2, SeedKeeps
<1>3. ASSUME NEW s \in Sessions, Enter(s) PROVE FlowInv'
  BY <1>3, EnterKeeps
<1>4. ASSUME NEW s \in Sessions, Blocked(s) PROVE FlowInv'
  BY <1>4, LeaveKeeps DEF Blocked
<1>5. ASSUME NEW s \in Sessions, Prologue(s) PROVE FlowInv'
  BY <1>5, PrologueKeeps
<1>6. ASSUME NEW s \in Sessions, AssertFails(s) PROVE FlowInv'
  BY <1>6, LeaveKeeps DEF AssertFails
<1>7. ASSUME NEW s \in Sessions, Complete(s) PROVE FlowInv'
  BY <1>7, CompleteKeeps
<1>8. ASSUME NEW s \in Sessions, CompleteSaved(s) PROVE FlowInv'
  BY <1>8, CompleteSavedKeeps
<1>9. ASSUME NEW s \in Sessions, NotConverged(s) PROVE FlowInv'
  BY <1>9, NotConvergedKeeps
<1>10. ASSUME NEW s \in Sessions, BlockedSaved(s) PROVE FlowInv'
  BY <1>10, LeaveKeeps DEF BlockedSaved
<1>11. ASSUME NEW s \in Sessions, Return(s) PROVE FlowInv'
  BY <1>11, LeaveKeeps DEF Return
<1>12. ASSUME NEW s \in Sessions, Die(s) PROVE FlowInv'
  BY <1>12, LeaveKeeps DEF Die
<1>13. CASE UNCHANGED flowVars
  <2>1. FlowPlaced'
    BY <1>13 DEF flowVars, FlowInv, FlowPlaced, FlowTypes, Placed
  <2>2. FinalizeRan'
    BY <1>13 DEF flowVars, FlowInv, FinalizeRan, Finalized
  <2>3. ~crossed => FlowTrue'
    BY <1>13 DEF flowVars, FlowInv, FlowTrue, Agree, Live, FileTrue, OwnTrue, HasDone
  <2> QED BY <1>13, <2>1, <2>2, <2>3 DEF flowVars, FlowInv
<1> QED BY <1>1, <1>2, <1>3, <1>4, <1>5, <1>6, <1>7, <1>8, <1>9, <1>10, <1>11,
          <1>12, <1>13 DEF FlowNext

\* Only Return reports success, and it has just read a file of successes.
LEMMA SuccessStep ==
  ASSUME FlowAssumption, PlanFinalizes, FlowInv, [FlowNext]_flowVars
  PROVE  Earned
PROOF
<1> SUFFICES ASSUME NEW s \in Sessions, ~crossed,
                    result[s] # "success", result'[s] = "success"
             PROVE  /\ \A k \in Entities : <<input[s], k>> \in done
                    /\ worktree = "removed" \/ refused
  BY DEF Earned
<1>0. FlowTypes /\ FinalizeRan /\ FlowTrue /\ Placed(s)
  BY DEF FlowInv, FlowPlaced
<1>1. ASSUME NEW t \in Sessions, NEW v \in {"none", "blocked"}, Leave(t, v) PROVE FALSE
  BY <1>0, <1>1 DEF Leave, FlowTypes
<1>2. ASSUME UNCHANGED result PROVE FALSE
  BY <1>2
<1>3. ASSUME NEW t \in Sessions, NEW i \in Inputs, Start(t, i) PROVE FALSE
  BY <1>0, <1>3 DEF Start, FlowTypes
<1>4. PICK t \in Sessions : Return(t)
  BY <1>1, <1>2, <1>3
     DEF FlowNext, flowVars, Seed, Enter, Blocked, Prologue, AssertFails, Complete,
         CompleteSaved, NotConverged, BlockedSaved, Die
<1>5. t = s
  BY <1>0, <1>4 DEF Return, Leave, FlowTypes
<1>6. /\ at[s].pc = "ready" /\ FirstIncomplete(Loaded) = Len(Plan) + 1
  BY <1>0, <1>4, <1>5 DEF Return, Leave, FlowTypes
<1>7. Loaded = file /\ file # Nil /\ file.input = input[s]
  BY <1>0, <1>6 DEF Placed, Loaded, FlowTrue, OwnTrue
<1>8. \A k \in Entities : <<input[s], k>> \in done
  <2>1. \A k \in Entities : file.status[k] = "success"
    <3>1. Len(Plan) \in Nat /\ Entities = 1..Len(Plan)
      BY LenProperties DEF FlowAssumption, Entities
    <3> QED BY <1>6, <1>7, <3>1, FirstIncompleteIs
  <2> QED BY <1>0, <1>7, <2>1 DEF FlowTrue, FileTrue, HasDone
<1>9. Finalized
  <2>1. PICK k \in Entities : Finalizes(k)
    BY DEF PlanFinalizes, Finalizes
  <2> QED BY <1>0, <1>8, <2>1 DEF FinalizeRan
<1> QED BY <1>8, <1>9 DEF Finalized

(* For any sessions, inputs and plan that finalizes its worktree: a flow   *)
(* script (flow/src/workflow) returns success only when every phase and    *)
(* group of the plan has been completed for the run's own input, and the   *)
(* worktree is gone or git has refused; unless two sessions of different   *)
(* inputs were on the slug at once.                                        *)
THEOREM SuccessTheorem ==
  ASSUME FlowAssumption, PlanFinalizes
  PROVE  FlowSpec => SuccessIsEarned
PROOF
<1>1. FlowSpec => []FlowInv
  BY FlowInitial, FlowStep, PTL DEF FlowSpec
<1>2. FlowInv /\ [FlowNext]_flowVars => [Earned]_flowVars
  BY SuccessStep
<1> QED BY <1>1, <1>2, PTL DEF FlowSpec, SuccessIsEarned

-----------------------------------------------------------------------------
(* Web calls.  The loop that makes the plan of a search has an i-th turn   *)
(* for every i, and leaves a sequence without repetitions.                 *)
WebAssumption == Providers \in Seq(STRING)

Known == STRING \cup {"searxng-html"}
Distinct(s) == \A i, j \in DOMAIN s : s[i] = s[j] => i = j

\* One turn of the loop after another.
Turns(f, m) ==
  f = [n \in 0 .. m |-> IF n = 0 THEN <<>> ELSE WithProvider(f[n - 1], Providers[n])]

LEMMA TurnsExist ==
  ASSUME NEW m \in Nat
  PROVE  \E f : Turns(f, m)
PROOF
<1> DEFINE Bad == {n \in Nat : ~\E f : Turns(f, n)}
<1>1. SUFFICES ASSUME Bad # {} PROVE FALSE
  OBVIOUS
<1>2. PICK n \in Bad : \A k \in Bad : n <= k
  <2>1. Bad \in SUBSET Nat
    OBVIOUS
  <2> HIDE DEF Bad
  <2> QED BY <1>1, <2>1, LeastNatural
<1>3. CASE n = 0
  <2> DEFINE f == [k \in 0 .. 0 |-> <<>>]
  <2>1. Turns(f, 0)
    BY DEF Turns
  <2> QED BY <1>3, <2>1
<1>4. CASE n # 0
  <2>1. n \in Nat /\ n - 1 \in Nat /\ ~(n <= n - 1)
    BY <1>4
  <2>2. PICK f : Turns(f, n - 1)
    BY <1>2, <2>1
  <2> DEFINE g == [k \in 0 .. n |-> IF k = 0 THEN <<>>
                                   ELSE WithProvider(f[k - 1], Providers[k])]
  <2>3. ASSUME NEW k \in 0 .. n, k # 0 PROVE g[k - 1] = f[k - 1]
    <3>1. k - 1 \in 0 .. n - 1 /\ k - 1 \in 0 .. n
      BY <2>1, <2>3
    <3>2. f[k - 1] = IF k - 1 = 0 THEN <<>> ELSE WithProvider(f[(k - 1) - 1], Providers[k - 1])
      BY <2>2, <3>1 DEF Turns
    <3> QED BY <3>1, <3>2
  <2>4. Turns(g, n)
    BY <2>3 DEF Turns
  <2> QED BY <2>4
<1> QED BY <1>3, <1>4

LEMMA PlanTurns == ASSUME WebAssumption PROVE Turns(PlanUpTo, Len(Providers))
PROOF
<1>1. Len(Providers) \in Nat
  BY LenProperties DEF WebAssumption
<1>2. \E f : Turns(f, Len(Providers))
  BY <1>1, TurnsExist
<1> QED BY <1>2 DEF PlanUpTo, Turns

LEMMA PushUniqueIs ==
  ASSUME NEW s \in Seq(Known), Distinct(s), NEW p \in Known
  PROVE  PushUnique(s, p) \in Seq(Known) /\ Distinct(PushUnique(s, p))
PROOF
<1>1. CASE p \in Range(s)
  BY <1>1 DEF PushUnique
<1>2. CASE p \notin Range(s)
  <2>1. /\ PushUnique(s, p) = Append(s, p) /\ Append(s, p) \in Seq(Known)
        /\ Len(s) \in Nat /\ DOMAIN s = 1 .. Len(s)
        /\ DOMAIN Append(s, p) = 1 .. (Len(s) + 1)
        /\ Append(s, p)[Len(s) + 1] = p
        /\ \A i \in 1 .. Len(s) : Append(s, p)[i] = s[i]
    BY <1>2, AppendProperties, LenProperties DEF PushUnique
  <2>2. \A i \in 1 .. Len(s) : s[i] # p
    BY <1>2, <2>1 DEF Range
  <2> QED BY <2>1, <2>2 DEF Distinct
<1> QED BY <1>1, <1>2

LEMMA PlanIsDistinct ==
  ASSUME WebAssumption
  PROVE  ProviderPlan \in Seq(Known) /\ Distinct(ProviderPlan)
PROOF
<1> DEFINE L == Len(Providers)
           Good(n) == PlanUpTo[n] \in Seq(Known) /\ Distinct(PlanUpTo[n])
           Bad == {n \in 0 .. L : ~Good(n)}
<1>1. L \in Nat /\ \A n \in 1 .. L : Providers[n] \in STRING
  BY LenProperties, ElementOfSeq DEF WebAssumption
<1>2. \A n \in 0 .. L : PlanUpTo[n] = IF n = 0 THEN <<>>
                                     ELSE WithProvider(PlanUpTo[n - 1], Providers[n])
  BY PlanTurns DEF Turns
<1> HIDE DEF L
<1>3. Bad = {}
  <2> SUFFICES ASSUME Bad # {} PROVE FALSE
    OBVIOUS
  <2>1. PICK n \in Bad : \A k \in Bad : n <= k
    <3>1. Bad \in SUBSET Nat
      BY <1>1
    <3> HIDE DEF Bad
    <3> QED BY <3>1, LeastNatural
  <2>2. CASE n = 0
    <3>1. PlanUpTo[0] = <<>> /\ <<>> \in Seq(Known) /\ DOMAIN <<>> = {}
      BY <1>1, <1>2, EmptySeq
    <3> QED BY <2>2, <3>1 DEF Distinct
  <2>3. CASE n # 0
    <3>1. n - 1 \in 0 .. L /\ n - 1 \notin Bad /\ Providers[n] \in STRING
      BY <1>1, <2>1, <2>3
    <3>2. Good(n - 1)
      BY <3>1
    <3> DEFINE s == PlanUpTo[n - 1]
               p == Providers[n]
    <3>3. PlanUpTo[n] = WithProvider(s, p)
      BY <1>2, <2>3
    <3>4. s \in Seq(Known) /\ Distinct(s) /\ p \in Known /\ "searxng-html" \in Known
      BY <3>1, <3>2 DEF Known
    <3> HIDE DEF s, p
    <3>5. PushUnique(s, p) \in Seq(Known) /\ Distinct(PushUnique(s, p))
      BY <3>4, PushUniqueIs
    <3>6. /\ PushUnique(PushUnique(s, p), "searxng-html") \in Seq(Known)
          /\ Distinct(PushUnique(PushUnique(s, p), "searxng-html"))
      BY <3>4, <3>5, PushUniqueIs
    <3>7. Good(n)
      BY <3>3, <3>4, <3>5, <3>6 DEF WithProvider
    <3> QED BY <2>1, <3>7
  <2> QED BY <2>2, <2>3
<1> QED BY <1>1, <1>3 DEF ProviderPlan, L

\* The first k providers of the plan.
First(k) == {ProviderPlan[i] : i \in 1 .. k}

LEMMA FirstIs ==
  ASSUME WebAssumption, NEW k \in 0 .. Len(ProviderPlan)
  PROVE  /\ Cardinality(First(k)) = k
         /\ First(k) = Range(SubSeq(ProviderPlan, 1, k))
PROOF
<1>1. /\ ProviderPlan \in Seq(Known) /\ Distinct(ProviderPlan)
      /\ Len(ProviderPlan) \in Nat /\ DOMAIN ProviderPlan = 1 .. Len(ProviderPlan)
  BY PlanIsDistinct, LenProperties
<1>2. k \in Nat /\ 1 .. k \subseteq DOMAIN ProviderPlan
  BY <1>1
<1>3. Cardinality(First(k)) = k
  <2> DEFINE f == [i \in 1 .. k |-> ProviderPlan[i]]
  <2>1. f \in Bijection(1 .. k, First(k))
    BY <1>1, <1>2 DEF First, Distinct, Bijection, Injection, Surjection, IsInjective
  <2>2. ExistsBijection(1 .. k, First(k))
    BY <2>1 DEF ExistsBijection
  <2>3. IsFiniteSet(1 .. k) /\ Cardinality(1 .. k) = k
    BY <1>2, FS_Interval
  <2> QED BY <2>2, <2>3, FS_Bijection
<1>4. First(k) = Range(SubSeq(ProviderPlan, 1, k))
  <2>1. SubSeq(ProviderPlan, 1, k) = Restrict(ProviderPlan, 1 .. k)
    BY <1>1, SubSeqRestrict
  <2> QED BY <1>2, <2>1 DEF First, Range, Restrict
<1> QED BY <1>3, <1>4

\* Before the page and after the answer a call has nothing open, but what one
\* of the named failures left; a fetch in fast mode never comes to the launch.
Blamed(c) ==
  left[c] \in IF kind[c] = "flow" THEN {"newPage", "close", "step"} ELSE {"newPage", "close"}
Settled(c) ==
  /\ pc[c] \in {"fast", "launch", "launching", "answered"} /\ context[c] = "open" => Blamed(c)
  /\ kind[c] = "fetch" /\ mode[c] = "fast" =>
       context[c] = "none" /\ ~abortable[c] /\ pc[c] \in {"fast", "answered"}

\* A search has tried the beginning of its plan and has the rest before it.
TriedTo(c, k) ==
  /\ plan[c] = SubSeq(ProviderPlan, k + 1, Len(ProviderPlan)) /\ tried[c] = First(k)
  /\ pc[c] # "answered" => k < Len(ProviderPlan)
  /\ answer[c] = "empty" => k = Len(ProviderPlan)
InOrder(c) == \E k \in 0 .. Len(ProviderPlan) : TriedTo(c, k)

WebFunctions ==
  /\ DOMAIN pc = Calls /\ DOMAIN plan = Calls /\ DOMAIN context = Calls
  /\ DOMAIN answer = Calls /\ DOMAIN tried = Calls /\ DOMAIN left = Calls
  /\ DOMAIN abortable = Calls

WebInv ==
  /\ WebFunctions
  /\ \A c \in Calls : Settled(c) /\ (kind[c] = "search" => InOrder(c))

LEMMA WebInitial == WebAssumption /\ WebInit => WebInv
PROOF
<1> SUFFICES ASSUME WebAssumption, WebInit PROVE WebInv
  OBVIOUS
<1>1. ProviderPlan \in Seq(Known) /\ Len(ProviderPlan) \in Nat
  BY PlanIsDistinct, LenProperties
<1>2. WebFunctions
  BY DEF WebInit, WebFunctions
<1>3. ASSUME NEW c \in Calls PROVE Settled(c)
  BY DEF WebInit, Settled, Hopeless
<1>4. ASSUME NEW c \in Calls, kind[c] = "search" PROVE TriedTo(c, 0)
  <2>1. SubSeq(ProviderPlan, 0 + 1, Len(ProviderPlan)) = ProviderPlan
    BY <1>1, SubSeqFull
  <2>2. First(0) = {}
    BY DEF First
  <2>3. plan[c] = ProviderPlan /\ tried[c] = {}
    BY <1>4 DEF WebInit
  <2>4. CASE ProviderPlan = <<>>
    <3>1. pc[c] = "answered" /\ Len(ProviderPlan) = 0
      BY <1>4, <2>4, EmptySeq DEF WebInit, Hopeless
    <3> QED BY <2>1, <2>2, <2>3, <3>1 DEF TriedTo
  <2>5. CASE ProviderPlan # <<>>
    <3>1. answer[c] = "none" /\ Len(ProviderPlan) # 0
      BY <1>1, <1>4, <2>5, EmptySeq DEF WebInit, Hopeless
    <3> QED BY <1>1, <2>1, <2>2, <2>3, <3>1 DEF TriedTo
  <2> QED BY <2>4, <2>5
<1>5. ASSUME NEW c \in Calls, kind[c] = "search" PROVE InOrder(c)
  BY <1>1, <1>4, <1>5 DEF InOrder
<1> QED BY <1>2, <1>3, <1>5 DEF WebInv

\* What a call does is its own.
Own(c) ==
  /\ UNCHANGED <<kind, mode>> /\ WebFunctions'
  /\ \A d \in Calls \ {c} :
       /\ pc'[d] = pc[d] /\ plan'[d] = plan[d] /\ context'[d] = context[d]
       /\ answer'[d] = answer[d] /\ tried'[d] = tried[d] /\ left'[d] = left[d]
       /\ abortable'[d] = abortable[d]

LEMMA OwnKeeps ==
  ASSUME WebInv, NEW c \in Calls, Own(c), Settled(c)',
         kind[c] = "search" => InOrder(c)'
  PROVE  WebInv'
PROOF
<1>1. ASSUME NEW d \in Calls \ {c} PROVE Settled(d)' /\ (kind'[d] = "search" => InOrder(d)')
  <2>1. Settled(d)'
    BY DEF WebInv, Own, Settled, Blamed
  <2>2. ASSUME kind'[d] = "search" PROVE InOrder(d)'
    <3>1. kind[d] = "search" /\ InOrder(d)
      BY <2>2 DEF WebInv, Own
    <3> QED BY <3>1 DEF Own, InOrder, TriedTo
  <2> QED BY <2>1, <2>2
<1>2. kind' = kind /\ WebFunctions'
  BY DEF Own
<1> QED BY <1>1, <1>2 DEF WebInv

\* A search whose place in its plan, page and answer are as they were.
LEMMA PlaceKept ==
  ASSUME WebInv, NEW c \in Calls, UNCHANGED <<plan, tried>>,
         answer'[c] = "empty" => answer[c] = "empty", pc[c] # "answered",
         kind[c] = "search"
  PROVE  InOrder(c)'
  BY DEF WebInv, InOrder, TriedTo

\* A provider is done with: the next one, the results, or the end of the plan.
LEMMA ProvidedGives ==
  ASSUME WebAssumption, WebInv, NEW c \in Calls, NEW found \in BOOLEAN,
         kind[c] = "search", pc[c] # "answered", Provided(c, found)
  PROVE  /\ InOrder(c)' /\ pc'[c] \in {"fast", "answered"}
         /\ DOMAIN pc' = Calls /\ DOMAIN plan' = Calls
         /\ DOMAIN answer' = Calls /\ DOMAIN tried' = Calls
         /\ \A d \in Calls \ {c} : /\ pc'[d] = pc[d] /\ plan'[d] = plan[d]
                                   /\ answer'[d] = answer[d] /\ tried'[d] = tried[d]
PROOF
<1> DEFINE L == Len(ProviderPlan)
<1>1. ProviderPlan \in Seq(Known) /\ L \in Nat
  BY PlanIsDistinct, LenProperties
<1>2. PICK k \in 0 .. L : TriedTo(c, k)
  BY DEF WebInv, InOrder
<1>3. k < L /\ k + 1 \in 1 .. L /\ L \in k + 1 .. L /\ k \in Nat
  BY <1>1, <1>2 DEF TriedTo
<1>4. /\ Head(plan[c]) = ProviderPlan[k + 1]
      /\ Tail(plan[c]) = SubSeq(ProviderPlan, (k + 1) + 1, L)
  BY <1>1, <1>2, <1>3, HeadTailOfSubSeq DEF TriedTo
<1>5. First(k + 1) = First(k) \cup {ProviderPlan[k + 1]}
  <2>1. 1 .. k + 1 = (1 .. k) \cup {k + 1}
    BY <1>3
  <2> QED BY <2>1 DEF First
<1>6. Tail(plan[c]) = <<>> => k + 1 = L
  <2> SUFFICES ASSUME k + 1 # L PROVE Tail(plan[c]) # <<>>
    OBVIOUS
  <2>1. \A i \in (k + 1) + 1 .. L : ProviderPlan[i] \in Known
    BY <1>1, <1>3, ElementOfSeq
  <2>2. Len(SubSeq(ProviderPlan, (k + 1) + 1, L)) = (L - ((k + 1) + 1)) + 1
    BY <1>1, <1>3, <2>1, SubSeqProperties
  <2>3. (L - ((k + 1) + 1)) + 1 # 0
    <3> HIDE DEF L
    <3> QED BY <1>1, <1>3
  <2>4. Len(Tail(plan[c])) # 0
    BY ONLY <1>4, <2>2, <2>3
  <2> QED BY <2>4, EmptySeq
<1>7. /\ DOMAIN pc = Calls /\ DOMAIN plan = Calls
      /\ DOMAIN answer = Calls /\ DOMAIN tried = Calls
  BY DEF WebInv, WebFunctions
<1>8. PICK p \in {"fast", "answered"}, a \in {"none", "results", "empty"} :
        /\ Go(c, p) /\ Say(c, a)
        /\ p = "fast" => Tail(plan[c]) # <<>>
        /\ a = "empty" => Tail(plan[c]) = <<>>
  BY DEF Provided
<1>9. /\ tried' = [tried EXCEPT ![c] = tried[c] \cup {Head(plan[c])}]
      /\ plan' = [plan EXCEPT ![c] = Tail(plan[c])]
      /\ pc' = [pc EXCEPT ![c] = p] /\ answer' = [answer EXCEPT ![c] = a]
  BY <1>8 DEF Provided, Set, Go, Say
<1>10. p # "answered" => k + 1 < L
  <2>1. p # "answered" => Tail(plan[c]) # <<>>
    BY <1>8
  <2>2. k + 1 = L => Tail(plan[c]) = <<>>
    <3> SUFFICES ASSUME k + 1 = L PROVE Tail(plan[c]) = <<>>
      OBVIOUS
    <3>1. L < (k + 1) + 1 /\ (k + 1) + 1 \in Int /\ L \in Int
      BY <1>1, <1>3
    <3> QED BY <1>4, <3>1, SubSeqEmpty
  <2> QED BY <1>1, <1>3, <2>1, <2>2
<1>11. TriedTo(c, k + 1)'
  BY <1>2, <1>4, <1>5, <1>6, <1>7, <1>8, <1>9, <1>10 DEF TriedTo
<1>12. InOrder(c)'
  BY <1>3, <1>11 DEF InOrder
<1> QED BY <1>7, <1>8, <1>9, <1>12

\* A call that gives up has its answer, or goes on with the next provider.
LEMMA GivesUpGives ==
  ASSUME WebAssumption, WebInv, NEW c \in Calls, pc[c] # "answered", GivesUp(c)
  PROVE  /\ kind[c] = "search" => InOrder(c)'
         /\ pc'[c] \in {"fast", "answered"} /\ (kind[c] # "search" => pc'[c] = "answered")
         /\ DOMAIN pc' = Calls /\ DOMAIN plan' = Calls
         /\ DOMAIN answer' = Calls /\ DOMAIN tried' = Calls
         /\ \A d \in Calls \ {c} : /\ pc'[d] = pc[d] /\ plan'[d] = plan[d]
                                   /\ answer'[d] = answer[d] /\ tried'[d] = tried[d]
PROOF
<1>1. CASE kind[c] = "search"
  BY <1>1, ProvidedGives DEF GivesUp
<1>2. CASE kind[c] # "search"
  BY <1>2 DEF GivesUp, Go, Say, WebInv, WebFunctions
<1> QED BY <1>1, <1>2

LEMMA FastFetchKeeps ==
  ASSUME WebInv, NEW c \in Calls, FastFetch(c)
  PROVE  WebInv'
PROOF
<1>1. /\ pc[c] = "fast" /\ kind[c] = "fetch"
      /\ UNCHANGED <<kind, mode, plan, context, tried, left, abortable>>
      /\ \E p \in {"answered", "launch"} : /\ pc' = [pc EXCEPT ![c] = p]
                                           /\ p = "launch" => mode[c] = "auto"
      /\ answer' = answer \/ \E a \in {"page", "error"} : answer' = [answer EXCEPT ![c] = a]
  BY DEF FastFetch, Is, Go, Say
<1>2. Own(c)
  BY <1>1 DEF Own, WebInv, WebFunctions
<1>3. Settled(c)'
  BY <1>1 DEF Settled, Blamed, WebInv, WebFunctions
<1> QED BY <1>1, <1>2, <1>3, OwnKeeps

LEMMA FastSearchKeeps ==
  ASSUME WebAssumption, WebInv, NEW c \in Calls, FastSearch(c)
  PROVE  WebInv'
PROOF
<1>1. /\ pc[c] = "fast" /\ kind[c] = "search"
      /\ UNCHANGED <<kind, mode, context, left, abortable>>
  BY DEF FastSearch, Is
<1>2. Settled(c)
  BY DEF WebInv
<1>3. CASE Head(plan[c]) \in ByBrowser
  <2>1. pc' = [pc EXCEPT ![c] = "launch"] /\ UNCHANGED <<plan, tried, answer>>
    BY <1>3 DEF FastSearch, Go
  <2>2. Own(c) /\ Settled(c)'
    BY <1>1, <1>2, <2>1 DEF Own, WebInv, WebFunctions, Settled, Blamed
  <2>3. InOrder(c)'
    BY <1>1, <2>1, PlaceKept
  <2> QED BY <1>1, <2>2, <2>3, OwnKeeps
<1>4. CASE Head(plan[c]) \notin ByBrowser
  <2>1. PICK found \in BOOLEAN : Provided(c, found)
    BY <1>4 DEF FastSearch
  <2>2. pc[c] # "answered"
    BY <1>1
  <2>3. InOrder(c)' /\ Own(c) /\ pc'[c] \in {"fast", "answered"}
    BY <1>1, <2>1, <2>2, ProvidedGives DEF Own, WebInv, WebFunctions
  <2>4. Settled(c)'
    BY <1>1, <1>2, <2>3 DEF Settled, Blamed
  <2> QED BY <1>1, <2>3, <2>4, OwnKeeps
<1> QED BY <1>3, <1>4

LEMMA BeginLaunchKeeps ==
  ASSUME WebAssumption, WebInv, NEW c \in Calls, BeginLaunch(c)
  PROVE  WebInv'
PROOF
<1>1. pc[c] = "launch" /\ UNCHANGED <<kind, mode, context, left, abortable>>
  BY DEF BeginLaunch, Is
<1>2. Settled(c)
  BY DEF WebInv
<1>3. CASE GivesUp(c)
  <2>1. pc[c] # "answered"
    BY <1>1
  <2>2. Own(c) /\ pc'[c] \in {"fast", "answered"} /\ (kind[c] = "search" => InOrder(c)')
    BY <1>1, <1>3, <2>1, GivesUpGives DEF Own, WebInv, WebFunctions
  <2>3. Settled(c)'
    BY <1>1, <1>2, <2>2 DEF Settled, Blamed
  <2> QED BY <1>1, <2>2, <2>3, OwnKeeps
<1>4. CASE ~GivesUp(c)
  <2>1. pc' = [pc EXCEPT ![c] = "launching"] /\ UNCHANGED <<plan, tried, answer>>
    BY <1>4 DEF BeginLaunch, Go
  <2>2. Own(c) /\ Settled(c)'
    BY <1>1, <1>2, <2>1 DEF Own, WebInv, WebFunctions, Settled, Blamed
  <2>3. kind[c] = "search" => InOrder(c)'
    BY <1>1, <2>1, PlaceKept
  <2> QED BY <1>1, <2>2, <2>3, OwnKeeps
<1> QED BY <1>3, <1>4

LEMMA LaunchKeeps ==
  ASSUME WebInv, NEW c \in Calls, Launch(c)
  PROVE  WebInv'
PROOF
<1>1. /\ pc[c] = "launching" /\ Free
      /\ context' = [context EXCEPT ![c] = "open"] /\ pc' = [pc EXCEPT ![c] = "page"]
      /\ abortable' = [abortable EXCEPT ![c] = abortable'[c]]
      /\ left' = [left EXCEPT ![c] = "nothing"]
      /\ UNCHANGED <<kind, mode, plan, answer, tried>>
  BY DEF Launch, Is, Go, Set, WebInv, WebFunctions
<1>2. Settled(c)
  BY DEF WebInv
<1>3. Own(c) /\ Settled(c)'
  BY <1>1, <1>2 DEF Own, WebInv, WebFunctions, Settled, Blamed
<1>4. kind[c] = "search" => InOrder(c)'
  BY <1>1, PlaceKept
<1> QED BY <1>1, <1>3, <1>4, OwnKeeps

LEMMA LaunchFailsKeeps ==
  ASSUME WebAssumption, WebInv, NEW c \in Calls, LaunchFails(c)
  PROVE  WebInv'
PROOF
<1>1. pc[c] = "launching" /\ GivesUp(c) /\ UNCHANGED <<kind, mode, context, left, abortable>>
  BY DEF LaunchFails, Is
<1>2. Settled(c) /\ pc[c] # "answered"
  BY <1>1 DEF WebInv
<1>3. Own(c) /\ pc'[c] \in {"fast", "answered"} /\ (kind[c] = "search" => InOrder(c)')
  BY <1>1, <1>2, GivesUpGives DEF Own, WebInv, WebFunctions
<1>4. Settled(c)'
  BY <1>1, <1>2, <1>3 DEF Settled, Blamed
<1> QED BY <1>1, <1>3, <1>4, OwnKeeps

\* newPage, close or a step that goes nowhere fails a call whose context stays
\* as it is.
LEMMA LeftKeeps ==
  ASSUME WebAssumption, WebInv, NEW c \in Calls, pc[c] \in {"page", "close"}, GivesUp(c),
         NEW what, what \in {"newPage", "close"} \/ (what = "step" /\ kind[c] = "flow"),
         LeftBy(c, what), UNCHANGED <<kind, mode, context>>,
         abortable' = abortable \/ abortable' = [abortable EXCEPT ![c] = FALSE]
  PROVE  WebInv'
PROOF
<1>1. left' = [left EXCEPT ![c] = IF context[c] = "open" THEN what ELSE left[c]]
  BY DEF LeftBy, Set
<1>2. Settled(c) /\ pc[c] # "answered" /\ DOMAIN left = Calls
  BY DEF WebInv, WebFunctions
<1>3. Own(c) /\ pc'[c] \in {"fast", "answered"} /\ (kind[c] = "search" => InOrder(c)')
  BY <1>1, <1>2, GivesUpGives DEF Own, WebInv, WebFunctions
<1>4. context'[c] = "open" => Blamed(c)'
  BY <1>1, <1>2 DEF Blamed
<1>5. Settled(c)'
  BY <1>2, <1>4 DEF Settled
<1> QED BY <1>3, <1>5, OwnKeeps

\* A page, a step of a flow, the end of the work: the call goes on with its
\* context as it is.
LEMMA OnwardKeeps ==
  ASSUME WebInv, NEW c \in Calls, pc[c] \in {"page", "work"},
         NEW p \in {"work", "close"}, pc' = [pc EXCEPT ![c] = p],
         UNCHANGED <<kind, mode, plan, context, tried, left>>,
         abortable' = abortable \/ abortable' = [abortable EXCEPT ![c] = TRUE],
         answer' = answer \/ answer' = [answer EXCEPT ![c] = "page"]
  PROVE  WebInv'
PROOF
<1>1. Settled(c) /\ pc[c] # "answered"
  BY DEF WebInv
<1>2. Own(c) /\ Settled(c)'
  BY <1>1 DEF Own, WebInv, WebFunctions, Settled, Blamed
<1>3. answer'[c] = "empty" => answer[c] = "empty"
  BY DEF WebInv, WebFunctions
<1>4. kind[c] = "search" => InOrder(c)'
  BY <1>1, <1>3, PlaceKept
<1> QED BY <1>2, <1>4, OwnKeeps

LEMMA CloseKeeps ==
  ASSUME WebAssumption, WebInv, NEW c \in Calls, Close(c)
  PROVE  WebInv'
PROOF
<1>1. /\ pc[c] = "close" /\ context' = [context EXCEPT ![c] = "closed"]
      /\ UNCHANGED <<kind, mode, left>>
      /\ abortable' = [abortable EXCEPT ![c] = FALSE]
  BY DEF Close, Is, Set
<1>2. Settled(c) /\ pc[c] # "answered" /\ DOMAIN context = Calls
  BY <1>1 DEF WebInv, WebFunctions
<1>3. Own(c) /\ pc'[c] \in {"fast", "answered"} /\ (kind[c] = "search" => InOrder(c)')
  <2>1. CASE kind[c] = "search"
    <3>1. PICK found \in BOOLEAN : Provided(c, found)
      BY <2>1 DEF Close
    <3> QED BY <1>1, <1>2, <2>1, <3>1, ProvidedGives DEF Own, WebInv, WebFunctions
  <2>2. CASE kind[c] # "search" /\ GivesUp(c)
    BY <1>1, <1>2, <2>2, GivesUpGives DEF Own, WebInv, WebFunctions
  <2>3. CASE kind[c] # "search" /\ ~GivesUp(c)
    <3>1. pc' = [pc EXCEPT ![c] = "answered"] /\ UNCHANGED <<plan, tried, answer>>
      BY <2>3 DEF Close, Go
    <3> QED BY <1>1, <2>3, <3>1 DEF Own, WebInv, WebFunctions
  <2> QED BY <2>1, <2>2, <2>3
<1>4. Settled(c)'
  BY <1>1, <1>2, <1>3 DEF Settled, Blamed
<1> QED BY <1>1, <1>2, <1>3, <1>4, OwnKeeps

\* A context that closes, or begins to.
LEMMA ClosingKeeps ==
  ASSUME WebInv, NEW c \in Calls, NEW how \in {"closing", "closed"},
         UNCHANGED <<kind, mode, pc, plan, answer, tried, left, abortable>>,
         context' = [context EXCEPT ![c] = how],
         abortable[c] \/ context[c] = "closing"
  PROVE  WebInv'
PROOF
<1>1. Settled(c) /\ DOMAIN context = Calls
  BY DEF WebInv, WebFunctions
<1>2. Own(c) /\ Settled(c)'
  BY <1>1 DEF Own, WebInv, WebFunctions, Settled, Blamed
<1>3. kind[c] = "search" => InOrder(c)'
  BY DEF WebInv, InOrder, TriedTo
<1> QED BY <1>2, <1>3, OwnKeeps

LEMMA AbortKeeps ==
  ASSUME WebInv, NEW c \in Calls, Abort(c)
  PROVE  WebInv'
PROOF
<1>1. UNCHANGED <<kind, mode, pc, plan, answer, tried, left, abortable>>
  BY DEF Abort
<1>2. CASE abortable[c] /\ context[c] = "open"
  <2>1. context' = [context EXCEPT ![c] = "closing"]
    BY <1>2 DEF Abort, Set
  <2> QED BY <1>1, <1>2, <2>1, ClosingKeeps
<1>3. CASE ~(abortable[c] /\ context[c] = "open")
  <2>1. context' = context
    BY <1>3 DEF Abort
  <2> QED BY <1>1, <2>1 DEF WebInv, WebFunctions, Settled, Blamed, InOrder, TriedTo
<1> QED BY <1>2, <1>3

LEMMA WebStep == WebAssumption /\ WebInv /\ [WebNext]_webVars => WebInv'
PROOF
<1> SUFFICES ASSUME WebAssumption, WebInv, [WebNext]_webVars PROVE WebInv'
  OBVIOUS
<1>1. ASSUME NEW c \in Calls, FastFetch(c) PROVE WebInv'
  BY <1>1, FastFetchKeeps
<1>2. ASSUME NEW c \in Calls, FastSearch(c) PROVE WebInv'
  BY <1>2, FastSearchKeeps
<1>3. ASSUME NEW c \in Calls, BeginLaunch(c) PROVE WebInv'
  BY <1>3, BeginLaunchKeeps
<1>4. ASSUME NEW c \in Calls, Launch(c) PROVE WebInv'
  BY <1>4, LaunchKeeps
<1>5. ASSUME NEW c \in Calls, LaunchFails(c) PROVE WebInv'
  BY <1>5, LaunchFailsKeeps
<1>6. ASSUME NEW c \in Calls, NewPage(c) PROVE WebInv'
  BY <1>6, OnwardKeeps DEF NewPage, Is, Go, Set
<1>7. ASSUME NEW c \in Calls, NewPageFails(c) PROVE WebInv'
  BY <1>7, LeftKeeps DEF NewPageFails, Is
<1>8. ASSUME NEW c \in Calls, RunStep(c) PROVE WebInv'
  <2>1. UNCHANGED <<kind, mode, pc, plan, context, abortable, answer, tried, left>>
    BY <1>8 DEF RunStep
  <2> QED BY <2>1 DEF WebInv, WebFunctions, Settled, Blamed, InOrder, TriedTo
<1>9. ASSUME NEW c \in Calls, Finish(c) PROVE WebInv'
  BY <1>9, OnwardKeeps DEF Finish, Is, Go, Say
<1>10. ASSUME NEW c \in Calls, WorkFails(c) PROVE WebInv'
  BY <1>10, OnwardKeeps DEF WorkFails, Is, Go
<1>11. ASSUME NEW c \in Calls, Close(c) PROVE WebInv'
  BY <1>11, CloseKeeps
<1>12. ASSUME NEW c \in Calls, Abort(c) PROVE WebInv'
  BY <1>12, AbortKeeps
<1>13. ASSUME NEW c \in Calls, StepRefused(c) PROVE WebInv'
  BY <1>13, LeftKeeps DEF StepRefused, Is
<1>14. ASSUME NEW c \in Calls, CloseFails(c) PROVE WebInv'
  BY <1>14, LeftKeeps DEF CloseFails, Is, Set
<1>15. ASSUME NEW c \in Calls, Closes(c) PROVE WebInv'
  BY <1>15, ClosingKeeps DEF Closes, Set
<1>16. CASE UNCHANGED webVars
  BY <1>16 DEF webVars, WebInv, WebFunctions, Settled, Blamed, InOrder, TriedTo
<1> QED BY <1>1, <1>2, <1>3, <1>4, <1>5, <1>6, <1>7, <1>8, <1>9, <1>10, <1>11,
          <1>12, <1>13, <1>14, <1>15, <1>16 DEF WebNext

LEMMA WebInvGivesBack ==
  ASSUME WebAssumption, WebInv
  PROVE  ContextsGivenBack
PROOF
<1>1. ASSUME NEW c \in Calls
      PROVE  /\ Is(c, "answered") /\ context[c] = "open" =>
                  left[c] \in IF kind[c] = "flow" THEN {"newPage", "close", "step"}
                              ELSE {"newPage", "close"}
             /\ kind[c] = "fetch" /\ mode[c] = "fast" => context[c] = "none"
  BY DEF WebInv, Settled, Blamed, Is
<1>2. ASSUME NEW c \in Calls, kind[c] = "search"
      PROVE  /\ answer[c] = "empty" => tried[c] = Range(ProviderPlan)
             /\ tried[c] = Range(SubSeq(ProviderPlan, 1, Cardinality(tried[c])))
  <2>1. ProviderPlan \in Seq(Known)
    BY PlanIsDistinct
  <2>2. PICK k \in 0 .. Len(ProviderPlan) : TriedTo(c, k)
    BY <1>2 DEF WebInv, InOrder
  <2>3. Cardinality(First(k)) = k /\ First(k) = Range(SubSeq(ProviderPlan, 1, k))
    BY FirstIs
  <2>4. SubSeq(ProviderPlan, 1, Len(ProviderPlan)) = ProviderPlan
    BY <2>1, SubSeqFull
  <2> QED BY <2>2, <2>3, <2>4 DEF TriedTo
<1> QED BY <1>1, <1>2 DEF ContextsGivenBack

(* For any calls, providers and steps: calls of the web package that fail, *)
(* are aborted and crowd one profile as they may (web/src/browser) leave   *)
(* no context open but when newPage or close rejects or a step of a flow   *)
(* goes to no http URL, and a search (search/index.ts) tries its providers *)
(* in order, all of them before it says that it found nothing.             *)
THEOREM ContextsTheorem ==
  ASSUME WebAssumption
  PROVE  WebSpec => []ContextsGivenBack
PROOF
<1>1. WebSpec => []WebInv
  BY WebInitial, WebStep, PTL DEF WebSpec
<1>2. WebInv => ContextsGivenBack
  BY WebInvGivesBack
<1> QED BY <1>1, <1>2, PTL

-----------------------------------------------------------------------------
(* The walk from a story.  The depth at which each key is queued is not    *)
(* kept by the program; some such assignment explains every queue.         *)
WalkTypes ==
  /\ queue \in Seq([key : Keys, depth : Nat])
  /\ queued \subseteq Keys /\ visited \subseteq Keys /\ issues \subseteq visited
  /\ seen \subseteq Pages
  /\ answers \in [Keys -> [references : SUBSET Keys, remote : SUBSET Keys]]

Met == Len(queue) + Cardinality(visited)

\* Each queued key is visited or in the queue, once.
QueuedOnce ==
  /\ \A k \in Keys :
       k \in queued <=> k \in visited \/ \E i \in DOMAIN queue : queue[i].key = k
  /\ \A i \in DOMAIN queue : queue[i].key \notin visited
  /\ \A i, j \in DOMAIN queue : queue[i].key = queue[j].key => i = j
  /\ Story \in queued
  /\ Met <= MaxJiraIssues
  /\ phase # "walk" => queue = <<>>

Counted ==
  /\ Cardinality(seen) <= MaxConfluencePages
  /\ visited \ issues \subseteq inaccessible
  /\ \A k \in Keys \ visited : answers[k] = [references |-> {}, remote |-> {}]

\* What the walk may go on to from a key that it met at depth d.
Targets(k, d) ==
  answers[k].remote \cup (IF d < MaxDepth THEN answers[k].references ELSE {})

\* The queue goes by depth, two depths at a time; no depth is passed by.
InRings(depth) ==
  /\ \A i \in DOMAIN queue : queue[i].depth = depth[queue[i].key]
  /\ \A i, j \in DOMAIN queue :
       i <= j => queue[i].depth <= queue[j].depth /\ queue[j].depth <= queue[i].depth + 1
  /\ \A k \in visited, i \in DOMAIN queue : depth[k] <= queue[i].depth
  /\ depth[Story] = 0
  /\ \A k \in queued : depth[k] < Met

\* A key was queued for an issue one step nearer ...
HasParent(depth) ==
  \A k \in queued \ {Story} :
    \E p \in visited : depth[k] = depth[p] + 1 /\ k \in Targets(p, depth[p])

\* ... and what an issue names is queued, unless the limit was met there.
FollowedOn(depth, p) ==
  \A t \in Targets(p, depth[p]) :
    \/ t \in queued /\ depth[t] <= depth[p] + 1
    \/ Met >= MaxJiraIssues /\ \A k \in queued : depth[k] <= depth[p] + 1

Leveled(depth) ==
  /\ depth \in [Keys -> Nat]
  /\ InRings(depth) /\ HasParent(depth)
  /\ \A p \in visited : FollowedOn(depth, p)

WalkInv ==
  /\ WalkTypes /\ QueuedOnce /\ Counted
  /\ \E depth : Leveled(depth)

-----------------------------------------------------------------------------
\* One step farther from what is at most d - 1 away.
Farther(near, d) ==
  near \cup (UNION {answers[k].remote : k \in near})
       \cup (IF d <= MaxDepth THEN UNION {answers[k].references : k \in near} ELSE {})

Rings(f, m) == f = [d \in 0 .. m |-> IF d = 0 THEN {Story} ELSE Farther(f[d - 1], d)]

LEMMA RingsExist ==
  ASSUME NEW m \in Nat
  PROVE  \E f : Rings(f, m)
PROOF
<1> DEFINE Bad == {n \in Nat : ~\E f : Rings(f, n)}
<1>1. SUFFICES ASSUME Bad # {} PROVE FALSE
  OBVIOUS
<1>2. PICK n \in Bad : \A k \in Bad : n <= k
  <2>1. Bad \in SUBSET Nat
    OBVIOUS
  <2> HIDE DEF Bad
  <2> QED BY <1>1, <2>1, LeastNatural
<1>3. CASE n = 0
  <2> DEFINE f == [k \in 0 .. 0 |-> {Story}]
  <2>1. Rings(f, 0)
    BY DEF Rings
  <2> QED BY <1>3, <2>1
<1>4. CASE n # 0
  <2>1. n \in Nat /\ n - 1 \in Nat /\ ~(n <= n - 1)
    BY <1>4
  <2>2. PICK f : Rings(f, n - 1)
    BY <1>2, <2>1
  <2> DEFINE g == [k \in 0 .. n |-> IF k = 0 THEN {Story} ELSE Farther(f[k - 1], k)]
  <2>3. ASSUME NEW k \in 0 .. n, k # 0 PROVE g[k - 1] = f[k - 1]
    <3>1. k - 1 \in 0 .. n - 1 /\ k - 1 \in 0 .. n
      BY <2>1, <2>3
    <3>2. f[k - 1] = IF k - 1 = 0 THEN {Story} ELSE Farther(f[(k - 1) - 1], k - 1)
      BY <2>2, <3>1 DEF Rings
    <3> QED BY <3>1, <3>2
  <2>4. Rings(g, n)
    BY <2>3 DEF Rings
  <2> QED BY <2>4
<1> QED BY <1>3, <1>4

LEMMA WithinRings ==
         /\ Cardinality(Keys) \in Nat /\ DOMAIN Within = 0 .. Cardinality(Keys)
         /\ Within[0] = {Story}
         /\ \A d \in 1 .. Cardinality(Keys) : Within[d] = Farther(Within[d - 1], d)
PROOF
<1>1. Cardinality(Keys) \in Nat
  BY FS_CardinalityType, WalkAssumption
<1>2. \E f : Rings(f, Cardinality(Keys))
  BY <1>1, RingsExist
<1>3. Rings(Within, Cardinality(Keys))
  BY <1>2 DEF Within, Rings, Farther
<1>4. 0 \in 0 .. Cardinality(Keys)
  BY <1>1
<1>5. \A d \in 1 .. Cardinality(Keys) : d \in 0 .. Cardinality(Keys) /\ d # 0
  BY <1>1
<1> QED BY <1>1, <1>3, <1>4, <1>5, Zenon DEF Rings

\* When the queue is empty.  What was met at depth d is at most d away, and
\* unless the limit was met before, it is all that is.
LEMMA MetIsWithin ==
  ASSUME WalkTypes, QueuedOnce, queue = <<>>, NEW depth, Leveled(depth)
  PROVE  \A d \in DOMAIN Within : \A k \in visited : depth[k] <= d => k \in Within[d]
PROOF
<1> DEFINE N == Cardinality(Keys)
           L(d) == {k \in visited : depth[k] <= d}
           Bad == {d \in 0 .. N : ~(L(d) \subseteq Within[d])}
<1>1. /\ N \in Nat /\ DOMAIN Within = 0 .. N /\ Within[0] = {Story}
      /\ \A d \in 1 .. N : Within[d] = Farther(Within[d - 1], d)
  BY WithinRings
<1>2. /\ visited = queued /\ Story \in visited /\ depth[Story] = 0
      /\ \A k \in visited : k \in Keys /\ depth[k] \in Nat
  <2>1. DOMAIN queue = {}
    OBVIOUS
  <2>2. visited = queued
    BY <2>1 DEF QueuedOnce, WalkTypes
  <2> QED BY <2>2 DEF QueuedOnce, WalkTypes, Leveled, InRings
<1>3. MaxDepth \in Nat
  BY WalkAssumption
<1> HIDE DEF N
<1>4. ASSUME NEW k \in visited, k # Story
      PROVE  \E p \in visited : depth[k] = depth[p] + 1 /\ k \in Targets(p, depth[p])
  BY <1>2, <1>4 DEF Leveled, HasParent
<1>5. Bad = {}
  <2> SUFFICES ASSUME Bad # {} PROVE FALSE
    OBVIOUS
  <2>1. PICK d \in Bad : \A e \in Bad : d <= e
    <3>1. Bad \in SUBSET Nat
      BY <1>1
    <3> HIDE DEF Bad
    <3> QED BY <3>1, LeastNatural
  <2>2. PICK k \in visited : depth[k] <= d /\ k \notin Within[d]
    BY <2>1
  <2>3. CASE d = 0
    <3>1. depth[k] = 0 /\ k # Story
      BY <1>1, <1>2, <2>2, <2>3
    <3>2. PICK p \in visited : depth[k] = depth[p] + 1
      BY <1>4, <3>1
    <3> QED BY <1>2, <3>1, <3>2
  <2>4. CASE d # 0
    <3>1. d \in 1 .. N /\ d - 1 \in 0 .. N /\ d - 1 \notin Bad /\ d \in Nat
      BY <1>1, <2>1, <2>4
    <3>2. L(d - 1) \subseteq Within[d - 1]
      BY <3>1
    <3>3. Within[d] = Farther(Within[d - 1], d)
      BY <1>1, <3>1
    <3>4. depth[k] = d /\ k # Story
      <4>1. ~(depth[k] <= d - 1)
        BY <2>2, <3>2, <3>3 DEF Farther
      <4> QED BY <1>2, <2>2, <3>1, <4>1
    <3>5. PICK p \in visited : depth[k] = depth[p] + 1 /\ k \in Targets(p, depth[p])
      BY <1>4, <3>4
    <3>6. depth[p] = d - 1
      BY <1>2, <3>1, <3>4, <3>5
    <3>7. p \in Within[d - 1]
      BY <3>1, <3>2, <3>6
    <3>8. d - 1 < MaxDepth => d <= MaxDepth
      BY <1>3, <3>1
    <3> QED BY <2>2, <3>3, <3>5, <3>6, <3>7, <3>8 DEF Targets, Farther
  <2> QED BY <2>3, <2>4
<1> QED BY <1>1, <1>5

LEMMA WithinIsMet ==
  ASSUME WalkTypes, QueuedOnce, queue = <<>>, NEW depth, Leveled(depth)
  PROVE  \A d \in DOMAIN Within :
           \/ \A k \in Within[d] : k \in visited /\ depth[k] <= d
           \/ Met >= MaxJiraIssues /\ \A k \in visited : depth[k] <= d
PROOF
<1> DEFINE N == Cardinality(Keys)
           All(d) == \A k \in Within[d] : k \in visited /\ depth[k] <= d
           Cut(d) == Met >= MaxJiraIssues /\ \A k \in visited : depth[k] <= d
           Bad == {d \in 0 .. N : ~(All(d) \/ Cut(d))}
<1>1. /\ N \in Nat /\ DOMAIN Within = 0 .. N /\ Within[0] = {Story}
      /\ \A d \in 1 .. N : Within[d] = Farther(Within[d - 1], d)
  BY WithinRings
<1>2. /\ visited = queued /\ Story \in visited /\ depth[Story] = 0
      /\ \A k \in visited : k \in Keys /\ depth[k] \in Nat
  <2>1. DOMAIN queue = {}
    OBVIOUS
  <2>2. visited = queued
    BY <2>1 DEF QueuedOnce, WalkTypes
  <2> QED BY <2>2 DEF QueuedOnce, WalkTypes, Leveled, InRings
<1>3. MaxDepth \in Nat
  BY WalkAssumption
<1>4. ASSUME NEW p \in visited, NEW t \in Targets(p, depth[p])
      PROVE  \/ t \in visited /\ depth[t] <= depth[p] + 1
             \/ Met >= MaxJiraIssues /\ \A k \in visited : depth[k] <= depth[p] + 1
  BY <1>2, <1>4 DEF Leveled, FollowedOn
<1> HIDE DEF N
<1>5. Bad = {}
  <2> SUFFICES ASSUME Bad # {} PROVE FALSE
    OBVIOUS
  <2>1. PICK d \in Bad : \A e \in Bad : d <= e
    <3>1. Bad \in SUBSET Nat
      BY <1>1
    <3> HIDE DEF Bad
    <3> QED BY <3>1, LeastNatural
  <2>2. CASE d = 0
    BY <1>1, <1>2, <2>1, <2>2
  <2>3. CASE d # 0
    <3>1. d \in 1 .. N /\ d - 1 \in 0 .. N /\ d - 1 \notin Bad /\ d \in Nat
      BY <1>1, <2>1, <2>3
    <3>2. \A k \in visited : depth[k] <= d - 1 => depth[k] <= d
      BY <1>2, <3>1
    <3>3. All(d - 1)
      <4>1. CASE Cut(d - 1)
        BY <2>1, <3>2, <4>1
      <4> QED BY <3>1, <4>1
    <3>4. PICK t \in Within[d] : ~(t \in visited /\ depth[t] <= d)
      BY <2>1
    <3>5. PICK p \in Within[d - 1] : \/ t \in answers[p].remote
                                     \/ d <= MaxDepth /\ t \in answers[p].references
      <4>1. Within[d] = Farther(Within[d - 1], d)
        BY <1>1, <3>1
      <4>2. t \notin Within[d - 1]
        BY <3>2, <3>3, <3>4
      <4> QED BY <3>4, <4>1, <4>2 DEF Farther
    <3>6. p \in visited /\ depth[p] \in Nat /\ depth[p] <= d - 1
      BY <1>2, <3>3
    <3>7. t \in Targets(p, depth[p])
      <4>1. d <= MaxDepth => depth[p] < MaxDepth
        BY <1>3, <3>1, <3>6
      <4> QED BY <3>5, <4>1 DEF Targets
    <3>8. \A k \in visited : depth[k] <= depth[p] + 1 => depth[k] <= d
      BY <1>2, <3>1, <3>6
    <3>9. Cut(d)
      BY <1>4, <3>4, <3>6, <3>7, <3>8
    <3> QED BY <2>1, <3>9
  <2> QED BY <2>2, <2>3
<1> QED BY <1>1, <1>5

LEMMA WithinIsKeys ==
  ASSUME WalkTypes
  PROVE  \A d \in DOMAIN Within : Within[d] \subseteq Keys
PROOF
<1> DEFINE N == Cardinality(Keys)
           Bad == {d \in 0 .. N : ~(Within[d] \subseteq Keys)}
<1>1. /\ N \in Nat /\ DOMAIN Within = 0 .. N /\ Within[0] = {Story} /\ Story \in Keys
      /\ \A d \in 1 .. N : Within[d] = Farther(Within[d - 1], d)
  BY WithinRings, WalkAssumption
<1>2. \A k \in Keys : answers[k].remote \subseteq Keys /\ answers[k].references \subseteq Keys
  BY DEF WalkTypes
<1> HIDE DEF N
<1>3. Bad = {}
  <2> SUFFICES ASSUME Bad # {} PROVE FALSE
    OBVIOUS
  <2>1. PICK d \in Bad : \A e \in Bad : d <= e
    <3>1. Bad \in SUBSET Nat
      BY <1>1
    <3> HIDE DEF Bad
    <3> QED BY <3>1, LeastNatural
  <2>2. d # 0
    BY <1>1, <2>1
  <2>3. d \in 1 .. N /\ d - 1 \in 0 .. N /\ d - 1 \notin Bad
    BY <1>1, <2>1, <2>2
  <2>4. Within[d - 1] \subseteq Keys /\ Within[d] = Farther(Within[d - 1], d)
    BY <1>1, <2>3
  <2>5. Within[d] \subseteq Keys
    BY <1>2, <2>4 DEF Farther
  <2> QED BY <2>1, <2>5
<1> QED BY <1>1, <1>3

LEMMA WalkInvImplies == WalkInv => WalkIsNearestFirst
PROOF
<1> SUFFICES ASSUME WalkInv, phase # "walk" PROVE WalkIsNearestFirst
  BY DEF WalkIsNearestFirst
<1> DEFINE N == Cardinality(Keys)
           all == Within[N]
<1>1. /\ N \in Nat /\ DOMAIN Within = 0 .. N
      /\ WalkTypes /\ QueuedOnce /\ Counted /\ queue = <<>>
  BY WithinRings DEF WalkInv, QueuedOnce
<1>2. PICK depth : Leveled(depth)
  BY DEF WalkInv
<1>3. \A d \in 0 .. N : \A k \in visited : depth[k] <= d => k \in Within[d]
  BY <1>1, <1>2, MetIsWithin
<1>4. \A d \in 0 .. N :
        \/ \A k \in Within[d] : k \in visited /\ depth[k] <= d
        \/ Met >= MaxJiraIssues /\ \A k \in visited : depth[k] <= d
  BY <1>1, <1>2, WithinIsMet
<1>5. /\ IsFiniteSet(visited) /\ Cardinality(visited) \in Nat /\ Cardinality(visited) <= N
      /\ Met = Cardinality(visited)
  <2>1. IsFiniteSet(visited) /\ Cardinality(visited) <= N
    BY <1>1, FS_Subset, WalkAssumption DEF WalkTypes
  <2>2. Cardinality(visited) \in Nat /\ Len(queue) = 0
    BY <1>1, <2>1, FS_CardinalityType
  <2> QED BY <2>1, <2>2 DEF Met
<1>6. \A k \in visited : depth[k] \in Nat /\ depth[k] <= N
  <2>1. \A k \in visited : k \in queued /\ k \in Keys
    BY <1>1 DEF WalkTypes, QueuedOnce
  <2>2. \A k \in visited : depth[k] \in Nat /\ depth[k] < Met
    BY <1>2, <2>1 DEF Leveled, InRings
  <2> HIDE DEF N
  <2> QED BY <1>1, <1>5, <2>2
<1>7. visited \subseteq all
  BY <1>1, <1>3, <1>6
<1>8. Cardinality(visited) <= MaxJiraIssues
  BY <1>1, <1>5 DEF QueuedOnce
<1>9. ASSUME Cardinality(all) <= MaxJiraIssues, ~(all \subseteq visited) PROVE FALSE
  <2>1. Met >= MaxJiraIssues
    BY <1>1, <1>4, <1>9
  <2>2. all \subseteq Keys
    BY <1>1, <1>2, WithinIsKeys
  <2>3. IsFiniteSet(all) /\ Cardinality(visited) <= Cardinality(all)
        /\ (Cardinality(visited) = Cardinality(all) => visited = all)
    <3>1. IsFiniteSet(all)
      BY <2>2, FS_Subset, WalkAssumption
    <3> HIDE DEF all
    <3> QED BY <1>7, <3>1, FS_Subset
  <2>4. Cardinality(all) \in Nat /\ MaxJiraIssues \in Nat
    BY <2>3, FS_CardinalityType, WalkAssumption
  <2> HIDE DEF all
  <2>5. Cardinality(visited) = Cardinality(all)
    BY <1>5, <1>9, <2>1, <2>3, <2>4
  <2> QED BY <1>9, <2>3, <2>5
<1>10. \A d \in 0 .. N : visited \subseteq Within[d] \/ Within[d] \subseteq visited
  BY <1>3, <1>4
<1>11. Cardinality(all) <= MaxJiraIssues => visited = all
  <2> HIDE DEF all
  <2> QED BY <1>7, <1>9
<1> QED BY <1>1, <1>7, <1>8, <1>10, <1>11 DEF WalkIsNearestFirst, Counted

-----------------------------------------------------------------------------
Entries == [key : Keys, depth : Nat]

\* What enqueueJira makes of a queue: it goes on with some of the keys, each
\* once, and with all of them that are new unless the limit is met.
Grown(from, to, keys, depth) ==
  /\ to.queue \in Seq(Entries) /\ to.queued \subseteq Keys
  /\ Len(from.queue) <= Len(to.queue)
  /\ \A i \in DOMAIN from.queue : to.queue[i] = from.queue[i]
  /\ \A i \in DOMAIN to.queue : i > Len(from.queue) =>
       /\ to.queue[i].depth = depth /\ to.queue[i].key \in keys
       /\ to.queue[i].key \notin from.queued /\ to.queue[i].key \notin visited
  /\ \A i, j \in DOMAIN to.queue :
       i > Len(from.queue) /\ j > Len(from.queue) /\ to.queue[i].key = to.queue[j].key
         => i = j
  /\ \A k \in Keys :
       k \in to.queued <=> \/ k \in from.queued
                           \/ \E i \in DOMAIN to.queue :
                                i > Len(from.queue) /\ to.queue[i].key = k
  /\ Len(to.queue) + Cardinality(visited) + 1 <= MaxJiraIssues
  /\ \A k \in keys : \/ k \in to.queued \/ k \in visited
                     \/ Len(to.queue) + Cardinality(visited) + 1 >= MaxJiraIssues

LEMMA EnqueueGrows ==
  ASSUME WalkTypes,
         NEW from, from.queue \in Seq(Entries), from.queued \subseteq Keys,
         Len(from.queue) + Cardinality(visited) + 1 <= MaxJiraIssues,
         NEW keys \in SUBSET Keys, NEW depth \in Nat,
         NEW to \in Enqueue(from, keys, depth)
  PROVE  Grown(from, to, keys, depth)
PROOF
<1> DEFINE new == keys \ (from.queued \cup visited)
           there == Len(from.queue) + Cardinality(visited) + 1
           room == Admitted(Cardinality(new), there, MaxJiraIssues)
<1>1. IsFiniteSet(new) /\ Cardinality(new) \in Nat
  <2>1. new \in SUBSET Keys
    OBVIOUS
  <2>2. IsFiniteSet(new)
    BY <2>1, FS_Subset, WalkAssumption
  <2> QED BY <2>2, FS_CardinalityType
<1>2. /\ there \in Nat /\ MaxJiraIssues \in Nat /\ Len(from.queue) \in Nat
      /\ Cardinality(visited) \in Nat
  <2>1. IsFiniteSet(visited)
    BY FS_Subset, WalkAssumption DEF WalkTypes
  <2>2. Cardinality(visited) \in Nat /\ MaxJiraIssues \in Nat
    BY <2>1, FS_CardinalityType, WalkAssumption
  <2> QED BY <2>2, LenProperties
<1>3. /\ room \in Nat /\ there + room <= MaxJiraIssues
      /\ room = Cardinality(new) \/ there + room >= MaxJiraIssues
  <2> HIDE DEF new
  <2>1. there <= MaxJiraIssues
    OBVIOUS
  <2> HIDE DEF there
  <2> QED BY <1>1, <1>2, <2>1 DEF Admitted
<1>4. PICK added \in Injection(1 .. room, new) :
        to = [queue |-> from.queue \o [i \in 1 .. room |-> [key |-> added[i], depth |-> depth]],
              queued |-> from.queued \cup Range(added)]
  BY DEF Enqueue
<1> HIDE DEF room
<1>5. /\ added \in [1 .. room -> new]
      /\ \A a, b \in 1 .. room : added[a] = added[b] => a = b
  BY <1>4 DEF Injection, IsInjective
<1> DEFINE list == [i \in 1 .. room |-> [key |-> added[i], depth |-> depth]]
           L == Len(from.queue)
<1>6. list \in Seq(Entries) /\ Len(list) = room
  <2>1. list \in [1 .. room -> Entries]
    BY <1>5 DEF Entries
  <2> HIDE DEF list
  <2>2. list \in Seq(Entries)
    BY <1>3, <2>1, SeqDef
  <2> QED BY <1>3, <2>1, <2>2, LenProperties
<1>7. /\ to.queue \in Seq(Entries) /\ Len(to.queue) = L + room
      /\ DOMAIN to.queue = 1 .. L + room
      /\ \A i \in 1 .. L + room : to.queue[i] = IF i <= L THEN from.queue[i] ELSE list[i - L]
  <2>1. to.queue = from.queue \o list
    BY <1>4
  <2> DEFINE q == from.queue
  <2>2. q \in Seq(Entries) /\ Len(q) = L
    OBVIOUS
  <2> HIDE DEF list, q, L
  <2>3. /\ q \o list \in Seq(Entries) /\ Len(q \o list) = L + room
        /\ \A i \in 1 .. L + room : (q \o list)[i] = IF i <= L THEN q[i] ELSE list[i - L]
    BY <1>6, <2>2, ConcatProperties
  <2>4. DOMAIN (q \o list) = 1 .. L + room
    BY <2>3, LenProperties
  <2> QED BY <2>1, <2>3, <2>4 DEF q
<1>8. \A i \in 1 .. L + room : i > L =>
        /\ i - L \in 1 .. room
        /\ to.queue[i].key = added[i - L] /\ to.queue[i].depth = depth
  <2>1. \A i \in 1 .. L + room : i > L => i - L \in 1 .. room /\ ~(i <= L)
    BY <1>2, <1>3
  <2>2. \A j \in 1 .. room : list[j].key = added[j] /\ list[j].depth = depth
    OBVIOUS
  <2> HIDE DEF list, L
  <2> QED BY <1>7, <2>1, <2>2
<1>9. \A j \in 1 .. room : j + L \in 1 .. L + room /\ j + L > L /\ (j + L) - L = j
  BY <1>2, <1>3
<1>10. \A k : k \in Range(added) <=>
          \E i \in DOMAIN to.queue : i > L /\ to.queue[i].key = k
  <2>1. \A k : k \in Range(added) <=> \E j \in 1 .. room : added[j] = k
    BY <1>5 DEF Range
  <2> HIDE DEF L
  <2> QED BY <1>7, <1>8, <1>9, <2>1
<1>11. to.queued = from.queued \cup Range(added) /\ Range(added) \subseteq new
  BY <1>4, <1>5 DEF Range
<1>12. \A k \in keys : k \in to.queued \/ k \in visited \/ there + room >= MaxJiraIssues
  <2>1. CASE room = Cardinality(new)
    <3>1. Cardinality(1 .. room) = room /\ IsFiniteSet(1 .. room)
      BY <1>3, FS_Interval
    <3>2. added \in Surjection(1 .. room, new)
      <4> HIDE DEF new
      <4> QED BY <1>1, <1>4, <2>1, <3>1, FS_Injection
    <3>3. Range(added) = new
      <4> HIDE DEF new
      <4> QED BY <3>2 DEF Surjection, Range
    <3> QED BY <1>11, <3>3
  <2> QED BY <1>3, <2>1
<1>13. Len(to.queue) + Cardinality(visited) + 1 = there + room
  BY <1>2, <1>3, <1>7
<1>14. \A i, j \in DOMAIN to.queue :
         i > L /\ j > L /\ to.queue[i].key = to.queue[j].key => i = j
  <2>1. ASSUME NEW i \in 1 .. L + room, NEW j \in 1 .. L + room, i > L, j > L,
               to.queue[i].key = to.queue[j].key
        PROVE  i = j
    <3>1. i - L = j - L
      BY <1>5, <1>8, <2>1
    <3> QED BY <1>2, <1>3, <3>1
  <2> HIDE DEF L
  <2> QED BY <1>7, <2>1
<1>15. \A i \in DOMAIN from.queue : to.queue[i] = from.queue[i]
  <2>1. \A i \in 1 .. L : i \in 1 .. L + room /\ i <= L
    BY <1>2, <1>3
  <2>2. DOMAIN from.queue = 1 .. L
    BY LenProperties
  <2> QED BY <1>7, <2>1, <2>2
<1>16. \A i \in DOMAIN to.queue : i > L =>
         /\ to.queue[i].depth = depth /\ to.queue[i].key \in keys
         /\ to.queue[i].key \notin from.queued /\ to.queue[i].key \notin visited
  <2>1. \A j \in 1 .. room : /\ added[j] \in keys
                             /\ added[j] \notin from.queued /\ added[j] \notin visited
    BY <1>5
  <2> HIDE DEF L
  <2> QED BY <1>7, <1>8, <2>1
<1>17. L <= Len(to.queue) /\ to.queued \subseteq Keys
  BY <1>2, <1>3, <1>7, <1>11
<1>18. \A k \in Keys :
         k \in to.queued <=> \/ k \in from.queued
                             \/ \E i \in DOMAIN to.queue : i > L /\ to.queue[i].key = k
  BY <1>10, <1>11
<1> HIDE DEF there
<1> QED BY <1>3, <1>7, <1>12, <1>13, <1>14, <1>15, <1>16, <1>17, <1>18 DEF Grown

LEMMA GrownAgain ==
  ASSUME WalkTypes, NEW a, NEW b, NEW c, a.queue \in Seq(Entries),
         NEW K \in SUBSET Keys, NEW M \in SUBSET Keys, NEW depth,
         Grown(a, b, K, depth), Grown(b, c, M, depth)
  PROVE  Grown(a, c, K \cup M, depth)
PROOF
<1>1. /\ Len(a.queue) \in Nat /\ DOMAIN a.queue = 1 .. Len(a.queue)
      /\ Len(b.queue) \in Nat /\ DOMAIN b.queue = 1 .. Len(b.queue)
      /\ Len(c.queue) \in Nat /\ DOMAIN c.queue = 1 .. Len(c.queue)
  BY LenProperties DEF Grown
<1>2. Cardinality(visited) \in Nat /\ MaxJiraIssues \in Nat
  BY FS_Subset, FS_CardinalityType, WalkAssumption DEF WalkTypes
<1>3. Len(a.queue) <= Len(b.queue) /\ Len(b.queue) <= Len(c.queue)
  BY DEF Grown
<1>4. \A i \in DOMAIN c.queue :
        \/ i > Len(b.queue) /\ i > Len(a.queue)
        \/ i \in DOMAIN b.queue /\ ~(i > Len(b.queue)) /\ c.queue[i] = b.queue[i]
  <2>1. \A i \in DOMAIN c.queue : \/ i > Len(b.queue) /\ i > Len(a.queue)
                                  \/ i \in DOMAIN b.queue /\ ~(i > Len(b.queue))
    BY <1>1, <1>3
  <2> QED BY <2>1 DEF Grown
<1>5. \A i \in DOMAIN b.queue : i \in DOMAIN c.queue /\ c.queue[i] = b.queue[i]
  <2>1. \A i \in DOMAIN b.queue : i \in DOMAIN c.queue
    BY <1>1, <1>3
  <2> QED BY <2>1 DEF Grown
<1>6. \A k \in Keys : k \in a.queued => k \in b.queued
  BY DEF Grown
<1>7. \A i \in DOMAIN b.queue : i > Len(a.queue) => b.queue[i].key \in b.queued
  BY DEF Grown
<1>8. \A i \in DOMAIN c.queue : c.queue[i].key \in Keys
  <2>1. \A i \in DOMAIN c.queue : c.queue[i] \in Entries
    BY <1>1, ElementOfSeq DEF Grown
  <2> QED BY <2>1 DEF Entries
<1>9. \A i \in DOMAIN c.queue : i > Len(a.queue) =>
        /\ c.queue[i].depth = depth /\ c.queue[i].key \in K \cup M
        /\ c.queue[i].key \notin a.queued /\ c.queue[i].key \notin visited
  BY <1>4, <1>6, <1>8 DEF Grown
<1>10. \A i, j \in DOMAIN c.queue :
         i > Len(a.queue) /\ j > Len(a.queue) /\ c.queue[i].key = c.queue[j].key => i = j
  BY <1>4, <1>7 DEF Grown
<1>11. \A k \in Keys :
         k \in c.queued <=> \/ k \in a.queued
                            \/ \E i \in DOMAIN c.queue :
                                 i > Len(a.queue) /\ c.queue[i].key = k
  <2>1. ASSUME NEW k \in Keys, k \in c.queued, k \notin a.queued
        PROVE  \E i \in DOMAIN c.queue : i > Len(a.queue) /\ c.queue[i].key = k
    <3>1. CASE k \in b.queued
      BY <1>5, <2>1, <3>1 DEF Grown
    <3>2. CASE k \notin b.queued
      BY <1>4, <2>1, <3>2 DEF Grown
    <3> QED BY <3>1, <3>2
  <2>2. ASSUME NEW k \in Keys, NEW i \in DOMAIN c.queue, i > Len(a.queue), c.queue[i].key = k
        PROVE  k \in c.queued
    BY <1>4, <2>2 DEF Grown
  <2>3. ASSUME NEW k \in Keys, k \in a.queued PROVE k \in c.queued
    BY <1>6, <2>3 DEF Grown
  <2> QED BY <2>1, <2>2, <2>3
<1>12. \A k \in K \cup M : \/ k \in c.queued \/ k \in visited
                           \/ Len(c.queue) + Cardinality(visited) + 1 >= MaxJiraIssues
  <2>1. Len(b.queue) + Cardinality(visited) + 1 >= MaxJiraIssues
          => Len(c.queue) + Cardinality(visited) + 1 >= MaxJiraIssues
    BY <1>1, <1>2, <1>3
  <2> QED BY <2>1 DEF Grown
<1>13. /\ c.queue \in Seq(Entries) /\ c.queued \subseteq Keys
       /\ Len(c.queue) + Cardinality(visited) + 1 <= MaxJiraIssues
       /\ Len(a.queue) <= Len(c.queue)
  BY <1>1, <1>3 DEF Grown
<1>14. \A i \in DOMAIN a.queue : c.queue[i] = a.queue[i]
  <2>1. \A i \in DOMAIN a.queue : i \in DOMAIN b.queue /\ b.queue[i] = a.queue[i]
    <3>1. \A i \in DOMAIN a.queue : i \in DOMAIN b.queue
      BY <1>1, <1>3
    <3> QED BY <3>1 DEF Grown
  <2> QED BY <1>5, <2>1
<1> QED BY <1>9, <1>10, <1>11, <1>12, <1>13, <1>14 DEF Grown

\* One issue is taken from the queue and the queue grows by what it names.
Taken(new, keys, told) ==
  LET first == Head(queue) IN
  /\ queue # <<>> /\ phase = "walk" /\ phase' = phase
  /\ keys \subseteq Keys
  /\ told \in [references : SUBSET Keys, remote : SUBSET Keys]
  /\ keys \ {first.key} =
       told.remote \cup (IF first.depth < MaxDepth THEN told.references ELSE {})
  /\ Grown([queue |-> Tail(queue), queued |-> queued], new, keys, first.depth + 1)
  /\ queue' = new.queue /\ queued' = new.queued
  /\ visited' = visited \cup {first.key}
  /\ answers' = [answers EXCEPT ![first.key] = told]

\* The first of the queue, and what is left of it.
LEMMA FirstOfQueue ==
  ASSUME WalkInv, NEW new, NEW keys, NEW told, Taken(new, keys, told)
  PROVE  /\ Head(queue) = queue[1] /\ 1 \in DOMAIN queue
         /\ queue[1].key \in Keys /\ queue[1].depth \in Nat
         /\ queue[1].key \in queued /\ queue[1].key \notin visited
         /\ Len(queue) \in Nat /\ Len(queue) >= 1 /\ DOMAIN queue = 1 .. Len(queue)
         /\ Tail(queue) \in Seq(Entries) /\ Len(Tail(queue)) = Len(queue) - 1
         /\ \A i \in 1 .. Len(queue) - 1 : Tail(queue)[i] = queue[i + 1]
PROOF
<1>1. queue \in Seq(Entries) /\ queue # <<>> /\ QueuedOnce
  BY DEF Taken, WalkInv, WalkTypes, Entries
<1>2. /\ Tail(queue) \in Seq(Entries) /\ Len(Tail(queue)) = Len(queue) - 1
      /\ \A i \in 1 .. Len(Tail(queue)) : Tail(queue)[i] = queue[i + 1]
      /\ Head(queue) \in Entries
  BY <1>1, HeadTailProperties
<1>3. Len(queue) \in Nat /\ DOMAIN queue = 1 .. Len(queue) /\ Len(queue) >= 1
  BY <1>1, LenProperties, EmptySeq
<1>4. Head(queue) = queue[1] /\ 1 \in DOMAIN queue
  BY <1>1, <1>3
<1>5. queue[1].key \in Keys /\ queue[1].depth \in Nat
  BY <1>2, <1>4 DEF Entries
<1>6. queue[1].key \in queued /\ queue[1].key \notin visited
  BY <1>1, <1>4, <1>5 DEF QueuedOnce
<1> QED BY <1>2, <1>3, <1>4, <1>5, <1>6

\* What the queue then is: the rest of it, and new keys at its end.
LEMMA QueueThen ==
  ASSUME WalkInv, NEW new, NEW keys, NEW told, Taken(new, keys, told)
  PROVE  LET first == queue[1]
             L == Len(queue) - 1
         IN
         /\ L \in Nat /\ queue' \in Seq(Entries) /\ queued' \subseteq Keys
         /\ Len(queue') \in Nat /\ L <= Len(queue') /\ DOMAIN queue' = 1 .. Len(queue')
         /\ \A i \in 1 .. L : i \in DOMAIN queue' /\ i + 1 \in DOMAIN queue
                              /\ queue'[i] = queue[i + 1]
         /\ \A i \in DOMAIN queue : i = 1 \/ i - 1 \in 1 .. L
         /\ \A i \in DOMAIN queue' : queue'[i].key \in Keys
         /\ \A i \in DOMAIN queue' :
              \/ i \in 1 .. L
              \/ i > L /\ queue'[i].depth = first.depth + 1
                 /\ queue'[i].key \in keys
                 /\ queue'[i].key \notin queued /\ queue'[i].key \notin visited
         /\ \A i, j \in DOMAIN queue' :
              i > L /\ j > L /\ queue'[i].key = queue'[j].key => i = j
         /\ \A k \in Keys :
              k \in queued' <=> k \in queued
                                \/ \E i \in DOMAIN queue' : i > L /\ queue'[i].key = k
         /\ Cardinality(visited) \in Nat
         /\ Cardinality(visited') = Cardinality(visited) + 1
         /\ Met' <= MaxJiraIssues /\ Met <= Met' /\ Met' \in Nat /\ Met \in Nat
         /\ Met' = Len(queue') + Cardinality(visited) + 1
         /\ Met = L + Cardinality(visited) + 1
         /\ \A k \in keys : k \in queued' \/ k \in visited \/ Met' >= MaxJiraIssues
PROOF
<1> DEFINE L == Len(queue) - 1
           from == [queue |-> Tail(queue), queued |-> queued]
<1>1. /\ Head(queue) = queue[1] /\ 1 \in DOMAIN queue
      /\ queue[1].key \in Keys /\ queue[1].key \notin visited
      /\ Len(queue) \in Nat /\ Len(queue) >= 1 /\ DOMAIN queue = 1 .. Len(queue)
      /\ Tail(queue) \in Seq(Entries) /\ Len(Tail(queue)) = Len(queue) - 1
      /\ \A i \in 1 .. Len(queue) - 1 : Tail(queue)[i] = queue[i + 1]
  BY FirstOfQueue
<1>2. /\ Grown(from, new, keys, queue[1].depth + 1)
      /\ queue' = new.queue /\ queued' = new.queued
      /\ visited' = visited \cup {queue[1].key}
  BY <1>1 DEF Taken
<1>3. from.queue = Tail(queue) /\ from.queued = queued /\ Len(from.queue) = L
      /\ DOMAIN from.queue = 1 .. L
  <2>1. from.queue = Tail(queue) /\ from.queued = queued
    OBVIOUS
  <2> QED BY <1>1, <2>1, LenProperties
<1>4. IsFiniteSet(visited) /\ Cardinality(visited) \in Nat
  <2>1. IsFiniteSet(visited)
    BY FS_Subset, WalkAssumption DEF WalkInv, WalkTypes
  <2> QED BY <2>1, FS_CardinalityType
<1>5. Cardinality(visited') = Cardinality(visited) + 1
  BY <1>1, <1>2, <1>4, FS_AddElement
<1> HIDE DEF from
<1>6. L \in Nat /\ \A i \in DOMAIN queue : i = 1 \/ i - 1 \in 1 .. L
  BY <1>1
<1>7. /\ queue' \in Seq(Entries) /\ queued' \subseteq Keys /\ L <= Len(queue')
      /\ \A i \in 1 .. L : queue'[i] = Tail(queue)[i]
  BY <1>2, <1>3, Zenon DEF Grown
<1>8. Len(queue') \in Nat /\ DOMAIN queue' = 1 .. Len(queue')
  BY <1>7, LenProperties
<1>9. \A i \in 1 .. L : i \in DOMAIN queue' /\ i + 1 \in DOMAIN queue
                        /\ queue'[i] = queue[i + 1]
  <2>1. \A i \in 1 .. L : i \in DOMAIN queue' /\ i + 1 \in DOMAIN queue
    BY <1>1, <1>6, <1>7, <1>8
  <2> QED BY <1>1, <1>7, <2>1
<1>10. \A i \in DOMAIN queue' : queue'[i].key \in Keys
  <2>1. \A i \in DOMAIN queue' : queue'[i] \in Entries
    BY <1>7, <1>8, ElementOfSeq
  <2> QED BY <2>1 DEF Entries
<1>11. \A i \in DOMAIN queue' : i > L =>
         /\ queue'[i].depth = queue[1].depth + 1
         /\ queue'[i].key \in keys
         /\ queue'[i].key \notin queued /\ queue'[i].key \notin visited
  BY <1>2, <1>3 DEF Grown
<1>12. \A i \in DOMAIN queue' : i \in 1 .. L \/ i > L
  BY <1>6, <1>8
<1>13. \A i, j \in DOMAIN queue' :
         i > L /\ j > L /\ queue'[i].key = queue'[j].key => i = j
  BY <1>2, <1>3 DEF Grown
<1>14. \A k \in Keys :
         k \in queued' <=> k \in queued
                           \/ \E i \in DOMAIN queue' : i > L /\ queue'[i].key = k
  BY <1>2, <1>3 DEF Grown
<1>15. /\ Len(queue') + Cardinality(visited) + 1 <= MaxJiraIssues
       /\ \A k \in keys : \/ k \in queued' \/ k \in visited
                          \/ Len(queue') + Cardinality(visited) + 1 >= MaxJiraIssues
  BY <1>2 DEF Grown
<1>16. Met' = Len(queue') + Cardinality(visited) + 1 /\ Met = L + Cardinality(visited) + 1
  <2>1. Len(queue) = L + 1 /\ Len(queue') \in Nat
    BY <1>1, <1>8
  <2> HIDE DEF L
  <2> QED BY <1>4, <1>5, <1>6, <2>1 DEF Met
<1>17. Met <= Met' /\ Met' \in Nat /\ Met \in Nat
  <2> HIDE DEF L
  <2> QED BY <1>4, <1>6, <1>7, <1>8, <1>16
<1> HIDE DEF L
<1>18. \A i \in DOMAIN queue' :
         \/ i \in 1 .. L
         \/ i > L /\ queue'[i].depth = queue[1].depth + 1
            /\ queue'[i].key \in keys
            /\ queue'[i].key \notin queued /\ queue'[i].key \notin visited
  BY <1>11, <1>12
<1>19. Met' <= MaxJiraIssues
       /\ \A k \in keys : k \in queued' \/ k \in visited \/ Met' >= MaxJiraIssues
  BY <1>15, <1>16
<1> QED BY <1>4, <1>5, <1>6, <1>7, <1>8, <1>9, <1>10, <1>13, <1>14, <1>16, <1>17, <1>18, <1>19 DEF L

LEMMA TakenKeepsQueued ==
  ASSUME WalkInv, NEW new, NEW keys, NEW told, Taken(new, keys, told)
  PROVE  QueuedOnce'
PROOF
<1> DEFINE first == queue[1]
           L == Len(queue) - 1
<1>1. /\ \A k \in Keys :
           k \in queued <=> k \in visited \/ \E i \in DOMAIN queue : queue[i].key = k
      /\ \A i \in DOMAIN queue : queue[i].key \notin visited
      /\ \A i, j \in DOMAIN queue : queue[i].key = queue[j].key => i = j
      /\ Story \in queued /\ Story \in Keys
  BY WalkAssumption DEF WalkInv, QueuedOnce
<1>2. /\ 1 \in DOMAIN queue /\ first.key \in Keys
      /\ first.key \in queued /\ first.key \notin visited
      /\ visited' = visited \cup {first.key} /\ phase' = "walk"
  BY FirstOfQueue DEF Taken
<1>3. /\ L \in Nat /\ DOMAIN queue' = 1 .. Len(queue')
      /\ \A i \in 1 .. L : i \in DOMAIN queue' /\ i + 1 \in DOMAIN queue
                           /\ queue'[i] = queue[i + 1]
      /\ \A i \in DOMAIN queue : i = 1 \/ i - 1 \in 1 .. L
      /\ \A i \in DOMAIN queue' : queue'[i].key \in Keys
  BY QueueThen
<1>4. \A i \in DOMAIN queue' :
        \/ i \in 1 .. L
        \/ i > L /\ queue'[i].key \notin queued /\ queue'[i].key \notin visited
  BY QueueThen
<1>5. \A i, j \in DOMAIN queue' : i > L /\ j > L /\ queue'[i].key = queue'[j].key => i = j
  BY QueueThen
<1>6. \A k \in Keys :
        k \in queued' <=> k \in queued \/ \E i \in DOMAIN queue' : i > L /\ queue'[i].key = k
  BY QueueThen
<1>7. Met' <= MaxJiraIssues
  BY QueueThen
<1> HIDE DEF L
<1>8. \A i \in DOMAIN queue : i = 1 \/ \E j \in 1 .. L : queue[i] = queue'[j]
  <2>1. ASSUME NEW i \in DOMAIN queue, i # 1 PROVE queue[i] = queue'[i - 1] /\ i - 1 \in 1 .. L
    <3>1. i - 1 \in 1 .. L /\ i \in 1 .. Len(queue)
      BY <1>3, <2>1, FirstOfQueue
    <3>2. (i - 1) + 1 = i
      BY <3>1, FirstOfQueue
    <3> QED BY <1>3, <3>1, <3>2
  <2> QED BY <2>1
<1>9. \A i \in 1 .. L : queue'[i].key \in queued /\ queue'[i].key \notin visited
                        /\ queue'[i].key # first.key
  <2>1. ASSUME NEW i \in 1 .. L PROVE i + 1 # 1
    BY <1>3
  <2>2. \A i \in DOMAIN queue : queue[i].key \in Keys
    <3>1. \A i \in DOMAIN queue : i = 1 \/ \E j \in 1 .. L : j \in DOMAIN queue'
                                                        /\ queue[i] = queue'[j]
      BY <1>3, <1>8
    <3> QED BY <1>2, <1>3, <3>1
  <2>3. \A i \in DOMAIN queue : i # 1 => /\ queue[i].key \in queued /\ queue[i].key \notin visited
                                          /\ queue[i].key # first.key
    <3>1. \A i \in DOMAIN queue : queue[i].key \in queued
      BY <1>1, <2>2
    <3> QED BY <1>1, <1>2, <3>1
  <2> QED BY <1>3, <2>1, <2>3
<1>10. ASSUME NEW k \in Keys
       PROVE  k \in queued' <=> k \in visited' \/ \E i \in DOMAIN queue' : queue'[i].key = k
  <2>1. ASSUME k \in queued PROVE k \in visited' \/ \E i \in DOMAIN queue' : queue'[i].key = k
    BY <1>1, <1>2, <1>3, <1>8, <2>1
  <2>2. ASSUME k \in visited' PROVE k \in queued
    BY <1>1, <1>2, <2>2
  <2>3. ASSUME NEW i \in DOMAIN queue', queue'[i].key = k PROVE k \in queued'
    BY <1>4, <1>6, <1>9, <2>3
  <2> QED BY <1>6, <2>1, <2>2, <2>3
<1>11. \A i \in DOMAIN queue' : queue'[i].key \notin visited'
  BY <1>2, <1>4, <1>9
<1>12. ASSUME NEW i \in DOMAIN queue', NEW j \in DOMAIN queue', queue'[i].key = queue'[j].key
       PROVE  i = j
  <2>1. CASE i \in 1 .. L /\ j \in 1 .. L
    <3>1. i + 1 = j + 1
      BY <1>1, <1>3, <1>12, <2>1
    <3> QED BY <2>1, <3>1
  <2>2. CASE i > L /\ j > L
    BY <1>5, <1>12, <2>2
  <2> QED BY <1>4, <1>9, <1>12, <2>1, <2>2
<1>13. Story \in queued'
  BY <1>1, <1>6
<1> QED BY <1>2, <1>7, <1>10, <1>11, <1>12, <1>13 DEF QueuedOnce

\* The new keys are one step farther than the one that named them.
Deepened(depth, first) == [k \in Keys |-> IF k \in queued THEN depth[k] ELSE first.depth + 1]

LEMMA TakenKeepsRings ==
  ASSUME WalkInv, NEW new, NEW keys, NEW told, Taken(new, keys, told),
         NEW depth, Leveled(depth), NEW then, then = Deepened(depth, queue[1])
  PROVE  InRings(then)'
PROOF
<1> DEFINE first == queue[1]
           L == Len(queue) - 1
<1>1. /\ \A i \in DOMAIN queue : queue[i].depth = depth[queue[i].key]
      /\ \A i, j \in DOMAIN queue :
           i <= j => queue[i].depth <= queue[j].depth /\ queue[j].depth <= queue[i].depth + 1
      /\ \A k \in visited, i \in DOMAIN queue : depth[k] <= queue[i].depth
      /\ depth[Story] = 0
      /\ \A k \in queued : depth[k] < Met
      /\ depth \in [Keys -> Nat]
  BY DEF Leveled, InRings
<1>2. /\ 1 \in DOMAIN queue /\ first.key \in Keys /\ first.depth \in Nat
      /\ first.key \in queued /\ first.key \notin visited
      /\ visited' = visited \cup {first.key} /\ DOMAIN queue = 1 .. Len(queue)
  BY FirstOfQueue DEF Taken
<1>3. /\ L \in Nat /\ DOMAIN queue' = 1 .. Len(queue') /\ Len(queue') \in Nat
      /\ \A i \in 1 .. L : i \in DOMAIN queue' /\ i + 1 \in DOMAIN queue
                           /\ queue'[i] = queue[i + 1]
      /\ \A i \in DOMAIN queue' : queue'[i].key \in Keys
  BY QueueThen
<1>4. \A i \in DOMAIN queue' :
        \/ i \in 1 .. L
        \/ i > L /\ queue'[i].depth = first.depth + 1 /\ queue'[i].key \notin queued
  BY QueueThen
<1>5. \A k \in Keys :
        k \in queued' <=> k \in queued \/ \E i \in DOMAIN queue' : i > L /\ queue'[i].key = k
  BY QueueThen
<1>6. /\ Met <= Met' /\ Met' \in Nat /\ Met \in Nat /\ queued' \subseteq Keys
      /\ (Len(queue') > L => Met < Met')
  <2>1. /\ Met' = Len(queue') + Cardinality(visited) + 1
        /\ Met = L + Cardinality(visited) + 1 /\ Cardinality(visited) \in Nat
        /\ Met <= Met' /\ Met' \in Nat /\ Met \in Nat /\ queued' \subseteq Keys
    BY QueueThen
  <2> HIDE DEF L
  <2> QED BY <1>3, <2>1
<1>7. /\ visited \subseteq queued /\ queued \subseteq Keys /\ Story \in queued
      /\ \A i \in DOMAIN queue : queue[i].key \in queued /\ queue[i].depth \in Nat
  <2>1. /\ \A k \in Keys :
             k \in queued <=> k \in visited \/ \E i \in DOMAIN queue : queue[i].key = k
        /\ Story \in queued /\ visited \subseteq Keys /\ queued \subseteq Keys
    BY DEF WalkInv, QueuedOnce, WalkTypes
  <2>2. \A i \in DOMAIN queue : queue[i].key \in Keys /\ queue[i].depth \in Nat
    <3>1. \A i \in DOMAIN queue : queue[i] \in [key : Keys, depth : Nat]
      BY <1>2, ElementOfSeq DEF WalkInv, WalkTypes
    <3> QED BY <3>1
  <2> QED BY <2>1, <2>2
<1> HIDE DEF L
<1>8. /\ \A k \in queued : then[k] = depth[k]
      /\ \A k \in Keys \ queued : then[k] = first.depth + 1
  BY <1>7 DEF Deepened
<1>9. \A i \in 1 .. L : /\ queue'[i].key \in queued /\ queue'[i].depth \in Nat
                        /\ queue'[i].depth = then[queue'[i].key]
                        /\ first.depth <= queue'[i].depth
                        /\ queue'[i].depth <= first.depth + 1
  <2>1. ASSUME NEW i \in DOMAIN queue
        PROVE  /\ queue[i].key \in queued /\ queue[i].depth \in Nat
               /\ queue[i].depth = then[queue[i].key]
               /\ first.depth <= queue[i].depth
               /\ queue[i].depth <= first.depth + 1
    <3>1. 1 <= i
      BY <1>2
    <3> QED BY <1>1, <1>2, <1>7, <1>8, <3>1
  <2> QED BY <1>3, <2>1
<1>10. \A i \in DOMAIN queue' : queue'[i].depth = then[queue'[i].key]
  BY <1>3, <1>4, <1>8, <1>9
<1>11. ASSUME NEW i \in DOMAIN queue', NEW j \in DOMAIN queue', i <= j
       PROVE  queue'[i].depth <= queue'[j].depth /\ queue'[j].depth <= queue'[i].depth + 1
  <2>1. CASE i \in 1 .. L /\ j \in 1 .. L
    <3>1. i + 1 <= j + 1
      BY <1>11, <2>1
    <3> QED BY <1>1, <1>3, <2>1, <3>1
  <2>2. CASE i \in 1 .. L /\ j > L /\ queue'[j].depth = first.depth + 1
    BY <1>2, <1>9, <2>2
  <2>3. CASE i > L /\ queue'[i].depth = first.depth + 1
    <3>1. j > L /\ ~(j \in 1 .. L)
      BY <1>3, <1>11, <2>3
    <3>2. queue'[j].depth = first.depth + 1
      BY <1>4, <3>1
    <3> QED BY <1>2, <2>3, <3>2
  <2> QED BY <1>4, <2>1, <2>2, <2>3
<1>12. \A i \in DOMAIN queue' : first.depth <= queue'[i].depth /\ queue'[i].depth \in Nat
  BY <1>2, <1>4, <1>9
<1>13. \A k \in visited' : then[k] \in Nat /\ then[k] <= first.depth
  <2>1. \A k \in visited' : k \in queued /\ k \in Keys /\ depth[k] <= first.depth
    <3>1. depth[first.key] = first.depth
      BY <1>1, <1>2
    <3> QED BY <1>1, <1>2, <1>7, <3>1
  <2> QED BY <1>1, <1>8, <2>1
<1>14. \A k \in visited', i \in DOMAIN queue' : then[k] <= queue'[i].depth
  <2>1. ASSUME NEW k \in visited', NEW i \in DOMAIN queue' PROVE then[k] <= queue'[i].depth
    BY <1>2, <1>12, <1>13
  <2> QED BY <2>1
<1>15. ASSUME NEW k \in queued' PROVE then[k] < Met'
  <2>1. CASE k \in queued
    <3>1. then[k] = depth[k] /\ depth[k] < Met /\ depth[k] \in Nat
      BY <1>1, <1>7, <1>8, <2>1
    <3> QED BY <1>6, <3>1
  <2>2. CASE k \notin queued
    <3>1. k \in Keys /\ then[k] = first.depth + 1
      BY <1>6, <1>8, <1>15, <2>2
    <3>2. PICK i \in DOMAIN queue' : i > L
      BY <1>5, <1>15, <2>2, <3>1
    <3>3. Len(queue') > L
      BY <1>3, <3>2
    <3>4. first.depth < Met
      BY <1>1, <1>2
    <3> QED BY <1>2, <1>6, <3>1, <3>3, <3>4
  <2> QED BY <2>1, <2>2
<1>16. then[Story] = 0
  BY <1>1, <1>7, <1>8
<1> QED BY <1>10, <1>11, <1>14, <1>15, <1>16 DEF InRings

LEMMA TakenKeepsParents ==
  ASSUME WalkInv, NEW new, NEW keys, NEW told, Taken(new, keys, told),
         NEW depth, Leveled(depth), NEW then, then = Deepened(depth, queue[1])
  PROVE  HasParent(then)' /\ \A p \in visited' : FollowedOn(then, p)'
PROOF
<1> DEFINE L == Len(queue) - 1
<1>0. PICK first : first = queue[1]
  OBVIOUS
<1>1. /\ depth \in [Keys -> Nat]
      /\ \A k \in queued \ {Story} :
           \E p \in visited : depth[k] = depth[p] + 1 /\ k \in Targets(p, depth[p])
      /\ \A p \in visited : FollowedOn(depth, p)
  BY DEF Leveled, HasParent
<1>2. /\ first.key \in Keys /\ first.key \in queued /\ first.key \notin visited
      /\ visited' = visited \cup {first.key} /\ first.depth \in Nat
      /\ keys \subseteq Keys
      /\ told \in [references : SUBSET Keys, remote : SUBSET Keys]
      /\ keys \ {first.key} =
           told.remote \cup (IF first.depth < MaxDepth THEN told.references ELSE {})
      /\ answers' = [answers EXCEPT ![first.key] = told]
  BY <1>0, FirstOfQueue DEF Taken
<1>3. /\ visited \subseteq queued /\ queued \subseteq Keys
      /\ answers \in [Keys -> [references : SUBSET Keys, remote : SUBSET Keys]]
  <2>1. /\ \A k \in Keys :
             k \in queued <=> k \in visited \/ \E i \in DOMAIN queue : queue[i].key = k
        /\ visited \subseteq Keys /\ queued \subseteq Keys
        /\ answers \in [Keys -> [references : SUBSET Keys, remote : SUBSET Keys]]
    BY DEF WalkInv, QueuedOnce, WalkTypes
  <2> QED BY <2>1
<1>4. /\ \A k \in queued : then[k] = depth[k]
      /\ \A k \in Keys \ queued : then[k] = first.depth + 1
      /\ first.depth = depth[first.key]
  <2>1. first.depth = depth[first.key]
    BY <1>0, FirstOfQueue DEF Leveled, InRings
  <2> QED BY <1>0, <1>3, <2>1 DEF Deepened
<1>5. /\ \A k \in Keys :
           k \in queued' <=> k \in queued \/ \E i \in DOMAIN queue' : i > L /\ queue'[i].key = k
      /\ queued' \subseteq Keys
  BY QueueThen
<1>6. \A i \in DOMAIN queue' : i > L => queue'[i].key \in keys
  <2>1. \A i \in DOMAIN queue' : i \in 1 .. L \/ queue'[i].key \in keys
    BY QueueThen
  <2>2. \A i \in 1 .. L : ~(i > L)
    BY QueueThen
  <2> HIDE DEF L
  <2> QED BY <2>1, <2>2
<1>7. \A p \in visited : Targets(p, depth[p])' = Targets(p, depth[p])
  BY <1>2, <1>3 DEF Targets
<1>8. Targets(first.key, first.depth)' = keys \ {first.key}
  <2>1. answers'[first.key] = told
    BY <1>2, <1>3
  <2> QED BY <1>2, <2>1 DEF Targets
<1>9. \A k \in queued : depth[k] <= first.depth + 1 /\ depth[k] \in Nat
  <2>1. \A k \in visited : depth[k] <= first.depth
    BY <1>0, FirstOfQueue DEF Leveled, InRings
  <2>2. \A i \in DOMAIN queue : queue[i].depth <= first.depth + 1
    <3>1. \A i \in DOMAIN queue : 1 <= i
      BY FirstOfQueue
    <3> QED BY <1>0, <3>1, FirstOfQueue DEF Leveled, InRings
  <2>3. \A i \in DOMAIN queue : queue[i].depth = depth[queue[i].key]
    BY DEF Leveled, InRings
  <2>4. \A k \in queued : k \in visited \/ \E i \in DOMAIN queue : queue[i].key = k
    BY <1>3 DEF WalkInv, QueuedOnce
  <2> QED BY <1>1, <1>2, <1>3, <2>1, <2>2, <2>3, <2>4
<1> HIDE DEF L
<1>10. ASSUME NEW k \in queued' \ {Story}
       PROVE  \E p \in visited' : then[k] = then[p] + 1 /\ k \in Targets(p, then[p])'
  <2>1. CASE k \in queued
    <3>1. PICK p \in visited : depth[k] = depth[p] + 1 /\ k \in Targets(p, depth[p])
      BY <1>1, <1>10, <2>1
    <3>2. then[p] = depth[p] /\ then[k] = depth[k] /\ p \in visited'
      BY <1>2, <1>3, <1>4, <2>1
    <3> QED BY <1>7, <3>1, <3>2
  <2>2. CASE k \notin queued
    <3>1. k \in Keys /\ k \in keys /\ k # first.key
      BY <1>2, <1>5, <1>6, <1>10, <2>2
    <3>2. then[k] = first.depth + 1 /\ then[first.key] = first.depth
      BY <1>2, <1>4, <2>2, <3>1
    <3>3. k \in Targets(first.key, then[first.key])'
      BY <1>8, <3>1, <3>2
    <3> QED BY <1>2, <3>2, <3>3
  <2> QED BY <2>1, <2>2
<1>11. /\ Met <= Met' /\ Met' <= MaxJiraIssues /\ Met' \in Nat /\ Met \in Nat
       /\ MaxJiraIssues \in Nat
  BY QueueThen, WalkAssumption
<1>12. Met >= MaxJiraIssues => queued' \subseteq queued
  <2>1. /\ Met' = Len(queue') + Cardinality(visited) + 1
        /\ Met = L + Cardinality(visited) + 1 /\ Cardinality(visited) \in Nat
        /\ DOMAIN queue' = 1 .. Len(queue') /\ Len(queue') \in Nat /\ L \in Nat
    BY QueueThen DEF L
  <2>2. Met >= MaxJiraIssues => Len(queue') = L
    <3>1. Met >= MaxJiraIssues => Met' = Met
      BY <1>11
    <3>2. Met' = Met => Len(queue') + Cardinality(visited) + 1 = L + Cardinality(visited) + 1
      BY <2>1, Zenon
    <3>3. Len(queue') \in Nat /\ L \in Nat /\ Cardinality(visited) \in Nat
      BY <2>1
    <3>4. Len(queue') + Cardinality(visited) + 1 = L + Cardinality(visited) + 1
            => Len(queue') = L
      BY <3>3
    <3> QED BY <3>1, <3>2, <3>4
  <2>3. Len(queue') = L => \A i \in DOMAIN queue' : ~(i > L)
    BY <2>1
  <2> QED BY <1>5, <2>2, <2>3
<1>13. ASSUME NEW p \in visited PROVE FollowedOn(then, p)'
  <2>1. then[p] = depth[p] /\ Targets(p, then[p])' = Targets(p, depth[p])
    BY <1>3, <1>4, <1>7
  <2> SUFFICES ASSUME NEW t \in Targets(p, depth[p])
               PROVE  \/ t \in queued' /\ then[t] <= then[p] + 1
                      \/ Met' >= MaxJiraIssues /\ \A k \in queued' : then[k] <= then[p] + 1
    BY <2>1 DEF FollowedOn
  <2>2. CASE t \in queued /\ depth[t] <= depth[p] + 1
    BY <1>3, <1>4, <1>5, <2>1, <2>2
  <2>3. CASE Met >= MaxJiraIssues /\ \A k \in queued : depth[k] <= depth[p] + 1
    <3>1. \A k \in queued' : then[k] <= then[p] + 1
      BY <1>4, <1>12, <2>1, <2>3
    <3> QED BY <1>11, <2>3, <3>1
  <2> QED BY <1>1, <2>2, <2>3 DEF FollowedOn
<1>14. FollowedOn(then, first.key)'
  <2>1. then[first.key] = first.depth
    BY <1>2, <1>4
  <2>2. \A k \in queued' : then[k] <= first.depth + 1
    <3>1. \A k \in queued' : k \in queued \/ then[k] = first.depth + 1
      BY <1>4, <1>5
    <3> QED BY <1>2, <1>4, <1>9, <3>1
  <2> SUFFICES ASSUME NEW t \in keys \ {first.key}
               PROVE  \/ t \in queued' /\ then[t] <= first.depth + 1
                      \/ Met' >= MaxJiraIssues /\ \A k \in queued' : then[k] <= first.depth + 1
    BY <1>8, <2>1 DEF FollowedOn
  <2>3. t \in queued' \/ Met' >= MaxJiraIssues
    <3>1. t \in queued' \/ t \in visited \/ Met' >= MaxJiraIssues
      BY QueueThen
    <3> QED BY <1>2, <1>3, <1>5, <3>1
  <2> QED BY <2>2, <2>3
<1>15. \A p \in visited' : FollowedOn(then, p)'
  BY <1>2, <1>13, <1>14
<1>16. HasParent(then)'
  BY <1>10 DEF HasParent
<1> QED BY <1>15, <1>16

LEMMA TakenKeeps ==
  ASSUME WalkInv, NEW new, NEW keys, NEW told, Taken(new, keys, told)
  PROVE  /\ QueuedOnce' /\ (\E depth : Leveled(depth))'
         /\ queue' \in Seq(Entries) /\ queued' \subseteq Keys /\ visited' \subseteq Keys
         /\ answers' \in [Keys -> [references : SUBSET Keys, remote : SUBSET Keys]]
         /\ \A k \in Keys \ visited' : answers'[k] = [references |-> {}, remote |-> {}]
PROOF
<1>1. PICK depth : Leveled(depth)
  BY DEF WalkInv
<1>2. PICK then : then = Deepened(depth, queue[1])
  OBVIOUS
<1>3. Leveled(then)'
  <2>1. then \in [Keys -> Nat]
    <3>1. queue[1].depth + 1 \in Nat
      BY FirstOfQueue
    <3>2. depth \in [Keys -> Nat]
      BY <1>1 DEF Leveled
    <3> QED BY <1>2, <3>1, <3>2 DEF Deepened
  <2>2. InRings(then)' /\ HasParent(then)' /\ \A p \in visited' : FollowedOn(then, p)'
    BY <1>1, <1>2, TakenKeepsRings, TakenKeepsParents
  <2> QED BY <2>1, <2>2 DEF Leveled
<1>4. /\ queue[1].key \in Keys /\ visited' = visited \cup {queue[1].key}
      /\ told \in [references : SUBSET Keys, remote : SUBSET Keys]
      /\ answers' = [answers EXCEPT ![queue[1].key] = told]
  BY FirstOfQueue DEF Taken
<1>5. /\ answers \in [Keys -> [references : SUBSET Keys, remote : SUBSET Keys]]
      /\ visited \subseteq Keys
      /\ \A k \in Keys \ visited : answers[k] = [references |-> {}, remote |-> {}]
  BY DEF WalkInv, WalkTypes, Counted
<1>6. /\ answers' \in [Keys -> [references : SUBSET Keys, remote : SUBSET Keys]]
      /\ visited' \subseteq Keys
      /\ \A k \in Keys \ visited' : answers'[k] = [references |-> {}, remote |-> {}]
  BY <1>4, <1>5
<1>7. queue' \in Seq(Entries) /\ queued' \subseteq Keys
  BY QueueThen
<1>8. (\E depth_1 : Leveled(depth_1))'
  BY <1>3
<1> QED BY <1>6, <1>7, <1>8, TakenKeepsQueued

LEMMA VisitFailsKeeps ==
  ASSUME WalkInv, VisitFails
  PROVE  WalkInv'
PROOF
<1> DEFINE new == [queue |-> Tail(queue), queued |-> queued]
           told == [references |-> {}, remote |-> {}]
<1>1. queue \in Seq(Entries) /\ queue # <<>> /\ phase = "walk" /\ queued \subseteq Keys
  BY DEF WalkInv, WalkTypes, VisitFails, Walking, Entries
<1>2. /\ Tail(queue) \in Seq(Entries) /\ Len(Tail(queue)) = Len(queue) - 1
      /\ Head(queue) \in Entries /\ Head(queue) = queue[1] /\ 1 \in DOMAIN queue
  BY <1>1, HeadTailProperties, LenProperties, EmptySeq
<1>3. Grown(new, new, {}, Head(queue).depth + 1)
  <2>1. new.queue = Tail(queue) /\ new.queued = queued
    OBVIOUS
  <2>2. Len(Tail(queue)) \in Nat /\ DOMAIN Tail(queue) = 1 .. Len(Tail(queue))
    BY <1>2, LenProperties
  <2>3. Len(Tail(queue)) + Cardinality(visited) + 1 <= MaxJiraIssues
    <3>1. Len(queue) + Cardinality(visited) <= MaxJiraIssues
      BY DEF WalkInv, QueuedOnce, Met
    <3>2. Cardinality(visited) \in Nat /\ Len(queue) \in Nat
      BY <1>1, LenProperties, FS_Subset, FS_CardinalityType, WalkAssumption DEF WalkInv, WalkTypes
    <3> QED BY <1>2, <3>1, <3>2
  <2>4. \A i \in DOMAIN Tail(queue) : ~(i > Len(Tail(queue)))
    BY <2>2
  <2>5. Len(Tail(queue)) <= Len(Tail(queue))
    BY <2>2
  <2> HIDE DEF new
  <2> QED BY <1>1, <1>2, <2>1, <2>3, <2>4, <2>5 DEF Grown
<1>4. Head(queue).key \in Keys /\ Head(queue).key \notin visited
  BY <1>2 DEF Entries, WalkInv, QueuedOnce
<1>5. answers' = [answers EXCEPT ![Head(queue).key] = told]
  <2>1. answers[Head(queue).key] = told /\ answers' = answers
    BY <1>4 DEF WalkInv, Counted, VisitFails
  <2>2. answers \in [Keys -> [references : SUBSET Keys, remote : SUBSET Keys]]
    BY DEF WalkInv, WalkTypes
  <2> HIDE DEF told
  <2> QED BY <2>1, <2>2
<1>6. Taken(new, {}, told)
  <2>1. /\ queue' = new.queue /\ queued' = new.queued /\ phase' = phase
        /\ visited' = visited \cup {Head(queue).key}
    BY DEF VisitFails
  <2>2. /\ told \in [references : SUBSET Keys, remote : SUBSET Keys]
        /\ {} = told.remote \cup (IF Head(queue).depth < MaxDepth THEN told.references ELSE {})
    OBVIOUS
  <2>3. Grown([queue |-> Tail(queue), queued |-> queued], new, {}, Head(queue).depth + 1)
    BY <1>3
  <2>4. {} \ {Head(queue).key} = {} /\ {} \subseteq Keys
    OBVIOUS
  <2> HIDE DEF new, told
  <2> QED BY <1>1, <1>5, <2>1, <2>2, <2>3, <2>4, Zenon DEF Taken
<1> HIDE DEF new, told
<1>7. /\ QueuedOnce' /\ (\E depth : Leveled(depth))'
      /\ queue' \in Seq(Entries) /\ queued' \subseteq Keys /\ visited' \subseteq Keys
      /\ answers' \in [Keys -> [references : SUBSET Keys, remote : SUBSET Keys]]
      /\ \A k \in Keys \ visited' : answers'[k] = [references |-> {}, remote |-> {}]
  BY <1>6, TakenKeeps
<1>8. /\ visited' = visited \cup {Head(queue).key} /\ issues' = issues /\ seen' = seen
      /\ inaccessible' = inaccessible \cup {Head(queue).key}
  BY DEF VisitFails
<1>9. WalkTypes'
  BY <1>7, <1>8 DEF WalkInv, WalkTypes, Entries
<1>10. Counted'
  BY <1>7, <1>8 DEF WalkInv, Counted
<1> QED BY <1>7, <1>9, <1>10 DEF WalkInv

\* fetchConfluence reads no more pages than it may.
LEMMA FetchWithin ==
  ASSUME WalkTypes, Cardinality(seen) <= MaxConfluencePages,
         NEW urls \in SUBSET Pages, NEW s \in Fetch(urls)
  PROVE  s \subseteq Pages /\ Cardinality(s) <= MaxConfluencePages
PROOF
<1> DEFINE new == urls \ seen
<1>1. PICK added \in SUBSET new :
        /\ s = seen \cup added
        /\ Cardinality(added) =
             Admitted(Cardinality(new), Cardinality(seen), MaxConfluencePages)
  BY DEF Fetch
<1>2. seen \subseteq Pages /\ IsFiniteSet(Pages) /\ MaxConfluencePages \in Nat
  BY WalkAssumption DEF WalkTypes
<1>3. /\ IsFiniteSet(seen) /\ IsFiniteSet(new) /\ IsFiniteSet(added)
      /\ Cardinality(seen) \in Nat /\ Cardinality(new) \in Nat
      /\ Cardinality(added) \in Nat
  <2>1. IsFiniteSet(seen) /\ IsFiniteSet(new)
    BY <1>2, FS_Subset
  <2>2. IsFiniteSet(added)
    <3> HIDE DEF new
    <3> QED BY <2>1, FS_Subset
  <2> QED BY <2>1, <2>2, FS_CardinalityType
<1>4. Cardinality(s) = Cardinality(seen) + Cardinality(added) - Cardinality(seen \cap added)
  BY <1>1, <1>3, FS_Union
<1>5. seen \cap added = {} /\ Cardinality({}) = 0
  BY FS_EmptySet
<1>6. Cardinality(seen) + Cardinality(added) <= MaxConfluencePages
  <2> HIDE DEF new
  <2> QED BY <1>1, <1>2, <1>3 DEF Admitted
<1>7. Cardinality(s) <= MaxConfluencePages
  <2>1. Cardinality(seen \cap added) = 0
    BY <1>5
  <2> HIDE DEF new
  <2> QED BY <1>3, <1>4, <1>6, <2>1
<1> QED BY <1>1, <1>2, <1>7

\* What enqueueJira is given is what the issue names.
LEMMA NamedIsGiven ==
  ASSUME NEW named \in Mentions, NEW first \in Entries
  PROVE  LET told == IssueContext(named, first.depth)
             afar == ResolveAtlassianLinks(ExtractRemoteLinks(told))
             near == ReferenceCandidates(told)
             text == ResolveAtlassianLinks(ExtractLinks(told))
         IN  /\ afar \subseteq Keys /\ near \subseteq Keys /\ text \subseteq Keys
             /\ Linked(named, first) \in [references : SUBSET Keys, remote : SUBSET Keys]
             /\ afar \ {first.key} = Linked(named, first).remote
             /\ (near \cup text) \ {first.key} = Linked(named, first).references
PROOF
<1> DEFINE told == IssueContext(named, first.depth)
           afar == ResolveAtlassianLinks(ExtractRemoteLinks(told))
           near == ReferenceCandidates(told)
           text == ResolveAtlassianLinks(ExtractLinks(told))
<1>1. named \subseteq STRING \X Keys /\ "comment" \notin Followed
  BY WalkAssumption
<1>2. \A m \in named : m[2] \in Keys
  BY <1>1
<1>3. told = {m \in named : m[1] = "comment" => first.depth = 0}
  BY DEF IssueContext
<1>4. \A k : k \in afar <=>
             \E m \in named : m[2] = k /\ m[1] \in {"remote text", "remote url"}
  BY <1>3 DEF ResolveAtlassianLinks, ExtractRemoteLinks, KeysAt
<1>5. \A k : k \in near <=> \E m \in named : m[2] = k /\ m[1] \in Followed
  BY <1>1, <1>3 DEF ReferenceCandidates, KeysAt
<1>6. \A k : k \in text <=>
             \E m \in named : m[2] = k /\ \/ m[1] \in {"text", "url"}
                                          \/ m[1] = "comment" /\ first.depth = 0
  BY <1>3 DEF ResolveAtlassianLinks, ExtractLinks, KeysAt
<1>7. /\ \A k : k \in Linked(named, first).remote <=>
                  k # first.key
                  /\ \E m \in named : m[2] = k /\ m[1] \in {"remote text", "remote url"}
      /\ \A k : k \in Linked(named, first).references <=>
                  k # first.key
                  /\ \E m \in named : m[2] = k /\ \/ m[1] \in Followed \cup {"text", "url"}
                                                  \/ m[1] = "comment" /\ first.depth = 0
      /\ Linked(named, first) = [references |-> Linked(named, first).references,
                                 remote |-> Linked(named, first).remote]
  BY DEF Linked
<1> HIDE DEF told, afar, near, text
<1>8. afar \subseteq Keys /\ near \subseteq Keys /\ text \subseteq Keys
  <2>1. ASSUME NEW k, \E m \in named : m[2] = k PROVE k \in Keys
    BY <1>2, <2>1
  <2>2. /\ \A k : k \in afar => \E m \in named : m[2] = k
        /\ \A k : k \in near => \E m \in named : m[2] = k
        /\ \A k : k \in text => \E m \in named : m[2] = k
    BY <1>4, <1>5, <1>6, Zenon
  <2> QED BY <2>1, <2>2, Zenon
<1>9. afar \ {first.key} = Linked(named, first).remote
  <2>1. \A k : k \in afar \ {first.key} <=> k \in Linked(named, first).remote
    BY <1>4, <1>7, Zenon
  <2> QED BY <2>1, Zenon
<1>10. (near \cup text) \ {first.key} = Linked(named, first).references
  <2>1. \A k : k \in near \cup text <=>
               \E m \in named : m[2] = k /\ \/ m[1] \in Followed \cup {"text", "url"}
                                            \/ m[1] = "comment" /\ first.depth = 0
    BY <1>5, <1>6, Zenon
  <2>2. \A k : k \in (near \cup text) \ {first.key} <=> k \in Linked(named, first).references
    BY <1>7, <2>1, Zenon
  <2> QED BY <2>2, Zenon
<1>11. Linked(named, first) \in [references : SUBSET Keys, remote : SUBSET Keys]
  BY <1>7, <1>8, <1>9, <1>10
<1> QED BY <1>8, <1>9, <1>10, <1>11 DEF told, afar, near, text

LEMMA VisitKeeps ==
  ASSUME WalkInv, Visit
  PROVE  WalkInv'
PROOF
<1> DEFINE first == Head(queue)
           start == [queue |-> Tail(queue), queued |-> queued]
           below == first.depth + 1
           Sooner(keys) == IF first.depth >= MaxDepth THEN {} ELSE keys
<1>1. PICK named \in Mentions, urls \in SUBSET Pages :
        LET told == IssueContext(named, first.depth) IN
        \E linked \in Enqueue(start, ResolveAtlassianLinks(ExtractRemoteLinks(told)), below) :
        \E referred \in Enqueue(linked, Sooner(ReferenceCandidates(told)), below) :
        \E all \in Enqueue(referred, Sooner(ResolveAtlassianLinks(ExtractLinks(told))), below) :
          /\ queue' = all.queue /\ queued' = all.queued
          /\ seen' \in Fetch(urls)
          /\ \E failed \in SUBSET (seen' \ seen) : inaccessible' = inaccessible \cup failed
          /\ answers' = [answers EXCEPT ![first.key] = Linked(named, first)]
  BY DEF Visit
<1> DEFINE told == IssueContext(named, first.depth)
           afar == ResolveAtlassianLinks(ExtractRemoteLinks(told))
           near == ReferenceCandidates(told)
           text == ResolveAtlassianLinks(ExtractLinks(told))
<1>A. PICK linked \in Enqueue(start, afar, below) :
        \E referred \in Enqueue(linked, Sooner(near), below) :
        \E all \in Enqueue(referred, Sooner(text), below) :
          /\ queue' = all.queue /\ queued' = all.queued
          /\ seen' \in Fetch(urls)
          /\ \E failed \in SUBSET (seen' \ seen) : inaccessible' = inaccessible \cup failed
          /\ answers' = [answers EXCEPT ![first.key] = Linked(named, first)]
  BY <1>1
<1>B. PICK referred \in Enqueue(linked, Sooner(near), below) :
        \E all \in Enqueue(referred, Sooner(text), below) :
          /\ queue' = all.queue /\ queued' = all.queued
          /\ seen' \in Fetch(urls)
          /\ \E failed \in SUBSET (seen' \ seen) : inaccessible' = inaccessible \cup failed
          /\ answers' = [answers EXCEPT ![first.key] = Linked(named, first)]
  BY <1>A
<1>2. PICK all \in Enqueue(referred, Sooner(text), below) :
          /\ queue' = all.queue /\ queued' = all.queued
          /\ seen' \in Fetch(urls)
          /\ \E failed \in SUBSET (seen' \ seen) : inaccessible' = inaccessible \cup failed
          /\ answers' = [answers EXCEPT ![first.key] = Linked(named, first)]
  BY <1>B
<1>3. /\ Walking /\ visited' = visited \cup {first.key} /\ issues' = issues \cup {first.key}
      /\ phase' = phase
  BY DEF Visit
<1>4. /\ queue \in Seq(Entries) /\ queue # <<>> /\ phase = "walk" /\ queued \subseteq Keys
      /\ WalkTypes
  BY <1>3 DEF WalkInv, WalkTypes, Walking, Entries
<1>5. /\ Tail(queue) \in Seq(Entries) /\ Len(Tail(queue)) = Len(queue) - 1
      /\ first \in Entries /\ Len(queue) \in Nat
  BY <1>4, HeadTailProperties, LenProperties
<1>6. /\ afar \subseteq Keys /\ near \subseteq Keys /\ text \subseteq Keys
      /\ Linked(named, first) \in [references : SUBSET Keys, remote : SUBSET Keys]
      /\ afar \ {first.key} = Linked(named, first).remote
      /\ (near \cup text) \ {first.key} = Linked(named, first).references
  BY <1>5, NamedIsGiven
<1>7. below \in Nat /\ first.depth \in Nat /\ MaxDepth \in Nat
  BY <1>5, WalkAssumption DEF Entries
<1>8. Len(Tail(queue)) + Cardinality(visited) + 1 <= MaxJiraIssues
  <2>1. Len(queue) + Cardinality(visited) <= MaxJiraIssues
    BY DEF WalkInv, QueuedOnce, Met
  <2>2. Cardinality(visited) \in Nat
    BY <1>4, FS_Subset, FS_CardinalityType, WalkAssumption DEF WalkTypes
  <2> QED BY <1>5, <2>1, <2>2
<1>9. start.queue = Tail(queue) /\ start.queued = queued
  OBVIOUS
<1>10. Sooner(near) \in SUBSET Keys /\ Sooner(text) \in SUBSET Keys /\ afar \in SUBSET Keys
  BY <1>6
<1>11. /\ Linked(named, first).remote
            \cup (IF first.depth < MaxDepth THEN Linked(named, first).references ELSE {})
          = (afar \cup Sooner(near) \cup Sooner(text)) \ {first.key}
  <2>1. first.depth >= MaxDepth <=> ~(first.depth < MaxDepth)
    BY <1>7
  <2> HIDE DEF first, afar, near, text
  <2> QED BY <1>6, <2>1
<1> HIDE DEF start, afar, near, text, below, Sooner, told
<1>12. Grown(start, linked, afar, below)
  BY <1>2, <1>4, <1>5, <1>7, <1>8, <1>9, <1>10, EnqueueGrows
<1>13. Grown(linked, referred, Sooner(near), below)
  <2>1. /\ linked.queue \in Seq(Entries) /\ linked.queued \subseteq Keys
        /\ Len(linked.queue) + Cardinality(visited) + 1 <= MaxJiraIssues
    BY <1>12 DEF Grown
  <2> QED BY <1>2, <1>4, <1>7, <1>10, <2>1, EnqueueGrows
<1>14. Grown(referred, all, Sooner(text), below)
  <2>1. /\ referred.queue \in Seq(Entries) /\ referred.queued \subseteq Keys
        /\ Len(referred.queue) + Cardinality(visited) + 1 <= MaxJiraIssues
    BY <1>13 DEF Grown
  <2> QED BY <1>2, <1>4, <1>7, <1>10, <2>1, EnqueueGrows
<1> DEFINE keys == afar \cup Sooner(near) \cup Sooner(text)
<1>15. Grown(start, all, keys, below)
  <2>1. start.queue \in Seq(Entries)
    BY <1>5, <1>9
  <2>2. Grown(start, referred, afar \cup Sooner(near), below)
    BY <1>4, <1>10, <1>12, <1>13, <2>1, GrownAgain
  <2>3. afar \cup Sooner(near) \in SUBSET Keys
    BY <1>10
  <2> QED BY <1>4, <1>10, <1>14, <2>1, <2>2, <2>3, GrownAgain
<1>16. keys \subseteq Keys
  BY <1>10
<1> HIDE DEF keys
<1>17. Taken(all, keys, Linked(named, first))
  <2>1. keys \ {first.key} =
          Linked(named, first).remote
          \cup (IF first.depth < MaxDepth THEN Linked(named, first).references ELSE {})
    BY <1>11 DEF keys
  <2>2. Grown([queue |-> Tail(queue), queued |-> queued], all, keys, first.depth + 1)
    BY <1>15 DEF start, below
  <2> QED BY <1>2, <1>3, <1>4, <1>6, <1>16, <2>1, <2>2 DEF Taken
<1>18. /\ QueuedOnce' /\ (\E depth : Leveled(depth))'
       /\ queue' \in Seq(Entries) /\ queued' \subseteq Keys /\ visited' \subseteq Keys
       /\ answers' \in [Keys -> [references : SUBSET Keys, remote : SUBSET Keys]]
       /\ \A k \in Keys \ visited' : answers'[k] = [references |-> {}, remote |-> {}]
  BY <1>17, TakenKeeps
<1>19. seen' \subseteq Pages /\ Cardinality(seen') <= MaxConfluencePages
  <2>1. Cardinality(seen) <= MaxConfluencePages
    BY DEF WalkInv, Counted
  <2> QED BY <1>2, <1>4, <2>1, FetchWithin
<1> HIDE DEF first
<1>20. WalkTypes'
  BY <1>3, <1>4, <1>18, <1>19 DEF WalkTypes, Entries
<1>21. Counted'
  <2>1. visited \ issues \subseteq inaccessible /\ inaccessible \subseteq inaccessible'
    BY <1>2 DEF WalkInv, Counted
  <2> QED BY <1>3, <1>18, <1>19, <2>1 DEF Counted
<1> QED BY <1>18, <1>20, <1>21 DEF WalkInv

\* The rest of the call leaves the walk as it is.
LEMMA WalkRestKeeps ==
  ASSUME WalkInv, inaccessible \subseteq inaccessible',
         phase' # "walk" => phase # "walk" \/ queue = <<>>,
         UNCHANGED <<queue, queued, visited, issues, seen, answers>>
  PROVE  WalkInv'
PROOF
<1>1. WalkTypes'
  BY DEF WalkInv, WalkTypes
<1>2. QueuedOnce'
  BY DEF WalkInv, QueuedOnce, Met
<1>3. Counted'
  BY DEF WalkInv, Counted
<1>4. PICK depth : Leveled(depth)
  BY DEF WalkInv
<1>5. Leveled(depth)'
  BY <1>4 DEF Leveled, InRings, HasParent, FollowedOn, Targets, Met
<1> QED BY <1>1, <1>2, <1>3, <1>5 DEF WalkInv

LEMMA WalkInitial == WalkInit => WalkInv
PROOF
<1> SUFFICES ASSUME WalkInit PROVE WalkInv
  OBVIOUS
<1> DEFINE depth == [k \in Keys |-> 0]
<1>1. /\ queue = <<[key |-> Story, depth |-> 0]>> /\ queued = {Story}
      /\ visited = {} /\ issues = {} /\ inaccessible = {} /\ seen = {} /\ phase = "walk"
      /\ answers = [k \in Keys |-> [references |-> {}, remote |-> {}]]
      /\ Story \in Keys
  BY WalkAssumption DEF WalkInit
<1>2. /\ DOMAIN queue = {1} /\ Len(queue) = 1
      /\ queue[1].key = Story /\ queue[1].depth = 0
      /\ queue \in Seq([key : Keys, depth : Nat])
  BY <1>1
<1>3. Cardinality(visited) = 0 /\ Cardinality(seen) = 0 /\ Met = 1
  BY <1>1, <1>2, FS_EmptySet DEF Met
<1>4. /\ MaxJiraIssues \in Nat /\ MaxJiraIssues # 0 /\ MaxConfluencePages \in Nat
  BY WalkAssumption
<1>5. WalkTypes
  BY <1>1, <1>2 DEF WalkTypes
<1>6. QueuedOnce
  <2>1. Met <= MaxJiraIssues
    BY <1>3, <1>4
  <2> QED BY <1>1, <1>2, <2>1 DEF QueuedOnce
<1>7. Counted
  BY <1>1, <1>3, <1>4 DEF Counted
<1>8. Leveled(depth)
  BY <1>1, <1>2, <1>3 DEF Leveled, InRings, HasParent
<1> QED BY <1>5, <1>6, <1>7, <1>8 DEF WalkInv

LEMMA WalkInductive == WalkInv /\ [WalkNext]_walkVars => WalkInv'
PROOF
<1> SUFFICES ASSUME WalkInv, [WalkNext]_walkVars PROVE WalkInv'
  OBVIOUS
<1>1. CASE VisitFails
  BY <1>1, VisitFailsKeeps
<1>2. CASE Visit
  BY <1>2, VisitKeeps
<1>3. CASE WalkEnds
  <2>1. queue = <<>>
    <3> SUFFICES ASSUME queue # <<>> PROVE FALSE
      OBVIOUS
    <3>1. Cardinality(issues) >= MaxJiraIssues
      <4>1. ~(Cardinality(issues) < MaxJiraIssues) /\ IsFiniteSet(issues)
        BY <1>3, FS_Subset, WalkAssumption DEF WalkEnds, Walking, WalkInv, WalkTypes
      <4> QED BY <4>1, FS_CardinalityType, WalkAssumption
    <3>2. /\ IsFiniteSet(visited) /\ Cardinality(issues) <= Cardinality(visited)
          /\ Cardinality(visited) \in Nat /\ Cardinality(issues) \in Nat
      <4>1. IsFiniteSet(visited)
        BY FS_Subset, WalkAssumption DEF WalkInv, WalkTypes
      <4>2. IsFiniteSet(issues) /\ Cardinality(issues) <= Cardinality(visited)
        BY <4>1, FS_Subset DEF WalkInv, WalkTypes
      <4> QED BY <4>1, <4>2, FS_CardinalityType
    <3>3. Len(queue) \in Nat /\ Len(queue) # 0
      BY LenProperties, EmptySeq DEF WalkInv, WalkTypes
    <3>4. Len(queue) + Cardinality(visited) <= MaxJiraIssues /\ MaxJiraIssues \in Nat
      BY WalkAssumption DEF WalkInv, QueuedOnce, Met
    <3> QED BY <3>1, <3>2, <3>3, <3>4
  <2> QED BY <1>3, <2>1, WalkRestKeeps DEF WalkEnds
<1>4. CASE BuildBatch
  <2>1. inaccessible \subseteq inaccessible'
    BY <1>4 DEF BuildBatch
  <2> QED BY <1>4, <2>1, WalkRestKeeps DEF BuildBatch
<1>5. CASE ReturnContext
  BY <1>5, WalkRestKeeps DEF ReturnContext
<1>6. CASE UNCHANGED walkVars
  BY <1>6, WalkRestKeeps DEF walkVars
<1> QED BY <1>1, <1>2, <1>3, <1>4, <1>5, <1>6 DEF WalkNext

(* A story's context holds the nearest issues its limits leave room for:   *)
(* the breadth-first walk of buildStoryContext skips none for one farther  *)
(* away, and leaves none out that there was room for.                      *)
THEOREM NearestTheorem == WalkSpec => []WalkIsNearestFirst
PROOF
<1>1. WalkSpec => []WalkInv
  BY WalkInitial, WalkInductive, PTL DEF WalkSpec
<1> QED BY <1>1, WalkInvImplies, PTL

-----------------------------------------------------------------------------
(* The plan index *)

(* Every root remembered is recorded, and is in each copy in hand but for  *)
(* what that copy is known to lack.                                        *)
IndexInv ==
  /\ DOMAIN draft = Procs /\ DOMAIN root = Procs /\ DOMAIN lacking = Procs
  /\ remembered \subseteq planIndex
  /\ \A p \in Procs : draft[p] # Unread => remembered \ lacking[p] \subseteq draft[p]

LEMMA IndexInitial == IndexInit => IndexInv
  BY DEF IndexInit, IndexInv

LEMMA IndexStep == IndexInv /\ [IndexNext]_indexVars => IndexInv'
<1> SUFFICES ASSUME IndexInv, [IndexNext]_indexVars PROVE IndexInv'
  OBVIOUS
<1> USE DEF IndexInv
<1>1. ASSUME NEW r \in Roots, Create(r) \/ RemovePlan(r) PROVE IndexInv'
  BY <1>1 DEF Create, RemovePlan
<1>2. ASSUME Garble PROVE IndexInv'
  BY <1>2 DEF Garble
<1>3. ASSUME NEW p \in Procs, NEW r \in Roots, ReadIndex(p, r) PROVE IndexInv'
  \* What the copy is known to lack is what a garbled file hides.
  <2>1. remembered \ (planIndex \ ReadRoots) \subseteq ReadRoots
    OBVIOUS
  <2>2. QED  BY <1>3, <2>1 DEF ReadIndex
<1>4. ASSUME NEW p \in Procs, WriteIndex(p) PROVE IndexInv'
  <2>1. /\ draft[p] # Unread
        /\ draft' = [draft EXCEPT ![p] = Unread]
        /\ planIndex' = draft[p] \cup {root[p]}
        /\ lacking' = [q \in Procs |-> IF q = p \/ draft[q] = Unread THEN {}
                                      ELSE lacking[q] \cup {root[p]}]
        /\ remembered' = (remembered \ lacking[p]) \cup {root[p]}
        /\ root' = root
    BY <1>4 DEF WriteIndex, Landed
  <2>2. remembered' \subseteq planIndex'
    BY <2>1
  \* The other copies lack the root written here, and are known to.
  <2>3. ASSUME NEW q \in Procs, draft'[q] # Unread
        PROVE  remembered' \ lacking'[q] \subseteq draft'[q]
    <3>1. q # p /\ draft[q] # Unread /\ draft'[q] = draft[q]
      BY <2>1, <2>3
    <3>2. lacking'[q] = lacking[q] \cup {root[p]}
      BY <2>1, <3>1
    <3>3. QED  BY <2>1, <3>1, <3>2
  <2>4. QED  BY <2>1, <2>2, <2>3
<1>5. ASSUME NEW p \in Procs, UpsertDies(p) PROVE IndexInv'
  BY <1>5 DEF UpsertDies
<1>6. CASE UNCHANGED indexVars
  BY <1>6 DEF indexVars
<1>7. QED  BY <1>1, <1>2, <1>3, <1>4, <1>5, <1>6 DEF IndexNext

\* With no candidate root, only the index is looked at.
LEMMA NoCandidate == FirstLive(<<>>) = {}
<1> DEFINE P(n) == /\ n <= Len(<<>>) => <<>>[n] \in live
                   /\ \A m \in 1..(n - 1) : <<>>[m] \notin live
<1> DEFINE n0 == CHOOSE n \in 1..(Len(<<>>) + 1) : P(n)
<1>1. Len(<<>>) = 0
  OBVIOUS
<1>2. 1 \in 1..(Len(<<>>) + 1) /\ P(1)
  BY <1>1
<1>3. n0 \in 1..(Len(<<>>) + 1)
  BY <1>2
<1>4. ~(n0 <= Len(<<>>))
  BY <1>1, <1>3
<1>5. QED  BY <1>4 DEF FirstLive

\* A candidate root with a plan is taken.
LEMMA OneCandidate ==
  ASSUME NEW c, c \in live
  PROVE  FirstLive(<<c>>) = {c}
<1> DEFINE s == <<c>>
<1> DEFINE P(n) == /\ n <= Len(s) => s[n] \in live
                   /\ \A m \in 1..(n - 1) : s[m] \notin live
<1> DEFINE n0 == CHOOSE n \in 1..(Len(s) + 1) : P(n)
<1>1. Len(s) = 1 /\ s[1] = c
  OBVIOUS
<1>2. \E n \in 1..(Len(s) + 1) : P(n)
  <2>1. 1 \in 1..(Len(s) + 1) /\ P(1)  BY <1>1
  <2>2. QED  BY <2>1
<1>3. n0 \in 1..(Len(s) + 1) /\ P(n0)
  <2> HIDE DEF P
  <2>1. QED  BY <1>2
<1>4. FirstLive(s) = IF n0 <= Len(s) THEN {s[n0]} ELSE {}
  BY DEF FirstLive
<1>5. n0 = 1
  <2> HIDE DEF n0
  <2>1. QED  BY <1>1, <1>3
<1>6. QED  BY <1>1, <1>4, <1>5

LEMMA InvImpliesSlug == IndexInv => SlugNamesOnePlan
<1> SUFFICES ASSUME IndexInv PROVE SlugNamesOnePlan
  OBVIOUS
<1>1. ResolvePlanTarget(<<>>) = LookupEntries
  BY NoCandidate DEF ResolvePlanTarget
\* While the file can be read, the remembered roots with a plan are among the
\* entries; a garbled one names none.
<1>2. ~garbled => remembered \cap live \subseteq LookupEntries
  BY DEF LookupEntries, ReadRoots, IndexInv
<1>3. garbled => LookupEntries = {}
  BY DEF LookupEntries, ReadRoots
<1>4. ASSUME NEW r \in Roots, ResolvePlanTarget(<<>>) = {r} PROVE remembered \cap live \subseteq {r}
  BY <1>1, <1>2, <1>3, <1>4
<1>5. remembered \cap live # {} /\ ~garbled => ResolvePlanTarget(<<>>) # {}
  BY <1>1, <1>2
<1>6. ASSUME NEW c \in live PROVE ResolvePlanTarget(<<c>>) = {c}
  <2>1. FirstLive(<<c>>) = {c}
    BY OneCandidate
  <2>2. QED  BY <2>1 DEF ResolvePlanTarget
<1>7. QED  BY <1>4, <1>5, <1>6 DEF SlugNamesOnePlan

(* For any processes and plan roots, however their upserts overlap and     *)
(* whenever the file is garbled: a slug resolved through the index names   *)
(* the only live plan among the roots remembered, which are all written    *)
(* but those an upsert has passed over with a copy that lacks them.        *)
THEOREM SlugTheorem == IndexSpec => []SlugNamesOnePlan
<1>1. IndexSpec => []IndexInv
  BY IndexInitial, IndexStep, PTL DEF IndexSpec
<1>2. QED  BY <1>1, InvImpliesSlug, PTL

-----------------------------------------------------------------------------
(* Pacing *)

(* Any Size + 1 dispatches in a row contain one by a request that read the *)
(* last dispatch after the first of them: when that one goes out, at most  *)
(* Size - 1 requests are asleep that read before it.  PaceInv counts them  *)
(* down.                                                                   *)
Asleep == {r \in Requests : wake[r] # Never}

(* A gap after time t.                                                     *)
Apart(t, u) == \E gap \in Gaps : u >= t + gap

(* The sleepers that may go out too early after a dispatch at time t: all  *)
(* that read the last dispatch before that one.                            *)
Early(w, t) == {r \in Requests : w[r] # Never /\ ~Apart(t, w[r])}

PaceTypes ==
  /\ clock \in Nat /\ holders \in SUBSET Requests
  /\ wake \in [Requests -> Nat \cup {Never}]
  /\ dispatched \in Seq(Nat) /\ Len(dispatched) <= Size + 1
  /\ Asleep \subseteq holders /\ Cardinality(holders) <= Size

(* The dispatches kept are in order, and the last is the one remembered.   *)
Ordered ==
  /\ \A i \in DOMAIN dispatched :
       /\ dispatched[i] <= clock
       /\ \A j \in 1 .. i : dispatched[j] <= dispatched[i]
  /\ lastDispatchAt =
       IF dispatched = <<>> THEN Never ELSE dispatched[Len(dispatched)]

(* Behind the k-th dispatch kept, either one is a gap later, or there are  *)
(* few enough for the sleepers that read before it.                        *)
Spaced(k) ==
  \/ \E j \in (k + 1) .. Len(dispatched) : Apart(dispatched[k], dispatched[j])
  \/ Len(dispatched) + Cardinality(Early(wake, dispatched[k])) < Size + k

PaceInv == PaceTypes /\ Ordered /\ \A k \in DOMAIN dispatched : Spaced(k)

LEMMA PaceInitial == PaceInit => PaceInv
PROOF
<1> SUFFICES ASSUME PaceInit PROVE PaceInv
  OBVIOUS
<1>1. Asleep = {} /\ dispatched = <<>> /\ Len(dispatched) = 0 /\ DOMAIN dispatched = {}
  BY DEF PaceInit, Asleep
<1>2. PaceTypes
  BY <1>1, PaceAssumption, FS_EmptySet DEF PaceTypes, PaceInit
<1> QED BY <1>1, <1>2 DEF PaceInv, Ordered, PaceInit

(* The holders are finitely many, the sleepers among them.                 *)
LEMMA SleepersFinite ==
  ASSUME PaceTypes, NEW A \in SUBSET holders
  PROVE  IsFiniteSet(A) /\ Cardinality(A) \in Nat /\ Cardinality(A) <= Size
PROOF
<1>1. IsFiniteSet(holders)
  BY PaceAssumption, FS_Subset DEF PaceTypes
<1> QED BY <1>1, PaceAssumption, FS_Subset, FS_CardinalityType DEF PaceTypes

(* A dispatch of a request that either read before the k-th dispatch, or   *)
(* slept a gap since, keeps the invariant.                                 *)
LEMMA DispatchKeeps ==
  ASSUME PaceInv, NEW r \in holders, Dispatch(r, clock), UNCHANGED <<clock, holders>>,
         \A k \in DOMAIN dispatched :
           r \in Early(wake, dispatched[k]) \/ Apart(dispatched[k], clock)
  PROVE  PaceInv'
PROOF
<1> DEFINE n == Len(dispatched)
           all == Append(dispatched, clock)
<1>1. /\ n \in Nat /\ n <= Size + 1 /\ dispatched \in Seq(Nat) /\ clock \in Nat
      /\ DOMAIN dispatched = 1 .. n /\ Size \in Nat \ {0} /\ Gaps \subseteq Nat
      /\ \A i \in 1 .. n : dispatched[i] \in Nat
  BY PaceAssumption, LenProperties DEF PaceInv, PaceTypes
<1>2. /\ all \in Seq(Nat) /\ Len(all) = n + 1 /\ DOMAIN all = 1 .. (n + 1)
      /\ \A i \in 1 .. n : all[i] = dispatched[i]
      /\ all[n + 1] = clock
  BY <1>1
<1>3. /\ wake' = [wake EXCEPT ![r] = Never]
      /\ dispatched' = IF Len(all) > Size + 1 THEN Tail(all) ELSE all
      /\ lastDispatchAt' = clock
  BY DEF Dispatch
<1>4. /\ wake' \in [Requests -> Nat \cup {Never}] /\ Asleep' = Asleep \ {r}
      /\ \A q \in Requests : wake'[q] = IF q = r THEN Never ELSE wake[q]
  <2>1. wake \in [Requests -> Nat \cup {Never}]
    BY DEF PaceInv, PaceTypes
  <2>2. wake' \in [Requests -> Nat \cup {Never}]
    BY <1>3, <2>1
  <2>3. \A q \in Requests : wake'[q] = IF q = r THEN Never ELSE wake[q]
    BY <1>3, <2>1
  <2>4. Asleep' = Asleep \ {r}
    BY <2>3 DEF Asleep
  <2> QED BY <2>2, <2>3, <2>4
<1>5. \A t : Early(wake', t) = Early(wake, t) \ {r}
  <2> SUFFICES ASSUME NEW t PROVE Early(wake', t) = Early(wake, t) \ {r}
    OBVIOUS
  <2>1. ASSUME NEW q \in Requests PROVE q \in Early(wake', t) <=> q \in Early(wake, t) /\ q # r
    BY <1>4 DEF Early
  <2>2. Early(wake', t) \subseteq Requests /\ Early(wake, t) \subseteq Requests
    BY DEF Early
  <2> QED BY <2>1, <2>2
<1>5a. \A t : Early(wake', t) \in SUBSET holders
  <2>1. Asleep \subseteq holders
    BY DEF PaceInv, PaceTypes
  <2>2. \A t : Early(wake, t) \subseteq Asleep
    BY DEF Early, Asleep
  <2> QED BY <1>5, <2>1, <2>2
<1> HIDE DEF n, all
<1>6. \A k \in 1 .. (n + 1) :
        \/ \E j \in (k + 1) .. (n + 1) : Apart(all[k], all[j])
        \/ n + 1 + Cardinality(Early(wake', all[k])) < Size + k
  <2>1. ASSUME NEW k \in 1 .. n
        PROVE  \/ \E j \in (k + 1) .. (n + 1) : Apart(all[k], all[j])
               \/ n + 1 + Cardinality(Early(wake', all[k])) < Size + k
    <3>1. all[k] = dispatched[k] /\ k \in Nat
      BY <1>2
    <3>2. CASE Apart(dispatched[k], clock)
      <4>1. n + 1 \in (k + 1) .. (n + 1) /\ all[n + 1] = clock
        BY <1>1, <1>2
      <4> QED BY <3>1, <3>2, <4>1
    <3>3. CASE \E j \in (k + 1) .. n : Apart(dispatched[k], dispatched[j])
      <4>1. PICK j \in (k + 1) .. n : Apart(dispatched[k], dispatched[j])
        BY <3>3
      <4>2. j \in (k + 1) .. (n + 1) /\ j \in 1 .. n
        BY <1>1
      <4>3. all[j] = dispatched[j]
        BY <1>2, <4>2
      <4> QED BY <3>1, <4>1, <4>2, <4>3
    <3>4. CASE /\ r \in Early(wake, dispatched[k])
               /\ n + Cardinality(Early(wake, dispatched[k])) < Size + k
      <4> DEFINE e == Cardinality(Early(wake, dispatched[k]))
                 f == Cardinality(Early(wake', all[k]))
      <4>1. Early(wake, dispatched[k]) \in SUBSET holders
        BY DEF Early, Asleep, PaceInv, PaceTypes
      <4>2. Early(wake', all[k]) = Early(wake, dispatched[k]) \ {r}
        BY <1>5, <3>1
      <4>3. e \in Nat /\ f = e - 1
        BY <3>4, <4>1, <4>2, SleepersFinite, FS_RemoveElement DEF PaceInv
      <4>4. n + e < Size + k
        BY <3>4
      <4> HIDE DEF e, f
      <4>5. n + 1 + f < Size + k
        BY <1>1, <3>1, <4>3, <4>4
      <4> QED BY <4>5 DEF f
    <3>5. \/ \E j \in (k + 1) .. n : Apart(dispatched[k], dispatched[j])
          \/ n + Cardinality(Early(wake, dispatched[k])) < Size + k
      BY <1>1 DEF PaceInv, Spaced, n
    <3>6. r \in Early(wake, dispatched[k]) \/ Apart(dispatched[k], clock)
      BY <1>1
    <3> QED BY <3>2, <3>3, <3>4, <3>5, <3>6
  <2>2. Cardinality(Early(wake', clock)) < Size
    <3>1. Early(wake', clock) \in SUBSET (holders \ {r})
      BY <1>5 DEF Early, Asleep, PaceInv, PaceTypes
    <3>2. IsFiniteSet(holders) /\ Cardinality(holders) \in Nat /\ Cardinality(holders) <= Size
      BY SleepersFinite DEF PaceInv
    <3>3. /\ IsFiniteSet(holders \ {r})
          /\ Cardinality(holders \ {r}) = Cardinality(holders) - 1
      BY <3>2, FS_RemoveElement
    <3>4. /\ IsFiniteSet(Early(wake', clock))
          /\ Cardinality(Early(wake', clock)) <= Cardinality(holders \ {r})
      BY <3>1, <3>3, FS_Subset
    <3>5. Cardinality(Early(wake', clock)) \in Nat
      BY <3>4, FS_CardinalityType
    <3> QED BY <1>1, <3>2, <3>3, <3>4, <3>5
  <2>3. ASSUME NEW k \in 1 .. (n + 1), k \notin 1 .. n
        PROVE  n + 1 + Cardinality(Early(wake', all[k])) < Size + k
    <3>1. k = n + 1 /\ all[k] = clock
      BY <1>1, <1>2, <2>3
    <3>2. Cardinality(Early(wake', clock)) \in Nat
      <4>1. Early(wake', clock) \in SUBSET holders
        BY <1>5a
      <4> QED BY <4>1, SleepersFinite DEF PaceInv
    <3> QED BY <1>1, <2>2, <3>1, <3>2
  <2> QED BY <2>1, <2>3
<1>7. \A i \in 1 .. (n + 1) :
        all[i] \in Nat /\ all[i] <= clock /\ \A j \in 1 .. i : all[j] <= all[i]
  BY <1>1, <1>2 DEF PaceInv, Ordered
<1>8. /\ holders' \in SUBSET Requests /\ clock' \in Nat
      /\ Asleep' \subseteq holders' /\ Cardinality(holders') <= Size
  BY <1>4 DEF PaceInv, PaceTypes
<1>9. CASE ~(n + 1 > Size + 1)
  <2>1. dispatched' = all
    BY <1>2, <1>3, <1>9
  <2>2. PaceTypes'
    BY <1>1, <1>2, <1>4, <1>8, <1>9, <2>1 DEF PaceTypes
  <2>3. Ordered'
    BY <1>1, <1>2, <1>3, <1>7, <2>1 DEF Ordered
  <2>4. ASSUME NEW k \in 1 .. (n + 1) PROVE Spaced(k)'
    <3>1. /\ Len(dispatched') = n + 1 /\ dispatched'[k] = all[k]
          /\ \A j \in (k + 1) .. (n + 1) : dispatched'[j] = all[j]
      BY <1>2, <2>1
    <3> QED BY <1>6, <3>1 DEF Spaced, Apart
  <2> QED BY <1>2, <2>1, <2>2, <2>3, <2>4 DEF PaceInv
<1>10. CASE n + 1 > Size + 1
  <2> DEFINE tail == Tail(all)
  <2>1. /\ dispatched' = tail /\ tail \in Seq(Nat) /\ Len(tail) = n
        /\ DOMAIN tail = 1 .. n /\ n >= 1
        /\ \A i \in 1 .. n : tail[i] = all[i + 1]
    BY <1>1, <1>2, <1>3, <1>10, HeadTailProperties, EmptySeq
  <2> HIDE DEF tail
  <2>2. PaceTypes'
    BY <1>1, <1>4, <1>8, <2>1 DEF PaceTypes
  <2>3. Ordered'
    <3>1. ASSUME NEW i \in 1 .. n
          PROVE  tail[i] <= clock /\ \A j \in 1 .. i : tail[j] <= tail[i]
      <4>1. i + 1 \in 1 .. (n + 1) /\ \A j \in 1 .. i : j \in 1 .. n /\ j + 1 \in 1 .. (i + 1)
        BY <1>1
      <4> QED BY <1>7, <2>1, <4>1
    <3>2. tail[n] = clock /\ tail # <<>>
      BY <1>1, <1>2, <2>1
    <3> QED BY <1>3, <2>1, <3>1, <3>2 DEF Ordered
  <2>4. ASSUME NEW k \in 1 .. n PROVE Spaced(k)'
    <3>1. /\ k + 1 \in 1 .. (n + 1) /\ k \in Nat
          /\ Len(dispatched') = n /\ dispatched'[k] = all[k + 1]
      BY <1>1, <2>1
    <3>2. CASE \E j \in (k + 1 + 1) .. (n + 1) : Apart(all[k + 1], all[j])
      <4>1. PICK j \in (k + 1 + 1) .. (n + 1) : Apart(all[k + 1], all[j])
        BY <3>2
      <4>2. PICK i \in (k + 1) .. n : j = i + 1
        BY <1>1, <3>1
      <4>3. i \in 1 .. n
        BY <3>1
      <4>4. dispatched'[i] = all[j]
        BY <2>1, <4>2, <4>3
      <4> QED BY <3>1, <4>1, <4>2, <4>4 DEF Spaced, Apart
    <3>3. CASE n + 1 + Cardinality(Early(wake', all[k + 1])) < Size + (k + 1)
      <4> DEFINE f == Cardinality(Early(wake', all[k + 1]))
      <4>1. f \in Nat
        <5>1. Early(wake', all[k + 1]) \in SUBSET holders
          BY <1>5a
        <5> QED BY <5>1, SleepersFinite DEF PaceInv
      <4>2. n + 1 + f < Size + (k + 1)
        BY <3>3
      <4> HIDE DEF f
      <4>3. n + f < Size + k
        BY <1>1, <3>1, <4>1, <4>2
      <4> QED BY <3>1, <4>3 DEF Spaced, f
    <3> QED BY <1>6, <3>1, <3>2, <3>3
  <2> QED BY <2>1, <2>2, <2>3, <2>4 DEF PaceInv
<1> QED BY <1>9, <1>10

(* Any other step of a request, and the clock, leave the dispatches alone, *)
(* and put nobody among the early sleepers.                                *)
LEMMA RestKeeps ==
  ASSUME PaceInv, UNCHANGED <<lastDispatchAt, dispatched>>,
         clock' \in Nat, clock' >= clock,
         holders' \in SUBSET Requests, Cardinality(holders') <= Size,
         wake' \in [Requests -> Nat \cup {Never}], Asleep' \subseteq holders',
         \A k \in DOMAIN dispatched :
           Early(wake', dispatched[k]) = Early(wake, dispatched[k])
  PROVE  PaceInv'
PROOF
<1>1. PaceTypes'
  BY DEF PaceInv, PaceTypes
<1>2. Ordered'
  <2>1. \A i \in DOMAIN dispatched : dispatched[i] \in Nat
    BY LenProperties DEF PaceInv, PaceTypes
  <2>2. \A i \in DOMAIN dispatched : dispatched[i] <= clock'
    BY <2>1 DEF PaceInv, PaceTypes, Ordered
  <2> QED BY <2>2 DEF PaceInv, Ordered
<1>3. ASSUME NEW k \in DOMAIN dispatched PROVE Spaced(k)'
  <2>1. Spaced(k) /\ Early(wake', dispatched[k]) = Early(wake, dispatched[k])
    BY DEF PaceInv
  <2> QED BY <2>1 DEF Spaced, Apart
<1> QED BY <1>1, <1>2, <1>3 DEF PaceInv

LEMMA PaceStep == PaceInv /\ [PaceNext]_paceVars => PaceInv'
PROOF
<1> SUFFICES ASSUME PaceInv, [PaceNext]_paceVars PROVE PaceInv'
  OBVIOUS
<1>0. /\ PaceTypes /\ Ordered /\ clock \in Nat /\ Gaps \subseteq Nat /\ Never \notin Nat
      /\ Size \in Nat \ {0}
      /\ \A k \in DOMAIN dispatched : dispatched[k] \in Nat /\ dispatched[k] <= clock
  BY PaceAssumption, LenProperties DEF PaceInv, PaceTypes, Ordered
(* What was read last is no older than any dispatch kept.                  *)
<1>1. ASSUME lastDispatchAt # Never
      PROVE  /\ lastDispatchAt \in Nat
             /\ \A k \in DOMAIN dispatched : dispatched[k] <= lastDispatchAt
  <2>1. /\ dispatched # <<>> /\ Len(dispatched) \in DOMAIN dispatched
        /\ DOMAIN dispatched = 1 .. Len(dispatched)
        /\ lastDispatchAt = dispatched[Len(dispatched)]
    BY <1>0, <1>1, LenProperties, EmptySeq DEF PaceTypes, Ordered
  <2> QED BY <1>0, <2>1 DEF Ordered
<1>2. ASSUME lastDispatchAt = Never PROVE DOMAIN dispatched = {}
  <2>1. dispatched = <<>>
    <3>1. CASE dispatched # <<>>
      <4>1. Len(dispatched) \in DOMAIN dispatched
        BY <1>0, <3>1, LenProperties, EmptySeq DEF PaceTypes
      <4> QED BY <1>0, <1>2, <3>1, <4>1 DEF Ordered
    <3> QED BY <3>1
  <2> QED BY <2>1
<1>3. ASSUME NEW r \in Requests, Acquire(r) PROVE PaceInv'
  <2>1. /\ UNCHANGED <<clock, lastDispatchAt, wake, dispatched>>
        /\ holders' = holders \cup {r} /\ r \notin holders /\ Cardinality(holders) < Size
    BY <1>3 DEF Acquire
  <2>2. Cardinality(holders') <= Size
    <3>1. IsFiniteSet(holders) /\ Cardinality(holders) \in Nat
      BY <1>0, SleepersFinite
    <3>2. Cardinality(holders') = Cardinality(holders) + 1
      BY <2>1, <3>1, FS_AddElement
    <3> QED BY <1>0, <2>1, <3>1, <3>2
  <2> QED BY <1>0, <2>1, <2>2, RestKeeps DEF PaceTypes, Asleep
<1>4. ASSUME NEW r \in Requests, WaitFor(r) PROVE PaceInv'
  <2>1. r \in holders /\ wake[r] = Never /\ UNCHANGED <<clock, holders>>
    BY <1>4 DEF WaitFor
  <2>2. CASE lastDispatchAt = Never
    <3>1. Dispatch(r, clock)
      BY <1>4, <2>2 DEF WaitFor
    <3> QED BY <1>2, <2>1, <2>2, <3>1, DispatchKeeps
  <2>3. ASSUME lastDispatchAt # Never, NEW gap \in Gaps,
               lastDispatchAt + gap > clock,
               wake' = [wake EXCEPT ![r] = lastDispatchAt + gap],
               UNCHANGED <<lastDispatchAt, dispatched>>
        PROVE  PaceInv'
    <3>1. lastDispatchAt + gap \in Nat
      BY <1>0, <1>1, <2>3
    <3>2. wake' \in [Requests -> Nat \cup {Never}]
      BY <1>0, <2>3, <3>1 DEF PaceTypes
    <3>3. Asleep' \subseteq holders'
      BY <1>0, <2>1, <2>3 DEF PaceTypes, Asleep
    <3>4. ASSUME NEW k \in DOMAIN dispatched
          PROVE  Early(wake', dispatched[k]) = Early(wake, dispatched[k])
      <4>1. Apart(dispatched[k], wake'[r])
        <5>1. wake'[r] = lastDispatchAt + gap
          BY <1>0, <2>3 DEF PaceTypes
        <5>2. lastDispatchAt + gap >= dispatched[k] + gap
          BY <1>0, <1>1, <2>3
        <5> QED BY <5>1, <5>2 DEF Apart
      <4>2. \A s \in Requests \ {r} : wake'[s] = wake[s]
        BY <1>0, <2>3 DEF PaceTypes
      <4> QED BY <2>1, <4>1, <4>2 DEF Early
    <3>5. /\ clock' \in Nat /\ clock' >= clock
          /\ holders' \in SUBSET Requests /\ Cardinality(holders') <= Size
          /\ UNCHANGED <<lastDispatchAt, dispatched>>
      BY <1>0, <2>1, <2>3 DEF PaceTypes
    <3> QED BY <1>0, <3>2, <3>3, <3>4, <3>5, RestKeeps
  <2>4. ASSUME lastDispatchAt # Never, NEW gap \in Gaps,
               ~(lastDispatchAt + gap > clock), Dispatch(r, clock)
        PROVE  PaceInv'
    <3>1. \A k \in DOMAIN dispatched : clock >= dispatched[k] + gap
      BY <1>0, <1>1, <2>4
    <3> QED BY <2>1, <2>4, <3>1, DispatchKeeps DEF Apart
  <2> QED BY <1>4, <2>2, <2>3, <2>4 DEF WaitFor
<1>5. ASSUME NEW r \in Requests, WakeUp(r) PROVE PaceInv'
  <2>1. /\ wake[r] # Never /\ clock >= wake[r] /\ Dispatch(r, clock)
        /\ UNCHANGED <<clock, holders>> /\ r \in holders /\ wake[r] \in Nat
    BY <1>0, <1>5 DEF WakeUp, PaceTypes, Asleep
  <2>2. ASSUME NEW k \in DOMAIN dispatched
        PROVE  r \in Early(wake, dispatched[k]) \/ Apart(dispatched[k], clock)
    <3>1. CASE r \notin Early(wake, dispatched[k])
      <4>1. PICK gap \in Gaps : wake[r] >= dispatched[k] + gap
        BY <2>1, <3>1 DEF Early, Apart
      <4>2. clock >= dispatched[k] + gap
        BY <1>0, <2>1, <4>1
      <4> QED BY <4>2 DEF Apart
    <3> QED BY <3>1
  <2> QED BY <2>1, <2>2, DispatchKeeps
<1>6. ASSUME NEW r \in Requests, Release(r) PROVE PaceInv'
  <2>1. /\ UNCHANGED <<clock, lastDispatchAt, wake, dispatched>>
        /\ holders' = holders \ {r} /\ r \in holders /\ wake[r] = Never
    BY <1>6 DEF Release
  <2>2. Cardinality(holders') <= Size
    BY <1>0, <2>1, SleepersFinite
  <2> QED BY <1>0, <2>1, <2>2, RestKeeps DEF PaceTypes, Asleep
<1>7. CASE Tick
  BY <1>0, <1>7, RestKeeps DEF Tick, PaceTypes, Asleep
<1>8. CASE UNCHANGED paceVars
  BY <1>0, <1>8, RestKeeps DEF paceVars, PaceTypes, Asleep
<1> QED BY <1>3, <1>4, <1>5, <1>6, <1>7, <1>8 DEF PaceNext

(* RequestThrottle.waitFor (throttle.ts): requests that read the last      *)
(* dispatch before one of them moves it go out together, however late they *)
(* wake up, but of any Size + 1 dispatches in a row the first and the last *)
(* are a gap apart.                                                        *)
THEOREM PaceTheorem == PaceSpec => []SlotsPaced
PROOF
<1>1. ASSUME PaceInv PROVE SlotsPaced
  <2> SUFFICES ASSUME Len(dispatched) = Size + 1
               PROVE  Apart(dispatched[1], dispatched[Size + 1])
    BY DEF SlotsPaced, Apart
  <2>1. /\ Size \in Nat \ {0} /\ Gaps \subseteq Nat
        /\ DOMAIN dispatched = 1 .. (Size + 1)
        /\ \A i \in 1 .. (Size + 1) : dispatched[i] \in Nat
        /\ 1 \in 1 .. (Size + 1) /\ Size + 1 \in 1 .. (Size + 1)
    BY <1>1, PaceAssumption, LenProperties DEF PaceInv, PaceTypes
  <2>2. Cardinality(Early(wake, dispatched[1])) \in Nat
    <3>1. Early(wake, dispatched[1]) \in SUBSET holders
      BY <1>1 DEF Early, Asleep, PaceInv, PaceTypes
    <3> QED BY <1>1, <3>1, SleepersFinite DEF PaceInv
  <2>3. Spaced(1)
    BY <1>1, <2>1 DEF PaceInv
  <2>4. ~ (Len(dispatched) + Cardinality(Early(wake, dispatched[1])) < Size + 1)
    <3> DEFINE early == Cardinality(Early(wake, dispatched[1]))
    <3>1. early \in Nat  BY <2>2
    <3> HIDE DEF early
    <3>2. ~ (Len(dispatched) + early < Size + 1)  BY <2>1, <3>1
    <3> QED BY <3>2 DEF early
  <2>5. PICK j \in 2 .. (Size + 1) : Apart(dispatched[1], dispatched[j])
    <3>1. \E j \in 1 + 1 .. Len(dispatched) : Apart(dispatched[1], dispatched[j])
      BY <2>3, <2>4, Zenon DEF Spaced
    <3>2. 1 + 1 .. Len(dispatched) = 2 .. (Size + 1)  OBVIOUS
    <3> QED BY <3>1, <3>2, Zenon
  <2>6. dispatched[j] <= dispatched[Size + 1] /\ j \in 1 .. (Size + 1)
    BY <1>1, <2>1 DEF PaceInv, Ordered
  <2> QED BY <2>1, <2>6, <2>5 DEF Apart
<1> QED BY <1>1, PaceInitial, PaceStep, PTL DEF PaceSpec

-----------------------------------------------------------------------------
(* The design cache: what calls that run side by side answer, and how far  *)
(* the directory may outgrow its limit.                                    *)
CacheAssumption == IsFiniteSet(Clients) /\ MaxEntries \in Nat /\ Partial \notin Nat

CacheKeys == [query : Queries, version : Nat]
Entry == [content : Nat \cup {Partial}, newer : SUBSET CacheKeys]
CallStages == {"idle", "version", "lookup", "fetch", "open", "write", "evict", "stat",
               "remove", "done", "failed"}
Call == [pc : CallStages, query : Queries \cup {Partial}, asked : Nat, version : Nat,
         attempt : Nat, answer : Nat \cup {Partial}, listed : SUBSET CacheKeys,
         doomed : SUBSET CacheKeys, upTo : Nat]

CacheTypes ==
  /\ current \in Nat \ {0} /\ client \in [Clients -> Call]
  /\ Held \in SUBSET CacheKeys /\ IsFiniteSet(Held) /\ entries \in [Held -> Entry]
  /\ openings \in Nat /\ paid \in Nat /\ paid <= openings
  /\ \A c \in Clients : /\ client[c].pc # "idle" => client[c].query \in Queries
                        /\ client[c].upTo <= openings

\* A call asked, then learnt the version, then got its answer; and the file
\* has not been edited back since.
CallTrue(c) ==
  /\ client[c].pc # "idle" => client[c].asked \in 1..current
  /\ client[c].pc \in {"lookup", "fetch", "open", "write", "evict", "stat", "remove", "done"} =>
       client[c].version \in client[c].asked .. current
  /\ client[c].pc \in {"open", "write", "evict", "stat", "remove", "done"} =>
       client[c].answer \in client[c].version .. current

\* An entry shows the version of its key, or one that was read later.
EntryTrue(k) == entries[k].content = Partial \/ entries[k].content \in k.version .. current

\* Of two files one was written last, and so on: a total order.
WrittenInTurn ==
  \A k \in Held :
    /\ entries[k].newer \subseteq Held \ {k}
    /\ \A l \in Held \ {k} : l \in entries[k].newer <=> k \notin entries[l].newer
    /\ \A l \in entries[k].newer : entries[l].newer \subseteq entries[k].newer

\* What came into the directory after a call listed it was opened since; what a
\* call at rm leaves is within the limit but for that.
Pays(c) ==
  /\ client[c].pc = "stat" => Cardinality(Held \ client[c].listed) <= openings - client[c].upTo
  /\ client[c].pc = "remove" =>
       Cardinality(Held \ client[c].doomed) <= MaxEntries + (openings - client[c].upTo)

Bounded == Cardinality(Held) <= MaxEntries + (openings - paid)

CacheInv ==
  /\ CacheTypes
  /\ \A c \in Clients : CallTrue(c) /\ Pays(c)
  /\ \A k \in Held : EntryTrue(k)
  /\ WrittenInTurn /\ Bounded

LEMMA CacheInitial == CacheAssumption /\ CacheInit => CacheInv
PROOF
<1> SUFFICES ASSUME CacheAssumption, CacheInit PROVE CacheInv
  OBVIOUS
<1>1. Held = {} /\ current = 1 /\ client = [c \in Clients |-> NoCall]
      /\ openings = 0 /\ paid = 0
  BY DEF CacheInit, Held
<1>2. CacheTypes
  <2>1. NoCall \in Call
    BY DEF NoCall, Call, CallStages
  <2>2. entries \in [Held -> Entry]
    BY <1>1 DEF CacheInit, Held
  <2> QED BY <1>1, <2>1, <2>2, FS_EmptySet DEF CacheTypes, NoCall
<1>3. \A c \in Clients : CallTrue(c) /\ Pays(c)
  BY <1>1 DEF CallTrue, Pays, NoCall
<1>4. Bounded
  BY <1>1, FS_EmptySet DEF Bounded, CacheAssumption
<1> QED BY <1>1, <1>2, <1>3, <1>4 DEF CacheInv, WrittenInTurn

\* The files of a listing that fewer than n newer ones in it have overtaken.
Newest(L, n) == {k \in L : ~(Cardinality(entries[k].newer \cap L) >= n)}

\* They are n at most: the oldest of them has been overtaken by the others.
LEMMA NewestFit ==
  ASSUME CacheTypes, WrittenInTurn, NEW L \in SUBSET Held, NEW n \in Nat
  PROVE  IsFiniteSet(Newest(L, n)) /\ Cardinality(Newest(L, n)) <= n
PROOF
<1> DEFINE Kept == Newest(L, n)
           Over(k) == entries[k].newer \cap L
           Cut(k) == L \ Over(k)
           Cuts == {Cut(k) : k \in Kept}
<1>1. IsFiniteSet(L) /\ IsFiniteSet(Kept) /\ Kept \subseteq L /\ L \subseteq Held
  <2>1. IsFiniteSet(L)
    BY FS_Subset DEF CacheTypes
  <2> QED BY <2>1, FS_Subset DEF Newest
<1>2. CASE Kept = {}
  BY <1>1, <1>2, FS_EmptySet
<1>3. CASE Kept # {}
  <2>1. Cuts \subseteq FiniteSubsetsOf(L) /\ Cuts # {}
    <3>1. \A k \in Kept : Cut(k) \in SUBSET L /\ IsFiniteSet(Cut(k))
      BY <1>1, FS_Subset
    <3> HIDE DEF Kept, Cut
    <3> QED BY <1>3, <3>1 DEF FiniteSubsetsOf
  <2>2. PICK C \in Cuts : \A D \in Cuts : ~(<<D, C>> \in StrictSubsetOrdering(L))
    <3> HIDE DEF Cuts
    <3> QED BY <1>1, <2>1, WFMin, FS_StrictSubsetOrderingWellFounded
  <2>3. PICK k \in Kept : C = Cut(k)
    OBVIOUS
  <2>4. ASSUME NEW l \in Kept, l # k PROVE l \in Over(k)
    <3>1. CASE l \notin Over(k)
      <4>1. k \in entries[l].newer /\ entries[k].newer \subseteq entries[l].newer
        BY <1>1, <2>4, <3>1 DEF WrittenInTurn
      <4>2. k \in L /\ k \notin entries[k].newer
        BY <1>1 DEF WrittenInTurn
      <4>3. Cut(l) \subseteq Cut(k) /\ Cut(l) # Cut(k)
        BY <4>1, <4>2
      <4>4. Cut(l) \in SUBSET L /\ Cut(k) \in SUBSET L /\ Cut(l) \in Cuts
        BY <2>4
      <4> HIDE DEF Cut, Cuts, Kept
      <4> QED BY <2>2, <2>3, <4>3, <4>4 DEF StrictSubsetOrdering
    <3> QED BY <3>1
  <2>5. IsFiniteSet(Over(k)) /\ k \notin Over(k)
    BY <1>1, FS_Subset DEF WrittenInTurn
  <2>6. /\ Cardinality(Over(k) \cup {k}) = Cardinality(Over(k)) + 1
        /\ IsFiniteSet(Over(k) \cup {k})
        /\ Cardinality(Over(k)) \in Nat
    <3> HIDE DEF Over
    <3> QED BY <2>5, FS_AddElement, FS_CardinalityType
  <2>7. Kept \subseteq Over(k) \cup {k}
    BY <2>4
  <2>8. Cardinality(Kept) <= Cardinality(Over(k) \cup {k}) /\ Cardinality(Kept) \in Nat
    <3> HIDE DEF Kept, Over
    <3> QED BY <1>1, <2>6, <2>7, FS_Subset, FS_CardinalityType
  <2>9. ~(Cardinality(Over(k)) >= n)
    BY DEF Newest
  <2> QED BY <1>1, <2>6, <2>8, <2>9
<1> QED BY <1>2, <1>3

\* A call moves alone, and what it asked for stays what it asked for.
Moves(c) ==
  /\ client' \in [Clients -> Call]
  /\ \A d \in Clients \ {c} : client'[d] = client[d]
  /\ client'[c].pc # "idle" => client'[c].query \in Queries
  /\ client'[c].upTo \in {0, client[c].upTo, openings}

\* What a set in the directory loses, or one new file adds, is told by counting.
LEMMA FewerLeft ==
  ASSUME NEW A, IsFiniteSet(A), NEW B \in SUBSET A
  PROVE  IsFiniteSet(B) /\ Cardinality(B) \in Nat /\ Cardinality(A) \in Nat
         /\ Cardinality(B) <= Cardinality(A)
  BY FS_Subset, FS_CardinalityType

LEMMA OneMoreLeft ==
  ASSUME NEW A, IsFiniteSet(A), NEW k
  PROVE  Cardinality(A \cup {k}) <= Cardinality(A) + 1 /\ IsFiniteSet(A \cup {k})
         /\ Cardinality(A \cup {k}) \in Nat /\ Cardinality(A) \in Nat
PROOF
<1>1. Cardinality(A) \in Nat
  BY FS_CardinalityType
<1>2. CASE k \in A
  <2>1. A \cup {k} = A
    BY <1>2
  <2> QED BY <1>1, <2>1
<1>3. CASE k \notin A
  BY <1>1, <1>3, FS_AddElement
<1> QED BY <1>2, <1>3

LEMMA AllowanceGrows ==
  ASSUME NEW a \in Nat, NEW b \in Nat, NEW before \in Nat, NEW after \in Nat,
         NEW mark \in Nat, NEW limit \in Nat,
         a + before <= b + after, b <= limit + (before - mark)
  PROVE  a <= limit + (after - mark)
  OBVIOUS

\* The directory as its types and the entries in it.
Directory ==
  /\ Held \in SUBSET CacheKeys /\ IsFiniteSet(Held) /\ entries \in [Held -> Entry]
  /\ \A k \in Held : EntryTrue(k)
  /\ WrittenInTurn

LEMMA SameDirectory ==
  ASSUME CacheInv, UNCHANGED <<current, entries>>
  PROVE  Directory' /\ Held' = Held
  BY DEF CacheInv, CacheTypes, Directory, Held, EntryTrue, WrittenInTurn

\* A call that moves, whatever it makes of the directory, leaves to the others
\* what they have.
LEMMA MoveKeeps ==
  ASSUME CacheAssumption, CacheInv, NEW c \in Clients, Moves(c), UNCHANGED current,
         Directory', CallTrue(c)', Pays(c)', Bounded',
         paid' \in Nat, paid' <= openings',
         \/ Held' \subseteq Held /\ openings' = openings
         \/ openings' = openings + 1 /\ \E k : Held' = Held \cup {k}
  PROVE  CacheInv'
PROOF
<1>0. CacheTypes /\ IsFiniteSet(Held) /\ openings \in Nat /\ MaxEntries \in Nat
  BY DEF CacheInv, CacheTypes, CacheAssumption
<1>1. openings' \in Nat /\ openings <= openings'
  BY <1>0
<1>2. ASSUME NEW d \in Clients
      PROVE  /\ client'[d].upTo <= openings' /\ (client'[d].pc # "idle" => client'[d].query \in Queries)
             /\ client[d].upTo \in Nat
  <2>1. client[d] \in Call /\ client[d].upTo <= openings
    BY <1>0 DEF CacheTypes
  <2>2. client'[d].upTo \in {0, client[d].upTo, openings}
    BY DEF Moves
  <2>3. client'[d].pc # "idle" => client'[d].query \in Queries
    BY <1>0 DEF Moves, CacheTypes
  <2> QED BY <1>0, <1>1, <2>1, <2>2, <2>3 DEF Call
<1>3. CacheTypes'
  BY <1>0, <1>1, <1>2 DEF CacheTypes, Moves, Directory
<1>4. ASSUME NEW d \in Clients PROVE CallTrue(d)'
  BY DEF CacheInv, CallTrue, Moves
<1>5. ASSUME NEW X
      PROVE  /\ Cardinality(Held' \ X) \in Nat /\ Cardinality(Held \ X) \in Nat
             /\ Cardinality(Held' \ X) + openings <= Cardinality(Held \ X) + openings'
  <2>0. IsFiniteSet(Held \ X)
    BY <1>0, FS_Subset
  <2>1. CASE Held' \subseteq Held /\ openings' = openings
    <3>1. Held' \ X \in SUBSET (Held \ X)
      BY <2>1
    <3> QED BY <1>0, <2>0, <2>1, <3>1, FewerLeft
  <2>2. CASE openings' = openings + 1 /\ \E k : Held' = Held \cup {k}
    <3>1. PICK k : Held' = Held \cup {k}
      BY <2>2
    <3>2. Held' \ X \in SUBSET ((Held \ X) \cup {k})
      BY <3>1
    <3>3. /\ Cardinality((Held \ X) \cup {k}) <= Cardinality(Held \ X) + 1
          /\ IsFiniteSet((Held \ X) \cup {k})
          /\ Cardinality((Held \ X) \cup {k}) \in Nat /\ Cardinality(Held \ X) \in Nat
      BY <2>0, OneMoreLeft
    <3>4. /\ Cardinality(Held' \ X) <= Cardinality((Held \ X) \cup {k})
          /\ Cardinality(Held' \ X) \in Nat
      BY <3>2, <3>3, FewerLeft
    <3> QED BY <1>0, <2>2, <3>3, <3>4
  <2> QED BY <2>1, <2>2
<1>6. ASSUME NEW d \in Clients PROVE Pays(d)'
  <2>1. CASE d = c
    BY <2>1
  <2>2. CASE d # c
    <3>1. client'[d] = client[d] /\ Pays(d) /\ client[d].upTo \in Nat
      BY <1>2, <2>2 DEF Moves, CacheInv
    <3>2. ASSUME client[d].pc = "stat"
          PROVE  Cardinality(Held' \ client[d].listed) <= openings' - client[d].upTo
      <4>1. Cardinality(Held \ client[d].listed) <= openings - client[d].upTo
        BY <3>1, <3>2 DEF Pays
      <4> DEFINE a == Cardinality(Held' \ client[d].listed)
                 b == Cardinality(Held \ client[d].listed)
      <4>2. a \in Nat /\ b \in Nat /\ a + openings <= b + openings'
        BY <1>5
      <4>3. b <= 0 + (openings - client[d].upTo)
        BY <1>0, <3>1, <4>1
      <4> HIDE DEF a, b
      <4>4. a <= 0 + (openings' - client[d].upTo)
        BY <1>0, <1>1, <3>1, <4>2, <4>3, AllowanceGrows
      <4> QED BY <1>1, <3>1, <4>4 DEF a
    <3>3. ASSUME client[d].pc = "remove"
          PROVE  Cardinality(Held' \ client[d].doomed) <= MaxEntries + (openings' - client[d].upTo)
      <4>1. Cardinality(Held \ client[d].doomed) <= MaxEntries + (openings - client[d].upTo)
        BY <3>1, <3>3 DEF Pays
      <4> DEFINE a == Cardinality(Held' \ client[d].doomed)
                 b == Cardinality(Held \ client[d].doomed)
      <4>2. a \in Nat /\ b \in Nat /\ a + openings <= b + openings'
        BY <1>5
      <4>3. b <= MaxEntries + (openings - client[d].upTo)
        BY <4>1
      <4> HIDE DEF a, b
      <4>4. a <= MaxEntries + (openings' - client[d].upTo)
        BY <1>0, <1>1, <3>1, <4>2, <4>3, AllowanceGrows
      <4> QED BY <4>4 DEF a
    <3> QED BY <3>1, <3>2, <3>3 DEF Pays
  <2> QED BY <2>1, <2>2
<1> QED BY <1>3, <1>4, <1>6 DEF CacheInv, Directory

\* Most steps of a call leave the directory be.
LEMMA CallKeeps ==
  ASSUME CacheAssumption, CacheInv, NEW c \in Clients, Moves(c),
         UNCHANGED <<current, entries, openings, paid>>,
         client'[c].pc \notin {"stat", "remove"}, CallTrue(c)'
  PROVE  CacheInv'
PROOF
<1>1. Directory' /\ Held' = Held
  BY SameDirectory
<1>2. Bounded' /\ Pays(c)' /\ paid' \in Nat /\ paid' <= openings'
  BY <1>1 DEF CacheInv, CacheTypes, Bounded, Pays
<1> QED BY <1>1, <1>2, MoveKeeps

LEMMA EditKeeps == ASSUME CacheInv, EditDesign PROVE CacheInv'
PROOF
<1>1. current' \in Nat \ {0} /\ current' >= current
      /\ UNCHANGED <<entries, client, openings, paid>>
  BY DEF EditDesign, CacheInv, CacheTypes
<1>2. CacheTypes'
  BY <1>1 DEF CacheInv, CacheTypes, Held
<1>3. ASSUME NEW c \in Clients PROVE CallTrue(c)' /\ Pays(c)'
  <2>1. CallTrue(c)'
    BY <1>1 DEF CacheInv, CallTrue, CacheTypes
  <2>2. Held' = Held
    BY <1>1 DEF Held
  <2> QED BY <1>1, <2>1, <2>2 DEF CacheInv, Pays
<1>4. ASSUME NEW k \in Held PROVE EntryTrue(k)'
  BY <1>1 DEF CacheInv, EntryTrue, CacheTypes
<1>5. WrittenInTurn' /\ Held' = Held /\ Bounded'
  BY <1>1 DEF CacheInv, WrittenInTurn, Held, Bounded
<1> QED BY <1>2, <1>3, <1>4, <1>5 DEF CacheInv

LEMMA AskKeeps ==
  ASSUME CacheAssumption, CacheInv, NEW c \in Clients, NEW q \in Queries, Ask(c, q)
  PROVE  CacheInv'
PROOF
<1> DEFINE new == [NoCall EXCEPT !.pc = "version", !.query = q, !.asked = current]
<1>0. CacheTypes
  BY DEF CacheInv
<1>1. new \in Call /\ new.pc = "version" /\ new.query = q /\ new.asked = current /\ new.upTo = 0
  BY <1>0 DEF CacheTypes, NoCall, Call, CallStages
<1>2. client' = [client EXCEPT ![c] = new] /\ UNCHANGED <<current, entries, openings, paid>>
      /\ client[c].pc = "idle"
  BY DEF Ask, At
<1> HIDE DEF new
<1>3. Moves(c) /\ client'[c] = new
  BY <1>0, <1>1, <1>2 DEF Moves, CacheTypes
<1>4. CallTrue(c)'
  BY <1>0, <1>1, <1>2, <1>3 DEF CallTrue, CacheTypes
<1> QED BY <1>1, <1>2, <1>3, <1>4, CallKeeps

LEMMA AnsweredKeeps ==
  ASSUME CacheAssumption, CacheInv, NEW c \in Clients, Answered(c)
  PROVE  CacheInv'
PROOF
<1>0. CacheTypes /\ client[c] \in Call /\ CallTrue(c) /\ current \in Nat
  BY DEF CacheInv, CacheTypes
<1>1. CASE At(c, "version")
  <2> DEFINE new == [client[c] EXCEPT !.attempt = 0, !.pc = "lookup", !.version = current]
  <2>1. new \in Call /\ new.pc = "lookup" /\ new.query = client[c].query /\ new.upTo = client[c].upTo
        /\ new.version = current /\ new.asked = client[c].asked
    BY <1>0 DEF Call, CallStages
  <2>2. client' = [client EXCEPT ![c] = new] /\ UNCHANGED <<current, entries, openings, paid>>
    BY <1>0, <1>1 DEF Answered, At, CacheTypes, Call
  <2> HIDE DEF new
  <2>3. Moves(c) /\ client'[c] = new
    BY <1>0, <1>1, <2>1, <2>2 DEF Moves, CacheTypes, At
  <2>4. CallTrue(c)'
    BY <1>0, <1>1, <2>1, <2>2, <2>3 DEF CallTrue, At
  <2> QED BY <1>1, <2>1, <2>2, <2>3, <2>4, CallKeeps DEF At
<1>2. CASE At(c, "fetch")
  <2> DEFINE new == [client[c] EXCEPT !.attempt = 0, !.pc = "open", !.answer = current]
  <2>1. new \in Call /\ new.pc = "open" /\ new.query = client[c].query /\ new.upTo = client[c].upTo
        /\ new.version = client[c].version /\ new.asked = client[c].asked
        /\ new.answer = current
    BY <1>0 DEF Call, CallStages
  <2>2. client' = [client EXCEPT ![c] = new] /\ UNCHANGED <<current, entries, openings, paid>>
    BY <1>0, <1>2 DEF Answered, At, CacheTypes, Call
  <2> HIDE DEF new
  <2>3. Moves(c) /\ client'[c] = new
    BY <1>0, <1>2, <2>1, <2>2 DEF Moves, CacheTypes, At
  <2>4. CallTrue(c)'
    BY <1>0, <1>2, <2>1, <2>2, <2>3 DEF CallTrue, At
  <2> QED BY <1>2, <2>1, <2>2, <2>3, <2>4, CallKeeps DEF At
<1> QED BY <1>1, <1>2 DEF Answered

LEMMA FailuresKeep ==
  ASSUME CacheAssumption, CacheInv, NEW c \in Clients, Repeated(c) \/ Refused(c)
  PROVE  CacheInv'
PROOF
<1>0. /\ CacheTypes /\ client[c] \in Call /\ CallTrue(c)
      /\ client[c].pc \in {"version", "fetch"} /\ UNCHANGED <<current, entries, openings, paid>>
  BY DEF CacheInv, CacheTypes, Repeated, Refused, At
<1>1. PICK new \in Call :
        /\ client' = [client EXCEPT ![c] = new] /\ new.pc \in {client[c].pc, "failed"}
        /\ new.query = client[c].query /\ new.asked = client[c].asked
        /\ new.version = client[c].version /\ new.upTo = client[c].upTo
  <2>1. CASE Repeated(c)
    <3> DEFINE new == [client[c] EXCEPT !.attempt = @ + 1]
    <3>1. new \in Call /\ client' = [client EXCEPT ![c] = new]
      BY <1>0, <2>1 DEF Repeated, CacheTypes, Call
    <3> QED BY <1>0, <3>1 DEF Call
  <2>2. CASE Refused(c)
    <3> DEFINE new == [client[c] EXCEPT !.pc = "failed"]
    <3>1. new \in Call /\ client' = [client EXCEPT ![c] = new]
      BY <1>0, <2>2 DEF Refused, Proceed, CacheTypes, Call, CallStages
    <3> QED BY <1>0, <3>1 DEF Call
  <2> QED BY <2>1, <2>2
<1>2. Moves(c) /\ client'[c] = new
  BY <1>0, <1>1 DEF Moves, CacheTypes
<1>3. CallTrue(c)'
  BY <1>0, <1>1, <1>2 DEF CallTrue
<1> QED BY <1>0, <1>1, <1>2, <1>3, CallKeeps

\* A hit answers what the entry shows, which is no older than its key.
LEMMA LookupKeeps ==
  ASSUME CacheAssumption, CacheInv, NEW c \in Clients, Lookup(c)
  PROVE  CacheInv'
PROOF
<1>0. /\ CacheTypes /\ client[c] \in Call /\ CallTrue(c) /\ client[c].pc = "lookup"
      /\ UNCHANGED <<current, entries, openings, paid>> /\ client[c].query \in Queries
  BY DEF CacheInv, CacheTypes, Lookup, At
<1>1. CASE Key(c) \in Held /\ entries[Key(c)].content # Partial
  <2> DEFINE found == entries[Key(c)].content
             new == [client[c] EXCEPT !.pc = "done", !.answer = found]
  <2>1. found \in Nat /\ found \in client[c].version .. current
    <3>1. EntryTrue(Key(c)) /\ entries[Key(c)] \in Entry
      BY <1>0, <1>1 DEF CacheInv, CacheTypes
    <3>2. Key(c).version = client[c].version
      BY DEF Key
    <3> QED BY <1>1, <3>1, <3>2 DEF EntryTrue, Entry
  <2>2. client' = [client EXCEPT ![c] = new]
    BY <1>0, <1>1 DEF Lookup, CacheTypes, Call
  <2> HIDE DEF found
  <2>3. new \in Call /\ new.pc = "done" /\ new.query = client[c].query /\ new.upTo = client[c].upTo
        /\ new.asked = client[c].asked /\ new.version = client[c].version
        /\ new.answer = found
    BY <1>0, <2>1 DEF Call, CallStages
  <2> HIDE DEF new
  <2>4. Moves(c) /\ client'[c] = new
    BY <1>0, <2>2, <2>3 DEF Moves, CacheTypes
  <2>5. CallTrue(c)'
    BY <1>0, <2>1, <2>3, <2>4 DEF CallTrue
  <2> QED BY <1>0, <2>3, <2>4, <2>5, CallKeeps
<1>2. CASE ~(Key(c) \in Held /\ entries[Key(c)].content # Partial)
  <2> DEFINE new == [client[c] EXCEPT !.pc = "fetch"]
  <2>1. client' = [client EXCEPT ![c] = new]
    BY <1>0, <1>2 DEF Lookup, Proceed, CacheTypes, Call
  <2>2. new \in Call /\ new.pc = "fetch" /\ new.query = client[c].query /\ new.upTo = client[c].upTo
        /\ new.asked = client[c].asked /\ new.version = client[c].version
    BY <1>0 DEF Call, CallStages
  <2> HIDE DEF new
  <2>3. Moves(c) /\ client'[c] = new
    BY <1>0, <2>1, <2>2 DEF Moves, CacheTypes
  <2>4. CallTrue(c)'
    BY <1>0, <2>2, <2>3 DEF CallTrue
  <2> QED BY <1>0, <2>2, <2>3, <2>4, CallKeeps
<1> QED BY <1>1, <1>2

LEMMA ReturnKeeps ==
  ASSUME CacheAssumption, CacheInv, NEW c \in Clients, CallReturns(c)
  PROVE  CacheInv'
PROOF
<1>0. /\ CacheTypes /\ client[c].pc \in {"done", "failed"} /\ UNCHANGED <<current, entries, openings, paid>>
      /\ client' = [client EXCEPT ![c] = NoCall]
  BY DEF CacheInv, CallReturns, At
<1>1. NoCall \in Call /\ NoCall.pc = "idle" /\ NoCall.upTo = 0
  BY DEF NoCall, Call, CallStages
<1>2. Moves(c) /\ client'[c] = NoCall
  BY <1>0, <1>1 DEF Moves, CacheTypes
<1>3. CallTrue(c)'
  BY <1>1, <1>2 DEF CallTrue
<1> QED BY <1>0, <1>1, <1>2, <1>3, CallKeeps

-----------------------------------------------------------------------------
\* A file written is the newest, and one more at most.
LEMMA WriteIs ==
  ASSUME CacheInv, NEW c \in Clients, client[c].query \in Queries,
         NEW content \in Nat \cup {Partial}, Write(c, content), UNCHANGED current,
         content = Partial \/ content \in client[c].version .. current
  PROVE  /\ Held' = Held \cup {Key(c)} /\ Held' \in SUBSET CacheKeys /\ IsFiniteSet(Held')
         /\ entries' \in [Held' -> Entry]
         /\ Directory'
PROOF
<1> DEFINE key == Key(c)
<1>0. /\ CacheTypes /\ WrittenInTurn /\ IsFiniteSet(Held) /\ Held \in SUBSET CacheKeys
      /\ entries \in [Held -> Entry] /\ client[c] \in Call
  BY DEF CacheInv, CacheTypes
<1>1. key \in CacheKeys /\ key.version = client[c].version
  BY <1>0 DEF Key, CacheKeys, Call
<1>2. entries' = [k \in Held \cup {key} |->
                    IF k = key THEN [content |-> content, newer |-> {}]
                    ELSE [entries[k] EXCEPT !.newer = @ \cup {key}]]
  BY DEF Write
<1> HIDE DEF key
<1>3. Held' = Held \cup {key} /\ IsFiniteSet(Held')
  <2>1. Held' = Held \cup {key}
    BY <1>2 DEF Held
  <2> QED BY <1>0, <2>1, FS_AddElement
<1>4. entries'[key].content = content /\ entries'[key].newer = {} /\ entries'[key] \in Entry
  BY <1>2 DEF Entry
<1>5. ASSUME NEW k \in Held, k # key
      PROVE  /\ entries'[k].content = entries[k].content /\ entries'[k] \in Entry
             /\ entries'[k].newer = entries[k].newer \cup {key}
  <2>1. entries[k] \in Entry /\ entries'[k] = [entries[k] EXCEPT !.newer = @ \cup {key}]
    BY <1>0, <1>2, <1>5
  <2> QED BY <1>1, <2>1 DEF Entry
<1>6. entries' \in [Held' -> Entry]
  BY <1>2, <1>3, <1>4, <1>5
<1>7. ASSUME NEW k \in Held' PROVE EntryTrue(k)'
  BY <1>1, <1>3, <1>4, <1>5 DEF EntryTrue, CacheInv
<1>8. WrittenInTurn'
  BY <1>0, <1>3, <1>4, <1>5 DEF WrittenInTurn
<1> QED BY <1>0, <1>1, <1>3, <1>6, <1>7, <1>8 DEF key, Directory

\* Files removed leave the others in their order.
LEMMA WithoutIs ==
  ASSUME CacheInv, NEW gone, entries' = Without(gone), UNCHANGED current
  PROVE  /\ Held' = Held \ gone /\ Held' \in SUBSET CacheKeys /\ IsFiniteSet(Held')
         /\ entries' \in [Held' -> Entry]
         /\ Directory'
PROOF
<1>0. /\ CacheTypes /\ WrittenInTurn /\ IsFiniteSet(Held) /\ Held \in SUBSET CacheKeys
      /\ entries \in [Held -> Entry]
  BY DEF CacheInv, CacheTypes
<1>1. entries' = [k \in Held \ gone |-> [entries[k] EXCEPT !.newer = @ \ gone]]
  BY DEF Without
<1>2. Held' = Held \ gone /\ IsFiniteSet(Held')
  BY <1>0, <1>1, FS_Subset DEF Held
<1>3. ASSUME NEW k \in Held \ gone
      PROVE  /\ entries'[k].content = entries[k].content /\ entries'[k] \in Entry
             /\ entries'[k].newer = entries[k].newer \ gone
  <2>1. entries[k] \in Entry /\ entries'[k] = [entries[k] EXCEPT !.newer = @ \ gone]
    BY <1>0, <1>1
  <2> QED BY <2>1 DEF Entry
<1>4. entries' \in [Held' -> Entry]
  BY <1>1, <1>2, <1>3
<1>5. ASSUME NEW k \in Held' PROVE EntryTrue(k)'
  BY <1>2, <1>3 DEF EntryTrue, CacheInv
<1>6. WrittenInTurn'
  BY <1>0, <1>2, <1>3 DEF WrittenInTurn
<1> QED BY <1>0, <1>2, <1>4, <1>5, <1>6 DEF Directory

\* The moves of a call that writes: only its pc changes.
LEMMA ProceedIs ==
  ASSUME CacheTypes, NEW c \in Clients, NEW onto \in CallStages \ {"idle"}, Proceed(c, onto),
         client[c].query \in Queries
  PROVE  /\ Moves(c) /\ client'[c].pc = onto /\ Key(c)' = Key(c)
         /\ client'[c].asked = client[c].asked /\ client'[c].version = client[c].version
         /\ client'[c].answer = client[c].answer /\ client'[c].query = client[c].query
         /\ client'[c].doomed = client[c].doomed /\ client'[c].upTo = client[c].upTo
PROOF
<1> DEFINE new == [client[c] EXCEPT !.pc = onto]
<1>1. client[c] \in Call
  BY DEF CacheTypes
<1>2. /\ new \in Call /\ new.pc = onto /\ new.query = client[c].query
      /\ new.asked = client[c].asked /\ new.version = client[c].version
      /\ new.answer = client[c].answer /\ new.doomed = client[c].doomed
      /\ new.upTo = client[c].upTo
  BY <1>1 DEF Call
<1>3. client' = [client EXCEPT ![c] = new]
  BY <1>1 DEF Proceed, CacheTypes, Call
<1> HIDE DEF new
<1>4. client'[c] = new /\ Moves(c)
  BY <1>2, <1>3 DEF Moves, CacheTypes
<1> QED BY <1>2, <1>4 DEF Key

\* An emptied file is one more in the directory, and one more opened.
LEMMA OpenKeeps ==
  ASSUME CacheAssumption, CacheInv, NEW c \in Clients, OpenEntry(c)
  PROVE  CacheInv'
PROOF
<1>0. /\ CacheTypes /\ CallTrue(c) /\ client[c].pc = "open" /\ UNCHANGED <<current, paid>>
      /\ client[c].query \in Queries /\ Write(c, Partial) /\ Proceed(c, "write")
      /\ openings' = openings + 1
  BY DEF CacheInv, CacheTypes, OpenEntry, At
<1>1. /\ Moves(c) /\ client'[c].pc = "write" /\ client'[c].asked = client[c].asked
      /\ client'[c].version = client[c].version /\ client'[c].answer = client[c].answer
  BY <1>0, ProceedIs DEF CallStages
<1>2. Held' = Held \cup {Key(c)} /\ Directory'
  BY <1>0, WriteIs
<1>3. CallTrue(c)' /\ Pays(c)'
  BY <1>0, <1>1 DEF CallTrue, Pays
<1>4. Bounded' /\ paid' \in Nat /\ paid' <= openings'
  <2>1. /\ Cardinality(Held') <= Cardinality(Held) + 1
        /\ Cardinality(Held') \in Nat /\ Cardinality(Held) \in Nat
    BY <1>0, <1>2, OneMoreLeft DEF CacheTypes
  <2> QED BY <1>0, <2>1 DEF CacheInv, CacheTypes, CacheAssumption, Bounded
<1> QED BY <1>0, <1>1, <1>2, <1>3, <1>4, MoveKeeps

\* The content goes into the file that is there, or nowhere.
LEMMA WriteKeeps ==
  ASSUME CacheAssumption, CacheInv, NEW c \in Clients, WriteEntry(c)
  PROVE  CacheInv'
PROOF
<1>0. /\ CacheTypes /\ CallTrue(c) /\ client[c].pc = "write"
      /\ UNCHANGED <<current, openings, paid>>
      /\ client[c].query \in Queries /\ Proceed(c, "evict") /\ client[c] \in Call
      /\ client[c].answer \in client[c].version .. current
  BY DEF CacheInv, CacheTypes, WriteEntry, At, CallTrue
<1>1. /\ Moves(c) /\ client'[c].pc = "evict" /\ client'[c].asked = client[c].asked
      /\ client'[c].version = client[c].version /\ client'[c].answer = client[c].answer
  BY <1>0, ProceedIs DEF CallStages
<1>2. Held' = Held /\ Directory'
  <2>1. CASE Key(c) \in Held
    <3>1. Write(c, client[c].answer) /\ client[c].answer \in Nat \cup {Partial}
      BY <1>0, <2>1 DEF WriteEntry, Call
    <3>2. Held \cup {Key(c)} = Held
      BY <2>1
    <3> QED BY <1>0, <3>1, <3>2, WriteIs
  <2>2. CASE UNCHANGED entries
    BY <1>0, <2>2, SameDirectory
  <2> QED BY <2>1, <2>2 DEF WriteEntry
<1>3. CallTrue(c)' /\ Pays(c)'
  BY <1>0, <1>1 DEF CallTrue, Pays
<1>4. Bounded' /\ paid' \in Nat /\ paid' <= openings'
  BY <1>0, <1>2 DEF CacheInv, CacheTypes, Bounded
<1> QED BY <1>0, <1>1, <1>2, <1>3, <1>4, MoveKeeps

LEMMA WriteFailsKeeps ==
  ASSUME CacheAssumption, CacheInv, NEW c \in Clients, WriteFails(c)
  PROVE  CacheInv'
PROOF
<1>0. /\ CacheTypes /\ CallTrue(c) /\ client[c].pc \in {"open", "write"}
      /\ UNCHANGED <<current, entries, openings, paid>>
      /\ client[c].query \in Queries /\ Proceed(c, "failed")
  BY DEF CacheInv, CacheTypes, WriteFails, At
<1>1. Moves(c) /\ client'[c].pc = "failed" /\ client'[c].asked = client[c].asked
  BY <1>0, ProceedIs DEF CallStages
<1>2. CallTrue(c)'
  BY <1>0, <1>1 DEF CallTrue
<1> QED BY <1>0, <1>1, <1>2, CallKeeps

\* A listing has all there is, so far.
LEMMA ListKeeps ==
  ASSUME CacheAssumption, CacheInv, NEW c \in Clients, ListEntries(c)
  PROVE  CacheInv'
PROOF
<1>0. /\ CacheTypes /\ CallTrue(c) /\ client[c].pc = "evict"
      /\ UNCHANGED <<current, entries, openings>> /\ MaxEntries \in Nat
      /\ client[c].query \in Queries /\ client[c] \in Call /\ openings \in Nat
  BY DEF CacheInv, CacheTypes, CacheAssumption, ListEntries, At
<1>1. Directory' /\ Held' = Held
  BY <1>0, SameDirectory
<1>2. CASE Proceed(c, "done") /\ paid' \in {openings, paid}
           /\ (paid' = openings => Cardinality(Held) <= MaxEntries \/ paid' = paid)
  <2>1. /\ Moves(c) /\ client'[c].pc = "done" /\ client'[c].asked = client[c].asked
        /\ client'[c].version = client[c].version /\ client'[c].answer = client[c].answer
    BY <1>0, <1>2, ProceedIs DEF CallStages
  <2>2. CallTrue(c)' /\ Pays(c)'
    BY <1>0, <2>1 DEF CallTrue, Pays
  <2>3. paid' \in Nat /\ paid' <= openings'
    BY <1>0, <1>2 DEF CacheTypes
  <2>4. Bounded'
    <3>1. CASE paid' = paid
      BY <1>0, <1>1, <3>1 DEF Bounded, CacheInv
    <3>2. CASE paid' = openings /\ Cardinality(Held) <= MaxEntries
      BY <1>0, <1>1, <3>2 DEF Bounded
    <3> QED BY <1>2, <3>1, <3>2
  <2> QED BY <1>0, <1>1, <2>1, <2>2, <2>3, <2>4, MoveKeeps
<1>3. CASE client' = [client EXCEPT ![c].pc = "stat", ![c].listed = Held, ![c].upTo = openings]
           /\ UNCHANGED paid
  <2> DEFINE new == [client[c] EXCEPT !.pc = "stat", !.listed = Held, !.upTo = openings]
  <2>1. client' = [client EXCEPT ![c] = new]
    BY <1>0, <1>3 DEF CacheTypes, Call
  <2>2. /\ new \in Call /\ new.pc = "stat" /\ new.listed = Held /\ new.upTo = openings
        /\ new.query = client[c].query /\ new.asked = client[c].asked
        /\ new.version = client[c].version /\ new.answer = client[c].answer
    BY <1>0 DEF Call, CallStages, CacheTypes
  <2> HIDE DEF new
  <2>3. Moves(c) /\ client'[c] = new
    BY <1>0, <2>1, <2>2 DEF Moves, CacheTypes
  <2>4. CallTrue(c)'
    BY <1>0, <2>2, <2>3 DEF CallTrue
  <2>5. Pays(c)'
    <3>1. Held' \ new.listed = {} /\ Cardinality({}) = 0
      BY <1>1, <2>2, FS_EmptySet
    <3>2. Cardinality(Held' \ new.listed) <= openings' - new.upTo
      BY <1>0, <2>2, <3>1
    <3> QED BY <2>2, <2>3, <3>2 DEF Pays
  <2>6. Bounded' /\ paid' \in Nat /\ paid' <= openings'
    BY <1>0, <1>1, <1>3 DEF CacheInv, CacheTypes, Bounded
  <2> QED BY <1>0, <1>1, <2>3, <2>4, <2>5, <2>6, MoveKeeps
<1> QED BY <1>2, <1>3 DEF ListEntries

\* What a call does not doom is within the limit, but for what is not in its
\* listing.
LEMMA StatKeeps ==
  ASSUME CacheAssumption, CacheInv, NEW c \in Clients, StatEntries(c)
  PROVE  CacheInv'
PROOF
<1> DEFINE L == client[c].listed
           old == {k \in L : Cardinality(entries[k].newer \cap L) >= MaxEntries}
           new == [client[c] EXCEPT !.pc = "remove", !.doomed = old]
<1>0. /\ CacheTypes /\ CallTrue(c) /\ client[c].pc = "stat" /\ WrittenInTurn
      /\ UNCHANGED <<current, entries, openings, paid>> /\ MaxEntries \in Nat
      /\ client[c].query \in Queries /\ client[c] \in Call /\ openings \in Nat
      /\ client[c].upTo \in Nat /\ Cardinality(Held \ L) <= openings - client[c].upTo
      /\ IsFiniteSet(Held) /\ L \in SUBSET CacheKeys
  BY DEF CacheInv, CacheTypes, CacheAssumption, StatEntries, At, Pays, Call
<1>1. CASE L \subseteq Held
  <2>1. client' = [client EXCEPT ![c] = new]
    BY <1>0, <1>1 DEF StatEntries, CacheTypes, Call
  <2>2. old \in SUBSET CacheKeys /\ Held \ old = Newest(L, MaxEntries) \cup (Held \ L)
    BY <1>0, <1>1 DEF Newest
  <2>3. Cardinality(Held \ old) <= MaxEntries + (openings - client[c].upTo)
    <3> DEFINE A == Newest(L, MaxEntries)
               B == Held \ L
    <3>1. IsFiniteSet(A) /\ Cardinality(A) <= MaxEntries /\ A \cap B = {}
      BY <1>0, <1>1, NewestFit DEF Newest
    <3>2. IsFiniteSet(B)
      BY <1>0, FS_Subset
    <3> HIDE DEF A, B
    <3>3. /\ Cardinality(A \cup B) =
               Cardinality(A) + Cardinality(B) - Cardinality(A \cap B)
          /\ Cardinality(A) \in Nat /\ Cardinality(B) \in Nat
      BY <3>1, <3>2, FS_Union, FS_CardinalityType
    <3>4. Cardinality(A \cup B) = Cardinality(A) + Cardinality(B)
      <4>1. Cardinality(A \cap B) = 0
        BY <3>1, FS_EmptySet
      <4> QED BY ONLY <3>3, <4>1
    <3>5. Cardinality(B) <= openings - client[c].upTo
      BY <1>0 DEF B
    <3>6. Held \ old = A \cup B
      BY <2>2 DEF A, B
    <3> HIDE DEF old
    <3>7. openings - client[c].upTo \in Int
      BY <1>0
    <3>8. MaxEntries \in Nat
      BY <1>0
    <3> QED BY ONLY <3>1, <3>3, <3>4, <3>5, <3>6, <3>7, <3>8
  <2> HIDE DEF old
  <2>4. /\ new \in Call /\ new.pc = "remove" /\ new.doomed = old
        /\ new.query = client[c].query /\ new.asked = client[c].asked
        /\ new.version = client[c].version /\ new.answer = client[c].answer
        /\ new.upTo = client[c].upTo
    BY <1>0, <2>2 DEF Call, CallStages
  <2> HIDE DEF new
  <2>5. Moves(c) /\ client'[c] = new
    BY <1>0, <2>1, <2>4 DEF Moves, CacheTypes
  <2>6. Directory' /\ Held' = Held
    BY <1>0, SameDirectory
  <2>7. CallTrue(c)' /\ Pays(c)'
    BY <1>0, <2>3, <2>4, <2>5, <2>6 DEF CallTrue, Pays
  <2>8. Bounded' /\ paid' \in Nat /\ paid' <= openings'
    BY <1>0, <2>6 DEF CacheInv, CacheTypes, Bounded
  <2> QED BY <1>0, <2>5, <2>6, <2>7, <2>8, MoveKeeps
<1>2. CASE ~(L \subseteq Held)
  <2>1. Proceed(c, "failed")
    BY <1>2 DEF StatEntries
  <2>2. Moves(c) /\ client'[c].pc = "failed" /\ client'[c].asked = client[c].asked
    BY <1>0, <2>1, ProceedIs DEF CallStages
  <2>3. CallTrue(c)'
    BY <1>0, <2>2 DEF CallTrue
  <2> QED BY <1>0, <2>2, <2>3, CallKeeps
<1> QED BY <1>1, <1>2

\* A call that has removed what it doomed pays for what it listed.
LEMMA RemoveKeeps ==
  ASSUME CacheAssumption, CacheInv, NEW c \in Clients, RemoveOld(c)
  PROVE  CacheInv'
PROOF
<1>0. /\ CacheTypes /\ CallTrue(c) /\ client[c].pc = "remove" /\ UNCHANGED <<current, openings>>
      /\ client[c].query \in Queries /\ entries' = Without(client[c].doomed)
      /\ paid' = IF client[c].upTo > paid THEN client[c].upTo ELSE paid
      /\ client[c] \in Call /\ client[c].upTo <= openings
      /\ Cardinality(Held \ client[c].doomed) <= MaxEntries + (openings - client[c].upTo)
  BY DEF CacheInv, CacheTypes, RemoveOld, At, Pays
<1>1. PICK onto \in {"done", "failed"} : Proceed(c, onto)
  BY DEF RemoveOld
<1>2. /\ Moves(c) /\ client'[c].pc = onto /\ client'[c].asked = client[c].asked
      /\ client'[c].version = client[c].version /\ client'[c].answer = client[c].answer
  BY <1>0, <1>1, ProceedIs DEF CallStages
<1>3. Held' = Held \ client[c].doomed /\ Directory'
  BY <1>0, WithoutIs
<1>4. CallTrue(c)' /\ Pays(c)'
  BY <1>0, <1>2 DEF CallTrue, Pays
<1>5. paid' \in Nat /\ paid' <= openings' /\ client[c].upTo \in Nat
  BY <1>0 DEF CacheTypes, Call
<1>6. Bounded'
  <2>1. /\ Cardinality(Held') <= Cardinality(Held)
        /\ Cardinality(Held') \in Nat /\ Cardinality(Held) \in Nat
    BY <1>0, <1>3, FewerLeft DEF CacheTypes
  <2>2. CASE paid' = paid
    BY <1>0, <2>1, <2>2 DEF CacheInv, CacheTypes, CacheAssumption, Bounded
  <2>3. CASE paid' = client[c].upTo
    BY <1>0, <1>3, <2>3 DEF Bounded
  <2> QED BY <1>0, <2>2, <2>3
<1> QED BY <1>0, <1>2, <1>3, <1>4, <1>5, <1>6, MoveKeeps

LEMMA CacheStep == CacheAssumption /\ CacheInv /\ [CacheNext]_cacheVars => CacheInv'
PROOF
<1> SUFFICES ASSUME CacheAssumption, CacheInv, [CacheNext]_cacheVars PROVE CacheInv'
  OBVIOUS
<1>1. CASE EditDesign
  BY <1>1, EditKeeps
<1>2. ASSUME NEW c \in Clients, NEW q \in Queries, Ask(c, q) PROVE CacheInv'
  BY <1>2, AskKeeps
<1>3. ASSUME NEW c \in Clients, Answered(c) PROVE CacheInv'
  BY <1>3, AnsweredKeeps
<1>4. ASSUME NEW c \in Clients, Repeated(c) \/ Refused(c) PROVE CacheInv'
  BY <1>4, FailuresKeep
<1>5. ASSUME NEW c \in Clients, Lookup(c) PROVE CacheInv'
  BY <1>5, LookupKeeps
<1>6. ASSUME NEW c \in Clients, OpenEntry(c) PROVE CacheInv'
  BY <1>6, OpenKeeps
<1>7. ASSUME NEW c \in Clients, WriteEntry(c) PROVE CacheInv'
  BY <1>7, WriteKeeps
<1>8. ASSUME NEW c \in Clients, ListEntries(c) PROVE CacheInv'
  BY <1>8, ListKeeps
<1>9. ASSUME NEW c \in Clients, RemoveOld(c) PROVE CacheInv'
  BY <1>9, RemoveKeeps
<1>10. ASSUME NEW c \in Clients, CallReturns(c) PROVE CacheInv'
  BY <1>10, ReturnKeeps
<1>11. ASSUME NEW c \in Clients, WriteFails(c) PROVE CacheInv'
  BY <1>11, WriteFailsKeeps
<1>12. ASSUME NEW c \in Clients, StatEntries(c) PROVE CacheInv'
  BY <1>12, StatKeeps
<1>13. CASE UNCHANGED cacheVars
  <2>1. UNCHANGED <<current, entries, client, openings, paid>>
    BY <1>13 DEF cacheVars
  <2>2. CacheTypes' /\ WrittenInTurn' /\ (\A k \in Held : EntryTrue(k))'
    BY <2>1 DEF CacheInv, CacheTypes, Held, EntryTrue, WrittenInTurn
  <2>3. \A c \in Clients : CallTrue(c)' /\ Pays(c)'
    BY <2>1 DEF CacheInv, CallTrue, Pays, Held
  <2>4. Bounded'
    BY <2>1 DEF CacheInv, Bounded, Held
  <2> QED BY <2>2, <2>3, <2>4 DEF CacheInv
<1> QED BY <1>1, <1>2, <1>3, <1>4, <1>5, <1>6, <1>7, <1>8, <1>9, <1>10, <1>11, <1>12, <1>13
        DEF CacheNext

(* For any calls side by side, queries, retries and limit: what            *)
(* FigmaClient.getFile answers is no older than the file was when it was   *)
(* asked, through whatever edits, hits, half-written files and evictions;  *)
(* and FigmaCache outgrows its limit by no more than the files opened      *)
(* since the last listing within it, or whose eviction was not skipped.    *)
THEOREM CurrentTheorem ==
  ASSUME CacheAssumption
  PROVE  CacheSpec => []AnswerIsCurrent
PROOF
<1>1. CacheSpec => []CacheInv
  BY CacheInitial, CacheStep, PTL DEF CacheSpec
<1>2. ASSUME CacheInv PROVE AnswerIsCurrent
  <2>1. ASSUME NEW c \in Clients, At(c, "done")
        PROVE  client[c].answer \in client[c].asked .. current
    BY <1>2, <2>1 DEF CacheInv, CallTrue, CacheTypes, Call, At
  <2>2. Cardinality(Held) <= MaxEntries + (openings - paid)
    BY <1>2 DEF CacheInv, Bounded
  <2> QED BY <2>1, <2>2 DEF AnswerIsCurrent
<1> QED BY <1>1, <1>2, PTL

-----------------------------------------------------------------------------
(* Releases                                                                *)

CommitKind == [version : [Packages -> Nat], log : [Packages -> Nat]]
CommitHistory == Seq(CommitKind) \ {<<>>}
TagMap(map) == map \in [DOMAIN map -> CommitHistory]

(* What a release has tagged so far is its own commit.                     *)
TagsMade ==
  \A tag \in createdTags :
    tag \in DOMAIN tags /\ tags[tag] = local /\ work.version[tag[1]] = tag[2]

(* One commit is all that is new on the branch; the other tags are old.    *)
OneCommitOnTop ==
  atStart.local \in CommitHistory /\ local = Append(atStart.local, work)
Before == [t \in DOMAIN tags \ createdTags |-> tags[t]]
StartedFrom == atStart.work = Last(atStart.local) /\ Before = atStart.tags

Recorded ==
  /\ DOMAIN atStart = {"local", "work", "tags", "pushed"}
  /\ DOMAIN swallowed = {"undo", "restore", "tags"}

(* A rollback before, and after, it undid the commit, or failed to.        *)
Undoing ==
  /\ StartedFrom /\ atStart.local \in CommitHistory
  /\ createdTags # {} => local = Append(atStart.local, work)
Undone ==
  /\ StartedFrom /\ atStart.local \in CommitHistory
  /\ createdTags # {} => swallowed.undo \/ local = atStart.local

ReleaseInv ==
  /\ Recorded
  /\ local \in CommitHistory /\ remote \in CommitHistory /\ work \in CommitKind
  /\ TagMap(tags) /\ TagMap(pushed)
  /\ reached \in {"check", "bump", "edit"} => createdTags = {}
  /\ reached \in {"tag", "push tags"} => TagsMade /\ OneCommitOnTop /\ StartedFrom
  /\ reached = "tag" => ~atStart.pushed
  /\ reached = "push tags" /\ pushesBranch => IsPrefix(local, remote)
  /\ reached = "undo" => Undoing
  /\ reached = "restore" => Undone
  /\ reached = "untag" =>
       /\ Undone
       /\ swallowed.undo \/ swallowed.restore \/ work = Last(local)
  /\ TagsNameReleases /\ RollbackRestores

LEMMA PrefixIs ==
  ASSUME NEW s \in CommitHistory, NEW t \in CommitHistory
  PROVE  IsPrefix(s, t) <=> Len(s) <= Len(t) /\ \A i \in 1 .. Len(s) : s[i] = t[i]
PROOF
<1>1. /\ s \in Seq(CommitKind) /\ t \in Seq(CommitKind)
      /\ Len(s) \in Nat /\ Len(t) \in Nat
  BY LenProperties DEF CommitHistory
<1>2. ASSUME Len(s) <= Len(t)
      PROVE  SubSeq(s, 1, Len(s)) = SubSeq(t, 1, Len(s))
               <=> \A i \in 1 .. Len(s) : s[i] = t[i]
  <2>1. \A i \in 1 .. Len(s) : s[i] \in CommitKind /\ t[i] \in CommitKind
    BY <1>1, <1>2, ElementOfSeq
  <2>2. /\ SubSeq(s, 1, Len(s)) \in Seq(CommitKind)
        /\ SubSeq(t, 1, Len(s)) \in Seq(CommitKind)
        /\ Len(SubSeq(s, 1, Len(s))) = Len(s) /\ Len(SubSeq(t, 1, Len(s))) = Len(s)
        /\ \A i \in 1 .. Len(s) : /\ SubSeq(s, 1, Len(s))[i] = s[i]
                                  /\ SubSeq(t, 1, Len(s))[i] = t[i]
    BY <1>1, <1>2
  <2> QED BY <2>2, SeqEqual
<1> QED BY <1>2 DEF IsPrefix

LEMMA PrefixOrder ==
  /\ \A s \in CommitHistory : IsPrefix(s, s)
  /\ \A s, t, u \in CommitHistory : IsPrefix(s, t) /\ IsPrefix(t, u) => IsPrefix(s, u)
PROOF
<1>1. \A s \in CommitHistory : Len(s) \in Nat
  BY LenProperties DEF CommitHistory
<1>2. \A s \in CommitHistory : IsPrefix(s, s)
  BY <1>1, PrefixIs
<1>3. ASSUME NEW s \in CommitHistory, NEW t \in CommitHistory, NEW u \in CommitHistory,
             IsPrefix(s, t), IsPrefix(t, u)
      PROVE  IsPrefix(s, u)
  <2>1. Len(s) <= Len(t) /\ \A i \in 1 .. Len(s) : s[i] = t[i]
    BY <1>3, PrefixIs
  <2>2. Len(t) <= Len(u) /\ \A i \in 1 .. Len(t) : t[i] = u[i]
    BY <1>3, PrefixIs
  <2>3. Len(s) <= Len(u) /\ \A i \in 1 .. Len(s) : s[i] = u[i]
    BY <1>1, <2>1, <2>2
  <2> QED BY <2>3, PrefixIs
<1> QED BY <1>2, <1>3

LEMMA OneCommitMore ==
  ASSUME NEW s \in CommitHistory, NEW c \in CommitKind
  PROVE  /\ Append(s, c) \in CommitHistory /\ Last(Append(s, c)) = c
         /\ Front(Append(s, c)) = s /\ Append(s, c) # s
         /\ IsPrefix(s, Append(s, c))
         /\ Last(s) \in CommitKind
PROOF
<1>1. s \in Seq(CommitKind) /\ Len(s) \in Nat /\ Len(s) # 0
  BY LenProperties, EmptySeq DEF CommitHistory
<1>2. /\ Append(s, c) \in Seq(CommitKind) /\ Append(s, c) # <<>>
      /\ Len(Append(s, c)) = Len(s) + 1
      /\ \A i \in 1 .. Len(s) : Append(s, c)[i] = s[i]
      /\ Append(s, c)[Len(s) + 1] = c
  BY <1>1, AppendProperties
<1>3. Append(s, c) \in CommitHistory /\ Last(Append(s, c)) = c /\ Append(s, c) # s
  BY <1>1, <1>2 DEF CommitHistory, Last
<1>4. Front(Append(s, c)) = s
  <2>1. Front(Append(s, c)) = SubSeq(Append(s, c), 1, Len(s))
    BY <1>1, <1>2 DEF Front
  <2>2. /\ SubSeq(Append(s, c), 1, Len(s)) \in Seq(CommitKind)
        /\ Len(SubSeq(Append(s, c), 1, Len(s))) = Len(s)
        /\ \A i \in 1 .. Len(s) : SubSeq(Append(s, c), 1, Len(s))[i] = s[i]
    BY <1>1, <1>2
  <2> QED BY <1>1, <2>1, <2>2, SeqEqual
<1>5. IsPrefix(s, Append(s, c))
  <2>1. Len(s) <= Len(Append(s, c)) /\ \A i \in 1 .. Len(s) : s[i] = Append(s, c)[i]
    BY <1>1, <1>2
  <2> QED BY <1>3, <2>1, PrefixIs
<1>6. Last(s) \in CommitKind
  BY <1>1, ElementOfSeq DEF Last
<1> QED BY <1>3, <1>4, <1>5, <1>6

LEMMA ReleaseInitial == RelInit => ReleaseInv
PROOF
<1> SUFFICES ASSUME RelInit PROVE ReleaseInv
  OBVIOUS
<1>1. Original \in CommitKind
  BY DEF Original, CommitKind
<1>2. <<Original>> \in CommitHistory
  <2>1. <<Original>> \in Seq(CommitKind) /\ <<Original>> # <<>>
    BY <1>1
  <2> QED BY <2>1 DEF CommitHistory
<1>3. DOMAIN NoTag = {} /\ TagMap(NoTag)
  BY DEF NoTag, TagMap
<1>4. TagsNameReleases /\ RollbackRestores
  BY <1>3 DEF RelInit, TagsNameReleases, RollbackRestores
<1> QED BY <1>1, <1>2, <1>3, <1>4 DEF RelInit, ReleaseInv, Beginning, NoneLost, Recorded

(* Nothing at origin moves, and no release is under way or rolled back.    *)
LEMMA AtRestKeeps ==
  ASSUME ReleaseInv, Recorded', reached' \in {"idle", "check", "bump", "edit"},
         reached' # "idle" => createdTags' = {},
         local' \in CommitHistory, work' \in CommitKind, TagMap(tags'),
         UNCHANGED <<remote, pushed, pushesBranch>>
  PROVE  ReleaseInv'
BY DEF ReleaseInv, TagsNameReleases, RollbackRestores

(* A fetch keeps what a tag here names.                                    *)
LEMMA FetchKeeps ==
  ASSUME TagMap(tags), TagMap(pushed), FetchTags
  PROVE  TagMap(tags')
PROOF
<1> DEFINE D == DOMAIN tags \cup OfTheBranch
           f == [t \in D |-> IF t \in DOMAIN tags THEN tags[t] ELSE pushed[t]]
<1>1. tags' = f
  BY DEF FetchTags
<1>2. \A t \in D : f[t] \in CommitHistory
  BY DEF TagMap, OfTheBranch
<1>3. DOMAIN f = D /\ f \in [D -> CommitHistory]
  BY <1>2
<1> HIDE DEF f, D
<1> QED BY <1>1, <1>3 DEF TagMap

LEMMA PutIs ==
  ASSUME NEW map, TagMap(map), NEW tag, NEW commit \in CommitHistory
  PROVE  /\ DOMAIN Put(map, tag, commit) = DOMAIN map \cup {tag}
         /\ TagMap(Put(map, tag, commit)) /\ Put(map, tag, commit)[tag] = commit
         /\ \A t \in DOMAIN map \ {tag} : Put(map, tag, commit)[t] = map[t]
PROOF
<1> DEFINE D == DOMAIN map \cup {tag}
           f == [t \in D |-> IF t = tag THEN commit ELSE map[t]]
<1>1. \A t \in D : f[t] \in CommitHistory
  BY DEF TagMap
<1>2. DOMAIN f = D /\ f \in [D -> CommitHistory] /\ f[tag] = commit
      /\ \A t \in DOMAIN map \ {tag} : f[t] = map[t]
  BY <1>1
<1>3. Put(map, tag, commit) = f
  BY DEF Put
<1> HIDE DEF f
<1> QED BY <1>2, <1>3 DEF TagMap

LEMMA OthersPushKeeps ==
  ASSUME ReleaseInv, OthersPush
  PROVE  ReleaseInv'
PROOF
<1>1. /\ remote' = Append(remote, Last(remote))
      /\ UNCHANGED <<local, work, tags, pushed, reached, chosen, createdTags, atStart,
                     swallowed, pushesBranch>>
  BY DEF OthersPush
<1>2. remote' \in CommitHistory /\ IsPrefix(remote, remote') /\ remote \in CommitHistory
  <2>1. remote \in CommitHistory /\ Last(remote) \in CommitKind
    BY OneCommitMore DEF ReleaseInv
  <2> QED BY <1>1, <2>1, OneCommitMore
<1>3. \A s \in CommitHistory : IsPrefix(s, remote) => IsPrefix(s, remote')
  BY <1>2, PrefixOrder
<1>4. TagsNameReleases'
  BY <1>1, <1>3 DEF ReleaseInv, TagsNameReleases, TagMap
<1>5. RollbackRestores'
  BY <1>1 DEF ReleaseInv, RollbackRestores
<1>6. reached' = "push tags" /\ pushesBranch' => IsPrefix(local, remote)'
  BY <1>1, <1>3 DEF ReleaseInv
<1>7. /\ reached' \in {"tag", "push tags"} => TagsMade' /\ OneCommitOnTop' /\ StartedFrom'
      /\ reached' = "tag" => ~atStart'.pushed
      /\ reached' = "undo" => Undoing'
      /\ reached' = "restore" => Undone'
      /\ reached' = "untag" =>
           Undone' /\ (swallowed'.undo \/ swallowed'.restore \/ work' = Last(local'))
  BY <1>1 DEF ReleaseInv, TagsMade, OneCommitOnTop, StartedFrom, Before, Undoing, Undone
<1>8. /\ local' \in CommitHistory /\ work' \in CommitKind /\ TagMap(tags') /\ TagMap(pushed')
      /\ reached' \in {"check", "bump", "edit"} => createdTags' = {}
      /\ Recorded'
  BY <1>1 DEF ReleaseInv, Recorded
<1> QED BY <1>2, <1>4, <1>5, <1>6, <1>7, <1>8 DEF ReleaseInv

LEMMA FilesKeep ==
  ASSUME ReleaseInv, NEW p \in Packages, WriteVersion(p) \/ UpdateChangelog(p)
  PROVE  ReleaseInv'
PROOF
<1>1. /\ work.version \in [Packages -> Nat] /\ work.log \in [Packages -> Nat]
      /\ work \in CommitKind
  BY DEF ReleaseInv, CommitKind
<1>2. work' \in CommitKind
  <2>1. CASE WriteVersion(p)
    <3>1. work' = [work EXCEPT !.version[p] = @ + 1]
      BY <2>1 DEF WriteVersion
    <3>2. work.version[p] + 1 \in Nat
      BY <1>1
    <3> QED BY <1>1, <3>1, <3>2 DEF CommitKind
  <2>2. CASE UpdateChangelog(p)
    <3>1. work' = [work EXCEPT !.log[p] = work.version[p]]
      BY <2>2 DEF UpdateChangelog
    <3>2. work.version[p] \in Nat
      BY <1>1
    <3> QED BY <1>1, <3>1, <3>2 DEF CommitKind
  <2> QED BY <2>1, <2>2
<1>3. /\ reached = "edit"
      /\ UNCHANGED <<local, remote, tags, pushed, reached, createdTags, atStart, swallowed,
                     pushesBranch>>
  BY DEF WriteVersion, UpdateChangelog
<1> QED BY <1>2, <1>3, AtRestKeeps DEF ReleaseInv, Recorded

(* What gitRelease starts from, with no tag of its own yet.                *)
LEMMA BeginningIs ==
  ASSUME ReleaseInv, createdTags' = {}, atStart' = Beginning(local, Tip, tags),
         UNCHANGED <<tags, swallowed>>
  PROVE  /\ StartedFrom' /\ Recorded' /\ atStart'.local = local /\ ~atStart'.pushed
         /\ local \in CommitHistory
PROOF
<1>1. /\ atStart'.local = local /\ atStart'.work = Last(local) /\ ~atStart'.pushed
      /\ atStart'.tags = tags /\ Recorded'
  BY DEF Beginning, Tip, Recorded, ReleaseInv
<1>2. [t \in DOMAIN tags \ {} |-> tags[t]] = tags
  BY DEF ReleaseInv, TagMap
<1>3. Before' = tags
  BY <1>2 DEF Before
<1> QED BY <1>1, <1>3 DEF StartedFrom, ReleaseInv

LEMMA CommitKeeps ==
  ASSUME ReleaseInv, Commit
  PROVE  ReleaseInv'
PROOF
<1>1. /\ reached = "edit" /\ createdTags = {} /\ local' = Append(local, work)
      /\ reached' = "tag" /\ atStart' = Beginning(local, Tip, tags)
      /\ UNCHANGED <<remote, work, tags, pushed, others, chosen, createdTags, swallowed,
                     pushesBranch>>
  BY DEF Commit, ReleaseInv
<1>2. local' \in CommitHistory
  BY <1>1, OneCommitMore DEF ReleaseInv
<1>3. /\ StartedFrom' /\ Recorded' /\ atStart'.local = local /\ ~atStart'.pushed
      /\ local \in CommitHistory
  BY <1>1, BeginningIs
<1>4. OneCommitOnTop'
  BY <1>1, <1>3 DEF OneCommitOnTop
<1>5. TagsMade'
  BY <1>1 DEF TagsMade
<1>6. TagsNameReleases' /\ RollbackRestores'
  BY <1>1 DEF ReleaseInv, TagsNameReleases, RollbackRestores
<1> QED BY <1>1, <1>2, <1>3, <1>4, <1>5, <1>6 DEF ReleaseInv

LEMMA CommitFailsKeeps ==
  ASSUME ReleaseInv, CommitFails
  PROVE  ReleaseInv'
PROOF
<1>1. /\ reached = "edit" /\ createdTags = {}
      /\ reached' = "undo" /\ atStart' = Beginning(local, Tip, tags)
      /\ UNCHANGED <<local, remote, work, tags, pushed, others, chosen, createdTags, swallowed,
                     pushesBranch>>
  BY DEF CommitFails, ReleaseInv
<1>2. /\ StartedFrom' /\ Recorded' /\ atStart'.local = local /\ local \in CommitHistory
  BY <1>1, BeginningIs
<1>3. Undoing'
  BY <1>1, <1>2 DEF Undoing
<1>4. TagsNameReleases' /\ RollbackRestores'
  BY <1>1 DEF ReleaseInv, TagsNameReleases, RollbackRestores
<1> QED BY <1>1, <1>2, <1>3, <1>4 DEF ReleaseInv

LEMMA TagKeeps ==
  ASSUME ReleaseInv, NEW p \in Packages, Tag(p)
  PROVE  ReleaseInv'
PROOF
<1> DEFINE tag == TagOf(p)
<1>1. /\ reached = "tag" /\ tag \notin DOMAIN tags
      /\ tags' = Put(tags, tag, local) /\ createdTags' = createdTags \cup {tag}
      /\ UNCHANGED <<local, remote, work, pushed, others, reached, chosen, atStart, swallowed,
                     pushesBranch>>
  BY DEF Tag
<1>2. work.version[tag[1]] = tag[2]
  BY DEF TagOf
<1> HIDE DEF tag
<1>3. /\ DOMAIN tags' = DOMAIN tags \cup {tag} /\ TagMap(tags') /\ tags'[tag] = local
      /\ \A t \in DOMAIN tags \ {tag} : tags'[t] = tags[t]
  <2>1. TagMap(tags) /\ local \in CommitHistory
    BY DEF ReleaseInv
  <2>2. /\ DOMAIN Put(tags, tag, local) = DOMAIN tags \cup {tag}
        /\ TagMap(Put(tags, tag, local)) /\ Put(tags, tag, local)[tag] = local
        /\ \A t \in DOMAIN tags \ {tag} : Put(tags, tag, local)[t] = tags[t]
    BY <2>1, PutIs
  <2> QED BY <1>1, <2>2
<1>4. TagsMade'
  BY <1>1, <1>2, <1>3 DEF ReleaseInv, TagsMade
<1>5. StartedFrom' /\ OneCommitOnTop'
  <2>1. createdTags \subseteq DOMAIN tags /\ StartedFrom /\ OneCommitOnTop
    BY <1>1 DEF ReleaseInv, TagsMade
  <2>2. DOMAIN tags' \ createdTags' = DOMAIN tags \ createdTags
    BY <1>1, <1>3, <2>1
  <2>3. \A t \in DOMAIN tags \ createdTags : tags'[t] = tags[t]
    BY <1>1, <1>3
  <2>4. Before' = Before
    BY <2>2, <2>3 DEF Before
  <2> QED BY <1>1, <2>1, <2>4 DEF StartedFrom, OneCommitOnTop
<1>6. TagsNameReleases' /\ RollbackRestores'
  BY <1>1 DEF ReleaseInv, TagsNameReleases, RollbackRestores
<1> QED BY <1>1, <1>3, <1>4, <1>5, <1>6 DEF ReleaseInv, Recorded

LEMMA PushBranchKeeps ==
  ASSUME ReleaseInv, PushBranch
  PROVE  ReleaseInv'
PROOF
<1>1. /\ reached = "tag" /\ reached' = "push tags"
      /\ UNCHANGED <<local, work, tags, pushed, others, chosen, createdTags, swallowed,
                     pushesBranch>>
  BY DEF PushBranch
<1>2. /\ remote' \in {remote, local} /\ IsPrefix(remote, remote')
      /\ pushesBranch => remote' = local
      /\ atStart' \in {atStart, [atStart EXCEPT !.pushed = TRUE]}
  BY PrefixOrder DEF PushBranch, ReleaseInv
<1>3. \A s \in CommitHistory : IsPrefix(s, remote) => IsPrefix(s, remote')
  BY <1>2, PrefixOrder DEF ReleaseInv
<1>4. TagsNameReleases'
  BY <1>1, <1>3 DEF ReleaseInv, TagsNameReleases, TagMap
<1>5. pushesBranch' => IsPrefix(local, remote)'
  BY <1>1, <1>2, PrefixOrder DEF ReleaseInv
<1>6. /\ atStart'.local = atStart.local /\ atStart'.work = atStart.work
      /\ atStart'.tags = atStart.tags /\ Recorded'
  BY <1>1, <1>2 DEF ReleaseInv, Recorded
<1>7. TagsMade' /\ OneCommitOnTop' /\ StartedFrom' /\ RollbackRestores'
  BY <1>1, <1>6 DEF ReleaseInv, TagsMade, OneCommitOnTop, StartedFrom, Before,
                    RollbackRestores
<1> QED BY <1>1, <1>2, <1>4, <1>5, <1>6, <1>7 DEF ReleaseInv

LEMMA PushTagKeeps ==
  ASSUME ReleaseInv, NEW tag \in createdTags, PushTag(tag)
  PROVE  ReleaseInv'
PROOF
<1>1. /\ reached = "push tags" /\ pushed' = Put(pushed, tag, tags[tag])
      /\ UNCHANGED <<local, remote, work, tags, others, reached, chosen, createdTags, atStart,
                     swallowed, pushesBranch>>
  BY DEF PushTag
<1>2. /\ tags[tag] = local /\ local \in CommitHistory
      /\ pushesBranch => IsPrefix(local, remote)
      /\ work.version[tag[1]] = tag[2] /\ Last(local) = work
  <2>1. /\ TagsMade /\ OneCommitOnTop /\ work \in CommitKind /\ local \in CommitHistory
        /\ pushesBranch => IsPrefix(local, remote)
    BY <1>1 DEF ReleaseInv
  <2>2. Last(local) = work
    BY <2>1, OneCommitMore DEF OneCommitOnTop
  <2> QED BY <2>1, <2>2 DEF TagsMade
<1>3. /\ DOMAIN pushed' = DOMAIN pushed \cup {tag} /\ TagMap(pushed')
      /\ pushed'[tag] = local /\ \A t \in DOMAIN pushed \ {tag} : pushed'[t] = pushed[t]
  <2>1. TagMap(pushed) /\ local \in CommitHistory
    BY DEF ReleaseInv
  <2>2. /\ DOMAIN Put(pushed, tag, local) = DOMAIN pushed \cup {tag}
        /\ TagMap(Put(pushed, tag, local)) /\ Put(pushed, tag, local)[tag] = local
        /\ \A t \in DOMAIN pushed \ {tag} : Put(pushed, tag, local)[t] = pushed[t]
    BY <2>1, PutIs
  <2> QED BY <1>1, <1>2, <2>2
<1>4. TagsNameReleases'
  <2> SUFFICES ASSUME NEW t \in DOMAIN pushed'
               PROVE  /\ pushesBranch => IsPrefix(pushed'[t], remote)
                      /\ Last(pushed'[t]).version[t[1]] = t[2]
    BY <1>1 DEF TagsNameReleases
  <2>1. CASE t = tag
    BY <1>2, <1>3, <2>1
  <2>2. CASE t # tag
    BY <1>3, <2>2 DEF ReleaseInv, TagsNameReleases
  <2> QED BY <2>1, <2>2
<1>5. RollbackRestores' /\ TagsMade' /\ OneCommitOnTop' /\ StartedFrom' /\ Recorded'
  BY <1>1 DEF ReleaseInv, RollbackRestores, TagsMade, OneCommitOnTop, StartedFrom, Before,
              Recorded
<1> QED BY <1>1, <1>3, <1>4, <1>5 DEF ReleaseInv

LEMMA StepFailsKeeps ==
  ASSUME ReleaseInv, StepFails
  PROVE  ReleaseInv'
PROOF
<1>1. /\ reached \in {"tag", "push tags"} /\ reached' = "undo"
      /\ UNCHANGED <<local, remote, work, tags, pushed, others, chosen, createdTags, atStart,
                     swallowed, pushesBranch>>
  BY DEF StepFails
<1>2. Undoing'
  BY <1>1 DEF ReleaseInv, OneCommitOnTop, StartedFrom, Before, Undoing
<1>3. TagsNameReleases' /\ RollbackRestores' /\ Recorded'
  BY <1>1 DEF ReleaseInv, TagsNameReleases, RollbackRestores, Recorded
<1> QED BY <1>1, <1>2, <1>3 DEF ReleaseInv

(* The rollback, command by command: what failed is on record, and what    *)
(* did not fail is undone.                                                 *)
LEMMA UndoKeeps ==
  ASSUME ReleaseInv, Undo
  PROVE  ReleaseInv'
PROOF
<1>1. /\ reached = "undo" /\ reached' = "restore"
      /\ UNCHANGED <<remote, work, tags, pushed, others, chosen, createdTags, atStart,
                     pushesBranch>>
  BY DEF Undo
<1>2. Undoing /\ local \in CommitHistory /\ work \in CommitKind
  BY <1>1 DEF ReleaseInv
<1>3. createdTags # {} => Front(local) = atStart.local /\ atStart.local \in CommitHistory
  BY <1>2, OneCommitMore DEF Undoing
<1>4. /\ local' \in CommitHistory /\ Recorded'
      /\ createdTags # {} => swallowed'.undo \/ local' = atStart.local
  BY <1>2, <1>3 DEF Undo, ReleaseInv, Recorded
<1>5. Undone'
  BY <1>1, <1>2, <1>4 DEF Undoing, Undone, StartedFrom, Before
<1>6. TagsNameReleases' /\ RollbackRestores'
  BY <1>1 DEF ReleaseInv, TagsNameReleases, RollbackRestores
<1> QED BY <1>1, <1>4, <1>5, <1>6 DEF ReleaseInv

LEMMA RestoreKeeps ==
  ASSUME ReleaseInv, Restore
  PROVE  ReleaseInv'
PROOF
<1>1. /\ reached = "restore" /\ reached' = "untag"
      /\ UNCHANGED <<local, remote, tags, pushed, others, chosen, createdTags, atStart,
                     pushesBranch>>
  BY DEF Restore
<1>2. Last(local) \in CommitKind /\ Undone /\ work \in CommitKind
  BY <1>1, OneCommitMore DEF ReleaseInv
<1>3. /\ work' \in CommitKind /\ Recorded' /\ swallowed'.undo = swallowed.undo
      /\ swallowed'.undo \/ swallowed'.restore \/ work' = Last(local')
  BY <1>1, <1>2 DEF Restore, Tip, ReleaseInv, Recorded
<1>4. Undone'
  BY <1>1, <1>2, <1>3 DEF Undone, StartedFrom, Before
<1>5. TagsNameReleases' /\ RollbackRestores'
  BY <1>1 DEF ReleaseInv, TagsNameReleases, RollbackRestores
<1> QED BY <1>1, <1>3, <1>4, <1>5 DEF ReleaseInv

LEMMA UntagKeeps ==
  ASSUME ReleaseInv, Untag
  PROVE  ReleaseInv'
PROOF
<1>1. /\ reached = "untag" /\ reached' = "rolled back"
      /\ UNCHANGED <<local, remote, work, pushed, others, chosen, createdTags, atStart,
                     pushesBranch>>
  BY DEF Untag
<1>2. PICK stay \in SUBSET createdTags :
        /\ tags' = [t \in DOMAIN tags \ (createdTags \ stay) |-> tags[t]]
        /\ swallowed' = [swallowed EXCEPT !.tags = stay]
  BY DEF Untag
<1>3. /\ DOMAIN tags' = DOMAIN tags \ (createdTags \ stay)
      /\ \A t \in DOMAIN tags' : tags'[t] = tags[t]
  BY <1>2
<1>4. TagMap(tags')
  <2>1. \A t \in DOMAIN tags' : tags[t] \in CommitHistory
    BY <1>3 DEF ReleaseInv, TagMap
  <2> QED BY <1>2, <1>3, <2>1 DEF TagMap
<1>5. /\ swallowed'.undo = swallowed.undo /\ swallowed'.restore = swallowed.restore
      /\ swallowed'.tags = stay /\ Recorded'
  BY <1>1, <1>2 DEF ReleaseInv, Recorded
<1>6. [t \in DOMAIN tags' \ stay |-> tags'[t]] = Before
  <2>1. DOMAIN tags' \ stay = DOMAIN tags \ createdTags
    BY <1>3
  <2>2. \A t \in DOMAIN tags \ createdTags : tags'[t] = tags[t]
    BY <1>3, <2>1
  <2> QED BY <2>1, <2>2 DEF Before
<1>7. /\ Undone
      /\ swallowed.undo \/ swallowed.restore \/ work = Last(local)
  BY <1>1 DEF ReleaseInv
<1>8. RollbackRestores'
  <2> SUFFICES ASSUME createdTags # {} \/ local = atStart.local
               PROVE  /\ swallowed.undo \/ local = atStart.local
                      /\ swallowed.undo \/ swallowed.restore \/ work = atStart.work
                      /\ Before = atStart.tags
    BY <1>1, <1>5, <1>6 DEF RollbackRestores
  <2> QED BY <1>7 DEF Undone, StartedFrom
<1>9. TagsNameReleases'
  BY <1>1 DEF ReleaseInv, TagsNameReleases
<1> QED BY <1>1, <1>4, <1>5, <1>8, <1>9 DEF ReleaseInv

(* The steps before the commit, and those that end the program.            *)
LEMMA QuietKeeps ==
  ASSUME ReleaseInv,
         \/ Pull \/ Select \/ Check \/ SelectBumpType \/ Quit
         \/ Released \/ Clean \/ Interrupt
         \/ \E p \in Packages : TagExists(p)
  PROVE  ReleaseInv'
PROOF
<1>1. /\ local \in CommitHistory /\ remote \in CommitHistory /\ work \in CommitKind
      /\ TagMap(tags) /\ TagMap(pushed) /\ Recorded
      /\ Last(local) \in CommitKind /\ Last(remote) \in CommitKind
  BY OneCommitMore DEF ReleaseInv
<1>2. Exit => /\ reached' = "idle" /\ Recorded' /\ pushesBranch' = pushesBranch
  BY DEF Exit, Recorded, Beginning, NoneLost
<1>3. CASE Pull
  BY <1>1, <1>3, FetchKeeps, AtRestKeeps DEF Pull, Recorded
<1>4. CASE Clean
  BY <1>1, <1>2, <1>4, AtRestKeeps DEF Clean, Tip
<1>5. CASE Select
  BY <1>1, <1>5, AtRestKeeps DEF Select, Recorded
<1>6. CASE Check
  <2>1. TagMap(tags')
    BY <1>1, <1>6, FetchKeeps DEF Check, AssertInSyncWithRemote
  <2> QED BY <1>1, <1>6, <2>1, AtRestKeeps DEF Check, Recorded, ReleaseInv
<1>7. CASE SelectBumpType
  BY <1>1, <1>7, AtRestKeeps DEF SelectBumpType, Recorded, ReleaseInv
<1>8. CASE Quit \/ Released \/ Interrupt \/ \E p \in Packages : TagExists(p)
  BY <1>1, <1>2, <1>8, AtRestKeeps DEF Quit, Released, Interrupt, TagExists
<1> QED BY <1>3, <1>4, <1>5, <1>6, <1>7, <1>8

LEMMA ReleaseStep == ReleaseInv /\ [RelNext]_relVars => ReleaseInv'
PROOF
<1> SUFFICES ASSUME ReleaseInv, [RelNext]_relVars PROVE ReleaseInv'
  OBVIOUS
<1>1. CASE RelNext
  BY <1>1, QuietKeeps, OthersPushKeeps, FilesKeep, CommitKeeps, CommitFailsKeeps,
     PushBranchKeeps, TagKeeps, PushTagKeeps, StepFailsKeeps, UndoKeeps, RestoreKeeps,
     UntagKeeps DEF RelNext
<1>2. CASE UNCHANGED relVars
  BY <1>2 DEF relVars, ReleaseInv, Recorded, TagsMade, OneCommitOnTop, StartedFrom, Before,
              Undoing, Undone, TagsNameReleases, RollbackRestores
<1> QED BY <1>1, <1>2

(* Whatever git call fails or is interrupted, those of the rollback        *)
(* included, and whoever pushes in between: a tag at origin names a commit *)
(* with the tag's version, one of origin's branch where the push without a *)
(* branch pushes it; and a rollback before the branch was pushed restores  *)
(* branch, files and tags but for what its own failed commands leave, for  *)
(* a commit whose first tag failed and a package without a changelog.      *)
THEOREM ReleaseTheorem == RelSpec => []ReleaseSound
PROOF
<1>1. ReleaseInv => ReleaseSound
  BY DEF ReleaseInv, ReleaseSound
<1> QED BY <1>1, ReleaseInitial, ReleaseStep, PTL DEF RelSpec
=============================================================================
