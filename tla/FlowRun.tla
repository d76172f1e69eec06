------------------------------ MODULE FlowRun ------------------------------
(***************************************************************************)
(* Runs of one generated flow script on one slug: sf_flow_auto seeds or    *)
(* keeps .flow-state.json, the orchestrator enters at the first phase that *)
(* is not a success, and the phases' prologues and epilogues read and      *)
(* write the file through sf_flow_checkpoint.  Several sessions may use    *)
(* the slug, for the same input or another one (a supplied slug keeps four *)
(* words only), and each may die between two calls.                        *)
(*                                                                         *)
(* A call loads the file, changes the copy and renames it into place;      *)
(* another process may come between the load and the rename.               *)
(***************************************************************************)
EXTENDS Naturals, FiniteSets, Sequences

CONSTANTS
  Sessions,   \* pi processes
  Inputs,     \* what runs are asked to do: one input hash each
  Plan,       \* the checkpoint entities, a phase or a group each, in order
  MaxStarts,  \* bound: sf_flow_auto calls
  Nil         \* no file, no input

Entities == DOMAIN Plan

VARIABLES
  file,      \* .flow-state.json: input hash, status and outputs per entity
  worktree,  \* "none", "there" or "removed"; flow/<slug> stays for good
  at,        \* where a session is: "off", "seeding", ... with its entity
  input,     \* the input of a session
  handle,    \* its _wt: whether sf_flow_prepare answered a worktree
  copy,      \* the copy of the file a call of it is about to write
  result,    \* what its script returned: "none", "blocked" or "success"
  starts,
  done,      \* history: entities completed, and for which input, since
             \* another input's fresh file
  crossed,   \* history: two live sessions have had different inputs
  refused    \* history: git has refused to remove the worktree

flowVars == <<file, worktree, at, input, handle, copy, result, starts,
              done, crossed, refused>>
session == <<at, input, handle, copy, result>>
history == <<starts, done, crossed, refused>>

Off == [pc |-> "off", k |-> 0]
Fresh(i) == [input |-> i, status |-> [k \in Entities |-> "pending"],
             outputs |-> [k \in Entities |-> {}]]

FlowInit ==
  /\ file = Nil /\ worktree = "none"
  /\ at = [s \in Sessions |-> Off] /\ input = [s \in Sessions |-> Nil]
  /\ handle = [s \in Sessions |-> FALSE] /\ copy = [s \in Sessions |-> Nil]
  /\ result = [s \in Sessions |-> "none"]
  /\ starts = 0 /\ done = {} /\ crossed = FALSE /\ refused = FALSE

Live == {s \in Sessions : at[s].pc # "off"}
Goto(s, pc, k) == at' = [at EXCEPT ![s] = [pc |-> pc, k |-> k]]

\* The copy a checkpoint call changes: the file, or a new one without hashes.
Loaded == IF file = Nil THEN Fresh(Nil) ELSE file

\* loadRequired: a name some entity has published.
Published(name) ==
  /\ file # Nil
  /\ \E k \in Entities : name \in file.outputs[k]

FirstIncomplete(f) ==
  CHOOSE k \in 1..(Len(Plan) + 1) :
    /\ k \in Entities => f.status[k] # "success"
    /\ \A j \in 1..(k - 1) : f.status[j] = "success"

ResumesAny(f, i) == f # Nil
Resumes(f, i) == f # Nil /\ f.input = i

-----------------------------------------------------------------------------
\* sf_flow_auto: keep a file of this workflow and input, or write a fresh one.
Start(s, i) ==
  /\ at[s].pc = "off" /\ starts < MaxStarts
  /\ starts' = starts + 1
  /\ input' = [input EXCEPT ![s] = i]
  /\ result' = [result EXCEPT ![s] = "none"]
  /\ crossed' = (crossed \/ \E t \in Live : input[t] # i)
  /\ IF Resumes(file, i)
       THEN Goto(s, "entering", 0) /\ UNCHANGED copy
       ELSE Goto(s, "seeding", 0) /\ copy' = [copy EXCEPT ![s] = Fresh(i)]
  /\ UNCHANGED <<file, worktree, handle, done, refused>>

Seed(s) ==
  /\ at[s].pc = "seeding"
  /\ file' = copy[s] /\ copy' = [copy EXCEPT ![s] = Nil]
  /\ done' = {d \in done : d[1] = input[s]}
  /\ Goto(s, "entering", 0)
  /\ UNCHANGED <<worktree, input, handle, result, starts, crossed, refused>>

\* The skill: load-all, then enter at the first entity that is no success.
Enter(s) ==
  /\ at[s].pc = "entering"
  /\ Goto(s, "ready",
          IF file.input = input[s] THEN FirstIncomplete(file) ELSE 1)
  /\ UNCHANGED <<file, worktree, input, handle, copy, result, history>>

-----------------------------------------------------------------------------
\* The session leaves the run: by a terminal return, or dead.
Leave(s, verdict) ==
  /\ at' = [at EXCEPT ![s] = Off]
  /\ input' = [input EXCEPT ![s] = Nil]
  /\ handle' = [handle EXCEPT ![s] = FALSE]
  /\ copy' = [copy EXCEPT ![s] = Nil]
  /\ result' = [result EXCEPT ![s] = verdict]

Needs(k) == Plan[k].require
            \cup (IF Plan[k].worktree = "finalize" THEN {"worktreePath"} ELSE {})

\* load-required: the names that are missing; the file is only read.
Missing(names) == {name \in names : ~Published(name)}

Blocked(s) ==
  /\ at[s].pc = "ready" /\ at[s].k \in Entities
  /\ Missing(Needs(at[s].k)) # {}
  /\ Leave(s, "blocked")
  /\ UNCHANGED <<file, worktree, history>>

\* sf_flow_prepare: git refuses a branch or a directory that is there.
PrepareWorktree(s) ==
  \/ /\ worktree = "none"
     /\ worktree' = "there"
     /\ handle' = [handle EXCEPT ![s] = TRUE]
  \/ /\ handle' = [handle EXCEPT ![s] = FALSE]
     /\ UNCHANGED worktree

\* sf_flow_finalize: the directory goes, the branch stays; git may refuse.
FinalizeWorktree ==
  \/ worktree' = "removed" /\ UNCHANGED refused
  \/ refused' = TRUE /\ UNCHANGED worktree

\* The prologue, with the worktree calls: neither's failure is looked at.
Prologue(s) ==
  LET k == at[s].k IN
  /\ at[s].pc = "ready" /\ k \in Entities
  /\ Missing(Needs(k)) = {}
  /\ Goto(s, "working", k)
  /\ CASE Plan[k].worktree = "prepare"  -> PrepareWorktree(s) /\ UNCHANGED refused
       [] Plan[k].worktree = "finalize" -> FinalizeWorktree /\ UNCHANGED handle
       [] OTHER -> UNCHANGED <<worktree, handle, refused>>
  /\ UNCHANGED <<file, input, copy, result, starts, done, crossed>>

\* The declared artifacts are not there when the epilogue asserts them.
AssertFails(s) ==
  /\ at[s].pc = "working" /\ ~Plan[at[s].k].group
  /\ Leave(s, "blocked")
  /\ UNCHANGED <<file, worktree, history>>

Worktree(s, k) ==
  IF Plan[k].worktree = "prepare" /\ handle[s] THEN {"worktreePath"} ELSE {}
Republished(k, given) ==  \* Object.assign: a missing worktreePath erases one
  IF Plan[k].worktree = "prepare"
    THEN (Loaded.outputs[k] \ {"worktreePath"}) \cup given
    ELSE Loaded.outputs[k] \cup given

\* The agents answer, or a group's gate approves; complete loads the file.
\* An agent that answers nothing publishes nothing.
Complete(s) ==
  LET k == at[s].k IN
  /\ at[s].pc = "working"
  /\ \E answered \in SUBSET Plan[k].publish :
       copy' = [copy EXCEPT ![s] =
         [Loaded EXCEPT !.status[k] = "success",
                        !.outputs[k] = Republished(k, answered \cup Worktree(s, k))]]
  /\ Goto(s, "completing", k)
  /\ UNCHANGED <<file, worktree, input, handle, result, history>>

CompleteSaved(s) ==
  /\ at[s].pc = "completing"
  /\ file' = copy[s] /\ copy' = [copy EXCEPT ![s] = Nil]
  /\ done' = done \cup {<<input[s], at[s].k>>}
  /\ Goto(s, "ready", at[s].k + 1)
  /\ UNCHANGED <<worktree, input, handle, result, starts, crossed, refused>>

\* A group's rounds run out: it is written as blocked, and the script ends.
NotConverged(s) ==
  /\ at[s].pc = "working" /\ Plan[at[s].k].group
  /\ copy' = [copy EXCEPT ![s] = [Loaded EXCEPT !.status[at[s].k] = "blocked"]]
  /\ Goto(s, "blocking", at[s].k)
  /\ UNCHANGED <<file, worktree, input, handle, result, history>>

BlockedSaved(s) ==
  /\ at[s].pc = "blocking"
  /\ file' = copy[s]
  /\ Leave(s, "blocked")
  /\ UNCHANGED <<worktree, history>>

\* The end of the script: load-all tells whether every entity is a success.
Return(s) ==
  /\ at[s].pc = "ready" /\ at[s].k = Len(Plan) + 1
  /\ Leave(s, IF FirstIncomplete(Loaded) = Len(Plan) + 1
               THEN "success" ELSE "blocked")
  /\ UNCHANGED <<file, worktree, history>>

\* The process dies between two calls, or between a call's load and rename.
Die(s) ==
  /\ at[s].pc # "off"
  /\ Leave(s, "none")
  /\ UNCHANGED <<file, worktree, history>>

FlowNext ==
  \E s \in Sessions :
    \/ \E i \in Inputs : Start(s, i)
    \/ Seed(s) \/ Enter(s) \/ Blocked(s) \/ Prologue(s) \/ AssertFails(s)
    \/ Complete(s) \/ CompleteSaved(s) \/ NotConverged(s) \/ BlockedSaved(s)
    \/ Return(s) \/ Die(s)

FlowSpec == FlowInit /\ [][FlowNext]_flowVars

-----------------------------------------------------------------------------
(* A run that reports success has had every phase and group completed for  *)
(* its own input since another's state file was replaced, whatever was     *)
(* resumed, died or got lost between a load and a rename, and its worktree *)
(* is gone unless git refused; only sessions of two inputs that share the  *)
(* slug at the same time can make it lie (state.ts:65).                    *)
Earned ==
  \A s \in Sessions :
    result[s] # "success" /\ result'[s] = "success" /\ ~crossed =>
      /\ \A k \in Entities : <<input[s], k>> \in done
      /\ worktree = "removed" \/ refused
SuccessIsEarned == [][Earned]_flowVars
=============================================================================
