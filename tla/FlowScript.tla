----------------------------- MODULE FlowScript -----------------------------
(***************************************************************************)
(* What the validation of a workflow file promises of the script generated *)
(* from it.  loadFlowYaml checks the phases, their contracts, the group and*)
(* the loops; the script then runs the phases in order, each taking the    *)
(* names it requires from the published ones and publishing its own.       *)
(* Every agent answers here, and every tool succeeds (FlowRun has the      *)
(* failures).  What runs the script is no part of the repository: a        *)
(* JavaScript engine refuses a script that declares a constant twice, an   *)
(* orchestrator that follows its steps (sf-flow-auto's SKILL.md:40-47) goes*)
(* on.  Names in inject, dir and fanout templates, at which validation does*)
(* not look, are left out, files take no name that begins with _ (the      *)
(* generator's), and the ship-feature profile is left out.                 *)
(***************************************************************************)
EXTENDS Naturals, FiniteSets, Sequences, Functions

CONSTANTS
  Flows,    \* families of workflow files: agents, phases, one group's phases
            \* (<<>> for none) and loops, key 0 standing for the group
  None      \* a field that is not set

ASSUME FlowsAssumption ==
  \A family \in Flows : \A f \in family : DOMAIN f.phases = 1 .. Len(f.phases)

VARIABLES
  flow,     \* the file; it has at most one group here
  strict,   \* whether the script is run as the JavaScript it is
  stage,    \* "read", "written", "running" or "over"
  next,     \* the phase the script is at
  values,   \* names published to the state file
  scope,    \* constants the script has declared at its top level
  ended     \* how the script ended, and the names it ended for

scriptVars == <<flow, strict, stage, next, values, scope, ended>>

BuiltinInputs == {"input", "flow"}
Some(name) == {name} \ {None}
Declared(ph) == IF ph.publish = None THEN {} ELSE DOMAIN ph.publish

-----------------------------------------------------------------------------
PublishedNames(ph) ==
  Some(ph.out) \cup Declared(ph) \cup (IF ph.slug THEN {"slug"} ELSE {})

AvailableThrough(f, i) ==
  BuiltinInputs \cup UNION {PublishedNames(f.phases[j]) : j \in 1 .. i}
AvailableBefore(f, i) ==
  BuiltinInputs \cup UNION {PublishedNames(f.phases[j]) : j \in 1 .. i - 1}

PhaseOk(f, i) ==
  LET ph == f.phases[i]
      outs == UNION {Some(f.phases[j].out) : j \in 1 .. i - 1}
  IN /\ Cardinality(ph.run) = 1
     /\ ph.run \cap {"agent", "questions"} # {} => ph.agent \in Range(f.agents)
     /\ "questions" \in ph.run => ~ph.fanout /\ ph.verify = None
     /\ ph.fanout => ph.run \cap {"skill", "raw"} = {} /\ ph.out # None
     /\ Some(ph.verify) \subseteq outs
     /\ ph.out \notin outs

\* A value is {{dir}}, {{slug}}, a literal or a name in the phase's scope.
PublishOk(ph) ==
  \A name \in Declared(ph) :
    CASE ph.publish[name] = "{{dir}}"  -> ph.dir
      [] ph.publish[name] = "{{slug}}" -> ph.slug
      [] ph.publish[name] = "1"        -> TRUE
      [] OTHER -> ph.publish[name] \in Some(ph.out) \cup ph.require

ContractOk(f, i) ==
  LET ph == f.phases[i] IN
  /\ ph.require \subseteq AvailableBefore(f, i)
  /\ ph.worktree = "finalize" => \E j \in 1 .. i - 1 : f.phases[j].worktree = "prepare"
  /\ ~ph.lost
  /\ PublishOk(ph)

GroupOk(f) ==
  f.group # <<>> =>
    /\ Range(f.group) \subseteq DOMAIN f.phases
    /\ IsInjective(f.group)
    /\ \A i \in Range(f.group) : "agent" \in f.phases[i].run
    /\ \E l \in f.loops : l.key = 0

GroupLoopOk(f, l) ==
  LET gate == f.phases[f.group[1]] IN
  /\ ~l.dry
  /\ l.canonical => l.until
  /\ l.until => "verdict" \in gate.schema
  /\ l.until /\ l.canonical => "findings" \in gate.schema

PhaseLoopOk(f, l) ==
  /\ l.key \in DOMAIN f.phases
  /\ f.phases[l.key].run \cap {"skill", "raw", "questions"} = {}
  /\ l.dry => f.phases[l.key].fanout
  /\ ~l.canonical
  /\ l.until => "verdict" \in f.phases[l.key].schema

ValidateFlowYaml(f) ==
  /\ f.named                    \* in kebab case, not flow's own prefix
  /\ IsInjective(f.agents)
  /\ \A i \in DOMAIN f.phases : PhaseOk(f, i) /\ ContractOk(f, i)
  /\ GroupOk(f)
  /\ \A l \in f.loops :
       IF l.key = 0 /\ f.group # <<>> THEN GroupLoopOk(f, l) ELSE PhaseLoopOk(f, l)

-----------------------------------------------------------------------------
ScriptInit ==
  /\ \E family \in Flows : flow \in family
  /\ strict \in BOOLEAN
  /\ stage = "read" /\ next = 1
  /\ values = {} /\ scope = {} /\ ended = [how |-> "not", names |-> {}]

End(how, names) ==
  /\ stage' = "over" /\ ended' = [how |-> how, names |-> names]

\* A file with errors is refused; the others become a script.
LoadFlowYaml ==
  /\ stage = "read"
  /\ IF ValidateFlowYaml(flow) THEN stage' = "written" /\ UNCHANGED ended
                               ELSE End("refused", {})
  /\ UNCHANGED <<flow, strict, next, values, scope>>

Grouped(i) == i \in Range(flow.group)
\* The group's loop stands at its first phase in the file.
GroupAt == CHOOSE i \in Range(flow.group) : \A j \in Range(flow.group) : i <= j

\* Only an agent's answer becomes a constant.
ProducesOut(ph) == ph.out # None /\ ph.run \cap {"questions", "skill"} = {}

\* What a contract declares besides the names it requires: load-required's
\* answer, the worktree's, outputs.slug and outputs.dir.  (_assertRes comes
\* twice only where _dir does.)
Handles(ph) ==
  (IF ph.require # {} THEN {"_req"} ELSE {})
  \cup (IF ph.worktree = "prepare" THEN {"_wt"} ELSE {})
  \cup (IF ph.worktree = "finalize" THEN {"_wtReq"} ELSE {})
  \cup (IF ph.slug THEN {"slug"} ELSE {}) \cup (IF ph.dir THEN {"_dir"} ELSE {})

Sorts == {"required", "handle", "out"}
Constants(ph, role) ==
  CASE role = "required" -> ph.require
    [] role = "handle"   -> Handles(ph)
    [] role = "out"      -> IF ProducesOut(ph) THEN {ph.out} ELSE {}
AllConstants(ph) == UNION {Constants(ph, role) : role \in Sorts}

\* A phase outside the group declares its constants at the script's top
\* level, whatever the phases before it declared.  A raw phase is opaque.
Declares(i, role, name) ==
  /\ i \in DOMAIN flow.phases /\ role \in Sorts
  /\ ~Grouped(i) /\ "raw" \notin flow.phases[i].run
  /\ name \in Constants(flow.phases[i], role)

DeclaredTwice ==
  {name \in UNION {AllConstants(ph) : ph \in Range(flow.phases)} :
     \E i, j \in DOMAIN flow.phases, r, s \in Sorts :
       <<i, r>> # <<j, s>> /\ Declares(i, r, name) /\ Declares(j, s, name)}

\* Run as JavaScript, a script that declares a name twice runs no phase.
StartScript ==
  /\ stage = "written"
  /\ IF strict /\ DeclaredTwice # {}
       THEN End("syntax", DeclaredTwice) /\ UNCHANGED scope
       ELSE /\ stage' = "running" /\ UNCHANGED ended
            \* the gate's helper, which a loop until approved asks for
            /\ scope' = IF \E l \in flow.loops : l.until
                          THEN {"_gateApproved"} ELSE {}
  /\ UNCHANGED <<flow, strict, next, values>>

PassOver ==
  /\ stage = "running" /\ next \in DOMAIN flow.phases
  /\ \/ Grouped(next) /\ next # GroupAt
     \/ ~Grouped(next) /\ "raw" \in flow.phases[next].run
  /\ next' = next + 1
  /\ UNCHANGED <<flow, strict, stage, values, scope, ended>>

\* A group publishes nothing: it converges, or the script ends.
RunGroup ==
  /\ stage = "running" /\ next \in DOMAIN flow.phases
  /\ Grouped(next) /\ next = GroupAt
  /\ \/ /\ "_gateApproved" \in scope
        /\ next' = next + 1 /\ UNCHANGED <<stage, ended>>
     \/ /\ "_gateApproved" \in scope
        /\ End("not converged", {}) /\ UNCHANGED next
     \/ /\ "_gateApproved" \notin scope
        /\ End("undefined", {"_gateApproved"}) /\ UNCHANGED next
  /\ UNCHANGED <<flow, strict, values, scope>>

Reference(value) ==
  CASE value = "1" -> {} [] value = "{{dir}}" -> {"_dir"}
    [] value = "{{slug}}" -> {"slug"} [] OTHER -> {value}

\* A declared publish takes the place of the out.
Publishes(ph) ==
  (IF ph.publish # None THEN DOMAIN ph.publish
   ELSE IF ProducesOut(ph) THEN {ph.out} ELSE {})
  \cup (IF ph.worktree = "prepare" THEN {"worktreePath"} ELSE {})

RunPhase ==
  LET ph == flow.phases[next]
      needs == ph.require \cup (IF ph.worktree = "finalize" THEN {"worktreePath"} ELSE {})
      known == scope \cup AllConstants(ph)
      used == UNION {Reference(ph.publish[name]) : name \in Declared(ph)}
  IN
  /\ stage = "running" /\ next \in DOMAIN flow.phases
  /\ ~Grouped(next) /\ "raw" \notin ph.run
  /\ IF ~(needs \subseteq values)
       THEN End("blocked", needs \ values) /\ UNCHANGED <<next, values, scope>>
     ELSE IF ~(used \subseteq known)
       THEN End("undefined", used \ known) /\ UNCHANGED <<next, values, scope>>
     ELSE /\ next' = next + 1 /\ scope' = known /\ values' = values \cup Publishes(ph)
          /\ UNCHANGED <<stage, ended>>
  /\ UNCHANGED <<flow, strict>>

ReachEnd ==
  /\ stage = "running" /\ next \notin DOMAIN flow.phases
  /\ End("success", {}) /\ UNCHANGED <<flow, strict, next, values, scope>>

ScriptNext ==
  LoadFlowYaml \/ StartScript \/ PassOver \/ RunGroup \/ RunPhase \/ ReachEnd

ScriptSpec == ScriptInit /\ [][ScriptNext]_scriptVars

-----------------------------------------------------------------------------
\* What validation counts as published and no epilogue publishes: the names
\* of grouped and raw phases, the out of a skill or questions phase, and an
\* out or a slug that a declared publish leaves out.
Claims(ph) ==
  PublishedNames(ph) \cup (IF ph.worktree = "prepare" THEN {"worktreePath"} ELSE {})
TakenOnTrust(i) ==
  LET ph == flow.phases[i] IN
  IF Grouped(i) \/ "raw" \in ph.run THEN Claims(ph) ELSE Claims(ph) \ Publishes(ph)

(* A validated flow whose agents all answer runs to its end.  Run as       *)
(* JavaScript, it can fail before its first phase, for constants that two  *)
(* places declare: names a phase requires, or a contract's own (generate.ts*)
(* :86-115); that is what the check of validate.ts:83-86 prevents for two  *)
(* outs, and for them only.  Once started it can block only for a built-in *)
(* input, which is no published name, or for a name an earlier phase claims*)
(* without publishing it; and it can meet an undefined name only where a   *)
(* phase without an answer of its own publishes its out, or a group's loop *)
(* does not say until what (validate.ts:90).                               *)
ValidFlowRuns ==
  /\ ended.how = "syntax" =>
       \A name \in ended.names : \E i \in DOMAIN flow.phases, role \in {"required", "handle"} :
         Declares(i, role, name)
  /\ ended.how = "blocked" =>
       ended.names \subseteq
         BuiltinInputs \cup UNION {TakenOnTrust(i) : i \in 1 .. next - 1}
  /\ ended.how = "undefined" =>
       \/ ended.names = Some(flow.phases[next].out) /\ ~ProducesOut(flow.phases[next])
       \/ Grouped(next) /\ \A l \in flow.loops : ~l.until
=============================================================================
