----------------------------- MODULE PlanIndex -----------------------------
(***************************************************************************)
(* The global plan-index.json of agent-workflows, for one slug: processes  *)
(* register the plan roots they work in and resume by slug, through their  *)
(* candidate roots first and the index after.  A process reads the index   *)
(* and renames a changed copy into place; two may do so at once, and the   *)
(* file may be unreadable.  No two write within one millisecond, which     *)
(* would share a .tmp name.                                                *)
(***************************************************************************)
EXTENDS Naturals, FiniteSets, Sequences

CONSTANTS
  Procs,
  Roots,     \* plan roots, by their real paths
  Unread     \* no copy of the index in hand

VARIABLES
  planIndex, \* the roots recorded under the slug
  garbled,   \* the file cannot be read, or is no index
  live,      \* roots whose folder of the slug has a workflow.json
  draft,     \* the copy of the index an upsert has read
  root,      \* the root an upsert is for
  lacking,   \* history: recorded roots an upsert's copy does not have
  remembered \* history: the roots written and not passed over since

indexVars == <<planIndex, garbled, live, draft, root, lacking, remembered>>

IndexInit ==
  /\ planIndex = {} /\ live = {} /\ remembered = {} /\ garbled = FALSE
  /\ draft = [p \in Procs |-> Unread] /\ root \in [Procs -> Roots]
  /\ lacking = [p \in Procs |-> {}]

\* A workflow starts in a plan root, or its folder is removed.
Create(r) ==
  /\ r \notin live /\ live' = live \cup {r}
  /\ UNCHANGED <<planIndex, garbled, draft, root, lacking, remembered>>
RemovePlan(r) ==
  /\ r \in live /\ live' = live \ {r}
  /\ UNCHANGED <<planIndex, garbled, draft, root, lacking, remembered>>

\* From outside: the file is made unreadable or is edited badly, and mended.
Garble ==
  /\ garbled' = ~garbled
  /\ UNCHANGED <<planIndex, live, draft, root, lacking, remembered>>

\* readIndex: what cannot be read is an empty index.
ReadRoots == IF garbled THEN {} ELSE planIndex

\* upsertEntry, up to the write, and the write.
ReadIndex(p, r) ==
  /\ draft[p] = Unread
  /\ draft' = [draft EXCEPT ![p] = ReadRoots]
  /\ root' = [root EXCEPT ![p] = r]
  /\ lacking' = [lacking EXCEPT ![p] = planIndex \ ReadRoots]
  /\ UNCHANGED <<planIndex, garbled, live, remembered>>
Landed(p) ==  \* the copies in other hands do not have it
  /\ draft' = [draft EXCEPT ![p] = Unread] /\ garbled' = FALSE
  /\ lacking' = [q \in Procs |-> IF q = p \/ draft[q] = Unread THEN {}
                                 ELSE lacking[q] \cup {root[p]}]
  /\ remembered' = (remembered \ lacking[p]) \cup {root[p]}
  /\ UNCHANGED <<live, root>>
\* Broken variant: writes its own entry only.
WriteAlone(p) ==
  /\ draft[p] # Unread /\ planIndex' = {root[p]} /\ Landed(p)
WriteIndex(p) ==
  /\ draft[p] # Unread /\ planIndex' = draft[p] \cup {root[p]} /\ Landed(p)

UpsertDies(p) ==
  /\ draft[p] # Unread
  /\ draft' = [draft EXCEPT ![p] = Unread]
  /\ lacking' = [lacking EXCEPT ![p] = {}]
  /\ UNCHANGED <<planIndex, garbled, live, root, remembered>>

IndexNext ==
  \/ \E r \in Roots : Create(r) \/ RemovePlan(r)
  \/ Garble
  \/ \E p \in Procs : (\E r \in Roots : ReadIndex(p, r)) \/ WriteIndex(p) \/ UpsertDies(p)

IndexSpec == IndexInit /\ [][IndexNext]_indexVars

\* resolvePlanTarget of a slug: {r} is the folder, {} not found, more ambiguous.
FirstLive(candidates) ==
  LET n == CHOOSE n \in 1..(Len(candidates) + 1) :
             /\ n <= Len(candidates) => candidates[n] \in live
             /\ \A m \in 1..(n - 1) : candidates[m] \notin live
  IN  IF n <= Len(candidates) THEN {candidates[n]} ELSE {}
LookupEntries == {r \in ReadRoots : r \in live}
ResolvePlanTarget(candidates) ==
  IF FirstLive(candidates) # {} THEN FirstLive(candidates) ELSE LookupEntries

(* A slug resolved through the index names the only live plan among the    *)
(* roots remembered: two of them are refused as ambiguous, and one alone   *)
(* is found unless the file is garbled right then.  A root is forgotten    *)
(* only when an upsert writes a copy that lacks it: one read before the    *)
(* root was written, or off a garbled file, which passes for an empty      *)
(* index (plan-index.ts:43-57).  A candidate root with a plan goes before  *)
(* the index.                                                              *)
SlugNamesOnePlan ==
  /\ \A r \in Roots : ResolvePlanTarget(<<>>) = {r} => remembered \cap live \subseteq {r}
  /\ remembered \cap live # {} /\ ~garbled => ResolvePlanTarget(<<>>) # {}
  /\ \A c \in live : ResolvePlanTarget(<<c>>) = {c}
=============================================================================
