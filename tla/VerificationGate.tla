-------------------------- MODULE VerificationGate --------------------------
(***************************************************************************)
(* runVerificationPolicy: the commands of a phase run in order, each with  *)
(* its attempts, and one whose fingerprint has passed before is skipped.   *)
(* Tools in several processes share the cache file of one checkout, and    *)
(* agents edit its files at any time.                                      *)
(*                                                                         *)
(* The cache file is taken to be out of git's sight; in a checkout that    *)
(* does not ignore it, writing it changes the fingerprint and nothing is   *)
(* ever skipped.  Whether a command passes is a choice at every attempt.   *)
(***************************************************************************)
EXTENDS Naturals, FiniteSets, Sequences

CONSTANTS
  Tools,        \* processes, one tool each
  Commands,     \* the commands of the phase, in order
  Contents,     \* what each part of the checkout may hold
  CacheModes,   \* among "off", "run", "persistent"
  MaxAttempts,
  MaxEdits      \* bound: edits of the checkout

VARIABLES
  tree,       \* the checkout: committed, changed and untracked files
  tool,       \* a tool: "idle", "running", "passed" or "marking"; its command
  cacheMode,  \* its cacheMode
  print,      \* the fingerprint it took before the command
  tries,
  memory,     \* its VerificationRunCache
  disk,       \* the persistent cache: fingerprints
  loaded,     \* the copy of disk it is about to write
  edits,
  passed,     \* history: <<command, tree>> that have passed
  disturbed   \* history: an edit fell between a fingerprint and its marking

gateVars == <<tree, tool, cacheMode, print, tries, memory, disk, loaded, edits,
              passed, disturbed>>

Trees == [committed : Contents, changed : Contents, untracked : Contents]
Idle == [at |-> "idle", k |-> 1]

GateInit ==
  /\ tree \in {t \in Trees : \A part \in DOMAIN t : t[part] = CHOOSE c \in Contents : TRUE}
  /\ tool = [p \in Tools |-> Idle] /\ cacheMode \in [Tools -> CacheModes]
  /\ print = [p \in Tools |-> <<>>] /\ tries = [p \in Tools |-> 0]
  /\ memory = [p \in Tools |-> {}] /\ disk = {} /\ loaded = [p \in Tools |-> {}]
  /\ edits = 0 /\ passed = {} /\ disturbed = FALSE

\* git rev-parse HEAD, the diffs and the untracked files' contents.  Every git
\* call answers here, with at most 25 MB: the code leaves an answer it does not
\* get out of the hash (fingerprint.ts:76-88).
FingerprintTracked(k) == <<Commands[k], [tree EXCEPT !.untracked = 0]>>
Fingerprint(k) == <<Commands[k], tree>>

Step(p, at, k) == tool' = [tool EXCEPT ![p] = [at |-> at, k |-> k]]

Hit(p, f) ==
  /\ cacheMode[p] # "off"
  /\ f \in memory[p] \/ (cacheMode[p] = "persistent" /\ f \in disk)

\* The next command, or the end of the policy.
Onwards(p, k) ==
  IF k = Len(Commands) THEN tool' = [tool EXCEPT ![p] = Idle] ELSE Step(p, "idle", k + 1)

Skip(p) ==
  LET k == tool[p].k IN
  /\ tool[p].at = "idle" /\ Hit(p, Fingerprint(k))
  /\ Onwards(p, k)
  /\ UNCHANGED <<tree, cacheMode, print, tries, memory, disk, loaded, edits, passed,
                 disturbed>>

Take(p) ==
  LET k == tool[p].k IN
  /\ tool[p].at = "idle" /\ ~Hit(p, Fingerprint(k))
  /\ print' = [print EXCEPT ![p] = Fingerprint(k)]
  /\ tries' = [tries EXCEPT ![p] = 1]
  /\ Step(p, "running", k)
  /\ UNCHANGED <<tree, cacheMode, memory, disk, loaded, edits, passed, disturbed>>

Passes(p) ==
  LET k == tool[p].k IN
  /\ tool[p].at = "running"
  /\ passed' = passed \cup {<<Commands[k], tree>>}
  /\ Step(p, "passed", k)
  /\ UNCHANGED <<tree, cacheMode, print, tries, memory, disk, loaded, edits, disturbed>>

\* Another tries, or the error that ends the policy.
Fails(p) ==
  /\ tool[p].at = "running"
  /\ IF tries[p] < MaxAttempts
       THEN tries' = [tries EXCEPT ![p] = @ + 1] /\ UNCHANGED <<tool, print>>
       ELSE /\ tool' = [tool EXCEPT ![p] = Idle]
            /\ tries' = [tries EXCEPT ![p] = 0]
            /\ print' = [print EXCEPT ![p] = <<>>]
  /\ UNCHANGED <<tree, cacheMode, memory, disk, loaded, edits, passed, disturbed>>

Clear(p) ==
  /\ print' = [print EXCEPT ![p] = <<>>]
  /\ tries' = [tries EXCEPT ![p] = 0]

\* markVerificationPassed: the file's other entries are those just read.
MarkPassed(p) ==
  /\ tool[p].at = "passed"
  /\ memory' = [memory EXCEPT ![p] = IF cacheMode[p] = "off" THEN @ ELSE @ \cup {print[p]}]
  /\ IF cacheMode[p] = "persistent"
       THEN /\ loaded' = [loaded EXCEPT ![p] = disk \cup {print[p]}]
            /\ Step(p, "marking", tool[p].k)
            /\ UNCHANGED <<print, tries>>
       ELSE Onwards(p, tool[p].k) /\ Clear(p) /\ UNCHANGED loaded
  /\ UNCHANGED <<tree, cacheMode, disk, edits, passed, disturbed>>

Persist(p) ==
  /\ tool[p].at = "marking"
  /\ disk' = loaded[p]
  /\ loaded' = [loaded EXCEPT ![p] = {}]
  /\ Onwards(p, tool[p].k) /\ Clear(p)
  /\ UNCHANGED <<tree, cacheMode, memory, edits, passed, disturbed>>

\* The tool ends, or dies, perhaps with the file half written: a file that
\* cannot be parsed is an empty cache.
Ends(p) ==
  /\ tool[p] # Idle \/ memory[p] # {}
  /\ tool' = [tool EXCEPT ![p] = Idle] /\ Clear(p)
  /\ memory' = [memory EXCEPT ![p] = {}]
  /\ loaded' = [loaded EXCEPT ![p] = {}]
  /\ disk' \in IF tool[p].at = "marking" THEN {disk, {}} ELSE {disk}
  /\ UNCHANGED <<tree, cacheMode, edits, passed, disturbed>>

Edit ==
  /\ edits < MaxEdits
  /\ edits' = edits + 1
  /\ \E part \in DOMAIN tree : \E c \in Contents \ {tree[part]} :
       tree' = [tree EXCEPT ![part] = c]
  /\ disturbed' = (disturbed \/ \E p \in Tools : tool[p].at = "running")
  /\ UNCHANGED <<tool, cacheMode, print, tries, memory, disk, loaded, passed>>

GateNext ==
  \/ \E p \in Tools : Skip(p) \/ Take(p) \/ Passes(p) \/ Fails(p)
                      \/ MarkPassed(p) \/ Persist(p) \/ Ends(p)
  \/ Edit

GateSpec == GateInit /\ [][GateNext]_gateVars

-----------------------------------------------------------------------------
(* A command that would be skipped has passed on the very files that are   *)
(* there now, whichever tool ran it and however the cache was shared, lost *)
(* or rewritten, unless files changed while a command was running: the     *)
(* fingerprint is taken before it runs (runner.ts:62).                     *)
SkippedHavingPassed ==
  \A p \in Tools :
    LET k == tool[p].k IN
    tool[p].at = "idle" /\ Hit(p, Fingerprint(k)) /\ ~disturbed =>
      <<Commands[k], tree>> \in passed
=============================================================================
