----------------------------- MODULE CatalogSync -----------------------------
(***************************************************************************)
(* The `ct` commands of packages/catalog on several machines that share    *)
(* GitHub gists: every command that changes cat.yaml, catalog.lock.json,   *)
(* removed.json, the .gist cache or the installed packages.                *)
(*                                                                         *)
(* A machine runs one command at a time.  A command is split where the     *)
(* code awaits a child process or the network: other machines may act      *)
(* there, the call may fail, or the process may die (Crash).               *)
(***************************************************************************)
EXTENDS CatalogPlan

CONSTANTS
  Machines,
  Profiles,    \* values of --profile
  Gists,       \* gist ids GitHub may hand out
  AddArgs,     \* <<name, source>> pairs given to `ct add`
  ScopeSources,\* the sources of the @pi-stef scope (version-less)
  Companions,  \* pi.companions of each source: [Sources -> SUBSET Sources]
  MaxEdits,    \* bound: commands other than a plain sync, over a behaviour
  MaxFaults    \* bound: failed calls and crashes, over a behaviour

ASSUME CommandAssumption ==
  /\ AddArgs \subseteq Names \X Sources
  /\ ScopeSources \subseteq {s \in Sources : s.pin = None /\ s.key \in Names}
  /\ Companions \in [Sources -> SUBSET {s \in Sources : s.key \in Names}]
  /\ None \notin Gists
  /\ MaxEdits \in Nat /\ MaxFaults \in Nat

VARIABLES
  catalog,   \* cat.yaml of each machine
  lock,      \* catalog.lock.json of each machine
  tomb,      \* removed.json of each machine
  installed, \* what settings.json lists on each machine
  cached,    \* the .gist file of each machine
  gist,      \* the gists GitHub holds
  op,        \* the command each machine is running
  edits, faults,
  mine       \* history: keys this machine's user added and has not given up

vars == <<catalog, lock, tomb, installed, cached, gist, op, edits, faults, mine>>
disk == <<catalog, lock, tomb>>

Idle == [cmd |-> "none", pc |-> "idle", plan |-> {}, todo |-> {}, seen |-> {},
         err |-> FALSE, push |-> FALSE, profile |-> None, target |-> None,
         dropped |-> {}]

Op == [cmd : {"none", "sync", "pull", "push", "user", "reset"},
       pc : {"idle", "exec", "find", "write"},
       plan : SUBSET Action, todo : SUBSET Action, seen : SUBSET Sources,
       err : BOOLEAN, push : BOOLEAN, profile : Profiles \cup {None},
       target : Gists \cup {None}, dropped : SUBSET Names]

Gist == [profile : Profiles, catalog : Catalogs, lock : Locks]

ASSUME NoneAssumption == None \notin Entry /\ None \notin Installed /\ None \notin Gist

TypeOK ==
  /\ catalog \in [Machines -> Catalogs]
  /\ lock \in [Machines -> Locks]
  /\ tomb \in [Machines -> SUBSET Names]
  /\ installed \in [Machines -> Installs]
  /\ cached \in [Machines -> Gists \cup {None}]
  /\ gist \in [Gists -> Gist \cup {None}]
  /\ op \in [Machines -> Op]
  /\ edits \in 0 .. MaxEdits /\ faults \in 0 .. MaxFaults
  /\ mine \in [Machines -> SUBSET Names]

Init ==
  /\ catalog = [m \in Machines |-> EmptyCatalog]
  /\ lock = [m \in Machines |-> EmptyLock]
  /\ tomb = [m \in Machines |-> {}]
  /\ installed = [m \in Machines |-> [k \in Keys |-> None]]
  /\ cached = [m \in Machines |-> None]
  /\ gist = [g \in Gists |-> None]
  /\ op = [m \in Machines |-> Idle]
  /\ edits = 0 /\ faults = 0
  /\ mine = [m \in Machines |-> {}]

-----------------------------------------------------------------------------
(* Helpers *)

Existing == {g \in Gists : gist[g] # None}

(* The gist id a pull or push works on: the cached one, whatever profile   *)
(* it was cached for, else any gist whose description names the profile    *)
(* (the listing's order is GitHub's), else none.                           *)
Lookup(m, p) ==
  LET found == {g \in Existing : gist[g].profile = p}
  IN CASE cached[m] # None -> {cached[m]}
       [] cached[m] = None /\ found # {} -> found
       [] OTHER -> {None}

IsIdle(m) == op[m].pc = "idle"
Edit  == edits < MaxEdits /\ edits' = edits + 1
Fault == faults < MaxFaults /\ faults' = faults + 1
NoFault == UNCHANGED faults

Set(f, m, v) == [f EXCEPT ![m] = v]

(* Start a command that runs `plan`, or finish at once when there is none. *)
Run(m, cmd, plan, after) ==
  op' = Set(op, m,
    IF plan = {} /\ ~after.push THEN Idle
    ELSE [after EXCEPT !.cmd = cmd, !.plan = plan, !.todo = plan,
                       !.pc = IF plan = {} THEN "find" ELSE "exec"])

-----------------------------------------------------------------------------
(* ct sync *)

(* The pull succeeded: read local state, merge, apply and clear the        *)
(* tombstones, plan, and write cat.yaml and the lock before acting.        *)
SyncPulled(m, p, force, noPush) ==
  \E g \in Lookup(m, p) \ {None} :
    LET remote == gist[g]
        merged == Merge(catalog[m], remote.catalog, tomb[m])
        plan   == Reconcile(merged, installed[m])
        synced == SyncedLock(merged, installed[m])
        push   == /\ ~noPush
                  /\ \/ force
                     \/ plan # {}
                     \/ Has(catalog[m]) \ Has(remote.catalog) # {}
                     \/ lock[m] # remote.lock
                     \/ synced # remote.lock
    IN /\ cached' = Set(cached, m, g)
       /\ tomb' = Set(tomb, m, {})
       /\ catalog' = Set(catalog, m, merged)
       /\ lock' = Set(lock, m, IF plan # {} THEN remote.lock ELSE synced)
       /\ Run(m, "sync", plan, [Idle EXCEPT !.push = push, !.profile = p,
                                            !.dropped = tomb[m]])
       /\ NoFault

(* The pull failed: warn and go on with the catalog on disk.               *)
SyncOffline(m, p, force, noPush) ==
  LET plan == Reconcile(catalog[m], installed[m])
      push == /\ ~noPush
              /\ \/ force
                 \/ plan # {}
                 \/ cached[m] = None /\ Has(catalog[m]) # {}
  IN /\ IF None \in Lookup(m, p) THEN NoFault ELSE Fault
     /\ lock' = Set(lock, m, IF plan # {} THEN lock[m]
                             ELSE SyncedLock(catalog[m], installed[m]))
     /\ Run(m, "sync", plan, [Idle EXCEPT !.push = push, !.profile = p])
     /\ UNCHANGED <<catalog, tomb, cached>>

Sync(m, p, force, noPush) ==
  /\ IsIdle(m)
  /\ SyncPulled(m, p, force, noPush) \/ SyncOffline(m, p, force, noPush)
  /\ UNCHANGED <<installed, gist, mine>>

(* A plain `ct sync` is free; one with flags counts as an edit.            *)
PlainSync(m) == \E p \in Profiles : Sync(m, p, FALSE, FALSE) /\ UNCHANGED edits

FlaggedSync(m) ==
  \E p \in Profiles, force, noPush \in BOOLEAN :
    (force \/ noPush) /\ Sync(m, p, force, noPush) /\ Edit

(* --dry-run of sync and pull shows the plan; only the discovered gist id  *)
(* is remembered.                                                          *)
DryRun(m) ==
  /\ IsIdle(m)
  /\ \E p \in Profiles : \E g \in Lookup(m, p) \ {None} : cached' = Set(cached, m, g)
  /\ UNCHANGED <<disk, installed, gist, op, edits, faults, mine>>

-----------------------------------------------------------------------------
(* ct pull, ct push *)

(* pullCommand(): the pulled catalog and lock replace the local ones; the  *)
(* tombstones are neither applied nor cleared.                             *)
Pull(m) ==
  /\ IsIdle(m) /\ Edit /\ NoFault
  /\ \E p \in Profiles : \E g \in Lookup(m, p) \ {None} :
       /\ cached' = Set(cached, m, g)
       /\ catalog' = Set(catalog, m, gist[g].catalog)
       /\ lock' = Set(lock, m, gist[g].lock)
       /\ mine' = Set(mine, m, mine[m] \cap Has(gist[g].catalog))
       /\ Run(m, "pull", Reconcile(gist[g].catalog, installed[m]), Idle)
  /\ UNCHANGED <<tomb, installed, gist>>

(* pushCommand(): straight to the upload.                                  *)
PushCommand(m) ==
  /\ IsIdle(m) /\ Edit
  /\ \E p \in Profiles : Run(m, "push", {}, [Idle EXCEPT !.push = TRUE, !.profile = p])
  /\ UNCHANGED <<disk, installed, cached, gist, faults, mine>>

(* pushCatalog(), first half: which gist to write.  A listing that fails   *)
(* reads as "no such gist".                                                *)
PushFind(m) ==
  /\ op[m].pc = "find"
  /\ \/ /\ \E g \in Lookup(m, op[m].profile) :
             op' = Set(op, m, [op[m] EXCEPT !.pc = "write", !.target = g])
        /\ NoFault
     \/ /\ cached[m] = None /\ None \notin Lookup(m, op[m].profile) /\ Fault
        /\ op' = Set(op, m, [op[m] EXCEPT !.pc = "write", !.target = None])
  /\ UNCHANGED <<disk, installed, cached, gist, edits, mine>>

(* The gist that the upload of m changes: the one found, or a new one.     *)
Uploaded(m) == IF op[m].target # None THEN {op[m].target} ELSE Gists \ Existing

Upload(m, g) ==
  gist' = [gist EXCEPT ![g] =
    [profile |-> IF op[m].target # None THEN gist[g].profile ELSE op[m].profile,
     catalog |-> catalog[m], lock |-> lock[m]]]

(* Second half: the upload succeeds and the id is cached; `ct push` then   *)
(* clears the tombstones, `ct sync` has cleared them already.              *)
PushWrite(m) ==
  /\ op[m].pc = "write"
  /\ \E g \in Uploaded(m) : Upload(m, g) /\ cached' = Set(cached, m, g)
  /\ tomb' = IF op[m].cmd = "push" THEN Set(tomb, m, {}) ELSE tomb
  /\ op' = Set(op, m, Idle)
  /\ UNCHANGED <<catalog, lock, installed, edits, faults, mine>>

(* The upload fails, or GitHub applied it and the answer was lost; either  *)
(* way the error is reported and nothing else changes.                     *)
PushFails(m) ==
  /\ op[m].pc = "write" /\ Fault
  /\ UNCHANGED gist \/ \E g \in Uploaded(m) : Upload(m, g)
  /\ op' = Set(op, m, Idle)
  /\ UNCHANGED <<disk, installed, cached, edits, mine>>

-----------------------------------------------------------------------------
(* The shell calls of a command *)

(* The companions a package's manifest adds, once it is on disk: those not *)
(* yet visited nor in the catalog.                                         *)
NewCompanions(m, a) ==
  IF a.depth >= MaxCompanionDepth THEN {}
  ELSE {[type |-> "companion", key |-> s.key, src |-> s, depth |-> a.depth + 1] :
          s \in Companions[a.src] \ (op[m].seen \cup {a.src}
                 \cup {catalog[m][n].src : n \in Has(catalog[m])})}

(* `pi install` and `pi update` fetch the pinned version, or whatever the  *)
(* registry serves.                                                        *)
Fetch(m, s) ==
  \E v \in Versions :
    /\ s.pin # None => v = s.pin
    /\ installed' = [installed EXCEPT ![m][s.key] = [src |-> s, ver |-> v]]

(* `pi uninstall` of a key nobody installed removes nothing.               *)
Uninstall(m, k) ==
  installed' = IF k \in Keys THEN [installed EXCEPT ![m][k] = None] ELSE installed

ExecSucceeds(m, a) ==
  LET new == NewCompanions(m, a)
  IN /\ IF a.type = "uninstall" THEN Uninstall(m, a.key) ELSE Fetch(m, a.src)
     /\ LET adds == a.type = "companion" /\ catalog[m][a.key] = None
        IN /\ catalog' = IF adds THEN [catalog EXCEPT ![m][a.key] =
                                         [src |-> a.src, on |-> TRUE]]
                         ELSE catalog
           /\ mine' = IF adds THEN Set(mine, m, mine[m] \cup {a.key}) ELSE mine
     /\ op' = Set(op, m, [op[m] EXCEPT
                !.todo = (@ \ {a}) \cup new,
                !.seen = @ \cup {a.src} \cup {b.src : b \in new}])
     /\ NoFault

(* A failed call is reported; the command goes on.  The manifest of a      *)
(* companion that was on disk already is still read.                       *)
ExecFails(m, a) ==
  LET new == IF a.type = "companion" /\ installed[m][a.src.key] # None
             THEN NewCompanions(m, a) ELSE {}
  IN /\ Fault
     /\ op' = Set(op, m, [op[m] EXCEPT
                !.todo = (@ \ {a}) \cup new, !.err = TRUE,
                !.seen = @ \cup {b.src : b \in new}])
     /\ UNCHANGED <<installed, catalog, mine>>

Exec(m) ==
  /\ op[m].pc = "exec"
  /\ \E a \in FirstActions(op[m].todo) : ExecSucceeds(m, a) \/ ExecFails(m, a)
  /\ UNCHANGED <<lock, tomb, cached, gist, edits>>

(* The last call returned.  sync and pull record the plan in the lock file *)
(* when every call succeeded, then sync uploads; reset deletes ~/.pi/sf/   *)
(* catalog; the other commands end.                                        *)
ExecDone(m) ==
  /\ op[m].pc = "exec" /\ op[m].todo = {}
  /\ lock' = CASE op[m].cmd \in {"sync", "pull"} /\ ~op[m].err ->
                    Set(lock, m, LockAfter(lock[m], op[m].plan))
               [] op[m].cmd = "reset" -> Set(lock, m, EmptyLock)
               [] OTHER -> lock
  /\ IF op[m].cmd = "reset"
     THEN /\ catalog' = Set(catalog, m, EmptyCatalog)
          /\ tomb' = Set(tomb, m, {})
          /\ cached' = Set(cached, m, None)
          /\ mine' = Set(mine, m, {})
     ELSE UNCHANGED <<catalog, tomb, cached, mine>>
  /\ op' = Set(op, m, IF op[m].push THEN [op[m] EXCEPT !.pc = "find"] ELSE Idle)
  /\ UNCHANGED <<installed, gist, edits, faults>>

-----------------------------------------------------------------------------
(* Commands that edit the local catalog *)

Deeper(a, d) == [a EXCEPT !.depth = d]

(* ct add <source>: catalog first, then `pi install` and the companions.   *)
Add(m) ==
  /\ IsIdle(m) /\ Edit
  /\ \E arg \in AddArgs :
       LET n == arg[1]
           s == arg[2]
       IN /\ catalog[m][n] = None
          /\ catalog' = [catalog EXCEPT ![m][n] = [src |-> s, on |-> TRUE]]
          /\ mine' = Set(mine, m, mine[m] \cup {n})
          /\ Run(m, "user", {Deeper(Act("install", n, s), 0)}, Idle)
  /\ UNCHANGED <<lock, tomb, installed, cached, gist, faults>>

(* ct add --scope: every missing scope package is added, then every scope  *)
(* package whose entry has the scope's own source is installed.            *)
AddScope(m) ==
  LET new == {s \in ScopeSources : catalog[m][s.key] = None}
      cat == [n \in Names |->
                IF \E s \in new : s.key = n
                THEN [src |-> CHOOSE s \in new : s.key = n, on |-> TRUE]
                ELSE catalog[m][n]]
  IN /\ IsIdle(m) /\ Edit /\ new # {}
     /\ catalog' = Set(catalog, m, cat)
     /\ mine' = Set(mine, m, mine[m] \cup {s.key : s \in new})
     /\ Run(m, "user", {Act("install", s.key, s) :
                          s \in {x \in ScopeSources : cat[x.key].src = x}}, Idle)
     /\ UNCHANGED <<lock, tomb, installed, cached, gist, faults>>

(* ct remove <name> and ct remove --scope: catalog, tombstone and lock     *)
(* first, then `pi uninstall <source>`.                                    *)
RemoveAll(m, names) ==
  /\ IsIdle(m) /\ Edit /\ names # {}
  /\ catalog' = Set(catalog, m, [n \in Names |-> IF n \in names THEN None ELSE catalog[m][n]])
  /\ tomb' = Set(tomb, m, tomb[m] \cup names)
  /\ lock' = Set(lock, m, [k \in LockKeys |-> IF k \in names THEN None ELSE lock[m][k]])
  /\ mine' = Set(mine, m, mine[m] \ names)
  /\ Run(m, "user", {Act("uninstall", catalog[m][n].src.key, catalog[m][n].src) : n \in names}, Idle)
  /\ UNCHANGED <<installed, cached, gist, faults>>

ScopeNames(m) ==
  {n \in Has(catalog[m]) : \E s \in ScopeSources : s.key = catalog[m][n].src.key}

Remove(m) == \E n \in Has(catalog[m]) : RemoveAll(m, {n})
RemoveScope(m) == RemoveAll(m, ScopeNames(m))

(* ct enable, ct disable, ct toggle.  Only disable calls pi, with the      *)
(* catalog key.                                                            *)
Switch(m, n, on, plan) ==
  /\ IsIdle(m) /\ Edit
  /\ catalog' = [catalog EXCEPT ![m][n].on = on]
  /\ Run(m, "user", plan, Idle)
  /\ UNCHANGED <<lock, tomb, installed, cached, gist, faults, mine>>

Enable(m)  == \E n \in Has(catalog[m]) : ~catalog[m][n].on /\ Switch(m, n, TRUE, {})
Toggle(m)  == \E n \in Has(catalog[m]) : Switch(m, n, ~catalog[m][n].on, {})
Disable(m) == \E n \in Has(catalog[m]) :
                Switch(m, n, FALSE, {Act("uninstall", n, catalog[m][n].src)})

(* ct update <name> and ct update --all: `pi update <source>`, then the    *)
(* companions; the catalog and the lock are left alone.                    *)
Update(m) ==
  /\ IsIdle(m) /\ Edit
  /\ \E names \in {{n} : n \in Has(catalog[m])} \cup {Has(catalog[m])} :
       /\ names # {}
       /\ Run(m, "user", {Deeper(Act("update", n, catalog[m][n].src), 0) : n \in names}, Idle)
  /\ UNCHANGED <<disk, installed, cached, gist, faults, mine>>

(* ct reset: uninstall the scope's packages, then delete everything.  A    *)
(* missing cat.yaml, which stops the command, is not told apart from an    *)
(* empty one.                                                              *)
Reset(m) ==
  /\ IsIdle(m) /\ Edit
  /\ LET plan == {Act("uninstall", catalog[m][n].src.key, catalog[m][n].src) : n \in ScopeNames(m)}
     IN op' = Set(op, m, [Idle EXCEPT !.cmd = "reset", !.pc = "exec", !.plan = plan, !.todo = plan])
  /\ UNCHANGED <<disk, installed, cached, gist, faults, mine>>

(* ct init: the catalog becomes what is installed, or another gist's       *)
(* catalog; the lock, the tombstones and the cached id stay.               *)
InitFromScan(m) ==
  /\ IsIdle(m) /\ Edit
  /\ catalog' = Set(catalog, m,
       [n \in Names |-> IF n \in Keys /\ installed[m][n] # None
                        THEN [src |-> installed[m][n].src, on |-> TRUE] ELSE None])
  /\ mine' = Set(mine, m, {})
  /\ UNCHANGED <<lock, tomb, installed, cached, gist, op, faults>>

InitFromGist(m) ==
  /\ IsIdle(m) /\ Edit
  /\ \E g \in Existing : catalog' = Set(catalog, m, gist[g].catalog)
  /\ mine' = Set(mine, m, {})
  /\ UNCHANGED <<lock, tomb, installed, cached, gist, op, faults>>

(* The process dies; what it has written stays.                            *)
Crash(m) ==
  /\ ~IsIdle(m) /\ Fault
  /\ op' = Set(op, m, Idle)
  /\ UNCHANGED <<disk, installed, cached, gist, edits, mine>>

-----------------------------------------------------------------------------
Step(m) == Exec(m) \/ ExecDone(m) \/ PushFind(m) \/ PushWrite(m) \/ PushFails(m)

Command(m) ==
  \/ PlainSync(m) \/ FlaggedSync(m) \/ DryRun(m) \/ Pull(m) \/ PushCommand(m)
  \/ Add(m) \/ AddScope(m) \/ Remove(m) \/ RemoveScope(m)
  \/ Enable(m) \/ Disable(m) \/ Toggle(m) \/ Update(m)
  \/ Reset(m) \/ InitFromScan(m) \/ InitFromGist(m)

Next == \E m \in Machines : Step(m) \/ Command(m) \/ Crash(m)

Spec == Init /\ [][Next]_vars

(* A started command runs to its end (the event loop serves every          *)
(* completed call), and the users keep running a plain `ct sync` that      *)
(* reaches GitHub: the second is an assumption about them.                 *)
Fairness ==
  \A m \in Machines :
    /\ WF_vars(Exec(m) \/ ExecDone(m) \/ PushFind(m) \/ PushWrite(m))
    /\ SF_vars(IsIdle(m) /\ PlainSync(m))

FairSpec == Spec /\ Fairness

-----------------------------------------------------------------------------
(* Properties *)

(* A package a machine's user added stays in that machine's cat.yaml       *)
(* until its user removes it, resets, re-initialises or pulls: no sync,    *)
(* crash or other machine takes it away, unless it was re-added while its  *)
(* own tombstone was still pending.                                        *)
AdditionsStick ==
  [][\A m \in Machines : \A n \in mine[m] \cap mine'[m] :
       catalog[m][n] # None /\ n \notin tomb[m] => catalog'[m][n] # None]_vars

(* What the changelog promises without that exception.                     *)
LocalOnlyPreserved == \A m \in Machines : mine[m] \subseteq Has(catalog[m])

(* What is installed on m is what its catalog asks for.                    *)
Reconciled(m) ==
  \A n \in Has(catalog[m]) :
    LET i == installed[m][catalog[m][n].src.key]
    IN IF catalog[m][n].on
       THEN i # None /\ (catalog[m][n].src.pin # None => i.ver = catalog[m][n].src.pin)
       ELSE i = None

(* A sync that ran all of its plan without an error, or found nothing to   *)
(* do and goes on to upload, leaves every enabled package installed in the *)
(* version the catalog pins and every disabled one uninstalled.            *)
CleanSyncReconciles ==
  [][\A m \in Machines :
       LET ran     == /\ op[m].cmd = "sync" /\ op[m].pc = "exec" /\ ~op[m].err
                      /\ op'[m].pc # "exec" /\ faults' = faults
           nothing == IsIdle(m) /\ op'[m].cmd = "sync" /\ op'[m].pc = "find"
       IN ran \/ nothing => Reconciled(m)']_vars

(* A package dropped because of its tombstone is in no upload of that      *)
(* sync.                                                                   *)
UploadHonoursRemoval ==
  [][\A m \in Machines :
       (op[m].cmd = "sync" /\ op[m].pc = "write" /\ op'[m] # op[m]) =>
         \A g \in Gists : gist'[g] # gist[g] =>
           Has(gist'[g].catalog) \cap op[m].dropped = {}]_vars

(* When no gist was ever duplicated, syncing without further edits brings  *)
(* every machine and the gist to one catalog, and keeps them there.        *)
Agreed ==
  Cardinality(Existing) = 1 =>
    \A m \in Machines, g \in Existing : catalog[m] = gist[g].catalog

SyncConverges == <>[]Agreed
==============================================================================
