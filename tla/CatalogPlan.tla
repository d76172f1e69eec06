----------------------------- MODULE CatalogPlan -----------------------------
(***************************************************************************)
(* The data of `ct` (packages/catalog) and the pure functions over it:     *)
(* what a catalog, a lock file and an installed map are, how a pulled      *)
(* catalog is merged with the local one, which actions reconcile() plans,  *)
(* and what the lock file holds afterwards.                                *)
(*                                                                         *)
(* A source string is abstracted to its installed-map key (sourceToKey)    *)
(* and its version pin; a lock entry to its version.                       *)
(***************************************************************************)
EXTENDS Naturals, FiniteSets

CONSTANTS
  Names,      \* catalog keys: the keys of cat.yaml's `packages`
  Sources,    \* the sources in use, a set of records [key, pin]
  Versions,   \* versions the registry may serve
  None,       \* an absent entry, a missing pin
  Unknown     \* the lock version recorded for a source without a pin

Keys == {s.key : s \in Sources}

ASSUME SourcesAssumption ==
  /\ Sources \subseteq [key : Keys, pin : Versions \cup {None}]
  /\ None \notin Versions /\ Unknown \notin Versions /\ None # Unknown

(* Lock entries are written under catalog keys by installs and under       *)
(* installed-map keys by upgrades.                                         *)
LockKeys == Names \cup Keys

Entry     == [src : Sources, on : BOOLEAN]
Installed == [src : Sources, ver : Versions]

Catalogs   == [Names -> Entry \cup {None}]
Locks      == [LockKeys -> Versions \cup {Unknown, None}]
Installs   == [Keys -> Installed \cup {None}]

EmptyCatalog == [n \in Names |-> None]
EmptyLock    == [k \in LockKeys |-> None]

Has(cat) == {n \in Names : cat[n] # None}

(* extractVersionFromSource *)
SourceVersion(s) == IF s.pin = None THEN Unknown ELSE s.pin

(* One planned shell call.  `depth` is the companion depth at which the    *)
(* call was discovered; MaxCompanionDepth means "reads no manifest".       *)
MaxCompanionDepth == 3
Action == [type : {"uninstall", "install", "upgrade", "update", "companion"},
           key : LockKeys, src : Sources, depth : 0 .. MaxCompanionDepth]

Act(type, key, src) ==
  [type |-> type, key |-> key, src |-> src, depth |-> MaxCompanionDepth]

(* Broken variant, for the sensitivity checks: pinned versions are never   *)
(* upgraded.                                                               *)
ReconcileNoUpgrade(cat, inst) ==
     {Act("uninstall", cat[n].src.key, cat[n].src) :
        n \in {x \in Has(cat) : inst[cat[x].src.key] # None /\ ~cat[x].on}}
  \cup {Act("install", n, cat[n].src) :
        n \in {x \in Has(cat) : inst[cat[x].src.key] = None /\ cat[x].on}}

(***************************************************************************)
(* reconcile(): the actions that turn `inst` into what `cat` asks for.     *)
(* Orphans are reported and never acted on (no caller sets removeOrphans). *)
(* The sources are npm ones: a git or local one that is not pinned is      *)
(* upgraded too when its text differs (reconcile.ts:175-194).              *)
(***************************************************************************)
Reconcile(cat, inst) ==
  LET there(n) == inst[cat[n].src.key] # None
      on(n)    == cat[n].on
  IN     {Act("uninstall", cat[n].src.key, cat[n].src) :
            n \in {x \in Has(cat) : there(x) /\ ~on(x)}}
    \cup {Act("install", n, cat[n].src) :
            n \in {x \in Has(cat) : ~there(x) /\ on(x)}}
    \cup {Act("upgrade", cat[n].src.key, cat[n].src) :
            n \in {x \in Has(cat) : /\ there(x) /\ on(x)
                                    /\ inst[cat[x].src.key].src # cat[x].src
                                    /\ cat[x].src.pin # None}}

(* executeActions() runs uninstalls, then installs, then upgrades.         *)
Rank(type) == CASE type = "uninstall" -> 0
                [] type = "install"   -> 1
                [] OTHER              -> 2

FirstActions(todo) ==
  {a \in todo : \A b \in todo : Rank(a.type) <= Rank(b.type)}

(* The lock file executeActions() writes after a plan ran without error:   *)
(* additions first, then the keys of the uninstalls deleted.               *)
LockAfter(old, plan) ==
  [k \in LockKeys |->
     LET of(type) == {a \in plan : a.type = type /\ a.key = k}
     IN CASE of("uninstall") # {} -> None
          [] of("upgrade") # {}   -> SourceVersion((CHOOSE a \in of("upgrade") : TRUE).src)
          [] of("install") # {}   -> SourceVersion((CHOOSE a \in of("install") : TRUE).src)
          [] OTHER                -> old[k]]

(* buildSyncedLock(): the lock written when there was nothing to do.       *)
SyncedLock(cat, inst) ==
  [k \in LockKeys |->
     IF k \notin Has(cat) \/ (k \in Has(cat) /\ ~cat[k].on) THEN None
     ELSE LET i == inst[cat[k].src.key]
          IN IF i # None /\ i.src = cat[k].src THEN i.ver
             ELSE SourceVersion(cat[k].src)]

(* Broken variants, for the sensitivity checks: local-only entries are     *)
(* lost; tombstones are not applied; the local entry wins.                 *)
MergeRemoteOnly(local, remote, tombs) ==
  [n \in Names |-> IF n \in tombs THEN None ELSE remote[n]]

MergeUntombed(local, remote, tombs) ==
  [n \in Names |-> IF remote[n] # None THEN remote[n] ELSE local[n]]

MergeLocalWins(local, remote, tombs) ==
  [n \in Names |-> IF n \in tombs THEN None
                   ELSE IF local[n] # None THEN local[n] ELSE remote[n]]

(* Remote entries win, local-only keys are kept, tombstoned keys are       *)
(* dropped (syncCommand and applyRemovalTombstones).                       *)
Merge(local, remote, tombs) ==
  [n \in Names |-> IF n \in tombs THEN None
                   ELSE IF remote[n] # None THEN remote[n] ELSE local[n]]
==============================================================================
