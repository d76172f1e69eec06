-------------------------- MODULE CatalogSync_proofs --------------------------
(***************************************************************************)
(* Proofs about the `ct` commands, for any machines, packages, gists and   *)
(* number of edits and faults: the types, what a user added stays, what a  *)
(* tombstone dropped is not uploaded, and a clean sync reconciles.         *)
(***************************************************************************)
EXTENDS CatalogSync, TLAPS

(* Packages go by the key of their source, unless the user of `ct add`     *)
(* gives another name (add.ts:180).                                        *)
NamedBy(n, k) == n = k \/ \E arg \in AddArgs : arg[1] = n /\ arg[2].key = k

(* No package has two names: the condition of CleanSyncReconciles, since   *)
(* one of them may be enabled and the other disabled.                      *)
OneName ==
  \A k \in Keys : \A n1, n2 \in Names : NamedBy(n1, k) /\ NamedBy(n2, k) => n1 = n2

(***************************************************************************)
(* The invariant, as predicates of values                                  *)
(***************************************************************************)
NamedCatalog(cat) == \A n \in Has(cat) : NamedBy(n, cat[n].src.key)

(* What is installed under a key is of a source with that key, in the      *)
(* version its pin asks for.                                               *)
Fits(i, s) == i # None /\ (s.pin # None => i.ver = s.pin)
PinsKept(inst) ==
  \A k \in Keys : inst[k] # None => inst[k].src.key = k /\ Fits(inst[k], inst[k].src)

(* A sync's calls come from the catalog, and none reads a manifest.        *)
Planned(cat, todo) ==
  \A a \in todo :
    /\ a.depth = MaxCompanionDepth
    /\ \/ /\ a.type = "uninstall"
          /\ \E n \in Has(cat) : cat[n].src.key = a.key /\ ~cat[n].on
       \/ /\ a.type \in {"install", "upgrade"}
          /\ \E n \in Has(cat) : cat[n].src = a.src /\ cat[n].on

(* Every entry is as it should be, or the call that makes it so is left.   *)
Tracked(e, i, todo) ==
  IF e.on THEN \/ Fits(i, e.src)
               \/ \E a \in todo : a.type \in {"install", "upgrade"} /\ a.src = e.src
          ELSE \/ i = None
               \/ \E a \in todo : a.type = "uninstall" /\ a.key = e.src.key
OnTrack(cat, inst, todo) ==
  \A n \in Has(cat) : Tracked(cat[n], inst[cat[n].src.key], todo)

(***************************************************************************)
(* The invariant of one machine, and of the gists                          *)
(***************************************************************************)
CompanionsNamed(m) ==
  \A a \in op[m].todo : a.type = "companion" => a.key \in Names /\ a.key = a.src.key

(* Gists are found before they are written, and none disappears.           *)
GistsThere(m) ==
  /\ cached[m] # None => gist[cached[m]] # None
  /\ op[m].target # None => gist[op[m].target] # None
  /\ op[m].push \/ op[m].pc \in {"find", "write"} => op[m].profile \in Profiles

IdleAtRest(m) == IsIdle(m) => op[m] = Idle

SyncSound(m) ==
  op[m].cmd = "sync" /\ op[m].pc # "idle" =>
    /\ Has(catalog[m]) \cap op[m].dropped = {}
    /\ op[m].pc = "exec" =>
         /\ Planned(catalog[m], op[m].todo)
         /\ OneName /\ ~op[m].err => OnTrack(catalog[m], installed[m], op[m].todo)

MachineInv(m) ==
  /\ NamedCatalog(catalog[m]) /\ PinsKept(installed[m])
  /\ CompanionsNamed(m) /\ GistsThere(m) /\ SyncSound(m) /\ IdleAtRest(m)

GistsNamed == \A g \in Gists : gist[g] # None => NamedCatalog(gist[g].catalog)

CatalogInv == TypeOK /\ GistsNamed /\ \A m \in Machines : MachineInv(m)

-----------------------------------------------------------------------------
(* The operators on catalogs and plans *)

LEMMA SourceIs ==
  ASSUME NEW s \in Sources
  PROVE  /\ s.key \in Keys /\ s.key \in LockKeys
         /\ s.pin # None => s.pin \in Versions
         /\ SourceVersion(s) \in Versions \cup {Unknown}
BY SourcesAssumption DEF Keys, LockKeys, SourceVersion

LEMMA EntryIs ==
  ASSUME NEW cat \in Catalogs, NEW n \in Has(cat)
  PROVE  /\ n \in Names /\ cat[n] \in Entry /\ cat[n].src \in Sources
         /\ cat[n].on \in BOOLEAN /\ cat[n].src.key \in Keys
BY SourceIs DEF Catalogs, Has, Entry

LEMMA ActIs ==
  ASSUME NEW type \in {"uninstall", "install", "upgrade", "update"},
         NEW key \in LockKeys, NEW s \in Sources
  PROVE  /\ Act(type, key, s) \in Action /\ Act(type, key, s).type = type
         /\ Act(type, key, s).key = key /\ Act(type, key, s).src = s
         /\ Act(type, key, s).depth = MaxCompanionDepth
         /\ Deeper(Act(type, key, s), 0) \in Action
         /\ Deeper(Act(type, key, s), 0).type = type
BY DEF Act, Action, Deeper, MaxCompanionDepth

(* reconcile() plans what is missing, and nothing else.                    *)
LEMMA ReconcileTracks ==
  ASSUME NEW cat \in Catalogs, NEW inst \in Installs
  PROVE  /\ Reconcile(cat, inst) \subseteq Action
         /\ Planned(cat, Reconcile(cat, inst))
         /\ PinsKept(inst) => OnTrack(cat, inst, Reconcile(cat, inst))
PROOF
<1> DEFINE R == Reconcile(cat, inst)
<1>1. ASSUME NEW a \in R
      PROVE  /\ a \in Action /\ a.depth = MaxCompanionDepth
             /\ \/ /\ a.type = "uninstall"
                   /\ \E n \in Has(cat) : cat[n].src.key = a.key /\ ~cat[n].on
                \/ /\ a.type \in {"install", "upgrade"}
                   /\ \E n \in Has(cat) : cat[n].src = a.src /\ cat[n].on
  <2>1. PICK n \in Has(cat) :
          \/ a = Act("uninstall", cat[n].src.key, cat[n].src) /\ ~cat[n].on
          \/ a = Act("install", n, cat[n].src) /\ cat[n].on
          \/ a = Act("upgrade", cat[n].src.key, cat[n].src) /\ cat[n].on
    BY <1>1 DEF Reconcile
  <2>2. /\ n \in LockKeys /\ cat[n].src.key \in LockKeys /\ cat[n].src \in Sources
    BY EntryIs DEF LockKeys
  <2>3. CASE a = Act("uninstall", cat[n].src.key, cat[n].src) /\ ~cat[n].on
    BY <2>2, <2>3, ActIs
  <2>4. CASE a = Act("install", n, cat[n].src) /\ cat[n].on
    BY <2>2, <2>4, ActIs
  <2>5. CASE a = Act("upgrade", cat[n].src.key, cat[n].src) /\ cat[n].on
    BY <2>2, <2>5, ActIs
  <2> QED BY <2>1, <2>3, <2>4, <2>5
<1>2. ASSUME PinsKept(inst), NEW n \in Has(cat)
      PROVE  Tracked(cat[n], inst[cat[n].src.key], R)
  <2> DEFINE s == cat[n].src
             i == inst[s.key]
  <2>1. /\ n \in LockKeys /\ s.key \in LockKeys /\ s \in Sources /\ s.key \in Keys
        /\ cat[n].on \in BOOLEAN
    BY EntryIs DEF LockKeys
  <2>2. CASE cat[n].on /\ i = None
    <3>1. Act("install", n, s) \in R
      BY <2>2 DEF Reconcile
    <3> QED BY <2>1, <2>2, <3>1, ActIs DEF Tracked
  <2>3. CASE cat[n].on /\ i # None /\ i.src # s /\ s.pin # None
    <3>1. Act("upgrade", s.key, s) \in R
      BY <2>3 DEF Reconcile
    <3> QED BY <2>1, <2>3, <3>1, ActIs DEF Tracked
  <2>4. CASE cat[n].on /\ i # None /\ (i.src = s \/ s.pin = None)
    <3>1. Fits(i, s)
      BY <1>2, <2>1, <2>4 DEF PinsKept, Fits
    <3> QED BY <2>4, <3>1 DEF Tracked
  <2>5. CASE ~cat[n].on /\ i # None
    <3>1. Act("uninstall", s.key, s) \in R
      BY <2>5 DEF Reconcile
    <3> QED BY <2>1, <2>5, <3>1, ActIs DEF Tracked
  <2>6. CASE ~cat[n].on /\ i = None
    BY <2>6 DEF Tracked
  <2> QED BY <2>1, <2>2, <2>3, <2>4, <2>5, <2>6
<1> QED BY <1>1, <1>2 DEF Planned, OnTrack

LEMMA MergeIs ==
  ASSUME NEW local \in Catalogs, NEW remote \in Catalogs, NEW tombs \in SUBSET Names
  PROVE  /\ Merge(local, remote, tombs) \in Catalogs
         /\ Has(Merge(local, remote, tombs)) \cap tombs = {}
         /\ (Has(local) \cup Has(remote)) \ tombs \subseteq Has(Merge(local, remote, tombs))
         /\ NamedCatalog(local) /\ NamedCatalog(remote) =>
              NamedCatalog(Merge(local, remote, tombs))
BY DEF Merge, Catalogs, Has, NamedCatalog

LEMMA SyncedLockIs ==
  ASSUME NEW cat \in Catalogs, NEW inst \in Installs
  PROVE  SyncedLock(cat, inst) \in Locks
PROOF
<1>1. ASSUME NEW k \in Has(cat)
      PROVE  /\ inst[cat[k].src.key] # None => inst[cat[k].src.key].ver \in Versions
             /\ SourceVersion(cat[k].src) \in Versions \cup {Unknown}
  BY EntryIs, SourceIs DEF Installs, Installed
<1> QED BY <1>1 DEF SyncedLock, Locks

LEMMA LockAfterIs ==
  ASSUME NEW old \in Locks, NEW plan \in SUBSET Action
  PROVE  LockAfter(old, plan) \in Locks
PROOF
<1>1. ASSUME NEW S \in SUBSET Action, S # {}
      PROVE  SourceVersion((CHOOSE a \in S : TRUE).src) \in Versions \cup {Unknown}
  <2>1. (CHOOSE a \in S : TRUE) \in Action
    BY <1>1
  <2> QED BY <2>1, SourceIs DEF Action
<1>2. ASSUME NEW k \in LockKeys
      PROVE  LockAfter(old, plan)[k] \in Versions \cup {Unknown, None}
  <2> DEFINE of(type) == {a \in plan : a.type = type /\ a.key = k}
  <2>1. /\ of("upgrade") \in SUBSET Action /\ of("install") \in SUBSET Action
        /\ old[k] \in Versions \cup {Unknown, None}
    BY DEF Locks
  <2>2. LockAfter(old, plan)[k] =
          CASE of("uninstall") # {} -> None
            [] of("upgrade") # {}   -> SourceVersion((CHOOSE a \in of("upgrade") : TRUE).src)
            [] of("install") # {}   -> SourceVersion((CHOOSE a \in of("install") : TRUE).src)
            [] OTHER                -> old[k]
    BY DEF LockAfter
  <2>3. /\ of("upgrade") # {} => SourceVersion((CHOOSE a \in of("upgrade") : TRUE).src)
                                   \in Versions \cup {Unknown}
        /\ of("install") # {} => SourceVersion((CHOOSE a \in of("install") : TRUE).src)
                                   \in Versions \cup {Unknown}
    BY <1>1, <2>1
  <2> HIDE DEF of
  <2> QED BY <2>1, <2>2, <2>3
<1>3. LockAfter(old, plan) = [k \in LockKeys |-> LockAfter(old, plan)[k]]
  BY DEF LockAfter
<1> QED BY <1>2, <1>3 DEF Locks

-----------------------------------------------------------------------------
(* What a step of one machine leaves alone                                 *)

Changes(f, g, m, X) ==
  g \in [Machines -> X] /\ \A k \in Machines \ {m} : g[k] = f[k]

GistsKept ==
  /\ gist' \in [Gists -> Gist \cup {None}]
  /\ \A g \in Gists : gist[g] # None => gist'[g] # None

Alone(m) ==
  /\ Changes(catalog, catalog', m, Catalogs) /\ Changes(lock, lock', m, Locks)
  /\ Changes(tomb, tomb', m, SUBSET Names) /\ Changes(installed, installed', m, Installs)
  /\ Changes(cached, cached', m, Gists \cup {None}) /\ Changes(op, op', m, Op)
  /\ Changes(mine, mine', m, SUBSET Names)
  /\ edits' \in 0 .. MaxEdits /\ faults' \in 0 .. MaxFaults
  /\ GistsKept

(* A variable set at m is set nowhere else.                                *)
LEMMA SetIs ==
  ASSUME TypeOK, NEW m \in Machines
  PROVE  /\ \A v \in Catalogs : catalog' = Set(catalog, m, v) =>
              Changes(catalog, catalog', m, Catalogs) /\ catalog'[m] = v
         /\ \A v \in Locks : lock' = Set(lock, m, v) =>
              Changes(lock, lock', m, Locks) /\ lock'[m] = v
         /\ \A v \in SUBSET Names : tomb' = Set(tomb, m, v) =>
              Changes(tomb, tomb', m, SUBSET Names) /\ tomb'[m] = v
         /\ \A v \in Installs : installed' = Set(installed, m, v) =>
              Changes(installed, installed', m, Installs) /\ installed'[m] = v
         /\ \A v \in Gists \cup {None} : cached' = Set(cached, m, v) =>
              Changes(cached, cached', m, Gists \cup {None}) /\ cached'[m] = v
         /\ \A v \in Op : op' = Set(op, m, v) =>
              Changes(op, op', m, Op) /\ op'[m] = v
         /\ \A v \in SUBSET Names : mine' = Set(mine, m, v) =>
              Changes(mine, mine', m, SUBSET Names) /\ mine'[m] = v
PROOF
<1>1. ASSUME NEW v \in Catalogs, catalog' = Set(catalog, m, v)
      PROVE  Changes(catalog, catalog', m, Catalogs) /\ catalog'[m] = v
  BY <1>1 DEF TypeOK, Set, Changes
<1>2. ASSUME NEW v \in Locks, lock' = Set(lock, m, v)
      PROVE  Changes(lock, lock', m, Locks) /\ lock'[m] = v
  BY <1>2 DEF TypeOK, Set, Changes
<1>3. ASSUME NEW v \in SUBSET Names, tomb' = Set(tomb, m, v)
      PROVE  Changes(tomb, tomb', m, SUBSET Names) /\ tomb'[m] = v
  BY <1>3 DEF TypeOK, Set, Changes
<1>4. ASSUME NEW v \in Installs, installed' = Set(installed, m, v)
      PROVE  Changes(installed, installed', m, Installs) /\ installed'[m] = v
  BY <1>4 DEF TypeOK, Set, Changes
<1>5. ASSUME NEW v \in Gists \cup {None}, cached' = Set(cached, m, v)
      PROVE  Changes(cached, cached', m, Gists \cup {None}) /\ cached'[m] = v
  BY <1>5 DEF TypeOK, Set, Changes
<1>6. ASSUME NEW v \in Op, op' = Set(op, m, v)
      PROVE  Changes(op, op', m, Op) /\ op'[m] = v
  BY <1>6 DEF TypeOK, Set, Changes
<1>7. ASSUME NEW v \in SUBSET Names, mine' = Set(mine, m, v)
      PROVE  Changes(mine, mine', m, SUBSET Names) /\ mine'[m] = v
  BY <1>7 DEF TypeOK, Set, Changes
<1> QED BY <1>1, <1>2, <1>3, <1>4, <1>5, <1>6, <1>7

LEMMA SameIs ==
  ASSUME NEW X, NEW f \in [Machines -> X], NEW m \in Machines
  PROVE  Changes(f, f, m, X)
BY DEF Changes

(* What the three properties ask of a step of m, as far as m goes.         *)
Sticks(m) ==
  \A n \in mine[m] \cap mine'[m] :
    catalog[m][n] # None /\ n \notin tomb[m] => catalog'[m][n] # None

Honours(m) ==
  (op[m].cmd = "sync" /\ op[m].pc = "write" /\ op'[m] # op[m]) =>
    \A g \in Gists : gist'[g] # gist[g] =>
      Has(gist'[g].catalog) \cap op[m].dropped = {}

Cleans(m) ==
  LET ran     == /\ op[m].cmd = "sync" /\ op[m].pc = "exec" /\ ~op[m].err
                 /\ op'[m].pc # "exec" /\ faults' = faults
      nothing == IsIdle(m) /\ op'[m].cmd = "sync" /\ op'[m].pc = "find"
  IN ran \/ nothing => Reconciled(m)'

Good(m) ==
  /\ Alone(m) /\ MachineInv(m)' /\ GistsNamed'
  /\ Sticks(m) /\ Honours(m) /\ (OneName => Cleans(m))

(* A plan without calls left, all of them done, has reconciled.            *)
LEMMA TrackedIsReconciled ==
  ASSUME NEW m \in Machines, OnTrack(catalog[m], installed[m], {})
  PROVE  Reconciled(m)
BY DEF OnTrack, Tracked, Fits, Reconciled

(* The step of one machine keeps the invariant of all.                     *)
LEMMA GoodKeeps ==
  ASSUME CatalogInv, NEW m \in Machines, Good(m)
  PROVE  CatalogInv'
PROOF
<1>1. TypeOK'
  BY DEF CatalogInv, TypeOK, Good, Alone, Changes, GistsKept
<1>2. ASSUME NEW k \in Machines \ {m} PROVE MachineInv(k)'
  <2>1. /\ catalog'[k] = catalog[k] /\ installed'[k] = installed[k]
        /\ cached'[k] = cached[k] /\ op'[k] = op[k]
    BY DEF Good, Alone, Changes
  <2>2. MachineInv(k)
    BY DEF CatalogInv
  <2>3. cached[k] \in Gists \cup {None} /\ op[k].target \in Gists \cup {None}
    BY DEF CatalogInv, TypeOK, Op
  <2>4. GistsThere(k)'
    BY <2>1, <2>2, <2>3 DEF MachineInv, GistsThere, Good, Alone, GistsKept
  <2>5. CompanionsNamed(k)' /\ NamedCatalog(catalog'[k]) /\ PinsKept(installed'[k])
    BY <2>1, <2>2 DEF MachineInv, CompanionsNamed
  <2>6. SyncSound(k)' /\ IdleAtRest(k)'
    BY <2>1, <2>2 DEF MachineInv, SyncSound, IdleAtRest, IsIdle
  <2> QED BY <2>4, <2>5, <2>6 DEF MachineInv
<1>3. \A k \in Machines : MachineInv(k)'
  BY <1>2 DEF Good
<1> QED BY <1>1, <1>3 DEF CatalogInv, Good

(* Starting a command.                                                     *)
LEMMA IdleIs == Idle \in Op /\ Idle.pc = "idle" /\ Idle.cmd = "none" /\ ~Idle.push
                /\ Idle.todo = {} /\ Idle.target = None /\ ~Idle.err
                /\ Idle.profile = None /\ Idle.dropped = {}
BY DEF Idle, Op

Started(o, cmd, plan, after) ==
  \/ o = Idle
  \/ /\ o.cmd = cmd /\ o.todo = plan /\ o.plan = plan
     /\ o.pc = (IF plan = {} THEN "find" ELSE "exec")
     /\ plan = {} => after.push
     /\ o.push = after.push /\ o.profile = after.profile /\ o.dropped = after.dropped
     /\ o.target = after.target /\ o.err = after.err

LEMMA RunIs ==
  ASSUME TypeOK, NEW m \in Machines, NEW cmd \in {"sync", "pull", "push", "user"},
         NEW plan \in SUBSET Action, NEW after \in Op, Run(m, cmd, plan, after)
  PROVE  Changes(op, op', m, Op) /\ Started(op'[m], cmd, plan, after)
PROOF
<1> DEFINE o == IF plan = {} /\ ~after.push THEN Idle
                ELSE [after EXCEPT !.cmd = cmd, !.plan = plan, !.todo = plan,
                                   !.pc = IF plan = {} THEN "find" ELSE "exec"]
<1>1. o \in Op
  BY IdleIs DEF Op
<1>2. Started(o, cmd, plan, after)
  BY DEF Started, Op
<1>3. op' = Set(op, m, o)
  BY DEF Run
<1> HIDE DEF o
<1> QED BY <1>1, <1>2, <1>3, SetIs

-----------------------------------------------------------------------------
(* A command that is no sync, as it starts.                                *)
QuietOp(m) ==
  /\ Changes(op, op', m, Op) /\ op'[m].cmd # "sync" /\ op'[m].target = None
  /\ op'[m].push \/ op'[m].pc \in {"find", "write"} => op'[m].profile \in Profiles
  /\ \A a \in op'[m].todo : a.type # "companion"
  /\ op'[m].pc = "idle" => op'[m] = Idle

(* It leaves the gists and pi alone when it starts.                        *)
LEMMA CommandIsGood ==
  ASSUME CatalogInv, NEW m \in Machines, IsIdle(m), Alone(m), QuietOp(m), Sticks(m),
         UNCHANGED <<installed, gist>>, NamedCatalog(catalog'[m]),
         cached'[m] # None => gist[cached'[m]] # None
  PROVE  Good(m)
PROOF
<1>1. GistsThere(m)' /\ CompanionsNamed(m)' /\ SyncSound(m)' /\ IdleAtRest(m)'
  BY DEF GistsThere, CompanionsNamed, SyncSound, QuietOp, IdleAtRest, IsIdle
<1>2. PinsKept(installed'[m]) /\ GistsNamed'
  BY DEF CatalogInv, MachineInv, GistsNamed
<1>3. MachineInv(m)'
  BY <1>1, <1>2 DEF MachineInv
<1>4. Honours(m) /\ Cleans(m)
  BY DEF Honours, Cleans, IsIdle, QuietOp
<1> QED BY <1>2, <1>3, <1>4 DEF Good

(* The commands that edit, pull and reset: lemmas by what they change      *)

(* Nothing of the machine changes but what is said to.                     *)
LEMMA RestIs ==
  ASSUME CatalogInv, NEW m \in Machines
  PROVE  /\ Changes(catalog, catalog, m, Catalogs) /\ Changes(lock, lock, m, Locks)
         /\ Changes(tomb, tomb, m, SUBSET Names)
         /\ Changes(installed, installed, m, Installs)
         /\ Changes(cached, cached, m, Gists \cup {None}) /\ Changes(op, op, m, Op)
         /\ Changes(mine, mine, m, SUBSET Names)
         /\ edits \in 0 .. MaxEdits /\ faults \in 0 .. MaxFaults
         /\ catalog[m] \in Catalogs /\ lock[m] \in Locks /\ tomb[m] \in SUBSET Names
         /\ installed[m] \in Installs /\ op[m] \in Op /\ mine[m] \in SUBSET Names
         /\ NamedCatalog(catalog[m]) /\ PinsKept(installed[m])
         /\ (cached[m] # None => gist[cached[m]] # None)
BY SameIs DEF CatalogInv, TypeOK, MachineInv, GistsThere

LEMMA BoundsAre ==
  ASSUME TypeOK
  PROVE  /\ Edit => edits' \in 0 .. MaxEdits
         /\ Fault => faults' \in 0 .. MaxFaults /\ faults' # faults
BY CommandAssumption DEF TypeOK, Edit, Fault

(* A plan of `ct add`, `remove`, `disable` and `update`.                   *)
LEMMA UserIs ==
  ASSUME TypeOK, NEW m \in Machines, NEW cmd \in {"pull", "user"},
         NEW plan \in SUBSET Action,
         \A a \in plan : a.type # "companion", Run(m, cmd, plan, Idle)
  PROVE  QuietOp(m)
BY RunIs, IdleIs DEF Started, QuietOp

(* `ct pull`: what the gist holds.                                         *)
LEMMA LookupIs ==
  ASSUME CatalogInv, NEW m \in Machines, NEW p \in Profiles,
         NEW g \in Lookup(m, p), g # None
  PROVE  /\ g \in Gists /\ gist[g] \in Gist /\ gist[g] # None
         /\ gist[g].catalog \in Catalogs /\ gist[g].lock \in Locks
         /\ NamedCatalog(gist[g].catalog)
PROOF
<1>1. g \in Gists /\ gist[g] # None
  BY DEF Lookup, Existing, CatalogInv, TypeOK, MachineInv, GistsThere
<1>2. gist[g] \in Gist
  BY <1>1 DEF CatalogInv, TypeOK
<1> QED BY <1>1, <1>2 DEF Gist, CatalogInv, GistsNamed

LEMMA PullIsGood ==
  ASSUME CatalogInv, NEW m \in Machines, Pull(m)
  PROVE  Good(m)
PROOF
<1>1. PICK p \in Profiles : \E g \in Lookup(m, p) \ {None} :
        /\ cached' = Set(cached, m, g)
        /\ catalog' = Set(catalog, m, gist[g].catalog)
        /\ lock' = Set(lock, m, gist[g].lock)
        /\ mine' = Set(mine, m, mine[m] \cap Has(gist[g].catalog))
        /\ Run(m, "pull", Reconcile(gist[g].catalog, installed[m]), Idle)
  BY DEF Pull
<1>2. PICK g \in Lookup(m, p) \ {None} :
        /\ cached' = Set(cached, m, g)
        /\ catalog' = Set(catalog, m, gist[g].catalog)
        /\ lock' = Set(lock, m, gist[g].lock)
        /\ mine' = Set(mine, m, mine[m] \cap Has(gist[g].catalog))
        /\ Run(m, "pull", Reconcile(gist[g].catalog, installed[m]), Idle)
  BY <1>1
<1>3. /\ g \in Gists /\ gist[g] # None
      /\ gist[g].catalog \in Catalogs /\ gist[g].lock \in Locks
      /\ NamedCatalog(gist[g].catalog)
  BY LookupIs
<1>4. /\ Reconcile(gist[g].catalog, installed[m]) \in SUBSET Action
      /\ \A a \in Reconcile(gist[g].catalog, installed[m]) : a.type # "companion"
  BY <1>3, ReconcileTracks, RestIs DEF Planned
<1>5. QuietOp(m)
  BY <1>2, <1>4, UserIs DEF CatalogInv
<1>6. /\ Changes(catalog, catalog', m, Catalogs) /\ catalog'[m] = gist[g].catalog
      /\ Changes(lock, lock', m, Locks)
      /\ Changes(cached, cached', m, Gists \cup {None}) /\ cached'[m] = g
  <2>1. Changes(catalog, catalog', m, Catalogs) /\ catalog'[m] = gist[g].catalog
    BY <1>2, <1>3, SetIs DEF CatalogInv
  <2>2. Changes(lock, lock', m, Locks)
    BY <1>2, <1>3, SetIs DEF CatalogInv
  <2>3. Changes(cached, cached', m, Gists \cup {None}) /\ cached'[m] = g
    BY <1>2, <1>3, SetIs DEF CatalogInv
  <2> QED BY <2>1, <2>2, <2>3
<1>7. Changes(mine, mine', m, SUBSET Names) /\ mine'[m] \subseteq Has(gist[g].catalog)
  <2>1. mine[m] \cap Has(gist[g].catalog) \in SUBSET Names
    BY RestIs
  <2> QED BY <1>2, <2>1, SetIs DEF CatalogInv
<1>8. IsIdle(m) /\ Edit /\ UNCHANGED <<tomb, installed, gist, faults>>
  BY DEF Pull, NoFault
<1>9. Alone(m)
  BY <1>5, <1>6, <1>7, <1>8, RestIs, BoundsAre DEF Alone, GistsKept, QuietOp, CatalogInv, TypeOK
<1>10. Sticks(m)
  BY <1>6, <1>7 DEF Sticks, Has
<1> QED BY <1>3, <1>5, <1>6, <1>8, <1>9, <1>10, CommandIsGood

-----------------------------------------------------------------------------
(* The commands that edit the catalog                                      *)

LEMMA EditIsGood ==
  ASSUME CatalogInv, NEW m \in Machines, NEW c \in Catalogs, NamedCatalog(c),
         catalog' = Set(catalog, m, c), IsIdle(m), QuietOp(m), Edit,
         Changes(lock, lock', m, Locks), Changes(tomb, tomb', m, SUBSET Names),
         Changes(mine, mine', m, SUBSET Names),
         \A n \in mine[m] \cap mine'[m] :
           catalog[m][n] # None /\ n \notin tomb[m] => c[n] # None,
         UNCHANGED <<installed, cached, gist, faults>>
  PROVE  Good(m)
PROOF
<1>1. Changes(catalog, catalog', m, Catalogs) /\ catalog'[m] = c
  BY SetIs DEF CatalogInv
<1>2. Alone(m)
  BY <1>1, RestIs, BoundsAre DEF Alone, GistsKept, QuietOp, CatalogInv, TypeOK
<1>3. Sticks(m)
  BY <1>1 DEF Sticks
<1> QED BY <1>1, <1>2, <1>3, RestIs, CommandIsGood

(* Commands that only start calls or an upload.                            *)
LEMMA QuietIsGood ==
  ASSUME CatalogInv, NEW m \in Machines, IsIdle(m), QuietOp(m),
         edits' \in 0 .. MaxEdits, Changes(cached, cached', m, Gists \cup {None}),
         cached'[m] # None => gist[cached'[m]] # None,
         UNCHANGED <<disk, installed, gist, faults, mine>>
  PROVE  Good(m)
PROOF
<1>1. Alone(m)
  BY RestIs DEF Alone, GistsKept, QuietOp, CatalogInv, TypeOK, disk
<1>2. Sticks(m)
  BY DEF Sticks, disk
<1> QED BY <1>1, <1>2, RestIs, CommandIsGood DEF disk

LEMMA AddIsGood ==
  ASSUME CatalogInv, NEW m \in Machines, Add(m)
  PROVE  Good(m)
PROOF
<1>1. PICK arg \in AddArgs :
        /\ catalog[m][arg[1]] = None
        /\ catalog' = [catalog EXCEPT ![m][arg[1]] = [src |-> arg[2], on |-> TRUE]]
        /\ mine' = Set(mine, m, mine[m] \cup {arg[1]})
        /\ Run(m, "user", {Deeper(Act("install", arg[1], arg[2]), 0)}, Idle)
  BY DEF Add
<1> DEFINE n == arg[1]
           s == arg[2]
           e == [src |-> s, on |-> TRUE]
           c == [catalog[m] EXCEPT ![n] = e]
           a == Deeper(Act("install", n, s), 0)
<1>2. n \in Names /\ s \in Sources /\ n \in LockKeys
  BY CommandAssumption DEF LockKeys
<1>3. e \in Entry /\ e # None /\ NamedBy(n, e.src.key)
  <2>1. e \in Entry /\ e.src = s
    BY <1>2 DEF Entry
  <2>2. e # None
    BY <2>1, NoneAssumption
  <2>3. NamedBy(n, s.key)
    BY DEF NamedBy
  <2> QED BY <2>1, <2>2, <2>3
<1>4. /\ c \in Catalogs /\ c[n] = e
      /\ \A x \in Names \ {n} : c[x] = catalog[m][x]
  <2> HIDE DEF e
  <2> QED BY <1>2, <1>3, RestIs DEF Catalogs
<1>5. NamedCatalog(c)
  <2> HIDE DEF c, e, n
  <2> QED BY <1>3, <1>4, RestIs DEF NamedCatalog, Has
<1>6. catalog' = Set(catalog, m, c)
  BY <1>1, <1>2 DEF Set, CatalogInv, TypeOK
<1>7. Changes(mine, mine', m, SUBSET Names)
  <2>1. mine[m] \cup {n} \in SUBSET Names
    BY <1>2, RestIs
  <2> QED BY <1>1, <2>1, SetIs DEF CatalogInv
<1>8. {a} \in SUBSET Action /\ \A b \in {a} : b.type # "companion"
  BY <1>2, ActIs
<1>9. QuietOp(m)
  <2> HIDE DEF a
  <2>1. Run(m, "user", {a}, Idle)
    BY <1>1 DEF a
  <2> QED BY <1>8, <2>1, UserIs DEF CatalogInv
<1>10. \A x \in mine[m] \cap mine'[m] :
         catalog[m][x] # None /\ x \notin tomb[m] => c[x] # None
  <2> HIDE DEF c, e, n
  <2> QED BY <1>3, <1>4, RestIs
<1>11. /\ IsIdle(m) /\ Edit
       /\ UNCHANGED <<lock, tomb, installed, cached, gist, faults>>
  BY DEF Add
<1> HIDE DEF c
<1> QED BY <1>4, <1>5, <1>6, <1>7, <1>9, <1>10, <1>11, RestIs, EditIsGood

LEMMA AddScopeIsGood ==
  ASSUME CatalogInv, NEW m \in Machines, AddScope(m)
  PROVE  Good(m)
PROOF
<1> DEFINE new == {s \in ScopeSources : catalog[m][s.key] = None}
           c == [n \in Names |->
                   IF \E s \in new : s.key = n
                   THEN [src |-> CHOOSE s \in new : s.key = n, on |-> TRUE]
                   ELSE catalog[m][n]]
           plan == {Act("install", s.key, s) :
                      s \in {x \in ScopeSources : c[x.key].src = x}}
<1>1. /\ catalog' = Set(catalog, m, c)
      /\ mine' = Set(mine, m, mine[m] \cup {s.key : s \in new})
      /\ Run(m, "user", plan, Idle)
      /\ IsIdle(m) /\ Edit
      /\ UNCHANGED <<lock, tomb, installed, cached, gist, faults>>
  BY DEF AddScope
<1>2. \A s \in ScopeSources : s \in Sources /\ s.key \in Names /\ s.key \in LockKeys
  BY CommandAssumption DEF LockKeys
<1>3. ASSUME NEW n \in Names, \E s \in new : s.key = n
      PROVE  c[n] \in Entry /\ c[n] # None /\ c[n].src.key = n
  <2> DEFINE s == CHOOSE s \in new : s.key = n
  <2>1. s \in Sources /\ s.key = n
    BY <1>2, <1>3
  <2>2. c[n] = [src |-> s, on |-> TRUE]
    BY <1>3
  <2> HIDE DEF s, c
  <2>3. [src |-> s, on |-> TRUE] \in Entry
    BY <2>1 DEF Entry
  <2>4. c[n] # None
    BY <2>2, <2>3, NoneAssumption
  <2> QED BY <2>1, <2>2, <2>3, <2>4
<1>4. ASSUME NEW n \in Names, ~\E s \in new : s.key = n
      PROVE  c[n] = catalog[m][n]
  BY <1>4
<1>5. \A n \in Names : c[n] \in Entry \cup {None}
  <2> HIDE DEF c, new
  <2> QED BY <1>3, <1>4, RestIs DEF Catalogs
<1>6. c \in Catalogs
  <2>1. c = [n \in Names |-> c[n]]
    OBVIOUS
  <2> HIDE DEF c
  <2> QED BY <1>5, <2>1 DEF Catalogs
<1>7. NamedCatalog(c) /\ \A n \in Names : catalog[m][n] # None => c[n] # None
  <2> HIDE DEF c, new
  <2> QED BY <1>3, <1>4, RestIs DEF NamedCatalog, NamedBy, Has
<1>8. Changes(mine, mine', m, SUBSET Names)
  <2> DEFINE own == mine[m] \cup {s.key : s \in new}
  <2>1. own \in SUBSET Names /\ mine' = Set(mine, m, own)
    BY <1>1, <1>2, RestIs
  <2> HIDE DEF own, new, c, plan
  <2> QED BY <1>1, <2>1, SetIs DEF CatalogInv
<1>9. plan \in SUBSET Action /\ \A a \in plan : a.type # "companion"
  <2> HIDE DEF c
  <2> QED BY <1>2, ActIs
<1>10. QuietOp(m)
  <2> HIDE DEF plan, c, new
  <2> QED BY <1>1, <1>9, UserIs DEF CatalogInv
<1> HIDE DEF c, plan, new
<1> QED BY <1>1, <1>6, <1>7, <1>8, <1>10, RestIs, EditIsGood

LEMMA RemoveIsGood ==
  ASSUME CatalogInv, NEW m \in Machines, NEW names \in SUBSET Has(catalog[m]),
         RemoveAll(m, names)
  PROVE  Good(m)
PROOF
<1> DEFINE c == [n \in Names |-> IF n \in names THEN None ELSE catalog[m][n]]
           l == [k \in LockKeys |-> IF k \in names THEN None ELSE lock[m][k]]
           plan == {Act("uninstall", catalog[m][n].src.key, catalog[m][n].src) : n \in names}
<1>1. /\ catalog' = Set(catalog, m, c) /\ lock' = Set(lock, m, l)
      /\ tomb' = Set(tomb, m, tomb[m] \cup names)
      /\ mine' = Set(mine, m, mine[m] \ names)
      /\ Run(m, "user", plan, Idle)
      /\ IsIdle(m) /\ Edit /\ UNCHANGED <<installed, cached, gist, faults>>
  BY DEF RemoveAll
<1>2. c \in Catalogs /\ l \in Locks /\ NamedCatalog(c)
  BY RestIs DEF Catalogs, Locks, NamedCatalog, Has
<1>3. Changes(lock, lock', m, Locks)
  <2> HIDE DEF l
  <2> QED BY <1>1, <1>2, SetIs DEF CatalogInv
<1>4. Changes(tomb, tomb', m, SUBSET Names)
  <2>1. tomb[m] \cup names \in SUBSET Names
    BY RestIs DEF Has
  <2> QED BY <1>1, <2>1, SetIs DEF CatalogInv
<1>5. Changes(mine, mine', m, SUBSET Names) /\ mine'[m] = mine[m] \ names
  <2>1. mine[m] \ names \in SUBSET Names
    BY RestIs
  <2> QED BY <1>1, <2>1, SetIs DEF CatalogInv
<1>6. plan \in SUBSET Action /\ \A a \in plan : a.type # "companion"
  <2>1. ASSUME NEW n \in names
        PROVE  catalog[m][n].src.key \in LockKeys /\ catalog[m][n].src \in Sources
    BY EntryIs, RestIs DEF LockKeys
  <2> QED BY <2>1, ActIs
<1>7. QuietOp(m)
  <2> HIDE DEF plan
  <2> QED BY <1>1, <1>6, UserIs DEF CatalogInv
<1>8. \A n \in mine[m] \cap mine'[m] :
        catalog[m][n] # None /\ n \notin tomb[m] => c[n] # None
  BY <1>5, RestIs
<1> HIDE DEF c, l, plan
<1> QED BY <1>1, <1>2, <1>3, <1>4, <1>5, <1>7, <1>8, EditIsGood

LEMMA SwitchIsGood ==
  ASSUME CatalogInv, NEW m \in Machines, NEW n \in Has(catalog[m]),
         NEW on \in BOOLEAN, NEW plan \in SUBSET Action,
         \A a \in plan : a.type # "companion", Switch(m, n, on, plan)
  PROVE  Good(m)
PROOF
<1> DEFINE e == [catalog[m][n] EXCEPT !.on = on]
           c == [catalog[m] EXCEPT ![n] = e]
<1>1. /\ catalog' = [catalog EXCEPT ![m][n].on = on] /\ Run(m, "user", plan, Idle)
      /\ IsIdle(m) /\ Edit
      /\ UNCHANGED <<lock, tomb, installed, cached, gist, faults, mine>>
  BY DEF Switch
<1>2. n \in Names /\ e \in Entry /\ e.src = catalog[m][n].src /\ e # None
  BY EntryIs, RestIs, NoneAssumption DEF Entry
<1>3. /\ c \in Catalogs /\ c[n] = e
      /\ \A x \in Names \ {n} : c[x] = catalog[m][x]
  <2> HIDE DEF e
  <2> QED BY <1>2, RestIs DEF Catalogs
<1>4. NamedCatalog(c) /\ \A x \in Names : catalog[m][x] # None => c[x] # None
  <2> HIDE DEF c, e
  <2> QED BY <1>2, <1>3, RestIs DEF NamedCatalog, Has
<1>5. catalog' = Set(catalog, m, c)
  BY <1>1, <1>2 DEF Set, CatalogInv, TypeOK
<1>6. QuietOp(m)
  BY <1>1, UserIs DEF CatalogInv
<1> HIDE DEF c
<1> QED BY <1>1, <1>3, <1>4, <1>5, <1>6, RestIs, EditIsGood

LEMMA UpdateIsGood ==
  ASSUME CatalogInv, NEW m \in Machines, Update(m)
  PROVE  Good(m)
PROOF
<1>1. PICK names \in {{n} : n \in Has(catalog[m])} \cup {Has(catalog[m])} :
        Run(m, "user", {Deeper(Act("update", n, catalog[m][n].src), 0) : n \in names}, Idle)
  BY DEF Update
<1> DEFINE plan == {Deeper(Act("update", n, catalog[m][n].src), 0) : n \in names}
<1>2. plan \in SUBSET Action /\ \A a \in plan : a.type # "companion"
  <2>1. ASSUME NEW n \in names
        PROVE  n \in LockKeys /\ catalog[m][n].src \in Sources
    BY EntryIs, RestIs DEF LockKeys
  <2> QED BY <2>1, ActIs
<1>3. QuietOp(m)
  <2> HIDE DEF plan
  <2>1. Run(m, "user", plan, Idle)
    BY <1>1 DEF plan
  <2> QED BY <1>2, <2>1, UserIs DEF CatalogInv
<1>4. IsIdle(m) /\ Edit /\ UNCHANGED <<disk, installed, cached, gist, faults, mine>>
  BY DEF Update
<1> QED BY <1>3, <1>4, RestIs, BoundsAre, QuietIsGood DEF CatalogInv

LEMMA ResetIsGood ==
  ASSUME CatalogInv, NEW m \in Machines, Reset(m)
  PROVE  Good(m)
PROOF
<1> DEFINE plan == {Act("uninstall", catalog[m][n].src.key, catalog[m][n].src) : n \in ScopeNames(m)}
           o == [Idle EXCEPT !.cmd = "reset", !.pc = "exec", !.plan = plan, !.todo = plan]
<1>1. /\ op' = Set(op, m, o) /\ IsIdle(m) /\ Edit
      /\ UNCHANGED <<disk, installed, cached, gist, faults, mine>>
  BY DEF Reset
<1>2. plan \in SUBSET Action /\ \A a \in plan : a.type # "companion"
  <2>1. ASSUME NEW n \in ScopeNames(m)
        PROVE  catalog[m][n].src.key \in LockKeys /\ catalog[m][n].src \in Sources
    BY EntryIs, RestIs DEF ScopeNames, LockKeys
  <2> QED BY <2>1, ActIs
<1>3. /\ o \in Op /\ o.cmd = "reset" /\ o.pc = "exec" /\ o.todo = plan
      /\ o.target = None /\ ~o.push
  <2> HIDE DEF plan
  <2> QED BY <1>2, IdleIs DEF Op
<1>4. Changes(op, op', m, Op) /\ op'[m] = o
  <2> HIDE DEF o
  <2> QED BY <1>1, <1>3, SetIs DEF CatalogInv
<1>5. QuietOp(m)
  <2> HIDE DEF o, plan
  <2> QED BY <1>2, <1>3, <1>4 DEF QuietOp
<1> QED BY <1>1, <1>5, RestIs, BoundsAre, QuietIsGood DEF CatalogInv

(* A command that is over at once.                                         *)
LEMMA StaysIdle ==
  ASSUME CatalogInv, NEW m \in Machines, IsIdle(m), UNCHANGED op
  PROVE  QuietOp(m)
PROOF
<1>1. op'[m] = Idle
  BY DEF CatalogInv, MachineInv, IdleAtRest
<1> QED BY <1>1, RestIs, IdleIs DEF QuietOp

LEMMA InitFromScanIsGood ==
  ASSUME CatalogInv, NEW m \in Machines, InitFromScan(m)
  PROVE  Good(m)
PROOF
<1> DEFINE c == [n \in Names |-> IF n \in Keys /\ installed[m][n] # None
                                 THEN [src |-> installed[m][n].src, on |-> TRUE] ELSE None]
<1>1. /\ catalog' = Set(catalog, m, c) /\ mine' = Set(mine, m, {}) /\ IsIdle(m) /\ Edit
      /\ UNCHANGED <<lock, tomb, installed, cached, gist, op, faults>>
  BY DEF InitFromScan
<1>2. ASSUME NEW n \in Names, n \in Keys, installed[m][n] # None
      PROVE  c[n] \in Entry /\ c[n].src.key = n
  <2>1. installed[m][n] \in Installed
    BY <1>2, RestIs DEF Installs
  <2>2. installed[m][n].src \in Sources /\ installed[m][n].src.key = n
    BY <1>2, <2>1, RestIs DEF PinsKept, Installed
  <2> QED BY <1>2, <2>2 DEF Entry
<1>3. \A n \in Names : ~(n \in Keys /\ installed[m][n] # None) => c[n] = None
  OBVIOUS
<1>4. c = [n \in Names |-> c[n]]
  OBVIOUS
<1> HIDE DEF c
<1>5. c \in Catalogs
  BY <1>2, <1>3, <1>4 DEF Catalogs
<1>6. NamedCatalog(c)
  BY <1>2, <1>3 DEF NamedCatalog, NamedBy, Has
<1>7. Changes(mine, mine', m, SUBSET Names) /\ mine'[m] = {}
  BY <1>1, SetIs DEF CatalogInv
<1>8. QuietOp(m)
  BY <1>1, StaysIdle
<1> QED BY <1>1, <1>5, <1>6, <1>7, <1>8, RestIs, EditIsGood

LEMMA InitFromGistIsGood ==
  ASSUME CatalogInv, NEW m \in Machines, InitFromGist(m)
  PROVE  Good(m)
PROOF
<1>1. PICK g \in Existing : catalog' = Set(catalog, m, gist[g].catalog)
  BY DEF InitFromGist
<1>2. /\ mine' = Set(mine, m, {}) /\ IsIdle(m) /\ Edit
      /\ UNCHANGED <<lock, tomb, installed, cached, gist, op, faults>>
  BY DEF InitFromGist
<1>3. gist[g].catalog \in Catalogs /\ NamedCatalog(gist[g].catalog)
  <2>1. g \in Gists /\ gist[g] # None /\ gist[g] \in Gist \cup {None}
    BY DEF Existing, CatalogInv, TypeOK
  <2> QED BY <2>1 DEF Gist, CatalogInv, GistsNamed
<1>4. Changes(mine, mine', m, SUBSET Names) /\ mine'[m] = {}
  BY <1>2, SetIs DEF CatalogInv
<1>5. QuietOp(m)
  BY <1>2, StaysIdle
<1> QED BY <1>1, <1>2, <1>3, <1>4, <1>5, RestIs, EditIsGood

LEMMA DryRunIsGood ==
  ASSUME CatalogInv, NEW m \in Machines, DryRun(m)
  PROVE  Good(m)
PROOF
<1>1. PICK p \in Profiles : \E g \in Lookup(m, p) \ {None} : cached' = Set(cached, m, g)
  BY DEF DryRun
<1>2. PICK g \in Lookup(m, p) \ {None} : cached' = Set(cached, m, g)
  BY <1>1
<1>3. g \in Gists /\ gist[g] # None
  BY LookupIs
<1>4. Changes(cached, cached', m, Gists \cup {None}) /\ cached'[m] = g
  BY <1>2, <1>3, SetIs DEF CatalogInv
<1>5. IsIdle(m) /\ UNCHANGED <<disk, installed, gist, op, edits, faults, mine>>
  BY DEF DryRun
<1>6. QuietOp(m)
  BY <1>5, StaysIdle
<1> QED BY <1>3, <1>4, <1>5, <1>6, RestIs, QuietIsGood

LEMMA PushCommandIsGood ==
  ASSUME CatalogInv, NEW m \in Machines, PushCommand(m)
  PROVE  Good(m)
PROOF
<1>1. PICK p \in Profiles : Run(m, "push", {}, [Idle EXCEPT !.push = TRUE, !.profile = p])
  BY DEF PushCommand
<1> DEFINE after == [Idle EXCEPT !.push = TRUE, !.profile = p]
<1>2. after \in Op /\ after.profile = p /\ after.target = None
  BY IdleIs DEF Op
<1>3. {} \in SUBSET Action
  OBVIOUS
<1> HIDE DEF after
<1>4. Run(m, "push", {}, after)
  BY <1>1 DEF after
<1>5. Changes(op, op', m, Op) /\ Started(op'[m], "push", {}, after)
  BY <1>2, <1>3, <1>4, RunIs DEF CatalogInv
<1>6. QuietOp(m)
  BY <1>2, <1>5, IdleIs DEF Started, QuietOp
<1>7. IsIdle(m) /\ Edit /\ UNCHANGED <<disk, installed, cached, gist, faults, mine>>
  BY DEF PushCommand
<1> QED BY <1>6, <1>7, RestIs, BoundsAre, QuietIsGood DEF CatalogInv

-----------------------------------------------------------------------------
(* ct sync                                                                 *)

LEMMA SyncIsGood ==
  ASSUME CatalogInv, NEW m \in Machines, IsIdle(m),
         NEW cat \in Catalogs, NamedCatalog(cat), catalog' = Set(catalog, m, cat),
         NEW after \in Op, after.profile \in Profiles, after.target = None,
         Has(cat) \cap after.dropped = {},
         Run(m, "sync", Reconcile(cat, installed[m]), after),
         Changes(lock, lock', m, Locks), Changes(tomb, tomb', m, SUBSET Names),
         Changes(cached, cached', m, Gists \cup {None}),
         cached'[m] # None => gist[cached'[m]] # None,
         edits' \in 0 .. MaxEdits, faults' \in 0 .. MaxFaults,
         \A n \in mine[m] : catalog[m][n] # None /\ n \notin tomb[m] => cat[n] # None,
         UNCHANGED <<installed, gist, mine>>
  PROVE  Good(m)
PROOF
<1> DEFINE plan == Reconcile(cat, installed[m])
<1>1. Changes(catalog, catalog', m, Catalogs) /\ catalog'[m] = cat
  BY SetIs DEF CatalogInv
<1>2. /\ plan \in SUBSET Action /\ Planned(cat, plan) /\ OnTrack(cat, installed[m], plan)
  BY RestIs, ReconcileTracks
<1> HIDE DEF plan
<1>3. Changes(op, op', m, Op) /\ Started(op'[m], "sync", plan, after)
  BY <1>2, RunIs DEF CatalogInv, plan
<1>4. Alone(m)
  BY <1>1, <1>3, RestIs DEF Alone, GistsKept, CatalogInv, TypeOK
<1>5. CompanionsNamed(m)'
  <2>1. \A a \in op'[m].todo : a.type # "companion"
    BY <1>2, <1>3, IdleIs DEF Started, Planned
  <2> QED BY <2>1 DEF CompanionsNamed
<1>6. GistsThere(m)'
  BY <1>3, IdleIs DEF Started, GistsThere
<1>7. SyncSound(m)'
  BY <1>1, <1>2, <1>3, IdleIs DEF Started, SyncSound
<1>8. IdleAtRest(m)'
  BY <1>3 DEF Started, IdleAtRest, IsIdle
<1>9. MachineInv(m)' /\ GistsNamed'
  BY <1>1, <1>5, <1>6, <1>7, <1>8, RestIs DEF MachineInv, CatalogInv, GistsNamed
<1>10. Sticks(m) /\ Honours(m)
  BY <1>1 DEF Sticks, Honours, IsIdle
<1>11. Cleans(m)
  <2>1. op[m].pc = "idle"
    BY DEF IsIdle
  <2>2. ASSUME op'[m].cmd = "sync", op'[m].pc = "find" PROVE Reconciled(m)'
    <3>1. plan = {}
      BY <1>3, <2>2, IdleIs DEF Started
    <3>2. OnTrack(catalog[m], installed[m], {})'
      BY <1>1, <1>2, <3>1
    <3> QED BY <3>2 DEF OnTrack, Tracked, Fits, Reconciled
  <2> QED BY <2>1, <2>2 DEF Cleans
<1> QED BY <1>4, <1>9, <1>10, <1>11 DEF Good

LEMMA SyncPulledIsGood ==
  ASSUME CatalogInv, NEW m \in Machines, IsIdle(m), NEW p \in Profiles,
         NEW force \in BOOLEAN, NEW noPush \in BOOLEAN, SyncPulled(m, p, force, noPush),
         edits' \in 0 .. MaxEdits, UNCHANGED <<installed, gist, mine>>
  PROVE  Good(m)
PROOF
<1>0. PICK g \in Lookup(m, p) \ {None} :
        \E push \in BOOLEAN :
          LET merged == Merge(catalog[m], gist[g].catalog, tomb[m])
              plan == Reconcile(merged, installed[m])
          IN /\ cached' = Set(cached, m, g)
             /\ tomb' = Set(tomb, m, {})
             /\ catalog' = Set(catalog, m, merged)
             /\ lock' = Set(lock, m, IF plan # {} THEN gist[g].lock
                                     ELSE SyncedLock(merged, installed[m]))
             /\ Run(m, "sync", plan, [Idle EXCEPT !.push = push, !.profile = p,
                                                  !.dropped = tomb[m]])
             /\ NoFault
  <2>1. PICK g \in Lookup(m, p) \ {None} :
          LET remote == gist[g]
              merged == Merge(catalog[m], remote.catalog, tomb[m])
              plan   == Reconcile(merged, installed[m])
              synced == SyncedLock(merged, installed[m])
              push   == /\ ~noPush
                        /\ \/ force
                           \/ plan # {}
                           \/ Has(catalog[m]) \ Has(remote.catalog) # {}
                           \/ lock[m] # remote.lock
                           \/ synced # remote.lock
          IN /\ cached' = Set(cached, m, g)
             /\ tomb' = Set(tomb, m, {})
             /\ catalog' = Set(catalog, m, merged)
             /\ lock' = Set(lock, m, IF plan # {} THEN remote.lock ELSE synced)
             /\ Run(m, "sync", plan, [Idle EXCEPT !.push = push, !.profile = p,
                                                  !.dropped = tomb[m]])
             /\ NoFault
    BY DEF SyncPulled
  <2> DEFINE merged == Merge(catalog[m], gist[g].catalog, tomb[m])
             plan == Reconcile(merged, installed[m])
             synced == SyncedLock(merged, installed[m])
             push == /\ ~noPush
                     /\ \/ force
                        \/ plan # {}
                        \/ Has(catalog[m]) \ Has(gist[g].catalog) # {}
                        \/ lock[m] # gist[g].lock
                        \/ synced # gist[g].lock
  <2>2. push \in BOOLEAN
    OBVIOUS
  <2>3. /\ cached' = Set(cached, m, g) /\ tomb' = Set(tomb, m, {})
        /\ catalog' = Set(catalog, m, merged)
        /\ lock' = Set(lock, m, IF plan # {} THEN gist[g].lock ELSE synced)
        /\ Run(m, "sync", plan, [Idle EXCEPT !.push = push, !.profile = p,
                                             !.dropped = tomb[m]])
        /\ NoFault
    BY <2>1
  <2> HIDE DEF push
  <2> QED BY <2>2, <2>3
<1>1. PICK push \in BOOLEAN :
        LET merged == Merge(catalog[m], gist[g].catalog, tomb[m])
            plan == Reconcile(merged, installed[m])
        IN /\ cached' = Set(cached, m, g)
           /\ tomb' = Set(tomb, m, {})
           /\ catalog' = Set(catalog, m, merged)
           /\ lock' = Set(lock, m, IF plan # {} THEN gist[g].lock
                                   ELSE SyncedLock(merged, installed[m]))
           /\ Run(m, "sync", plan, [Idle EXCEPT !.push = push, !.profile = p,
                                                !.dropped = tomb[m]])
           /\ NoFault
  BY <1>0
<1> DEFINE merged == Merge(catalog[m], gist[g].catalog, tomb[m])
           plan == Reconcile(merged, installed[m])
           after == [Idle EXCEPT !.push = push, !.profile = p, !.dropped = tomb[m]]
           held == IF plan # {} THEN gist[g].lock ELSE SyncedLock(merged, installed[m])
<1>2. /\ g \in Gists /\ gist[g] # None
      /\ gist[g].catalog \in Catalogs /\ gist[g].lock \in Locks
      /\ NamedCatalog(gist[g].catalog)
  BY LookupIs
<1>3. /\ merged \in Catalogs /\ NamedCatalog(merged) /\ Has(merged) \cap tomb[m] = {}
      /\ (Has(catalog[m]) \cup Has(gist[g].catalog)) \ tomb[m] \subseteq Has(merged)
  BY <1>2, MergeIs, RestIs
<1>4. after \in Op /\ after.profile = p /\ after.target = None /\ after.dropped = tomb[m]
  BY IdleIs, RestIs DEF Op
<1> HIDE DEF merged, after
<1>5. held \in Locks
  BY <1>2, <1>3, RestIs, SyncedLockIs
<1> HIDE DEF held, plan
<1>6. /\ cached' = Set(cached, m, g) /\ tomb' = Set(tomb, m, {})
      /\ catalog' = Set(catalog, m, merged) /\ lock' = Set(lock, m, held)
      /\ Run(m, "sync", plan, after) /\ NoFault
  BY <1>1 DEF merged, plan, after, held
<1>7. Changes(lock, lock', m, Locks)
  BY <1>5, <1>6, SetIs DEF CatalogInv
<1>8. Changes(tomb, tomb', m, SUBSET Names)
  <2>1. {} \in SUBSET Names
    OBVIOUS
  <2> QED BY <1>6, <2>1, SetIs DEF CatalogInv
<1>9. Changes(cached, cached', m, Gists \cup {None}) /\ cached'[m] = g
  BY <1>2, <1>6, SetIs DEF CatalogInv
<1>10. \A n \in mine[m] : catalog[m][n] # None /\ n \notin tomb[m] => merged[n] # None
  BY <1>3, RestIs DEF Has
<1>11. faults' \in 0 .. MaxFaults
  BY <1>6, RestIs DEF NoFault
<1> QED BY <1>2, <1>3, <1>4, <1>6, <1>7, <1>8, <1>9, <1>10, <1>11, SyncIsGood DEF plan

LEMMA SyncOfflineIsGood ==
  ASSUME CatalogInv, NEW m \in Machines, IsIdle(m), NEW p \in Profiles,
         NEW force \in BOOLEAN, NEW noPush \in BOOLEAN, SyncOffline(m, p, force, noPush),
         edits' \in 0 .. MaxEdits, UNCHANGED <<installed, gist, mine>>
  PROVE  Good(m)
PROOF
<1> DEFINE plan == Reconcile(catalog[m], installed[m])
           held == IF plan # {} THEN lock[m] ELSE SyncedLock(catalog[m], installed[m])
<1>1. PICK push \in BOOLEAN :
        /\ IF None \in Lookup(m, p) THEN NoFault ELSE Fault
        /\ lock' = Set(lock, m, held)
        /\ Run(m, "sync", plan, [Idle EXCEPT !.push = push, !.profile = p])
        /\ UNCHANGED <<catalog, tomb, cached>>
  BY DEF SyncOffline
<1> DEFINE after == [Idle EXCEPT !.push = push, !.profile = p]
<1>2. after \in Op /\ after.profile = p /\ after.target = None /\ after.dropped = {}
  BY IdleIs DEF Op
<1> HIDE DEF after
<1>3. held \in Locks
  BY RestIs, SyncedLockIs
<1> HIDE DEF held, plan
<1>4. Changes(lock, lock', m, Locks)
  BY <1>1, <1>3, SetIs DEF CatalogInv
<1>5. catalog' = Set(catalog, m, catalog[m])
  BY <1>1 DEF Set, CatalogInv, TypeOK
<1>6. faults' \in 0 .. MaxFaults
  BY <1>1, RestIs, BoundsAre DEF NoFault, CatalogInv
<1>7. Run(m, "sync", plan, after)
  BY <1>1 DEF after
<1> QED BY <1>1, <1>2, <1>4, <1>5, <1>6, <1>7, RestIs, SyncIsGood DEF plan

LEMMA SyncStartsGood ==
  ASSUME CatalogInv, NEW m \in Machines, PlainSync(m) \/ FlaggedSync(m)
  PROVE  Good(m)
PROOF
<1>1. PICK p \in Profiles, force \in BOOLEAN, noPush \in BOOLEAN :
        Sync(m, p, force, noPush) /\ (UNCHANGED edits \/ Edit)
  BY DEF PlainSync, FlaggedSync
<1>2. edits' \in 0 .. MaxEdits
  BY <1>1, RestIs, BoundsAre DEF CatalogInv
<1> QED BY <1>1, <1>2, SyncPulledIsGood, SyncOfflineIsGood DEF Sync

-----------------------------------------------------------------------------
(* The steps of a running command                                          *)

LEMMA OpIs ==
  ASSUME CatalogInv, NEW m \in Machines
  PROVE  /\ op[m] \in Op /\ op[m].todo \in SUBSET Action /\ op[m].plan \in SUBSET Action
         /\ op[m].target \in Gists \cup {None} /\ MachineInv(m)
BY DEF CatalogInv, TypeOK, Op

LEMMA PushFindIsGood ==
  ASSUME CatalogInv, NEW m \in Machines, PushFind(m)
  PROVE  Good(m)
PROOF
<1>1. /\ op[m].pc = "find" /\ edits' \in 0 .. MaxEdits /\ faults' \in 0 .. MaxFaults
      /\ UNCHANGED <<disk, installed, cached, gist, edits, mine>>
  BY RestIs, BoundsAre DEF PushFind, NoFault, CatalogInv
<1>2. op[m].profile \in Profiles /\ op[m] \in Op
  BY <1>1, OpIs DEF MachineInv, GistsThere
<1>3. PICK g \in Lookup(m, op[m].profile) \cup {None} :
        op' = Set(op, m, [op[m] EXCEPT !.pc = "write", !.target = g])
  BY DEF PushFind
<1>4. g # None => g \in Gists /\ gist[g] # None
  BY <1>2, <1>3, LookupIs
<1> DEFINE o == [op[m] EXCEPT !.pc = "write", !.target = g]
<1>5. /\ o \in Op /\ o.pc = "write" /\ o.target = g
      /\ o.profile = op[m].profile /\ o.push = op[m].push /\ o.todo = op[m].todo
      /\ o.cmd = op[m].cmd /\ o.dropped = op[m].dropped
  BY <1>2, <1>4 DEF Op
<1> HIDE DEF o
<1>6. Changes(op, op', m, Op) /\ op'[m] = o
  BY <1>3, <1>5, SetIs DEF CatalogInv, o
<1>7. Alone(m)
  BY <1>1, <1>6, RestIs DEF Alone, GistsKept, CatalogInv, TypeOK, disk
<1>8. GistsThere(m)'
  BY <1>1, <1>2, <1>4, <1>5, <1>6, RestIs DEF GistsThere
<1>9. CompanionsNamed(m)' /\ IdleAtRest(m)'
  BY <1>5, <1>6, OpIs DEF CompanionsNamed, MachineInv, IdleAtRest, IsIdle
<1>10. SyncSound(m)'
  BY <1>1, <1>5, <1>6, OpIs DEF SyncSound, MachineInv, disk
<1>11. MachineInv(m)' /\ GistsNamed'
  BY <1>1, <1>8, <1>9, <1>10, RestIs DEF MachineInv, CatalogInv, GistsNamed, disk
<1>12. Sticks(m) /\ Honours(m) /\ Cleans(m)
  BY <1>1 DEF Sticks, Honours, Cleans, IsIdle, disk
<1> QED BY <1>7, <1>11, <1>12 DEF Good

(* A step that ends a command and leaves the machine's packages alone.     *)
LEMMA EndsIsGood ==
  ASSUME CatalogInv, NEW m \in Machines, op' = Set(op, m, Idle),
         Changes(tomb, tomb', m, SUBSET Names),
         Changes(cached, cached', m, Gists \cup {None}),
         cached'[m] # None => gist'[cached'[m]] # None,
         GistsKept, GistsNamed', edits' \in 0 .. MaxEdits, faults' \in 0 .. MaxFaults,
         UNCHANGED <<catalog, lock, installed, mine>>, Honours(m),
         op[m].pc = "write" \/ (op[m].pc # "idle" /\ faults' # faults)
  PROVE  Good(m)
PROOF
<1>1. Changes(op, op', m, Op) /\ op'[m] = Idle
  BY IdleIs, SetIs DEF CatalogInv
<1>2. Alone(m)
  BY <1>1, RestIs DEF Alone
<1>3. GistsThere(m)' /\ CompanionsNamed(m)' /\ SyncSound(m)' /\ IdleAtRest(m)'
  BY <1>1, IdleIs DEF GistsThere, CompanionsNamed, SyncSound, IdleAtRest, IsIdle
<1>4. MachineInv(m)'
  BY <1>3, RestIs DEF MachineInv
<1>5. Sticks(m) /\ Cleans(m)
  BY <1>1 DEF Sticks, Cleans, IsIdle
<1> QED BY <1>2, <1>4, <1>5 DEF Good

LEMMA UploadIs ==
  ASSUME CatalogInv, NEW m \in Machines, op[m].pc = "write",
         NEW g \in Uploaded(m), Upload(m, g)
  PROVE  /\ g \in Gists /\ gist'[g] # None /\ GistsKept /\ GistsNamed' /\ Honours(m)
PROOF
<1> DEFINE held == [profile |-> IF op[m].target # None THEN gist[g].profile
                                ELSE op[m].profile,
                    catalog |-> catalog[m], lock |-> lock[m]]
<1>1. g \in Gists /\ (op[m].target # None => gist[g] # None)
  BY OpIs DEF Uploaded, MachineInv, GistsThere
<1>2. op[m].target # None => gist[g].profile \in Profiles
  BY <1>1 DEF CatalogInv, TypeOK, Gist
<1>3. op[m].profile \in Profiles
  BY OpIs DEF MachineInv, GistsThere
<1>4. held \in Gist /\ held # None /\ held.catalog = catalog[m]
  BY <1>2, <1>3, RestIs, NoneAssumption DEF Gist
<1>5. gist' = [gist EXCEPT ![g] = held] /\ gist \in [Gists -> Gist \cup {None}]
  BY DEF Upload, CatalogInv, TypeOK
<1> HIDE DEF held
<1>6. gist'[g] = held /\ \A h \in Gists \ {g} : gist'[h] = gist[h]
  BY <1>1, <1>5
<1>7. GistsKept
  BY <1>1, <1>4, <1>5, <1>6 DEF GistsKept
<1>8. GistsNamed'
  BY <1>4, <1>6, RestIs DEF GistsNamed, CatalogInv
<1>9. Honours(m)
  BY <1>4, <1>6, OpIs DEF Honours, MachineInv, SyncSound
<1> QED BY <1>1, <1>4, <1>6, <1>7, <1>8, <1>9

LEMMA PushWriteIsGood ==
  ASSUME CatalogInv, NEW m \in Machines, PushWrite(m)
  PROVE  Good(m)
PROOF
<1>1. PICK g \in Uploaded(m) : Upload(m, g) /\ cached' = Set(cached, m, g)
  BY DEF PushWrite
<1>2. /\ op[m].pc = "write" /\ op' = Set(op, m, Idle)
      /\ tomb' = (IF op[m].cmd = "push" THEN Set(tomb, m, {}) ELSE tomb)
      /\ UNCHANGED <<catalog, lock, installed, edits, faults, mine>>
  BY DEF PushWrite
<1>3. /\ g \in Gists /\ gist'[g] # None /\ GistsKept /\ GistsNamed' /\ Honours(m)
  BY <1>1, <1>2, UploadIs
<1>4. Changes(cached, cached', m, Gists \cup {None}) /\ cached'[m] = g
  BY <1>1, <1>3, SetIs DEF CatalogInv
<1>5. Changes(tomb, tomb', m, SUBSET Names)
  <2>1. {} \in SUBSET Names
    OBVIOUS
  <2> QED BY <1>2, <2>1, RestIs, SetIs DEF CatalogInv
<1> QED BY <1>2, <1>3, <1>4, <1>5, RestIs, EndsIsGood

LEMMA PushFailsIsGood ==
  ASSUME CatalogInv, NEW m \in Machines, PushFails(m)
  PROVE  Good(m)
PROOF
<1>1. /\ op[m].pc = "write" /\ op' = Set(op, m, Idle) /\ Fault
      /\ UNCHANGED <<disk, installed, cached, edits, mine>>
      /\ UNCHANGED gist \/ \E g \in Uploaded(m) : Upload(m, g)
  BY DEF PushFails
<1>2. GistsKept /\ GistsNamed' /\ Honours(m)
  <2>1. CASE UNCHANGED gist
    BY <2>1 DEF GistsKept, GistsNamed, Honours, CatalogInv, TypeOK
  <2>2. CASE \E g \in Uploaded(m) : Upload(m, g)
    BY <1>1, <2>2, UploadIs
  <2> QED BY <1>1, <2>1, <2>2
<1>3. cached[m] # None => cached[m] \in Gists
  BY DEF CatalogInv, TypeOK
<1>4. cached'[m] # None => gist'[cached'[m]] # None
  BY <1>1, <1>2, <1>3, RestIs DEF GistsKept
<1> QED BY <1>1, <1>2, <1>4, RestIs, BoundsAre, EndsIsGood DEF disk, CatalogInv

LEMMA CrashIsGood ==
  ASSUME CatalogInv, NEW m \in Machines, Crash(m)
  PROVE  Good(m)
PROOF
<1>1. /\ op[m].pc # "idle" /\ op' = Set(op, m, Idle) /\ Fault
      /\ UNCHANGED <<disk, installed, cached, gist, edits, mine>>
  BY DEF Crash, IsIdle
<1>2. GistsKept /\ GistsNamed' /\ Honours(m)
  BY <1>1 DEF GistsKept, GistsNamed, Honours, CatalogInv, TypeOK
<1> QED BY <1>1, <1>2, RestIs, BoundsAre, EndsIsGood DEF disk, CatalogInv

LEMMA ExecDoneIsGood ==
  ASSUME CatalogInv, NEW m \in Machines, ExecDone(m)
  PROVE  Good(m)
PROOF
<1> DEFINE o == IF op[m].push THEN [op[m] EXCEPT !.pc = "find"] ELSE Idle
<1>1. /\ op[m].pc = "exec" /\ op[m].todo = {} /\ op' = Set(op, m, o)
      /\ UNCHANGED <<installed, gist, edits, faults>>
  BY DEF ExecDone
<1>2. /\ o \in Op /\ o.todo = {} /\ o.pc # "exec" /\ (o.pc = "idle" => o = Idle)
      /\ o.target = op[m].target \/ o.target = None
      /\ o # Idle => /\ o.profile = op[m].profile /\ o.push /\ op[m].push
                     /\ o.cmd = op[m].cmd /\ o.dropped = op[m].dropped
  BY <1>1, OpIs, IdleIs DEF Op
<1> HIDE DEF o
<1>3. Changes(op, op', m, Op) /\ op'[m] = o
  BY <1>1, <1>2, SetIs DEF CatalogInv
<1>4. Changes(lock, lock', m, Locks)
  <2>1. LockAfter(lock[m], op[m].plan) \in Locks /\ EmptyLock \in Locks
    BY RestIs, OpIs, LockAfterIs DEF EmptyLock, Locks
  <2>2. \/ lock' = Set(lock, m, LockAfter(lock[m], op[m].plan))
        \/ lock' = Set(lock, m, EmptyLock)
        \/ lock' = lock
    BY DEF ExecDone
  <2>3. CASE lock' = Set(lock, m, LockAfter(lock[m], op[m].plan))
    BY <2>1, <2>3, SetIs DEF CatalogInv
  <2>4. CASE lock' = Set(lock, m, EmptyLock)
    BY <2>1, <2>4, SetIs DEF CatalogInv
  <2>5. CASE lock' = lock
    BY <2>5, RestIs
  <2> QED BY <2>2, <2>3, <2>4, <2>5
<1>5. CompanionsNamed(m)' /\ IdleAtRest(m)'
  BY <1>2, <1>3 DEF CompanionsNamed, IdleAtRest, IsIdle
<1>6. Honours(m) /\ GistsKept /\ GistsNamed'
  BY <1>1 DEF Honours, GistsKept, GistsNamed, CatalogInv, TypeOK
<1>7. CASE op[m].cmd = "reset"
  <2>1. /\ catalog' = Set(catalog, m, EmptyCatalog) /\ tomb' = Set(tomb, m, {})
        /\ cached' = Set(cached, m, None) /\ mine' = Set(mine, m, {})
    BY <1>7 DEF ExecDone
  <2>2. EmptyCatalog \in Catalogs /\ NamedCatalog(EmptyCatalog)
    BY DEF EmptyCatalog, Catalogs, NamedCatalog, Has
  <2>3. Changes(catalog, catalog', m, Catalogs) /\ catalog'[m] = EmptyCatalog
    BY <2>1, <2>2, SetIs DEF CatalogInv
  <2>4. Changes(tomb, tomb', m, SUBSET Names)
    <3>1. {} \in SUBSET Names
      OBVIOUS
    <3> QED BY <2>1, <3>1, SetIs DEF CatalogInv
  <2>5. Changes(cached, cached', m, Gists \cup {None}) /\ cached'[m] = None
    BY <2>1, SetIs DEF CatalogInv
  <2>6. Changes(mine, mine', m, SUBSET Names) /\ mine'[m] = {}
    <3>1. {} \in SUBSET Names
      OBVIOUS
    <3> QED BY <2>1, <3>1, SetIs DEF CatalogInv
  <2>7. Alone(m)
    BY <1>1, <1>3, <1>4, <1>6, <2>3, <2>4, <2>5, <2>6, RestIs DEF Alone
  <2>8. GistsThere(m)'
    BY <1>1, <1>2, <1>3, <2>5, OpIs, IdleIs DEF GistsThere, MachineInv
  <2>9. SyncSound(m)'
    BY <1>2, <1>3, <1>7, IdleIs DEF SyncSound
  <2>10. MachineInv(m)'
    BY <1>1, <1>5, <2>2, <2>3, <2>8, <2>9, RestIs DEF MachineInv
  <2>11. Sticks(m) /\ Cleans(m)
    BY <1>1, <1>7, <2>6 DEF Sticks, Cleans, IsIdle
  <2> QED BY <1>6, <2>7, <2>10, <2>11 DEF Good
<1>8. CASE op[m].cmd # "reset"
  <2>1. UNCHANGED <<catalog, tomb, cached, mine>>
    BY <1>8 DEF ExecDone
  <2>2. Alone(m)
    BY <1>1, <1>3, <1>4, <1>6, <2>1, RestIs DEF Alone
  <2>3. GistsThere(m)'
    BY <1>1, <1>2, <1>3, <2>1, OpIs, IdleIs DEF GistsThere, MachineInv
  <2>4. SyncSound(m)'
    BY <1>1, <1>2, <1>3, <2>1, OpIs, IdleIs DEF SyncSound, MachineInv
  <2>5. MachineInv(m)'
    BY <1>1, <1>5, <2>1, <2>3, <2>4, RestIs DEF MachineInv
  <2>6. Sticks(m)
    BY <2>1 DEF Sticks
  <2>7. ASSUME OneName PROVE Cleans(m)
    <3>1. ASSUME op[m].cmd = "sync", ~op[m].err PROVE Reconciled(m)'
      <4>1. OnTrack(catalog[m], installed[m], {})
        BY <1>1, <2>7, <3>1, OpIs DEF MachineInv, SyncSound
      <4>2. Reconciled(m)
        BY <4>1, TrackedIsReconciled
      <4> QED BY <1>1, <2>1, <4>2 DEF Reconciled
    <3> QED BY <1>1, <3>1 DEF Cleans, IsIdle
  <2> QED BY <1>6, <2>2, <2>5, <2>6, <2>7 DEF Good
<1> QED BY <1>7, <1>8

-----------------------------------------------------------------------------
(* One shell call                                                          *)

(* The call a that made i of the installed package k: what was right stays *)
(* right, and its own entry is now right, when packages have one name.     *)
LEMMA DoneTracks ==
  ASSUME OneName, NEW cat \in Catalogs, NamedCatalog(cat), NEW inst \in Installs,
         NEW todo \in SUBSET Action, Planned(cat, todo), OnTrack(cat, inst, todo),
         NEW a \in todo, NEW new \in Installs,
         NEW k \in LockKeys,
         \A x \in Keys : x # k => new[x] = inst[x],
         \/ a.type = "uninstall" /\ k = a.key /\ (k \in Keys => new[k] = None)
         \/ /\ a.type \in {"install", "upgrade"} /\ k = a.src.key
            /\ Fits(new[k], a.src)
  PROVE  OnTrack(cat, new, todo \ {a})
PROOF
<1> SUFFICES ASSUME NEW n \in Has(cat)
             PROVE  Tracked(cat[n], new[cat[n].src.key], todo \ {a})
  BY DEF OnTrack
<1> DEFINE s == cat[n].src
<1>1. /\ n \in Names /\ s.key \in Keys /\ NamedBy(n, s.key)
      /\ Tracked(cat[n], inst[s.key], todo)
  BY EntryIs DEF NamedCatalog, OnTrack
<1>2. PICK n0 \in Has(cat) :
        \/ a.type = "uninstall" /\ cat[n0].src.key = a.key /\ ~cat[n0].on
        \/ a.type \in {"install", "upgrade"} /\ cat[n0].src = a.src /\ cat[n0].on
  BY DEF Planned
<1>3. n0 \in Names /\ cat[n0].src.key \in Keys /\ NamedBy(n0, cat[n0].src.key)
  BY EntryIs DEF NamedCatalog
<1>4. cat[n0].src.key = k
  BY <1>2
<1>5. CASE s.key = k
  <2>1. n = n0
    BY <1>1, <1>3, <1>4, <1>5 DEF OneName
  <2> QED BY <1>1, <1>2, <1>4, <1>5, <2>1 DEF Tracked
<1>6. CASE s.key # k
  <2>1. new[s.key] = inst[s.key]
    BY <1>1, <1>6
  <2>2. a.type = "uninstall" => a.key # s.key
    BY <1>6
  <2>3. a.type \in {"install", "upgrade"} => a.src # s
    BY <1>6
  <2> QED BY <1>1, <2>1, <2>2, <2>3 DEF Tracked
<1> QED BY <1>5, <1>6

(* The companions a manifest adds.                                         *)
LEMMA NewAre ==
  ASSUME CatalogInv, NEW m \in Machines, NEW a \in Action
  PROVE  /\ NewCompanions(m, a) \in SUBSET Action
         /\ \A b \in NewCompanions(m, a) :
              b.type = "companion" /\ b.key \in Names /\ b.key = b.src.key
         /\ a.depth = MaxCompanionDepth => NewCompanions(m, a) = {}
PROOF
<1>1. a.src \in Sources /\ a.depth \in 0 .. MaxCompanionDepth
  BY DEF Action
<1>2. a.depth >= MaxCompanionDepth => NewCompanions(m, a) = {}
  BY DEF NewCompanions
<1>3. ASSUME NEW b \in NewCompanions(m, a)
      PROVE  /\ b \in Action
             /\ b.type = "companion" /\ b.key \in Names /\ b.key = b.src.key
  <2>1. ~(a.depth >= MaxCompanionDepth)
    BY <1>2, <1>3
  <2>2. PICK s \in Companions[a.src] :
          b = [type |-> "companion", key |-> s.key, src |-> s, depth |-> a.depth + 1]
    BY <1>3, <2>1 DEF NewCompanions
  <2>3. s \in Sources /\ s.key \in Names
    BY <1>1, CommandAssumption
  <2>4. a.depth + 1 \in 0 .. MaxCompanionDepth
    BY <1>1, <2>1 DEF MaxCompanionDepth
  <2> QED BY <2>2, <2>3, <2>4 DEF Action, LockKeys
<1> QED BY <1>1, <1>2, <1>3 DEF MaxCompanionDepth

(* The installed packages after a call.                                    *)
LEMMA UninstallIs ==
  ASSUME CatalogInv, NEW m \in Machines, NEW k \in LockKeys, Uninstall(m, k)
  PROVE  /\ Changes(installed, installed', m, Installs) /\ PinsKept(installed'[m])
         /\ \A x \in Keys : x # k => installed'[m][x] = installed[m][x]
         /\ k \in Keys => installed'[m][k] = None
PROOF
<1> DEFINE i == [installed[m] EXCEPT ![k] = None]
<1>1. CASE k \in Keys
  <2>1. i \in Installs /\ i[k] = None /\ \A x \in Keys : x # k => i[x] = installed[m][x]
    BY <1>1, RestIs DEF Installs
  <2>2. installed' = Set(installed, m, i)
    BY <1>1 DEF Uninstall, Set, CatalogInv, TypeOK
  <2> HIDE DEF i
  <2>3. Changes(installed, installed', m, Installs) /\ installed'[m] = i
    BY <2>1, <2>2, SetIs DEF CatalogInv
  <2>4. PinsKept(i)
    BY <1>1, <2>1, RestIs DEF PinsKept
  <2> QED BY <2>1, <2>3, <2>4
<1>2. CASE k \notin Keys
  BY <1>2, RestIs DEF Uninstall
<1> QED BY <1>1, <1>2

LEMMA FetchIs ==
  ASSUME CatalogInv, NEW m \in Machines, NEW s \in Sources, Fetch(m, s)
  PROVE  /\ Changes(installed, installed', m, Installs) /\ PinsKept(installed'[m])
         /\ \A x \in Keys : x # s.key => installed'[m][x] = installed[m][x]
         /\ Fits(installed'[m][s.key], s)
PROOF
<1>1. PICK v \in Versions :
        /\ s.pin # None => v = s.pin
        /\ installed' = [installed EXCEPT ![m][s.key] = [src |-> s, ver |-> v]]
  BY DEF Fetch
<1> DEFINE got == [src |-> s, ver |-> v]
           i == [installed[m] EXCEPT ![s.key] = got]
<1>2. got \in Installed /\ got # None /\ got.src = s /\ got.ver = v
  BY NoneAssumption DEF Installed
<1>3. Fits(got, s)
  BY <1>1, <1>2 DEF Fits
<1> HIDE DEF got
<1>4. /\ i \in Installs /\ i[s.key] = got
      /\ \A x \in Keys : x # s.key => i[x] = installed[m][x]
  BY <1>2, RestIs, SourceIs DEF Installs
<1>5. installed' = Set(installed, m, i)
  BY <1>1, SourceIs DEF Set, CatalogInv, TypeOK, got
<1> HIDE DEF i
<1>6. Changes(installed, installed', m, Installs) /\ installed'[m] = i
  BY <1>4, <1>5, SetIs DEF CatalogInv
<1>7. PinsKept(i)
  BY <1>2, <1>3, <1>4, RestIs, SourceIs DEF PinsKept
<1> QED BY <1>3, <1>4, <1>6, <1>7

(* What both outcomes of a call keep: the command runs on, its calls are   *)
(* those left and the companions found.                                    *)
LEMMA RunsOn ==
  ASSUME CatalogInv, NEW m \in Machines, NEW a \in op[m].todo, op[m].pc = "exec",
         NEW new \in SUBSET Action,
         \A b \in new : b.type = "companion" /\ b.key \in Names /\ b.key = b.src.key,
         NEW seen \in SUBSET Sources, NEW err \in BOOLEAN,
         op' = Set(op, m, [op[m] EXCEPT !.todo = (op[m].todo \ {a}) \cup new,
                                        !.seen = seen, !.err = err]),
         NEW cat \in Catalogs, NamedCatalog(cat), catalog' = Set(catalog, m, cat),
         Has(catalog[m]) \subseteq Has(cat),
         Changes(installed, installed', m, Installs), PinsKept(installed'[m]),
         Changes(mine, mine', m, SUBSET Names),
         faults' \in 0 .. MaxFaults,
         op[m].cmd = "sync" =>
           /\ cat = catalog[m] /\ new = {}
           /\ OneName /\ ~err => OnTrack(cat, installed'[m], op[m].todo \ {a}),
         UNCHANGED <<lock, tomb, cached, gist, edits>>
  PROVE  Good(m)
PROOF
<1> DEFINE todo == (op[m].todo \ {a}) \cup new
           o == [op[m] EXCEPT !.todo = todo, !.seen = seen, !.err = err]
<1>1. todo \in SUBSET Action
  BY OpIs
<1>2. op' = Set(op, m, o)
  OBVIOUS
<1>3. op[m].cmd = "sync" => todo = op[m].todo \ {a}
  OBVIOUS
<1>4. \A b \in todo : b.type = "companion" => b.key \in Names /\ b.key = b.src.key
  BY OpIs DEF MachineInv, CompanionsNamed
<1> HIDE DEF todo
<1>5. /\ o \in Op /\ o.pc = "exec" /\ o.todo = todo /\ o.err = err /\ o.cmd = op[m].cmd
      /\ o.push = op[m].push /\ o.profile = op[m].profile /\ o.target = op[m].target
      /\ o.dropped = op[m].dropped
  BY <1>1, OpIs DEF Op
<1> HIDE DEF o
<1>6. Changes(op, op', m, Op) /\ op'[m] = o
  BY <1>2, <1>5, SetIs DEF CatalogInv
<1>7. Changes(catalog, catalog', m, Catalogs) /\ catalog'[m] = cat
  BY SetIs DEF CatalogInv
<1>8. Alone(m) /\ GistsKept /\ GistsNamed'
  BY <1>6, <1>7, RestIs DEF Alone, GistsKept, CatalogInv, TypeOK, GistsNamed
<1>9. CompanionsNamed(m)' /\ IdleAtRest(m)'
  BY <1>4, <1>5, <1>6 DEF CompanionsNamed, IdleAtRest, IsIdle
<1>10. GistsThere(m)'
  BY <1>5, <1>6, OpIs DEF GistsThere, MachineInv
<1>11. SyncSound(m)'
  <2>1. ASSUME op[m].cmd = "sync"
        PROVE  /\ Has(cat) \cap op[m].dropped = {} /\ Planned(cat, todo)
               /\ OneName /\ ~err => OnTrack(cat, installed'[m], todo)
    <3>1. Has(cat) \cap op[m].dropped = {} /\ Planned(cat, op[m].todo)
      BY <2>1, OpIs DEF MachineInv, SyncSound
    <3>2. Planned(cat, todo)
      BY <1>3, <2>1, <3>1 DEF Planned
    <3> QED BY <1>3, <2>1, <3>1, <3>2
  <2> QED BY <1>5, <1>6, <1>7, <2>1 DEF SyncSound
<1>12. MachineInv(m)'
  BY <1>7, <1>9, <1>10, <1>11 DEF MachineInv
<1>13. Sticks(m) /\ Honours(m) /\ Cleans(m)
  BY <1>5, <1>6, <1>7, RestIs DEF Sticks, Honours, Cleans, IsIdle, Has
<1> QED BY <1>8, <1>12, <1>13 DEF Good

LEMMA ExecIsGood ==
  ASSUME CatalogInv, NEW m \in Machines, Exec(m)
  PROVE  Good(m)
PROOF
<1>1. PICK a \in FirstActions(op[m].todo) : ExecSucceeds(m, a) \/ ExecFails(m, a)
  BY DEF Exec
<1>2. /\ op[m].pc = "exec" /\ UNCHANGED <<lock, tomb, cached, gist, edits>>
  BY DEF Exec
<1>3. /\ a \in op[m].todo /\ a \in Action /\ a.key \in LockKeys /\ a.src \in Sources
      /\ a.depth \in 0 .. MaxCompanionDepth
  BY OpIs DEF FirstActions, Action
<1>4. ASSUME op[m].cmd = "sync"
      PROVE  /\ a.depth = MaxCompanionDepth /\ a.type \in {"uninstall", "install", "upgrade"}
             /\ Planned(catalog[m], op[m].todo)
             /\ OneName /\ ~op[m].err => OnTrack(catalog[m], installed[m], op[m].todo)
  BY <1>2, <1>3, <1>4, OpIs DEF MachineInv, SyncSound, Planned
<1>5. a.type = "companion" => a.key \in Names /\ a.key = a.src.key
  BY <1>3, OpIs DEF MachineInv, CompanionsNamed
<1>6. op[m].seen \in SUBSET Sources /\ op[m].err \in BOOLEAN
  BY OpIs DEF Op
<1>7. CASE ExecSucceeds(m, a)
  <2> DEFINE new == NewCompanions(m, a)
             seen == op[m].seen \cup {a.src} \cup {b.src : b \in new}
             adds == a.type = "companion" /\ catalog[m][a.key] = None
             e == [src |-> a.src, on |-> TRUE]
             cat == IF adds THEN [catalog[m] EXCEPT ![a.key] = e] ELSE catalog[m]
             k == IF a.type = "uninstall" THEN a.key ELSE a.src.key
  <2>1. /\ IF a.type = "uninstall" THEN Uninstall(m, a.key) ELSE Fetch(m, a.src)
        /\ catalog' = (IF adds THEN [catalog EXCEPT ![m][a.key] = e] ELSE catalog)
        /\ mine' = (IF adds THEN Set(mine, m, mine[m] \cup {a.key}) ELSE mine)
        /\ op' = Set(op, m, [op[m] EXCEPT
                   !.todo = (@ \ {a}) \cup new, !.seen = @ \cup {a.src} \cup {b.src : b \in new}])
        /\ NoFault
    BY <1>7 DEF ExecSucceeds
  <2>2. /\ new \in SUBSET Action
        /\ \A b \in new : b.type = "companion" /\ b.key \in Names /\ b.key = b.src.key
        /\ a.depth = MaxCompanionDepth => new = {}
    BY <1>3, NewAre
  <2> HIDE DEF new
  <2>3. seen \in SUBSET Sources
    BY <1>3, <1>6, <2>2 DEF Action
  <2>4. op' = Set(op, m, [op[m] EXCEPT !.todo = (op[m].todo \ {a}) \cup new,
                                       !.seen = seen, !.err = op[m].err])
    <3>1. [op[m] EXCEPT !.todo = (op[m].todo \ {a}) \cup new, !.seen = seen,
                        !.err = op[m].err]
            = [op[m] EXCEPT !.todo = (op[m].todo \ {a}) \cup new, !.seen = seen]
      <4> HIDE DEF seen
      <4> QED BY OpIs DEF Op
    <3> QED BY <2>1, <3>1
  <2>5. e \in Entry /\ e # None /\ e.src = a.src
    <3>1. e \in Entry /\ e.src = a.src
      BY <1>3 DEF Entry
    <3> QED BY <3>1, NoneAssumption
  <2>6. /\ cat \in Catalogs /\ NamedCatalog(cat) /\ Has(catalog[m]) \subseteq Has(cat)
        /\ catalog' = Set(catalog, m, cat)
    <3>1. CASE adds
      <4> DEFINE c == [catalog[m] EXCEPT ![a.key] = e]
      <4>1. a.key \in Names /\ NamedBy(a.key, e.src.key)
        BY <1>5, <2>5, <3>1 DEF NamedBy
      <4>2. cat = c /\ catalog' = Set(catalog, m, c)
        BY <2>1, <3>1, <4>1 DEF Set, CatalogInv, TypeOK
      <4> HIDE DEF e
      <4>3. /\ c \in Catalogs /\ c[a.key] = e
            /\ \A n \in Names \ {a.key} : c[n] = catalog[m][n]
        BY <2>5, <4>1, RestIs DEF Catalogs
      <4> HIDE DEF c
      <4>4. NamedCatalog(c) /\ Has(catalog[m]) \subseteq Has(c)
        BY <2>5, <4>1, <4>3, RestIs DEF NamedCatalog, Has
      <4> QED BY <4>2, <4>3, <4>4
    <3>2. CASE ~adds
      <4>1. cat = catalog[m] /\ catalog' = Set(catalog, m, catalog[m])
        BY <2>1, <3>2 DEF Set, CatalogInv, TypeOK
      <4> HIDE DEF cat
      <4> QED BY <4>1, RestIs
    <3> QED BY <3>1, <3>2
  <2>7. Changes(mine, mine', m, SUBSET Names)
    <3>1. CASE adds
      <4>1. mine[m] \cup {a.key} \in SUBSET Names
        BY <1>5, <3>1, RestIs
      <4> QED BY <2>1, <3>1, <4>1, SetIs DEF CatalogInv
    <3>2. CASE ~adds
      BY <2>1, <3>2, RestIs
    <3> QED BY <3>1, <3>2
  <2>8. /\ Changes(installed, installed', m, Installs) /\ PinsKept(installed'[m])
        /\ \A x \in Keys : x # k => installed'[m][x] = installed[m][x]
        /\ a.type = "uninstall" => k = a.key /\ (k \in Keys => installed'[m][k] = None)
        /\ a.type # "uninstall" => k = a.src.key /\ Fits(installed'[m][k], a.src)
    <3>1. CASE a.type = "uninstall"
      BY <1>3, <2>1, <3>1, UninstallIs
    <3>2. CASE a.type # "uninstall"
      BY <1>3, <2>1, <3>2, FetchIs
    <3> QED BY <3>1, <3>2
  <2>9. ASSUME op[m].cmd = "sync"
        PROVE  /\ cat = catalog[m] /\ new = {}
               /\ OneName /\ ~op[m].err => OnTrack(cat, installed'[m], op[m].todo \ {a})
    <3>1. cat = catalog[m] /\ new = {}
      BY <1>4, <2>2, <2>9
    <3>2. ASSUME OneName, ~op[m].err
          PROVE  OnTrack(catalog[m], installed'[m], op[m].todo \ {a})
      <4>1. /\ NamedCatalog(catalog[m]) /\ Planned(catalog[m], op[m].todo)
            /\ OnTrack(catalog[m], installed[m], op[m].todo)
            /\ catalog[m] \in Catalogs /\ installed[m] \in Installs
            /\ op[m].todo \in SUBSET Action
        BY <1>4, <2>9, <3>2, RestIs, OpIs
      <4>2. installed'[m] \in Installs
        BY <2>8 DEF Changes
      <4>3. k \in LockKeys
        BY <1>3, SourceIs
      <4>4. \/ a.type = "uninstall" /\ k = a.key /\ (k \in Keys => installed'[m][k] = None)
            \/ /\ a.type \in {"install", "upgrade"} /\ k = a.src.key
               /\ Fits(installed'[m][k], a.src)
        BY <1>4, <2>8, <2>9
      <4> HIDE DEF k
      <4> QED BY <1>3, <2>8, <3>2, <4>1, <4>2, <4>3, <4>4, DoneTracks
    <3> HIDE DEF cat
    <3> QED BY <3>1, <3>2
  <2>10. faults' \in 0 .. MaxFaults
    BY <2>1, RestIs DEF NoFault
  <2> HIDE DEF cat, seen
  <2> QED BY <1>2, <1>3, <1>6, <2>2, <2>3, <2>4, <2>6, <2>7, <2>8, <2>9, <2>10, RunsOn
<1>8. CASE ExecFails(m, a)
  <2> DEFINE new == IF a.type = "companion" /\ installed[m][a.src.key] # None
                    THEN NewCompanions(m, a) ELSE {}
             seen == op[m].seen \cup {b.src : b \in new}
  <2>1. /\ Fault
        /\ op' = Set(op, m, [op[m] EXCEPT
                   !.todo = (@ \ {a}) \cup new, !.err = TRUE,
                   !.seen = @ \cup {b.src : b \in new}])
        /\ UNCHANGED <<installed, catalog, mine>>
    BY <1>8 DEF ExecFails
  <2>2. /\ new \in SUBSET Action
        /\ \A b \in new : b.type = "companion" /\ b.key \in Names /\ b.key = b.src.key
        /\ a.depth = MaxCompanionDepth => new = {}
    BY <1>3, NewAre
  <2> HIDE DEF new
  <2>3. seen \in SUBSET Sources
    BY <1>6, <2>2 DEF Action
  <2>4. op' = Set(op, m, [op[m] EXCEPT !.todo = (op[m].todo \ {a}) \cup new,
                                       !.seen = seen, !.err = TRUE])
    <3>1. [op[m] EXCEPT !.todo = (op[m].todo \ {a}) \cup new, !.seen = seen, !.err = TRUE]
            = [op[m] EXCEPT !.todo = (op[m].todo \ {a}) \cup new, !.err = TRUE, !.seen = seen]
      <4> HIDE DEF seen
      <4> QED BY OpIs DEF Op
    <3> QED BY <2>1, <3>1
  <2>5. catalog' = Set(catalog, m, catalog[m])
    BY <2>1 DEF Set, CatalogInv, TypeOK
  <2>6. faults' \in 0 .. MaxFaults
    BY <2>1, BoundsAre DEF CatalogInv
  <2>7. op[m].cmd = "sync" => new = {}
    BY <1>4, <2>2
  <2>8. TRUE \in BOOLEAN /\ ~~TRUE
    OBVIOUS
  <2> HIDE DEF seen
  <2> QED BY <1>2, <1>3, <2>1, <2>2, <2>3, <2>4, <2>5, <2>6, <2>7, <2>8, RestIs, RunsOn
<1> QED BY <1>1, <1>7, <1>8

-----------------------------------------------------------------------------
(* The invariant, and what each step does                                  *)

LEMMA CatalogInit ==
  ASSUME Init
  PROVE  CatalogInv
PROOF
<1>1. /\ EmptyCatalog \in Catalogs /\ NamedCatalog(EmptyCatalog)
      /\ EmptyLock \in Locks /\ [k \in Keys |-> None] \in Installs
  BY DEF EmptyCatalog, Catalogs, NamedCatalog, Has, EmptyLock, Locks, Installs
<1>2. TypeOK
  BY <1>1, IdleIs, CommandAssumption DEF Init, TypeOK
<1>3. GistsNamed
  BY DEF Init, GistsNamed
<1>4. ASSUME NEW m \in Machines PROVE MachineInv(m)
  <2>1. /\ catalog[m] = EmptyCatalog /\ installed[m] = [k \in Keys |-> None]
        /\ cached[m] = None /\ op[m] = Idle
    BY DEF Init
  <2>2. NamedCatalog(catalog[m]) /\ PinsKept(installed[m])
    BY <1>1, <2>1 DEF PinsKept
  <2>3. CompanionsNamed(m) /\ GistsThere(m) /\ SyncSound(m) /\ IdleAtRest(m)
    BY <2>1, IdleIs DEF CompanionsNamed, GistsThere, SyncSound, IdleAtRest
  <2> QED BY <2>2, <2>3 DEF MachineInv
<1> QED BY <1>2, <1>3, <1>4 DEF CatalogInv

LEMMA CommandsAreGood ==
  ASSUME CatalogInv, NEW m \in Machines, Command(m)
  PROVE  Good(m)
PROOF
<1>1. CASE Remove(m)
  <2>1. PICK n \in Has(catalog[m]) : RemoveAll(m, {n})
    BY <1>1 DEF Remove
  <2>2. {n} \in SUBSET Has(catalog[m])
    BY <2>1
  <2> QED BY <2>1, <2>2, RemoveIsGood
<1>2. CASE RemoveScope(m)
  <2>1. ScopeNames(m) \in SUBSET Has(catalog[m])
    BY DEF ScopeNames
  <2> QED BY <1>2, <2>1, RemoveIsGood DEF RemoveScope
<1>3. CASE Enable(m)
  <2>1. PICK n \in Has(catalog[m]) : Switch(m, n, TRUE, {})
    BY <1>3 DEF Enable
  <2>2. {} \in SUBSET Action /\ \A a \in {} : a.type # "companion"
    OBVIOUS
  <2> QED BY <2>1, <2>2, SwitchIsGood
<1>4. CASE Toggle(m)
  <2>1. PICK n \in Has(catalog[m]) : Switch(m, n, ~catalog[m][n].on, {})
    BY <1>4 DEF Toggle
  <2>2. {} \in SUBSET Action /\ \A a \in {} : a.type # "companion"
    OBVIOUS
  <2>3. (~catalog[m][n].on) \in BOOLEAN
    OBVIOUS
  <2> QED BY <2>1, <2>2, <2>3, SwitchIsGood
<1>5. CASE Disable(m)
  <2>1. PICK n \in Has(catalog[m]) :
          Switch(m, n, FALSE, {Act("uninstall", n, catalog[m][n].src)})
    BY <1>5 DEF Disable
  <2> DEFINE plan == {Act("uninstall", n, catalog[m][n].src)}
  <2>2. n \in LockKeys /\ catalog[m][n].src \in Sources
    BY EntryIs, RestIs DEF LockKeys
  <2>3. plan \in SUBSET Action /\ \A a \in plan : a.type # "companion"
    BY <2>2, ActIs
  <2> HIDE DEF plan
  <2>4. Switch(m, n, FALSE, plan)
    BY <2>1 DEF plan
  <2> QED BY <2>3, <2>4, SwitchIsGood
<1>6. CASE PlainSync(m) \/ FlaggedSync(m)
  BY <1>6, SyncStartsGood
<1>7. CASE DryRun(m) \/ Pull(m) \/ PushCommand(m) \/ Add(m) \/ AddScope(m)
  BY <1>7, DryRunIsGood, PullIsGood, PushCommandIsGood, AddIsGood, AddScopeIsGood
<1>8. CASE Update(m) \/ Reset(m) \/ InitFromScan(m) \/ InitFromGist(m)
  BY <1>8, UpdateIsGood, ResetIsGood, InitFromScanIsGood, InitFromGistIsGood
<1> QED BY <1>1, <1>2, <1>3, <1>4, <1>5, <1>6, <1>7, <1>8 DEF Command

LEMMA StepsAreGood ==
  ASSUME CatalogInv, Next
  PROVE  \E m \in Machines : Good(m)
BY CommandsAreGood, ExecIsGood, ExecDoneIsGood, PushFindIsGood, PushWriteIsGood,
   PushFailsIsGood, CrashIsGood DEF Next, Step

LEMMA CatalogStep ==
  ASSUME CatalogInv, [Next]_vars
  PROVE  CatalogInv'
PROOF
<1>1. CASE Next
  BY <1>1, StepsAreGood, GoodKeeps
<1>2. CASE UNCHANGED vars
  <2> USE <1>2 DEF vars
  <2>1. TypeOK' /\ GistsNamed'
    BY DEF CatalogInv, TypeOK, GistsNamed
  <2>2. ASSUME NEW m \in Machines PROVE MachineInv(m)'
    <3>1. MachineInv(m)
      BY DEF CatalogInv
    <3>2. CompanionsNamed(m)' /\ GistsThere(m)' /\ SyncSound(m)' /\ IdleAtRest(m)'
      BY <3>1 DEF MachineInv, CompanionsNamed, GistsThere, SyncSound, IdleAtRest, IsIdle
    <3> QED BY <3>1, <3>2 DEF MachineInv
  <2> QED BY <2>1, <2>2 DEF CatalogInv
<1> QED BY <1>1, <1>2

(* The variables keep their types.                                         *)
THEOREM CatalogTypes == Spec => []TypeOK
PROOF
<1>1. CatalogInv => TypeOK
  BY DEF CatalogInv
<1> QED BY <1>1, CatalogInit, CatalogStep, PTL DEF Spec

(* What a machine's user added stays in its cat.yaml: whatever other       *)
(* machines push, whatever call fails and whenever the process dies, no    *)
(* step drops it but one of the user's own that gives it up (remove,       *)
(* reset, init, pull), or a sync that clears a tombstone still pending.    *)
THEOREM AdditionsStickTheorem == Spec => AdditionsStick
PROOF
<1> DEFINE Stay == \A m \in Machines : \A n \in mine[m] \cap mine'[m] :
                     catalog[m][n] # None /\ n \notin tomb[m] => catalog'[m][n] # None
<1>1. ASSUME CatalogInv, Next PROVE Stay
  <2>1. PICK m \in Machines : Good(m)
    BY <1>1, StepsAreGood
  <2>2. \A k \in Machines \ {m} : catalog'[k] = catalog[k]
    BY <2>1 DEF Good, Alone, Changes
  <2> QED BY <2>1, <2>2 DEF Good, Sticks
<1>2. CatalogInv /\ [Next]_vars => [Stay]_vars
  BY <1>1 DEF vars
<1> QED BY <1>2, CatalogInit, CatalogStep, PTL DEF Spec, AdditionsStick

(* A package a sync dropped for its tombstone is in no gist that this sync *)
(* writes, also when the upload reports a failure GitHub did not have.     *)
THEOREM UploadTheorem == Spec => UploadHonoursRemoval
PROOF
<1> DEFINE Honoured ==
      \A m \in Machines :
        (op[m].cmd = "sync" /\ op[m].pc = "write" /\ op'[m] # op[m]) =>
          \A g \in Gists : gist'[g] # gist[g] =>
            Has(gist'[g].catalog) \cap op[m].dropped = {}
<1>1. ASSUME CatalogInv, Next PROVE Honoured
  <2>1. PICK m \in Machines : Good(m)
    BY <1>1, StepsAreGood
  <2>2. \A k \in Machines \ {m} : op'[k] = op[k]
    BY <2>1 DEF Good, Alone, Changes
  <2> QED BY <2>1, <2>2 DEF Good, Honours
<1>2. CatalogInv /\ [Next]_vars => [Honoured]_vars
  BY <1>1 DEF vars
<1> QED BY <1>2, CatalogInit, CatalogStep, PTL DEF Spec, UploadHonoursRemoval

(* A sync whose calls all succeeded, or that had none to make and uploads, *)
(* leaves the installed packages as cat.yaml asks, pins included, when no  *)
(* source key goes by two names.  add.ts:180 names an entry by the key of  *)
(* its source, and only the form `ct add <name> <source>` can break it.    *)
THEOREM CleanTheorem ==
  ASSUME OneName
  PROVE  Spec => CleanSyncReconciles
PROOF
<1> DEFINE Clean ==
      \A m \in Machines :
        LET ran     == /\ op[m].cmd = "sync" /\ op[m].pc = "exec" /\ ~op[m].err
                       /\ op'[m].pc # "exec" /\ faults' = faults
            nothing == IsIdle(m) /\ op'[m].cmd = "sync" /\ op'[m].pc = "find"
        IN ran \/ nothing => Reconciled(m)'
<1>1. ASSUME CatalogInv, Next PROVE Clean
  <2>1. PICK m \in Machines : Good(m)
    BY <1>1, StepsAreGood
  <2>2. \A k \in Machines \ {m} : op'[k] = op[k]
    BY <2>1 DEF Good, Alone, Changes
  <2>3. Cleans(m)
    BY <2>1 DEF Good
  <2>4. ASSUME NEW k \in Machines \ {m}
        PROVE  LET ran     == /\ op[k].cmd = "sync" /\ op[k].pc = "exec" /\ ~op[k].err
                              /\ op'[k].pc # "exec" /\ faults' = faults
                   nothing == IsIdle(k) /\ op'[k].cmd = "sync" /\ op'[k].pc = "find"
               IN ran \/ nothing => Reconciled(k)'
    BY <2>2 DEF IsIdle
  <2> QED BY <2>3, <2>4 DEF Cleans
<1>2. CatalogInv /\ [Next]_vars => [Clean]_vars
  BY <1>1 DEF vars
<1> QED BY <1>2, CatalogInit, CatalogStep, PTL DEF Spec, CleanSyncReconciles
===============================================================================
