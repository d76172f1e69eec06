------------------------------ MODULE ProxyPool ------------------------------
(***************************************************************************)
(* ProxyPool of packages/qwen-proxy/src/pool/proxy-pool.ts: N SOCKS        *)
(* proxies, one request at a time on each, and a queue of acquirers.       *)
(*                                                                         *)
(* JavaScript runs a method to its next await without interruption, so     *)
(* each action is one such stretch.  A released slot resolves the promise  *)
(* of the first queued acquirer; that acquirer runs again in a microtask   *)
(* of its own (Resume), after whatever the releaser and the microtasks     *)
(* before it do.  `slot` is the slotKey each request keeps (retry.ts).     *)
(***************************************************************************)
EXTENDS Naturals, Sequences, FiniteSets

CONSTANTS
  Requests,  \* the requests in flight
  Size,      \* number of proxies
  None       \* no proxy

Proxies == 0 .. Size - 1

ASSUME PoolAssumption ==
  /\ IsFiniteSet(Requests)
  /\ Size \in Nat \ {0}
  /\ None \notin Proxies

VARIABLES
  head,        \* index the next scan starts from
  busy,        \* the ledger: the proxies whose slot is taken
  slotWaiters, \* acquirers blocked, in order
  woken,       \* acquirers whose promise is resolved and who have not run yet
  slot         \* the proxy each request holds

poolVars == <<head, busy, slotWaiters, woken, slot>>

Queued == {slotWaiters[i] : i \in DOMAIN slotWaiters}

Waiting == Queued \cup woken

FreeProxies == Proxies \ busy

PoolTypeOK ==
  /\ head \in Proxies
  /\ busy \in SUBSET Proxies
  /\ slotWaiters \in Seq(Requests)
  /\ woken \in SUBSET Requests
  /\ slot \in [Requests -> Proxies \cup {None}]

PoolInit ==
  /\ head = 0
  /\ busy = {}
  /\ slotWaiters = <<>>
  /\ woken = {}
  /\ slot = [r \in Requests |-> None]

-----------------------------------------------------------------------------
Distance(from, p) == (p + Size - from) % Size

(* pick(): the first free proxy at or after `from`, wrapping around.       *)
Pick(from, ledger) ==
  {p \in Proxies \ ledger :
     \A q \in Proxies \ ledger : Distance(from, p) <= Distance(from, q)}

(* Broken variant, for the sensitivity checks: the ledger is not marked.   *)
GrantUnmarked(r, from, ledger) ==
  \E p \in Pick(from, ledger) :
    /\ head' = p
    /\ busy' = ledger
    /\ slot' = [slot EXCEPT ![r] = p]

(* r takes the proxy that pick() finds; head follows.                      *)
Grant(r, from, ledger) ==
  \E p \in Pick(from, ledger) :
    /\ head' = p
    /\ busy' = ledger \cup {p}
    /\ slot' = [slot EXCEPT ![r] = p]

(* Broken variant: release() wakes nobody.                                 *)
WakeNobody == UNCHANGED <<slotWaiters, woken>>

(* The shift() of release(): exactly one queued acquirer is resolved.      *)
WakeOne ==
  IF slotWaiters = <<>> THEN UNCHANGED <<slotWaiters, woken>>
  ELSE /\ slotWaiters' = Tail(slotWaiters)
       /\ woken' = woken \cup {Head(slotWaiters)}

Enqueue(r) ==
  /\ FreeProxies = {}
  /\ slotWaiters' = Append(slotWaiters, r)
  /\ UNCHANGED <<head, busy, slot>>

(* acquire(), up to its first await.                                       *)
Acquire(r) ==
  /\ slot[r] = None /\ r \notin Waiting
  /\ \/ Grant(r, head, busy) /\ UNCHANGED slotWaiters
     \/ Enqueue(r)
  /\ UNCHANGED woken

(* Broken variant, for the sensitivity checks: a woken acquirer that       *)
(* finds no proxy is forgotten.                                            *)
ResumeOrDrop(r) ==
  /\ r \in woken
  /\ woken' = woken \ {r}
  /\ \/ Grant(r, head, busy) /\ UNCHANGED slotWaiters
     \/ FreeProxies = {} /\ UNCHANGED <<head, busy, slot, slotWaiters>>

(* acquire(), after the await: it scans again, and goes to the end of the  *)
(* queue when someone else was faster.                                     *)
Resume(r) ==
  /\ r \in woken
  /\ woken' = woken \ {r}
  /\ \/ Grant(r, head, busy) /\ UNCHANGED slotWaiters
     \/ Enqueue(r)

(* release(), from the finally block of a request.                         *)
Release(r) ==
  /\ slot[r] # None
  /\ busy' = busy \ {slot[r]}
  /\ slot' = [slot EXCEPT ![r] = None]
  /\ WakeOne
  /\ UNCHANGED head

(* rotateWithSlot(): rotate(), release() and acquire() in one stretch.     *)
(* The slot just released is free, so this acquire never waits.            *)
Rotate(r) ==
  /\ Size > 1 /\ slot[r] # None
  /\ Grant(r, (head + 1) % Size, busy \ {slot[r]})
  /\ WakeOne

PoolNext ==
  \E r \in Requests : Acquire(r) \/ Resume(r) \/ Release(r) \/ Rotate(r)

PoolSpec == PoolInit /\ [][PoolNext]_poolVars

(* The microtask of a resolved promise runs.                               *)
PoolFairness == \A r \in Requests : WF_poolVars(Resume(r))

PoolFairSpec == PoolSpec /\ PoolFairness

-----------------------------------------------------------------------------
(* Properties *)

(* "Two woken acquirers can never take the same key" (proxy-pool.ts:135):  *)
(* no two requests hold one proxy, and the ledger marks exactly the        *)
(* proxies that are held, so none is leaked or given away.                 *)
Serialized ==
  /\ \A r, s \in Requests : slot[r] # None /\ slot[r] = slot[s] => r = s
  /\ \A p \in Proxies : p \in busy <=> \E r \in Requests : slot[r] = p

(* No wakeup is lost although release() resolves one promise and the slot  *)
(* may be gone when its owner runs: while acquirers are queued, every free *)
(* proxy is matched by an acquirer already on its way.                     *)
NoLostWakeup ==
  slotWaiters # <<>> => Cardinality(FreeProxies) <= Cardinality(woken)

(* An acquirer is in the queue once, or on its way, or served.             *)
QueueSound ==
  /\ \A i, j \in DOMAIN slotWaiters : slotWaiters[i] = slotWaiters[j] => i = j
  /\ Queued \cap woken = {}
  /\ \A r \in Waiting : slot[r] = None

(* The pool, seen without its queue and its pending microtasks.            *)
Ledger == INSTANCE SlotLedger WITH waiting <- Waiting

(* The pool behaves like the ledger, its progress included.                *)
ImplementsLedger == Ledger!Spec
==============================================================================
