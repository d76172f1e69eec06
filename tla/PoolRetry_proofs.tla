--------------------------- MODULE PoolRetry_proofs ---------------------------
(***************************************************************************)
(* Proofs about the proxy pool and the retry walks over it, for any number *)
(* of requests, proxies, permits and inline retries.                       *)
(*                                                                         *)
(* First ProxyPool alone: it keeps its types, serializes every proxy,      *)
(* queues soundly, loses no wakeup, and implements the safety part of      *)
(* SlotLedger.  PoolInv, the conjunction of the four checked invariants,   *)
(* is inductive: NoLostWakeup needs QueueSound (the acquirer that          *)
(* release() resolves was not resolved before), QueueSound and Serialized  *)
(* need the types.                                                         *)
(*                                                                         *)
(* Then PoolRetry: the retry walks use the pool only as ProxyPool's        *)
(* acquirers do, a request holds a slot exactly from its acquire to its    *)
(* finally block, its budgets bound its upstream calls, and the semaphore  *)
(* hands its permits on.  RetryInv is inductive.  Besides what is checked  *)
(* it says where a request stands in its budgets: each upstream call so    *)
(* far is charged to a proxy tried, to the re-mint, to the auth refresh or *)
(* to an inline retry, except the one that is under way.                   *)
(***************************************************************************)
EXTENDS PoolRetry, FiniteSetTheorems, SequenceTheorems, TLAPS

PoolInv == PoolTypeOK /\ Serialized /\ QueueSound /\ NoLostWakeup

Elems(q) == {q[i] : i \in DOMAIN q}

NoDup(q) == \A i, j \in DOMAIN q : q[i] = q[j] => i = j

-----------------------------------------------------------------------------
(* Queues *)

(* Appending a newcomer adds it to the queue's elements, once.             *)
LEMMA AppendQueue ==
  ASSUME NEW S, NEW q \in Seq(S), NEW e \in S, e \notin Elems(q), NoDup(q)
  PROVE  /\ Append(q, e) \in Seq(S)
         /\ Elems(Append(q, e)) = Elems(q) \cup {e}
         /\ NoDup(Append(q, e))
PROOF
<1> DEFINE t == Append(q, e)
<1>1. /\ t \in Seq(S) /\ Len(q) \in Nat
      /\ DOMAIN q = 1 .. Len(q) /\ DOMAIN t = 1 .. (Len(q) + 1)
      /\ \A i \in 1 .. Len(q) : t[i] = q[i]
      /\ t[Len(q) + 1] = e
  BY LenProperties
<1>2. Elems(t) = Elems(q) \cup {e}
  BY <1>1 DEF Elems
<1>3. NoDup(t)
  BY <1>1 DEF NoDup, Elems
<1> QED BY <1>1, <1>2, <1>3

(* Shifting a queue without duplicates removes its first element.          *)
LEMMA ShiftQueue ==
  ASSUME NEW S, NEW q \in Seq(S), q # <<>>, NoDup(q)
  PROVE  /\ Tail(q) \in Seq(S)
         /\ Head(q) \in Elems(q)
         /\ Elems(Tail(q)) = Elems(q) \ {Head(q)}
         /\ NoDup(Tail(q))
PROOF
<1> DEFINE t == Tail(q)
<1>1. /\ t \in Seq(S) /\ Len(q) \in Nat \ {0} /\ Len(t) = Len(q) - 1
      /\ DOMAIN q = 1 .. Len(q) /\ DOMAIN t = 1 .. (Len(q) - 1)
      /\ \A i \in 1 .. (Len(q) - 1) : t[i] = q[i + 1]
      /\ Head(q) = q[1]
  BY HeadTailProperties, LenProperties, EmptySeq
<1>2. Head(q) \in Elems(q)
  BY <1>1 DEF Elems
<1>3. Elems(t) = Elems(q) \ {Head(q)}
  <2>1. ASSUME NEW x \in Elems(t) PROVE x \in Elems(q) \ {Head(q)}
    <3>1. PICK i \in 1 .. (Len(q) - 1) : x = q[i + 1]
      BY <2>1, <1>1 DEF Elems
    <3>2. i + 1 \in DOMAIN q /\ 1 \in DOMAIN q /\ i + 1 # 1
      BY <1>1
    <3> QED BY <3>1, <3>2, <1>1 DEF Elems, NoDup
  <2>2. ASSUME NEW x \in Elems(q) \ {Head(q)} PROVE x \in Elems(t)
    <3>1. PICK i \in 1 .. Len(q) : x = q[i]
      BY <2>2, <1>1 DEF Elems
    <3>2. i # 1 /\ i - 1 \in 1 .. (Len(q) - 1) /\ t[i - 1] = q[i]
      BY <3>1, <1>1
    <3> QED BY <3>1, <3>2, <1>1 DEF Elems
  <2> QED BY <2>1, <2>2
<1>4. NoDup(t)
  BY <1>1 DEF NoDup
<1> QED BY <1>1, <1>2, <1>3, <1>4

-----------------------------------------------------------------------------
(* Granting and waking *)

(* Sets of proxies and of requests are finite.                             *)
LEMMA Sizes ==
  ASSUME NEW P \in SUBSET Proxies, NEW R \in SUBSET Requests
  PROVE  /\ IsFiniteSet(P) /\ Cardinality(P) \in Nat
         /\ IsFiniteSet(R) /\ Cardinality(R) \in Nat
PROOF
<1>1. IsFiniteSet(Proxies)
  BY PoolAssumption, FS_Interval DEF Proxies
<1> QED BY <1>1, PoolAssumption, FS_Subset, FS_CardinalityType

(* One proxy leaves the free set when r is granted one.                    *)
LEMMA GrantShrinks ==
  ASSUME NEW free \in SUBSET Proxies, NEW p \in free
  PROVE  Cardinality(free \ {p}) = Cardinality(free) - 1
BY Sizes, FS_RemoveElement

(* A grant from a ledger that marks exactly what the other requests hold   *)
(* keeps the proxies serialized.                                           *)
LEMMA GrantSerializes ==
  ASSUME PoolTypeOK, NEW r \in Requests, NEW from, NEW ledger \in SUBSET Proxies,
         \A q, s \in Requests : slot[q] # None /\ slot[q] = slot[s] => q = s,
         \A p \in Proxies :
           p \in ledger <=> \E s \in Requests \ {r} : slot[s] = p,
         Grant(r, from, ledger)
  PROVE  /\ head' \in Proxies
         /\ busy' \in SUBSET Proxies
         /\ slot' \in [Requests -> Proxies \cup {None}]
         /\ slot'[r] # None
         /\ \A s \in Requests \ {r} : slot'[s] = slot[s]
         /\ Serialized'
         /\ \E p \in Proxies \ ledger : FreeProxies' = (Proxies \ ledger) \ {p}
PROOF
<1>1. PICK p \in Proxies \ ledger :
        head' = p /\ busy' = ledger \cup {p} /\ slot' = [slot EXCEPT ![r] = p]
  BY DEF Grant, Pick
<1>2. p # None
  BY PoolAssumption
<1>3. /\ slot' \in [Requests -> Proxies \cup {None}]
      /\ slot'[r] = p
      /\ \A s \in Requests \ {r} : slot'[s] = slot[s]
  BY <1>1 DEF PoolTypeOK
<1>4. Serialized'
  <2>1. ASSUME NEW q \in Requests, NEW s \in Requests,
               slot'[q] # None, slot'[q] = slot'[s]
        PROVE  q = s
    <3>1. CASE q = r /\ s # r
      BY <3>1, <2>1, <1>3
    <3>2. CASE q # r /\ s = r
      BY <3>2, <2>1, <1>3
    <3>3. CASE q # r /\ s # r
      BY <3>3, <2>1, <1>3
    <3> QED BY <3>1, <3>2, <3>3
  <2>2. ASSUME NEW q \in Proxies
        PROVE  q \in busy' <=> \E s \in Requests : slot'[s] = q
    BY <1>1, <1>3
  <2> QED BY <2>1, <2>2 DEF Serialized
<1>5. FreeProxies' = (Proxies \ ledger) \ {p}
  BY <1>1 DEF FreeProxies
<1> QED BY <1>1, <1>2, <1>3, <1>4, <1>5

(* What a wakeup does to the queue and to the woken acquirers.             *)
LEMMA WakeOneEffect ==
  ASSUME PoolTypeOK, QueueSound, WakeOne
  PROVE  /\ slotWaiters' \in Seq(Requests) /\ woken' \in SUBSET Requests
         /\ NoDup(slotWaiters')
         /\ Queued' \cap woken' = {} /\ Waiting' = Waiting
         /\ \/ slotWaiters' = <<>>
            \/ Cardinality(woken') = Cardinality(woken) + 1
PROOF
<1> DEFINE q == slotWaiters
<1>1. Queued = Elems(q) /\ Queued' = Elems(q)' /\ NoDup(q)
  BY DEF Queued, Elems, NoDup, QueueSound
<1>2. CASE q = <<>>
  BY <1>1, <1>2 DEF WakeOne, PoolTypeOK, QueueSound, Waiting, NoDup, Queued
<1>3. CASE q # <<>>
  <2>1. q' = Tail(q) /\ woken' = woken \cup {Head(q)}
    BY <1>3 DEF WakeOne
  <2>2. /\ Tail(q) \in Seq(Requests) /\ NoDup(Tail(q))
        /\ Head(q) \in Elems(q) /\ Elems(Tail(q)) = Elems(q) \ {Head(q)}
    BY <1>1, <1>3, ShiftQueue DEF PoolTypeOK
  <2>3. Head(q) \in Requests /\ Head(q) \notin woken
    BY <1>1, <1>3, <2>2, HeadTailProperties DEF QueueSound, PoolTypeOK
  <2>4. Cardinality(woken') = Cardinality(woken) + 1
    BY <2>1, <2>3, Sizes, FS_AddElement DEF PoolTypeOK
  <2>5. Queued' = Queued \ {Head(q)}
    BY <1>1, <2>1, <2>2
  <2> QED BY <1>1, <2>1, <2>2, <2>3, <2>4, <2>5 DEF Waiting, QueueSound, PoolTypeOK
<1> QED BY <1>2, <1>3

(* What an enqueue does to the queue.                                      *)
LEMMA EnqueueEffect ==
  ASSUME PoolTypeOK, QueueSound, NEW r \in Requests, r \notin Queued, Enqueue(r)
  PROVE  /\ slotWaiters' \in Seq(Requests)
         /\ NoDup(slotWaiters')
         /\ Queued' = Queued \cup {r}
PROOF
<1>1. Queued = Elems(slotWaiters) /\ Queued' = Elems(slotWaiters') /\ NoDup(slotWaiters)
  BY DEF Queued, Elems, NoDup, QueueSound
<1>2. slotWaiters' = Append(slotWaiters, r)
  BY DEF Enqueue
<1> QED BY <1>1, <1>2, AppendQueue DEF PoolTypeOK

-----------------------------------------------------------------------------
(* Each step preserves the invariant *)

(* acquire() preserves the invariant, whether it takes a proxy or queues:  *)
(* an acquirer queues only when no proxy is free.                          *)
LEMMA AcquirePreserves ==
  ASSUME PoolInv, NEW r \in Requests, Acquire(r)
  PROVE  PoolInv'
PROOF
<1> USE DEF PoolInv
<1>1. slot[r] = None /\ r \notin Queued /\ r \notin woken /\ woken' = woken
  BY DEF Acquire, Waiting
<1>2. CASE Grant(r, head, busy) /\ UNCHANGED slotWaiters
  <2>1. /\ head' \in Proxies /\ busy' \in SUBSET Proxies
        /\ slot' \in [Requests -> Proxies \cup {None}]
        /\ slot'[r] # None /\ \A s \in Requests \ {r} : slot'[s] = slot[s]
        /\ Serialized'
        /\ \E p \in FreeProxies : FreeProxies' = FreeProxies \ {p}
    <3>1. busy \in SUBSET Proxies
          /\ \A p \in Proxies : p \in busy <=> \E s \in Requests \ {r} : slot[s] = p
      BY <1>1, PoolAssumption DEF Serialized, PoolTypeOK
    <3> QED BY <1>2, <3>1, GrantSerializes DEF Serialized, FreeProxies
  <2>2. PoolTypeOK'
    BY <1>1, <1>2, <2>1 DEF PoolTypeOK
  <2>3. QueueSound'
    BY <1>1, <1>2, <2>1 DEF QueueSound, Waiting, Queued, PoolTypeOK
  <2>4. NoLostWakeup'
    <3>1. PICK p \in FreeProxies : FreeProxies' = FreeProxies \ {p}
      BY <2>1
    <3>2. Cardinality(FreeProxies') <= Cardinality(FreeProxies)
      BY <3>1, GrantShrinks, Sizes DEF FreeProxies
    <3> QED BY <1>1, <1>2, <3>2, Sizes DEF NoLostWakeup, FreeProxies, PoolTypeOK
  <2> QED BY <2>1, <2>2, <2>3, <2>4
<1>3. CASE Enqueue(r)
  <2>1. /\ slotWaiters' \in Seq(Requests) /\ NoDup(slotWaiters')
        /\ Queued' = Queued \cup {r}
    BY <1>1, <1>3, EnqueueEffect
  <2>2. /\ UNCHANGED <<head, busy, slot>> /\ FreeProxies = {}
    BY <1>3 DEF Enqueue
  <2>3. PoolTypeOK'
    BY <1>1, <2>1, <2>2 DEF PoolTypeOK
  <2>4. Serialized'
    BY <2>2 DEF Serialized
  <2>5. QueueSound'
    BY <1>1, <2>1, <2>2 DEF QueueSound, Waiting, NoDup
  <2>6. NoLostWakeup'
    BY <1>1, <2>2, Sizes, FS_EmptySet DEF NoLostWakeup, FreeProxies, PoolTypeOK
  <2> QED BY <2>3, <2>4, <2>5, <2>6
<1> QED BY <1>2, <1>3 DEF Acquire

(* So does the continuation of a woken acquirer: it leaves the woken set,  *)
(* and takes one free proxy with it or finds none free.                    *)
LEMMA ResumePreserves ==
  ASSUME PoolInv, NEW r \in Requests, Resume(r)
  PROVE  PoolInv'
PROOF
<1> USE DEF PoolInv
<1>1. r \in woken /\ r \notin Queued /\ slot[r] = None /\ woken' = woken \ {r}
  BY DEF Resume, QueueSound, Waiting
<1>2. Cardinality(woken') = Cardinality(woken) - 1
  BY <1>1, Sizes, FS_RemoveElement DEF PoolTypeOK
<1>3. CASE Grant(r, head, busy) /\ UNCHANGED slotWaiters
  <2>1. /\ head' \in Proxies /\ busy' \in SUBSET Proxies
        /\ slot' \in [Requests -> Proxies \cup {None}]
        /\ slot'[r] # None /\ \A s \in Requests \ {r} : slot'[s] = slot[s]
        /\ Serialized'
        /\ \E p \in FreeProxies : FreeProxies' = FreeProxies \ {p}
    <3>1. busy \in SUBSET Proxies
          /\ \A p \in Proxies : p \in busy <=> \E s \in Requests \ {r} : slot[s] = p
      BY <1>1, PoolAssumption DEF Serialized, PoolTypeOK
    <3> QED BY <1>3, <3>1, GrantSerializes DEF Serialized, FreeProxies
  <2>2. PoolTypeOK'
    BY <1>1, <1>3, <2>1 DEF PoolTypeOK
  <2>3. QueueSound'
    BY <1>1, <1>3, <2>1 DEF QueueSound, Waiting, Queued, PoolTypeOK
  <2>4. NoLostWakeup'
    <3>1. PICK p \in FreeProxies : FreeProxies' = FreeProxies \ {p}
      BY <2>1
    <3>2. Cardinality(FreeProxies') = Cardinality(FreeProxies) - 1
      BY <3>1, GrantShrinks DEF FreeProxies
    <3> QED BY <1>2, <1>3, <3>2, Sizes DEF NoLostWakeup, FreeProxies, PoolTypeOK
  <2> QED BY <2>1, <2>2, <2>3, <2>4
<1>4. CASE Enqueue(r)
  <2>1. /\ slotWaiters' \in Seq(Requests) /\ NoDup(slotWaiters')
        /\ Queued' = Queued \cup {r}
    BY <1>1, <1>4, EnqueueEffect
  <2>2. /\ UNCHANGED <<head, busy, slot>> /\ FreeProxies = {}
    BY <1>4 DEF Enqueue
  <2>3. PoolTypeOK'
    BY <1>1, <2>1, <2>2 DEF PoolTypeOK
  <2>4. Serialized'
    BY <2>2 DEF Serialized
  <2>5. QueueSound'
    BY <1>1, <2>1, <2>2 DEF QueueSound, Waiting, NoDup
  <2>6. NoLostWakeup'
    BY <1>1, <2>2, <2>3, Sizes, FS_EmptySet DEF NoLostWakeup, FreeProxies, PoolTypeOK
  <2> QED BY <2>3, <2>4, <2>5, <2>6
<1> QED BY <1>3, <1>4 DEF Resume

(* So does release(): the proxy it frees is matched by the acquirer it     *)
(* wakes, or nobody is queued any more.                                    *)
LEMMA ReleasePreserves ==
  ASSUME PoolInv, NEW r \in Requests, Release(r)
  PROVE  PoolInv'
PROOF
<1> USE DEF PoolInv
<1> DEFINE p == slot[r]
<1>1. /\ p \in Proxies /\ p \in busy /\ r \notin Waiting
      /\ busy' = busy \ {p} /\ slot' = [slot EXCEPT ![r] = None] /\ head' = head
      /\ WakeOne
  BY DEF Release, PoolTypeOK, Serialized, QueueSound
<1>2. /\ slotWaiters' \in Seq(Requests) /\ woken' \in SUBSET Requests
      /\ NoDup(slotWaiters') /\ Queued' \cap woken' = {} /\ Waiting' = Waiting
      /\ \/ slotWaiters' = <<>>
         \/ Cardinality(woken') = Cardinality(woken) + 1
  BY <1>1, WakeOneEffect
<1>3. /\ slot'[r] = None /\ \A s \in Requests \ {r} : slot'[s] = slot[s]
  BY <1>1 DEF PoolTypeOK
<1>4. PoolTypeOK'
  BY <1>1, <1>2 DEF PoolTypeOK
<1>5. Serialized'
  <2>1. ASSUME NEW q \in Requests, NEW s \in Requests,
               slot'[q] # None, slot'[q] = slot'[s]
        PROVE  q = s
    BY <2>1, <1>3 DEF Serialized
  <2>2. ASSUME NEW q \in Proxies
        PROVE  q \in busy' <=> \E s \in Requests : slot'[s] = q
    <3>1. q # None
      BY PoolAssumption
    <3>2. CASE q = p
      BY <3>1, <3>2, <1>1, <1>3 DEF Serialized
    <3>3. CASE q # p
      BY <3>1, <3>3, <1>1, <1>3 DEF Serialized
    <3> QED BY <3>2, <3>3
  <2> QED BY <2>1, <2>2 DEF Serialized
<1>6. QueueSound'
  BY <1>1, <1>2, <1>3 DEF QueueSound, NoDup, Waiting, Queued, PoolTypeOK
<1>7. NoLostWakeup'
  <2>1. FreeProxies' = FreeProxies \cup {p} /\ p \notin FreeProxies
    BY <1>1 DEF FreeProxies
  <2>2. Cardinality(FreeProxies') = Cardinality(FreeProxies) + 1
    BY <2>1, Sizes, FS_AddElement DEF FreeProxies
  <2>3. slotWaiters' # <<>> => slotWaiters # <<>>
    BY <1>1 DEF WakeOne
  <2> QED BY <1>2, <2>2, <2>3, Sizes DEF NoLostWakeup, FreeProxies, PoolTypeOK
<1> QED BY <1>4, <1>5, <1>6, <1>7

(* So does rotateWithSlot(): it wakes one acquirer and leaves the number   *)
(* of free proxies as it was.                                              *)
LEMMA RotatePreserves ==
  ASSUME PoolInv, NEW r \in Requests, Rotate(r)
  PROVE  PoolInv'
PROOF
<1> USE DEF PoolInv
<1> DEFINE old == slot[r]
           ledger == busy \ {old}
<1>1. /\ old \in Proxies /\ old \in busy /\ r \notin Waiting
      /\ Grant(r, (head + 1) % Size, ledger) /\ WakeOne
  BY DEF Rotate, PoolTypeOK, Serialized, QueueSound
<1>2. /\ slotWaiters' \in Seq(Requests) /\ woken' \in SUBSET Requests
      /\ NoDup(slotWaiters') /\ Queued' \cap woken' = {} /\ Waiting' = Waiting
      /\ \/ slotWaiters' = <<>>
         \/ Cardinality(woken') = Cardinality(woken) + 1
  BY <1>1, WakeOneEffect
<1>3. /\ head' \in Proxies /\ busy' \in SUBSET Proxies
      /\ slot' \in [Requests -> Proxies \cup {None}]
      /\ slot'[r] # None /\ \A s \in Requests \ {r} : slot'[s] = slot[s]
      /\ Serialized'
      /\ \E p \in Proxies \ ledger : FreeProxies' = (Proxies \ ledger) \ {p}
  <2>1. ledger \in SUBSET Proxies
    BY DEF PoolTypeOK
  <2>2. ASSUME NEW p \in Proxies
        PROVE  p \in ledger <=> \E s \in Requests \ {r} : slot[s] = p
    <3>1. p # None
      BY PoolAssumption
    <3> QED BY <3>1, <1>1 DEF Serialized
  <2> QED BY <1>1, <2>1, <2>2, GrantSerializes DEF Serialized
<1>4. PoolTypeOK'
  BY <1>2, <1>3 DEF PoolTypeOK
<1>5. QueueSound'
  BY <1>1, <1>2, <1>3 DEF QueueSound, NoDup, Waiting, Queued, PoolTypeOK
<1>6. NoLostWakeup'
  <2>1. PICK p \in Proxies \ ledger : FreeProxies' = (Proxies \ ledger) \ {p}
    BY <1>3
  <2>2. Proxies \ ledger = FreeProxies \cup {old} /\ old \notin FreeProxies
    BY <1>1 DEF FreeProxies
  <2>3. Cardinality(Proxies \ ledger) = Cardinality(FreeProxies) + 1
    BY <2>2, Sizes, FS_AddElement DEF FreeProxies
  <2>4. Cardinality(FreeProxies') = Cardinality(FreeProxies)
    <3>1. Proxies \ ledger \in SUBSET Proxies /\ FreeProxies \in SUBSET Proxies
      BY DEF FreeProxies
    <3>2. Cardinality(FreeProxies') = Cardinality(Proxies \ ledger) - 1
      BY <2>1, <3>1, GrantShrinks
    <3>3. Cardinality(FreeProxies) \in Nat
      BY <3>1, Sizes
    <3> QED BY <2>3, <3>2, <3>3
  <2>5. slotWaiters' # <<>> => slotWaiters # <<>>
    BY <1>1 DEF WakeOne
  <2> QED BY <1>2, <2>4, <2>5, Sizes DEF NoLostWakeup, FreeProxies, PoolTypeOK
<1> QED BY <1>3, <1>4, <1>5, <1>6

-----------------------------------------------------------------------------
(* The theorems *)

(* The invariant holds in an empty pool.                                   *)
LEMMA PoolInvInit == PoolInit => PoolInv
PROOF
<1> SUFFICES ASSUME PoolInit PROVE PoolInv
  OBVIOUS
<1>1. PoolTypeOK
  BY PoolAssumption DEF PoolInit, PoolTypeOK, Proxies
<1>2. Serialized
  BY PoolAssumption DEF PoolInit, Serialized
<1>3. QueueSound /\ NoLostWakeup
  BY DEF PoolInit, QueueSound, NoLostWakeup, Queued, Waiting
<1> QED BY <1>1, <1>2, <1>3 DEF PoolInv

(* Every step of the pool preserves it.                                    *)
LEMMA PoolInvStep == PoolInv /\ [PoolNext]_poolVars => PoolInv'
PROOF
<1> SUFFICES ASSUME PoolInv, [PoolNext]_poolVars PROVE PoolInv'
  OBVIOUS
<1>1. ASSUME NEW r \in Requests, Acquire(r) PROVE PoolInv'
  BY <1>1, AcquirePreserves
<1>2. ASSUME NEW r \in Requests, Resume(r) PROVE PoolInv'
  BY <1>2, ResumePreserves
<1>3. ASSUME NEW r \in Requests, Release(r) PROVE PoolInv'
  BY <1>3, ReleasePreserves
<1>4. ASSUME NEW r \in Requests, Rotate(r) PROVE PoolInv'
  BY <1>4, RotatePreserves
<1>5. CASE UNCHANGED poolVars
  BY <1>5 DEF PoolInv, poolVars, PoolTypeOK, Serialized, QueueSound,
              NoLostWakeup, Queued, Waiting, FreeProxies
<1> QED BY <1>1, <1>2, <1>3, <1>4, <1>5 DEF PoolNext

(* Every reachable state of the pool satisfies the inductive invariant.    *)
THEOREM PoolInvariant == PoolSpec => []PoolInv
PROOF
<1> QED BY PoolInvInit, PoolInvStep, PTL DEF PoolSpec

(* The variables of ProxyPool keep their types (proxy-pool.ts:95-107).     *)
THEOREM PoolTypes == PoolSpec => []PoolTypeOK
PROOF
<1>1. PoolInv => PoolTypeOK
  BY DEF PoolInv
<1> QED BY <1>1, PoolInvariant, PTL

(* acquire() never gives one proxy to two requests, and the ledger leaks   *)
(* none (proxy-pool.ts:131-165), however the woken acquirers interleave.   *)
THEOREM ProxiesSerialized == PoolSpec => []Serialized
PROOF
<1>1. PoolInv => Serialized
  BY DEF PoolInv
<1> QED BY <1>1, PoolInvariant, PTL

(* release() wakes one acquirer at a time, and that is enough: no request  *)
(* stays queued beside a free proxy nobody is on its way to.               *)
THEOREM WakeupsSuffice == PoolSpec => []NoLostWakeup
PROOF
<1>1. PoolInv => NoLostWakeup
  BY DEF PoolInv
<1> QED BY <1>1, PoolInvariant, PTL

(* An acquirer is queued at most once, never while it is on its way or     *)
(* holds a proxy (proxy-pool.ts:150-154).                                  *)
THEOREM QueueStaysSound == PoolSpec => []QueueSound
PROOF
<1>1. PoolInv => QueueSound
  BY DEF PoolInv
<1> QED BY <1>1, PoolInvariant, PTL

-----------------------------------------------------------------------------
(* The pool implements the ledger *)

(* An empty pool is an empty ledger.                                       *)
LEMMA LedgerInit == PoolInit => Ledger!Init
BY DEF PoolInit, Ledger!Init, Waiting, Queued

(* In the ledger a proxy is unheld when the pool does not mark it busy.    *)
LEMMA LedgerUnheld ==
  ASSUME PoolInv, NEW p \in Proxies
  PROVE  Ledger!Unheld(p) <=> p \notin busy
BY DEF PoolInv, Serialized, Ledger!Unheld

(* A pool without a free proxy is a ledger with every proxy held.          *)
LEMMA LedgerFull ==
  ASSUME PoolInv, FreeProxies = {}
  PROVE  Ledger!AllHeld
BY LedgerUnheld DEF FreeProxies, Ledger!AllHeld

(* Every step of the pool is a step of the ledger or changes nothing that  *)
(* the ledger sees.                                                        *)
LEMMA LedgerStep == PoolInv /\ [PoolNext]_poolVars => [Ledger!Next]_(Ledger!Vars)
PROOF
<1> SUFFICES ASSUME PoolInv, [PoolNext]_poolVars
             PROVE  [Ledger!Next]_(Ledger!Vars)
  OBVIOUS
<1>1. ASSUME NEW r \in Requests, slot[r] = None,
             Waiting' = Waiting \ {r}, Grant(r, head, busy)
      PROVE  Ledger!Next
  <2>1. PICK p \in Proxies \ busy : slot' = [slot EXCEPT ![r] = p]
    BY <1>1 DEF Grant, Pick
  <2>2. Ledger!Take(r, p)
    BY <1>1, <2>1, LedgerUnheld DEF Ledger!Take
  <2> QED BY <2>2 DEF Ledger!Next
<1>2. ASSUME NEW r \in Requests, slot[r] = None,
             Waiting' = Waiting \cup {r}, Enqueue(r)
      PROVE  Ledger!Next
  <2>1. Ledger!Wait(r)
    BY <1>2, LedgerFull DEF Enqueue, Ledger!Wait
  <2> QED BY <2>1 DEF Ledger!Next
<1>3. ASSUME NEW r \in Requests, Acquire(r) PROVE Ledger!Next
  <2>1. slot[r] = None /\ r \notin Waiting /\ r \notin Queued
    BY <1>3 DEF Acquire, Waiting
  <2>2. CASE Grant(r, head, busy) /\ UNCHANGED slotWaiters
    <3>1. Waiting' = Waiting \ {r}
      BY <1>3, <2>1, <2>2 DEF Acquire, Waiting, Queued
    <3> QED BY <1>1, <2>1, <2>2, <3>1
  <2>3. CASE Enqueue(r)
    <3>1. Queued' = Queued \cup {r}
      BY <2>1, <2>3, EnqueueEffect DEF PoolInv
    <3>2. Waiting' = Waiting \cup {r}
      BY <1>3, <3>1 DEF Acquire, Waiting
    <3> QED BY <1>2, <2>1, <2>3, <3>2
  <2> QED BY <1>3, <2>2, <2>3 DEF Acquire
<1>4. ASSUME NEW r \in Requests, Resume(r) PROVE Ledger!Next
  <2>1. r \in woken /\ r \notin Queued /\ slot[r] = None /\ woken' = woken \ {r}
    BY <1>4 DEF Resume, PoolInv, QueueSound, Waiting
  <2>2. CASE Grant(r, head, busy) /\ UNCHANGED slotWaiters
    <3>1. Waiting' = Waiting \ {r}
      BY <2>1, <2>2 DEF Waiting, Queued
    <3> QED BY <1>1, <2>1, <2>2, <3>1
  <2>3. CASE Enqueue(r)
    <3>1. Queued' = Queued \cup {r}
      BY <2>1, <2>3, EnqueueEffect DEF PoolInv
    <3>2. Waiting' = Waiting \cup {r}
      BY <2>1, <3>1 DEF Waiting
    <3> QED BY <1>2, <2>1, <2>3, <3>2
  <2> QED BY <1>4, <2>2, <2>3 DEF Resume
<1>5. ASSUME NEW r \in Requests, Release(r) PROVE Ledger!Next
  <2>1. Waiting' = Waiting
    BY <1>5, WakeOneEffect DEF Release, PoolInv
  <2>2. Ledger!Free(r)
    BY <1>5, <2>1 DEF Release, Ledger!Free
  <2> QED BY <2>2 DEF Ledger!Next
<1>6. ASSUME NEW r \in Requests, Rotate(r) PROVE Ledger!Next
  <2>1. Waiting' = Waiting
    BY <1>6, WakeOneEffect DEF Rotate, PoolInv
  <2>2. PICK p \in Proxies \ (busy \ {slot[r]}) : slot' = [slot EXCEPT ![r] = p]
    BY <1>6 DEF Rotate, Grant, Pick
  <2>3. Ledger!Move(r, p)
    BY <1>6, <2>1, <2>2, LedgerUnheld DEF Rotate, Ledger!Move
  <2> QED BY <2>3 DEF Ledger!Next
<1>7. CASE UNCHANGED poolVars
  BY <1>7 DEF poolVars, Ledger!Vars, Waiting, Queued
<1> QED BY <1>3, <1>4, <1>5, <1>6, <1>7 DEF PoolNext

(* Seen without its queue and its microtasks, ProxyPool does only what     *)
(* SlotLedger allows; the ledger's progress is checked by TLC.             *)
THEOREM PoolImplementsLedger == PoolSpec => Ledger!Safety
PROOF
<1> QED BY PoolInvariant, LedgerInit, LedgerStep, PTL DEF PoolSpec, Ledger!Safety

-----------------------------------------------------------------------------
(* The retry walks                                                         *)

(* The places between the acquire and the finally block.                   *)
InSlot == {"try", "queued", "op", "remint", "cool", "refresh"}

One(b) == IF b THEN 1 ELSE 0

(* The upstream calls of q that a budget has been charged for.             *)
Charged(q) ==
  (IF RotationMode THEN q.tried + One(q.reminted) ELSE q.empties) + One(q.authed)

(* A call is out, or waits for its permit.                                 *)
UnderWay(q) == q.pc \in {"queued", "op"}

(* Where a request that holds a slot stands in its budgets.                *)
WithinBudget(q) ==
  /\ q.pc \in {"new", "wait", "try", "queued", "op", "remint"} =>
       q.tried < Size /\ q.strikes < MINT_STRIKE_MAX
  /\ q.pc \in {"new", "wait"} =>
       q.tried = 0 /\ q.empties = 0 /\ q.attempts = 0 /\ ~q.authed
  /\ q.pc = "remint" => RotationMode /\ q.reminted
  /\ q.attempts <= Charged(q)
       + One(UnderWay(q) \/ (q.pc = "refresh" /\ ~RotationMode))
  /\ RotationMode => q.attempts >= q.tried + One(UnderWay(q) \/ q.pc = "remint")
  /\ q.pc = "refresh" /\ RotationMode => q.tried >= Size
  /\ q.result = "none"

(* What a request that has ended keeps of its budgets.                     *)
EndedWithinBudget(q) ==
  /\ q.attempts <= (IF RotationMode THEN Size ELSE EmptyRetryMax) + 2
  /\ q.result = "burned" => q.attempts >= Size
  /\ q.tried = 0 /\ q.strikes = 0 /\ q.empties = 0

Budgets ==
  \A r \in Requests : IF rq[r].pc = "done" THEN EndedWithinBudget(rq[r])
                                           ELSE WithinBudget(rq[r])

(* The queue of the semaphore holds the requests that wait for it, once    *)
(* each, and a permit is never idle while one waits.                       *)
SemaphoreSound ==
  /\ NoDup(waiters)
  /\ Elems(waiters) = {r \in Requests : rq[r].pc = "queued"}
  /\ Cardinality(InCall) <= MaxConcurrency
  /\ waiters # <<>> => Cardinality(InCall) = MaxConcurrency

(* A deployment without slots is a legacy one, and nobody waits for them.  *)
SlotsSound ==
  /\ SlotPerRequest
  /\ ~slotted => ~RotationMode /\ \A r \in Requests : rq[r].pc # "wait"

RetryInv ==
  TypeOK /\ PoolInv /\ SlotsSound /\ SemaphoreSound /\ Budgets

-----------------------------------------------------------------------------
(* What an action of one request leaves of the others: their slots, their  *)
(* places in the queue of the pool, and their state, but for the one that  *)
(* is handed the permit.                                                   *)
SlotsKept(r) ==
  \A s \in Requests \ {r} : slot'[s] = slot[s] /\ (s \in Waiting' <=> s \in Waiting)

HandedOn(s) ==
  \/ rq'[s] = rq[s]
  \/ rq[s].pc = "queued" /\ rq'[s] = [rq[s] EXCEPT !.pc = "op"]

Moved(r, q) ==
  /\ rq' \in [Requests -> Request] /\ waiters' \in Seq(Requests)
  /\ rq'[r] = q
  /\ \A s \in Requests \ {r} : HandedOn(s)
  /\ SemaphoreSound'

(* r has a slot as its place demands.                                      *)
SlotFits(r) ==
  /\ slot'[r] # None <=> slotted /\ rq'[r].pc \in InSlot
  /\ r \in Waiting' <=> rq'[r].pc = "wait"

Fits(q) == IF q.pc = "done" THEN EndedWithinBudget(q) ELSE WithinBudget(q)

(* Sets of requests in a call are finite.                                  *)
LEMMA CallsFinite ==
  ASSUME NEW R \in SUBSET Requests
  PROVE  IsFiniteSet(R) /\ Cardinality(R) \in Nat
BY PoolAssumption, FS_Subset, FS_CardinalityType

(* The request that is handed a permit keeps its budgets.                  *)
LEMMA HandedOnFits ==
  ASSUME NEW q \in Request, q.pc = "queued", Fits(q)
  PROVE  Fits([q EXCEPT !.pc = "op"])
BY DEF Fits, WithinBudget, Charged, UnderWay, One, Request

(* The parts of the invariant put together, when r moves.                  *)
LEMMA Assemble ==
  ASSUME RetryInv, NEW r \in Requests, NEW q, Moved(r, q),
         PoolInv', SlotsKept(r), SlotFits(r), Fits(q),
         rq'[r].pc = "wait" => slotted,
         disabled' \in BOOLEAN, slotted' = slotted
  PROVE  RetryInv'
PROOF
<1>1. TypeOK'
  BY DEF TypeOK, Moved, PoolInv, RetryInv
<1>2. ASSUME NEW s \in Requests PROVE (SlotFits(s) /\ Fits(rq'[s])) /\ (rq'[s].pc = "wait" => slotted)
  <2>1. CASE s = r
    BY <2>1 DEF Moved
  <2>2. CASE s # r
    <3>1. /\ slot'[s] = slot[s] /\ (s \in Waiting' <=> s \in Waiting)
          /\ HandedOn(s) /\ Fits(rq[s]) /\ rq[s] \in Request
          /\ slot[s] # None <=> slotted /\ rq[s].pc \in InSlot
          /\ s \in Waiting <=> rq[s].pc = "wait"
          /\ rq[s].pc = "wait" => slotted
      BY <2>2 DEF SlotsKept, Moved, RetryInv, Budgets, Fits, TypeOK, SlotsSound,
                  SlotPerRequest, InSlot
    <3>2. CASE rq'[s] = rq[s]
      BY <3>1, <3>2 DEF SlotFits
    <3>3. CASE rq[s].pc = "queued" /\ rq'[s] = [rq[s] EXCEPT !.pc = "op"]
      <4>1. rq'[s].pc = "op"
        BY <3>1, <3>3 DEF Request
      <4> QED BY <3>1, <3>3, <4>1, HandedOnFits DEF SlotFits, InSlot
    <3> QED BY <3>1, <3>2, <3>3 DEF HandedOn
  <2> QED BY <2>1, <2>2
<1>3. SlotsSound'
  BY <1>2 DEF SlotsSound, SlotPerRequest, SlotFits, InSlot, RetryInv, RotationMode
<1>4. Budgets'
  BY <1>2 DEF Budgets, Fits, EndedWithinBudget, WithinBudget, Charged, UnderWay,
              RotationMode, One
<1> QED BY <1>1, <1>3, <1>4 DEF RetryInv, Moved

-----------------------------------------------------------------------------
(* The semaphore *)

(* A request that is not queued moves to a place outside the queue; if it  *)
(* leaves its upstream call, the first of the queue follows it.            *)
LEMMA GotoMoves ==
  ASSUME RetryInv, NEW r \in Requests, NEW pc, NEW q,
         [q EXCEPT !.pc = pc] \in Request,
         rq[r].pc # "queued", pc # "queued",
         pc = "op" => rq[r].pc = "op" \/ Cardinality(InCall) < MaxConcurrency,
         Goto(r, pc, q)
  PROVE  Moved(r, [q EXCEPT !.pc = pc])
PROOF
<1> DEFINE new == [q EXCEPT !.pc = pc]
           w == waiters
<1>1. /\ rq \in [Requests -> Request] /\ w \in Seq(Requests) /\ NoDup(w)
      /\ Elems(w) = {s \in Requests : rq[s].pc = "queued"}
      /\ Cardinality(InCall) <= MaxConcurrency
      /\ w # <<>> => Cardinality(InCall) = MaxConcurrency
      /\ InCall \in SUBSET Requests
      /\ MaxConcurrency \in Nat
  BY RetryAssumption DEF RetryInv, TypeOK, SemaphoreSound, InCall
<1>2. new.pc = pc
  BY DEF Request
<1>3. CASE HandsOn(r, pc)
  <2> DEFINE h == Head(w)
  <2>1. /\ rq[r].pc = "op" /\ pc # "op" /\ w # <<>>
        /\ rq' = [[rq EXCEPT ![r] = new] EXCEPT ![h].pc = "op"]
        /\ waiters' = Tail(w)
    BY <1>3 DEF Goto, HandsOn
  <2>2. /\ Tail(w) \in Seq(Requests) /\ NoDup(Tail(w)) /\ h \in Elems(w)
        /\ Elems(Tail(w)) = Elems(w) \ {h}
    BY <1>1, <2>1, ShiftQueue
  <2>3. h \in Requests /\ rq[h].pc = "queued" /\ h # r
    BY <1>1, <2>1, <2>2
  <2>4. /\ rq' \in [Requests -> Request] /\ rq'[r] = new
        /\ rq'[h] = [rq[h] EXCEPT !.pc = "op"]
        /\ \A s \in Requests \ {r, h} : rq'[s] = rq[s]
    <3>1. [rq[h] EXCEPT !.pc = "op"] \in Request
      BY <1>1, <2>3 DEF Request
    <3> QED BY <1>1, <2>1, <2>3, <3>1
  <2>5. rq'[h].pc = "op"
    BY <1>1, <2>3, <2>4 DEF Request
  <2>6. InCall' = (InCall \ {r}) \cup {h} /\ r \in InCall /\ h \notin InCall
    BY <1>2, <2>1, <2>3, <2>4, <2>5 DEF InCall
  <2>7. Cardinality(InCall') = Cardinality(InCall)
    <3>1. Cardinality(InCall \ {r}) = Cardinality(InCall) - 1
      BY <1>1, <2>6, CallsFinite, FS_RemoveElement
    <3>2. Cardinality(InCall') = Cardinality(InCall \ {r}) + 1
      BY <1>1, <2>6, CallsFinite, FS_AddElement
    <3> QED BY <1>1, <3>1, <3>2, CallsFinite
  <2>8. Elems(Tail(w)) = {s \in Requests : rq'[s].pc = "queued"}
    BY <1>1, <1>2, <2>1, <2>2, <2>3, <2>4, <2>5
  <2>9. SemaphoreSound'
    BY <1>1, <2>1, <2>2, <2>7, <2>8 DEF SemaphoreSound
  <2> QED BY <2>1, <2>2, <2>3, <2>4, <2>9 DEF Moved, HandedOn
<1>4. CASE ~HandsOn(r, pc)
  <2>1. rq' = [rq EXCEPT ![r] = new] /\ waiters' = w
    BY <1>4 DEF Goto
  <2>2. /\ rq' \in [Requests -> Request] /\ rq'[r] = new
        /\ \A s \in Requests \ {r} : rq'[s] = rq[s]
    BY <1>1, <2>1
  <2>3. Elems(w) = {s \in Requests : rq'[s].pc = "queued"}
    BY <1>1, <1>2, <2>2
  <2>4. /\ Cardinality(InCall') <= MaxConcurrency
        /\ w # <<>> => Cardinality(InCall') = MaxConcurrency
    <3>1. CASE rq[r].pc = "op" <=> pc = "op"
      <4>1. InCall' = InCall
        BY <1>2, <2>2, <3>1 DEF InCall
      <4> QED BY <1>1, <4>1
    <3>2. CASE rq[r].pc = "op" /\ pc # "op"
      <4>1. w = <<>> /\ InCall' = InCall \ {r} /\ r \in InCall
        BY <1>2, <1>4, <2>2, <3>2 DEF InCall, HandsOn
      <4>2. Cardinality(InCall') = Cardinality(InCall) - 1
        BY <1>1, <4>1, CallsFinite, FS_RemoveElement
      <4>3. Cardinality(InCall) \in Nat
        BY <1>1, CallsFinite
      <4> QED BY <1>1, <4>1, <4>2, <4>3
    <3>3. CASE rq[r].pc # "op" /\ pc = "op"
      <4>1. InCall' = InCall \cup {r} /\ r \notin InCall
        BY <1>2, <2>2, <3>3 DEF InCall
      <4>2. Cardinality(InCall') = Cardinality(InCall) + 1
        BY <1>1, <4>1, CallsFinite, FS_AddElement
      <4> QED BY <1>1, <3>3, <4>1, <4>2, CallsFinite
    <3> QED BY <3>1, <3>2, <3>3
  <2>5. SemaphoreSound'
    BY <1>1, <2>1, <2>3, <2>4 DEF SemaphoreSound
  <2> QED BY <1>1, <2>1, <2>2, <2>5 DEF Moved, HandedOn
<1> QED BY <1>3, <1>4

(* acquire() of the semaphore: upstream at once, or last in its queue.     *)
LEMMA UpstreamMoves ==
  ASSUME RetryInv, NEW r \in Requests, NEW q \in Request, rq[r].pc = "try",
         GoUpstream(r, q)
  PROVE  Moved(r, [q EXCEPT !.pc = "op"]) \/ Moved(r, [q EXCEPT !.pc = "queued"])
PROOF
<1>1. CASE Cardinality(InCall) < MaxConcurrency
  <2>1. [q EXCEPT !.pc = "op"] \in Request
    BY DEF Request
  <2> QED BY <1>1, <2>1, GotoMoves DEF GoUpstream
<1>2. CASE ~(Cardinality(InCall) < MaxConcurrency)
  <2> DEFINE new == [q EXCEPT !.pc = "queued"]
  <2>1. /\ rq \in [Requests -> Request] /\ waiters \in Seq(Requests) /\ NoDup(waiters)
        /\ Elems(waiters) = {s \in Requests : rq[s].pc = "queued"}
        /\ Cardinality(InCall) <= MaxConcurrency
        /\ InCall \in SUBSET Requests
        /\ MaxConcurrency \in Nat
    BY RetryAssumption DEF RetryInv, TypeOK, SemaphoreSound, InCall
  <2>2. rq' = [rq EXCEPT ![r] = new] /\ waiters' = Append(waiters, r)
    BY <1>2 DEF GoUpstream
  <2>3. new \in Request /\ new.pc = "queued"
    BY DEF Request
  <2>4. /\ rq' \in [Requests -> Request] /\ rq'[r] = new
        /\ \A s \in Requests \ {r} : rq'[s] = rq[s]
    BY <2>1, <2>2, <2>3
  <2>5. /\ waiters' \in Seq(Requests) /\ NoDup(waiters')
        /\ Elems(waiters') = Elems(waiters) \cup {r}
    BY <2>1, <2>2, AppendQueue
  <2>6. Elems(waiters') = {s \in Requests : rq'[s].pc = "queued"}
    BY <2>1, <2>3, <2>4, <2>5
  <2>7. InCall' = InCall
    BY <2>3, <2>4 DEF InCall
  <2>8. Cardinality(InCall) = MaxConcurrency
    BY <1>2, <2>1, CallsFinite
  <2>9. SemaphoreSound'
    BY <2>1, <2>5, <2>6, <2>7, <2>8 DEF SemaphoreSound
  <2> QED BY <2>4, <2>5, <2>9 DEF Moved, HandedOn
<1> QED BY <1>1, <1>2

-----------------------------------------------------------------------------
(* The pool, as one request sees it *)

(* acquire(), up to its await or after it: r has a proxy, or waits.        *)
LEMMA AcquireSlots ==
  ASSUME PoolInv, NEW r \in Requests, Acquire(r) \/ Resume(r)
  PROVE  /\ PoolInv' /\ SlotsKept(r)
         /\ r \in Waiting' <=> slot'[r] = None
PROOF
<1>1. PoolInv'
  BY AcquirePreserves, ResumePreserves
<1>2. r \notin Queued /\ slot[r] = None /\ PoolTypeOK /\ QueueSound
  BY DEF Acquire, Resume, PoolInv, QueueSound, Waiting
<1>3. r \notin woken' /\ \A s \in Requests \ {r} : s \in woken' <=> s \in woken
  BY DEF Acquire, Resume, Waiting
<1>4. CASE Grant(r, head, busy) /\ UNCHANGED slotWaiters
  <2>1. PICK p \in Proxies : slot' = [slot EXCEPT ![r] = p]
    BY <1>4 DEF Grant, Pick
  <2>2. slot'[r] # None /\ \A s \in Requests \ {r} : slot'[s] = slot[s]
    BY <1>2, <2>1, PoolAssumption DEF PoolTypeOK
  <2>3. Queued' = Queued
    BY <1>4 DEF Queued
  <2> QED BY <1>1, <1>2, <1>3, <2>2, <2>3 DEF SlotsKept, Waiting
<1>5. CASE Enqueue(r)
  <2>1. Queued' = Queued \cup {r}
    BY <1>2, <1>5, EnqueueEffect
  <2>2. slot' = slot
    BY <1>5 DEF Enqueue
  <2> QED BY <1>1, <1>2, <1>3, <2>1, <2>2 DEF SlotsKept, Waiting
<1> QED BY <1>4, <1>5 DEF Acquire, Resume

(* release(): r has no proxy any more, and nobody else's place changes.    *)
LEMMA ReleaseSlots ==
  ASSUME PoolInv, NEW r \in Requests, Release(r)
  PROVE  PoolInv' /\ SlotsKept(r) /\ slot'[r] = None /\ Waiting' = Waiting
PROOF
<1>1. PoolInv'
  BY ReleasePreserves
<1>2. slot' = [slot EXCEPT ![r] = None] /\ Waiting' = Waiting
  BY WakeOneEffect DEF Release, PoolInv
<1> QED BY <1>1, <1>2 DEF SlotsKept, PoolInv, PoolTypeOK

(* rotateWithSlot(): r still has a proxy.                                  *)
LEMMA RotateSlots ==
  ASSUME PoolInv, NEW r \in Requests, Rotate(r)
  PROVE  PoolInv' /\ SlotsKept(r) /\ slot'[r] # None /\ Waiting' = Waiting
PROOF
<1>1. PoolInv'
  BY RotatePreserves
<1>2. Waiting' = Waiting
  BY WakeOneEffect DEF Rotate, PoolInv
<1>3. PICK p \in Proxies : slot' = [slot EXCEPT ![r] = p]
  BY DEF Rotate, Grant, Pick
<1> QED BY <1>1, <1>2, <1>3, PoolAssumption DEF SlotsKept, PoolInv, PoolTypeOK

(* A step that leaves the pool alone keeps its invariant and every slot.   *)
LEMMA PoolRests ==
  ASSUME PoolInv, UNCHANGED poolVars
  PROVE  PoolInv' /\ slot' = slot /\ Waiting' = Waiting /\ \A r \in Requests : SlotsKept(r)
PROOF
<1>1. PoolInv'
  BY PoolInvStep
<1> QED BY <1>1 DEF poolVars, SlotsKept, Waiting, Queued

-----------------------------------------------------------------------------
(* The moves of a request *)

(* What is known of a request where it stands.                             *)
LEMMA Standing ==
  ASSUME RetryInv, NEW r \in Requests
  PROVE  /\ rq[r] \in Request /\ Fits(rq[r]) /\ PoolInv
         /\ slot[r] # None <=> slotted /\ rq[r].pc \in InSlot
         /\ r \in Waiting <=> rq[r].pc = "wait"
         /\ rq[r].pc = "wait" => slotted
         /\ RotationMode => slotted
         /\ disabled \in BOOLEAN /\ slotted \in BOOLEAN
BY DEF RetryInv, TypeOK, Budgets, Fits, SlotsSound, SlotPerRequest, InSlot

(* r goes from one place that holds a slot to another, and keeps the slot  *)
(* or exchanges it.                                                        *)
LEMMA StaySteps ==
  ASSUME RetryInv, NEW r \in Requests, NEW pc \in InSlot \ {"queued"}, NEW q,
         rq[r].pc \in InSlot \ {"queued"},
         [q EXCEPT !.pc = pc] \in Request, Fits([q EXCEPT !.pc = pc]),
         pc = "op" => rq[r].pc = "op",
         Goto(r, pc, q), UNCHANGED poolVars \/ Rotate(r),
         disabled' \in BOOLEAN, slotted' = slotted
  PROVE  RetryInv'
PROOF
<1> DEFINE new == [q EXCEPT !.pc = pc]
<1>1. Moved(r, new)
  BY GotoMoves DEF InSlot
<1>2. rq'[r].pc = pc
  BY <1>1 DEF Moved, Request
<1>3. /\ PoolInv' /\ SlotsKept(r) /\ Waiting' = Waiting
      /\ slot'[r] # None <=> slot[r] # None
  BY Standing, PoolRests, RotateSlots DEF Rotate
<1>4. SlotFits(r)
  BY <1>2, <1>3, Standing DEF SlotFits, InSlot
<1> QED BY <1>1, <1>2, <1>3, <1>4, Assemble DEF InSlot

(* The finally block: the slot is given back, the budgets are closed.      *)
LEMMA EndSteps ==
  ASSUME RetryInv, NEW r \in Requests, NEW result \in Results,
         rq[r].pc \in InSlot \ {"queued"},
         result = "burned" => rq[r].attempts >= Size,
         End(r, result), disabled' \in BOOLEAN, slotted' = slotted
  PROVE  RetryInv'
PROOF
<1> DEFINE q == [New EXCEPT !.result = result, !.attempts = rq[r].attempts]
           new == [q EXCEPT !.pc = "done"]
<1>0. Goto(r, "done", q) /\ IF slotted THEN Release(r) ELSE UNCHANGED poolVars
  BY DEF End
<1>1. /\ new.pc = "done" /\ new.result = result /\ new.attempts = rq[r].attempts
      /\ new.tried = 0 /\ new.strikes = 0 /\ new.empties = 0
  BY DEF New
<1>a. new \in Request
  <2>1. rq[r].attempts \in Nat
    BY Standing DEF Request
  <2>2. New \in Request
    BY PoolAssumption, RetryAssumption DEF New, Request, MINT_STRIKE_MAX, Results
  <2> QED BY <2>1, <2>2 DEF Request
<1>2. Moved(r, new)
  BY <1>0, <1>1, <1>a, GotoMoves DEF InSlot
<1>3. rq'[r].pc = "done"
  BY <1>1, <1>2 DEF Moved
<1>4. Fits(new)
  <2>1. rq[r].attempts <= (IF RotationMode THEN Size ELSE EmptyRetryMax) + 2
    BY Standing, PoolAssumption, RetryAssumption
       DEF Fits, WithinBudget, Charged, UnderWay, One, InSlot, Request
  <2> QED BY <1>1, <2>1 DEF Fits, EndedWithinBudget
<1>5. PoolInv' /\ SlotsKept(r) /\ slot'[r] = None /\ Waiting' = Waiting
  BY <1>0, Standing, ReleaseSlots, PoolRests
<1>6. SlotFits(r)
  BY <1>3, <1>5, Standing DEF SlotFits, InSlot
<1> QED BY <1>2, <1>3, <1>4, <1>5, <1>6, Assemble

(* A failure that has been counted: every budget is charged for it.        *)
Counted(q) ==
  /\ q \in Request /\ q.result = "none"
  /\ q.attempts <= Charged(q) /\ q.attempts >= q.tried

(* The cooldown after mint failures.                                       *)
LEMMA CoolDownSteps ==
  ASSUME RetryInv, NEW r \in Requests, rq[r].pc \in {"op", "remint"}, RotationMode,
         NEW q, Counted(q), CoolDown(r, q), slotted' = slotted
  PROVE  RetryInv'
PROOF
<1> DEFINE new == [q EXCEPT !.pc = "cool"]
<1>1. new \in Request /\ Fits(new)
  BY DEF Counted, Fits, WithinBudget, Charged, UnderWay, One, Request
<1>2. Goto(r, "cool", q) /\ UNCHANGED poolVars /\ disabled' = TRUE
  BY DEF CoolDown
<1> QED BY <1>1, <1>2, StaySteps DEF InSlot

(* The walk: one more proxy, or the end of it.                             *)
LEMMA WalkSteps ==
  ASSUME RetryInv, NEW r \in Requests, rq[r].pc \in {"op", "remint"}, RotationMode,
         NEW q, Counted(q), q.strikes < MINT_STRIKE_MAX, rq[r].attempts = q.attempts,
         Walk(r, q), slotted' = slotted
  PROVE  RetryInv'
PROOF
<1>1. CASE q.tried < Size
  <2> DEFINE new == [q EXCEPT !.pc = "try"]
  <2>1. new \in Request /\ Fits(new)
    BY <1>1 DEF Counted, Fits, WithinBudget, Charged, UnderWay, One, Request
  <2>2. Goto(r, "try", q) /\ Rotate(r) /\ disabled' = disabled
    BY <1>1 DEF Walk
  <2> QED BY <2>1, <2>2, StaySteps, Standing DEF InSlot
<1>2. CASE ~(q.tried < Size)
  <2> DEFINE new == [q EXCEPT !.pc = "refresh"]
  <2>1. CASE Goto(r, "refresh", q) /\ UNCHANGED <<poolVars, disabled>>
    <3>1. new \in Request /\ Fits(new)
      BY <1>2, PoolAssumption
         DEF Counted, Fits, WithinBudget, Charged, UnderWay, One, Request
    <3> QED BY <2>1, <3>1, StaySteps, Standing DEF InSlot
  <2>2. CASE MintExhausted(r)
    <3>1. End(r, "limited") /\ disabled' = TRUE
      BY <2>2 DEF MintExhausted
    <3> QED BY <3>1, EndSteps DEF InSlot, Results
  <2>3. CASE CoolDown(r, q)
    BY <2>3, CoolDownSteps
  <2> QED BY <1>2, <2>1, <2>2, <2>3 DEF Walk, GiveUp, GiveUpJson, GiveUpStream
<1> QED BY <1>1, <1>2

-----------------------------------------------------------------------------
(* Each action preserves the invariant *)

(* The acquire, at the start or after a wakeup.                            *)
LEMMA AcquireSteps ==
  ASSUME RetryInv, NEW r \in Requests, slotted, NEW q,
         rq[r].pc \in {"new", "wait"}, Acquire(r) \/ Resume(r),
         q \in Request, Fits([q EXCEPT !.pc = "wait"]), Fits([q EXCEPT !.pc = "try"]),
         Goto(r, IF slot'[r] = None THEN "wait" ELSE "try", q),
         disabled' \in BOOLEAN, slotted' = slotted
  PROVE  RetryInv'
PROOF
<1> DEFINE pc == IF slot'[r] = None THEN "wait" ELSE "try"
           new == [q EXCEPT !.pc = pc]
<1>1. new \in Request /\ Fits(new)
  BY DEF Request
<1>2. Moved(r, new)
  <2>1. pc # "queued" /\ pc # "op" /\ Goto(r, pc, q) /\ rq[r].pc # "queued"
    OBVIOUS
  <2> HIDE DEF pc
  <2> QED BY <1>1, <2>1, GotoMoves
<1>3. rq'[r].pc = pc
  BY <1>2 DEF Moved, Request
<1>4. PoolInv' /\ SlotsKept(r) /\ (r \in Waiting' <=> slot'[r] = None)
  BY Standing, AcquireSlots
<1>5. SlotFits(r)
  BY <1>3, <1>4 DEF SlotFits, InSlot
<1> QED BY <1>1, <1>2, <1>3, <1>4, <1>5, Assemble

LEMMA StartPreserves ==
  ASSUME RetryInv, NEW r \in Requests, Start(r)
  PROVE  RetryInv'
PROOF
<1>1. PICK kind \in Kinds :
        Goto(r, IF slotted /\ slot'[r] = None THEN "wait" ELSE "try",
             [rq[r] EXCEPT !.kind = kind])
  BY DEF Start
<1> DEFINE q == [rq[r] EXCEPT !.kind = kind]
<1>2. /\ rq[r].pc = "new" /\ disabled' = disabled /\ slotted' = slotted
      /\ IF slotted THEN Acquire(r) ELSE UNCHANGED poolVars
  BY DEF Start
<1>3. q \in Request
  BY Standing, RetryAssumption DEF Request
<1>4. Fits([q EXCEPT !.pc = "wait"]) /\ Fits([q EXCEPT !.pc = "try"])
  BY <1>2, Standing, PoolAssumption
     DEF Fits, WithinBudget, Charged, UnderWay, One, Request
<1>5. CASE slotted
  <2>1. /\ Goto(r, IF slot'[r] = None THEN "wait" ELSE "try", q)
        /\ Acquire(r) /\ disabled' \in BOOLEAN /\ rq[r].pc \in {"new", "wait"}
        /\ slotted' = slotted
    BY <1>1, <1>2, <1>5, Standing
  <2> HIDE DEF q
  <2> QED BY <2>1, <1>3, <1>4, <1>5, AcquireSteps
<1>6. CASE ~slotted
  <2> DEFINE new == [q EXCEPT !.pc = "try"]
  <2>1. Goto(r, "try", q) /\ UNCHANGED poolVars
    BY <1>1, <1>2, <1>6
  <2>2. new \in Request
    BY <1>3 DEF Request
  <2>3. Moved(r, new)
    BY <1>2, <2>1, <2>2, GotoMoves
  <2>4. rq'[r].pc = "try"
    BY <2>2, <2>3 DEF Moved, Request
  <2>5. SlotFits(r) /\ SlotsKept(r) /\ PoolInv'
    BY <1>2, <1>6, <2>1, <2>4, Standing, PoolRests DEF SlotFits, InSlot
  <2> QED BY <1>2, <1>4, <2>3, <2>4, <2>5, Standing, Assemble
<1> QED BY <1>5, <1>6

LEMMA WokenPreserves ==
  ASSUME RetryInv, NEW r \in Requests, Woken(r), slotted' = slotted
  PROVE  RetryInv'
PROOF
<1>1. rq[r].pc = "wait" /\ Resume(r) /\ disabled' = disabled
      /\ Goto(r, IF slot'[r] = None THEN "wait" ELSE "try", rq[r])
  BY DEF Woken
<1>2. /\ rq[r] \in Request
      /\ Fits([rq[r] EXCEPT !.pc = "wait"]) /\ Fits([rq[r] EXCEPT !.pc = "try"])
  BY <1>1, Standing, PoolAssumption
     DEF Fits, WithinBudget, Charged, UnderWay, One, Request
<1> QED BY <1>1, <1>2, Standing, AcquireSteps

LEMMA TryPreserves ==
  ASSUME RetryInv, NEW r \in Requests, Try(r), slotted' = slotted
  PROVE  RetryInv'
PROOF
<1>1. rq[r].pc = "try" /\ disabled' = disabled
  BY DEF Try
<1>2. CASE disabled /\ End(r, "exhausted")
  BY <1>1, <1>2, Standing, EndSteps DEF InSlot, Results
<1> DEFINE q == [rq[r] EXCEPT !.attempts = @ + 1]
<1>3. CASE GoUpstream(r, q) /\ UNCHANGED poolVars
  <2>1. q \in Request
    BY Standing DEF Request
  <2>2. ASSUME NEW pc \in {"queued", "op"}, Moved(r, [q EXCEPT !.pc = pc])
        PROVE  RetryInv'
    <3> DEFINE new == [q EXCEPT !.pc = pc]
    <3>1. rq'[r] = new /\ rq'[r].pc = pc
      BY <2>1, <2>2 DEF Moved, Request
    <3>2. Fits(new)
      BY <1>1, Standing, PoolAssumption, RetryAssumption
         DEF Fits, WithinBudget, Charged, UnderWay, One, Request
    <3>3. SlotFits(r) /\ SlotsKept(r) /\ PoolInv'
      BY <1>1, <1>3, <3>1, Standing, PoolRests DEF SlotFits, InSlot
    <3> QED BY <1>1, <2>2, <3>1, <3>2, <3>3, Standing, Assemble
  <2> QED BY <1>1, <1>3, <2>1, <2>2, UpstreamMoves
<1> QED BY <1>2, <1>3 DEF Try

(* Content reaches the client, or the expired token is to be replaced.     *)
LEMMA ContentPreserves ==
  ASSUME RetryInv, NEW r \in Requests, Content(r)
  PROVE  RetryInv'
PROOF
<1> DEFINE q == [rq[r] EXCEPT !.live = TRUE]
           new == [q EXCEPT !.pc = "op"]
<1>1. /\ rq[r].pc = "op" /\ Goto(r, "op", q)
      /\ UNCHANGED <<poolVars, disabled, slotted>>
  BY DEF Content
<1>2. new \in Request
  BY Standing DEF Request
<1>3. Fits(new)
  BY <1>1, Standing DEF Fits, WithinBudget, Charged, UnderWay, One, Request
<1> QED BY <1>1, <1>2, <1>3, Standing, StaySteps DEF InSlot

LEMMA AuthExpiredPreserves ==
  ASSUME RetryInv, NEW r \in Requests, AuthExpired(r), slotted' = slotted
  PROVE  RetryInv'
PROOF
<1> DEFINE q == [rq[r] EXCEPT !.authed = TRUE]
           new == [q EXCEPT !.pc = "try"]
<1>1. /\ rq[r].pc = "op" /\ ~rq[r].authed /\ Goto(r, "try", q)
      /\ UNCHANGED <<poolVars, disabled>>
  BY DEF AuthExpired
<1>2. new \in Request
  BY Standing DEF Request
<1>3. Fits(new)
  BY <1>1, Standing DEF Fits, WithinBudget, Charged, UnderWay, One, Request
<1> QED BY <1>1, <1>2, <1>3, Standing, StaySteps DEF InSlot

(* An attempt that ends the request.                                       *)
LEMMA AnswersPreserve ==
  ASSUME RetryInv, NEW r \in Requests, Succeed(r) \/ Leave(r) \/ Surface(r),
         slotted' = slotted
  PROVE  RetryInv'
PROOF
<1>1. /\ rq[r].pc = "op" /\ disabled' = disabled
      /\ End(r, "ok") \/ End(r, "left") \/ End(r, "error")
  BY DEF Succeed, Leave, Surface
<1> QED BY <1>1, Standing, EndSteps DEF InSlot, Results

(* A failed attempt, when one more proxy has been counted, and perhaps one *)
(* more mint failure.                                                      *)
LEMMA CountedFailure ==
  ASSUME RetryInv, NEW r \in Requests, rq[r].pc \in {"op", "remint"}, RotationMode
  PROVE  /\ Counted(Tried(rq[r])) /\ Counted(Struck(Tried(rq[r])))
         /\ rq[r].attempts = Tried(rq[r]).attempts
         /\ rq[r].attempts = Struck(Tried(rq[r])).attempts
         /\ Tried(rq[r]).strikes < MINT_STRIKE_MAX
         /\ rq[r].pc = "remint" => Counted(Struck(rq[r]))
PROOF
<1> DEFINE q == rq[r]
<1>1. /\ q \in Request /\ q.tried < Size /\ q.strikes < MINT_STRIKE_MAX
      /\ q.attempts <= Charged(q) + One(UnderWay(q))
      /\ q.attempts >= q.tried + 1
      /\ q.result = "none"
      /\ q.pc = "remint" => q.reminted
  BY Standing DEF Fits, WithinBudget, One, UnderWay
<1>2. /\ Tried(q) \in Request /\ Struck(Tried(q)) \in Request /\ Struck(q) \in Request
  <2>1. q.tried + 1 \in 0 .. Size /\ q.strikes + 1 \in 0 .. MINT_STRIKE_MAX
    BY <1>1, PoolAssumption DEF Request, MINT_STRIKE_MAX
  <2>2. Tried(q) \in Request /\ Tried(q).strikes = q.strikes
    BY <1>1, <2>1 DEF Tried, Request
  <2> QED BY <1>1, <2>1, <2>2 DEF Struck, Request
<1>3. /\ Counted(Tried(q)) /\ Counted(Struck(Tried(q)))
      /\ q.pc = "remint" => Counted(Struck(q))
  BY <1>1, <1>2, PoolAssumption
     DEF Counted, Charged, Tried, Struck, One, UnderWay, Request
<1> QED BY <1>1, <1>3 DEF Tried, Struck, Request

LEMMA FailuresPreserve ==
  ASSUME RetryInv, NEW r \in Requests, AttemptFails(r) \/ AttemptMintFails(r),
         slotted' = slotted
  PROVE  RetryInv'
PROOF
<1>1. rq[r].pc = "op" /\ RotationMode
  BY DEF AttemptFails, AttemptMintFails
<1>2. CASE AttemptFails(r)
  BY <1>1, <1>2, CountedFailure, WalkSteps DEF AttemptFails
<1>3. CASE AttemptMintFails(r)
  <2> DEFINE q == Struck(Tried(rq[r]))
  <2>1. CASE q.strikes >= MINT_STRIKE_MAX
    BY <1>1, <1>3, <2>1, CountedFailure, CoolDownSteps
       DEF AttemptMintFails, WalkAfterMint
  <2>2. CASE ~(q.strikes >= MINT_STRIKE_MAX)
    <3>1. q.strikes < MINT_STRIKE_MAX
      BY <1>1, <2>2, CountedFailure DEF Counted, Request, MINT_STRIKE_MAX
    <3> QED BY <1>1, <1>3, <2>2, <3>1, CountedFailure, WalkSteps
            DEF AttemptMintFails, WalkAfterMint
  <2> QED BY <2>1, <2>2
<1> QED BY <1>2, <1>3

LEMMA EmptyPreserves ==
  ASSUME RetryInv, NEW r \in Requests, EmptyRotating(r) \/ EmptyLegacy(r),
         slotted' = slotted
  PROVE  RetryInv'
PROOF
<1>1. rq[r].pc = "op"
  BY DEF EmptyRotating, EmptyLegacy
<1>2. CASE EmptyRotating(r)
  <2>1. CASE rq[r].reminted
    BY <1>1, <1>2, <2>1, CountedFailure, WalkSteps DEF EmptyRotating
  <2>2. CASE ~rq[r].reminted
    <3> DEFINE q == [rq[r] EXCEPT !.reminted = TRUE]
               new == [q EXCEPT !.pc = "remint"]
    <3>1. Goto(r, "remint", q) /\ UNCHANGED <<poolVars, disabled>> /\ RotationMode
      BY <1>2, <2>2 DEF EmptyRotating
    <3>2. new \in Request
      BY Standing DEF Request
    <3>3. Fits(new)
      BY <1>1, <2>2, <3>1, Standing
         DEF Fits, WithinBudget, Charged, UnderWay, One, Request
    <3> QED BY <1>1, <3>1, <3>2, <3>3, Standing, StaySteps DEF InSlot
  <2> QED BY <2>1, <2>2
<1>3. CASE EmptyLegacy(r)
  <2>1. CASE rq[r].empties < EmptyRetryMax
    <3> DEFINE q == [rq[r] EXCEPT !.empties = @ + 1]
               new == [q EXCEPT !.pc = "try"]
    <3>1. Goto(r, "try", q) /\ UNCHANGED <<poolVars, disabled>> /\ ~RotationMode
      BY <1>3, <2>1 DEF EmptyLegacy
    <3>2. new \in Request
      <4>1. rq[r].empties + 1 \in 0 .. EmptyRetryMax
        BY <2>1, Standing, RetryAssumption DEF Request
      <4> QED BY <4>1, Standing DEF Request
    <3>3. Fits(new)
      BY <1>1, <3>1, Standing DEF Fits, WithinBudget, Charged, UnderWay, One, Request
    <3> QED BY <1>1, <3>1, <3>2, <3>3, Standing, StaySteps DEF InSlot
  <2>2. CASE ~(rq[r].empties < EmptyRetryMax)
    <3> DEFINE new == [rq[r] EXCEPT !.pc = "refresh"]
    <3>1. /\ Goto(r, "refresh", rq[r]) /\ UNCHANGED poolVars /\ disabled' = TRUE
          /\ ~RotationMode
      BY <1>3, <2>2 DEF EmptyLegacy
    <3>2. new \in Request
      BY Standing DEF Request
    <3>3. Fits(new)
      BY <1>1, <3>1, Standing DEF Fits, WithinBudget, Charged, UnderWay, One, Request
    <3> QED BY <1>1, <3>1, <3>2, <3>3, Standing, StaySteps DEF InSlot
  <2> QED BY <2>1, <2>2
<1> QED BY <1>2, <1>3

LEMMA RemintPreserves ==
  ASSUME RetryInv, NEW r \in Requests, Reminted(r) \/ RemintFails(r),
         slotted' = slotted
  PROVE  RetryInv'
PROOF
<1>1. rq[r].pc = "remint" /\ RotationMode
  BY Standing DEF Reminted, RemintFails, Fits, WithinBudget
<1>2. CASE Reminted(r)
  <2> DEFINE q == [rq[r] EXCEPT !.strikes = 0]
             new == [q EXCEPT !.pc = "try"]
  <2>1. Goto(r, "try", q) /\ UNCHANGED <<poolVars, disabled>>
    BY <1>2 DEF Reminted
  <2>2. new \in Request
    <3>1. 0 \in 0 .. MINT_STRIKE_MAX
      BY DEF MINT_STRIKE_MAX
    <3> QED BY <3>1, Standing DEF Request
  <2>3. Fits(new)
    BY <1>1, Standing DEF Fits, WithinBudget, Charged, UnderWay, One, Request,
                          MINT_STRIKE_MAX
  <2> QED BY <1>1, <2>1, <2>2, <2>3, Standing, StaySteps DEF InSlot
<1>3. CASE RemintFails(r)
  <2>1. CASE Walk(r, Tried(rq[r]))
    BY <1>1, <2>1, CountedFailure, WalkSteps
  <2>2. CASE Struck(rq[r]).strikes >= MINT_STRIKE_MAX /\ CoolDown(r, Struck(rq[r]))
    BY <1>1, <2>2, CountedFailure, CoolDownSteps
  <2>3. CASE /\ ~(Struck(rq[r]).strikes >= MINT_STRIKE_MAX)
             /\ Walk(r, Struck(Tried(rq[r])))
    <3>1. Struck(Tried(rq[r])).strikes < MINT_STRIKE_MAX
      BY <1>1, <2>3, Standing DEF Struck, Tried, Request, MINT_STRIKE_MAX
    <3> QED BY <1>1, <2>3, <3>1, CountedFailure, WalkSteps
  <2> QED BY <1>3, <2>1, <2>2, <2>3 DEF RemintFails
<1> QED BY <1>2, <1>3

LEMMA WaitsPreserve ==
  ASSUME RetryInv, NEW r \in Requests, Cooled(r) \/ Refreshed(r), slotted' = slotted
  PROVE  RetryInv'
PROOF
<1>1. CASE Cooled(r)
  <2>1. rq[r].pc = "cool" /\ End(r, "limited") /\ disabled' = disabled
    BY <1>1 DEF Cooled
  <2> QED BY <2>1, Standing, EndSteps DEF InSlot, Results
<1>2. CASE Refreshed(r)
  <2> DEFINE result == IF RotationMode THEN "burned" ELSE "limited"
  <2>1. rq[r].pc = "refresh" /\ End(r, result) /\ disabled' = disabled
    BY <1>2 DEF Refreshed
  <2>2. result = "burned" => rq[r].attempts >= Size
    BY <2>1, Standing, PoolAssumption DEF Fits, WithinBudget, Request, UnderWay, One
  <2> QED BY <2>1, <2>2, Standing, EndSteps DEF InSlot, Results
<1> QED BY <1>1, <1>2

-----------------------------------------------------------------------------
(* The theorems *)

(* Every step of a request is one of the pool's, or leaves it alone.       *)
LEMMA RetryPoolStep == [Next]_vars => [PoolNext]_poolVars
PROOF
<1> SUFFICES ASSUME [Next]_vars PROVE [PoolNext]_poolVars
  OBVIOUS
<1> USE DEF PoolNext
<1>1. ASSUME NEW r \in Requests, NEW result, End(r, result) PROVE [PoolNext]_poolVars
  BY <1>1 DEF End
<1>2. ASSUME NEW r \in Requests, NEW q, CoolDown(r, q) \/ Walk(r, q)
      PROVE  [PoolNext]_poolVars
  BY <1>1, <1>2 DEF CoolDown, Walk, GiveUp, GiveUpJson, GiveUpStream, MintExhausted
<1>3. ASSUME NEW r \in Requests, Start(r) \/ Content(r) PROVE [PoolNext]_poolVars
  BY <1>3 DEF Start, Content
<1>4. ASSUME NEW r \in Requests, Woken(r) \/ Try(r) \/ Reminted(r)
                                 \/ Cooled(r) \/ Refreshed(r)
      PROVE  [PoolNext]_poolVars
  BY <1>1, <1>4 DEF Woken, Try, Reminted, Cooled, Refreshed
<1>5. ASSUME NEW r \in Requests, Answer(r) PROVE [PoolNext]_poolVars
  <2>1. CASE Succeed(r) \/ Leave(r) \/ Surface(r) \/ AuthExpired(r)
    BY <1>1, <2>1 DEF Succeed, Leave, Surface, AuthExpired
  <2>2. CASE AttemptFails(r) \/ AttemptMintFails(r)
    BY <1>2, <2>2 DEF AttemptFails, AttemptMintFails, WalkAfterMint
  <2>3. CASE EmptyRotating(r) \/ EmptyLegacy(r)
    BY <1>2, <2>3 DEF EmptyRotating, EmptyLegacy
  <2> QED BY <1>5, <2>1, <2>2, <2>3 DEF Answer
<1>6. ASSUME NEW r \in Requests, RemintFails(r) PROVE [PoolNext]_poolVars
  BY <1>2, <1>6 DEF RemintFails
<1>7. CASE CooldownEnds \/ Done \/ UNCHANGED vars
  BY <1>7 DEF CooldownEnds, Done, vars
<1> QED BY <1>3, <1>4, <1>5, <1>6, <1>7 DEF Next, Step

(* The retry walks use the pool as ProxyPool assumes its acquirers do:     *)
(* they never acquire while they hold or wait for a proxy, and release or  *)
(* rotate only what they hold (retry.ts, proxy-pool.ts).                   *)
THEOREM WalksUsePool == Spec => PoolSpec
PROOF
<1>1. Init => PoolInit
  BY DEF Init
<1> QED BY <1>1, RetryPoolStep, PTL DEF Spec, PoolSpec

(* So the requests as a whole implement the ledger of the proxies.         *)
THEOREM WalksImplementLedger == Spec => Ledger!Safety
PROOF
<1> QED BY WalksUsePool, PoolImplementsLedger, PTL

(* The invariant holds before the first request arrives.                   *)
LEMMA RetryInvInit == Init => RetryInv
PROOF
<1> SUFFICES ASSUME Init PROVE RetryInv
  OBVIOUS
<1>1. PoolInv
  BY PoolInvInit DEF Init
<1>2. New \in Request
  BY PoolAssumption, RetryAssumption DEF New, Request, MINT_STRIKE_MAX, Results
<1>3. /\ rq = [r \in Requests |-> New] /\ disabled = FALSE /\ waiters = <<>>
      /\ slotted \in BOOLEAN /\ (~slotted => ~RotationMode)
      /\ slot = [r \in Requests |-> None] /\ Waiting = {}
  <2>1. slotted \in BOOLEAN /\ (~slotted => ~RotationMode)
    <3>1. slotted \in IF RotationMode THEN {TRUE} ELSE BOOLEAN
      BY DEF Init
    <3>2. CASE RotationMode
      BY <3>1, <3>2
    <3>3. CASE ~RotationMode
      BY <3>1, <3>3
    <3> QED BY <3>2, <3>3
  <2>2. Waiting = {}
    BY DEF Init, PoolInit, Waiting, Queued
  <2> QED BY <2>1, <2>2 DEF Init, PoolInit
<1>4. TypeOK
  <2>1. rq \in [Requests -> Request]
    BY <1>2, <1>3
  <2>2. waiters \in Seq(Requests)
    BY <1>3
  <2>3. disabled \in BOOLEAN
    BY <1>3
  <2> QED BY <1>1, <1>3, <2>1, <2>2, <2>3 DEF TypeOK, PoolInv
<1>5. SlotsSound
  BY <1>3 DEF SlotsSound, SlotPerRequest, New
<1>6. SemaphoreSound
  <2>1. InCall = {}
    BY <1>3 DEF InCall, New
  <2>2. Elems(waiters) = {} /\ NoDup(waiters)
    BY <1>3 DEF Elems, NoDup
  <2>3. {r \in Requests : rq[r].pc = "queued"} = {}
    BY <1>3 DEF New
  <2> QED BY <1>3, <2>1, <2>2, <2>3, FS_EmptySet, RetryAssumption DEF SemaphoreSound
<1>7. Budgets
  BY <1>3, PoolAssumption
     DEF Budgets, WithinBudget, Charged, UnderWay, One, New, MINT_STRIKE_MAX
<1> QED BY <1>1, <1>4, <1>5, <1>6, <1>7 DEF RetryInv

(* Every step of every request preserves it.                               *)
LEMMA RetryInvStep == RetryInv /\ [Next]_vars => RetryInv'
PROOF
<1> SUFFICES ASSUME RetryInv, [Next]_vars PROVE RetryInv'
  OBVIOUS
<1>1. ASSUME NEW r \in Requests, Start(r) \/ Content(r) PROVE RetryInv'
  BY <1>1, StartPreserves, ContentPreserves
<1>2. ASSUME NEW r \in Requests, Step(r) PROVE RetryInv'
  BY <1>2, WokenPreserves, TryPreserves, AuthExpiredPreserves, AnswersPreserve,
     FailuresPreserve, EmptyPreserves, RemintPreserves, WaitsPreserve
     DEF Step, Answer
<1>3. CASE CooldownEnds \/ Done \/ UNCHANGED vars
  <2>1. /\ UNCHANGED <<poolVars, rq, waiters, slotted>> /\ disabled' \in BOOLEAN
    BY <1>3, PoolAssumption DEF CooldownEnds, Done, vars, RetryInv, TypeOK
  <2>2. PoolInv' /\ slot' = slot /\ Waiting' = Waiting
    BY <2>1, PoolRests DEF RetryInv
  <2>3. TypeOK' /\ SlotsSound'
    BY <2>1, <2>2 DEF RetryInv, TypeOK, PoolInv, SlotsSound, SlotPerRequest
  <2>4. SemaphoreSound' /\ Budgets'
    BY <2>1 DEF RetryInv, SemaphoreSound, InCall, Budgets
  <2> QED BY <2>2, <2>3, <2>4 DEF RetryInv
<1> QED BY <1>1, <1>2, <1>3 DEF Next

(* Every reachable state of the requests satisfies the invariant.          *)
THEOREM RetryInvariant == Spec => []RetryInv
PROOF
<1> QED BY RetryInvInit, RetryInvStep, PTL DEF Spec

(* The requests and the pool keep their types: no budget counter leaves    *)
(* its range (retry.ts).                                                   *)
THEOREM RetryTypes == Spec => []TypeOK
PROOF
<1>1. RetryInv => TypeOK
  BY DEF RetryInv
<1> QED BY <1>1, RetryInvariant, PTL

(* Whatever path a request leaves by, it holds a proxy exactly from its    *)
(* acquire to its finally block (retry.ts).                                *)
THEOREM SlotHeldThroughout == Spec => []SlotPerRequest
PROOF
<1>1. RetryInv => SlotPerRequest
  BY DEF RetryInv, SlotsSound
<1> QED BY <1>1, RetryInvariant, PTL

(* However attempts, re-mints, auth refreshes and inline retries mix, the  *)
(* budgets bound a request's upstream calls; "All proxies exhausted" means *)
(* as many attempts as proxies; and the semaphore keeps to its permits and *)
(* never holds one back from a request that waits.                         *)
THEOREM CallsWithinBudgets == Spec => []AttemptsBounded
PROOF
<1>1. ASSUME RetryInv PROVE AttemptsBounded
  <2>1. ASSUME NEW r \in Requests
        PROVE  /\ rq[r].attempts <= IF RotationMode THEN Size + 2 ELSE EmptyRetryMax + 2
               /\ rq[r].result = "burned" => rq[r].attempts >= Size
    <3>1. rq[r] \in Request /\ Fits(rq[r])
      BY <1>1, Standing
    <3>2. CASE rq[r].pc = "done"
      BY <3>1, <3>2 DEF Fits, EndedWithinBudget
    <3>3. CASE rq[r].pc # "done"
      BY <3>1, <3>3, PoolAssumption, RetryAssumption
         DEF Fits, WithinBudget, Charged, UnderWay, One, Request
    <3> QED BY <3>2, <3>3
  <2> QED BY <1>1, <2>1 DEF AttemptsBounded, RetryInv, SemaphoreSound
<1> QED BY <1>1, RetryInvariant, PTL
==============================================================================
