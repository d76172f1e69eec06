------------------------------- MODULE PoolRetry -------------------------------
(***************************************************************************)
(* withPoolRetry and withPoolRetryStream of                                *)
(* packages/qwen-proxy/src/pool/retry.ts: one completion request, its      *)
(* attempts through the proxies of a ProxyPool, its budgets, the cooldown  *)
(* of the single guest account, and the Semaphore of the guest client that *)
(* an attempt holds while it is upstream.                                  *)
(*                                                                         *)
(* A request runs in stretches between awaits; `pc` names the await it     *)
(* sits in.  What an attempt or a token mint answers is the upstream's     *)
(* choice.  Size = 1 is the legacy mode, Size > 1 the rotation mode; a     *)
(* legacy deployment may have no pool at all.                              *)
(***************************************************************************)
EXTENDS ProxyPool

CONSTANTS
  EmptyRetryMax,   \* SF_QWEN_EMPTY_RETRY_MAX
  MaxConcurrency,  \* SF_QWEN_MAX_CONCURRENCY
  Kinds            \* the kinds of request that arrive

MINT_STRIKE_MAX == 2

ASSUME RetryAssumption ==
  /\ EmptyRetryMax \in Nat /\ MaxConcurrency \in Nat \ {0}
  /\ Kinds \subseteq {"stream", "json"}

VARIABLES
  rq,       \* the state of each request
  disabled, \* the guest account is cooling down
  waiters,  \* requests waiting for the semaphore, in order
  slotted   \* there is a pool, and requests hold its slots

vars == <<poolVars, rq, disabled, waiters, slotted>>

Results == {"none", "ok", "error", "limited", "burned", "exhausted", "left"}

New == [pc |-> "new", kind |-> "json", tried |-> 0, strikes |-> 0, empties |-> 0,
        reminted |-> FALSE, authed |-> FALSE, live |-> FALSE,
        result |-> "none", attempts |-> 0]

(* `attempts` is history: how often the request went upstream.             *)
Request ==
  [pc : {"new", "wait", "try", "queued", "op", "remint", "cool", "refresh", "done"},
   kind : {"stream", "json"}, tried : 0 .. Size, strikes : 0 .. MINT_STRIKE_MAX,
   empties : 0 .. EmptyRetryMax, reminted : BOOLEAN, authed : BOOLEAN,
   live : BOOLEAN, result : Results, attempts : Nat]

RotationMode == Size > 1

TypeOK ==
  /\ PoolTypeOK /\ rq \in [Requests -> Request]
  /\ disabled \in BOOLEAN /\ slotted \in BOOLEAN
  /\ waiters \in Seq(Requests)

Init ==
  /\ PoolInit
  /\ rq = [r \in Requests |-> New]
  /\ disabled = FALSE /\ waiters = <<>>
  /\ slotted \in IF RotationMode THEN {TRUE} ELSE BOOLEAN

-----------------------------------------------------------------------------
(* Broken variant, for the sensitivity checks: the permit is free again,   *)
(* and nobody is told.                                                     *)
HandsOnToNobody(r, pc) == FALSE

(* release() of the semaphore, as r leaves its upstream call: the permit   *)
(* goes to the first that waits, which goes upstream.                      *)
HandsOn(r, pc) == rq[r].pc = "op" /\ pc # "op" /\ waiters # <<>>

Goto(r, pc, q) ==
  LET moved == [rq EXCEPT ![r] = [q EXCEPT !.pc = pc]]
  IN  IF HandsOn(r, pc)
        THEN /\ rq' = [moved EXCEPT ![Head(waiters)].pc = "op"]
             /\ waiters' = Tail(waiters)
        ELSE rq' = moved /\ UNCHANGED waiters

(* Broken variant, for the sensitivity checks: an exit path skips the      *)
(* finally block.                                                          *)
EndLeaky(r, result) ==
  /\ Goto(r, "done", [New EXCEPT !.result = result, !.attempts = rq[r].attempts])
  /\ UNCHANGED poolVars

(* Every exit path ends in the finally block that releases the slot, if    *)
(* there is one; the locals of the request are gone.                       *)
End(r, result) ==
  /\ IF slotted THEN Release(r) ELSE UNCHANGED poolVars
  /\ Goto(r, "done", [New EXCEPT !.result = result, !.attempts = rq[r].attempts])

(* A request arrives; it has a proxy, waits for one, or needs none.        *)
Start(r) ==
  /\ rq[r].pc = "new"
  /\ IF slotted THEN Acquire(r) ELSE UNCHANGED poolVars
  /\ \E kind \in Kinds :
       Goto(r, IF slotted /\ slot'[r] = None THEN "wait" ELSE "try",
            [rq[r] EXCEPT !.kind = kind])
  /\ UNCHANGED <<disabled, slotted>>

Woken(r) ==
  /\ rq[r].pc = "wait"
  /\ Resume(r)
  /\ Goto(r, IF slot'[r] = None THEN "wait" ELSE "try", rq[r])
  /\ UNCHANGED disabled

(* acquire() of the semaphore: go upstream, or wait until one leaves.      *)
InCall == {r \in Requests : rq[r].pc = "op"}

GoUpstream(r, q) ==
  IF Cardinality(InCall) < MaxConcurrency THEN Goto(r, "op", q)
  ELSE /\ rq' = [rq EXCEPT ![r] = [q EXCEPT !.pc = "queued"]]
       /\ waiters' = Append(waiters, r)

(* The top of the loop: getActiveAccount() throws while the account cools  *)
(* down; otherwise the attempt goes out through the request's proxy.       *)
Try(r) ==
  /\ rq[r].pc = "try"
  /\ \/ disabled /\ End(r, "exhausted")
     \/ /\ ~disabled
        /\ GoUpstream(r, [rq[r] EXCEPT !.attempts = @ + 1])
        /\ UNCHANGED poolVars
  /\ UNCHANGED disabled

-----------------------------------------------------------------------------
(* How an attempt may go *)

(* The first visible content of a stream reaches the client.               *)
Content(r) ==
  /\ rq[r].pc = "op" /\ rq[r].kind = "stream"
  /\ Goto(r, "op", [rq[r] EXCEPT !.live = TRUE])
  /\ UNCHANGED <<poolVars, disabled, slotted>>

Succeed(r) ==
  /\ rq[r].pc = "op" /\ (rq[r].kind = "stream" => rq[r].live)
  /\ End(r, "ok")
  /\ UNCHANGED disabled

(* The consumer of a stream stops reading at a yield.                      *)
Leave(r) ==
  /\ rq[r].pc = "op" /\ rq[r].live
  /\ End(r, "left")
  /\ UNCHANGED disabled

(* An error that is not retried, or any error once content is out.         *)
Surface(r) ==
  /\ rq[r].pc = "op"
  /\ End(r, "error")
  /\ UNCHANGED disabled

AuthExpired(r) ==
  /\ rq[r].pc = "op" /\ ~rq[r].live /\ ~rq[r].authed
  /\ Goto(r, "try", [rq[r] EXCEPT !.authed = TRUE])
  /\ UNCHANGED <<poolVars, disabled>>

(* markEmptyAndSwitch(), then the awaited cooldown sleep.                  *)
CoolDown(r, q) == disabled' = TRUE /\ Goto(r, "cool", q) /\ UNCHANGED poolVars

(* The walk is over.  Mint failures cool the account down, which a json    *)
(* request does not wait for and a stream sleeps through; otherwise the    *)
(* token is refreshed, best effort, before the request gives up.           *)
MintExhausted(r) == disabled' = TRUE /\ End(r, "limited")

GiveUpJson(r, q) ==
  IF q.strikes > 0 THEN MintExhausted(r)
  ELSE Goto(r, "refresh", q) /\ UNCHANGED <<poolVars, disabled>>

GiveUpStream(r, q) ==
  IF q.strikes > 0 THEN CoolDown(r, q)
  ELSE Goto(r, "refresh", q) /\ UNCHANGED <<poolVars, disabled>>

GiveUp(r, q) == IF q.kind = "json" THEN GiveUpJson(r, q) ELSE GiveUpStream(r, q)

(* A failure has been counted in q: rotate to another proxy, or give up.   *)
Walk(r, q) ==
  IF q.tried < Size
  THEN Rotate(r) /\ Goto(r, "try", q) /\ UNCHANGED disabled
  ELSE GiveUp(r, q)

(* The same, when the failure was a token mint.                            *)
WalkAfterMint(r, q) ==
  IF q.strikes >= MINT_STRIKE_MAX THEN CoolDown(r, q) ELSE Walk(r, q)

Tried(q)  == [q EXCEPT !.tried = @ + 1]
Struck(q) == [q EXCEPT !.strikes = @ + 1]

(* NetworkError, ServerError, ...: isRotationTrigger().                    *)
AttemptFails(r) ==
  /\ rq[r].pc = "op" /\ ~rq[r].live /\ RotationMode
  /\ Walk(r, Tried(rq[r]))

(* The attempt failed to mint its token.                                   *)
AttemptMintFails(r) ==
  /\ rq[r].pc = "op" /\ ~rq[r].live /\ RotationMode
  /\ WalkAfterMint(r, Struck(Tried(rq[r])))

(* Broken variant, for the sensitivity checks: the inline re-mint is not   *)
(* remembered.                                                             *)
EmptyRemintsAgain(r) ==
  /\ rq[r].pc = "op" /\ ~rq[r].live /\ RotationMode
  /\ IF ~rq[r].reminted
     THEN Goto(r, "remint", rq[r]) /\ UNCHANGED <<poolVars, disabled>>
     ELSE Walk(r, Tried(rq[r]))

(* An empty completion in rotation mode: the token is burned; mint it      *)
(* again once per request, then walk (emptyBurnStep).                      *)
EmptyRotating(r) ==
  /\ rq[r].pc = "op" /\ ~rq[r].live /\ RotationMode
  /\ IF ~rq[r].reminted
     THEN /\ Goto(r, "remint", [rq[r] EXCEPT !.reminted = TRUE])
          /\ UNCHANGED <<poolVars, disabled>>
     ELSE Walk(r, Tried(rq[r]))

Reminted(r) ==
  /\ rq[r].pc = "remint"
  /\ Goto(r, "try", [rq[r] EXCEPT !.strikes = 0])
  /\ UNCHANGED <<poolVars, disabled>>

RemintFails(r) ==
  /\ rq[r].pc = "remint"
  /\ \/ Walk(r, Tried(rq[r]))
     \/ IF Struck(rq[r]).strikes >= MINT_STRIKE_MAX
        THEN CoolDown(r, Struck(rq[r]))
        ELSE Walk(r, Struck(Tried(rq[r])))

(* An empty completion in legacy mode: retry inline, then cool down and    *)
(* refresh the token.                                                      *)
EmptyLegacy(r) ==
  /\ rq[r].pc = "op" /\ ~rq[r].live /\ ~RotationMode
  /\ IF rq[r].empties < EmptyRetryMax
     THEN Goto(r, "try", [rq[r] EXCEPT !.empties = @ + 1]) /\ UNCHANGED disabled
     ELSE Goto(r, "refresh", rq[r]) /\ disabled' = TRUE
  /\ UNCHANGED poolVars

(* The cooldown sleep, or the best-effort refresh, is over.                *)
Cooled(r) == rq[r].pc = "cool" /\ End(r, "limited") /\ UNCHANGED disabled

Refreshed(r) ==
  /\ rq[r].pc = "refresh"
  /\ End(r, IF RotationMode THEN "burned" ELSE "limited")
  /\ UNCHANGED disabled

(* Time passes the end of the cooldown.                                    *)
CooldownEnds ==
  disabled /\ disabled' = FALSE /\ UNCHANGED <<poolVars, rq, waiters, slotted>>

-----------------------------------------------------------------------------
Answer(r) ==
  \/ Succeed(r) \/ Leave(r) \/ Surface(r) \/ AuthExpired(r)
  \/ AttemptFails(r) \/ AttemptMintFails(r) \/ EmptyRotating(r) \/ EmptyLegacy(r)

Step(r) ==
  /\ \/ Woken(r) \/ Try(r) \/ Answer(r) \/ Reminted(r) \/ RemintFails(r)
     \/ Cooled(r) \/ Refreshed(r)
  /\ UNCHANGED slotted

Done == (\A r \in Requests : rq[r].pc = "done") /\ ~disabled /\ UNCHANGED vars

Next ==
  \/ \E r \in Requests : Start(r) \/ Content(r) \/ Step(r)
  \/ CooldownEnds \/ Done

Spec == Init /\ [][Next]_vars

(* Promise continuations run, and every await of a request ends: upstream  *)
(* calls have a TTFB timeout and a stall guard (guest-client.ts,           *)
(* stall-guard.ts), sleeps a timer.  A mint ends if Chromium answers every *)
(* cdp.send(), which has no timeout: that is assumed here.                 *)
Fairness == \A r \in Requests : WF_vars(Step(r))

FairSpec == Spec /\ Fairness

-----------------------------------------------------------------------------
(* Properties *)

(* A request holds a proxy exactly while it is between its acquire and its *)
(* finally block, whatever path it left by: no path leaks a slot, releases *)
(* it twice, or goes upstream without one.                                 *)
SlotPerRequest ==
  \A r \in Requests :
    /\ slot[r] # None <=>
         slotted /\ rq[r].pc \in {"try", "queued", "op", "remint", "cool", "refresh"}
    /\ r \in Waiting <=> rq[r].pc = "wait"

(* The budgets bound the upstream calls of a request: one per proxy, one   *)
(* after the inline re-mint and one after an auth refresh; in legacy mode  *)
(* the inline retries instead.  "All proxies exhausted" is reported only   *)
(* after as many failed attempts as there are proxies.  And of all the     *)
(* requests no more than MaxConcurrency are upstream at once, and exactly  *)
(* so many while one waits (semaphore.ts).                                 *)
AttemptsBounded ==
  /\ \A r \in Requests :
       /\ rq[r].attempts <= IF RotationMode THEN Size + 2 ELSE EmptyRetryMax + 2
       /\ rq[r].result = "burned" => rq[r].attempts >= Size
  /\ Cardinality(InCall) <= MaxConcurrency
  /\ waiters # <<>> => Cardinality(InCall) = MaxConcurrency

(* Every request that arrives is answered, however the others queue,       *)
(* rotate, fail and cool the account down.                                 *)
EveryRequestEnds ==
  \A r \in Requests : rq[r].pc # "new" ~> rq[r].pc = "done"
==============================================================================
