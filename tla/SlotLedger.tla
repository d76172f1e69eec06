------------------------------ MODULE SlotLedger ------------------------------
(***************************************************************************)
(* What the proxy pool of packages/qwen-proxy promises to the requests     *)
(* that share it, whatever its queue looks like: a proxy serves one        *)
(* request at a time, a request uses at most one proxy, a request waits    *)
(* only while every proxy is taken, and a proxy that falls free while      *)
(* requests wait is taken again.                                           *)
(***************************************************************************)
EXTENDS Naturals

CONSTANTS Requests, Proxies, None

VARIABLES
  waiting,   \* requests that asked for a proxy and have none
  slot       \* the proxy each request holds

Vars == <<waiting, slot>>

Unheld(p) == \A r \in Requests : slot[r] # p

AllHeld == \A p \in Proxies : ~Unheld(p)

Init ==
  /\ waiting = {}
  /\ slot = [r \in Requests |-> None]

Wait(r) ==
  /\ slot[r] = None /\ AllHeld
  /\ waiting' = waiting \cup {r}
  /\ UNCHANGED slot

Take(r, p) ==
  /\ slot[r] = None /\ Unheld(p)
  /\ waiting' = waiting \ {r}
  /\ slot' = [slot EXCEPT ![r] = p]

(* A rotating request gives up its proxy and takes one, perhaps the same.  *)
Move(r, p) ==
  /\ slot[r] # None /\ (Unheld(p) \/ slot[r] = p)
  /\ slot' = [slot EXCEPT ![r] = p]
  /\ UNCHANGED waiting

Free(r) ==
  /\ slot[r] # None
  /\ slot' = [slot EXCEPT ![r] = None]
  /\ UNCHANGED waiting

TakeAny == \E r \in Requests, p \in Proxies : Take(r, p)

Next == \E r \in Requests :
  \/ Wait(r) \/ Free(r)
  \/ \E p \in Proxies : Take(r, p) \/ Move(r, p)

(* A free proxy is handed out while some request waits for one.            *)
TakeForWaiter == waiting # {} /\ TakeAny

Safety == Init /\ [][Next]_Vars

Spec == Safety /\ WF_Vars(TakeForWaiter)
==============================================================================
