------------------------------- MODULE Pacing -------------------------------
(***************************************************************************)
(* RequestThrottle between the proxy slots and the upstream: a request     *)
(* that holds a slot waits for the gap since the last dispatch, and        *)
(* requests of several slots wait side by side.  The slots are those of    *)
(* ProxyPool, of which only their number matters here.                     *)
(***************************************************************************)
EXTENDS Naturals, FiniteSets, Sequences

CONSTANTS
  Requests,
  Size,      \* the slots
  Gaps,      \* the gaps the jitter can make, in clock units
  MaxClock,  \* bound: the clock
  Never      \* no dispatch yet, not asleep

ASSUME PaceAssumption ==
  /\ IsFiniteSet(Requests) /\ Size \in Nat \ {0}
  /\ Gaps \subseteq Nat /\ Never \notin Nat

VARIABLES
  clock,
  lastDispatchAt,
  holders,   \* requests with a slot
  wake,      \* when the sleep of one in waitFor ends, or Never
  dispatched \* history: the times of the last Size + 1 dispatches

paceVars == <<clock, lastDispatchAt, holders, wake, dispatched>>

PaceInit ==
  /\ clock = 0 /\ lastDispatchAt = Never /\ holders = {}
  /\ wake = [r \in Requests |-> Never] /\ dispatched = <<>>

Dispatch(r, stamp) ==
  /\ lastDispatchAt' = stamp
  /\ wake' = [wake EXCEPT ![r] = Never]
  /\ dispatched' = LET all == Append(dispatched, clock)
                   IN  IF Len(all) > Size + 1 THEN Tail(all) ELSE all

Acquire(r) ==
  /\ r \notin holders /\ Cardinality(holders) < Size
  /\ holders' = holders \cup {r}
  /\ UNCHANGED <<clock, lastDispatchAt, wake, dispatched>>

\* The start of waitFor: the last dispatch is read here, before any sleep.
\* A request that retries in its slot comes back here.
WaitFor(r) ==
  /\ r \in holders /\ wake[r] = Never
  /\ IF lastDispatchAt = Never
       THEN Dispatch(r, clock)
       ELSE \E gap \in Gaps :
              IF lastDispatchAt + gap > clock
                THEN /\ wake' = [wake EXCEPT ![r] = lastDispatchAt + gap]
                     /\ UNCHANGED <<lastDispatchAt, dispatched>>
                ELSE Dispatch(r, clock)
  /\ UNCHANGED <<clock, holders>>

\* The sleep is over, perhaps late.
WakeUpAhead(r) ==
  /\ wake[r] # Never /\ clock >= wake[r]
  /\ Dispatch(r, lastDispatchAt)
  /\ UNCHANGED <<clock, holders>>
WakeUp(r) ==
  /\ wake[r] # Never /\ clock >= wake[r]
  /\ Dispatch(r, clock)
  /\ UNCHANGED <<clock, holders>>

Release(r) ==
  /\ r \in holders /\ wake[r] = Never
  /\ holders' = holders \ {r}
  /\ UNCHANGED <<clock, lastDispatchAt, wake, dispatched>>

Tick ==
  /\ clock < MaxClock
  /\ clock' = clock + 1
  /\ UNCHANGED <<lastDispatchAt, holders, wake, dispatched>>

PaceNext ==
  \/ \E r \in Requests : Acquire(r) \/ WaitFor(r) \/ WakeUp(r) \/ Release(r)
  \/ Tick

PaceSpec == PaceInit /\ [][PaceNext]_paceVars

-----------------------------------------------------------------------------
(* Requests that read the last dispatch before one of them moves it go out *)
(* together, but no more of them than there are slots: of any Size + 1     *)
(* dispatches in a row the first and the last are a smallest gap apart.    *)
SlotsPaced ==
  Len(dispatched) = Size + 1 =>
    \E gap \in Gaps : dispatched[Size + 1] >= dispatched[1] + gap
=============================================================================
