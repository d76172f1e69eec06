---------------------------- MODULE FinanceService ----------------------------
(***************************************************************************)
(* The finance-api process around FinanceIngest: the daemon's ticks        *)
(* (scheduler/daemon.ts, scheduler/tick.ts), POST /v1/sync and /v1/import, *)
(* its shutdown and restart (bin/finance-api.ts), and the sf_fin_sync_now  *)
(* tool of packages/finance, which keeps the provider credentials.         *)
(***************************************************************************)
EXTENDS FinanceIngest

CONSTANTS
  Daemon,      \* the run of the daemon's tick; the others are requests
  InScope,     \* the providers of each scope, in the order of the registry
  Secrets,     \* the providers the server itself has credentials for
  Imports      \* the one-shot registry of an import

ASSUME ServiceAssumption ==
  /\ Daemon \in Runs
  /\ InScope \in [SUBSET Providers -> Seq(Providers)] /\ Imports \in Seq(Providers)
  /\ Secrets \subseteq Providers

VARIABLES
  up,       \* the server process runs
  timer,    \* the daemon has armed its next tick
  config    \* what the client's config.json holds for SimpleFIN: "token" or "url"

serviceVars == <<up, timer, config>>
vars == <<ingestVars, serviceVars>>

Requests == Runs \ {Daemon}

TypeOK ==
  /\ IngestTypeOK
  /\ up \in BOOLEAN /\ timer \in BOOLEAN
  /\ config \in {"token", "url"}

Init ==
  /\ IngestInit
  /\ up = FALSE /\ timer = FALSE
  /\ config = "token"

-----------------------------------------------------------------------------
(* startDaemon: the first tick starts at once, with the server's secrets.  *)
StartServer ==
  /\ ~up
  /\ up' = TRUE
  /\ run' = [run EXCEPT ![Daemon] = Started("tick", InScope[Secrets], FALSE)]
  /\ UNCHANGED <<clock, posted, claimed, stale, mark, stored, passed, failed, spilt>>
  /\ UNCHANGED <<timer, config>>

(* The timer of the daemon's next tick fires.                              *)
TimerFires ==
  /\ up /\ timer
  /\ timer' = FALSE
  /\ run' = [run EXCEPT ![Daemon] = Started("tick", InScope[Secrets], FALSE)]
  /\ UNCHANGED <<clock, posted, claimed, stale, mark, stored, passed, failed, spilt>>
  /\ UNCHANGED <<up, config>>

(* sf_fin_sync_now: all providers or one, with the client's credentials    *)
(* on top of the server's.                                                 *)
RequestSync(r) ==
  /\ up /\ At(r, "idle")
  /\ \E scope \in {Providers} \cup {{p} : p \in Providers} :
       run' = [run EXCEPT ![r] = Started("sync", InScope[scope], config = "token")]
  /\ UNCHANGED <<clock, posted, claimed, stale, mark, stored, passed, failed, spilt>>
  /\ UNCHANGED <<up, timer, config>>

(* sf_fin_import_file: runIngest over a registry of its own, without tick. *)
RequestImport(r) ==
  /\ up /\ At(r, "idle")
  /\ run' = [run EXCEPT ![r] = Started("import", Imports, FALSE)]
  /\ UNCHANGED <<clock, posted, claimed, stale, mark, stored, passed, failed, spilt>>
  /\ UNCHANGED <<up, timer, config>>

-----------------------------------------------------------------------------
(* A tick whose providers are done waits for the prices, one fetch for     *)
(* each symbol held, and then works without a break.                       *)
Ticking(r) == At(r, "ingested") /\ run[r].kind # "import"

(* Broken variant: the daemon's tick is not caught, and nothing is armed.  *)
TickFailsUncaught(r) ==
  /\ Ticking(r)
  /\ run' = [run EXCEPT ![r] = Idle]
  /\ spilt' = (spilt \/ run[r].resolved)
  /\ UNCHANGED <<clock, posted, claimed, stale, mark, stored, passed, failed>>
  /\ UNCHANGED <<up, timer, config>>

(* The tick throws: a suggestion's id is there already (ids are made of    *)
(* the tick's start time), a goal's JSON does not parse, a query fails.  A *)
(* request answers with an error; the daemon logs it and arms the next     *)
(* tick.                                                                   *)
TickFails(r) ==
  /\ Ticking(r)
  /\ run' = [run EXCEPT ![r] = Idle]
  /\ timer' = (timer \/ r = Daemon)
  /\ spilt' = (spilt \/ run[r].resolved)
  /\ UNCHANGED <<clock, posted, claimed, stale, mark, stored, passed, failed>>
  /\ UNCHANGED <<up, config>>

(* The last price came: valuation, drift, rebalance and risk, and their    *)
(* suggestions, if any, are stored in the same turn.                       *)
TickEnds(r) ==
  /\ Ticking(r)
  /\ run' = [run EXCEPT ![r] = IF r = Daemon THEN Idle
                               ELSE [@ EXCEPT !.stage = "response"]]
  /\ timer' = (timer \/ r = Daemon)
  /\ UNCHANGED <<clock, posted, claimed, stale, mark, stored, passed, failed, spilt>>
  /\ UNCHANGED <<up, config>>

(* A response is on its way, or the import it would tell about is done.    *)
Answering(r) ==
  At(r, "response") \/ (At(r, "ingested") /\ run[r].kind = "import")

(* The client reads the response and saves a resolved access URL in place  *)
(* of the token.                                                           *)
Receive(r) ==
  /\ Answering(r)
  /\ config' = IF run[r].resolved THEN "url" ELSE config
  /\ run' = [run EXCEPT ![r] = Idle]
  /\ UNCHANGED <<clock, posted, claimed, stale, mark, stored, passed, failed, spilt>>
  /\ UNCHANGED <<up, timer>>

(* The response is lost, or the client cannot write its config: it goes on *)
(* without a word.                                                         *)
ReceiveFails(r) ==
  /\ Answering(r)
  /\ run' = [run EXCEPT ![r] = Idle]
  /\ spilt' = (spilt \/ run[r].resolved)
  /\ UNCHANGED <<clock, posted, claimed, stale, mark, stored, passed, failed>>
  /\ UNCHANGED <<up, timer, config>>

(* SIGTERM, or a crash: the process ends with whatever was under way.      *)
Shutdown ==
  /\ up
  /\ up' = FALSE /\ timer' = FALSE
  /\ run' = [r \in Runs |-> Idle]
  /\ spilt' = (spilt \/ \E r \in Runs : HasUrl(r))
  /\ failed' = {a \in failed : ~Refetching(a)}
  /\ UNCHANGED <<clock, posted, claimed, stale, mark, stored, passed>>
  /\ UNCHANGED <<config>>

-----------------------------------------------------------------------------
RunStep(r) ==
  \/ (IngestStep(r) /\ UNCHANGED serviceVars)
  \/ TickFails(r) \/ TickEnds(r)

World == (Advance \/ \E a \in Posting : Post(a)) /\ UNCHANGED serviceVars

Next ==
  \/ StartServer \/ TimerFires \/ Shutdown
  \/ \E r \in Requests :
       RequestSync(r) \/ RequestImport(r) \/ Receive(r) \/ ReceiveFails(r)
  \/ \E r \in Runs : RunStep(r)
  \/ World

Spec == Init /\ [][Next]_vars

(* The event loop goes on: a provider call of the daemon ends one way or   *)
(* the other, and its timer fires.                                         *)
FairSpec == Spec /\ WF_vars(TimerFires) /\ WF_vars(RunStep(Daemon))

-----------------------------------------------------------------------------
(* The stale mark tells the truth: an account whose last finished          *)
(* getHoldings failed is marked, unless a run has taken the mark off and   *)
(* is fetching (registry.ts:42, 80), or the process ended while one was.   *)
StaleMarkHonest == \A a \in failed : Refetching(a) \/ a \in stale

(* Once the one-time token is spent, its access URL is in the client's     *)
(* config, or in or on its way to a request that will answer.  It is lost  *)
(* in four ways only: the bridge's answer cannot be read or is no https    *)
(* URL (simplefin.ts:41-48), the tick after the sync throws, the response  *)
(* does not reach the config (tools.ts:233), or the server ends.  No       *)
(* failure of a provider, and no other run, loses it.                      *)
AccessUrlKept ==
  claimed /\ config = "token" => spilt \/ \E r \in Requests : HasUrl(r)

(* While the server stays up, the daemon ticks again and again, whatever   *)
(* fails (daemon.ts:48).                                                   *)
DaemonKeepsTicking == <>[]up => []<>(~At(Daemon, "idle"))
=============================================================================
