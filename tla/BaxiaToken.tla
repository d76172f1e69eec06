------------------------------ MODULE BaxiaToken ------------------------------
(***************************************************************************)
(* BaxiaTokenManager of packages/qwen-proxy/src/upstream/baxia-token.ts:   *)
(* one guest token per proxy, minted by a headless Chromium whose traffic  *)
(* goes through the loopback bridge of proxy-bridge.ts.                    *)
(*                                                                         *)
(* The bridge has one upstream for all connections, so a token belongs to  *)
(* its proxy only if no other mint moves the upstream while it loads.      *)
(***************************************************************************)
EXTENDS Naturals, Sequences

CONSTANTS
  Callers,   \* requests, the pre-warm, retries: whoever calls ensureToken()
  Proxies,   \* proxy keys
  Direct,    \* DIRECT_KEY, the key used when there is no proxy pool
  None,
  MaxMints   \* bound: tokens minted over a behaviour

Keys == Proxies \cup {Direct}

ASSUME TokenAssumption ==
  /\ Direct \notin Proxies /\ None \notin Keys
  /\ MaxMints \in Nat

VARIABLES
  bridged,   \* setBridge() was called: the deployment rotates over proxies
  fallback,  \* SF_QWEN_BAXIA_FALLBACK
  cache,     \* proxyCache: the token of each key, and whether its TTL runs
  pending,   \* pendingByProxy: keys with a refresh in flight
  chain,     \* spawnChain: refreshes waiting for the spawn lock, in order
  phase,     \* how far the mint of each key is: "none", "locked", "started"
             \* or "open"
  knocking,  \* keys whose page has a connection the bridge is still reading
  upstream,  \* currentUpstream of the bridge
  via,       \* the egresses the page of each running mint was loaded through
  caller,    \* what each caller is doing
  minted,    \* number of tokens minted so far
  burned     \* history: tokens a caller found burned

config == <<bridged, fallback>>
vars == <<config, cache, pending, chain, phase, knocking, upstream, via, caller,
          minted, burned>>

Token == [id : 1 .. MaxMints, via : SUBSET (Keys \cup {None})]
Entry == [token : Token \cup {None}, fresh : BOOLEAN]
NoEntry == [token |-> None, fresh |-> FALSE]

Idle == [pc |-> "idle", key |-> None, token |-> None]

TypeOK ==
  /\ bridged \in BOOLEAN /\ fallback \in BOOLEAN
  /\ cache \in [Keys -> Entry]
  /\ pending \in SUBSET Keys /\ knocking \in SUBSET Keys
  /\ phase \in [Keys -> {"none", "locked", "started", "open"}]
  /\ chain \in Seq(Keys)
  /\ upstream \in Proxies \cup {None}
  /\ via \in [Keys -> SUBSET (Keys \cup {None})]
  /\ caller \in [Callers -> [pc : {"idle", "wait", "have"}, key : Keys \cup {None},
                             token : Token \cup {None}]]
  /\ minted \in 0 .. MaxMints
  /\ burned \in SUBSET Token

Init ==
  /\ bridged \in BOOLEAN /\ fallback \in BOOLEAN
  /\ cache = [k \in Keys |-> NoEntry]
  /\ pending = {} /\ chain = <<>>
  /\ phase = [k \in Keys |-> "none"] /\ knocking = {}
  /\ upstream = None
  /\ via = [k \in Keys |-> {}]
  /\ caller = [c \in Callers |-> Idle]
  /\ minted = 0
  /\ burned = {}

-----------------------------------------------------------------------------
(* The keys whose mint holds the spawn lock: one, unless it is broken.     *)
running == {k \in Keys : phase[k] # "none"}

(* The keys a deployment asks for.                                         *)
UsedKeys == IF bridged THEN Proxies ELSE {Direct}

CacheHit(k) == cache[k].token # None /\ cache[k].fresh

Have(k, token) == [pc |-> "have", key |-> k, token |-> token]

(* Broken variant, for the sensitivity checks: a refresh in flight is not  *)
(* joined.                                                                 *)
RefreshAnyway(k) == pending' = pending \cup {k} /\ chain' = Append(chain, k)

(* doRefresh(): register the refresh and queue for the spawn lock, unless  *)
(* one is in flight for the key.                                           *)
Refresh(k) ==
  IF k \in pending THEN UNCHANGED <<pending, chain>>
  ELSE pending' = pending \cup {k} /\ chain' = Append(chain, k)

(* ensureToken(): the cached token, or the result of a refresh.            *)
EnsureToken(c, k, force) ==
  IF ~force /\ CacheHit(k)
  THEN /\ caller' = [caller EXCEPT ![c] = Have(k, cache[k].token)]
       /\ UNCHANGED <<pending, chain>>
  ELSE /\ caller' = [caller EXCEPT ![c] = [pc |-> "wait", key |-> k, token |-> None]]
       /\ Refresh(k)

Ask(c) ==
  /\ caller[c].pc = "idle"
  /\ \E k \in UsedKeys, force \in BOOLEAN : EnsureToken(c, k, force)
  /\ UNCHANGED <<config, cache, phase, knocking, upstream, via, minted, burned>>

(* The refresh loop, which a bridged deployment does not start.            *)
RefreshTick ==
  /\ ~bridged
  /\ Refresh(Direct)
  /\ UNCHANGED <<config, cache, phase, knocking, upstream, via, caller, minted, burned>>

(* Broken variant: the bridge is not pointed at the proxy.                 *)
SpawnUnbridged ==
  /\ chain # <<>> /\ running = {}
  /\ LET k == Head(chain)
     IN /\ phase' = [phase EXCEPT ![k] = "locked"]
        /\ upstream' = IF upstream = None /\ bridged THEN k ELSE upstream
        /\ via' = [via EXCEPT ![k] = {}]
  /\ chain' = Tail(chain)
  /\ UNCHANGED <<config, cache, pending, knocking, caller, minted, burned>>

(* The spawn lock is free: point the bridge at the proxy.                  *)
Spawn ==
  /\ chain # <<>> /\ running = {}
  /\ LET k == Head(chain)
     IN /\ phase' = [phase EXCEPT ![k] = "locked"]
        /\ upstream' = IF bridged /\ k # Direct THEN k ELSE upstream
        /\ via' = [via EXCEPT ![k] = {}]
  /\ chain' = Tail(chain)
  /\ UNCHANGED <<config, cache, pending, knocking, caller, minted, burned>>

(* Chromium is found and started, behind the bridge's port if there is one *)
(* (findChrome, startChrome); then the page its debugger lists is attached *)
(* and navigates (cdpConnect).                                             *)
Rest == <<config, cache, pending, chain, upstream, caller, minted, burned>>

StartChrome(k) ==
  /\ phase[k] = "locked"
  /\ phase' = [phase EXCEPT ![k] = "started"]
  /\ UNCHANGED <<Rest, knocking, via>>

CdpConnect(k) ==
  /\ phase[k] = "started"
  /\ phase' = [phase EXCEPT ![k] = "open"]
  /\ UNCHANGED <<Rest, knocking, via>>

(* The page opens a connection, directly or to the bridge, which reads the *)
(* SOCKS request first (handleConnection).                                 *)
Connect(k) ==
  /\ phase[k] = "open"
  /\ IF bridged
       THEN knocking' = knocking \cup {k} /\ UNCHANGED via
       ELSE via' = [via EXCEPT ![k] = @ \cup {Direct}] /\ UNCHANGED knocking
  /\ UNCHANGED <<Rest, phase>>

(* Its upstream is the one of that moment (handleConnect).                 *)
Forward(k) ==
  /\ k \in knocking
  /\ knocking' = knocking \ {k}
  /\ via' = [via EXCEPT ![k] = @ \cup {upstream}]
  /\ UNCHANGED <<Rest, phase>>

(* Broken variant, for the sensitivity checks: a failed refresh answers    *)
(* nobody.                                                                 *)
SettleQuietly(k, entry, answer) ==
  /\ phase' = [phase EXCEPT ![k] = "none"]
  /\ knocking' = knocking \ {k}
  /\ pending' = pending \ {k}
  /\ cache' = [cache EXCEPT ![k] = entry]
  /\ caller' = [c \in Callers |->
                  IF caller[c].pc = "wait" /\ caller[c].key = k /\ answer # None
                  THEN Have(k, answer) ELSE caller[c]]
  /\ UNCHANGED <<config, chain, upstream, via, burned>>

(* The refresh of k settles: Chromium is killed and its sockets close, the *)
(* entry is written, and every caller waiting for k runs before anything   *)
(* else happens.                                                           *)
Settle(k, entry, answer) ==
  /\ phase' = [phase EXCEPT ![k] = "none"]
  /\ knocking' = knocking \ {k}
  /\ pending' = pending \ {k}
  /\ cache' = [cache EXCEPT ![k] = entry]
  /\ caller' = [c \in Callers |->
                  IF caller[c].pc = "wait" /\ caller[c].key = k
                  THEN IF answer = None THEN Idle ELSE Have(k, answer)
                  ELSE caller[c]]
  /\ UNCHANGED <<config, chain, upstream, via, burned>>

MintSucceeds(k) ==
  /\ phase[k] = "open" /\ via[k] # {} /\ minted < MaxMints
  /\ minted' = minted + 1
  /\ LET token == [id |-> minted + 1, via |-> via[k]]
     IN Settle(k, [token |-> token, fresh |-> TRUE], token)

(* No Chromium, no page, a closed socket, an error page, or no token in    *)
(* time.  The entry is kept; with fallback its token is the answer, however old.  *)
MintFails(k) ==
  /\ k \in running
  /\ Settle(k, cache[k], IF fallback THEN cache[k].token ELSE None)
  /\ UNCHANGED minted

(* The TTL of an entry runs out.                                           *)
Expire(k) ==
  /\ cache[k].fresh
  /\ cache' = [cache EXCEPT ![k].fresh = FALSE]
  /\ UNCHANGED <<config, pending, chain, phase, knocking, upstream, via, caller, minted, burned>>

(* A caller is done with its token.                                        *)
Finish(c) ==
  /\ caller[c].pc = "have"
  /\ caller' = [caller EXCEPT ![c] = Idle]
  /\ UNCHANGED <<config, cache, pending, chain, phase, knocking, upstream, via, minted, burned>>

(* Broken variant, for the sensitivity checks: the burned token stays in   *)
(* the cache.                                                              *)
BurnKeeps(c) ==
  /\ caller[c].pc = "have" /\ bridged
  /\ burned' = burned \cup {caller[c].token}
  /\ \/ EnsureToken(c, caller[c].key, TRUE)
     \/ caller' = [caller EXCEPT ![c] = Idle] /\ UNCHANGED <<pending, chain>>
  /\ UNCHANGED <<config, cache, phase, knocking, upstream, via, minted>>

(* A caller got an empty completion: evictToken(), then, once per request, *)
(* a forced refresh in the same stretch (emptyBurnStep).                   *)
Burn(c) ==
  /\ caller[c].pc = "have" /\ bridged
  /\ cache' = [cache EXCEPT ![caller[c].key] = NoEntry]
  /\ burned' = burned \cup {caller[c].token}
  /\ \/ EnsureToken(c, caller[c].key, TRUE)
     \/ caller' = [caller EXCEPT ![c] = Idle] /\ UNCHANGED <<pending, chain>>
  /\ UNCHANGED <<config, phase, knocking, upstream, via, minted>>

Next ==
  \/ \E c \in Callers : Ask(c) \/ Finish(c) \/ Burn(c)
  \/ \E k \in Keys : MintSucceeds(k) \/ MintFails(k) \/ Expire(k)
  \/ \E k \in Keys : StartChrome(k) \/ CdpConnect(k)
  \/ \E k \in Keys : Connect(k) \/ Forward(k)
  \/ RefreshTick \/ Spawn

Spec == Init /\ [][Next]_vars

(* The spawn lock is handed on.  Nothing makes a mint end: a cdp.send()    *)
(* that Chromium never answers has no timeout.                             *)
FairSpec == Spec /\ WF_vars(Spawn)

-----------------------------------------------------------------------------
(* Properties *)

(* "The token's issuing IP matches the completion's egress IP"             *)
(* (README.md:110): all traffic that minted the token of a key went        *)
(* through that key's egress, although one bridge serves every proxy.      *)
TokenAffine ==
  \A k \in Keys : cache[k].token # None => cache[k].token.via = {k}

(* At most one refresh is queued or running per key, and a key is pending  *)
(* exactly as long as its refresh is, so no caller waits for nothing.      *)
(* While a proxy's Chromium is up it is the only one, and the bridge       *)
(* points at that proxy (baxia-token.ts:572-588).                          *)
SingleFlight ==
  LET queued == {chain[i] : i \in DOMAIN chain}
  IN /\ \A i, j \in DOMAIN chain : chain[i] = chain[j] => i = j
     /\ queued \cap running = {}
     /\ pending = queued \cup running
     /\ \A k \in running : running = {k} /\ (bridged => upstream = k)
     /\ \A c \in Callers : caller[c].pc = "wait" => caller[c].key \in pending

(* A token found burned is never handed out again, not by a refresh that   *)
(* was in flight when it was evicted and then failed over to the cache.    *)
BurnedStaysOut ==
  [][\A c \in Callers : caller'[c].pc = "have" /\ caller[c] # caller'[c] =>
       caller'[c].token \notin burned]_vars

(* Unless some mint hangs, every caller of ensureToken() is answered.      *)
AnsweredUnlessMintHangs ==
  []<>(running = {}) =>
    \A c \in Callers : caller[c].pc = "wait" ~> caller[c].pc # "wait"
==============================================================================
