------------------------------ MODULE Qwen_proofs ------------------------------
(***************************************************************************)
(* Proofs about what qwen-proxy hands on.                                  *)
(*                                                                         *)
(* A token belongs to the proxy it is used with, although one bridge       *)
(* serves every proxy: the keys queue for it, and only the first's page is *)
(* up.                                                                     *)
(*                                                                         *)
(* An answer, streamed or in one piece, says what the model wrote, for any *)
(* alphabet, tags, pieces and bounds.  The adapters are functions of the   *)
(* filters' states, and these are functions of the text read so far: what  *)
(* of it can no longer be the beginning of a tag is passed on, the rest is *)
(* held back.  So an adapter follows the text, however it was cut into     *)
(* chunks; ChatInv says that it does until the answer is over.             *)
(***************************************************************************)
EXTENDS BaxiaToken, ChatStream, FiniteSetTheorems, SequenceTheorems, WellFoundedInduction, TLAPS

-----------------------------------------------------------------------------
(* The tokens *)

\* The refreshes in flight are of keys this deployment uses, and the page of
\* the one that runs has seen its own egress only.
FlightInv ==
  /\ pending \subseteq UsedKeys
  /\ knocking \subseteq running
  /\ knocking # {} => bridged
  /\ \A k \in running : via[k] \subseteq {k}

\* One of the first n tokens, minted through the egress of k.
Sound(token, k, n) == token \in Token /\ token.id \leq n /\ token.via = {k}

\* What is cached and handed out, and what was found burned.
TokenInv ==
  /\ \A k \in Keys : cache[k].token # None =>
       Sound(cache[k].token, k, minted) /\ cache[k].token \notin burned
  /\ \A c \in Callers : caller[c].pc = "have" =>
       caller[c].key \in UsedKeys /\ Sound(caller[c].token, caller[c].key, minted)
  /\ \A t \in burned : t.id \leq minted

TokensInv == TypeOK /\ SingleFlight /\ FlightInv /\ TokenInv

LEMMA UsedKeysAreKeys == UsedKeys \subseteq Keys
BY DEF UsedKeys, Keys

LEMMA TokensInitial == Init => TokensInv
<1> SUFFICES ASSUME Init PROVE TokensInv
  OBVIOUS
<1>1. /\ cache = [k \in Keys |-> NoEntry] /\ pending = {} /\ chain = <<>>
      /\ phase = [k \in Keys |-> "none"] /\ knocking = {} /\ upstream = None
      /\ via = [k \in Keys |-> {}] /\ caller = [c \in Callers |-> Idle]
      /\ minted = 0 /\ burned = {} /\ bridged \in BOOLEAN /\ fallback \in BOOLEAN
  BY DEF Init
<1>2. running = {} /\ chain \in Seq(Keys) /\ DOMAIN chain = {}
  BY <1>1 DEF running
<1>3. TypeOK
  BY <1>1, <1>2, TokenAssumption DEF TypeOK, Entry, NoEntry, Idle
<1>4. SingleFlight
  BY <1>1, <1>2 DEF SingleFlight, Idle
<1>5. FlightInv /\ TokenInv
  BY <1>1, <1>2 DEF FlightInv, TokenInv, NoEntry, Idle
<1>6. QED  BY <1>3, <1>4, <1>5 DEF TokensInv

-----------------------------------------------------------------------------
\* What the actions are made of.

\* A key that has no refresh in flight joins the chain once.
LEMMA RefreshKeeps ==
  ASSUME TokensInv, NEW k \in UsedKeys, Refresh(k), UNCHANGED <<phase, upstream, bridged>>
  PROVE  /\ pending' = pending \cup {k}
         /\ chain' \in Seq(Keys)
         /\ \A i, j \in DOMAIN chain' : chain'[i] = chain'[j] => i = j
         /\ LET queued == {chain'[i] : i \in DOMAIN chain'}
            IN queued \cap running = {} /\ pending' = queued \cup running
<1>1. /\ chain \in Seq(Keys) /\ k \in Keys
      /\ \A i, j \in DOMAIN chain : chain[i] = chain[j] => i = j
  BY UsedKeysAreKeys DEF TokensInv, TypeOK, SingleFlight
<1> DEFINE queued == {chain[i] : i \in DOMAIN chain}
<1>2. queued \cap running = {} /\ pending = queued \cup running
  BY DEF TokensInv, SingleFlight
<1>3. CASE k \in pending
  BY <1>1, <1>2, <1>3 DEF Refresh
<1>4. CASE k \notin pending
  <2>1. chain' = Append(chain, k) /\ pending' = pending \cup {k}
    BY <1>4 DEF Refresh
  <2>2. /\ chain' \in Seq(Keys) /\ Len(chain) \in Nat /\ DOMAIN chain = 1 .. Len(chain)
        /\ DOMAIN chain' = 1 .. (Len(chain) + 1)
        /\ \A i \in 1 .. Len(chain) : chain'[i] = chain[i]
        /\ chain'[Len(chain) + 1] = k
    BY <1>1, <2>1
  <2>3. {chain'[i] : i \in DOMAIN chain'} = queued \cup {k}
    BY <2>2
  <2>4. \A i \in DOMAIN chain : chain[i] # k
    BY <1>2, <1>4
  <2>5. \A i, j \in DOMAIN chain' : chain'[i] = chain'[j] => i = j
    BY <1>1, <2>2, <2>4
  <2>6. QED  BY <1>2, <1>4, <2>1, <2>2, <2>3, <2>5
<1>5. QED  BY <1>3, <1>4

\* ensureToken() by a caller that does not wait.
LEMMA EnsureKeeps ==
  ASSUME TokensInv, NEW c \in Callers, NEW k \in UsedKeys, NEW force \in BOOLEAN,
         caller[c].pc # "wait",
         EnsureToken(c, k, force),
         UNCHANGED <<bridged, fallback, phase, knocking, upstream, via, minted>>,
         cache' \in [Keys -> Entry],
         burned' \in SUBSET Token, \A t \in burned' : t.id \leq minted,
         \A l \in Keys : cache'[l].token # None =>
           cache'[l] = cache[l] /\ cache[l].token \notin burned'
  PROVE  /\ TokensInv'
         /\ caller'[c].pc = "have" => caller'[c].token \notin burned
         /\ \A d \in Callers \ {c} : caller'[d] = caller[d]
<1>1. k \in Keys /\ TypeOK
  BY UsedKeysAreKeys DEF TokensInv, TypeOK
<1>2. running' = running /\ UsedKeys' = UsedKeys
  BY DEF running, UsedKeys
<1>3. CASE CacheHit(k) /\ caller' = [caller EXCEPT ![c] = Have(k, cache[k].token)]
           /\ UNCHANGED <<pending, chain>>
  <2>1. Sound(cache[k].token, k, minted) /\ cache[k].token \notin burned
    BY <1>1, <1>3 DEF CacheHit, TokensInv, TokenInv
  <2>2. /\ caller'[c] = Have(k, cache[k].token)
        /\ \A d \in Callers \ {c} : caller'[d] = caller[d]
    BY <1>1, <1>3 DEF TypeOK
  <2>3. TypeOK'
    BY <1>1, <1>3, <2>1 DEF TypeOK, Have, Sound
  <2>4. SingleFlight' /\ FlightInv'
    BY <1>2, <1>3, <2>2 DEF TokensInv, SingleFlight, FlightInv, Have
  <2>5. TokenInv'
    BY <1>2, <2>1, <2>2 DEF TokensInv, TokenInv, Have, Sound
  <2>6. QED  BY <2>1, <2>2, <2>3, <2>4, <2>5 DEF TokensInv, Have
<1>4. CASE caller' = [caller EXCEPT ![c] = [pc |-> "wait", key |-> k, token |-> None]] /\ Refresh(k)
  <2>1. /\ caller'[c] = [pc |-> "wait", key |-> k, token |-> None]
        /\ \A d \in Callers \ {c} : caller'[d] = caller[d]
    BY <1>1, <1>4 DEF TypeOK
  <2>2. /\ pending' = pending \cup {k} /\ chain' \in Seq(Keys)
        /\ \A i, j \in DOMAIN chain' : chain'[i] = chain'[j] => i = j
        /\ LET queued == {chain'[i] : i \in DOMAIN chain'}
           IN queued \cap running = {} /\ pending' = queued \cup running
    BY <1>4, RefreshKeeps
  <2>3. TypeOK'
    BY <1>1, <1>4, <2>2 DEF TypeOK
  <2>4. SingleFlight'
    BY <1>2, <2>1, <2>2 DEF TokensInv, SingleFlight
  <2>5. FlightInv'
    BY <1>2, <2>2 DEF TokensInv, FlightInv
  <2>6. TokenInv'
    BY <1>2, <2>1 DEF TokensInv, TokenInv, Sound
  <2>7. QED  BY <2>1, <2>3, <2>4, <2>5, <2>6 DEF TokensInv
<1>5. QED  BY <1>3, <1>4 DEF EnsureToken

\* Nobody is handed a token that was found burned before.
Unburned ==
  \A c \in Callers : caller'[c].pc = "have" /\ caller[c] # caller'[c] =>
    caller'[c].token \notin burned

\* The refresh of k settles with a token, or with what the cache has.
LEMMA SettleKeeps ==
  ASSUME TokensInv, NEW k \in running, NEW entry \in Entry, NEW answer \in Token \cup {None},
         Settle(k, entry, answer), minted' \in minted .. MaxMints,
         entry.token # None => Sound(entry.token, k, minted') /\ entry.token \notin burned,
         answer # None => Sound(answer, k, minted') /\ answer \notin burned
  PROVE  TokensInv' /\ Unburned
<1>1. /\ k \in Keys /\ TypeOK /\ k \in UsedKeys /\ running = {k}
      /\ minted' \in 0 .. MaxMints /\ minted \leq minted'
  BY TokenAssumption DEF running, TokensInv, TypeOK, FlightInv, SingleFlight
<1>2. /\ phase' = [phase EXCEPT ![k] = "none"] /\ knocking' = knocking \ {k}
      /\ pending' = pending \ {k} /\ cache' = [cache EXCEPT ![k] = entry]
      /\ caller' = [c \in Callers |->
                      IF caller[c].pc = "wait" /\ caller[c].key = k
                      THEN IF answer = None THEN Idle ELSE Have(k, answer)
                      ELSE caller[c]]
      /\ UNCHANGED <<bridged, fallback, chain, upstream, via, burned>>
  BY DEF Settle, config
<1>3. running' = {} /\ UsedKeys' = UsedKeys
  BY <1>1, <1>2 DEF running, UsedKeys, TypeOK
<1>4. \A c \in Callers :
        \/ caller'[c] = caller[c] /\ ~(caller[c].pc = "wait" /\ caller[c].key = k)
        \/ caller'[c] = Idle
        \/ caller'[c] = Have(k, answer) /\ answer # None
  BY <1>2
<1>5. TypeOK'
  <2>1. phase' \in [Keys -> {"none", "locked", "started", "open"}] /\ cache' \in [Keys -> Entry]
    BY <1>1, <1>2 DEF TypeOK
  <2>2. Idle \in [pc : {"idle", "wait", "have"}, key : Keys \cup {None}, token : Token \cup {None}]
    BY DEF Idle
  <2>3. Have(k, answer) \in [pc : {"idle", "wait", "have"}, key : Keys \cup {None},
                             token : Token \cup {None}]
    BY <1>1 DEF Have
  <2>4. caller' \in [Callers -> [pc : {"idle", "wait", "have"}, key : Keys \cup {None},
                                 token : Token \cup {None}]]
    BY <1>1, <1>2, <2>2, <2>3 DEF TypeOK
  <2>5. QED  BY <1>1, <1>2, <2>1, <2>4 DEF TypeOK
<1>6. SingleFlight'
  BY <1>1, <1>2, <1>3, <1>4 DEF TokensInv, SingleFlight, Idle, Have
<1>7. FlightInv'
  BY <1>1, <1>2, <1>3 DEF TokensInv, FlightInv
<1>8. \A token, l : Sound(token, l, minted) => Sound(token, l, minted')
  BY <1>1, TokenAssumption DEF Sound, TypeOK, Token
<1>9. TokenInv'
  <2>1. ASSUME NEW l \in Keys, cache'[l].token # None
        PROVE  Sound(cache'[l].token, l, minted') /\ cache'[l].token \notin burned
    BY <1>1, <1>2, <1>8, <2>1 DEF TypeOK, TokensInv, TokenInv
  <2>2. ASSUME NEW c \in Callers, caller'[c].pc = "have"
        PROVE  caller'[c].key \in UsedKeys /\ Sound(caller'[c].token, caller'[c].key, minted')
    <3>1. CASE caller'[c] = caller[c]
      BY <1>8, <2>2, <3>1 DEF TokensInv, TokenInv
    <3>2. CASE caller'[c] = Have(k, answer) /\ answer # None
      BY <1>1, <3>2 DEF Have
    <3>3. QED  BY <1>4, <2>2, <3>1, <3>2 DEF Idle
  <2>3. \A t \in burned : t.id \leq minted'
    BY <1>1, TokenAssumption DEF TokensInv, TokenInv, TypeOK, Token
  <2>4. QED  BY <1>2, <1>3, <2>1, <2>2, <2>3 DEF TokenInv
<1>10. Unburned
  BY <1>4 DEF Unburned, Idle, Have
<1>11. QED  BY <1>5, <1>6, <1>7, <1>9, <1>10 DEF TokensInv

-----------------------------------------------------------------------------
\* The actions.

LEMMA AskKeeps ==
  ASSUME TokensInv, NEW c \in Callers, Ask(c) PROVE TokensInv' /\ Unburned
<1>1. PICK k \in UsedKeys, force \in BOOLEAN : EnsureToken(c, k, force)
  BY DEF Ask
<1>2. /\ caller[c].pc = "idle"
      /\ UNCHANGED <<bridged, fallback, cache, phase, knocking, upstream, via, minted, burned>>
  BY DEF Ask, config
<1>3. /\ cache \in [Keys -> Entry] /\ burned \in SUBSET Token
      /\ \A t \in burned : t.id \leq minted
      /\ \A l \in Keys : cache[l].token # None => cache[l].token \notin burned
  BY DEF TokensInv, TypeOK, TokenInv
<1>4. /\ TokensInv'
      /\ caller'[c].pc = "have" => caller'[c].token \notin burned
      /\ \A d \in Callers \ {c} : caller'[d] = caller[d]
  BY <1>1, <1>2, <1>3, EnsureKeeps
<1>5. QED  BY <1>4 DEF Unburned

\* A burned token leaves the cache it came from, and it is in no other: its page
\* was loaded through one egress.
LEMMA BurningKeeps ==
  ASSUME TokensInv, NEW c \in Callers, Burn(c) PROVE TokensInv' /\ Unburned
<1> DEFINE k == caller[c].key
<1>1. /\ TypeOK /\ caller[c].pc = "have" /\ k \in UsedKeys /\ k \in Keys
      /\ Sound(caller[c].token, k, minted)
      /\ cache' = [cache EXCEPT ![k] = NoEntry] /\ burned' = burned \cup {caller[c].token}
      /\ UNCHANGED <<bridged, fallback, phase, knocking, upstream, via, minted>>
  BY UsedKeysAreKeys DEF Burn, TokensInv, TokenInv, config
<1>2. /\ cache' \in [Keys -> Entry] /\ burned' \in SUBSET Token
      /\ \A t \in burned' : t.id \leq minted
  BY <1>1 DEF TypeOK, Entry, NoEntry, Sound, TokensInv, TokenInv
<1>3. \A l \in Keys : cache'[l].token # None =>
        l # k /\ cache'[l] = cache[l] /\ cache[l].token # caller[c].token
                /\ cache[l].token \notin burned
  <2> TAKE l \in Keys
  <2>1. CASE l = k
    BY <1>1, <2>1 DEF TypeOK, NoEntry
  <2>2. CASE l # k
    <3>1. cache'[l] = cache[l]
      BY <1>1, <2>2 DEF TypeOK
    <3>2. cache[l].token # None => Sound(cache[l].token, l, minted) /\ cache[l].token \notin burned
      BY DEF TokensInv, TokenInv
    <3>3. QED  BY <1>1, <2>2, <3>1, <3>2 DEF Sound
  <2>3. QED  BY <2>1, <2>2
<1>4. CASE EnsureToken(c, k, TRUE)
  <2>1. /\ TokensInv'
        /\ caller'[c].pc = "have" => caller'[c].token \notin burned
        /\ \A d \in Callers \ {c} : caller'[d] = caller[d]
    BY <1>1, <1>2, <1>3, <1>4, EnsureKeeps
  <2>2. QED  BY <2>1 DEF Unburned
<1>5. CASE caller' = [caller EXCEPT ![c] = Idle] /\ UNCHANGED <<pending, chain>>
  <2>1. caller'[c] = Idle /\ \A d \in Callers \ {c} : caller'[d] = caller[d]
    BY <1>1, <1>5 DEF TypeOK
  <2>2. TypeOK'
    BY <1>1, <1>2, <1>5 DEF TypeOK, Idle
  <2>3. running' = running /\ UsedKeys' = UsedKeys
    BY <1>1 DEF running, UsedKeys
  <2>4. SingleFlight' /\ FlightInv'
    BY <1>1, <1>5, <2>1, <2>3 DEF TokensInv, SingleFlight, FlightInv, Idle
  <2>5. TokenInv'
    BY <1>1, <1>2, <1>3, <2>1, <2>3 DEF TokensInv, TokenInv, Sound, Idle
  <2>6. QED  BY <2>1, <2>2, <2>4, <2>5 DEF TokensInv, Unburned, Idle
<1>6. QED  BY <1>1, <1>4, <1>5 DEF Burn

LEMMA TickKeeps == ASSUME TokensInv, RefreshTick PROVE TokensInv' /\ Unburned
<1>1. /\ Direct \in UsedKeys /\ Refresh(Direct)
      /\ UNCHANGED <<bridged, fallback, cache, phase, knocking, upstream, via, caller,
                     minted, burned>>
  BY DEF RefreshTick, UsedKeys, config
<1>2. /\ pending' = pending \cup {Direct} /\ chain' \in Seq(Keys)
      /\ \A i, j \in DOMAIN chain' : chain'[i] = chain'[j] => i = j
      /\ LET queued == {chain'[i] : i \in DOMAIN chain'}
         IN queued \cap running = {} /\ pending' = queued \cup running
  BY <1>1, RefreshKeeps
<1>3. running' = running /\ UsedKeys' = UsedKeys
  BY <1>1 DEF running, UsedKeys
<1>4. TypeOK'
  BY <1>1, <1>2 DEF TokensInv, TypeOK, Keys
<1>5. SingleFlight' /\ FlightInv'
  BY <1>1, <1>2, <1>3 DEF TokensInv, SingleFlight, FlightInv
<1>6. TokenInv' /\ Unburned
  BY <1>1, <1>3 DEF TokensInv, TokenInv, Sound, Unburned
<1>7. QED  BY <1>4, <1>5, <1>6 DEF TokensInv

\* The first key of the chain gets the bridge.
LEMMA SpawnKeeps == ASSUME TokensInv, Spawn PROVE TokensInv' /\ Unburned
<1> DEFINE k == Head(chain)
<1>1. /\ chain # <<>> /\ running = {} /\ chain' = Tail(chain)
      /\ phase' = [phase EXCEPT ![k] = "locked"]
      /\ upstream' = IF bridged /\ k # Direct THEN k ELSE upstream
      /\ via' = [via EXCEPT ![k] = {}]
      /\ UNCHANGED <<bridged, fallback, cache, pending, knocking, caller, minted, burned>>
  BY DEF Spawn, config
<1>2. /\ chain \in Seq(Keys) /\ Len(chain) \in Nat /\ Len(chain) > 0 /\ k = chain[1]
      /\ DOMAIN chain = 1 .. Len(chain) /\ DOMAIN chain' = 1 .. (Len(chain) - 1)
      /\ chain' \in Seq(Keys) /\ \A i \in DOMAIN chain' : chain'[i] = chain[i + 1]
  BY <1>1 DEF TokensInv, TypeOK
<1>3. /\ \A i, j \in DOMAIN chain : chain[i] = chain[j] => i = j
      /\ pending = {chain[i] : i \in DOMAIN chain}
  BY <1>1 DEF TokensInv, SingleFlight
<1>4. k \in pending /\ k \in Keys /\ k \in UsedKeys
  BY <1>2, <1>3, UsedKeysAreKeys DEF TokensInv, FlightInv
<1>5. {chain'[i] : i \in DOMAIN chain'} = pending \ {k}
  <2>1. ASSUME NEW x \in pending, x # k PROVE \E i \in DOMAIN chain' : x = chain'[i]
    <3>1. PICK i \in DOMAIN chain : x = chain[i]
      BY <1>3, <2>1
    <3>2. i \in 1 .. Len(chain) /\ i # 1
      BY <1>2, <2>1, <3>1
    <3>3. i - 1 \in DOMAIN chain' /\ chain'[i - 1] = chain[i]
      BY <1>2, <3>2
    <3>4. QED  BY <3>1, <3>3
  <2>2. ASSUME NEW i \in DOMAIN chain' PROVE chain'[i] \in pending \ {k}
    <3>1. i + 1 \in DOMAIN chain /\ 1 \in DOMAIN chain /\ i + 1 # 1
      BY <1>2
    <3>2. QED  BY <1>2, <1>3, <3>1
  <2>3. QED  BY <2>1, <2>2
<1>6. \A i, j \in DOMAIN chain' : chain'[i] = chain'[j] => i = j
  <2> TAKE i, j \in DOMAIN chain'
  <2>1. i \in Nat /\ j \in Nat /\ i + 1 \in DOMAIN chain /\ j + 1 \in DOMAIN chain
    BY <1>2
  <2>2. QED  BY <1>2, <1>3, <2>1
<1> HIDE DEF k
<1>7. running' = {k} /\ UsedKeys' = UsedKeys
  BY <1>1, <1>4 DEF running, UsedKeys, TokensInv, TypeOK
<1>8. upstream' \in Proxies \cup {None} /\ (bridged => upstream' = k)
  BY <1>1, <1>4, TokenAssumption DEF UsedKeys, TokensInv, TypeOK
<1>9. TypeOK'
  BY <1>1, <1>2, <1>4, <1>8 DEF TokensInv, TypeOK
<1>10. SingleFlight'
  BY <1>1, <1>4, <1>5, <1>6, <1>7, <1>8 DEF TokensInv, SingleFlight
<1>11. FlightInv'
  BY <1>1, <1>4, <1>7 DEF TokensInv, TypeOK, FlightInv
<1>12. TokenInv' /\ Unburned
  BY <1>1, <1>7 DEF TokensInv, TokenInv, Sound, Unburned
<1>13. QED  BY <1>9, <1>10, <1>11, <1>12 DEF TokensInv

\* The page of the running mint goes on: what it has seen is its own egress.
LEMMA PageKeeps ==
  ASSUME TokensInv, NEW k \in running, phase' \in [Keys -> {"none", "locked", "started", "open"}],
         running' = running, knocking' \subseteq running, knocking' # {} => bridged,
         via' = [via EXCEPT ![k] = via'[k]],
         via'[k] \subseteq {k}, UNCHANGED Rest
  PROVE  TokensInv' /\ Unburned
<1>1. /\ TypeOK /\ k \in Keys /\ running = {k} /\ running \subseteq Keys
      /\ UNCHANGED <<bridged, fallback, cache, pending, chain, upstream, caller, minted, burned>>
  BY DEF TokensInv, SingleFlight, running, Rest, config
<1>2. UsedKeys' = UsedKeys
  BY <1>1 DEF UsedKeys
<1>3. TypeOK'
  BY <1>1 DEF TypeOK
<1>4. SingleFlight' /\ FlightInv'
  BY <1>1, <1>2 DEF TokensInv, SingleFlight, FlightInv
<1>5. TokenInv' /\ Unburned
  BY <1>1, <1>2 DEF TokensInv, TokenInv, Sound, Unburned
<1>6. QED  BY <1>3, <1>4, <1>5 DEF TokensInv

LEMMA BrowserKeeps ==
  ASSUME TokensInv, NEW k \in Keys,
         StartChrome(k) \/ CdpConnect(k) \/ Connect(k) \/ Forward(k)
  PROVE  TokensInv' /\ Unburned
<1>1. TypeOK /\ knocking \subseteq running /\ (knocking # {} => bridged)
  BY DEF TokensInv, FlightInv
<1>2. k \in running
  BY <1>1 DEF running, StartChrome, CdpConnect, Connect, Forward
<1>3. running = {k} /\ via[k] \subseteq {k} /\ k \in UsedKeys /\ (bridged => upstream = k)
  BY <1>2 DEF TokensInv, SingleFlight, FlightInv
<1>4. CASE StartChrome(k) \/ CdpConnect(k)
  <2>1. PICK next \in {"started", "open"} : phase' = [phase EXCEPT ![k] = next]
    BY <1>4 DEF StartChrome, CdpConnect
  <2>2. phase' \in [Keys -> {"none", "locked", "started", "open"}] /\ running' = running
    BY <1>1, <1>2, <2>1 DEF TypeOK, running
  <2>3. UNCHANGED <<Rest, knocking, via>> /\ via' = [via EXCEPT ![k] = via'[k]]
    BY <1>1, <1>4 DEF StartChrome, CdpConnect, TypeOK
  <2>4. QED  BY <1>1, <1>2, <1>3, <2>2, <2>3, PageKeeps
<1>5. CASE Connect(k) \/ Forward(k)
  <2>1. UNCHANGED <<Rest, phase>> /\ running' = running /\ phase' \in [Keys -> {"none", "locked", "started", "open"}]
    BY <1>1, <1>5 DEF Connect, Forward, running, TypeOK
  <2>2. knocking' \subseteq running /\ (knocking' # {} => bridged)
    BY <1>1, <1>2, <1>5 DEF Connect, Forward
  <2>3. via' = [via EXCEPT ![k] = via'[k]] /\ via'[k] \subseteq {k}
    <3>1. CASE Connect(k) /\ bridged
      BY <1>1, <1>3, <3>1 DEF Connect, TypeOK
    <3>2. CASE Connect(k) /\ ~bridged
      BY <1>1, <1>3, <3>2 DEF Connect, TypeOK, UsedKeys
    <3>3. CASE Forward(k)
      <4>1. bridged
        BY <1>1, <3>3 DEF Forward
      <4>2. QED  BY <1>1, <1>3, <3>3, <4>1 DEF Forward, TypeOK
    <3>4. QED  BY <1>5, <3>1, <3>2, <3>3
  <2>4. QED  BY <1>2, <2>1, <2>2, <2>3, PageKeeps
<1>6. QED  BY <1>4, <1>5

LEMMA MintKeeps ==
  ASSUME TokensInv, NEW k \in Keys, MintSucceeds(k) \/ MintFails(k)
  PROVE  TokensInv' /\ Unburned
<1>1. TypeOK /\ minted \in 0 .. MaxMints /\ MaxMints \in Nat
  BY TokenAssumption DEF TokensInv, TypeOK
<1>2. CASE MintSucceeds(k)
  <2> DEFINE token == [id |-> minted + 1, via |-> via[k]]
  <2>1. /\ k \in running /\ via[k] # {} /\ minted < MaxMints /\ minted' = minted + 1
        /\ Settle(k, [token |-> token, fresh |-> TRUE], token)
    BY <1>2 DEF MintSucceeds, running
  <2>2. via[k] = {k}
    BY <2>1 DEF TokensInv, FlightInv
  <2>3. token \in Token /\ [token |-> token, fresh |-> TRUE] \in Entry
    BY <1>1, <2>1, <2>2 DEF Token, Entry
  <2>4. Sound(token, k, minted')
    BY <1>1, <2>1, <2>2, <2>3 DEF Sound
  <2>5. token \notin burned
    <3>1. \A t \in burned : t.id \leq minted
      BY DEF TokensInv, TokenInv
    <3>2. token.id = minted + 1
      OBVIOUS
    <3>3. QED  BY <1>1, <3>1, <3>2
  <2>6. minted' \in minted .. MaxMints
    BY <1>1, <2>1
  <2> HIDE DEF token
  <2>7. QED  BY <2>1, <2>3, <2>4, <2>5, <2>6, SettleKeeps
<1>3. CASE MintFails(k)
  <2> DEFINE answer == IF fallback THEN cache[k].token ELSE None
  <2>1. k \in running /\ minted' = minted /\ Settle(k, cache[k], answer)
    BY <1>3 DEF MintFails
  <2>2. cache[k] \in Entry /\ answer \in Token \cup {None}
    BY <1>1 DEF TypeOK, Entry
  <2>3. cache[k].token # None => Sound(cache[k].token, k, minted') /\ cache[k].token \notin burned
    BY <2>1 DEF TokensInv, TokenInv, Sound
  <2>4. answer # None => Sound(answer, k, minted') /\ answer \notin burned
    BY <2>3
  <2>5. minted' \in minted .. MaxMints
    BY <1>1, <2>1
  <2> HIDE DEF answer
  <2>6. QED  BY <2>1, <2>2, <2>3, <2>4, <2>5, SettleKeeps
<1>4. QED  BY <1>2, <1>3

LEMMA ExpireKeeps ==
  ASSUME TokensInv, NEW k \in Keys, Expire(k) PROVE TokensInv' /\ Unburned
<1>1. /\ TypeOK /\ cache' = [cache EXCEPT ![k].fresh = FALSE]
      /\ UNCHANGED <<bridged, fallback, pending, chain, phase, knocking, upstream, via, caller,
                     minted, burned>>
  BY DEF TokensInv, Expire, config
<1>2. running' = running /\ UsedKeys' = UsedKeys
  BY <1>1 DEF running, UsedKeys
<1>3. cache' \in [Keys -> Entry] /\ \A l \in Keys : cache'[l].token = cache[l].token
  BY <1>1 DEF TypeOK, Entry
<1>4. TypeOK'
  BY <1>1, <1>3 DEF TypeOK
<1>5. SingleFlight' /\ FlightInv'
  BY <1>1, <1>2 DEF TokensInv, SingleFlight, FlightInv
<1>6. TokenInv' /\ Unburned
  BY <1>1, <1>2, <1>3 DEF TokensInv, TokenInv, Sound, Unburned
<1>7. QED  BY <1>4, <1>5, <1>6 DEF TokensInv

LEMMA FinishKeeps ==
  ASSUME TokensInv, NEW c \in Callers, Finish(c) PROVE TokensInv' /\ Unburned
<1>1. /\ TypeOK /\ caller' = [caller EXCEPT ![c] = Idle]
      /\ UNCHANGED <<bridged, fallback, cache, pending, chain, phase, knocking, upstream, via,
                     minted, burned>>
  BY DEF TokensInv, Finish, config
<1>2. running' = running /\ UsedKeys' = UsedKeys
  BY <1>1 DEF running, UsedKeys
<1>3. caller'[c] = Idle /\ \A d \in Callers \ {c} : caller'[d] = caller[d]
  BY <1>1 DEF TypeOK
<1>4. TypeOK'
  BY <1>1 DEF TypeOK, Idle
<1>5. SingleFlight' /\ FlightInv'
  BY <1>1, <1>2, <1>3 DEF TokensInv, SingleFlight, FlightInv, Idle
<1>6. TokenInv' /\ Unburned
  BY <1>1, <1>2, <1>3 DEF TokensInv, TokenInv, Sound, Unburned, Idle
<1>7. QED  BY <1>4, <1>5, <1>6 DEF TokensInv

LEMMA TokensStep == TokensInv /\ [Next]_vars => TokensInv' /\ (Unburned \/ UNCHANGED vars)
<1> SUFFICES ASSUME TokensInv, [Next]_vars PROVE TokensInv' /\ (Unburned \/ UNCHANGED vars)
  OBVIOUS
<1>1. ASSUME NEW c \in Callers, Ask(c) \/ Finish(c) \/ Burn(c) PROVE TokensInv' /\ Unburned
  BY <1>1, AskKeeps, FinishKeeps, BurningKeeps
<1>2. ASSUME NEW k \in Keys,
             \/ MintSucceeds(k) \/ MintFails(k) \/ Expire(k)
             \/ StartChrome(k) \/ CdpConnect(k) \/ Connect(k) \/ Forward(k)
      PROVE  TokensInv' /\ Unburned
  BY <1>2, MintKeeps, ExpireKeeps, BrowserKeeps
<1>3. CASE UNCHANGED vars
  BY <1>3 DEF vars, config, TokensInv, TypeOK, SingleFlight, FlightInv, TokenInv, Sound,
              running, UsedKeys
<1>4. QED  BY <1>1, <1>2, <1>3, TickKeeps, SpawnKeeps DEF Next

-----------------------------------------------------------------------------
\* BaxiaTokenManager, for any number of callers and proxies.
THEOREM TokensTheorem == Spec => []TokensInv
<1>1. TokensInv /\ [Next]_vars => TokensInv'
  BY TokensStep
<1>2. QED  BY <1>1, TokensInitial, PTL DEF Spec

\* "The token's issuing IP matches the completion's egress IP" (README.md:110).
THEOREM AffineTheorem == Spec => []TokenAffine
<1>1. TokensInv => TokenAffine
  BY DEF TokensInv, TokenInv, Sound, TokenAffine
<1>2. QED  BY <1>1, TokensTheorem, PTL

\* One refresh per key, one Chromium, and the bridge points at its proxy
\* (baxia-token.ts:572-588).
THEOREM FlightTheorem == Spec => []SingleFlight
<1>1. TokensInv => SingleFlight
  BY DEF TokensInv
<1>2. QED  BY <1>1, TokensTheorem, PTL

\* A token that was found burned is not handed out again (baxia-token.ts:611).
THEOREM BurnedTheorem == Spec => BurnedStaysOut
<1>1. TokensInv /\ [Next]_vars => [Unburned]_vars
  BY TokensStep
<1>2. Spec => [][Unburned]_vars
  BY <1>1, TokensTheorem, PTL DEF Spec
<1>3. QED  BY <1>2 DEF BurnedStaysOut, Unburned

-----------------------------------------------------------------------------
(* The stream of one completion: words over the symbols *)

(* A tag is found in a word at its first place; where two words are joined *)
(* it is found in the first, at the seam, or behind it.                    *)

\* A set of naturals has a least element: the finite sets of what is below its
\* elements have a minimal one.
LEMMA LeastNatural ==
  ASSUME NEW S \in SUBSET Nat, S # {}
  PROVE  \E n \in S : \A m \in S : n <= m
PROOF
<1> DEFINE Below(n) == {m \in S : m < n}
           Cuts == {Below(n) : n \in S}
<1>1. ASSUME NEW n \in S PROVE Below(n) \in FiniteSubsetsOf(S)
  <2>1. \A x \in Below(n) : x <= n
    OBVIOUS
  <2>2. Below(n) \in SUBSET Nat /\ Below(n) \in SUBSET S
    OBVIOUS
  <2> HIDE DEF Below
  <2> QED BY <2>1, <2>2, FS_BoundedSetOfNaturals DEF FiniteSubsetsOf
<1>2. Cuts \subseteq FiniteSubsetsOf(S) /\ Cuts # {}
  BY <1>1
<1>3. PICK C \in Cuts : \A D \in Cuts : ~(<<D, C>> \in StrictSubsetOrdering(S))
  <2> HIDE DEF Cuts
  <2> QED BY <1>2, WFMin, FS_StrictSubsetOrderingWellFounded
<1>4. PICK n \in S : C = Below(n)
  OBVIOUS
<1>5. ASSUME NEW m \in S, m < n PROVE FALSE
  <2>1. Below(m) \subseteq Below(n) /\ m \in Below(n) /\ m \notin Below(m)
    <3>1. m \in Nat /\ n \in Nat /\ ~(m < m) /\ \A x \in S : x < m => x < n
      BY <1>5
    <3> QED BY <1>5, <3>1
  <2>2. Below(m) \in SUBSET S /\ Below(n) \in SUBSET S /\ Below(m) \in Cuts
    OBVIOUS
  <2> HIDE DEF Below, Cuts
  <2> QED BY <1>3, <1>4, <2>1, <2>2 DEF StrictSubsetOrdering
<1> QED BY <1>5

Words == Seq(Symbols)

\* The tag stands at place i of s, symbol for symbol.
Matches(s, tag, i) ==
  /\ i + Len(tag) <= Len(s) + 1
  /\ \A k \in 1 .. Len(tag) : s[i + k - 1] = tag[k]

LEMMA WordEqual ==
  ASSUME NEW s \in Words, NEW t \in Words, Len(s) = Len(t),
         \A i \in 1 .. Len(s) : s[i] = t[i]
  PROVE  s = t
  BY SeqEqual DEF Words

LEMMA WordLength ==
  ASSUME NEW s \in Words
  PROVE  /\ Len(s) \in Nat /\ DOMAIN s = 1 .. Len(s)
         /\ \A i \in 1 .. Len(s) : s[i] \in Symbols
         /\ Len(s) = 0 => s = <<>>
  BY LenProperties, EmptySeq, ElementOfSeq DEF Words

LEMMA EmptyWord == <<>> \in Words /\ Len(<<>>) = 0
  BY EmptySeq DEF Words

LEMMA Joining ==
  ASSUME NEW s \in Words, NEW t \in Words
  PROVE  /\ s \o t \in Words
         /\ Len(s \o t) = Len(s) + Len(t)
         /\ \A i \in 1 .. Len(s) : (s \o t)[i] = s[i]
         /\ \A i \in 1 .. Len(t) : (s \o t)[Len(s) + i] = t[i]
<1>1. /\ s \o t \in Words /\ Len(s \o t) = Len(s) + Len(t)
      /\ \A i \in 1 .. Len(s) + Len(t) : (s \o t)[i] = IF i <= Len(s) THEN s[i] ELSE t[i - Len(s)]
  BY ConcatProperties DEF Words
<1>2. Len(s) \in Nat /\ Len(t) \in Nat
  BY WordLength
<1> DEFINE st == s \o t
<1> HIDE DEF st
<1>3. \A i \in 1 .. Len(s) + Len(t) : st[i] = IF i <= Len(s) THEN s[i] ELSE t[i - Len(s)]
  BY <1>1 DEF st
<1>4. \A i \in 1 .. Len(s) : st[i] = s[i]
  BY <1>2, <1>3
<1>5. ASSUME NEW i \in 1 .. Len(t) PROVE st[Len(s) + i] = t[i]
  <2>1. Len(s) + i \in 1 .. Len(s) + Len(t) /\ ~(Len(s) + i <= Len(s)) /\ (Len(s) + i) - Len(s) = i
    BY <1>2
  <2> QED BY <1>3, <2>1
<1> QED BY <1>1, <1>4, <1>5 DEF st

\* A part of a text.
LEMMA Cutting ==
  ASSUME NEW s \in Words, NEW m \in Int, NEW n \in Int, m >= 1, n <= Len(s)
  PROVE  /\ SubSeq(s, m, n) \in Words
         /\ Len(SubSeq(s, m, n)) = IF m <= n THEN n - m + 1 ELSE 0
         /\ \A i \in 1 .. n - m + 1 : SubSeq(s, m, n)[i] = s[m + i - 1]
<1>1. \A i \in m .. n : s[i] \in Symbols
  BY WordLength
<1> QED BY <1>1, SubSeqProperties DEF Words

LEMMA Occurring ==
  ASSUME NEW s \in Words, NEW tag \in Words, NEW i \in Nat, i >= 1,
         i + Len(tag) <= Len(s) + 1
  PROVE  Occurs(s, tag, i) <=> Matches(s, tag, i)
<1>1. Len(s) \in Nat /\ Len(tag) \in Nat
  BY WordLength
<1> DEFINE last == i + Len(tag) - 1
           part == SubSeq(s, i, last)
<1>2. last \in Int /\ i >= 1 /\ last <= Len(s)
  BY <1>1
<1>3. /\ part \in Words
      /\ Len(part) = IF i <= last THEN last - i + 1 ELSE 0
      /\ \A k \in 1 .. last - i + 1 : part[k] = s[i + k - 1]
  BY <1>2, Cutting
<1>4. Len(part) = Len(tag) /\ last - i + 1 = Len(tag)
  <2>1. (IF i <= last THEN last - i + 1 ELSE 0) = Len(tag) /\ last - i + 1 = Len(tag)
    BY <1>1
  <2> HIDE DEF part, last
  <2> QED BY <2>1, <1>3
<1>5. Occurs(s, tag, i) <=> part = tag
  BY DEF Occurs
<1> HIDE DEF part, last
<1>6. part = tag <=> \A k \in 1 .. Len(tag) : part[k] = tag[k]
  BY <1>3, <1>4, WordEqual
<1>7. \A k \in 1 .. Len(tag) : part[k] = s[i + k - 1]
  BY <1>3, <1>4
<1> QED BY <1>5, <1>6, <1>7 DEF Matches

LEMMA IndexSpec ==
  ASSUME NEW s \in Words, NEW tag \in Words
  PROVE  /\ IndexOf(s, tag) \in Nat
         /\ IndexOf(s, tag) = 0 => \A i \in Nat \ {0} : ~Matches(s, tag, i)
         /\ IndexOf(s, tag) # 0 =>
              /\ IndexOf(s, tag) + Len(tag) <= Len(s) + 1
              /\ Matches(s, tag, IndexOf(s, tag))
              /\ \A i \in Nat \ {0} : Matches(s, tag, i) => i >= IndexOf(s, tag)
<1>1. Len(s) \in Nat /\ Len(tag) \in Nat
  BY WordLength
<1> DEFINE at == {i \in 1 .. Len(s) - Len(tag) + 1 : Occurs(s, tag, i)}
<1>2. ASSUME NEW i \in Nat \ {0} PROVE i \in at <=> Matches(s, tag, i)
  <2>1. i \in 1 .. Len(s) - Len(tag) + 1 <=> i + Len(tag) <= Len(s) + 1
    BY <1>1
  <2> QED BY <1>1, <2>1, Occurring DEF Matches
<1>3. IndexOf(s, tag) = IF at = {} THEN 0 ELSE Min(at)
  BY DEF IndexOf
<1>4. at \subseteq Nat \ {0}
  BY <1>1
<1> HIDE DEF at
<1>5. CASE at = {}
  BY <1>2, <1>3, <1>5
<1>6. CASE at # {}
  <2>1. at \in SUBSET Nat
    BY <1>4
  <2>2. \E n \in at : \A m \in at : n <= m
    BY <2>1, <1>6, LeastNatural
  <2>3. Min(at) \in at /\ \A m \in at : Min(at) <= m
    BY <2>2 DEF Min
  <2> DEFINE o == IndexOf(s, tag)
  <2>4. o = Min(at) /\ o \in at /\ o \in Nat \ {0}
    BY <1>3, <1>4, <1>6, <2>3
  <2>5. Matches(s, tag, o)
    BY <2>4, <1>2
  <2>6. \A i \in Nat \ {0} : Matches(s, tag, i) => i >= o
    BY <2>3, <2>4, <1>2
  <2>7. o + Len(tag) <= Len(s) + 1
    BY <2>5 DEF Matches
  <2> QED BY <2>4, <2>5, <2>6, <2>7
<1> QED BY <1>5, <1>6

\* The converse: where a tag is found first.
LEMMA FoundFirst ==
  ASSUME NEW s \in Words, NEW tag \in Words, NEW o \in Nat \ {0},
         Matches(s, tag, o), \A i \in Nat \ {0} : Matches(s, tag, i) => i >= o
  PROVE  IndexOf(s, tag) = o
<1> DEFINE p == IndexOf(s, tag)
<1>1. p \in Nat /\ p # 0 /\ Matches(s, tag, p) /\ (\A i \in Nat \ {0} : Matches(s, tag, i) => i >= p)
  BY IndexSpec
<1>2. p >= o /\ o >= p
  BY <1>1
<1> QED BY <1>1, <1>2

LEMMA FoundNowhere ==
  ASSUME NEW s \in Words, NEW tag \in Words, \A i \in Nat \ {0} : ~Matches(s, tag, i)
  PROVE  IndexOf(s, tag) = 0
  BY IndexSpec

LEMMA MatchesAhead ==
  ASSUME NEW s \in Words, NEW t \in Words, NEW tag \in Words, NEW i \in Nat \ {0},
         i + Len(tag) <= Len(s) + 1
  PROVE  Matches(s \o t, tag, i) <=> Matches(s, tag, i)
<1>1. Len(s) \in Nat /\ Len(t) \in Nat /\ Len(tag) \in Nat
  BY WordLength
<1> DEFINE st == s \o t
<1>2. Len(st) = Len(s) + Len(t) /\ \A k \in 1 .. Len(s) : st[k] = s[k]
  BY Joining
<1> HIDE DEF st
<1>3. \A k \in 1 .. Len(tag) : i + k - 1 \in 1 .. Len(s)
  BY <1>1
<1>4. \A k \in 1 .. Len(tag) : st[i + k - 1] = s[i + k - 1]
  BY <1>2, <1>3
<1>5. i + Len(tag) <= Len(st) + 1
  BY <1>1, <1>2
<1>6. Matches(st, tag, i) <=> Matches(s, tag, i)
  BY <1>4, <1>5 DEF Matches
<1> QED BY <1>6 DEF st

LEMMA MatchesBehind ==
  ASSUME NEW s \in Words, NEW t \in Words, NEW tag \in Words, NEW i \in Nat \ {0}
  PROVE  Matches(s \o t, tag, Len(s) + i) <=> Matches(t, tag, i)
<1>1. Len(s) \in Nat /\ Len(t) \in Nat /\ Len(tag) \in Nat
  BY WordLength
<1> DEFINE st == s \o t
<1>2. Len(st) = Len(s) + Len(t) /\ \A k \in 1 .. Len(t) : st[Len(s) + k] = t[k]
  BY Joining
<1> HIDE DEF st
<1>3. (Len(s) + i) + Len(tag) <= Len(st) + 1 <=> i + Len(tag) <= Len(t) + 1
  BY <1>1, <1>2
<1>4. ASSUME i + Len(tag) <= Len(t) + 1, NEW k \in 1 .. Len(tag)
      PROVE  st[(Len(s) + i) + k - 1] = t[i + k - 1]
  <2>1. i + k - 1 \in 1 .. Len(t) /\ (Len(s) + i) + k - 1 = Len(s) + (i + k - 1)
    BY <1>1, <1>4
  <2> QED BY <1>2, <2>1
<1>5. Matches(st, tag, Len(s) + i) <=> Matches(t, tag, i)
  BY <1>3, <1>4 DEF Matches
<1> QED BY <1>5 DEF st

\* What has been found stays found, where it was.
LEMMA FoundStays ==
  ASSUME NEW s \in Words, NEW t \in Words, NEW tag \in Words, IndexOf(s, tag) # 0
  PROVE  IndexOf(s \o t, tag) = IndexOf(s, tag)
<1> DEFINE o == IndexOf(s, tag)
<1>1. /\ o \in Nat \ {0} /\ o + Len(tag) <= Len(s) + 1 /\ Matches(s, tag, o)
      /\ \A i \in Nat \ {0} : Matches(s, tag, i) => i >= o
  BY IndexSpec
<1>2. s \o t \in Words
  BY Joining
<1> HIDE DEF o
<1>3. Matches(s \o t, tag, o)
  BY <1>1, MatchesAhead
<1>4. ASSUME NEW i \in Nat \ {0}, Matches(s \o t, tag, i), i < o PROVE FALSE
  <2>1. Len(s) \in Nat /\ Len(tag) \in Nat
    BY WordLength
  <2>2. i + Len(tag) <= Len(s) + 1
    BY <1>1, <1>4, <2>1
  <2>3. Matches(s, tag, i)
    BY <1>4, <2>2, MatchesAhead
  <2> QED BY <1>1, <1>4, <2>3
<1>5. \A i \in Nat \ {0} : Matches(s \o t, tag, i) => i >= o
  BY <1>1, <1>4
<1>6. IndexOf(s \o t, tag) = o
  BY <1>1, <1>2, <1>3, <1>5, FoundFirst
<1> QED BY <1>6 DEF o

\* A text is what is let through and what is held back of it.
LEMMA Halves ==
  ASSUME NEW s \in Words, NEW tag \in Words
  PROVE  /\ LetThrough(s, tag) \in Words /\ HeldBack(s, tag) \in Words
         /\ s = LetThrough(s, tag) \o HeldBack(s, tag)
         /\ \/ Len(s) <= Len(tag) /\ LetThrough(s, tag) = <<>> /\ HeldBack(s, tag) = s
            \/ Len(LetThrough(s, tag)) + Len(tag) = Len(s) /\ Len(HeldBack(s, tag)) = Len(tag)
<1> DEFINE n == Len(s)
           cut == Len(s) - Len(tag)
           L == SubSeq(s, 1, cut)
           B == SubSeq(s, cut + 1, n)
<1>1. Len(s) \in Nat /\ Len(tag) \in Nat
  BY WordLength
<1>2. L = LetThrough(s, tag)
  BY DEF LetThrough
<1>3. CASE Len(s) <= Len(tag)
  <2>1. cut < 1 /\ cut \in Int
    BY <1>1, <1>3
  <2>2. L = <<>>
    BY <2>1, SubSeqEmpty
  <2>3. HeldBack(s, tag) = s
    BY <1>3 DEF HeldBack
  <2>4. <<>> \o s = s
    BY ConcatEmptySeq DEF Words
  <2> QED BY <1>2, <1>3, <2>2, <2>3, <2>4, EmptyWord
<1>4. CASE Len(s) > Len(tag)
  <2>1. HeldBack(s, tag) = B
    BY <1>1, <1>4 DEF HeldBack, From
  <2>2. cut \in Int /\ cut >= 1 /\ cut <= Len(s) /\ cut + 1 \in Int /\ cut + 1 >= 1 /\ n \in Int /\ n <= Len(s)
    BY <1>1, <1>4
  <2>3. L \in Words /\ Len(L) = IF 1 <= cut THEN cut - 1 + 1 ELSE 0
    BY <2>2, Cutting
  <2>4. B \in Words /\ Len(B) = IF cut + 1 <= n THEN n - (cut + 1) + 1 ELSE 0
    BY <2>2, Cutting
  <2>5. (IF 1 <= cut THEN cut - 1 + 1 ELSE 0) + Len(tag) = Len(s)
    BY <1>1, <1>4
  <2>6. (IF cut + 1 <= n THEN n - (cut + 1) + 1 ELSE 0) = Len(tag)
    BY <1>1, <1>4
  <2>7. L \o B = SubSeq(s, 1, n)
    <3>1. 1 \in 1 .. Len(s) + 1 /\ cut \in 1 - 1 .. Len(s) /\ n \in cut .. Len(s)
      BY <1>1, <1>4
    <3> HIDE DEF cut, n
    <3>2. s \in Seq(Symbols)
      BY DEF Words
    <3> QED BY <3>1, <3>2, ConcatAdjacentSubSeq
  <2>8. SubSeq(s, 1, n) = s
    BY SubSeqFull DEF Words
  <2> QED BY <1>2, <2>1, <2>3, <2>4, <2>5, <2>6, <2>7, <2>8
<1> QED BY <1>1, <1>3, <1>4

\* Before and after a place of a text.
LEMMA Parts ==
  ASSUME NEW s \in Words, NEW o \in Nat \ {0}, o <= Len(s) + 1
  PROVE  /\ Before(s, o) \in Words /\ From(s, o) \in Words
         /\ Len(Before(s, o)) + 1 = o /\ Len(Before(s, o)) + Len(From(s, o)) = Len(s)
         /\ s = Before(s, o) \o From(s, o)
<1>1. Len(s) \in Nat
  BY WordLength
<1> DEFINE n == Len(s)
           cut == o - 1
           L == SubSeq(s, 1, cut)
           B == SubSeq(s, o, n)
<1>2. cut \in Int /\ cut <= Len(s) /\ o \in Int /\ o >= 1 /\ n \in Int /\ n <= Len(s)
  BY <1>1
<1>3. L \in Words /\ Len(L) = IF 1 <= cut THEN cut - 1 + 1 ELSE 0
  BY <1>2, Cutting
<1>4. B \in Words /\ Len(B) = IF o <= n THEN n - o + 1 ELSE 0
  BY <1>2, Cutting
<1>5. (IF 1 <= cut THEN cut - 1 + 1 ELSE 0) = o - 1 /\ (o - 1) + 1 = o
  BY <1>1
<1>6. (o - 1) + (IF o <= n THEN n - o + 1 ELSE 0) = Len(s)
  <2>1. CASE o <= n
    BY <1>1, <2>1
  <2>2. CASE ~(o <= n)
    <3>1. o = Len(s) + 1
      BY <1>1, <2>2
    <3> QED BY <1>1, <2>2, <3>1
  <2> QED BY <2>1, <2>2
<1>7. L \o B = SubSeq(s, 1, n)
  <2>1. 1 \in 1 .. Len(s) + 1 /\ cut \in 1 - 1 .. Len(s) /\ n \in cut .. Len(s) /\ cut + 1 = o
    BY <1>1
  <2> HIDE DEF cut, n
  <2>2. s \in Seq(Symbols)
    BY DEF Words
  <2>3. SubSeq(s, 1, cut) \o SubSeq(s, cut + 1, n) = SubSeq(s, 1, n)
    BY <2>1, <2>2, ConcatAdjacentSubSeq
  <2> QED BY <2>1, <2>3
<1>8. SubSeq(s, 1, n) = s
  BY SubSeqFull DEF Words
<1>9. L = Before(s, o) /\ B = From(s, o)
  BY DEF Before, From
<1> QED BY <1>3, <1>4, <1>5, <1>6, <1>7, <1>8, <1>9

\* A text is cut in one way at one length.
LEMMA OneCut ==
  ASSUME NEW s \in Words, NEW t \in Words, NEW u \in Words, NEW v \in Words,
         s \o t = u \o v, Len(s) = Len(u)
  PROVE  s = u /\ t = v
<1> DEFINE st == s \o t
           uv == u \o v
<1>1. /\ Len(st) = Len(s) + Len(t) /\ \A k \in 1 .. Len(s) : st[k] = s[k]
      /\ \A k \in 1 .. Len(t) : st[Len(s) + k] = t[k]
  BY Joining
<1>2. /\ Len(uv) = Len(u) + Len(v) /\ \A k \in 1 .. Len(u) : uv[k] = u[k]
      /\ \A k \in 1 .. Len(v) : uv[Len(u) + k] = v[k]
  BY Joining
<1>3. st = uv
  OBVIOUS
<1>4. Len(s) \in Nat /\ Len(t) \in Nat /\ Len(u) \in Nat /\ Len(v) \in Nat
  BY WordLength
<1> HIDE DEF st, uv
<1>5. Len(t) = Len(v)
  BY <1>1, <1>2, <1>3, <1>4
<1>6. \A k \in 1 .. Len(s) : s[k] = u[k]
  BY <1>1, <1>2, <1>3
<1>7. \A k \in 1 .. Len(t) : t[k] = v[k]
  BY <1>1, <1>2, <1>3, <1>5
<1> QED BY <1>5, <1>6, <1>7, WordEqual

LEMMA Associative ==
  ASSUME NEW s \in Words, NEW t \in Words, NEW u \in Words
  PROVE  (s \o t) \o u = s \o (t \o u)
  BY ConcatAssociative DEF Words

LEMMA NothingJoined ==
  ASSUME NEW s \in Words
  PROVE  s \o <<>> = s /\ <<>> \o s = s
  BY ConcatEmptySeq DEF Words

LEMMA RegroupRight ==
  ASSUME NEW s \in Words, NEW t \in Words, NEW u \in Words, NEW v \in Words, t = u \o v
  PROVE  s \o t = (s \o u) \o v
<1>1. (s \o u) \o v = s \o (u \o v)
  BY Associative
<1> QED BY <1>1, Zenon

LEMMA RegroupLeft ==
  ASSUME NEW s \in Words, NEW t \in Words, NEW u \in Words, NEW v \in Words, s = u \o v
  PROVE  s \o t = u \o (v \o t)
<1>1. (u \o v) \o t = u \o (v \o t)
  BY Associative
<1> QED BY <1>1, Zenon

\* What comes next is looked at together with what is held back, and nothing
\* else need be.
LEMMA TailFound ==
  ASSUME NEW P \in Words, NEW tag \in Words, NEW c \in Words, IndexOf(P, tag) = 0,
         NEW L, NEW B, L = LetThrough(P, tag), B = HeldBack(P, tag)
  PROVE  /\ IndexOf(B \o c, tag) = 0 => IndexOf(P \o c, tag) = 0
         /\ IndexOf(B \o c, tag) # 0 => IndexOf(P \o c, tag) = Len(L) + IndexOf(B \o c, tag)
<1>1. /\ L \in Words /\ B \in Words /\ P = L \o B
      /\ \/ Len(P) <= Len(tag) /\ L = <<>> /\ B = P
         \/ Len(L) + Len(tag) = Len(P) /\ Len(B) = Len(tag)
  BY Halves
<1>2. Len(P) \in Nat /\ Len(L) \in Nat /\ Len(tag) \in Nat
  BY <1>1, WordLength
<1>3. B \o c \in Words /\ P \o c \in Words /\ P \o c = L \o (B \o c)
  <2>1. B \o c \in Words /\ P \o c \in Words
    BY <1>1, Joining
  <2>2. L \in Words /\ B \in Words /\ P = L \o B
    BY <1>1
  <2>3. (L \o B) \o c = L \o (B \o c)
    BY <2>2, Associative
  <2>4. P \o c = L \o (B \o c)
    BY <2>2, <2>3, Zenon
  <2> QED BY <2>1, <2>4
<1> DEFINE Bc == B \o c
           Pc == P \o c
<1>4. Len(L) = 0 \/ Len(L) + Len(tag) = Len(P)
  BY <1>1, EmptyWord
<1>5. ASSUME NEW i \in Nat \ {0}, i <= Len(L) PROVE ~Matches(Pc, tag, i)
  <2>1. i + Len(tag) <= Len(P) + 1
    BY <1>2, <1>4, <1>5
  <2>2. ~Matches(P, tag, i)
    BY IndexSpec
  <2> QED BY <2>1, <2>2, MatchesAhead
<1>6. ASSUME NEW i \in Nat \ {0} PROVE Matches(Pc, tag, Len(L) + i) <=> Matches(Bc, tag, i)
  <2>1. Matches(L \o (B \o c), tag, Len(L) + i) <=> Matches(B \o c, tag, i)
    BY <1>1, <1>3, MatchesBehind
  <2> QED BY <2>1, <1>3
<1> HIDE DEF Bc, Pc
<1>7. \A i \in Nat \ {0} : i <= Len(L) \/ \E j \in Nat \ {0} : i = Len(L) + j
  <2> SUFFICES ASSUME NEW i \in Nat \ {0}, ~(i <= Len(L)) PROVE \E j \in Nat \ {0} : i = Len(L) + j
    OBVIOUS
  <2>1. i - Len(L) \in Nat \ {0} /\ i = Len(L) + (i - Len(L))
    BY <1>2
  <2> QED BY <2>1
<1>8. Bc \in Words /\ Pc \in Words
  BY <1>3 DEF Bc, Pc
<1>9. ASSUME IndexOf(Bc, tag) = 0 PROVE IndexOf(Pc, tag) = 0
  <2>1. \A i \in Nat \ {0} : ~Matches(Bc, tag, i)
    BY <1>8, <1>9, IndexSpec
  <2>2. ASSUME NEW i \in Nat \ {0} PROVE ~Matches(Pc, tag, i)
    <3>1. CASE i <= Len(L)
      BY <1>5, <3>1
    <3>2. CASE \E j \in Nat \ {0} : i = Len(L) + j
      <4>1. PICK j \in Nat \ {0} : i = Len(L) + j
        BY <3>2
      <4>2. ~Matches(Bc, tag, j)
        BY <2>1
      <4>3. ~Matches(Pc, tag, Len(L) + j)
        BY <1>6, <4>2
      <4> QED BY <4>1, <4>3
    <3> QED BY <1>7, <3>1, <3>2
  <2> QED BY <1>8, <2>2, FoundNowhere
<1>10. ASSUME IndexOf(Bc, tag) # 0 PROVE IndexOf(Pc, tag) = Len(L) + IndexOf(Bc, tag)
  <2> DEFINE o == IndexOf(Bc, tag)
  <2>1. o \in Nat \ {0} /\ Matches(Bc, tag, o) /\ \A i \in Nat \ {0} : Matches(Bc, tag, i) => i >= o
    BY <1>8, <1>10, IndexSpec
  <2> HIDE DEF o
  <2>2. Matches(Pc, tag, Len(L) + o) /\ Len(L) + o \in Nat \ {0}
    <3>1. Matches(Pc, tag, Len(L) + o)
      BY <1>6, <2>1
    <3>2. Len(L) + o \in Nat \ {0}
      BY <1>2, <2>1
    <3> QED BY <3>1, <3>2
  <2>3. ASSUME NEW i \in Nat \ {0}, Matches(Pc, tag, i) PROVE i >= Len(L) + o
    <3>1. PICK j \in Nat \ {0} : i = Len(L) + j
      BY <1>5, <1>7, <2>3
    <3>2. Matches(Bc, tag, j)
      BY <1>6, <2>3, <3>1
    <3>3. j >= o
      BY <2>1, <3>2
    <3> QED BY <1>2, <2>1, <3>1, <3>3
  <2>4. IndexOf(Pc, tag) = Len(L) + o
    BY <1>8, <2>2, <2>3, FoundFirst
  <2> QED BY <2>4 DEF o
<1> QED BY <1>9, <1>10 DEF Bc, Pc

LEMMA TailCut ==
  ASSUME NEW P \in Words, NEW tag \in Words, NEW c \in Words
  PROVE  /\ LetThrough(P \o c, tag) = LetThrough(P, tag) \o LetThrough(HeldBack(P, tag) \o c, tag)
         /\ HeldBack(P \o c, tag) = HeldBack(HeldBack(P, tag) \o c, tag)
<1> DEFINE L == LetThrough(P, tag)
           B == HeldBack(P, tag)
<1> SUFFICES /\ LetThrough(P \o c, tag) = L \o LetThrough(B \o c, tag)
             /\ HeldBack(P \o c, tag) = HeldBack(B \o c, tag)
  OBVIOUS
<1>1. /\ L \in Words /\ B \in Words /\ P = L \o B
      /\ \/ Len(P) <= Len(tag) /\ L = <<>> /\ B = P
         \/ Len(L) + Len(tag) = Len(P) /\ Len(B) = Len(tag)
  BY Halves
<1> HIDE DEF L, B
<1> DEFINE Bc == B \o c
           Pc == P \o c
           L1 == LetThrough(Pc, tag)
           B1 == HeldBack(Pc, tag)
           L2 == LetThrough(Bc, tag)
           B2 == HeldBack(Bc, tag)
           LL == L \o L2
<1>2. /\ Bc \in Words /\ Pc \in Words /\ Pc = L \o Bc
      /\ Len(Bc) = Len(B) + Len(c) /\ Len(Pc) = Len(P) + Len(c)
  <2>1. /\ Bc \in Words /\ Pc \in Words
        /\ Len(Bc) = Len(B) + Len(c) /\ Len(Pc) = Len(P) + Len(c)
    BY <1>1, Joining
  <2>2. L \in Words /\ B \in Words /\ P = L \o B
    BY <1>1
  <2>3. (L \o B) \o c = L \o (B \o c)
    BY <2>2, Associative
  <2>4. P \o c = L \o (B \o c)
    BY <2>2, <2>3, Zenon
  <2> QED BY <2>1, <2>4
<1>3. CASE L = <<>>
  <2>1. P = B
    BY <1>1, <1>3, NothingJoined
  <2>2. L2 \in Words
    BY <1>2, Halves
  <2> QED BY <1>3, <2>1, <2>2, NothingJoined
<1>4. CASE L # <<>>
  <2>1. Len(L) + Len(tag) = Len(P) /\ Len(B) = Len(tag)
    BY <1>1, <1>4
  <2>2. Len(P) \in Nat /\ Len(L) \in Nat /\ Len(tag) \in Nat /\ Len(B) \in Nat /\ Len(c) \in Nat /\ Len(L) # 0
    BY <1>1, <1>4, WordLength
  <2>3. /\ L1 \in Words /\ B1 \in Words /\ Pc = L1 \o B1
        /\ \/ Len(Pc) <= Len(tag) /\ L1 = <<>> /\ B1 = Pc
           \/ Len(L1) + Len(tag) = Len(Pc) /\ Len(B1) = Len(tag)
    BY <1>2, Halves
  <2>4. /\ L2 \in Words /\ B2 \in Words /\ Bc = L2 \o B2
        /\ \/ Len(Bc) <= Len(tag) /\ L2 = <<>> /\ B2 = Bc
           \/ Len(L2) + Len(tag) = Len(Bc) /\ Len(B2) = Len(tag)
    BY <1>2, Halves
  <2>5. Pc = LL \o B2 /\ LL \in Words /\ Len(LL) = Len(L) + Len(L2)
    <3>1. LL \in Words /\ Len(LL) = Len(L) + Len(L2)
      BY <1>1, <2>4, Joining
    <3> HIDE DEF Pc, Bc, L2, B2
    <3>2. L \in Words /\ Bc \in Words /\ L2 \in Words /\ B2 \in Words /\ Bc = L2 \o B2 /\ Pc = L \o Bc
      BY <1>1, <1>2, <2>4
    <3>3. L \o Bc = (L \o L2) \o B2
      BY <3>2, RegroupRight
    <3> QED BY <3>2, <3>1, <3>3
  <2> HIDE DEF LL, L1, L2, B1, B2, Pc, Bc
  <2>6. Len(L1) \in Nat /\ Len(L2) \in Nat /\ Len(<<>>) = 0
    BY <2>3, <2>4, WordLength, EmptyWord
  <2>7. Len(L1) + Len(tag) = Len(Pc)
    BY <1>2, <2>1, <2>2, <2>3
  <2>8. Len(L2) + Len(tag) = Len(Bc)
    BY <1>2, <2>1, <2>2, <2>4, <2>6
  <2>9. Len(LL) = Len(L1)
    BY <1>2, <2>1, <2>2, <2>5, <2>6, <2>7, <2>8
  <2>10. /\ L1 \in Words /\ B1 \in Words /\ LL \in Words /\ B2 \in Words
         /\ L1 \o B1 = LL \o B2 /\ Len(L1) = Len(LL)
    BY <2>3, <2>4, <2>5, <2>9
  <2>11. L1 = LL /\ B1 = B2
    BY <2>10, OneCut
  <2> QED BY <2>11 DEF LL, L1, L2, B1, B2, Pc, Bc
<1> QED BY <1>3, <1>4

\* The same of the two sides of a place behind what was let through.
LEMMA PartsBehind ==
  ASSUME NEW s \in Words, NEW t \in Words, NEW i \in Nat \ {0}, i <= Len(t) + 1
  PROVE  /\ Before(s \o t, Len(s) + i) = s \o Before(t, i)
         /\ From(s \o t, Len(s) + i) = From(t, i)
<1> DEFINE st == s \o t
           o == Len(s) + i
           L1 == Before(st, o)
           B1 == From(st, o)
           L2 == Before(t, i)
           B2 == From(t, i)
           LL == s \o L2
<1>1. st \in Words /\ Len(st) = Len(s) + Len(t) /\ Len(s) \in Nat /\ Len(t) \in Nat
  BY Joining, WordLength
<1>2. o \in Nat \ {0} /\ o <= Len(st) + 1
  <2> HIDE DEF st
  <2> QED BY <1>1
<1>3. L1 \in Words /\ B1 \in Words /\ Len(L1) + 1 = o /\ st = L1 \o B1
  <2> HIDE DEF st, o
  <2> QED BY <1>1, <1>2, Parts
<1>4. L2 \in Words /\ B2 \in Words /\ Len(L2) + 1 = i /\ t = L2 \o B2
  BY Parts
<1>5. st = LL \o B2 /\ LL \in Words /\ Len(LL) = Len(s) + Len(L2)
  <2>1. LL \in Words /\ Len(LL) = Len(s) + Len(L2)
    BY <1>4, Joining
  <2> HIDE DEF L2, B2
  <2>2. s \o t = (s \o L2) \o B2
    BY <1>4, RegroupRight
  <2> QED BY <2>1, <2>2
<1>6. Len(L1) = Len(LL)
  <2>1. Len(L1) \in Nat /\ Len(L2) \in Nat
    BY <1>3, <1>4, WordLength
  <2>2. Len(L1) + 1 = Len(s) + i
    BY <1>3
  <2> HIDE DEF st, L1, L2, LL, o
  <2> QED BY <1>1, <1>4, <1>5, <2>1, <2>2
<1> HIDE DEF st, L1, L2, LL, o, B1, B2
<1>7. L1 = LL /\ B1 = B2
  BY <1>3, <1>4, <1>5, <1>6, OneCut
<1> QED BY <1>7 DEF st, L1, L2, LL, o, B1, B2

\* And in front of it.
LEMMA PartsAhead ==
  ASSUME NEW s \in Words, NEW t \in Words, NEW i \in Nat \ {0}, i <= Len(s) + 1
  PROVE  /\ Before(s \o t, i) = Before(s, i)
         /\ From(s \o t, i) = From(s, i) \o t
<1> DEFINE st == s \o t
           L1 == Before(st, i)
           B1 == From(st, i)
           L2 == Before(s, i)
           B2 == From(s, i)
           BB == B2 \o t
<1>1. st \in Words /\ Len(st) = Len(s) + Len(t) /\ Len(s) \in Nat /\ Len(t) \in Nat
  BY Joining, WordLength
<1>2. i <= Len(st) + 1
  <2> HIDE DEF st
  <2> QED BY <1>1
<1>3. L1 \in Words /\ B1 \in Words /\ Len(L1) + 1 = i /\ st = L1 \o B1
  <2> HIDE DEF st
  <2> QED BY <1>1, <1>2, Parts
<1>4. L2 \in Words /\ B2 \in Words /\ Len(L2) + 1 = i /\ s = L2 \o B2
  BY Parts
<1>5. st = L2 \o BB /\ BB \in Words
  <2>1. BB \in Words
    BY <1>4, Joining
  <2> HIDE DEF L2, B2
  <2>2. s \o t = L2 \o (B2 \o t)
    BY <1>4, RegroupLeft
  <2> QED BY <2>1, <2>2
<1>6. Len(L1) = Len(L2)
  <2>1. Len(L1) \in Nat /\ Len(L2) \in Nat
    BY <1>3, <1>4, WordLength
  <2> HIDE DEF st, L1, L2
  <2> QED BY <1>3, <1>4, <2>1
<1> HIDE DEF st, L1, L2, B1, B2, BB
<1>7. L1 = L2 /\ B1 = BB
  BY <1>3, <1>4, <1>5, <1>6, OneCut
<1> QED BY <1>7 DEF st, L1, L2, B1, B2, BB

-----------------------------------------------------------------------------
(* The filters: what the stripper and the detector have passed on and hold *)
(* back is a function of the text, whatever the chunks it came in.         *)

LEMMA Tags ==
  /\ ToolOpen \in Words /\ ToolClose \in Words /\ Details \in Words /\ DetailsClose \in Words
  /\ Len(ToolOpen) \in Nat /\ Len(ToolClose) \in Nat /\ Len(Details) \in Nat /\ Len(DetailsClose) \in Nat
  /\ Len(ToolOpen) >= 2 /\ Len(ToolClose) >= 2 /\ Len(Details) >= 2 /\ Len(DetailsClose) >= 2
<1>1. ToolOpen \in Words /\ ToolClose \in Words /\ Details \in Words /\ DetailsClose \in Words
  BY TagsAssumption DEF Words
<1>2. Len(ToolOpen) >= 2 /\ Len(ToolClose) >= 2 /\ Len(Details) >= 2 /\ Len(DetailsClose) >= 2
  BY TagsAssumption
<1> QED BY <1>1, <1>2, WordLength

\* What a filter that looks for tag has let through of a text.
Passed(s, tag) ==
  IF IndexOf(s, tag) = 0 THEN LetThrough(s, tag) ELSE Before(s, IndexOf(s, tag))

\* The filters' states after a text, however it was cut into chunks.
StripperAfter(s) ==
  IF IndexOf(s, Details) = 0
  THEN [sealed |-> FALSE, buffer |-> HeldBack(s, Details)]
  ELSE [sealed |-> TRUE, buffer |-> <<>>]

DetectorAfter(s) ==
  IF IndexOf(s, ToolOpen) = 0
  THEN [state |-> "NORMAL", buffer |-> HeldBack(s, ToolOpen), block |-> <<>>]
  ELSE PushBuffering([state |-> "NORMAL", buffer |-> From(s, IndexOf(s, ToolOpen)),
                      block |-> <<>>], <<>>)

LEMMA PassedIsWord ==
  ASSUME NEW s \in Words, NEW tag \in Words
  PROVE  Passed(s, tag) \in Words
<1>1. CASE IndexOf(s, tag) = 0
  BY <1>1, Halves DEF Passed
<1>2. CASE IndexOf(s, tag) # 0
  <2>1. IndexOf(s, tag) \in Nat \ {0} /\ IndexOf(s, tag) + Len(tag) <= Len(s) + 1
    BY <1>2, IndexSpec
  <2>2. IndexOf(s, tag) <= Len(s) + 1
    BY <2>1, WordLength
  <2> QED BY <1>2, <2>1, <2>2, Parts DEF Passed
<1> QED BY <1>1, <1>2

\* One step of either filter: what is passed on, with what was held back.
LEMMA PassedFurther ==
  ASSUME NEW s \in Words, NEW c \in Words, NEW tag \in Words, IndexOf(s, tag) = 0
  PROVE  /\ HeldBack(s, tag) \o c \in Words
         /\ (IndexOf(HeldBack(s, tag) \o c, tag) = 0) <=> (IndexOf(s \o c, tag) = 0)
         /\ Passed(s \o c, tag) = Passed(s, tag) \o Passed(HeldBack(s, tag) \o c, tag)
         /\ IndexOf(s \o c, tag) = 0 =>
              HeldBack(s \o c, tag) = HeldBack(HeldBack(s, tag) \o c, tag)
         /\ IndexOf(s \o c, tag) # 0 =>
              From(s \o c, IndexOf(s \o c, tag))
                = From(HeldBack(s, tag) \o c, IndexOf(HeldBack(s, tag) \o c, tag))
<1> DEFINE L == LetThrough(s, tag)
           B == HeldBack(s, tag)
           Bc == B \o c
           sc == s \o c
           o == IndexOf(Bc, tag)
<1>1. L \in Words /\ B \in Words /\ s = L \o B
  BY Halves
<1>2. Bc \in Words /\ sc \in Words
  BY <1>1, Joining
<1>3. sc = L \o Bc
  <2> HIDE DEF L, B
  <2>1. L \in Words /\ B \in Words /\ c \in Words
    BY <1>1
  <2>2. (L \o B) \o c = L \o (B \o c)
    BY ONLY <2>1, Associative
  <2> QED BY <1>1, <2>2, Zenon
<1>4. /\ o = 0 => IndexOf(sc, tag) = 0
      /\ o # 0 => IndexOf(sc, tag) = Len(L) + o
  BY TailFound
<1>5. LetThrough(sc, tag) = L \o LetThrough(Bc, tag) /\ HeldBack(sc, tag) = HeldBack(Bc, tag)
  BY TailCut
<1>6. o \in Nat /\ (o # 0 => o + Len(tag) <= Len(Bc) + 1)
  BY <1>2, IndexSpec
<1>7. Passed(s, tag) = L
  BY DEF Passed
<1>8. Len(Bc) \in Nat /\ Len(tag) \in Nat /\ Len(L) \in Nat
  BY <1>1, <1>2, WordLength
<1>9. o # 0 => o \in Nat \ {0} /\ o <= Len(Bc) + 1
  <2> HIDE DEF Bc, L, o
  <2> QED BY <1>6, <1>8
<1>10. o # 0 => IndexOf(sc, tag) # 0
  <2> HIDE DEF Bc, L, o, sc
  <2> QED BY <1>4, <1>6, <1>8
<1>11. CASE o = 0
  <2>1. Passed(Bc, tag) = LetThrough(Bc, tag) /\ Passed(sc, tag) = LetThrough(sc, tag)
    BY <1>4, <1>11 DEF Passed
  <2> HIDE DEF Bc, sc, L, B
  <2>2. Passed(sc, tag) = L \o Passed(Bc, tag)
    BY <2>1, <1>5
  <2> QED BY <1>2, <1>4, <1>5, <1>7, <1>11, <2>2 DEF Bc, sc, L, B
<1>12. CASE o # 0
  <2>1. Passed(Bc, tag) = Before(Bc, o) /\ Passed(sc, tag) = Before(sc, Len(L) + o)
    BY <1>4, <1>10, <1>12 DEF Passed
  <2> HIDE DEF Bc, sc, L, B, o
  <2>2. Before(sc, Len(L) + o) = L \o Before(Bc, o) /\ From(sc, Len(L) + o) = From(Bc, o)
    <3>1. L \in Words /\ Bc \in Words /\ o \in Nat \ {0} /\ o <= Len(Bc) + 1
      BY <1>1, <1>2, <1>9, <1>12
    <3>2. Before(L \o Bc, Len(L) + o) = L \o Before(Bc, o) /\ From(L \o Bc, Len(L) + o) = From(Bc, o)
      BY <3>1, PartsBehind
    <3> QED BY <1>3, <3>2
  <2>3. Passed(sc, tag) = L \o Passed(Bc, tag) /\ From(sc, IndexOf(sc, tag)) = From(Bc, o)
    BY <1>4, <1>12, <2>1, <2>2
  <2> QED BY <1>2, <1>7, <1>10, <1>12, <2>3 DEF Bc, sc, L, B, o
<1> QED BY <1>11, <1>12

\* Once the tag is found, nothing more is passed on.
LEMMA PassedNoFurther ==
  ASSUME NEW s \in Words, NEW c \in Words, NEW tag \in Words, IndexOf(s, tag) # 0
  PROVE  /\ IndexOf(s \o c, tag) = IndexOf(s, tag)
         /\ Passed(s \o c, tag) = Passed(s, tag)
         /\ From(s, IndexOf(s, tag)) \in Words
         /\ From(s \o c, IndexOf(s, tag)) = From(s, IndexOf(s, tag)) \o c
<1> DEFINE o == IndexOf(s, tag)
<1>1. IndexOf(s \o c, tag) = o
  BY FoundStays
<1>2. o \in Nat \ {0} /\ o + Len(tag) <= Len(s) + 1
  BY IndexSpec
<1>3. Len(tag) \in Nat /\ Len(s) \in Nat
  BY WordLength
<1>4. o \in Nat \ {0} /\ o <= Len(s) + 1
  <2> HIDE DEF o
  <2> QED BY <1>2, <1>3
<1>5. Before(s \o c, o) = Before(s, o) /\ From(s \o c, o) = From(s, o) \o c
  BY <1>4, PartsAhead
<1>6. From(s, o) \in Words
  BY <1>4, Parts
<1> QED BY <1>1, <1>5, <1>6 DEF Passed

LEMMA StripperFollows ==
  ASSUME NEW s \in Words, NEW c \in Words
  PROVE  LET pushed == StripperPush(StripperAfter(s), c)
         IN /\ pushed.strip = StripperAfter(s \o c)
            /\ pushed.safe \in Words
            /\ Passed(s \o c, Details) = Passed(s, Details) \o pushed.safe
<1> DEFINE mark == StripperAfter(s)
           sc == s \o c
           pushed == StripperPush(mark, c)
<1>1. Details \in Words
  BY Tags
<1>2. CASE IndexOf(s, Details) # 0
  <2>1. mark.sealed /\ pushed = [strip |-> mark, safe |-> <<>>]
    BY <1>2 DEF StripperAfter, StripperPush
  <2>2. IndexOf(sc, Details) # 0 /\ Passed(sc, Details) = Passed(s, Details)
    BY <1>1, <1>2, PassedNoFurther
  <2>3. StripperAfter(sc) = mark
    BY <1>2, <2>2 DEF StripperAfter
  <2>4. Passed(s, Details) \o <<>> = Passed(s, Details)
    BY <1>1, PassedIsWord, NothingJoined
  <2>5. pushed.strip = mark /\ pushed.safe = <<>>
    BY <2>1
  <2> HIDE DEF pushed, mark, sc
  <2>6. /\ pushed.strip = StripperAfter(sc) /\ pushed.safe \in Words
        /\ Passed(sc, Details) = Passed(s, Details) \o pushed.safe
    BY <2>2, <2>3, <2>4, <2>5, EmptyWord
  <2> QED BY <2>6 DEF pushed, mark, sc
<1>3. CASE IndexOf(s, Details) = 0
  <2> DEFINE B == HeldBack(s, Details)
             Bc == B \o c
  <2>1. mark = [sealed |-> FALSE, buffer |-> B]
    BY <1>3 DEF StripperAfter
  <2>2. /\ Bc \in Words
        /\ (IndexOf(Bc, Details) = 0) <=> (IndexOf(sc, Details) = 0)
        /\ Passed(sc, Details) = Passed(s, Details) \o Passed(Bc, Details)
        /\ IndexOf(sc, Details) = 0 => HeldBack(sc, Details) = HeldBack(Bc, Details)
    BY <1>1, <1>3, PassedFurther
  <2>3. Passed(Bc, Details) \in Words
    BY <1>1, <2>2, PassedIsWord
  <2> HIDE DEF B
  <2>4. CASE IndexOf(Bc, Details) = 0
    <3> HIDE DEF Bc
    <3>0. Bc = mark.buffer \o c /\ mark.sealed = FALSE
      BY <2>1 DEF Bc
    <3>1. pushed = [strip |-> [sealed |-> FALSE, buffer |-> HeldBack(Bc, Details)],
                    safe |-> LetThrough(Bc, Details)]
      BY <2>1, <2>4, <3>0 DEF StripperPush
    <3>2. Passed(Bc, Details) = LetThrough(Bc, Details)
      BY <2>4 DEF Passed
    <3>3. StripperAfter(sc) = [sealed |-> FALSE, buffer |-> HeldBack(Bc, Details)]
      BY <2>2, <2>4 DEF StripperAfter
    <3> HIDE DEF Bc, sc, mark, pushed
    <3> QED BY <2>2, <2>3, <3>1, <3>2, <3>3 DEF Bc, sc, mark, pushed
  <2>5. CASE IndexOf(Bc, Details) # 0
    <3> HIDE DEF Bc
    <3>0. Bc = mark.buffer \o c /\ mark.sealed = FALSE
      BY <2>1 DEF Bc
    <3>1. pushed = [strip |-> [sealed |-> TRUE, buffer |-> <<>>],
                    safe |-> Before(Bc, IndexOf(Bc, Details))]
      BY <2>1, <2>5, <3>0 DEF StripperPush
    <3>2. Passed(Bc, Details) = Before(Bc, IndexOf(Bc, Details))
      BY <2>5 DEF Passed
    <3>3. StripperAfter(sc) = [sealed |-> TRUE, buffer |-> <<>>]
      BY <2>2, <2>5 DEF StripperAfter
    <3> HIDE DEF Bc, sc, mark, pushed
    <3> QED BY <2>2, <2>3, <3>1, <3>2, <3>3 DEF Bc, sc, mark, pushed
  <2> QED BY <2>4, <2>5
<1> QED BY <1>2, <1>3

\* The detector in a block whose text so far is s.
InBlock(s) ==
  IF IndexOf(s, ToolClose) = 0
  THEN [state |-> "BUFFERING", buffer |-> s, block |-> <<>>]
  ELSE [state |-> "SEALED", buffer |-> <<>>,
        block |-> Before(s, IndexOf(s, ToolClose) + Len(ToolClose))]

LEMMA Buffering ==
  ASSUME NEW mark, NEW s \in Words, NEW c \in Words, NEW stage,
         mark = [state |-> stage, buffer |-> s, block |-> <<>>]
  PROVE  PushBuffering(mark, c) = InBlock(s \o c)
<1> DEFINE sc == s \o c
<1>1. mark.buffer \o c = sc
  OBVIOUS
<1> HIDE DEF sc
<1>2. CASE IndexOf(sc, ToolClose) = 0
  <2>1. PushBuffering(mark, c) = [state |-> "BUFFERING", buffer |-> sc, block |-> mark.block]
    BY <1>1, <1>2 DEF PushBuffering
  <2>2. mark.block = <<>>
    OBVIOUS
  <2>3. InBlock(sc) = [state |-> "BUFFERING", buffer |-> sc, block |-> <<>>]
    BY <1>2 DEF InBlock
  <2> QED BY <2>1, <2>2, <2>3 DEF sc
<1>3. CASE IndexOf(sc, ToolClose) # 0
  <2>1. PushBuffering(mark, c)
          = [state |-> "SEALED", buffer |-> <<>>,
             block |-> SubSeq(sc, 1, IndexOf(sc, ToolClose) + Len(ToolClose) - 1)]
    BY <1>1, <1>3 DEF PushBuffering
  <2>2. IndexOf(sc, ToolClose) + Len(ToolClose) - 1 = (IndexOf(sc, ToolClose) + Len(ToolClose)) - 1
    <3>1. IndexOf(sc, ToolClose) \in Nat
      BY IndexSpec, Joining, Tags DEF sc
    <3> QED BY <3>1, Tags
  <2>3. InBlock(sc) = [state |-> "SEALED", buffer |-> <<>>,
                       block |-> SubSeq(sc, 1, (IndexOf(sc, ToolClose) + Len(ToolClose)) - 1)]
    BY <1>3 DEF InBlock, Before
  <2> QED BY <2>1, <2>2, <2>3 DEF sc
<1> QED BY <1>2, <1>3

LEMMA BlockStays ==
  ASSUME NEW s \in Words, NEW c \in Words, IndexOf(s, ToolClose) # 0
  PROVE  InBlock(s \o c) = InBlock(s) /\ InBlock(s).state = "SEALED"
<1> DEFINE o == IndexOf(s, ToolClose)
           last == o + Len(ToolClose)
<1>1. IndexOf(s \o c, ToolClose) = o
  BY FoundStays, Tags
<1>2. o \in Nat \ {0} /\ o + Len(ToolClose) <= Len(s) + 1
  BY IndexSpec, Tags
<1>3. last \in Nat \ {0} /\ last <= Len(s) + 1
  <2> HIDE DEF o
  <2> QED BY <1>2, Tags
<1>4. Before(s \o c, last) = Before(s, last)
  <2> HIDE DEF last
  <2> QED BY <1>3, PartsAhead
<1> QED BY <1>1, <1>4 DEF InBlock

LEMMA DetectorIs ==
  ASSUME NEW s \in Words
  PROVE  IndexOf(s, ToolOpen) # 0 =>
           /\ From(s, IndexOf(s, ToolOpen)) \in Words
           /\ DetectorAfter(s) = InBlock(From(s, IndexOf(s, ToolOpen)))
<1> SUFFICES ASSUME IndexOf(s, ToolOpen) # 0
             PROVE  /\ From(s, IndexOf(s, ToolOpen)) \in Words
                    /\ DetectorAfter(s) = InBlock(From(s, IndexOf(s, ToolOpen)))
  OBVIOUS
<1> DEFINE R == From(s, IndexOf(s, ToolOpen))
<1>1. R \in Words
  BY PassedNoFurther, EmptyWord, Tags
<1> DEFINE mark == [state |-> "NORMAL", buffer |-> R, block |-> <<>>]
<1>2. DetectorAfter(s) = PushBuffering(mark, <<>>)
  BY DEF DetectorAfter
<1>3. PushBuffering(mark, <<>>) = InBlock(R \o <<>>)
  <2> HIDE DEF R
  <2>1. mark = [state |-> "NORMAL", buffer |-> R, block |-> <<>>]
    OBVIOUS
  <2> HIDE DEF mark
  <2> QED BY <1>1, <2>1, Buffering, EmptyWord
<1>4. R \o <<>> = R
  BY <1>1, NothingJoined
<1> QED BY <1>1, <1>2, <1>3, <1>4

LEMMA DetectorFollows ==
  ASSUME NEW s \in Words, NEW c \in Words
  PROVE  LET pushed == DetectorPush(DetectorAfter(s), c)
         IN /\ pushed.det = DetectorAfter(s \o c)
            /\ pushed.content \in Words
            /\ Passed(s \o c, ToolOpen) = Passed(s, ToolOpen) \o pushed.content
<1> DEFINE mark == DetectorAfter(s)
           sc == s \o c
           pushed == DetectorPush(mark, c)
           R == From(s, IndexOf(s, ToolOpen))
           B == HeldBack(s, ToolOpen)
           Bc == B \o c
<1> SUFFICES /\ pushed.det = DetectorAfter(sc)
             /\ pushed.content \in Words
             /\ Passed(sc, ToolOpen) = Passed(s, ToolOpen) \o pushed.content
  OBVIOUS
<1>1. ToolOpen \in Words /\ sc \in Words
  BY Tags, Joining
<1>2. Passed(s, ToolOpen) \o <<>> = Passed(s, ToolOpen)
  BY <1>1, PassedIsWord, NothingJoined
<1>3. CASE IndexOf(s, ToolOpen) = 0
  <2>1. mark = [state |-> "NORMAL", buffer |-> B, block |-> <<>>]
    BY <1>3 DEF DetectorAfter
  <2>2. /\ Bc \in Words
        /\ (IndexOf(Bc, ToolOpen) = 0) <=> (IndexOf(sc, ToolOpen) = 0)
        /\ Passed(sc, ToolOpen) = Passed(s, ToolOpen) \o Passed(Bc, ToolOpen)
        /\ IndexOf(sc, ToolOpen) = 0 => HeldBack(sc, ToolOpen) = HeldBack(Bc, ToolOpen)
        /\ IndexOf(sc, ToolOpen) # 0 =>
             From(sc, IndexOf(sc, ToolOpen)) = From(Bc, IndexOf(Bc, ToolOpen))
    BY <1>1, <1>3, PassedFurther
  <2>3. Passed(Bc, ToolOpen) \in Words
    BY <1>1, <2>2, PassedIsWord
  <2>4. pushed = PushNormal(mark, c)
    BY <2>1 DEF DetectorPush
  <2> HIDE DEF B, pushed
  <2>5. Bc = mark.buffer \o c
    BY <2>1
  <2> HIDE DEF Bc
  <2>6. CASE IndexOf(Bc, ToolOpen) = 0
    <3>1. pushed = [det |-> [mark EXCEPT !.buffer = HeldBack(Bc, ToolOpen)],
                    content |-> LetThrough(Bc, ToolOpen)]
      BY <2>4, <2>5, <2>6 DEF PushNormal
    <3>2. Passed(Bc, ToolOpen) = LetThrough(Bc, ToolOpen)
      BY <2>6 DEF Passed
    <3>3. DetectorAfter(sc) = [state |-> "NORMAL", buffer |-> HeldBack(Bc, ToolOpen), block |-> <<>>]
      BY <2>2, <2>6 DEF DetectorAfter
    <3>4. [mark EXCEPT !.buffer = HeldBack(Bc, ToolOpen)]
             = [state |-> "NORMAL", buffer |-> HeldBack(Bc, ToolOpen), block |-> <<>>]
      BY <2>1
    <3> HIDE DEF mark, sc
    <3> QED BY <2>2, <2>3, <3>1, <3>2, <3>3, <3>4
  <2>7. CASE IndexOf(Bc, ToolOpen) # 0
    <3> DEFINE Q == From(Bc, IndexOf(Bc, ToolOpen))
               opened == [mark EXCEPT !.buffer = Q]
    <3>1. pushed = [det |-> PushBuffering(opened, <<>>),
                    content |-> Before(Bc, IndexOf(Bc, ToolOpen))]
      BY <2>4, <2>5, <2>7 DEF PushNormal
    <3>2. Passed(Bc, ToolOpen) = Before(Bc, IndexOf(Bc, ToolOpen))
      BY <2>7 DEF Passed
    <3>3. Q \in Words /\ DetectorAfter(sc) = InBlock(Q)
      <4>1. IndexOf(sc, ToolOpen) # 0 /\ From(sc, IndexOf(sc, ToolOpen)) = Q
        BY <2>2, <2>7
      <4> HIDE DEF Q, sc
      <4> QED BY <1>1, <4>1, DetectorIs
    <3> HIDE DEF Q
    <3>4. opened = [state |-> "NORMAL", buffer |-> Q, block |-> <<>>]
      BY <2>1
    <3> HIDE DEF opened, mark
    <3>5. PushBuffering(opened, <<>>) = InBlock(Q \o <<>>)
      <4> DEFINE none == <<>>
      <4>1. Q \in Words /\ none \in Words
        BY <3>3, EmptyWord
      <4> HIDE DEF none
      <4>2. PushBuffering(opened, none) = InBlock(Q \o none)
        BY ONLY <3>4, <4>1, Buffering
      <4> QED BY <4>2 DEF none
    <3>6. Q \o <<>> = Q
      BY <3>3, NothingJoined
    <3> HIDE DEF mark, sc
    <3> QED BY <2>2, <2>3, <3>1, <3>2, <3>3, <3>5, <3>6
  <2> QED BY <2>6, <2>7
<1>4. CASE IndexOf(s, ToolOpen) # 0
  <2>1. /\ IndexOf(sc, ToolOpen) = IndexOf(s, ToolOpen)
        /\ Passed(sc, ToolOpen) = Passed(s, ToolOpen)
        /\ R \in Words
        /\ From(sc, IndexOf(s, ToolOpen)) = R \o c
    BY <1>1, <1>4, PassedNoFurther
  <2>2. mark = InBlock(R)
    BY <1>4, DetectorIs
  <2>3. DetectorAfter(sc) = InBlock(R \o c)
    <3>1. IndexOf(sc, ToolOpen) # 0 /\ From(sc, IndexOf(sc, ToolOpen)) = R \o c
      BY <1>4, <2>1
    <3> HIDE DEF R, sc
    <3> QED BY <1>1, <3>1, DetectorIs
  <2> HIDE DEF R
  <2>4. CASE IndexOf(R, ToolClose) = 0
    <3>1. mark = [state |-> "BUFFERING", buffer |-> R, block |-> <<>>]
      BY <2>2, <2>4 DEF InBlock
    <3>2. pushed = [det |-> PushBuffering(mark, c), content |-> <<>>]
      BY <3>1 DEF DetectorPush
    <3> HIDE DEF mark, pushed, sc
    <3>3. PushBuffering(mark, c) = InBlock(R \o c)
      BY <2>1, <3>1, Buffering
    <3> QED BY <1>2, <2>1, <2>3, <3>2, <3>3, EmptyWord
  <2>5. CASE IndexOf(R, ToolClose) # 0
    <3>1. InBlock(R \o c) = mark /\ mark.state = "SEALED"
      BY <2>1, <2>2, <2>5, BlockStays
    <3>2. pushed = [det |-> mark, content |-> <<>>]
      BY <3>1 DEF DetectorPush
    <3> HIDE DEF mark, pushed, sc
    <3> QED BY <1>2, <2>1, <2>3, <3>1, <3>2, EmptyWord
  <2> QED BY <2>4, <2>5
<1> QED BY <1>3, <1>4

LEMMA GreatestBelow ==
  ASSUME NEW n \in Nat, NEW A \in SUBSET (1 .. n), A # {}
  PROVE  Max(A) \in A /\ \A x \in A : x <= Max(A)
<1> DEFINE above == {m \in Nat : \A x \in A : x <= m}
<1>1. n \in above
  OBVIOUS
<1>2. \E m \in above : \A k \in above : m <= k
  BY <1>1, LeastNatural
<1>3. PICK m \in above : \A k \in above : m <= k
  BY <1>2
<1>4. m \in A
  <2> SUFFICES ASSUME m \notin A PROVE FALSE
    OBVIOUS
  <2>1. PICK x \in A : TRUE
    OBVIOUS
  <2>2. m >= 1 /\ m - 1 \in Nat
    BY <2>1
  <2>3. \A y \in A : y <= m - 1
    <3> SUFFICES ASSUME NEW y \in A PROVE y <= m - 1
      OBVIOUS
    <3>1. y <= m /\ y # m /\ y \in Nat /\ m \in Nat
      OBVIOUS
    <3> QED BY ONLY <3>1
  <2>4. m - 1 \in above
    BY <2>2, <2>3
  <2>5. m <= m - 1
    BY <1>3, <2>4
  <2>6. m \in Nat
    OBVIOUS
  <2> QED BY ONLY <2>5, <2>6
<1>5. \A x \in A : x <= m
  OBVIOUS
<1>6. \E x \in A : \A y \in A : x >= y
  <2>1. \A y \in A : m >= y
    BY <1>5
  <2> QED BY <1>4, <2>1
<1>7. Max(A) \in A /\ \A y \in A : Max(A) >= y
  BY <1>6 DEF Max
<1> QED BY <1>7

\* What trimEnd() keeps: up to the last symbol that is no blank.
LEMMA Trimmed ==
  ASSUME NEW s \in Words
  PROVE  /\ TrimEnd(s) \in Words /\ Len(TrimEnd(s)) <= Len(s)
         /\ \A i \in 1 .. Len(TrimEnd(s)) : TrimEnd(s)[i] = s[i]
         /\ TrimEnd(s) # <<>> => s[Len(TrimEnd(s))] # Blank
         /\ \A i \in 1 .. Len(s) : i <= Len(TrimEnd(s)) \/ s[i] = Blank
<1>1. Len(s) \in Nat /\ DOMAIN s = 1 .. Len(s)
  BY WordLength
<1> DEFINE kept == {i \in DOMAIN s : s[i] # Blank}
           last == Max(kept)
<1>2. CASE kept = {}
  <2>1. TrimEnd(s) = <<>>
    BY <1>2 DEF TrimEnd
  <2>2. \A i \in 1 .. Len(s) : s[i] = Blank
    BY <1>1, <1>2
  <2> HIDE DEF kept
  <2> QED BY <1>1, <2>1, <2>2, EmptyWord
<1>3. CASE kept # {}
  <2>1. kept \in SUBSET (1 .. Len(s))
    BY <1>1
  <2>2. last \in kept /\ \A x \in kept : x <= last
    BY <1>1, <1>3, <2>1, GreatestBelow
  <2>3. TrimEnd(s) = SubSeq(s, 1, last)
    BY <1>3 DEF TrimEnd
  <2>4. last \in 1 .. Len(s) /\ s[last] # Blank
    BY <1>1, <2>2
  <2>5. \A i \in 1 .. Len(s) : i <= last \/ s[i] = Blank
    BY <1>1, <2>2
  <2> HIDE DEF kept, last
  <2>6. last \in Int /\ 1 \in Int /\ last <= Len(s) /\ last - 1 + 1 = last /\ 1 <= last
    BY <1>1, <2>4
  <2>7. /\ SubSeq(s, 1, last) \in Words
        /\ Len(SubSeq(s, 1, last)) = IF 1 <= last THEN last - 1 + 1 ELSE 0
        /\ \A i \in 1 .. last - 1 + 1 : SubSeq(s, 1, last)[i] = s[1 + i - 1]
    BY <2>6, Cutting
  <2> DEFINE part == SubSeq(s, 1, last)
  <2> HIDE DEF part
  <2>8. part \in Words /\ Len(part) = last /\ \A i \in 1 .. last : part[i] = s[1 + i - 1]
    BY <2>6, <2>7 DEF part
  <2>9. \A i \in 1 .. last : part[i] = s[i]
    <3>1. \A i \in 1 .. last : 1 + i - 1 = i
      BY <2>6
    <3> QED BY <2>8, <3>1
  <2>10. TrimEnd(s) = part
    BY <2>3 DEF part
  <2> QED BY <1>1, <2>4, <2>5, <2>8, <2>9, <2>10
<1> QED BY <1>2, <1>3

LEMMA NothingToTrim == TrimEnd(<<>>) = <<>>
<1>1. TrimEnd(<<>>) \in Words /\ Len(TrimEnd(<<>>)) <= Len(<<>>)
  BY Trimmed, EmptyWord
<1>2. Len(TrimEnd(<<>>)) = 0
  BY <1>1, EmptyWord, WordLength
<1> QED BY <1>1, <1>2, WordLength

\* A text and what is added to it.
LEMMA PrefixOfJoin ==
  ASSUME NEW s \in Words, NEW t \in Words
  PROVE  IsPrefix(s, s \o t)
<1>1. Len(s) \in Nat /\ Len(t) \in Nat
  BY WordLength
<1>2. s \o t \in Words /\ Len(s \o t) = Len(s) + Len(t)
  BY Joining
<1> DEFINE o == Len(s) + 1
           st == s \o t
<1>3. o \in Nat \ {0} /\ o <= Len(s) + 1 /\ o - 1 = Len(s)
  BY <1>1
<1>4. Before(st, o) = Before(s, o)
  <2> HIDE DEF o
  <2> QED BY <1>3, PartsAhead
<1>5. SubSeq(st, 1, Len(s)) = SubSeq(s, 1, Len(s))
  <2> HIDE DEF o, st
  <2> QED BY <1>3, <1>4 DEF Before
<1>6. Len(s) <= Len(st)
  <2> HIDE DEF st
  <2> QED BY <1>1, <1>2 DEF st
<1> QED BY <1>5, <1>6 DEF IsPrefix

\* What a filter passes on of a text is a beginning of it: the rest is held
\* back, or comes with the tag.
LEMMA UntilIs ==
  ASSUME NEW s \in Words, NEW tag \in Words
  PROVE  /\ Until(s, tag) \in Words
         /\ IndexOf(s, tag) = 0 => Until(s, tag) = Passed(s, tag) \o HeldBack(s, tag)
         /\ IndexOf(s, tag) # 0 => Until(s, tag) = Passed(s, tag)
<1>1. CASE IndexOf(s, tag) = 0
  <2>1. Until(s, tag) = s
    BY <1>1 DEF Until
  <2>2. Passed(s, tag) = LetThrough(s, tag)
    BY <1>1 DEF Passed
  <2>3. s = LetThrough(s, tag) \o HeldBack(s, tag)
    BY Halves
  <2> QED BY <1>1, <2>1, <2>2, <2>3
<1>2. CASE IndexOf(s, tag) # 0
  <2>1. Until(s, tag) = Passed(s, tag)
    BY <1>2 DEF Until, Passed
  <2> QED BY <1>2, <2>1, PassedIsWord
<1> QED BY <1>1, <1>2

\* What is shown of a text that has passed the detector.
Shown(s) == IF Until(s, Details) = s THEN TrimmedTail(s) ELSE Until(s, Details)

LEMMA ReadableIs ==
  ASSUME NEW s
  PROVE  /\ Readable(s, TRUE) = Shown(Until(s, ToolOpen))
         /\ Readable(s, FALSE) = Shown(s)
  BY DEF Readable, Shown

LEMMA StripperEnds ==
  ASSUME NEW s \in Words
  PROVE  /\ Shown(s) = Passed(s, Details) \o StripperEnd(StripperAfter(s))
         /\ Shown(s) \in Words /\ StripperEnd(StripperAfter(s)) \in Words
<1>0. Details \in Words
  BY Tags
<1>1. CASE IndexOf(s, Details) = 0
  <2>1. Until(s, Details) = s
    BY <1>1 DEF Until
  <2>2. Shown(s) = LetThrough(s, Details) \o TrimEnd(HeldBack(s, Details))
    BY <2>1 DEF Shown, TrimmedTail
  <2>3. StripperEnd(StripperAfter(s)) = TrimEnd(HeldBack(s, Details))
    BY <1>1 DEF StripperAfter, StripperEnd
  <2>4. Passed(s, Details) = LetThrough(s, Details)
    BY <1>1 DEF Passed
  <2>5. LetThrough(s, Details) \in Words /\ TrimEnd(HeldBack(s, Details)) \in Words
    BY <1>0, Halves, Trimmed
  <2> QED BY <2>2, <2>3, <2>4, <2>5, Joining
<1>2. CASE IndexOf(s, Details) # 0
  <2> DEFINE o == IndexOf(s, Details)
  <2>1. Until(s, Details) = Before(s, o) /\ Passed(s, Details) = Before(s, o)
    BY <1>2 DEF Until, Passed
  <2>2. o \in Nat \ {0} /\ o + Len(Details) <= Len(s) + 1
    BY <1>0, <1>2, IndexSpec
  <2>3. Len(s) \in Nat
    BY WordLength
  <2>4. Len(Before(s, o)) + 1 = o /\ o < Len(s) + 1 /\ Before(s, o) \in Words
    <3> HIDE DEF o
    <3>1. o <= Len(s) + 1 /\ o < Len(s) + 1
      BY <2>2, <2>3, Tags
    <3> QED BY <2>2, <3>1, Parts
  <2>5. Before(s, o) # s
    <3> HIDE DEF o
    <3> QED BY <2>3, <2>4
  <2>6. Shown(s) = Before(s, o)
    BY <2>1, <2>5 DEF Shown
  <2>7. StripperEnd(StripperAfter(s)) = <<>>
    <3>1. StripperAfter(s).buffer = <<>>
      BY <1>2 DEF StripperAfter
    <3> QED BY <3>1, NothingToTrim DEF StripperEnd
  <2>8. Before(s, o) \o <<>> = Before(s, o)
    BY <2>4, NothingJoined
  <2> QED BY <2>1, <2>4, <2>6, <2>7, <2>8, EmptyWord
<1> QED BY <1>1, <1>2

LEMMA DetectorEnds ==
  ASSUME NEW s \in Words
  PROVE  /\ Until(s, ToolOpen) = Passed(s, ToolOpen) \o DetectorEnd(DetectorAfter(s))
         /\ DetectorEnd(DetectorAfter(s)) \in Words
<1>0. ToolOpen \in Words
  BY Tags
<1>1. CASE IndexOf(s, ToolOpen) = 0
  <2>1. DetectorEnd(DetectorAfter(s)) = HeldBack(s, ToolOpen)
    BY <1>1 DEF DetectorAfter, DetectorEnd
  <2> QED BY <1>0, <1>1, <2>1, UntilIs, Halves
<1>2. CASE IndexOf(s, ToolOpen) # 0
  <2>1. DetectorAfter(s) = InBlock(From(s, IndexOf(s, ToolOpen)))
    BY <1>2, DetectorIs
  <2>2. InBlock(From(s, IndexOf(s, ToolOpen))).state # "NORMAL"
    <3> DEFINE R == From(s, IndexOf(s, ToolOpen))
    <3> HIDE DEF R
    <3>1. InBlock(R).state # "NORMAL"
      BY DEF InBlock
    <3> QED BY <3>1 DEF R
  <2>3. DetectorEnd(DetectorAfter(s)) = <<>>
    BY <2>1, <2>2 DEF DetectorEnd
  <2>4. Passed(s, ToolOpen) \o <<>> = Passed(s, ToolOpen)
    BY <1>0, PassedIsWord, NothingJoined
  <2> QED BY <1>0, <1>2, <2>3, <2>4, UntilIs, EmptyWord
<1> QED BY <1>1, <1>2

\* What the stripper has passed on so far is a beginning of what is shown in
\* the end, whatever comes.
LEMMA PassedIsPrefix ==
  ASSUME NEW s \in Words, NEW c \in Words
  PROVE  IsPrefix(Passed(s, Details), Shown(s \o c))
<1> DEFINE P == Passed(s, Details)
           safe == StripperPush(StripperAfter(s), c).safe
           sc == s \o c
           end == StripperEnd(StripperAfter(sc))
<1>1. P \in Words /\ sc \in Words
  BY Tags, PassedIsWord, Joining
<1>2. safe \in Words /\ Passed(sc, Details) = P \o safe
  BY StripperFollows
<1>3. end \in Words /\ Shown(sc) = Passed(sc, Details) \o end
  BY <1>1, StripperEnds
<1> HIDE DEF P, safe, end, sc
<1>4. (P \o safe) \o end = P \o (safe \o end)
  <2>1. P \in Words /\ safe \in Words /\ end \in Words
    BY <1>1, <1>2, <1>3
  <2> QED BY ONLY <2>1, Associative
<1>5. safe \o end \in Words
  BY <1>2, <1>3, Joining
<1>6. IsPrefix(P, P \o (safe \o end))
  BY <1>1, <1>5, PrefixOfJoin
<1>7. Shown(sc) = P \o (safe \o end)
  BY <1>2, <1>3, <1>4
<1> QED BY <1>6, <1>7 DEF P, sc

\* The calls of the first block.
LEMMA CallsAre ==
  ASSUME NEW s \in Words
  PROVE  CallsIn(s) = IF DetectorAfter(s).state = "SEALED"
                      THEN ParseToolCalls(DetectorAfter(s).block) ELSE 0
<1> DEFINE R == From(s, IndexOf(s, ToolOpen))
           close == IndexOf(R, ToolClose)
<1>1. CASE IndexOf(s, ToolOpen) = 0
  <2>1. DetectorAfter(s).state = "NORMAL"
    BY <1>1 DEF DetectorAfter
  <2>2. CallsIn(s) = 0
    BY <1>1 DEF CallsIn
  <2> QED BY <2>1, <2>2
<1>2. CASE IndexOf(s, ToolOpen) # 0 /\ close = 0
  <2>1. InBlock(R).state = "BUFFERING"
    <3> HIDE DEF R
    <3> QED BY <1>2 DEF InBlock
  <2>2. DetectorAfter(s).state = "BUFFERING"
    BY <1>2, <2>1, DetectorIs
  <2>3. CallsIn(s) = 0
    BY <1>2 DEF CallsIn
  <2> QED BY <2>2, <2>3
<1>3. CASE IndexOf(s, ToolOpen) # 0 /\ close # 0
  <2>1. R \in Words /\ DetectorAfter(s) = InBlock(R)
    BY <1>3, DetectorIs
  <2> DEFINE last == close + Len(ToolClose)
             inner == Before(R, close)
             whole == Before(R, last)
  <2>2. InBlock(R).state = "SEALED" /\ InBlock(R).block = whole
    <3> HIDE DEF R
    <3> QED BY <1>3 DEF InBlock
  <2>3. CallsIn(s) = ParseToolCalls(inner)
    BY <1>3 DEF CallsIn
  <2>4. close \in Nat \ {0} /\ last <= Len(R) + 1 /\ Matches(R, ToolClose, close)
    BY <1>3, <2>1, IndexSpec, Tags
  <2> HIDE DEF R, close
  <2>5. last \in Nat \ {0} /\ close <= last /\ close <= Len(R) + 1 /\ Len(R) \in Nat
    BY <2>1, <2>4, Tags, WordLength
  <2>6. /\ inner \in Words /\ Len(inner) + 1 = close
        /\ whole \in Words /\ Len(whole) + 1 = last
    <3> HIDE DEF last
    <3> QED BY <2>1, <2>4, <2>5, Parts
  <2>7. /\ \A i \in 1 .. Len(inner) : inner[i] = R[i]
        /\ \A i \in 1 .. Len(whole) : whole[i] = R[i]
    <3>1. ASSUME NEW o \in Nat \ {0}, o <= Len(R) + 1, NEW i \in 1 .. Len(Before(R, o))
          PROVE  Before(R, o)[i] = R[i]
      <4>1. Before(R, o) \in Words /\ From(R, o) \in Words /\ R = Before(R, o) \o From(R, o)
        BY <2>1, <3>1, Parts
      <4> DEFINE L == Before(R, o)
                 B == From(R, o)
      <4> HIDE DEF L, B
      <4>2. (L \o B)[i] = L[i]
        BY <3>1, <4>1, Joining DEF L, B
      <4> QED BY <4>1, <4>2 DEF L, B
    <3> HIDE DEF last
    <3> QED BY <2>4, <2>5, <3>1
  <2>8. \A i \in close .. last - 1 : R[i] # Call
    <3> SUFFICES ASSUME NEW i \in close .. last - 1 PROVE R[i] # Call
      OBVIOUS
    <3> DEFINE k == i - close + 1
    <3>1. k \in 1 .. Len(ToolClose) /\ close + k - 1 = i
      BY <2>4, Tags
    <3>2. ToolClose[k] # Call
      BY <3>1, TagsAssumption, Tags, WordLength
    <3> QED BY <2>4, <3>1, <3>2 DEF Matches
  <2> HIDE DEF last, inner, whole
  <2>9. {i \in DOMAIN inner : inner[i] = Call} = {i \in DOMAIN whole : whole[i] = Call}
    <3>1. DOMAIN inner = 1 .. Len(inner) /\ DOMAIN whole = 1 .. Len(whole)
      BY <2>6, WordLength
    <3>2. Len(inner) \in Nat /\ Len(whole) \in Nat /\ Len(inner) <= Len(whole)
      BY <2>4, <2>5, <2>6, WordLength
    <3>3. ASSUME NEW i \in DOMAIN whole, whole[i] = Call PROVE i \in 1 .. Len(inner)
      <4>1. i \in 1 .. Len(whole) /\ R[i] = Call
        BY <2>7, <3>1, <3>3
      <4>2. ~(i \in close .. last - 1)
        BY <2>8, <4>1
      <4> QED BY <2>4, <2>5, <2>6, <3>2, <4>1, <4>2
    <3>4. \A i \in 1 .. Len(inner) : i \in 1 .. Len(whole) /\ inner[i] = whole[i]
      BY <2>7, <3>2
    <3> QED BY <3>1, <3>3, <3>4
  <2>10. ParseToolCalls(inner) = ParseToolCalls(whole)
    BY <2>9 DEF ParseToolCalls
  <2> QED BY <2>1, <2>2, <2>3, <2>10
<1> QED BY <1>1, <1>2, <1>3

-----------------------------------------------------------------------------
(* Lists of events, what their text events say, and the adapters' steps.   *)

\* Two functions that begin alike and go on alike are alike.
GoAlike(f, g, N) ==
  /\ f[0] = g[0]
  /\ \A n \in 1 .. N : f[n - 1] = g[n - 1] => f[n] = g[n]

LEMMA Alike ==
  ASSUME NEW N \in Nat, NEW f, NEW g, GoAlike(f, g, N)
  PROVE  \A n \in 0 .. N : f[n] = g[n]
<1> USE DEF GoAlike
<1> DEFINE differ == {n \in 0 .. N : f[n] # g[n]}
<1> SUFFICES ASSUME differ # {} PROVE FALSE
  OBVIOUS
<1>1. PICK n \in differ : \A m \in differ : n <= m
  <2>1. differ \in SUBSET Nat
    OBVIOUS
  <2>2. \E n \in differ : \A m \in differ : n <= m
    BY <2>1, LeastNatural
  <2> QED BY <2>2
<1>2. n \in 1 .. N /\ n - 1 \in 0 .. N /\ f[n] # g[n]
  <2>1. n \in 0 .. N /\ f[n] # g[n]
    BY <1>1
  <2>2. n # 0
    BY <2>1
  <2> QED BY <2>1, <2>2
<1>3. f[n - 1] # g[n - 1]
  BY <1>2
<1>4. n - 1 \in differ
  BY <1>2, <1>3
<1>5. n <= n - 1 /\ n \in Nat
  BY <1>1, <1>2, <1>4
<1> QED BY ONLY <1>5

\* A function defined step by step exists.
Stepwise(V, N, first, next) == N \in Nat /\ first \in V /\ next \in [1 .. N -> [V -> V]]

LEMMA StepByStep ==
  ASSUME NEW V, NEW N, NEW first, NEW next, Stepwise(V, N, first, next)
  PROVE  \E g \in [0 .. N -> V] : g[0] = first /\ \A n \in 1 .. N : g[n] = next[n][g[n - 1]]
<1>0. N \in Nat /\ first \in V /\ next \in [1 .. N -> [V -> V]]
  BY DEF Stepwise
<1> DEFINE Upto(k, g) == /\ g \in [0 .. k -> V] /\ g[0] = first
                         /\ \A n \in 1 .. k : g[n] = next[n][g[n - 1]]
           missing == {k \in 0 .. N : ~\E g : Upto(k, g)}
<1>1. SUFFICES missing = {}
  <2>1. N \in 0 .. N
    BY <1>0
  <2>2. \E g : Upto(N, g)
    BY <1>1, <2>1
  <2> QED BY <2>2
<1>2. SUFFICES ASSUME missing # {} PROVE FALSE
  OBVIOUS
<1>3. PICK k \in missing : \A m \in missing : k <= m
  <2>1. missing \in SUBSET Nat
    BY <1>0
  <2>2. \E n \in missing : \A m \in missing : n <= m
    BY <1>2, <2>1, LeastNatural
  <2> QED BY <2>2
<1>4. k \in 0 .. N /\ k \in Nat /\ ~\E g : Upto(k, g)
  BY <1>0, <1>3
<1>5. CASE k = 0
  <2>0. first \in V
    BY <1>0
  <2> DEFINE g == [n \in 0 .. 0 |-> first]
  <2>1. Upto(0, g)
    <3>1. g \in [0 .. 0 -> V] /\ g[0] = first
      BY <2>0
    <3>2. 1 .. 0 = {}
      OBVIOUS
    <3> HIDE DEF g
    <3> QED BY <3>1, <3>2
  <2> HIDE DEF g, Upto
  <2> QED BY <1>4, <1>5, <2>1
<1>6. CASE k # 0
  <2>1. k - 1 \in 0 .. N /\ k \in 1 .. N
    BY <1>0, <1>4, <1>6
  <2>2. k - 1 \notin missing
    <3> HIDE DEF missing
    <3> SUFFICES ASSUME k - 1 \in missing PROVE FALSE
      OBVIOUS
    <3>1. k <= k - 1 /\ k \in Nat
      BY <1>3, <1>4
    <3> QED BY ONLY <3>1
  <2>3. PICK f : Upto(k - 1, f)
    BY <2>1, <2>2
  <2> DEFINE g == [n \in 0 .. k |-> IF n = k THEN next[k][f[k - 1]] ELSE f[n]]
  <2>4. next[k] \in [V -> V] /\ f[k - 1] \in V
    BY <1>0, <1>4, <2>1, <2>3
  <2>5. g \in [0 .. k -> V]
    <3>1. next[k][f[k - 1]] \in V
      BY <2>4
    <3>2. \A n \in 0 .. k : n = k \/ f[n] \in V
      BY <2>1, <2>3
    <3> QED BY <3>1, <3>2
  <2>6. g[0] = first
    BY <1>4, <1>6, <2>3
  <2>7. ASSUME NEW n \in 1 .. k PROVE g[n] = next[n][g[n - 1]]
    <3>1. n - 1 \in 0 .. k /\ n - 1 # k /\ n \in 0 .. k
      BY <1>4
    <3>2. g[n - 1] = f[n - 1]
      BY <3>1
    <3>3. CASE n = k
      BY <3>1, <3>2, <3>3
    <3>4. CASE n # k
      <4>1. n \in 1 .. k - 1
        BY <1>4, <3>4
      <4>2. f[n] = next[n][f[n - 1]]
        BY <2>3, <4>1
      <4>3. g[n] = f[n]
        BY <3>1, <3>4
      <4> QED BY <3>2, <4>2, <4>3
    <3> QED BY <3>3, <3>4
  <2>8. Upto(k, g)
    <3> HIDE DEF g
    <3> QED BY <2>5, <2>6, <2>7
  <2> HIDE DEF g, Upto
  <2> QED BY <1>4, <2>8
<1> QED BY <1>5, <1>6

\* What the client gets.
Kinds == {"start", "text", "thought", "signature", "calls", "open think", "open text", "close",
          "finish stop", "finish tool_calls", "error", "done"}
Events == [kind : Kinds, at : Nat, body : Words]
Lists == Seq(Events)

\* The text of a list, event by event.
Says(events, f) ==
  /\ f \in [0 .. Len(events) -> Words] /\ f[0] = <<>>
  /\ \A n \in 1 .. Len(events) : f[n] = f[n - 1] \o Saying(events[n])

LEMMA ListLength ==
  ASSUME NEW events \in Lists
  PROVE  /\ Len(events) \in Nat /\ DOMAIN events = 1 .. Len(events)
         /\ \A n \in 1 .. Len(events) : events[n] \in Events /\ Saying(events[n]) \in Words
<1>1. /\ Len(events) \in Nat /\ DOMAIN events = 1 .. Len(events)
      /\ \A n \in 1 .. Len(events) : events[n] \in Events
  BY LenProperties, ElementOfSeq DEF Lists
<1>2. ASSUME NEW e \in Events PROVE Saying(e) \in Words
  BY EmptyWord DEF Events, Saying
<1> QED BY <1>1, <1>2

LEMMA TextIs ==
  ASSUME NEW events \in Lists
  PROVE  \E f : Says(events, f) /\ TextIn(events) = f[Len(events)]
<1> DEFINE N == Len(events)
           none == <<>>
           next == [n \in 1 .. N |-> [v \in Words |-> v \o Saying(events[n])]]
           Body(g) == [n \in 0 .. N |-> IF n = 0 THEN none ELSE g[n - 1] \o Saying(events[n])]
<1>1. N \in Nat /\ \A n \in 1 .. N : Saying(events[n]) \in Words
  BY ListLength
<1>2. \A n \in 1 .. N : [v \in Words |-> v \o Saying(events[n])] \in [Words -> Words]
  BY <1>1, Joining
<1>3. next \in [1 .. N -> [Words -> Words]]
  BY <1>2
<1>4. PICK g \in [0 .. N -> Words] : g[0] = none /\ \A n \in 1 .. N : g[n] = next[n][g[n - 1]]
  <2>1. none \in Words
    BY EmptyWord
  <2>2. Stepwise(Words, N, none, next)
    BY <1>1, <1>3, <2>1 DEF Stepwise
  <2> HIDE DEF next, N, none
  <2> QED BY <2>2, StepByStep
<1>5. ASSUME NEW n \in 1 .. N PROVE g[n] = g[n - 1] \o Saying(events[n])
  <2>1. g[n - 1] \in Words
    BY <1>1
  <2> QED BY <1>4, <2>1
<1>6. Says(events, g)
  BY <1>4, <1>5 DEF Says
<1> DEFINE said == CHOOSE f : f = Body(f)
<1>7. TextIn(events) = said[N]
  BY DEF TextIn
<1> HIDE DEF none
<1>8. g = Body(g)
  <2>1. ASSUME NEW n \in 0 .. N PROVE g[n] = IF n = 0 THEN none ELSE g[n - 1] \o Saying(events[n])
    <3>1. CASE n = 0
      BY <1>4, <3>1
    <3>2. CASE n # 0
      <4>1. n \in 1 .. N
        BY <1>1, <3>2
      <4> QED BY <1>5, <3>2, <4>1
    <3> QED BY <3>1, <3>2
  <2> QED BY <2>1
<1>9. said = Body(said)
  <2> HIDE DEF Body
  <2> QED BY <1>8
<1> HIDE DEF said
<1>10. ASSUME NEW n \in 0 .. N
       PROVE  said[n] = IF n = 0 THEN none ELSE said[n - 1] \o Saying(events[n])
  BY <1>9
<1>11. GoAlike(said, g, N)
  <2>1. 0 \in 0 .. N
    BY <1>1
  <2>2. said[0] = g[0]
    BY <1>4, <1>10, <2>1
  <2>3. ASSUME NEW n \in 1 .. N, said[n - 1] = g[n - 1] PROVE said[n] = g[n]
    <3>1. n \in 0 .. N /\ n # 0
      BY <1>1
    <3>2. said[n] = said[n - 1] \o Saying(events[n])
      BY <1>10, <3>1
    <3> QED BY <1>5, <2>3, <3>2
  <2> QED BY <2>2, <2>3 DEF GoAlike
<1>12. said[N] = g[N]
  <2>1. \A n \in 0 .. N : said[n] = g[n]
    <3> HIDE DEF N
    <3> QED BY <1>1, <1>11, Alike
  <2> QED BY <1>1, <2>1
<1> QED BY <1>6, <1>7, <1>12

LEMMA TextIsWord ==
  ASSUME NEW events \in Lists
  PROVE  TextIn(events) \in Words
<1>1. PICK f : Says(events, f) /\ TextIn(events) = f[Len(events)]
  BY TextIs
<1>2. Len(events) \in 0 .. Len(events)
  BY ListLength
<1> QED BY <1>1, <1>2 DEF Says

LEMMA SayAlike ==
  ASSUME NEW events \in Lists, NEW others \in Lists, NEW m \in Nat,
         m <= Len(events), m <= Len(others),
         \A n \in 1 .. m : Saying(events[n]) = Saying(others[n]),
         NEW f, NEW g, Says(events, f), Says(others, g)
  PROVE  f[m] = g[m]
<1>1. f[0] = g[0]
  BY DEF Says
<1>2. ASSUME NEW n \in 1 .. m, f[n - 1] = g[n - 1] PROVE f[n] = g[n]
  <2>1. n \in 1 .. Len(events) /\ n \in 1 .. Len(others)
    BY ListLength
  <2>2. f[n] = f[n - 1] \o Saying(events[n]) /\ g[n] = g[n - 1] \o Saying(others[n])
    BY <2>1 DEF Says
  <2> QED BY <1>2, <2>2
<1>3. GoAlike(f, g, m)
  BY <1>1, <1>2 DEF GoAlike
<1>4. \A n \in 0 .. m : f[n] = g[n]
  BY <1>3, Alike
<1> QED BY <1>4

\* The last event may add to what the others say.
LEMMA TextLast ==
  ASSUME NEW events \in Lists, NEW others \in Lists, NEW m \in Nat,
         Len(events) = m, Len(others) = m + 1,
         \A n \in 1 .. m : Saying(events[n]) = Saying(others[n])
  PROVE  TextIn(others) = TextIn(events) \o Saying(others[m + 1])
<1>1. PICK f : Says(events, f) /\ TextIn(events) = f[m]
  BY TextIs
<1>2. PICK g : Says(others, g) /\ TextIn(others) = g[m + 1]
  BY TextIs
<1>3. f[m] = g[m]
  BY <1>1, <1>2, SayAlike
<1>4. m + 1 \in 1 .. Len(others) /\ (m + 1) - 1 = m
  OBVIOUS
<1>5. g[m + 1] = g[(m + 1) - 1] \o Saying(others[m + 1])
  BY <1>2, <1>4 DEF Says
<1> QED BY <1>1, <1>2, <1>3, <1>4, <1>5

LEMMA TextOfNone ==
  ASSUME NEW events \in Lists, Len(events) = 0
  PROVE  TextIn(events) = <<>>
  BY TextIs DEF Says

Detectors == {DetectorAfter(s) : s \in Words}
Strippers == {StripperAfter(s) : s \in Words}
States == [det : Detectors, strip : Strippers, block : {"none", "think", "text"},
           index : Nat, sent : {list \in Lists : Len(list) >= 1}]

\* Everything but the list is as it was.
Besides(a, b) == /\ b.det = a.det /\ b.strip = a.strip
                 /\ b.block = a.block /\ b.index = a.index

\* The list t is s and an event of that kind and at that index.
Grows(s, t, kind, at) ==
  /\ Len(t) = Len(s) + 1
  /\ \A n \in 1 .. Len(s) : t[n].kind = s[n].kind /\ t[n].at = s[n].at
  /\ t[Len(s) + 1].kind = kind /\ t[Len(s) + 1].at = at

\* The lists differ in what is said at most.
Like(s, t) ==
  /\ Len(t) = Len(s)
  /\ \A n \in 1 .. Len(s) : t[n].kind = s[n].kind /\ t[n].at = s[n].at

Announces(list) == \E n \in DOMAIN list : list[n].kind = "calls"

LEMMA TheKinds ==
  /\ "start" \in Kinds /\ "text" \in Kinds /\ "thought" \in Kinds /\ "signature" \in Kinds
  /\ "calls" \in Kinds /\ "open think" \in Kinds /\ "open text" \in Kinds /\ "close" \in Kinds
  /\ "finish stop" \in Kinds /\ "finish tool_calls" \in Kinds /\ "error" \in Kinds /\ "done" \in Kinds
  BY DEF Kinds

LEMMA AnEvent ==
  ASSUME NEW kind \in Kinds, NEW at \in Nat, NEW body \in Words
  PROVE  /\ Event(kind, at, body) \in Events
         /\ Event(kind, at, body).kind = kind /\ Event(kind, at, body).at = at
         /\ Event(kind, at, body).body = body
  BY DEF Event, Events

LEMMA StateIs ==
  ASSUME NEW a \in States
  PROVE  /\ a.det \in Detectors /\ a.strip \in Strippers
         /\ a.block \in {"none", "think", "text"} /\ a.index \in Nat
         /\ a.sent \in Lists /\ Len(a.sent) >= 1 /\ Len(a.sent) \in Nat
<1>1. /\ a.det \in Detectors /\ a.strip \in Strippers
      /\ a.block \in {"none", "think", "text"} /\ a.index \in Nat
      /\ a.sent \in Lists /\ Len(a.sent) >= 1
  BY DEF States
<1> QED BY <1>1, ListLength

LEMMA WithList ==
  ASSUME NEW a \in States, NEW list \in Lists, Len(list) >= 1
  PROVE  /\ [a EXCEPT !.sent = list] \in States
         /\ Besides(a, [a EXCEPT !.sent = list])
         /\ [a EXCEPT !.sent = list].sent = list
  BY DEF States, Besides

LEMMA EmitIs ==
  ASSUME NEW a \in States, NEW kind \in Kinds, NEW body \in Words
  PROVE  LET e == Emit(a, kind, body)
         IN /\ e \in States /\ Besides(a, e)
            /\ Grows(a.sent, e.sent, kind, a.index)
            /\ TextIn(e.sent) = TextIn(a.sent) \o (IF kind = "text" THEN body ELSE <<>>)
            /\ Announces(e.sent) <=> Announces(a.sent) \/ kind = "calls"
<1> DEFINE event == Event(kind, a.index, body)
           list == Append(a.sent, event)
           e == Emit(a, kind, body)
           m == Len(a.sent)
<1>1. a.sent \in Lists /\ m \in Nat /\ m >= 1 /\ a.index \in Nat
  BY StateIs
<1>2. event \in Events /\ event.kind = kind /\ event.at = a.index /\ event.body = body
  BY <1>1, AnEvent
<1> HIDE DEF event
<1>3. /\ list \in Lists /\ Len(list) = m + 1
      /\ \A n \in 1 .. m : list[n] = a.sent[n]
      /\ list[m + 1] = event
  BY <1>1, <1>2, AppendProperties DEF Lists
<1>4. e = [a EXCEPT !.sent = list]
  BY DEF Emit, event
<1> HIDE DEF list, e
<1>5. Len(list) >= 1
  <2> HIDE DEF m
  <2> QED BY <1>1, <1>3
<1>6. e \in States /\ Besides(a, e) /\ e.sent = list
  BY <1>3, <1>4, <1>5, WithList
<1>7. Grows(a.sent, list, kind, a.index)
  BY <1>2, <1>3 DEF Grows
<1>8. TextIn(list) = TextIn(a.sent) \o Saying(event)
  <2> HIDE DEF m
  <2>1. m = Len(a.sent)
    BY DEF m
  <2>2. \A n \in 1 .. m : Saying(a.sent[n]) = Saying(list[n])
    BY <1>3
  <2>3. TextIn(list) = TextIn(a.sent) \o Saying(list[m + 1])
    BY <1>1, <1>3, <2>1, <2>2, TextLast
  <2> QED BY <1>3, <2>3
<1>9. Saying(event) = IF kind = "text" THEN body ELSE <<>>
  BY <1>2 DEF Saying
<1>10. Announces(list) <=> Announces(a.sent) \/ kind = "calls"
  <2> HIDE DEF m
  <2>1. DOMAIN list = 1 .. m + 1 /\ DOMAIN a.sent = 1 .. m
    BY <1>1, <1>3, ListLength DEF m
  <2>2. ASSUME Announces(list) PROVE Announces(a.sent) \/ kind = "calls"
    <3>1. PICK n \in 1 .. m + 1 : list[n].kind = "calls"
      BY <2>1, <2>2 DEF Announces
    <3>2. n \in 1 .. m \/ n = m + 1
      BY <1>1
    <3>3. CASE n \in 1 .. m
      BY <1>3, <2>1, <3>1, <3>3 DEF Announces
    <3>4. CASE n = m + 1
      BY <1>2, <1>3, <3>1, <3>4
    <3> QED BY <3>2, <3>3, <3>4
  <2>3. ASSUME Announces(a.sent) PROVE Announces(list)
    <3>1. PICK n \in 1 .. m : a.sent[n].kind = "calls"
      BY <2>1, <2>3 DEF Announces
    <3>2. n \in 1 .. m + 1
      BY <1>1
    <3> QED BY <1>3, <2>1, <3>1, <3>2 DEF Announces
  <2>4. ASSUME kind = "calls" PROVE Announces(list)
    <3>1. m + 1 \in 1 .. m + 1
      BY <1>1
    <3> QED BY <1>2, <1>3, <2>1, <2>4, <3>1 DEF Announces
  <2> QED BY <2>2, <2>3, <2>4
<1> QED BY <1>6, <1>7, <1>8, <1>9, <1>10 DEF e

\* The last event of a list says more.
LEMMA SaysMore ==
  ASSUME NEW list \in Lists, NEW m \in Nat, m = Len(list), m >= 1,
         list[m].kind = "text", NEW body \in Words
  PROVE  LET more == [list EXCEPT ![m] = Event("text", list[m].at, list[m].body \o body)]
         IN /\ more \in Lists /\ Like(list, more)
            /\ TextIn(more) = TextIn(list) \o body
            /\ Announces(more) <=> Announces(list)
<1> DEFINE event == Event("text", list[m].at, list[m].body \o body)
           more == [list EXCEPT ![m] = event]
           others == SubSeq(list, 1, m - 1)
<1>1. DOMAIN list = 1 .. m /\ \A n \in 1 .. m : list[n] \in Events
  BY ListLength
<1>2. list[m] \in Events /\ list[m].at \in Nat /\ list[m].body \in Words /\ m \in 1 .. m
  BY <1>1 DEF Events
<1>3. event \in Events /\ event.kind = "text" /\ event.at = list[m].at /\ event.body = list[m].body \o body
  <2>1. list[m].body \o body \in Words
    BY <1>2, Joining
  <2>2. "text" \in Kinds
    BY TheKinds
  <2> DEFINE more_body == list[m].body \o body
  <2> HIDE DEF more_body
  <2>3. more_body \in Words
    BY <2>1 DEF more_body
  <2> DEFINE kind == "text"
  <2>4. kind = "text" /\ kind \in Kinds
    BY <2>2
  <2> HIDE DEF kind
  <2>5. event = Event(kind, list[m].at, more_body)
    BY <2>4 DEF more_body
  <2> HIDE DEF event
  <2>6. event \in Events /\ event.kind = kind /\ event.at = list[m].at /\ event.body = more_body
    BY <1>2, <2>3, <2>4, <2>5, AnEvent
  <2> QED BY <2>4, <2>6 DEF more_body
<1> HIDE DEF event
<1>4. /\ more \in Lists /\ Len(more) = m
      /\ \A n \in 1 .. m : more[n] = IF n = m THEN event ELSE list[n]
  BY <1>2, <1>3, ExceptSeq DEF Lists
<1> HIDE DEF more
<1>5. Like(list, more)
  BY <1>3, <1>4 DEF Like
<1>6. /\ others \in Lists /\ Len(others) = m - 1
      /\ \A n \in 1 .. m - 1 : others[n] = list[n]
  <2>1. \A n \in 1 .. m - 1 : list[n] \in Events
    BY <1>1
  <2>2. m - 1 \in Int /\ 1 \in Int
    OBVIOUS
  <2>3. /\ others \in Lists
        /\ Len(others) = IF 1 <= m - 1 THEN (m - 1) - 1 + 1 ELSE 0
        /\ \A n \in 1 .. (m - 1) - 1 + 1 : others[n] = list[1 + n - 1]
    BY <2>1, <2>2, SubSeqProperties DEF Lists
  <2>4. (IF 1 <= m - 1 THEN (m - 1) - 1 + 1 ELSE 0) = m - 1
    OBVIOUS
  <2> HIDE DEF others
  <2>5. \A n \in 1 .. m - 1 : n \in 1 .. (m - 1) - 1 + 1 /\ 1 + n - 1 = n
    OBVIOUS
  <2> QED BY <2>3, <2>4, <2>5
<1> HIDE DEF others
<1>7. m - 1 \in Nat /\ (m - 1) + 1 = m /\ \A n \in 1 .. m - 1 : n \in 1 .. m /\ n # m
  OBVIOUS
<1>8. TextIn(list) = TextIn(others) \o Saying(list[m])
  <2>1. \A n \in 1 .. m - 1 : Saying(others[n]) = Saying(list[n])
    BY <1>6
  <2> QED BY <1>6, <1>7, <2>1, TextLast
<1>9. TextIn(more) = TextIn(others) \o Saying(more[m])
  <2>1. \A n \in 1 .. m - 1 : Saying(others[n]) = Saying(more[n])
    BY <1>4, <1>6, <1>7
  <2> QED BY <1>4, <1>6, <1>7, <2>1, TextLast
<1>10. Saying(list[m]) = list[m].body /\ Saying(more[m]) = list[m].body \o body
  BY <1>2, <1>3, <1>4 DEF Saying
<1>11. TextIn(more) = TextIn(list) \o body
  <2>1. TextIn(others) \in Words
    BY <1>6, TextIsWord
  <2>2. (TextIn(others) \o list[m].body) \o body = TextIn(others) \o (list[m].body \o body)
    BY <1>2, <2>1, Associative
  <2> QED BY <1>8, <1>9, <1>10, <2>2
<1>12. Announces(more) <=> Announces(list)
  <2>1. DOMAIN more = 1 .. m
    BY <1>4, ListLength
  <2>2. \A n \in 1 .. m : more[n].kind = list[n].kind
    BY <1>3, <1>4
  <2> QED BY <1>1, <2>1, <2>2 DEF Announces
<1> QED BY <1>4, <1>5, <1>11, <1>12 DEF more, event

LEMMA EmitTextIs ==
  ASSUME NEW a \in States, NEW body \in Words
  PROVE  LET e == EmitText(a, body)
         IN /\ e \in States /\ Besides(a, e)
            /\ Like(a.sent, e.sent) \/ Grows(a.sent, e.sent, "text", a.index)
            /\ TextIn(e.sent) = TextIn(a.sent) \o body
            /\ Announces(e.sent) <=> Announces(a.sent)
<1> DEFINE e == EmitText(a, body)
           m == Len(a.sent)
           last == a.sent[m]
<1>1. a.sent \in Lists /\ m \in Nat /\ m >= 1 /\ a.index \in Nat
  BY StateIs
<1>2. CASE body = <<>>
  <2>1. e = a
    BY <1>2 DEF EmitText
  <2>2. TextIn(a.sent) \o <<>> = TextIn(a.sent)
    BY <1>1, TextIsWord, NothingJoined
  <2>3. Like(a.sent, a.sent) /\ Besides(a, a)
    BY DEF Like, Besides
  <2> HIDE DEF e
  <2> QED BY <1>2, <2>1, <2>2, <2>3 DEF e
<1>3. CASE body # <<>> /\ last.kind = "text" /\ last.at = a.index
  <2> DEFINE more == [a.sent EXCEPT ![m] = Event("text", last.at, last.body \o body)]
  <2>1. e = [a EXCEPT !.sent[m] = Event("text", a.index, last.body \o body)]
    BY <1>3 DEF EmitText
  <2>2. e = [a EXCEPT !.sent = more]
    BY <1>3, <2>1
  <2>3. /\ more \in Lists /\ Like(a.sent, more)
        /\ TextIn(more) = TextIn(a.sent) \o body
        /\ Announces(more) <=> Announces(a.sent)
    BY <1>1, <1>3, SaysMore
  <2> HIDE DEF e, more
  <2>4. Len(more) >= 1
    BY <1>1, <2>3 DEF Like
  <2>5. e \in States /\ Besides(a, e) /\ e.sent = more
    BY <2>2, <2>3, <2>4, WithList
  <2> QED BY <2>3, <2>5 DEF e
<1>4. CASE body # <<>> /\ ~(last.kind = "text" /\ last.at = a.index)
  <2>1. e = Emit(a, "text", body)
    BY <1>4 DEF EmitText
  <2> DEFINE kind == "text"
  <2>2. kind \in Kinds /\ kind # "calls" /\ kind = "text"
    BY TheKinds
  <2> HIDE DEF kind
  <2> DEFINE f == Emit(a, kind, body)
  <2>3. /\ f \in States /\ Besides(a, f)
        /\ Grows(a.sent, f.sent, kind, a.index)
        /\ TextIn(f.sent) = TextIn(a.sent) \o (IF kind = "text" THEN body ELSE <<>>)
        /\ Announces(f.sent) <=> Announces(a.sent) \/ kind = "calls"
    BY <2>2, EmitIs
  <2>4. e = f
    BY <2>1, <2>2
  <2> HIDE DEF f, e
  <2> QED BY <2>2, <2>3, <2>4 DEF e
<1> QED BY <1>2, <1>3, <1>4

-----------------------------------------------------------------------------
(* The adapters follow the text: after any chunks the filters' states, the *)
(* text written and the calls announced are those of the text as a whole.  *)

LEMMA WithFilter ==
  ASSUME NEW a \in States, NEW t \in Strippers
  PROVE  LET b == [a EXCEPT !.strip = t]
         IN /\ b \in States /\ b.det = a.det /\ b.strip = t
            /\ b.block = a.block /\ b.index = a.index /\ b.sent = a.sent
  BY DEF States

LEMMA WithDetector ==
  ASSUME NEW a \in States, NEW t \in Detectors
  PROVE  LET b == [a EXCEPT !.det = t]
         IN /\ b \in States /\ b.det = t /\ b.strip = a.strip
            /\ b.block = a.block /\ b.index = a.index /\ b.sent = a.sent
  BY DEF States

LEMMA WithBlock ==
  ASSUME NEW a \in States, NEW t \in {"none", "think", "text"}
  PROVE  LET b == [a EXCEPT !.block = t]
         IN /\ b \in States /\ b.det = a.det /\ b.strip = a.strip
            /\ b.block = t /\ b.index = a.index /\ b.sent = a.sent
  BY DEF States

LEMMA WithIndex ==
  ASSUME NEW a \in States
  PROVE  LET b == [a EXCEPT !.index = @ + 1]
         IN /\ b \in States /\ b.det = a.det /\ b.strip = a.strip
            /\ b.block = a.block /\ b.index = a.index + 1 /\ b.sent = a.sent
  BY DEF States

\* The adapter has written what the stripper passes on of P.
Reads(a, P) ==
  /\ a \in States /\ P \in Words
  /\ a.strip = StripperAfter(P) /\ TextIn(a.sent) = Passed(P, Details)

\* From a to e text was written at most.
Speaks(a, e) ==
  /\ e.block = a.block /\ e.index = a.index
  /\ Like(a.sent, e.sent) \/ Grows(a.sent, e.sent, "text", a.index)
  /\ Announces(e.sent) <=> Announces(a.sent)

LEMMA StripIs ==
  ASSUME NEW a, NEW P, Reads(a, P), NEW content \in Words
  PROVE  LET e == Strip(a, content)
         IN Reads(e, P \o content) /\ Speaks(a, e) /\ e.det = a.det
<1> DEFINE pushed == StripperPush(a.strip, content)
           b == [a EXCEPT !.strip = pushed.strip]
           e == Strip(a, content)
           Pc == P \o content
<1>1. /\ a \in States /\ P \in Words
      /\ a.strip = StripperAfter(P) /\ TextIn(a.sent) = Passed(P, Details)
  BY DEF Reads
<1>2. Pc \in Words
  BY <1>1, Joining
<1>3. /\ pushed.strip = StripperAfter(Pc)
      /\ pushed.safe \in Words
      /\ Passed(Pc, Details) = Passed(P, Details) \o pushed.safe
  BY <1>1, StripperFollows
<1>4. e = EmitText(b, pushed.safe)
  BY DEF Strip
<1> HIDE DEF pushed, Pc, e
<1>5. pushed.strip \in Strippers
  BY <1>2, <1>3 DEF Strippers
<1>6. /\ b \in States /\ b.det = a.det /\ b.strip = pushed.strip
      /\ b.block = a.block /\ b.index = a.index /\ b.sent = a.sent
  BY <1>1, <1>5, WithFilter
<1> HIDE DEF b
<1> DEFINE f == EmitText(b, pushed.safe)
<1>7. /\ f \in States /\ Besides(b, f)
      /\ Like(b.sent, f.sent) \/ Grows(b.sent, f.sent, "text", b.index)
      /\ TextIn(f.sent) = TextIn(b.sent) \o pushed.safe
      /\ Announces(f.sent) <=> Announces(b.sent)
  BY <1>3, <1>6, EmitTextIs
<1> HIDE DEF f
<1>8. e = f
  BY <1>4 DEF f
<1>9. Reads(e, Pc)
  BY <1>1, <1>2, <1>3, <1>6, <1>7, <1>8 DEF Reads, Besides
<1>10. e.block = a.block /\ e.index = a.index /\ e.det = a.det
  BY <1>6, <1>7, <1>8 DEF Besides
<1>11. Like(a.sent, e.sent) \/ Grows(a.sent, e.sent, "text", a.index)
  BY <1>6, <1>7, <1>8
<1>12. Announces(e.sent) <=> Announces(a.sent)
  BY <1>6, <1>7, <1>8
<1> QED BY <1>9, <1>10, <1>11, <1>12 DEF Speaks, e, Pc

\* What passes the detector, when function tools were injected.
Source(T) == IF api = "tools" THEN Passed(T, ToolOpen) ELSE T

\* The adapter after the text T, however it was cut.
Follows(a, T) ==
  /\ T \in Words
  /\ Reads(a, Source(T))
  /\ api = "tools" => a.det = DetectorAfter(T)
  /\ Announces(a.sent) <=> (api = "tools" /\ CallsIn(T) > 0)

LEMMA BlockIsWord ==
  ASSUME NEW s \in Words
  PROVE  DetectorAfter(s).block \in Words
<1> DEFINE R == From(s, IndexOf(s, ToolOpen))
           close == IndexOf(R, ToolClose)
           last == close + Len(ToolClose)
<1>1. CASE IndexOf(s, ToolOpen) = 0
  BY <1>1, EmptyWord DEF DetectorAfter
<1>2. CASE IndexOf(s, ToolOpen) # 0 /\ close = 0
  <2>1. InBlock(R).block = <<>>
    <3> HIDE DEF R
    <3> QED BY <1>2 DEF InBlock
  <2> QED BY <1>2, <2>1, DetectorIs, EmptyWord
<1>3. CASE IndexOf(s, ToolOpen) # 0 /\ close # 0
  <2>1. R \in Words /\ DetectorAfter(s) = InBlock(R)
    BY <1>3, DetectorIs
  <2> HIDE DEF R
  <2>2. InBlock(R).block = Before(R, last)
    BY <1>3 DEF InBlock
  <2>3. close \in Nat \ {0} /\ last <= Len(R) + 1
    BY <1>3, <2>1, IndexSpec, Tags
  <2> HIDE DEF close
  <2>4. last \in Nat \ {0}
    BY <2>3, Tags
  <2> HIDE DEF last
  <2> QED BY <2>1, <2>2, <2>3, <2>4, Parts
<1> QED BY <1>1, <1>2, <1>3

LEMMA CountIsNat ==
  ASSUME NEW s \in Words
  PROVE  ParseToolCalls(s) \in Nat
<1>1. Len(s) \in Nat /\ DOMAIN s = 1 .. Len(s)
  BY WordLength
<1>2. IsFiniteSet(1 .. Len(s))
  BY <1>1, FS_Interval
<1>3. IsFiniteSet({i \in DOMAIN s : s[i] = Call})
  BY <1>1, <1>2, FS_Subset
<1> QED BY <1>3, FS_CardinalityType DEF ParseToolCalls

LEMMA DetectIs ==
  ASSUME NEW a, NEW T, Follows(a, T), api = "tools", NEW content \in Words
  PROVE  Follows(Detect(a, content), T \o content)
<1> DEFINE pushed == DetectorPush(a.det, content)
           b == [a EXCEPT !.det = pushed.det]
           stripped == Strip(b, pushed.content)
           ready == a.det.state # "SEALED" /\ pushed.det.state = "SEALED"
           e == Detect(a, content)
           Tc == T \o content
           P == Passed(T, ToolOpen)
           n == ParseToolCalls(pushed.det.block)
<1>1. /\ T \in Words /\ Reads(a, P) /\ a.det = DetectorAfter(T)
      /\ Announces(a.sent) <=> CallsIn(T) > 0
  BY DEF Follows, Source
<1>2. Tc \in Words /\ a \in States
  BY <1>1, Joining DEF Reads
<1>3. /\ pushed.det = DetectorAfter(Tc)
      /\ pushed.content \in Words
      /\ Passed(Tc, ToolOpen) = P \o pushed.content
  BY <1>1, DetectorFollows
<1>4. e = IF ready /\ n > 0 THEN Emit(stripped, "calls", pushed.det.block) ELSE stripped
  BY DEF Detect
<1>5. n \in Nat /\ pushed.det.block \in Words
  <2> HIDE DEF pushed
  <2> QED BY <1>2, <1>3, BlockIsWord, CountIsNat
<1>6. CallsIn(Tc) = IF pushed.det.state = "SEALED" THEN n ELSE 0
  <2> HIDE DEF pushed
  <2> QED BY <1>2, <1>3, CallsAre
<1>7. CallsIn(T) = IF a.det.state = "SEALED" THEN ParseToolCalls(a.det.block) ELSE 0
  BY <1>1, CallsAre
<1>8. a.det.state = "SEALED" => pushed.det = a.det
  BY DEF DetectorPush
<1> HIDE DEF pushed, Tc, P
<1>9. pushed.det \in Detectors
  BY <1>2, <1>3 DEF Detectors
<1>10. /\ b \in States /\ b.det = pushed.det /\ b.strip = a.strip
       /\ b.block = a.block /\ b.index = a.index /\ b.sent = a.sent
  BY <1>2, <1>9, WithDetector
<1> HIDE DEF b
<1>11. Reads(b, P)
  BY <1>1, <1>10 DEF Reads
<1>12. /\ Reads(stripped, P \o pushed.content) /\ Speaks(b, stripped)
       /\ stripped.det = b.det
  BY <1>3, <1>11, StripIs
<1> HIDE DEF stripped, e, n
<1>13. /\ Reads(stripped, Passed(Tc, ToolOpen)) /\ stripped.det = DetectorAfter(Tc)
       /\ Announces(stripped.sent) <=> CallsIn(T) > 0
  BY <1>1, <1>3, <1>10, <1>12 DEF Speaks
<1>14. CASE ready /\ n > 0
  <2> DEFINE kind == "calls"
             block1 == pushed.det.block
  <2>1. kind \in Kinds /\ kind = "calls" /\ kind # "text"
    BY TheKinds
  <2> HIDE DEF kind, block1
  <2> DEFINE f == Emit(stripped, kind, block1)
  <2>2. stripped \in States /\ block1 \in Words
    BY <1>5, <1>13 DEF Reads, block1
  <2>3. /\ f \in States /\ Besides(stripped, f)
        /\ TextIn(f.sent) = TextIn(stripped.sent) \o (IF kind = "text" THEN block1 ELSE <<>>)
        /\ Announces(f.sent) <=> Announces(stripped.sent) \/ kind = "calls"
    BY <2>1, <2>2, EmitIs
  <2> HIDE DEF f
  <2>4. e = f
    BY <1>4, <1>14, <2>1 DEF f, block1
  <2>5. TextIn(f.sent) = TextIn(stripped.sent)
    <3>1. stripped.sent \in Lists
      BY <2>2, StateIs
    <3>2. TextIn(stripped.sent) \o <<>> = TextIn(stripped.sent)
      BY <3>1, TextIsWord, NothingJoined
    <3> QED BY <2>1, <2>3, <3>2
  <2>6. Reads(e, Passed(Tc, ToolOpen)) /\ e.det = DetectorAfter(Tc)
    BY <1>13, <2>3, <2>4, <2>5 DEF Reads, Besides
  <2>7. Announces(e.sent) /\ CallsIn(Tc) > 0
    BY <1>6, <1>14, <2>1, <2>3, <2>4
  <2> QED BY <1>2, <2>6, <2>7 DEF Follows, Source, Tc, e
<1>15. CASE ~(ready /\ n > 0)
  <2>1. e = stripped
    BY <1>4, <1>15
  <2>2. CallsIn(T) > 0 <=> CallsIn(Tc) > 0
    <3>1. CASE a.det.state = "SEALED"
      BY <1>6, <1>7, <1>8, <3>1 DEF n
    <3>2. CASE a.det.state # "SEALED"
      <4>1. CallsIn(T) = 0
        BY <1>7, <3>2
      <4>2. CallsIn(Tc) = 0
        BY <1>5, <1>6, <1>15, <3>2
      <4> QED BY <4>1, <4>2
    <3> QED BY <3>1, <3>2
  <2>3. /\ Reads(e, Passed(Tc, ToolOpen)) /\ e.det = DetectorAfter(Tc)
        /\ Announces(e.sent) <=> CallsIn(Tc) > 0
    BY <1>13, <2>1, <2>2
  <2> QED BY <1>2, <2>3 DEF Follows, Source, Tc, e
<1> QED BY <1>14, <1>15

LEMMA ChunkIs ==
  ASSUME NEW chunk \in Chunks
  PROVE  /\ chunk.told \in BOOLEAN /\ chunk.thought \in BOOLEAN /\ chunk.content \in Words
         /\ ~chunk.told => chunk.content = <<>> /\ chunk.thought
<1>1. PICK delta \in Deltas : chunk = MapUpstreamDelta(delta)
  BY DEF Chunks
<1>2. /\ delta.fields \in (SUBSET {"content", "reasoning", "summary"}) \ {{}}
      /\ delta.content \in Pieces \cup {<<>>}
  BY DEF Deltas
<1>3. delta.content \in Words
  BY <1>2, PiecesAssumption, EmptyWord DEF Words
<1>4. /\ chunk.told = ("content" \in delta.fields)
      /\ chunk.content = IF "content" \in delta.fields THEN delta.content ELSE <<>>
      /\ chunk.thought = Reasons(delta)
  BY <1>1 DEF MapUpstreamDelta
<1>5. "content" \notin delta.fields => Reasons(delta)
  <2> SUFFICES ASSUME "content" \notin delta.fields PROVE Reasons(delta)
    OBVIOUS
  <2>1. PICK x \in delta.fields : TRUE
    BY <1>2
  <2>2. x \in {"content", "reasoning", "summary"}
    BY <1>2, <2>1
  <2>3. x \in {"summary", "reasoning"}
    BY <2>1, <2>2
  <2> QED BY <2>1, <2>3 DEF Reasons
<1>6. Reasons(delta) \in BOOLEAN
  BY DEF Reasons
<1>7. chunk.told \in BOOLEAN /\ chunk.thought \in BOOLEAN
  BY <1>4, <1>6
<1>8. chunk.content \in Words
  BY <1>3, <1>4, EmptyWord
<1>9. ASSUME ~chunk.told PROVE chunk.content = <<>> /\ chunk.thought
  BY <1>4, <1>5, <1>9
<1> QED BY <1>7, <1>8, <1>9

\* The route matters only by what the filters get.
LEMMA SourceJoins ==
  ASSUME NEW T \in Words, NEW c \in Words, api # "tools"
  PROVE  Source(T) = T /\ Source(T \o c) = T \o c /\ T \o c \in Words
  BY Joining DEF Source

LEMMA EmitFollows ==
  ASSUME NEW a, NEW T, Follows(a, T), NEW kind \in Kinds \ {"text", "calls"}, NEW body \in Words
  PROVE  LET e == Emit(a, kind, body)
         IN /\ Follows(e, T) /\ e.block = a.block /\ e.index = a.index
            /\ Grows(a.sent, e.sent, kind, a.index)
<1> DEFINE e == Emit(a, kind, body)
<1>1. a \in States
  BY DEF Follows, Reads
<1>2. kind \in Kinds /\ kind # "text" /\ kind # "calls"
  OBVIOUS
<1>3. /\ e \in States /\ Besides(a, e)
      /\ Grows(a.sent, e.sent, kind, a.index)
      /\ TextIn(e.sent) = TextIn(a.sent) \o (IF kind = "text" THEN body ELSE <<>>)
      /\ Announces(e.sent) <=> Announces(a.sent) \/ kind = "calls"
  BY <1>1, <1>2, EmitIs
<1>4. TextIn(a.sent) \o <<>> = TextIn(a.sent)
  BY <1>1, StateIs, TextIsWord, NothingJoined
<1> HIDE DEF e
<1>5. Reads(e, Source(T))
  BY <1>2, <1>3, <1>4 DEF Follows, Reads, Besides
<1>6. Follows(e, T)
  BY <1>2, <1>3, <1>5 DEF Follows, Besides
<1>7. e.block = a.block /\ e.index = a.index
  BY <1>3 DEF Besides
<1> QED BY <1>3, <1>6, <1>7 DEF e

LEMMA EmitTextFollows ==
  ASSUME NEW a, NEW P, Reads(a, P), NEW t \in Strippers, NEW body \in Words
  PROVE  LET e == EmitText([a EXCEPT !.strip = t], body)
         IN e \in States /\ Speaks(a, e) /\ TextIn(e.sent) = TextIn(a.sent) \o body
<1> DEFINE b == [a EXCEPT !.strip = t]
           e == EmitText(b, body)
<1>1. a \in States
  BY DEF Reads
<1>2. /\ b \in States /\ b.block = a.block /\ b.index = a.index /\ b.sent = a.sent
  BY <1>1, WithFilter
<1> HIDE DEF b
<1>3. /\ e \in States /\ Besides(b, e)
      /\ Like(b.sent, e.sent) \/ Grows(b.sent, e.sent, "text", b.index)
      /\ TextIn(e.sent) = TextIn(b.sent) \o body
      /\ Announces(e.sent) <=> Announces(b.sent)
  BY <1>2, EmitTextIs
<1> HIDE DEF e
<1>4. Speaks(a, e)
  BY <1>2, <1>3 DEF Speaks, Besides
<1> QED BY <1>2, <1>3, <1>4 DEF e, b

LEMMA StripFollows ==
  ASSUME NEW a, NEW T, Follows(a, T), api # "tools", NEW content \in Words
  PROVE  LET e == Strip(a, content)
         IN Follows(e, T \o content) /\ Speaks(a, e)
<1> DEFINE e == Strip(a, content)
<1>1. T \in Words /\ Reads(a, T) /\ ~Announces(a.sent)
  BY DEF Follows, Source
<1>2. Reads(e, T \o content) /\ Speaks(a, e)
  BY <1>1, StripIs
<1>3. T \o content \in Words
  BY <1>1, Joining
<1> HIDE DEF e
<1>4. Follows(e, T \o content)
  BY <1>1, <1>2, <1>3 DEF Follows, Source, Speaks
<1> QED BY <1>2, <1>4 DEF e

LEMMA BlockFollows ==
  ASSUME NEW a, NEW T, Follows(a, T), NEW b, b \in States, b.det = a.det, b.strip = a.strip, b.sent = a.sent
  PROVE  Follows(b, T)
  BY DEF Follows, Reads

LEMMA OpenAiFollows ==
  ASSUME NEW a, NEW T, Follows(a, T), NEW chunk \in Chunks
  PROVE  Follows(OpenAiChunk(a, chunk), T \o chunk.content)
<1>1. /\ chunk.told \in BOOLEAN /\ chunk.thought \in BOOLEAN /\ chunk.content \in Words
      /\ ~chunk.told => chunk.content = <<>> /\ chunk.thought
  BY ChunkIs
<1> DEFINE thought == IF chunk.thought THEN Emit(a, "thought", <<>>) ELSE a
           content == chunk.content
<1>2. Follows(thought, T)
  <2> DEFINE kind == "thought"
             none == <<>>
  <2>1. kind \in Kinds \ {"text", "calls"} /\ none \in Words
    BY TheKinds, EmptyWord
  <2> HIDE DEF kind, none
  <2>2. Follows(Emit(a, kind, none), T)
    BY <2>1, EmitFollows
  <2> QED BY <2>2 DEF kind, none
<1>3. OpenAiChunk(a, chunk) = IF ~chunk.told THEN thought
                              ELSE IF api = "tools" THEN Detect(thought, content) ELSE Strip(thought, content)
  BY <1>1 DEF OpenAiChunk
<1> HIDE DEF thought, content
<1>4. T \in Words /\ content \in Words
  BY <1>1 DEF Follows, content
<1>5. CASE ~chunk.told
  <2>1. T \o content = T
    BY <1>1, <1>4, <1>5, NothingJoined DEF content
  <2> QED BY <1>2, <1>3, <1>5, <2>1 DEF content
<1>6. CASE chunk.told /\ api = "tools"
  <2>1. Follows(Detect(thought, content), T \o content)
    BY <1>2, <1>4, <1>6, DetectIs
  <2> QED BY <1>3, <1>6, <2>1 DEF content
<1>7. CASE chunk.told /\ api # "tools"
  <2>1. Follows(Strip(thought, content), T \o content)
    BY <1>2, <1>4, <1>7, StripFollows
  <2> QED BY <1>3, <1>7, <2>1 DEF content
<1> QED BY <1>1, <1>5, <1>6, <1>7

LEMMA OpenBlockFollows ==
  ASSUME NEW a, NEW T, Follows(a, T), NEW kind \in {"think", "text"}
  PROVE  LET e == OpenBlock(a, kind)
         IN /\ Follows(e, T) /\ e.block = kind /\ e.index = a.index
            /\ Grows(a.sent, e.sent, Opens[kind], a.index)
<1> DEFINE opens == Opens[kind]
           none == <<>>
           f == Emit(a, opens, none)
           e == [f EXCEPT !.block = kind]
<1>1. opens \in Kinds \ {"text", "calls"} /\ none \in Words
  <2>1. opens = "open think" \/ opens = "open text"
    <3>1. CASE kind = "think"
      BY <3>1 DEF Opens
    <3>2. CASE kind = "text"
      BY <3>2 DEF Opens
    <3> QED BY <3>1, <3>2
  <2> HIDE DEF opens
  <2>2. opens \in Kinds /\ opens # "text" /\ opens # "calls"
    BY <2>1, TheKinds
  <2> QED BY <2>2, EmptyWord
<1>2. OpenBlock(a, kind) = e
  BY DEF OpenBlock
<1> HIDE DEF opens, none
<1>3. /\ Follows(f, T) /\ f.block = a.block /\ f.index = a.index
      /\ Grows(a.sent, f.sent, opens, a.index)
  BY <1>1, EmitFollows
<1> HIDE DEF f
<1>4. f \in States /\ kind \in {"none", "think", "text"}
  BY <1>3 DEF Follows, Reads
<1>5. /\ e \in States /\ e.det = f.det /\ e.strip = f.strip
      /\ e.block = kind /\ e.index = f.index /\ e.sent = f.sent
  BY <1>4, WithBlock
<1> HIDE DEF e
<1>6. Follows(e, T)
  BY <1>3, <1>5, BlockFollows
<1>7. Grows(a.sent, e.sent, opens, a.index)
  BY <1>3, <1>5
<1> QED BY <1>2, <1>3, <1>5, <1>6, <1>7 DEF opens

LEMMA CloseThinkingFollows ==
  ASSUME NEW a, NEW T, Follows(a, T)
  PROVE  LET e == CloseThinking(a)
         IN /\ Follows(e, T) /\ e.block = a.block /\ e.index = a.index + 1
            /\ \E mid \in Lists : /\ Grows(a.sent, mid, "signature", a.index)
                                  /\ Grows(mid, e.sent, "close", a.index)
<1> DEFINE first == "signature"
           second == "close"
           none == <<>>
           f == Emit(a, first, none)
           g == Emit(f, second, none)
           e == [g EXCEPT !.index = @ + 1]
<1>1. /\ first \in Kinds \ {"text", "calls"} /\ second \in Kinds \ {"text", "calls"}
      /\ none \in Words
  BY TheKinds, EmptyWord
<1>2. CloseThinking(a) = e
  BY DEF CloseThinking
<1> HIDE DEF first, second, none
<1>3. /\ Follows(f, T) /\ f.block = a.block /\ f.index = a.index
      /\ Grows(a.sent, f.sent, first, a.index)
  BY <1>1, EmitFollows
<1> HIDE DEF f
<1>4. /\ Follows(g, T) /\ g.block = f.block /\ g.index = f.index
      /\ Grows(f.sent, g.sent, second, f.index)
  BY <1>1, <1>3, EmitFollows
<1> HIDE DEF g
<1>5. f \in States /\ g \in States
  BY <1>3, <1>4 DEF Follows, Reads
<1>6. /\ e \in States /\ e.det = g.det /\ e.strip = g.strip
      /\ e.block = g.block /\ e.index = g.index + 1 /\ e.sent = g.sent
  BY <1>5, WithIndex
<1> HIDE DEF e
<1>7. Follows(e, T)
  BY <1>4, <1>6, BlockFollows
<1>8. /\ f.sent \in Lists /\ Grows(a.sent, f.sent, first, a.index)
      /\ Grows(f.sent, e.sent, second, a.index)
  BY <1>3, <1>4, <1>5, <1>6, StateIs
<1>9. \E mid \in Lists : Grows(a.sent, mid, first, a.index) /\ Grows(mid, e.sent, second, a.index)
  BY <1>8
<1>10. e.block = a.block /\ e.index = a.index + 1
  BY <1>3, <1>4, <1>6
<1> QED BY <1>2, <1>7, <1>9, <1>10 DEF first, second

LEMMA StartTextFollows ==
  ASSUME NEW a, NEW T, Follows(a, T)
  PROVE  LET e == StartText(a)
         IN Follows(e, T) /\ e.block = "text"
<1> DEFINE kind == "text"
           e == StartText(a)
<1>1. a \in States /\ a.block \in {"none", "think", "text"}
  BY StateIs DEF Follows, Reads
<1>2. kind \in {"think", "text"}
  OBVIOUS
<1> HIDE DEF kind
<1>3. CASE a.block = "none"
  <2>1. e = OpenBlock(a, kind)
    BY <1>3 DEF StartText, kind
  <2> HIDE DEF e
  <2> QED BY <1>2, <2>1, OpenBlockFollows DEF e, kind
<1>4. CASE a.block = "think"
  <2> DEFINE c == CloseThinking(a)
  <2>1. e = OpenBlock(c, kind)
    BY <1>4 DEF StartText, kind
  <2>2. Follows(c, T)
    BY CloseThinkingFollows
  <2> HIDE DEF e, c
  <2> QED BY <1>2, <2>1, <2>2, OpenBlockFollows DEF e, kind
<1>5. CASE a.block = "text"
  BY <1>5 DEF StartText
<1> QED BY <1>1, <1>3, <1>4, <1>5

LEMMA StartThinkingFollows ==
  ASSUME NEW a, NEW T, Follows(a, T)
  PROVE  LET e == StartThinking(a)
         IN Follows(e, T) /\ e.block = "think"
<1> DEFINE kind == "think"
           e == StartThinking(a)
<1>1. a \in States /\ a.block \in {"none", "think", "text"}
  BY StateIs DEF Follows, Reads
<1>2. kind \in {"think", "text"}
  OBVIOUS
<1> HIDE DEF kind
<1>3. CASE a.block = "none"
  <2>1. e = OpenBlock(a, kind)
    BY <1>3 DEF StartThinking, kind
  <2> HIDE DEF e
  <2> QED BY <1>2, <2>1, OpenBlockFollows DEF e, kind
<1>4. CASE a.block # "none"
  <2> DEFINE b == [a EXCEPT !.block = kind]
  <2>1. e = b
    BY <1>4 DEF StartThinking, kind
  <2>2. /\ b \in States /\ b.det = a.det /\ b.strip = a.strip
        /\ b.block = kind /\ b.sent = a.sent
    <3>1. kind \in {"none", "think", "text"}
      BY <1>2
    <3> QED BY <1>1, <3>1, WithBlock
  <2> HIDE DEF b, e
  <2>3. Follows(b, T)
    BY <2>2, BlockFollows
  <2> QED BY <2>1, <2>2, <2>3 DEF e, kind
<1> QED BY <1>3, <1>4

LEMMA AnthropicFollows ==
  ASSUME NEW a, NEW T, Follows(a, T), NEW chunk \in Chunks, api # "tools"
  PROVE  Follows(AnthropicChunk(a, chunk), T \o chunk.content)
<1>1. /\ chunk.told \in BOOLEAN /\ chunk.thought \in BOOLEAN /\ chunk.content \in Words
      /\ ~chunk.told => chunk.content = <<>> /\ chunk.thought
  BY ChunkIs
<1> DEFINE thinking == IF chunk.thought THEN StartThinking(a) ELSE a
           started == IF chunk.told THEN StartText(thinking) ELSE thinking
           thought == IF chunk.thought /\ started.block = "think"
                      THEN Emit(started, "thought", <<>>) ELSE started
           content == chunk.content
<1>2. AnthropicChunk(a, chunk) = IF chunk.told THEN Strip(thought, content) ELSE thought
  BY DEF AnthropicChunk
<1>3. Follows(thinking, T)
  BY StartThinkingFollows
<1> HIDE DEF thinking
<1>4. Follows(started, T)
  BY <1>3, StartTextFollows
<1> HIDE DEF started
<1>5. Follows(thought, T)
  <2> DEFINE kind == "thought"
             none == <<>>
  <2>1. kind \in Kinds \ {"text", "calls"} /\ none \in Words
    BY TheKinds, EmptyWord
  <2> HIDE DEF kind, none
  <2>2. Follows(Emit(started, kind, none), T)
    BY <1>4, <2>1, EmitFollows
  <2> QED BY <1>4, <2>2 DEF kind, none
<1> HIDE DEF thought, content
<1>6. T \in Words /\ content \in Words
  BY <1>1 DEF Follows, content
<1>7. CASE ~chunk.told
  <2>1. T \o content = T
    BY <1>1, <1>6, <1>7, NothingJoined DEF content
  <2> QED BY <1>2, <1>5, <1>7, <2>1 DEF content
<1>8. CASE chunk.told
  <2>1. Follows(Strip(thought, content), T \o content)
    BY <1>5, <1>6, StripFollows
  <2> QED BY <1>2, <1>8, <2>1 DEF content
<1> QED BY <1>1, <1>7, <1>8

LEMMA ChunkFollows ==
  ASSUME NEW a, NEW T, Follows(a, T), NEW chunk \in Chunks
  PROVE  Follows(AdapterChunk(a, chunk), T \o chunk.content)
<1>1. CASE api = "anthropic"
  <2>1. AdapterChunk(a, chunk) = AnthropicChunk(a, chunk) /\ api # "tools"
    BY <1>1 DEF AdapterChunk
  <2> QED BY <2>1, AnthropicFollows
<1>2. CASE api # "anthropic"
  <2>1. AdapterChunk(a, chunk) = OpenAiChunk(a, chunk)
    BY <1>2 DEF AdapterChunk
  <2> QED BY <2>1, OpenAiFollows
<1> QED BY <1>1, <1>2

\* What holds at first and goes on holds to the end.
LEMMA Steadily ==
  ASSUME NEW N \in Nat, NEW S, 0 \in S, \A n \in 1 .. N : n - 1 \in S => n \in S
  PROVE  \A n \in 0 .. N : n \in S
<1> DEFINE f == [n \in 0 .. N |-> IF n \in S THEN 0 ELSE 1]
           g == [n \in 0 .. N |-> 0]
<1>1. GoAlike(f, g, N)
  <2>1. f[0] = g[0]
    OBVIOUS
  <2>2. ASSUME NEW n \in 1 .. N, f[n - 1] = g[n - 1] PROVE f[n] = g[n]
    <3>1. n - 1 \in 0 .. N /\ n \in 0 .. N
      OBVIOUS
    <3>2. n - 1 \in S
      BY <2>2, <3>1
    <3> QED BY <3>1, <3>2
  <2> HIDE DEF f, g
  <2> QED BY <2>1, <2>2 DEF GoAlike
<1>2. \A n \in 0 .. N : f[n] = g[n]
  <2> HIDE DEF f, g
  <2> QED BY <1>1, Alike
<1> QED BY <1>2

Followers == {a \in States : \E T \in Words : Follows(a, T)}

LEMMA DeliverSteps ==
  ASSUME NEW T, Follows(Adapter, T), NEW chunks \in Seq(Chunks)
  PROVE  \E after \in [0 .. Len(chunks) -> Followers] :
           /\ after[0] = Adapter
           /\ \A n \in 1 .. Len(chunks) : after[n] = AdapterChunk(after[n - 1], chunks[n])
           /\ Deliver(chunks) = after[Len(chunks)]
<1> DEFINE N == Len(chunks)
           first == Adapter
           next == [n \in 1 .. N |-> [v \in Followers |-> AdapterChunk(v, chunks[n])]]
           Body(g) == [n \in 0 .. N |-> IF n = 0 THEN first ELSE AdapterChunk(g[n - 1], chunks[n])]
<1>1. N \in Nat /\ \A n \in 1 .. N : chunks[n] \in Chunks
  BY LenProperties, ElementOfSeq
<1>2. ASSUME NEW v \in Followers, NEW c \in Chunks PROVE AdapterChunk(v, c) \in Followers
  <2>1. PICK U \in Words : Follows(v, U)
    BY DEF Followers
  <2>2. Follows(AdapterChunk(v, c), U \o c.content)
    BY <2>1, ChunkFollows
  <2>3. AdapterChunk(v, c) \in States /\ U \o c.content \in Words
    BY <2>2 DEF Follows, Reads
  <2> QED BY <2>2, <2>3 DEF Followers
<1>3. \A n \in 1 .. N : [v \in Followers |-> AdapterChunk(v, chunks[n])] \in [Followers -> Followers]
  <2> HIDE DEF N
  <2> QED BY <1>1, <1>2
<1>4. next \in [1 .. N -> [Followers -> Followers]]
  BY <1>3
<1>5. first \in Followers
  <2>1. first \in States /\ T \in Words
    BY DEF Follows, Reads
  <2> QED BY <2>1 DEF Followers
<1>6. TRUE
  OBVIOUS
<1> DEFINE said == CHOOSE f : f = Body(f)
<1>7. Deliver(chunks) = said[N]
  BY DEF Deliver
<1> HIDE DEF first
<1>8. Stepwise(Followers, N, first, next)
  BY <1>1, <1>4, <1>5 DEF Stepwise
<1>9. PICK g \in [0 .. N -> Followers] : g[0] = first /\ \A n \in 1 .. N : g[n] = next[n][g[n - 1]]
  <2> HIDE DEF N, next
  <2> QED BY <1>8, StepByStep
<1>10. ASSUME NEW n \in 1 .. N PROVE g[n] = AdapterChunk(g[n - 1], chunks[n])
  <2>1. g[n - 1] \in Followers
    BY <1>1
  <2> QED BY <1>9, <2>1
<1>11. g = Body(g)
  <2>1. ASSUME NEW n \in 0 .. N PROVE g[n] = IF n = 0 THEN first ELSE AdapterChunk(g[n - 1], chunks[n])
    <3>1. CASE n = 0
      BY <1>9, <3>1
    <3>2. CASE n # 0
      <4>1. n \in 1 .. N
        BY <1>1, <3>2
      <4> QED BY <1>10, <3>2, <4>1
    <3> QED BY <3>1, <3>2
  <2> QED BY <2>1
<1>12. said = Body(said)
  <2> HIDE DEF Body
  <2> QED BY <1>11
<1> HIDE DEF said
<1>13. ASSUME NEW n \in 0 .. N
       PROVE  said[n] = IF n = 0 THEN first ELSE AdapterChunk(said[n - 1], chunks[n])
  BY <1>12
<1>14. GoAlike(said, g, N)
  <2>1. 0 \in 0 .. N
    BY <1>1
  <2>2. said[0] = g[0]
    BY <1>9, <1>13, <2>1
  <2>3. ASSUME NEW n \in 1 .. N, said[n - 1] = g[n - 1] PROVE said[n] = g[n]
    <3>1. n \in 0 .. N /\ n # 0
      BY <1>1
    <3>2. said[n] = AdapterChunk(said[n - 1], chunks[n])
      BY <1>13, <3>1
    <3> QED BY <1>10, <2>3, <3>2
  <2> QED BY <2>2, <2>3 DEF GoAlike
<1>15. said[N] = g[N]
  <2>1. \A n \in 0 .. N : said[n] = g[n]
    <3> HIDE DEF N
    <3> QED BY <1>1, <1>14, Alike
  <2> QED BY <1>1, <2>1
<1>16. /\ g[0] = Adapter
       /\ \A n \in 1 .. Len(chunks) : g[n] = AdapterChunk(g[n - 1], chunks[n])
       /\ Deliver(chunks) = g[Len(chunks)]
  BY <1>7, <1>9, <1>10, <1>15 DEF first
<1> QED BY <1>16

\* Chunks that show nothing leave the text, and the last one adds to it.
LEMMA DeliverFollows ==
  ASSUME NEW T, Follows(Adapter, T), NEW chunks \in Seq(Chunks), NEW m \in Nat, Len(chunks) = m + 1,
         \A n \in 1 .. m : chunks[n].content = <<>>
  PROVE  Follows(Deliver(chunks), T \o chunks[m + 1].content)
<1>1. PICK after \in [0 .. m + 1 -> Followers] :
           /\ after[0] = Adapter
           /\ \A n \in 1 .. m + 1 : after[n] = AdapterChunk(after[n - 1], chunks[n])
           /\ Deliver(chunks) = after[m + 1]
  BY DeliverSteps
<1>2. T \in Words /\ \A n \in 1 .. m + 1 : chunks[n] \in Chunks
  BY ElementOfSeq DEF Follows
<1> DEFINE S == {n \in 0 .. m : Follows(after[n], T)}
<1>3. 0 \in S
  BY <1>1
<1>4. ASSUME NEW n \in 1 .. m, n - 1 \in S PROVE n \in S
  <2>1. Follows(after[n - 1], T) /\ n \in 1 .. m + 1 /\ n \in 0 .. m
    BY <1>4
  <2>2. Follows(AdapterChunk(after[n - 1], chunks[n]), T \o chunks[n].content)
    BY <1>2, <2>1, ChunkFollows
  <2>3. T \o chunks[n].content = T
    BY <1>2, NothingJoined
  <2> QED BY <1>1, <2>1, <2>2, <2>3
<1>5. \A n \in 0 .. m : n \in S
  <2> HIDE DEF S
  <2> QED BY <1>3, <1>4, Steadily
<1>6. Follows(after[m], T) /\ m + 1 \in 1 .. m + 1 /\ (m + 1) - 1 = m
  BY <1>5
<1>7. Follows(AdapterChunk(after[m], chunks[m + 1]), T \o chunks[m + 1].content)
  BY <1>2, <1>6, ChunkFollows
<1>8. after[m + 1] = AdapterChunk(after[(m + 1) - 1], chunks[m + 1])
  BY <1>1, <1>6
<1> QED BY <1>1, <1>6, <1>7, <1>8

-----------------------------------------------------------------------------
(* The beginning and the end of an answer.                                 *)

\* The filters at the start have read nothing.
LEMMA FiltersAtFirst ==
  /\ Stripper = StripperAfter(<<>>) /\ Detector = DetectorAfter(<<>>)
  /\ Stripper \in Strippers /\ Detector \in Detectors
  /\ \A tag \in Words : Len(tag) >= 2 => Passed(<<>>, tag) = <<>>
<1> DEFINE s == <<>>
<1>1. s \in Words /\ Len(s) = 0
  BY EmptyWord
<1> HIDE DEF s
<1>2. ASSUME NEW tag \in Words, Len(tag) >= 2
      PROVE  IndexOf(s, tag) = 0 /\ HeldBack(s, tag) = s /\ LetThrough(s, tag) = <<>>
  <2>1. IndexOf(s, tag) = 0
    BY <1>1, <1>2, IndexSpec
  <2>2. LetThrough(s, tag) = <<>> /\ HeldBack(s, tag) = s
    BY <1>1, <1>2, Halves
  <2> QED BY <2>1, <2>2
<1>3. Stripper = StripperAfter(s)
  BY <1>2, Tags DEF StripperAfter, Stripper, s
<1>4. Detector = DetectorAfter(s)
  BY <1>2, Tags DEF DetectorAfter, Detector, s
<1>5. ASSUME NEW tag \in Words, Len(tag) >= 2 PROVE Passed(s, tag) = <<>>
  BY <1>2, <1>5 DEF Passed
<1>6. Stripper \in Strippers /\ Detector \in Detectors
  BY <1>1, <1>3, <1>4 DEF Strippers, Detectors
<1> QED BY <1>3, <1>4, <1>5, <1>6 DEF s

\* The list at the start: one event, no text and no calls.
LEMMA ListAtFirst ==
  LET list == <<Event("start", 0, <<>>)>>
  IN /\ list \in Lists /\ Len(list) = 1 /\ list[1].kind = "start" /\ list[1].at = 0
     /\ TextIn(list) = <<>> /\ ~Announces(list)
<1> DEFINE kind == "start"
           none == <<>>
           event == Event(kind, 0, none)
           list == <<event>>
<1>1. kind \in Kinds /\ none \in Words /\ kind # "calls" /\ kind # "text"
  BY TheKinds, EmptyWord
<1> HIDE DEF kind, none
<1>2. /\ event \in Events /\ event.kind = kind /\ event.at = 0 /\ event.body = none
  BY <1>1, AnEvent
<1> HIDE DEF event
<1>3. list \in Lists /\ Len(list) = 1 /\ list[1] = event
  <2>1. list = Append(<<>>, event) /\ <<>> \in Seq(Events) /\ Len(<<>>) = 0
    OBVIOUS
  <2>2. Append(<<>>, event) \in Seq(Events)
    BY <1>2, <2>1, AppendProperties
  <2>3. list \in Lists
    BY <2>1, <2>2 DEF Lists
  <2> QED BY <2>3
<1>4. <<>> \in Lists
  BY EmptySeq DEF Lists
<1>5. Saying(event) = <<>>
  BY <1>1, <1>2 DEF Saying
<1>6. TextIn(list) = <<>>
  <2> DEFINE nobody == <<>>
             m == 0
  <2>1. nobody \in Lists /\ Len(nobody) = m /\ m \in Nat
    BY <1>4
  <2>2. TextIn(nobody) = <<>>
    <3> HIDE DEF nobody
    <3> QED BY <2>1, TextOfNone
  <2>3. Len(list) = m + 1 /\ \A n \in 1 .. m : Saying(nobody[n]) = Saying(list[n])
    BY <1>3
  <2> HIDE DEF nobody, m, list
  <2>4. TextIn(list) = TextIn(nobody) \o Saying(list[m + 1])
    BY <1>3, <2>1, <2>3, TextLast
  <2>5. list[m + 1] = event
    BY <1>3 DEF m
  <2> QED BY <1>5, <2>2, <2>4, <2>5, EmptyWord, NothingJoined
<1>7. ~Announces(list)
  <2>1. \A n \in DOMAIN list : n = 1
    BY <1>3
  <2> QED BY <1>1, <1>2, <1>3, <2>1 DEF Announces
<1> QED BY <1>1, <1>2, <1>3, <1>6, <1>7 DEF kind, none, event

\* Nothing read, nothing written.
Fresh(a) ==
  /\ a.det = Detector /\ a.strip = Stripper /\ a.block = "none" /\ a.index = 0
  /\ a.sent = <<Event("start", 0, <<>>)>>

LEMMA FreshFollows ==
  ASSUME NEW a, a = [det |-> a.det, strip |-> a.strip, block |-> a.block, index |-> a.index, sent |-> a.sent],
         Fresh(a)
  PROVE  Follows(a, <<>>) /\ ~Announces(a.sent)
<1> DEFINE none == <<>>
           list == <<Event("start", 0, <<>>)>>
<1>1. /\ list \in Lists /\ Len(list) = 1 /\ TextIn(list) = none /\ ~Announces(list)
  BY ListAtFirst
<1>2. /\ a.det = Detector /\ a.strip = Stripper /\ a.block = "none" /\ a.index = 0 /\ a.sent = list
  BY DEF Fresh
<1>3. none \in Words
  BY EmptyWord
<1>4. /\ Stripper = StripperAfter(none) /\ Detector = DetectorAfter(none)
      /\ Stripper \in Strippers /\ Detector \in Detectors
      /\ \A tag \in Words : Len(tag) >= 2 => Passed(none, tag) = none
  BY FiltersAtFirst
<1> HIDE DEF list
<1>5. a \in States
  BY <1>1, <1>2, <1>4 DEF States
<1>6. Passed(none, Details) = none /\ Passed(none, ToolOpen) = none
  BY <1>4, Tags
<1> HIDE DEF none
<1>7. CallsIn(none) = 0
  <2>1. IndexOf(none, ToolOpen) = 0
    <3>1. Len(none) = 0
      BY EmptyWord DEF none
    <3>2. IndexOf(none, ToolOpen) # 0 => IndexOf(none, ToolOpen) + Len(ToolOpen) <= Len(none) + 1
      BY <1>3, Tags, IndexSpec
    <3>3. IndexOf(none, ToolOpen) \in Nat
      BY <1>3, Tags, IndexSpec
    <3> QED BY <3>1, <3>2, <3>3, Tags
  <2> QED BY <2>1 DEF CallsIn
<1>8. Source(none) = none
  BY <1>6 DEF Source
<1>9. Follows(a, none)
  BY <1>1, <1>2, <1>3, <1>4, <1>5, <1>6, <1>7, <1>8 DEF Follows, Reads
<1> QED BY <1>1, <1>2, <1>9 DEF none

\* What is written when the filters are flushed is the whole readable text.
LEMMA FlushIs ==
  ASSUME NEW a, NEW T, Follows(a, T), api # "anthropic"
  PROVE  LET e == FlushOpenAi(a)
         IN /\ e \in States /\ TextIn(e.sent) = Readable(T, api = "tools")
            /\ Announces(e.sent) <=> Announces(a.sent)
<1> DEFINE rest == DetectorEnd(a.det)
           flushed == IF api = "tools" THEN Strip(a, rest) ELSE a
           U == IF api = "tools" THEN Until(T, ToolOpen) ELSE T
           body == StripperEnd(flushed.strip)
           e == FlushOpenAi(a)
           f == EmitText([flushed EXCEPT !.strip = Stripper], body)
<1>1. T \in Words /\ Reads(a, Source(T)) /\ (api = "tools" => a.det = DetectorAfter(T))
  BY DEF Follows
<1>2. Reads(flushed, U) /\ (Announces(flushed.sent) <=> Announces(a.sent))
  <2>1. CASE api = "tools"
    <3>1. Until(T, ToolOpen) = Passed(T, ToolOpen) \o rest /\ rest \in Words
      BY <1>1, <2>1, DetectorEnds
    <3> HIDE DEF rest
    <3>2. Reads(a, Passed(T, ToolOpen))
      BY <1>1, <2>1 DEF Source
    <3>3. Reads(Strip(a, rest), Passed(T, ToolOpen) \o rest) /\ Speaks(a, Strip(a, rest))
      BY <3>1, <3>2, StripIs
    <3> QED BY <2>1, <3>1, <3>3 DEF Speaks
  <2>2. CASE api # "tools"
    BY <1>1, <2>2 DEF Source
  <2> QED BY <2>1, <2>2
<1>3. e = f
  BY DEF FlushOpenAi
<1> HIDE DEF flushed, U
<1>4. U \in Words /\ flushed.strip = StripperAfter(U) /\ TextIn(flushed.sent) = Passed(U, Details)
  BY <1>2 DEF Reads
<1>5. /\ Shown(U) = Passed(U, Details) \o StripperEnd(StripperAfter(U))
      /\ StripperEnd(StripperAfter(U)) \in Words
  BY <1>4, StripperEnds
<1>6. body \in Words /\ Shown(U) = TextIn(flushed.sent) \o body
  BY <1>4, <1>5
<1>7. Stripper \in Strippers
  BY FiltersAtFirst
<1> HIDE DEF body
<1>8. f \in States /\ Speaks(flushed, f) /\ TextIn(f.sent) = TextIn(flushed.sent) \o body
  BY <1>2, <1>6, <1>7, EmitTextFollows
<1>9. Readable(T, api = "tools") = Shown(U)
  <2>1. CASE api = "tools"
    BY <2>1, ReadableIs DEF U
  <2>2. CASE api # "tools"
    BY <2>2, ReadableIs DEF U
  <2> QED BY <2>1, <2>2
<1> HIDE DEF e, f
<1>10. Announces(f.sent) <=> Announces(a.sent)
  BY <1>2, <1>8 DEF Speaks
<1> QED BY <1>3, <1>6, <1>8, <1>9, <1>10 DEF e

\* The two events that end an answer.
LEMMA ClosingIs ==
  ASSUME NEW a \in States, NEW kind \in Kinds \ {"text", "calls"}
  PROVE  LET e == Emit(Emit(a, kind, <<>>), "done", <<>>)
         IN /\ e \in States /\ TextIn(e.sent) = TextIn(a.sent)
            /\ Announces(e.sent) <=> Announces(a.sent)
            /\ e.sent[Len(e.sent) - 1].kind = kind /\ e.sent[Len(e.sent)].kind = "done"
            /\ \E mid \in Lists : /\ Grows(a.sent, mid, kind, a.index)
                                  /\ Grows(mid, e.sent, "done", a.index)
<1> DEFINE second == "done"
           none == <<>>
           f == Emit(a, kind, none)
           e == Emit(f, second, none)
<1>1. kind \in Kinds /\ kind # "text" /\ kind # "calls"
  OBVIOUS
<1>2. /\ second \in Kinds /\ second # "text" /\ second # "calls" /\ none \in Words
  BY TheKinds, EmptyWord
<1> HIDE DEF second, none
<1>3. /\ f \in States /\ Besides(a, f)
      /\ Grows(a.sent, f.sent, kind, a.index)
      /\ TextIn(f.sent) = TextIn(a.sent) \o (IF kind = "text" THEN none ELSE <<>>)
      /\ Announces(f.sent) <=> Announces(a.sent) \/ kind = "calls"
  BY <1>1, <1>2, EmitIs
<1> HIDE DEF f
<1>4. /\ e \in States /\ Besides(f, e)
      /\ Grows(f.sent, e.sent, second, f.index)
      /\ TextIn(e.sent) = TextIn(f.sent) \o (IF second = "text" THEN none ELSE <<>>)
      /\ Announces(e.sent) <=> Announces(f.sent) \/ second = "calls"
  BY <1>2, <1>3, EmitIs
<1> HIDE DEF e
<1>5. /\ a.sent \in Lists /\ f.sent \in Lists /\ f.index = a.index
      /\ Len(a.sent) \in Nat /\ Len(f.sent) \in Nat
  BY <1>3, StateIs DEF Besides
<1>6. TextIn(a.sent) \in Words /\ TextIn(f.sent) \in Words
  BY <1>5, TextIsWord
<1>7. TextIn(f.sent) = TextIn(a.sent)
  BY <1>1, <1>3, <1>6, NothingJoined
<1>8. TextIn(e.sent) = TextIn(a.sent)
  BY <1>2, <1>4, <1>6, <1>7, NothingJoined
<1>9. Announces(e.sent) <=> Announces(a.sent)
  BY <1>1, <1>2, <1>3, <1>4
<1>10. /\ Len(f.sent) = Len(a.sent) + 1 /\ f.sent[Len(a.sent) + 1].kind = kind
       /\ Len(e.sent) = Len(f.sent) + 1 /\ e.sent[Len(f.sent) + 1].kind = second
       /\ \A n \in 1 .. Len(f.sent) : e.sent[n].kind = f.sent[n].kind
  BY <1>3, <1>4 DEF Grows
<1>11. e.sent[Len(e.sent) - 1].kind = kind /\ e.sent[Len(e.sent)].kind = second
  <2>1. Len(e.sent) - 1 = Len(f.sent) /\ Len(f.sent) \in 1 .. Len(f.sent)
    BY <1>5, <1>10
  <2> QED BY <1>10, <2>1
<1>12. \E mid \in Lists : Grows(a.sent, mid, kind, a.index) /\ Grows(mid, e.sent, second, a.index)
  BY <1>3, <1>4, <1>5
<1> QED BY <1>4, <1>8, <1>9, <1>11, <1>12 DEF e, f, second, none

Whole(T) == Readable(T, api = "tools")

LEMMA PrefixOfSelf ==
  ASSUME NEW s \in Words
  PROVE  IsPrefix(s, s)
<1> DEFINE none == <<>>
<1>1. none \in Words /\ s \o none = s
  BY EmptyWord, NothingJoined
<1> HIDE DEF none
<1>2. IsPrefix(s, s \o none)
  BY <1>1, PrefixOfJoin
<1> QED BY <1>1, <1>2

LEMMA WholeIsWord ==
  ASSUME NEW T \in Words
  PROVE  Whole(T) \in Words
<1>1. Until(T, ToolOpen) \in Words
  BY UntilIs, Tags
<1>2. Shown(T) \in Words /\ Shown(Until(T, ToolOpen)) \in Words
  BY <1>1, StripperEnds
<1>3. CASE api = "tools"
  BY <1>2, <1>3, ReadableIs DEF Whole
<1>4. CASE api # "tools"
  BY <1>2, <1>4, ReadableIs DEF Whole
<1> QED BY <1>3, <1>4

\* As long as the stream is open, a beginning of the readable text was written.
LEMMA OpenIsPrefix ==
  ASSUME NEW a, NEW T, Follows(a, T)
  PROVE  IsPrefix(TextIn(a.sent), Whole(T))
<1>1. T \in Words /\ TextIn(a.sent) = Passed(Source(T), Details)
  BY DEF Follows, Reads
<1>2. CASE api = "tools"
  <2> DEFINE P == Passed(T, ToolOpen)
             rest == DetectorEnd(DetectorAfter(T))
  <2>1. P \in Words
    BY <1>1, Tags, PassedIsWord
  <2>2. Until(T, ToolOpen) = P \o rest /\ rest \in Words
    BY <1>1, DetectorEnds
  <2>3. TextIn(a.sent) = Passed(P, Details)
    BY <1>1, <1>2 DEF Source
  <2>4. Whole(T) = Shown(Until(T, ToolOpen))
    BY <1>2, ReadableIs DEF Whole
  <2> HIDE DEF P, rest
  <2>5. IsPrefix(Passed(P, Details), Shown(P \o rest))
    BY <2>1, <2>2, PassedIsPrefix
  <2> QED BY <2>2, <2>3, <2>4, <2>5
<1>3. CASE api # "tools"
  <2> DEFINE none == <<>>
  <2>1. none \in Words /\ T \o none = T
    BY <1>1, EmptyWord, NothingJoined
  <2> HIDE DEF none
  <2>2. IsPrefix(Passed(T, Details), Shown(T \o none))
    BY <1>1, <2>1, PassedIsPrefix
  <2>3. TextIn(a.sent) = Passed(T, Details)
    BY <1>1, <1>3 DEF Source
  <2>4. Whole(T) = Shown(T)
    BY <1>3, ReadableIs DEF Whole
  <2> QED BY <2>1, <2>2, <2>3, <2>4
<1> QED BY <1>2, <1>3

\* The end of an OpenAI stream.
LEMMA FinishOpenAiIs ==
  ASSUME NEW a, NEW T, Follows(a, T), api # "anthropic"
  PROVE  LET e == FinishOpenAi(a)
         IN /\ e \in States /\ TextIn(e.sent) = Whole(T)
            /\ Announces(e.sent) <=> Announces(a.sent)
            /\ e.sent[Len(e.sent) - 1].kind
                 = IF Announces(a.sent) THEN "finish tool_calls" ELSE "finish stop"
            /\ e.sent[Len(e.sent)].kind = "done"
<1> DEFINE kind == IF Announces(a.sent) THEN "finish tool_calls" ELSE "finish stop"
           f == FlushOpenAi(a)
           e == FinishOpenAi(a)
           g == Emit(Emit(f, kind, <<>>), "done", <<>>)
<1>1. /\ f \in States /\ TextIn(f.sent) = Whole(T)
      /\ Announces(f.sent) <=> Announces(a.sent)
  BY FlushIs DEF Whole
<1>2. kind \in Kinds \ {"text", "calls"}
  <2>1. "finish tool_calls" \in Kinds \ {"text", "calls"} /\ "finish stop" \in Kinds \ {"text", "calls"}
    BY TheKinds
  <2> QED BY <2>1
<1>3. e = g
  BY DEF FinishOpenAi, Announces
<1> HIDE DEF f, e, kind
<1>4. /\ g \in States /\ TextIn(g.sent) = TextIn(f.sent)
      /\ Announces(g.sent) <=> Announces(f.sent)
      /\ g.sent[Len(g.sent) - 1].kind = kind /\ g.sent[Len(g.sent)].kind = "done"
  BY <1>1, <1>2, ClosingIs
<1> HIDE DEF g
<1> QED BY <1>1, <1>3, <1>4 DEF e, kind

\* The end of an Anthropic stream whose text block is open, event by event.
Ended(list, end, at) ==
  \E f \in Lists, g \in Lists, h \in Lists :
    /\ Like(list, f) \/ Grows(list, f, "text", at)
    /\ Grows(f, g, "close", at) /\ Grows(g, h, "finish stop", at) /\ Grows(h, end, "done", at)

LEMMA TextEnds ==
  ASSUME NEW a, NEW T, Follows(a, T), api = "anthropic", a.block = "text"
  PROVE  LET e == FinishAnthropic(a)
         IN /\ e \in States /\ TextIn(e.sent) = Whole(T) /\ ~Announces(e.sent)
            /\ e.sent[Len(e.sent) - 1].kind = "finish stop" /\ e.sent[Len(e.sent)].kind = "done"
            /\ Ended(a.sent, e.sent, a.index)
<1> DEFINE body == StripperEnd(a.strip)
           third == "close"
           fourth == "finish stop"
           none == <<>>
           f == EmitText(a, body)
           g == Emit(f, third, none)
           k == Emit(Emit(g, fourth, <<>>), "done", <<>>)
           e == FinishAnthropic(a)
<1>1. /\ T \in Words /\ a \in States /\ a.strip = StripperAfter(T)
      /\ TextIn(a.sent) = Passed(T, Details) /\ ~Announces(a.sent)
  BY DEF Follows, Reads, Source
<1>2. Shown(T) = Passed(T, Details) \o body /\ body \in Words
  BY <1>1, StripperEnds
<1>3. Whole(T) = Shown(T)
  BY ReadableIs DEF Whole
<1>4. third \in Kinds /\ third # "text" /\ third # "calls" /\ none \in Words
      /\ fourth \in Kinds \ {"text", "calls"}
  BY TheKinds, EmptyWord
<1>5. e = k
  BY DEF FinishAnthropic
<1> HIDE DEF body, third, fourth, none
<1>6. /\ f \in States /\ Besides(a, f)
      /\ Like(a.sent, f.sent) \/ Grows(a.sent, f.sent, "text", a.index)
      /\ TextIn(f.sent) = TextIn(a.sent) \o body
      /\ Announces(f.sent) <=> Announces(a.sent)
  BY <1>1, <1>2, EmitTextIs
<1> HIDE DEF f
<1>7. /\ g \in States /\ Besides(f, g)
      /\ Grows(f.sent, g.sent, third, f.index)
      /\ TextIn(g.sent) = TextIn(f.sent) \o (IF third = "text" THEN none ELSE <<>>)
      /\ Announces(g.sent) <=> Announces(f.sent) \/ third = "calls"
  BY <1>4, <1>6, EmitIs
<1> HIDE DEF g
<1>8. /\ k \in States /\ TextIn(k.sent) = TextIn(g.sent)
      /\ Announces(k.sent) <=> Announces(g.sent)
      /\ k.sent[Len(k.sent) - 1].kind = fourth /\ k.sent[Len(k.sent)].kind = "done"
      /\ \E mid \in Lists : Grows(g.sent, mid, fourth, g.index) /\ Grows(mid, k.sent, "done", g.index)
  BY <1>4, <1>7, ClosingIs
<1> HIDE DEF k, e
<1>9. f.index = a.index /\ g.index = a.index /\ f.sent \in Lists /\ g.sent \in Lists
  BY <1>6, <1>7, StateIs DEF Besides
<1>10. TextIn(g.sent) = TextIn(f.sent)
  <2>1. TextIn(f.sent) \in Words
    BY <1>9, TextIsWord
  <2> QED BY <1>4, <1>7, <2>1, NothingJoined
<1>11. TextIn(k.sent) = Whole(T)
  BY <1>1, <1>2, <1>3, <1>6, <1>8, <1>10
<1>12. ~Announces(k.sent)
  BY <1>1, <1>4, <1>6, <1>7, <1>8
<1>13. Ended(a.sent, k.sent, a.index)
  <2>1. PICK h \in Lists : Grows(g.sent, h, fourth, g.index) /\ Grows(h, k.sent, "done", g.index)
    BY <1>8
  <2>2. /\ Grows(f.sent, g.sent, "close", a.index)
        /\ Grows(g.sent, h, "finish stop", a.index) /\ Grows(h, k.sent, "done", a.index)
    BY <1>7, <1>9, <2>1 DEF third, fourth
  <2> QED BY <1>6, <1>9, <2>2 DEF Ended
<1> QED BY <1>5, <1>8, <1>11, <1>12, <1>13 DEF e, fourth

\* When it is not, what the stripper holds back is lost.
LEMMA FinishAnthropicIs ==
  ASSUME NEW a, NEW T, Follows(a, T), api = "anthropic"
  PROVE  LET e == FinishAnthropic(a)
         IN /\ IsPrefix(TextIn(e.sent), Whole(T)) /\ ~Announces(e.sent)
            /\ e.sent[Len(e.sent) - 1].kind = "finish stop" /\ e.sent[Len(e.sent)].kind = "done"
<1> DEFINE b == IF a.block = "think" THEN CloseThinking(a) ELSE a
           kind == "finish stop"
           e == FinishAnthropic(a)
           k == Emit(Emit(b, kind, <<>>), "done", <<>>)
<1>1. a.block \in {"none", "think", "text"}
  BY StateIs DEF Follows, Reads
<1>2. CASE a.block = "text"
  <2>1. /\ TextIn(e.sent) = Whole(T) /\ ~Announces(e.sent)
        /\ e.sent[Len(e.sent) - 1].kind = "finish stop" /\ e.sent[Len(e.sent)].kind = "done"
    BY <1>2, TextEnds
  <2>2. IsPrefix(Whole(T), Whole(T))
    BY WholeIsWord, PrefixOfSelf DEF Follows
  <2> QED BY <2>1, <2>2
<1>3. CASE a.block # "text"
  <2>1. Follows(b, T)
    BY CloseThinkingFollows
  <2>2. e = k
    BY <1>1, <1>3 DEF FinishAnthropic
  <2> HIDE DEF b, e
  <2>3. kind \in Kinds \ {"text", "calls"} /\ b \in States
    BY <2>1, TheKinds DEF Follows, Reads
  <2> HIDE DEF kind
  <2>4. /\ TextIn(k.sent) = TextIn(b.sent) /\ (Announces(k.sent) <=> Announces(b.sent))
        /\ k.sent[Len(k.sent) - 1].kind = kind /\ k.sent[Len(k.sent)].kind = "done"
    BY <2>3, ClosingIs
  <2> HIDE DEF k
  <2>5. ~Announces(b.sent)
    BY <2>1 DEF Follows
  <2>6. IsPrefix(TextIn(b.sent), Whole(T))
    BY <2>1, OpenIsPrefix
  <2> QED BY <2>2, <2>4, <2>5, <2>6 DEF e, kind
<1> QED BY <1>2, <1>3

\* A stream that is limited has written no more than that.
LEMMA LimitIs ==
  ASSUME NEW a, NEW T, Follows(a, T)
  PROVE  IsPrefix(TextIn(Limit(a).sent), Whole(T))
<1> DEFINE kind == "error"
           none == <<>>
           f == Emit(a, kind, none)
<1>1. kind \in Kinds \ {"text", "calls"} /\ none \in Words
  BY TheKinds, EmptyWord
<1>2. Limit(a) = IF api = "anthropic" THEN f ELSE FinishOpenAi(f)
  BY DEF Limit
<1> HIDE DEF kind, none
<1>3. Follows(f, T)
  BY <1>1, EmitFollows
<1> HIDE DEF f
<1>4. CASE api = "anthropic"
  BY <1>2, <1>3, <1>4, OpenIsPrefix
<1>5. CASE api # "anthropic"
  <2>1. TextIn(FinishOpenAi(f).sent) = Whole(T)
    BY <1>3, <1>5, FinishOpenAiIs
  <2>2. IsPrefix(Whole(T), Whole(T))
    BY <1>3, WholeIsWord, PrefixOfSelf DEF Follows
  <2> QED BY <1>2, <1>5, <2>1, <2>2
<1> QED BY <1>4, <1>5

-----------------------------------------------------------------------------
(* The blocks of an Anthropic stream.                                      *)

\* The blocks of a list of events.
ClosedOf(s, n) == {i \in 1 .. n : s[i].kind = "close"}
OpenedOf(s, n) == {i \in 1 .. n : s[i].kind \in {"open think", "open text"}}
StillOpen(s, n) == \A i \in ClosedOf(s, n - 1) : s[i].at # s[n].at
BegunAs(s, n, kinds) == \E i \in 1 .. n - 1 : s[i].kind \in kinds /\ s[i].at = s[n].at
Placed(s, n) ==
  CASE s[n].kind = "start" -> n = 1
    [] s[n].kind \in {"thought", "signature"} -> BegunAs(s, n, {"open think"}) /\ StillOpen(s, n)
    [] s[n].kind = "text" -> BegunAs(s, n, {"open text"}) /\ StillOpen(s, n)
    [] s[n].kind = "close" -> BegunAs(s, n, {"open think", "open text"}) /\ StillOpen(s, n)
    [] s[n].kind \in {"open think", "open text"} ->
         s[n].at = Cardinality(ClosedOf(s, n - 1)) /\ Cardinality(OpenedOf(s, n - 1)) = s[n].at
    [] OTHER -> TRUE

\* The two lists have the same blocks up to the place m.
Agree(s, t, m) == \A n \in 1 .. m : t[n].kind = s[n].kind /\ t[n].at = s[n].at

LEMMA AgreeingBlocks ==
  ASSUME NEW s, NEW t, NEW m \in Nat, Agree(s, t, m)
  PROVE  /\ \A n \in 0 .. m : ClosedOf(t, n) = ClosedOf(s, n) /\ OpenedOf(t, n) = OpenedOf(s, n)
         /\ \A n \in 1 .. m : Placed(t, n) <=> Placed(s, n)
<1>1. ASSUME NEW n \in 0 .. m PROVE ClosedOf(t, n) = ClosedOf(s, n) /\ OpenedOf(t, n) = OpenedOf(s, n)
  <2>1. \A i \in 1 .. n : i \in 1 .. m
    OBVIOUS
  <2>2. \A i \in 1 .. n : t[i].kind = s[i].kind
    BY <2>1 DEF Agree
  <2> QED BY <2>2 DEF ClosedOf, OpenedOf
<1>2. ASSUME NEW n \in 1 .. m PROVE Placed(t, n) <=> Placed(s, n)
  <2>1. n - 1 \in 0 .. m /\ \A i \in 1 .. n - 1 : i \in 1 .. m
    OBVIOUS
  <2>2. /\ ClosedOf(t, n - 1) = ClosedOf(s, n - 1) /\ OpenedOf(t, n - 1) = OpenedOf(s, n - 1)
    BY <1>1, <2>1
  <2>3. t[n].kind = s[n].kind /\ t[n].at = s[n].at
    BY DEF Agree
  <2>4. \A i \in 1 .. n - 1 : t[i].kind = s[i].kind /\ t[i].at = s[i].at
    BY <2>1 DEF Agree
  <2>5. \A kinds : BegunAs(t, n, kinds) <=> BegunAs(s, n, kinds)
    BY <2>3, <2>4 DEF BegunAs
  <2>6. \A i \in ClosedOf(s, n - 1) : i \in 1 .. n - 1
    BY DEF ClosedOf
  <2>7. StillOpen(t, n) <=> StillOpen(s, n)
    BY <2>2, <2>3, <2>4, <2>6 DEF StillOpen
  <2> QED BY <2>2, <2>3, <2>5, <2>7 DEF Placed
<1> QED BY <1>1, <1>2

\* How the blocks stand after a list: all events are in place, the blocks
\* before at are closed, and the one at it is open as kind, or not begun.
Standing(s, at, kind) ==
  /\ \A n \in 1 .. Len(s) : Placed(s, n)
  /\ at \in Nat /\ Cardinality(ClosedOf(s, Len(s))) = at
  /\ \A i \in ClosedOf(s, Len(s)) : s[i].at < at
  /\ kind = "none" => Cardinality(OpenedOf(s, Len(s))) = at
  /\ kind # "none" => /\ Cardinality(OpenedOf(s, Len(s))) = at + 1
                      /\ \E i \in 1 .. Len(s) : s[i].kind = Opens[kind] /\ s[i].at = at

LEMMA StandsAlike ==
  ASSUME NEW s \in Lists, NEW t, Like(s, t), NEW at, NEW kind, Standing(s, at, kind)
  PROVE  Standing(t, at, kind)
<1> DEFINE m == Len(s)
<1>1. m \in Nat /\ Len(t) = m /\ Agree(s, t, m)
  BY ListLength DEF Like, Agree
<1> HIDE DEF m
<1>2. /\ ClosedOf(t, m) = ClosedOf(s, m) /\ OpenedOf(t, m) = OpenedOf(s, m)
      /\ \A n \in 1 .. m : Placed(t, n) <=> Placed(s, n)
  BY <1>1, AgreeingBlocks
<1>3. \A i \in ClosedOf(s, m) : i \in 1 .. m
  BY DEF ClosedOf
<1>4. /\ \A n \in 1 .. m : Placed(s, n)
      /\ at \in Nat /\ Cardinality(ClosedOf(s, m)) = at
      /\ \A i \in ClosedOf(s, m) : s[i].at < at
      /\ kind = "none" => Cardinality(OpenedOf(s, m)) = at
      /\ kind # "none" => /\ Cardinality(OpenedOf(s, m)) = at + 1
                          /\ \E i \in 1 .. m : s[i].kind = Opens[kind] /\ s[i].at = at
  BY DEF Standing, m
<1>5. \A i \in 1 .. m : t[i].kind = s[i].kind /\ t[i].at = s[i].at
  BY <1>1 DEF Agree
<1> QED BY <1>1, <1>2, <1>3, <1>4, <1>5 DEF Standing

\* What one more event does to the blocks.
Outgrown(s, t, kind, at, m) ==
  /\ m \in Nat /\ Len(t) = m + 1 /\ t[m + 1].kind = kind /\ t[m + 1].at = at
  /\ ClosedOf(t, m) = ClosedOf(s, m) /\ OpenedOf(t, m) = OpenedOf(s, m)
  /\ \A n \in 1 .. m : t[n].kind = s[n].kind /\ t[n].at = s[n].at
  /\ \A n \in 1 .. m : Placed(t, n) <=> Placed(s, n)
  /\ kind # "close" => ClosedOf(t, m + 1) = ClosedOf(s, m)
  /\ kind = "close" => /\ ClosedOf(t, m + 1) = ClosedOf(s, m) \cup {m + 1}
                       /\ Cardinality(ClosedOf(t, m + 1)) = Cardinality(ClosedOf(s, m)) + 1
  /\ kind \notin {"open think", "open text"} => OpenedOf(t, m + 1) = OpenedOf(s, m)
  /\ kind \in {"open think", "open text"} =>
       Cardinality(OpenedOf(t, m + 1)) = Cardinality(OpenedOf(s, m)) + 1

LEMMA GrownBlocks ==
  ASSUME NEW s \in Lists, NEW t, NEW kind, NEW at, Grows(s, t, kind, at)
  PROVE  Outgrown(s, t, kind, at, Len(s))
<1> DEFINE m == Len(s)
<1>1. /\ m \in Nat /\ Len(t) = m + 1 /\ t[m + 1].kind = kind /\ t[m + 1].at = at
      /\ \A n \in 1 .. m : t[n].kind = s[n].kind /\ t[n].at = s[n].at
  BY ListLength DEF Grows
<1> HIDE DEF m
<1>2. Agree(s, t, m)
  BY <1>1 DEF Agree
<1>3. /\ ClosedOf(t, m) = ClosedOf(s, m) /\ OpenedOf(t, m) = OpenedOf(s, m)
      /\ \A n \in 1 .. m : Placed(t, n) <=> Placed(s, n)
  BY <1>1, <1>2, AgreeingBlocks
<1>4. \A i \in 1 .. m + 1 : i \in 1 .. m \/ i = m + 1
  BY <1>1
<1>5. m + 1 \in 1 .. m + 1 /\ m + 1 \notin 1 .. m /\ \A i \in 1 .. m : i \in 1 .. m + 1
  BY <1>1
<1>6. \A i : i \in ClosedOf(t, m + 1) <=> (i \in ClosedOf(t, m) \/ (i = m + 1 /\ kind = "close"))
  BY <1>1, <1>4, <1>5 DEF ClosedOf
<1>7. \A i : i \in OpenedOf(t, m + 1)
         <=> (i \in OpenedOf(t, m) \/ (i = m + 1 /\ kind \in {"open think", "open text"}))
  BY <1>1, <1>4, <1>5 DEF OpenedOf
<1>8. IsFiniteSet(ClosedOf(s, m)) /\ IsFiniteSet(OpenedOf(s, m))
  <2>1. IsFiniteSet(1 .. m)
    BY <1>1, FS_Interval
  <2>2. ClosedOf(s, m) \subseteq 1 .. m /\ OpenedOf(s, m) \subseteq 1 .. m
    BY DEF ClosedOf, OpenedOf
  <2> QED BY <2>1, <2>2, FS_Subset
<1>9. m + 1 \notin ClosedOf(s, m) /\ m + 1 \notin OpenedOf(s, m)
  BY <1>5 DEF ClosedOf, OpenedOf
<1>10. kind # "close" => ClosedOf(t, m + 1) = ClosedOf(s, m)
  BY <1>3, <1>6
<1>11. kind = "close" => ClosedOf(t, m + 1) = ClosedOf(s, m) \cup {m + 1}
  BY <1>3, <1>6
<1>12. Cardinality(ClosedOf(s, m) \cup {m + 1}) = Cardinality(ClosedOf(s, m)) + 1
  BY <1>8, <1>9, FS_AddElement
<1>13. kind \notin {"open think", "open text"} => OpenedOf(t, m + 1) = OpenedOf(s, m)
  <2> SUFFICES ASSUME kind \notin {"open think", "open text"}
               PROVE  OpenedOf(t, m + 1) = OpenedOf(s, m)
    OBVIOUS
  <2>1. \A i : i \in OpenedOf(t, m + 1) <=> i \in OpenedOf(s, m)
    BY <1>3, <1>7, Zenon
  <2> QED BY ONLY <2>1
<1>14. kind \in {"open think", "open text"} => OpenedOf(t, m + 1) = OpenedOf(s, m) \cup {m + 1}
  <2> SUFFICES ASSUME kind \in {"open think", "open text"}
               PROVE  OpenedOf(t, m + 1) = OpenedOf(s, m) \cup {m + 1}
    OBVIOUS
  <2>1. \A i : i \in OpenedOf(t, m + 1) <=> i \in OpenedOf(s, m) \/ i = m + 1
    BY <1>3, <1>7, Zenon
  <2> QED BY ONLY <2>1
<1>15. Cardinality(OpenedOf(s, m) \cup {m + 1}) = Cardinality(OpenedOf(s, m)) + 1
  BY <1>8, <1>9, FS_AddElement
<1>16. kind = "close" => Cardinality(ClosedOf(t, m + 1)) = Cardinality(ClosedOf(s, m)) + 1
  BY <1>11, <1>12, Zenon
<1>17. kind \in {"open think", "open text"} =>
         Cardinality(OpenedOf(t, m + 1)) = Cardinality(OpenedOf(s, m)) + 1
  <2>1. CASE kind \in {"open think", "open text"}
    <3>1. OpenedOf(t, m + 1) = OpenedOf(s, m) \cup {m + 1}
      BY <1>14, <2>1, Zenon
    <3> QED BY <1>15, <3>1, Zenon
  <2>2. CASE ~(kind \in {"open think", "open text"})
    BY <2>2, Zenon
  <2> QED BY <2>1, <2>2, Zenon
<1>18. Outgrown(s, t, kind, at, m)
  BY <1>1, <1>3, <1>10, <1>11, <1>13, <1>16, <1>17, Zenon DEF Outgrown
<1> QED BY <1>18 DEF m

LEMMA StandsAtFirst ==
  ASSUME NEW list, list = <<Event("start", 0, <<>>)>>
  PROVE  Standing(list, 0, "none")
<1> DEFINE event == Event("start", 0, <<>>)
<1>0. event.kind = "start" /\ list = <<event>>
  BY DEF Event
<1> HIDE DEF event
<1>1. Len(list) = 1 /\ list[1].kind = "start"
  BY <1>0
<1>2. ClosedOf(list, 1) = {} /\ OpenedOf(list, 1) = {}
  <2>1. \A i \in 1 .. 1 : list[i].kind = "start"
    BY <1>1
  <2>2. \A i \in 1 .. 1 : list[i].kind # "close" /\ list[i].kind \notin {"open think", "open text"}
    BY <2>1
  <2> QED BY <2>2 DEF ClosedOf, OpenedOf
<1>3. Cardinality({}) = 0
  BY FS_EmptySet
<1>4. \A n \in 1 .. Len(list) : n = 1
  BY <1>1
<1>5. Placed(list, 1)
  BY <1>1 DEF Placed
<1> QED BY <1>1, <1>2, <1>3, <1>4, <1>5 DEF Standing

\* An event that opens and closes nothing, in its place.
LEMMA StandsOn ==
  ASSUME NEW s \in Lists, NEW t, NEW kind, NEW at, Grows(s, t, kind, at),
         NEW here, NEW part, Standing(s, here, part),
         kind \notin {"close", "open think", "open text"}, Placed(t, Len(s) + 1)
  PROVE  Standing(t, here, part)
<1> DEFINE m == Len(s)
<1>1. /\ m \in Nat /\ Len(t) = m + 1
      /\ \A n \in 1 .. m : t[n].kind = s[n].kind /\ t[n].at = s[n].at
      /\ \A n \in 1 .. m : Placed(t, n) <=> Placed(s, n)
      /\ ClosedOf(t, m + 1) = ClosedOf(s, m) /\ OpenedOf(t, m + 1) = OpenedOf(s, m)
  <2>1. Outgrown(s, t, kind, at, m)
    BY GrownBlocks
  <2> HIDE DEF m
  <2> QED BY <2>1 DEF Outgrown
<1>2. /\ \A n \in 1 .. m : Placed(s, n)
      /\ here \in Nat /\ Cardinality(ClosedOf(s, m)) = here
      /\ \A i \in ClosedOf(s, m) : s[i].at < here
      /\ part = "none" => Cardinality(OpenedOf(s, m)) = here
      /\ part # "none" => /\ Cardinality(OpenedOf(s, m)) = here + 1
                           /\ \E i \in 1 .. m : s[i].kind = Opens[part] /\ s[i].at = here
  BY DEF Standing
<1>3. Placed(t, m + 1)
  OBVIOUS
<1>4. \A i \in ClosedOf(s, m) : i \in 1 .. m
  BY DEF ClosedOf
<1> HIDE DEF m
<1>0. m \in Nat
  BY <1>1
<1>5. \A n \in 1 .. m + 1 : n \in 1 .. m \/ n = m + 1
  BY ONLY <1>0
<1>6. \A n \in 1 .. m : n \in 1 .. m + 1
  BY ONLY <1>0
<1>7. \A n \in 1 .. m + 1 : Placed(t, n)
  BY <1>1, <1>2, <1>3, <1>5
<1>8. \A i \in ClosedOf(t, m + 1) : t[i].at < here
  BY <1>1, <1>2, <1>4
<1>9. part # "none" => \E i \in 1 .. m + 1 : t[i].kind = Opens[part] /\ t[i].at = here
  BY <1>1, <1>2, <1>6
<1> QED BY <1>1, <1>2, <1>7, <1>8, <1>9 DEF Standing

\* A delta of the open block is in place.
LEMMA DeltaStands ==
  ASSUME NEW s \in Lists, NEW t, NEW kind, NEW at, Grows(s, t, kind, at),
         NEW part, Standing(s, at, part),
         \/ part = "think" /\ kind \in {"thought", "signature"}
         \/ part = "text" /\ kind = "text"
  PROVE  Standing(t, at, part)
<1> DEFINE m == Len(s)
<1>1. /\ m \in Nat /\ t[m + 1].kind = kind /\ t[m + 1].at = at
      /\ \A n \in 1 .. m : t[n].kind = s[n].kind /\ t[n].at = s[n].at
      /\ ClosedOf(t, m) = ClosedOf(s, m)
  <2>1. Outgrown(s, t, kind, at, m)
    BY GrownBlocks
  <2> HIDE DEF m
  <2> QED BY <2>1 DEF Outgrown
<1>2. /\ at \in Nat
      /\ \A i \in ClosedOf(s, m) : s[i].at < at
      /\ \E i \in 1 .. m : s[i].kind = Opens[part] /\ s[i].at = at
  BY DEF Standing
<1>3. \A i \in ClosedOf(s, m) : i \in 1 .. m
  BY DEF ClosedOf
<1> HIDE DEF m
<1>4. (m + 1) - 1 = m
  BY <1>1
<1>5. StillOpen(t, m + 1)
  <2>1. ASSUME NEW i \in ClosedOf(t, m) PROVE t[i].at # at
    <3>1. t[i].at = s[i].at /\ s[i].at < at
      BY <1>1, <1>2, <1>3
    <3>2. ASSUME t[i].at = at PROVE FALSE
      <4>1. at < at
        BY <3>1, <3>2
      <4> QED BY <1>2, <4>1
    <3> QED BY <3>2
  <2> QED BY <1>1, <1>4, <2>1 DEF StillOpen
<1>6. PICK i \in 1 .. m : t[i].kind = Opens[part] /\ t[i].at = at
  BY <1>1, <1>2
<1>7. Placed(t, m + 1)
  <2>1. CASE part = "think" /\ kind \in {"thought", "signature"}
    <3>1. t[i].kind = "open think"
      BY <1>6, <2>1 DEF Opens
    <3>2. BegunAs(t, m + 1, {"open think"})
      BY <1>1, <1>4, <1>6, <3>1 DEF BegunAs
    <3>3. t[m + 1].kind \in {"thought", "signature"} /\ t[m + 1].kind # "start"
      BY <1>1, <2>1
    <3> QED BY <1>5, <3>2, <3>3 DEF Placed
  <2>2. CASE part = "text" /\ kind = "text"
    <3>1. t[i].kind = "open text"
      BY <1>6, <2>2 DEF Opens
    <3>2. BegunAs(t, m + 1, {"open text"})
      BY <1>1, <1>4, <1>6, <3>1 DEF BegunAs
    <3>3. t[m + 1].kind = "text"
      BY <1>1, <2>2
    <3> QED BY <1>5, <3>2, <3>3 DEF Placed
  <2> QED BY <2>1, <2>2
<1>8. kind \notin {"close", "open think", "open text"}
  OBVIOUS
<1> QED BY <1>7, <1>8, StandsOn DEF m

\* What is not about a block.
LEMMA OthersStand ==
  ASSUME NEW s \in Lists, NEW t, NEW kind, NEW at, Grows(s, t, kind, at),
         NEW here, NEW part, Standing(s, here, part),
         kind \in {"finish stop", "finish tool_calls", "done", "error"}
  PROVE  Standing(t, here, part)
<1> DEFINE m == Len(s)
<1>1. t[m + 1].kind = kind
  <2>1. Outgrown(s, t, kind, at, m)
    BY GrownBlocks
  <2> HIDE DEF m
  <2> QED BY <2>1 DEF Outgrown
<1> HIDE DEF m
<1>2. Placed(t, m + 1)
  BY <1>1 DEF Placed
<1>3. kind \notin {"close", "open think", "open text"}
  OBVIOUS
<1> QED BY <1>2, <1>3, StandsOn DEF m

LEMMA OpenStands ==
  ASSUME NEW s \in Lists, NEW t, NEW part \in {"think", "text"}, NEW at,
         Grows(s, t, Opens[part], at), Standing(s, at, "none")
  PROVE  Standing(t, at, part)
<1> DEFINE m == Len(s)
           kind == Opens[part]
<1>1. kind \in {"open think", "open text"} /\ kind # "close"
  <2>1. CASE part = "think"
    BY <2>1 DEF Opens
  <2>2. CASE part = "text"
    BY <2>2 DEF Opens
  <2> QED BY <2>1, <2>2
<1>2. /\ m \in Nat /\ Len(t) = m + 1 /\ t[m + 1].kind = kind /\ t[m + 1].at = at
      /\ \A n \in 1 .. m : t[n].kind = s[n].kind /\ t[n].at = s[n].at
      /\ \A n \in 1 .. m : Placed(t, n) <=> Placed(s, n)
      /\ ClosedOf(t, m) = ClosedOf(s, m) /\ OpenedOf(t, m) = OpenedOf(s, m)
      /\ ClosedOf(t, m + 1) = ClosedOf(s, m)
      /\ Cardinality(OpenedOf(t, m + 1)) = Cardinality(OpenedOf(s, m)) + 1
  <2>1. Outgrown(s, t, kind, at, m)
    BY GrownBlocks
  <2> HIDE DEF m, kind
  <2> QED BY <1>1, <2>1 DEF Outgrown
<1>3. /\ \A n \in 1 .. m : Placed(s, n)
      /\ at \in Nat /\ Cardinality(ClosedOf(s, m)) = at
      /\ \A i \in ClosedOf(s, m) : s[i].at < at
      /\ Cardinality(OpenedOf(s, m)) = at
  BY DEF Standing
<1>4. \A i \in ClosedOf(s, m) : i \in 1 .. m
  BY DEF ClosedOf
<1> HIDE DEF m, kind
<1>5. /\ \A n \in 1 .. m + 1 : n \in 1 .. m \/ n = m + 1
      /\ m + 1 \in 1 .. m + 1 /\ (m + 1) - 1 = m
  BY <1>2
<1>6. Placed(t, m + 1)
  <2>1. /\ t[m + 1].at = Cardinality(ClosedOf(t, (m + 1) - 1))
        /\ Cardinality(OpenedOf(t, (m + 1) - 1)) = t[m + 1].at
    BY <1>2, <1>3, <1>5
  <2>2. t[m + 1].kind \in {"open think", "open text"}
    BY <1>1, <1>2
  <2> QED BY <2>1, <2>2 DEF Placed
<1>7. \A n \in 1 .. m + 1 : Placed(t, n)
  BY <1>2, <1>3, <1>5, <1>6
<1>8. \A i \in ClosedOf(t, m + 1) : t[i].at < at
  BY <1>2, <1>3, <1>4
<1>9. \E i \in 1 .. m + 1 : t[i].kind = Opens[part] /\ t[i].at = at
  BY <1>2, <1>5 DEF kind
<1>10. part # "none"
  OBVIOUS
<1> QED BY <1>2, <1>3, <1>7, <1>8, <1>9, <1>10 DEF Standing

LEMMA CloseStands ==
  ASSUME NEW s \in Lists, NEW t, NEW part \in {"think", "text"}, NEW at,
         Grows(s, t, "close", at), Standing(s, at, part)
  PROVE  Standing(t, at + 1, "none")
<1> DEFINE m == Len(s)
           kind == "close"
<1>1. /\ m \in Nat /\ Len(t) = m + 1 /\ t[m + 1].kind = kind /\ t[m + 1].at = at
      /\ \A n \in 1 .. m : t[n].kind = s[n].kind /\ t[n].at = s[n].at
      /\ \A n \in 1 .. m : Placed(t, n) <=> Placed(s, n)
      /\ ClosedOf(t, m) = ClosedOf(s, m)
      /\ ClosedOf(t, m + 1) = ClosedOf(s, m) \cup {m + 1}
      /\ Cardinality(ClosedOf(t, m + 1)) = Cardinality(ClosedOf(s, m)) + 1
      /\ OpenedOf(t, m + 1) = OpenedOf(s, m)
  <2>1. kind \notin {"open think", "open text"}
    OBVIOUS
  <2>2. kind = "close"
    OBVIOUS
  <2>3. Outgrown(s, t, kind, at, m)
    BY GrownBlocks
  <2> HIDE DEF m, kind
  <2> QED BY <2>1, <2>2, <2>3 DEF Outgrown
<1>2. /\ \A n \in 1 .. m : Placed(s, n)
      /\ at \in Nat /\ Cardinality(ClosedOf(s, m)) = at
      /\ \A i \in ClosedOf(s, m) : s[i].at < at
      /\ Cardinality(OpenedOf(s, m)) = at + 1
      /\ \E i \in 1 .. m : s[i].kind = Opens[part] /\ s[i].at = at
  BY DEF Standing
<1>3. \A i \in ClosedOf(s, m) : i \in 1 .. m /\ s[i].at \in Int
  <2>1. \A i \in 1 .. m : s[i] \in Events
    BY ListLength
  <2> QED BY <2>1 DEF ClosedOf, Events
<1> HIDE DEF m
<1>4. \A n \in 1 .. m + 1 : n \in 1 .. m \/ n = m + 1
  BY <1>1
<1>5. (m + 1) - 1 = m
  BY <1>1
<1>6. StillOpen(t, m + 1)
  <2>1. ASSUME NEW i \in ClosedOf(t, m) PROVE t[i].at # at
    <3>1. t[i].at = s[i].at /\ s[i].at < at /\ s[i].at \in Int
      BY <1>1, <1>2, <1>3
    <3> QED BY <1>2, <3>1
  <2> QED BY <1>1, <1>5, <2>1 DEF StillOpen
<1>7. PICK i \in 1 .. m : t[i].kind = Opens[part] /\ t[i].at = at
  BY <1>1, <1>2
<1>8. Opens[part] \in {"open think", "open text"}
  <2>1. CASE part = "think"
    BY <2>1 DEF Opens
  <2>2. CASE part = "text"
    BY <2>2 DEF Opens
  <2> QED BY <2>1, <2>2
<1>9. Placed(t, m + 1)
  <2>1. BegunAs(t, m + 1, {"open think", "open text"})
    BY <1>1, <1>5, <1>7, <1>8 DEF BegunAs
  <2> QED BY <1>1, <1>6, <2>1 DEF Placed, kind
<1>10. \A n \in 1 .. m + 1 : Placed(t, n)
  BY <1>1, <1>2, <1>4, <1>9
<1>11. \A j \in ClosedOf(t, m + 1) : t[j].at < at + 1
  <2>1. ASSUME NEW j \in ClosedOf(s, m) PROVE t[j].at < at + 1
    <3>1. t[j].at = s[j].at /\ s[j].at < at /\ s[j].at \in Int
      BY <1>1, <1>2, <1>3
    <3> QED BY <1>2, <3>1
  <2>2. t[m + 1].at < at + 1
    BY <1>1, <1>2
  <2> QED BY <1>1, <2>1, <2>2
<1>12. at + 1 \in Nat
  BY <1>2
<1> QED BY <1>1, <1>2, <1>10, <1>11, <1>12 DEF Standing

\* The blocks of the adapter's list, as its phase and index say.
Stands(a) == Standing(a.sent, a.index, a.block)

LEMMA OpenBlockStands ==
  ASSUME NEW a, NEW T, Follows(a, T), NEW kind \in {"think", "text"},
         Standing(a.sent, a.index, "none")
  PROVE  Stands(OpenBlock(a, kind))
<1> DEFINE e == OpenBlock(a, kind)
<1>1. /\ Follows(e, T) /\ e.block = kind /\ e.index = a.index
      /\ Grows(a.sent, e.sent, Opens[kind], a.index)
  BY OpenBlockFollows
<1>2. a.sent \in Lists
  BY StateIs DEF Follows, Reads
<1> HIDE DEF e
<1>3. Standing(e.sent, a.index, kind)
  BY <1>1, <1>2, OpenStands
<1> QED BY <1>1, <1>3 DEF Stands, e

LEMMA CloseThinkingStands ==
  ASSUME NEW a, NEW T, Follows(a, T), Standing(a.sent, a.index, "think")
  PROVE  LET e == CloseThinking(a) IN Standing(e.sent, e.index, "none")
<1> DEFINE e == CloseThinking(a)
           part == "think"
           kind == "signature"
<1>1. /\ Follows(e, T) /\ e.index = a.index + 1
      /\ \E mid \in Lists : Grows(a.sent, mid, kind, a.index) /\ Grows(mid, e.sent, "close", a.index)
  BY CloseThinkingFollows
<1> HIDE DEF e
<1>2. PICK mid \in Lists : Grows(a.sent, mid, kind, a.index) /\ Grows(mid, e.sent, "close", a.index)
  BY <1>1
<1>3. a.sent \in Lists
  BY StateIs DEF Follows, Reads
<1>4. /\ part \in {"think", "text"} /\ Standing(a.sent, a.index, part)
      /\ part = "think" /\ kind \in {"thought", "signature"}
  OBVIOUS
<1> HIDE DEF part, kind
<1>5. Standing(mid, a.index, part)
  BY <1>2, <1>3, <1>4, DeltaStands
<1>6. Standing(e.sent, a.index + 1, "none")
  BY <1>2, <1>4, <1>5, CloseStands
<1> QED BY <1>1, <1>6 DEF e

LEMMA StartTextStands ==
  ASSUME NEW a, NEW T, Follows(a, T), Stands(a)
  PROVE  Stands(StartText(a)) /\ Follows(StartText(a), T) /\ StartText(a).block = "text"
<1> DEFINE kind == "text"
           e == StartText(a)
<1>1. a.block \in {"none", "think", "text"}
  BY StateIs DEF Follows, Reads
<1>2. kind \in {"think", "text"}
  OBVIOUS
<1>3. Follows(e, T) /\ e.block = kind
  BY StartTextFollows
<1> HIDE DEF kind
<1>4. CASE a.block = "none"
  <2>1. e = OpenBlock(a, kind)
    BY <1>4 DEF StartText, kind
  <2>2. Standing(a.sent, a.index, "none")
    BY <1>4 DEF Stands
  <2> HIDE DEF e
  <2>3. Stands(e)
    BY <1>2, <2>1, <2>2, OpenBlockStands
  <2> QED BY <1>3, <2>3 DEF e, kind
<1>5. CASE a.block = "think"
  <2> DEFINE c == CloseThinking(a)
  <2>1. e = OpenBlock(c, kind)
    BY <1>5 DEF StartText, kind
  <2>2. Follows(c, T)
    BY CloseThinkingFollows
  <2>3. Standing(a.sent, a.index, "think")
    BY <1>5 DEF Stands
  <2>4. Standing(c.sent, c.index, "none")
    BY <2>3, CloseThinkingStands
  <2> HIDE DEF e, c
  <2>5. Stands(e)
    BY <1>2, <2>1, <2>2, <2>4, OpenBlockStands
  <2> QED BY <1>3, <2>5 DEF e, kind
<1>6. CASE a.block = "text"
  <2>1. e = a
    BY <1>6 DEF StartText
  <2> HIDE DEF e
  <2> QED BY <1>3, <2>1 DEF e, kind
<1> QED BY <1>1, <1>4, <1>5, <1>6

LEMMA SpeakingStands ==
  ASSUME NEW a, NEW T, Follows(a, T), Stands(a), a.block = "text", NEW e, Speaks(a, e)
  PROVE  Stands(e) /\ e.block = "text"
<1> DEFINE kind == "text"
<1>1. /\ e.block = a.block /\ e.index = a.index
      /\ Like(a.sent, e.sent) \/ Grows(a.sent, e.sent, kind, a.index)
  BY DEF Speaks
<1>2. a.sent \in Lists
  BY StateIs DEF Follows, Reads
<1>3. Standing(a.sent, a.index, kind)
  BY DEF Stands
<1>4. kind = "text" /\ a.block = kind
  OBVIOUS
<1> HIDE DEF kind
<1>5. CASE Like(a.sent, e.sent)
  <2>1. Standing(e.sent, a.index, kind)
    BY <1>2, <1>3, <1>5, StandsAlike
  <2> QED BY <1>1, <1>4, <2>1 DEF Stands
<1>6. CASE Grows(a.sent, e.sent, kind, a.index)
  <2>1. Standing(e.sent, a.index, kind)
    BY <1>2, <1>3, <1>4, <1>6, DeltaStands
  <2> QED BY <1>1, <1>4, <2>1 DEF Stands
<1> QED BY <1>1, <1>5, <1>6

\* A chunk with reasoning alone, before any text.
LEMMA ThoughtStands ==
  ASSUME NEW a, NEW T, Follows(a, T), Stands(a), a.block # "text",
         NEW chunk, chunk.thought, ~chunk.told
  PROVE  LET e == AnthropicChunk(a, chunk) IN Stands(e) /\ e.block = "think"
<1> DEFINE part == "think"
           kind == "thought"
           none == <<>>
           b == StartThinking(a)
           f == Emit(b, kind, none)
           e == AnthropicChunk(a, chunk)
<1>1. a.block \in {"none", "think"} /\ a \in States
  BY StateIs DEF Follows, Reads
<1>2. Follows(b, T) /\ b.block = part
  BY StartThinkingFollows
<1>3. part \in {"think", "text"} /\ part = "think" /\ kind \in {"thought", "signature"}
  OBVIOUS
<1>4. kind \in Kinds \ {"text", "calls"} /\ none \in Words
  BY TheKinds, EmptyWord
<1>5. e = IF b.block = "think" THEN f ELSE b
  BY DEF AnthropicChunk
<1> HIDE DEF part, kind, none, e, f
<1>6. Stands(b)
  <2>1. CASE a.block = "none"
    <3>1. b = OpenBlock(a, part) /\ Standing(a.sent, a.index, "none")
      BY <2>1 DEF StartThinking, Stands, part
    <3> HIDE DEF b
    <3> QED BY <1>3, <3>1, OpenBlockStands
  <2>2. CASE a.block = "think"
    <3> DEFINE d == [a EXCEPT !.block = part]
    <3>1. b = d
      BY <2>2 DEF StartThinking, part
    <3>2. part \in {"none", "think", "text"}
      BY <1>3
    <3>3. d.block = part /\ d.index = a.index /\ d.sent = a.sent
      BY <1>1, <3>2, WithBlock
    <3> HIDE DEF b, d
    <3> QED BY <1>3, <2>2, <3>1, <3>3 DEF Stands
  <2> QED BY <1>1, <2>1, <2>2
<1> HIDE DEF b
<1>7. /\ f.block = b.block /\ f.index = b.index
      /\ Grows(b.sent, f.sent, kind, b.index)
  BY <1>2, <1>4, EmitFollows DEF f
<1>8. b.sent \in Lists /\ Standing(b.sent, b.index, part)
  BY <1>2, <1>6, StateIs DEF Follows, Reads, Stands
<1>9. Standing(f.sent, b.index, part)
  BY <1>3, <1>7, <1>8, DeltaStands
<1>10. Stands(f) /\ f.block = part
  BY <1>2, <1>7, <1>9 DEF Stands
<1>11. e = f
  BY <1>2, <1>3, <1>5
<1> QED BY <1>3, <1>10, <1>11 DEF e

\* A chunk with content alone.
LEMMA ContentStands ==
  ASSUME NEW a, NEW T, Follows(a, T), Stands(a), api = "anthropic",
         NEW chunk \in Chunks, ~chunk.thought
  PROVE  LET e == AnthropicChunk(a, chunk) IN Stands(e) /\ e.block = "text"
<1> DEFINE b == StartText(a)
           f == Strip(b, chunk.content)
           e == AnthropicChunk(a, chunk)
<1>1. chunk.told /\ chunk.content \in Words
  BY ChunkIs
<1>2. Stands(b) /\ Follows(b, T) /\ b.block = "text"
  BY StartTextStands
<1>3. e = f
  BY <1>1 DEF AnthropicChunk
<1> HIDE DEF b, e
<1>4. Speaks(b, f)
  BY <1>1, <1>2, StripFollows
<1> HIDE DEF f
<1>5. Stands(f) /\ f.block = "text"
  BY <1>2, <1>4, SpeakingStands
<1> QED BY <1>3, <1>5 DEF e

\* First the reasoning, then the content.
InTurn(chunks) ==
  /\ \A n \in 1 .. Len(chunks) : ~(chunks[n].thought /\ chunks[n].told)
  /\ \A n \in 2 .. Len(chunks) : chunks[n].thought => ~chunks[n - 1].told

LEMMA DeliverStands ==
  ASSUME NEW T, Follows(Adapter, T), Stands(Adapter), api = "anthropic",
         NEW chunks \in Seq(Chunks), NEW m \in Nat, Len(chunks) = m + 1, InTurn(chunks),
         Adapter.block = "text" => ~chunks[1].thought, ~chunks[m + 1].thought
  PROVE  Stands(Deliver(chunks)) /\ Deliver(chunks).block = "text"
<1>1. PICK after \in [0 .. m + 1 -> Followers] :
           /\ after[0] = Adapter
           /\ \A n \in 1 .. m + 1 : after[n] = AdapterChunk(after[n - 1], chunks[n])
           /\ Deliver(chunks) = after[m + 1]
  BY DeliverSteps
<1>2. \A n \in 1 .. m + 1 : chunks[n] \in Chunks
  BY ElementOfSeq
<1> DEFINE S == {n \in 0 .. m + 1 :
                   /\ Stands(after[n])
                   /\ n = 0 \/ after[n].block = IF chunks[n].told THEN "text" ELSE "think"}
<1>3. 0 \in S
  BY <1>1
<1>4. ASSUME NEW n \in 1 .. m + 1, n - 1 \in S PROVE n \in S
  <2> DEFINE a == after[n - 1]
             chunk == chunks[n]
             e == AnthropicChunk(a, chunk)
  <2>1. n - 1 \in 0 .. m + 1 /\ n \in 0 .. m + 1
    BY <1>4
  <2>2. a \in Followers
    BY <1>1, <2>1
  <2>3. PICK U \in Words : Follows(a, U)
    BY <2>2 DEF Followers
  <2>4. Stands(a) /\ (n - 1 = 0 \/ a.block = IF chunks[n - 1].told THEN "text" ELSE "think")
    BY <1>4
  <2>5. after[n] = e
    BY <1>1 DEF AdapterChunk
  <2>6. chunk \in Chunks
    BY <1>2
  <2>7. ~chunk.told => chunk.thought
    BY <2>6, ChunkIs
  <2>8. ~(chunk.thought /\ chunk.told)
    BY DEF InTurn
  <2>9. chunk.thought => a.block # "text"
    <3>1. CASE n = 1
      BY <1>1, <3>1
    <3>2. CASE n # 1
      <4>1. n \in 2 .. m + 1 /\ n - 1 # 0
        BY <3>2
      <4>2. chunk.thought => ~chunks[n - 1].told
        BY <4>1 DEF InTurn
      <4>3. a.block = IF chunks[n - 1].told THEN "text" ELSE "think"
        BY <2>4, <4>1
      <4> QED BY <4>2, <4>3
    <3> QED BY <3>1, <3>2
  <2>10. CASE chunk.thought
    <3>1. ~chunk.told /\ a.block # "text"
      BY <2>8, <2>9, <2>10
    <3> HIDE DEF a, chunk, e, S
    <3>2. Stands(AnthropicChunk(a, chunk)) /\ AnthropicChunk(a, chunk).block = "think"
      BY <2>3, <2>4, <2>10, <3>1, ThoughtStands
    <3>3. Stands(after[n]) /\ after[n].block = "think" /\ ~chunks[n].told
      BY <2>5, <3>1, <3>2 DEF e, chunk
    <3> QED BY <2>1, <3>3 DEF S
  <2>11. CASE ~chunk.thought
    <3> HIDE DEF a, chunk, e, S
    <3>1. Stands(AnthropicChunk(a, chunk)) /\ AnthropicChunk(a, chunk).block = "text"
      BY <2>3, <2>4, <2>6, <2>11, ContentStands
    <3>2. Stands(after[n]) /\ after[n].block = "text" /\ chunks[n].told
      BY <2>5, <2>7, <2>11, <3>1 DEF e, chunk
    <3> QED BY <2>1, <3>2 DEF S
  <2> QED BY <2>10, <2>11
<1>5. \A n \in 0 .. m + 1 : n \in S
  <2> HIDE DEF S
  <2>1. m + 1 \in Nat
    OBVIOUS
  <2> QED BY <1>3, <1>4, <2>1, Steadily
<1>6. m + 1 \in S /\ m + 1 # 0 /\ m + 1 \in 1 .. m + 1
  BY <1>5
<1>7. chunks[m + 1].told
  BY <1>2, <1>6, ChunkIs
<1> QED BY <1>1, <1>6, <1>7

-----------------------------------------------------------------------------
(* The open answer, chunk by chunk.                                        *)

\* What a list has to be, once it is what the client got.
StreamedAs(list, over, atEnd, T) ==
  LET called == api = "tools" /\ CallsIn(T) > 0
  IN /\ IsPrefix(TextIn(list), Whole(T))
     /\ over = "complete" =>
          /\ api # "anthropic" \/ atEnd = "text" => TextIn(list) = Whole(T)
          /\ Announces(list) <=> called
          /\ list[Len(list) - 1].kind = IF called THEN "finish tool_calls" ELSE "finish stop"
          /\ list[Len(list)].kind = "done"

BlocksAs(list, over) ==
  /\ \A n \in 1 .. Len(list) : Placed(list, n)
  /\ over = "complete" =>
       Cardinality(ClosedOf(list, Len(list))) = Cardinality(OpenedOf(list, Len(list)))

LEMMA FaithfulIs ==
  api \in Streams /\ StreamedAs(sent, outcome, block, text) => StreamFaithful
<1> SUFFICES ASSUME api \in Streams, StreamedAs(sent, outcome, block, text)
             PROVE  StreamFaithful
  OBVIOUS
<1> DEFINE list == sent
           T == text
<1>1. TextSent = TextIn(list)
  BY DEF TextSent
<1>2. Announced <=> Announces(list)
  BY DEF Announced, Announces
<1>3. StreamedFaithful
  BY <1>1, <1>2, Zenon DEF StreamedFaithful, StreamedAs, Whole
<1> QED BY <1>3 DEF StreamFaithful

LEMMA WellFormedIs ==
  (api = "anthropic" /\ order # "mixed" => sent \in Lists /\ BlocksAs(sent, outcome))
    => BlocksWellFormed
<1> SUFFICES ASSUME api = "anthropic", order # "mixed", sent \in Lists, BlocksAs(sent, outcome)
             PROVE  BlocksWellFormed
  BY DEF BlocksWellFormed
<1>1. DOMAIN sent = 1 .. Len(sent)
  BY ListLength
<1>2. \A n : ClosedIn(n) = ClosedOf(sent, n) /\ OpenedIn(n) = OpenedOf(sent, n)
  BY DEF ClosedIn, ClosedOf, OpenedIn, OpenedOf
<1>3. \A n : Placed(sent, n) => InPlace(n)
  <2> SUFFICES ASSUME NEW n, Placed(sent, n) PROVE InPlace(n)
    OBVIOUS
  <2>1. ClosedIn(n - 1) = ClosedOf(sent, n - 1) /\ OpenedIn(n - 1) = OpenedOf(sent, n - 1)
    BY <1>2
  <2> QED BY <2>1 DEF InPlace, Placed, BegunAs, StillOpen
<1> QED BY <1>1, <1>2, <1>3 DEF BlocksWellFormed, BlocksAs

\* The state of an open answer: the adapter has written what the filters pass
\* on of the text; before the first visible chunk nothing was written, and the
\* chunks held back show nothing; and the Anthropic adapter is in its text
\* block once something was visible.
OpenAs(a, T, list, seen, turn) ==
  /\ Follows(a, IF api \in Streams THEN T ELSE <<>>)
  /\ ~(api \in Streams /\ seen) => Fresh(a)
  /\ ~seen => T = <<>>
  /\ seen => turn # "thinking"
  /\ api \in Streams /\ seen => list = <<>>
  /\ api \in Streams /\ ~seen =>
       /\ \A n \in 1 .. Len(list) : list[n].content = <<>>
       /\ turn # "mixed" => InTurn(list)
       /\ turn = "thinking" => \A n \in 1 .. Len(list) : ~list[n].told
  /\ api = "anthropic" /\ seen /\ turn # "mixed" => a.block = "text" /\ Stands(a)

Turn(chunk, turn) ==
  CASE chunk.thought /\ (chunk.told \/ turn # "thinking") -> "mixed"
    [] ~chunk.thought /\ turn = "thinking" -> "answering"
    [] OTHER -> turn

Turns == {"thinking", "answering", "mixed"}

LEMMA TurnIs ==
  ASSUME NEW chunk \in Chunks, NEW turn \in Turns
  PROVE  /\ Turn(chunk, turn) \in Turns
         /\ Turn(chunk, turn) # "mixed" =>
              /\ turn # "mixed"
              /\ chunk.thought => turn = "thinking" /\ ~chunk.told
         /\ turn # "thinking" \/ ~chunk.thought \/ chunk.told => Turn(chunk, turn) # "thinking"
         /\ Turn(chunk, turn) = "thinking" => turn = "thinking" /\ ~chunk.told
<1>1. chunk.told \in BOOLEAN /\ chunk.thought \in BOOLEAN /\ (~chunk.told => chunk.thought)
  BY ChunkIs
<1>2. CASE chunk.thought /\ (chunk.told \/ turn # "thinking")
  BY <1>1, <1>2 DEF Turn, Turns
<1>3. CASE ~chunk.thought /\ turn = "thinking"
  BY <1>1, <1>3 DEF Turn, Turns
<1>4. CASE ~chunk.thought /\ turn # "thinking"
  BY <1>1, <1>4 DEF Turn, Turns
<1>5. CASE chunk.thought /\ ~chunk.told /\ turn = "thinking"
  BY <1>1, <1>5 DEF Turn, Turns
<1> QED BY <1>1, <1>2, <1>3, <1>4, <1>5

LEMMA AddedChunk ==
  ASSUME NEW list \in Seq(Chunks), NEW chunk \in Chunks, NEW m, m = Len(list)
  PROVE  /\ Append(list, chunk) \in Seq(Chunks) /\ m \in Nat /\ Len(Append(list, chunk)) = m + 1
         /\ \A n \in 1 .. m : Append(list, chunk)[n] = list[n]
         /\ Append(list, chunk)[m + 1] = chunk
  BY AppendProperties, LenProperties

\* The chunks held back and one more are still in turn.
LEMMA AddedInTurn ==
  ASSUME NEW list \in Seq(Chunks), NEW chunk \in Chunks, NEW turn \in Turns,
         Turn(chunk, turn) # "mixed", InTurn(list),
         turn = "thinking" => \A n \in 1 .. Len(list) : ~list[n].told
  PROVE  InTurn(Append(list, chunk))
<1> DEFINE m == Len(list)
           more == Append(list, chunk)
<1>1. /\ m \in Nat /\ Len(more) = m + 1
      /\ \A n \in 1 .. m : more[n] = list[n]
      /\ more[m + 1] = chunk
  BY AddedChunk
<1>2. /\ \A n \in 1 .. m : ~(list[n].thought /\ list[n].told)
      /\ \A n \in 2 .. m : list[n].thought => ~list[n - 1].told
      /\ turn = "thinking" => \A n \in 1 .. m : ~list[n].told
  BY DEF InTurn
<1> HIDE DEF m, more
<1>3. chunk.thought => turn = "thinking" /\ ~chunk.told
  BY TurnIs
<1>4. ASSUME NEW n \in 1 .. m + 1 PROVE ~(more[n].thought /\ more[n].told)
  <2>1. CASE n = m + 1
    BY <1>1, <1>3, <2>1
  <2>2. CASE n # m + 1
    <3>1. n \in 1 .. m
      BY <1>1, <2>2
    <3> QED BY <1>1, <1>2, <3>1
  <2> QED BY <2>1, <2>2
<1>5. ASSUME NEW n \in 2 .. m + 1, more[n].thought PROVE ~more[n - 1].told
  <2>1. n - 1 \in 1 .. m /\ more[n - 1] = list[n - 1]
    BY <1>1
  <2>2. CASE n = m + 1
    BY <1>1, <1>2, <1>3, <1>5, <2>1, <2>2
  <2>3. CASE n # m + 1
    <3>1. n \in 2 .. m /\ n \in 1 .. m
      BY <1>1, <2>3
    <3> QED BY <1>1, <1>2, <1>5, <2>1, <3>1
  <2> QED BY <2>2, <2>3
<1>6. InTurn(more)
  BY <1>1, <1>4, <1>5 DEF InTurn
<1> QED BY <1>6 DEF more

\* Chunks held back: nothing was written, and nothing is.
LEMMA HoldOpens ==
  ASSUME NEW a, NEW T \in Words, NEW list \in Seq(Chunks), NEW seen \in BOOLEAN, NEW turn \in Turns,
         OpenAs(a, T, list, seen, turn), NEW chunk \in Chunks,
         ~(api \in Streams /\ (seen \/ Visible(chunk))),
         NEW more, more = Append(list, chunk) \/ (api \notin Streams /\ more = list)
  PROVE  /\ OpenAs(a, T \o chunk.content, more, seen \/ Visible(chunk), Turn(chunk, turn))
         /\ more \in Seq(Chunks)
<1> DEFINE m == Len(list)
           now == seen \/ Visible(chunk)
           next == Turn(chunk, turn)
           Tc == T \o chunk.content
<1>1. /\ Append(list, chunk) \in Seq(Chunks) /\ m \in Nat /\ Len(Append(list, chunk)) = m + 1
      /\ \A n \in 1 .. m : Append(list, chunk)[n] = list[n]
      /\ Append(list, chunk)[m + 1] = chunk
  BY AddedChunk
<1>2. /\ chunk.told \in BOOLEAN /\ chunk.thought \in BOOLEAN /\ chunk.content \in Words
      /\ ~chunk.told => chunk.content = <<>> /\ chunk.thought
  BY ChunkIs
<1>3. /\ Follows(a, IF api \in Streams THEN T ELSE <<>>)
      /\ ~(api \in Streams /\ seen) => Fresh(a)
      /\ ~seen => T = <<>>
      /\ seen => turn # "thinking"
      /\ api \in Streams /\ ~seen =>
           /\ \A n \in 1 .. m : list[n].content = <<>>
           /\ turn # "mixed" => InTurn(list)
           /\ turn = "thinking" => \A n \in 1 .. m : ~list[n].told
  BY DEF OpenAs
<1>4. ~now => Tc = T
  BY <1>2, NothingJoined DEF Visible
<1>5. /\ next \in Turns
      /\ next # "mixed" => turn # "mixed"
      /\ turn # "thinking" \/ ~chunk.thought \/ chunk.told => next # "thinking"
      /\ next = "thinking" => turn = "thinking" /\ ~chunk.told
  BY TurnIs
<1>6. now => next # "thinking"
  BY <1>2, <1>3, <1>5 DEF Visible
<1>7. api \in Streams => ~now /\ ~seen /\ chunk.content = <<>> /\ more = Append(list, chunk)
  BY DEF Visible
<1>8. api \in Streams /\ next # "mixed" => InTurn(more)
  <2> HIDE DEF next
  <2> SUFFICES ASSUME api \in Streams, next # "mixed" PROVE InTurn(more)
    OBVIOUS
  <2>1. InTurn(list) /\ (turn = "thinking" => \A n \in 1 .. Len(list) : ~list[n].told)
    BY <1>3, <1>5, <1>7 DEF m
  <2>2. InTurn(Append(list, chunk))
    BY <2>1, AddedInTurn DEF next
  <2> QED BY <1>7, <2>2
<1> HIDE DEF m, now, next, Tc
<1>9. \A n \in 1 .. m + 1 : n \in 1 .. m \/ n = m + 1
  BY <1>1
<1>10. api \in Streams => \A n \in 1 .. Len(more) : more[n].content = <<>>
  BY <1>1, <1>3, <1>7, <1>9
<1>11. api \in Streams /\ next = "thinking" => \A n \in 1 .. Len(more) : ~more[n].told
  BY <1>1, <1>3, <1>5, <1>7, <1>9
<1>12. Follows(a, IF api \in Streams THEN Tc ELSE <<>>)
  BY <1>3, <1>4, <1>7
<1>13. ~(api \in Streams /\ now) => Fresh(a)
  BY <1>3, <1>7
<1>14. ~now => Tc = <<>>
  BY <1>3, <1>4 DEF now
<1>15. api = "anthropic" => api \in Streams
  BY DEF Streams
<1>16. OpenAs(a, Tc, more, now, next)
  BY <1>6, <1>7, <1>8, <1>10, <1>11, <1>12, <1>13, <1>14, <1>15 DEF OpenAs
<1>17. more \in Seq(Chunks)
  BY <1>1
<1> QED BY <1>16, <1>17 DEF Tc, now, next

\* The first visible chunk, or one after it.
LEMMA DeliverOpens ==
  ASSUME NEW T \in Words, NEW list \in Seq(Chunks), NEW seen \in BOOLEAN, NEW turn \in Turns,
         OpenAs(Adapter, T, list, seen, turn), NEW chunk \in Chunks,
         api \in Streams, seen \/ Visible(chunk)
  PROVE  OpenAs(Deliver(Append(list, chunk)), T \o chunk.content, <<>>, TRUE, Turn(chunk, turn))
<1> DEFINE m == Len(list)
           more == Append(list, chunk)
           next == Turn(chunk, turn)
           Tc == T \o chunk.content
           e == Deliver(more)
<1>1. /\ more \in Seq(Chunks) /\ m \in Nat /\ Len(more) = m + 1
      /\ \A n \in 1 .. m : more[n] = list[n]
      /\ more[m + 1] = chunk
  BY AddedChunk
<1>2. /\ chunk.told \in BOOLEAN /\ chunk.thought \in BOOLEAN /\ chunk.content \in Words
      /\ ~chunk.told => chunk.content = <<>> /\ chunk.thought
  BY ChunkIs
<1>3. /\ Follows(Adapter, T)
      /\ ~seen => Fresh(Adapter)
      /\ seen => turn # "thinking" /\ list = <<>>
      /\ ~seen => /\ \A n \in 1 .. m : list[n].content = <<>>
                  /\ turn # "mixed" => InTurn(list)
                  /\ turn = "thinking" => \A n \in 1 .. m : ~list[n].told
      /\ api = "anthropic" /\ seen /\ turn # "mixed" => Adapter.block = "text" /\ Stands(Adapter)
  BY DEF OpenAs
<1>4. seen => m = 0
  BY <1>3
<1>5. /\ next # "mixed" => turn # "mixed" /\ (chunk.thought => turn = "thinking" /\ ~chunk.told)
      /\ turn # "thinking" \/ ~chunk.thought \/ chunk.told => next # "thinking"
  BY TurnIs
<1>6. next # "thinking"
  BY <1>2, <1>3, <1>5 DEF Visible
<1>7. next # "mixed" => InTurn(more) /\ ~chunk.thought
  <2> SUFFICES ASSUME next # "mixed" PROVE InTurn(more) /\ ~chunk.thought
    OBVIOUS
  <2>1. ~chunk.thought
    <3>1. CASE seen
      BY <1>3, <1>5, <3>1
    <3>2. CASE ~seen
      BY <1>2, <1>5, <3>2 DEF Visible
    <3> QED BY <3>1, <3>2
  <2>2. InTurn(list) /\ (turn = "thinking" => \A n \in 1 .. Len(list) : ~list[n].told)
    <3>1. CASE seen
      <4>1. Len(list) = 0
        BY <1>4, <3>1
      <4>2. \A n : n \notin 1 .. Len(list) /\ n \notin 2 .. Len(list)
        BY <4>1
      <4> QED BY <4>2 DEF InTurn
    <3>2. CASE ~seen
      BY <1>3, <1>5, <3>2
    <3> QED BY <3>1, <3>2
  <2>3. InTurn(more)
    BY <2>2, AddedInTurn
  <2> QED BY <2>1, <2>3
<1> HIDE DEF m, more, next, Tc, e
<1>8. \A n \in 1 .. m : more[n].content = <<>>
  <2>1. CASE seen
    <3>1. \A n : n \notin 1 .. m
      BY <1>4, <2>1
    <3> QED BY <3>1
  <2>2. CASE ~seen
    BY <1>1, <1>3, <2>2
  <2> QED BY <2>1, <2>2
<1>9. Follows(e, Tc)
  <2>1. Follows(Deliver(more), T \o more[m + 1].content)
    BY <1>1, <1>3, <1>8, DeliverFollows
  <2> QED BY <1>1, <2>1 DEF e, Tc
<1>10. api = "anthropic" /\ next # "mixed" => e.block = "text" /\ Stands(e)
  <2> SUFFICES ASSUME api = "anthropic", next # "mixed" PROVE e.block = "text" /\ Stands(e)
    OBVIOUS
  <2>1. Stands(Adapter)
    <3>1. CASE seen
      BY <1>3, <1>5, <3>1
    <3>2. CASE ~seen
      <4>1. Adapter.block = "none" /\ Adapter.index = 0 /\ Adapter.sent = <<Event("start", 0, <<>>)>>
        BY <1>3, <3>2 DEF Fresh
      <4>2. Standing(Adapter.sent, 0, "none")
        BY <4>1, StandsAtFirst
      <4> QED BY <4>1, <4>2 DEF Stands
    <3> QED BY <3>1, <3>2
  <2>2. Adapter.block = "text" => ~more[1].thought
    <3>1. CASE seen
      <4>1. more[1] = chunk
        BY <1>1, <1>4, <3>1
      <4> QED BY <1>7, <4>1
    <3>2. CASE ~seen
      <4>1. Adapter.block = "none"
        BY <1>3, <3>2 DEF Fresh
      <4> QED BY <4>1
    <3> QED BY <3>1, <3>2
  <2>3. InTurn(more) /\ ~more[m + 1].thought
    BY <1>1, <1>7
  <2>4. Stands(Deliver(more)) /\ Deliver(more).block = "text"
    BY <1>1, <1>3, <2>1, <2>2, <2>3, DeliverStands
  <2> QED BY <2>4 DEF e
<1>11. OpenAs(e, Tc, <<>>, TRUE, next)
  BY <1>6, <1>9, <1>10 DEF OpenAs
<1> QED BY <1>11 DEF e, Tc, more, next

-----------------------------------------------------------------------------
(* The answer in one piece: parseToolCalls takes every block out of the    *)
(* text, the detector the first; in order, both read the same.             *)

\* One step of TakeBlocks, at the place i of s.
OpenAt(s, i) == IndexOf(From(s, i), ToolOpen)
InnerAt(s, i) == From(From(s, i), OpenAt(s, i) + Len(ToolOpen))
CloseAt(s, i) == IndexOf(InnerAt(s, i), ToolClose)
AfterAt(s, i) == i + OpenAt(s, i) + Len(ToolOpen) + CloseAt(s, i) + Len(ToolClose) - 2
TakenAt(s, f, i) ==
  IF OpenAt(s, i) = 0 \/ CloseAt(s, i) = 0 THEN [left |-> From(s, i), calls |-> 0]
  ELSE [left |-> Before(From(s, i), OpenAt(s, i)) \o f[AfterAt(s, i)].left,
        calls |-> ParseToolCalls(Before(InnerAt(s, i), CloseAt(s, i))) + f[AfterAt(s, i)].calls]

Results == [left : Words, calls : Nat]

LEMMA AfterIs ==
  ASSUME NEW s \in Words, NEW i \in 1 .. Len(s) + 1, OpenAt(s, i) # 0, CloseAt(s, i) # 0
  PROVE  /\ AfterAt(s, i) \in i + 1 .. Len(s) + 1
         /\ Before(From(s, i), OpenAt(s, i)) \in Words
         /\ InnerAt(s, i) \in Words /\ Before(InnerAt(s, i), CloseAt(s, i)) \in Words
<1> DEFINE here == From(s, i)
           open == OpenAt(s, i)
           inner == InnerAt(s, i)
           close == CloseAt(s, i)
           N == Len(s)
           lo == Len(ToolOpen)
           lc == Len(ToolClose)
<1>1. N \in Nat /\ i \in Nat \ {0} /\ i <= N + 1
  BY WordLength
<1>2. lo \in Nat /\ lc \in Nat /\ lo >= 2 /\ lc >= 2 /\ ToolOpen \in Words /\ ToolClose \in Words
  BY Tags
<1>3. here \in Words /\ Len(Before(s, i)) + 1 = i /\ Len(Before(s, i)) + Len(here) = N
  BY <1>1, Parts
<1>4. Len(here) \in Nat /\ Len(here) + i = N + 1
  <2>1. Len(here) \in Nat
    BY <1>3, WordLength
  <2> HIDE DEF here, N
  <2> QED BY <1>1, <1>3, <2>1
<1>5. open \in Nat \ {0} /\ open + lo <= Len(here) + 1
  <2>1. open = IndexOf(here, ToolOpen) /\ open # 0
    BY DEF OpenAt
  <2> HIDE DEF open, here
  <2> QED BY <1>2, <1>3, <2>1, IndexSpec
<1>6. inner = From(here, open + lo)
  BY DEF InnerAt
<1>7. close = IndexOf(inner, ToolClose) /\ close # 0
  BY DEF CloseAt
<1>8. AfterAt(s, i) = i + open + lo + close + lc - 2
  BY DEF AfterAt
<1> HIDE DEF here, open, inner, close, N, lo, lc
<1>9. open + lo \in Nat \ {0} /\ open + lo <= Len(here) + 1
  BY <1>2, <1>5
<1>10. inner \in Words /\ Len(Before(here, open + lo)) + 1 = open + lo
       /\ Len(Before(here, open + lo)) + Len(inner) = Len(here)
  BY <1>3, <1>6, <1>9, Parts
<1>11. Len(inner) \in Nat
  BY <1>10, WordLength
<1>12. Len(inner) + open + lo = Len(here) + 1
  BY <1>2, <1>4, <1>5, <1>10, <1>11
<1>13. close \in Nat \ {0} /\ close + lc <= Len(inner) + 1
  BY <1>2, <1>7, <1>10, IndexSpec DEF lc
<1>14. AfterAt(s, i) \in i + 1 .. N + 1
  BY <1>1, <1>2, <1>4, <1>5, <1>8, <1>11, <1>12, <1>13
<1>15. Before(here, open) \in Words
  <2>1. open <= Len(here) + 1
    BY <1>2, <1>4, <1>5
  <2> QED BY <1>3, <1>5, <2>1, Parts
<1>16. Before(inner, close) \in Words
  <2>1. close <= Len(inner) + 1
    BY <1>2, <1>11, <1>13
  <2> QED BY <1>10, <1>13, <2>1, Parts
<1> QED BY <1>10, <1>14, <1>15, <1>16 DEF here, open, inner, close, N

LEMMA TakenIs ==
  ASSUME NEW s \in Words, NEW i \in 1 .. Len(s) + 1, NEW f,
         \A j \in i + 1 .. Len(s) + 1 : f[j] \in Results
  PROVE  TakenAt(s, f, i) \in Results
<1>1. CASE OpenAt(s, i) = 0 \/ CloseAt(s, i) = 0
  <2>1. i \in Nat \ {0} /\ i <= Len(s) + 1
    BY WordLength
  <2>2. From(s, i) \in Words
    BY <2>1, Parts
  <2> QED BY <1>1, <2>2 DEF TakenAt, Results
<1>2. CASE ~(OpenAt(s, i) = 0 \/ CloseAt(s, i) = 0)
  <2> DEFINE rest == f[AfterAt(s, i)]
             head == Before(From(s, i), OpenAt(s, i))
             part == Before(InnerAt(s, i), CloseAt(s, i))
  <2>1. AfterAt(s, i) \in i + 1 .. Len(s) + 1 /\ head \in Words /\ part \in Words
    BY <1>2, AfterIs
  <2>2. rest \in Results
    BY <2>1
  <2>3. TakenAt(s, f, i) = [left |-> head \o rest.left, calls |-> ParseToolCalls(part) + rest.calls]
    BY <1>2 DEF TakenAt
  <2> HIDE DEF rest, head, part
  <2>4. rest.left \in Words /\ rest.calls \in Nat
    BY <2>2 DEF Results
  <2>5. head \o rest.left \in Words /\ ParseToolCalls(part) \in Nat
    BY <2>1, <2>4, Joining, CountIsNat
  <2>6. ParseToolCalls(part) + rest.calls \in Nat
    BY <2>4, <2>5
  <2> QED BY <2>3, <2>5, <2>6 DEF Results
<1> QED BY <1>1, <1>2

\* TakeBlocks is defined: from the end of the text backwards.
LEMMA TakeSteps ==
  ASSUME NEW s \in Words
  PROVE  \E f \in [1 .. Len(s) + 1 -> Results] : \A i \in 1 .. Len(s) + 1 : f[i] = TakenAt(s, f, i)
<1> DEFINE N == Len(s)
           Down(k, g) == /\ g \in [k .. N + 1 -> Results]
                         /\ \A i \in k .. N + 1 : g[i] = TakenAt(s, g, i)
           good == {k \in 1 .. N + 1 : \E g : Down(k, g)}
<1>1. N \in Nat
  BY WordLength
<1>2. N + 1 \in good
  <2> DEFINE f == [i \in {} |-> 0]
             g == [i \in N + 1 .. N + 1 |-> TakenAt(s, f, i)]
  <2>1. N + 1 \in 1 .. Len(s) + 1 /\ \A j : j \notin (N + 1) + 1 .. Len(s) + 1
    BY <1>1
  <2> HIDE DEF f
  <2>2. TakenAt(s, f, N + 1) \in Results
    BY <2>1, TakenIs
  <2>3. OpenAt(s, N + 1) = 0 \/ CloseAt(s, N + 1) = 0
    BY <2>1, AfterIs
  <2> HIDE DEF N
  <2>4. \A i \in N + 1 .. N + 1 : i = N + 1
    BY <1>1
  <2>5. N + 1 \in N + 1 .. N + 1
    BY <1>1
  <2>6. g \in [N + 1 .. N + 1 -> Results]
    BY <2>2, <2>4
  <2>7. g[N + 1] = TakenAt(s, f, N + 1)
    BY <2>5
  <2> HIDE DEF g
  <2>8. TakenAt(s, f, N + 1) = TakenAt(s, g, N + 1)
    BY <2>3 DEF TakenAt
  <2>9. Down(N + 1, g)
    BY <2>4, <2>6, <2>7, <2>8
  <2> HIDE DEF Down
  <2> QED BY <2>1, <2>9 DEF N
<1>3. good \in SUBSET Nat /\ good # {}
  <2> HIDE DEF Down
  <2>1. good \subseteq 1 .. N + 1
    OBVIOUS
  <2> HIDE DEF good
  <2>2. 1 .. N + 1 \subseteq Nat
    BY <1>1
  <2> QED BY <1>2, <2>1, <2>2
<1>4. PICK k \in good : \A j \in good : k <= j
  <2> HIDE DEF good
  <2> QED BY <1>3, LeastNatural
<1>5. k \in 1 .. N + 1
  OBVIOUS
<1>6. PICK g : Down(k, g)
  OBVIOUS
<1>7. CASE k # 1
  <2> DEFINE p == k - 1
             first == TakenAt(s, g, p)
             h == [i \in p .. N + 1 |-> IF i = p THEN first ELSE g[i]]
  <2>1. /\ p \in 1 .. N + 1 /\ p < k
        /\ \A i \in p .. N + 1 : i = p \/ i \in k .. N + 1
        /\ \A i \in k .. N + 1 : i \in p .. N + 1 /\ i # p
        /\ p \in p .. N + 1 /\ p + 1 = k
    BY <1>1, <1>5, <1>7
  <2>2. /\ g \in [k .. N + 1 -> Results]
        /\ \A i \in k .. N + 1 : g[i] = TakenAt(s, g, i)
    BY <1>6
  <2>3. first \in Results
    <3>1. \A j \in p + 1 .. Len(s) + 1 : g[j] \in Results
      BY <2>1, <2>2
    <3> HIDE DEF p
    <3> QED BY <2>1, <3>1, TakenIs
  <2> HIDE DEF p, first
  <2>4. h \in [p .. N + 1 -> Results]
    BY <2>1, <2>2, <2>3
  <2>5. h[p] = first /\ \A i \in k .. N + 1 : h[i] = g[i]
    BY <2>1
  <2> HIDE DEF h, Down, good
  <2>6. ASSUME NEW i \in p .. N + 1, OpenAt(s, i) # 0, CloseAt(s, i) # 0
        PROVE  h[AfterAt(s, i)] = g[AfterAt(s, i)]
    <3>1. i \in 1 .. Len(s) + 1
      BY <1>1, <2>1
    <3>2. AfterAt(s, i) \in i + 1 .. N + 1
      BY <2>6, <3>1, AfterIs
    <3>3. AfterAt(s, i) \in k .. N + 1
      BY <1>1, <1>5, <2>1, <3>2
    <3> QED BY <2>5, <3>3
  <2>7. ASSUME NEW i \in p .. N + 1 PROVE TakenAt(s, h, i) = TakenAt(s, g, i)
    BY <2>6 DEF TakenAt
  <2>8. ASSUME NEW i \in p .. N + 1 PROVE h[i] = TakenAt(s, h, i)
    <3>1. CASE i = p
      BY <2>5, <2>7, <3>1 DEF first
    <3>2. CASE i # p
      <4>1. i \in k .. N + 1
        BY <2>1, <3>2
      <4> QED BY <2>2, <2>5, <2>7, <4>1
    <3> QED BY <3>1, <3>2
  <2>9. Down(p, h)
    BY <2>4, <2>8 DEF Down
  <2>10. p \in good
    BY <2>1, <2>9 DEF good
  <2>11. k <= p
    BY <1>4, <2>10
  <2> QED BY <1>5, <2>1, <2>11
<1>8. CASE k = 1
  BY <1>6, <1>8
<1> QED BY <1>7, <1>8

LEMMA TakeIs ==
  ASSUME NEW s \in Words
  PROVE  \E f : /\ \A i \in 1 .. Len(s) + 1 : f[i] = TakenAt(s, f, i)
                /\ TakeBlocks(s) = f[1]
<1> DEFINE Body(f) == [i \in 1 .. Len(s) + 1 |-> TakenAt(s, f, i)]
           from == CHOOSE f : f = Body(f)
<1>1. PICK g \in [1 .. Len(s) + 1 -> Results] : \A i \in 1 .. Len(s) + 1 : g[i] = TakenAt(s, g, i)
  BY TakeSteps
<1>2. g = Body(g)
  BY <1>1
<1>3. from = Body(from)
  <2> HIDE DEF Body
  <2> QED BY <1>2
<1>4. TakeBlocks(s) = from[1]
  BY DEF TakeBlocks, TakenAt, AfterAt, CloseAt, InnerAt, OpenAt
<1> HIDE DEF from
<1>5. \A i \in 1 .. Len(s) + 1 : from[i] = TakenAt(s, from, i)
  BY <1>3
<1> QED BY <1>4, <1>5

\* What is left of x without the blanks at its end: there is one such text.
LEMMA TrimmedIs ==
  ASSUME NEW x \in Words, NEW t \in Words, Len(t) <= Len(x),
         \A i \in 1 .. Len(t) : t[i] = x[i],
         t # <<>> => t[Len(t)] # Blank,
         \A i \in 1 .. Len(x) : i <= Len(t) \/ x[i] = Blank
  PROVE  TrimEnd(x) = t
<1> DEFINE u == TrimEnd(x)
           lt == Len(t)
           lu == Len(u)
           lx == Len(x)
<1>1. /\ u \in Words /\ lu <= lx
      /\ \A i \in 1 .. lu : u[i] = x[i]
      /\ u # <<>> => x[lu] # Blank
      /\ \A i \in 1 .. lx : i <= lu \/ x[i] = Blank
  BY Trimmed
<1> HIDE DEF u
<1>2. lt \in Nat /\ lx \in Nat /\ (lt = 0 => t = <<>>)
  BY WordLength
<1>3. lu \in Nat /\ (lu = 0 => u = <<>>)
  BY <1>1, WordLength
<1>4. u = <<>> => lu = 0
  BY EmptyWord
<1>5. t = <<>> => lt = 0
  BY EmptyWord
<1>6. /\ lt <= lx /\ \A i \in 1 .. lt : t[i] = x[i]
      /\ t # <<>> => t[lt] # Blank
      /\ \A i \in 1 .. lx : i <= lt \/ x[i] = Blank
  OBVIOUS
<1> HIDE DEF lt, lu, lx
<1>7. ~(lt < lu)
  <2> SUFFICES ASSUME lt < lu PROVE FALSE
    OBVIOUS
  <2>1. lu \in 1 .. lx /\ lu # 0 /\ ~(lu <= lt)
    BY <1>1, <1>2, <1>3
  <2>2. x[lu] # Blank
    BY <1>1, <1>4, <2>1
  <2> QED BY <1>6, <2>1, <2>2
<1>8. ~(lu < lt)
  <2> SUFFICES ASSUME lu < lt PROVE FALSE
    OBVIOUS
  <2>1. lt \in 1 .. lx /\ lt \in 1 .. lt /\ lt # 0 /\ ~(lt <= lu)
    BY <1>2, <1>3, <1>6
  <2>2. x[lt] # Blank
    BY <1>5, <1>6, <2>1
  <2> QED BY <1>1, <2>1, <2>2
<1>9. lt = lu
  BY <1>2, <1>3, <1>7, <1>8
<1>10. \A i \in 1 .. Len(u) : u[i] = t[i]
  BY <1>1, <1>6, <1>9 DEF lu
<1>11. u = t
  BY <1>1, <1>9, <1>10, WordEqual DEF lu, lt
<1> QED BY <1>11 DEF u

LEMMA TrimmedTwice ==
  ASSUME NEW x \in Words
  PROVE  TrimEnd(TrimEnd(x)) = TrimEnd(x)
<1> DEFINE t == TrimEnd(x)
           lt == Len(t)
<1>1. /\ t \in Words
      /\ \A i \in 1 .. lt : t[i] = x[i]
      /\ t # <<>> => x[lt] # Blank
  BY Trimmed
<1> HIDE DEF t
<1>2. lt \in Nat /\ (lt = 0 => t = <<>>)
  BY <1>1, WordLength
<1>3. t # <<>> => t[lt] # Blank
  <2> SUFFICES ASSUME t # <<>> PROVE t[lt] # Blank
    OBVIOUS
  <2>1. lt # 0 /\ x[lt] # Blank
    BY <1>1, <1>2
  <2> HIDE DEF lt
  <2>2. lt \in 1 .. lt
    BY <1>2, <2>1
  <2> QED BY <1>1, <2>1, <2>2
<1>4. Len(t) <= Len(t) /\ \A i \in 1 .. Len(t) : i <= Len(t) \/ t[i] = Blank
  BY <1>2
<1>5. TrimEnd(t) = t
  BY <1>1, <1>3, <1>4, TrimmedIs
<1> QED BY <1>5 DEF t

\* Blanks at the end of a part of a text may go first.
LEMMA TrimmedJoin ==
  ASSUME NEW p \in Words, NEW q \in Words
  PROVE  TrimEnd(p \o TrimEnd(q)) = TrimEnd(p \o q)
<1> DEFINE r == TrimEnd(q)
           x == p \o q
           y == p \o r
           t == TrimEnd(y)
           lp == Len(p)
           lq == Len(q)
           lr == Len(r)
           lt == Len(t)
<1>1. /\ r \in Words /\ lr <= lq
      /\ \A i \in 1 .. lr : r[i] = q[i]
      /\ \A i \in 1 .. lq : i <= lr \/ q[i] = Blank
  BY Trimmed
<1> HIDE DEF r
<1>2. lp \in Nat /\ lq \in Nat /\ lr \in Nat
  BY <1>1, WordLength
<1>3. /\ x \in Words /\ Len(x) = lp + lq
      /\ \A i \in 1 .. lp : x[i] = p[i]
      /\ \A i \in 1 .. lq : x[lp + i] = q[i]
  BY Joining
<1>4. /\ y \in Words /\ Len(y) = lp + lr
      /\ \A i \in 1 .. lp : y[i] = p[i]
      /\ \A i \in 1 .. lr : y[lp + i] = r[i]
  BY <1>1, Joining
<1> HIDE DEF x, y
<1>5. /\ t \in Words /\ lt <= lp + lr
      /\ \A i \in 1 .. lt : t[i] = y[i]
      /\ t # <<>> => y[lt] # Blank
      /\ \A i \in 1 .. lp + lr : i <= lt \/ y[i] = Blank
  BY <1>4, Trimmed
<1> HIDE DEF t
<1>6. lt \in Nat /\ (lt = 0 => t = <<>>)
  BY <1>5, WordLength
<1> HIDE DEF lp, lq, lr, lt
<1>7. ASSUME NEW i \in 1 .. lp + lr PROVE y[i] = x[i] /\ i \in 1 .. lp + lq
  <2>1. CASE i <= lp
    <3>1. i \in 1 .. lp /\ i \in 1 .. lp + lq
      BY <1>2, <2>1
    <3> QED BY <1>3, <1>4, <3>1
  <2>2. CASE i > lp
    <3>1. i - lp \in 1 .. lr /\ i - lp \in 1 .. lq /\ lp + (i - lp) = i /\ i \in 1 .. lp + lq
      BY <1>1, <1>2, <2>2
    <3> QED BY <1>1, <1>3, <1>4, <3>1
  <2> QED BY <1>2, <2>1, <2>2
<1>8. lt <= lp + lq
  BY <1>1, <1>2, <1>5, <1>6
<1>9. \A i \in 1 .. lt : t[i] = x[i]
  <2> SUFFICES ASSUME NEW i \in 1 .. lt PROVE t[i] = x[i]
    OBVIOUS
  <2>1. i \in 1 .. lp + lr
    BY <1>2, <1>5, <1>6
  <2> QED BY <1>5, <1>7, <2>1
<1>10. t # <<>> => t[lt] # Blank
  <2> SUFFICES ASSUME t # <<>> PROVE t[lt] # Blank
    OBVIOUS
  <2>1. lt \in 1 .. lt
    BY <1>6
  <2> QED BY <1>5, <2>1
<1>11. ASSUME NEW i \in 1 .. lp + lq, ~(i <= lt) PROVE x[i] = Blank
  <2>1. CASE i <= lp + lr
    <3>1. i \in 1 .. lp + lr
      BY <1>2, <2>1
    <3> QED BY <1>5, <1>7, <1>11, <3>1
  <2>2. CASE i > lp + lr
    <3>1. i - lp \in 1 .. lq /\ ~(i - lp <= lr) /\ lp + (i - lp) = i
      BY <1>2, <2>2
    <3> QED BY <1>1, <1>3, <3>1
  <2> QED BY <1>2, <2>1, <2>2
<1>12. TrimEnd(x) = t
  <2>1. /\ Len(t) <= Len(x) /\ \A i \in 1 .. Len(t) : t[i] = x[i]
        /\ t # <<>> => t[Len(t)] # Blank
        /\ \A i \in 1 .. Len(x) : i <= Len(t) \/ x[i] = Blank
    BY <1>3, <1>8, <1>9, <1>10, <1>11 DEF lt
  <2> QED BY <1>3, <1>5, <2>1, TrimmedIs
<1> QED BY <1>12 DEF x, t, y, r

\* A text that begins with no blank.
LEMMA StartStays ==
  ASSUME NEW z \in Words, z # <<>> => z[1] # Blank
  PROVE  TrimStart(z) = z
<1> DEFINE kept == {i \in DOMAIN z : z[i] # Blank}
           n == Len(z)
<1>1. n \in Nat /\ DOMAIN z = 1 .. n /\ (n = 0 => z = <<>>)
  BY WordLength
<1>2. TrimStart(z) = IF kept = {} THEN <<>> ELSE From(z, Min(kept))
  BY DEF TrimStart
<1>3. CASE z = <<>>
  <2>1. kept = {}
    BY <1>3
  <2> QED BY <1>2, <1>3, <2>1
<1>4. CASE z # <<>>
  <2>1. n # 0
    BY <1>1, <1>4
  <2> HIDE DEF n
  <2>2. 1 \in kept
    BY <1>1, <1>4, <2>1
  <2>3. kept \subseteq Nat /\ \A i \in kept : 1 <= i
    BY <1>1
  <2> HIDE DEF kept
  <2>4. \A x \in Nat : 1 <= x /\ x <= 1 => x = 1
    OBVIOUS
  <2>5. Min(kept) = 1
    BY <2>2, <2>3, <2>4 DEF Min
  <2>6. From(z, 1) = z
    <3> DEFINE none == <<>>
               one == 1
    <3>1. one \in Nat \ {0} /\ one <= Len(z) + 1 /\ one = 1
      BY <1>1, <2>1 DEF n
    <3> HIDE DEF one
    <3>2. /\ Before(z, one) \in Words /\ From(z, one) \in Words
          /\ Len(Before(z, one)) + 1 = one /\ z = Before(z, one) \o From(z, one)
      BY <3>1, Parts
    <3>3. Len(Before(z, one)) \in Nat /\ (Len(Before(z, one)) = 0 => Before(z, one) = none)
      BY <3>2, WordLength
    <3> HIDE DEF none
    <3>4. Len(Before(z, one)) = 0
      BY <3>1, <3>2, <3>3
    <3>5. z = none \o From(z, one)
      BY <3>2, <3>3, <3>4
    <3>6. none \o From(z, one) = From(z, one)
      BY <3>2, NothingJoined DEF none
    <3> QED BY <3>5, <3>6 DEF one
  <2> QED BY <1>2, <2>2, <2>5, <2>6
<1> QED BY <1>3, <1>4

LEMMA TrimIs ==
  ASSUME NEW x \in Words
  PROVE  Trim(x) \in Words /\ Trim(Trim(x)) = Trim(x)
<1> DEFINE y == TrimEnd(x)
           kept == {i \in DOMAIN y : y[i] # Blank}
           z == TrimStart(y)
           n == Len(y)
           none == <<>>
<1>0. none \in Words /\ Len(none) = 0
  BY EmptyWord
<1> HIDE DEF none
<1>1. y \in Words /\ TrimEnd(y) = y
  BY Trimmed, TrimmedTwice
<1>2. Trim(x) = z
  BY DEF Trim
<1> HIDE DEF y
<1>3. z = IF kept = {} THEN none ELSE From(y, Min(kept))
  BY DEF TrimStart, none
<1>4. n \in Nat /\ DOMAIN y = 1 .. n
  BY <1>1, WordLength
<1> HIDE DEF z
<1>5. CASE kept = {}
  <2>1. z = none
    BY <1>3, <1>5
  <2>2. TrimEnd(z) = z
    BY <2>1, NothingToTrim DEF none
  <2>3. TrimStart(z) = z
    BY <1>0, <2>1, StartStays DEF none
  <2> QED BY <1>0, <1>2, <2>1, <2>2, <2>3 DEF Trim
<1>6. CASE kept # {}
  <2> DEFINE m == Min(kept)
             lz == Len(z)
  <2>1. kept \in SUBSET Nat /\ kept \subseteq 1 .. n
    BY <1>4
  <2>2. \A i : i \in kept => y[i] # Blank
    OBVIOUS
  <2> HIDE DEF kept
  <2>3. \E i \in kept : \A j \in kept : i <= j
    BY <1>6, <2>1, LeastNatural
  <2>4. m \in kept
    BY <2>3 DEF Min
  <2> HIDE DEF m
  <2>5. m \in 1 .. n /\ y[m] # Blank
    BY <2>1, <2>2, <2>4
  <2>6. m \in Nat \ {0} /\ m <= n + 1
    BY <1>4, <2>5
  <2>7. z = From(y, m)
    BY <1>3, <1>6 DEF m
  <2>8. /\ z \in Words /\ Len(Before(y, m)) + 1 = m /\ Len(Before(y, m)) + lz = n
        /\ y = Before(y, m) \o z /\ Before(y, m) \in Words
    BY <1>1, <2>6, <2>7, Parts
  <2>9. /\ Len(Before(y, m)) \in Nat /\ lz \in Nat
    BY <2>8, WordLength
  <2>10. \A i \in 1 .. lz : y[Len(Before(y, m)) + i] = z[i]
    BY <2>8, Joining
  <2> HIDE DEF n, lz
  <2>11. 1 \in 1 .. lz /\ lz \in 1 .. lz
         /\ Len(Before(y, m)) + 1 = m /\ Len(Before(y, m)) + lz = n
    BY <1>4, <2>5, <2>8, <2>9
  <2>12. z[1] # Blank
    BY <2>5, <2>10, <2>11
  <2>13. y[n] # Blank
    <3>1. y # <<>> /\ TrimEnd(y) # <<>>
      <4>1. n # 0
        BY <1>4, <2>5
      <4> QED BY <1>0, <1>1, <4>1 DEF n, none
    <3>2. y[Len(TrimEnd(y))] # Blank
      BY <1>1, <3>1, Trimmed
    <3> QED BY <1>1, <3>2 DEF n
  <2>14. z[lz] # Blank
    BY <2>10, <2>11, <2>13
  <2>15. TrimEnd(z) = z
    <3>1. /\ Len(z) <= Len(z) /\ \A i \in 1 .. Len(z) : z[i] = z[i]
          /\ z # <<>> => z[Len(z)] # Blank
          /\ \A i \in 1 .. Len(z) : i <= Len(z) \/ z[i] = Blank
      BY <2>9, <2>14 DEF lz
    <3> QED BY <2>8, <3>1, TrimmedIs
  <2>16. TrimStart(z) = z
    BY <2>8, <2>12, StartStays
  <2> QED BY <1>2, <2>8, <2>15, <2>16 DEF Trim
<1> QED BY <1>5, <1>6

LEMMA TrimOfTail ==
  ASSUME NEW x \in Words
  PROVE  Trim(TrimmedTail(x)) = Trim(x) /\ Trim(TrimEnd(x)) = Trim(x)
<1> DEFINE p == LetThrough(x, Details)
           q == HeldBack(x, Details)
<1>1. p \in Words /\ q \in Words /\ x = p \o q
  BY Tags, Halves
<1>2. TrimmedTail(x) = p \o TrimEnd(q)
  BY DEF TrimmedTail
<1> HIDE DEF p, q
<1>3. TrimEnd(TrimmedTail(x)) = TrimEnd(x)
  BY <1>1, <1>2, TrimmedJoin
<1>4. TrimEnd(TrimEnd(x)) = TrimEnd(x)
  BY TrimmedTwice
<1> QED BY <1>3, <1>4 DEF Trim

LEMMA FromFirst ==
  ASSUME NEW s \in Words
  PROVE  From(s, 1) = s /\ Before(s, 1) = <<>>
<1> DEFINE one == 1
           none == <<>>
<1>1. one \in Nat \ {0} /\ one <= Len(s) + 1 /\ one = 1
  BY WordLength
<1> HIDE DEF one
<1>2. /\ Before(s, one) \in Words /\ From(s, one) \in Words
      /\ Len(Before(s, one)) + 1 = one /\ s = Before(s, one) \o From(s, one)
  BY <1>1, Parts
<1>3. Len(Before(s, one)) \in Nat /\ (Len(Before(s, one)) = 0 => Before(s, one) = none)
  BY <1>2, WordLength
<1> HIDE DEF none
<1>4. Len(Before(s, one)) = 0
  BY <1>1, <1>2, <1>3
<1>5. s = none \o From(s, one)
  BY <1>2, <1>3, <1>4
<1>6. none \o From(s, one) = From(s, one)
  BY <1>2, NothingJoined DEF none
<1> QED BY <1>3, <1>4, <1>5, <1>6 DEF one, none

\* A text is its trimmed part and more.
LEMMA TrimmedRest ==
  ASSUME NEW x \in Words
  PROVE  TrimEnd(x) \in Words /\ \E r \in Words : x = TrimEnd(x) \o r
<1> DEFINE t == TrimEnd(x)
           o == Len(t) + 1
           b == Before(x, o)
           r == From(x, o)
<1>1. /\ t \in Words /\ Len(t) <= Len(x)
      /\ \A i \in 1 .. Len(t) : t[i] = x[i]
  BY Trimmed
<1> HIDE DEF t
<1>2. o \in Nat \ {0} /\ o <= Len(x) + 1
  BY <1>1, WordLength
<1>3. b \in Words /\ r \in Words /\ Len(b) + 1 = o /\ x = b \o r
  <2> HIDE DEF o
  <2> QED BY <1>2, Parts
<1> HIDE DEF b, r
<1>4. \A i \in 1 .. Len(b) : x[i] = b[i]
  BY <1>3, Joining
<1>5. Len(b) = Len(t)
  BY <1>1, <1>3, WordLength
<1>6. b = t
  BY <1>1, <1>3, <1>4, <1>5, WordEqual
<1> QED BY <1>1, <1>3, <1>6 DEF t

\* A tag that does not end with a blank is not trimmed.
LEMMA TrimKeepsTag ==
  ASSUME NEW x \in Words, NEW o \in Nat \ {0}, Matches(x, Details, o)
  PROVE  Matches(TrimEnd(x), Details, o)
<1> DEFINE t == TrimEnd(x)
           ld == Len(Details)
           last == o + ld - 1
<1>1. /\ t \in Words /\ Len(t) <= Len(x)
      /\ \A i \in 1 .. Len(t) : t[i] = x[i]
      /\ \A i \in 1 .. Len(x) : i <= Len(t) \/ x[i] = Blank
  BY Trimmed
<1> HIDE DEF t
<1>2. Len(t) \in Nat /\ Len(x) \in Nat
  BY <1>1, WordLength
<1>3. ld \in Nat /\ ld >= 2 /\ Details[ld] # Blank
  BY Tags, TagsAssumption
<1>4. o + ld <= Len(x) + 1 /\ \A k \in 1 .. ld : x[o + k - 1] = Details[k]
  BY DEF Matches
<1> HIDE DEF ld
<1>5. last \in 1 .. Len(x) /\ ld \in 1 .. ld
  BY <1>2, <1>3, <1>4
<1>6. x[last] # Blank
  BY <1>3, <1>4, <1>5
<1>7. last <= Len(t)
  BY <1>1, <1>5, <1>6
<1>8. \A k \in 1 .. ld : t[o + k - 1] = Details[k]
  <2> SUFFICES ASSUME NEW k \in 1 .. ld PROVE t[o + k - 1] = Details[k]
    OBVIOUS
  <2>1. o + k - 1 \in 1 .. Len(t)
    BY <1>2, <1>3, <1>7
  <2> QED BY <1>1, <1>4, <2>1
<1>9. o + ld <= Len(t) + 1
  BY <1>2, <1>3, <1>7
<1> QED BY <1>8, <1>9 DEF Matches, t, ld

LEMMA ShownIs ==
  ASSUME NEW s \in Words
  PROVE  /\ IndexOf(s, Details) = 0 => Shown(s) = TrimmedTail(s)
         /\ IndexOf(s, Details) # 0 => Shown(s) = Before(s, IndexOf(s, Details))
<1>1. CASE IndexOf(s, Details) = 0
  <2>1. Until(s, Details) = s
    BY <1>1 DEF Until
  <2> QED BY <1>1, <2>1 DEF Shown
<1>2. CASE IndexOf(s, Details) # 0
  <2> DEFINE o == IndexOf(s, Details)
  <2>1. o \in Nat \ {0} /\ o + Len(Details) <= Len(s) + 1
    BY <1>2, Tags, IndexSpec
  <2>2. Len(s) \in Nat /\ Len(Details) \in Nat /\ Len(Details) >= 2
    BY WordLength, Tags
  <2>3. Until(s, Details) = Before(s, o)
    BY <1>2 DEF Until
  <2> HIDE DEF o
  <2>4. o <= Len(s) + 1
    BY <2>1, <2>2
  <2>5. Before(s, o) \in Words /\ Len(Before(s, o)) + 1 = o
    BY <2>1, <2>4, Parts
  <2>6. Before(s, o) # s
    BY <2>1, <2>2, <2>5
  <2>7. Shown(s) = Before(s, o)
    BY <2>3, <2>6 DEF Shown
  <2> QED BY <1>2, <2>7 DEF o
<1> QED BY <1>1, <1>2

\* What an answer in one piece shows of a text whose details are in order.
LEMMA PlainIs ==
  ASSUME NEW T \in Words
  PROVE  /\ StripDetails(T) \in Words /\ \E r \in Words : T = StripDetails(T) \o r
         /\ IndexOf(StripDetails(T), Details) = 0 => Trim(StripDetails(T)) = Trim(Shown(T))
<1> DEFINE o == IndexOf(T, Details)
           b == Before(T, o)
           cut == /\ o # 0
                  /\ Len(TrimEnd(T)) - Len(DetailsClose) + 1 >= o + Len(Details)
                  /\ From(TrimEnd(T), Len(TrimEnd(T)) - Len(DetailsClose) + 1) = DetailsClose
           s == StripDetails(T)
<1>1. s = IF cut THEN TrimEnd(b) ELSE TrimEnd(T)
  BY DEF StripDetails
<1>2. /\ o \in Nat /\ Len(Details) \in Nat /\ Len(T) \in Nat
      /\ o # 0 => o + Len(Details) <= Len(T) + 1 /\ Matches(T, Details, o)
  BY Tags, IndexSpec, WordLength
<1>3. cut => o # 0
  OBVIOUS
<1>4. /\ o = 0 => Shown(T) = TrimmedTail(T)
      /\ o # 0 => Shown(T) = b
  BY ShownIs
<1> HIDE DEF cut, s, o
<1>5. CASE cut
  <2>1. o \in Nat \ {0} /\ o <= Len(T) + 1
    BY <1>2, <1>3, <1>5
  <2> DEFINE f == From(T, o)
             t == TrimEnd(b)
  <2>2. b \in Words /\ f \in Words /\ T = b \o f
    BY <2>1, Parts
  <2> HIDE DEF b, f
  <2>3. PICK r \in Words : b = t \o r
    BY <2>2, TrimmedRest
  <2>4. t \in Words
    BY <2>2, Trimmed
  <2>7. Trim(t) = Trim(b)
    BY <2>2, TrimOfTail
  <2>8. s = t
    BY <1>1, <1>5
  <2> HIDE DEF t
  <2>5. b \o f = t \o (r \o f)
    <3> DEFINE tr == t \o r
    <3>1. tr \o f = t \o (r \o f)
      BY <2>2, <2>3, <2>4, Associative
    <3>2. b = tr
      BY <2>3
    <3> HIDE DEF tr
    <3> QED BY <3>1, <3>2
  <2>6. r \o f \in Words
    BY <2>2, <2>3, Joining
  <2>9. Shown(T) = b
    BY <1>3, <1>4, <1>5
  <2>10. \E rest \in Words : T = s \o rest
    BY <2>2, <2>5, <2>6, <2>8
  <2>11. Trim(s) = Trim(Shown(T))
    BY <2>7, <2>8, <2>9
  <2> QED BY <2>4, <2>8, <2>10, <2>11 DEF s
<1>6. CASE ~cut
  <2>1. s = TrimEnd(T)
    BY <1>1, <1>6
  <2>2. s \in Words /\ \E r \in Words : T = s \o r
    BY <2>1, TrimmedRest
  <2>3. ASSUME IndexOf(s, Details) = 0 PROVE Trim(s) = Trim(Shown(T))
    <3>1. o = 0
      <4> SUFFICES ASSUME o # 0 PROVE FALSE
        OBVIOUS
      <4>1. o \in Nat \ {0} /\ Matches(T, Details, o)
        BY <1>2
      <4>2. Matches(s, Details, o)
        BY <2>1, <4>1, TrimKeepsTag
      <4>3. \A i \in Nat \ {0} : ~Matches(s, Details, i)
        BY <2>2, <2>3, Tags, IndexSpec
      <4> QED BY <4>1, <4>2, <4>3
    <3>2. Trim(TrimmedTail(T)) = Trim(T) /\ Trim(TrimEnd(T)) = Trim(T)
      BY TrimOfTail
    <3> QED BY <1>4, <2>1, <3>1, <3>2
  <2> QED BY <2>2, <2>3 DEF s
<1> QED BY <1>5, <1>6

\* The symbols of a part count in the whole.
LEMMA CountBehind ==
  ASSUME NEW p \in Words, NEW w \in Words, \A i \in 1 .. Len(p) : p[i] # Call
  PROVE  ParseToolCalls(p \o w) = ParseToolCalls(w)
<1> DEFINE lp == Len(p)
           lw == Len(w)
           x == p \o w
           A == {i \in 1 .. lw : w[i] = Call}
           B == {i \in 1 .. lp + lw : x[i] = Call}
           F == [i \in A |-> lp + i]
<1>1. /\ lp \in Nat /\ lw \in Nat /\ DOMAIN w = 1 .. lw
  BY WordLength
<1>2. /\ x \in Words /\ Len(x) = lp + lw
      /\ \A i \in 1 .. lp : x[i] = p[i]
      /\ \A i \in 1 .. lw : x[lp + i] = w[i]
  BY Joining
<1>3. DOMAIN x = 1 .. lp + lw
  BY <1>2, WordLength
<1>4. ParseToolCalls(w) = Cardinality(A) /\ ParseToolCalls(x) = Cardinality(B)
  BY <1>1, <1>3 DEF ParseToolCalls
<1>5. \A i \in 1 .. lp : p[i] # Call
  OBVIOUS
<1> HIDE DEF x, lp, lw
<1>6. IsFiniteSet(A)
  <2>1. IsFiniteSet(1 .. lw)
    BY <1>1, FS_Interval
  <2> QED BY <2>1, FS_Subset
<1>7. \A i \in A : i \in 1 .. lw /\ lp + i \in B
  BY <1>1, <1>2
<1>8. ASSUME NEW j \in B PROVE \E i \in A : j = lp + i
  <2>1. j \in 1 .. lp + lw /\ x[j] = Call
    OBVIOUS
  <2>2. ~(j <= lp)
    <3> SUFFICES ASSUME j <= lp PROVE FALSE
      OBVIOUS
    <3>1. j \in 1 .. lp
      BY <1>1, <2>1
    <3> QED BY <1>2, <1>5, <2>1, <3>1
  <2>3. j - lp \in 1 .. lw /\ lp + (j - lp) = j
    BY <1>1, <2>1, <2>2
  <2>4. w[j - lp] = Call
    BY <1>2, <2>1, <2>3
  <2> QED BY <2>3, <2>4
<1>9. A \subseteq Nat /\ lp \in Nat
  BY <1>1
<1> HIDE DEF A, B
<1>10. F \in [A -> B]
  BY <1>7
<1>11. \A i, j \in A : F[i] = F[j] => i = j
  BY <1>9
<1>12. \A j \in B : \E i \in A : F[i] = j
  BY <1>8
<1>13. F \in Bijection(A, B)
  <2> HIDE DEF F
  <2>1. F \in Injection(A, B)
    BY <1>10, <1>11 DEF Injection, IsInjective
  <2>2. F \in Surjection(A, B)
    BY <1>10, <1>12 DEF Surjection
  <2> QED BY <2>1, <2>2 DEF Bijection
<1>14. ExistsBijection(A, B)
  BY <1>13 DEF ExistsBijection
<1>15. Cardinality(B) = Cardinality(A)
  BY <1>6, <1>14, FS_Bijection
<1> QED BY <1>4, <1>15 DEF x

\* The end of a tool-call block does not begin in its beginning.
LEMMA CloseBehindOpen ==
  ASSUME NEW w \in Words, NEW i \in 1 .. Len(ToolOpen)
  PROVE  ~Matches(ToolOpen \o w, ToolClose, i)
<1> DEFINE x == ToolOpen \o w
           lo == Len(ToolOpen)
           lc == Len(ToolClose)
<1>1. /\ lo \in Nat /\ lo >= 2 /\ lc \in Nat /\ lc >= 2 /\ ToolOpen \in Words
  BY Tags
<1>2. \A k \in 1 .. lo : x[k] = ToolOpen[k]
  BY <1>1, Joining
<1>3. ToolOpen[2] # ToolClose[2] /\ \A k \in 2 .. lo : ToolOpen[k] # ToolClose[1]
  BY TagsAssumption
<1>4. i \in 1 .. lo
  OBVIOUS
<1> HIDE DEF x, lo, lc
<1> SUFFICES ASSUME Matches(x, ToolClose, i) PROVE FALSE
  BY DEF x
<1>5. \A k \in 1 .. lc : x[i + k - 1] = ToolClose[k]
  BY DEF Matches, lc
<1>6. 1 \in 1 .. lc /\ 2 \in 1 .. lc
  BY <1>1
<1>7. CASE i = 1
  <2>1. x[2] = ToolClose[2]
    BY <1>5, <1>6, <1>7
  <2>2. 2 \in 1 .. lo
    BY <1>1
  <2> QED BY <1>2, <1>3, <2>1, <2>2
<1>8. CASE i # 1
  <2>1. i \in 2 .. lo /\ i + 1 - 1 = i
    BY <1>1, <1>4, <1>8
  <2>2. x[i] = ToolClose[1]
    BY <1>5, <1>6, <2>1
  <2> QED BY <1>2, <1>3, <1>4, <2>1, <2>2
<1> QED BY <1>7, <1>8

\* A block from its beginning, and where it is closed.
LEMMA BlockIs ==
  ASSUME NEW s \in Words, IndexOf(s, ToolOpen) # 0, IndexOf(From(s, IndexOf(s, ToolOpen)), ToolClose) # 0
  PROVE  LET open == IndexOf(s, ToolOpen)
             R == From(s, open)
             close == IndexOf(R, ToolClose)
         IN /\ R \in Words /\ open \in Nat \ {0} /\ open + Len(ToolOpen) <= Len(s) + 1
            /\ Len(R) + open = Len(s) + 1
            /\ OpenAt(s, 1) = open
            /\ InnerAt(s, 1) \in Words /\ R = ToolOpen \o InnerAt(s, 1)
            /\ CloseAt(s, 1) \in Nat \ {0} /\ close = Len(ToolOpen) + CloseAt(s, 1)
            /\ CloseAt(s, 1) + Len(ToolClose) <= Len(InnerAt(s, 1)) + 1
<1> DEFINE open == IndexOf(s, ToolOpen)
           b == Before(s, open)
           R == From(s, open)
           close == IndexOf(R, ToolClose)
           inner == InnerAt(s, 1)
           c == CloseAt(s, 1)
           lo == Len(ToolOpen)
           lc == Len(ToolClose)
           head == Before(R, lo + 1)
<1>1. /\ lo \in Nat /\ lo >= 2 /\ lc \in Nat /\ lc >= 2 /\ ToolOpen \in Words /\ ToolClose \in Words
      /\ Len(s) \in Nat
  BY Tags, WordLength
<1>2. /\ open \in Nat /\ open # 0 /\ open + lo <= Len(s) + 1 /\ Matches(s, ToolOpen, open)
  BY <1>1, IndexSpec
<1>3. From(s, 1) = s
  BY FromFirst
<1>4. OpenAt(s, 1) = open
  BY <1>3 DEF OpenAt
<1>5. inner = From(s, open + lo)
  BY <1>3, <1>4 DEF InnerAt
<1>6. c = IndexOf(inner, ToolClose)
  BY DEF CloseAt
<1>7. close # 0
  OBVIOUS
<1> HIDE DEF open, inner, c
<1>8. open \in Nat \ {0} /\ open <= Len(s) + 1
  <2> HIDE DEF lo
  <2> QED BY <1>1, <1>2
<1>9. b \in Words /\ R \in Words /\ Len(b) + 1 = open /\ Len(b) + Len(R) = Len(s) /\ s = b \o R
  BY <1>8, Parts
<1> HIDE DEF b, R, close
<1>10. Len(b) \in Nat /\ Len(R) \in Nat
  BY <1>9, WordLength
<1>11. Len(R) + open = Len(s) + 1 /\ lo <= Len(R)
  <2> DEFINE ls == Len(s)
             lb == Len(b)
             lr == Len(R)
  <2>1. lb + 1 = open /\ lb + lr = ls /\ open + lo <= ls + 1
    BY <1>2, <1>9
  <2>2. ls \in Nat /\ lb \in Nat /\ lr \in Nat /\ lo \in Nat /\ open \in Nat
    BY <1>1, <1>2, <1>10
  <2> HIDE DEF lo, ls, lb, lr
  <2>3. lr + open = ls + 1 /\ lo <= lr
    BY ONLY <2>1, <2>2
  <2> QED BY <2>3 DEF lo, ls, lb, lr
<1>12. inner = From(R, lo + 1)
  <2>1. lo + 1 \in Nat \ {0} /\ lo + 1 <= Len(R) + 1 /\ Len(b) + (lo + 1) = open + lo
    <3> HIDE DEF lo
    <3> QED BY <1>1, <1>9, <1>10, <1>11
  <2> DEFINE one == lo + 1
  <2> HIDE DEF one, lo
  <2>2. From(b \o R, Len(b) + one) = From(R, one)
    BY <1>9, <2>1, PartsBehind DEF one
  <2> QED BY <1>5, <1>9, <2>1, <2>2 DEF one
<1>13. head \in Words /\ inner \in Words /\ Len(head) = lo /\ R = head \o inner
  <2> DEFINE one == lo + 1
  <2>1. one \in Nat \ {0} /\ one <= Len(R) + 1
    <3> HIDE DEF lo
    <3> QED BY <1>1, <1>10, <1>11
  <2> HIDE DEF one
  <2>2. /\ Before(R, one) \in Words /\ From(R, one) \in Words
        /\ Len(Before(R, one)) + 1 = one /\ R = Before(R, one) \o From(R, one)
    BY <1>9, <2>1, Parts
  <2>3. Len(Before(R, one)) \in Nat
    BY <2>2, WordLength
  <2> HIDE DEF lo
  <2>4. Len(Before(R, one)) = lo
    <3>1. one = lo + 1
      BY DEF one
    <3> QED BY <1>1, <2>2, <2>3, <3>1
  <2> QED BY <1>12, <2>2, <2>4 DEF one
<1> HIDE DEF head
<1>14. head = ToolOpen
  <2>1. \A k \in 1 .. lo : R[k] = head[k]
    BY <1>13, Joining
  <2>2. \A k \in 1 .. lo : s[open + k - 1] = ToolOpen[k]
    BY <1>2 DEF Matches
  <2>3. \A k \in 1 .. Len(R) : s[Len(b) + k] = R[k]
    BY <1>9, Joining
  <2>4. \A k \in 1 .. Len(head) : head[k] = ToolOpen[k]
    <3> SUFFICES ASSUME NEW k \in 1 .. lo PROVE head[k] = ToolOpen[k]
      BY <1>13
    <3>1. k \in 1 .. Len(R) /\ Len(b) + k = open + k - 1
      <4> HIDE DEF lo
      <4> QED BY <1>1, <1>9, <1>10, <1>11
    <3> QED BY <2>1, <2>2, <2>3, <3>1
  <2> QED BY <1>1, <1>13, <2>4, WordEqual
<1>15. R = ToolOpen \o inner
  BY <1>13, <1>14
<1>16. /\ close \in Nat /\ close # 0 /\ Matches(R, ToolClose, close)
       /\ \A i \in Nat \ {0} : Matches(R, ToolClose, i) => i >= close
  BY <1>1, <1>7, <1>9, IndexSpec DEF close
<1>17. close > lo
  <2> SUFFICES ASSUME ~(close > lo) PROVE FALSE
    OBVIOUS
  <2>1. close \in 1 .. lo
    <3> HIDE DEF lo
    <3> QED BY <1>1, <1>16
  <2>2. ~Matches(ToolOpen \o inner, ToolClose, close)
    BY <1>13, <2>1, CloseBehindOpen
  <2> QED BY <1>15, <1>16, <2>2
<1> DEFINE d == close - lo
<1>18. d \in Nat \ {0} /\ lo + d = close
  <2> HIDE DEF lo
  <2> QED BY <1>1, <1>16, <1>17
<1> HIDE DEF d
<1>19. \A i \in Nat \ {0} : Matches(R, ToolClose, lo + i) <=> Matches(inner, ToolClose, i)
  BY <1>1, <1>13, <1>15, MatchesBehind
<1>20. Matches(inner, ToolClose, d)
  BY <1>16, <1>18, <1>19
<1>21. \A i \in Nat \ {0} : Matches(inner, ToolClose, i) => i >= d
  <2> SUFFICES ASSUME NEW i \in Nat \ {0}, Matches(inner, ToolClose, i) PROVE i >= d
    OBVIOUS
  <2>1. Matches(R, ToolClose, lo + i)
    BY <1>19
  <2> HIDE DEF lo
  <2>2. lo + i \in Nat \ {0}
    BY <1>1
  <2>3. lo + i >= close
    BY <1>16, <2>1, <2>2
  <2> QED BY <1>1, <1>16, <1>18, <2>3
<1>22. c = d
  BY <1>1, <1>6, <1>13, <1>18, <1>20, <1>21, FoundFirst
<1>23. c + lc <= Len(inner) + 1
  BY <1>20, <1>22 DEF Matches
<1>24. c \in Nat \ {0} /\ close = lo + c
  BY <1>18, <1>22
<1> QED BY <1>2, <1>4, <1>8, <1>9, <1>11, <1>13, <1>15, <1>23, <1>24 DEF open, R, close, inner, c

\* The block that ends a text is taken out, and nothing else.
LEMMA BlockTaken ==
  ASSUME NEW s \in Words, IndexOf(s, ToolOpen) # 0, IndexOf(From(s, IndexOf(s, ToolOpen)), ToolClose) # 0,
         IndexOf(s, ToolOpen) + IndexOf(From(s, IndexOf(s, ToolOpen)), ToolClose) + Len(ToolClose) - 2 = Len(s)
  PROVE  /\ TakeBlocks(s).left = Before(s, IndexOf(s, ToolOpen))
         /\ TakeBlocks(s).calls
              = ParseToolCalls(Before(From(s, IndexOf(s, ToolOpen)), IndexOf(From(s, IndexOf(s, ToolOpen)), ToolClose)))
<1> DEFINE open == IndexOf(s, ToolOpen)
           R == From(s, open)
           close == IndexOf(R, ToolClose)
           inner == InnerAt(s, 1)
           c == CloseAt(s, 1)
           lo == Len(ToolOpen)
           lc == Len(ToolClose)
           N == Len(s)
           part == Before(inner, c)
           b == Before(s, open)
           none == <<>>
<1>1. /\ R \in Words /\ open \in Nat \ {0} /\ open + lo <= N + 1
      /\ OpenAt(s, 1) = open
      /\ inner \in Words /\ R = ToolOpen \o inner
      /\ c \in Nat \ {0} /\ close = lo + c /\ c + lc <= Len(inner) + 1
  BY BlockIs
<1>2. open + close + lc - 2 = N
  OBVIOUS
<1>3. /\ lo \in Nat /\ lo >= 2 /\ lc \in Nat /\ lc >= 2 /\ ToolOpen \in Words /\ N \in Nat
  BY Tags, WordLength
<1>4. PICK f : /\ \A i \in 1 .. N + 1 : f[i] = TakenAt(s, f, i)
               /\ TakeBlocks(s) = f[1]
  BY TakeIs
<1>5. AfterAt(s, 1) = 1 + open + lo + c + lc - 2
  BY <1>1 DEF AfterAt
<1>6. From(s, 1) = s
  BY FromFirst
<1>7. TakenAt(s, f, 1) = [left |-> b \o f[AfterAt(s, 1)].left,
                          calls |-> ParseToolCalls(part) + f[AfterAt(s, 1)].calls]
  <2>1. ~(OpenAt(s, 1) = 0 \/ CloseAt(s, 1) = 0)
    BY <1>1
  <2>2. Before(From(s, 1), OpenAt(s, 1)) = b
    BY <1>1, <1>6
  <2> HIDE DEF b
  <2> QED BY <2>1, <2>2 DEF TakenAt
<1>8. b \in Words /\ part \in Words
  <2>1. c <= Len(inner) + 1 /\ open <= N + 1
    <3>1. Len(inner) \in Nat
      BY <1>1, WordLength
    <3> HIDE DEF c, inner, open, lo, lc, N
    <3> QED BY <1>1, <1>3, <3>1
  <2> HIDE DEF c, inner, open
  <2> QED BY <1>1, <2>1, Parts
<1> HIDE DEF open, R, close, inner, c, part, b, lo, lc, N, none
<1>9. AfterAt(s, 1) = N + 1
  <2>1. close = lo + c /\ open \in Nat /\ c \in Nat
    BY <1>1
  <2>2. lo \in Nat /\ lc \in Nat /\ N \in Nat
    BY <1>3
  <2>3. 1 + open + lo + c + lc - 2 = N + 1
    BY ONLY <1>2, <2>1, <2>2
  <2> QED BY <1>5, <2>3
<1>10. N + 1 \in 1 .. N + 1 /\ 1 \in 1 .. N + 1
  BY <1>3
<1>11. f[N + 1] = [left |-> none, calls |-> 0]
  <2>1. OpenAt(s, N + 1) = 0 \/ CloseAt(s, N + 1) = 0
    <3>1. N + 1 \in 1 .. Len(s) + 1 /\ AfterAt(s, N + 1) \notin (N + 1) + 1 .. Len(s) + 1
      BY <1>3 DEF N
    <3> QED BY <3>1, AfterIs
  <2>2. TakenAt(s, f, N + 1) = [left |-> From(s, N + 1), calls |-> 0]
    BY <2>1 DEF TakenAt
  <2>3. From(s, N + 1) = none
    <3>1. N + 1 \in Nat \ {0} /\ N + 1 <= Len(s) + 1
      BY <1>3 DEF N
    <3> DEFINE top == N + 1
    <3> HIDE DEF top
    <3>2. /\ Before(s, top) \in Words /\ From(s, top) \in Words
          /\ Len(Before(s, top)) + 1 = top /\ Len(Before(s, top)) + Len(From(s, top)) = N
      BY <3>1, Parts DEF top, N
    <3>3. Len(From(s, top)) \in Nat /\ Len(Before(s, top)) \in Nat
          /\ (Len(From(s, top)) = 0 => From(s, top) = none)
      BY <3>2, WordLength DEF none
    <3>4. top = N + 1
      BY DEF top
    <3>5. Len(From(s, top)) = 0
      BY <1>3, <3>2, <3>3, <3>4
    <3> QED BY <3>3, <3>4, <3>5
  <2> QED BY <1>4, <1>10, <2>2, <2>3
<1>12. f[1] = [left |-> b \o none, calls |-> ParseToolCalls(part) + 0]
  <2>1. f[AfterAt(s, 1)].left = none /\ f[AfterAt(s, 1)].calls = 0
    BY <1>9, <1>11
  <2>2. f[1] = TakenAt(s, f, 1)
    BY <1>4, <1>10
  <2> QED BY <1>7, <2>1, <2>2
<1>13. b \o none = b /\ ParseToolCalls(part) \in Nat
  BY <1>8, NothingJoined, CountIsNat DEF none
<1>14. TakeBlocks(s).left = b /\ TakeBlocks(s).calls = ParseToolCalls(part)
  BY <1>4, <1>12, <1>13
<1>15. Before(R, close) = ToolOpen \o part
  <2>1. c <= Len(inner) + 1
    <3>1. Len(inner) \in Nat
      BY <1>1, WordLength
    <3> QED BY <1>1, <1>3, <3>1
  <2>2. Before(ToolOpen \o inner, Len(ToolOpen) + c) = ToolOpen \o Before(inner, c)
    BY <1>1, <1>3, <2>1, PartsBehind
  <2> QED BY <1>1, <2>2 DEF part, lo
<1>16. ParseToolCalls(ToolOpen \o part) = ParseToolCalls(part)
  <2>1. \A i \in 1 .. Len(ToolOpen) : ToolOpen[i] # Call
    BY <1>3, WordLength, TagsAssumption
  <2> QED BY <1>3, <1>8, <2>1, CountBehind
<1> QED BY <1>14, <1>15, <1>16 DEF b, R, open, close

LEMMA NoBlockTaken ==
  ASSUME NEW s \in Words, IndexOf(s, ToolOpen) = 0
  PROVE  TakeBlocks(s).left = s /\ TakeBlocks(s).calls = 0
<1>1. PICK f : /\ \A i \in 1 .. Len(s) + 1 : f[i] = TakenAt(s, f, i)
               /\ TakeBlocks(s) = f[1]
  BY TakeIs
<1>2. From(s, 1) = s /\ OpenAt(s, 1) = 0
  BY FromFirst DEF OpenAt
<1>3. TakenAt(s, f, 1) = [left |-> s, calls |-> 0]
  BY <1>2 DEF TakenAt
<1>4. 1 \in 1 .. Len(s) + 1
  BY WordLength
<1>5. f[1] = TakenAt(s, f, 1)
  BY <1>1, <1>4
<1> QED BY <1>1, <1>3, <1>5

\* The first block of a beginning of a text is that of the text.
LEMMA CallsAhead ==
  ASSUME NEW s \in Words, NEW r \in Words, IndexOf(s, ToolOpen) # 0,
         IndexOf(From(s, IndexOf(s, ToolOpen)), ToolClose) # 0
  PROVE  /\ CallsIn(s \o r)
              = ParseToolCalls(Before(From(s, IndexOf(s, ToolOpen)), IndexOf(From(s, IndexOf(s, ToolOpen)), ToolClose)))
         /\ Before(s \o r, IndexOf(s, ToolOpen)) = Before(s, IndexOf(s, ToolOpen))
         /\ IndexOf(s \o r, ToolOpen) = IndexOf(s, ToolOpen)
<1> DEFINE open == IndexOf(s, ToolOpen)
           R == From(s, open)
           close == IndexOf(R, ToolClose)
           x == s \o r
           Rr == R \o r
<1>1. /\ ToolOpen \in Words /\ ToolClose \in Words /\ Len(ToolOpen) \in Nat /\ Len(ToolClose) \in Nat
      /\ Len(ToolOpen) >= 2 /\ Len(ToolClose) >= 2 /\ Len(s) \in Nat
  BY Tags, WordLength
<1>2. /\ open \in Nat \ {0} /\ open + Len(ToolOpen) <= Len(s) + 1
  BY <1>1, IndexSpec
<1>3. IndexOf(x, ToolOpen) = open
  BY <1>1, FoundStays
<1>4. close # 0
  OBVIOUS
<1> HIDE DEF open
<1>5. open <= Len(s) + 1
  BY <1>1, <1>2
<1>6. R \in Words /\ Before(s, open) \in Words
  BY <1>2, <1>5, Parts
<1>7. Before(x, open) = Before(s, open) /\ From(x, open) = Rr
  BY <1>2, <1>5, PartsAhead
<1> HIDE DEF R, x
<1>8. IndexOf(Rr, ToolClose) = close
  BY <1>1, <1>4, <1>6, FoundStays
<1>9. /\ close \in Nat \ {0} /\ close + Len(ToolClose) <= Len(R) + 1 /\ Len(R) \in Nat
  BY <1>1, <1>4, <1>6, IndexSpec, WordLength
<1> HIDE DEF close
<1>10. close <= Len(R) + 1
  BY <1>1, <1>9
<1>11. Before(Rr, close) = Before(R, close)
  BY <1>6, <1>9, <1>10, PartsAhead
<1>12. CallsIn(x) = ParseToolCalls(Before(R, close))
  <2>1. open # 0 /\ close # 0
    BY <1>2, <1>9
  <2> QED BY <1>3, <1>7, <1>8, <1>11, <2>1 DEF CallsIn
<1> QED BY <1>3, <1>7, <1>12 DEF open, R, close, x

\* The text of an answer in one piece, when calls may be in it.
LEMMA CallsToldIs ==
  ASSUME NEW T \in Words, Tidy(T, TRUE)
  PROVE  LET s == StripDetails(T)
             parsed == TakeBlocks(s)
         IN /\ parsed.calls = CallsIn(T) /\ parsed.left \in Words
            /\ parsed.left = s => Trim(s) = Trim(Readable(T, TRUE))
            /\ parsed.left # s => Trim(parsed.left) = Trim(Readable(T, TRUE))
<1> DEFINE s == StripDetails(T)
           parsed == TakeBlocks(s)
           open == IndexOf(s, ToolOpen)
           close == IndexOf(From(s, open), ToolClose)
           b == Before(s, open)
<1>1. /\ s \in Words /\ \E r \in Words : T = s \o r
      /\ IndexOf(s, Details) = 0 => Trim(s) = Trim(Shown(T))
  BY PlainIs
<1>2. /\ IndexOf(s, Details) = 0 /\ open = IndexOf(T, ToolOpen)
      /\ open # 0 => close # 0 /\ open + close + Len(ToolClose) - 2 = Len(s)
  BY DEF Tidy
<1>3. Readable(T, TRUE) = Shown(Until(T, ToolOpen))
  BY ReadableIs
<1> HIDE DEF s
<1>4. CASE open = 0
  <2>1. parsed.left = s /\ parsed.calls = 0
    BY <1>1, <1>4, NoBlockTaken
  <2>2. CallsIn(T) = 0
    BY <1>2, <1>4 DEF CallsIn
  <2>3. Until(T, ToolOpen) = T
    BY <1>2, <1>4 DEF Until
  <2> HIDE DEF parsed, open, close, b
  <2>4. Trim(s) = Trim(Readable(T, TRUE))
    BY <1>1, <1>2, <1>3, <2>3
  <2> QED BY <1>1, <2>1, <2>2, <2>4 DEF s, parsed
<1>5. CASE open # 0
  <2>1. PICK r \in Words : T = s \o r
    BY <1>1
  <2>2. close # 0 /\ open + close + Len(ToolClose) - 2 = Len(s)
    BY <1>2, <1>5
  <2>3. parsed.left = b /\ parsed.calls = ParseToolCalls(Before(From(s, open), close))
    BY <1>1, <1>5, <2>2, BlockTaken
  <2>4. /\ CallsIn(s \o r) = ParseToolCalls(Before(From(s, open), close))
        /\ Before(s \o r, open) = b
    BY <1>1, <1>5, <2>2, CallsAhead
  <2>5. open \in Nat \ {0} /\ open + Len(ToolOpen) <= Len(s) + 1
    BY <1>1, <1>5, Tags, IndexSpec
  <2>6. Until(T, ToolOpen) = Before(T, open)
    BY <1>2, <1>5 DEF Until
  <2> DEFINE f == From(s, open)
  <2> HIDE DEF parsed, open, close
  <2>7. open <= Len(s) + 1 /\ Len(s) \in Nat /\ Len(ToolOpen) \in Nat /\ Len(ToolOpen) >= 2
    <3>1. Len(s) \in Nat /\ Len(ToolOpen) \in Nat /\ Len(ToolOpen) >= 2
      BY <1>1, WordLength, Tags
    <3> QED BY <2>5, <3>1
  <2>8. b \in Words /\ f \in Words /\ Len(b) + 1 = open /\ s = b \o f
    BY <1>1, <2>5, <2>7, Parts
  <2> HIDE DEF b, f
  <2>9. b # s
    <3> SUFFICES ASSUME b = s PROVE FALSE
      OBVIOUS
    <3>1. Len(s) + 1 = open
      BY <2>8
    <3> QED BY <2>5, <2>7, <3>1
  <2>10. IndexOf(b, Details) = 0
    <3> SUFFICES ASSUME IndexOf(b, Details) # 0 PROVE FALSE
      OBVIOUS
    <3>1. IndexOf(b \o f, Details) = IndexOf(b, Details)
      BY <2>8, Tags, FoundStays
    <3> QED BY <1>2, <2>8, <3>1
  <2>11. Shown(b) = TrimmedTail(b)
    BY <2>8, <2>10, ShownIs
  <2>12. Trim(TrimmedTail(b)) = Trim(b)
    BY <2>8, TrimOfTail
  <2>13. Readable(T, TRUE) = Shown(b)
    BY <1>3, <2>1, <2>4, <2>6
  <2>14. Trim(parsed.left) = Trim(Readable(T, TRUE))
    BY <2>3, <2>11, <2>12, <2>13
  <2>15. parsed.calls = CallsIn(T)
    BY <2>1, <2>3, <2>4
  <2>16. parsed.left # s /\ parsed.left \in Words
    BY <2>3, <2>8, <2>9
  <2> QED BY <2>14, <2>15, <2>16 DEF s, parsed
<1> QED BY <1>4, <1>5

JsonAs(list, T) ==
  LET tools == api = "json tools"
      called == tools /\ CallsIn(T) > 0
  IN Tidy(T, tools) =>
       /\ Announces(list) <=> called
       /\ Trim(TextIn(list)) = IF called THEN <<>> ELSE Trim(Readable(T, tools))

\* A list to which a text was added, and the end of the answer.
LEMMA ToldIs ==
  ASSUME NEW a \in States, TextIn(a.sent) = <<>>, ~Announces(a.sent), NEW w \in Words
  PROVE  LET list == Emit(Emit(EmitText(a, w), "finish stop", <<>>), "done", <<>>).sent
         IN TextIn(list) = w /\ ~Announces(list)
<1> DEFINE kind == "finish stop"
           e == EmitText(a, w)
           k == Emit(Emit(e, kind, <<>>), "done", <<>>)
           none == <<>>
<1>1. kind \in Kinds \ {"text", "calls"} /\ none \in Words
  BY TheKinds, EmptyWord
<1> HIDE DEF kind
<1>2. /\ e \in States /\ TextIn(e.sent) = TextIn(a.sent) \o w
      /\ Announces(e.sent) <=> Announces(a.sent)
  BY EmitTextIs
<1> HIDE DEF e
<1>3. TextIn(k.sent) = TextIn(e.sent) /\ (Announces(k.sent) <=> Announces(e.sent))
  BY <1>1, <1>2, ClosingIs
<1> HIDE DEF k
<1>4. none \o w = w
  BY NothingJoined
<1> HIDE DEF none
<1>5. TextIn(a.sent) = none
  BY DEF none
<1> QED BY <1>2, <1>3, <1>4, <1>5 DEF k, e, kind

\* The answer in one piece.
LEMMA JsonMessageIs ==
  ASSUME NEW a
  PROVE  LET u == IF held # <<>> THEN Emit(a, "thought", <<>>) ELSE a
             s == StripDetails(text)
             parsed == TakeBlocks(s)
             called == api = "json tools" /\ parsed.calls > 0
             w == IF api = "json tools" /\ parsed.calls = 0 /\ parsed.left # s
                  THEN Trim(parsed.left) ELSE s
         IN /\ called => JsonMessage(a) = Emit(Emit(a, "calls", <<>>), "finish tool_calls", <<>>)
            /\ ~called => JsonMessage(a) = Emit(EmitText(u, w), "finish stop", <<>>)
<1> DEFINE s == StripDetails(text)
           parsed == TakeBlocks(s)
<1>1. CASE api = "json tools" /\ parsed.calls > 0
  <2>1. ~(parsed.calls = 0)
    <3> HIDE DEF parsed, s
    <3>1. \A n : n > 0 => ~(n = 0)
      OBVIOUS
    <3> QED BY <1>1, <3>1
  <2> QED BY <1>1, <2>1, Zenon DEF JsonMessage
<1>2. CASE ~(api = "json tools" /\ parsed.calls > 0)
  <2>1. CASE api = "json tools" /\ parsed.calls = 0 /\ parsed.left # s
    BY <1>2, <2>1, Zenon DEF JsonMessage
  <2>2. CASE ~(api = "json tools" /\ parsed.calls = 0 /\ parsed.left # s)
    BY <1>2, <2>2, Zenon DEF JsonMessage
  <2> QED BY <2>1, <2>2
<1> QED BY <1>1, <1>2

LEMMA JsonIs ==
  ASSUME NEW a, Follows(a, <<>>), Fresh(a), text \in Words, api \notin Streams
  PROVE  JsonAs(Answer(a).sent, text)
<1> DEFINE none == <<>>
           first == "thought"
           calls == "calls"
           tools == api = "json tools"
           u == IF held # <<>> THEN Emit(a, first, none) ELSE a
           s == StripDetails(text)
           parsed == TakeBlocks(s)
           Told(w) == Emit(Emit(EmitText(u, w), "finish stop", <<>>), "done", <<>>)
           list == Answer(a).sent
<1>1. /\ a \in States /\ TextIn(a.sent) = none /\ ~Announces(a.sent)
  <2>1. a \in States
    BY DEF Follows, Reads
  <2>2. a.sent = <<Event("start", 0, <<>>)>>
    BY DEF Fresh
  <2> QED BY <2>1, <2>2, ListAtFirst
<1>2. /\ first \in Kinds /\ first # "text" /\ first # "calls" /\ none \in Words
      /\ calls \in Kinds /\ calls # "text" /\ calls = "calls"
  BY TheKinds, EmptyWord
<1>3. s \in Words
  BY PlainIs
<1>5. CASE tools /\ parsed.calls > 0
  <2> DEFINE kind == "finish tool_calls"
             e == Emit(a, calls, none)
             k == Emit(Emit(e, kind, <<>>), "done", <<>>)
  <2>1. Answer(a) = k
    <3>1. JsonMessage(a) = Emit(Emit(a, "calls", <<>>), "finish tool_calls", <<>>)
      BY <1>5, JsonMessageIs, Zenon
    <3> QED BY <3>1 DEF Answer
  <2>2. kind \in Kinds \ {"text", "calls"}
    BY TheKinds
  <2> HIDE DEF none, calls, kind, tools, parsed, list, k
  <2>3. /\ e \in States
        /\ TextIn(e.sent) = TextIn(a.sent) \o (IF calls = "text" THEN none ELSE <<>>)
        /\ Announces(e.sent) <=> Announces(a.sent) \/ calls = "calls"
    BY <1>1, <1>2, EmitIs
  <2> HIDE DEF e
  <2>4. TextIn(k.sent) = TextIn(e.sent) /\ (Announces(k.sent) <=> Announces(e.sent))
    BY <2>2, <2>3, ClosingIs DEF k
  <2>5. TextIn(e.sent) = none
    BY <1>1, <1>2, <2>3, NothingJoined
  <2>6. TextIn(list) = none /\ Announces(list)
    BY <1>2, <2>1, <2>3, <2>4, <2>5 DEF list
  <2>7. Tidy(text, TRUE) => CallsIn(text) > 0
    <3>1. Tidy(text, TRUE) => parsed.calls = CallsIn(text)
      BY CallsToldIs DEF parsed, s
    <3> QED BY <1>5, <3>1
  <2>8. Trim(none) = none
    <3>1. TrimEnd(none) = none
      BY NothingToTrim DEF none
    <3>2. TrimStart(none) = none
      BY <1>2, StartStays DEF none
    <3> QED BY <3>1, <3>2 DEF Trim
  <2>9. JsonAs(list, text)
    BY <1>5, <2>6, <2>7, <2>8 DEF JsonAs, tools, none
  <2> QED BY <2>9 DEF list
<1>6. CASE ~(tools /\ parsed.calls > 0)
  <2> DEFINE w == IF tools /\ parsed.calls = 0 /\ parsed.left # s THEN Trim(parsed.left) ELSE s
  <2>1. u \in States /\ TextIn(u.sent) = none /\ ~Announces(u.sent)
    <3> DEFINE e == Emit(a, first, none)
    <3>1. CASE held # <<>>
      <4> HIDE DEF none, first
      <4>1. /\ e \in States
            /\ TextIn(e.sent) = TextIn(a.sent) \o (IF first = "text" THEN none ELSE <<>>)
            /\ Announces(e.sent) <=> Announces(a.sent) \/ first = "calls"
        BY <1>1, <1>2, EmitIs
      <4> HIDE DEF e
      <4>2. TextIn(e.sent) = none
        BY <1>1, <1>2, <4>1, NothingJoined
      <4>3. u = e
        BY <3>1 DEF e
      <4> QED BY <1>1, <1>2, <4>1, <4>2, <4>3
    <3>2. CASE held = <<>>
      BY <1>1, <3>2
    <3> QED BY <3>1, <3>2
  <2>2. Answer(a) = Told(w)
    <3>1. JsonMessage(a) = Emit(EmitText(u, w), "finish stop", <<>>)
      BY <1>6, JsonMessageIs, Zenon
    <3> QED BY <3>1 DEF Answer
  <2>3. ASSUME Tidy(text, tools)
        PROVE  /\ w \in Words /\ ~(tools /\ CallsIn(text) > 0)
               /\ Trim(w) = Trim(Readable(text, tools))
    <3>1. CASE tools
      <4>1. /\ parsed.calls = CallsIn(text) /\ parsed.left \in Words
            /\ parsed.left = s => Trim(s) = Trim(Readable(text, TRUE))
            /\ parsed.left # s => Trim(parsed.left) = Trim(Readable(text, TRUE))
        <5>1. Tidy(text, TRUE)
          BY <2>3, <3>1
        <5> QED BY <5>1, CallsToldIs
      <4>2. CallsIn(text) \in Nat
        BY CallsAre, CountIsNat, BlockIsWord
      <4> HIDE DEF parsed, s, tools
      <4>3. parsed.calls = 0 /\ ~(CallsIn(text) > 0)
        BY <1>6, <3>1, <4>1, <4>2
      <4>4. CASE parsed.left = s
        BY <1>3, <3>1, <4>1, <4>3, <4>4
      <4>5. CASE parsed.left # s
        <5>1. Trim(parsed.left) \in Words /\ Trim(Trim(parsed.left)) = Trim(parsed.left)
          BY <4>1, TrimIs
        <5>2. w = Trim(parsed.left)
          BY <3>1, <4>3, <4>5
        <5> QED BY <3>1, <4>1, <4>3, <4>5, <5>1, <5>2
      <4> QED BY <4>4, <4>5
    <3>2. CASE ~tools
      <4>1. IndexOf(s, Details) = 0
        BY <2>3 DEF Tidy
      <4>2. Trim(s) = Trim(Shown(text))
        BY <4>1, PlainIs
      <4>3. Readable(text, tools) = Shown(text)
        <5>1. Readable(text, FALSE) = Shown(text)
          BY ReadableIs
        <5> QED BY <3>2, <5>1
      <4> HIDE DEF s, tools, parsed
      <4> QED BY <1>3, <3>2, <4>2, <4>3
    <3> QED BY <3>1, <3>2
  <2> HIDE DEF w, u, tools, list
  <2>4. Tidy(text, tools) => TextIn(list) = w /\ ~Announces(list)
    <3> SUFFICES ASSUME Tidy(text, tools) PROVE TextIn(list) = w /\ ~Announces(list)
      OBVIOUS
    <3>1. w \in Words
      BY <2>3
    <3>2. LET l == Emit(Emit(EmitText(u, w), "finish stop", <<>>), "done", <<>>).sent
          IN TextIn(l) = w /\ ~Announces(l)
      BY <2>1, <3>1, ToldIs
    <3> QED BY <2>2, <3>2 DEF list
  <2>5. JsonAs(list, text)
    BY <2>3, <2>4 DEF JsonAs, tools
  <2> QED BY <2>5 DEF list
<1> QED BY <1>5, <1>6

-----------------------------------------------------------------------------
(* The specification.                                                      *)

\* The end of an Anthropic stream leaves no block open.
LEMMA EndedStands ==
  ASSUME NEW s \in Lists, NEW t, NEW at, Standing(s, at, "text"), Ended(s, t, at)
  PROVE  BlocksAs(t, "complete")
<1>1. PICK f \in Lists, g \in Lists, h \in Lists :
        /\ Like(s, f) \/ Grows(s, f, "text", at)
        /\ Grows(f, g, "close", at) /\ Grows(g, h, "finish stop", at) /\ Grows(h, t, "done", at)
  BY DEF Ended
<1>2. Standing(f, at, "text")
  <2>1. CASE Like(s, f)
    BY <2>1, StandsAlike
  <2>2. CASE Grows(s, f, "text", at)
    BY <2>2, DeltaStands
  <2> QED BY <1>1, <2>1, <2>2
<1>3. Standing(g, at + 1, "none")
  BY <1>1, <1>2, CloseStands
<1>4. Standing(h, at + 1, "none")
  BY <1>1, <1>3, OthersStand
<1>5. Standing(t, at + 1, "none")
  BY <1>1, <1>4, OthersStand
<1> QED BY <1>5 DEF Standing, BlocksAs

\* The end of an Anthropic stream leaves the phase as it was.
LEMMA PhaseEnds ==
  ASSUME NEW a \in States
  PROVE  FinishAnthropic(a).block = a.block
<1>1. \A c \in States : \A kind, body : Emit(c, kind, body).block = c.block
  BY DEF Emit, States
<1>2. \A c \in States : \A body : EmitText(c, body).block = c.block
  BY <1>1 DEF EmitText, States
<1> QED BY <1>1, <1>2 DEF FinishAnthropic, CloseThinking, Emit, EmitText, States

\* A complete answer.
LEMMA CompleteAs ==
  ASSUME NEW a, NEW T, Follows(a, T), api \in Streams, NEW turn \in Turns,
         api = "anthropic" /\ turn # "mixed" => a.block = "text" /\ Stands(a)
  PROVE  LET list == Conclude(a).sent
         IN /\ StreamedAs(list, "complete", Conclude(a).block, T)
            /\ api = "anthropic" /\ turn # "mixed" => list \in Lists /\ BlocksAs(list, "complete")
<1> DEFINE e == Conclude(a)
           called == api = "tools" /\ CallsIn(T) > 0
<1>1. /\ Whole(T) \in Words /\ IsPrefix(Whole(T), Whole(T)) /\ a \in States
      /\ Announces(a.sent) <=> called
  BY WholeIsWord, PrefixOfSelf DEF Follows, Reads
<1>2. CASE api = "anthropic"
  <2>1. e = FinishAnthropic(a) /\ e.block = a.block /\ ~called
    BY <1>1, <1>2, PhaseEnds DEF Conclude
  <2> HIDE DEF e
  <2>2. CASE a.block = "text"
    <3>1. /\ e \in States /\ TextIn(e.sent) = Whole(T) /\ ~Announces(e.sent)
          /\ e.sent[Len(e.sent) - 1].kind = "finish stop" /\ e.sent[Len(e.sent)].kind = "done"
          /\ Ended(a.sent, e.sent, a.index)
      BY <1>2, <2>1, <2>2, TextEnds
    <3>2. StreamedAs(e.sent, "complete", e.block, T)
      BY <1>1, <2>1, <3>1, Zenon DEF StreamedAs
    <3>3. a.sent \in Lists /\ e.sent \in Lists
      BY <3>1, StateIs DEF Follows, Reads
    <3>4. ASSUME turn # "mixed" PROVE BlocksAs(e.sent, "complete")
      <4>1. Standing(a.sent, a.index, "text")
        BY <1>2, <3>4 DEF Stands
      <4> QED BY <3>1, <3>3, <4>1, EndedStands
    <3> QED BY <3>2, <3>3, <3>4 DEF e
  <2>3. CASE a.block # "text"
    <3>1. /\ IsPrefix(TextIn(e.sent), Whole(T)) /\ ~Announces(e.sent)
          /\ e.sent[Len(e.sent) - 1].kind = "finish stop" /\ e.sent[Len(e.sent)].kind = "done"
      BY <1>2, <2>1, FinishAnthropicIs
    <3>2. e.block # "text"
      BY <2>1, <2>3
    <3>3. StreamedAs(e.sent, "complete", e.block, T)
      BY <1>2, <2>1, <3>1, <3>2, Zenon DEF StreamedAs
    <3>4. turn = "mixed"
      BY <1>2, <2>3
    <3> QED BY <3>3, <3>4 DEF e
  <2> QED BY <2>2, <2>3
<1>3. CASE api # "anthropic"
  <2>1. e = FinishOpenAi(a)
    BY <1>3 DEF Conclude
  <2> HIDE DEF e
  <2>2. /\ TextIn(e.sent) = Whole(T)
        /\ Announces(e.sent) <=> Announces(a.sent)
        /\ e.sent[Len(e.sent) - 1].kind
             = IF Announces(a.sent) THEN "finish tool_calls" ELSE "finish stop"
        /\ e.sent[Len(e.sent)].kind = "done"
    BY <1>3, <2>1, FinishOpenAiIs
  <2>3. StreamedAs(e.sent, "complete", e.block, T)
    <3>1. CASE called
      BY <1>1, <2>2, <3>1, Zenon DEF StreamedAs
    <3>2. CASE ~called
      BY <1>1, <2>2, <3>2, Zenon DEF StreamedAs
    <3> QED BY <3>1, <3>2
  <2> QED BY <1>3, <2>3 DEF e
<1> QED BY <1>2, <1>3

\* An answer that is limited: nothing was written yet.
LEMMA LimitedAs ==
  ASSUME NEW a, NEW T, NEW atEnd, Follows(a, T), Fresh(a)
  PROVE  LET list == Limit(a).sent
         IN /\ StreamedAs(list, "limited", atEnd, T)
            /\ api = "anthropic" => list \in Lists /\ BlocksAs(list, "limited")
<1> DEFINE kind == "error"
           none == <<>>
           e == Limit(a)
           f == Emit(a, kind, none)
<1>1. StreamedAs(e.sent, "limited", atEnd, T)
  BY LimitIs DEF StreamedAs
<1>2. kind \in Kinds /\ none \in Words /\ kind \in {"finish stop", "finish tool_calls", "done", "error"}
  BY TheKinds, EmptyWord
<1>3. a \in States /\ a.sent \in Lists
  BY StateIs DEF Follows, Reads
<1>4. Standing(a.sent, 0, "none")
  BY StandsAtFirst DEF Fresh
<1>5. api = "anthropic" => e = f
  BY DEF Limit
<1> HIDE DEF kind, none, e
<1>6. f \in States /\ Grows(a.sent, f.sent, kind, a.index)
  BY <1>2, <1>3, EmitIs
<1> HIDE DEF f
<1>7. Standing(f.sent, 0, "none")
  BY <1>2, <1>3, <1>4, <1>6, OthersStand
<1>8. f.sent \in Lists
  BY <1>6, StateIs
<1>9. BlocksAs(f.sent, "limited")
  BY <1>7 DEF Standing, BlocksAs
<1> QED BY <1>1, <1>5, <1>8, <1>9 DEF e

\* An answer that is cut off where it is.
LEMMA CutAs ==
  ASSUME NEW a, NEW T, NEW list, NEW seen, NEW turn, NEW atEnd,
         OpenAs(a, T, list, seen, turn), api \in Streams
  PROVE  /\ StreamedAs(a.sent, "broken", atEnd, T)
         /\ api = "anthropic" /\ turn # "mixed" => a.sent \in Lists /\ BlocksAs(a.sent, "broken")
<1>1. Follows(a, T) /\ a.sent \in Lists
  BY StateIs DEF OpenAs, Follows, Reads
<1>2. StreamedAs(a.sent, "broken", atEnd, T)
  BY <1>1, OpenIsPrefix DEF StreamedAs
<1>3. ASSUME api = "anthropic", turn # "mixed" PROVE BlocksAs(a.sent, "broken")
  <2>1. CASE seen
    BY <1>3, <2>1 DEF OpenAs, Stands, Standing, BlocksAs
  <2>2. CASE ~seen
    <3>1. a.sent = <<Event("start", 0, <<>>)>>
      BY <2>2 DEF OpenAs, Fresh
    <3>2. Standing(a.sent, 0, "none")
      BY <3>1, StandsAtFirst
    <3> QED BY <3>2 DEF Standing, BlocksAs
  <2> QED BY <2>1, <2>2
<1> QED BY <1>1, <1>2, <1>3

\* The inductive invariant: the open answer is as OpenAs says, and an answer
\* that is over keeps the two properties.
ChatTypes ==
  /\ api \in Apis /\ text \in Words /\ held \in Seq(Chunks) /\ observed \in BOOLEAN
  /\ order \in Turns /\ outcome \in {"open", "complete", "limited", "broken"}
ChatInv ==
  /\ ChatTypes
  /\ outcome = "open" => OpenAs(Adapter, text, held, observed, order)
  /\ outcome # "open" => StreamFaithful /\ BlocksWellFormed

LEMMA FaithfulThen == (api \in Streams /\ StreamedAs(sent, outcome, block, text) => StreamFaithful)'
BY FaithfulIs, PTL

LEMMA WellFormedThen ==
  ((api = "anthropic" /\ order # "mixed" => sent \in Lists /\ BlocksAs(sent, outcome))
     => BlocksWellFormed)'
BY WellFormedIs, PTL

\* What an open answer says of the adapter is about the route alone.
LEMMA OpenStays ==
  ASSUME NEW a, OpenAs(a, text', held', observed', order'), Adapter' = a, UNCHANGED api
  PROVE  OpenAs(Adapter, text, held, observed, order)'
BY DEF OpenAs, Follows, Reads, Source

LEMMA BecomesIs ==
  ASSUME NEW a \in States, Becomes(a)
  PROVE  Adapter' = a
BY DEF Becomes, Adapter, States

\* An answer that is over.
LEMMA OverThen ==
  ASSUME NEW list, sent' = list, UNCHANGED <<api, order, text>>, NEW over, outcome' = over,
         NEW atEnd, block' = atEnd, api \in Streams, StreamedAs(list, over, atEnd, text),
         api = "anthropic" /\ order # "mixed" => list \in Lists /\ BlocksAs(list, over)
  PROVE  (StreamFaithful /\ BlocksWellFormed)'
<1>1. (api \in Streams /\ StreamedAs(sent, outcome, block, text))'
  BY DEF StreamedAs, Whole
<1>2. (api = "anthropic" /\ order # "mixed" => sent \in Lists /\ BlocksAs(sent, outcome))'
  OBVIOUS
<1> QED BY <1>1, <1>2, FaithfulThen, WellFormedThen

LEMMA ToldThen ==
  ASSUME NEW list, sent' = list, UNCHANGED <<api, order, text>>, api \notin Streams,
         outcome' = "complete" => JsonAs(list, text)
  PROVE  (StreamFaithful /\ BlocksWellFormed)'
<1>1. api' \notin Streams /\ api' # "anthropic"
  BY DEF Streams
<1>2. JsonFaithful'
  BY DEF JsonFaithful, JsonAs, TextSent, Announced, Announces
<1> QED BY <1>1, <1>2 DEF StreamFaithful, BlocksWellFormed

LEMMA ChatStarts == ChatInit => ChatInv
<1> SUFFICES ASSUME ChatInit PROVE ChatInv
  OBVIOUS
<1> DEFINE none == <<>>
           empty == <<>>
<1>1. Fresh(Adapter)
  BY DEF ChatInit, Fresh, Adapter
<1>2. Adapter = [det |-> Adapter.det, strip |-> Adapter.strip, block |-> Adapter.block,
                 index |-> Adapter.index, sent |-> Adapter.sent]
  BY DEF Adapter
<1>3. Follows(Adapter, <<>>)
  BY <1>1, <1>2, FreshFollows
<1>4. ChatTypes
  <2>1. none \in Words
    BY EmptyWord
  <2>2. empty \in Seq(Chunks)
    OBVIOUS
  <2> QED BY <2>1, <2>2 DEF ChatInit, ChatTypes, Turns
<1>5. OpenAs(Adapter, text, held, observed, order)
  <2>1. Len(held) = 0 /\ text = <<>> /\ observed = FALSE
    BY DEF ChatInit
  <2>2. \A n : n \notin 1 .. Len(held) /\ n \notin 2 .. Len(held)
    BY <2>1
  <2> QED BY <1>1, <1>3, <2>1, <2>2 DEF OpenAs, InTurn
<1> QED BY <1>4, <1>5 DEF ChatInv, ChatInit

LEMMA ChunkKeeps ==
  ASSUME ChatInv, NEW chunk \in Chunks, Chunk(chunk)
  PROVE  ChatInv'
<1> DEFINE Tc == text \o chunk.content
           now == observed \/ Visible(chunk)
           next == Turn(chunk, order)
           more == Append(held, chunk)
<1>1. /\ api \in Apis /\ text \in Words /\ held \in Seq(Chunks) /\ observed \in BOOLEAN
      /\ order \in Turns /\ outcome = "open"
      /\ OpenAs(Adapter, text, held, observed, order)
  BY DEF ChatInv, ChatTypes, Chunk
<1>2. /\ text' = Tc /\ order' = next /\ observed' = now
      /\ UNCHANGED api /\ outcome' = "open"
  BY <1>1 DEF Chunk, Turn
<1>3. Tc \in Words
  <2>1. chunk.content \in Words
    BY ChunkIs
  <2> QED BY <1>1, <2>1 DEF Words
<1>4. next \in Turns
  BY <1>1, TurnIs
<1>5. now \in BOOLEAN
  BY <1>1 DEF Visible
<1> HIDE DEF Tc, now, next
<1>6. CASE api \in Streams /\ now
  <2> DEFINE d == Deliver(more)
             none == <<>>
  <2>1. held' = <<>> /\ Becomes(d)
    <3>1. IF api \in Streams /\ observed' THEN held' = <<>> /\ Becomes(d) ELSE TRUE
      BY DEF Chunk
    <3>2. observed'
      BY <1>2, <1>6
    <3> HIDE DEF d
    <3> QED BY <1>6, <3>1, <3>2
  <2>2. OpenAs(d, Tc, <<>>, TRUE, next)
    BY <1>1, <1>6, DeliverOpens DEF Tc, now, next
  <2> HIDE DEF d
  <2>3. d \in States
    BY <2>2 DEF OpenAs, Follows, Reads
  <2>4. Adapter' = d
    BY <2>1, <2>3, BecomesIs
  <2>5. now = TRUE
    BY <1>5, <1>6
  <2>6. OpenAs(Adapter, text, held, observed, order)'
    BY <1>2, <2>1, <2>2, <2>4, <2>5, OpenStays
  <2>7. none \in Seq(Chunks)
    OBVIOUS
  <2> QED BY <1>1, <1>2, <1>3, <1>4, <1>5, <2>1, <2>6, <2>7 DEF ChatInv, ChatTypes
<1>7. CASE ~(api \in Streams /\ now)
  <2>1. /\ held' = more \/ (api \notin Streams /\ held' = held)
        /\ UNCHANGED <<det, strip, block, index, sent>>
    BY <1>2, <1>7 DEF Chunk
  <2>2. Adapter' = Adapter
    BY <2>1 DEF Adapter
  <2>3. OpenAs(Adapter, Tc, held', now, next) /\ held' \in Seq(Chunks)
    <3>1. ~(api \in Streams /\ (observed \/ Visible(chunk)))
      BY <1>7 DEF now
    <3>2. held' = Append(held, chunk) \/ (api \notin Streams /\ held' = held)
      BY <2>1
    <3> HIDE DEF more
    <3> DEFINE new == held'
    <3>3. new = Append(held, chunk) \/ (api \notin Streams /\ new = held)
      BY <3>2
    <3> HIDE DEF new
    <3>4. OpenAs(Adapter, Tc, new, now, next) /\ new \in Seq(Chunks)
      BY <1>1, <3>1, <3>3, HoldOpens DEF Tc, now, next
    <3> QED BY <3>4 DEF new
  <2>4. OpenAs(Adapter, text, held, observed, order)'
    BY <1>2, <2>2, <2>3, OpenStays
  <2> QED BY <1>1, <1>2, <1>3, <1>4, <1>5, <2>3, <2>4 DEF ChatInv, ChatTypes
<1> QED BY <1>6, <1>7

LEMMA RetryKeeps ==
  ASSUME ChatInv, Retry
  PROVE  ChatInv'
<1> DEFINE none == <<>>
           empty == <<>>
<1>1. /\ api \in Apis /\ (api \in Streams => ~observed) /\ outcome = "open"
      /\ OpenAs(Adapter, text, held, observed, order)
  BY DEF ChatInv, ChatTypes, Retry, Untold
<1>2. /\ text' = none /\ held' = empty /\ order' = "thinking" /\ observed' = FALSE
      /\ UNCHANGED <<api, det, strip, block, index, sent, outcome>>
  BY DEF Retry
<1>3. Adapter' = Adapter
  BY <1>2 DEF Adapter
<1>4. none \in Words /\ empty \in Seq(Chunks)
  BY EmptyWord
<1>5. OpenAs(Adapter, none, empty, FALSE, "thinking")
  <2>1. Follows(Adapter, none) /\ Fresh(Adapter)
    BY <1>1 DEF OpenAs
  <2>2. Len(empty) = 0
    OBVIOUS
  <2>3. \A n : n \notin 1 .. Len(empty) /\ n \notin 2 .. Len(empty)
    BY <2>2
  <2> QED BY <2>1, <2>3 DEF OpenAs, InTurn
<1>6. OpenAs(Adapter, text, held, observed, order)'
  BY <1>1, <1>2, <1>3, <1>5, OpenStays
<1> HIDE DEF none, empty
<1> QED BY <1>1, <1>2, <1>4, <1>6 DEF ChatInv, ChatTypes, Turns

\* An answer that is over stays in its types.
LEMMA OverTypes ==
  ASSUME ChatInv, UNCHANGED <<api, text, order, observed>>, held' \in Seq(Chunks),
         outcome' \in {"complete", "limited", "broken"}, (StreamFaithful /\ BlocksWellFormed)'
  PROVE  ChatInv'
BY DEF ChatInv, ChatTypes

LEMMA EndKeeps ==
  ASSUME ChatInv, StreamEnds
  PROVE  ChatInv'
<1> DEFINE e == Answer(Adapter)
           list == e.sent
           atEnd == e.block
           over == "complete"
<1>1. /\ api \in Apis /\ text \in Words /\ held \in Seq(Chunks) /\ order \in Turns
      /\ OpenAs(Adapter, text, held, TRUE, order)
  BY DEF ChatInv, ChatTypes, StreamEnds
<1>2. /\ sent' = list /\ outcome' = over /\ block' = atEnd
      /\ UNCHANGED <<api, text, order, observed, held>>
  BY DEF StreamEnds, Becomes
<1>3. (StreamFaithful /\ BlocksWellFormed)'
  <2>1. CASE api \in Streams
    <3>1. e = Conclude(Adapter)
      BY <2>1 DEF Answer
    <3>2. /\ Follows(Adapter, text)
          /\ api = "anthropic" /\ order # "mixed" => Adapter.block = "text" /\ Stands(Adapter)
      BY <1>1, <2>1 DEF OpenAs
    <3> HIDE DEF e
    <3>3. /\ StreamedAs(list, over, atEnd, text)
          /\ api = "anthropic" /\ order # "mixed" => list \in Lists /\ BlocksAs(list, over)
      BY <1>1, <2>1, <3>1, <3>2, CompleteAs
    <3> HIDE DEF list, atEnd, over
    <3> QED BY <1>2, <2>1, <3>3, OverThen
  <2>2. CASE api \notin Streams
    <3>1. Follows(Adapter, <<>>) /\ Fresh(Adapter)
      BY <1>1, <2>2 DEF OpenAs
    <3>2. JsonAs(list, text)
      BY <1>1, <2>2, <3>1, JsonIs
    <3> HIDE DEF list
    <3> QED BY <1>2, <2>2, <3>2, ToldThen
  <2> QED BY <2>1, <2>2
<1> QED BY <1>1, <1>2, <1>3, OverTypes

LEMMA GiveUpKeeps ==
  ASSUME ChatInv, GiveUp
  PROVE  ChatInv'
<1> DEFINE e == LimitedAnswer(Adapter)
           list == e.sent
           atEnd == e.block
           over == "limited"
           empty == <<>>
<1>1. /\ api \in Apis /\ text \in Words /\ order \in Turns
      /\ OpenAs(Adapter, text, held, observed, order) /\ (api \in Streams => ~observed)
  BY DEF ChatInv, ChatTypes, GiveUp, Untold
<1>2. /\ sent' = list /\ outcome' = over /\ held' = empty /\ block' = atEnd
      /\ UNCHANGED <<api, text, order, observed>>
  BY DEF GiveUp, Becomes
<1>3. (StreamFaithful /\ BlocksWellFormed)'
  <2>1. CASE api \in Streams
    <3>1. e = Limit(Adapter)
      BY <2>1 DEF LimitedAnswer
    <3>2. Follows(Adapter, text) /\ Fresh(Adapter)
      BY <1>1, <2>1 DEF OpenAs
    <3> HIDE DEF e
    <3>3. /\ StreamedAs(list, over, atEnd, text)
          /\ api = "anthropic" => list \in Lists /\ BlocksAs(list, over)
      BY <3>1, <3>2, LimitedAs
    <3> HIDE DEF list, atEnd, over
    <3> QED BY <1>2, <2>1, <3>3, OverThen
  <2>2. CASE api \notin Streams
    <3>1. outcome' # "complete"
      BY <1>2
    <3> HIDE DEF list
    <3> QED BY <1>2, <2>2, <3>1, ToldThen
  <2> QED BY <2>1, <2>2
<1>4. held' \in Seq(Chunks)
  BY <1>2
<1> QED BY <1>2, <1>3, <1>4, OverTypes

LEMMA BreakKeeps ==
  ASSUME ChatInv, Break
  PROVE  ChatInv'
<1> DEFINE list == Adapter.sent
           atEnd == block
           over == "broken"
<1>1. /\ api \in Apis /\ text \in Words /\ held \in Seq(Chunks) /\ order \in Turns
      /\ OpenAs(Adapter, text, held, observed, order)
  BY DEF ChatInv, ChatTypes, Break
<1>2. /\ sent' = list /\ outcome' = over /\ block' = atEnd
      /\ UNCHANGED <<api, text, order, observed, held>>
  BY DEF Break, Adapter
<1>3. (StreamFaithful /\ BlocksWellFormed)'
  <2>1. CASE api \in Streams
    <3>1. /\ StreamedAs(list, over, atEnd, text)
          /\ api = "anthropic" /\ order # "mixed" => list \in Lists /\ BlocksAs(list, over)
      <4>1. /\ StreamedAs(Adapter.sent, "broken", block, text)
            /\ api = "anthropic" /\ order # "mixed" =>
                 Adapter.sent \in Lists /\ BlocksAs(Adapter.sent, "broken")
        <5> DEFINE a == Adapter
        <5>1. OpenAs(a, text, held, observed, order) /\ api \in Streams
          BY <1>1, <2>1
        <5> HIDE DEF a
        <5>2. /\ StreamedAs(a.sent, "broken", block, text)
              /\ api = "anthropic" /\ order # "mixed" =>
                   a.sent \in Lists /\ BlocksAs(a.sent, "broken")
          BY <5>1, CutAs
        <5> QED BY <5>2 DEF a
      <4> QED BY <4>1
    <3> HIDE DEF list, atEnd, over
    <3> QED BY <1>2, <2>1, <3>1, OverThen
  <2>2. CASE api \notin Streams
    <3>1. outcome' # "complete"
      BY <1>2
    <3> HIDE DEF list
    <3> QED BY <1>2, <2>2, <3>1, ToldThen
  <2> QED BY <2>1, <2>2
<1> QED BY <1>1, <1>2, <1>3, OverTypes

LEMMA StutterKeeps ==
  ASSUME ChatInv, UNCHANGED chatVars
  PROVE  ChatInv'
<1>1. UNCHANGED <<api, text, held, observed, order, outcome, sent, det, strip, block, index>>
  BY DEF chatVars
<1>2. Adapter' = Adapter
  BY <1>1 DEF Adapter
<1>3. ChatTypes'
  BY <1>1 DEF ChatInv, ChatTypes
<1>4. CASE outcome = "open"
  <2>1. OpenAs(Adapter, text', held', observed', order')
    BY <1>1, <1>4 DEF ChatInv
  <2>2. OpenAs(Adapter, text, held, observed, order)'
    BY <1>1, <1>2, <2>1, OpenStays
  <2> QED BY <1>1, <1>3, <1>4, <2>2 DEF ChatInv
<1>5. CASE outcome # "open"
  <2>1. StreamFaithful /\ BlocksWellFormed
    BY <1>5 DEF ChatInv
  <2>2. StreamFaithful'
    BY <1>1, <2>1 DEF StreamFaithful, StreamedFaithful, JsonFaithful, TextSent, Announced
  <2>3. BlocksWellFormed'
    <3>1. \A n : ClosedIn(n)' = ClosedIn(n) /\ OpenedIn(n)' = OpenedIn(n)
      BY <1>1 DEF ClosedIn, OpenedIn
    <3>2. \A n : InPlace(n)' <=> InPlace(n)
      BY <1>1, <3>1 DEF InPlace
    <3>3. ClosedIn(Len(sent))' = ClosedIn(Len(sent)) /\ OpenedIn(Len(sent))' = OpenedIn(Len(sent))
      BY <1>1 DEF ClosedIn, OpenedIn
    <3> QED BY <1>1, <2>1, <3>2, <3>3 DEF BlocksWellFormed
  <2> QED BY <1>1, <1>3, <1>5, <2>2, <2>3 DEF ChatInv
<1> QED BY <1>4, <1>5

\* While the answer is open the two properties hold as well.
LEMMA ChatInvThen == ChatInv => StreamFaithful /\ BlocksWellFormed
<1> SUFFICES ASSUME ChatInv PROVE StreamFaithful /\ BlocksWellFormed
  OBVIOUS
<1>1. CASE outcome # "open"
  BY <1>1 DEF ChatInv
<1>2. CASE outcome = "open"
  <2> DEFINE list == Adapter.sent
  <2>1. OpenAs(Adapter, text, held, observed, order)
    BY <1>2 DEF ChatInv
  <2>2. sent = list
    BY DEF Adapter
  <2>3. CASE api \in Streams
    <3>1. /\ StreamedAs(list, "broken", block, text)
          /\ api = "anthropic" /\ order # "mixed" => list \in Lists /\ BlocksAs(list, "broken")
      BY <2>1, <2>3, CutAs
    <3> HIDE DEF list
    <3>2. /\ StreamedAs(sent, outcome, block, text)
          /\ api = "anthropic" /\ order # "mixed" => sent \in Lists /\ BlocksAs(sent, outcome)
      BY <1>2, <2>2, <3>1 DEF StreamedAs, BlocksAs
    <3> QED BY <2>3, <3>2, FaithfulIs, WellFormedIs
  <2>4. CASE api \notin Streams
    BY <1>2, <2>4 DEF StreamFaithful, JsonFaithful, BlocksWellFormed, Streams
  <2> QED BY <2>3, <2>4
<1> QED BY <1>1, <1>2

LEMMA ChatStepKeeps == ChatInv /\ [ChatNext]_chatVars => ChatInv'
<1> SUFFICES ASSUME ChatInv, [ChatNext]_chatVars PROVE ChatInv'
  OBVIOUS
<1>1. ASSUME NEW chunk \in Chunks, Chunk(chunk) PROVE ChatInv'
  BY <1>1, ChunkKeeps
<1>2. CASE StreamEnds
  BY <1>2, EndKeeps
<1>3. CASE Retry
  BY <1>3, RetryKeeps
<1>4. CASE GiveUp
  BY <1>4, GiveUpKeeps
<1>5. CASE Break
  BY <1>5, BreakKeeps
<1>6. CASE UNCHANGED chatVars
  BY <1>6, StutterKeeps
<1> QED BY <1>1, <1>2, <1>3, <1>4, <1>5, <1>6 DEF ChatNext

LEMMA ChatAlways == ChatSpec => []ChatInv
<1>1. ChatInit => ChatInv
  BY ChatStarts
<1>2. ChatInv /\ [ChatNext]_chatVars => ChatInv'
  BY ChatStepKeeps
<1> QED BY <1>1, <1>2, PTL DEF ChatSpec

\* What the client has read is a beginning of its last attempt's answer, and
\* all of it, with its calls and its one finish_reason, when the answer is
\* complete: for every text, cut into chunks in every way, with retries,
\* stalls and errors (chat.ts:387, messages.ts:103).  Excepted are an Anthropic
\* stream whose upstream ends on reasoning after content, which loses what the
\* stripper holds back (events.ts:232), and an answer in one piece whose markup
\* is out of order.
THEOREM StreamTheorem == ChatSpec => []StreamFaithful
<1>1. ChatInv => StreamFaithful
  BY ChatInvThen
<1> QED BY <1>1, ChatAlways, PTL

\* The blocks of an Anthropic stream are numbered in turn, opened before they
\* are written to and closed once (events.ts:160).
THEOREM BlocksTheorem == ChatSpec => []BlocksWellFormed
<1>1. ChatInv => BlocksWellFormed
  BY ChatInvThen
<1> QED BY <1>1, ChatAlways, PTL
================================================================================
