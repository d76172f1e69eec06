------------------------ MODULE FinanceService_proofs ------------------------
(***************************************************************************)
(* Proofs about FinanceService, for any runs, providers, accounts, number  *)
(* of posted transactions and length of time.                              *)
(***************************************************************************)
EXTENDS FinanceService, TLAPS

RunRecord == [stage : Stages, kind : Kinds, todo : Seq(Providers), accts : Seq(Accounts),
              since : Clock \cup {Never}, reply : SUBSET Txns,
              resolved : BOOLEAN, token : BOOLEAN]

Walking == {"holdings", "txns", "reply", "balance"}

\* A run knows its provider while it loops over providers, and its account,
\* one of that provider's, while it loops over accounts.
Walks(v) ==
  /\ v.stage = "idle" => v = Idle
  /\ v.stage \in Walking \cup {"auth", "spent"} => v.todo # <<>>
  /\ v.stage \in Walking =>
       /\ v.accts # <<>>
       /\ \A i \in 1 .. Len(v.accts) : \E j \in 1 .. Len(AccountsOf[Head(v.todo)]) :
            v.accts[i] = AccountsOf[Head(v.todo)][j]
WalkInv == \A r \in Runs : Walks(run[r])

\* Nothing runs in a server that is down, and the daemon rests while its timer
\* is armed; it has no token to exchange.
ProcessInv ==
  /\ ~up => ~timer /\ \A r \in Runs : run[r] = Idle
  /\ timer => At(Daemon, "idle")
  /\ ~run[Daemon].token /\ run[Daemon].stage # "spent"

\* No watermark lies ahead of the clock, nor what is asked for ahead of the
\* watermark.
TimeInv ==
  /\ \A a \in Accounts : mark[a] <= clock
  /\ \A r \in Runs : run[r].since <= clock
Asks(r) == At(r, "txns") => run[r].since <= mark[Account(r)]

\* What a fetch under way is not going to store, and has not been stored, is
\* passed.
Fetches(r) ==
  /\ Asks(r)
  /\ \A t \in posted \ stored :
       /\ At(r, "txns") /\ Account(r) = t.acct /\ ~Covers(Provider(r), run[r].since, t.at)
            => t \in passed
       /\ At(r, "reply") /\ Account(r) = t.acct /\ t \notin run[r].reply => t \in passed
FetchInv == \A r \in Runs : Fetches(r)

ServiceInv ==
  /\ TypeOK /\ WalkInv /\ ProcessInv /\ TimeInv /\ FetchInv
  /\ FailuresMissNothing /\ StaleMarkHonest /\ AccessUrlKept

LEMMA Assumptions ==
  /\ Daemon \in Runs /\ MaxClock \in Nat /\ Secrets \in SUBSET Providers
  /\ Providers \in SUBSET Providers
  /\ InScope \in [SUBSET Providers -> Seq(Providers)] /\ Imports \in Seq(Providers)
  /\ AccountsOf \in [Providers -> Seq(Accounts)] /\ Posting \subseteq Accounts
  BY IngestAssumption, ServiceAssumption

\* A run is a record, whichever field is set.
LEMMA OneField ==
  ASSUME NEW v \in RunRecord
  PROVE  /\ \A x \in Stages : [v EXCEPT !.stage = x] \in RunRecord
         /\ \A x \in Kinds : [v EXCEPT !.kind = x] \in RunRecord
         /\ \A x \in Seq(Providers) : [v EXCEPT !.todo = x] \in RunRecord
         /\ \A x \in Seq(Accounts) : [v EXCEPT !.accts = x] \in RunRecord
         /\ \A x \in Clock \cup {Never} : [v EXCEPT !.since = x] \in RunRecord
         /\ \A x \in SUBSET Txns : [v EXCEPT !.reply = x] \in RunRecord
         /\ \A x \in BOOLEAN : [v EXCEPT !.resolved = x] \in RunRecord
         /\ \A x \in BOOLEAN : [v EXCEPT !.token = x] \in RunRecord
<1>1. ASSUME NEW x \in Stages PROVE [v EXCEPT !.stage = x] \in RunRecord
  BY DEF RunRecord
<1>2. ASSUME NEW x \in Kinds PROVE [v EXCEPT !.kind = x] \in RunRecord
  BY DEF RunRecord
<1>3. ASSUME NEW x \in Seq(Providers) PROVE [v EXCEPT !.todo = x] \in RunRecord
  BY DEF RunRecord
<1>4. ASSUME NEW x \in Seq(Accounts) PROVE [v EXCEPT !.accts = x] \in RunRecord
  BY DEF RunRecord
<1>5. ASSUME NEW x \in Clock \cup {Never} PROVE [v EXCEPT !.since = x] \in RunRecord
  BY DEF RunRecord
<1>6. ASSUME NEW x \in SUBSET Txns PROVE [v EXCEPT !.reply = x] \in RunRecord
  BY DEF RunRecord
<1>8. ASSUME NEW x \in BOOLEAN PROVE [v EXCEPT !.resolved = x] \in RunRecord
  BY DEF RunRecord
<1>9. ASSUME NEW x \in BOOLEAN PROVE [v EXCEPT !.token = x] \in RunRecord
  BY DEF RunRecord
<1>10. QED  BY <1>1, <1>2, <1>3, <1>4, <1>5, <1>6, <1>8, <1>9

LEMMA IdleIsRecord == Idle \in RunRecord /\ Walks(Idle)
<1>1. Idle \in RunRecord
  BY Assumptions DEF Idle, RunRecord, Stages, Kinds, Clock, Never
<1>2. Walks(Idle)
  BY DEF Idle, Walks, Walking
<1>3. QED  BY <1>1, <1>2

\* The provider of an account is the only one that lists it.
LEMMA OneProvider ==
  ASSUME NEW p \in Providers, NEW i \in 1 .. Len(AccountsOf[p])
  PROVE  ProviderOf(AccountsOf[p][i]) = p
<1> DEFINE a == AccountsOf[p][i]
           Lists(q) == \E j \in DOMAIN AccountsOf[q] : AccountsOf[q][j] = a
<1>1. Lists(p)
  BY Assumptions
<1>2. \A q \in Providers : Lists(q) => q = p
  BY Assumptions, IngestAssumption
<1>3. (CHOOSE q \in Providers : Lists(q)) = p
  BY <1>1, <1>2
<1>4. QED  BY <1>3 DEF ProviderOf

LEMMA StartedIsRecord ==
  ASSUME NEW kind \in Kinds, NEW todo \in Seq(Providers), NEW token \in BOOLEAN, clock \in Clock
  PROVE  LET v == Started(kind, todo, token) IN
         /\ v \in RunRecord /\ Walks(v)
         /\ v.stage \in {"auth", "ingested"} /\ v.since = Never
         /\ ~v.resolved /\ v.token = token
<1> DEFINE v == Started(kind, todo, token)
           s == IF todo = <<>> THEN "ingested" ELSE "auth"
<1>1. /\ v.stage = IF todo = <<>> THEN "ingested" ELSE "auth"
      /\ v.todo = todo /\ v.since = Never /\ v.resolved = FALSE /\ v.token = token
  BY DEF Started, Idle
<1>2. v = [[[[Idle EXCEPT !.stage = s] EXCEPT !.kind = kind] EXCEPT !.todo = todo]
              EXCEPT !.token = token]
  BY DEF Started
<1>3. s \in Stages
  BY DEF Stages
<1>4. v \in RunRecord
  <2> HIDE DEF s, v
  <2>1. [Idle EXCEPT !.stage = s] \in RunRecord
    BY <1>3, IdleIsRecord, OneField
  <2>2. [[Idle EXCEPT !.stage = s] EXCEPT !.kind = kind] \in RunRecord
    BY <2>1, OneField
  <2>3. [[[Idle EXCEPT !.stage = s] EXCEPT !.kind = kind] EXCEPT !.todo = todo] \in RunRecord
    BY <2>2, OneField
  <2>4. QED  BY <1>2, <2>3, OneField
<1>5. Walks(v)
  BY <1>1 DEF Walks, Walking
<1>6. QED  BY <1>1, <1>4, <1>5

LEMMA TailOfList ==
  ASSUME NEW S, NEW s \in Seq(S), s # <<>>
  PROVE  /\ Tail(s) \in Seq(S) /\ Head(s) \in S
         /\ Len(s) # 1 => Tail(s) # <<>>
         /\ \A i \in 1 .. Len(Tail(s)) : i + 1 \in 1 .. Len(s) /\ Tail(s)[i] = s[i + 1]
<1>1. Len(s) \in Nat /\ Len(s) # 0
  OBVIOUS
<1>2. Tail(s) \in Seq(S) /\ Head(s) \in S /\ Len(Tail(s)) = Len(s) - 1
  OBVIOUS
<1>3. Len(s) # 1 => Tail(s) # <<>>
  BY <1>1, <1>2
<1>4. \A i \in 1 .. Len(Tail(s)) : i + 1 \in 1 .. Len(s) /\ Tail(s)[i] = s[i + 1]
  BY <1>1, <1>2
<1>5. QED  BY <1>2, <1>3, <1>4

LEMMA NextProviderIsRecord ==
  ASSUME NEW r \in Runs, run[r] \in RunRecord, run[r].todo # <<>>
  PROVE  LET v == NextProvider(r) IN
         /\ v \in RunRecord /\ Walks(v)
         /\ v.stage \in {"auth", "ingested"} /\ v.since = Never
         /\ v.resolved = run[r].resolved /\ v.token = run[r].token
<1> DEFINE v == NextProvider(r)
           none == <<>>
           s == IF Len(run[r].todo) = 1 THEN "ingested" ELSE "auth"
           t == Tail(run[r].todo)
<1>1. run[r].todo \in Seq(Providers)
  BY DEF RunRecord
<1>2. t \in Seq(Providers) /\ (Len(run[r].todo) # 1 => t # <<>>)
  BY <1>1, TailOfList
<1>3. /\ v.stage = IF Len(run[r].todo) = 1 THEN "ingested" ELSE "auth"
      /\ v.todo = t /\ v.since = Never
      /\ v.resolved = run[r].resolved /\ v.token = run[r].token
  BY DEF NextProvider, RunRecord
<1>4. v = [[[[[run[r] EXCEPT !.stage = s] EXCEPT !.todo = t] EXCEPT !.accts = none]
              EXCEPT !.since = Never] EXCEPT !.reply = {}]
  BY DEF NextProvider
<1>5. v \in RunRecord
  <2>0. s \in Stages /\ none \in Seq(Accounts)
    BY DEF Stages
  <2> HIDE DEF s, t, v, none
  <2>1. [run[r] EXCEPT !.stage = s] \in RunRecord
    BY <2>0, OneField
  <2>2. [[run[r] EXCEPT !.stage = s] EXCEPT !.todo = t] \in RunRecord
    BY <1>2, <2>1, OneField
  <2>3. [[[run[r] EXCEPT !.stage = s] EXCEPT !.todo = t] EXCEPT !.accts = none] \in RunRecord
    BY <2>0, <2>2, OneField
  <2>4. [[[[run[r] EXCEPT !.stage = s] EXCEPT !.todo = t] EXCEPT !.accts = none]
              EXCEPT !.since = Never] \in RunRecord
    BY <2>3, OneField
  <2>5. QED  BY <1>4, <2>4, OneField
<1>6. Walks(v)
  BY <1>2, <1>3 DEF Walks, Walking
<1>7. QED  BY <1>3, <1>5, <1>6

-----------------------------------------------------------------------------
LEMMA Typed ==
  ASSUME ServiceInv
  PROVE  /\ run \in [Runs -> RunRecord] /\ clock \in Clock /\ clock \in Nat
         /\ mark \in [Accounts -> Clock \cup {Never}]
         /\ \A a \in Accounts : mark[a] \in Int
         /\ \A r \in Runs : run[r].since \in Int
  BY Assumptions DEF ServiceInv, TypeOK, IngestTypeOK, RunRecord, Clock, Never

\* What a run that loops over accounts has in hand.
LEMMA InHand ==
  ASSUME ServiceInv, NEW r \in Runs, run[r].stage \in Walking
  PROVE  /\ run[r].accts \in Seq(Accounts) /\ run[r].accts # <<>>
         /\ Account(r) \in Accounts /\ Provider(r) \in Providers
         /\ ProviderOf(Account(r)) = Provider(r)
<1>1. /\ run[r].accts \in Seq(Accounts) /\ run[r].todo \in Seq(Providers)
  BY Typed DEF RunRecord
<1>2. /\ run[r].accts # <<>> /\ run[r].todo # <<>>
      /\ \A i \in 1 .. Len(run[r].accts) : \E j \in 1 .. Len(AccountsOf[Provider(r)]) :
           run[r].accts[i] = AccountsOf[Provider(r)][j]
  BY DEF ServiceInv, WalkInv, Walks, Walking, Provider
<1>3. Account(r) \in Accounts /\ Provider(r) \in Providers
  BY <1>1, <1>2, TailOfList DEF Account, Provider
<1>4. 1 \in 1 .. Len(run[r].accts) /\ Account(r) = run[r].accts[1]
  BY <1>1, <1>2 DEF Account
<1>5. PICK j \in 1 .. Len(AccountsOf[Provider(r)]) : Account(r) = AccountsOf[Provider(r)][j]
  BY <1>2, <1>4
<1>6. QED  BY <1>1, <1>2, <1>3, <1>5, OneProvider

\* A step of one run that leaves the tables alone.
LEMMA RunMoves ==
  ASSUME ServiceInv, NEW r \in Runs, NEW v \in RunRecord, Walks(v), v.since <= clock,
         Fetches(r)', run' = [run EXCEPT ![r] = v],
         UNCHANGED <<clock, posted, mark, stored>>,
         passed \subseteq passed', passed' \subseteq Txns
  PROVE  /\ run' \in [Runs -> RunRecord]
         /\ WalkInv' /\ TimeInv' /\ FetchInv' /\ FailuresMissNothing'
<1>1. /\ run' \in [Runs -> RunRecord] /\ run'[r] = v
      /\ \A q \in Runs : q # r => run'[q] = run[q]
  BY Typed
<1>2. WalkInv'
  <2> SUFFICES ASSUME NEW q \in Runs PROVE Walks(run'[q])
    BY DEF WalkInv, Walks
  <2>1. QED  BY <1>1 DEF ServiceInv, WalkInv
<1>3. TimeInv'
  BY <1>1 DEF ServiceInv, TimeInv
<1>4. FetchInv'
  <2> SUFFICES ASSUME NEW q \in Runs PROVE Fetches(q)'
    BY DEF FetchInv
  <2>1. CASE q # r
    BY <2>1, <1>1 DEF ServiceInv, FetchInv, Fetches, Asks, At, Account, Provider, Covers
  <2>2. QED  BY <2>1
<1>5. FailuresMissNothing'
  BY DEF ServiceInv, FailuresMissNothing, BehindMark, Covers, ProviderOf
<1>6. QED  BY <1>1, <1>2, <1>3, <1>4, <1>5

\* A run that goes on keeps the access URL it has, or it is spilt.
GoesOn(r, v) ==
  /\ v.token = run[r].token
  /\ run[r].resolved => v.resolved
  /\ At(r, "spent") => v.resolved \/ spilt'
  /\ v.stage = "spent" => r # Daemon
  /\ claimed' \in BOOLEAN /\ (claimed' => claimed \/ (v.stage = "spent" /\ r # Daemon))
  /\ spilt' \in BOOLEAN /\ (spilt => spilt')

LEMMA RunGoesOn ==
  ASSUME ServiceInv, NEW r \in Runs, NEW v \in RunRecord, ~At(r, "idle"), GoesOn(r, v),
         run' = [run EXCEPT ![r] = v], UNCHANGED serviceVars
  PROVE  ProcessInv' /\ AccessUrlKept'
<1>1. /\ run'[r] = v /\ \A q \in Runs : q # r => run'[q] = run[q]
  BY Typed
<1>2. up
  BY DEF ServiceInv, ProcessInv, At, Idle
<1>3. ProcessInv'
  <2>1. ~run'[Daemon].token /\ run'[Daemon].stage # "spent"
    BY <1>1, Assumptions DEF ServiceInv, ProcessInv, GoesOn
  <2>2. timer => r # Daemon
    BY DEF ServiceInv, ProcessInv
  <2>3. QED  BY <2>1, <2>2, <1>1, <1>2, Assumptions DEF ServiceInv, ProcessInv, serviceVars, At
<1>4. AccessUrlKept'
  <2> SUFFICES ASSUME claimed', config = "token", ~spilt'
               PROVE  \E q \in Requests : HasUrl(q)'
    BY DEF AccessUrlKept, serviceVars
  <2>1. CASE ~claimed
    BY <2>1, <1>1 DEF GoesOn, HasUrl, At, Requests
  <2>2. CASE claimed
    <3>1. PICK q \in Requests : HasUrl(q)
      BY <2>2 DEF ServiceInv, AccessUrlKept, GoesOn
    <3>2. HasUrl(q)'
      BY <3>1, <1>1 DEF HasUrl, At, GoesOn, Requests
    <3>3. QED  BY <3>2
  <2>3. QED  BY <2>1, <2>2
<1>5. QED  BY <1>3, <1>4

\* The two together, of a step that neither reads the clock nor moves it.
LEMMA IngestMoves ==
  ASSUME ServiceInv, NEW r \in Runs, NEW v \in RunRecord, ~At(r, "idle"),
         run' = [run EXCEPT ![r] = v], Walks(v), v.since <= clock, Fetches(r)',
         GoesOn(r, v), passed \subseteq passed', passed' \subseteq Txns,
         stale' \subseteq Accounts, failed' \subseteq Accounts, StaleMarkHonest',
         UNCHANGED <<clock, posted, mark, stored>>, UNCHANGED serviceVars
  PROVE  ServiceInv'
<1>1. /\ run' \in [Runs -> RunRecord]
      /\ WalkInv' /\ TimeInv' /\ FetchInv' /\ FailuresMissNothing'
  BY RunMoves
<1>2. ProcessInv' /\ AccessUrlKept'
  BY RunGoesOn
<1>3. TypeOK'
  BY <1>1 DEF ServiceInv, TypeOK, IngestTypeOK, RunRecord, serviceVars, GoesOn
<1>4. QED  BY <1>1, <1>2, <1>3 DEF ServiceInv

-----------------------------------------------------------------------------
LEMMA SpendKeeps ==
  ASSUME ServiceInv, NEW r \in Runs, SpendToken(r), UNCHANGED serviceVars
  PROVE  ServiceInv'
<1> DEFINE spent == "spent"
           v == [run[r] EXCEPT !.stage = spent]
<1>1. v \in RunRecord
  <2>1. spent \in Stages
    BY DEF Stages
  <2> HIDE DEF spent
  <2>2. QED  BY <2>1, Typed, OneField
<1>2. /\ v.stage = "spent" /\ v.since = run[r].since /\ v.token = run[r].token
      /\ v.todo = run[r].todo /\ v.resolved = run[r].resolved
  BY Typed DEF SpendToken, At, RunRecord
<1>3. /\ run' = [run EXCEPT ![r] = v] /\ claimed' = TRUE /\ At(r, "auth")
      /\ UNCHANGED <<clock, posted, stale, mark, stored, passed, failed, spilt>>
  BY Typed DEF SpendToken
<1>4. r # Daemon
  BY DEF ServiceInv, ProcessInv, SpendToken, MustExchange
<1> HIDE DEF v
<1>5. Walks(v)
  BY <1>2, <1>3 DEF ServiceInv, WalkInv, Walks, Walking, At
<1>6. run'[r] = v /\ \A q \in Runs : q # r => run'[q] = run[q]
  BY <1>3, Typed
<1>7. Fetches(r)'
  BY <1>2, <1>6 DEF Fetches, Asks, At
<1>8. StaleMarkHonest'
  BY <1>3, <1>6 DEF ServiceInv, StaleMarkHonest, Refetching, At, Account
<1>9. /\ stale' \subseteq Accounts /\ failed' \subseteq Accounts /\ v.since <= clock
      /\ passed' \subseteq Txns /\ spilt \in BOOLEAN
  BY <1>2, <1>3 DEF ServiceInv, TypeOK, IngestTypeOK, TimeInv
<1>10. GoesOn(r, v)
  BY <1>2, <1>3, <1>4, <1>9 DEF GoesOn, At
<1>11. QED  BY <1>1, <1>3, <1>5, <1>7, <1>8, <1>9, <1>10, IngestMoves DEF At

LEMMA ReadKeeps ==
  ASSUME ServiceInv, NEW r \in Runs, ReadUrl(r), UNCHANGED serviceVars
  PROVE  ServiceInv'
<1> DEFINE auth == "auth"
           v == [[run[r] EXCEPT !.stage = auth] EXCEPT !.resolved = TRUE]
<1>1. v \in RunRecord
  <2>1. auth \in Stages
    BY DEF Stages
  <2> HIDE DEF auth
  <2>2. [run[r] EXCEPT !.stage = auth] \in RunRecord
    BY <2>1, Typed, OneField
  <2>3. QED  BY <2>2, OneField
<1>2. /\ v.stage = "auth" /\ v.since = run[r].since /\ v.token = run[r].token
      /\ v.todo = run[r].todo /\ v.resolved
  BY Typed DEF RunRecord
<1>3. /\ run' = [run EXCEPT ![r] = v] /\ At(r, "spent")
      /\ UNCHANGED <<clock, posted, claimed, stale, mark, stored, passed, failed, spilt>>
  BY Typed DEF ReadUrl
<1> HIDE DEF v
<1>4. Walks(v)
  BY <1>2, <1>3 DEF ServiceInv, WalkInv, Walks, Walking, At
<1>5. run'[r] = v /\ \A q \in Runs : q # r => run'[q] = run[q]
  BY <1>3, Typed
<1>6. Fetches(r)'
  BY <1>2, <1>5 DEF Fetches, Asks, At
<1>7. StaleMarkHonest'
  BY <1>3, <1>5 DEF ServiceInv, StaleMarkHonest, Refetching, At, Account
<1>8. /\ stale' \subseteq Accounts /\ failed' \subseteq Accounts /\ v.since <= clock
      /\ passed' \subseteq Txns /\ spilt \in BOOLEAN /\ claimed \in BOOLEAN
  BY <1>2, <1>3 DEF ServiceInv, TypeOK, IngestTypeOK, TimeInv
<1>9. GoesOn(r, v)
  BY <1>2, <1>3, <1>8 DEF GoesOn
<1>10. QED  BY <1>1, <1>3, <1>4, <1>6, <1>7, <1>8, <1>9, IngestMoves DEF At

\* The loop over accounts goes on, or turns to the next provider.
LEMMA VisitKeeps ==
  ASSUME ServiceInv, NEW r \in Runs, At(r, "auth") \/ At(r, "balance"),
         NEW accts \in Seq(Accounts), Visit(r, accts),
         \A i \in 1 .. Len(accts) : \E j \in 1 .. Len(AccountsOf[Provider(r)]) :
           accts[i] = AccountsOf[Provider(r)][j],
         UNCHANGED <<clock, posted, claimed, mark, stored, passed, failed, spilt>>,
         UNCHANGED serviceVars
  PROVE  ServiceInv'
<1>0. /\ run[r] \in RunRecord /\ run[r].todo # <<>> /\ clock \in Nat
      /\ claimed \in BOOLEAN /\ stale \subseteq Accounts /\ failed \subseteq Accounts
      /\ spilt \in BOOLEAN /\ passed \subseteq Txns /\ ~At(r, "spent")
  BY Typed DEF ServiceInv, WalkInv, Walks, Walking, At, TypeOK, IngestTypeOK
<1>1. CASE accts = <<>>
  <2> DEFINE v == NextProvider(r)
  <2>1. /\ v \in RunRecord /\ Walks(v) /\ v.stage \in {"auth", "ingested"}
        /\ v.since = Never /\ v.resolved = run[r].resolved /\ v.token = run[r].token
    BY <1>0, NextProviderIsRecord
  <2>2. run' = [run EXCEPT ![r] = v] /\ UNCHANGED stale
    BY <1>1 DEF Visit
  <2> HIDE DEF v
  <2>3. run'[r] = v /\ \A q \in Runs : q # r => run'[q] = run[q]
    BY <2>2, Typed
  <2>4. Fetches(r)'
    BY <2>1, <2>3 DEF Fetches, Asks, At
  <2>5. StaleMarkHonest'
    BY <2>2, <2>3 DEF ServiceInv, StaleMarkHonest, Refetching, At, Account
  <2>6. v.since <= clock
    BY <1>0, <2>1 DEF Never
  <2>7. GoesOn(r, v)
    BY <1>0, <2>1 DEF GoesOn
  <2>8. QED  BY <1>0, <2>1, <2>2, <2>4, <2>5, <2>6, <2>7, IngestMoves DEF At
<1>2. CASE accts # <<>>
  <2> DEFINE hold == "holdings"
             none == {}
             v == [[[[run[r] EXCEPT !.stage = hold] EXCEPT !.accts = accts]
                      EXCEPT !.since = Never] EXCEPT !.reply = none]
  <2>1. v \in RunRecord
    <3>1. hold \in Stages /\ none \in SUBSET Txns
      BY DEF Stages
    <3> HIDE DEF hold, none
    <3>2. [run[r] EXCEPT !.stage = hold] \in RunRecord
      BY <1>0, <3>1, OneField
    <3>3. [[run[r] EXCEPT !.stage = hold] EXCEPT !.accts = accts] \in RunRecord
      BY <3>2, OneField
    <3>4. [[[run[r] EXCEPT !.stage = hold] EXCEPT !.accts = accts]
             EXCEPT !.since = Never] \in RunRecord
      BY <3>3, OneField
    <3>5. QED  BY <3>1, <3>4, OneField
  <2>2. /\ v.stage = "holdings" /\ v.accts = accts /\ v.since = Never
        /\ v.todo = run[r].todo
        /\ v.resolved = run[r].resolved /\ v.token = run[r].token
    BY <1>0 DEF RunRecord
  <2>3. run' = [run EXCEPT ![r] = v] /\ stale' = stale \ {Head(accts)}
    BY <1>2, Typed DEF Visit
  <2> HIDE DEF v
  <2>4. run'[r] = v /\ \A q \in Runs : q # r => run'[q] = run[q]
    BY <2>3, Typed
  <2>5. Walks(v)
    BY <1>0, <1>2, <2>2 DEF Walks, Walking, Provider
  <2>6. Fetches(r)'
    BY <2>2, <2>4 DEF Fetches, Asks, At
  <2>7. StaleMarkHonest'
    BY <2>2, <2>3, <2>4 DEF ServiceInv, StaleMarkHonest, Refetching, At, Account
  <2>8. v.since <= clock /\ stale' \subseteq Accounts
    BY <1>0, <2>2, <2>3 DEF Never
  <2>9. GoesOn(r, v)
    BY <1>0, <2>2 DEF GoesOn
  <2>10. QED  BY <1>0, <2>1, <2>2, <2>3, <2>5, <2>6, <2>7, <2>8, <2>9, IngestMoves DEF At
<1>3. QED  BY <1>1, <1>2

LEMMA SignInKeeps ==
  ASSUME ServiceInv, NEW r \in Runs, SignIn(r), UNCHANGED serviceVars
  PROVE  ServiceInv'
<1>1. run[r] \in RunRecord /\ run[r].todo # <<>> /\ At(r, "auth")
  BY Typed DEF SignIn, ServiceInv, WalkInv, Walks, At
<1>2. Provider(r) \in Providers
  BY <1>1, TailOfList DEF RunRecord, Provider
<1>3. AccountsOf[Provider(r)] \in Seq(Accounts)
  BY <1>2, Assumptions
<1>4. QED  BY <1>1, <1>3, VisitKeeps DEF SignIn

LEMMA BalanceKeeps ==
  ASSUME ServiceInv, NEW r \in Runs, StoreBalance(r), UNCHANGED serviceVars
  PROVE  ServiceInv'
<1>1. At(r, "balance") /\ run[r].stage \in Walking
  BY DEF StoreBalance, At, Walking
<1>2. /\ run[r].accts \in Seq(Accounts) /\ run[r].accts # <<>>
      /\ \A i \in 1 .. Len(run[r].accts) : \E j \in 1 .. Len(AccountsOf[Provider(r)]) :
           run[r].accts[i] = AccountsOf[Provider(r)][j]
  BY <1>1, InHand DEF ServiceInv, WalkInv, Walks, Provider
<1>3. /\ Tail(run[r].accts) \in Seq(Accounts)
      /\ \A i \in 1 .. Len(Tail(run[r].accts)) :
           /\ i + 1 \in 1 .. Len(run[r].accts)
           /\ Tail(run[r].accts)[i] = run[r].accts[i + 1]
  BY <1>2, TailOfList
<1>4. \A i \in 1 .. Len(Tail(run[r].accts)) : \E j \in 1 .. Len(AccountsOf[Provider(r)]) :
        Tail(run[r].accts)[i] = AccountsOf[Provider(r)][j]
  BY <1>2, <1>3
<1>5. QED  BY <1>1, <1>3, <1>4, VisitKeeps DEF StoreBalance

LEMMA SignInFailsKeeps ==
  ASSUME ServiceInv, NEW r \in Runs, SignInFails(r) \/ ReadFails(r), UNCHANGED serviceVars
  PROVE  ServiceInv'
<1> DEFINE v == NextProvider(r)
<1>0. /\ run[r] \in RunRecord /\ run[r].todo # <<>> /\ clock \in Nat
      /\ At(r, "auth") \/ At(r, "spent")
      /\ claimed \in BOOLEAN /\ stale \subseteq Accounts /\ failed \subseteq Accounts
      /\ spilt \in BOOLEAN /\ passed \subseteq Txns
  BY Typed DEF ServiceInv, WalkInv, Walks, At, TypeOK, IngestTypeOK, SignInFails, ReadFails
<1>1. /\ v \in RunRecord /\ Walks(v) /\ v.stage \in {"auth", "ingested"}
      /\ v.since = Never /\ v.resolved = run[r].resolved /\ v.token = run[r].token
  BY <1>0, NextProviderIsRecord
<1>2. /\ run' = [run EXCEPT ![r] = v] /\ spilt' \in BOOLEAN /\ (spilt => spilt')
      /\ At(r, "spent") => spilt'
      /\ UNCHANGED <<clock, posted, claimed, stale, mark, stored, passed, failed>>
  BY <1>0 DEF SignInFails, ReadFails, At
<1> HIDE DEF v
<1>3. run'[r] = v /\ \A q \in Runs : q # r => run'[q] = run[q]
  BY <1>2, Typed
<1>4. Fetches(r)'
  BY <1>1, <1>3 DEF Fetches, Asks, At
<1>5. StaleMarkHonest'
  BY <1>0, <1>2, <1>3 DEF ServiceInv, StaleMarkHonest, Refetching, At, Account
<1>6. v.since <= clock
  BY <1>0, <1>1 DEF Never
<1>7. GoesOn(r, v)
  BY <1>0, <1>1, <1>2 DEF GoesOn
<1>8. QED  BY <1>0, <1>1, <1>2, <1>4, <1>5, <1>6, <1>7, IngestMoves DEF At

\* The transactions are asked for with the account's watermark: what it does
\* not cover is stored or passed.
LEMMA AskTxnsKeeps ==
  ASSUME ServiceInv, NEW r \in Runs, ReplaceHoldings(r) \/ MarkStale(r), UNCHANGED serviceVars
  PROVE  ServiceInv'
<1> DEFINE txns == "txns"
           v == [[run[r] EXCEPT !.stage = txns] EXCEPT !.since = mark[Account(r)]]
<1>0. /\ run[r] \in RunRecord /\ clock \in Nat /\ claimed \in BOOLEAN /\ claimed' = claimed
      /\ At(r, "holdings") /\ stale \subseteq Accounts /\ failed \subseteq Accounts
      /\ spilt \in BOOLEAN /\ passed \subseteq Txns
      /\ UNCHANGED <<clock, posted, mark, stored, passed, spilt>>
  BY Typed DEF ServiceInv, TypeOK, IngestTypeOK, ReplaceHoldings, MarkStale
<1>1. /\ Account(r) \in Accounts /\ Provider(r) \in Providers
      /\ ProviderOf(Account(r)) = Provider(r)
  BY <1>0, InHand DEF At, Walking
<1>2. v \in RunRecord
  <2>1. txns \in Stages /\ mark[Account(r)] \in Clock \cup {Never}
    BY <1>1, Typed DEF Stages
  <2> HIDE DEF txns
  <2>2. [run[r] EXCEPT !.stage = txns] \in RunRecord
    BY <1>0, <2>1, OneField
  <2>3. QED  BY <2>1, <2>2, OneField
<1>3. /\ v.stage = "txns" /\ v.since = mark[Account(r)]
      /\ v.todo = run[r].todo /\ v.accts = run[r].accts
      /\ v.resolved = run[r].resolved /\ v.token = run[r].token
  BY <1>0 DEF RunRecord
<1>4. run' = [run EXCEPT ![r] = v]
  BY Typed DEF ReplaceHoldings, MarkStale
<1> HIDE DEF v
<1>5. run'[r] = v /\ \A q \in Runs : q # r => run'[q] = run[q]
  BY <1>4, Typed
<1>6. Walks(v)
  BY <1>0, <1>3 DEF ServiceInv, WalkInv, Walks, Walking, At
<1>7. Account(r)' = Account(r) /\ Provider(r)' = Provider(r)
  BY <1>3, <1>5 DEF Account, Provider
<1>8. Fetches(r)'
  <2> SUFFICES ASSUME NEW t \in posted \ stored, Account(r) = t.acct,
                      ~Covers(Provider(r), mark[t.acct], t.at)
               PROVE  t \in passed
    <3>1. Asks(r)'
      BY <1>0, <1>1, <1>3, <1>5, <1>7, Typed DEF Asks, At
    <3>2. QED  BY <3>1, <1>0, <1>3, <1>5, <1>7 DEF Fetches, At, Covers
  <2>1. mark[t.acct] # Never
    BY DEF Covers
  <2>2. QED  BY <1>1, <2>1 DEF ServiceInv, FailuresMissNothing, BehindMark
<1>9. stale' \subseteq Accounts /\ failed' \subseteq Accounts
  BY <1>0, <1>1 DEF ReplaceHoldings, MarkStale
<1>10. StaleMarkHonest'
  <2> SUFFICES ASSUME NEW a \in failed' PROVE Refetching(a)' \/ a \in stale'
    BY DEF StaleMarkHonest, Refetching, At, Account
  <2>1. CASE a = Account(r)
    BY <2>1 DEF ReplaceHoldings, MarkStale
  <2>2. CASE a # Account(r)
    <3>1. a \in failed /\ (a \in stale => a \in stale')
      BY <2>2 DEF ReplaceHoldings, MarkStale
    <3>2. Refetching(a) => Refetching(a)'
      BY <2>2, <1>5 DEF Refetching, At, Account
    <3>3. QED  BY <3>1, <3>2 DEF ServiceInv, StaleMarkHonest
  <2>3. QED  BY <2>1, <2>2
<1>11. v.since <= clock
  BY <1>1, <1>3 DEF ServiceInv, TimeInv
<1>12. GoesOn(r, v)
  BY <1>0, <1>3 DEF GoesOn, At
<1>13. QED
  BY <1>0, <1>2, <1>4, <1>6, <1>8, <1>9, <1>10, <1>11, <1>12, IngestMoves DEF At

LEMMA AnswerKeeps ==
  ASSUME ServiceInv, NEW r \in Runs, AnswerTxns(r), UNCHANGED serviceVars
  PROVE  ServiceInv'
<1> DEFINE asked == Answer(Provider(r), Account(r), run[r].since)
<1>0. /\ run[r] \in RunRecord /\ clock \in Nat /\ claimed \in BOOLEAN
      /\ At(r, "txns") /\ stale \subseteq Accounts /\ failed \subseteq Accounts
      /\ posted \subseteq Txns /\ spilt \in BOOLEAN /\ passed \subseteq Txns
      /\ UNCHANGED <<clock, posted, claimed, stale, mark, stored, failed, spilt>>
  BY Typed DEF ServiceInv, TypeOK, IngestTypeOK, AnswerTxns
<1>1. PICK left \in SUBSET asked :
        /\ run' = [run EXCEPT ![r].stage = "reply", ![r].since = Never,
                              ![r].reply = asked \ left]
        /\ passed' = passed \cup (left \ stored)
  BY DEF AnswerTxns
<1> DEFINE reply == "reply"
           found == asked \ left
           v == [[[run[r] EXCEPT !.stage = reply] EXCEPT !.since = Never] EXCEPT !.reply = found]
<1>2. asked \subseteq Txns
  BY <1>0 DEF Answer
<1>3. \A t \in posted : t.acct = Account(r) /\ t \notin asked => ~Covers(Provider(r), run[r].since, t.at)
  BY DEF Answer
<1> HIDE DEF asked
<1>4. v \in RunRecord
  <2>1. reply \in Stages /\ found \in SUBSET Txns
    BY <1>2 DEF Stages
  <2> HIDE DEF reply, found
  <2>2. [run[r] EXCEPT !.stage = reply] \in RunRecord
    BY <1>0, <2>1, OneField
  <2>3. [[run[r] EXCEPT !.stage = reply] EXCEPT !.since = Never] \in RunRecord
    BY <2>2, OneField
  <2>4. QED  BY <2>1, <2>3, OneField
<1> HIDE DEF found
<1>5. /\ v.stage = "reply" /\ v.since = Never /\ v.reply = found
      /\ v.todo = run[r].todo /\ v.accts = run[r].accts
      /\ v.resolved = run[r].resolved /\ v.token = run[r].token
  BY <1>0 DEF RunRecord
<1>6. run' = [run EXCEPT ![r] = v]
  BY <1>1, Typed DEF found
<1> HIDE DEF v
<1>7. run'[r] = v /\ \A q \in Runs : q # r => run'[q] = run[q]
  BY <1>6, Typed
<1>8. Walks(v)
  BY <1>0, <1>5 DEF ServiceInv, WalkInv, Walks, Walking, At
<1>9. Account(r)' = Account(r)
  BY <1>5, <1>7 DEF Account
<1>10. Fetches(r)'
  <2> SUFFICES ASSUME NEW t \in posted \ stored, Account(r) = t.acct, t \notin found
               PROVE  t \in passed'
    BY <1>0, <1>5, <1>7, <1>9 DEF Fetches, Asks, At
  <2>1. CASE t \in asked
    BY <2>1, <1>1 DEF found
  <2>2. CASE t \notin asked
    <3>1. t \in passed
      BY <2>2, <1>0, <1>3 DEF ServiceInv, FetchInv, Fetches
    <3>2. QED  BY <3>1, <1>1
  <2>3. QED  BY <2>1, <2>2
<1>11. StaleMarkHonest'
  BY <1>0, <1>7 DEF ServiceInv, StaleMarkHonest, Refetching, At, Account
<1>12. v.since <= clock /\ passed \subseteq passed' /\ passed' \subseteq Txns
  BY <1>0, <1>1, <1>2, <1>5 DEF Never
<1>13. GoesOn(r, v)
  BY <1>0, <1>5 DEF GoesOn, At
<1>14. QED
  BY <1>0, <1>4, <1>6, <1>8, <1>10, <1>11, <1>12, <1>13, IngestMoves DEF At

\* A run whose fetch is over, whether it answered or failed.
Fetched(r) == [[[run[r] EXCEPT !.stage = "balance"] EXCEPT !.since = Never] EXCEPT !.reply = {}]

LEMMA FetchedIsRecord ==
  ASSUME ServiceInv, NEW r \in Runs, run[r].stage \in {"txns", "reply"}
  PROVE  /\ Fetched(r) \in RunRecord /\ Walks(Fetched(r))
         /\ Fetched(r).stage = "balance" /\ Fetched(r).since = Never
         /\ Fetched(r).resolved = run[r].resolved /\ Fetched(r).token = run[r].token
<1> DEFINE balance == "balance"
           none == {}
           v == [[[run[r] EXCEPT !.stage = balance] EXCEPT !.since = Never] EXCEPT !.reply = none]
<1>0. run[r] \in RunRecord
  BY Typed
<1>1. v \in RunRecord
  <2>1. balance \in Stages /\ none \in SUBSET Txns
    BY DEF Stages
  <2> HIDE DEF balance, none
  <2>2. [run[r] EXCEPT !.stage = balance] \in RunRecord
    BY <1>0, <2>1, OneField
  <2>3. [[run[r] EXCEPT !.stage = balance] EXCEPT !.since = Never] \in RunRecord
    BY <2>2, OneField
  <2>4. QED  BY <2>1, <2>3, OneField
<1>2. /\ v.stage = "balance" /\ v.since = Never
      /\ v.todo = run[r].todo /\ v.accts = run[r].accts
      /\ v.resolved = run[r].resolved /\ v.token = run[r].token
  BY <1>0 DEF RunRecord
<1>3. v = Fetched(r)
  BY DEF Fetched
<1> HIDE DEF v
<1>4. Walks(v)
  BY <1>2 DEF ServiceInv, WalkInv, Walks, Walking
<1>5. QED  BY <1>1, <1>2, <1>3, <1>4

LEMMA TxnsFailKeeps ==
  ASSUME ServiceInv, NEW r \in Runs, TxnsFail(r), UNCHANGED serviceVars
  PROVE  ServiceInv'
<1>0. /\ clock \in Nat /\ claimed \in BOOLEAN /\ run[r].stage \in {"txns", "reply"}
      /\ stale \subseteq Accounts /\ failed \subseteq Accounts
      /\ spilt \in BOOLEAN /\ passed \subseteq Txns
      /\ UNCHANGED <<clock, posted, claimed, stale, mark, stored, passed, failed, spilt>>
  BY Typed DEF ServiceInv, TypeOK, IngestTypeOK, TxnsFail
<1>1. run' = [run EXCEPT ![r] = Fetched(r)]
  BY Typed DEF TxnsFail, Fetched
<1>2. run'[r] = Fetched(r) /\ \A q \in Runs : q # r => run'[q] = run[q]
  BY <1>1, Typed
<1>3. Fetches(r)'
  BY <1>0, <1>2, FetchedIsRecord DEF Fetches, Asks, At
<1>4. StaleMarkHonest'
  BY <1>0, <1>2 DEF ServiceInv, StaleMarkHonest, Refetching, At, Account
<1>5. Fetched(r).since <= clock /\ ~At(r, "idle")
  BY <1>0, FetchedIsRecord DEF Never, At
<1>6. GoesOn(r, Fetched(r))
  BY <1>0, FetchedIsRecord DEF GoesOn, At
<1>7. QED  BY <1>0, <1>1, <1>3, <1>4, <1>5, <1>6, FetchedIsRecord, IngestMoves

\* The watermark passes what is stored, what the table refused, which is passed,
\* and what was posted after the provider looked, which is passed.
LEMMA StoreTxnsKeeps ==
  ASSUME ServiceInv, NEW r \in Runs, StoreTxns(r), UNCHANGED serviceVars
  PROVE  ServiceInv'
<1>0. /\ clock \in Nat /\ clock \in Clock /\ At(r, "reply") /\ run[r] \in RunRecord
      /\ run[r].reply \subseteq Txns
      /\ mark \in [Accounts -> Clock \cup {Never}]
      /\ mark' = [mark EXCEPT ![Account(r)] = clock]
      /\ claimed \in BOOLEAN /\ spilt \in BOOLEAN
      /\ UNCHANGED <<clock, posted, claimed, stale, failed, spilt>>
  BY Typed DEF ServiceInv, TypeOK, IngestTypeOK, StoreTxns, RunRecord
<1>1. PICK refused \in SUBSET run[r].reply :
        /\ stored' = stored \cup (run[r].reply \ refused)
        /\ passed' = (passed \ run[r].reply) \cup (refused \ stored)
  BY DEF StoreTxns
<1>2. run' = [run EXCEPT ![r] = Fetched(r)]
  BY Typed DEF StoreTxns, Fetched
<1>3. /\ Fetched(r) \in RunRecord /\ Walks(Fetched(r))
      /\ Fetched(r).stage = "balance" /\ Fetched(r).since = Never
      /\ Fetched(r).resolved = run[r].resolved /\ Fetched(r).token = run[r].token
  BY <1>0, FetchedIsRecord DEF At
<1>4. /\ run' \in [Runs -> RunRecord] /\ run'[r] = Fetched(r)
      /\ \A q \in Runs : q # r => run'[q] = run[q]
  BY <1>2, <1>3, Typed
<1>5. /\ Account(r) \in Accounts /\ Provider(r) \in Providers
      /\ ProviderOf(Account(r)) = Provider(r)
  BY <1>0, InHand DEF At, Walking
\* What stays out of the table and was passed, or in the answer, is passed.
<1>6. \A t \in posted \ stored' : t \in passed \/ t \in run[r].reply => t \in passed'
  BY <1>1
<1>7. TypeOK'
  BY <1>0, <1>1, <1>4, <1>5 DEF ServiceInv, TypeOK, IngestTypeOK, RunRecord, serviceVars
<1>8. WalkInv'
  <2> SUFFICES ASSUME NEW q \in Runs PROVE Walks(run'[q])
    BY DEF WalkInv, Walks
  <2>1. QED  BY <1>3, <1>4 DEF ServiceInv, WalkInv
<1>9. ProcessInv' /\ AccessUrlKept'
  <2>1. GoesOn(r, Fetched(r))
    BY <1>0, <1>3 DEF GoesOn, At
  <2>2. QED  BY <2>1, <1>0, <1>2, <1>3, RunGoesOn DEF At
<1>10. TimeInv'
  BY <1>0, <1>3, <1>4, <1>5, Typed DEF ServiceInv, TimeInv, Never
<1>11. FetchInv'
  <2> SUFFICES ASSUME NEW q \in Runs PROVE Fetches(q)'
    BY DEF FetchInv
  <2>1. CASE q = r
    BY <2>1, <1>3, <1>4 DEF Fetches, Asks, At
  <2>2. CASE q # r
    <3>1. Fetches(q) /\ run'[q] = run[q] /\ \A t \in posted \ stored' : t \in posted \ stored
      BY <2>2, <1>1, <1>4 DEF ServiceInv, FetchInv
    <3>2. Asks(q)'
      <4> SUFFICES ASSUME At(q, "txns") PROVE run[q].since <= mark'[Account(q)]
        BY <3>1 DEF Asks, At, Account
      <4>1. Account(q) \in Accounts /\ run[q].since <= mark[Account(q)]
        BY <3>1, InHand DEF Fetches, Asks, At, Walking
      <4>2. mark'[Account(q)] \in {mark[Account(q)], clock} /\ run[q].since <= clock
        BY <4>1, <1>0 DEF ServiceInv, TimeInv
      <4>3. QED  BY <4>1, <4>2
    <3>3. QED
      BY <3>1, <3>2, <1>0, <1>6 DEF Fetches, At, Account, Provider, Covers
  <2>3. QED  BY <2>1, <2>2
<1>12. FailuresMissNothing'
  <2> SUFFICES ASSUME NEW t \in posted \ stored', mark'[t.acct] # Never,
                      ~Covers(ProviderOf(t.acct), mark'[t.acct], t.at)
               PROVE  t \in passed'
    BY <1>0 DEF FailuresMissNothing, BehindMark, Covers, ProviderOf
  <2>0. t \in posted \ stored
    BY <1>1
  <2>1. CASE t.acct = Account(r)
    <3>1. t \in run[r].reply \/ t \in passed
      BY <2>0, <2>1, <1>0 DEF ServiceInv, FetchInv, Fetches
    <3>2. QED  BY <3>1, <1>6
  <2>2. CASE t.acct # Account(r)
    <3>1. mark'[t.acct] = mark[t.acct]
      <4>1. t.acct \in Accounts
        BY <2>0 DEF ServiceInv, TypeOK, IngestTypeOK, Txns
      <4>2. QED  BY <4>1, <2>2, <1>0
    <3>2. t \in passed
      BY <2>0, <3>1 DEF ServiceInv, FailuresMissNothing, BehindMark
    <3>3. QED  BY <3>2, <1>6
  <2>3. QED  BY <2>1, <2>2
<1>13. StaleMarkHonest'
  BY <1>0, <1>4 DEF ServiceInv, StaleMarkHonest, Refetching, At, Account
<1>14. QED
  BY <1>7, <1>8, <1>9, <1>10, <1>11, <1>12, <1>13 DEF ServiceInv

LEMMA IngestStepKeeps ==
  ASSUME ServiceInv, NEW r \in Runs, IngestStep(r), UNCHANGED serviceVars PROVE ServiceInv'
  BY SpendKeeps, ReadKeeps, SignInKeeps, SignInFailsKeeps, AskTxnsKeeps, AnswerKeeps, TxnsFailKeeps,
     StoreTxnsKeeps, BalanceKeeps DEF IngestStep

-----------------------------------------------------------------------------
\* A step of the service: one run begins, answers or ends.
LEMMA ServiceMoves ==
  ASSUME ServiceInv, NEW r \in Runs, NEW v \in RunRecord, Walks(v), v.since = Never,
         v.stage \notin {"txns", "reply"}, run' = [run EXCEPT ![r] = v], ~At(r, "holdings"),
         UNCHANGED <<clock, posted, claimed, stale, mark, stored, passed, failed>>,
         up' \in BOOLEAN, timer' \in BOOLEAN, config' \in {"token", "url"},
         spilt' \in BOOLEAN, ProcessInv', AccessUrlKept'
  PROVE  ServiceInv'
<1>1. run'[r] = v /\ \A q \in Runs : q # r => run'[q] = run[q]
  BY Typed
<1>2. Fetches(r)'
  BY <1>1 DEF Fetches, Asks, At
<1>3. v.since <= clock /\ passed \subseteq Txns
  BY Typed DEF ServiceInv, TypeOK, IngestTypeOK, Never
<1>4. /\ run' \in [Runs -> RunRecord]
      /\ WalkInv' /\ TimeInv' /\ FetchInv' /\ FailuresMissNothing'
  BY <1>2, <1>3, RunMoves
<1>5. StaleMarkHonest'
  BY <1>1 DEF ServiceInv, StaleMarkHonest, Refetching, At, Account
<1>6. TypeOK'
  BY <1>4 DEF ServiceInv, TypeOK, IngestTypeOK, RunRecord
<1>7. QED  BY <1>4, <1>5, <1>6 DEF ServiceInv

LEMMA TickBegins ==
  ASSUME ServiceInv, StartServer \/ TimerFires PROVE ServiceInv'
<1> DEFINE v == Started("tick", InScope[Secrets], FALSE)
<1>1. /\ v \in RunRecord /\ Walks(v) /\ v.since = Never
      /\ v.stage \in {"auth", "ingested"} /\ ~v.resolved /\ v.token = FALSE
  BY Assumptions, Typed, StartedIsRecord DEF Kinds
<1>2. /\ run' = [run EXCEPT ![Daemon] = v] /\ up' = TRUE /\ timer' = FALSE
      /\ UNCHANGED <<clock, posted, claimed, stale, mark, stored, passed, failed>>
      /\ UNCHANGED <<config, spilt>>
  BY DEF StartServer, TimerFires, ServiceInv, ProcessInv, TypeOK
<1> HIDE DEF v
<1>3. run'[Daemon] = v /\ \A q \in Runs : q # Daemon => run'[q] = run[q]
  BY <1>2, Typed, Assumptions
<1>4. ~At(Daemon, "holdings")
  <2>1. CASE ~up
    BY <2>1, Assumptions DEF ServiceInv, ProcessInv, At, Idle
  <2>2. CASE timer
    BY <2>2 DEF ServiceInv, ProcessInv, At
  <2>3. QED  BY <2>1, <2>2 DEF StartServer, TimerFires
<1>5. ProcessInv'
  BY <1>1, <1>2, <1>3 DEF ProcessInv
<1>6. AccessUrlKept'
  BY <1>2, <1>3 DEF ServiceInv, AccessUrlKept, HasUrl, At, Requests
<1>7. QED
  BY <1>1, <1>2, <1>4, <1>5, <1>6, Assumptions, ServiceMoves DEF ServiceInv, TypeOK, IngestTypeOK

LEMMA RequestBegins ==
  ASSUME ServiceInv, NEW r \in Requests, RequestSync(r) \/ RequestImport(r) PROVE ServiceInv'
<1>1. PICK kind \in Kinds, todo \in Seq(Providers), token \in BOOLEAN :
        run' = [run EXCEPT ![r] = Started(kind, todo, token)]
  <2>1. CASE RequestImport(r)
    BY <2>1, Assumptions DEF RequestImport, Kinds
  <2>2. CASE RequestSync(r)
    <3>1. PICK scope \in {Providers} \cup {{p} : p \in Providers} :
            run' = [run EXCEPT ![r] = Started("sync", InScope[scope], config = "token")]
      BY <2>2 DEF RequestSync
    <3>2. InScope[scope] \in Seq(Providers) /\ (config = "token") \in BOOLEAN
      BY Assumptions
    <3>3. QED  BY <3>1, <3>2 DEF Kinds
  <2>3. QED  BY <2>1, <2>2
<1> DEFINE v == Started(kind, todo, token)
<1>2. v \in RunRecord /\ Walks(v) /\ v.since = Never /\ v.stage \in {"auth", "ingested"}
  BY Typed, StartedIsRecord
<1>3. /\ r \in Runs /\ r # Daemon /\ up /\ At(r, "idle")
      /\ UNCHANGED <<clock, posted, claimed, stale, mark, stored, passed, failed>>
      /\ UNCHANGED <<up, timer, config, spilt>>
  BY DEF RequestSync, RequestImport, Requests
<1> HIDE DEF v
<1>4. run' = [run EXCEPT ![r] = v]
  BY <1>1 DEF v
<1>5. run'[r] = v /\ \A q \in Runs : q # r => run'[q] = run[q]
  BY <1>3, <1>4, Typed
<1>6. ProcessInv'
  BY <1>3, <1>5, Assumptions DEF ServiceInv, ProcessInv, At
<1>7. ~run[r].resolved
  BY <1>3 DEF ServiceInv, WalkInv, Walks, Idle, At
<1>8. AccessUrlKept'
  BY <1>3, <1>5, <1>7 DEF ServiceInv, AccessUrlKept, HasUrl, At, Requests
<1>9. QED
  BY <1>2, <1>3, <1>4, <1>6, <1>8, ServiceMoves DEF ServiceInv, TypeOK, IngestTypeOK, At

\* A run ends: its access URL is saved, spilt, or there is none.
LEMMA RunEnds ==
  ASSUME ServiceInv, NEW r \in Runs, ~At(r, "idle"), ~At(r, "holdings"),
         run' = [run EXCEPT ![r] = Idle], timer' = (timer \/ r = Daemon),
         UNCHANGED <<clock, posted, claimed, stale, mark, stored, passed, failed, up>>,
         config' \in {"token", "url"}, spilt' \in BOOLEAN, config = "url" => config' = "url",
         ~At(r, "spent"), spilt => spilt',
         run[r].resolved /\ r # Daemon => spilt' \/ config' = "url"
  PROVE  ServiceInv'
<1>1. run'[r] = Idle /\ \A q \in Runs : q # r => run'[q] = run[q]
  BY Typed
<1>2. up
  BY DEF ServiceInv, ProcessInv, At, Idle
<1>3. ProcessInv'
  <2>1. Idle.stage = "idle" /\ Idle.token = FALSE
    BY DEF Idle
  <2>2. CASE r = Daemon
    BY <2>1, <2>2, <1>1, <1>2 DEF ProcessInv, At
  <2>3. CASE r # Daemon
    <3>1. run'[Daemon] = run[Daemon] /\ timer' = timer
      BY <2>3, <1>1, Assumptions DEF ServiceInv, TypeOK
    <3>2. QED  BY <3>1, <1>2 DEF ServiceInv, ProcessInv, At
  <2>4. QED  BY <2>2, <2>3
<1>4. AccessUrlKept'
  BY <1>1 DEF ServiceInv, AccessUrlKept, HasUrl, At, Requests, TypeOK
<1>5. Idle.since = Never /\ Idle.stage \notin {"txns", "reply"}
  BY DEF Idle
<1>6. QED
  BY <1>3, <1>4, <1>5, IdleIsRecord, ServiceMoves DEF ServiceInv, TypeOK

LEMMA ServiceEnds ==
  ASSUME ServiceInv, NEW r \in Runs,
         \/ TickFails(r) \/ (TickEnds(r) /\ r = Daemon)
         \/ (r \in Requests /\ (Receive(r) \/ ReceiveFails(r)))
  PROVE  ServiceInv'
<1>0. /\ ~At(r, "idle") /\ ~At(r, "holdings") /\ ~At(r, "spent")
      /\ run' = [run EXCEPT ![r] = Idle]
      /\ UNCHANGED <<clock, posted, claimed, stale, mark, stored, passed, failed, up>>
  BY DEF TickFails, TickEnds, Receive, ReceiveFails, Ticking, Answering, At
<1>1. /\ config \in {"token", "url"} /\ spilt \in BOOLEAN
      /\ run[r].resolved \in BOOLEAN /\ timer \in BOOLEAN
  BY Typed DEF ServiceInv, TypeOK, IngestTypeOK, RunRecord
<1>2. CASE TickFails(r)
  <2>1. /\ timer' = (timer \/ r = Daemon) /\ spilt' = (spilt \/ run[r].resolved)
        /\ UNCHANGED config
    BY <1>2 DEF TickFails
  <2>2. QED  BY <1>0, <1>1, <2>1, RunEnds
<1>3. CASE TickEnds(r) /\ r = Daemon
  <2>1. /\ timer' = (timer \/ r = Daemon) /\ UNCHANGED <<config, spilt>>
    BY <1>1, <1>3 DEF TickEnds
  <2>2. QED  BY <1>0, <1>1, <1>3, <2>1, RunEnds
<1>4. CASE r \in Requests /\ Receive(r)
  <2>1. /\ r # Daemon /\ UNCHANGED <<timer, spilt>>
        /\ config' = IF run[r].resolved THEN "url" ELSE config
    BY <1>4 DEF Receive, Requests
  <2>2. QED  BY <1>0, <1>1, <2>1, RunEnds
<1>5. CASE r \in Requests /\ ReceiveFails(r)
  <2>1. /\ r # Daemon /\ spilt' = (spilt \/ run[r].resolved) /\ UNCHANGED <<timer, config>>
    BY <1>5 DEF ReceiveFails, Requests
  <2>2. QED  BY <1>0, <1>1, <2>1, RunEnds
<1>6. QED  BY <1>2, <1>3, <1>4, <1>5

LEMMA ResponseKeeps ==
  ASSUME ServiceInv, NEW r \in Runs, TickEnds(r), r # Daemon PROVE ServiceInv'
<1> DEFINE response == "response"
           v == [run[r] EXCEPT !.stage = response]
<1>1. run[r] \in RunRecord /\ At(r, "ingested")
  BY Typed DEF ServiceInv, TypeOK, RunRecord, TickEnds, Ticking
<1>2. v \in RunRecord
  <2>1. response \in Stages
    BY DEF Stages
  <2> HIDE DEF response
  <2>2. QED  BY <1>1, <2>1, OneField
<1>3. /\ v.stage = "response" /\ v.since = run[r].since
      /\ v.token = run[r].token /\ v.resolved = run[r].resolved
  BY <1>1 DEF RunRecord
<1>4. /\ run' = [run EXCEPT ![r] = v]
      /\ timer' = (timer \/ r = Daemon)
      /\ UNCHANGED <<clock, posted, claimed, stale, mark, stored, passed, failed, up, config, spilt>>
  BY <1>1, Typed DEF TickEnds
<1> HIDE DEF v
<1>5. run'[r] = v /\ \A q \in Runs : q # r => run'[q] = run[q]
  BY <1>4, Typed
<1>6. Walks(v)
  BY <1>3 DEF Walks, Walking
<1>7. ProcessInv'
  <2>1. up
    BY <1>1 DEF ServiceInv, ProcessInv, At, Idle
  <2>2. QED  BY <2>1, <1>4, <1>5, Assumptions DEF ServiceInv, ProcessInv, At
<1>8. AccessUrlKept'
  BY <1>1, <1>3, <1>4, <1>5 DEF ServiceInv, AccessUrlKept, HasUrl, At, Requests
<1>9. Fetches(r)' /\ passed \subseteq Txns
  BY <1>3, <1>5 DEF Fetches, Asks, At, ServiceInv, TypeOK, IngestTypeOK
<1>10. /\ run' \in [Runs -> RunRecord]
       /\ WalkInv' /\ TimeInv' /\ FetchInv' /\ FailuresMissNothing'
  BY <1>2, <1>3, <1>4, <1>6, <1>9, RunMoves DEF ServiceInv, TimeInv
<1>11. StaleMarkHonest'
  BY <1>1, <1>4, <1>5 DEF ServiceInv, StaleMarkHonest, Refetching, At, Account
<1>12. TypeOK'
  BY <1>4, <1>10 DEF ServiceInv, TypeOK, IngestTypeOK, RunRecord
<1>13. QED  BY <1>7, <1>8, <1>10, <1>11, <1>12 DEF ServiceInv

\* The process ends: what was being fetched is not vouched for any more.
LEMMA ShutdownKeeps == ASSUME ServiceInv, Shutdown PROVE ServiceInv'
<1>1. /\ \A r \in Runs : run'[r] = Idle /\ run'[r].stage = "idle" /\ run'[r].since = Never
      /\ run' \in [Runs -> RunRecord] /\ ~up' /\ ~timer'
      /\ failed' = {a \in failed : ~Refetching(a)} /\ config' = config
      /\ spilt' = (spilt \/ \E r \in Runs : HasUrl(r))
      /\ UNCHANGED <<clock, posted, claimed, stale, mark, stored, passed>>
  BY IdleIsRecord DEF Shutdown, Idle
<1>2. TypeOK'
  <2>1. up' = FALSE /\ timer' = FALSE
    BY DEF Shutdown
  <2>2. spilt' \in BOOLEAN
    BY <1>1
  <2>3. QED  BY <1>1, <2>1, <2>2 DEF ServiceInv, TypeOK, IngestTypeOK, RunRecord
<1>3. WalkInv'
  <2> SUFFICES ASSUME NEW r \in Runs PROVE Walks(run'[r])
    BY DEF WalkInv, Walks
  <2>1. QED  BY <1>1, IdleIsRecord
<1>4. ProcessInv'
  BY <1>1, Assumptions DEF ProcessInv, Idle
<1>5. TimeInv'
  BY <1>1, Typed DEF ServiceInv, TimeInv, Never
<1>6. FetchInv'
  BY <1>1 DEF FetchInv, Fetches, Asks, At
<1>7. FailuresMissNothing'
  BY <1>1 DEF ServiceInv, FailuresMissNothing, BehindMark, Covers, ProviderOf
<1>8. StaleMarkHonest'
  BY <1>1 DEF ServiceInv, StaleMarkHonest
<1>9. AccessUrlKept'
  BY <1>1 DEF ServiceInv, AccessUrlKept, HasUrl, At, Requests
<1>10. QED
  BY <1>2, <1>3, <1>4, <1>5, <1>6, <1>7, <1>8, <1>9 DEF ServiceInv

-----------------------------------------------------------------------------
LEMMA AdvanceKeeps ==
  ASSUME ServiceInv, Advance, UNCHANGED serviceVars PROVE ServiceInv'
<1>1. /\ clock' \in Clock /\ clock <= clock'
      /\ UNCHANGED <<posted, claimed, stale, mark, stored, run, passed, failed, spilt>>
      /\ UNCHANGED <<up, timer, config, spilt>>
  BY Typed, Assumptions DEF Advance, Clock, serviceVars
<1>2. TypeOK'
  BY <1>1 DEF ServiceInv, TypeOK, IngestTypeOK
<1>3. WalkInv' /\ ProcessInv' /\ StaleMarkHonest' /\ AccessUrlKept'
  BY <1>1 DEF ServiceInv, WalkInv, Walks, ProcessInv, At, StaleMarkHonest, Refetching, Account,
              AccessUrlKept, HasUrl
<1>4. TimeInv'
  BY <1>1, Typed, Assumptions DEF ServiceInv, TimeInv, Clock
<1>5. FetchInv' /\ FailuresMissNothing'
  BY <1>1 DEF ServiceInv, FetchInv, Fetches, Asks, FailuresMissNothing, BehindMark, At, Account,
              Provider, Covers, ProviderOf
<1>6. QED  BY <1>2, <1>3, <1>4, <1>5 DEF ServiceInv

\* What is posted behind the watermark, or while an answer is on its way, is
\* passed; anything else every later question covers.
LEMMA PostKeeps ==
  ASSUME ServiceInv, NEW a \in Posting, Post(a), UNCHANGED serviceVars PROVE ServiceInv'
<1>0. PICK at \in 0 .. clock :
        LET t == [acct |-> a, at |-> at]
        IN /\ posted' = posted \cup {t}
           /\ passed' = IF InFetch(a) \/ BehindMark(t) THEN passed \cup {t} ELSE passed
           /\ UNCHANGED <<clock, claimed, stale, mark, stored, run, failed, spilt>>
  BY DEF Post
<1> DEFINE t == [acct |-> a, at |-> at]
<1>1. /\ posted' = posted \cup {t} /\ t \in Txns /\ t.acct = a /\ t.at \in Int
      /\ passed' = (IF InFetch(a) \/ BehindMark(t) THEN passed \cup {t} ELSE passed)
      /\ UNCHANGED <<clock, claimed, stale, mark, stored, run, failed, spilt>>
      /\ UNCHANGED <<up, timer, config>>
  <2>1. at \in Clock
    BY Typed, Assumptions DEF Clock
  <2>2. QED  BY <1>0, <2>1, Assumptions DEF Txns, serviceVars
<1> HIDE DEF t
<1>2. TypeOK'
  BY <1>1 DEF ServiceInv, TypeOK, IngestTypeOK
<1>3. WalkInv' /\ ProcessInv' /\ StaleMarkHonest' /\ AccessUrlKept' /\ TimeInv'
  BY <1>1 DEF ServiceInv, WalkInv, Walks, ProcessInv, At, StaleMarkHonest, Refetching, Account,
              AccessUrlKept, HasUrl, TimeInv
<1>4. FetchInv'
  <2> SUFFICES ASSUME NEW r \in Runs, NEW u \in posted' \ stored
               PROVE  /\ At(r, "txns") /\ Account(r) = u.acct
                           /\ ~Covers(Provider(r), run[r].since, u.at) => u \in passed'
                      /\ At(r, "reply") /\ Account(r) = u.acct /\ u \notin run[r].reply
                           => u \in passed'
    BY <1>1 DEF ServiceInv, FetchInv, Fetches, Asks, At, Account, Provider, Covers
  <2>1. CASE u = t
    <3>1. At(r, "reply") /\ Account(r) = u.acct => InFetch(a)
      BY <1>1, <2>1 DEF InFetch
    <3>2. ASSUME At(r, "txns"), Account(r) = u.acct, ~Covers(Provider(r), run[r].since, u.at)
          PROVE  BehindMark(t)
      <4>1. /\ Account(r) \in Accounts /\ ProviderOf(Account(r)) = Provider(r)
            /\ run[r].since <= mark[Account(r)]
        BY <3>2, InHand DEF ServiceInv, FetchInv, Fetches, Asks, At, Walking
      <4>2. /\ run[r].since \in Int /\ mark[Account(r)] \in Int /\ u.at \in Int
            /\ run[r].since \in Clock \cup {Never} /\ mark[Account(r)] \in Clock \cup {Never}
        BY <1>1, <2>1, <4>1, Typed DEF RunRecord
      <4>3. run[r].since # Never /\ Provider(r) \in SinceHonoured /\ u.at < run[r].since
        BY <3>2, <4>2 DEF Covers
      <4>4. mark[Account(r)] # Never /\ u.at < mark[Account(r)]
        BY <4>1, <4>2, <4>3, Assumptions DEF Never, Clock
      <4>5. QED  BY <2>1, <3>2, <4>1, <4>2, <4>3, <4>4 DEF BehindMark, Covers
    <3>3. QED  BY <1>1, <2>1, <3>1, <3>2
  <2>2. CASE u # t
    BY <1>1, <2>2 DEF ServiceInv, FetchInv, Fetches
  <2>3. QED  BY <2>1, <2>2
<1>5. FailuresMissNothing'
  <2> SUFFICES ASSUME NEW u \in posted' \ stored, BehindMark(u)
               PROVE  u \in passed'
    BY <1>1 DEF FailuresMissNothing, BehindMark, Covers, ProviderOf
  <2>1. CASE u = t
    BY <1>1, <2>1
  <2>2. CASE u # t
    BY <1>1, <2>2 DEF ServiceInv, FailuresMissNothing
  <2>3. QED  BY <2>1, <2>2
<1>6. QED  BY <1>2, <1>3, <1>4, <1>5 DEF ServiceInv

LEMMA ServiceInitial == Init => ServiceInv
<1> SUFFICES ASSUME Init PROVE ServiceInv
  OBVIOUS
<1>1. /\ clock = 0 /\ posted = {} /\ claimed = FALSE /\ stale = {} /\ stored = {} /\ passed = {}
      /\ failed = {} /\ mark = [a \in Accounts |-> Never] /\ run = [r \in Runs |-> Idle]
      /\ up = FALSE /\ timer = FALSE /\ config = "token" /\ spilt = FALSE
  BY DEF Init, IngestInit
<1>2. \A r \in Runs : run[r] = Idle
  BY <1>1
<1>3. Idle.stage = "idle" /\ Idle.since = Never /\ Idle.token = FALSE
  BY DEF Idle
<1>4. run \in [Runs -> RunRecord]
  BY <1>1, IdleIsRecord
<1>5. TypeOK
  <2>1. clock \in Clock
    BY <1>1, Assumptions DEF Clock
  <2>2. mark \in [Accounts -> Clock \cup {Never}]
    BY <1>1
  <2>3. up \in BOOLEAN /\ timer \in BOOLEAN /\ claimed \in BOOLEAN /\ spilt \in BOOLEAN
    BY <1>1
  <2>4. IngestTypeOK
    BY <1>1, <1>4, <2>1, <2>2, <2>3 DEF IngestTypeOK, RunRecord
  <2>5. QED  BY <1>1, <2>3, <2>4 DEF TypeOK
<1>6. WalkInv /\ ProcessInv
  <2>1. WalkInv
    BY <1>2, IdleIsRecord DEF WalkInv
  <2>2. ProcessInv
    BY <1>1, <1>2, <1>3, Assumptions DEF ProcessInv
  <2>3. QED  BY <2>1, <2>2
<1>7. TimeInv
  BY <1>1, <1>2, <1>3 DEF TimeInv, Never
<1>8. FetchInv /\ FailuresMissNothing /\ StaleMarkHonest /\ AccessUrlKept
  BY <1>1, <1>2, <1>3 DEF FetchInv, Fetches, Asks, At, FailuresMissNothing, StaleMarkHonest,
     AccessUrlKept
<1>9. QED  BY <1>5, <1>6, <1>7, <1>8 DEF ServiceInv

LEMMA ServiceStep == ServiceInv /\ [Next]_vars => ServiceInv'
<1> SUFFICES ASSUME ServiceInv, [Next]_vars PROVE ServiceInv'
  OBVIOUS
<1>1. CASE StartServer \/ TimerFires
  BY <1>1, TickBegins
<1>2. CASE Shutdown
  BY <1>2, ShutdownKeeps
<1>3. ASSUME NEW r \in Requests,
             RequestSync(r) \/ RequestImport(r) \/ Receive(r) \/ ReceiveFails(r)
      PROVE  ServiceInv'
  <2>1. r \in Runs
    BY DEF Requests
  <2>2. QED  BY <1>3, <2>1, RequestBegins, ServiceEnds
<1>4. ASSUME NEW r \in Runs, RunStep(r) PROVE ServiceInv'
  BY <1>4, IngestStepKeeps, ServiceEnds, ResponseKeeps DEF RunStep
<1>5. CASE World
  BY <1>5, AdvanceKeeps, PostKeeps DEF World
<1>6. CASE UNCHANGED vars
  BY <1>6 DEF vars, ingestVars, serviceVars, ServiceInv, TypeOK, IngestTypeOK, WalkInv, Walks,
              ProcessInv, TimeInv, FetchInv, Fetches, Asks, FailuresMissNothing, BehindMark,
              StaleMarkHonest, AccessUrlKept, HasUrl, At, Account, Provider, Covers, ProviderOf,
              Refetching
<1>7. QED  BY <1>1, <1>2, <1>3, <1>4, <1>5, <1>6 DEF Next

-----------------------------------------------------------------------------
(* The invariant of the finance service, for any runs, providers, accounts *)
(* and number of posted transactions.                                      *)
THEOREM ServiceTheorem == Spec => []ServiceInv
<1>1. QED  BY ServiceInitial, ServiceStep, PTL DEF Spec

(* Failed fetches, runs at once and restarts miss no transaction: one that *)
(* no later sync asks for was posted while an answer was on the way or     *)
(* with a date behind the watermark, was left out by the provider's answer *)
(* or refused by the table (ingest/registry.ts:85-104).                    *)
THEOREM MissedTheorem == Spec => []FailuresMissNothing
<1>1. ServiceInv => FailuresMissNothing
  BY DEF ServiceInv
<1>2. QED  BY <1>1, ServiceTheorem, PTL

(* An account whose last finished getHoldings failed is marked stale or is *)
(* being fetched (ingest/registry.ts:80).                                  *)
THEOREM StaleTheorem == Spec => []StaleMarkHonest
<1>1. ServiceInv => StaleMarkHonest
  BY DEF ServiceInv
<1>2. QED  BY <1>1, ServiceTheorem, PTL

(* The access URL of a spent token reaches the client's config, or is with *)
(* a request, unless the bridge's answer cannot be read, the tick throws,  *)
(* the response is lost or the server ends (ingest/registry.ts:34).        *)
THEOREM UrlTheorem == Spec => []AccessUrlKept
<1>1. ServiceInv => AccessUrlKept
  BY DEF ServiceInv
<1>2. QED  BY <1>1, ServiceTheorem, PTL
=============================================================================
