----------------------------- MODULE FinanceIngest -----------------------------
(***************************************************************************)
(* runIngest of packages/finance-api/src/ingest/registry.ts over the       *)
(* provider adapters and store/repo.ts: the walk of one run over           *)
(* providers and accounts, one provider call per step, while other runs    *)
(* walk the same tables and the providers go on posting transactions.      *)
(*                                                                         *)
(* A transaction is the account and the time it is dated.  The rows of     *)
(* holdings, lots, balances and prices are data no property looks at; that *)
(* they are written in the code's places is noted at each step.            *)
(***************************************************************************)
EXTENDS Integers, Sequences, FiniteSets

CONSTANTS
  Runs,         \* the calls of runIngest there may be at once
  Providers,
  Keyed,        \* providers that sign in with stored keys; the others exchange a token
  AccountsOf,   \* the accounts each provider lists
  HoldingsFail, \* providers whose getHoldings asks the network or reads a file
  SinceHonoured, \* providers whose getTransactions honours `since`
  MaxClock,     \* bound: the clock counts in the providers' own unit, a day or less
  Posting,      \* bound: the accounts in which transactions are posted
  MaxPosts      \* bound: transactions posted in a behaviour

Accounts == UNION {{AccountsOf[p][i] : i \in DOMAIN AccountsOf[p]} : p \in Providers}

ASSUME IngestAssumption ==
  /\ Keyed \subseteq Providers /\ HoldingsFail \subseteq Providers
  /\ SinceHonoured \subseteq Providers
  /\ AccountsOf \in [Providers -> Seq(Accounts)]
  /\ \A p, q \in Providers : p # q =>  \* the id of an account starts with its provider's
       \A i \in DOMAIN AccountsOf[p], j \in DOMAIN AccountsOf[q] :
         AccountsOf[p][i] # AccountsOf[q][j]
  /\ Posting \subseteq Accounts
  /\ MaxClock \in Nat /\ MaxPosts \in Nat

VARIABLES
  clock,    \* Date.now()
  posted,   \* the transactions the providers know
  claimed,  \* the one-time setup token was exchanged
  stale,    \* the accounts with a stale_at mark
  mark,     \* accounts.last_txn_sync_at
  stored,   \* the transactions table
  run,      \* where each run is
  passed,   \* history: transactions let go by with no failure to show for it
  failed,   \* history: accounts whose last getHoldings failed and was not begun again
  spilt     \* history: an access URL was thrown away

ingestVars == <<clock, posted, claimed, stale, mark, stored, run, passed, failed, spilt>>

Never == -1     \* no watermark yet: `since` is undefined
Clock == 0 .. MaxClock
Txns == [acct : Accounts, at : Clock]

Stages == {"idle", "auth", "spent", "holdings", "txns", "reply", "balance", "ingested", "response"}
Kinds == {"none", "tick", "sync", "import"}
Idle == [stage |-> "idle", kind |-> "none", todo |-> <<>>, accts |-> <<>>,
         since |-> Never, reply |-> {}, token |-> FALSE, resolved |-> FALSE]

IngestTypeOK ==
  /\ clock \in Clock /\ posted \subseteq Txns /\ claimed \in BOOLEAN
  /\ stale \subseteq Accounts /\ failed \subseteq Accounts
  /\ mark \in [Accounts -> Clock \cup {Never}]
  /\ stored \subseteq Txns /\ passed \subseteq Txns /\ spilt \in BOOLEAN
  /\ run \in [Runs -> [stage : Stages, kind : Kinds, todo : Seq(Providers), accts : Seq(Accounts),
                       since : Clock \cup {Never}, reply : SUBSET Txns,
                       resolved : BOOLEAN, token : BOOLEAN]]

IngestInit ==
  /\ clock = 0 /\ posted = {} /\ claimed = FALSE
  /\ stale = {} /\ mark = [a \in Accounts |-> Never]
  /\ stored = {} /\ passed = {} /\ failed = {} /\ spilt = FALSE
  /\ run = [r \in Runs |-> Idle]

-----------------------------------------------------------------------------
At(r, stage) == run[r].stage = stage
Provider(r) == Head(run[r].todo)
Account(r) == Head(run[r].accts)

(* What getTransactions(since) asks for: Coinbase compares the dates,      *)
(* SnapTrade asks from the day of `since` on, SimpleFIN and files answer   *)
(* with everything.                                                        *)
Covers(p, since, at) == since = Never \/ p \notin SinceHonoured \/ at >= since

Answer(p, acct, since) == {t \in posted : t.acct = acct /\ Covers(p, since, t.at)}

(* A run starts with the providers that are in its scope and that it has   *)
(* credentials for.                                                        *)
Started(kind, todo, token) ==
  [Idle EXCEPT !.stage = IF todo = <<>> THEN "ingested" ELSE "auth",
               !.kind = kind, !.todo = todo, !.token = token]

(* The loop over providers goes on.                                        *)
NextProvider(r) ==
  [run[r] EXCEPT !.stage = IF Len(run[r].todo) = 1 THEN "ingested" ELSE "auth",
                 !.todo = Tail(@), !.accts = <<>>,
                 !.since = Never, !.reply = {}]

(* The loop reaches accounts `accts`: upsertAccount writes the row without *)
(* its stale mark, and getHoldings is asked.                               *)
Visit(r, accts) ==
  IF accts = <<>>
  THEN run' = [run EXCEPT ![r] = NextProvider(r)] /\ UNCHANGED stale
  ELSE /\ run' = [run EXCEPT ![r].stage = "holdings", ![r].accts = accts,
                             ![r].since = Never, ![r].reply = {}]
       /\ stale' = stale \ {Head(accts)}

-----------------------------------------------------------------------------
(* SimpleFIN's exchange of the setup token for an access URL: the bridge   *)
(* honours a token once, and answers with the URL.                         *)
MustExchange(r) == Provider(r) \notin Keyed /\ run[r].token /\ ~run[r].resolved

SpendToken(r) ==
  /\ At(r, "auth") /\ MustExchange(r) /\ ~claimed
  /\ claimed' = TRUE
  /\ run' = [run EXCEPT ![r].stage = "spent"]
  /\ UNCHANGED <<clock, posted, stale, mark, stored, passed, failed, spilt>>

ReadUrl(r) ==
  /\ At(r, "spent")
  /\ run' = [run EXCEPT ![r].stage = "auth", ![r].resolved = TRUE]
  /\ UNCHANGED <<clock, posted, claimed, stale, mark, stored, passed, failed, spilt>>

(* The answer does not arrive, cannot be read or is no https URL: the      *)
(* provider fails, and what was answered is gone.                          *)
ReadFails(r) ==
  /\ At(r, "spent")
  /\ run' = [run EXCEPT ![r] = NextProvider(r)]
  /\ spilt' = TRUE
  /\ UNCHANGED <<clock, posted, claimed, stale, mark, stored, passed, failed>>

(* The run has the access URL, or is about to.                             *)
HasUrl(r) == run[r].resolved \/ At(r, "spent")

(* authenticate and listAccounts answer.                                   *)
SignIn(r) ==
  /\ At(r, "auth") /\ ~MustExchange(r)
  /\ Visit(r, AccountsOf[Provider(r)])
  /\ UNCHANGED <<clock, posted, claimed, mark, stored, passed, failed, spilt>>

(* Broken variant: a provider that fails takes the resolved URL with it.   *)
SignInForgets(r) ==
  /\ At(r, "auth")
  /\ run' = [run EXCEPT ![r] = [NextProvider(r) EXCEPT !.resolved = FALSE]]
  /\ UNCHANGED <<clock, posted, claimed, stale, mark, stored, passed, failed, spilt>>

(* One of them throws, a refused token included; the run counts an error and *)
(* turns to the next provider, and keeps a resolved access URL.            *)
SignInFails(r) ==
  /\ At(r, "auth")
  /\ run' = [run EXCEPT ![r] = NextProvider(r)]
  /\ UNCHANGED <<clock, posted, claimed, stale, mark, stored, passed, failed, spilt>>

(* getHoldings answers and the account's holdings and lots are replaced in *)
(* one transaction; the watermark is read and getTransactions asked in the *)
(* same turn of the event loop.                                            *)
ReplaceHoldings(r) ==
  /\ At(r, "holdings")
  /\ failed' = failed \ {Account(r)}
  /\ run' = [run EXCEPT ![r].stage = "txns", ![r].since = mark[Account(r)]]
  /\ UNCHANGED <<clock, posted, claimed, stale, mark, stored, passed, spilt>>

(* Broken variant: a failed getHoldings leaves the mark off.               *)
HoldingsFailUnmarked(r) ==
  /\ At(r, "holdings") /\ Provider(r) \in HoldingsFail
  /\ failed' = failed \cup {Account(r)}
  /\ run' = [run EXCEPT ![r].stage = "txns", ![r].since = mark[Account(r)]]
  /\ UNCHANGED <<clock, posted, claimed, stale, mark, stored, passed, spilt>>

(* getHoldings throws: markStale, and the account's transactions are asked *)
(* for all the same.                                                       *)
MarkStale(r) ==
  /\ At(r, "holdings") /\ Provider(r) \in HoldingsFail
  /\ failed' = failed \cup {Account(r)}
  /\ stale' = stale \cup {Account(r)}
  /\ run' = [run EXCEPT ![r].stage = "txns", ![r].since = mark[Account(r)]]
  /\ UNCHANGED <<clock, posted, claimed, mark, stored, passed, spilt>>

(* The provider looks up the transactions.  The answer may leave some out: *)
(* Coinbase reads 50 pages of fills at most and skips those it cannot      *)
(* parse, a page that is no list counts as the last.                       *)
AnswerTxns(r) ==
  LET asked == Answer(Provider(r), Account(r), run[r].since)
  IN /\ At(r, "txns")
     /\ \E left \in SUBSET asked :
          /\ run' = [run EXCEPT ![r].stage = "reply", ![r].since = Never,
                                ![r].reply = asked \ left]
          /\ passed' = passed \cup (left \ stored)
     /\ UNCHANGED <<clock, posted, claimed, stale, mark, stored, failed, spilt>>

(* Broken variant: the watermark advances although nothing was fetched.    *)
TxnsFailMarked(r) ==
  /\ run[r].stage \in {"txns", "reply"}
  /\ mark' = [mark EXCEPT ![Account(r)] = clock]
  /\ run' = [run EXCEPT ![r].stage = "balance", ![r].since = Never, ![r].reply = {}]
  /\ UNCHANGED <<clock, posted, claimed, stale, stored, passed, failed, spilt>>

(* getTransactions throws, before or after the provider looked.            *)
TxnsFail(r) ==
  /\ run[r].stage \in {"txns", "reply"}
  /\ run' = [run EXCEPT ![r].stage = "balance", ![r].since = Never, ![r].reply = {}]
  /\ UNCHANGED <<clock, posted, claimed, stale, mark, stored, passed, failed, spilt>>

(* The answer is upserted by id, but for the transactions the table        *)
(* refuses, and the watermark is set to now.                               *)
StoreTxns(r) ==
  /\ At(r, "reply")
  /\ \E refused \in SUBSET run[r].reply :
       /\ stored' = stored \cup (run[r].reply \ refused)
       /\ passed' = (passed \ run[r].reply) \cup (refused \ stored)
  /\ mark' = [mark EXCEPT ![Account(r)] = clock]
  /\ run' = [run EXCEPT ![r].stage = "balance", ![r].since = Never, ![r].reply = {}]
  /\ UNCHANGED <<clock, posted, claimed, stale, failed, spilt>>

(* getBalances answers, and the balance is upserted, or throws; the loop   *)
(* goes on with the next account.                                          *)
StoreBalance(r) ==
  /\ At(r, "balance")
  /\ Visit(r, Tail(run[r].accts))
  /\ UNCHANGED <<clock, posted, claimed, mark, stored, passed, failed, spilt>>

IngestStep(r) ==
  \/ SpendToken(r) \/ ReadUrl(r) \/ ReadFails(r) \/ SignIn(r) \/ SignInFails(r)
  \/ ReplaceHoldings(r) \/ MarkStale(r)
  \/ AnswerTxns(r) \/ TxnsFail(r) \/ StoreTxns(r)
  \/ StoreBalance(r)

-----------------------------------------------------------------------------
(* The world: a provider posts a transaction dated now or, settled late,   *)
(* earlier, and time goes by.                                              *)
ProviderOf(a) == CHOOSE p \in Providers : \E i \in DOMAIN AccountsOf[p] : AccountsOf[p][i] = a
BehindMark(t) ==
  mark[t.acct] # Never /\ ~Covers(ProviderOf(t.acct), mark[t.acct], t.at)
InFetch(a) == \E r \in Runs : At(r, "reply") /\ Account(r) = a

Post(a) ==
  \E at \in 0 .. clock :
    LET t == [acct |-> a, at |-> at]
    IN /\ t \notin posted /\ Cardinality(posted) < MaxPosts
       /\ posted' = posted \cup {t}
       /\ passed' = IF InFetch(a) \/ BehindMark(t) THEN passed \cup {t} ELSE passed
       /\ UNCHANGED <<clock, claimed, stale, mark, stored, run, failed, spilt>>

Advance ==
  /\ clock < MaxClock
  /\ clock' = clock + 1
  /\ UNCHANGED <<posted, claimed, stale, mark, stored, run, passed, failed, spilt>>

-----------------------------------------------------------------------------
(* No failure misses a transaction: failed fetches, two runs at once and   *)
(* restarts included, the next sync asks for whatever they did not store.  *)
(* What no later sync asks for went by without a failure, in one of four   *)
(* ways: it was posted while an answer was on the way, the watermark being *)
(* taken after the fetch (registry.ts:100); it was posted with a date      *)
(* behind the watermark; the provider's answer left it out (coinbase.ts:   *)
(* 119, 128, 132); or the table refused its row (registry.ts:96).          *)
FailuresMissNothing ==
  \A t \in posted \ stored : BehindMark(t) => t \in passed

(* The accounts a run has taken the stale mark off and is fetching.        *)
Refetching(a) == \E r \in Runs : At(r, "holdings") /\ Account(r) = a
=============================================================================
