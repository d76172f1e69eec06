# Formal models of pi-stef

TLA+ modules for the parts of this monorepo whose behaviour depends on order, on
several actors, on failures, or on an algorithm with several interacting limits.
TLC checks every module on small instances; what matters most about most of them is also
proved with TLAPS for every value of their constants.

Contents: [inventory](#1-inventory), [modules](#2-modules),
[runs](#3-what-the-runs-check), [bounds](#4-bounds), [fairness](#5-fairness),
[proofs](#6-what-is-proved), [findings](#7-findings),
[not modelled](#8-what-is-not-modelled), [plan](#9-plan).

## 1. Inventory

pi-stef is a pnpm workspace of extensions for the `pi` coding agent and of the
services they talk to. Sizes are lines of implementation code.

| package | lines | state it keeps | operations | what is hard |
|---|---|---|---|---|
| `catalog` | 6,000 | `cat.yaml`, `catalog.lock.json`, `removed.json` (tombstones), `.gist` (cached id) per machine; gists at GitHub; what `pi` has installed | `ct` init, add, remove, enable, disable, toggle, update, reset, sync, pull, push; read-only status, diff, verify | machines interleave around awaits; shell calls fail one by one; death between two writes; a gist is overwritten without a version check |
| `qwen-proxy` | 6,100 | slot ledger and queue of `ProxyPool`; locals of a retry walk; semaphore and throttle; cooldown of the account; token cache, pending map and spawn chain of `BaxiaTokenManager`; upstream of `ProxyBridge` | `acquire`, `release`, `rotate`; `withPoolRetry(Stream)`; `ensureToken`, `evictToken`, `doRefresh`; the adapters' rewriting of requests and answers | continuations that resume after someone else; an exit path that must give the slot back; several budgets in one loop; one bridge for every proxy; tags cut by chunk boundaries |
| `agent-workflows` | 2,200 | a lock directory with metadata per plan, a checkpoint file, a plan index, a verification cache | take, release and sweep the lock; queued and synchronous checkpoint writes; resolution of slugs; verification policies | several processes, crash residue judged by age and pid, rename and mkdir as the only atomic steps, fingerprints taken before a command runs |
| `flow` | 3,900 | `.flow-state.json`, a plan tracker, git worktrees | validation and generation of a script; load-merge-write of phases; audit rounds | resumed runs and two sessions of one slug; findings renumbered every round; validation and generation that must agree, on the constants a script declares too |
| `finance-api` | 2,900 | SQLite: accounts, transactions, watermarks, stale marks, suggestions | a daemon's tick, `POST /v1/sync`, `POST /v1/import`, ingest of each source | ticks that overlap; a watermark that moves past what was stored or is posted late; a one-time token |
| `finance` | 600 | the provider credentials in `config.json` | HTTP tools over finance-api | the access URL that comes back once |
| `web` | 2,500 | a browser profile | fetch and search with fallbacks, login and flow in a browser | aborts at any point of a launch; one profile for every call |
| `figma` | 2,800 | a disk cache | file, nodes, overview, screen context | the file is edited meanwhile; evictions side by side; limits that interact down a tree |
| `atlassian` | 3,400 | none | a bounded walk over Jira and Confluence | what a limit keeps and what it drops |
| `scripts/release.mjs` | 500 | commits, tags, changelogs | bump, commit, tag, push, roll back | failure or interruption between any two git calls, those of the rollback too |
| `azure-foundry`, `paths` | 600 | configuration files | seed, validate | — |

How they interact. The extensions share only `paths` and files. `agent-workflows` is a
library for extensions that run workflows (no package of this tree imports it now). `finance`
calls `finance-api` over HTTP and keeps the credentials the server hands back.
Inside `catalog`, the commands call the pure `reconcile()` and then
`executeActions()`, which runs `pi` as a child process, and `sync/pull.ts` and
`sync/push.ts` talk to GitHub. Inside `qwen-proxy`, a request is rewritten by an adapter
(`ChatRequest`), goes through the throttle (`Pacing`) and the retry walk of
`pool/retry.ts`, which takes slots from `pool/proxy-pool.ts` and calls
`upstream/guest-client.ts` under a semaphore (`PoolRetry`), which asks
`upstream/baxia-token.ts` for a token (`BaxiaToken`); a mint starts Chromium behind
`upstream/proxy-bridge.ts`; the answer comes back through two text filters and an
adapter (`ChatStream`). Inside `agent-workflows`, `runWorkflow()` takes the lock, opens
`workflow.json`, hands the body a checkpoint runtime, and settles the status and
releases the lock when the body ends. Inside `flow`, a YAML file is validated and a
script is generated from it (`FlowScript`); its phases keep their results in the state
file (`FlowRun`) and its group loops judge and repair (`AuditRounds`).

What makes each correct:

- *catalog*: a package a user added is not lost by a sync; a removed one does not
  come back; after a clean sync what is installed is what the catalog says; machines
  that keep syncing agree.
- *proxy slots*: a proxy serves one request; no slot leaks; nobody sleeps while a
  proxy is free; rotation cannot deadlock; the pool holds the proxies that were asked for.
- *retry walks*: a bounded number of upstream calls; a slot and a permit exactly while
  they are needed; every request is answered.
- *tokens*: a token is used through the egress it was minted through; one Chromium at
  a time; one mint per key; a burned token is gone.
- *requests and answers*: no text and no result is lost on the way up; what the model wrote
  reaches the client once, in well-formed events, however it is cut.
- *plan lock*: one run in a plan folder; a crashed owner is replaced; a run that ends
  gives the lock back.
- *workflow run*: `workflow.json` says "running" while a run is.
- *checkpoint*: no completed step is lost; an output is reused only for the input it came from.
- *resume and verification*: a slug names one plan; a check is skipped only if it has
  passed on these files.
- *flow*: success is reported for work done for this input; a validated flow can run; no
  finding is lost.
- *finance*: no failure makes a later sync miss a transaction; a stale account is marked; the access
  URL is lost in named ways only; the daemon goes on.
- *web, figma, atlassian*: browsers are closed; answers are current and within their limits.
- *release*: no half of a release is left.

`PROJECT.json` lists every component, and every hazard at its line.

## 2. Modules

| module | models | how |
|---|---|---|
| `CatalogPlan` | `catalog/reconcile.ts`, `config/`, `commands/sync.ts` (pure parts) | operators: `Merge`, `Reconcile`, `FirstActions`, `LockAfter`, `SyncedLock` |
| `CatalogSync` | the `ct` commands of several machines | `catalog`, `lock`, `tomb`, `installed`, `cached` per machine are its files; `gist` is GitHub; `op` is the command it runs: its plan, the calls left, whether one failed, whether it will upload |
| `SlotLedger` | what a proxy pool promises | requests wait or hold; a free proxy is handed out while someone waits |
| `ProxyPool` | `pool/proxy-pool.ts`, `rotateWithSlot` | `head`, `busy`, `slotWaiters` are the fields of the class; `woken` holds the acquirers whose promise is resolved but which have not run yet; `slot` is the caller's `slotKey` |
| `ProxyList` | `createProxyPool`, `parseSocksUrl` | the keys of a pool, from the configured URLs or one answer of the NordVPN API, and what the bridge reads in a key |
| `PoolRetry` | `pool/retry.ts`, `pool/single.ts`, the semaphore of the guest client | extends `ProxyPool`; `rq[r]` holds the locals of one call of `withPoolRetry`/`withPoolRetryStream`, `pc` the await it sits in; `disabled` is the cooldown |
| `Pacing` | `pool/throttle.ts` | requests that hold slots sleep side by side until the gap is over |
| `BaxiaToken` | `upstream/baxia-token.ts`, `proxy-bridge.ts` | `cache`, `pending`, `chain` are `proxyCache`, `pendingByProxy`, `spawnChain`; `upstream` is the bridge's; `phase` is how far a mint has got; a token records the egresses its page was loaded through |
| `ChatRequest` | the adapters' routes up to the guest client | a message is a sequence of marks (the text of message *i*, its calls, its result, the list of tools); one step per stage of the route |
| `StreamFilters`, `ChatStream` | `tool-stream.ts`, `details-strip.ts`, `tool-parse.ts`; the adapters' way back | texts are sequences of symbols with short tags; a step is one upstream chunk, the end, a stall or a retry: of a stream before its first visible chunk, of an answer in one piece at any time |
| `PlanLock` | `agent-workflows/lock/plan-lock.ts` | `lock` is the directory with its metadata file; `pc[p]` the file-system call process `p` makes next; `saw`, `missing`, `attempt` are locals of `acquireLock`; a pid that is reused is the next life of `p` |
| `RunWorkflow` | `agent-workflows/orchestrator/run-workflow.ts` | extends `PlanLock`; `wf` is `workflow.json`, `copy[p]` what a run has read of it, `runtime[p]` whether the variable `runtime` is set |
| `Checkpoint` | `state/checkpoint-runtime.ts`, `checkpoint-store.ts`, `artifacts/atomic-write.ts` | `store` is `checkpoints.json`, `queue` the promise chain of `mutate`, `phase`/`next` the update under way, `stolen` what became of its `.tmp` file |
| `PlanIndex` | `resume/plan-index.ts`, `resolve` | processes read `plan-index.json` and rename changed copies into place; `garbled` says that the file cannot be read as an index, which passes for an empty one |
| `VerificationGate` | `verification/runner.ts` and its caches | each tool's command, attempt and fingerprint; the shared cache file; edits of the checkout at any time |
| `FlowScript` | `flow/yaml/validate.ts`, `generate.ts` | validation as a predicate over a file's phases, groups and loops; the script as a run over its phases, the names it publishes and the constants it declares; `strict` says whether a JavaScript engine reads it first, or an orchestrator just follows its steps |
| `FlowRun` | `flow/workflow/state.ts`, the checkpoint tools, `flow_auto` | the state file, one session per process, load and rename as two steps, deaths |
| `AuditRounds` | `flow/audit/*.ts`, the group loops of `generate.ts` | the canonical list of findings, one round per step |
| `FinanceIngest` | `finance-api/ingest/registry.ts`, the adapters, `store/repo.ts` | `run[r]` is one `runIngest`: the stage says which provider call it awaits (the exchange of a token is two: spent, then read); `mark` the watermarks, `stale` the marks, `stored` the transactions table. Transactions may be dated earlier than they are posted, and an answer may leave some out |
| `FinanceService` | the daemon, tick, `POST /v1/sync`, `/v1/import`, start and stop; the client's `sf_fin_sync_now` | extends `FinanceIngest` |
| `WebAccess` | `web/browser/cloak.ts`, fetch, search, flow and login tools | each call's plan of providers, its browser context, and an abort at any time, which only begins to close the context; a flow may be refused for its steps once its page is open, and a close may reject |
| `DesignTree` | `figma/context/*.ts` | the walks over a node tree, as recursive functions of a node and its depth |
| `DesignCache` | `figma/client/FigmaClient.ts`, `FigmaCache` | calls that ask the version, look up, fetch, write and evict side by side; an eviction is a listing, the stats and the removals |
| `StoryWalk` | `atlassian/context/AtlassianContextWalker.ts` | the queue of the walk; what an issue answers is chosen when it is asked |
| `Release` | `scripts/release.mjs` | a commit is its history; tags here and at origin; one git call per step, each of which may fail, those of `rollback()` unseen, and an interruption anywhere; `pushesBranch` is what `git push origin` does in this clone |
| `Listing` | what `sort()` and `filter()` leave of a list of places | the sequence that a set of places and an order on it determine; used by `AuditRounds`, `ProxyList`, `ChatRequest` and `DesignTree` |
| `MC*` | | the constants of the instances. `MCTools` composes the fourteen modules that share nothing: `part`, chosen in the initial state, names the one that moves, and the variables of the others rest |
| `*_proofs` | | theorems about `PoolRetry` (with `ProxyPool`), `CatalogSync`, `RunWorkflow` (with `PlanLock`), `Checkpoint`, `FinanceService` (with `FinanceIngest`); `Qwen_proofs` about `BaxiaToken` and `ChatStream` (with `StreamFilters`); `Tools_proofs` about `AuditRounds`, `FlowScript`, `ProxyList`, `ChatRequest` and `DesignTree` (with `Listing`), `Sessions_proofs` about `VerificationGate`, `FlowRun`, `WebAccess`, `StoryWalk`, `PlanIndex`, `Pacing`, `DesignCache` and `Release` |

Grain of atomicity. JavaScript runs to the next await, so an action of the qwen-proxy
modules is one such stretch, with every call made in it: `Rotate` is `rotate()`,
`release()` and the first part of `acquire()` together, because no await separates
them. A `ct` command is cut where it awaits a child process or GitHub; `SyncPulled` is
everything `syncCommand` does between the pull's answer and the first `pi` call. What `pull`
reads locally is read before the request goes out, but one machine runs one command at a
time, so only the gist can change meanwhile, and it is read at the answer. In the
`agent-workflows`, `flow` and `figma` modules an action is one file-system call, since other
processes see the files between any two: the exclusive creation of `metadata.json` and the
end of its write are two steps, and so are the two halves of `rm -r`. Code between two such
calls that nobody else can see belongs to the first or the second of them: a run's body ends
in the step that reads `workflow.json` again, and `finally` belongs to the write before it.
In `FinanceIngest` a step goes from one provider call to the next, with the synchronous
SQLite statements between them, and in `Release` it is one git call.

History variables (`robbed`, `orphaned`, `peace`, `abandoned`, `clash`, `lacking`, `remembered`,
`passed`, `disturbed`, `crossed`, `refused`, `done`, `failed`, `spilt`, `dispatched`,
`raised`, `settled`, `tried`, `left`, `openings`, `paid`, `atStart`, `swallowed`, the fields
`attempts` and the walked proxies of a request) record what a property is about; no guard of the
program reads them.

Data that is abstracted. A source string is its installed-map key and its version pin;
a catalog entry is its source and its enabled flag; a lock entry is a version; a
completion is one of the outcomes the walk tells apart (content, empty, auth error,
rotation trigger, mint failure, other error). A missing `cat.yaml` and an empty one
read the same (`readCatalog`), and only `ct reset` tells them apart: it is left enabled
on an empty catalog, where it removes nothing but the lock, the tombstones and `.gist`.
`pi` calls of a plan run in the order of `executeActions` (uninstalls, installs,
upgrades) and in any order within a group. A transaction is its account and its date; a
finding is a severity, a place and a name; an issue is what it refers to, and where; a
checkout is three parts that may hold one of two contents, all of which the fingerprint sees: git
answers, and in less than 25 MB (`fingerprint.ts:76,88` drop what it does not answer). Packages
come from npm; that `reconcile.ts:175-194` also upgrades unpinned git and local sources
whose string differs is left out. Figma gives every file a version (`FigmaClient.ts:196` falls back
on 'unknown'). Two proxy URLs are one when they dial the same upstream with the same credentials as
`encodeURIComponent` spells them; the code keeps spellings such as `a+b` and `a%2Bb` apart.

## 3. What the runs check

| run | instance | shows |
|---|---|---|
| `catalog_sync` | 2 machines, 1 package with a plain and a pinned source, 2 versions, 2 gists, 3 edits, 2 faults | `AdditionsStick`: no sync, crash or foreign upload takes away what a user added; `CleanSyncReconciles`: a plan that ran without error leaves what the catalog asks for; `UploadHonoursRemoval`: what a tombstone dropped is in no upload of that sync |
| `catalog_converges` | 2 machines, 2 packages, one the companion of the other, 1 version, 2 edits, 1 fault | `SyncConverges`: with no more edits, repeated syncs end with one catalog on every machine and in the gist, unless two gists exist |
| `catalog_readd` | as `catalog_sync`, 1 fault | `LocalOnlyPreserved` is violated, see 7 |
| `proxy_pool` | 4 requests, 2 proxies | `Serialized`, `NoLostWakeup`, and `ImplementsLedger`: the pool refines `SlotLedger`, its liveness included |
| `pool_rotation` | 3 requests of both kinds, 2 proxies, 1 permit | `SlotPerRequest`: whatever way a request leaves, it holds a slot exactly while it should; `AttemptsBounded`: the budgets over every mix of failures, and the permits |
| `pool_legacy` | 3 requests of both kinds, 1 proxy or none, 1 permit, 1 inline retry | `EveryRequestEnds` |
| `baxia_token` | 3 callers, 2 proxies and the direct key, 2 mints | `TokenAffine`, `SingleFlight`, `BurnedStaysOut`, `AnsweredUnlessMintHangs` |
| `run_workflow` | 2 processes, 1 death, 3 attempts, 2 polls | `ExclusiveUnlessRobbed`: what is left of mutual exclusion and what it rests on; `LockGivenBack`, `StatusTold`; `DeadLockReplaced`: neither a dead owner nor crash residue blocks a folder |
| `plan_lock_takeover` | the same, 4 polls: residue is never judged by polling | `MutualExclusion` is violated, see 7 |
| `checkpoint` | 2 text steps, 1 void step, 2 inputs, any number of deaths and failing writes | `ReturnedIsRecorded`, `CompletedHasArtifact`, `EveryCallEnds` |
| `finance` | the daemon and 1 request, SnapTrade and SimpleFIN, 1 posted transaction, 3 instants | `FailuresMissNothing`: what no later sync asks for went by without a failure, in one of four ways; `StaleMarkHonest`; `AccessUrlKept`: the URL of a spent token is saved or on its way, but for four named losses; `DaemonKeepsTicking` |
| `tools` | fourteen modules, one at a time | the table below |

`tools` explores the modules that share nothing, each from its own initial states:

| module | property | says |
|---|---|---|
| `ChatStream` | `StreamFaithful` | however an answer is cut into chunks or retried, the client gets what the model wrote for it, once, streamed or in one piece; an Anthropic stream that reasons after content may lose the end that was held back |
| | `BlocksWellFormed` | Anthropic events open, fill and close blocks in order, also when the upstream stalls, fails or is retried, as long as no reasoning comes with or after content |
| `ChatRequest` | `PromptWhole` | whatever was folded, moved and rewritten, every text and result is in the one message sent up, once, and the assistant's calls where tools are injected; elsewhere they are dropped |
| `Pacing` | `SlotsPaced` | of any `Size` + 1 dispatches in a row the first and the last are a gap apart |
| `ProxyList` | `PoolAsConfigured` | the pool holds the upstreams that were written, or the least loaded allowed servers |
| `PlanIndex` | `SlugNamesOnePlan` | a slug names a live plan, and the only one of the roots remembered; a root is forgotten only when an upsert writes a copy that lacks it |
| `VerificationGate` | `SkippedHavingPassed` | a command is skipped only if it passed on the files there are now, unless they changed while one ran |
| `FlowScript` | `ValidFlowRuns` | a validated flow runs to its end, but for names validation takes on trust, and as JavaScript for required names and a contract's constants declared twice |
| `FlowRun` | `SuccessIsEarned` | "success" means that every phase was completed for this input, resumes and deaths included |
| `AuditRounds` | `FindingsCarried` | no finding that is neither fixed nor replaced leaves the canonical list |
| `StoryWalk` | `WalkIsNearestFirst` | the walk is complete within its limits and never prefers a farther issue |
| `DesignTree` | `ContextFaithful` | contexts and overviews show exactly the nodes and texts the options let through; of a hidden root a context shows what is below it, an overview counts none |
| `DesignCache` | `AnswerIsCurrent` | no answer is older than the call, and the cache outgrows its limit only by what was opened since an eviction last went through |
| `WebAccess` | `ContextsGivenBack` | an answered call has closed what it opened, or begun to, unless `newPage` or the close rejected or a step of its flow went to no http URL; providers come in order, all of them before "nothing found" |
| `Release` | `ReleaseSound` | every pushed tag names a commit with its version, on the pushed branch where the push pushes it; a rollback restores what its own git calls did not fail to |

The exact statements, with the conditions each rests on, are in the comments above the
definitions. Where a property has a condition, the condition is a fact about the code: the
history variable in it records the one circumstance in which the code does not keep the
promise (a resumed session of another input, an upsert that writes a copy lacking a root, a context left open
outside the `try`, a git call of the rollback that was swallowed). The code path to it is in the model.

Each property has a mutant in `PROJECT.json`: a definition of the model replaced by
the operator that precedes it under "Broken variant", which is a bug the code could
plausibly have (the merge forgets local-only entries, a `finally` skips the release,
`release()` resolves without `shift()`, a watermark taken on failure, a cache key without
the version, ...). TLC finds the property violated by it.

## 4. Bounds

- `MaxEdits` of the catalog counts commands other than a plain sync; plain syncs are free. Three
  edits are add–remove–add or one edit on each machine and a conflicting third; every property
  here speaks of one package and at most two machines.
- `MaxFaults` counts failed calls, unanswered uploads and crashes. Each falls at every
  point of every command; `catalog_sync` has two in one behaviour, `catalog_converges` one.
- `Gists`: two ids, so that duplicates can exist. `Versions`: two, so that a pin and the
  registry may disagree. `catalog_converges` uses one version: versions drift in the lock
  only, and the convergence it states is of catalogs.
- `proxy_pool`: four requests on two proxies give two holders with two waiters, of which one
  is woken and one queued, and a newcomer can overtake; the proofs cover all sizes.
- `pool_rotation`: with two proxies every branch of the walk is reached (`tried < Size`
  and not, both mint strikes). `MaxConcurrency` 1 is the default of the program and makes
  requests with a slot wait for the permit. `attempts` needs no bound: the budgets
  bound it, which is what `AttemptsBounded` says.
- `MaxMints`: two tokens, one burned or expired and one that replaces it. When they are
  used up mints only fail, which the code allows at any time.
- `MaxAttempts` and `ResidueThreshold` of the lock are 3 and 2 where the code has 16 and 4:
  a call still polls, judges, takes over and tries again within one budget, and can run out of
  it. `MaxDeaths` is 1: the dead process's pid is reused, so that two processes still meet a dead
  owner; two deaths make ten times the states and showed nothing else. `Remote` is empty: the
  lock of another host is always judged stale, so with a shared folder none of these
  properties holds.
- `Checkpoint` needs no bound: a step has one call in flight, deaths and failures are unlimited.
- `finance`: three instants tell "before the fetch" from "during" and "after", and let a transaction
  settle late, dated behind a watermark; one posted transaction is missed or not by itself; the daemon and one request are two runs at once, and more runs
  only interleave the same calls. SnapTrade asks from a date on and SimpleFIN has the
  one-time token; Coinbase and file imports are in the module and the proof. The proof
  covers any clock, runs and accounts.
- `tools`, in the order of the table. Answers of up to four symbols, five where tool tags are looked
  for: a tag is two symbols, so there is text before, inside and after one, cut everywhere;
  `MaxThoughts` 1, `MaxHeld` 2 upstream chunks before the first visible one. Conversations of up to
  three turns of every role, four with tools, with the lists of tools that make a difference; `SessionTries` 3 is the
  code's. `MaxClock` 8 and gaps of 2 and 3 fit three dispatches through two slots twice over. Up to
  three servers and three written URLs of every form. Two processes and two roots: an upsert that
  overlaps, one off a garbled file, a root that is removed and found again. Two tools, `MaxAttempts` 2, one edit at any
  moment. Flows of up to three phases: one that publishes, one that needs, one between them
  or a loop around them; two names, so that a phase declares what another did. `MaxRounds` 3 (the first round has nothing
  to carry, the second carries, the third carries what was carried), `MaxNew` 2, two places. Four
  issues under a limit of three, each mentioning one key anywhere, two in links, or one twice; `MaxDepth` 1, one
  Confluence page, two Figma links one at a time: something is left out at each limit. Design trees of
  four nodes of every kind and nesting, the root hidden or not. A plan that prepares a worktree, works in a group and finalizes,
  two sessions, `MaxStarts` 3: a run that dies, one that resumes it and one with another input. Two clients,
  two queries, two versions, one retry, one entry kept: every write evicts. Two calls and two
  steps, providers by API and by browser, one named twice. Two packages, of which one has a changelog, one
  release each and one foreign commit, a push that pushes the branch or does not.

Symmetry: machines and gist ids are interchangeable in `CatalogSync`, `Requests` in
`PoolRetry`, so the safety runs use it; the runs with liveness do not. In `tools` sessions that are off, idle
clients, inputs and queries are interchangeable too: `FirstStart` and `FirstCall` of `MCTools` fix which of them
comes first. A behaviour of `FlowRun` ends where two inputs have crossed, for nothing is promised after that.
`CHECK_DEADLOCK FALSE` stands where a system really comes to rest: processes that are all dead, a
workflow that is over, a server that was shut down, a part of `tools` that has answered.

## 5. Fairness

- `ProxyPool`: weak fairness of `Resume`: the microtask of a resolved promise runs.
- `PoolRetry`: weak fairness of each request's step: upstream calls have a first-byte
  timeout and a stall guard, sleeps are timers. One exception is assumed away: a token mint
  may hang, since `cdp.send()` has no timeout (`baxia-token.ts:322`).
- `BaxiaToken` therefore assumes fairness only of handing on the spawn lock, and its
  liveness property carries the condition that mints end.
- `CatalogSync`: a started command goes on (its child processes and requests return), and
  users keep running a plain `ct sync`: strong fairness, as a command may always be in
  progress when one looks. The first comes from the event loop, the second is an
  assumption on users, without which nothing propagates.
- `RunWorkflow`: weak fairness of each process: file-system calls return, bodies end, and a process
  that lives keeps being asked for runs. A dead process is excused.
- `Checkpoint`: weak fairness of the update under way and of each step: writes and producers end.
- `FinanceService`: weak fairness of the daemon's timer and of the daemon's own run: a
  provider's answer comes or fails. Requests are not assumed fair.
- The modules of `tools` state no liveness, and the run has none.

## 6. What is proved

Each `*_proofs` module proves `Spec => []Inv` from an inductive invariant, one lemma or step per
action, for every value of the constants that satisfies the named assumption. An assumption declared in a module is evaluated
by TLC on the instances; four theorems name theirs in their statement instead, where the model as such
does not need it (`CacheAssumption`, `FlowAssumption` and `PlanFinalizes`, `WebAssumption`, `OneName`).

**`PoolRetry_proofs`**, first the pool alone (`PoolAssumption`: finitely many requests, at least one
proxy). `PoolInvariant`, and from it `PoolTypes`, `ProxiesSerialized`, `WakeupsSuffice`, `QueueStaysSound`;
`PoolImplementsLedger`: `PoolSpec => Ledger!Safety`, the refinement without the fairness.
None of the four conjuncts but the types is inductive alone. `NoLostWakeup` counts free
proxies against woken acquirers: releasing adds one to each side only if the acquirer resolved
was not resolved before, which is `QueueSound`; a woken acquirer that finds a proxy takes one off
each side, and one that finds none can only do so when no proxy is free. `Serialized` for
`Rotate` needs the ledger to mark exactly the held proxies.

Then the walks. `WalksUsePool`: the walks of all requests together are a behaviour of
`ProxyPool`, each action one of the pool's operations or none of them; by it everything proved
about the pool holds under the walks, and `WalksImplementLedger` follows. `RetryInvariant`, and from it
`RetryTypes`, `SlotHeldThroughout` (`SlotPerRequest`) and `CallsWithinBudgets` (`AttemptsBounded`). The last
is not inductive: a budget is charged when a call has failed and the call is counted when it goes
out, so `Budgets` says for each place in the walk how far the calls are ahead of what has been charged, and
`SemaphoreSound` that the queue of the semaphore is the requests that wait and that no permit is
idle meanwhile. The step of one request moves another one by handing it a permit; `HandedOn` is
all that it may do.

**`CatalogSync_proofs`** (`SourcesAssumption`, `CommandAssumption`, and `NoneAssumption`: an absent entry is
no entry). `CatalogTypes`, `AdditionsStickTheorem`, `UploadTheorem` and `CleanTheorem`, over any number of machines,
edits, failed calls and deaths. Each action is shown to be `Good`: it changes one machine and no more
than one gist, keeps `CatalogInv`, and does to that machine what the three action properties allow. `AdditionsStick` rests on
`MergeIs` (a merge keeps the names of both catalogs but the tombstones'). `UploadHonoursRemoval` needs
`SyncSound`: between the merge and the upload nothing a running sync does brings back what it
dropped, because its calls read no manifest (`Planned`) and so add no companion. `CleanSyncReconciles` needs
three things more: an entry is right or the call that makes it so is left (`OnTrack`); what is
installed under a key is of a source with that key, in the version of its pin (`PinsKept`), since `reconcile()` plans
no upgrade for a package whose source is the catalog's; and `OneName`, which the theorem states: two entries for one
source key, one on and one off, cannot both be met. `ct add <source>` names an entry by that key; only the
deprecated form `ct add <name> <source>` (`add.ts:171`) can break it.

**`Qwen_proofs`** (the assumption on callers, proxies and the direct key; `TagsAssumption`, `PiecesAssumption`).
`TokensTheorem`, and from it `AffineTheorem`, `FlightTheorem`, `BurnedTheorem` (an action property). A cached token
is right because the page of the running mint saw its own egress only, and that is so because
one mint runs at a time and sets the bridge before Chromium starts: `TokensInv` adds to the
types that only keys in use are in flight, with a page that saw no other egress (`FlightInv`), and that every token
cached or held was minted for its key, and no burned one is cached (`TokenInv`).

`StreamTheorem` and `BlocksTheorem` are about answers of any length, cut anywhere. A filter reads symbol by symbol
and holds back what may still become a tag. `StripperFollows` and `DetectorFollows` say that its state
after a chunk is a function of the whole text read: what can no longer begin a tag has been passed on,
the rest is held, and where the chunk ended is forgotten. The proof counts places: the first place
of a tag in a text that grew is the one it had, or lies in what was held with what came. From these, `ChunkFollows`
and `DeliverFollows` say what the adapters have told their clients once a chunk, a flush or the whole answer is in. The
inductive invariant `ChatInv` says so of the state (`OpenAs`): while the answer is open, what was told is what the text
so far gives, and the open block, if there is one, is the last told (`Standing`); a retry starts from nothing,
since nothing visible was told before it (`Untold`), in one piece nothing at all. What the theorem excepts is in the
statement: reasoning after content, for which the Anthropic adapter leaves its text block and drops the tail. The answer in one piece runs the same filters over a text from which the
closed details were stripped first, so the two agree where a tool block inside details does not come into it: that is
`Tidy` in `StreamFaithful`. The proof showed that an earlier form of `Tidy` was too weak: from eight symbols on, an
answer with a tool block opened inside details and closed behind them told the two clients different things. The condition
now says that the first opening tag is the one that is left (`tools => open = IndexOf(text, ToolOpen)`).

**`RunWorkflow_proofs`** (`WorkflowAssumption`, `LockAssumption`). `FolderTheorem`, and from it
`GivenBackTheorem`, `ExclusiveTheorem` and `StatusTheorem`; `ExclusiveTheorem` assumes one host
(`Remote = {}`), which the theorem states. The invariant says which step a process may be at with
which directory (`ShapeInv`), that whoever is inside owns the directory or has been robbed
(`Owned`), and that before any death the directory's metadata is its owner's (`PeaceInv`).
`StatusInv` is inductive relative to these.

**`Checkpoint_proofs`**. `CheckpointTheorem`, and from it `CompletedTheorem` and `ReturnedTheorem`.
A record can be lost only between the load and the rename of an update: the invariant ties
the copy in hand to the store (`NextInv`), a call to its record (`StartedInv`), the queue to the
calls that wait (`QueueInv`), and every way the store can be spoilt to a clash (`SpoiltInv`).

**`Tools_proofs`** (`FindingsAssumption`, `FlowsAssumption`, `ServersAssumption`, `CountsAssumption`, `AskedAssumption`,
`DesignAssumption`). A list that the code sorts or filters is stated by the set of its places
and an order on it (`Listing`), and the lemmas about it need no induction over the data: the place
of a member, counted from what is before it, is an injection from the places into the numbers up to their
count, hence onto them, so nothing is lost or listed twice (`PlaceOfMember`), and the list is in order
(`ListedInOrder`, `FilteredInOrder`). `CarriedTheorem` (`AuditRounds`): the canonical list is always in the order of
severities, so giving it numbers leaves each finding where it was (`AssignKeepsOrder`), and a number that an
auditor was shown is still the finding's when the next round reads it. `PoolListTheorem` (`ProxyList`): what discovery
leaves is the least loaded of the allowed servers, as many as there are up to the limit; what is parsed
is the written list without its blanks. `FlowRunsTheorem` (`FlowScript`): a phase that validation accepted finds the
names it reads, since all that a passed phase publishes is in the script's values (`ScriptRuns`), loops
and group helpers included; a script that no engine accepts declares some constant twice, and of two
such declarations one is no phase's out, since validation refuses two outs of one name (`NotTwoOuts`). `PromptTheorem` (`ChatRequest`; what is asked passed the schema): whatever was
folded, moved and rewritten, every text and result is in the one message sent up, once, every call once where tools
are injected, and none elsewhere. `Joined` reads
the places of the messages in order, so what it makes holds the same marks, each once, and two marks as
far as their messages were apart (`Whole`): folding keeps that, and so do the injection of the tools and the last step. `ContextTheorem` (`DesignTree`): four walks
of the code and a reference that has no recursion over children say the same of any tree, hidden root included. A child has a greater number than its
parent, so a recursion over children is well founded, and so is an argument from the leaves up. What a walk passes is
told by the paths: it passes a node when it passes each step of the node's path (`Visit`, `Walked`), and lists what it
passes once, a parent before its children, since the children's subtrees are apart. The key texts go on from what is found
already, so of them the lemma speaks for every list a walk may start with (`Fine`): what it returns extends that list, by
texts shown below only, and by all of them unless the limit was met.

**`Sessions_proofs`** (`FlowAssumption`, `PlanFinalizes`; `WebAssumption`; `WalkAssumption`; `PaceAssumption`; `CacheAssumption`). `GateTheorem`:
while no file changed under a running command, everything in a cache has passed, and a fingerprint
in hand is that of the files. `SuccessTheorem`: the successes in the state file and in every copy
in hand are history for the file's input, but for the entity a call has just completed (`FlowTrue`), unless
sessions of two inputs crossed; that the worktree is gone needs the prologue of the finalize phase to have run before
anything records it (`FinalizeRan`), and a plan that has such a phase. `ContextsTheorem`: what a call has
open before its page or after its answer was left by one of the named failures (`Settled`), and a search has tried a prefix of
its plan and holds the rest (`InOrder`); the plan names no provider twice, which is
proved of the recursive function that builds it, by the least index at which it would fail
(`LeastNatural`, from the finite subsets of a set). `NearestTheorem` (`StoryWalk`): the program keeps a depth in the
queue only, and the invariant says that some depth of every key explains all it has queued: the queue goes by
depth, two depths at a time (`InRings`), each key was queued for an issue one step nearer (`HasParent`), and what an
issue names is queued no deeper than one step on, unless the limit was met there (`FollowedOn`), when
nothing is queued any deeper. When the queue is empty, the keys of a depth are those within that distance, by the
least distance at which they would differ (`MetIsWithin`, `WithinIsMet`). That the last condition is
kept needs the queue and the visited keys together never to shrink: a key is taken off the one as it goes to the other. `SlugTheorem`: every root remembered is in the file, and in each copy
in hand but for what that copy is known to lack (`IndexInv`), however the upserts overlap. `PaceTheorem`: requests that read the same last dispatch wake up together, so two
dispatches in a row need not be apart. `PaceInv` counts instead: behind each dispatch
either one is a gap later, or the dispatches since and the sleepers that read before it are fewer than the
slots, and each that goes out moves from the second number to the first. `CurrentTheorem`: that an
answer is current follows from what an entry is keyed by (`CallTrue`, `EntryTrue`); the bound on the directory
does not, since evictions work on listings that are stale by then, and one that lists a file already gone is skipped.
`Bounded` counts the files opened since the last listing that was acted on (`Pays`), which needs the order of the
files' times to be total (`WrittenInTurn`).
`ReleaseTheorem`: a tag that is pushed names the release's own commit (`TagsMade`), and that commit is in
origin's branch once the branch has been pushed, whoever pushes after it (`IsPrefix` is an order and an `Append` keeps it);
a rollback restores because, from the commit on, that commit (`OneCommitOnTop`) and the tags of this run (`StartedFrom`)
are all that is new; each of its three steps undoes its part or is recorded in `swallowed` (`Undoing`, `Undone`).

**`FinanceService_proofs`** (`IngestAssumption`: providers have distinct accounts; `ServiceAssumption`).
`ServiceTheorem`, and from it `MissedTheorem`, `StaleTheorem` and `UrlTheorem`, over any
interleaving of the daemon's ticks, syncs, imports, stops and restarts. The invariant adds that a run
knows the provider and the account it is at (`WalkInv`), that nothing runs while the process is
down and the daemon is idle while its timer is armed (`ProcessInv`), that no watermark is ahead of
the clock (`TimeInv`), and that whatever a fetch under way will not store counts as passed (`FetchInv`):
that last one is why a watermark taken after the fetch loses nothing else.

Only model-checked: liveness (`ImplementsLedger` with its fairness,
`EveryRequestEnds`, `AnsweredUnlessMintHangs`, `SyncConverges`, `DeadLockReplaced`, `EveryCallEnds`,
`DaemonKeepsTicking`), which is outside what the prover does. Every invariant of a passing run is stated by a theorem.
`EveryRequestEnds` is checked in legacy mode; in rotation mode the state space of the
temporal check without symmetry is too large.

## 7. Findings

1. **A re-added package is dropped** (`catalog_readd`). `ct remove a`, `ct add a`, `ct sync`:
   `add` leaves the tombstone that `remove` wrote, the sync applies it, and `a` is gone from
   the catalog and never uploaded. `removal-tombstones.ts:62-66` clears tombstones so that
   they do not "silently drop re-added packages", and `CHANGELOG.md:137` promises that
   "`ct sync` preserves local-only packages during pull".
2. **Two runs in one plan folder** (`plan_lock_takeover`). `acquireLock` reads the metadata, judges
   it and then renames away whatever directory is there (`plan-lock.ts:93-113`); the sweep does the
   same with `rm` (`:185-191`). Of two processes that judge one dead owner, the second removes the
   lock the first has taken over. `agent-workflows/README.md:21` promises "Atomic plan-folder lock
   acquisition, stale lock takeover, and release". `ExclusiveUnlessRobbed` states what is left of
   mutual exclusion. An owner that takes longer than the polls to write its
   metadata loses its lock the same way (lower `ResidueThreshold` to see it).

Smaller disagreements between text and code, met while modelling and without a run of their own.
The models do what the code does in each of these; where a property touches one, its comment names
the exception.

- *catalog*: the push condition at `sync.ts:296` does not ask whether a tombstone dropped something,
  so a removal can be consumed without an upload (`sync.ts:153-156` says it is pushed). `README.md:21`
  says that sync removes orphaned packages, while no caller sets `removeOrphans`.
  `docs-site/profiles.md:68` gives each profile its gist, while the cached gist id is shared by all
  profiles (`pull.ts:42`, `push.ts:51`).
- *qwen-proxy, walks*: `README.md:95` says each proxy is tried once per request; `rotateWithSlot`
  releases its own proxy before it scans (`retry.ts:76`) and may get the same one again. `README.md:112`
  says that no token refresh happens when every proxy was burned by errors, `retry.ts:281` and `:491`
  do refresh; `README.md:102` and the comment at `retry.ts:232` speak of a cooldown that this path does
  not set; `README.md:106` ends a walk at the "second consecutive" mint failure, while other failures in
  between do not reset the strikes. The throttle comes before the semaphore, so requests that wait for
  the permit go upstream back to back, and requests that read the same last dispatch wake up together
  (`throttle.ts:9-10` promises a gap before each).
- *qwen-proxy, proxies*: discovered hostnames are not deduplicated while written URLs are, by their spelling; a URL part
  with a stray `%` is kept, and `parseSocksUrl` throws at every use; the discovery timer is cleared at the
  headers, so the body is unbounded although line 237 says "never hang on a stalled NordVPN API"; a
  `proxyCount` of 1 gives no pool.
- *qwen-proxy, adapters*: the `-search` suffix is lost when tools are given but not injected
  (`chat.ts:215-223`), and so are the calls an assistant made earlier (`:137`, `:176`); an Anthropic stream that reasons
  after content has left its text block when the filter gives up what it held, and drops it
  (`events.ts:232-233`); flattening moves tool results ahead of the conversation; a streamed answer ends
  at the first `<details>`, one in a piece only loses a closed block at its end; `messages.ts:263-266`
  primes the stream so that early failures become HTTP errors, but the event it waits for is `message_start`,
  which is sent before anything is read from upstream; the stall guard's idle
  timer runs while the consumer is slow; `deleteChats` does nothing.
- *agent-workflows*: `README.md:51` says that a resume needs `ownerTool === invokedTool`;
  `assertResumeOwnership` (`resume-policy.ts:16-24`) only asks that metadata exist, and the owner is
  checked later by `startWorkflowMetadata`. A void step that runs while a queued update of the
  checkpoint file is under way can lose its record, fail that update or spoil the file (`clash`). A
  persistent verification cache inside the checkout changes the fingerprint unless git ignores it.
  `upsertEntry` has no caller in the tree. `readIndex` takes a file it cannot read or parse for an empty index
  (`plan-index.ts:53-57`), and the next upsert writes its one entry over it. A `beforeReporterDispose` or
  `afterReporterDispose` callback that throws skips the release of the lock (`run-workflow.ts:175-187`,
  `orphaned`). The fingerprint leaves out what git fails to answer or answers in more than 25 MB
  (`fingerprint.ts:76,88`), so an edit seen there only does not change it.
- *flow*: validation counts as published what no epilogue publishes (`validate.ts:90`, with the `README.md:265`
  ff.): the outs of grouped, raw, skill and questions phases, and outs replaced by a declared `publish`; the
  built-ins "input" and "flow" may be required and are never published. A group loop without
  `until`, and a questions phase that publishes its own out, generate a reference to an undefined name.
  Two outs of one name are refused because a "duplicate const would be emitted" (`validate.ts:85`), while the
  prologue declares `_req` for every phase that requires something, each required name, `_wt`, `slug` and `_dir` again
  and again (`generate.ts:86-115`): of the bundled files `ship-feature`, `auth-audit` and `research-report` give scripts that
  no JavaScript engine accepts, and that only an orchestrator which follows them step by step can run.
  Loops of a kind the generator does not know are dropped silently, though `validate.ts:34-35` says never.
  In the second round of a canonical group a gate that crashed approves when nothing blocking is
  carried, against `generate.ts:237`. A crash between `git worktree add` and the record of it makes
  finalize block for ever, though `README.md:272` says resume-safe. Artifacts that another input left
  under the same slug satisfy the assertions; the two writers of one slug share a `.tmp` file.
- *finance*: transaction ids of OFX files are list indices; a transaction the table refuses is
  passed over for good, and so are fills beyond Coinbase's 50 pages or with a field that does not parse
  (`coinbase.ts:119,128,132`), what is posted while its account is fetched (`registry.ts:100`) and what is posted later
  with a date behind the watermark; a SimpleFIN token is spent before its answer is read and checked
  (`simplefin.ts:42-47`), and the access URL it bought is lost when that fails, when the tick throws after it,
  when the response does not arrive or the server ends; the daemon drops the resolved credentials it is handed; suggestions of one
  millisecond collide.
- *web*: `newPage` is called outside the `try` in all four browser calls, and `runWebFlow` looks over its steps
  there too: one that goes to no http URL throws and leaves the browser open on the profile
  (`flow.ts:56`); an abort begins to close the context and does not wait, nor sees the close reject; an abort during the launch is
  missed; a search goes through all providers after an abort.
- *figma*: evictions side by side can make `rm` or `stat` reject, which skips the eviction and fails a call
  that has its answer (`FigmaCache.ts:43-53`); a screen context of a hidden root shows what is below it
  (`FigmaNodeParser.ts:157,182`) while the overview of the same link counts no node (`FigmaContext.ts:301`); a visible screen inside a hidden section
  is listed; the comparator of the canvas order is not transitive.
- *atlassian*: remote links are followed beyond `maxDepth` and fetch pages even with
  `includeConfluence` off; an abort is recorded as inaccessible links; issues that cannot be read use
  up the limit; one page under two URLs counts twice.
- *release*: the sync check never stops a release: `run()` without `silent` returns the empty string, so the branch has
  no name, `git rev-parse origin/` throws and the catch takes it for a branch not yet at origin (`release.mjs:61-68`,
  `:279-290`, against "Check that local branch is in sync with remote", `:276`); for the same reason the push
  names no branch and pushes what `push.default` says (`:352-354`). Each git call of the rollback is in a `catch {}`
  (`:303,310,314`). "All changes have been rolled back." is untrue when one of them failed, when the commit is made but no tag yet,
  when a changelog is new, and when the branch is already pushed; `assertTagDoesNotExist` exits inside
  the `try` without a rollback.

## 8. What is not modelled

- *catalog*: two `pi` sessions on one machine running `ct` at once; the catalog that `remove.ts:164`
  reads before its prompt and writes after it; a truncated `cat.yaml` (`io.ts:53` writes in place); profiles
  (sync does not read them); gists deleted at GitHub behind the cached id; `diff`, `status`, `verify`,
  self-update; upgrade planning for git and local sources.
- *qwen-proxy*: a mint that hangs (`baxia-token.ts:322`), which blocks every caller; the grammar of tool calls and of SSE lines; routing, authentication, admin routes and
  the key store; the Chrome DevTools exchange inside a mint. A woken acquirer that finds its proxy taken
  queues again (`proxy-pool.ts:153`): with unbounded arrivals it may starve, and no property says it
  does not. The account read before the throttle sleeps (`retry.ts:354`) may be cooled down by then.
- *agent-workflows*: `resume-analysis.ts`, the parsing of plans, reporters, commit intents; torn writes.
- *flow*: the text of generated scripts and prompts, the parser of plan trackers.
- *finance-api*: quantities, valuation and suggestions (real-valued arithmetic over snapshots),
  the read-only routes, backups; rows of holdings, lots, balances and prices; a database that fails in the loop over
  accounts (`upsertAccount` or `markStale` throwing, which ends the provider's accounts like a failed listing).
- *web, figma, atlassian*: page extraction, rendering, REST paging, the network policy.
- *azure-foundry, paths*: one-shot configuration and path arithmetic.

## 9. Plan

Order: the most order-dependent state first. `X -> Y`: Y extends or refines X.

1. done: `CatalogPlan -> CatalogSync`; `SlotLedger <- ProxyPool -> PoolRetry`; `BaxiaToken`; `PlanLock ->
   RunWorkflow`; `Checkpoint`; `FinanceIngest -> FinanceService`; the modules of `tools`.
2. done: proofs about `ProxyPool`, `PoolRetry`, `BaxiaToken`, `RunWorkflow`, `Checkpoint`, `FinanceService`,
   `PlanIndex`, `Pacing`, `DesignCache`, `VerificationGate`, `FlowRun`, `WebAccess`, `CatalogSync`,
   `Release`, `AuditRounds`, `FlowScript`, `ProxyList`, `StoryWalk`, `ChatRequest`, `ChatStream`, `DesignTree`.
3. Models: the resume analysis of a plan folder; two sessions on one machine for `ct`.
