----------------------------- MODULE WebAccess -----------------------------
(***************************************************************************)
(* The calls of the web package that may need a browser: sf_web_fetch,     *)
(* sf_web_search, sf_web_flow and sf_web_login, side by side on one        *)
(* browser profile, each of which may be aborted at any time.              *)
(*                                                                         *)
(* A context is what launchPersistentContext opens on the profile's        *)
(* directory; Chromium opens a directory only once.  A page of a closed    *)
(* context does nothing any more.                                          *)
(***************************************************************************)
EXTENDS Naturals, FiniteSets, Sequences, Functions

CONSTANTS
  Calls,
  Providers,  \* the providers configured, in their order
  Searxng,    \* whether searxngUrl is configured
  MaxSteps    \* bound: steps of a flow

Kinds == {"fetch", "search", "flow", "login"}
Modes == {"auto", "fast", "browser"}
ByBrowser == {"google", "bing"}

VARIABLES
  kind, mode,   \* of each call; the mode of a fetch
  pc,           \* "fast", "launch", "launching", "page", "work", "close" or "answered"
  plan,         \* the providers a search has yet to try
  steps,        \* the steps a flow has yet to run
  context,      \* "none", "open", "closing" or "closed"
  abortable,    \* whether the abort listener is on
  aborted,
  answer,       \* "none", "page", "results", "empty" or "error"
  tried,        \* history: the providers a search has tried
  left          \* history: what left the context open, if anything did

webVars == <<kind, mode, pc, plan, steps, context, abortable, aborted, answer, tried, left>>

(* providerPlan: a configured searxng stands for its two forms, and no     *)
(* provider comes twice.                                                   *)
PushUnique(s, p) == IF p \in Range(s) THEN s ELSE Append(s, p)
WithProvider(s, p) ==
  CASE p = "searxng" -> IF Searxng THEN PushUnique(PushUnique(s, p), "searxng-html") ELSE s
    [] p = "searxng-html" /\ ~Searxng -> s
    [] OTHER -> PushUnique(s, p)
PlanUpTo[n \in 0 .. Len(Providers)] ==
  IF n = 0 THEN <<>> ELSE WithProvider(PlanUpTo[n - 1], Providers[n])
ProviderPlan == PlanUpTo[Len(Providers)]

(* A search without providers has its answer.                              *)
Hopeless(c) == kind[c] = "search" /\ ProviderPlan = <<>>

WebInit ==
  /\ kind \in [Calls -> Kinds]
  /\ mode \in [Calls -> Modes]
  /\ \A c \in Calls : kind[c] # "fetch" => mode[c] = "auto"
  /\ pc = [c \in Calls |->
       CASE Hopeless(c) -> "answered"
         [] ~Hopeless(c) /\ kind[c] = "search" -> "fast"
         [] kind[c] = "fetch" /\ mode[c] # "browser" -> "fast"
         [] OTHER -> "launch"]
  /\ plan = [c \in Calls |-> IF kind[c] = "search" THEN ProviderPlan ELSE <<>>]
  /\ steps \in [Calls -> 0 .. MaxSteps]
  /\ \A c \in Calls : steps[c] = 0 <=> kind[c] # "flow"
  /\ context = [c \in Calls |-> "none"]
  /\ abortable = [c \in Calls |-> FALSE] /\ aborted = [c \in Calls |-> FALSE]
  /\ answer = [c \in Calls |-> IF Hopeless(c) THEN "empty" ELSE "none"]
  /\ tried = [c \in Calls |-> {}] /\ left = [c \in Calls |-> "nothing"]

Is(c, p) == pc[c] = p
Go(c, p) == pc' = [pc EXCEPT ![c] = p]
Say(c, a) == answer' = [answer EXCEPT ![c] = a]
Set(f, c, v) == [f EXCEPT ![c] = v]

(* searchWeb after a provider: its results are the answer, else the next   *)
(* one is tried.                                                           *)
Provided(c, found) ==
  /\ tried' = Set(tried, c, tried[c] \cup {Head(plan[c])})
  /\ plan' = Set(plan, c, Tail(plan[c]))
  /\ CASE found -> Go(c, "answered") /\ Say(c, "results")
       [] ~found /\ Tail(plan[c]) = <<>> -> Go(c, "answered") /\ Say(c, "empty")
       [] OTHER -> Go(c, "fast") /\ Say(c, "none")

(* fetchGuardedText for a fetch: a page; one that asks for a browser, as   *)
(* blocked statuses and challenges do; or a failure.                       *)
FastFetch(c) ==
  /\ Is(c, "fast") /\ kind[c] = "fetch"
  /\ \/ ~aborted[c] /\ Go(c, "answered") /\ Say(c, "page")
     \/ ~aborted[c] /\ mode[c] = "auto" /\ Go(c, "launch") /\ UNCHANGED answer
     \/ Go(c, "answered") /\ Say(c, "error")
  /\ UNCHANGED <<kind, mode, plan, steps, context, abortable, aborted, tried, left>>

(* runProvider; google and bing go to the browser.                         *)
FastSearch(c) ==
  /\ Is(c, "fast") /\ kind[c] = "search"
  /\ IF Head(plan[c]) \in ByBrowser
     THEN Go(c, "launch") /\ UNCHANGED <<plan, tried, answer>>
     ELSE \E found \in BOOLEAN : (aborted[c] => ~found) /\ Provided(c, found)
  /\ UNCHANGED <<kind, mode, steps, context, abortable, aborted, left>>

(* A call of fetch or search looks at its signal before the launch, and    *)
(* listens to it after: an abort that comes during the launch is missed.   *)
(* The launch may fail, and does on a directory that is open.              *)
Free == \A c \in Calls : context[c] \notin {"open", "closing"}
GivesUp(c) ==
  IF kind[c] = "search" THEN Provided(c, FALSE)
  ELSE Go(c, "answered") /\ Say(c, "error") /\ UNCHANGED <<plan, tried>>

BeginLaunch(c) ==
  /\ Is(c, "launch")
  /\ IF kind[c] \in {"fetch", "search"} /\ aborted[c] THEN GivesUp(c)
     ELSE Go(c, "launching") /\ UNCHANGED <<plan, tried, answer>>
  /\ UNCHANGED <<kind, mode, steps, context, abortable, aborted, left>>

Launch(c) ==
  /\ Is(c, "launching") /\ Free
  /\ context' = Set(context, c, "open")
  /\ Go(c, "page")
  /\ abortable' = Set(abortable, c, kind[c] \in {"fetch", "search"})
  /\ left' = Set(left, c, "nothing")
  /\ UNCHANGED <<kind, mode, plan, steps, aborted, answer, tried>>

LaunchFails(c) ==
  /\ Is(c, "launching") /\ GivesUp(c)
  /\ UNCHANGED <<kind, mode, steps, context, abortable, aborted, left>>

(* A flow or a login aborted by then goes straight to its finally.         *)
NewPage(c) ==
  /\ Is(c, "page") /\ context[c] # "closed"
  /\ IF kind[c] \in {"flow", "login"} /\ aborted[c]
     THEN Go(c, "close") /\ UNCHANGED abortable
     ELSE Go(c, "work") /\ abortable' = Set(abortable, c, TRUE)
  /\ UNCHANGED <<kind, mode, plan, steps, context, aborted, answer, tried, left>>

(* newPage is outside the try of all four: a context it rejects on while   *)
(* open stays open.  So does that of a flow with a step that goes to no    *)
(* http URL: the steps are looked over before the try (flow.ts:56).        *)
LeftBy(c, what) ==
  left' = Set(left, c, IF context[c] = "open" THEN what ELSE left[c])
NewPageFails(c) ==
  /\ Is(c, "page") /\ GivesUp(c) /\ LeftBy(c, "newPage")
  /\ UNCHANGED <<kind, mode, steps, context, abortable, aborted>>
StepRefused(c) ==
  /\ Is(c, "page") /\ kind[c] = "flow" /\ context[c] # "closed"
  /\ GivesUp(c) /\ LeftBy(c, "step")
  /\ UNCHANGED <<kind, mode, steps, context, abortable, aborted>>

(* A step of a flow; each begins with a look at the signal.                *)
RunStep(c) ==
  /\ Is(c, "work") /\ context[c] # "closed" /\ steps[c] > 0 /\ ~aborted[c]
  /\ steps' = Set(steps, c, steps[c] - 1)
  /\ UNCHANGED <<kind, mode, pc, plan, context, abortable, aborted, answer, tried, left>>

(* The rest of the work, and then the finally: without an answer after a   *)
(* failure, which every action on a closed context is.                     *)
Finish(c) ==
  /\ Is(c, "work") /\ context[c] # "closed" /\ steps[c] = 0
  /\ Go(c, "close") /\ Say(c, "page")
  /\ UNCHANGED <<kind, mode, plan, steps, context, abortable, aborted, tried, left>>

(* Broken variant: a failure is answered at once.                          *)
WorkFailsUnclosed(c) ==
  /\ Is(c, "work") /\ GivesUp(c)
  /\ UNCHANGED <<kind, mode, steps, context, abortable, aborted, left>>
WorkFails(c) ==
  /\ Is(c, "work") /\ Go(c, "close")
  /\ UNCHANGED <<kind, mode, plan, steps, context, abortable, aborted, answer, tried, left>>

(* The listener off, the context closed; a search may have found nothing.  *)
Close(c) ==
  /\ Is(c, "close")
  /\ context' = Set(context, c, "closed") /\ abortable' = Set(abortable, c, FALSE)
  /\ CASE kind[c] = "search" -> \E found \in BOOLEAN :
                                  (answer[c] = "none" => ~found) /\ Provided(c, found)
       [] kind[c] # "search" /\ answer[c] = "none" -> GivesUp(c)
       [] OTHER -> Go(c, "answered") /\ UNCHANGED <<plan, tried, answer>>
  /\ UNCHANGED <<kind, mode, steps, aborted, left>>

(* A close that rejects is the call's failure.                             *)
CloseFails(c) ==
  /\ Is(c, "close") /\ GivesUp(c) /\ LeftBy(c, "close")
  /\ abortable' = Set(abortable, c, FALSE)
  /\ UNCHANGED <<kind, mode, steps, context, aborted>>

(* The listener only begins to close the context, and does not wait: it    *)
(* closes some time later, or never when that rejects.                     *)
Abort(c) ==
  /\ ~Is(c, "answered") /\ ~aborted[c]
  /\ aborted' = Set(aborted, c, TRUE)
  /\ context' = IF abortable[c] /\ context[c] = "open" THEN Set(context, c, "closing")
                ELSE context
  /\ UNCHANGED <<kind, mode, pc, plan, steps, abortable, answer, tried, left>>
Closes(c) ==
  /\ context[c] = "closing" /\ context' = Set(context, c, "closed")
  /\ UNCHANGED <<kind, mode, pc, plan, steps, abortable, aborted, answer, tried, left>>

WebNext ==
  \E c \in Calls :
    \/ FastFetch(c) \/ FastSearch(c) \/ BeginLaunch(c) \/ Launch(c) \/ LaunchFails(c)
    \/ NewPage(c) \/ NewPageFails(c) \/ StepRefused(c) \/ RunStep(c) \/ Finish(c)
    \/ WorkFails(c) \/ Close(c) \/ CloseFails(c) \/ Abort(c) \/ Closes(c)

WebSpec == WebInit /\ [][WebNext]_webVars

-----------------------------------------------------------------------------
(* However calls fail, are aborted and crowd one profile: an answered call *)
(* has seen to it that what it opened is closed, or closes, and only three *)
(* things leave a context open, all named here: newPage or close rejects,  *)
(* or a step of a flow goes to no http URL.  A fetch in fast mode opens    *)
(* nothing, a search without results has tried every provider of its plan, *)
(* and one with results came to them in the order of the plan              *)
(* (cloak.ts:77, flow.ts:56,104, search/index.ts:33).                      *)
ContextsGivenBack ==
  \A c \in Calls :
    /\ Is(c, "answered") /\ context[c] = "open" =>
         left[c] \in IF kind[c] = "flow" THEN {"newPage", "close", "step"}
                     ELSE {"newPage", "close"}
    /\ kind[c] = "fetch" /\ mode[c] = "fast" => context[c] = "none"
    /\ kind[c] = "search" =>
         /\ answer[c] = "empty" => tried[c] = Range(ProviderPlan)
         /\ tried[c] = Range(SubSeq(ProviderPlan, 1, Cardinality(tried[c])))
=============================================================================
