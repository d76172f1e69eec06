------------------------------ MODULE MCTools ------------------------------
(***************************************************************************)
(* The tools of one host that share nothing with each other, each explored *)
(* by itself in one run: part, chosen at the start, names the one that     *)
(* moves.  Variables of the others rest at initial values.                 *)
(***************************************************************************)
EXTENDS PlanIndex, VerificationGate, Pacing, FlowRun, DesignCache, WebAccess, Release,
        AuditRounds, FlowScript, ProxyList, StoryWalk, ChatRequest, ChatStream, DesignTree, TLC

VARIABLE part

othersVars ==
  <<indexVars, gateVars, paceVars, flowVars, cacheVars, webVars, relVars, auditVars,
    scriptVars, listVars, walkVars, askVars, chatVars>>

Active(p) == part = p

DesignRests ==
  /\ nodeKind = [n \in Nodes |-> "group"] /\ parent = [n \in 2 .. TreeSize |-> Root]
  /\ visible = [n \in Nodes |-> TRUE] /\ includeHidden = TRUE /\ maxDepth \in Depths
  /\ told = Nothing

\* Sessions that are off are interchangeable, and so are idle clients: which one
\* starts is fixed.  So are inputs and queries: which one is first is fixed.
AnyOf(set) == CHOOSE x \in set : TRUE
FirstStart ==
  \A s \in Sessions : at[s].pc = "off" /\ at'[s].pc # "off" =>
    /\ s = AnyOf({t \in Sessions : at[t].pc = "off"})
    /\ starts = 0 => input'[s] = AnyOf(Inputs)
FirstCall ==
  \A c \in Clients : client[c].pc = "idle" /\ client'[c].pc # "idle" =>
    /\ c = AnyOf({d \in Clients : client[d].pc = "idle"})
    /\ calls = 0 => client'[c].query = AnyOf(Queries)

MCFlow(phases, group, loops) ==
  [named |-> TRUE, agents |-> <<"a">>, phases |-> phases, group |-> group,
   loops |-> loops]

MCTurn(role, said, asks) == [role |-> role, said |-> said, calls |-> asks]
MCHello == <<MCTurn("user", TRUE, FALSE)>>
MCRequest ==
  [api |-> "openai", history |-> MCHello, valid |-> TRUE, suffix |-> {},
   thinking |-> "unset", listed |-> FALSE, tools |-> {}, choice |-> "unset",
   system |-> FALSE]

Parts == {"index", "gate", "pace", "flow", "cache", "web", "release", "chat", "ask",
          "audit", "walk", "design", "script", "list"}
MCInit ==
  /\ part \in Parts
  /\ IndexInit /\ (Active("index") \/ \A p \in Procs : root[p] = CHOOSE r \in Roots : TRUE)
  /\ GateInit /\ (Active("gate") \/ \A p \in Tools : cacheMode[p] = "run")
  /\ WebInit /\ (Active("web") \/ \A c \in Calls : kind[c] = "login")
  /\ PaceInit /\ FlowInit /\ CacheInit /\ WalkInit
  /\ RelInit /\ (Active("release") \/ pushesBranch)
  /\ AuditInit /\ (Active("audit") \/ ~delta)
  /\ IF Active("script") THEN ScriptInit
     ELSE /\ flow = MCFlow(<<>>, <<>>, {}) /\ strict = TRUE /\ stage = "read" /\ next = 1
          /\ values = {} /\ scope = {} /\ ended = [how |-> "not", names |-> {}]
  /\ IF Active("list") THEN ListInit
     ELSE /\ opts = [written |-> Unset, count |-> 2] /\ progress = "start"
          /\ servers = <<>> /\ keys = <<>>
  /\ IF Active("ask") THEN AskInit
     ELSE /\ request = MCRequest /\ body = NoBody /\ opened = 0 /\ asking = "asked"
  /\ ChatInit /\ (Active("chat") \/ api = "message")
  /\ IF Active("design") THEN DesignInit ELSE DesignRests
  /\ includeHidden => \A n \in Nodes : visible[n]  \* nothing asks visible then

IndexMoves ==
  /\ Active("index") /\ IndexNext
  /\ UNCHANGED <<part, gateVars, paceVars, flowVars, cacheVars, webVars, relVars, auditVars,
                 scriptVars, listVars, walkVars, askVars, chatVars, designVars>>
GateMoves ==
  /\ Active("gate") /\ GateNext
  /\ UNCHANGED <<part, indexVars, paceVars, flowVars, cacheVars, webVars, relVars, auditVars,
                 scriptVars, listVars, walkVars, askVars, chatVars, designVars>>
PaceMoves ==
  /\ Active("pace") /\ PaceNext
  /\ UNCHANGED <<part, indexVars, gateVars, flowVars, cacheVars, webVars, relVars, auditVars,
                 scriptVars, listVars, walkVars, askVars, chatVars, designVars>>
FlowMoves ==
  /\ Active("flow") /\ FlowNext /\ FirstStart
  /\ ~crossed  \* for good, and then nothing is promised
  /\ UNCHANGED <<part, indexVars, gateVars, paceVars, cacheVars, webVars, relVars, auditVars,
                 scriptVars, listVars, walkVars, askVars, chatVars, designVars>>
CacheMoves ==
  /\ Active("cache") /\ CacheNext /\ FirstCall
  /\ UNCHANGED <<part, indexVars, gateVars, paceVars, flowVars, webVars, relVars, auditVars,
                 scriptVars, listVars, walkVars, askVars, chatVars, designVars>>
WebMoves ==
  /\ Active("web") /\ WebNext
  /\ UNCHANGED <<part, indexVars, gateVars, paceVars, flowVars, cacheVars, relVars, auditVars,
                 scriptVars, listVars, walkVars, askVars, chatVars, designVars>>
RelMoves ==
  /\ Active("release") /\ RelNext
  /\ UNCHANGED <<part, indexVars, gateVars, paceVars, flowVars, cacheVars, webVars, auditVars,
                 scriptVars, listVars, walkVars, askVars, chatVars, designVars>>
AuditMoves ==
  /\ Active("audit") /\ AuditNext
  /\ UNCHANGED <<part, indexVars, gateVars, paceVars, flowVars, cacheVars, webVars, relVars,
                 scriptVars, listVars, walkVars, askVars, chatVars, designVars>>
ScriptMoves ==
  /\ Active("script") /\ ScriptNext
  /\ UNCHANGED <<part, indexVars, gateVars, paceVars, flowVars, cacheVars, webVars, relVars,
                 auditVars, listVars, walkVars, askVars, chatVars, designVars>>
ListMoves ==
  /\ Active("list") /\ ListNext
  /\ UNCHANGED <<part, indexVars, gateVars, paceVars, flowVars, cacheVars, webVars, relVars,
                 auditVars, scriptVars, walkVars, askVars, chatVars, designVars>>
ChatMoves ==
  /\ Active("chat") /\ ChatNext
  /\ UNCHANGED <<part, indexVars, gateVars, paceVars, flowVars, cacheVars, webVars, relVars,
                 auditVars, scriptVars, listVars, walkVars, askVars, designVars>>
AskMoves ==
  /\ Active("ask") /\ AskNext
  /\ UNCHANGED <<part, indexVars, gateVars, paceVars, flowVars, cacheVars, webVars, relVars,
                 auditVars, scriptVars, listVars, walkVars, chatVars, designVars>>
WalkMoves ==
  /\ Active("walk") /\ WalkNext
  /\ UNCHANGED <<part, indexVars, gateVars, paceVars, flowVars, cacheVars, webVars, relVars,
                 auditVars, scriptVars, listVars, askVars, chatVars, designVars>>
DesignMoves ==
  /\ Active("design") /\ DesignNext
  /\ UNCHANGED <<part, othersVars>>

MCNext ==
  \/ IndexMoves \/ GateMoves \/ PaceMoves \/ FlowMoves \/ CacheMoves \/ WebMoves
  \/ RelMoves \/ ChatMoves \/ AskMoves \/ AuditMoves \/ WalkMoves \/ DesignMoves
  \/ ScriptMoves \/ ListMoves

-----------------------------------------------------------------------------
MCPlan ==
  <<[worktree |-> "prepare",  require |-> {},      publish |-> {"doc"}, group |-> FALSE],
    [worktree |-> "none",     require |-> {},      publish |-> {},      group |-> TRUE],
    [worktree |-> "finalize", require |-> {"doc"}, publish |-> {},      group |-> FALSE]>>
MCPlaces ==
  {"parent", "subtask", "linked", "text", "comment", "url", "url elsewhere",
   "remote text", "remote url", "remote url elsewhere"}
MCMentions ==
  {{}} \cup {{<<w, k>>} : w \in MCPlaces, k \in Keys}
  \cup {{<<"linked", k>>, <<"linked", j>>} : j, k \in Keys}
  \cup {{<<"linked", k>>, <<"remote url", k>>} : k \in Keys}
MCFindings ==
  {[severity |-> 1, place |-> 0, name |-> "a"], [severity |-> 1, place |-> 0, name |-> "b"],
   [severity |-> 3, place |-> 1, name |-> "c"], [severity |-> 0, place |-> 1, name |-> "d"]}
MCToolOpen == <<"<", "t">>
MCToolClose == <<"<", "/">>
MCDetails == <<"<", "d">>
MCDetailsClose == <<"/", "d">>
MCPieces ==
  {<<x>> : x \in {"<", "t", "/", "d", " "}}
  \cup {MCToolOpen, MCToolClose, <<"d", "<">>}
MCMaxAnswer ==  \* streamed tool-call blocks need one symbol more to be interesting
  [a \in {"openai", "tools", "anthropic", "json", "json tools", "message"} |->
     IF a = "tools" THEN 5 ELSE 4]
MCTurns ==
  {MCTurn("system", TRUE, FALSE), MCTurn("user", TRUE, FALSE),
   MCTurn("assistant", TRUE, FALSE), MCTurn("assistant", FALSE, TRUE),
   MCTurn("assistant", TRUE, TRUE), MCTurn("tool", TRUE, FALSE)}
MCConversations(turns, n) == UNION {[1 .. k -> turns] : k \in 1 .. n}
MCAsked ==
  {[MCRequest EXCEPT !.history = h] : h \in MCConversations(MCTurns, 3)}
  \cup {[MCRequest EXCEPT !.history = h, !.listed = TRUE, !.tools = {"function"}] :
           h \in MCConversations(MCTurns, 4)}
  \cup {[MCRequest EXCEPT !.api = "anthropic", !.history = h, !.system = TRUE] :
           h \in MCConversations({t \in MCTurns : ~t.calls}, 3)}
  \cup {r \in [api : {"openai"}, history : {MCHello}, valid : BOOLEAN,
                suffix : SUBSET {"thinking", "search"}, thinking : {"unset", "on", "off"},
                listed : BOOLEAN, tools : SUBSET {"function", "web_search"},
                choice : {"unset", "none"}, system : {FALSE}] :
           r.listed \/ r.tools = {}}
  \cup [api : {"anthropic"}, history : {MCHello}, valid : BOOLEAN, suffix : {{}},
        thinking : {"unset", "on"}, listed : {TRUE}, tools : {{}, {"function"}},
        choice : {"unset"}, system : BOOLEAN]
MCPlain ==  \* an agent phase without any contract
  [run |-> {"agent"}, agent |-> "a", out |-> None, fanout |-> FALSE,
   verify |-> None, require |-> {}, publish |-> None, slug |-> FALSE,
   dir |-> FALSE, lost |-> FALSE, worktree |-> "none", schema |-> {}]
MCLoop(key, until, dry, canon) ==
  [key |-> key, until |-> until, dry |-> dry, canonical |-> canon]
MCProducers ==
  {ph \in [run : {{k} : k \in {"agent", "skill", "raw", "questions"}}, agent : {"a"}, out : {None, "x"}, fanout : {FALSE},
   verify : {None}, require : {{}},
   publish : {None, [y |-> "x"], [x |-> "{{dir}}", slug |-> "{{slug}}"]},
   slug : BOOLEAN, dir : BOOLEAN, lost : {FALSE}, worktree : {"none", "prepare"},
   schema : {{}}] : ph.worktree = "prepare" => ~ph.slug /\ ~ph.dir}
MCConsumers ==
  {[MCPlain EXCEPT !.require = r, !.worktree = w, !.out = "y", !.publish = p] :
     r \in SUBSET {"x", "slug", "input"} \cup {{"y"}}, w \in {"none", "finalize"},
     p \in {None, [z |-> "x"]}}
MCShapes ==  \* what the checks of one phase tell apart
  [run : SUBSET {"agent", "skill", "raw", "questions"}, agent : {"a", "b"}, out : {None, "w", "x"}, fanout : BOOLEAN,
   verify : {None, "w"}, require : {{}}, publish : {None}, slug : {FALSE}, dir : {FALSE},
   lost : {FALSE}, worktree : {"none"}, schema : {{}}]
MCFirst == [MCPlain EXCEPT !.out = "w"]
MCGate == [MCPlain EXCEPT !.schema = {"verdict"}, !.out = "x"]
MCLoops(indices) == {MCLoop(k, u, d, c) : k \in indices, u, d, c \in BOOLEAN}
MCTrios ==
  {<<g, f, c>> : g \in {MCGate, [MCGate EXCEPT !.schema = {}],
                        [MCGate EXCEPT !.schema = {"verdict", "findings"}]},
                f \in {MCPlain, [MCPlain EXCEPT !.run = {"skill"}]},
                c \in {MCPlain, [MCPlain EXCEPT !.require = {"x"}]}}
MCFlows ==
  {{[MCFlow(<<[MCPlain EXCEPT !.lost = l]>>, <<>>, {})
       EXCEPT !.named = n, !.agents = as] : l, n \in BOOLEAN, as \in {<<>>, <<"a">>, <<"a", "a">>}},
   {MCFlow(<<MCFirst, b>>, <<>>, {}) : b \in MCShapes},
   {MCFlow(s, g, {}) : s \in MCTrios, g \in {<<>>, <<1, 2>>}},
   {MCFlow(s, g, {MCLoop(0, TRUE, FALSE, FALSE)}) : s \in MCTrios,
      g \in {<<1, 1>>, <<2, 4>>}},
   {MCFlow(s, g, {l}) : s \in MCTrios, l \in MCLoops({0, 3, 4}),
      g \in {<<>>, <<1, 2>>, <<3, 1>>}},
   {MCFlow(<<a, b>>, <<>>, {}) : a \in MCProducers, b \in MCConsumers}}
MCUrl == [protocol |-> "socks5", hostname |-> "h", port |-> Unset, user |-> Unset, pass |-> Unset]
MCWritten ==
  {MCUrl, [MCUrl EXCEPT !.port = 1080], [MCUrl EXCEPT !.user = "me"],
   [MCUrl EXCEPT !.user = "you", !.pass = "own"], [MCUrl EXCEPT !.protocol = "socks5h"],
   [MCUrl EXCEPT !.protocol = "http"], [MCUrl EXCEPT !.hostname = Unset]}
MCServers ==
  {[hostname |-> "a", load |-> 1, codes |-> {"us"}],
   [hostname |-> "b", load |-> 2, codes |-> {"de", "us"}],
   [hostname |-> "c", load |-> 0, codes |-> {"fr"}],
   [hostname |-> "d", load |-> Unset, codes |-> {"us"}]}
MCCountries == {{}, {"de", "fr"}}
MCCommands == <<"test">>
MCProviders == <<"searxng", "google", "searxng-html", "bing">>
=============================================================================
