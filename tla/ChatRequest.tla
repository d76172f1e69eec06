----------------------------- MODULE ChatRequest -----------------------------
(***************************************************************************)
(* One request to qwen-proxy on its way up: what the two routes make of    *)
(* its messages and tools, how the guest client opens a chat session for   *)
(* it and sends it as one user message, and what status an error answers.  *)
(*                                                                         *)
(* The content of a message is a sequence of marks: the text of message i, *)
(* the calls it makes, the result it holds, or the list of tools.  Labels  *)
(* and the wording of the tool prompts are left out.  Which proxy is used, *)
(* and the retries around the client, are PoolRetry's; tokens BaxiaToken's.*)
(***************************************************************************)
EXTENDS Naturals, FiniteSets, Sequences, Listing

CONSTANTS
  Asked,        \* the requests clients make
  SessionTries  \* createChatSession's maxRetries

(* A message of the conversation; calls: it is the assistant's and has     *)
(* tool_calls, which count in no other role.                               *)
Roles == {"system", "user", "assistant", "tool"}
Messages ==
  {m \in [role : Roles, said : BOOLEAN, calls : BOOLEAN] : m.calls => m.role = "assistant"}

Accepted ==
  {r \in [api      : {"openai", "anthropic"},
          history  : Seq(Messages),
          valid    : BOOLEAN,                       \* a well-formed body, a known model
          suffix   : SUBSET {"thinking", "search"}, \* of the model's name
          thinking : {"unset", "on", "off"},        \* enable_thinking; Anthropic's thinking
          listed   : BOOLEAN,                       \* a tools array was sent
          tools    : SUBSET {"function", "web_search"},
          choice   : {"unset", "none"},
          system   : BOOLEAN] :                     \* Anthropic's system field
     (r.system => r.api = "anthropic") /\ (r.valid => r.history # <<>>)}

ASSUME AskedAssumption == Asked \subseteq Accepted

VARIABLES
  request,  \* what the client sent
  body,     \* the adapter's upstreamBody; once sent, with one message
  opened,   \* sessions asked for
  asking    \* "asked", "built", "session", "sent" or the status answered

askVars == <<request, body, opened, asking>>

NoBody == [search |-> FALSE, thinking |-> FALSE, messages |-> <<>>]

AskInit ==
  /\ request \in Asked
  /\ body = NoBody /\ opened = 0 /\ asking = "asked"

-----------------------------------------------------------------------------
Mark(kind, i) == <<[kind |-> kind, of |-> i]>>
ToolList == Mark("tools", 0)
Turn(role, content) == [role |-> role, content |-> content]

History == request.history
FlattenContent(i) == IF History[i].said THEN Mark("text", i) ELSE <<>>
Plain == [i \in DOMAIN History |-> Turn(History[i].role, FlattenContent(i))]

(* Calls become text of their message, results become system messages.     *)
InjectToolResults ==
  [i \in DOMAIN History |->
     CASE History[i].calls -> Turn("assistant", FlattenContent(i) \o Mark("calls", i))
       [] History[i].role = "tool" -> Turn("system", Mark("result", i))
       [] OTHER -> Plain[i]]

(* What the messages at the places S hold, joined: each mark has a spot,   *)
(* its message and its place there, and spots are read in turn.            *)
Spots(messages, S) ==
  UNION {{<<i, k>> : k \in DOMAIN messages[i].content} : i \in S}
Earlier(s, t) == s[1] < t[1] \/ (s[1] = t[1] /\ s[2] < t[2])
MarkAt(messages, s) == messages[s[1]].content[s[2]]
Joined(messages, S) ==
  LET spots == Spots(messages, S)
      read == Listed(spots, {p \in spots \X spots : Earlier(p[1], p[2])})
  IN [n \in 1 .. Cardinality(spots) |-> MarkAt(messages, read[n])]

OfSystem(messages) == {i \in DOMAIN messages : messages[i].role = "system"}

PrependToFirstSystemMessage(messages) ==
  LET system == OfSystem(messages)
  IN IF system = {} THEN <<Turn("system", ToolList)>> \o messages
     ELSE LET first == CHOOSE i \in system : \A j \in system : i <= j
          IN [messages EXCEPT ![first].content = ToolList \o @]

AppendToolListToLastMessage(messages) ==
  [messages EXCEPT ![Len(messages)].content = @ \o ToolList]

(* Guest mode forwards one message: the system texts, then the turns.      *)
FlattenForUpstream(messages) ==
  LET spoken == DOMAIN messages \ OfSystem(messages)
      told == Joined(messages, OfSystem(messages))
      turn == Turn("user", Joined(messages, spoken))
  IN CASE Cardinality(spoken) <= 1 -> messages
       [] Cardinality(spoken) > 1 /\ told = <<>> -> <<turn>>
       [] Cardinality(spoken) > 1 /\ told # <<>> -> <<Turn("system", told), turn>>

Injected == request.listed /\ "function" \in request.tools /\ request.choice # "none"
IsContinuation == \E i \in DOMAIN History : History[i].calls

(* Broken variant: the list is appended before the history is flattened.   *)
OpenAiMessagesEarly ==
  FlattenForUpstream(
    CASE Injected /\ IsContinuation -> AppendToolListToLastMessage(InjectToolResults)
      [] Injected /\ ~IsContinuation -> PrependToFirstSystemMessage(InjectToolResults)
      [] ~Injected -> Plain)

(* Function tools are described in a prompt: in the first system message,  *)
(* or, when the model has already called some, at the very end.            *)
OpenAiMessages ==
  CASE Injected /\ IsContinuation ->
         AppendToolListToLastMessage(FlattenForUpstream(InjectToolResults))
    [] Injected /\ ~IsContinuation ->
         FlattenForUpstream(PrependToFirstSystemMessage(InjectToolResults))
    [] ~Injected -> FlattenForUpstream(Plain)

(* A list of tools that names others, or that is not injected, replaces    *)
(* what the model's -search asked for.                                     *)
WantsSearch ==
  IF request.listed /\ (Injected => request.tools # {"function"})
  THEN "web_search" \in request.tools
  ELSE "search" \in request.suffix

OpenAiBody ==
  [search |-> WantsSearch,
   thinking |-> request.thinking = "on"
                \/ (request.thinking = "unset" /\ "thinking" \in request.suffix),
   messages |-> OpenAiMessages]

AnthropicBody ==
  [search |-> FALSE,
   thinking |-> request.thinking = "on",
   messages |-> (IF request.system THEN <<Turn("system", Mark("text", 0))>> ELSE <<>>)
                \o Plain]

(* app.onError, for the errors that leave the retry layer.                 *)
Status(error) ==
  CASE error = "client" -> "400"
    [] error \in {"mint", "network", "limited"} -> "429"
    [] error = "server" -> "502"
    [] error = "other" -> "500"
Errors == {"client", "mint", "network", "limited", "server", "other"}

-----------------------------------------------------------------------------
Unfit ==
  \/ ~request.valid
  \/ request.api = "anthropic" /\ request.listed /\ request.tools # {}

Refuse ==
  /\ asking = "asked" /\ Unfit
  /\ asking' = "400"
  /\ UNCHANGED <<request, body, opened>>

Build ==
  /\ asking = "asked" /\ ~Unfit
  /\ body' = IF request.api = "openai" THEN OpenAiBody ELSE AnthropicBody
  /\ asking' = "built"
  /\ UNCHANGED <<request, opened>>

(* createChatSession: the session, or a captcha, after which a fresh token *)
(* is asked for and the call made again.                                   *)
OpenSession ==
  /\ asking = "built"
  /\ opened' = opened + 1
  /\ \/ asking' = "session"
     \/ asking' = IF opened' < SessionTries THEN "built" ELSE Status("other")
  /\ UNCHANGED <<request, body>>

(* normalizeMessages, and the call.                                        *)
NormalizeMessages(messages) == <<Turn("user", Joined(messages, DOMAIN messages))>>
Send ==
  /\ asking = "session"
  /\ body' = [body EXCEPT !.messages = NormalizeMessages(@)]
  /\ asking' = "sent"
  /\ UNCHANGED <<request, opened>>

(* No token, no connection, or a status that is not a success.             *)
CallFails ==
  /\ asking \in {"built", "session"}
  /\ \E error \in Errors : asking' = Status(error)
  /\ UNCHANGED <<request, body, opened>>

AskNext == Refuse \/ Build \/ OpenSession \/ Send \/ CallFails

AskSpec == AskInit /\ [][AskNext]_askVars

-----------------------------------------------------------------------------
Prompt == body.messages[1].content
Places(kind, i) == {k \in DOMAIN Prompt : Prompt[k] = Mark(kind, i)[1]}
PlaceOf(kind, i) == CHOOSE k \in Places(kind, i) : TRUE
Spoken(i) == History[i].role \in {"user", "assistant"} /\ History[i].said

(* Guest mode forwards one message, yet no text and no result is lost:     *)
(* whatever was folded, moved and rewritten, each is in the prompt once,   *)
(* what was spoken in its order.  The calls an assistant made are there    *)
(* once when tools are injected, and never otherwise: a request that lists *)
(* no function tools, or chooses none, keeps the content of each message   *)
(* only, and its earlier calls are lost on the way (openai/chat.ts:137,    *)
(* 176).  Injected tools are told once: at the very end when the model has *)
(* called some before (with the list in the system position it answers     *)
(* nothing), else ahead of all system texts (tool-prompt.ts:193).          *)
PromptWhole ==
  asking = "sent" =>
    /\ \A i \in DOMAIN History :
         /\ Cardinality(Places("text", i)) + Cardinality(Places("result", i)) =
              IF History[i].said \/ (Injected /\ History[i].role = "tool") THEN 1 ELSE 0
         /\ Cardinality(Places("calls", i)) = IF Injected /\ History[i].calls THEN 1 ELSE 0
         /\ \A j \in 1 .. i - 1 :
              Spoken(i) /\ Spoken(j) => PlaceOf("text", j) < PlaceOf("text", i)
    /\ Cardinality(Places("tools", 0)) = IF Injected THEN 1 ELSE 0
    /\ Injected /\ IsContinuation => PlaceOf("tools", 0) = Len(Prompt)
    /\ Injected /\ ~IsContinuation =>
         \A k \in 1 .. PlaceOf("tools", 0) - 1 : Spoken(Prompt[k].of)
    /\ request.system => Places("text", 0) = {1}
=============================================================================
