---------------------------- MODULE StreamFilters ----------------------------
(***************************************************************************)
(* The two text filters a streamed answer of qwen-proxy passes:            *)
(* ToolStreamDetector (upstream/tool-stream.ts) and DetailsStreamStripper  *)
(* (upstream/details-strip.ts), with the parser of a tool-call block       *)
(* (upstream/tool-parse.ts).                                               *)
(*                                                                         *)
(* A text is a sequence of symbols.  The tags are short here, and share    *)
(* their first symbol as the real ones do; what the filters hold back is   *)
(* the length of the tag they look for.                                    *)
(***************************************************************************)
EXTENDS Integers, Sequences, SequencesExt, FiniteSets, FiniteSetsExt

CONSTANTS
  Symbols,                       \* what texts are made of
  ToolOpen, ToolClose,           \* the tags, as sequences of symbols
  Details, DetailsClose,
  Blank,                         \* the symbol trimEnd() takes off
  Call                           \* the symbol that stands for a well-formed call object

(* A tag is at least two symbols long.  No call object stands in the tags  *)
(* of a block; its end differs from its beginning in the second symbol and *)
(* begins nowhere inside it; Details does not end with a blank.            *)
ASSUME TagsAssumption ==
  /\ {ToolOpen, ToolClose, Details, DetailsClose} \subseteq Seq(Symbols)
  /\ \A tag \in {ToolOpen, ToolClose, Details, DetailsClose} : Len(tag) >= 2
  /\ \A i \in DOMAIN ToolOpen : ToolOpen[i] # Call
  /\ \A i \in DOMAIN ToolClose : ToolClose[i] # Call
  /\ ToolOpen[2] # ToolClose[2]
  /\ \A i \in 2 .. Len(ToolOpen) : ToolOpen[i] # ToolClose[1]
  /\ Details[Len(Details)] # Blank

(* The first place at which s holds tag, or 0.                             *)
Occurs(s, tag, i) == SubSeq(s, i, i + Len(tag) - 1) = tag
IndexOf(s, tag) ==
  LET at == {i \in 1 .. Len(s) - Len(tag) + 1 : Occurs(s, tag, i)}
  IN IF at = {} THEN 0 ELSE Min(at)

Before(s, i) == SubSeq(s, 1, i - 1)
From(s, i) == SubSeq(s, i, Len(s))

(* The part of a buffer that can no longer be the beginning of a tag, and  *)
(* the part that is held back.                                             *)
LetThrough(buffer, tag) == SubSeq(buffer, 1, Len(buffer) - Len(tag))
HeldBack(buffer, tag) ==
  IF Len(buffer) <= Len(tag) THEN buffer ELSE From(buffer, Len(buffer) - Len(tag) + 1)

TrimEnd(s) ==
  LET kept == {i \in DOMAIN s : s[i] # Blank}
  IN IF kept = {} THEN <<>> ELSE SubSeq(s, 1, Max(kept))
TrimStart(s) ==
  LET kept == {i \in DOMAIN s : s[i] # Blank}
  IN IF kept = {} THEN <<>> ELSE From(s, Min(kept))
Trim(s) == TrimStart(TrimEnd(s))

-----------------------------------------------------------------------------
(* ToolStreamDetector: its state, and what a push lets through.            *)
Detector == [state |-> "NORMAL", buffer |-> <<>>, block |-> <<>>]

PushBuffering(det, chunk) ==
  LET buffer == det.buffer \o chunk
      close == IndexOf(buffer, ToolClose)
  IN IF close = 0
     THEN [state |-> "BUFFERING", buffer |-> buffer, block |-> det.block]
     ELSE [state |-> "SEALED", buffer |-> <<>>,
           block |-> SubSeq(buffer, 1, close + Len(ToolClose) - 1)]

PushNormal(det, chunk) ==
  LET buffer == det.buffer \o chunk
      open == IndexOf(buffer, ToolOpen)
  IN IF open = 0
     THEN [det |-> [det EXCEPT !.buffer = HeldBack(buffer, ToolOpen)],
           content |-> LetThrough(buffer, ToolOpen)]
     ELSE [det |-> PushBuffering([det EXCEPT !.buffer = From(buffer, open)], <<>>),
           content |-> Before(buffer, open)]

DetectorPush(det, chunk) ==
  CASE det.state = "NORMAL"    -> PushNormal(det, chunk)
    [] det.state = "BUFFERING" -> [det |-> PushBuffering(det, chunk), content |-> <<>>]
    [] det.state = "SEALED"    -> [det |-> det, content |-> <<>>]

(* A stream that ends inside a block loses it.                             *)
DetectorEnd(det) == IF det.state = "NORMAL" THEN det.buffer ELSE <<>>

(* The calls of a block: each well-formed object in it, however malformed  *)
(* the array around it is.                                                 *)
ParseToolCalls(inner) == Cardinality({i \in DOMAIN inner : inner[i] = Call})

-----------------------------------------------------------------------------
(* DetailsStreamStripper.                                                  *)
Stripper == [sealed |-> FALSE, buffer |-> <<>>]

(* Broken variant: nothing is held back.                                   *)
StripperPushEager(strip, chunk) ==
  LET open == IndexOf(chunk, Details)
  IN CASE strip.sealed -> [strip |-> strip, safe |-> <<>>]
       [] ~strip.sealed /\ open # 0 ->
            [strip |-> [sealed |-> TRUE, buffer |-> <<>>], safe |-> Before(chunk, open)]
       [] OTHER -> [strip |-> strip, safe |-> chunk]

StripperPush(strip, chunk) ==
  LET buffer == strip.buffer \o chunk
      open == IndexOf(buffer, Details)
  IN CASE strip.sealed -> [strip |-> strip, safe |-> <<>>]
       [] ~strip.sealed /\ open # 0 ->
            [strip |-> [sealed |-> TRUE, buffer |-> <<>>], safe |-> Before(buffer, open)]
       [] OTHER ->
            [strip |-> [strip EXCEPT !.buffer = HeldBack(buffer, Details)],
             safe |-> LetThrough(buffer, Details)]

(* What is left holds no whole tag, so the regular expression of           *)
(* stripDetails finds nothing in it and only its trimEnd() bites.          *)
StripperEnd(strip) == TrimEnd(strip.buffer)

-----------------------------------------------------------------------------
(* The same two on a whole text, for an answer that is not streamed: a     *)
(* details block counts only when it is closed and ends the text, and all  *)
(* closed tool-call blocks are read and taken out.                         *)
StripDetails(text) ==
  LET open == IndexOf(text, Details)
      end == TrimEnd(text)
      closed == Len(end) - Len(DetailsClose) + 1
  IN IF open # 0 /\ closed >= open + Len(Details) /\ From(end, closed) = DetailsClose
     THEN TrimEnd(Before(text, open)) ELSE end

TakeBlocks(text) ==
  LET from[i \in 1 .. Len(text) + 1] ==
        LET here == From(text, i)
            open == IndexOf(here, ToolOpen)
            inner == From(here, open + Len(ToolOpen))
            close == IndexOf(inner, ToolClose)
            after == i + open + Len(ToolOpen) + close + Len(ToolClose) - 2
        IN IF open = 0 \/ close = 0 THEN [left |-> here, calls |-> 0]
           ELSE [left |-> Before(here, open) \o from[after].left,
                 calls |-> ParseToolCalls(Before(inner, close)) + from[after].calls]
  IN from[1]

-----------------------------------------------------------------------------
(* Reference: what the client of a streamed answer is to read, as a        *)
(* function of the whole text, however it was cut into chunks.             *)
Until(s, tag) == IF IndexOf(s, tag) = 0 THEN s ELSE Before(s, IndexOf(s, tag))

TrimmedTail(s) == LetThrough(s, Details) \o TrimEnd(HeldBack(s, Details))

Readable(text, tools) ==
  LET shown == IF tools THEN Until(text, ToolOpen) ELSE text
      kept == Until(shown, Details)
  IN IF kept = shown THEN TrimmedTail(kept) ELSE kept

(* The calls in the first block of a text, if it is closed.                *)
CallsIn(text) ==
  LET open == IndexOf(text, ToolOpen)
      rest == From(text, open)
      close == IndexOf(rest, ToolClose)
  IN IF open = 0 \/ close = 0 THEN 0 ELSE ParseToolCalls(Before(rest, close))

(* A text whose markup is in order: its details block, if any, is closed   *)
(* and ends it, and its tool-call block, if any, is closed, the only one   *)
(* and not in the details, with nothing but blanks after it.               *)
Tidy(text, tools) ==
  LET shown == StripDetails(text)
      open == IndexOf(shown, ToolOpen)
      close == IndexOf(From(shown, open), ToolClose)
  IN /\ IndexOf(shown, Details) = 0
     /\ tools => open = IndexOf(text, ToolOpen)
     /\ tools /\ open # 0 => close # 0 /\ open + close + Len(ToolClose) - 2 = Len(shown)
=============================================================================
