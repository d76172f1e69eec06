----------------------------- MODULE DesignTree -----------------------------
(***************************************************************************)
(* What the figma package makes of a node tree: the parsed tree of         *)
(* buildFigmaContext (FigmaNodeParser, walkContextTree), the count of its    *)
(* nodes (summarizeRawNode) and the screens of buildFigmaOverview.         *)
(*                                                                         *)
(* Node 1 is the root, a parent has a smaller number than its children,    *)
(* and children are ordered by their numbers.  A node's kind stands for    *)
(* its type and size; the kind of a text node is its text.  Where a screen *)
(* lies on the canvas is not modelled: the screens come in any order.      *)
(***************************************************************************)
EXTENDS Naturals, FiniteSets, Sequences, SequencesExt, Listing

CONSTANTS
  TreeSize,    \* nodes of the tree
  Texts,       \* texts
  Depths,      \* values of the option maxDepth
  MaxScreens, MaxText  \* maxScreens, maxTextPerScreen

ASSUME DesignAssumption ==
  /\ TreeSize \in Nat \ {0} /\ Depths \subseteq Nat
  /\ MaxScreens \in Nat /\ MaxText \in Nat

Nodes == 1 .. TreeSize
Root == 1
Boxes == {"component", "section", "group"}

VARIABLES nodeKind, visible, parent, includeHidden, maxDepth,
          told   \* what the call returns

designVars == <<nodeKind, visible, parent, includeHidden, maxDepth, told>>

Nothing == [mode |-> "none"]

DesignInit ==
  /\ nodeKind \in [Nodes -> Boxes \cup Texts] /\ nodeKind[Root] \in {"component", "group"}
  /\ parent \in [2 .. TreeSize -> Nodes]
  /\ \A n \in 2 .. TreeSize : parent[n] < n /\ nodeKind[parent[n]] \notin Texts
  /\ visible \in [Nodes -> BOOLEAN]
  /\ includeHidden \in BOOLEAN /\ maxDepth \in Depths
  /\ told = Nothing

Shown(n) == includeHidden \/ visible[n]
Kids(n, among) == Filtered({m \in among : m # Root /\ parent[m] = n})

(* What is pushed for each of some children, list after list.              *)
Pushed(lists) ==
  LET upto[i \in 0 .. Len(lists)] == IF i = 0 THEN <<>> ELSE upto[i - 1] \o lists[i]
  IN upto[Len(lists)]

(* parseNodeRecursive: the parsed nodes, a node before its children.       *)
Parse ==
  LET parse[n \in Nodes] == [depth \in Nat |->
        LET kids == Kids(n, {m \in Nodes : Shown(m)})
        IN <<n>> \o (IF depth < maxDepth
                     THEN Pushed([i \in 1 .. Len(kids) |-> parse[kids[i]][depth + 1]])
                     ELSE <<>>)]
  IN parse[Root][0]

(* summarizeRawNode counts these.                                          *)
Summarized ==
  LET summary[n \in Nodes] == [depth \in Nat |->
        LET kids == Kids(n, Nodes)
        IN IF ~Shown(n) \/ depth > maxDepth THEN <<>>
           ELSE <<n>> \o Pushed([i \in 1 .. Len(kids) |-> summary[kids[i]][depth + 1]])]
  IN summary[Root][0]

(* collectTextValues, over the parsed tree.                                *)
TextValues(top, parsed) ==
  LET values[n \in Nodes] ==
        LET kids == Kids(n, parsed)
            below == Pushed([i \in 1 .. Len(kids) |-> values[kids[i]]])
        IN IF nodeKind[n] \in Texts THEN <<nodeKind[n]>> \o below ELSE below
  IN values[top]

(* buildFigmaContext with walkContextTree.                                 *)
Screen ==
  LET tree == Parse
      at == Filtered({i \in 1 .. Len(tree) : nodeKind[tree[i]] = "component"})
      texts == Filtered({i \in 1 .. Len(tree) : nodeKind[tree[i]] \in Texts})
  IN /\ told = Nothing
     /\ told' = [mode |-> "screen", tree |-> tree,
                 components |-> [i \in 1 .. Len(at) |->
                   [node |-> tree[at[i]], text |-> TextValues(tree[at[i]], Range(tree))]],
                 textNodes |-> [i \in 1 .. Len(texts) |-> tree[texts[i]]]]
     /\ UNCHANGED <<nodeKind, visible, parent, includeHidden, maxDepth>>

-----------------------------------------------------------------------------
(* collectRawText: distinct texts, up to the limit.                        *)
RawText(top) ==
  LET collect[n \in Nodes] == [depth \in Nat |-> [results \in Seq(Texts) |->
        LET kids == Kids(n, Nodes)
            own == IF nodeKind[n] \in Texts \ Range(results)
                   THEN Append(results, nodeKind[n]) ELSE results
            found[i \in 0 .. Len(kids)] ==
              IF i = 0 THEN own
              ELSE IF Len(found[i - 1]) >= MaxText THEN found[i - 1]
                   ELSE collect[kids[i]][depth + 1][found[i - 1]]
        IN IF Len(results) >= MaxText \/ ~Shown(n) \/ depth > maxDepth THEN results
           ELSE found[Len(kids)]]]
  IN collect[top][0][<<>>]

ScreenLike(n) == nodeKind[n] = "component"
ScreenCandidate(n) == nodeKind[n] \in {"component", "section"}

(* Broken variant: goes on below a screen.                                 *)
CandidatesNested ==
  LET found[n \in Nodes] == [depth \in Nat |->
        LET kids == Kids(n, Nodes)
            below == Pushed([i \in 1 .. Len(kids) |-> found[kids[i]][depth + 1]])
        IN IF depth > 0 /\ ScreenLike(n) THEN <<n>> \o below
           ELSE IF below = <<>> /\ depth = 1 /\ ScreenCandidate(n) THEN <<n>> ELSE below]
  IN found[Root][0]

(* collectOverviewCandidates: the outermost screens, or a top-level        *)
(* section without any.                                                    *)
Candidates ==
  LET found[n \in Nodes] == [depth \in Nat |->
        LET kids == Kids(n, Nodes)
            below == Pushed([i \in 1 .. Len(kids) |-> found[kids[i]][depth + 1]])
        IN IF depth > 0 /\ ScreenLike(n) THEN <<n>>
           ELSE IF below = <<>> /\ depth = 1 /\ ScreenCandidate(n) THEN <<n>> ELSE below]
  IN found[Root][0]

OverviewCandidates == IF ScreenLike(Root) THEN {Root} ELSE Range(Candidates)

Overview ==
  /\ told = Nothing
  /\ \E sorted \in SetToSeqs(OverviewCandidates) :
       LET shown == Filtered({i \in 1 .. Len(sorted) : Shown(sorted[i])})
           length == IF Len(shown) < MaxScreens THEN Len(shown) ELSE MaxScreens
       IN told' = [mode |-> "overview", total |-> Len(Summarized),
                   screens |-> [i \in 1 .. length |-> sorted[shown[i]]],
                   keyText |-> [i \in 1 .. length |-> RawText(sorted[shown[i]])]]
  /\ UNCHANGED <<nodeKind, visible, parent, includeHidden, maxDepth>>

DesignNext == Screen \/ Overview

DesignSpec == DesignInit /\ [][DesignNext]_designVars

-----------------------------------------------------------------------------
(* Reference: paths instead of recursion over children.                    *)
Up(n) == IF n = Root THEN {} ELSE {parent[n]}
Path(n) ==  \* n and its ancestors
  LET path[m \in Nodes] == {m} \cup UNION {path[k] : k \in Up(m)} IN path[n]
Reached(top) ==  \* top and what of its subtree the options let through
  {n \in Nodes : /\ top \in Path(n)
                 /\ Cardinality(Path(n)) - Cardinality(Path(top)) <= maxDepth
                 /\ \A m \in Path(n) \ Path(top) : Shown(m)}

(* Whatever the nesting and whatever is hidden: a screen context holds     *)
(* exactly the root, which is never tested, and the nodes the options let  *)
(* through below it, parents first, each component with the texts inside   *)
(* it.  The overview counts the same nodes, but none when the root is      *)
(* hidden: there the two calls disagree on one link (FigmaContext.ts:301,  *)
(* FigmaNodeParser.ts:182).  None of its screens lies inside another,      *)
(* every screen-sized component lies in a candidate, a screen is told      *)
(* whatever is hidden above it (FigmaContext.ts:594), and its key texts    *)
(* are distinct texts shown inside it, all of them if they fit.            *)
ContextFaithful ==
  /\ told.mode = "screen" =>
       LET tree == told.tree
           at(n) == CHOOSE i \in DOMAIN tree : tree[i] = n
       IN /\ IsInjective(tree) /\ Range(tree) = Reached(Root)
          /\ \A n \in Range(tree) \ {Root} : at(parent[n]) < at(n)
          /\ \A i \in DOMAIN told.components :
               LET c == told.components[i] IN
               Range(c.text) =
                 {nodeKind[n] : n \in {m \in Range(tree) : c.node \in Path(m)}} \cap Texts
          /\ {c.node : c \in Range(told.components)} = {n \in Range(tree) : nodeKind[n] = "component"}
          /\ Range(told.textNodes) = {n \in Range(tree) : nodeKind[n] \in Texts}
  /\ told.mode = "overview" =>
       LET candidates == OverviewCandidates IN
       /\ told.total = IF Shown(Root) THEN Cardinality(Reached(Root)) ELSE 0
       /\ \A i, j \in DOMAIN told.screens :
            i # j => told.screens[i] \notin Path(told.screens[j])
       /\ \A n \in Nodes :
            ScreenLike(n) => \E top \in candidates : top \in Path(n)
       /\ Len(told.screens) < MaxScreens =>
            {n \in candidates : Shown(n)} \subseteq Range(told.screens)
       /\ \A i \in DOMAIN told.screens :
            LET shown == {nodeKind[n] : n \in Reached(told.screens[i])} \cap Texts
                key == told.keyText[i]
            IN /\ IsInjective(key) /\ Range(key) \subseteq shown
               /\ Len(key) < MaxText => Range(key) = shown
               /\ Len(key) <= MaxText
=============================================================================
