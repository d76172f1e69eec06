----------------------------- MODULE StoryWalk -----------------------------
(***************************************************************************)
(* buildStoryContext: from one Jira issue through parents, subtasks, links *)
(* and keys named in text, breadth first, with the Confluence pages on the *)
(* way and the Figma files at the end.  What an issue answers is chosen    *)
(* when it is asked; any call may fail, and an abort makes all later ones  *)
(* fail.  Remote links are followed at every depth, the other references   *)
(* only below MaxDepth.  An issue is taken to answer under its own key.    *)
(*                                                                         *)
(* What an issue names is a set of pairs: where, and a key.  The fields    *)
(* are "parent", "subtask" and "linked"; "text" is its description or a    *)
(* custom field; "comment"; "url" and "url elsewhere" link to an issue of  *)
(* this site or another; the last three, said of remote links, are "remote *)
(* text", "remote url" and "remote url elsewhere".                         *)
(***************************************************************************)
EXTENDS Naturals, FiniteSets, Sequences, Functions

CONSTANTS
  Keys,                \* Jira issue keys
  Story,               \* the one the walk starts from
  Pages,               \* Confluence page URLs
  MaxJiraIssues, MaxDepth, MaxConfluencePages, MaxFigmaLinks,
  FigmaConcurrency,    \* FIGMA_CONTEXT_CONCURRENCY
  Followed,            \* the fields asked for: includeParent and its like
  Mentions             \* bound: what one issue may name

\* Limits are what the tool's schema lets through; the fields asked for are
\* fields.
ASSUME WalkAssumption ==
  /\ IsFiniteSet(Keys) /\ Story \in Keys /\ IsFiniteSet(Pages)
  /\ MaxJiraIssues \in Nat \ {0}
  /\ {MaxDepth, MaxConfluencePages, MaxFigmaLinks, FigmaConcurrency} \subseteq Nat
  /\ Followed \subseteq {"parent", "subtask", "linked"}
  /\ Mentions \subseteq SUBSET (STRING \X Keys)

VARIABLES
  queue,        \* issueQueue: keys with their depths
  queued,       \* queuedJira
  visited,      \* visitedJira
  issues,       \* the keys that answered
  inaccessible, \* the keys, pages and Figma links that did not
  seen,         \* seenConfluence
  figma,        \* how many Figma links are still to build
  phase,        \* "walk", "figma", "done" or "failed"
  answers       \* history: the references and remote links of each issue

walkVars == <<queue, queued, visited, issues, inaccessible, seen, figma, phase, answers>>

WalkInit ==
  /\ queue = <<[key |-> Story, depth |-> 0]>> /\ queued = {Story}
  /\ visited = {} /\ issues = {} /\ inaccessible = {} /\ seen = {}
  /\ figma = 0 /\ phase = "walk"
  /\ answers = [k \in Keys |-> [references |-> {}, remote |-> {}]]

\* getJiraIssueContext: comments are asked for the story only.
IssueContext(named, depth) == {m \in named : m[1] = "comment" => depth = 0}
KeysAt(named, places) == {m[2] : m \in {n \in named : n[1] \in places}}

ReferenceCandidates(named) == KeysAt(named, Followed)
\* A URL's key is no key of the text it stands in.
ExtractLinks(named) ==
  [text |-> KeysAt(named, {"text", "comment"}), here |-> KeysAt(named, {"url"}),
   elsewhere |-> KeysAt(named, {"url elsewhere"})]
ExtractRemoteLinks(named) ==
  [text |-> KeysAt(named, {"remote text"}), here |-> KeysAt(named, {"remote url"}),
   elsewhere |-> KeysAt(named, {"remote url elsewhere"})]
\* Broken variant: another site's issue is taken for one of this site.
ResolveAnywhere(links) == links.text \cup links.here \cup links.elsewhere
ResolveAtlassianLinks(links) == links.text \cup links.here

\* How many of so many are let in where some are and a limit holds.
Admitted(many, there, limit) ==
  IF there + many <= limit THEN many ELSE IF there <= limit THEN limit - there ELSE 0

\* enqueueJira: what it can make of a queue and the queued set, the keys being
\* in any order; the issue itself is visited.
Enqueue(state, keys, depth) ==
  LET new == keys \ (state.queued \cup visited)
      room == Admitted(Cardinality(new), Len(state.queue) + Cardinality(visited) + 1,
                       MaxJiraIssues)
  IN {[queue |-> state.queue \o [i \in 1 .. room |-> [key |-> added[i], depth |-> depth]],
       queued |-> state.queued \cup Range(added)] : added \in Injection(1 .. room, new)}

\* fetchConfluence: the pages asked for, up to the limit.
Fetch(urls) ==
  LET new == urls \ seen
  IN {seen \cup added : added \in {pages \in SUBSET new :
        Cardinality(pages) = Admitted(Cardinality(new), Cardinality(seen), MaxConfluencePages)}}

Walking == phase = "walk" /\ queue # <<>> /\ Cardinality(issues) < MaxJiraIssues

VisitFails ==
  /\ Walking
  /\ visited' = visited \cup {Head(queue).key}
  /\ inaccessible' = inaccessible \cup {Head(queue).key}
  /\ queue' = Tail(queue)
  /\ UNCHANGED <<queued, issues, seen, figma, phase, answers>>

\* History: the issues of this site that an issue says it has to do with.
Linked(named, issue) ==
  [references |-> {m[2] : m \in {n \in named :
                     \/ n[1] \in Followed \cup {"text", "url"}
                     \/ n[1] = "comment" /\ issue.depth = 0}} \ {issue.key},
   remote |-> {m[2] : m \in {n \in named : n[1] \in {"remote text", "remote url"}}}
              \ {issue.key}]

\* One issue with its remote links and pages.  Remote links that cannot be
\* read are none.
Visit ==
  LET next == Head(queue) IN
  /\ Walking
  /\ \E named \in Mentions, urls \in SUBSET Pages :
       LET told == IssueContext(named, next.depth)
           below == next.depth + 1
           Sooner(keys) == IF next.depth >= MaxDepth THEN {} ELSE keys
       IN \E linked \in Enqueue([queue |-> Tail(queue), queued |-> queued],
                               ResolveAtlassianLinks(ExtractRemoteLinks(told)), below) :
          \E referred \in Enqueue(linked, Sooner(ReferenceCandidates(told)), below) :
          \E all \in Enqueue(referred, Sooner(ResolveAtlassianLinks(ExtractLinks(told))), below) :
            /\ queue' = all.queue /\ queued' = all.queued
            /\ seen' \in Fetch(urls)
            /\ \E failed \in SUBSET (seen' \ seen) :
                 inaccessible' = inaccessible \cup failed
            /\ answers' = [answers EXCEPT ![next.key] = Linked(named, next)]
  /\ visited' = visited \cup {next.key}
  /\ issues' = issues \cup {next.key}
  /\ UNCHANGED <<figma, phase>>

\* No issue could be read, or the design links are built next.
WalkEnds ==
  /\ phase = "walk" /\ ~Walking
  /\ IF issues = {}
       THEN phase' = "failed" /\ UNCHANGED figma
       ELSE phase' = "figma" /\ figma' \in 0..MaxFigmaLinks
  /\ UNCHANGED <<queue, queued, visited, issues, inaccessible, seen, answers>>

\* collectFigmaContexts: batches side by side; a failing one is told.
BuildBatch ==
  LET left == IF figma > FigmaConcurrency THEN figma - FigmaConcurrency ELSE 0 IN
  /\ phase = "figma" /\ figma > 0
  /\ figma' = left
  /\ \E failed \in SUBSET (left + 1 .. figma) :
       inaccessible' = inaccessible \cup ({"figma"} \X failed)
  /\ UNCHANGED <<queue, queued, visited, issues, seen, phase, answers>>

ReturnContext ==
  /\ phase = "figma" /\ figma = 0
  /\ phase' = "done"
  /\ UNCHANGED <<queue, queued, visited, issues, inaccessible, seen, figma, answers>>

WalkNext == VisitFails \/ Visit \/ WalkEnds \/ BuildBatch \/ ReturnContext
WalkSpec == WalkInit /\ [][WalkNext]_walkVars

-----------------------------------------------------------------------------
\* The keys at most d references away, by sets instead of a queue.
Within[d \in 0..Cardinality(Keys)] ==
  IF d = 0 THEN {Story}
  ELSE Within[d - 1]
       \cup (UNION {answers[k].remote : k \in Within[d - 1]})
       \cup (IF d <= MaxDepth THEN UNION {answers[k].references : k \in Within[d - 1]}
             ELSE {})

(* The walk asks for nothing out of reach and for no more issues than it   *)
(* may; when all that is in reach fits the limit it has asked for all of   *)
(* it, and otherwise never for one farther away than one it left out.      *)
WalkIsNearestFirst ==
  phase # "walk" =>
    LET all == Within[Cardinality(Keys)] IN
    /\ visited \subseteq all
    /\ Cardinality(visited) <= MaxJiraIssues
    /\ Cardinality(all) <= MaxJiraIssues => visited = all
    /\ \A d \in DOMAIN Within :
         visited \subseteq Within[d] \/ Within[d] \subseteq visited
    /\ Cardinality(seen) <= MaxConfluencePages
    /\ visited \ issues \subseteq inaccessible
=============================================================================
