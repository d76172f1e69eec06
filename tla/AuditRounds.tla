----------------------------- MODULE AuditRounds -----------------------------
(***************************************************************************)
(* A group loop of a generated flow script: a gate agent reviews, fix      *)
(* phases repair, until the gate approves or the rounds run out.  With     *)
(* protocol canonical-delta the findings are numbered, carried from round  *)
(* to round and answered by number; without it every round is judged by    *)
(* itself.  From round 2 on the verdict does not count: a gate that        *)
(* crashes while nothing blocking is carried approves the group.  A        *)
(* finding is a severity, a place that orders findings of one severity,    *)
(* and a name.                                                             *)
(***************************************************************************)
EXTENDS Sequences, Listing

CONSTANTS
  Findings,   \* [severity, place, name]: 0..3 for P0..P3, file and line
  MaxRounds,  \* the loop's max_rounds
  MaxNew,     \* bound: findings one answer brings
  NoAnswer    \* an agent that crashed or answered nothing

ASSUME FindingsAssumption == \A f \in Findings : f.severity \in 0 .. 3 /\ f.place \in Nat

VARIABLES
  canonical,  \* _canonical: the findings carried, in order
  round,      \* _round
  delta,      \* whether the protocol is canonical-delta
  verdict,    \* "open", "approved" or "blocked"
  raised,     \* history: findings a gate has reported
  settled     \* history: findings it has called fixed or replaced

auditVars == <<canonical, round, delta, verdict, raised, settled>>

IsBlocking(f) == f.severity < 3
Settling == {"FIXED", "NEW-ISSUE-INTRODUCED"}

Above(f, g) ==
  \/ f.severity < g.severity
  \/ f.severity = g.severity /\ f.place < g.place

\* By severity, then by place; ties keep their order.
Ranking(findings) ==
  {p \in (DOMAIN findings) \X (DOMAIN findings) :
     \/ Above(findings[p[1]], findings[p[2]])
     \/ ~Above(findings[p[2]], findings[p[1]]) /\ p[1] < p[2]}

\* [Fn] is the n-th of the list sorted.
AssignFindingIds(findings) ==
  LET order == Listed(DOMAIN findings, Ranking(findings))
  IN  [n \in DOMAIN order |-> findings[order[n]]]

EvolveCanonical(prior, status, new) ==
  LET order == Filtered({n \in DOMAIN prior :
                       n \in DOMAIN status => status[n] \notin Settling})
  IN  [n \in DOMAIN order |-> prior[order[n]]] \o new

VerificationApproved(prior, status, new) ==
  /\ \A n \in DOMAIN prior :
       IsBlocking(prior[n]) => n \in DOMAIN status /\ status[n] \in Settling
  /\ \A n \in DOMAIN new : ~IsBlocking(new[n])

\* The fail-closed predicate: a gate that said nothing approves nothing.
GateApproved(answer) ==
  /\ answer # NoAnswer /\ answer.verdict = "APPROVED"
  /\ \A n \in DOMAIN answer.new : ~IsBlocking(answer.new[n])

\* sf_flow_gate's canonical round, and the script's reading of it: round 1
\* goes by the verdict, a later one by the verification alone.
Told(answer) == IF answer = NoAnswer
                  THEN [new |-> <<>>, status |-> <<>>] ELSE answer
CanonicalRoundUnsorted(answer) ==
  LET gate == Told(answer)
      prior == AssignFindingIds(canonical)
  IN  IF round = 1
        THEN [list |-> gate.new, ok |-> GateApproved(answer)]
        ELSE [list |-> EvolveCanonical(prior, gate.status, gate.new),
              ok |-> VerificationApproved(prior, gate.status, gate.new)]
CanonicalRound(answer) ==
  LET gate == Told(answer)
      prior == AssignFindingIds(canonical)
  IN  IF round = 1
        THEN [list |-> AssignFindingIds(gate.new), ok |-> GateApproved(answer)]
        ELSE [list |-> AssignFindingIds(EvolveCanonical(prior, gate.status, gate.new)),
              ok |-> VerificationApproved(prior, gate.status, gate.new)]
\* Without the protocol nothing is carried and the verdict decides.
Judged(answer) == IF delta THEN CanonicalRound(answer)
                  ELSE [list |-> <<>>, ok |-> GateApproved(answer)]

-----------------------------------------------------------------------------
AuditInit ==
  /\ canonical = <<>> /\ round = 1 /\ delta \in BOOLEAN /\ verdict = "open"
  /\ raised = {} /\ settled = {}

Statuses == Settling \cup {"NOT-FIXED"}
Answers ==
  LET fresh == Findings \ raised
      news == {s \in UNION {[1..n -> fresh] : n \in 0..MaxNew} :
                 \A i, j \in DOMAIN s : s[i] = s[j] => i = j}
      refs == IF delta THEN DOMAIN canonical ELSE {}
      entries == UNION {[ns -> Statuses] : ns \in SUBSET refs}
  IN  {NoAnswer} \cup
      [verdict : {"APPROVED", "REVISE"}, new : news, status : entries]

\* One round.  The numbers the gate answers by are those of the list shown.
Review ==
  /\ verdict = "open"
  /\ \E answer \in Answers :
       LET outcome == Judged(answer)
       IN  /\ canonical' = outcome.list
           /\ verdict' = IF outcome.ok THEN "approved"
                         ELSE IF round = MaxRounds THEN "blocked" ELSE "open"
           /\ round' = IF outcome.ok \/ round = MaxRounds THEN round ELSE round + 1
           /\ IF answer = NoAnswer THEN UNCHANGED <<raised, settled>>
              ELSE /\ raised' = raised \cup {answer.new[n] : n \in DOMAIN answer.new}
                   /\ settled' = settled \cup
                        {canonical[n] : n \in {m \in DOMAIN answer.status :
                                               answer.status[m] \in Settling}}
  /\ UNCHANGED delta

AuditNext == Review

AuditSpec == AuditInit /\ [][AuditNext]_auditVars

-----------------------------------------------------------------------------
(* The canonical list loses no finding: one that was raised and neither    *)
(* called fixed nor replaced, by the number the gate was shown, is still   *)
(* in it, and a canonical group is approved with none of those blocking.   *)
FindingsCarried ==
  delta => \A f \in raised \ settled :
             /\ \E n \in DOMAIN canonical : canonical[n] = f
             /\ verdict = "approved" => ~IsBlocking(f)
=============================================================================
