----------------------------- MODULE Tools_proofs -----------------------------
(***************************************************************************)
(* What tools of a host make of lists and trees, whatever their length and *)
(* shape: the audit rounds and validated files of flow, the list of        *)
(* proxies a pool starts with and the prompt of a request (qwen-proxy),    *)
(* and what is told of a design tree (figma).                              *)
(***************************************************************************)
EXTENDS AuditRounds, FlowScript, ProxyList, ChatRequest, DesignTree,
        WellFoundedInduction, FiniteSetTheorems, SequenceTheorems, TLAPS

-----------------------------------------------------------------------------
(* Lists made of a set and an order on it (Listing) *)

\* A strict total order on a set.
Orders(S, less) ==
  /\ \A x \in S : <<x, x>> \notin less
  /\ \A x, y \in S : x # y => <<x, y>> \in less \/ <<y, x>> \in less
  /\ \A x, y, z \in S : <<x, y>> \in less /\ <<y, z>> \in less => <<x, z>> \in less

\* How many there are below a member of a set, itself counted, is its place in
\* the list, which no other member has and no place is without.
LEMMA PlaceOfMember ==
  ASSUME NEW S, IsFiniteSet(S), NEW less, Orders(S, less)
  PROVE  LET Place(x) == Cardinality({y \in S : <<y, x>> \in less}) + 1
         IN  /\ \A x \in S : Place(x) \in 1 .. Cardinality(S)
             /\ \A x, y \in S : <<x, y>> \in less => Place(x) < Place(y)
             /\ \A x, y \in S : Place(x) = Place(y) => x = y
             /\ \A n \in 1 .. Cardinality(S) : \E x \in S : Place(x) = n
<1> DEFINE Below(x) == {y \in S : <<y, x>> \in less}
           Place(x) == Cardinality(Below(x)) + 1
           N == Cardinality(S)
<1>1. N \in Nat
  BY FS_CardinalityType
<1>2. \A x \in S : IsFiniteSet(Below(x)) /\ Cardinality(Below(x)) \in Nat
  <2>1. ASSUME NEW x \in S
        PROVE  IsFiniteSet(Below(x)) /\ Cardinality(Below(x)) \in Nat
    <3>1. Below(x) \in SUBSET S
      OBVIOUS
    <3>2. IsFiniteSet(Below(x))
      BY <3>1, FS_Subset
    <3> QED BY <3>2, FS_CardinalityType
  <2> QED BY <2>1
<1>3. ASSUME NEW T, IsFiniteSet(T), NEW U \in SUBSET T, U # T
      PROVE  Cardinality(U) < Cardinality(T)
  <2>1. IsFiniteSet(U) /\ Cardinality(U) <= Cardinality(T) /\ Cardinality(U) # Cardinality(T)
    BY <1>3, FS_Subset
  <2>2. Cardinality(U) \in Nat /\ Cardinality(T) \in Nat
    BY <2>1, <1>3, FS_CardinalityType
  <2> QED BY <2>1, <2>2
<1>4. \A x \in S : Place(x) \in 1 .. N
  <2>1. ASSUME NEW x \in S PROVE Cardinality(Below(x)) < N
    <3>1. x \notin Below(x)
      BY DEF Orders
    <3>2. Below(x) \in SUBSET S /\ Below(x) # S
      BY <3>1
    <3> QED BY <3>2, <1>3
  <2> HIDE DEF Below, N
  <2> QED BY <2>1, <1>1, <1>2
<1>5. \A x, y \in S : <<x, y>> \in less => Place(x) < Place(y)
  <2>1. ASSUME NEW x \in S, NEW y \in S, <<x, y>> \in less
        PROVE  Cardinality(Below(x)) < Cardinality(Below(y))
    <3>1. Below(x) \subseteq Below(y)
      BY <2>1 DEF Orders
    <3>2. x \in Below(y) /\ x \notin Below(x)
      BY <2>1 DEF Orders
    <3> HIDE DEF Below
    <3> QED BY <3>1, <3>2, <1>2, <1>3
  <2> HIDE DEF Below
  <2> QED BY <2>1, <1>2
<1>6. \A x, y \in S : Place(x) = Place(y) => x = y
  <2>1. ASSUME NEW x \in S, NEW y \in S, x # y PROVE Place(x) # Place(y)
    <3>1. <<x, y>> \in less \/ <<y, x>> \in less
      BY <2>1 DEF Orders
    <3>2. Place(x) < Place(y) \/ Place(y) < Place(x)
      BY <3>1, <1>5
    <3>3. Place(x) \in Int /\ Place(y) \in Int
      BY <1>2 DEF Below
    <3> HIDE DEF Place
    <3> QED BY <3>2, <3>3
  <2> QED BY <2>1
<1> HIDE DEF Place
<1>7. \A n \in 1 .. N : \E x \in S : Place(x) = n
  <2> DEFINE F == [x \in S |-> Place(x)]
  <2>1. F \in Injection(S, 1 .. N)
    BY <1>4, <1>6 DEF Injection, IsInjective
  <2>2. IsFiniteSet(1 .. N) /\ Cardinality(1 .. N) = N
    BY <1>1, FS_Interval
  <2>3. F \in Surjection(S, 1 .. N)
    BY <2>1, <2>2, FS_Injection
  <2> QED BY <2>3 DEF Surjection
<1> QED BY <1>4, <1>5, <1>6, <1>7 DEF Place

\* The list of a set holds its members, each once, in their order.
LEMMA ListedInOrder ==
  ASSUME NEW S, IsFiniteSet(S), NEW less, Orders(S, less)
  PROVE  /\ Cardinality(S) \in Nat
         /\ Listed(S, less) \in [1 .. Cardinality(S) -> S]
         /\ \A x \in S : \E n \in 1 .. Cardinality(S) : Listed(S, less)[n] = x
         /\ \A m, n \in 1 .. Cardinality(S) :
              m < n => <<Listed(S, less)[m], Listed(S, less)[n]>> \in less
<1> DEFINE Place(x) == Cardinality({y \in S : <<y, x>> \in less}) + 1
           N == Cardinality(S)
           L == Listed(S, less)
<1>1. /\ \A x \in S : Place(x) \in 1 .. N
      /\ \A x, y \in S : <<x, y>> \in less => Place(x) < Place(y)
      /\ \A x, y \in S : Place(x) = Place(y) => x = y
      /\ \A n \in 1 .. N : \E x \in S : Place(x) = n
  BY PlaceOfMember
<1>2. N \in Nat
  BY FS_CardinalityType
<1>3. L = [n \in 1 .. N |-> CHOOSE x \in S : Place(x) = n]
  BY DEF Listed
<1> HIDE DEF Place, N, L
<1>4. \A n \in 1 .. N : L[n] \in S /\ Place(L[n]) = n
  BY <1>1, <1>3
<1>5. L \in [1 .. N -> S]
  BY <1>3, <1>4
<1>6. \A x \in S : L[Place(x)] = x
  BY <1>1, <1>4
<1>7. ASSUME NEW m \in 1 .. N, NEW n \in 1 .. N, m < n
      PROVE  <<L[m], L[n]>> \in less
  <2>1. L[m] \in S /\ L[n] \in S /\ Place(L[m]) = m /\ Place(L[n]) = n
    BY <1>4
  <2>2. L[m] # L[n]
    BY <2>1, <1>2, <1>7
  <2>3. <<L[m], L[n]>> \in less \/ <<L[n], L[m]>> \in less
    BY <2>1, <2>2 DEF Orders
  <2>4. ~(<<L[n], L[m]>> \in less)
    BY <2>1, <1>1, <1>2, <1>7
  <2> QED BY <2>3, <2>4
<1>8. \A x \in S : \E n \in 1 .. N : L[n] = x
  BY <1>1, <1>6
<1> QED BY <1>2, <1>5, <1>7, <1>8 DEF N, L

\* A filter keeps the order of the indices.
LEMMA FilteredInOrder ==
  ASSUME NEW length \in Nat, NEW S \in SUBSET (1 .. length)
  PROVE  /\ Cardinality(S) \in Nat
         /\ Filtered(S) \in [1 .. Cardinality(S) -> S]
         /\ \A x \in S : \E n \in 1 .. Cardinality(S) : Filtered(S)[n] = x
         /\ \A m, n \in 1 .. Cardinality(S) : m < n => Filtered(S)[m] < Filtered(S)[n]
<1> DEFINE less == {p \in S \X S : p[1] < p[2]}
<1>1. IsFiniteSet(S)
  <2>1. IsFiniteSet(1 .. length)
    BY FS_Interval
  <2> QED BY <2>1, FS_Subset
<1>2. \A x, y \in S : <<x, y>> \in less <=> x < y
  OBVIOUS
<1>3. \A x \in S : x \in Int
  OBVIOUS
<1>4. Filtered(S) = Listed(S, less)
  BY DEF Filtered
<1> HIDE DEF less
<1>5. Orders(S, less)
  BY <1>2, <1>3 DEF Orders
<1>6. /\ Cardinality(S) \in Nat
      /\ Filtered(S) \in [1 .. Cardinality(S) -> S]
      /\ \A x \in S : \E n \in 1 .. Cardinality(S) : Filtered(S)[n] = x
      /\ \A m, n \in 1 .. Cardinality(S) : m < n => <<Filtered(S)[m], Filtered(S)[n]>> \in less
  BY <1>1, <1>4, <1>5, ListedInOrder
<1> QED BY <1>2, <1>6

-----------------------------------------------------------------------------
(* The audit rounds *)

\* A list in the order of severity and place.
InOrder(list) == \A m, n \in DOMAIN list : m < n => ~Above(list[n], list[m])

LEMMA RankPairs ==
  ASSUME NEW list, NEW i \in DOMAIN list, NEW j \in DOMAIN list
  PROVE  <<i, j>> \in Ranking(list) <=>
           Above(list[i], list[j]) \/ (~Above(list[j], list[i]) /\ i < j)
<1> DEFINE p == <<i, j>>
<1>1. p \in (DOMAIN list) \X (DOMAIN list) /\ p[1] = i /\ p[2] = j
  OBVIOUS
<1> HIDE DEF p
<1>2. p \in Ranking(list) <=>
        Above(list[p[1]], list[p[2]]) \/ (~Above(list[p[2]], list[p[1]]) /\ p[1] < p[2])
  BY <1>1 DEF Ranking
<1>3. p \in Ranking(list) <=>
        Above(list[i], list[j]) \/ (~Above(list[j], list[i]) /\ i < j)
  BY <1>1, <1>2
<1> QED BY <1>3 DEF p

LEMMA RankOrders ==
  ASSUME NEW list \in Seq(Findings)
  PROVE  Orders(DOMAIN list, Ranking(list))
<1> DEFINE D == DOMAIN list
<1>1. D = 1 .. Len(list) /\ Len(list) \in Nat
  OBVIOUS
<1>2. \A i \in D : list[i].severity \in Int /\ list[i].place \in Int /\ i \in Int
  BY <1>1, FindingsAssumption
<1>3. \A i, j \in D : <<i, j>> \in Ranking(list) <=>
           Above(list[i], list[j]) \/ (~Above(list[j], list[i]) /\ i < j)
  BY RankPairs
<1> HIDE DEF D
<1>4. \A x \in D : <<x, x>> \notin Ranking(list)
  BY <1>2, <1>3 DEF Above
<1>5. \A x, y \in D : x # y => <<x, y>> \in Ranking(list) \/ <<y, x>> \in Ranking(list)
  BY <1>2, <1>3
<1>6. ASSUME NEW x \in D, NEW y \in D, NEW z \in D,
             <<x, y>> \in Ranking(list), <<y, z>> \in Ranking(list)
      PROVE  <<x, z>> \in Ranking(list)
  <2> DEFINE Le(i, j) == \/ list[i].severity < list[j].severity
                         \/ /\ list[i].severity = list[j].severity
                            /\ \/ list[i].place < list[j].place
                               \/ list[i].place = list[j].place /\ i < j
  <2>1. \A i, j \in D : <<i, j>> \in Ranking(list) <=> Le(i, j)
    <3>1. ASSUME NEW i \in D, NEW j \in D
          PROVE  <<i, j>> \in Ranking(list) <=> Le(i, j)
      <4>1. <<i, j>> \in Ranking(list) <=>
              Above(list[i], list[j]) \/ (~Above(list[j], list[i]) /\ i < j)
        BY <1>3
      <4>2. /\ list[i].severity \in Int /\ list[i].place \in Int /\ i \in Int
            /\ list[j].severity \in Int /\ list[j].place \in Int /\ j \in Int
        BY <1>2
      <4>3. Above(list[i], list[j]) \/ (~Above(list[j], list[i]) /\ i < j) <=> Le(i, j)
        BY <4>2 DEF Above
      <4> QED BY <4>1, <4>3
    <3> QED BY <3>1
  <2>2. Le(x, y) /\ Le(y, z)
    BY <1>6, <2>1
  <2>3. Le(x, z)
    BY <2>2, <1>2
  <2> QED BY <2>1, <2>3
<1> QED BY <1>4, <1>5, <1>6 DEF Orders, D

\* Numbering the findings loses none, invents none and sorts them.
LEMMA AssignKeepsFindings ==
  ASSUME NEW list \in Seq(Findings)
  PROVE  /\ AssignFindingIds(list) \in Seq(Findings)
         /\ InOrder(AssignFindingIds(list))
         /\ \A n \in DOMAIN list :
              \E m \in DOMAIN AssignFindingIds(list) : AssignFindingIds(list)[m] = list[n]
<1> DEFINE D == DOMAIN list
           N == Cardinality(D)
           order == Listed(D, Ranking(list))
           ids == AssignFindingIds(list)
<1>1. IsFiniteSet(D)
  <2>1. D = 1 .. Len(list) /\ Len(list) \in Int
    OBVIOUS
  <2> QED BY <2>1, FS_Interval
<1>2. Orders(D, Ranking(list))
  BY RankOrders
<1>3. /\ N \in Nat
      /\ order \in [1 .. N -> D]
      /\ \A x \in D : \E n \in 1 .. N : order[n] = x
      /\ \A m, n \in 1 .. N : m < n => <<order[m], order[n]>> \in Ranking(list)
  BY <1>1, <1>2, ListedInOrder
<1>4. ids = [n \in DOMAIN order |-> list[order[n]]]
  BY DEF AssignFindingIds
<1> HIDE DEF N, order, ids
<1>5. ids = [n \in 1 .. N |-> list[order[n]]]
  BY <1>3, <1>4
<1>6. \A n \in 1 .. N : order[n] \in D /\ list[order[n]] \in Findings
  <2>1. \A d \in D : list[d] \in Findings
    OBVIOUS
  <2> HIDE DEF D
  <2> QED BY <1>3, <2>1
<1>7. ids \in Seq(Findings)
  <2>1. ids \in [1 .. N -> Findings]
    BY <1>5, <1>6
  <2> QED BY <2>1, <1>3
<1>8. InOrder(ids)
  <2>1. ASSUME NEW m \in 1 .. N, NEW n \in 1 .. N, m < n
        PROVE  ~Above(ids[n], ids[m])
    <3>1. <<order[m], order[n]>> \in Ranking(list)
      BY <1>3, <2>1
    <3>2. \/ Above(list[order[m]], list[order[n]])
          \/ ~Above(list[order[n]], list[order[m]])
      BY <3>1, <1>6, RankPairs
    <3>3. /\ list[order[m]].severity \in Int /\ list[order[m]].place \in Int
          /\ list[order[n]].severity \in Int /\ list[order[n]].place \in Int
      BY <1>6, FindingsAssumption
    <3>4. ~Above(list[order[n]], list[order[m]])
      BY <3>2, <3>3 DEF Above
    <3> QED BY <3>4, <1>5
  <2>2. DOMAIN ids = 1 .. N
    BY <1>5
  <2> QED BY <2>1, <2>2 DEF InOrder
<1>9. \A n \in D : \E m \in DOMAIN ids : ids[m] = list[n]
  <2>1. \A n \in D : \E m \in 1 .. N : order[m] = n
    BY <1>3
  <2> HIDE DEF D
  <2> QED BY <2>1, <1>5
<1> QED BY <1>7, <1>8, <1>9 DEF ids

\* A list in order is numbered as it stands.
LEMMA AssignKeepsOrder ==
  ASSUME NEW list \in Seq(Findings), InOrder(list)
  PROVE  AssignFindingIds(list) = list
<1> DEFINE D == DOMAIN list
           Below(x) == {y \in D : <<y, x>> \in Ranking(list)}
           order == Listed(D, Ranking(list))
<1>1. D = 1 .. Len(list) /\ Len(list) \in Nat
  OBVIOUS
<1>2. Cardinality(D) = Len(list)
  BY <1>1, FS_Interval
<1>3. \A x \in D : \A y \in D : <<y, x>> \in Ranking(list) <=> y < x
  <2>1. ASSUME NEW x \in D, NEW y \in D PROVE <<y, x>> \in Ranking(list) <=> y < x
    <3>1. <<y, x>> \in Ranking(list) <=>
            Above(list[y], list[x]) \/ (~Above(list[x], list[y]) /\ y < x)
      BY RankPairs
    <3>2. CASE y < x
      BY <3>1, <3>2 DEF InOrder
    <3>3. CASE x < y
      BY <3>1, <3>3, <1>1 DEF InOrder
    <3>4. CASE x = y
      <4>1. list[x] \in Findings
        OBVIOUS
      <4>2. ~Above(list[x], list[x])
        BY <4>1, FindingsAssumption DEF Above
      <4> QED BY <3>1, <3>4, <4>2, <1>1
    <3> QED BY <3>2, <3>3, <3>4, <1>1
  <2> QED BY <2>1
<1>4. \A x \in D : Cardinality(Below(x)) + 1 = x
  <2>1. ASSUME NEW x \in D PROVE Cardinality(Below(x)) + 1 = x
    <3>1. Below(x) = 1 .. (x - 1)
      BY <1>1, <1>3
    <3>2. x - 1 \in Int /\ x \in Nat /\ x >= 1
      BY <1>1
    <3>3. Cardinality(1 .. (x - 1)) = x - 1
      BY <3>2, FS_Interval
    <3> HIDE DEF Below
    <3> QED BY <3>1, <3>2, <3>3
  <2> QED BY <2>1
<1>5. order = [n \in D |-> CHOOSE x \in D : Cardinality(Below(x)) + 1 = n]
  BY <1>1, <1>2 DEF Listed
<1> HIDE DEF Below
<1>6. order = [n \in D |-> n]
  BY <1>4, <1>5
<1>7. AssignFindingIds(list) = [n \in DOMAIN order |-> list[order[n]]]
  BY DEF AssignFindingIds
<1> HIDE DEF order
<1>8. AssignFindingIds(list) = [n \in D |-> list[n]]
  BY <1>6, <1>7
<1> QED BY <1>8

\* Between two rounds the findings that are not settled are kept, and the new
\* ones are added.
LEMMA EvolveKeepsFindings ==
  ASSUME NEW prior \in Seq(Findings), NEW status, NEW new \in Seq(Findings),
         NEW evolved, evolved = EvolveCanonical(prior, status, new)
  PROVE  /\ evolved \in Seq(Findings)
         /\ \A n \in DOMAIN new : \E m \in DOMAIN evolved : evolved[m] = new[n]
         /\ \A n \in DOMAIN prior :
              (n \in DOMAIN status => status[n] \notin Settling) =>
              \E m \in DOMAIN evolved : evolved[m] = prior[n]
<1> DEFINE kept == {n \in DOMAIN prior : n \in DOMAIN status => status[n] \notin Settling}
           N == Cardinality(kept)
           order == Filtered(kept)
           old == [n \in DOMAIN order |-> prior[order[n]]]
<1>1. DOMAIN prior = 1 .. Len(prior) /\ Len(prior) \in Nat
  OBVIOUS
<1>2. kept \in SUBSET (1 .. Len(prior))
  BY <1>1
<1>3. evolved = old \o new
  BY DEF EvolveCanonical
<1>4. \A n \in kept : n \in DOMAIN prior /\ prior[n] \in Findings
  OBVIOUS
<1>5. \A n \in DOMAIN prior :
        (n \in DOMAIN status => status[n] \notin Settling) => n \in kept
  OBVIOUS
<1> HIDE DEF kept
<1>6. /\ N \in Nat
      /\ order \in [1 .. N -> kept]
      /\ \A x \in kept : \E n \in 1 .. N : order[n] = x
  BY <1>1, <1>2, FilteredInOrder
<1> HIDE DEF N, order
<1>7. old = [n \in 1 .. N |-> prior[order[n]]]
  BY <1>6
<1> HIDE DEF old
<1>8. old \in Seq(Findings) /\ Len(old) = N
  <2>1. old \in [1 .. N -> Findings]
    BY <1>4, <1>6, <1>7
  <2> QED BY <2>1, <1>6
<1>9. evolved \in Seq(Findings)
  BY <1>3, <1>8
<1>10. ASSUME NEW n \in DOMAIN new
       PROVE  \E m \in DOMAIN evolved : evolved[m] = new[n]
  <2>1. N + n \in DOMAIN evolved /\ evolved[N + n] = new[n]
    BY <1>3, <1>6, <1>8
  <2> QED BY <2>1
<1>11. ASSUME NEW n \in kept
       PROVE  \E m \in DOMAIN evolved : evolved[m] = prior[n]
  <2>1. PICK m \in 1 .. N : order[m] = n
    BY <1>6
  <2>2. m \in DOMAIN evolved /\ evolved[m] = old[m]
    BY <1>3, <1>6, <1>8
  <2>3. old[m] = prior[n]
    BY <1>7, <2>1
  <2> QED BY <2>2, <2>3
<1> QED BY <1>5, <1>9, <1>10, <1>11

\* Besides what is carried: the list is in order, so that the numbers a gate
\* is shown are those its answer is read by, and nothing is raised before the
\* first answer.
AuditInv ==
  /\ round \in Nat \ {0}
  /\ canonical \in Seq(Findings) /\ InOrder(canonical)
  /\ round = 1 /\ verdict = "open" => raised = {}
  /\ FindingsCarried

LEMMA AuditInitial == AuditInit => AuditInv
  BY DEF AuditInit, AuditInv, InOrder, FindingsCarried

\* What an answer says, the answer of a crashed gate included.
LEMMA AnswerTold ==
  ASSUME NEW answer \in Answers
  PROVE  Told(answer).new \in Seq(Findings)
<1>1. CASE answer = NoAnswer
  <2>1. Told(answer).new = <<>>
    BY <1>1 DEF Told
  <2> QED BY <2>1
<1>2. CASE answer # NoAnswer
  <2>1. Told(answer) = answer
    BY <1>2 DEF Told
  <2>2. PICK n \in 0 .. MaxNew : answer.new \in [1 .. n -> Findings \ raised]
    BY <1>2 DEF Answers
  <2>3. n \in Nat
    BY <2>2
  <2>4. answer.new \in [1 .. n -> Findings]
    BY <2>2
  <2> QED BY <2>1, <2>3, <2>4
<1> QED BY <1>1, <1>2

\* The list the first round leaves holds all that its gate found.
LEMMA FirstRoundCarries ==
  ASSUME AuditInv, verdict = "open", round = 1, NEW answer \in Answers
  PROVE  LET outcome == CanonicalRound(answer)
             gate == Told(answer)
         IN  /\ outcome.list \in Seq(Findings) /\ InOrder(outcome.list)
             /\ \A f \in raised \cup {gate.new[n] : n \in DOMAIN gate.new} :
                  /\ \E n \in DOMAIN outcome.list : outcome.list[n] = f
                  /\ outcome.ok => ~IsBlocking(f)
<1> DEFINE gate == Told(answer)
           outcome == CanonicalRound(answer)
<1>1. outcome = [list |-> AssignFindingIds(gate.new), ok |-> GateApproved(answer)]
  BY DEF CanonicalRound
<1>2. gate.new \in Seq(Findings)
  BY AnswerTold
<1>3. raised = {}
  BY DEF AuditInv
<1>4. outcome.ok => gate = answer
  BY <1>1 DEF GateApproved, Told
<1>5. outcome.ok => \A n \in DOMAIN gate.new : ~IsBlocking(gate.new[n])
  BY <1>1, <1>4 DEF GateApproved
<1> HIDE DEF gate, outcome
<1>6. /\ AssignFindingIds(gate.new) \in Seq(Findings)
      /\ InOrder(AssignFindingIds(gate.new))
      /\ \A n \in DOMAIN gate.new :
           \E m \in DOMAIN AssignFindingIds(gate.new) : AssignFindingIds(gate.new)[m] = gate.new[n]
  BY <1>2, AssignKeepsFindings
<1>7. outcome.list = AssignFindingIds(gate.new)
  BY <1>1
<1> QED BY <1>3, <1>5, <1>6, <1>7 DEF gate, outcome

\* A later round drops what the gate settled, by number, and nothing else.
LEMMA LaterRoundCarries ==
  ASSUME AuditInv, delta, verdict = "open", round # 1, NEW answer \in Answers
  PROVE  LET outcome == CanonicalRound(answer)
             gate == Told(answer)
             done == settled \cup {canonical[n] : n \in {m \in DOMAIN gate.status :
                                                         gate.status[m] \in Settling}}
         IN  /\ outcome.list \in Seq(Findings) /\ InOrder(outcome.list)
             /\ \A f \in (raised \cup {gate.new[n] : n \in DOMAIN gate.new}) \ done :
                  /\ \E n \in DOMAIN outcome.list : outcome.list[n] = f
                  /\ outcome.ok => ~IsBlocking(f)
<1> DEFINE gate == Told(answer)
           outcome == CanonicalRound(answer)
           done == settled \cup {canonical[n] : n \in {m \in DOMAIN gate.status :
                                                       gate.status[m] \in Settling}}
           evolved == EvolveCanonical(canonical, gate.status, gate.new)
<1>1. canonical \in Seq(Findings) /\ AssignFindingIds(canonical) = canonical
  BY AssignKeepsOrder DEF AuditInv
<1>2. /\ outcome.list = AssignFindingIds(evolved)
      /\ outcome.ok = VerificationApproved(canonical, gate.status, gate.new)
  BY <1>1 DEF CanonicalRound
<1>3. gate.new \in Seq(Findings)
  BY AnswerTold
<1>4. \A n \in DOMAIN canonical : canonical[n] \notin done =>
        (n \in DOMAIN gate.status => gate.status[n] \notin Settling)
  OBVIOUS
<1>5. \A f \in raised \ done : \E n \in DOMAIN canonical : canonical[n] = f
  BY DEF AuditInv, FindingsCarried
<1> HIDE DEF gate, outcome, done, evolved
<1>6. /\ evolved \in Seq(Findings)
      /\ \A n \in DOMAIN gate.new : \E m \in DOMAIN evolved : evolved[m] = gate.new[n]
      /\ \A n \in DOMAIN canonical :
           (n \in DOMAIN gate.status => gate.status[n] \notin Settling) =>
           \E m \in DOMAIN evolved : evolved[m] = canonical[n]
  <2> DEFINE status == gate.status
             new == gate.new
  <2>1. new \in Seq(Findings)
    BY <1>3
  <2>2. evolved = EvolveCanonical(canonical, status, new)
    BY DEF evolved
  <2> HIDE DEF status, new
  <2>3. /\ evolved \in Seq(Findings)
        /\ \A n \in DOMAIN new : \E m \in DOMAIN evolved : evolved[m] = new[n]
        /\ \A n \in DOMAIN canonical :
             (n \in DOMAIN status => status[n] \notin Settling) =>
             \E m \in DOMAIN evolved : evolved[m] = canonical[n]
    BY <1>1, <2>1, <2>2, EvolveKeepsFindings
  <2> QED BY <2>3 DEF status, new
<1>7. /\ AssignFindingIds(evolved) \in Seq(Findings)
      /\ InOrder(AssignFindingIds(evolved))
      /\ \A n \in DOMAIN evolved :
           \E m \in DOMAIN AssignFindingIds(evolved) : AssignFindingIds(evolved)[m] = evolved[n]
  BY <1>6, AssignKeepsFindings
<1>8. ASSUME NEW f \in (raised \cup {gate.new[n] : n \in DOMAIN gate.new}) \ done
      PROVE  /\ \E n \in DOMAIN outcome.list : outcome.list[n] = f
             /\ outcome.ok => ~IsBlocking(f)
  <2>1. CASE f \in {gate.new[n] : n \in DOMAIN gate.new}
    <3>1. PICK n \in DOMAIN gate.new : gate.new[n] = f
      BY <2>1
    <3>2. \E m \in DOMAIN evolved : evolved[m] = f
      BY <1>6, <3>1
    <3>3. outcome.ok => ~IsBlocking(f)
      BY <1>2, <3>1 DEF VerificationApproved
    <3> QED BY <1>2, <1>7, <3>2, <3>3
  <2>2. CASE f \in raised
    <3>1. PICK n \in DOMAIN canonical : canonical[n] = f
      BY <1>5, <1>8, <2>2
    <3>2. n \in DOMAIN gate.status => gate.status[n] \notin Settling
      BY <1>4, <1>8, <3>1
    <3>3. \E m \in DOMAIN evolved : evolved[m] = f
      BY <1>6, <3>1, <3>2
    <3>4. outcome.ok => ~IsBlocking(f)
      BY <1>2, <3>1, <3>2 DEF VerificationApproved
    <3> QED BY <1>2, <1>7, <3>3, <3>4
  <2> QED BY <1>8, <2>1, <2>2
<1>9. outcome.list \in Seq(Findings) /\ InOrder(outcome.list)
  BY <1>2, <1>7
<1> QED BY <1>8, <1>9 DEF gate, outcome, done

LEMMA AuditInductive == AuditInv /\ [AuditNext]_auditVars => AuditInv'
<1> SUFFICES ASSUME AuditInv, [AuditNext]_auditVars
             PROVE  AuditInv'
  OBVIOUS
<1>1. CASE Review
  <2>1. PICK answer \in Answers :
          /\ canonical' = Judged(answer).list
          /\ verdict' = IF Judged(answer).ok THEN "approved"
                        ELSE IF round = MaxRounds THEN "blocked" ELSE "open"
          /\ round' = IF Judged(answer).ok \/ round = MaxRounds THEN round ELSE round + 1
          /\ IF answer = NoAnswer THEN UNCHANGED <<raised, settled>>
             ELSE /\ raised' = raised \cup {answer.new[n] : n \in DOMAIN answer.new}
                  /\ settled' = settled \cup
                       {canonical[n] : n \in {m \in DOMAIN answer.status :
                                              answer.status[m] \in Settling}}
    BY <1>1 DEF Review
  <2> DEFINE gate == Told(answer)
             outcome == Judged(answer)
             done == settled \cup {canonical[n] : n \in {m \in DOMAIN gate.status :
                                                         gate.status[m] \in Settling}}
             found == raised \cup {gate.new[n] : n \in DOMAIN gate.new}
  <2>2. verdict = "open" /\ delta' = delta
    BY <1>1 DEF Review
  <2>3. raised' = found /\ settled' = done
    <3>1. CASE answer = NoAnswer
      <4>1. gate = [new |-> <<>>, status |-> <<>>]
        BY <3>1 DEF Told
      <4>2. found = raised /\ done = settled
        BY <4>1
      <4> QED BY <4>2, <3>1, <2>1
    <3>2. CASE answer # NoAnswer
      BY <3>2, <2>1 DEF Told
    <3> QED BY <3>1, <3>2
  <2>4. settled \subseteq done
    OBVIOUS
  <2>5. /\ outcome.list \in Seq(Findings) /\ InOrder(outcome.list)
        /\ delta => \A f \in found \ done :
             /\ \E n \in DOMAIN outcome.list : outcome.list[n] = f
             /\ outcome.ok => ~IsBlocking(f)
    <3>1. CASE ~delta
      <4>1. outcome.list = <<>>
        BY <3>1 DEF Judged
      <4> QED BY <3>1, <4>1 DEF InOrder
    <3>2. CASE delta /\ round = 1
      BY <3>2, <2>2, FirstRoundCarries DEF Judged
    <3>3. CASE delta /\ round # 1
      BY <3>3, <2>2, LaterRoundCarries DEF Judged
    <3> QED BY <3>1, <3>2, <3>3
  <2> HIDE DEF gate, outcome, done, found
  <2>6. /\ canonical' = outcome.list
        /\ verdict' = "approved" => outcome.ok
        /\ round' \in Nat \ {0}
        /\ ~(round' = 1 /\ verdict' = "open")
    BY <2>1 DEF AuditInv, outcome
  <2>7. FindingsCarried'
    BY <2>2, <2>3, <2>5, <2>6 DEF FindingsCarried
  <2>8. canonical' \in Seq(Findings) /\ InOrder(canonical')
    BY <2>5, <2>6
  <2> QED BY <2>6, <2>7, <2>8 DEF AuditInv
<1>2. CASE UNCHANGED auditVars
  BY <1>2 DEF auditVars, AuditInv, FindingsCarried
<1> QED BY <1>1, <1>2 DEF AuditNext

(* For any findings, rounds and answers, crashed gates included: between   *)
(* its rounds a group loses no finding that nobody settled, and with one   *)
(* of them blocking it is not approved.                                    *)
THEOREM CarriedTheorem == AuditSpec => []FindingsCarried
<1>1. AuditInv => FindingsCarried
  BY DEF AuditInv
<1> QED BY <1>1, AuditInitial, AuditInductive, PTL DEF AuditSpec

-----------------------------------------------------------------------------
(* The flow script *)

\* While the script runs its file is a valid one, the phases it has passed
\* have published what they do publish, and the helper a gate calls is there
\* as soon as one loop goes on until the gate approves.
ScriptRuns ==
  /\ next \in Nat
  /\ ValidateFlowYaml(flow)
  /\ \A i \in Nat \ {0} :
       i < next /\ ~Grouped(i) /\ "raw" \notin flow.phases[i].run =>
         Publishes(flow.phases[i]) \subseteq values
  /\ (\E l \in flow.loops : l.until) => "_gateApproved" \in scope

PhasesFromOne == DOMAIN flow.phases \subseteq Nat \ {0}

ScriptInv ==
  /\ PhasesFromOne
  /\ stage \in {"read", "written", "running"} => ended.how = "not"
  /\ stage \in {"read", "written"} => next = 1
  /\ stage = "written" => ValidateFlowYaml(flow)
  /\ stage = "running" => ScriptRuns
  /\ ValidFlowRuns

LEMMA ScriptInitial == ScriptInit => ScriptInv
  BY FlowsAssumption DEF ScriptInit, ScriptInv, ValidFlowRuns, PhasesFromOne

\* What a phase misses of the names it takes is a built-in input, or a name
\* that an earlier phase claims and did not publish.
LEMMA MissingOnTrust ==
  ASSUME ScriptRuns, next \in DOMAIN flow.phases,
         NEW name \in flow.phases[next].require \cup
               (IF flow.phases[next].worktree = "finalize" THEN {"worktreePath"} ELSE {}),
         name \notin values
  PROVE  name \in BuiltinInputs \cup UNION {TakenOnTrust(i) : i \in 1 .. next - 1}
<1> DEFINE ph == flow.phases[next]
<1>1. next \in Nat
  BY DEF ScriptRuns
<1>2. ContractOk(flow, next)
  BY DEF ScriptRuns, ValidateFlowYaml
<1>3. ASSUME NEW j \in 1 .. next - 1, name \in Claims(flow.phases[j])
      PROVE  name \in TakenOnTrust(j)
  <2>1. j \in Nat \ {0} /\ j < next
    BY <1>1, <1>3
  <2>2. CASE Grouped(j) \/ "raw" \in flow.phases[j].run
    BY <2>2, <1>3 DEF TakenOnTrust
  <2>3. CASE ~Grouped(j) /\ "raw" \notin flow.phases[j].run
    <3>1. Publishes(flow.phases[j]) \subseteq values
      BY <2>1, <2>3 DEF ScriptRuns
    <3>2. name \notin Publishes(flow.phases[j])
      BY <3>1
    <3> QED BY <3>2, <1>3, <2>3 DEF TakenOnTrust
  <2> QED BY <2>2, <2>3
<1>4. CASE name \in flow.phases[next].require
  <2>1. name \in AvailableBefore(flow, next)
    BY <1>2, <1>4 DEF ContractOk
  <2>2. CASE name \notin BuiltinInputs
    <3>1. PICK j \in 1 .. next - 1 : name \in PublishedNames(flow.phases[j])
      BY <2>1, <2>2 DEF AvailableBefore
    <3>2. name \in Claims(flow.phases[j])
      BY <3>1 DEF Claims
    <3> QED BY <3>2, <1>3
  <2> QED BY <2>2
<1>5. CASE name = "worktreePath" /\ flow.phases[next].worktree = "finalize"
  <2>1. PICK j \in 1 .. next - 1 : flow.phases[j].worktree = "prepare"
    BY <1>2, <1>5 DEF ContractOk
  <2>2. name \in Claims(flow.phases[j])
    BY <2>1, <1>5 DEF Claims
  <2> QED BY <2>2, <1>3
<1> QED BY <1>4, <1>5

LEMMA ConstantsAre ==
  ASSUME NEW ph
  PROVE  AllConstants(ph) =
           ph.require \cup Handles(ph) \cup (IF ProducesOut(ph) THEN {ph.out} ELSE {})
<1>1. /\ Constants(ph, "required") = ph.require
      /\ Constants(ph, "handle") = Handles(ph)
      /\ Constants(ph, "out") = IF ProducesOut(ph) THEN {ph.out} ELSE {}
  BY DEF Constants
<1>2. AllConstants(ph) =
        Constants(ph, "required") \cup Constants(ph, "handle") \cup Constants(ph, "out")
  BY DEF AllConstants, Sorts
<1> QED BY <1>1, <1>2

\* The constants a phase's epilogue refers to are declared, but for the out of
\* a phase that has no answer of its own.
LEMMA UndefinedIsOut ==
  ASSUME ScriptRuns, next \in DOMAIN flow.phases,
         NEW name \in Declared(flow.phases[next]),
         NEW ref \in Reference(flow.phases[next].publish[name]),
         ref \notin scope \cup AllConstants(flow.phases[next])
  PROVE  /\ ref \in Some(flow.phases[next].out)
         /\ ~ProducesOut(flow.phases[next])
<1> DEFINE ph == flow.phases[next]
           value == ph.publish[name]
<1>1. PublishOk(ph)
  BY DEF ScriptRuns, ValidateFlowYaml, ContractOk
<1>0. ref \notin ph.require /\ ref \notin Handles(ph) /\ (ProducesOut(ph) => ref # ph.out)
  BY ConstantsAre
<1>2. CASE value = "{{dir}}"
  <2>1. ph.dir
    BY <1>1, <1>2 DEF PublishOk
  <2>2. ref = "_dir"
    BY <1>2 DEF Reference
  <2> QED BY <2>1, <2>2, <1>0 DEF Handles
<1>3. CASE value = "{{slug}}"
  <2>1. ph.slug
    BY <1>1, <1>3 DEF PublishOk
  <2>2. ref = "slug"
    BY <1>3 DEF Reference
  <2> QED BY <2>1, <2>2, <1>0 DEF Handles
<1>4. CASE value = "1"
  BY <1>4 DEF Reference
<1>5. CASE value \notin {"{{dir}}", "{{slug}}", "1"}
  <2>1. value \in Some(ph.out) \cup ph.require
    BY <1>1, <1>5 DEF PublishOk
  <2>2. ref = value
    BY <1>5 DEF Reference
  <2>4. ref \in Some(ph.out)
    BY <2>1, <2>2, <1>0
  <2>5. ref = ph.out
    BY <2>4 DEF Some
  <2> QED BY <2>4, <2>5, <1>0
<1> QED BY <1>2, <1>3, <1>4, <1>5

LEMMA ScriptLoaded ==
  ASSUME ScriptInv, LoadFlowYaml
  PROVE  ScriptInv'
<1>1. next = 1 /\ ended.how = "not"
  BY DEF ScriptInv, LoadFlowYaml
<1>2. CASE ValidateFlowYaml(flow)
  <2>1. stage' = "written" /\ UNCHANGED <<flow, strict, next, values, scope, ended>>
    BY <1>2 DEF LoadFlowYaml
  <2>2. ValidateFlowYaml(flow)'
    BY <1>2, <2>1
  <2>3. ValidFlowRuns'
    BY <1>1, <2>1 DEF ValidFlowRuns
  <2> QED BY <1>1, <2>1, <2>2, <2>3 DEF ScriptInv, PhasesFromOne
<1>3. CASE ~ValidateFlowYaml(flow)
  BY <1>3 DEF LoadFlowYaml, End, ScriptInv, ValidFlowRuns, PhasesFromOne
<1> QED BY <1>2, <1>3

\* Of two places that declare a name, one is not an out: validation refuses
\* the second of two outs.
LEMMA NotTwoOuts ==
  ASSUME ValidateFlowYaml(flow), PhasesFromOne, NEW name \in DeclaredTwice
  PROVE  \E i \in DOMAIN flow.phases, role \in {"required", "handle"} : Declares(i, role, name)
<1>1. PICK i \in DOMAIN flow.phases, j \in DOMAIN flow.phases, r \in Sorts, s \in Sorts :
        <<i, r>> # <<j, s>> /\ Declares(i, r, name) /\ Declares(j, s, name)
  BY DEF DeclaredTwice
<1>2. CASE r # "out"
  <2>1. r \in {"required", "handle"}
    BY <1>2 DEF Sorts
  <2> QED BY <1>1, <2>1
<1>3. CASE s # "out"
  <2>1. s \in {"required", "handle"}
    BY <1>3 DEF Sorts
  <2> QED BY <1>1, <2>1
<1>4. CASE r = "out" /\ s = "out"
  <2>1. /\ i # j
        /\ name = flow.phases[i].out /\ name = flow.phases[j].out /\ name # None
    BY <1>1, <1>4 DEF Declares, Constants, ProducesOut
  <2>2. ASSUME NEW k \in DOMAIN flow.phases, NEW l \in DOMAIN flow.phases, k < l,
               name = flow.phases[k].out, name = flow.phases[l].out
        PROVE  FALSE
    <3>1. PhaseOk(flow, l)
      BY DEF ValidateFlowYaml
    <3>2. k \in 1 .. l - 1
      BY <2>2 DEF PhasesFromOne
    <3>3. name \in UNION {Some(flow.phases[m].out) : m \in 1 .. l - 1}
      BY <2>1, <2>2, <3>2 DEF Some
    <3> QED BY <3>1, <3>3, <2>2 DEF PhaseOk
  <2>3. i < j \/ j < i
    BY <2>1 DEF PhasesFromOne
  <2> QED BY <2>1, <2>2, <2>3
<1> QED BY <1>2, <1>3, <1>4

LEMMA ScriptStarted ==
  ASSUME ScriptInv, StartScript
  PROVE  ScriptInv'
<1>1. /\ next = 1 /\ ended.how = "not" /\ ValidateFlowYaml(flow)
      /\ UNCHANGED <<flow, strict, next, values>>
  BY DEF ScriptInv, StartScript
<1>2. CASE ~(strict /\ DeclaredTwice # {})
  <2>1. /\ stage' = "running" /\ ended' = ended
        /\ (\E l \in flow.loops : l.until) => "_gateApproved" \in scope'
    BY <1>2 DEF StartScript
  <2>2. ScriptRuns'
    BY <1>1, <2>1 DEF ScriptRuns
  <2>3. ValidFlowRuns'
    BY <1>1, <2>1 DEF ValidFlowRuns
  <2> QED BY <1>1, <2>1, <2>2, <2>3 DEF ScriptInv, PhasesFromOne
<1>3. CASE strict /\ DeclaredTwice # {}
  <2>1. stage' = "over" /\ ended' = [how |-> "syntax", names |-> DeclaredTwice]
    BY <1>3 DEF StartScript, End
  <2>2. ASSUME NEW name \in DeclaredTwice
        PROVE  (\E i \in DOMAIN flow.phases, role \in {"required", "handle"} :
                  Declares(i, role, name))'
    <3>1. PICK i \in DOMAIN flow.phases, role \in {"required", "handle"} :
            Declares(i, role, name)
      BY <1>1, NotTwoOuts DEF ScriptInv
    <3>2. Declares(i, role, name)'
      BY <1>1, <3>1 DEF Declares, Grouped
    <3> QED BY <1>1, <3>2
  <2>3. ValidFlowRuns'
    BY <2>1, <2>2 DEF ValidFlowRuns
  <2> QED BY <1>1, <2>1, <2>3 DEF ScriptInv, PhasesFromOne
<1> QED BY <1>2, <1>3

\* The script goes on to its next phase, which leaves nothing unpublished.
LEMMA ScriptGoesOn ==
  ASSUME ScriptInv, stage = "running", next' = next + 1,
         UNCHANGED <<flow, strict, stage, ended>>,
         values \subseteq values', scope \subseteq scope',
         \/ Grouped(next) \/ "raw" \in flow.phases[next].run
         \/ Publishes(flow.phases[next]) \subseteq values'
  PROVE  ScriptInv'
<1>1. ScriptRuns /\ ended.how = "not" /\ next \in Nat
  BY DEF ScriptInv, ScriptRuns
<1>2. ASSUME NEW i \in Nat \ {0}, i < next',
             ~Grouped(i), "raw" \notin flow.phases[i].run
      PROVE  Publishes(flow.phases[i]) \subseteq values'
  <2>1. CASE i = next
    BY <2>1, <1>2
  <2>2. CASE i < next
    BY <2>2, <1>1, <1>2 DEF ScriptRuns
  <2> QED BY <2>1, <2>2, <1>1, <1>2
<1>3. \A i \in Nat \ {0} :
        i < next' /\ ~Grouped(i) /\ "raw" \notin flow.phases[i].run =>
          Publishes(flow.phases[i]) \subseteq values'
  BY <1>2
<1>4. next' \in Nat
  BY <1>1
<1>5. (\E l \in flow.loops : l.until) => "_gateApproved" \in scope'
  BY <1>1 DEF ScriptRuns
<1>6. ScriptRuns'
  BY <1>1, <1>3, <1>4, <1>5 DEF ScriptRuns, Grouped
<1>7. ValidFlowRuns'
  BY <1>1 DEF ValidFlowRuns
<1> QED BY <1>1, <1>6, <1>7 DEF ScriptInv, PhasesFromOne

\* The script ends without a name that was taken on trust.
LEMMA ScriptEnds ==
  ASSUME ScriptInv, NEW how \in {"success", "not converged"}, End(how, {}), flow' = flow
  PROVE  ScriptInv'
  BY DEF ScriptInv, ValidFlowRuns, End, PhasesFromOne

LEMMA ScriptGroup ==
  ASSUME ScriptInv, RunGroup
  PROVE  ScriptInv'
<1>1. /\ stage = "running" /\ next \in DOMAIN flow.phases /\ Grouped(next)
      /\ UNCHANGED <<flow, strict, values, scope>>
  BY DEF RunGroup
<1>2. CASE next' = next + 1 /\ UNCHANGED <<stage, ended>>
  BY <1>1, <1>2, ScriptGoesOn
<1>3. CASE End("not converged", {}) /\ UNCHANGED next
  BY <1>1, <1>3, ScriptEnds
<1>4. CASE "_gateApproved" \notin scope /\ End("undefined", {"_gateApproved"}) /\ UNCHANGED next
  <2>1. ScriptRuns
    BY <1>1 DEF ScriptInv
  <2>2. \A l \in flow.loops : ~l.until
    BY <2>1, <1>4 DEF ScriptRuns
  <2>3. ValidFlowRuns'
    BY <1>1, <1>4, <2>2 DEF ValidFlowRuns, End, Grouped
  <2> QED BY <1>1, <1>4, <2>3 DEF ScriptInv, End, PhasesFromOne
<1> QED BY <1>2, <1>3, <1>4 DEF RunGroup

LEMMA ScriptPhase ==
  ASSUME ScriptInv, RunPhase
  PROVE  ScriptInv'
<1> DEFINE ph == flow.phases[next]
           needs == ph.require \cup (IF ph.worktree = "finalize" THEN {"worktreePath"} ELSE {})
           inScope == scope \cup AllConstants(ph)
           used == UNION {Reference(ph.publish[name]) : name \in Declared(ph)}
<1>1. /\ stage = "running" /\ next \in DOMAIN flow.phases
      /\ ~Grouped(next) /\ "raw" \notin ph.run /\ UNCHANGED <<flow, strict>>
  BY DEF RunPhase
<1>2. ScriptRuns
  BY <1>1 DEF ScriptInv
<1>3. CASE ~(needs \subseteq values)
  <2>1. /\ End("blocked", needs \ values) /\ UNCHANGED <<next, values, scope>>
    BY <1>3 DEF RunPhase
  <2>2. needs \ values \subseteq
          BuiltinInputs \cup UNION {TakenOnTrust(i) : i \in 1 .. next - 1}
    BY <1>1, <1>2, MissingOnTrust
  <2>3. (UNION {TakenOnTrust(i) : i \in 1 .. next - 1})' =
          UNION {TakenOnTrust(i) : i \in 1 .. next - 1}
    BY <1>1, <2>1 DEF TakenOnTrust, Grouped
  <2> HIDE DEF needs
  <2>4. ended' = [how |-> "blocked", names |-> needs \ values] /\ stage' = "over"
    BY <2>1 DEF End
  <2>5. ValidFlowRuns'
    BY <2>2, <2>3, <2>4 DEF ValidFlowRuns
  <2> QED BY <1>1, <2>4, <2>5 DEF ScriptInv, PhasesFromOne
<1>4. CASE needs \subseteq values /\ ~(used \subseteq inScope)
  <2>1. /\ End("undefined", used \ inScope) /\ UNCHANGED <<next, values, scope>>
    BY <1>4 DEF RunPhase
  <2>2. \A ref \in used \ inScope : ref \in Some(ph.out) /\ ~ProducesOut(ph)
    BY <1>1, <1>2, UndefinedIsOut
  <2>3. used \ inScope # {}
    BY <1>4
  <2> HIDE DEF used, inScope
  <2>4. used \ inScope = Some(ph.out) /\ ~ProducesOut(ph)
    BY <2>2, <2>3 DEF Some
  <2>5. ended' = [how |-> "undefined", names |-> used \ inScope] /\ stage' = "over"
    BY <2>1 DEF End
  <2>6. ValidFlowRuns'
    BY <1>1, <2>1, <2>4, <2>5 DEF ValidFlowRuns
  <2> QED BY <1>1, <2>5, <2>6 DEF ScriptInv, PhasesFromOne
<1>5. CASE needs \subseteq values /\ used \subseteq inScope
  <2>1. /\ next' = next + 1 /\ scope' = inScope /\ values' = values \cup Publishes(ph)
        /\ UNCHANGED <<stage, ended>>
    BY <1>5 DEF RunPhase
  <2>2. scope \subseteq scope' /\ values \subseteq values' /\ Publishes(ph) \subseteq values'
    BY <2>1
  <2> QED BY <1>1, <2>1, <2>2, ScriptGoesOn
<1> QED BY <1>3, <1>4, <1>5

LEMMA ScriptInductive == ScriptInv /\ [ScriptNext]_scriptVars => ScriptInv'
<1> SUFFICES ASSUME ScriptInv, [ScriptNext]_scriptVars
             PROVE  ScriptInv'
  OBVIOUS
<1>1. CASE LoadFlowYaml
  BY <1>1, ScriptLoaded
<1>2. CASE PassOver
  <2>1. /\ stage = "running" /\ next' = next + 1
        /\ Grouped(next) \/ "raw" \in flow.phases[next].run
        /\ UNCHANGED <<flow, strict, stage, values, scope, ended>>
    BY <1>2 DEF PassOver
  <2> QED BY <2>1, ScriptGoesOn
<1>3. CASE RunGroup
  BY <1>3, ScriptGroup
<1>4. CASE RunPhase
  BY <1>4, ScriptPhase
<1>5. CASE ReachEnd
  BY <1>5, ScriptEnds DEF ReachEnd
<1>6. CASE UNCHANGED scriptVars
  <2>1. UNCHANGED <<flow, strict, stage, next, values, scope, ended>>
    BY <1>6 DEF scriptVars
  <2>2. \A i, role, name : Declares(i, role, name)' <=> Declares(i, role, name)
    BY <2>1 DEF Declares, Grouped
  <2>3. \A i : TakenOnTrust(i)' = TakenOnTrust(i)
    BY <2>1 DEF TakenOnTrust, Grouped
  <2>4. ValidFlowRuns'
    BY <2>1, <2>2, <2>3 DEF ScriptInv, ValidFlowRuns, Grouped
  <2> QED BY <2>1, <2>4 DEF ScriptInv, ScriptRuns, Grouped, PhasesFromOne
<1>7. CASE StartScript
  BY <1>7, ScriptStarted
<1> QED BY <1>1, <1>2, <1>3, <1>4, <1>5, <1>6, <1>7 DEF ScriptNext

(* However many phases, loops and names a file has: once validated, its    *)
(* script fails to start only for a constant declared twice of which one   *)
(* declaration is a required name or a contract's own; started, it blocks  *)
(* only for names the file claims without publishing them, and meets an    *)
(* undefined constant only where validation looks away.                    *)
THEOREM FlowRunsTheorem == ScriptSpec => []ValidFlowRuns
<1>1. ScriptInv => ValidFlowRuns
  BY DEF ScriptInv
<1> QED BY <1>1, ScriptInitial, ScriptInductive, PTL DEF ScriptSpec

-----------------------------------------------------------------------------
(* The list of proxies *)

\* Some index is the first for which a condition holds.
LEMMA FirstIndex ==
  ASSUME NEW length \in Nat, NEW S \in SUBSET (1 .. length), S # {}
  PROVE  \E i \in S : \A j \in S : i <= j
<1> DEFINE order == Filtered(S)
           N == Cardinality(S)
<1>1. /\ N \in Nat /\ order \in [1 .. N -> S]
      /\ \A x \in S : \E n \in 1 .. N : order[n] = x
      /\ \A m, n \in 1 .. N : m < n => order[m] < order[n]
  BY FilteredInOrder
<1>2. \A i \in S : i \in Int
  OBVIOUS
<1> HIDE DEF order, N
<1>3. 1 \in 1 .. N /\ order[1] \in S
  <2>1. PICK n \in 1 .. N : TRUE
    BY <1>1
  <2>2. 1 \in 1 .. N
    BY <1>1, <2>1
  <2> QED BY <1>1, <2>2
<1>4. ASSUME NEW j \in S PROVE order[1] <= j
  <2>1. PICK n \in 1 .. N : order[n] = j
    BY <1>1
  <2>2. CASE 1 < n
    <3>1. order[1] < order[n]
      BY <1>1, <1>3, <2>2
    <3>2. order[1] \in Int /\ order[n] \in Int
      BY <1>2, <1>3, <2>1
    <3> QED BY <2>1, <3>1, <3>2
  <2>3. CASE n = 1
    BY <1>2, <1>3, <2>1, <2>3
  <2> QED BY <1>1, <2>2, <2>3
<1> QED BY <1>3, <1>4

\* The proxies of a written list come from it in its order, each once.
LEMMA ParsedAsMeant ==
  ASSUME NEW length \in Nat, NEW written, DOMAIN written = 1 .. length,
         written = opts.written, NEW list, list = ParseProxyUrls(written)
  PROVE  /\ IsInjective(list)
         /\ \A i \in 1 .. length :
              Normalizes(written[i]) =>
                \E n \in DOMAIN list : list[n] = NormalizeSocksUrl(written[i])
         /\ \E place \in [DOMAIN list -> 1 .. length] :
              \A m, n \in DOMAIN list :
                /\ list[m] = NormalizeSocksUrl(written[place[m]])
                /\ Normalizes(written[place[m]])
                /\ m < n => place[m] < place[n]
<1> DEFINE KeyOf(i) == NormalizeSocksUrl(written[i])
           usable == {i \in 1 .. length : Normalizes(written[i])}
           first == {i \in usable : \A j \in usable : KeyOf(j) = KeyOf(i) => i <= j}
           N == Cardinality(first)
           order == Filtered(first)
<1>1. list = [n \in DOMAIN order |-> KeyOf(order[n])]
  BY DEF ParseProxyUrls
<1>2. first \in SUBSET (1 .. length)
  OBVIOUS
<1>3. \A i \in first : Normalizes(written[i])
  OBVIOUS
<1>4. \A i, j \in first : i # j => KeyOf(i) # KeyOf(j)
  <2>1. ASSUME NEW i \in first, NEW j \in first, KeyOf(i) = KeyOf(j)
        PROVE  i = j
    <3>1. i <= j /\ j <= i
      BY <2>1
    <3>2. i \in Int /\ j \in Int
      BY <1>2
    <3> QED BY <3>1, <3>2
  <2> QED BY <2>1
<1>5. \A i \in usable : \E j \in first : KeyOf(j) = KeyOf(i)
  <2>1. ASSUME NEW i \in usable PROVE \E j \in first : KeyOf(j) = KeyOf(i)
    <3> DEFINE Same == {j \in usable : KeyOf(j) = KeyOf(i)}
    <3>1. Same \in SUBSET (1 .. length) /\ Same # {}
      BY <2>1
    <3>2. PICK j \in Same : \A k \in Same : j <= k
      <4> HIDE DEF Same
      <4> QED BY <3>1, FirstIndex
    <3> QED BY <3>2
  <2> QED BY <2>1
<1>6. \A i \in 1 .. length : Normalizes(written[i]) => i \in usable
  OBVIOUS
<1> HIDE DEF KeyOf, usable, first, N, order
<1>7. /\ N \in Nat
      /\ order \in [1 .. N -> first]
      /\ \A x \in first : \E n \in 1 .. N : order[n] = x
      /\ \A m, n \in 1 .. N : m < n => order[m] < order[n]
  BY <1>2, FilteredInOrder DEF N, order
<1>8. /\ DOMAIN list = 1 .. N
      /\ \A n \in 1 .. N : list[n] = KeyOf(order[n]) /\ order[n] \in first /\ order[n] \in 1 .. length
  BY <1>1, <1>2, <1>7
<1>9. \A m, n \in 1 .. N : list[m] = list[n] => m = n
  <2>1. ASSUME NEW m \in 1 .. N, NEW n \in 1 .. N, list[m] = list[n]
        PROVE  order[m] = order[n]
    BY <1>4, <1>8, <2>1
  <2>2. \A m \in 1 .. N : order[m] \in Int
    BY <1>8
  <2> QED BY <1>7, <2>1, <2>2
<1>10. \A i \in 1 .. length : Normalizes(written[i]) => \E n \in 1 .. N : list[n] = KeyOf(i)
  <2>1. ASSUME NEW i \in 1 .. length, Normalizes(written[i])
        PROVE  \E n \in 1 .. N : list[n] = KeyOf(i)
    <3>1. PICK j \in first : KeyOf(j) = KeyOf(i)
      BY <1>5, <1>6, <2>1
    <3>2. PICK n \in 1 .. N : order[n] = j
      BY <1>7, <3>1
    <3>3. list[n] = KeyOf(i)
      BY <1>8, <3>1, <3>2
    <3> QED BY <3>3
  <2> QED BY <2>1
<1>11. order \in [1 .. N -> 1 .. length]
  BY <1>7, <1>8
<1>12. \A m, n \in 1 .. N :
         /\ list[m] = KeyOf(order[m])
         /\ Normalizes(written[order[m]])
         /\ m < n => order[m] < order[n]
  BY <1>3, <1>7, <1>8
<1>13. IsInjective(list)
  BY <1>8, <1>9 DEF IsInjective
<1>14. \E place \in [DOMAIN list -> 1 .. length] :
         \A m, n \in DOMAIN list :
           /\ list[m] = KeyOf(place[m])
           /\ Normalizes(written[place[m]])
           /\ m < n => place[m] < place[n]
  BY <1>8, <1>11, <1>12
<1>15. \A i \in 1 .. length :
         Normalizes(written[i]) => \E n \in DOMAIN list : list[n] = KeyOf(i)
  BY <1>8, <1>10
<1> QED BY <1>13, <1>14, <1>15 DEF KeyOf

\* What is dialled for a key is what was written.
LEMMA NormalizedAsMeant ==
  ASSUME NEW text
  PROVE  /\ Normalizes(text) => Unset \notin {Meant(text).user, Meant(text).pass}
         /\ Upstream(NormalizeSocksUrl(text)) = Meant(text)
         /\ NormalizeSocksUrl(text).protocol = text.protocol
         /\ NormalizeSocksUrl(text).user.coded = Meant(text).user
         /\ NormalizeSocksUrl(text).pass.coded = Meant(text).pass
<1>1. \A own, global :
        Credential(own, global).coded = IF own = Unset THEN global ELSE own
  BY DEF Credential, InUrl, Coded
<1>2. Normalizes(text) => Unset \notin {Meant(text).user, Meant(text).pass}
  BY DEF Normalizes, Authenticated, Meant
<1> QED BY <1>1, <1>2 DEF NormalizeSocksUrl, Upstream, Meant

\* The servers of a list by their load, those without one last.
LEMMA ByLoadOrders ==
  ASSUME NEW length \in Nat, NEW list \in [1 .. length -> Servers],
         NEW S \in SUBSET (1 .. length)
  PROVE  /\ Cardinality(S) \in Nat
         /\ ByLoad(list, S) \in [1 .. Cardinality(S) -> S]
         /\ \A x \in S : \E n \in 1 .. Cardinality(S) : ByLoad(list, S)[n] = x
         /\ \A m, n \in 1 .. Cardinality(S) :
              m < n => /\ ByLoad(list, S)[m] # ByLoad(list, S)[n]
                       /\ ~Lighter(list[ByLoad(list, S)[n]], list[ByLoad(list, S)[m]])
<1> DEFINE Less(i, j) == Lighter(list[i], list[j]) \/ (~Lighter(list[j], list[i]) /\ i < j)
           less == {p \in S \X S : \/ Lighter(list[p[1]], list[p[2]])
                                   \/ ~Lighter(list[p[2]], list[p[1]]) /\ p[1] < p[2]}
           N == Cardinality(S)
           order == ByLoad(list, S)
<1>1. \A i, j \in S : <<i, j>> \in less <=> Less(i, j)
  <2>1. ASSUME NEW i \in S, NEW j \in S PROVE <<i, j>> \in less <=> Less(i, j)
    <3> DEFINE p == <<i, j>>
    <3>1. p \in S \X S /\ p[1] = i /\ p[2] = j
      OBVIOUS
    <3> HIDE DEF p
    <3>2. p \in less <=> \/ Lighter(list[p[1]], list[p[2]])
                         \/ ~Lighter(list[p[2]], list[p[1]]) /\ p[1] < p[2]
      BY <3>1
    <3>3. p \in less <=> Less(i, j)
      BY <3>1, <3>2
    <3> HIDE DEF less, Less
    <3> QED BY <3>3 DEF p
  <2> QED BY <2>1
<1>2. IsFiniteSet(S)
  <2>1. IsFiniteSet(1 .. length)
    BY FS_Interval
  <2> QED BY <2>1, FS_Subset
<1>3. order = Listed(S, less)
  BY DEF ByLoad
<1>4. \A i \in S : i \in Int /\ list[i].load \in Nat \cup {Unset}
  BY ServersAssumption
<1> HIDE DEF less
<1>5. \A x \in S : ~Less(x, x)
  BY <1>4 DEF Lighter
<1>6. \A x, y \in S : x # y => Less(x, y) \/ Less(y, x)
  BY <1>4
<1>7. ASSUME NEW x \in S, NEW y \in S, NEW z \in S, Less(x, y), Less(y, z)
      PROVE  Less(x, z)
  <2>1. /\ x \in Int /\ y \in Int /\ z \in Int
        /\ list[x].load # Unset => list[x].load \in Int
        /\ list[y].load # Unset => list[y].load \in Int
        /\ list[z].load # Unset => list[z].load \in Int
    BY <1>4
  <2> QED BY <1>7, <2>1 DEF Lighter
<1>8. \A i, j \in S : Less(i, j) => i # j /\ ~Lighter(list[j], list[i])
  <2>1. ASSUME NEW i \in S, NEW j \in S, Less(i, j)
        PROVE  i # j /\ ~Lighter(list[j], list[i])
    <3>1. /\ i \in Int /\ j \in Int
          /\ list[i].load # Unset => list[i].load \in Int
          /\ list[j].load # Unset => list[j].load \in Int
      BY <1>4
    <3> QED BY <2>1, <3>1 DEF Lighter
  <2> QED BY <2>1
<1> HIDE DEF Less
<1>9. Orders(S, less)
  BY <1>1, <1>5, <1>6, <1>7 DEF Orders
<1>10. /\ N \in Nat
       /\ order \in [1 .. N -> S]
       /\ \A x \in S : \E n \in 1 .. N : order[n] = x
       /\ \A m, n \in 1 .. N : m < n => <<order[m], order[n]>> \in less
  BY <1>2, <1>3, <1>9, ListedInOrder
<1> HIDE DEF N, order
<1>11. \A n \in 1 .. N : order[n] \in S
  BY <1>10
<1>12. \A m, n \in 1 .. N :
         m < n => order[m] # order[n] /\ ~Lighter(list[order[n]], list[order[m]])
  BY <1>1, <1>8, <1>10, <1>11
<1> QED BY <1>10, <1>12 DEF N, order

\* The servers taken are allowed ones, each once, and none left out is lighter.
TakesLightest(taken, list, allowed) ==
  \E place \in [DOMAIN taken -> allowed] :
    /\ \A m, n \in DOMAIN taken : place[m] = place[n] => m = n
    /\ \A n \in DOMAIN taken :
         /\ taken[n] = list[place[n]]
         /\ \A k \in allowed \ {place[j] : j \in 1 .. n} :
              ~Lighter(list[k], list[place[n]])

\* The first few of them, as many as there are and are asked for, leave out
\* none that is lighter.
LEMMA DiscoveredAreLightest ==
  ASSUME NEW length \in Nat, NEW list \in [1 .. length -> Servers], opts.count \in Nat,
         NEW allowed \in SUBSET (1 .. length),
         \A i \in 1 .. length : i \in allowed <=> Allowed(list[i]),
         NEW taken, taken = Discovered(list)
  PROVE  /\ taken \in Seq(Servers)
         /\ Len(taken) = IF Cardinality(allowed) < opts.count THEN Cardinality(allowed)
                         ELSE opts.count
         /\ TakesLightest(taken, list, allowed)
<1> DEFINE order == ByLoad(list, allowed)
           N == Cardinality(allowed)
           K == IF opts.count < N THEN opts.count ELSE N
           few == [n \in 1 .. K |-> order[n]]
<1>2. /\ N \in Nat
      /\ order \in [1 .. N -> allowed]
      /\ \A x \in allowed : \E n \in 1 .. N : order[n] = x
      /\ \A m, n \in 1 .. N :
           m < n => order[m] # order[n] /\ ~Lighter(list[order[n]], list[order[m]])
  <2> HIDE DEF K, few
  <2> QED BY ByLoadOrders
<1>3. taken = [n \in DOMAIN FirstFew(order) |-> list[FirstFew(order)[n]]]
  <2>1. allowed = {i \in DOMAIN list : Allowed(list[i])}
    OBVIOUS
  <2> QED BY <2>1 DEF Discovered
<1> HIDE DEF order, N
<1>4. Len(order) = N
  BY <1>2
<1>5. FirstFew(order) = few
  BY <1>4 DEF FirstFew
<1>6. K \in Nat /\ K <= N /\ K = IF N < opts.count THEN N ELSE opts.count
  BY <1>2
<1>7. taken = [n \in 1 .. K |-> list[few[n]]]
  BY <1>3, <1>5
<1> HIDE DEF K
<1>8. \A n \in 1 .. K : n \in 1 .. N /\ few[n] = order[n] /\ few[n] \in allowed
  BY <1>2, <1>6
<1>9. few \in [1 .. K -> allowed]
  BY <1>8
<1> HIDE DEF few
<1>10. \A n \in 1 .. K : taken[n] = list[few[n]] /\ taken[n] \in Servers
  BY <1>7, <1>8
<1>11. taken \in Seq(Servers) /\ Len(taken) = K /\ DOMAIN taken = 1 .. K
  <2>1. taken \in [1 .. K -> Servers]
    BY <1>7, <1>10
  <2> QED BY <1>6, <2>1
<1>12. \A m, n \in 1 .. K : few[m] = few[n] => m = n
  BY <1>2, <1>6, <1>8
<1>13. ASSUME NEW n \in 1 .. K, NEW k \in allowed \ {few[j] : j \in 1 .. n}
       PROVE  ~Lighter(list[k], list[few[n]])
  <2>1. PICK m \in 1 .. N : order[m] = k
    BY <1>2
  <2>2. ~(m \in 1 .. n)
    <3>1. ASSUME m \in 1 .. n PROVE FALSE
      <4>1. m \in 1 .. K
        BY <1>6, <3>1
      <4>2. few[m] = k
        BY <1>8, <2>1, <4>1
      <4> QED BY <1>13, <3>1, <4>2
    <3> QED BY <3>1
  <2>3. n < m /\ n \in 1 .. N
    BY <1>2, <1>6, <2>2
  <2>4. ~Lighter(list[order[m]], list[order[n]])
    BY <1>2, <2>3
  <2> QED BY <1>8, <2>1, <2>4
<1>14. few \in [DOMAIN taken -> allowed]
  BY <1>9, <1>11
<1>15. /\ \A m, n \in DOMAIN taken : few[m] = few[n] => m = n
       /\ \A n \in DOMAIN taken :
            /\ taken[n] = list[few[n]]
            /\ \A k \in allowed \ {few[j] : j \in 1 .. n} :
                 ~Lighter(list[k], list[few[n]])
  BY <1>10, <1>11, <1>12, <1>13
<1>16. Len(taken) = IF Cardinality(allowed) < opts.count THEN Cardinality(allowed)
                    ELSE opts.count
  BY <1>6, <1>11 DEF N
<1> QED BY <1>11, <1>14, <1>15, <1>16 DEF TakesLightest

ListInv ==
  /\ opts.written # Unset => opts.written \in Seq(Written)
  /\ opts.count \in Nat
  /\ progress \in {"fetching", "reading"} => opts.written = Unset
  /\ progress # "done" => servers = <<>>
  /\ PoolAsConfigured

LEMMA ListInitial == ListInit => ListInv
<1> SUFFICES ASSUME ListInit PROVE ListInv
  OBVIOUS
<1>1. progress = "start" /\ servers = <<>>
  BY DEF ListInit
<1>2. opts.written \in SeqOf(Written, MaxWritten) \cup {Unset} /\ opts.count \in Counts
  BY DEF ListInit
<1>3. opts.written # Unset => opts.written \in Seq(Written)
  <2>1. ASSUME opts.written # Unset PROVE opts.written \in Seq(Written)
    <3>1. PICK n \in 0 .. MaxWritten : opts.written \in [1 .. n -> Written]
      BY <1>2, <2>1 DEF SeqOf
    <3> QED BY <3>1
  <2> QED BY <2>1
<1>4. PoolAsConfigured
  BY <1>1 DEF PoolAsConfigured, WrittenAsMeant, LeastLoadedFirst
<1> QED BY <1>1, <1>2, <1>3, <1>4, CountsAssumption DEF ListInv

LEMMA ListExplicit ==
  ASSUME ListInv, Explicit
  PROVE  ListInv'
<1>1. /\ opts.written # Unset /\ opts.written \in Seq(Written)
      /\ opts' = opts /\ servers' = servers /\ progress' = "done"
      /\ keys' = ParseProxyUrls(opts.written)
  BY DEF ListInv, Explicit, StartWith
<1> DEFINE W == opts.written
           length == Len(W)
<1>2. length \in Nat /\ DOMAIN W = 1 .. length
  BY <1>1
<1>3. /\ IsInjective(keys')
      /\ \A i \in 1 .. length :
           Normalizes(W[i]) => \E n \in DOMAIN keys' : keys'[n] = NormalizeSocksUrl(W[i])
      /\ \E place \in [DOMAIN keys' -> 1 .. length] :
           \A m, n \in DOMAIN keys' :
             /\ keys'[m] = NormalizeSocksUrl(W[place[m]])
             /\ Normalizes(W[place[m]])
             /\ m < n => place[m] < place[n]
  <2> DEFINE list == ParseProxyUrls(W)
  <2>1. W = opts.written /\ list = ParseProxyUrls(W) /\ keys' = list
    BY <1>1
  <2> HIDE DEF list, W, length
  <2>2. /\ IsInjective(list)
        /\ \A i \in 1 .. length :
             Normalizes(W[i]) => \E n \in DOMAIN list : list[n] = NormalizeSocksUrl(W[i])
        /\ \E place \in [DOMAIN list -> 1 .. length] :
             \A m, n \in DOMAIN list :
               /\ list[m] = NormalizeSocksUrl(W[place[m]])
               /\ Normalizes(W[place[m]])
               /\ m < n => place[m] < place[n]
    BY <1>2, <2>1, ParsedAsMeant
  <2> QED BY <2>1, <2>2
<1>4. \A text : /\ Meant(text)' = Meant(text)
                /\ Upstream(text)' = Upstream(text)
  BY <1>1 DEF Meant, Upstream
<1>5. ASSUME NEW text \in Range(W), text.protocol \in {"socks5", "socks5h"},
             text.hostname # Unset, Unset \notin {Meant(text).user, Meant(text).pass}
      PROVE  \E k \in Range(keys') : Upstream(k) = Meant(text) /\ k.protocol = text.protocol
  <2>1. PICK i \in 1 .. length : W[i] = text
    BY <1>2, <1>5 DEF Range
  <2>2. Normalizes(text)
    BY <1>5 DEF Normalizes, Authenticated, Meant
  <2>3. PICK n \in DOMAIN keys' : keys'[n] = NormalizeSocksUrl(text)
    BY <1>3, <2>1, <2>2
  <2>4. keys'[n] \in Range(keys')
    BY DEF Range
  <2> QED BY <2>3, <2>4, NormalizedAsMeant
<1>6. PICK place \in [DOMAIN keys' -> DOMAIN W] :
        \A m, n \in DOMAIN keys' :
          /\ keys'[m] = NormalizeSocksUrl(W[place[m]])
          /\ Normalizes(W[place[m]])
          /\ m < n => place[m] < place[n]
  BY <1>2, <1>3
<1>7. \A m, n \in DOMAIN keys' :
        /\ Upstream(keys'[m]) = Meant(W[place[m]])
        /\ Unset \notin {keys'[m].user.coded, keys'[m].pass.coded}
        /\ m < n => place[m] < place[n]
  BY <1>6, NormalizedAsMeant
<1>8. WrittenAsMeant'
  <2>1. \A text \in Range(W) :
          text.protocol \in {"socks5", "socks5h"} /\ text.hostname # Unset
          /\ Unset \notin {Meant(text).user, Meant(text).pass}
          => \E k \in Range(keys') : Upstream(k) = Meant(text) /\ k.protocol = text.protocol
    BY <1>5
  <2>2. \E q \in [DOMAIN keys' -> DOMAIN W] :
          \A m, n \in DOMAIN keys' :
            /\ Upstream(keys'[m]) = Meant(W[q[m]])
            /\ Unset \notin {keys'[m].user.coded, keys'[m].pass.coded}
            /\ m < n => q[m] < q[n]
    BY <1>7
  <2>3. W = opts'.written
    BY <1>1
  <2>4. IsInjective(keys')
    BY <1>3
  <2> HIDE DEF W
  <2>5. \A text : Meant(text)' = Meant(text)
    BY <1>4
  <2> QED BY <2>1, <2>2, <2>3, <2>4, <2>5 DEF WrittenAsMeant
<1>9. LeastLoadedFirst'
  BY <1>1 DEF LeastLoadedFirst
<1>10. PoolAsConfigured'
  BY <1>8, <1>9 DEF PoolAsConfigured
<1> QED BY <1>1, <1>10 DEF ListInv

\* No keys, as far as nothing was written.
LEMMA ListEmpty ==
  ASSUME ListInv, opts.written = Unset, servers = <<>>, UNCHANGED <<opts, servers>>,
         StartWith(<<>>)
  PROVE  ListInv'
<1>1. WrittenAsMeant' /\ LeastLoadedFirst'
  BY DEF WrittenAsMeant, LeastLoadedFirst
<1>2. PoolAsConfigured'
  BY <1>1 DEF PoolAsConfigured
<1> QED BY <1>2 DEF ListInv, StartWith

LEMMA ListGoesOn ==
  ASSUME ListInv, opts.written = Unset, progress # "done",
         progress' \in {"fetching", "reading"}, UNCHANGED <<opts, servers>>
  PROVE  ListInv'
<1>1. WrittenAsMeant' /\ LeastLoadedFirst'
  BY DEF WrittenAsMeant, LeastLoadedFirst
<1>2. PoolAsConfigured'
  BY <1>1 DEF PoolAsConfigured
<1> QED BY <1>2 DEF ListInv

LEMMA ListBody ==
  ASSUME ListInv, Body
  PROVE  ListInv'
<1>1. PICK list \in SeqOf(Servers, MaxListed) :
        /\ servers' = list /\ progress' = "done"
        /\ keys' = [i \in DOMAIN Discovered(list) |-> DiscoveredKey(Discovered(list)[i])]
  BY DEF Body, StartWith
<1>2. opts' = opts /\ opts.written = Unset /\ opts.count \in Nat
  BY DEF Body, ListInv
<1>3. PICK length \in 0 .. MaxListed : list \in [1 .. length -> Servers]
  BY DEF SeqOf
<1>4. length \in Nat
  OBVIOUS
<1> DEFINE taken == Discovered(list)
           allowed == {i \in 1 .. length : Allowed(list[i])}
<1>5. allowed \in SUBSET (1 .. length) /\ \A i \in 1 .. length : i \in allowed <=> Allowed(list[i])
  OBVIOUS
<1>6. allowed = {i \in DOMAIN list : opts.countries = {} \/ \E c \in list[i].codes : c \in opts.countries}
  BY <1>3 DEF Allowed
<1>7. keys' = [i \in DOMAIN taken |-> DiscoveredKey(taken[i])]
  BY <1>1
<1> HIDE DEF taken, allowed
<1>8. /\ taken \in Seq(Servers)
      /\ Len(taken) = IF Cardinality(allowed) < opts.count THEN Cardinality(allowed)
                      ELSE opts.count
      /\ TakesLightest(taken, list, allowed)
  <2>1. taken = Discovered(list)
    BY DEF taken
  <2>2. opts.count \in Nat
    BY <1>2
  <2>3. allowed \in SUBSET (1 .. length)
    BY <1>5
  <2>4. \A i \in 1 .. length : i \in allowed <=> Allowed(list[i])
    BY <1>5
  <2> QED BY <1>3, <1>4, <2>1, <2>2, <2>3, <2>4, DiscoveredAreLightest, Zenon
<1>9. DOMAIN keys' = DOMAIN taken /\ Len(keys') = Len(taken)
  <2>1. DOMAIN taken = 1 .. Len(taken) /\ Len(taken) \in Nat
    BY <1>8
  <2> QED BY <1>7, <2>1
<1>10. PICK place \in [DOMAIN keys' -> allowed] :
         /\ \A m, n \in DOMAIN keys' : place[m] = place[n] => m = n
         /\ \A n \in DOMAIN keys' :
              /\ taken[n] = list[place[n]]
              /\ \A k \in allowed \ {place[j] : j \in 1 .. n} :
                   ~Lighter(list[k], list[place[n]])
  BY <1>8, <1>9 DEF TakesLightest
<1>11. IsInjective(place)
  BY <1>10 DEF IsInjective
<1>12. \A n \in DOMAIN keys' :
         Upstream(keys'[n]) = [host |-> list[place[n]].hostname, port |-> 1080,
                               user |-> opts.user, pass |-> opts.pass]
  BY <1>7, <1>9, <1>10 DEF Upstream, DiscoveredKey, Coded
<1>13. \E q \in [DOMAIN keys' -> allowed] :
         /\ IsInjective(q)
         /\ \A n \in DOMAIN keys' :
              /\ Upstream(keys'[n]) = [host |-> list[q[n]].hostname, port |-> 1080,
                                      user |-> opts.user, pass |-> opts.pass]
              /\ \A k \in allowed \ {q[j] : j \in 1 .. n} :
                   ~Lighter(list[k], list[q[n]])
  BY <1>10, <1>11, <1>12
<1>14. LeastLoadedFirst'
  <2>1. servers' = list /\ opts' = opts
    BY <1>1, <1>2
  <2>2. allowed = {i \in DOMAIN servers' :
                     opts'.countries = {} \/ \E c \in servers'[i].codes : c \in opts'.countries}
    BY <1>6, <2>1
  <2>3. Len(keys') = IF Cardinality(allowed) < opts'.count THEN Cardinality(allowed)
                     ELSE opts'.count
    BY <1>8, <1>9, <2>1
  <2>4. \E q \in [DOMAIN keys' -> allowed] :
          /\ IsInjective(q)
          /\ \A n \in DOMAIN keys' :
               /\ Upstream(keys'[n]) = [host |-> servers'[q[n]].hostname, port |-> 1080,
                                       user |-> opts'.user, pass |-> opts'.pass]
               /\ \A k \in allowed \ {q[j] : j \in 1 .. n} :
                    ~Lighter(servers'[k], servers'[q[n]])
    BY <1>13, <2>1
  <2> QED BY <2>2, <2>3, <2>4 DEF LeastLoadedFirst
<1>15. WrittenAsMeant'
  BY <1>2 DEF WrittenAsMeant
<1> QED BY <1>1, <1>2, <1>14, <1>15 DEF ListInv, PoolAsConfigured

LEMMA ListInductive == ListInv /\ [ListNext]_listVars => ListInv'
<1> SUFFICES ASSUME ListInv, [ListNext]_listVars
             PROVE  ListInv'
  OBVIOUS
<1>1. CASE Explicit
  BY <1>1, ListExplicit
<1>2. CASE Discover
  <2>1. opts.written = Unset /\ progress = "start" /\ servers = <<>> /\ UNCHANGED <<opts, servers>>
    BY <1>2 DEF Discover, ListInv
  <2>2. StartWith(<<>>) \/ progress' = "fetching"
    BY <1>2 DEF Discover
  <2> QED BY <2>1, <2>2, ListEmpty, ListGoesOn
<1>3. CASE DiscoveryFails
  <2>1. opts.written = Unset /\ servers = <<>> /\ UNCHANGED <<opts, servers>> /\ StartWith(<<>>)
    BY <1>3 DEF DiscoveryFails, ListInv
  <2> QED BY <2>1, ListEmpty
<1>4. CASE Headers
  <2>1. /\ opts.written = Unset /\ progress # "done" /\ progress' = "reading"
        /\ UNCHANGED <<opts, servers>>
    BY <1>4 DEF Headers, ListInv
  <2> QED BY <2>1, ListGoesOn
<1>5. CASE Body
  BY <1>5, ListBody
<1>6. CASE UNCHANGED listVars
  <2>1. WrittenAsMeant' <=> WrittenAsMeant
    BY <1>6 DEF listVars, WrittenAsMeant, Meant, Upstream
  <2>2. LeastLoadedFirst' <=> LeastLoadedFirst
    BY <1>6 DEF listVars, LeastLoadedFirst, Upstream
  <2> QED BY <1>6, <2>1, <2>2 DEF listVars, ListInv, PoolAsConfigured
<1> QED BY <1>1, <1>2, <1>3, <1>4, <1>5, <1>6 DEF ListNext

(* However many URLs are written or servers listed: each proxy that can be *)
(* dialled is dialled as it was meant, none has two places in the pool,    *)
(* and no allowed server left out is lighter than one taken.               *)
THEOREM PoolListTheorem == ListSpec => []PoolAsConfigured
<1>1. ListInv => PoolAsConfigured
  BY DEF ListInv
<1> QED BY <1>1, ListInitial, ListInductive, PTL DEF ListSpec

-----------------------------------------------------------------------------
(* The prompt of a request *)

Marks == [kind : {"text", "calls", "result", "tools"}, of : Nat]
Turns == [role : Roles, content : Seq(Marks)]
Lists == Seq(Turns)
M(kind, i) == [kind |-> kind, of |-> i]

\* What some messages of a list hold; what comes ahead of what; nothing twice.
Contents(ms, S) == {MarkAt(ms, s) : s \in Spots(ms, S)}
Ahead(ms, S, x, y) ==
  \E s, t \in Spots(ms, S) : Earlier(s, t) /\ MarkAt(ms, s) = x /\ MarkAt(ms, t) = y
Once(ms) ==
  \A s, t \in Spots(ms, DOMAIN ms) : MarkAt(ms, s) = MarkAt(ms, t) => s = t

\* The same of one sequence of marks.
InTurn(c, x, y) == \E m, n \in DOMAIN c : m < n /\ c[m] = x /\ c[n] = y
Holds(c) == {c[n] : n \in DOMAIN c}
Distinct(c) == \A m, n \in DOMAIN c : c[m] = c[n] => m = n

LEMMA ListIs ==
  ASSUME NEW ms \in Lists
  PROVE  /\ Len(ms) \in Nat /\ DOMAIN ms = 1 .. Len(ms)
         /\ \A i \in DOMAIN ms : ms[i] \in Turns
BY DEF Lists

LEMMA SpotIs ==
  ASSUME NEW ms \in Lists, NEW S \in SUBSET DOMAIN ms
  PROVE  /\ \A s : s \in Spots(ms, S) <=>
                     \E i \in S : \E k \in DOMAIN ms[i].content : s = <<i, k>>
         /\ \A s \in Spots(ms, S) :
              /\ s[1] \in S /\ s[2] \in DOMAIN ms[s[1]].content /\ s = <<s[1], s[2]>>
              /\ s[1] \in Nat /\ s[2] \in Nat /\ MarkAt(ms, s) \in Marks
<1>1. \A s : s \in Spots(ms, S) <=>
               \E i \in S : \E k \in DOMAIN ms[i].content : s = <<i, k>>
  BY DEF Spots
<1>2. ASSUME NEW i \in S
      PROVE  i \in Nat /\ ms[i].content \in Seq(Marks)
  BY ListIs DEF Turns
<1>3. ASSUME NEW s \in Spots(ms, S)
      PROVE  /\ s[1] \in S /\ s[2] \in DOMAIN ms[s[1]].content /\ s = <<s[1], s[2]>>
             /\ s[1] \in Nat /\ s[2] \in Nat /\ MarkAt(ms, s) \in Marks
  <2>1. PICK i \in S : \E k \in DOMAIN ms[i].content : s = <<i, k>>
    BY <1>1
  <2>2. PICK k \in DOMAIN ms[i].content : s = <<i, k>>
    BY <2>1
  <2>3. ms[i].content \in Seq(Marks) /\ i \in Nat
    BY <1>2
  <2>4. k \in Nat /\ ms[i].content[k] \in Marks
    BY <2>3
  <2> QED BY <2>2, <2>3, <2>4 DEF MarkAt
<1> QED BY <1>1, <1>3

\* The spots are finitely many and read in a strict order.
LEMMA SpotsInOrder ==
  ASSUME NEW ms \in Lists, NEW S \in SUBSET DOMAIN ms, NEW spots, spots = Spots(ms, S)
  PROVE  /\ IsFiniteSet(spots)
         /\ Orders(spots, {p \in spots \X spots : Earlier(p[1], p[2])})
<1> DEFINE In(i) == {<<i, k>> : k \in DOMAIN ms[i].content}
<1>1. ASSUME NEW i \in S PROVE IsFiniteSet(In(i))
  <2>1. i \in DOMAIN ms
    OBVIOUS
  <2>2. ms[i].content \in Seq(Marks)
    BY <2>1, ListIs DEF Turns
  <2>3. Len(ms[i].content) \in Nat /\ DOMAIN ms[i].content = 1 .. Len(ms[i].content)
    BY <2>2
  <2>4. IsFiniteSet(DOMAIN ms[i].content)
    <3> DEFINE len == Len(ms[i].content)
    <3>1. len \in Nat /\ DOMAIN ms[i].content = 1 .. len
      BY <2>3
    <3> HIDE DEF len
    <3>2. 1 \in Int /\ len \in Int
      BY <3>1
    <3>3. IsFiniteSet(1 .. len)
      BY ONLY <3>2, FS_Interval
    <3> QED BY <3>1, <3>3
  <2> DEFINE f == [k \in DOMAIN ms[i].content |-> <<i, k>>]
  <2>5. f \in Surjection(DOMAIN ms[i].content, In(i))
    BY DEF Surjection
  <2> QED BY <2>4, <2>5, FS_Surjection
<1>2. IsFiniteSet(S)
  <2>1. IsFiniteSet(DOMAIN ms)
    BY ListIs, FS_Interval
  <2> QED BY <2>1, FS_Subset
<1>3. IsFiniteSet({In(i) : i \in S})
  <2> DEFINE f == [i \in S |-> In(i)]
  <2>1. f \in Surjection(S, {In(i) : i \in S})
    BY DEF Surjection
  <2> QED BY <1>2, <2>1, FS_Surjection
<1>4. spots = UNION {In(i) : i \in S}
  BY DEF Spots
<1>5. IsFiniteSet(spots)
  <2> HIDE DEF In
  <2>1. \A T \in {In(i) : i \in S} : IsFiniteSet(T)
    BY <1>1
  <2> QED BY <1>3, <1>4, <2>1, FS_UNION
<1>6. \A s \in spots : s[1] \in Nat /\ s[2] \in Nat /\ s = <<s[1], s[2]>>
  BY SpotIs
<1>7. \A s \in spots : ~Earlier(s, s)
  BY <1>6 DEF Earlier
<1>8. \A s, t \in spots : s # t => Earlier(s, t) \/ Earlier(t, s)
  <2>1. ASSUME NEW s \in spots, NEW t \in spots, s # t PROVE Earlier(s, t) \/ Earlier(t, s)
    <3>1. s[1] # t[1] \/ s[2] # t[2]
      BY <1>6, <2>1
    <3> QED BY <1>6, <3>1 DEF Earlier
  <2> QED BY <2>1
<1>9. \A s, t, u \in spots : Earlier(s, t) /\ Earlier(t, u) => Earlier(s, u)
  BY <1>6 DEF Earlier
<1> DEFINE less == {p \in spots \X spots : Earlier(p[1], p[2])}
<1>10. \A s, t \in spots : <<s, t>> \in less <=> Earlier(s, t)
  OBVIOUS
<1> HIDE DEF less
<1>11. Orders(spots, less)
  BY <1>7, <1>8, <1>9, <1>10 DEF Orders
<1> QED BY <1>5, <1>11 DEF less

\* Joined messages are read as they were: what was ahead stays ahead.
LEMMA JoinedReads ==
  ASSUME NEW ms \in Lists, NEW S \in SUBSET DOMAIN ms, NEW c, c = Joined(ms, S)
  PROVE  /\ c \in Seq(Marks)
         /\ Holds(c) = Contents(ms, S)
         /\ \A x, y : InTurn(c, x, y) <=> Ahead(ms, S, x, y)
         /\ Once(ms) => Distinct(c)
<1> DEFINE spots == Spots(ms, S)
           less == {p \in spots \X spots : Earlier(p[1], p[2])}
           N == Cardinality(spots)
           read == Listed(spots, less)
<1>1. c = [n \in 1 .. N |-> MarkAt(ms, read[n])]
  BY DEF Joined
<1>2. /\ N \in Nat /\ read \in [1 .. N -> spots]
      /\ \A s \in spots : \E n \in 1 .. N : read[n] = s
      /\ \A m, n \in 1 .. N : m < n => <<read[m], read[n]>> \in less
  <2>1. IsFiniteSet(spots) /\ Orders(spots, less)
    BY SpotsInOrder
  <2> HIDE DEF spots, less
  <2> QED BY <2>1, ListedInOrder
<1>3. \A s \in spots : s[1] \in Nat /\ s[2] \in Nat /\ MarkAt(ms, s) \in Marks
  BY SpotIs
<1>4. \A s, t \in spots : <<s, t>> \in less <=> Earlier(s, t)
  OBVIOUS
<1>5. \A s, t \in spots : ~(Earlier(s, t) /\ Earlier(t, s)) /\ ~Earlier(s, s)
  BY <1>3 DEF Earlier
<1>6. spots \subseteq Spots(ms, DOMAIN ms)
  BY DEF Spots
<1>7. Holds(c) = {c[n] : n \in 1 .. N} /\ DOMAIN c = 1 .. N
  BY <1>1 DEF Holds
<1> HIDE DEF spots, less, N, read
<1>8. \A n \in 1 .. N : read[n] \in spots /\ c[n] = MarkAt(ms, read[n])
  BY <1>1, <1>2
<1>9. c \in Seq(Marks)
  <2>1. \A n \in 1 .. N : c[n] \in Marks
    BY <1>3, <1>8
  <2>2. c \in [1 .. N -> Marks]
    BY <1>1, <2>1
  <2> QED BY <1>2, <2>2
<1>10. Holds(c) = Contents(ms, S)
  <2>1. ASSUME NEW x PROVE x \in Holds(c) <=> x \in {MarkAt(ms, s) : s \in spots}
    BY <1>2, <1>7, <1>8
  <2> QED BY <2>1 DEF Contents, spots
<1>11. ASSUME NEW m \in 1 .. N, NEW n \in 1 .. N
       PROVE  m < n <=> Earlier(read[m], read[n])
  <2>1. m < n => Earlier(read[m], read[n])
    BY <1>2, <1>4, <1>8
  <2>2. n < m => Earlier(read[n], read[m])
    BY <1>2, <1>4, <1>8
  <2>3. m < n \/ n < m \/ m = n
    BY <1>2
  <2> QED BY <2>1, <2>2, <2>3, <1>5, <1>8
<1>12. ASSUME NEW x, NEW y PROVE InTurn(c, x, y) <=> Ahead(ms, S, x, y)
  <2>1. ASSUME NEW m \in 1 .. N, NEW n \in 1 .. N, m < n, c[m] = x, c[n] = y
        PROVE  Ahead(ms, S, x, y)
    <3>1. /\ read[m] \in spots /\ read[n] \in spots /\ Earlier(read[m], read[n])
          /\ MarkAt(ms, read[m]) = x /\ MarkAt(ms, read[n]) = y
      BY <2>1, <1>8, <1>11
    <3> QED BY <3>1 DEF Ahead, spots
  <2>2. ASSUME NEW s \in spots, NEW t \in spots, Earlier(s, t),
               MarkAt(ms, s) = x, MarkAt(ms, t) = y
        PROVE  InTurn(c, x, y)
    <3>1. PICK m \in 1 .. N : read[m] = s
      BY <1>2
    <3>2. PICK n \in 1 .. N : read[n] = t
      BY <1>2
    <3>3. m < n /\ c[m] = x /\ c[n] = y
      BY <2>2, <3>1, <3>2, <1>8, <1>11
    <3> QED BY <3>3, <1>7 DEF InTurn
  <2> QED BY <2>1, <2>2, <1>7 DEF InTurn, Ahead, spots
<1>13. ASSUME Once(ms) PROVE Distinct(c)
  <2>1. ASSUME NEW m \in 1 .. N, NEW n \in 1 .. N, c[m] = c[n] PROVE m = n
    <3>1. read[m] = read[n]
      BY <1>6, <1>8, <1>13, <2>1 DEF Once
    <3>2. ~(m < n) /\ ~(n < m)
      BY <3>1, <1>5, <1>8, <1>11
    <3> QED BY <3>2, <1>2
  <2> QED BY <2>1, <1>7 DEF Distinct
<1> QED BY <1>9, <1>10, <1>12, <1>13

\* The turns a list is written with.
LEMMA WrittenOut ==
  ASSUME NEW role \in Roles, NEW other \in Roles, NEW a \in Seq(Marks), NEW b \in Seq(Marks)
  PROVE  /\ \A ms : ms = <<Turn(role, a)>> =>
              ms \in Lists /\ DOMAIN ms = {1} /\ ms[1].content = a /\ ms[1].role = role
         /\ \A ms : ms = <<Turn(role, a), Turn(other, b)>> =>
              /\ ms \in Lists /\ DOMAIN ms = {1, 2}
              /\ ms[1].content = a /\ ms[2].content = b
<1>1. /\ Turn(role, a) \in Turns /\ Turn(role, a).content = a /\ Turn(role, a).role = role
      /\ Turn(other, b) \in Turns /\ Turn(other, b).content = b
  BY DEF Turns, Turn
<1> HIDE DEF Turn
<1>2. ASSUME NEW ms, ms = <<Turn(role, a)>>
      PROVE  ms \in Lists /\ DOMAIN ms = {1} /\ ms[1].content = a /\ ms[1].role = role
  BY <1>1, <1>2 DEF Lists
<1>3. ASSUME NEW ms, ms = <<Turn(role, a), Turn(other, b)>>
      PROVE  /\ ms \in Lists /\ DOMAIN ms = {1, 2}
             /\ ms[1].content = a /\ ms[2].content = b
  <2>1. Len(ms) = 2 /\ ms[1] = Turn(role, a) /\ ms[2] = Turn(other, b)
    BY <1>3
  <2>2. ms \in Seq(Turns)
    BY <1>1, <1>3
  <2>3. DOMAIN ms = {1, 2}
    BY <2>1, <2>2
  <2> QED BY <1>1, <2>1, <2>2, <2>3 DEF Lists
<1> QED BY <1>2, <1>3

\* A list of one turn holds what the turn does.
LEMMA OneTurn ==
  ASSUME NEW c \in Seq(Marks), NEW ms, DOMAIN ms = {1}, ms[1].content = c
  PROVE  /\ Contents(ms, DOMAIN ms) = Holds(c)
         /\ \A x, y : Ahead(ms, DOMAIN ms, x, y) <=> InTurn(c, x, y)
         /\ Distinct(c) => Once(ms)
<1> DEFINE Spot(k) == <<1, k>>
<1>1. \A s : s \in Spots(ms, {1}) <=> \E k \in DOMAIN c : s = Spot(k)
  BY DEF Spots
<1>2. \A k : MarkAt(ms, Spot(k)) = c[k]
  BY DEF MarkAt
<1>3. \A k, n : Earlier(Spot(k), Spot(n)) <=> k < n
  <2>1. ~(1 < 1)
    OBVIOUS
  <2> QED BY <2>1 DEF Earlier
<1>4. \A k, n : Spot(k) = Spot(n) => k = n
  OBVIOUS
<1> HIDE DEF Spot
<1>5. Contents(ms, {1}) = Holds(c)
  <2>1. ASSUME NEW s \in Spots(ms, {1}) PROVE MarkAt(ms, s) \in Holds(c)
    BY <1>1, <1>2 DEF Holds
  <2>2. ASSUME NEW k \in DOMAIN c PROVE c[k] \in Contents(ms, {1})
    <3>1. Spot(k) \in Spots(ms, {1}) /\ MarkAt(ms, Spot(k)) = c[k]
      BY <1>1, <1>2
    <3> QED BY <3>1 DEF Contents
  <2> QED BY <2>1, <2>2 DEF Contents, Holds
<1>6. ASSUME NEW x, NEW y PROVE Ahead(ms, {1}, x, y) <=> InTurn(c, x, y)
  <2>1. ASSUME NEW k \in DOMAIN c, NEW n \in DOMAIN c, k < n, c[k] = x, c[n] = y
        PROVE  Ahead(ms, {1}, x, y)
    <3>1. /\ Spot(k) \in Spots(ms, {1}) /\ Spot(n) \in Spots(ms, {1})
          /\ Earlier(Spot(k), Spot(n))
          /\ MarkAt(ms, Spot(k)) = x /\ MarkAt(ms, Spot(n)) = y
      BY <2>1, <1>1, <1>2, <1>3
    <3> QED BY <3>1 DEF Ahead
  <2>2. ASSUME NEW s \in Spots(ms, {1}), NEW t \in Spots(ms, {1}), Earlier(s, t),
               MarkAt(ms, s) = x, MarkAt(ms, t) = y
        PROVE  InTurn(c, x, y)
    <3>1. PICK k \in DOMAIN c : s = Spot(k)
      BY <1>1
    <3>2. PICK n \in DOMAIN c : t = Spot(n)
      BY <1>1
    <3>3. k < n /\ c[k] = x /\ c[n] = y
      BY <2>2, <3>1, <3>2, <1>2, <1>3
    <3> QED BY <3>3 DEF InTurn
  <2> QED BY <2>1, <2>2 DEF Ahead, InTurn
<1>7. ASSUME Distinct(c) PROVE Once(ms)
  <2>1. ASSUME NEW s \in Spots(ms, {1}), NEW t \in Spots(ms, {1}),
               MarkAt(ms, s) = MarkAt(ms, t)
        PROVE  s = t
    <3>1. PICK k \in DOMAIN c : s = Spot(k)
      BY <1>1
    <3>2. PICK n \in DOMAIN c : t = Spot(n)
      BY <1>1
    <3> QED BY <2>1, <3>1, <3>2, <1>2, <1>7 DEF Distinct
  <2> QED BY <2>1 DEF Once
<1> QED BY <1>5, <1>6, <1>7

\* A list of two turns holds what they do, the first's ahead of the second's.
LEMMA TwoTurns ==
  ASSUME NEW a \in Seq(Marks), NEW b \in Seq(Marks),
         NEW ms, DOMAIN ms = {1, 2}, ms[1].content = a, ms[2].content = b
  PROVE  /\ Contents(ms, DOMAIN ms) = Holds(a) \cup Holds(b)
         /\ \A x, y : Ahead(ms, DOMAIN ms, x, y) <=>
                        \/ InTurn(a, x, y)
                        \/ InTurn(b, x, y)
                        \/ x \in Holds(a) /\ y \in Holds(b)
         /\ Distinct(a) /\ Distinct(b) /\ Holds(a) \cap Holds(b) = {} => Once(ms)
<1> DEFINE First(k) == <<1, k>>
           Second(k) == <<2, k>>
<1>1. \A s : s \in Spots(ms, {1, 2}) <=>
               \/ \E k \in DOMAIN a : s = First(k)
               \/ \E k \in DOMAIN b : s = Second(k)
  BY DEF Spots
<1>2. \A k : MarkAt(ms, First(k)) = a[k] /\ MarkAt(ms, Second(k)) = b[k]
  BY DEF MarkAt
<1>3. \A k, n : /\ Earlier(First(k), First(n)) <=> k < n
                /\ Earlier(Second(k), Second(n)) <=> k < n
                /\ Earlier(First(k), Second(n))
                /\ ~Earlier(Second(k), First(n))
  <2>1. ~(1 < 1) /\ ~(2 < 2) /\ 1 < 2 /\ ~(2 < 1) /\ 1 # 2
    OBVIOUS
  <2> QED BY <2>1 DEF Earlier
<1> HIDE DEF First, Second
<1>4. \A k \in DOMAIN a : First(k) \in Spots(ms, {1, 2})
  BY <1>1
<1>5. \A k \in DOMAIN b : Second(k) \in Spots(ms, {1, 2})
  BY <1>1
<1>6. Contents(ms, {1, 2}) = Holds(a) \cup Holds(b)
  <2>1. ASSUME NEW s \in Spots(ms, {1, 2}) PROVE MarkAt(ms, s) \in Holds(a) \cup Holds(b)
    BY <1>1, <1>2 DEF Holds
  <2>2. ASSUME NEW k \in DOMAIN a PROVE a[k] \in Contents(ms, {1, 2})
    BY <1>2, <1>4 DEF Contents
  <2>3. ASSUME NEW k \in DOMAIN b PROVE b[k] \in Contents(ms, {1, 2})
    BY <1>2, <1>5 DEF Contents
  <2> QED BY <2>1, <2>2, <2>3 DEF Contents, Holds
<1>7. ASSUME NEW x, NEW y
      PROVE  Ahead(ms, {1, 2}, x, y) <=>
               InTurn(a, x, y) \/ InTurn(b, x, y) \/ (x \in Holds(a) /\ y \in Holds(b))
  <2>1. ASSUME InTurn(a, x, y) PROVE Ahead(ms, {1, 2}, x, y)
    <3>1. PICK k \in DOMAIN a, n \in DOMAIN a : k < n /\ a[k] = x /\ a[n] = y
      BY <2>1 DEF InTurn
    <3>2. Earlier(First(k), First(n)) /\ MarkAt(ms, First(k)) = x /\ MarkAt(ms, First(n)) = y
      BY <3>1, <1>2, <1>3
    <3> QED BY <3>2, <1>4 DEF Ahead
  <2>2. ASSUME InTurn(b, x, y) PROVE Ahead(ms, {1, 2}, x, y)
    <3>1. PICK k \in DOMAIN b, n \in DOMAIN b : k < n /\ b[k] = x /\ b[n] = y
      BY <2>2 DEF InTurn
    <3>2. Earlier(Second(k), Second(n)) /\ MarkAt(ms, Second(k)) = x /\ MarkAt(ms, Second(n)) = y
      BY <3>1, <1>2, <1>3
    <3> QED BY <3>2, <1>5 DEF Ahead
  <2>3. ASSUME x \in Holds(a), y \in Holds(b) PROVE Ahead(ms, {1, 2}, x, y)
    <3>1. PICK k \in DOMAIN a : a[k] = x
      BY <2>3 DEF Holds
    <3>2. PICK n \in DOMAIN b : b[n] = y
      BY <2>3 DEF Holds
    <3>3. Earlier(First(k), Second(n)) /\ MarkAt(ms, First(k)) = x /\ MarkAt(ms, Second(n)) = y
      BY <3>1, <3>2, <1>2, <1>3
    <3> QED BY <3>3, <1>4, <1>5 DEF Ahead
  <2>4. ASSUME NEW s \in Spots(ms, {1, 2}), NEW t \in Spots(ms, {1, 2}), Earlier(s, t),
               MarkAt(ms, s) = x, MarkAt(ms, t) = y
        PROVE  InTurn(a, x, y) \/ InTurn(b, x, y) \/ (x \in Holds(a) /\ y \in Holds(b))
    <3>1. CASE \E k \in DOMAIN a : s = First(k)
      <4>1. PICK k \in DOMAIN a : s = First(k)
        BY <3>1
      <4>2. CASE \E n \in DOMAIN a : t = First(n)
        BY <4>1, <4>2, <2>4, <1>2, <1>3 DEF InTurn
      <4>3. CASE \E n \in DOMAIN b : t = Second(n)
        BY <4>1, <4>3, <2>4, <1>2 DEF Holds
      <4> QED BY <4>2, <4>3, <1>1
    <3>2. CASE \E k \in DOMAIN b : s = Second(k)
      <4>1. PICK k \in DOMAIN b : s = Second(k)
        BY <3>2
      <4>2. CASE \E n \in DOMAIN a : t = First(n)
        BY <4>1, <4>2, <2>4, <1>3
      <4>3. CASE \E n \in DOMAIN b : t = Second(n)
        BY <4>1, <4>3, <2>4, <1>2, <1>3 DEF InTurn
      <4> QED BY <4>2, <4>3, <1>1
    <3> QED BY <3>1, <3>2, <1>1
  <2>5. Ahead(ms, {1, 2}, x, y) <=>
          \E s, t \in Spots(ms, {1, 2}) : Earlier(s, t) /\ MarkAt(ms, s) = x /\ MarkAt(ms, t) = y
    BY DEF Ahead
  <2> QED BY <2>1, <2>2, <2>3, <2>4, <2>5
<1>8. ASSUME Distinct(a), Distinct(b), Holds(a) \cap Holds(b) = {}
      PROVE  Once(ms)
  <2>1. ASSUME NEW k \in DOMAIN a, NEW n \in DOMAIN b PROVE a[k] # b[n]
    BY <1>8 DEF Holds
  <2>2. ASSUME NEW s \in Spots(ms, {1, 2}), NEW t \in Spots(ms, {1, 2}),
               MarkAt(ms, s) = MarkAt(ms, t)
        PROVE  s = t
    <3>1. CASE \E k \in DOMAIN a : s = First(k)
      <4>1. PICK k \in DOMAIN a : s = First(k)
        BY <3>1
      <4>2. CASE \E n \in DOMAIN a : t = First(n)
        BY <4>1, <4>2, <2>2, <1>2, <1>8 DEF Distinct
      <4>3. CASE \E n \in DOMAIN b : t = Second(n)
        BY <4>1, <4>3, <2>1, <2>2, <1>2
      <4> QED BY <4>2, <4>3, <1>1
    <3>2. CASE \E k \in DOMAIN b : s = Second(k)
      <4>1. PICK k \in DOMAIN b : s = Second(k)
        BY <3>2
      <4>2. CASE \E n \in DOMAIN a : t = First(n)
        BY <4>1, <4>2, <2>1, <2>2, <1>2
      <4>3. CASE \E n \in DOMAIN b : t = Second(n)
        BY <4>1, <4>3, <2>2, <1>2, <1>8 DEF Distinct
      <4> QED BY <4>2, <4>3, <1>1
    <3> QED BY <3>1, <3>2, <1>1
  <2> QED BY <2>2 DEF Once
<1> QED BY <1>6, <1>7, <1>8

\* A part of a list tells a part of it, and in its order.
LEMMA PartOf ==
  ASSUME NEW ms \in Lists, NEW S \in SUBSET DOMAIN ms, NEW T, T = DOMAIN ms \ S
  PROVE  /\ Contents(ms, DOMAIN ms) = Contents(ms, S) \cup Contents(ms, T)
         /\ Once(ms) => Contents(ms, S) \cap Contents(ms, T) = {}
         /\ \A x, y : Ahead(ms, S, x, y) =>
                        Ahead(ms, DOMAIN ms, x, y) /\ x \in Contents(ms, S) /\ y \in Contents(ms, S)
         /\ Once(ms) => \A x, y \in Contents(ms, S) : Ahead(ms, DOMAIN ms, x, y) => Ahead(ms, S, x, y)
<1>1. \A s : s \in Spots(ms, DOMAIN ms) <=> s \in Spots(ms, S) \/ s \in Spots(ms, T)
  BY SpotIs
<1>2. \A s : ~(s \in Spots(ms, S) /\ s \in Spots(ms, T))
  <2>1. \A s \in Spots(ms, S) : s[1] \in S
    BY SpotIs
  <2>2. \A s \in Spots(ms, T) : s[1] \in T
    BY SpotIs
  <2> QED BY <2>1, <2>2
<1>3. Contents(ms, DOMAIN ms) = Contents(ms, S) \cup Contents(ms, T)
  <2>1. ASSUME NEW x
        PROVE  x \in Contents(ms, DOMAIN ms) <=> x \in Contents(ms, S) \/ x \in Contents(ms, T)
    BY <1>1 DEF Contents
  <2> QED BY <2>1
<1>4. Once(ms) => Contents(ms, S) \cap Contents(ms, T) = {}
  <2>1. ASSUME Once(ms), NEW x \in Contents(ms, S), x \in Contents(ms, T) PROVE FALSE
    <3>1. PICK s \in Spots(ms, S) : MarkAt(ms, s) = x
      BY <2>1 DEF Contents
    <3>2. PICK t \in Spots(ms, T) : MarkAt(ms, t) = x
      BY <2>1 DEF Contents
    <3>3. s = t
      BY <2>1, <3>1, <3>2, <1>1 DEF Once
    <3> QED BY <3>1, <3>2, <3>3, <1>2
  <2> QED BY <2>1
<1>5. \A x, y : Ahead(ms, S, x, y) =>
                  Ahead(ms, DOMAIN ms, x, y) /\ x \in Contents(ms, S) /\ y \in Contents(ms, S)
  BY <1>1 DEF Ahead, Contents
<1>6. ASSUME Once(ms), NEW x \in Contents(ms, S), NEW y \in Contents(ms, S),
             Ahead(ms, DOMAIN ms, x, y)
      PROVE  Ahead(ms, S, x, y)
  <2>1. PICK s \in Spots(ms, DOMAIN ms), t \in Spots(ms, DOMAIN ms) :
          Earlier(s, t) /\ MarkAt(ms, s) = x /\ MarkAt(ms, t) = y
    BY <1>6 DEF Ahead
  <2>2. PICK u \in Spots(ms, S) : MarkAt(ms, u) = x
    BY <1>6 DEF Contents
  <2>3. PICK v \in Spots(ms, S) : MarkAt(ms, v) = y
    BY <1>6 DEF Contents
  <2>4. s = u /\ t = v
    BY <1>1, <1>6, <2>1, <2>2, <2>3 DEF Once
  <2> QED BY <2>1, <2>2, <2>3, <2>4 DEF Ahead
<1> QED BY <1>3, <1>4, <1>5, <1>6

\* ps is ms with one mark more, at new; at[s] is where the mark at s has moved.
Inserts(ms, ps, mark, new, at) ==
  /\ \A s \in Spots(ms, DOMAIN ms) :
       at[s] \in Spots(ps, DOMAIN ps) /\ MarkAt(ps, at[s]) = MarkAt(ms, s)
  /\ new \in Spots(ps, DOMAIN ps) /\ MarkAt(ps, new) = mark
  /\ \A s \in Spots(ps, DOMAIN ps) :
       s = new \/ \E t \in Spots(ms, DOMAIN ms) : at[t] = s
  /\ \A s, t \in Spots(ms, DOMAIN ms) : Earlier(s, t) => Earlier(at[s], at[t])

\* Such a list holds what the other does, in its order, and the mark once.
LEMMA Inserted ==
  ASSUME NEW ms, NEW ps, NEW mark, NEW new, NEW at, Inserts(ms, ps, mark, new, at),
         Once(ms), mark \notin Contents(ms, DOMAIN ms)
  PROVE  /\ Once(ps)
         /\ Contents(ps, DOMAIN ps) = Contents(ms, DOMAIN ms) \cup {mark}
         /\ \A x, y : Ahead(ms, DOMAIN ms, x, y) => Ahead(ps, DOMAIN ps, x, y)
<1> DEFINE old == Spots(ms, DOMAIN ms)
           now == Spots(ps, DOMAIN ps)
<1> HIDE DEF old, now
<1>1. /\ \A s \in old : at[s] \in now /\ MarkAt(ps, at[s]) = MarkAt(ms, s)
      /\ new \in now /\ MarkAt(ps, new) = mark
      /\ \A s \in now : s = new \/ \E t \in old : at[t] = s
      /\ \A s, t \in old : Earlier(s, t) => Earlier(at[s], at[t])
  BY DEF Inserts, old, now
<1>2. \A s \in old : MarkAt(ms, s) # mark
  BY DEF Contents, old
<1>3. \A s, t \in old : MarkAt(ms, s) = MarkAt(ms, t) => s = t
  BY DEF Once, old
<1>4. \A s, t \in now : MarkAt(ps, s) = MarkAt(ps, t) => s = t
  <2>1. ASSUME NEW s \in now, NEW t \in now, MarkAt(ps, s) = MarkAt(ps, t) PROVE s = t
    <3>1. CASE s = new /\ t = new
      BY <3>1
    <3>2. CASE s = new /\ t # new
      BY <3>2, <2>1, <1>1, <1>2
    <3>3. CASE s # new /\ t = new
      BY <3>3, <2>1, <1>1, <1>2
    <3>4. CASE s # new /\ t # new
      <4>1. PICK u \in old : at[u] = s
        BY <3>4, <1>1
      <4>2. PICK v \in old : at[v] = t
        BY <3>4, <1>1
      <4>3. MarkAt(ms, u) = MarkAt(ms, v)
        BY <4>1, <4>2, <2>1, <1>1
      <4> QED BY <4>1, <4>2, <4>3, <1>3
    <3> QED BY <3>1, <3>2, <3>3, <3>4
  <2> QED BY <2>1
<1>5. {MarkAt(ps, s) : s \in now} = {MarkAt(ms, s) : s \in old} \cup {mark}
  <2>1. ASSUME NEW s \in now PROVE MarkAt(ps, s) \in {MarkAt(ms, t) : t \in old} \cup {mark}
    BY <1>1
  <2>2. ASSUME NEW s \in old PROVE MarkAt(ms, s) \in {MarkAt(ps, t) : t \in now}
    BY <1>1
  <2>3. mark \in {MarkAt(ps, t) : t \in now}
    BY <1>1
  <2> QED BY <2>1, <2>2, <2>3
<1>6. ASSUME NEW x, NEW y, Ahead(ms, DOMAIN ms, x, y) PROVE Ahead(ps, DOMAIN ps, x, y)
  <2>1. PICK s \in old, t \in old : Earlier(s, t) /\ MarkAt(ms, s) = x /\ MarkAt(ms, t) = y
    BY <1>6 DEF Ahead, old
  <2>2. /\ at[s] \in now /\ at[t] \in now /\ Earlier(at[s], at[t])
        /\ MarkAt(ps, at[s]) = x /\ MarkAt(ps, at[t]) = y
    BY <2>1, <1>1
  <2> QED BY <2>2 DEF Ahead, now
<1> QED BY <1>4, <1>5, <1>6 DEF Once, Contents, old, now

\* A system message of one mark, put in front of a list.
LEMMA PutInFront ==
  ASSUME NEW ms \in Lists, Once(ms), NEW mark \in Marks, mark \notin Contents(ms, DOMAIN ms),
         NEW ps, ps = <<Turn("system", <<mark>>)>> \o ms
  PROVE  /\ ps \in Lists /\ Once(ps)
         /\ Contents(ps, DOMAIN ps) = Contents(ms, DOMAIN ms) \cup {mark}
         /\ \A x, y : Ahead(ms, DOMAIN ms, x, y) => Ahead(ps, DOMAIN ps, x, y)
         /\ mark \in Contents(ps, OfSystem(ps))
         /\ Contents(ms, DOMAIN ms \ OfSystem(ms)) \subseteq Contents(ps, DOMAIN ps \ OfSystem(ps))
         /\ \A x : ~Ahead(ps, DOMAIN ps, x, mark)
         /\ \A x \in Contents(ms, DOMAIN ms) : Ahead(ps, DOMAIN ps, mark, x)
<1> DEFINE turn == Turn("system", <<mark>>)
           len == Len(ms)
<1>1. len \in Nat /\ DOMAIN ms = 1 .. len /\ \A i \in DOMAIN ms : ms[i] \in Turns
  BY ListIs
<1>2. turn \in Turns /\ turn.content = <<mark>> /\ turn.role = "system"
  BY DEF Turn, Turns, Roles
<1>3. <<turn>> \in Seq(Turns) /\ Len(<<turn>>) = 1 /\ <<turn>>[1] = turn /\ ms \in Seq(Turns)
  BY <1>2 DEF Lists
<1> HIDE DEF turn
<1>4. /\ ps \in Lists
      /\ DOMAIN ps = 1 .. (len + 1)
      /\ ps[1] = turn
      /\ \A i \in DOMAIN ms : ps[i + 1] = ms[i]
  <2>1. ps = <<turn>> \o ms
    BY DEF turn
  <2>2. ps \in Seq(Turns) /\ Len(ps) = 1 + len
    BY <1>1, <1>3, <2>1
  <2>3. \A i \in 1 .. (len + 1) : ps[i] = IF i <= 1 THEN <<turn>>[i] ELSE ms[i - 1]
    BY <1>1, <1>3, <2>1
  <2>4. \A i \in DOMAIN ms : ps[i + 1] = ms[i]
    BY <2>3, <1>1
  <2>5. ps[1] = turn
    BY <2>3, <1>1, <1>3
  <2>6. DOMAIN ps = 1 .. (len + 1)
    BY <2>2, <1>1
  <2> QED BY <2>2, <2>4, <2>5, <2>6 DEF Lists
<1> HIDE DEF len
<1> DEFINE at == [s \in Spots(ms, DOMAIN ms) |-> <<s[1] + 1, s[2]>>]
           new == <<1, 1>>
<1>5. DOMAIN ps[1].content = {1} /\ ps[1].content[1] = mark /\ ps[1].role = "system"
  BY <1>2, <1>4
<1>6. \A s : s \in Spots(ps, DOMAIN ps) <=>
               \E i \in DOMAIN ps : \E k \in DOMAIN ps[i].content : s = <<i, k>>
  <2>1. DOMAIN ps \in SUBSET DOMAIN ps /\ ps \in Lists
    BY <1>4
  <2> QED BY <2>1, SpotIs
<1>7. \A s : s \in Spots(ms, DOMAIN ms) <=>
               \E i \in 1 .. len : \E k \in DOMAIN ms[i].content : s = <<i, k>>
  <2>1. \A s : s \in Spots(ms, DOMAIN ms) <=>
                 \E i \in DOMAIN ms : \E k \in DOMAIN ms[i].content : s = <<i, k>>
    <3>1. DOMAIN ms \in SUBSET DOMAIN ms /\ ms \in Lists
      BY <1>4
    <3> QED BY <3>1, SpotIs
  <2> QED BY <2>1, <1>1
<1>8. ASSUME NEW i \in 1 .. len, NEW k \in DOMAIN ms[i].content
      PROVE  /\ <<i, k>> \in Spots(ms, DOMAIN ms) /\ at[<<i, k>>] = <<i + 1, k>>
             /\ <<i + 1, k>> \in Spots(ps, DOMAIN ps)
             /\ MarkAt(ps, <<i + 1, k>>) = MarkAt(ms, <<i, k>>)
  <2>1. <<i, k>> \in Spots(ms, DOMAIN ms)
    BY <1>7
  <2>2. i + 1 \in DOMAIN ps /\ ps[i + 1] = ms[i]
    BY <1>1, <1>4
  <2>3. <<i + 1, k>> \in Spots(ps, DOMAIN ps)
    BY <2>2, <1>6
  <2> QED BY <2>1, <2>2, <2>3 DEF MarkAt
<1>9. new \in Spots(ps, DOMAIN ps) /\ MarkAt(ps, new) = mark
  <2>1. 1 \in DOMAIN ps
    BY <1>1, <1>4
  <2> QED BY <2>1, <1>5, <1>6 DEF MarkAt
<1>10. ASSUME NEW s \in Spots(ps, DOMAIN ps)
       PROVE  s = new \/ \E t \in Spots(ms, DOMAIN ms) : at[t] = s
  <2>1. PICK i \in DOMAIN ps : \E k \in DOMAIN ps[i].content : s = <<i, k>>
    BY <1>6
  <2>2. PICK k \in DOMAIN ps[i].content : s = <<i, k>>
    BY <2>1
  <2>3. CASE i = 1
    BY <2>2, <2>3, <1>5
  <2>4. CASE i # 1
    <3>1. PICK j \in 1 .. len : i = j + 1
      <4>1. i \in 1 .. (len + 1)
        BY <1>4
      <4> QED BY <4>1, <2>4, <1>1
    <3>2. ps[i] = ms[j]
      BY <3>1, <1>1, <1>4
    <3> HIDE DEF at, new
    <3> QED BY <2>2, <3>1, <3>2, <1>8
  <2> QED BY <2>3, <2>4
<1>11. \A s \in Spots(ms, DOMAIN ms) :
         /\ s[1] \in 1 .. len /\ s[1] \in Nat /\ s[2] \in DOMAIN ms[s[1]].content /\ s[2] \in Nat
         /\ s = <<s[1], s[2]>> /\ MarkAt(ms, s) \in Marks
  BY SpotIs, <1>1
<1>12. \A s \in Spots(ms, DOMAIN ms) :
         at[s] \in Spots(ps, DOMAIN ps) /\ MarkAt(ps, at[s]) = MarkAt(ms, s)
  <2>1. ASSUME NEW s \in Spots(ms, DOMAIN ms)
        PROVE  at[s] \in Spots(ps, DOMAIN ps) /\ MarkAt(ps, at[s]) = MarkAt(ms, s)
    <3>1. PICK i \in 1 .. len : \E k \in DOMAIN ms[i].content : s = <<i, k>>
      BY <1>7
    <3>2. PICK k \in DOMAIN ms[i].content : s = <<i, k>>
      BY <3>1
    <3> HIDE DEF at
    <3> QED BY <3>2, <1>8
  <2> QED BY <2>1
<1>13. \A s, t \in Spots(ms, DOMAIN ms) : Earlier(s, t) => Earlier(at[s], at[t])
  <2>1. ASSUME NEW s \in Spots(ms, DOMAIN ms), NEW t \in Spots(ms, DOMAIN ms), Earlier(s, t)
        PROVE  Earlier(at[s], at[t])
    <3>1. /\ at[s][1] = s[1] + 1 /\ at[s][2] = s[2]
          /\ at[t][1] = t[1] + 1 /\ at[t][2] = t[2]
      OBVIOUS
    <3> HIDE DEF at
    <3> QED BY <2>1, <3>1, <1>11 DEF Earlier
  <2> QED BY <2>1
<1>14. /\ Once(ps)
       /\ Contents(ps, DOMAIN ps) = Contents(ms, DOMAIN ms) \cup {mark}
       /\ \A x, y : Ahead(ms, DOMAIN ms, x, y) => Ahead(ps, DOMAIN ps, x, y)
  <2>1. Inserts(ms, ps, mark, new, at)
    <3> HIDE DEF at, new
    <3> QED BY <1>9, <1>10, <1>12, <1>13 DEF Inserts
  <2> HIDE DEF at, new
  <2> QED BY <2>1, Inserted
<1>15. mark \in Contents(ps, OfSystem(ps))
  <2>1. 1 \in OfSystem(ps)
    BY <1>1, <1>4, <1>5 DEF OfSystem
  <2>2. new \in Spots(ps, OfSystem(ps))
    BY <2>1, <1>5 DEF Spots
  <2> QED BY <2>2, <1>9 DEF Contents
<1>16. ASSUME NEW x \in Contents(ms, DOMAIN ms \ OfSystem(ms))
       PROVE  x \in Contents(ps, DOMAIN ps \ OfSystem(ps))
  <2>1. PICK s \in Spots(ms, DOMAIN ms \ OfSystem(ms)) : MarkAt(ms, s) = x
    BY DEF Contents
  <2>2. s[1] \in DOMAIN ms \ OfSystem(ms) /\ s[2] \in DOMAIN ms[s[1]].content /\ s = <<s[1], s[2]>>
    BY SpotIs
  <2>3. PICK i \in 1 .. len : i = s[1]
    BY <2>2, <1>1
  <2>4. PICK k \in DOMAIN ms[i].content : k = s[2]
    BY <2>2, <2>3
  <2>5. i + 1 \in DOMAIN ps /\ ps[i + 1] = ms[i] /\ ms[i].role # "system"
    BY <2>2, <2>3, <1>1, <1>4 DEF OfSystem
  <2>6. <<i + 1, k>> \in Spots(ps, DOMAIN ps \ OfSystem(ps))
    BY <2>4, <2>5 DEF OfSystem, Spots
  <2>7. MarkAt(ps, <<i + 1, k>>) = x
    <3>1. s = <<i, k>>
      BY <2>2, <2>3, <2>4
    <3> HIDE DEF at
    <3> QED BY <2>1, <3>1, <1>8
  <2> QED BY <2>6, <2>7 DEF Contents
<1>17. \A s \in Spots(ps, DOMAIN ps) : s[1] \in Nat /\ s[1] >= 1 /\ (s[1] = 1 => s[2] = 1)
  <2>1. \A s \in Spots(ps, DOMAIN ps) : s[1] \in 1 .. (len + 1) /\ s[2] \in DOMAIN ps[s[1]].content
    BY SpotIs, <1>4
  <2> QED BY <2>1, <1>1, <1>5
<1>18. ASSUME NEW x, Ahead(ps, DOMAIN ps, x, mark) PROVE FALSE
  <2>1. PICK s \in Spots(ps, DOMAIN ps), t \in Spots(ps, DOMAIN ps) :
          Earlier(s, t) /\ MarkAt(ps, t) = mark
    BY <1>18 DEF Ahead
  <2>2. t = new
    BY <2>1, <1>9, <1>14 DEF Once
  <2>3. t[1] = 1 /\ t[2] = 1
    BY <2>2
  <2> QED BY <2>1, <2>3, <1>17 DEF Earlier
<1>19. ASSUME NEW x \in Contents(ms, DOMAIN ms) PROVE Ahead(ps, DOMAIN ps, mark, x)
  <2>1. PICK s \in Spots(ms, DOMAIN ms) : MarkAt(ms, s) = x
    BY DEF Contents
  <2>2. Earlier(new, at[s])
    <3>1. at[s][1] = s[1] + 1 /\ new[1] = 1
      OBVIOUS
    <3> HIDE DEF at, new
    <3>2. s[1] >= 1 /\ s[1] \in Nat
      BY <1>11
    <3> QED BY <3>1, <3>2 DEF Earlier
  <2> HIDE DEF at, new
  <2> QED BY <2>1, <2>2, <1>9, <1>12 DEF Ahead
<1> QED BY <1>4, <1>14, <1>15, <1>16, <1>18, <1>19

\* The tools list told ahead of all that the system messages hold.
LEMMA PrependTells ==
  ASSUME NEW ms \in Lists, Once(ms), NEW mark \in Marks, mark \notin Contents(ms, DOMAIN ms),
         ToolList = <<mark>>, NEW ps, ps = PrependToFirstSystemMessage(ms)
  PROVE  /\ ps \in Lists /\ Once(ps)
         /\ Contents(ps, DOMAIN ps) = Contents(ms, DOMAIN ms) \cup {mark}
         /\ \A x, y : Ahead(ms, DOMAIN ms, x, y) => Ahead(ps, DOMAIN ps, x, y)
         /\ mark \in Contents(ps, OfSystem(ps))
         /\ Contents(ms, DOMAIN ms \ OfSystem(ms)) \subseteq Contents(ps, DOMAIN ps \ OfSystem(ps))
         /\ \A x : Ahead(ps, DOMAIN ps, x, mark) => x \in Contents(ms, DOMAIN ms \ OfSystem(ms))
<1> DEFINE system == OfSystem(ms)
           len == Len(ms)
<1>1. /\ len \in Nat /\ DOMAIN ms = 1 .. len /\ system \in SUBSET (1 .. len)
      /\ \A i \in DOMAIN ms : ms[i] \in Turns /\ ms[i].content \in Seq(Marks)
  BY ListIs DEF OfSystem, Turns
<1>2. CASE system = {}
  <2>1. ps = <<Turn("system", <<mark>>)>> \o ms
    BY <1>2 DEF PrependToFirstSystemMessage
  <2> QED BY <2>1, PutInFront
<1>3. ASSUME system # {}
      PROVE  \E first \in system :
               /\ \A j \in system : first <= j
               /\ ps = [ms EXCEPT ![first].content = ToolList \o @]
  <2>1. \E i \in system : \A j \in system : i <= j
    <3> HIDE DEF system, len
    <3> QED BY <1>1, <1>3, FirstIndex
  <2> DEFINE first == CHOOSE i \in system : \A j \in system : i <= j
  <2>2. first \in system /\ \A j \in system : first <= j
    BY <2>1
  <2>3. ps = [ms EXCEPT ![first].content = ToolList \o @]
    BY <1>3 DEF PrependToFirstSystemMessage
  <2> HIDE DEF first
  <2> QED BY <2>2, <2>3
<1>4. ASSUME NEW first \in system, \A j \in system : first <= j,
             ps = [ms EXCEPT ![first].content = ToolList \o @]
      PROVE  /\ ps \in Lists /\ Once(ps)
             /\ Contents(ps, DOMAIN ps) = Contents(ms, DOMAIN ms) \cup {mark}
             /\ \A x, y : Ahead(ms, DOMAIN ms, x, y) => Ahead(ps, DOMAIN ps, x, y)
             /\ mark \in Contents(ps, OfSystem(ps))
             /\ Contents(ms, DOMAIN ms \ OfSystem(ms)) \subseteq Contents(ps, DOMAIN ps \ OfSystem(ps))
             /\ \A x : Ahead(ps, DOMAIN ps, x, mark) => x \in Contents(ms, DOMAIN ms \ OfSystem(ms))
  <2> DEFINE was == ms[first].content
             now == <<mark>> \o was
             K == Len(was)
  <2>1. first \in DOMAIN ms /\ ms[first].role = "system" /\ first \in 1 .. len /\ first \in Nat
    BY <1>1 DEF OfSystem
  <2>2. was \in Seq(Marks) /\ K \in Nat /\ DOMAIN was = 1 .. K
    BY <1>1, <2>1
  <2>3. /\ now \in Seq(Marks) /\ DOMAIN now = 1 .. (K + 1) /\ now[1] = mark
        /\ \A k \in 1 .. K : now[k + 1] = was[k]
    <3> HIDE DEF was
    <3>1. now \in Seq(Marks) /\ Len(now) = K + 1
      BY <2>2
    <3>2. \A k \in 1 .. (K + 1) : now[k] = IF k <= 1 THEN mark ELSE was[k - 1]
      BY <2>2
    <3>3. \A k \in 1 .. K : now[k + 1] = was[k]
      BY <2>2, <3>2
    <3>4. now[1] = mark
      BY <2>2, <3>2
    <3>5. DOMAIN now = 1 .. (K + 1)
      BY <2>2, <3>1
    <3> QED BY <3>1, <3>3, <3>4, <3>5
  <2> HIDE DEF was, now, K
  <2>4. /\ DOMAIN ps = DOMAIN ms
        /\ ps[first] = [ms[first] EXCEPT !.content = now]
        /\ \A i \in DOMAIN ms : i # first => ps[i] = ms[i]
    BY <1>4, <2>1 DEF now, was
  <2>5. ps[first].content = now /\ ps[first].role = "system" /\ ps[first] \in Turns
    BY <1>1, <2>1, <2>3, <2>4 DEF Turns
  <2>6. ps \in Lists
    <3>1. \A i \in 1 .. len : ps[i] \in Turns
      BY <1>1, <2>4, <2>5
    <3>2. ps \in [1 .. len -> Turns]
      BY <1>1, <1>4, <3>1
    <3> HIDE DEF len
    <3> QED BY <1>1, <3>2 DEF Lists
  <2>7. OfSystem(ps) = system /\ DOMAIN ps \ OfSystem(ps) = DOMAIN ms \ system
    <3>1. ASSUME NEW i \in DOMAIN ms PROVE ps[i].role = "system" <=> ms[i].role = "system"
      BY <2>1, <2>4, <2>5
    <3> QED BY <2>4, <3>1 DEF OfSystem
  <2> DEFINE shift(s) == IF s[1] = first THEN <<s[1], s[2] + 1>> ELSE s
             at == [s \in Spots(ms, DOMAIN ms) |-> shift(s)]
             new == <<first, 1>>
  <2>8. \A s \in Spots(ms, DOMAIN ms) :
          /\ s[1] \in DOMAIN ms /\ s[2] \in DOMAIN ms[s[1]].content /\ s = <<s[1], s[2]>>
          /\ s[1] \in Nat /\ s[2] \in Nat
    BY SpotIs
  <2>9. ASSUME NEW s, NEW i \in DOMAIN ms, NEW k \in DOMAIN ps[i].content, s = <<i, k>>
        PROVE  s \in Spots(ps, DOMAIN ps)
    BY <2>4, <2>9 DEF Spots
  <2>10. ASSUME NEW s \in Spots(ms, DOMAIN ms)
         PROVE  shift(s) \in Spots(ps, DOMAIN ps) /\ MarkAt(ps, shift(s)) = MarkAt(ms, s)
    <3>1. CASE s[1] = first
      <4>1. s[2] \in 1 .. K /\ s[2] + 1 \in 1 .. (K + 1)
        BY <2>2, <2>8, <3>1 DEF was
      <4>2. shift(s) = <<first, s[2] + 1>>
        BY <3>1
      <4>3. s[2] + 1 \in DOMAIN ps[first].content
        BY <4>1, <2>3, <2>5
      <4>4. now[s[2] + 1] = was[s[2]]
        BY <4>1, <2>3
      <4>5. shift(s)[1] = first /\ shift(s)[2] = s[2] + 1
        BY <4>2
      <4>6. MarkAt(ps, shift(s)) = now[s[2] + 1]
        BY <4>5, <2>5 DEF MarkAt
      <4>7. MarkAt(ms, s) = was[s[2]]
        BY <3>1 DEF MarkAt, was
      <4>8. shift(s) \in Spots(ps, DOMAIN ps)
        BY <4>2, <4>3, <2>1, <2>9
      <4> QED BY <4>4, <4>6, <4>7, <4>8
    <3>2. CASE s[1] # first
      <4>1. shift(s) = s /\ ps[s[1]] = ms[s[1]]
        BY <3>2, <2>4, <2>8
      <4>2. s \in Spots(ps, DOMAIN ps)
        BY <4>1, <2>8, <2>9
      <4> QED BY <4>1, <4>2 DEF MarkAt
    <3> QED BY <3>1, <3>2
  <2>11. new \in Spots(ps, DOMAIN ps) /\ MarkAt(ps, new) = mark
    <3>1. 1 \in DOMAIN ps[first].content
      BY <2>2, <2>3, <2>5
    <3> QED BY <3>1, <2>1, <2>3, <2>5, <2>9 DEF MarkAt
  <2>12. \A s \in Spots(ps, DOMAIN ps) :
           /\ s[1] \in DOMAIN ms /\ s[2] \in DOMAIN ps[s[1]].content /\ s = <<s[1], s[2]>>
           /\ s[1] \in Nat /\ s[2] \in Nat
    BY <2>4, <2>6, SpotIs
  <2>13. ASSUME NEW s \in Spots(ps, DOMAIN ps), s # new
         PROVE  \E t \in Spots(ms, DOMAIN ms) : shift(t) = s
    <3>1. CASE s[1] = first
      <4>1. s[2] \in 1 .. (K + 1) /\ s[2] # 1
        BY <2>3, <2>5, <2>12, <2>13, <3>1
      <4>2. PICK k \in 1 .. K : s[2] = k + 1
        <5>1. \A j \in 1 .. (K + 1) : j # 1 => j - 1 \in 1 .. K /\ j = (j - 1) + 1
          BY <2>2
        <5> QED BY <4>1, <5>1
      <4> DEFINE t == <<first, k>>
      <4>3. t \in Spots(ms, DOMAIN ms)
        BY <2>1, <2>2 DEF Spots, was
      <4>4. shift(t) = s
        BY <4>2, <2>12, <3>1
      <4> QED BY <4>3, <4>4
    <3>2. CASE s[1] # first
      <4>1. ps[s[1]] = ms[s[1]]
        BY <3>2, <2>4, <2>12
      <4>2. s \in Spots(ms, DOMAIN ms)
        BY <4>1, <2>12 DEF Spots
      <4>3. shift(s) = s
        BY <3>2
      <4> QED BY <4>2, <4>3
    <3> QED BY <3>1, <3>2
  <2>14. ASSUME NEW s \in Spots(ms, DOMAIN ms), NEW t \in Spots(ms, DOMAIN ms), Earlier(s, t)
         PROVE  Earlier(shift(s), shift(t))
    <3>1. \A u \in Spots(ms, DOMAIN ms) :
            /\ shift(u)[1] = u[1]
            /\ shift(u)[2] = IF u[1] = first THEN u[2] + 1 ELSE u[2]
      BY <2>8
    <3> HIDE DEF shift
    <3>2. s[1] \in Nat /\ s[2] \in Nat /\ t[1] \in Nat /\ t[2] \in Nat
      BY <2>8
    <3> QED BY <3>1, <3>2, <2>1, <2>14 DEF Earlier
  <2>15. Inserts(ms, ps, mark, new, at)
    <3>1. \A s \in Spots(ms, DOMAIN ms) : at[s] = shift(s)
      OBVIOUS
    <3> HIDE DEF shift, at, new
    <3> QED BY <3>1, <2>10, <2>11, <2>13, <2>14 DEF Inserts
  <2>16. /\ Once(ps)
         /\ Contents(ps, DOMAIN ps) = Contents(ms, DOMAIN ms) \cup {mark}
         /\ \A x, y : Ahead(ms, DOMAIN ms, x, y) => Ahead(ps, DOMAIN ps, x, y)
    <3> HIDE DEF shift, at, new
    <3> QED BY <2>15, Inserted
  <2>17. mark \in Contents(ps, OfSystem(ps))
    <3>1. first \in OfSystem(ps) /\ 1 \in DOMAIN ps[first].content
      BY <2>2, <2>3, <2>5, <2>7
    <3>2. new \in Spots(ps, OfSystem(ps))
      BY <3>1 DEF Spots
    <3> QED BY <3>2, <2>11 DEF Contents
  <2>18. \A s : s \in Spots(ms, DOMAIN ms \ system) <=> s \in Spots(ps, DOMAIN ms \ system)
    <3>1. \A i \in DOMAIN ms \ system : ps[i] = ms[i]
      BY <2>1, <2>4
    <3> QED BY <3>1 DEF Spots
  <2>19. \A s \in Spots(ms, DOMAIN ms \ system) : MarkAt(ps, s) = MarkAt(ms, s)
    <3>1. \A s \in Spots(ms, DOMAIN ms \ system) : s[1] \in DOMAIN ms \ system
      BY SpotIs
    <3> QED BY <3>1, <2>4 DEF MarkAt
  <2>20. Contents(ms, DOMAIN ms \ system) = Contents(ps, DOMAIN ms \ system)
    <3>1. ASSUME NEW x
          PROVE  x \in Contents(ms, DOMAIN ms \ system) <=> x \in Contents(ps, DOMAIN ms \ system)
      BY <2>18, <2>19 DEF Contents
    <3> QED BY <3>1
  <2>21. ASSUME NEW x, Ahead(ps, DOMAIN ps, x, mark) PROVE x \in Contents(ms, DOMAIN ms \ system)
    <3>1. PICK s \in Spots(ps, DOMAIN ps), t \in Spots(ps, DOMAIN ps) :
            Earlier(s, t) /\ MarkAt(ps, s) = x /\ MarkAt(ps, t) = mark
      BY <2>21 DEF Ahead
    <3>2. t = new
      BY <3>1, <2>11, <2>16 DEF Once
    <3>3. t[1] = first /\ t[2] = 1
      BY <3>2
    <3>4. s[1] < first
      <4>1. s[2] >= 1
        <5>1. ps[s[1]].content \in Seq(Marks)
          BY <2>6, <2>12, <2>4, ListIs DEF Turns
        <5> QED BY <5>1, <2>12
      <4> QED BY <4>1, <3>1, <3>3, <2>1, <2>12 DEF Earlier
    <3>5. s[1] \notin system
      BY <1>1, <1>4, <2>1, <2>12, <3>4
    <3>6. s \in Spots(ps, DOMAIN ms \ system)
      BY <2>12, <3>5 DEF Spots
    <3> QED BY <3>1, <3>6, <2>20 DEF Contents
  <2> QED BY <2>6, <2>7, <2>16, <2>17, <2>20, <2>21
<1> QED BY <1>2, <1>3, <1>4

\* The tools list told last of all.
LEMMA AppendTells ==
  ASSUME NEW ms \in Lists, DOMAIN ms # {}, Once(ms),
         NEW mark \in Marks, mark \notin Contents(ms, DOMAIN ms), ToolList = <<mark>>,
         NEW ps, ps = AppendToolListToLastMessage(ms)
  PROVE  /\ ps \in Lists /\ Once(ps)
         /\ Contents(ps, DOMAIN ps) = Contents(ms, DOMAIN ms) \cup {mark}
         /\ \A x, y : Ahead(ms, DOMAIN ms, x, y) => Ahead(ps, DOMAIN ps, x, y)
         /\ \A x \in Contents(ms, DOMAIN ms) : Ahead(ps, DOMAIN ps, x, mark)
<1> DEFINE len == Len(ms)
<1>1. /\ len \in Nat /\ DOMAIN ms = 1 .. len
      /\ \A i \in DOMAIN ms : ms[i] \in Turns /\ ms[i].content \in Seq(Marks)
  BY ListIs DEF Turns
<1>2. len \in DOMAIN ms
  BY <1>1
<1> DEFINE was == ms[len].content
           now == was \o <<mark>>
           K == Len(was)
<1>3. ps = [ms EXCEPT ![len].content = now]
  BY DEF AppendToolListToLastMessage
<1>4. was \in Seq(Marks) /\ K \in Nat /\ DOMAIN was = 1 .. K
  BY <1>1, <1>2
<1>5. /\ now \in Seq(Marks) /\ DOMAIN now = 1 .. (K + 1) /\ now[K + 1] = mark
      /\ \A k \in 1 .. K : now[k] = was[k]
  <2> HIDE DEF was
  <2>1. now \in Seq(Marks) /\ Len(now) = K + 1
    BY <1>4
  <2>2. \A k \in 1 .. (K + 1) : now[k] = IF k <= K THEN was[k] ELSE <<mark>>[k - K]
    BY <1>4
  <2>3. \A k \in 1 .. K : now[k] = was[k]
    BY <1>4, <2>2
  <2>4. now[K + 1] = mark
    BY <1>4, <2>2
  <2>5. DOMAIN now = 1 .. (K + 1)
    BY <1>4, <2>1
  <2> QED BY <2>1, <2>3, <2>4, <2>5
<1> HIDE DEF len, was, now, K
<1>6. /\ DOMAIN ps = DOMAIN ms
      /\ ps[len] = [ms[len] EXCEPT !.content = now]
      /\ \A i \in DOMAIN ms : i # len => ps[i] = ms[i]
  BY <1>2, <1>3
<1>7. ps[len].content = now /\ ps[len] \in Turns
  BY <1>1, <1>2, <1>5, <1>6 DEF Turns
<1>8. ps \in Lists
  <2>1. \A i \in 1 .. len : ps[i] \in Turns
    BY <1>1, <1>6, <1>7
  <2>2. ps \in [1 .. len -> Turns]
    BY <1>1, <1>3, <2>1
  <2> QED BY <1>1, <2>2 DEF Lists
<1> DEFINE at == [s \in Spots(ms, DOMAIN ms) |-> s]
           new == <<len, K + 1>>
<1>9. \A s \in Spots(ms, DOMAIN ms) :
        /\ s[1] \in DOMAIN ms /\ s[2] \in DOMAIN ms[s[1]].content /\ s = <<s[1], s[2]>>
        /\ s[1] \in Nat /\ s[2] \in Nat
  BY SpotIs
<1>10. \A s : s \in Spots(ps, DOMAIN ps) <=>
                \E i \in DOMAIN ms : \E k \in DOMAIN ps[i].content : s = <<i, k>>
  BY <1>6 DEF Spots
<1>11. ASSUME NEW s \in Spots(ms, DOMAIN ms)
       PROVE  /\ s \in Spots(ps, DOMAIN ps) /\ MarkAt(ps, s) = MarkAt(ms, s)
              /\ Earlier(s, new)
  <2>1. CASE s[1] = len
    <3>1. s[2] \in 1 .. K
      BY <1>4, <1>9, <2>1 DEF was
    <3>2. s[2] \in 1 .. (K + 1) /\ s[2] < K + 1
      BY <1>4, <3>1
    <3>3. s \in Spots(ps, DOMAIN ps)
      BY <1>2, <1>5, <1>7, <1>9, <1>10, <2>1, <3>2
    <3>4. MarkAt(ps, s) = now[s[2]] /\ MarkAt(ms, s) = was[s[2]]
      BY <1>7, <2>1 DEF MarkAt, was
    <3>5. Earlier(s, new)
      BY <2>1, <3>2 DEF Earlier
    <3> QED BY <3>1, <3>3, <3>4, <3>5, <1>5
  <2>2. CASE s[1] # len
    <3>1. ps[s[1]] = ms[s[1]]
      BY <1>6, <1>9, <2>2
    <3>2. s \in Spots(ps, DOMAIN ps)
      BY <1>9, <1>10, <3>1
    <3>3. s[1] < len
      BY <1>1, <1>9, <2>2
    <3> QED BY <3>1, <3>2, <3>3 DEF MarkAt, Earlier
  <2> QED BY <2>1, <2>2
<1>12. new \in Spots(ps, DOMAIN ps) /\ MarkAt(ps, new) = mark
  <2>1. K + 1 \in DOMAIN ps[len].content
    BY <1>4, <1>5, <1>7
  <2> QED BY <2>1, <1>2, <1>5, <1>7, <1>10 DEF MarkAt
<1>13. ASSUME NEW s \in Spots(ps, DOMAIN ps), s # new PROVE s \in Spots(ms, DOMAIN ms)
  <2>1. PICK i \in DOMAIN ms : \E k \in DOMAIN ps[i].content : s = <<i, k>>
    BY <1>10
  <2>2. PICK k \in DOMAIN ps[i].content : s = <<i, k>>
    BY <2>1
  <2>3. k \in DOMAIN ms[i].content
    <3>1. CASE i = len
      <4>1. k \in 1 .. (K + 1) /\ k # K + 1
        BY <1>5, <1>7, <1>13, <2>2, <3>1
      <4>2. k \in 1 .. K
        BY <4>1, <1>4
      <4> QED BY <4>2, <3>1, <1>4 DEF was
    <3>2. CASE i # len
      BY <3>2, <1>6
    <3> QED BY <3>1, <3>2
  <2> QED BY <2>2, <2>3 DEF Spots
<1>14. Inserts(ms, ps, mark, new, at)
  <2>1. \A s \in Spots(ms, DOMAIN ms) : at[s] = s
    OBVIOUS
  <2> HIDE DEF at, new
  <2> QED BY <2>1, <1>11, <1>12, <1>13 DEF Inserts
<1>15. /\ Once(ps)
       /\ Contents(ps, DOMAIN ps) = Contents(ms, DOMAIN ms) \cup {mark}
       /\ \A x, y : Ahead(ms, DOMAIN ms, x, y) => Ahead(ps, DOMAIN ps, x, y)
  <2> HIDE DEF at, new
  <2> QED BY <1>14, Inserted
<1>16. ASSUME NEW x \in Contents(ms, DOMAIN ms) PROVE Ahead(ps, DOMAIN ps, x, mark)
  <2>1. PICK s \in Spots(ms, DOMAIN ms) : MarkAt(ms, s) = x
    BY DEF Contents
  <2> HIDE DEF at, new
  <2> QED BY <2>1, <1>11, <1>12 DEF Ahead
<1> QED BY <1>8, <1>15, <1>16

\* Folding a conversation loses nothing.  What was spoken stays in its order,
\* and ahead of what the system said comes nothing that was not.
LEMMA FlattenKeeps ==
  ASSUME NEW ms \in Lists, Once(ms), NEW ps, ps = FlattenForUpstream(ms)
  PROVE  /\ ps \in Lists /\ Once(ps) /\ (DOMAIN ms # {} => DOMAIN ps # {})
         /\ Contents(ps, DOMAIN ps) = Contents(ms, DOMAIN ms)
         /\ \A x, y \in Contents(ms, DOMAIN ms \ OfSystem(ms)) :
              Ahead(ms, DOMAIN ms, x, y) => Ahead(ps, DOMAIN ps, x, y)
         /\ \A x : \A y \in Contents(ms, OfSystem(ms)) :
              Ahead(ps, DOMAIN ps, x, y) => Ahead(ms, DOMAIN ms, x, y)
<1> DEFINE system == OfSystem(ms)
           spoken == DOMAIN ms \ system
           heard == Joined(ms, system)
           said == Joined(ms, spoken)
<1>1. system \in SUBSET DOMAIN ms /\ spoken \in SUBSET DOMAIN ms /\ system = DOMAIN ms \ spoken
  BY DEF OfSystem
<1>2. Cardinality(spoken) \in Nat
  <2>1. IsFiniteSet(DOMAIN ms)
    BY ListIs, FS_Interval
  <2> HIDE DEF spoken
  <2> QED BY <1>1, <2>1, FS_Subset, FS_CardinalityType
<1>3. \/ Cardinality(spoken) <= 1 /\ ps = ms
      \/ heard = <<>> /\ ps = <<Turn("user", said)>>
      \/ heard # <<>> /\ ps = <<Turn("system", heard), Turn("user", said)>>
  <2>1. ps = CASE Cardinality(spoken) <= 1 -> ms
               [] Cardinality(spoken) > 1 /\ heard = <<>> -> <<Turn("user", said)>>
               [] Cardinality(spoken) > 1 /\ heard # <<>> ->
                    <<Turn("system", heard), Turn("user", said)>>
    BY DEF FlattenForUpstream
  <2> HIDE DEF spoken, heard, said
  <2>2. CASE Cardinality(spoken) <= 1
    <3>1. ~(Cardinality(spoken) > 1)
      BY <2>2, <1>2
    <3> QED BY <2>1, <2>2, <3>1
  <2>3. CASE ~(Cardinality(spoken) <= 1)
    <3>1. Cardinality(spoken) > 1
      BY <2>3, <1>2
    <3> QED BY <2>1, <2>3, <3>1
  <2> QED BY <2>2, <2>3
<1>4. /\ heard \in Seq(Marks) /\ Holds(heard) = Contents(ms, system) /\ Distinct(heard)
      /\ \A x, y : InTurn(heard, x, y) <=> Ahead(ms, system, x, y)
  BY <1>1, JoinedReads
<1>5. /\ said \in Seq(Marks) /\ Holds(said) = Contents(ms, spoken) /\ Distinct(said)
      /\ \A x, y : InTurn(said, x, y) <=> Ahead(ms, spoken, x, y)
  BY <1>1, JoinedReads
<1> HIDE DEF system, spoken, heard, said
<1>6. /\ Contents(ms, DOMAIN ms) = Contents(ms, spoken) \cup Contents(ms, system)
      /\ Contents(ms, spoken) \cap Contents(ms, system) = {}
      /\ \A x, y \in Contents(ms, spoken) : Ahead(ms, DOMAIN ms, x, y) => Ahead(ms, spoken, x, y)
      /\ \A x, y : Ahead(ms, spoken, x, y) => x \in Contents(ms, spoken) /\ y \in Contents(ms, spoken)
  BY <1>1, PartOf
<1>7. \A x, y : Ahead(ms, system, x, y) => Ahead(ms, DOMAIN ms, x, y)
  <2>1. spoken = DOMAIN ms \ system
    BY DEF spoken
  <2> QED BY <1>1, <2>1, PartOf
<1>8. "user" \in Roles /\ "system" \in Roles
  BY DEF Roles
<1>9. CASE ps = ms
  BY <1>9
<1>10. CASE heard = <<>> /\ ps = <<Turn("user", said)>>
  <2>1. Contents(ms, system) = {}
    BY <1>4, <1>10 DEF Holds
  <2>2. ps \in Lists /\ DOMAIN ps = {1} /\ ps[1].content = said
    BY <1>5, <1>8, <1>10, WrittenOut
  <2>3. /\ Contents(ps, DOMAIN ps) = Holds(said) /\ Once(ps)
        /\ \A x, y : Ahead(ps, DOMAIN ps, x, y) <=> InTurn(said, x, y)
    BY <1>5, <2>2, OneTurn
  <2>4. Contents(ps, DOMAIN ps) = Contents(ms, DOMAIN ms)
    BY <1>5, <1>6, <2>1, <2>3
  <2>5. \A x, y \in Contents(ms, spoken) :
          Ahead(ms, DOMAIN ms, x, y) => Ahead(ps, DOMAIN ps, x, y)
    BY <1>5, <1>6, <2>3
  <2> QED BY <2>1, <2>2, <2>3, <2>4, <2>5 DEF spoken, system
<1>11. CASE ps = <<Turn("system", heard), Turn("user", said)>>
  <2>1. /\ ps \in Lists /\ DOMAIN ps = {1, 2}
        /\ ps[1].content = heard /\ ps[2].content = said
    BY <1>4, <1>5, <1>8, <1>11, WrittenOut
  <2>2. Holds(heard) \cap Holds(said) = {}
    BY <1>4, <1>5, <1>6
  <2>3. /\ Contents(ps, DOMAIN ps) = Holds(heard) \cup Holds(said) /\ Once(ps)
        /\ \A x, y : Ahead(ps, DOMAIN ps, x, y) <=>
                       \/ InTurn(heard, x, y)
                       \/ InTurn(said, x, y)
                       \/ x \in Holds(heard) /\ y \in Holds(said)
    BY <1>4, <1>5, <2>1, <2>2, TwoTurns
  <2>4. Contents(ps, DOMAIN ps) = Contents(ms, DOMAIN ms)
    <3>1. Holds(heard) = Contents(ms, system) /\ Holds(said) = Contents(ms, spoken)
      BY <1>4, <1>5
    <3>2. Contents(ps, DOMAIN ps) = Holds(heard) \cup Holds(said)
      BY <2>3
    <3>3. Contents(ms, DOMAIN ms) = Contents(ms, spoken) \cup Contents(ms, system)
      BY <1>6
    <3> QED BY <3>1, <3>2, <3>3
  <2>5. \A x, y \in Contents(ms, spoken) :
          Ahead(ms, DOMAIN ms, x, y) => Ahead(ps, DOMAIN ps, x, y)
    BY <1>5, <1>6, <2>3
  <2>6. ASSUME NEW x, NEW y \in Contents(ms, system), Ahead(ps, DOMAIN ps, x, y)
        PROVE  Ahead(ms, DOMAIN ms, x, y)
    <3>1. ~InTurn(said, x, y) /\ y \notin Holds(said)
      BY <1>5, <1>6, <2>6
    <3>2. InTurn(heard, x, y)
      BY <2>3, <2>6, <3>1
    <3> QED BY <3>2, <1>4, <1>7
  <2> QED BY <2>1, <2>3, <2>4, <2>5, <2>6 DEF spoken, system
<1> QED BY <1>3, <1>9, <1>10, <1>11

\* What a message of the conversation puts in the prompt.
Own(i) ==
  (IF History[i].said /\ ~(Injected /\ History[i].role = "tool") THEN {M("text", i)} ELSE {})
  \cup ((IF Injected /\ History[i].calls THEN {M("calls", i)} ELSE {})
        \cup (IF Injected /\ History[i].role = "tool" THEN {M("result", i)} ELSE {}))
Tools == M("tools", 0)
Field == M("text", 0)
Rewritten == IF Injected THEN InjectToolResults ELSE Plain

LEMMA ShortContent ==
  /\ Holds(<<>>) = {} /\ Distinct(<<>>) /\ <<>> \in Seq(Marks)
  /\ \A a \in Marks : Holds(<<a>>) = {a} /\ Distinct(<<a>>) /\ <<a>> \in Seq(Marks)
  /\ \A a, b \in Marks : /\ Holds(<<a, b>>) = {a, b} /\ <<a, b>> \in Seq(Marks)
                         /\ a # b => Distinct(<<a, b>>)
<1>1. Holds(<<>>) = {} /\ Distinct(<<>>) /\ <<>> \in Seq(Marks)
  BY DEF Holds, Distinct
<1>2. ASSUME NEW a \in Marks
      PROVE  Holds(<<a>>) = {a} /\ Distinct(<<a>>) /\ <<a>> \in Seq(Marks)
  <2>1. DOMAIN <<a>> = {1} /\ <<a>>[1] = a /\ <<a>> \in Seq(Marks)
    OBVIOUS
  <2> QED BY <2>1 DEF Holds, Distinct
<1>3. ASSUME NEW a \in Marks, NEW b \in Marks
      PROVE  /\ Holds(<<a, b>>) = {a, b} /\ <<a, b>> \in Seq(Marks)
             /\ a # b => Distinct(<<a, b>>)
  <2> DEFINE c == <<a, b>>
  <2>1. DOMAIN c = {1, 2} /\ c[1] = a /\ c[2] = b /\ c \in Seq(Marks)
    OBVIOUS
  <2> HIDE DEF c
  <2>2. Holds(c) = {a, b}
    BY <2>1 DEF Holds
  <2>3. a # b => Distinct(c)
    BY <2>1 DEF Distinct
  <2> QED BY <2>1, <2>2, <2>3 DEF c
<1> QED BY <1>1, <1>2, <1>3

LEMMA MarksDiffer ==
  ASSUME NEW i \in Nat
  PROVE  /\ M("text", i) \in Marks /\ M("calls", i) \in Marks /\ M("result", i) \in Marks
         /\ Tools \in Marks /\ Field \in Marks
         /\ M("text", i) # M("calls", i) /\ M("text", i) # M("result", i)
         /\ M("calls", i) # M("result", i)
         /\ M("text", i) # Tools /\ M("calls", i) # Tools /\ M("result", i) # Tools
         /\ M("text", i).of = i /\ M("calls", i).of = i /\ M("result", i).of = i
BY DEF Marks, M, Tools, Field

LEMMA TwoMarks ==
  ASSUME NEW s \in Seq(Marks), NEW t \in Seq(Marks), NEW a, NEW b,
         Len(s) = 1, Len(t) = 1, s[1] = a, t[1] = b
  PROVE  s \o t = <<a, b>>
<1> DEFINE st == s \o t
<1>1. st \in Seq(Marks)
  OBVIOUS
<1>2. /\ Len(st) = Len(s) + Len(t)
      /\ \A i \in 1 .. Len(s) + Len(t) : st[i] = IF i <= Len(s) THEN s[i] ELSE t[i - Len(s)]
  BY ConcatProperties
<1> HIDE DEF st
<1>3. Len(st) = 2 /\ st[1] = a /\ st[2] = b
  BY <1>2
<1>4. st = <<a, b>>
  BY <1>1, <1>3
<1> QED BY <1>4 DEF st

\* Each message, rewritten, holds its own marks, once, its text before its calls.
LEMMA TurnRewritten ==
  ASSUME request \in Accepted, NEW i \in DOMAIN History, NEW c, c = Rewritten[i].content
  PROVE  /\ i \in Nat /\ i >= 1 /\ DOMAIN Rewritten = DOMAIN History
         /\ Rewritten[i] \in Turns
         /\ Holds(c) = Own(i) /\ Distinct(c)
         /\ Rewritten[i].role = IF Injected /\ History[i].role = "tool" THEN "system"
                                ELSE History[i].role
<1>1. /\ History \in Seq(Messages) /\ i \in Nat /\ i >= 1
      /\ History[i] \in Messages /\ History[i].role \in Roles
      /\ History[i].calls => History[i].role = "assistant"
      /\ History[i].calls \in BOOLEAN /\ History[i].said \in BOOLEAN
  BY DEF Accepted, History, Messages
<1>2. DOMAIN Rewritten = DOMAIN History
  BY DEF Rewritten, InjectToolResults, Plain
<1> DEFINE textMark == M("text", i)
           callsMark == M("calls", i)
           resultMark == M("result", i)
<1>3. /\ textMark \in Marks /\ callsMark \in Marks /\ resultMark \in Marks
      /\ textMark # callsMark
  BY <1>1, MarksDiffer
<1>4. /\ FlattenContent(i) = IF History[i].said THEN <<textMark>> ELSE <<>>
      /\ Mark("calls", i) = <<callsMark>> /\ Mark("result", i) = <<resultMark>>
      /\ "assistant" \in Roles /\ "system" \in Roles
  BY DEF FlattenContent, Mark, M, Roles
<1>5. Own(i) = (IF History[i].said /\ ~(Injected /\ History[i].role = "tool") THEN {textMark} ELSE {})
               \cup ((IF Injected /\ History[i].calls THEN {callsMark} ELSE {})
                     \cup (IF Injected /\ History[i].role = "tool" THEN {resultMark} ELSE {}))
  BY DEF Own
<1>6. /\ <<textMark>> \o <<callsMark>> = <<textMark, callsMark>>
      /\ <<>> \o <<callsMark>> = <<callsMark>>
  <2> HIDE DEF textMark, callsMark
  <2> DEFINE one == <<textMark>>
             two == <<callsMark>>
  <2>1. /\ one \in Seq(Marks) /\ two \in Seq(Marks)
        /\ Len(one) = 1 /\ Len(two) = 1 /\ one[1] = textMark /\ two[1] = callsMark
    BY <1>3
  <2> HIDE DEF one, two
  <2>2. one \o two = <<textMark, callsMark>>
    BY <2>1, TwoMarks
  <2>3. <<>> \o two = two
    BY <2>1, ConcatEmptySeq
  <2> QED BY <2>2, <2>3 DEF one, two
<1>7. \A role \in Roles : \A content \in Seq(Marks) :
        /\ Turn(role, content) \in Turns
        /\ Turn(role, content).role = role /\ Turn(role, content).content = content
  BY DEF Turn, Turns
<1>8. Plain[i] = Turn(History[i].role, FlattenContent(i))
  BY DEF Plain
<1>9. InjectToolResults[i] =
        IF History[i].calls THEN Turn("assistant", FlattenContent(i) \o Mark("calls", i))
        ELSE IF History[i].role = "tool" THEN Turn("system", Mark("result", i)) ELSE Plain[i]
  <2>1. InjectToolResults[i] =
          CASE History[i].calls -> Turn("assistant", FlattenContent(i) \o Mark("calls", i))
            [] History[i].role = "tool" -> Turn("system", Mark("result", i))
            [] OTHER -> Plain[i]
    BY DEF InjectToolResults
  <2>2. ~(History[i].calls /\ History[i].role = "tool")
    BY <1>1
  <2> QED BY <2>1, <2>2
<1> HIDE DEF textMark, callsMark, resultMark
<1>10. CASE Injected /\ History[i].calls
  <2>1. Rewritten[i] = Turn("assistant", FlattenContent(i) \o <<callsMark>>)
    BY <1>4, <1>9, <1>10 DEF Rewritten
  <2>2. History[i].role = "assistant"
    BY <1>1, <1>10
  <2>3. CASE History[i].said
    <3>1. Rewritten[i] = Turn("assistant", <<textMark, callsMark>>)
      BY <2>1, <2>3, <1>4, <1>6
    <3>2. Own(i) = {textMark, callsMark}
      BY <2>2, <2>3, <1>5, <1>10
    <3>3. <<textMark, callsMark>> \in Seq(Marks) /\ Holds(<<textMark, callsMark>>) = {textMark, callsMark}
          /\ Distinct(<<textMark, callsMark>>)
      BY <1>3, ShortContent
    <3>4. c = <<textMark, callsMark>> /\ Rewritten[i] \in Turns /\ Rewritten[i].role = "assistant"
      <4> DEFINE content == <<textMark, callsMark>>
      <4>1. content \in Seq(Marks) /\ Rewritten[i] = Turn("assistant", content)
        BY <3>1, <3>3
      <4> HIDE DEF content
      <4>2. c = content /\ Rewritten[i] \in Turns /\ Rewritten[i].role = "assistant"
        BY <4>1, <1>4, <1>7
      <4> QED BY <4>2 DEF content
    <3> QED BY <2>2, <3>2, <3>3, <3>4, <1>1, <1>2
  <2>4. CASE ~History[i].said
    <3>1. Rewritten[i] = Turn("assistant", <<callsMark>>)
      BY <2>1, <2>4, <1>4, <1>6
    <3>2. Own(i) = {callsMark}
      BY <2>2, <2>4, <1>5, <1>10
    <3>3. <<callsMark>> \in Seq(Marks) /\ Holds(<<callsMark>>) = {callsMark} /\ Distinct(<<callsMark>>)
      BY <1>3, ShortContent
    <3>4. c = <<callsMark>> /\ Rewritten[i] \in Turns /\ Rewritten[i].role = "assistant"
      <4> DEFINE content == <<callsMark>>
      <4>1. content \in Seq(Marks) /\ Rewritten[i] = Turn("assistant", content)
        BY <3>1, <3>3
      <4> HIDE DEF content
      <4>2. c = content /\ Rewritten[i] \in Turns /\ Rewritten[i].role = "assistant"
        BY <4>1, <1>4, <1>7
      <4> QED BY <4>2 DEF content
    <3> QED BY <2>2, <3>2, <3>3, <3>4, <1>1, <1>2
  <2> QED BY <2>3, <2>4
<1>11. CASE Injected /\ ~History[i].calls /\ History[i].role = "tool"
  <2>1. Rewritten[i] = Turn("system", <<resultMark>>)
    BY <1>4, <1>9, <1>11 DEF Rewritten
  <2>2. Own(i) = {resultMark}
    BY <1>5, <1>11
  <2>3. <<resultMark>> \in Seq(Marks) /\ Holds(<<resultMark>>) = {resultMark} /\ Distinct(<<resultMark>>)
    BY <1>3, ShortContent
  <2>4. c = <<resultMark>> /\ Rewritten[i] \in Turns /\ Rewritten[i].role = "system"
    <3> DEFINE content == <<resultMark>>
    <3>1. content \in Seq(Marks) /\ Rewritten[i] = Turn("system", content)
      BY <2>1, <2>3
    <3> HIDE DEF content
    <3>2. c = content /\ Rewritten[i] \in Turns /\ Rewritten[i].role = "system"
      BY <3>1, <1>4, <1>7
    <3> QED BY <3>2 DEF content
  <2> QED BY <2>2, <2>3, <2>4, <1>1, <1>2, <1>11
<1>12. CASE ~Injected \/ (~History[i].calls /\ History[i].role # "tool")
  <2>1. Rewritten[i] = Turn(History[i].role, FlattenContent(i))
    BY <1>8, <1>9, <1>12 DEF Rewritten
  <2>2. Own(i) = IF History[i].said THEN {textMark} ELSE {}
    BY <1>5, <1>12
  <2>3. /\ FlattenContent(i) \in Seq(Marks) /\ Distinct(FlattenContent(i))
        /\ Holds(FlattenContent(i)) = IF History[i].said THEN {textMark} ELSE {}
    BY <1>3, <1>4, ShortContent
  <2>4. /\ c = FlattenContent(i) /\ Rewritten[i] \in Turns
        /\ Rewritten[i].role = History[i].role
    BY <2>1, <2>3, <1>1, <1>7
  <2> QED BY <2>2, <2>3, <2>4, <1>1, <1>2, <1>12
<1> QED BY <1>10, <1>11, <1>12

\* The rewritten history as a whole.
LEMMA HistoryRewritten ==
  ASSUME request \in Accepted, NEW ms, ms = Rewritten
  PROVE  /\ ms \in Lists /\ DOMAIN ms = DOMAIN History /\ Once(ms)
         /\ \A x : \A S \in SUBSET DOMAIN ms : x \in Contents(ms, S) <=> \E i \in S : x \in Own(i)
         /\ \A i, j \in DOMAIN ms : \A x \in Own(i), y \in Own(j) :
              i < j => Ahead(ms, DOMAIN ms, x, y)
         /\ \A i \in DOMAIN ms : Spoken(i) => i \notin OfSystem(ms)
<1>1. History \in Seq(Messages) /\ DOMAIN History = 1 .. Len(History) /\ Len(History) \in Nat
  BY DEF Accepted, History
<1>2. \A i \in DOMAIN History :
        /\ i \in Nat /\ i >= 1 /\ ms[i] \in Turns
        /\ Holds(ms[i].content) = Own(i) /\ Distinct(ms[i].content)
        /\ ms[i].role = IF Injected /\ History[i].role = "tool" THEN "system" ELSE History[i].role
  BY TurnRewritten
<1>3. DOMAIN ms = DOMAIN History
  BY DEF Rewritten, InjectToolResults, Plain
<1>4. ms \in Lists
  <2>1. ms \in [1 .. Len(History) -> Turns]
    <3>1. ms = [i \in DOMAIN History |-> ms[i]]
      BY DEF Rewritten, InjectToolResults, Plain
    <3> QED BY <1>1, <1>2, <3>1
  <2> QED BY <1>1, <2>1 DEF Lists
<1>5. \A S \in SUBSET DOMAIN ms : \A s : s \in Spots(ms, S) <=>
                   \E i \in S : \E k \in DOMAIN ms[i].content : s = <<i, k>>
  BY <1>4, SpotIs
<1>6. \A i, k : MarkAt(ms, <<i, k>>) = ms[i].content[k]
  BY DEF MarkAt
<1>7. ASSUME NEW S \in SUBSET DOMAIN ms, NEW x
      PROVE  x \in Contents(ms, S) <=> \E i \in S : x \in Own(i)
  <2>1. ASSUME x \in Contents(ms, S) PROVE \E i \in S : x \in Own(i)
    <3>1. PICK s \in Spots(ms, S) : MarkAt(ms, s) = x
      BY <2>1 DEF Contents
    <3>2. PICK i \in S : \E k \in DOMAIN ms[i].content : s = <<i, k>>
      BY <1>5
    <3>3. x \in Holds(ms[i].content)
      BY <3>1, <3>2, <1>6 DEF Holds
    <3> QED BY <3>3, <1>2, <1>3
  <2>2. ASSUME NEW i \in S, x \in Own(i) PROVE x \in Contents(ms, S)
    <3>1. PICK k \in DOMAIN ms[i].content : ms[i].content[k] = x
      BY <2>2, <1>2, <1>3 DEF Holds
    <3>2. <<i, k>> \in Spots(ms, S) /\ MarkAt(ms, <<i, k>>) = x
      BY <3>1, <1>5, <1>6
    <3> QED BY <3>2 DEF Contents
  <2> QED BY <2>1, <2>2
<1>8. \A i \in DOMAIN History : \A x \in Own(i) : x.of = i
  <2>1. ASSUME NEW i \in DOMAIN History, NEW x \in Own(i) PROVE x.of = i
    <3>1. x = M("text", i) \/ x = M("calls", i) \/ x = M("result", i)
      BY DEF Own
    <3>2. i \in Nat
      BY <1>2
    <3> QED BY <3>1, <3>2, MarksDiffer
  <2> QED BY <2>1
<1>9. Once(ms)
  <2>1. ASSUME NEW s \in Spots(ms, DOMAIN ms), NEW t \in Spots(ms, DOMAIN ms),
               MarkAt(ms, s) = MarkAt(ms, t)
        PROVE  s = t
    <3>1. PICK i \in DOMAIN ms : \E k \in DOMAIN ms[i].content : s = <<i, k>>
      BY <1>5
    <3>2. PICK k \in DOMAIN ms[i].content : s = <<i, k>>
      BY <3>1
    <3>3. PICK j \in DOMAIN ms : \E n \in DOMAIN ms[j].content : t = <<j, n>>
      BY <1>5
    <3>4. PICK n \in DOMAIN ms[j].content : t = <<j, n>>
      BY <3>3
    <3>5. ms[i].content[k] = ms[j].content[n]
      BY <2>1, <3>2, <3>4, <1>6
    <3>6. ms[i].content[k] \in Own(i) /\ ms[j].content[n] \in Own(j)
      BY <1>2, <1>3 DEF Holds
    <3>7. i = j
      BY <3>5, <3>6, <1>3, <1>8
    <3>8. k = n
      BY <3>5, <3>7, <1>2, <1>3 DEF Distinct
    <3> QED BY <3>2, <3>4, <3>7, <3>8
  <2> QED BY <2>1 DEF Once
<1>10. ASSUME NEW i \in DOMAIN ms, NEW j \in DOMAIN ms, NEW x \in Own(i), NEW y \in Own(j), i < j
       PROVE  Ahead(ms, DOMAIN ms, x, y)
  <2>1. PICK k \in DOMAIN ms[i].content : ms[i].content[k] = x
    BY <1>2, <1>3 DEF Holds
  <2>2. PICK n \in DOMAIN ms[j].content : ms[j].content[n] = y
    BY <1>2, <1>3 DEF Holds
  <2>3. /\ <<i, k>> \in Spots(ms, DOMAIN ms) /\ <<j, n>> \in Spots(ms, DOMAIN ms)
        /\ MarkAt(ms, <<i, k>>) = x /\ MarkAt(ms, <<j, n>>) = y
    BY <2>1, <2>2, <1>5, <1>6
  <2>4. Earlier(<<i, k>>, <<j, n>>)
    BY <1>10 DEF Earlier
  <2> QED BY <2>3, <2>4 DEF Ahead
<1>11. \A i \in DOMAIN ms : Spoken(i) => i \notin OfSystem(ms)
  BY <1>2, <1>3 DEF Spoken, OfSystem
<1> QED BY <1>3, <1>4, <1>7, <1>9, <1>10, <1>11

\* What the prompt of this request is to hold, and a list that holds it.
Wanted ==
  (UNION {Own(i) : i \in DOMAIN History})
  \cup ((IF Injected THEN {Tools} ELSE {}) \cup (IF request.system THEN {Field} ELSE {}))

SpokenInOrder(ms) ==
  \A i, j \in DOMAIN History :
    j < i /\ Spoken(i) /\ Spoken(j) => Ahead(ms, DOMAIN ms, M("text", j), M("text", i))

ToolsPlaced(ms) ==
  /\ Injected /\ IsContinuation =>
       \A x \in Wanted : x # Tools => Ahead(ms, DOMAIN ms, x, Tools)
  /\ Injected /\ ~IsContinuation =>
       \A x : Ahead(ms, DOMAIN ms, x, Tools) => Spoken(x.of)

FieldFirst(ms) ==
  request.system => \A x \in Wanted : x # Field => Ahead(ms, DOMAIN ms, Field, x)

Whole(ms) ==
  /\ ms \in Lists /\ Once(ms) /\ Contents(ms, DOMAIN ms) = Wanted
  /\ SpokenInOrder(ms) /\ ToolsPlaced(ms) /\ FieldFirst(ms)

\* What a mark of the prompt is, by its kind and its message.
LEMMA OwnMarks ==
  ASSUME request \in Accepted, NEW i \in DOMAIN History
  PROVE  /\ i \in Nat /\ i >= 1
         /\ M("text", i) \in Own(i) <=> History[i].said /\ ~(Injected /\ History[i].role = "tool")
         /\ M("calls", i) \in Own(i) <=> Injected /\ History[i].calls
         /\ M("result", i) \in Own(i) <=> Injected /\ History[i].role = "tool"
         /\ \A x \in Own(i) : /\ x.of = i /\ x # Tools /\ x # Field
                              /\ x \in {M("text", i), M("calls", i), M("result", i)}
         /\ Spoken(i) => M("text", i) \in Own(i)
<1>1. /\ i \in Nat /\ i >= 1
  BY TurnRewritten
<1> DEFINE textMark == M("text", i)
           callsMark == M("calls", i)
           resultMark == M("result", i)
<1>2. /\ textMark # callsMark /\ textMark # resultMark /\ callsMark # resultMark
      /\ textMark # Tools /\ callsMark # Tools /\ resultMark # Tools
      /\ textMark.of = i /\ callsMark.of = i /\ resultMark.of = i /\ Field.of = 0
  BY <1>1, MarksDiffer DEF Field, M
<1>3. Own(i) = (IF History[i].said /\ ~(Injected /\ History[i].role = "tool") THEN {textMark} ELSE {})
               \cup ((IF Injected /\ History[i].calls THEN {callsMark} ELSE {})
                     \cup (IF Injected /\ History[i].role = "tool" THEN {resultMark} ELSE {}))
  BY DEF Own
<1> HIDE DEF textMark, callsMark, resultMark
<1>4. /\ textMark \in Own(i) <=> History[i].said /\ ~(Injected /\ History[i].role = "tool")
      /\ callsMark \in Own(i) <=> Injected /\ History[i].calls
      /\ resultMark \in Own(i) <=> Injected /\ History[i].role = "tool"
  BY <1>2, <1>3
<1>5. \A x \in Own(i) : x \in {textMark, callsMark, resultMark}
  BY <1>3
<1>6. \A x \in Own(i) : x.of = i /\ x # Tools /\ x # Field
  BY <1>1, <1>2, <1>5
<1>7. Spoken(i) => textMark \in Own(i)
  BY <1>4 DEF Spoken
<1> QED BY <1>1, <1>4, <1>5, <1>6, <1>7 DEF textMark, callsMark, resultMark

LEMMA InWanted ==
  ASSUME request \in Accepted
  PROVE  /\ \A x : x \in Wanted <=> \/ \E i \in DOMAIN History : x \in Own(i)
                                    \/ Injected /\ x = Tools
                                    \/ request.system /\ x = Field
         /\ \A i \in DOMAIN History : \A kind \in {"text", "calls", "result"} :
              M(kind, i) \in Wanted <=> M(kind, i) \in Own(i)
         /\ Tools \in Wanted <=> Injected
         /\ Tools # Field
<1>1. \A x : x \in Wanted <=> \/ \E i \in DOMAIN History : x \in Own(i)
                              \/ Injected /\ x = Tools
                              \/ request.system /\ x = Field
  BY DEF Wanted
<1>2. Tools # Field
  BY DEF Tools, Field, M
<1>3. Tools \in Wanted <=> Injected
  BY <1>1, <1>2, OwnMarks
<1>4. ASSUME NEW i \in DOMAIN History, NEW kind \in {"text", "calls", "result"}
      PROVE  M(kind, i) \in Wanted <=> M(kind, i) \in Own(i)
  <2>1. M(kind, i).of = i /\ M(kind, i) # Tools
    BY DEF M, Tools
  <2>2. M(kind, i) # Field
    <3>1. i >= 1 /\ i \in Nat
      BY OwnMarks
    <3>2. Field.of = 0
      BY DEF Field, M
    <3> QED BY <2>1, <3>1, <3>2
  <2>3. ASSUME NEW j \in DOMAIN History, M(kind, i) \in Own(j) PROVE M(kind, i) \in Own(i)
    <3>1. M(kind, i).of = j
      BY <2>3, OwnMarks
    <3> QED BY <2>1, <2>3, <3>1
  <2> QED BY <1>1, <2>1, <2>2, <2>3
<1> QED BY <1>1, <1>2, <1>3, <1>4

\* The history, rewritten, with what the flattening and the tool list ask of it.
LEMMA HistoryTold ==
  ASSUME request \in Accepted, NEW ms, ms = Rewritten
  PROVE  /\ ms \in Lists /\ DOMAIN ms = DOMAIN History /\ Once(ms)
         /\ \A x : x \in Contents(ms, DOMAIN ms) <=> \E i \in DOMAIN History : x \in Own(i)
         /\ Tools \notin Contents(ms, DOMAIN ms) /\ Field \notin Contents(ms, DOMAIN ms)
         /\ SpokenInOrder(ms)
         /\ \A i \in DOMAIN History :
              Spoken(i) => M("text", i) \in Contents(ms, DOMAIN ms \ OfSystem(ms))
         /\ Injected /\ ~IsContinuation =>
              \A x \in Contents(ms, DOMAIN ms \ OfSystem(ms)) : Spoken(x.of)
<1>1. /\ ms \in Lists /\ DOMAIN ms = DOMAIN History /\ Once(ms)
      /\ \A x : \A S \in SUBSET DOMAIN ms : x \in Contents(ms, S) <=> \E i \in S : x \in Own(i)
      /\ \A i, j \in DOMAIN ms : \A x \in Own(i), y \in Own(j) :
           i < j => Ahead(ms, DOMAIN ms, x, y)
      /\ \A i \in DOMAIN ms : Spoken(i) => i \notin OfSystem(ms)
  BY HistoryRewritten
<1>2. \A x : x \in Contents(ms, DOMAIN ms) <=> \E i \in DOMAIN History : x \in Own(i)
  BY <1>1
<1>3. Tools \notin Contents(ms, DOMAIN ms) /\ Field \notin Contents(ms, DOMAIN ms)
  BY <1>2, OwnMarks
<1>4. SpokenInOrder(ms)
  <2>1. ASSUME NEW i \in DOMAIN History, NEW j \in DOMAIN History,
               j < i, Spoken(i), Spoken(j)
        PROVE  Ahead(ms, DOMAIN ms, M("text", j), M("text", i))
    <3>1. M("text", j) \in Own(j) /\ M("text", i) \in Own(i)
      BY <2>1, OwnMarks
    <3> QED BY <1>1, <2>1, <3>1
  <2> QED BY <2>1 DEF SpokenInOrder
<1>5. ASSUME NEW i \in DOMAIN History, Spoken(i)
      PROVE  M("text", i) \in Contents(ms, DOMAIN ms \ OfSystem(ms))
  <2>1. M("text", i) \in Own(i) /\ i \in DOMAIN ms \ OfSystem(ms)
    BY <1>1, <1>5, OwnMarks
  <2> QED BY <1>1, <2>1
<1>6. ASSUME Injected, ~IsContinuation, NEW x \in Contents(ms, DOMAIN ms \ OfSystem(ms))
      PROVE  Spoken(x.of)
  <2>1. PICK i \in DOMAIN ms \ OfSystem(ms) : x \in Own(i)
    BY <1>1
  <2>2. i \in DOMAIN History /\ ms[i].role # "system"
    BY <1>1 DEF OfSystem
  <2>3. ms[i].role = IF Injected /\ History[i].role = "tool" THEN "system" ELSE History[i].role
    BY <2>2, TurnRewritten
  <2>4. History[i].role \in Roles
    BY <2>2 DEF Accepted, History, Messages
  <2>5. History[i].role \in {"user", "assistant"}
    BY <1>6, <2>2, <2>3, <2>4 DEF Roles
  <2>6. ~History[i].calls
    BY <1>6, <2>2 DEF IsContinuation
  <2>7. x.of = i /\ x \in {M("text", i), M("calls", i), M("result", i)}
    BY <2>1, <2>2, OwnMarks
  <2>8. x = M("text", i)
    BY <2>1, <2>2, <2>5, <2>6, <2>7, OwnMarks
  <2>9. History[i].said
    BY <2>1, <2>2, <2>8, OwnMarks
  <2> QED BY <2>5, <2>7, <2>9 DEF Spoken
<1> QED BY <1>1, <1>2, <1>3, <1>4, <1>5, <1>6

\* What the two adapters make of an accepted request holds all of it.
LEMMA OpenAiWhole ==
  ASSUME request \in Accepted, ~request.system, NEW ms, ms = OpenAiMessages
  PROVE  Whole(ms)
<1> DEFINE base == Rewritten
<1>1. /\ base \in Lists /\ DOMAIN base = DOMAIN History /\ Once(base)
      /\ \A x : x \in Contents(base, DOMAIN base) <=> \E i \in DOMAIN History : x \in Own(i)
      /\ Tools \notin Contents(base, DOMAIN base)
      /\ SpokenInOrder(base)
      /\ \A i \in DOMAIN History :
           Spoken(i) => M("text", i) \in Contents(base, DOMAIN base \ OfSystem(base))
      /\ Injected /\ ~IsContinuation =>
           \A x \in Contents(base, DOMAIN base \ OfSystem(base)) : Spoken(x.of)
  BY HistoryTold
<1>2. Tools \in Marks /\ ToolList = <<Tools>>
  BY DEF Marks, Tools, M, ToolList, Mark
<1>3. \A x : x \in Wanted <=> \/ \E i \in DOMAIN History : x \in Own(i)
                              \/ Injected /\ x = Tools
  BY InWanted
<1>4. FieldFirst(ms)
  BY DEF FieldFirst
<1>5. ms = CASE Injected /\ IsContinuation ->
                  AppendToolListToLastMessage(FlattenForUpstream(InjectToolResults))
             [] Injected /\ ~IsContinuation ->
                  FlattenForUpstream(PrependToFirstSystemMessage(InjectToolResults))
             [] ~Injected -> FlattenForUpstream(Plain)
  BY DEF OpenAiMessages
<1>6. base = IF Injected THEN InjectToolResults ELSE Plain
  BY DEF Rewritten
<1> HIDE DEF base
<1>7. CASE Injected /\ IsContinuation
  <2> DEFINE flat == FlattenForUpstream(base)
  <2>1. ms = AppendToolListToLastMessage(flat)
    BY <1>5, <1>6, <1>7
  <2>2. /\ flat \in Lists /\ Once(flat) /\ (DOMAIN base # {} => DOMAIN flat # {})
        /\ Contents(flat, DOMAIN flat) = Contents(base, DOMAIN base)
        /\ \A x, y \in Contents(base, DOMAIN base \ OfSystem(base)) :
             Ahead(base, DOMAIN base, x, y) => Ahead(flat, DOMAIN flat, x, y)
    BY <1>1, FlattenKeeps
  <2>3. DOMAIN flat # {}
    BY <1>1, <1>7, <2>2 DEF IsContinuation
  <2> HIDE DEF flat
  <2>4. /\ ms \in Lists /\ Once(ms)
        /\ Contents(ms, DOMAIN ms) = Contents(flat, DOMAIN flat) \cup {Tools}
        /\ \A x, y : Ahead(flat, DOMAIN flat, x, y) => Ahead(ms, DOMAIN ms, x, y)
        /\ \A x \in Contents(flat, DOMAIN flat) : Ahead(ms, DOMAIN ms, x, Tools)
    BY <1>1, <1>2, <2>1, <2>2, <2>3, AppendTells
  <2>5. \A x : x \in Contents(ms, DOMAIN ms) <=> x \in Wanted
    BY <1>1, <1>3, <1>7, <2>2, <2>4
  <2>6. SpokenInOrder(ms)
    BY <1>1, <2>2, <2>4 DEF SpokenInOrder
  <2>7. ToolsPlaced(ms)
    BY <1>7, <2>4, <2>5 DEF ToolsPlaced
  <2> QED BY <1>4, <2>4, <2>5, <2>6, <2>7 DEF Whole
<1>8. CASE Injected /\ ~IsContinuation
  <2> DEFINE full == PrependToFirstSystemMessage(base)
  <2>1. ms = FlattenForUpstream(full)
    BY <1>5, <1>6, <1>8
  <2>2. /\ full \in Lists /\ Once(full)
        /\ Contents(full, DOMAIN full) = Contents(base, DOMAIN base) \cup {Tools}
        /\ \A x, y : Ahead(base, DOMAIN base, x, y) => Ahead(full, DOMAIN full, x, y)
        /\ Tools \in Contents(full, OfSystem(full))
        /\ Contents(base, DOMAIN base \ OfSystem(base)) \subseteq Contents(full, DOMAIN full \ OfSystem(full))
        /\ \A x : Ahead(full, DOMAIN full, x, Tools) =>
                    x \in Contents(base, DOMAIN base \ OfSystem(base))
    BY <1>1, <1>2, PrependTells
  <2> HIDE DEF full
  <2>3. /\ ms \in Lists /\ Once(ms)
        /\ Contents(ms, DOMAIN ms) = Contents(full, DOMAIN full)
        /\ \A x, y \in Contents(full, DOMAIN full \ OfSystem(full)) :
             Ahead(full, DOMAIN full, x, y) => Ahead(ms, DOMAIN ms, x, y)
        /\ \A x : \A y \in Contents(full, OfSystem(full)) :
             Ahead(ms, DOMAIN ms, x, y) => Ahead(full, DOMAIN full, x, y)
    BY <2>1, <2>2, FlattenKeeps
  <2>4. \A x : x \in Contents(ms, DOMAIN ms) <=> x \in Wanted
    BY <1>1, <1>3, <1>8, <2>2, <2>3
  <2>5. SpokenInOrder(ms)
    <3>1. ASSUME NEW i \in DOMAIN History, NEW j \in DOMAIN History,
                 j < i, Spoken(i), Spoken(j)
          PROVE  Ahead(ms, DOMAIN ms, M("text", j), M("text", i))
      <4>1. Ahead(full, DOMAIN full, M("text", j), M("text", i))
        BY <3>1, <1>1, <2>2 DEF SpokenInOrder
      <4>2. /\ M("text", j) \in Contents(full, DOMAIN full \ OfSystem(full))
            /\ M("text", i) \in Contents(full, DOMAIN full \ OfSystem(full))
        BY <3>1, <1>1, <2>2
      <4> QED BY <4>1, <4>2, <2>3
    <3> QED BY <3>1 DEF SpokenInOrder
  <2>6. ToolsPlaced(ms)
    <3>1. ASSUME NEW x, Ahead(ms, DOMAIN ms, x, Tools) PROVE Spoken(x.of)
      <4>1. x \in Contents(base, DOMAIN base \ OfSystem(base))
        BY <3>1, <2>2, <2>3
      <4> QED BY <4>1, <1>1, <1>8
    <3> QED BY <3>1, <1>8 DEF ToolsPlaced
  <2> QED BY <1>4, <2>3, <2>4, <2>5, <2>6 DEF Whole
<1>9. CASE ~Injected
  <2>1. ms = FlattenForUpstream(base)
    BY <1>5, <1>6, <1>9
  <2>2. /\ ms \in Lists /\ Once(ms)
        /\ Contents(ms, DOMAIN ms) = Contents(base, DOMAIN base)
        /\ \A x, y \in Contents(base, DOMAIN base \ OfSystem(base)) :
             Ahead(base, DOMAIN base, x, y) => Ahead(ms, DOMAIN ms, x, y)
    BY <1>1, <2>1, FlattenKeeps
  <2>3. \A x : x \in Contents(ms, DOMAIN ms) <=> x \in Wanted
    BY <1>1, <1>3, <1>9, <2>2
  <2>4. SpokenInOrder(ms)
    BY <1>1, <2>2 DEF SpokenInOrder
  <2>5. ToolsPlaced(ms)
    BY <1>9 DEF ToolsPlaced
  <2> QED BY <1>4, <2>2, <2>3, <2>4, <2>5 DEF Whole
<1> QED BY <1>7, <1>8, <1>9

LEMMA AnthropicWhole ==
  ASSUME request \in Accepted, ~Injected, NEW ms,
         ms = (IF request.system THEN <<Turn("system", Mark("text", 0))>> ELSE <<>>) \o Plain
  PROVE  Whole(ms)
<1> DEFINE base == Rewritten
<1>1. /\ base \in Lists /\ Once(base)
      /\ \A x : x \in Contents(base, DOMAIN base) <=> \E i \in DOMAIN History : x \in Own(i)
      /\ Field \notin Contents(base, DOMAIN base)
      /\ SpokenInOrder(base)
  BY HistoryTold
<1>2. base = Plain
  BY DEF Rewritten
<1>3. Field \in Marks /\ Mark("text", 0) = <<Field>>
  BY DEF Marks, Field, M, Mark
<1>4. \A x : x \in Wanted <=> \/ \E i \in DOMAIN History : x \in Own(i)
                              \/ request.system /\ x = Field
  BY InWanted
<1>5. ToolsPlaced(ms)
  BY DEF ToolsPlaced
<1> HIDE DEF base
<1>6. CASE request.system
  <2>1. ms = <<Turn("system", <<Field>>)>> \o base
    BY <1>2, <1>3, <1>6
  <2>2. /\ ms \in Lists /\ Once(ms)
        /\ Contents(ms, DOMAIN ms) = Contents(base, DOMAIN base) \cup {Field}
        /\ \A x, y : Ahead(base, DOMAIN base, x, y) => Ahead(ms, DOMAIN ms, x, y)
        /\ \A x \in Contents(base, DOMAIN base) : Ahead(ms, DOMAIN ms, Field, x)
    BY <1>1, <1>3, <2>1, PutInFront
  <2>3. \A x : x \in Contents(ms, DOMAIN ms) <=> x \in Wanted
    BY <1>1, <1>4, <1>6, <2>2
  <2>4. SpokenInOrder(ms)
    BY <1>1, <2>2 DEF SpokenInOrder
  <2>5. FieldFirst(ms)
    BY <2>2, <2>3 DEF FieldFirst
  <2> QED BY <1>5, <2>2, <2>3, <2>4, <2>5 DEF Whole
<1>7. CASE ~request.system
  <2>1. ms = base
    <3>1. ms = <<>> \o base
      BY <1>2, <1>7
    <3>2. base \in Seq(Turns)
      BY <1>1 DEF Lists
    <3> QED BY <3>1, <3>2, ConcatEmptySeq
  <2>2. \A x : x \in Contents(ms, DOMAIN ms) <=> x \in Wanted
    BY <1>1, <1>4, <1>7, <2>1
  <2>3. FieldFirst(ms)
    BY <1>7 DEF FieldFirst
  <2> QED BY <1>1, <1>5, <2>1, <2>2, <2>3 DEF Whole
<1> QED BY <1>6, <1>7

\* Folding a list into one user message leaves it whole.
LEMMA FoldedWhole ==
  ASSUME NEW ms, Whole(ms), NEW ps, ps = NormalizeMessages(ms)
  PROVE  Whole(ps) /\ DOMAIN ps = {1} /\ ps[1].content \in Seq(Marks)
<1> DEFINE c == Joined(ms, DOMAIN ms)
<1>1. ms \in Lists /\ Once(ms) /\ DOMAIN ms \subseteq DOMAIN ms
  BY DEF Whole
<1>2. /\ c \in Seq(Marks) /\ Holds(c) = Contents(ms, DOMAIN ms) /\ Distinct(c)
      /\ \A x, y : InTurn(c, x, y) <=> Ahead(ms, DOMAIN ms, x, y)
  BY <1>1, JoinedReads
<1>3. ps = <<Turn("user", c)>>
  BY DEF NormalizeMessages
<1> HIDE DEF c
<1>4. ps \in Lists /\ DOMAIN ps = {1} /\ ps[1].content = c
  BY <1>2, <1>3, WrittenOut DEF Roles
<1>5. /\ Contents(ps, DOMAIN ps) = Holds(c) /\ Once(ps)
      /\ \A x, y : Ahead(ps, DOMAIN ps, x, y) <=> InTurn(c, x, y)
  BY <1>2, <1>4, OneTurn
<1>6. \A x, y : Ahead(ps, DOMAIN ps, x, y) <=> Ahead(ms, DOMAIN ms, x, y)
  BY <1>2, <1>5
<1>7. Contents(ps, DOMAIN ps) = Wanted
  BY <1>2, <1>5 DEF Whole
<1>8. SpokenInOrder(ps)
  BY <1>6 DEF Whole, SpokenInOrder
<1>9. ToolsPlaced(ps)
  BY <1>6 DEF Whole, ToolsPlaced
<1>10. FieldFirst(ps)
  BY <1>6 DEF Whole, FieldFirst
<1> QED BY <1>2, <1>4, <1>5, <1>7, <1>8, <1>9, <1>10 DEF Whole

\* Where a mark of the one message's content is.
LEMMA PlacesRead ==
  ASSUME NEW c \in Seq(Marks), c = Prompt, Distinct(c), NEW kind, NEW i
  PROVE  /\ M(kind, i) \notin Holds(c) => Cardinality(Places(kind, i)) = 0
         /\ M(kind, i) \in Holds(c) =>
              Cardinality(Places(kind, i)) = 1 /\ PlaceOf(kind, i) \in Places(kind, i)
         /\ \A k \in DOMAIN c :
              c[k] = M(kind, i) => PlaceOf(kind, i) = k /\ Places(kind, i) = {k}
<1>1. Mark(kind, i)[1] = M(kind, i)
  BY DEF Mark, M
<1>2. Places(kind, i) = {k \in DOMAIN c : c[k] = M(kind, i)}
  BY <1>1 DEF Places
<1>3. ASSUME M(kind, i) \notin Holds(c) PROVE Cardinality(Places(kind, i)) = 0
  <2>1. Places(kind, i) = {}
    BY <1>2, <1>3 DEF Holds
  <2> QED BY <2>1, FS_EmptySet
<1>4. ASSUME NEW k \in DOMAIN c, c[k] = M(kind, i)
      PROVE  /\ PlaceOf(kind, i) = k /\ Places(kind, i) = {k}
             /\ Cardinality(Places(kind, i)) = 1
  <2>1. Places(kind, i) = {k}
    BY <1>2, <1>4 DEF Distinct
  <2>2. PlaceOf(kind, i) = k
    BY <2>1 DEF PlaceOf
  <2>3. Cardinality({k}) = 1
    BY FS_Singleton
  <2> QED BY <2>1, <2>2, <2>3
<1>5. M(kind, i) \in Holds(c) => \E k \in DOMAIN c : c[k] = M(kind, i)
  BY DEF Holds
<1> QED BY <1>3, <1>4, <1>5

\* One whole message is what PromptWhole asks of it.
LEMMA WholeRead ==
  ASSUME request \in Accepted, DOMAIN body.messages = {1},
         body.messages[1].content \in Seq(Marks), Whole(body.messages)
  PROVE  PromptWhole
<1> DEFINE c == Prompt
<1>1. /\ c \in Seq(Marks) /\ Len(c) \in Nat /\ DOMAIN c = 1 .. Len(c)
      /\ c = body.messages[1].content
  BY DEF Prompt
<1>2. /\ Contents(body.messages, DOMAIN body.messages) = Holds(c)
      /\ \A x, y : Ahead(body.messages, DOMAIN body.messages, x, y) <=> InTurn(c, x, y)
  BY <1>1, OneTurn
<1>3. Holds(c) = Wanted /\ Once(body.messages)
  BY <1>2 DEF Whole
<1>4. Distinct(c)
  <2>1. ASSUME NEW m \in DOMAIN c, NEW n \in DOMAIN c, c[m] = c[n] PROVE m = n
    <3> DEFINE Spot(k) == <<1, k>>
    <3>1. \A k \in DOMAIN c : /\ Spot(k) \in Spots(body.messages, DOMAIN body.messages)
                              /\ MarkAt(body.messages, Spot(k)) = c[k]
      BY <1>1 DEF Spots, MarkAt
    <3>2. \A k, l : Spot(k) = Spot(l) => k = l
      OBVIOUS
    <3> HIDE DEF Spot, c
    <3>3. Spot(m) = Spot(n)
      BY <1>3, <2>1, <3>1 DEF Once
    <3> QED BY <3>2, <3>3
  <2> QED BY <2>1 DEF Distinct
<1>5. /\ \A i, j \in DOMAIN History :
           j < i /\ Spoken(i) /\ Spoken(j) => InTurn(c, M("text", j), M("text", i))
      /\ Injected /\ IsContinuation => \A x \in Wanted : x # Tools => InTurn(c, x, Tools)
      /\ Injected /\ ~IsContinuation => \A x : InTurn(c, x, Tools) => Spoken(x.of)
      /\ request.system => \A x \in Wanted : x # Field => InTurn(c, Field, x)
  BY <1>2 DEF Whole, SpokenInOrder, ToolsPlaced, FieldFirst
<1>6. c = Prompt
  OBVIOUS
<1> HIDE DEF c
<1>7. \A kind, i :
        /\ M(kind, i) \notin Wanted => Cardinality(Places(kind, i)) = 0
        /\ M(kind, i) \in Wanted =>
             Cardinality(Places(kind, i)) = 1 /\ PlaceOf(kind, i) \in Places(kind, i)
        /\ \A k \in DOMAIN c :
             c[k] = M(kind, i) => PlaceOf(kind, i) = k /\ Places(kind, i) = {k}
  BY <1>1, <1>3, <1>4, <1>6, PlacesRead
<1>8. \A k \in DOMAIN c : c[k] \in Wanted
  BY <1>3 DEF Holds
<1>9. \A x \in Wanted : \E k \in DOMAIN c : c[k] = x
  BY <1>3 DEF Holds
<1>10. ASSUME NEW i \in DOMAIN History
       PROVE  /\ Cardinality(Places("text", i)) + Cardinality(Places("result", i)) =
                   IF History[i].said \/ (Injected /\ History[i].role = "tool") THEN 1 ELSE 0
              /\ Cardinality(Places("calls", i)) = IF Injected /\ History[i].calls THEN 1 ELSE 0
              /\ \A j \in 1 .. i - 1 :
                   Spoken(i) /\ Spoken(j) => PlaceOf("text", j) < PlaceOf("text", i)
  <2>1. /\ M("text", i) \in Wanted <=> History[i].said /\ ~(Injected /\ History[i].role = "tool")
        /\ M("calls", i) \in Wanted <=> Injected /\ History[i].calls
        /\ M("result", i) \in Wanted <=> Injected /\ History[i].role = "tool"
    BY InWanted, OwnMarks
  <2>2. Cardinality(Places("text", i)) =
          IF History[i].said /\ ~(Injected /\ History[i].role = "tool") THEN 1 ELSE 0
    BY <1>7, <2>1
  <2>3. Cardinality(Places("result", i)) = IF Injected /\ History[i].role = "tool" THEN 1 ELSE 0
    BY <1>7, <2>1
  <2>4. Cardinality(Places("calls", i)) = IF Injected /\ History[i].calls THEN 1 ELSE 0
    BY <1>7, <2>1
  <2>5. ASSUME NEW j \in 1 .. i - 1, Spoken(i), Spoken(j)
        PROVE  PlaceOf("text", j) < PlaceOf("text", i)
    <3>1. i \in Nat /\ History \in Seq(Messages)
      BY OwnMarks DEF Accepted, History
    <3>2. j \in DOMAIN History /\ j < i
      BY <2>5, <3>1
    <3>3. InTurn(c, M("text", j), M("text", i))
      BY <1>5, <2>5, <3>2
    <3>4. PICK m, n \in DOMAIN c : m < n /\ c[m] = M("text", j) /\ c[n] = M("text", i)
      BY <3>3 DEF InTurn
    <3> QED BY <3>4, <1>7
  <2>6. Cardinality(Places("text", i)) + Cardinality(Places("result", i)) =
          IF History[i].said \/ (Injected /\ History[i].role = "tool") THEN 1 ELSE 0
    BY <2>2, <2>3
  <2> QED BY <2>4, <2>5, <2>6
<1>11. Cardinality(Places("tools", 0)) = IF Injected THEN 1 ELSE 0
  BY <1>7, InWanted DEF Tools
<1>12. ASSUME Injected, IsContinuation PROVE PlaceOf("tools", 0) = Len(c)
  <2>1. Tools \in Wanted
    BY <1>12, InWanted
  <2>2. PICK p \in DOMAIN c : c[p] = Tools
    BY <1>9, <2>1
  <2>3. PlaceOf("tools", 0) = p
    BY <1>7, <2>2 DEF Tools
  <2>4. Len(c) \in DOMAIN c
    BY <1>1
  <2>5. CASE c[Len(c)] = Tools
    BY <2>4, <2>5, <1>7 DEF Tools
  <2>6. CASE c[Len(c)] # Tools
    <3>1. InTurn(c, c[Len(c)], Tools)
      BY <1>5, <1>8, <1>12, <2>4, <2>6
    <3>2. PICK m, n \in DOMAIN c : m < n /\ c[m] = c[Len(c)] /\ c[n] = Tools
      BY <3>1 DEF InTurn
    <3>3. m = Len(c)
      BY <1>4, <2>4, <3>2 DEF Distinct
    <3> QED BY <1>1, <3>2, <3>3
  <2> QED BY <2>5, <2>6
<1>13. ASSUME Injected, ~IsContinuation, NEW k \in 1 .. PlaceOf("tools", 0) - 1
       PROVE  Spoken(c[k].of)
  <2>1. PICK p \in DOMAIN c : c[p] = Tools
    BY <1>9, <1>13, InWanted
  <2>2. PlaceOf("tools", 0) = p
    BY <1>7, <2>1 DEF Tools
  <2>3. k \in DOMAIN c /\ k < p
    BY <1>1, <1>13, <2>2
  <2>4. InTurn(c, c[k], Tools)
    BY <2>1, <2>3 DEF InTurn
  <2> QED BY <1>5, <1>13, <2>4
<1>14. ASSUME request.system PROVE Places("text", 0) = {1}
  <2>1. Field \in Wanted
    BY <1>14, InWanted
  <2>2. PICK p \in DOMAIN c : c[p] = Field
    BY <1>9, <2>1
  <2>3. 1 \in DOMAIN c
    BY <1>1, <2>2
  <2>4. CASE c[1] = Field
    BY <1>7, <2>3, <2>4 DEF Field
  <2>5. CASE c[1] # Field
    <3>1. InTurn(c, Field, c[1])
      BY <1>5, <1>8, <1>14, <2>3, <2>5
    <3>2. PICK m, n \in DOMAIN c : m < n /\ c[m] = Field /\ c[n] = c[1]
      BY <3>1 DEF InTurn
    <3>3. n = 1
      BY <1>4, <2>3, <3>2 DEF Distinct
    <3> QED BY <1>1, <3>2, <3>3
  <2> QED BY <2>4, <2>5
<1> QED BY <1>6, <1>10, <1>11, <1>12, <1>13, <1>14 DEF PromptWhole

\* From the adapter to the call the messages are whole, and then one message.
AskInv ==
  /\ request \in Asked
  /\ asking \in {"built", "session", "sent"} =>
       "messages" \in DOMAIN body /\ Whole(body.messages)
  /\ asking = "sent" =>
       DOMAIN body.messages = {1} /\ body.messages[1].content \in Seq(Marks)

LEMMA AskInitInv == AskInit => AskInv
BY DEF AskInit, AskInv

LEMMA AskStepInv == AskInv /\ [AskNext]_askVars => AskInv'
<1> SUFFICES ASSUME AskInv, [AskNext]_askVars PROVE AskInv'
  OBVIOUS
<1>1. request \in Asked /\ request \in Accepted
  BY AskedAssumption DEF AskInv
<1>2. CASE Refuse
  BY <1>2 DEF Refuse, AskInv
<1>3. CASE Build
  <2>1. /\ asking' = "built" /\ request' = request /\ ~Unfit
        /\ body' = IF request.api = "openai" THEN OpenAiBody ELSE AnthropicBody
    BY <1>3 DEF Build
  <2>2. Whole(body'.messages)
    <3>1. request.api \in {"openai", "anthropic"}
          /\ (request.system => request.api = "anthropic")
      BY <1>1 DEF Accepted
    <3>2. CASE request.api = "openai"
      <4>1. body'.messages = OpenAiMessages
        BY <2>1, <3>2 DEF OpenAiBody
      <4> QED BY <1>1, <3>1, <3>2, <4>1, OpenAiWhole
    <3>3. CASE request.api = "anthropic"
      <4>1. body'.messages =
              (IF request.system THEN <<Turn("system", Mark("text", 0))>> ELSE <<>>) \o Plain
        BY <2>1, <3>3 DEF AnthropicBody
      <4>2. ~Injected
        BY <2>1, <3>3 DEF Unfit, Injected
      <4> QED BY <1>1, <4>1, <4>2, AnthropicWhole
    <3> QED BY <3>1, <3>2, <3>3
  <2>3. Whole(body.messages)'
    BY <2>1, <2>2 DEF Whole, SpokenInOrder, ToolsPlaced, FieldFirst, Wanted, Own, History,
       Injected, IsContinuation, Spoken
  <2>4. "messages" \in DOMAIN body'
    BY <2>1 DEF OpenAiBody, AnthropicBody
  <2> QED BY <1>1, <2>1, <2>3, <2>4 DEF AskInv
<1>4. ASSUME request' = request, body' = body,
             asking' \in {"built", "session"} => asking \in {"built", "session"},
             asking' = "sent" => asking = "sent"
      PROVE  AskInv'
  <2>1. Whole(body.messages)' <=> Whole(body.messages)
    BY <1>4 DEF Whole, SpokenInOrder, ToolsPlaced, FieldFirst, Wanted, Own, History,
       Injected, IsContinuation, Spoken
  <2> QED BY <1>4, <2>1 DEF AskInv
<1>5. \A error \in Errors : Status(error) \in {"400", "429", "502", "500"}
  BY DEF Errors, Status
<1>6. CASE OpenSession
  <2>1. /\ asking = "built" /\ request' = request /\ body' = body
        /\ asking' \in {"session", "built", Status("other")}
    BY <1>6 DEF OpenSession
  <2>2. Status("other") = "500"
    BY DEF Status
  <2> QED BY <1>4, <2>1, <2>2
<1>7. CASE Send
  <2>1. /\ asking = "session" /\ asking' = "sent" /\ request' = request
        /\ body' = [body EXCEPT !.messages = NormalizeMessages(body.messages)]
    BY <1>7 DEF Send
  <2>2. "messages" \in DOMAIN body /\ Whole(body.messages)
    BY <2>1 DEF AskInv
  <2>3. body'.messages = NormalizeMessages(body.messages) /\ "messages" \in DOMAIN body'
    BY <2>1, <2>2
  <2>4. /\ Whole(body'.messages) /\ DOMAIN body'.messages = {1}
        /\ body'.messages[1].content \in Seq(Marks)
    BY <2>2, <2>3, FoldedWhole
  <2>5. Whole(body.messages)'
    BY <2>1, <2>4 DEF Whole, SpokenInOrder, ToolsPlaced, FieldFirst, Wanted, Own, History,
       Injected, IsContinuation, Spoken
  <2> QED BY <1>1, <2>1, <2>3, <2>4, <2>5 DEF AskInv
<1>8. CASE CallFails
  <2>1. /\ request' = request /\ body' = body
        /\ \E error \in Errors : asking' = Status(error)
    BY <1>8 DEF CallFails
  <2> QED BY <1>4, <1>5, <2>1
<1>9. CASE UNCHANGED askVars
  BY <1>4, <1>9 DEF askVars
<1> QED BY <1>2, <1>3, <1>6, <1>7, <1>8, <1>9 DEF AskNext

(* Whatever was folded, moved and rewritten on the way up, the one message *)
(* the client sends holds every text and result of the conversation once   *)
(* and in order, the calls of the assistant once if tools are injected and *)
(* not at all if they are not, and the list of tools where the route wants *)
(* it, for every request that can be made (openai/chat.ts,                 *)
(* tools/tool-prompt.ts, qwen/guest-client.ts).                            *)
THEOREM PromptTheorem == AskSpec => []PromptWhole
<1>1. AskInv => PromptWhole
  <2>1. ASSUME AskInv, asking # "sent" PROVE PromptWhole
    BY <2>1 DEF PromptWhole
  <2>2. ASSUME AskInv, asking = "sent" PROVE PromptWhole
    BY <2>2, AskedAssumption, WholeRead DEF AskInv
  <2> QED BY <2>1, <2>2
<1> QED BY <1>1, AskInitInv, AskStepInv, PTL DEF AskSpec

-----------------------------------------------------------------------------
(* Functions defined by recursion (design tree) *)

\* What holds of the last of some numbers, and of the one before whenever of one.
LEMMA Downward ==
  ASSUME NEW N \in Nat, NEW S, N \in S, \A k \in 1 .. N : k \in S => k - 1 \in S
  PROVE  \A k \in 0 .. N : k \in S
<1> DEFINE missing == {i \in 1 .. N + 1 : N + 1 - i \notin S}
<1> SUFFICES ASSUME NEW k \in 0 .. N, k \notin S PROVE FALSE
  OBVIOUS
<1>1. missing \in SUBSET (1 .. N + 1) /\ missing # {} /\ N + 1 \in Nat
  <2>1. N + 1 - k \in 1 .. N + 1 /\ N + 1 - (N + 1 - k) = k
    OBVIOUS
  <2>2. N + 1 - k \in missing
    BY <2>1
  <2> QED BY <2>2
<1>2. PICK i \in missing : \A j \in missing : i <= j
  <2> HIDE DEF missing
  <2> QED BY <1>1, FirstIndex
<1>3. i \in 1 .. N + 1 /\ N + 1 - i \notin S
  OBVIOUS
<1>4. i # 1
  <2>1. N + 1 - 1 = N
    OBVIOUS
  <2> QED BY <1>3, <2>1
<1>5. i - 1 \notin missing
  <2>1. i \in Int /\ ~(i <= i - 1)
    BY <1>3
  <2> HIDE DEF missing
  <2> QED BY <1>2, <2>1
<1>6. N + 1 - (i - 1) \in S /\ N + 1 - (i - 1) \in 1 .. N /\ N + 1 - (i - 1) - 1 = N + 1 - i
  <2>1. i - 1 \in 1 .. N + 1 /\ N + 1 - (i - 1) \in 1 .. N /\ N + 1 - (i - 1) - 1 = N + 1 - i
    BY <1>3, <1>4
  <2> QED BY <1>5, <2>1
<1> QED BY <1>3, <1>6

\* What holds of zero, and of the next whenever of one.
LEMMA Upward ==
  ASSUME NEW N \in Nat, NEW S, 0 \in S, \A k \in 1 .. N : k - 1 \in S => k \in S
  PROVE  \A k \in 0 .. N : k \in S
<1> DEFINE T == {i \in 0 .. N : N - i \in S}
<1>1. N \in T
  OBVIOUS
<1>2. \A k \in 1 .. N : k \in T => k - 1 \in T
  <2> SUFFICES ASSUME NEW k \in 1 .. N, k \in T PROVE k - 1 \in T
    OBVIOUS
  <2>1. /\ N - k + 1 \in 1 .. N /\ N - k + 1 - 1 = N - k
        /\ N - (k - 1) = N - k + 1 /\ k - 1 \in 0 .. N
    OBVIOUS
  <2>2. N - k + 1 \in S
    BY <2>1
  <2> QED BY <2>1, <2>2
<1>3. \A k \in 0 .. N : k \in T
  <2> HIDE DEF T
  <2> QED BY <1>1, <1>2, Downward
<1>4. ASSUME NEW k \in 0 .. N PROVE k \in S
  <2>1. N - k \in 0 .. N /\ N - (N - k) = k
    OBVIOUS
  <2>2. N - k \in T
    BY <1>3, <2>1
  <2> QED BY <2>1, <2>2
<1> QED BY <1>4

\* A function that is defined by what it is at a greater rank exists.
Ranked(D, rank, N, V, F) ==
  /\ N \in Nat /\ rank \in [D -> 0 .. N] /\ V # {}
  /\ F \in [D -> [[D -> V] -> V]]
  /\ \A x \in D : \A g, h \in [D -> V] :
       (\A y \in D : rank[x] < rank[y] => g[y] = h[y]) => F[x][g] = F[x][h]

LEMMA Recursion ==
  ASSUME NEW D, NEW rank, NEW N, NEW V, NEW F, Ranked(D, rank, N, V, F)
  PROVE  \E f \in [D -> V] : \A x \in D : f[x] = F[x][f]
<1>0. /\ N \in Nat /\ rank \in [D -> 0 .. N] /\ V # {}
      /\ F \in [D -> [[D -> V] -> V]]
      /\ \A x \in D : \A g, h \in [D -> V] :
           (\A y \in D : rank[x] < rank[y] => g[y] = h[y]) => F[x][g] = F[x][h]
  BY DEF Ranked
<1> DEFINE Settled(k, f) == \A x \in D : k <= rank[x] => f[x] = F[x][f]
           S == {k \in 0 .. N + 1 : \E f \in [D -> V] : Settled(k, f)}
<1>1. N + 1 \in S
  <2>1. PICK v \in V : TRUE
    BY <1>0
  <2>2. [x \in D |-> v] \in [D -> V]
    BY <2>1
  <2>3. \A x \in D : ~(N + 1 <= rank[x])
    BY <1>0
  <2>4. Settled(N + 1, [x \in D |-> v])
    BY <2>3
  <2>5. N + 1 \in 0 .. N + 1
    BY <1>0
  <2> HIDE DEF Settled
  <2> QED BY <2>2, <2>4, <2>5
<1>2. ASSUME NEW k \in 1 .. N + 1, k \in S PROVE k - 1 \in S
  <2>1. PICK f \in [D -> V] : Settled(k, f)
    BY <1>2
  <2> DEFINE h == [x \in D |-> IF rank[x] = k - 1 THEN F[x][f] ELSE f[x]]
  <2>2. h \in [D -> V]
    BY <1>0
  <2>3. ASSUME NEW x \in D, k - 1 <= rank[x] PROVE h[x] = F[x][h]
    <3>1. \A y \in D : rank[x] < rank[y] => h[y] = f[y]
      BY <1>0, <2>3
    <3>2. F[x][h] = F[x][f]
      <4> HIDE DEF h
      <4> QED BY <1>0, <2>2, <3>1
    <3>3. rank[x] # k - 1 => k <= rank[x]
      <4>1. rank[x] \in Int /\ k \in Int
        BY <1>0
      <4> QED BY <2>3, <4>1
    <3>4. rank[x] # k - 1 => f[x] = F[x][f]
      BY <2>1, <3>3
    <3> QED BY <3>2, <3>4
  <2>4. k - 1 \in 0 .. N + 1
    BY <1>0
  <2>5. Settled(k - 1, h)
    <3> HIDE DEF h
    <3> QED BY <2>3
  <2> HIDE DEF Settled, h
  <2> QED BY <2>2, <2>4, <2>5
<1>3. N + 1 \in Nat
  BY <1>0
<1>4. 0 \in S
  <2> HIDE DEF S
  <2>1. \A k \in 0 .. N + 1 : k \in S
    BY <1>1, <1>2, <1>3, Downward
  <2> QED BY <1>3, <2>1
<1>5. PICK f \in [D -> V] : Settled(0, f)
  BY <1>4
<1>6. \A x \in D : 0 <= rank[x]
  BY <1>0
<1> QED BY <1>5, <1>6

-----------------------------------------------------------------------------
(* The design tree and its paths *)

IsTree == parent \in [2 .. TreeSize -> Nodes] /\ \A n \in 2 .. TreeSize : parent[n] < n

\* The nodes: the root, and those that have a parent.
LEMMA NodesAre ==
  /\ TreeSize \in Nat /\ Root \in Nodes /\ Nodes = {Root} \cup 2 .. TreeSize
  /\ Root \notin 2 .. TreeSize /\ \A n \in Nodes : n \in Nat
BY DesignAssumption DEF Nodes, Root

\* What holds of the root, and of a node whenever of its parent.
LEMMA Climb ==
  ASSUME IsTree, NEW S, Root \in S, \A n \in 2 .. TreeSize : parent[n] \in S => n \in S
  PROVE  \A n \in Nodes : n \in S
<1> DEFINE missing == {n \in Nodes : n \notin S}
<1> SUFFICES ASSUME missing # {} PROVE FALSE
  OBVIOUS
<1>1. missing \in SUBSET (1 .. TreeSize) /\ TreeSize \in Nat
  BY NodesAre DEF Nodes
<1>2. PICK n \in missing : \A m \in missing : n <= m
  <2> HIDE DEF missing
  <2> QED BY <1>1, FirstIndex
<1>3. n \in 2 .. TreeSize /\ n \notin S
  BY NodesAre
<1>4. parent[n] \in missing
  BY <1>3 DEF IsTree
<1>5. n <= parent[n] /\ parent[n] < n /\ n \in Int /\ parent[n] \in Int
  BY <1>2, <1>3, <1>4, NodesAre DEF IsTree
<1> QED BY ONLY <1>5

\* A path: the node, and the path of its parent.
LEMMA PathIs ==
  ASSUME IsTree
  PROVE  /\ Path(Root) = {Root}
         /\ \A n \in 2 .. TreeSize : Path(n) = {n} \cup Path(parent[n])
         /\ \A n \in Nodes : Path(n) \in SUBSET Nodes
<1> DEFINE V == SUBSET Nodes
           rank == [n \in Nodes |-> TreeSize - n]
           F == [m \in Nodes |-> [g \in [Nodes -> V] |-> {m} \cup UNION {g[k] : k \in Up(m)}]]
           path == CHOOSE f : f = [m \in Nodes |-> {m} \cup UNION {f[k] : k \in Up(m)}]
<1>1. \A m \in Nodes : Up(m) \subseteq Nodes /\ \A k \in Up(m) : k < m
  BY NodesAre DEF Up, IsTree
<1>2. ASSUME NEW m \in Nodes, NEW g \in [Nodes -> V]
      PROVE  {m} \cup UNION {g[k] : k \in Up(m)} \in V
  BY <1>1
<1>3. F \in [Nodes -> [[Nodes -> V] -> V]]
  BY <1>2
<1>4. \A m \in Nodes : \A g \in [Nodes -> V] : F[m][g] = {m} \cup UNION {g[k] : k \in Up(m)}
  OBVIOUS
<1>5. rank \in [Nodes -> 0 .. TreeSize]
  BY NodesAre DEF Nodes
<1>6. ASSUME NEW m \in Nodes, NEW g \in [Nodes -> V], NEW h \in [Nodes -> V],
             \A k \in Nodes : rank[m] < rank[k] => g[k] = h[k]
      PROVE  F[m][g] = F[m][h]
  <2>1. \A k \in Up(m) : rank[m] < rank[k]
    BY <1>1, NodesAre
  <2>2. \A k \in Up(m) : g[k] = h[k]
    BY <1>1, <1>6, <2>1
  <2>3. {g[k] : k \in Up(m)} = {h[k] : k \in Up(m)}
    BY <2>2
  <2> QED BY <1>4, <2>3
<1>7. V # {} /\ TreeSize \in Nat
  BY NodesAre
<1>8. \E f \in [Nodes -> V] : \A m \in Nodes : f[m] = F[m][f]
  <2> HIDE DEF V, rank, F
  <2>1. Ranked(Nodes, rank, TreeSize, V, F)
    BY <1>3, <1>5, <1>6, <1>7 DEF Ranked
  <2> QED BY <2>1, Recursion
<1>9. \E f : f = [m \in Nodes |-> {m} \cup UNION {f[k] : k \in Up(m)}]
  <2>1. PICK f \in [Nodes -> V] : \A m \in Nodes : f[m] = F[m][f]
    BY <1>8
  <2>2. \A m \in Nodes : f[m] = {m} \cup UNION {f[k] : k \in Up(m)}
    <3> HIDE DEF F
    <3> QED BY <1>4, <2>1
  <2> QED BY <2>2
<1>10. path = [m \in Nodes |-> {m} \cup UNION {path[k] : k \in Up(m)}]
  BY <1>9
<1>11. \A n \in Nodes : Path(n) = path[n]
  BY DEF Path
<1> HIDE DEF path, V, F, rank
<1>12. \A n \in Nodes : Path(n) = {n} \cup UNION {Path(k) : k \in Up(n)}
  <2> SUFFICES ASSUME NEW n \in Nodes PROVE Path(n) = {n} \cup UNION {Path(k) : k \in Up(n)}
    OBVIOUS
  <2>1. path[n] = {n} \cup UNION {path[k] : k \in Up(n)}
    BY <1>10
  <2>2. {path[k] : k \in Up(n)} = {Path(k) : k \in Up(n)}
    BY <1>1, <1>11
  <2> QED BY <1>11, <2>1, <2>2
<1>13. Path(Root) = {Root}
  BY <1>12, NodesAre DEF Up
<1>14. ASSUME NEW n \in 2 .. TreeSize PROVE Path(n) = {n} \cup Path(parent[n])
  <2>1. Up(n) = {parent[n]} /\ n \in Nodes
    BY NodesAre DEF Up
  <2> QED BY <1>12, <2>1
<1>15. \A n \in Nodes : Path(n) \in SUBSET Nodes
  <2> DEFINE S == {n \in Nodes : Path(n) \in SUBSET Nodes}
  <2>1. Root \in S
    BY <1>13, NodesAre
  <2>2. \A n \in 2 .. TreeSize : parent[n] \in S => n \in S
    BY <1>14, NodesAre
  <2>3. \A n \in Nodes : n \in S
    <3> HIDE DEF S
    <3> QED BY <2>1, <2>2, Climb
  <2> QED BY <2>3
<1> QED BY <1>13, <1>14, <1>15

\* A path goes down from the root, and holds the paths of its nodes.
LEMMA PathGoes ==
  ASSUME IsTree, NEW x \in Nodes
  PROVE  /\ x \in Path(x) /\ Root \in Path(x)
         /\ \A y \in Path(x) : y \in Nodes /\ y <= x
         /\ \A y \in Path(x) : Path(y) \subseteq Path(x)
         /\ \A y, z \in Path(x) : y <= z => y \in Path(z)
<1> DEFINE Fine(n) == /\ n \in Path(n) /\ Root \in Path(n)
                      /\ \A y \in Path(n) : y \in Nodes /\ y <= n
                      /\ \A y \in Path(n) : Path(y) \subseteq Path(n)
                      /\ \A y, z \in Path(n) : y <= z => y \in Path(z)
           S == {n \in Nodes : Fine(n)}
<1>1. Root \in S
  <2>1. Path(Root) = {Root} /\ Root \in Nodes /\ Root <= Root
    BY PathIs, NodesAre
  <2> QED BY <2>1
<1>2. ASSUME NEW n \in 2 .. TreeSize, parent[n] \in S PROVE n \in S
  <2> DEFINE p == parent[n]
  <2>1. Path(n) = {n} \cup Path(p) /\ n \in Nodes /\ p \in Nodes /\ p < n /\ n \in Nat /\ p \in Nat
    BY PathIs, NodesAre DEF IsTree
  <2>2. Fine(p)
    BY <1>2
  <2> HIDE DEF p
  <2>3. n \in Path(n) /\ Root \in Path(n)
    BY <2>1, <2>2
  <2>4. \A y \in Path(p) : y \in Nodes /\ y \in Nat /\ y < n
    <3>1. \A y \in Path(p) : y \in Nodes /\ y \in Nat /\ y <= p
      BY <2>2, NodesAre
    <3> QED BY <2>1, <3>1
  <2>5. \A y \in Path(n) : y \in Nodes /\ y <= n
    BY <2>1, <2>4
  <2>6. \A y \in Path(n) : Path(y) \subseteq Path(n)
    BY <2>1, <2>2
  <2>7. ASSUME NEW y \in Path(n), NEW z \in Path(n), y <= z PROVE y \in Path(z)
    <3>1. CASE z = n
      BY <3>1
    <3>2. CASE z \in Path(p)
      <4>1. y # n
        BY <2>1, <2>4, <2>7, <3>2
      <4> QED BY <2>1, <2>2, <2>7, <3>2, <4>1
    <3> QED BY <2>1, <3>1, <3>2
  <2>8. Fine(n)
    BY <2>3, <2>5, <2>6, <2>7
  <2> HIDE DEF Fine
  <2> QED BY <2>1, <2>8
<1>3. \A n \in Nodes : n \in S
  <2> HIDE DEF S
  <2> QED BY <1>1, <1>2, Climb
<1> QED BY <1>3

\* The next node on the way down.
LEMMA PathNext ==
  ASSUME IsTree, NEW n \in Nodes, NEW x \in Nodes, n \in Path(x), n # x
  PROVE  \E m \in 2 .. TreeSize : parent[m] = n /\ m \in Path(x)
<1> DEFINE S == {y \in Nodes : n \in Path(y) /\ n # y =>
                   \E m \in 2 .. TreeSize : parent[m] = n /\ m \in Path(y)}
<1>1. Root \in S
  BY PathIs, NodesAre
<1>2. ASSUME NEW y \in 2 .. TreeSize, parent[y] \in S PROVE y \in S
  <2>1. Path(y) = {y} \cup Path(parent[y]) /\ y \in Nodes
    BY PathIs, NodesAre
  <2>2. CASE n = parent[y]
    BY <2>1, <2>2
  <2>3. CASE n # parent[y]
    BY <1>2, <2>1, <2>3
  <2> QED BY <2>2, <2>3
<1>3. \A y \in Nodes : y \in S
  <2> HIDE DEF S
  <2> QED BY <1>1, <1>2, Climb
<1> QED BY <1>3

\* Only one child of a node is on a path.
LEMMA PathOnce ==
  ASSUME IsTree, NEW x \in Nodes, NEW m \in 2 .. TreeSize, NEW k \in 2 .. TreeSize,
         m \in Path(x), k \in Path(x), parent[m] = parent[k]
  PROVE  m = k
<1>1. ASSUME NEW a \in 2 .. TreeSize, NEW b \in 2 .. TreeSize, a \in Path(x), b \in Path(x),
             parent[a] = parent[b], a < b
      PROVE  FALSE
  <2>0. a \in Nodes /\ b \in Nodes /\ a \in Int /\ b \in Int /\ parent[a] \in Nodes /\ parent[a] \in Int
    BY NodesAre DEF IsTree
  <2>1. a \in Path(b)
    <3>1. a <= b
      BY <1>1, <2>0
    <3> QED BY <1>1, <3>1, PathGoes
  <2>2. a \in Path(parent[a])
    BY <1>1, <2>0, <2>1, PathIs
  <2>3. a <= parent[a] /\ parent[a] < a
    BY <2>0, <2>2, PathGoes DEF IsTree
  <2> QED BY <2>0, <2>3
<1>2. m \in Int /\ k \in Int
  OBVIOUS
<1>3. ~(m < k) /\ ~(k < m)
  BY <1>1
<1> QED BY <1>2, <1>3

Deep(n) == Cardinality(Path(n))

\* A node is one deeper than its parent.
LEMMA DeepIs ==
  ASSUME IsTree
  PROVE  /\ Deep(Root) = 1
         /\ \A n \in 2 .. TreeSize : Deep(n) = Deep(parent[n]) + 1
         /\ \A n \in Nodes : Deep(n) \in Nat /\ Deep(n) >= 1
         /\ \A n \in Nodes : IsFiniteSet(Path(n))
<1>1. \A n \in Nodes : IsFiniteSet(Path(n))
  <2> SUFFICES ASSUME NEW n \in Nodes PROVE IsFiniteSet(Path(n))
    OBVIOUS
  <2>1. IsFiniteSet(Nodes) /\ Path(n) \in SUBSET Nodes
    BY PathIs, FS_Interval, DesignAssumption DEF Nodes
  <2> QED BY <2>1, FS_Subset
<1>2. Deep(Root) = 1
  BY PathIs, FS_Singleton DEF Deep
<1>3. ASSUME NEW n \in 2 .. TreeSize PROVE Deep(n) = Deep(parent[n]) + 1
  <2>1. /\ Path(n) = {n} \cup Path(parent[n]) /\ parent[n] \in Nodes /\ parent[n] < n
        /\ n \in Nat /\ parent[n] \in Nat
    BY PathIs, NodesAre DEF IsTree
  <2>2. n \notin Path(parent[n])
    <3>1. \A y \in Path(parent[n]) : y <= parent[n] /\ y \in Nat
      BY <2>1, PathGoes, NodesAre
    <3> QED BY <2>1, <3>1
  <2>3. Path(n) = Path(parent[n]) \cup {n}
    BY <2>1
  <2> QED BY <1>1, <2>1, <2>2, <2>3, FS_AddElement DEF Deep
<1>4. \A n \in Nodes : Deep(n) \in Nat /\ Deep(n) >= 1
  <2> DEFINE S == {n \in Nodes : Deep(n) \in Nat /\ Deep(n) >= 1}
  <2>1. Root \in S
    BY <1>2, NodesAre
  <2>2. \A n \in 2 .. TreeSize : parent[n] \in S => n \in S
    BY <1>3, NodesAre
  <2>3. \A n \in Nodes : n \in S
    <3> HIDE DEF S
    <3> QED BY <2>1, <2>2, Climb
  <2> QED BY <2>3
<1> QED BY <1>1, <1>2, <1>3, <1>4

-----------------------------------------------------------------------------
(* Lists of children, and what is pushed for them *)

\* A list of a set: each member once.
ListsAll(ks, K) ==
  /\ ks \in Seq(K)
  /\ \A x \in K : \E i \in 1 .. Len(ks) : ks[i] = x
  /\ \A i, j \in 1 .. Len(ks) : ks[i] = ks[j] => i = j

KidSet(n, among) == {m \in among : m # Root /\ parent[m] = n}

\* Filtered lists a set of numbers.
LEMMA FilteredLists ==
  ASSUME NEW N \in Nat, NEW K \in SUBSET (1 .. N)
  PROVE  ListsAll(Filtered(K), K)
<1> DEFINE ks == Filtered(K)
           C == Cardinality(K)
<1>0. \A x \in K : x \in Int
  OBVIOUS
<1>1. /\ C \in Nat
      /\ ks \in [1 .. C -> K]
      /\ \A x \in K : \E i \in 1 .. C : ks[i] = x
      /\ \A i, j \in 1 .. C : i < j => ks[i] < ks[j]
  BY FilteredInOrder
<1> HIDE DEF ks, C
<1>2. ks \in Seq(K) /\ Len(ks) = C
  BY <1>1
<1>3. ASSUME NEW i \in 1 .. C, NEW j \in 1 .. C, ks[i] = ks[j] PROVE i = j
  <2>0. ks[i] \in K /\ ks[j] \in K
    BY <1>1
  <2>1. ks[i] \in Int /\ ks[j] \in Int
    BY <1>0, <2>0
  <2>3. i \in Int /\ j \in Int
    BY <1>1
  <2>2. ~(i < j) /\ ~(j < i)
    BY <1>1, <1>3, <2>1
  <2> QED BY <2>2, <2>3
<1>4. ListsAll(ks, K)
  BY <1>1, <1>2, <1>3 DEF ListsAll
<1> QED BY <1>4 DEF ks

\* Kids lists the children among some nodes.
LEMMA KidsAre ==
  ASSUME NEW n, NEW among \in SUBSET Nodes
  PROVE  ListsAll(Kids(n, among), KidSet(n, among))
<1>1. KidSet(n, among) \in SUBSET (1 .. TreeSize) /\ TreeSize \in Nat
  BY NodesAre DEF KidSet, Nodes
<1>2. Kids(n, among) = Filtered(KidSet(n, among))
  BY DEF Kids, KidSet
<1> QED BY <1>1, <1>2, FilteredLists

\* What is made step by step.
Stepwise(N, V, first, onward) == N \in Nat /\ first \in V /\ onward \in [1 .. N -> [V -> V]]

LEMMA Stepping ==
  ASSUME NEW N, NEW V, NEW first, NEW onward, Stepwise(N, V, first, onward)
  PROVE  \E f \in [0 .. N -> V] : f[0] = first /\ \A i \in 1 .. N : f[i] = onward[i][f[i - 1]]
<1> DEFINE rank == [i \in 0 .. N |-> N - i]
           F == [i \in 0 .. N |-> [g \in [0 .. N -> V] |-> IF i = 0 THEN first ELSE onward[i][g[i - 1]]]]
<1>0. N \in Nat /\ first \in V /\ onward \in [1 .. N -> [V -> V]]
  BY DEF Stepwise
<1>1. ASSUME NEW i \in 0 .. N, NEW g \in [0 .. N -> V]
      PROVE  (IF i = 0 THEN first ELSE onward[i][g[i - 1]]) \in V
  <2>1. i # 0 => i \in 1 .. N /\ i - 1 \in 0 .. N
    BY <1>0
  <2> QED BY <1>0, <2>1
<1>2. F \in [0 .. N -> [[0 .. N -> V] -> V]]
  BY <1>1
<1>3. \A i \in 0 .. N : \A g \in [0 .. N -> V] : F[i][g] = IF i = 0 THEN first ELSE onward[i][g[i - 1]]
  OBVIOUS
<1>4. rank \in [0 .. N -> 0 .. N]
  BY <1>0
<1>5. ASSUME NEW i \in 0 .. N, NEW g \in [0 .. N -> V], NEW h \in [0 .. N -> V],
             \A j \in 0 .. N : rank[i] < rank[j] => g[j] = h[j]
      PROVE  F[i][g] = F[i][h]
  <2>1. i # 0 => i - 1 \in 0 .. N /\ rank[i] < rank[i - 1]
    BY <1>0
  <2>2. i # 0 => g[i - 1] = h[i - 1]
    BY <1>5, <2>1
  <2> HIDE DEF F
  <2>3. F[i][g] = IF i = 0 THEN first ELSE onward[i][g[i - 1]]
    BY <1>3
  <2>4. F[i][h] = IF i = 0 THEN first ELSE onward[i][h[i - 1]]
    BY <1>3
  <2> QED BY <2>2, <2>3, <2>4
<1>6. \E f \in [0 .. N -> V] : \A i \in 0 .. N : f[i] = F[i][f]
  <2> DEFINE D == 0 .. N
  <2> HIDE DEF rank, F
  <2>1. Ranked(D, rank, N, V, F)
    BY <1>0, <1>2, <1>4, <1>5 DEF Ranked
  <2> HIDE DEF D
  <2>2. \E f \in [D -> V] : \A i \in D : f[i] = F[i][f]
    BY <2>1, Recursion
  <2> QED BY <2>2 DEF D
<1>7. PICK f \in [0 .. N -> V] : \A i \in 0 .. N : f[i] = F[i][f]
  BY <1>6
<1>8. \A i \in 0 .. N : f[i] = IF i = 0 THEN first ELSE onward[i][f[i - 1]]
  <2> HIDE DEF F
  <2> QED BY <1>3, <1>7
<1>9. f[0] = first /\ \A i \in 1 .. N : f[i] = onward[i][f[i - 1]]
  BY <1>0, <1>8
<1> QED BY <1>9

\* Pushed takes one list after the other.
LEMMA PushedSteps ==
  ASSUME NEW X, NEW lists \in Seq(Seq(X))
  PROVE  \E upto \in [0 .. Len(lists) -> Seq(X)] :
           /\ upto[0] = <<>>
           /\ \A i \in 1 .. Len(lists) : upto[i] = upto[i - 1] \o lists[i]
           /\ Pushed(lists) = upto[Len(lists)]
<1> DEFINE N == Len(lists)
           V == Seq(X)
           Rec(f) == [i \in 0 .. N |-> IF i = 0 THEN <<>> ELSE f[i - 1] \o lists[i]]
           onward == [i \in 1 .. N |-> [v \in V |-> v \o lists[i]]]
           made == CHOOSE f : f = Rec(f)
<1>1. N \in Nat /\ \A i \in 1 .. N : lists[i] \in V
  OBVIOUS
<1>2. onward \in [1 .. N -> [V -> V]]
  <2>1. \A i \in 1 .. N : \A v \in V : v \o lists[i] \in V
    BY <1>1
  <2> QED BY <2>1
<1>3. <<>> \in V
  OBVIOUS
<1>4. \A i \in 1 .. N : \A v \in V : onward[i][v] = v \o lists[i]
  OBVIOUS
<1>5. \E f \in [0 .. N -> V] : f[0] = <<>> /\ \A i \in 1 .. N : f[i] = onward[i][f[i - 1]]
  <2> DEFINE first == <<>>
  <2>1. first \in V
    BY <1>3
  <2> HIDE DEF N, V, onward, first
  <2>2. \E f \in [0 .. N -> V] : f[0] = first /\ \A i \in 1 .. N : f[i] = onward[i][f[i - 1]]
    <3>1. Stepwise(N, V, first, onward)
      BY <1>1, <1>2, <2>1 DEF Stepwise
    <3> QED BY <3>1, Stepping
  <2> QED BY <2>2 DEF first
<1>6. ASSUME NEW f \in [0 .. N -> V], f[0] = <<>>, \A i \in 1 .. N : f[i] = onward[i][f[i - 1]]
      PROVE  f = Rec(f) /\ \A i \in 1 .. N : f[i] = f[i - 1] \o lists[i]
  <2> HIDE DEF N, V, onward
  <2>1. \A i \in 1 .. N : i \in 0 .. N /\ i - 1 \in 0 .. N /\ i # 0
    BY <1>1
  <2>2. \A i \in 1 .. N : f[i] = f[i - 1] \o lists[i]
    BY <1>4, <1>6, <2>1
  <2>3. \A i \in 0 .. N : i # 0 => i \in 1 .. N
    BY <1>1
  <2>4. \A i \in 0 .. N : f[i] = IF i = 0 THEN <<>> ELSE f[i - 1] \o lists[i]
    BY <1>6, <2>2, <2>3
  <2> QED BY <2>2, <2>4
<1>7. made = Rec(made)
  <2> HIDE DEF N, V, onward, Rec
  <2> QED BY <1>5, <1>6
<1>8. Pushed(lists) = made[N]
  BY DEF Pushed
<1>9. PICK f \in [0 .. N -> V] : f[0] = <<>> /\ \A i \in 1 .. N : f[i] = onward[i][f[i - 1]]
  <2> HIDE DEF N, V, onward
  <2> QED BY <1>5
<1>10. \A i \in 0 .. N : made[i] = f[i]
  <2> DEFINE S == {i \in 0 .. N : made[i] = f[i]}
  <2>1. \A i \in 0 .. N : made[i] = IF i = 0 THEN <<>> ELSE made[i - 1] \o lists[i]
    <3> HIDE DEF N, made
    <3> QED BY <1>7
  <2>2. \A i \in 1 .. N : f[i] = f[i - 1] \o lists[i]
    <3> HIDE DEF N, V, onward, Rec
    <3> QED BY <1>6, <1>9
  <2> HIDE DEF made, N, V, onward
  <2>3. 0 \in S
    BY <1>1, <1>9, <2>1
  <2>4. ASSUME NEW i \in 1 .. N, i - 1 \in S PROVE i \in S
    <3>1. i \in 0 .. N /\ i # 0
      BY <1>1
    <3> QED BY <2>1, <2>2, <2>4, <3>1
  <2>5. \A i \in 0 .. N : i \in S
    <3> HIDE DEF S
    <3> QED BY <1>1, <2>3, <2>4, Upward
  <2> QED BY <2>5
<1>11. \A i \in 1 .. N : f[i] = f[i - 1] \o lists[i]
  <2> HIDE DEF N, V, onward, Rec
  <2> QED BY <1>6, <1>9
<1>12. Pushed(lists) = f[N]
  <2> HIDE DEF made, N
  <2>1. N \in 0 .. N
    BY <1>1
  <2> QED BY <1>8, <1>10, <2>1
<1> QED BY <1>9, <1>11, <1>12

\* Two lists, one behind the other.
LEMMA Joining ==
  ASSUME NEW X, NEW s \in Seq(X), NEW t \in Seq(X)
  PROVE  /\ s \o t \in Seq(X) /\ Len(s \o t) = Len(s) + Len(t)
         /\ Len(s) \in Nat /\ Len(t) \in Nat
         /\ \A i \in 1 .. Len(s) : (s \o t)[i] = s[i]
         /\ \A i \in 1 .. Len(t) : Len(s) + i \in 1 .. Len(s \o t) /\ (s \o t)[Len(s) + i] = t[i]
         /\ \A i \in 1 .. Len(s \o t) :
              i \in 1 .. Len(s) \/ \E j \in 1 .. Len(t) : i = Len(s) + j
<1>1. s \o t \in Seq(X) /\ Len(s \o t) = Len(s) + Len(t) /\ Len(s) \in Nat /\ Len(t) \in Nat
  OBVIOUS
<1>2. \A i \in 1 .. Len(s) : (s \o t)[i] = s[i]
  OBVIOUS
<1>3. \A i \in 1 .. Len(t) : (s \o t)[Len(s) + i] = t[i]
  OBVIOUS
<1>4. ASSUME NEW i \in 1 .. Len(s \o t), i \notin 1 .. Len(s)
      PROVE  \E j \in 1 .. Len(t) : i = Len(s) + j
  <2>1. i - Len(s) \in 1 .. Len(t) /\ i = Len(s) + (i - Len(s))
    BY <1>1, <1>4
  <2> QED BY <2>1
<1>5. \A i \in 1 .. Len(t) : Len(s) + i \in 1 .. Len(s \o t)
  BY <1>1
<1> QED BY <1>1, <1>2, <1>3, <1>4, <1>5

\* The members of a list.
LEMMA RangeOf ==
  ASSUME NEW X, NEW s \in Seq(X)
  PROVE  /\ Range(s) \in SUBSET X
         /\ DOMAIN s = 1 .. Len(s) /\ Len(s) \in Nat
         /\ \A x : x \in Range(s) <=> \E i \in 1 .. Len(s) : s[i] = x
<1>1. DOMAIN s = 1 .. Len(s) /\ Len(s) \in Nat
  OBVIOUS
<1>2. \A i \in 1 .. Len(s) : s[i] \in X
  OBVIOUS
<1> QED BY <1>1, <1>2 DEF Range

\* The members of two lists.
LEMMA JoinedRange ==
  ASSUME NEW X, NEW s \in Seq(X), NEW t \in Seq(X)
  PROVE  Range(s \o t) = Range(s) \cup Range(t)
<1> DEFINE u == s \o t
<1>1. /\ u \in Seq(X)
      /\ \A i \in 1 .. Len(s) : u[i] = s[i] /\ i \in 1 .. Len(u)
      /\ \A i \in 1 .. Len(t) : Len(s) + i \in 1 .. Len(u) /\ u[Len(s) + i] = t[i]
      /\ \A i \in 1 .. Len(u) :
           i \in 1 .. Len(s) \/ \E j \in 1 .. Len(t) : i = Len(s) + j
  BY Joining
<1> HIDE DEF u
<1>4. /\ \A x : x \in Range(s) <=> \E i \in 1 .. Len(s) : s[i] = x
      /\ \A x : x \in Range(t) <=> \E i \in 1 .. Len(t) : t[i] = x
      /\ \A x : x \in Range(u) <=> \E i \in 1 .. Len(u) : u[i] = x
  BY <1>1, RangeOf
<1>2. ASSUME NEW x, x \in Range(s) \/ x \in Range(t) PROVE x \in Range(u)
  BY <1>1, <1>2, <1>4
<1>3. ASSUME NEW x, x \in Range(u) PROVE x \in Range(s) \/ x \in Range(t)
  <2>1. PICK i \in 1 .. Len(u) : u[i] = x
    BY <1>3, <1>4
  <2>2. CASE i \in 1 .. Len(s)
    BY <1>1, <1>4, <2>1, <2>2
  <2>3. ASSUME NEW j \in 1 .. Len(t), i = Len(s) + j PROVE x \in Range(t)
    BY <1>1, <1>4, <2>1, <2>3
  <2> QED BY <1>1, <2>2, <2>3
<1> QED BY <1>2, <1>3 DEF u

\* No member is twice in two lists with nothing in common.
LEMMA JoinedInjective ==
  ASSUME NEW X, NEW s \in Seq(X), NEW t \in Seq(X), IsInjective(s), IsInjective(t),
         \A x \in Range(s) : x \notin Range(t)
  PROVE  IsInjective(s \o t)
<1> DEFINE u == s \o t
<1>1. /\ u \in Seq(X)
      /\ \A i \in 1 .. Len(s) : u[i] = s[i]
      /\ \A i \in 1 .. Len(t) : u[Len(s) + i] = t[i]
      /\ \A i \in 1 .. Len(u) :
           i \in 1 .. Len(s) \/ \E j \in 1 .. Len(t) : i = Len(s) + j
  BY Joining
<1>2. DOMAIN u = 1 .. Len(u) /\ DOMAIN s = 1 .. Len(s) /\ DOMAIN t = 1 .. Len(t)
  BY <1>1
<1> HIDE DEF u
<1>3. \A i \in 1 .. Len(s) : s[i] \in Range(s)
  BY <1>2 DEF Range
<1>4. \A i \in 1 .. Len(t) : t[i] \in Range(t)
  BY <1>2 DEF Range
<1>5. ASSUME NEW i \in 1 .. Len(u), NEW j \in 1 .. Len(u), u[i] = u[j] PROVE i = j
  <2>1. CASE i \in 1 .. Len(s) /\ j \in 1 .. Len(s)
    BY <1>1, <1>2, <1>5, <2>1 DEF IsInjective
  <2>2. ASSUME i \notin 1 .. Len(s), j \notin 1 .. Len(s) PROVE i = j
    <3>1. PICK k \in 1 .. Len(t) : i = Len(s) + k
      BY <1>1, <2>2
    <3>2. PICK l \in 1 .. Len(t) : j = Len(s) + l
      BY <1>1, <2>2
    <3>3. t[k] = t[l]
      BY <1>1, <1>5, <3>1, <3>2
    <3> QED BY <1>2, <3>1, <3>2, <3>3 DEF IsInjective
  <2>3. CASE i \in 1 .. Len(s) /\ j \notin 1 .. Len(s)
    BY <1>1, <1>3, <1>4, <1>5, <2>3
  <2>4. CASE i \notin 1 .. Len(s) /\ j \in 1 .. Len(s)
    BY <1>1, <1>3, <1>4, <1>5, <2>4
  <2> QED BY <2>1, <2>2, <2>3, <2>4
<1> QED BY <1>2, <1>5 DEF IsInjective, u

\* Each node of the list is in A or behind its parent.
LedBy(s, A) ==
  \A i \in 1 .. Len(s) : s[i] \in A \/ \E j \in 1 .. Len(s) : j < i /\ s[j] = parent[s[i]]

\* Behind a list may stand what has its parent there.
LEMMA JoinedLed ==
  ASSUME NEW X, NEW s \in Seq(X), NEW t \in Seq(X), NEW A, LedBy(s, A),
         \A i \in 1 .. Len(t) : \/ t[i] \in A
                                \/ \E j \in 1 .. Len(t) : j < i /\ t[j] = parent[t[i]]
                                \/ \E j \in 1 .. Len(s) : s[j] = parent[t[i]]
  PROVE  LedBy(s \o t, A)
<1> DEFINE u == s \o t
<1>1. /\ Len(s) \in Nat /\ Len(t) \in Nat
      /\ \A i \in 1 .. Len(s) : u[i] = s[i]
      /\ \A i \in 1 .. Len(t) : Len(s) + i \in 1 .. Len(u) /\ u[Len(s) + i] = t[i]
      /\ \A i \in 1 .. Len(u) :
           i \in 1 .. Len(s) \/ \E j \in 1 .. Len(t) : i = Len(s) + j
      /\ \A i \in 1 .. Len(s) : i \in 1 .. Len(u)
  BY Joining
<1> HIDE DEF u
<1>2. ASSUME NEW i \in 1 .. Len(s)
      PROVE  u[i] \in A \/ \E j \in 1 .. Len(u) : j < i /\ u[j] = parent[u[i]]
  <2>1. s[i] \in A \/ \E j \in 1 .. Len(s) : j < i /\ s[j] = parent[s[i]]
    BY DEF LedBy
  <2> QED BY <1>1, <2>1
<1>3. ASSUME NEW k \in 1 .. Len(t)
      PROVE  \/ u[Len(s) + k] \in A
             \/ \E j \in 1 .. Len(u) : j < Len(s) + k /\ u[j] = parent[u[Len(s) + k]]
  <2>1. u[Len(s) + k] = t[k]
    BY <1>1
  <2>2. ASSUME NEW j \in 1 .. Len(t), j < k, t[j] = parent[t[k]]
        PROVE  \E m \in 1 .. Len(u) : m < Len(s) + k /\ u[m] = parent[t[k]]
    <3>1. Len(s) + j < Len(s) + k /\ Len(s) + j \in 1 .. Len(u) /\ u[Len(s) + j] = t[j]
      BY <1>1, <2>2
    <3> QED BY <2>2, <3>1
  <2>3. ASSUME NEW j \in 1 .. Len(s), s[j] = parent[t[k]]
        PROVE  \E m \in 1 .. Len(u) : m < Len(s) + k /\ u[m] = parent[t[k]]
    <3>1. j < Len(s) + k /\ j \in 1 .. Len(u) /\ u[j] = s[j]
      BY <1>1
    <3> QED BY <2>3, <3>1
  <2> QED BY <2>1, <2>2, <2>3
<1>4. ASSUME NEW i \in 1 .. Len(u)
      PROVE  u[i] \in A \/ \E j \in 1 .. Len(u) : j < i /\ u[j] = parent[u[i]]
  <2>1. CASE i \in 1 .. Len(s)
    BY <1>2, <2>1
  <2>2. CASE i \notin 1 .. Len(s)
    <3>1. PICK k \in 1 .. Len(t) : i = Len(s) + k
      BY <1>1, <2>2
    <3> QED BY <1>3, <3>1
  <2> QED BY <2>1, <2>2
<1>5. LedBy(u, A)
  BY <1>4 DEF LedBy
<1> QED BY <1>5 DEF u

\* The more nodes may lead, the better.
LEMMA LedMore ==
  ASSUME NEW s, NEW A, NEW B, LedBy(s, A), A \subseteq B
  PROVE  LedBy(s, B)
BY DEF LedBy

\* ListsAll with nothing in common, or twice in one of them.
SetApart(lists) ==
  /\ \A i \in 1 .. Len(lists) : IsInjective(lists[i])
  /\ \A i, j \in 1 .. Len(lists) : \A x :
       x \in Range(lists[i]) /\ x \in Range(lists[j]) => i = j

\* What is pushed, list after list.
LEMMA PushedIs ==
  ASSUME NEW X, NEW lists \in Seq(Seq(X))
  PROVE  /\ Pushed(lists) \in Seq(X)
         /\ \A x : x \in Range(Pushed(lists)) <=> \E i \in 1 .. Len(lists) : x \in Range(lists[i])
         /\ SetApart(lists) => IsInjective(Pushed(lists))
         /\ \A A : (\A i \in 1 .. Len(lists) : LedBy(lists[i], A)) => LedBy(Pushed(lists), A)
<1> DEFINE N == Len(lists)
<1>1. PICK upto \in [0 .. N -> Seq(X)] :
         /\ upto[0] = <<>>
         /\ \A i \in 1 .. N : upto[i] = upto[i - 1] \o lists[i]
         /\ Pushed(lists) = upto[N]
  BY PushedSteps
<1>2. N \in Nat /\ \A i \in 1 .. N : lists[i] \in Seq(X)
  OBVIOUS
<1> HIDE DEF N
<1>3. \A i \in 1 .. N : i - 1 \in 0 .. N /\ i \in 0 .. N
  BY <1>2
<1>4. N \in 0 .. N /\ 0 \in 0 .. N
  BY <1>2
<1>5. \A i \in 0 .. N : upto[i] \in Seq(X)
  OBVIOUS
<1> DEFINE From(i, x) == \E j \in 1 .. i : x \in Range(lists[j])
<1>6. \A i \in 0 .. N : \A x : x \in Range(upto[i]) <=> From(i, x)
  <2> DEFINE S == {i \in 0 .. N : \A x : x \in Range(upto[i]) <=> From(i, x)}
  <2>1. 0 \in S
    <3>1. Range(upto[0]) = {}
      BY <1>1 DEF Range
    <3> QED BY <1>4, <3>1
  <2>2. ASSUME NEW i \in 1 .. N, i - 1 \in S PROVE i \in S
    <3>1. Range(upto[i]) = Range(upto[i - 1]) \cup Range(lists[i])
      <4>1. upto[i - 1] \in Seq(X) /\ lists[i] \in Seq(X) /\ upto[i] = upto[i - 1] \o lists[i]
        BY <1>1, <1>2, <1>3
      <4> QED BY <4>1, JoinedRange
    <3>2. \A j : j \in 1 .. i <=> j \in 1 .. i - 1 \/ j = i
      BY <1>2
    <3>3. \A x : x \in Range(upto[i - 1]) <=> From(i - 1, x)
      BY <2>2
    <3>4. \A x : From(i, x) <=> From(i - 1, x) \/ x \in Range(lists[i])
      BY <3>2
    <3> HIDE DEF From
    <3> QED BY <1>3, <3>1, <3>3, <3>4
  <2>3. \A i \in 0 .. N : i \in S
    <3> HIDE DEF S
    <3> QED BY <1>2, <2>1, <2>2, Upward
  <2> QED BY <2>3
<1>7. ASSUME \A i \in 1 .. N : IsInjective(lists[i]),
             \A i, j \in 1 .. N : \A x :
               x \in Range(lists[i]) /\ x \in Range(lists[j]) => i = j
      PROVE  IsInjective(upto[N])
  <2> DEFINE S == {i \in 0 .. N : IsInjective(upto[i])}
  <2>1. 0 \in S
    BY <1>1, <1>4 DEF IsInjective
  <2>2. ASSUME NEW i \in 1 .. N, i - 1 \in S PROVE i \in S
    <3>1. upto[i - 1] \in Seq(X) /\ lists[i] \in Seq(X) /\ upto[i] = upto[i - 1] \o lists[i]
      BY <1>1, <1>2, <1>3
    <3>2. ASSUME NEW x \in Range(upto[i - 1]) PROVE x \notin Range(lists[i])
      <4>1. PICK j \in 1 .. i - 1 : x \in Range(lists[j])
        BY <1>3, <1>6
      <4>2. j \in 1 .. N /\ j # i
        BY <1>2
      <4> QED BY <1>7, <4>1, <4>2
    <3>3. IsInjective(upto[i - 1]) /\ IsInjective(lists[i])
      BY <1>7, <2>2
    <3>4. IsInjective(upto[i - 1] \o lists[i])
      BY <3>1, <3>2, <3>3, JoinedInjective
    <3> QED BY <1>3, <3>1, <3>4
  <2>3. \A i \in 0 .. N : i \in S
    <3> HIDE DEF S
    <3> QED BY <1>2, <2>1, <2>2, Upward
  <2> QED BY <1>4, <2>3
<1>8. ASSUME NEW A, \A i \in 1 .. N : LedBy(lists[i], A) PROVE LedBy(upto[N], A)
  <2> DEFINE S == {i \in 0 .. N : LedBy(upto[i], A)}
  <2>1. 0 \in S
    <3>1. Len(upto[0]) = 0
      BY <1>1
    <3>2. LedBy(upto[0], A)
      BY <3>1 DEF LedBy
    <3> QED BY <1>4, <3>2
  <2>2. ASSUME NEW i \in 1 .. N, i - 1 \in S PROVE i \in S
    <3>1. upto[i - 1] \in Seq(X) /\ lists[i] \in Seq(X) /\ upto[i] = upto[i - 1] \o lists[i]
      BY <1>1, <1>2, <1>3
    <3>2. LedBy(upto[i - 1], A) /\ LedBy(lists[i], A)
      BY <1>8, <2>2
    <3>3. LedBy(upto[i - 1] \o lists[i], A)
      <4> DEFINE before == upto[i - 1]
                 t == lists[i]
      <4>1. before \in Seq(X) /\ t \in Seq(X) /\ LedBy(before, A)
        BY <3>1, <3>2
      <4>2. \A k \in 1 .. Len(t) : t[k] \in A \/ \E j \in 1 .. Len(t) : j < k /\ t[j] = parent[t[k]]
        BY <3>2 DEF LedBy
      <4> HIDE DEF before, t
      <4>3. LedBy(before \o t, A)
        BY <4>1, <4>2, JoinedLed
      <4> QED BY <4>3 DEF before, t
    <3> QED BY <1>3, <3>1, <3>3
  <2>3. \A i \in 0 .. N : i \in S
    <3> HIDE DEF S
    <3> QED BY <1>2, <2>1, <2>2, Upward
  <2> QED BY <1>4, <2>3
<1>9. upto[N] \in Seq(X) /\ \A x : x \in Range(upto[N]) <=> \E i \in 1 .. N : x \in Range(lists[i])
  BY <1>4, <1>6
<1> QED BY <1>1, <1>7, <1>8, <1>9 DEF N, SetApart

-----------------------------------------------------------------------------
(* Walks over the tree *)

\* What holds of a node whenever of its children holds of all.
LEMMA Descend ==
  ASSUME IsTree, NEW S,
         \A n \in Nodes : (\A m \in 2 .. TreeSize : parent[m] = n => m \in S) => n \in S
  PROVE  \A n \in Nodes : n \in S
<1> DEFINE T == {k \in 0 .. TreeSize : \A m \in Nodes : k < m => m \in S}
<1>1. TreeSize \in Nat
  BY NodesAre
<1>2. TreeSize \in T
  BY <1>1 DEF Nodes
<1>3. ASSUME NEW k \in 1 .. TreeSize, k \in T PROVE k - 1 \in T
  <2>1. k \in Nodes /\ k \in Nat /\ k - 1 \in 0 .. TreeSize
    BY <1>1 DEF Nodes
  <2>2. \A m \in 2 .. TreeSize : parent[m] = k => m \in S
    <3>1. \A m \in 2 .. TreeSize : parent[m] = k => k < m /\ m \in Nodes
      BY NodesAre DEF IsTree
    <3> QED BY <1>3, <3>1
  <2>3. k \in S
    BY <2>1, <2>2
  <2>4. \A m \in Nodes : k - 1 < m => k < m \/ m = k
    BY <2>1, NodesAre
  <2> QED BY <1>3, <2>1, <2>3, <2>4
<1>4. \A k \in 0 .. TreeSize : k \in T
  <2> HIDE DEF T
  <2> QED BY <1>1, <1>2, <1>3, Downward
<1>5. 0 \in T /\ \A m \in Nodes : 0 < m
  BY <1>1, <1>4 DEF Nodes
<1> QED BY <1>5

\* What a walk from n meets that goes on to the children K[m] of a node m.
Visit(n, K) ==
  {x \in Nodes : n \in Path(x) /\ \A y \in Path(x) \ Path(n) : y \in K[parent[y]]}

Children(K) ==
  K \in [Nodes -> SUBSET Nodes] /\ \A n \in Nodes : K[n] \subseteq KidSet(n, Nodes)

\* A walk meets the node, and what the walks from the children meet.
LEMMA VisitIs ==
  ASSUME IsTree, NEW K, Children(K), NEW n \in Nodes
  PROVE  /\ \A x : x \in Visit(n, K) <=> x = n \/ \E m \in K[n] : x \in Visit(m, K)
         /\ \A m, k \in K[n] : \A x : x \in Visit(m, K) /\ x \in Visit(k, K) => m = k
         /\ \A m \in K[n] : n \notin Visit(m, K)
<1>1. \A m \in K[n] : m \in 2 .. TreeSize /\ m \in Nodes /\ parent[m] = n /\ m # Root
  BY NodesAre DEF Children, KidSet
<1>2. \A m \in K[n] : Path(m) = {m} \cup Path(n) /\ n < m
  BY <1>1, PathIs DEF IsTree
<1>3. ASSUME NEW m \in K[n], NEW x \in Visit(m, K) PROVE x \in Visit(n, K)
  <2>1. x \in Nodes /\ m \in Path(x) /\ \A y \in Path(x) \ Path(m) : y \in K[parent[y]]
    BY DEF Visit
  <2>2. n \in Path(x)
    <3>1. n \in Path(n)
      BY PathGoes
    <3>2. Path(m) \subseteq Path(x)
      BY <2>1, PathGoes
    <3> QED BY <1>2, <3>1, <3>2
  <2>3. ASSUME NEW y \in Path(x) \ Path(n) PROVE y \in K[parent[y]]
    BY <1>1, <1>2, <2>1
  <2> QED BY <2>1, <2>2, <2>3 DEF Visit
<1>4. n \in Visit(n, K)
  BY PathGoes DEF Visit
<1>5. ASSUME NEW x \in Visit(n, K), x # n PROVE \E m \in K[n] : x \in Visit(m, K)
  <2>1. x \in Nodes /\ n \in Path(x) /\ \A y \in Path(x) \ Path(n) : y \in K[parent[y]]
    BY DEF Visit
  <2>2. PICK m \in 2 .. TreeSize : parent[m] = n /\ m \in Path(x)
    BY <1>5, <2>1, PathNext
  <2>3. m \notin Path(n)
    <3>1. \A y \in Path(n) : y <= n
      BY PathGoes
    <3>2. n < m /\ n \in Nat
      BY <2>2, NodesAre DEF IsTree
    <3> QED BY <3>1, <3>2
  <2>4. m \in K[n]
    BY <2>1, <2>2, <2>3
  <2>5. \A y \in Path(x) \ Path(m) : y \in K[parent[y]]
    BY <1>2, <2>1, <2>4
  <2> QED BY <2>1, <2>2, <2>4, <2>5 DEF Visit
<1>6. ASSUME NEW m \in K[n], NEW k \in K[n], NEW x, x \in Visit(m, K), x \in Visit(k, K) PROVE m = k
  <2>1. x \in Nodes /\ m \in Path(x) /\ k \in Path(x)
    BY <1>6 DEF Visit
  <2>2. m \in 2 .. TreeSize /\ k \in 2 .. TreeSize /\ parent[m] = parent[k]
    BY <1>1
  <2> QED BY <2>1, <2>2, PathOnce
<1>7. ASSUME NEW m \in K[n], n \in Visit(m, K) PROVE FALSE
  <2>1. m <= n /\ n < m /\ n \in Nat /\ m \in Nat
    BY <1>1, <1>2, <1>7, PathGoes, NodesAre DEF Visit
  <2> QED BY <2>1
<1> QED BY <1>3, <1>4, <1>5, <1>6, <1>7

\* A list for each node: itself, if marked, and then the lists of children.
OwnList(n, marked) == IF n \in marked THEN <<n>> ELSE <<>>

Walks(L, marked, K) ==
  /\ L \in [Nodes -> Seq(Nodes)] /\ Children(K) /\ marked \in SUBSET Nodes
  /\ \A n \in Nodes : \E kids : /\ ListsAll(kids, K[n])
                                /\ L[n] = OwnList(n, marked) \o Pushed([i \in 1 .. Len(kids) |-> L[kids[i]]])

\* The list of the node alone.
LEMMA OwnIs ==
  ASSUME NEW n \in Nodes, NEW marked
  PROVE  /\ OwnList(n, marked) \in Seq(Nodes) /\ IsInjective(OwnList(n, marked))
         /\ Range(OwnList(n, marked)) = {n} \cap marked
         /\ n \in marked => Len(OwnList(n, marked)) = 1 /\ OwnList(n, marked)[1] = n
<1>1. CASE n \in marked
  <2>1. OwnList(n, marked) = <<n>>
    BY <1>1 DEF OwnList
  <2>2. Range(<<n>>) = {n} /\ IsInjective(<<n>>) /\ <<n>> \in Seq(Nodes) /\ Len(<<n>>) = 1 /\ <<n>>[1] = n
    BY DEF Range, IsInjective
  <2> QED BY <1>1, <2>1, <2>2
<1>2. CASE n \notin marked
  <2>1. OwnList(n, marked) = <<>>
    BY <1>2 DEF OwnList
  <2>2. Range(<<>>) = {} /\ IsInjective(<<>>) /\ <<>> \in Seq(Nodes)
    BY DEF Range, IsInjective
  <2> QED BY <1>2, <2>1, <2>2
<1> QED BY <1>1, <1>2

Walked(L, marked, K, n) ==
  /\ \A x : x \in Range(L[n]) <=> x \in Visit(n, K) /\ x \in marked
  /\ IsInjective(L[n])
  /\ marked = Nodes => LedBy(L[n], {n})

\* What is known of the lists of the children holds of the list of the node.
LEMMA WalkStep ==
  ASSUME IsTree, NEW L, NEW marked, NEW K, Walks(L, marked, K), NEW n \in Nodes,
         \A m \in 2 .. TreeSize : parent[m] = n => Walked(L, marked, K, m)
  PROVE  Walked(L, marked, K, n)
<1>1. PICK kids : /\ ListsAll(kids, K[n])
                  /\ L[n] = OwnList(n, marked) \o Pushed([i \in 1 .. Len(kids) |-> L[kids[i]]])
  BY DEF Walks
<1> DEFINE lists == [i \in 1 .. Len(kids) |-> L[kids[i]]]
           below == Pushed(lists)
           own == OwnList(n, marked)
<1>2. Children(K) /\ L \in [Nodes -> Seq(Nodes)]
  BY DEF Walks
<1>3. \A m \in K[n] : m \in 2 .. TreeSize /\ m \in Nodes /\ parent[m] = n
  BY <1>2, NodesAre DEF Children, KidSet
<1>4. /\ Len(kids) \in Nat
      /\ \A i \in 1 .. Len(kids) : kids[i] \in K[n]
      /\ \A m \in K[n] : \E i \in 1 .. Len(kids) : kids[i] = m
      /\ \A i, j \in 1 .. Len(kids) : kids[i] = kids[j] => i = j
  BY <1>1 DEF ListsAll
<1>5. lists \in Seq(Seq(Nodes)) /\ Len(lists) = Len(kids)
  <2>1. \A i \in 1 .. Len(kids) : L[kids[i]] \in Seq(Nodes)
    BY <1>2, <1>3, <1>4
  <2> QED BY <1>4, <2>1
<1>6. \A i \in 1 .. Len(kids) : lists[i] = L[kids[i]]
  OBVIOUS
<1>7. L[n] = own \o below
  BY <1>1
<1> HIDE DEF lists
<1>8. /\ below \in Seq(Nodes)
      /\ \A x : x \in Range(below) <=> \E i \in 1 .. Len(lists) : x \in Range(lists[i])
      /\ SetApart(lists) => IsInjective(below)
      /\ \A A : (\A i \in 1 .. Len(lists) : LedBy(lists[i], A)) => LedBy(below, A)
  BY <1>5, PushedIs
<1>9. /\ own \in Seq(Nodes) /\ IsInjective(own)
      /\ Range(own) = {n} \cap marked
      /\ n \in marked => Len(own) = 1 /\ own[1] = n
  BY OwnIs
<1> HIDE DEF below, own
<1>10. \A i \in 1 .. Len(kids) : Walked(L, marked, K, kids[i])
  BY <1>3, <1>4
<1>11. \A i \in 1 .. Len(kids) :
         /\ \A x : x \in Range(lists[i]) <=> x \in Visit(kids[i], K) /\ x \in marked
         /\ IsInjective(lists[i])
         /\ marked = Nodes => LedBy(lists[i], {kids[i]})
  BY <1>6, <1>10 DEF Walked
<1>12. \A x : x \in Range(below) <=> x \in marked /\ \E m \in K[n] : x \in Visit(m, K)
  BY <1>4, <1>5, <1>8, <1>11
<1>13. Range(L[n]) = Range(own) \cup Range(below)
  BY <1>7, <1>8, <1>9, JoinedRange
<1>14. \A x : x \in Range(L[n]) <=> x \in Visit(n, K) /\ x \in marked
  <2>1. \A x : x \in Visit(n, K) <=> x = n \/ \E m \in K[n] : x \in Visit(m, K)
    BY <1>2, VisitIs
  <2> QED BY <1>9, <1>12, <1>13, <2>1
<1>15. IsInjective(L[n])
  <2>1. SetApart(lists)
    <3>1. \A i, j \in 1 .. Len(lists) : \A x :
            x \in Range(lists[i]) /\ x \in Range(lists[j]) => i = j
      <4> SUFFICES ASSUME NEW i \in 1 .. Len(kids), NEW j \in 1 .. Len(kids), NEW x,
                          x \in Range(lists[i]), x \in Range(lists[j])
                   PROVE  i = j
        BY <1>5
      <4>1. x \in Visit(kids[i], K) /\ x \in Visit(kids[j], K)
        BY <1>11
      <4>2. \A m, k \in K[n] : \A y :
              y \in Visit(m, K) /\ y \in Visit(k, K) => m = k
        BY <1>2, VisitIs
      <4>3. kids[i] \in K[n] /\ kids[j] \in K[n]
        BY <1>4
      <4>4. kids[i] = kids[j]
        BY <4>1, <4>2, <4>3
      <4> QED BY <1>4, <4>4
    <3> QED BY <1>5, <1>11, <3>1 DEF SetApart
  <2>2. \A x \in Range(own) : x \notin Range(below)
    <3>1. \A m \in K[n] : n \notin Visit(m, K)
      BY <1>2, VisitIs
    <3> QED BY <1>9, <1>12, <3>1
  <2>3. IsInjective(own \o below)
    BY <1>8, <1>9, <2>1, <2>2, JoinedInjective
  <2> QED BY <1>7, <2>3
<1>16. ASSUME marked = Nodes PROVE LedBy(L[n], {n})
  <2>1. ASSUME NEW i \in 1 .. Len(lists) PROVE LedBy(lists[i], K[n])
    <3>1. i \in 1 .. Len(kids)
      BY <1>5
    <3>2. LedBy(lists[i], {kids[i]})
      BY <1>11, <1>16, <3>1
    <3>3. {kids[i]} \subseteq K[n]
      BY <1>4, <3>1
    <3> QED BY <3>2, <3>3, LedMore
  <2>2. LedBy(below, K[n])
    BY <1>8, <2>1
  <2>3. Len(own) = 1 /\ own[1] = n
    BY <1>9, <1>16
  <2>4. LedBy(own, {n})
    BY <2>3 DEF LedBy
  <2>5. \A i \in 1 .. Len(below) : \/ below[i] \in {n}
                                   \/ \E j \in 1 .. Len(below) : j < i /\ below[j] = parent[below[i]]
                                   \/ \E j \in 1 .. Len(own) : own[j] = parent[below[i]]
    <3> SUFFICES ASSUME NEW i \in 1 .. Len(below)
                 PROVE  \/ \E j \in 1 .. Len(below) : j < i /\ below[j] = parent[below[i]]
                        \/ \E j \in 1 .. Len(own) : own[j] = parent[below[i]]
      OBVIOUS
    <3>1. CASE below[i] \in K[n]
      <4>1. parent[below[i]] = own[1] /\ 1 \in 1 .. Len(own)
        BY <1>3, <2>3, <3>1
      <4> QED BY <4>1
    <3>2. CASE below[i] \notin K[n]
      BY <2>2, <3>2 DEF LedBy
    <3> QED BY <3>1, <3>2
  <2>6. LedBy(own \o below, {n})
    BY <1>8, <1>9, <2>4, <2>5, JoinedLed
  <2> QED BY <1>7, <2>6
<1> QED BY <1>14, <1>15, <1>16 DEF Walked

\* The list of a walk: what it meets and is marked, once, a parent first.
LEMMA WalkIs ==
  ASSUME IsTree, NEW L, NEW marked, NEW K, Walks(L, marked, K)
  PROVE  \A n \in Nodes : Walked(L, marked, K, n)
<1> DEFINE S == {n \in Nodes : Walked(L, marked, K, n)}
<1>1. ASSUME NEW n \in Nodes, \A m \in 2 .. TreeSize : parent[m] = n => m \in S PROVE n \in S
  <2>1. \A m \in 2 .. TreeSize : parent[m] = n => Walked(L, marked, K, m)
    BY <1>1
  <2>2. Walked(L, marked, K, n)
    BY <2>1, WalkStep
  <2> QED BY <2>2
<1>2. \A n \in Nodes : n \in S
  <2> HIDE DEF S
  <2> QED BY <1>1, Descend
<1> QED BY <1>2

\* ListsAll made of those of the children, one level down.
Under(f, kids, n, d) == [i \in 1 .. Len(kids[n]) |-> f[kids[n][i]][d + 1]]

KidsOf(n, kids) == \A i \in 1 .. Len(kids[n]) : kids[n][i] \in 2 .. TreeSize /\ parent[kids[n][i]] = n

Layers(X, kids, B) ==
  /\ kids \in [Nodes -> Seq(Nodes)] /\ \A n \in Nodes : KidsOf(n, kids)
  /\ B \in [Nodes -> [Nat -> [Seq(Seq(X)) -> Seq(X)]]]

\* A function of the node and the depth that is made of the lists of the
\* children exists.
LEMMA Layered ==
  ASSUME IsTree, NEW X, NEW kids, NEW B, Layers(X, kids, B)
  PROVE  \E f \in [Nodes -> [Nat -> Seq(X)]] : \A n \in Nodes : \A d \in Nat :
           /\ f[n][d] = B[n][d][Under(f, kids, n, d)]
           /\ Under(f, kids, n, d) \in Seq(Seq(X))
<1>0. /\ kids \in [Nodes -> Seq(Nodes)] /\ B \in [Nodes -> [Nat -> [Seq(Seq(X)) -> Seq(X)]]]
      /\ \A n \in Nodes : Len(kids[n]) \in Nat
      /\ \A n \in Nodes : \A i \in 1 .. Len(kids[n]) :
           kids[n][i] \in 2 .. TreeSize /\ parent[kids[n][i]] = n
  BY DEF Layers, KidsOf
<1> DEFINE V == [Nat -> Seq(X)]
           AtDepth(g, n, d) == [i \in 1 .. Len(kids[n]) |-> g[kids[n][i]][d + 1]]
           rank == [n \in Nodes |-> n]
           F == [n \in Nodes |-> [g \in [Nodes -> V] |-> [d \in Nat |-> B[n][d][AtDepth(g, n, d)]]]]
<1>1. ASSUME NEW n \in Nodes, NEW i \in 1 .. Len(kids[n])
      PROVE  kids[n][i] \in Nodes /\ n < kids[n][i]
  <2>1. kids[n][i] \in 2 .. TreeSize /\ parent[kids[n][i]] = n
    BY <1>0
  <2> HIDE <1>0
  <2> QED BY <2>1, NodesAre DEF IsTree
<1>2. ASSUME NEW n \in Nodes, NEW g \in [Nodes -> V], NEW d \in Nat
      PROVE  AtDepth(g, n, d) \in Seq(Seq(X))
  <2>1. ASSUME NEW i \in 1 .. Len(kids[n]) PROVE g[kids[n][i]][d + 1] \in Seq(X)
    <3>1. kids[n][i] \in Nodes
      BY <1>1
    <3>2. g[kids[n][i]] \in [Nat -> Seq(X)]
      BY <3>1
    <3>3. d + 1 \in Nat
      OBVIOUS
    <3> DEFINE W == Seq(X)
    <3> HIDE DEF W, F, AtDepth, rank
    <3>4. g[kids[n][i]] \in [Nat -> W]
      BY <3>2 DEF W
    <3>5. g[kids[n][i]][d + 1] \in W
      BY <3>3, <3>4
    <3> QED BY <3>5 DEF W
  <2> QED BY <1>0, <2>1
<1>3. ASSUME NEW n \in Nodes, NEW g \in [Nodes -> V]
      PROVE  [d \in Nat |-> B[n][d][AtDepth(g, n, d)]] \in V
  <2>1. ASSUME NEW d \in Nat PROVE B[n][d][AtDepth(g, n, d)] \in Seq(X)
    <3> HIDE DEF AtDepth, F, rank
    <3>1. AtDepth(g, n, d) \in Seq(Seq(X))
      BY <1>2
    <3> DEFINE W == Seq(X)
               U == Seq(Seq(X))
    <3>2. B \in [Nodes -> [Nat -> [U -> W]]]
      BY <1>0
    <3> HIDE DEF W, U, V
    <3>3. B[n] \in [Nat -> [U -> W]]
      BY <3>2
    <3>4. B[n][d] \in [U -> W]
      BY <3>3
    <3> QED BY <3>1, <3>4 DEF U, W
  <2> HIDE DEF AtDepth
  <2> QED BY <2>1
<1>4. F \in [Nodes -> [[Nodes -> V] -> V]]
  <2> HIDE DEF V, AtDepth
  <2> QED BY <1>3
<1>5. \A n \in Nodes : \A g \in [Nodes -> V] : \A d \in Nat : F[n][g][d] = B[n][d][AtDepth(g, n, d)]
  <2> HIDE DEF V, AtDepth
  <2> QED OBVIOUS
<1>6. rank \in [Nodes -> 0 .. TreeSize] /\ V # {} /\ TreeSize \in Nat
  <2>1. rank \in [Nodes -> 0 .. TreeSize] /\ TreeSize \in Nat
    BY NodesAre DEF Nodes
  <2>2. [d \in Nat |-> <<>>] \in V
    OBVIOUS
  <2> QED BY <2>1, <2>2
<1>7. ASSUME NEW n \in Nodes, NEW g \in [Nodes -> V], NEW h \in [Nodes -> V],
             \A m \in Nodes : rank[n] < rank[m] => g[m] = h[m]
      PROVE  F[n][g] = F[n][h]
  <2>1. \A i \in 1 .. Len(kids[n]) : g[kids[n][i]] = h[kids[n][i]]
    BY <1>1, <1>7
  <2>2. \A d \in Nat : AtDepth(g, n, d) = AtDepth(h, n, d)
    BY <2>1
  <2>3. F[n][g] \in V /\ F[n][h] \in V
    <3> HIDE DEF V, F
    <3> QED BY <1>4
  <2>4. \A d \in Nat : F[n][g][d] = F[n][h][d]
    <3> HIDE DEF V, AtDepth, F
    <3> QED BY <1>5, <2>2
  <2> DEFINE a == F[n][g]
             b == F[n][h]
  <2> HIDE DEF F, a, b
  <2>5. a \in [Nat -> Seq(X)] /\ b \in [Nat -> Seq(X)] /\ \A d \in Nat : a[d] = b[d]
    BY <2>3, <2>4 DEF a, b
  <2>6. a = b
    BY <2>5
  <2> QED BY <2>6 DEF a, b
<1>8. PICK f \in [Nodes -> V] : \A n \in Nodes : f[n] = F[n][f]
  <2> HIDE DEF V, rank, F
  <2>1. Ranked(Nodes, rank, TreeSize, V, F)
    BY <1>4, <1>6, <1>7 DEF Ranked
  <2> QED BY <2>1, Recursion
<1>9. \A n \in Nodes : \A d \in Nat : f[n][d] = B[n][d][AtDepth(f, n, d)]
  <2> HIDE DEF V, AtDepth, F
  <2> QED BY <1>5, <1>8
<1>10. \A n \in Nodes : \A d \in Nat : AtDepth(f, n, d) \in Seq(Seq(X))
  <2> HIDE DEF V, AtDepth, F
  <2> QED BY <1>2, <1>8
<1>11. \A n \in Nodes : \A d \in Nat : AtDepth(f, n, d) = Under(f, kids, n, d)
  BY DEF Under
<1> HIDE DEF F, rank, AtDepth, V
<1>12. \A n \in Nodes : \A d \in Nat : /\ f[n][d] = B[n][d][Under(f, kids, n, d)]
                                       /\ Under(f, kids, n, d) \in Seq(Seq(X))
  BY <1>9, <1>10, <1>11
<1> QED BY <1>12 DEF V

\* Whatever is made so holds lists.
LEMMA LayeredType ==
  ASSUME IsTree, NEW X, NEW kids, NEW B, Layers(X, kids, B), NEW f,
         \A n \in Nodes : \A d \in Nat :
           Under(f, kids, n, d) \in Seq(Seq(X)) => f[n][d] \in Seq(X)
  PROVE  \A n \in Nodes : \A d \in Nat :
           f[n][d] \in Seq(X) /\ Under(f, kids, n, d) \in Seq(Seq(X))
<1>0. /\ \A n \in Nodes : Len(kids[n]) \in Nat
      /\ \A n \in Nodes : \A i \in 1 .. Len(kids[n]) :
           kids[n][i] \in 2 .. TreeSize /\ parent[kids[n][i]] = n
  BY DEF Layers, KidsOf
<1> USE DEF Under
<1> DEFINE AtDepth(n, d) == Under(f, kids, n, d)
           S == {n \in Nodes : \A d \in Nat : f[n][d] \in Seq(X) /\ AtDepth(n, d) \in Seq(Seq(X))}
<1>1. ASSUME NEW n \in Nodes, \A m \in 2 .. TreeSize : parent[m] = n => m \in S PROVE n \in S
  <2> SUFFICES ASSUME NEW d \in Nat PROVE f[n][d] \in Seq(X) /\ AtDepth(n, d) \in Seq(Seq(X))
    OBVIOUS
  <2>1. \A i \in 1 .. Len(kids[n]) : kids[n][i] \in S
    BY <1>0, <1>1
  <2>2. \A i \in 1 .. Len(kids[n]) : f[kids[n][i]][d + 1] \in Seq(X)
    <3>1. d + 1 \in Nat
      OBVIOUS
    <3> HIDE DEF AtDepth
    <3> QED BY <2>1, <3>1
  <2>3. AtDepth(n, d) \in Seq(Seq(X))
    BY <1>0, <2>2
  <2> QED BY <2>3
<1>2. \A n \in Nodes : n \in S
  <2> HIDE DEF S
  <2> QED BY <1>1, Descend
<1> QED BY <1>2

\* A node is no deeper than what is below it.
LEMMA DeeperOn ==
  ASSUME IsTree, NEW x \in Nodes, NEW y \in Path(x)
  PROVE  Deep(y) <= Deep(x)
<1>1. IsFiniteSet(Path(x)) /\ Path(y) \in SUBSET Path(x)
  BY DeepIs, PathGoes
<1> QED BY <1>1, FS_Subset DEF Deep

\* What the options let through, as a walk that goes on from what is let through.
Let(top) == {n \in Nodes : Shown(n) /\ Deep(n) - Deep(top) <= maxDepth}
OnFrom(top) == [n \in Nodes |-> IF n \in Let(top) THEN KidSet(n, Nodes) ELSE {}]

\* What the walk of the options goes on to.
LEMMA OnFromIs ==
  ASSUME NEW top
  PROVE  /\ Children(OnFrom(top))
         /\ \A n \in Nodes : n \in Let(top) => OnFrom(top)[n] = KidSet(n, Nodes)
         /\ \A n \in Nodes : n \notin Let(top) => OnFrom(top)[n] = {}
BY DEF Children, OnFrom, KidSet

\* What the options let through, as a walk.
LEMMA ReachedIs ==
  ASSUME IsTree, maxDepth \in Nat, NEW top \in Nodes, Shown(top)
  PROVE  \A x : x \in Reached(top) <=> x \in Visit(top, OnFrom(top)) /\ x \in Let(top)
<1> DEFINE K == OnFrom(top)
<1>0. /\ Children(K)
      /\ \A n \in Nodes : n \in Let(top) => K[n] = KidSet(n, Nodes)
      /\ \A n \in Nodes : n \notin Let(top) => K[n] = {}
  BY OnFromIs
<1> HIDE DEF K
<1>1. ASSUME NEW x, x \in Visit(top, K), x \in Let(top) PROVE x \in Reached(top)
  <2>1. /\ x \in Nodes /\ top \in Path(x) /\ \A y \in Path(x) \ Path(top) : y \in K[parent[y]]
        /\ Shown(x) /\ Deep(x) - Deep(top) <= maxDepth
    BY <1>1 DEF Visit, Let
  <2>2. ASSUME NEW z \in Path(x) \ Path(top), z # x PROVE Shown(z)
    <3>1. z \in Path(x) /\ z \in Nodes
      BY <2>1, PathGoes
    <3>2. PICK y \in 2 .. TreeSize : parent[y] = z /\ y \in Path(x)
      BY <2>1, <2>2, <3>1, PathNext
    <3>3. y \notin Path(top)
      <4> SUFFICES ASSUME y \in Path(top) PROVE FALSE
        OBVIOUS
      <4>1. y \in Nodes /\ y <= top /\ z < y /\ y \in Nat /\ z \in Nat /\ top \in Nat
        BY <3>2, PathGoes, NodesAre DEF IsTree
      <4>2. z \in Path(top)
        <5>1. z \in Path(y)
          BY <3>1, <3>2, PathIs, PathGoes
        <5> QED BY <4>1, <5>1, PathGoes
      <4>3. z = top
        BY <4>2
      <4> QED BY <4>1, <4>3
    <3>4. y \in K[z]
      BY <2>1, <3>2, <3>3
    <3>5. z \in Let(top)
      BY <1>0, <3>1, <3>4
    <3> QED BY <3>5 DEF Let
  <2>3. \A z \in Path(x) \ Path(top) : Shown(z)
    BY <2>1, <2>2
  <2> QED BY <2>1, <2>3 DEF Reached, Deep
<1>2. ASSUME NEW x, x \in Reached(top) PROVE x \in Visit(top, K) /\ x \in Let(top)
  <2>1. /\ x \in Nodes /\ top \in Path(x) /\ Deep(x) - Deep(top) <= maxDepth
        /\ Shown(top) /\ \A z \in Path(x) \ Path(top) : Shown(z)
    BY <1>2 DEF Reached, Deep
  <2>2. Deep(x) \in Nat /\ Deep(top) \in Nat /\ x \in Path(x)
    BY <2>1, DeepIs, PathGoes
  <2>3. x \in Let(top)
    <3>1. Shown(x)
      <4>1. CASE x \in Path(top)
        <5>1. x <= top /\ top <= x /\ x \in Nat /\ top \in Nat
          BY <2>1, <4>1, PathGoes, NodesAre
        <5>2. x = top
          BY <5>1
        <5> QED BY <2>1, <5>2
      <4>2. CASE x \notin Path(top)
        BY <2>1, <2>2, <4>2
      <4> QED BY <4>1, <4>2
    <3> QED BY <2>1, <3>1 DEF Let
  <2>4. ASSUME NEW y \in Path(x) \ Path(top) PROVE y \in K[parent[y]]
    <3> DEFINE p == parent[y]
    <3>1. y \in Nodes /\ y # Root
      BY <2>1, PathGoes
    <3>2. y \in 2 .. TreeSize /\ p \in Nodes /\ Path(y) = {y} \cup Path(p) /\ p < y
      BY <3>1, NodesAre, PathIs DEF IsTree
    <3>3. p \in Path(x)
      <4>1. p \in Path(y) /\ Path(y) \subseteq Path(x)
        BY <2>1, <3>2, PathGoes
      <4> QED BY <4>1
    <3>4. Shown(p)
      <4>1. CASE p \in Path(top)
        <5>1. top \in Path(y)
          <6>1. top <= y \/ y <= top
            BY <3>1, NodesAre
          <6>2. y <= top => y \in Path(top)
            BY <2>1, PathGoes
          <6>3. top <= y
            BY <6>1, <6>2
          <6> QED BY <2>1, <6>3, PathGoes
        <5>2. y # top
          BY <2>4, PathGoes
        <5>3. top \in Path(p)
          BY <3>2, <5>1, <5>2
        <5>4. top <= p /\ p <= top /\ p \in Nat /\ top \in Nat
          BY <3>2, <4>1, <5>3, PathGoes, NodesAre
        <5>5. p = top
          BY <5>4
        <5> QED BY <2>1, <5>5
      <4>2. CASE p \notin Path(top)
        BY <2>1, <3>3, <4>2
      <4> QED BY <4>1, <4>2
    <3>5. Deep(p) - Deep(top) <= maxDepth
      <4>1. Deep(p) <= Deep(x) /\ Deep(p) \in Nat
        BY <2>1, <3>2, <3>3, DeeperOn, DeepIs
      <4> QED BY <2>1, <2>2, <4>1
    <3>6. p \in Let(top)
      BY <3>2, <3>4, <3>5 DEF Let
    <3>7. y \in KidSet(p, Nodes)
      BY <3>1 DEF KidSet
    <3> QED BY <1>0, <3>2, <3>6, <3>7
  <2> QED BY <2>1, <2>3, <2>4 DEF Visit
<1> QED BY <1>1, <1>2 DEF K

\* The same, as the parser walks: it goes on to what is let through.
Parsed == [n \in Nodes |-> IF Deep(n) - 1 < maxDepth THEN {m \in KidSet(n, Nodes) : Shown(m)} ELSE {}]

\* What the walk of the parser goes on to.
LEMMA ParsedIs ==
  /\ Children(Parsed)
  /\ \A n \in Nodes : Deep(n) - 1 < maxDepth => Parsed[n] = {m \in KidSet(n, Nodes) : Shown(m)}
  /\ \A n \in Nodes : ~(Deep(n) - 1 < maxDepth) => Parsed[n] = {}
BY DEF Children, Parsed, KidSet

\* The parser meets what the options let through.
LEMMA ParsedReached ==
  ASSUME IsTree, maxDepth \in Nat
  PROVE  \A x : x \in Reached(Root) <=> x \in Visit(Root, Parsed)
<1> DEFINE K == Parsed
<1>0. /\ Children(K)
      /\ \A n \in Nodes : Deep(n) - 1 < maxDepth => K[n] = {m \in KidSet(n, Nodes) : Shown(m)}
      /\ \A n \in Nodes : ~(Deep(n) - 1 < maxDepth) => K[n] = {}
  BY ParsedIs
<1> HIDE DEF K
<1>1. Deep(Root) = 1 /\ Root \in Nodes /\ Path(Root) = {Root}
  BY DeepIs, NodesAre, PathIs
<1>2. ASSUME NEW x \in Nodes, NEW y \in Path(x) \ Path(Root)
      PROVE  /\ y \in 2 .. TreeSize /\ parent[y] \in Nodes /\ Deep(y) = Deep(parent[y]) + 1
             /\ y \in KidSet(parent[y], Nodes) /\ Deep(parent[y]) \in Nat
  <2>1. y \in Nodes /\ y # Root
    BY <1>1, PathGoes
  <2> QED BY <2>1, NodesAre, DeepIs DEF IsTree, KidSet
<1>3. ASSUME NEW x, x \in Visit(Root, K) PROVE x \in Reached(Root)
  <2>1. x \in Nodes /\ Root \in Path(x) /\ \A y \in Path(x) \ Path(Root) : y \in K[parent[y]]
    BY <1>3 DEF Visit
  <2>2. ASSUME NEW y \in Path(x) \ Path(Root) PROVE Shown(y) /\ Deep(y) - 1 <= maxDepth
    <3>1. y \in K[parent[y]] /\ parent[y] \in Nodes /\ Deep(y) = Deep(parent[y]) + 1 /\ Deep(parent[y]) \in Nat
      BY <1>2, <2>1
    <3>2. Shown(y) /\ Deep(parent[y]) - 1 < maxDepth
      BY <1>0, <3>1
    <3> QED BY <3>1, <3>2
  <2>3. \A z \in Path(x) \ Path(Root) : Shown(z)
    BY <2>2
  <2>4. Deep(x) - 1 <= maxDepth
    <3>1. CASE x = Root
      BY <1>1, <3>1
    <3>2. CASE x # Root
      BY <1>1, <2>1, <2>2, <3>2, PathGoes
    <3> QED BY <3>1, <3>2
  <2> QED BY <1>1, <2>1, <2>3, <2>4 DEF Reached, Deep
<1>4. ASSUME NEW x, x \in Reached(Root) PROVE x \in Visit(Root, K)
  <2>1. /\ x \in Nodes /\ Root \in Path(x) /\ Deep(x) - 1 <= maxDepth
        /\ \A z \in Path(x) \ Path(Root) : Shown(z)
    BY <1>1, <1>4 DEF Reached, Deep
  <2>2. ASSUME NEW y \in Path(x) \ Path(Root) PROVE y \in K[parent[y]]
    <3>1. /\ y \in KidSet(parent[y], Nodes) /\ parent[y] \in Nodes
          /\ Deep(y) = Deep(parent[y]) + 1 /\ Deep(parent[y]) \in Nat
      BY <1>2, <2>1
    <3>2. Deep(y) <= Deep(x) /\ Deep(x) \in Nat
      BY <2>1, DeeperOn, DeepIs
    <3>3. Deep(parent[y]) - 1 < maxDepth
      BY <2>1, <3>1, <3>2
    <3>4. Shown(y)
      BY <2>1
    <3> QED BY <1>0, <3>1, <3>3, <3>4
  <2> QED BY <2>1, <2>2 DEF Visit
<1> QED BY <1>3, <1>4 DEF K

-----------------------------------------------------------------------------
(* What the walks of the code return *)

DesignTypes == IsTree /\ maxDepth \in Nat

\* Nothing is pushed for no children.
LEMMA PushedNone ==
  ASSUME NEW lists, Len(lists) = 0, lists \in Seq(Seq(Nodes))
  PROVE  Pushed(lists) = <<>>
<1> DEFINE p == Pushed(lists)
<1>1. p \in Seq(Nodes) /\ \A x : x \in Range(p) <=> \E i \in 1 .. Len(lists) : x \in Range(lists[i])
  BY PushedIs
<1> HIDE DEF p
<1>2. Range(p) = {}
  BY <1>1
<1>3. DOMAIN p = 1 .. Len(p) /\ Len(p) \in Nat
  BY <1>1
<1>4. Len(p) = 0
  <2>1. Len(p) # 0 => 1 \in DOMAIN p
    BY <1>3
  <2>2. 1 \in DOMAIN p => p[1] \in Range(p)
    BY DEF Range
  <2> QED BY <1>2, <2>1, <2>2
<1>5. p = <<>>
  BY <1>1, <1>4
<1> QED BY <1>5 DEF p

\* The children, for a function that holds their lists.
LEMMA ListsIs ==
  ASSUME NEW n \in Nodes, NEW among \in SUBSET Nodes, NEW kids, kids[n] = Kids(n, among)
  PROVE  kids[n] \in Seq(Nodes) /\ KidsOf(n, kids) /\ ListsAll(kids[n], KidSet(n, among))
<1>1. ListsAll(kids[n], KidSet(n, among))
  BY KidsAre
<1>2. \A m \in KidSet(n, among) : m \in 2 .. TreeSize /\ m \in Nodes /\ parent[m] = n
  BY NodesAre DEF KidSet
<1>3. kids[n] \in Seq(KidSet(n, among))
  BY <1>1 DEF ListsAll
<1>4. Len(kids[n]) \in Nat /\ \A i \in 1 .. Len(kids[n]) : kids[n][i] \in KidSet(n, among)
  BY <1>3
<1>5. kids[n] \in Seq(Nodes)
  <2>1. KidSet(n, among) \subseteq Nodes
    BY <1>2
  <2> QED BY <1>3, <2>1
<1> QED BY <1>1, <1>2, <1>4, <1>5 DEF KidsOf

\* No children.
LEMMA NoKids == ListsAll(<<>>, {})
BY DEF ListsAll

\* Parse is the list of a walk.
LEMMA ParseMade ==
  ASSUME DesignTypes
  PROVE  \E L : Walks(L, Nodes, Parsed) /\ Parse = L[Root]
<1> DEFINE among == {m \in Nodes : Shown(m)}
           kids == [n \in Nodes |-> Kids(n, among)]
           B == [n \in Nodes |-> [d \in Nat |-> [ls \in Seq(Seq(Nodes)) |->
                  <<n>> \o (IF d < maxDepth THEN Pushed(ls) ELSE <<>>)]]]
           Rec(f) == [n \in Nodes |-> [depth \in Nat |->
              <<n>> \o (IF depth < maxDepth
                        THEN Pushed([i \in 1 .. Len(Kids(n, among)) |-> f[Kids(n, among)[i]][depth + 1]])
                        ELSE <<>>)]]
           parse == CHOOSE f : f = Rec(f)
<1>0. IsTree /\ maxDepth \in Nat
  BY DEF DesignTypes
<1>1. Parse = parse[Root][0]
  BY DEF Parse
<1>2. \A n \in Nodes : kids[n] = Kids(n, among)
  OBVIOUS
<1>3. \A n \in Nodes : kids[n] \in Seq(Nodes) /\ KidsOf(n, kids) /\ ListsAll(kids[n], KidSet(n, among))
  <2> HIDE DEF kids
  <2>1. among \in SUBSET Nodes
    OBVIOUS
  <2> HIDE DEF among
  <2> QED BY <1>2, <2>1, ListsIs
<1>4. \A n \in Nodes : \A d \in Nat : \A ls \in Seq(Seq(Nodes)) :
        /\ B[n][d][ls] = <<n>> \o (IF d < maxDepth THEN Pushed(ls) ELSE <<>>)
        /\ <<n>> \o (IF d < maxDepth THEN Pushed(ls) ELSE <<>>) \in Seq(Nodes)
  <2>1. \A n \in Nodes : \A d \in Nat : \A ls \in Seq(Seq(Nodes)) :
          B[n][d][ls] = <<n>> \o (IF d < maxDepth THEN Pushed(ls) ELSE <<>>)
    OBVIOUS
  <2>2. ASSUME NEW n \in Nodes, NEW d \in Nat, NEW ls \in Seq(Seq(Nodes))
        PROVE  <<n>> \o (IF d < maxDepth THEN Pushed(ls) ELSE <<>>) \in Seq(Nodes)
    <3>1. Pushed(ls) \in Seq(Nodes)
      BY PushedIs
    <3>2. <<n>> \in Seq(Nodes) /\ <<>> \in Seq(Nodes)
      OBVIOUS
    <3> DEFINE rest == IF d < maxDepth THEN Pushed(ls) ELSE <<>>
    <3>3. rest \in Seq(Nodes)
      BY <3>1, <3>2
    <3> HIDE DEF rest
    <3>4. <<n>> \o rest \in Seq(Nodes)
      BY <3>2, <3>3
    <3> QED BY <3>4 DEF rest
  <2> HIDE DEF B
  <2> QED BY <2>1, <2>2
<1>5. Layers(Nodes, kids, B)
  <2>1. kids \in [Nodes -> Seq(Nodes)]
    <3>1. \A n \in Nodes : Kids(n, among) \in Seq(Nodes)
      BY <1>3
    <3> HIDE DEF among
    <3> QED BY <3>1
  <2>2. B \in [Nodes -> [Nat -> [Seq(Seq(Nodes)) -> Seq(Nodes)]]]
    <3>1. \A n \in Nodes : \A d \in Nat : \A ls \in Seq(Seq(Nodes)) :
            <<n>> \o (IF d < maxDepth THEN Pushed(ls) ELSE <<>>) \in Seq(Nodes)
      BY <1>4
    <3> QED BY <3>1
  <2> HIDE DEF kids, B
  <2> QED BY <1>3, <2>1, <2>2 DEF Layers
<1>6. \E f : f = Rec(f)
  <2>1. PICK f \in [Nodes -> [Nat -> Seq(Nodes)]] : \A n \in Nodes : \A d \in Nat :
           f[n][d] = B[n][d][Under(f, kids, n, d)] /\ Under(f, kids, n, d) \in Seq(Seq(Nodes))
    <3> HIDE DEF kids, B
    <3> QED BY ONLY <1>0, <1>5, Layered
  <2>3. \A n \in Nodes : \A d \in Nat :
           f[n][d] = <<n>> \o (IF d < maxDepth THEN Pushed(Under(f, kids, n, d)) ELSE <<>>)
    <3> HIDE DEF B
    <3> SUFFICES ASSUME NEW n \in Nodes, NEW d \in Nat
                 PROVE  f[n][d] = <<n>> \o (IF d < maxDepth
                                            THEN Pushed(Under(f, kids, n, d)) ELSE <<>>)
      OBVIOUS
    <3> DEFINE ls == Under(f, kids, n, d)
    <3>1. ls \in Seq(Seq(Nodes)) /\ f[n][d] = B[n][d][ls]
      BY <2>1
    <3> HIDE DEF ls
    <3>2. B[n][d][ls] = <<n>> \o (IF d < maxDepth THEN Pushed(ls) ELSE <<>>)
      BY <1>4, <3>1
    <3> QED BY <3>1, <3>2 DEF ls
  <2>4. \A n \in Nodes : \A d \in Nat :
           Under(f, kids, n, d) = [i \in 1 .. Len(Kids(n, among)) |-> f[Kids(n, among)[i]][d + 1]]
    <3> HIDE DEF among
    <3> QED BY DEF Under
  <2> DEFINE g == Rec(f)
  <2>5. \A n \in Nodes : g[n] = f[n]
    <3> SUFFICES ASSUME NEW n \in Nodes PROVE g[n] = f[n]
      OBVIOUS
    <3>1. \A d \in Nat : g[n][d] = f[n][d]
      <4> HIDE DEF among, B, kids
      <4> QED BY <2>3, <2>4
    <3>2. g[n] = [d \in Nat |-> g[n][d]] /\ f[n] = [d \in Nat |-> f[n][d]]
      OBVIOUS
    <3> HIDE DEF g
    <3> QED BY <3>1, <3>2
  <2>6. g = [n \in Nodes |-> g[n]] /\ f = [n \in Nodes |-> f[n]]
    OBVIOUS
  <2>7. g = f
    <3> HIDE DEF g
    <3> QED BY <2>5, <2>6
  <2> HIDE DEF Rec
  <2> QED BY <2>7
<1>7. parse = Rec(parse)
  <2> HIDE DEF Rec
  <2> QED BY <1>6
<1>8. \A n \in Nodes : \A d \in Nat :
         parse[n][d] = <<n>> \o (IF d < maxDepth THEN Pushed(Under(parse, kids, n, d)) ELSE <<>>)
  <2>1. \A n \in Nodes : \A d \in Nat :
           Under(parse, kids, n, d) = [i \in 1 .. Len(Kids(n, among)) |-> parse[Kids(n, among)[i]][d + 1]]
    <3> HIDE DEF among, parse
    <3> QED BY DEF Under
  <2>2. \A n \in Nodes : \A d \in Nat : parse[n][d] = Rec(parse)[n][d]
    <3> HIDE DEF Rec, parse
    <3> QED BY <1>7
  <2> HIDE DEF among, parse, kids
  <2> QED BY <2>1, <2>2
<1> HIDE DEF parse, Rec
<1>9. \A n \in Nodes : \A d \in Nat : parse[n][d] \in Seq(Nodes) /\ Under(parse, kids, n, d) \in Seq(Seq(Nodes))
  <2>1. \A n \in Nodes : \A d \in Nat : Under(parse, kids, n, d) \in Seq(Seq(Nodes)) => parse[n][d] \in Seq(Nodes)
    <3> HIDE DEF B
    <3> QED BY <1>4, <1>8
  <2> HIDE DEF kids, B
  <2> QED BY <1>0, <1>5, <2>1, LayeredType
<1> DEFINE L == [n \in Nodes |-> parse[n][Deep(n) - 1]]
<1>10. ASSUME NEW n \in Nodes
       PROVE  /\ Deep(n) - 1 \in Nat /\ L[n] \in Seq(Nodes)
              /\ L[n] = OwnList(n, Nodes) \o (IF Deep(n) - 1 < maxDepth
                          THEN Pushed([i \in 1 .. Len(kids[n]) |-> L[kids[n][i]]]) ELSE <<>>)
              /\ [i \in 1 .. Len(kids[n]) |-> L[kids[n][i]]] \in Seq(Seq(Nodes))
  <2>1. Deep(n) - 1 \in Nat
    BY <1>0, DeepIs
  <2>2. ASSUME NEW i \in 1 .. Len(kids[n]) PROVE L[kids[n][i]] = parse[kids[n][i]][(Deep(n) - 1) + 1]
    <3>1. kids[n][i] \in 2 .. TreeSize /\ parent[kids[n][i]] = n
      BY <1>3 DEF KidsOf
    <3>2. kids[n][i] \in Nodes /\ Deep(kids[n][i]) = Deep(n) + 1
      BY <1>0, <3>1, DeepIs, NodesAre
    <3>3. Deep(kids[n][i]) - 1 = (Deep(n) - 1) + 1
      <4>1. Deep(n) \in Nat /\ Deep(kids[n][i]) = Deep(n) + 1
        BY <1>0, <3>2, DeepIs
      <4> QED BY ONLY <4>1
    <3> HIDE DEF kids
    <3> QED BY <3>2, <3>3
  <2>3. [i \in 1 .. Len(kids[n]) |-> L[kids[n][i]]] = Under(parse, kids, n, Deep(n) - 1)
    <3> HIDE DEF L, kids
    <3> QED BY <2>2 DEF Under
  <2>4. L[n] = parse[n][Deep(n) - 1] /\ OwnList(n, Nodes) = <<n>>
    BY DEF OwnList
  <2> HIDE DEF L, kids
  <2> QED BY <1>8, <1>9, <2>1, <2>3, <2>4
<1>11. ASSUME NEW n \in Nodes
       PROVE  \E ks : /\ ListsAll(ks, Parsed[n])
                      /\ L[n] = OwnList(n, Nodes) \o Pushed([i \in 1 .. Len(ks) |-> L[ks[i]]])
  <2>1. CASE Deep(n) - 1 < maxDepth
    <3>1. KidSet(n, among) = Parsed[n]
      BY <2>1, ParsedIs DEF KidSet
    <3> HIDE DEF L, kids, among
    <3> QED BY <1>3, <1>10, <2>1, <3>1
  <2>2. CASE ~(Deep(n) - 1 < maxDepth)
    <3> DEFINE ks == <<>>
               ls == [i \in 1 .. Len(ks) |-> L[ks[i]]]
    <3>1. ListsAll(ks, Parsed[n])
      BY <2>2, ParsedIs, NoKids
    <3>2. Len(ls) = 0 /\ ls \in Seq(Seq(Nodes))
      OBVIOUS
    <3>3. Pushed(ls) = <<>>
      <4> HIDE DEF ls
      <4> QED BY <3>2, PushedNone
    <3>4. L[n] = OwnList(n, Nodes) \o <<>>
      BY <1>10, <2>2
    <3> HIDE DEF L, ls
    <3>5. ListsAll(ks, Parsed[n]) /\ L[n] = OwnList(n, Nodes) \o Pushed(ls)
      BY <3>1, <3>3, <3>4
    <3> QED BY <3>5 DEF ls
  <2> QED BY <2>1, <2>2
<1>12. Walks(L, Nodes, Parsed)
  <2>1. L \in [Nodes -> Seq(Nodes)]
    BY <1>10
  <2> HIDE DEF L
  <2> QED BY <1>11, <2>1, ParsedIs DEF Walks
<1>13. Parse = L[Root]
  <2>1. Deep(Root) - 1 = 0 /\ Root \in Nodes
    BY <1>0, DeepIs, NodesAre
  <2> QED BY <1>1, <2>1
<1> HIDE DEF L
<1> QED BY <1>12, <1>13

\* Summarized is the list of a walk.
LEMMA SummaryMade ==
  ASSUME DesignTypes
  PROVE  \E L : Walks(L, Let(Root), OnFrom(Root)) /\ Summarized = L[Root]
<1> DEFINE kids == [n \in Nodes |-> Kids(n, Nodes)]
           Made(n, d, ls) == IF ~Shown(n) \/ d > maxDepth THEN <<>> ELSE <<n>> \o Pushed(ls)
           B == [n \in Nodes |-> [d \in Nat |-> [ls \in Seq(Seq(Nodes)) |-> Made(n, d, ls)]]]
           Rec(f) == [n \in Nodes |-> [depth \in Nat |->
              IF ~Shown(n) \/ depth > maxDepth THEN <<>>
              ELSE <<n>> \o Pushed([i \in 1 .. Len(Kids(n, Nodes)) |-> f[Kids(n, Nodes)[i]][depth + 1]])]]
           summary == CHOOSE f : f = Rec(f)
<1>0. IsTree /\ maxDepth \in Nat
  BY DEF DesignTypes
<1>1. Summarized = summary[Root][0]
  BY DEF Summarized
<1>2. \A n \in Nodes : kids[n] = Kids(n, Nodes)
  OBVIOUS
<1>3. \A n \in Nodes : kids[n] \in Seq(Nodes) /\ KidsOf(n, kids) /\ ListsAll(kids[n], KidSet(n, Nodes))
  <2> HIDE DEF kids
  <2>1. Nodes \in SUBSET Nodes
    OBVIOUS
  <2> QED BY <1>2, <2>1, ListsIs
<1>4. \A n \in Nodes : \A d \in Nat : \A ls \in Seq(Seq(Nodes)) :
        B[n][d][ls] = Made(n, d, ls) /\ Made(n, d, ls) \in Seq(Nodes)
  <2>1. \A n \in Nodes : \A d \in Nat : \A ls \in Seq(Seq(Nodes)) : B[n][d][ls] = Made(n, d, ls)
    <3> HIDE DEF Made
    <3> QED OBVIOUS
  <2>2. ASSUME NEW n \in Nodes, NEW d \in Nat, NEW ls \in Seq(Seq(Nodes))
        PROVE  Made(n, d, ls) \in Seq(Nodes)
    <3> DEFINE below == Pushed(ls)
    <3>1. below \in Seq(Nodes)
      BY PushedIs
    <3>2. <<n>> \in Seq(Nodes) /\ <<>> \in Seq(Nodes)
      OBVIOUS
    <3> HIDE DEF below
    <3>3. <<n>> \o below \in Seq(Nodes)
      BY <3>1, <3>2
    <3> QED BY <3>2, <3>3 DEF below
  <2> HIDE DEF B, Made
  <2> QED BY <2>1, <2>2
<1>5. Layers(Nodes, kids, B)
  <2>1. kids \in [Nodes -> Seq(Nodes)]
    <3>1. \A n \in Nodes : Kids(n, Nodes) \in Seq(Nodes)
      BY <1>3
    <3> QED BY <3>1
  <2>2. B \in [Nodes -> [Nat -> [Seq(Seq(Nodes)) -> Seq(Nodes)]]]
    <3>1. \A n \in Nodes : \A d \in Nat : \A ls \in Seq(Seq(Nodes)) : Made(n, d, ls) \in Seq(Nodes)
      BY <1>4
    <3> HIDE DEF Made
    <3> QED BY <3>1
  <2> HIDE DEF kids, B
  <2> QED BY <1>3, <2>1, <2>2 DEF Layers
<1>6. \A f : \A n \in Nodes : \A d \in Nat : Rec(f)[n][d] = Made(n, d, Under(f, kids, n, d))
  <2> SUFFICES ASSUME NEW f, NEW n \in Nodes, NEW d \in Nat
               PROVE  Rec(f)[n][d] = Made(n, d, Under(f, kids, n, d))
    OBVIOUS
  <2> DEFINE ls == [i \in 1 .. Len(Kids(n, Nodes)) |-> f[Kids(n, Nodes)[i]][d + 1]]
  <2>1. Under(f, kids, n, d) = ls
    BY <1>2 DEF Under
  <2>2. Rec(f)[n][d] = Made(n, d, ls)
    OBVIOUS
  <2> HIDE DEF Rec, Made, ls, kids
  <2> QED BY <2>1, <2>2
<1>7. \E f : f = Rec(f)
  <2>1. PICK f \in [Nodes -> [Nat -> Seq(Nodes)]] : \A n \in Nodes : \A d \in Nat :
           f[n][d] = B[n][d][Under(f, kids, n, d)] /\ Under(f, kids, n, d) \in Seq(Seq(Nodes))
    <3> HIDE DEF kids, B
    <3> QED BY ONLY <1>0, <1>5, Layered
  <2>2. \A n \in Nodes : \A d \in Nat : f[n][d] = Rec(f)[n][d]
    <3> SUFFICES ASSUME NEW n \in Nodes, NEW d \in Nat PROVE f[n][d] = Rec(f)[n][d]
      OBVIOUS
    <3> DEFINE ls == Under(f, kids, n, d)
    <3> HIDE DEF Rec, B, Made, kids
    <3>1. Rec(f)[n][d] = Made(n, d, ls)
      BY <1>6
    <3>2. f[n][d] = B[n][d][ls] /\ ls \in Seq(Seq(Nodes))
      BY <2>1
    <3> HIDE DEF ls
    <3>3. B[n][d][ls] = Made(n, d, ls)
      BY <1>4, <3>2
    <3> QED BY <3>1, <3>2, <3>3
  <2> DEFINE g == Rec(f)
  <2>3. \A n \in Nodes : g[n] = f[n]
    <3> SUFFICES ASSUME NEW n \in Nodes PROVE g[n] = f[n]
      OBVIOUS
    <3>1. g[n] = [d \in Nat |-> g[n][d]] /\ f[n] = [d \in Nat |-> f[n][d]]
      OBVIOUS
    <3> HIDE DEF Rec
    <3> QED BY <2>2, <3>1
  <2>4. g = [n \in Nodes |-> g[n]] /\ f = [n \in Nodes |-> f[n]]
    OBVIOUS
  <2>5. g = f
    <3> HIDE DEF g
    <3> QED BY <2>3, <2>4
  <2> HIDE DEF Rec
  <2> QED BY <2>5
<1>8. summary = Rec(summary)
  <2> HIDE DEF Rec
  <2> QED BY <1>7
<1> HIDE DEF summary
<1>9. \A n \in Nodes : \A d \in Nat : summary[n][d] = Made(n, d, Under(summary, kids, n, d))
  <2> HIDE DEF Rec, Made
  <2> QED BY <1>6, <1>8
<1> HIDE DEF Rec
<1>10. \A n \in Nodes : \A d \in Nat :
         summary[n][d] \in Seq(Nodes) /\ Under(summary, kids, n, d) \in Seq(Seq(Nodes))
  <2>1. \A n \in Nodes : \A d \in Nat :
           Under(summary, kids, n, d) \in Seq(Seq(Nodes)) => summary[n][d] \in Seq(Nodes)
    <3> HIDE DEF B, Made
    <3> QED BY <1>4, <1>9
  <2> HIDE DEF kids, B
  <2> QED BY <1>0, <1>5, <2>1, LayeredType
<1> HIDE DEF Made
<1> DEFINE L == [n \in Nodes |-> summary[n][Deep(n) - 1]]
<1>11. ASSUME NEW n \in Nodes
       PROVE  /\ Deep(n) - 1 \in Nat /\ L[n] \in Seq(Nodes)
              /\ L[n] = Made(n, Deep(n) - 1, [i \in 1 .. Len(kids[n]) |-> L[kids[n][i]]])
  <2>1. Deep(n) - 1 \in Nat
    BY <1>0, DeepIs
  <2>2. ASSUME NEW i \in 1 .. Len(kids[n]) PROVE L[kids[n][i]] = summary[kids[n][i]][(Deep(n) - 1) + 1]
    <3>1. kids[n][i] \in 2 .. TreeSize /\ parent[kids[n][i]] = n
      BY <1>3 DEF KidsOf
    <3>2. kids[n][i] \in Nodes /\ Deep(kids[n][i]) = Deep(n) + 1
      BY <1>0, <3>1, DeepIs, NodesAre
    <3>3. Deep(kids[n][i]) - 1 = (Deep(n) - 1) + 1
      <4>1. Deep(n) \in Nat /\ Deep(kids[n][i]) = Deep(n) + 1
        BY <1>0, <3>2, DeepIs
      <4> QED BY ONLY <4>1
    <3> HIDE DEF kids
    <3> QED BY <3>2, <3>3
  <2>3. [i \in 1 .. Len(kids[n]) |-> L[kids[n][i]]] = Under(summary, kids, n, Deep(n) - 1)
    <3> HIDE DEF L, kids
    <3> QED BY <2>2 DEF Under
  <2>4. L[n] = summary[n][Deep(n) - 1]
    OBVIOUS
  <2> HIDE DEF L, kids
  <2> QED BY <1>9, <1>10, <2>1, <2>3, <2>4
<1>12. ASSUME NEW n \in Nodes
       PROVE  \E ks : /\ ListsAll(ks, OnFrom(Root)[n])
                      /\ L[n] = OwnList(n, Let(Root)) \o Pushed([i \in 1 .. Len(ks) |-> L[ks[i]]])
  <2>0. n \in Let(Root) <=> ~(~Shown(n) \/ Deep(n) - 1 > maxDepth)
    <3>1. Deep(Root) = 1 /\ Deep(n) \in Nat
      BY <1>0, DeepIs
    <3> QED BY <1>0, <3>1 DEF Let
  <2>1. CASE n \in Let(Root)
    <3> DEFINE ls == [i \in 1 .. Len(kids[n]) |-> L[kids[n][i]]]
    <3>1. OnFrom(Root)[n] = KidSet(n, Nodes) /\ OwnList(n, Let(Root)) = <<n>>
      BY <2>1, OnFromIs DEF OwnList
    <3>2. L[n] = Made(n, Deep(n) - 1, ls)
      BY <1>11
    <3> HIDE DEF L, kids, ls
    <3>3. L[n] = <<n>> \o Pushed(ls)
      BY <2>0, <2>1, <3>2 DEF Made
    <3>4. ListsAll(kids[n], OnFrom(Root)[n]) /\ L[n] = OwnList(n, Let(Root)) \o Pushed(ls)
      BY <1>3, <3>1, <3>3
    <3> QED BY <3>4 DEF ls
  <2>2. CASE n \notin Let(Root)
    <3> DEFINE ks == <<>>
               ls == [i \in 1 .. Len(ks) |-> L[ks[i]]]
    <3>1. ListsAll(ks, OnFrom(Root)[n])
      BY <2>2, OnFromIs, NoKids
    <3>2. Len(ls) = 0 /\ ls \in Seq(Seq(Nodes))
      OBVIOUS
    <3>3. Pushed(ls) = <<>>
      <4> HIDE DEF ls
      <4> QED BY <3>2, PushedNone
    <3>4. L[n] = <<>> /\ OwnList(n, Let(Root)) = <<>>
      <4> HIDE DEF L, kids
      <4> QED BY <1>11, <2>0, <2>2 DEF Made, OwnList
    <3> HIDE DEF L, ls
    <3>5. ListsAll(ks, OnFrom(Root)[n]) /\ L[n] = OwnList(n, Let(Root)) \o Pushed(ls)
      BY <3>1, <3>3, <3>4
    <3> QED BY <3>5 DEF ls
  <2> QED BY <2>1, <2>2
<1>13. Walks(L, Let(Root), OnFrom(Root))
  <2>1. L \in [Nodes -> Seq(Nodes)] /\ Let(Root) \in SUBSET Nodes
    BY <1>11 DEF Let
  <2> HIDE DEF L
  <2> QED BY <1>12, <2>1, OnFromIs DEF Walks
<1>14. Summarized = L[Root]
  <2>1. Deep(Root) - 1 = 0 /\ Root \in Nodes
    BY <1>0, DeepIs, NodesAre
  <2> QED BY <1>1, <2>1
<1> HIDE DEF L
<1> QED BY <1>13, <1>14

\* The walk of the candidates ends at a screen.
Framed(n) == Deep(n) - 1 > 0 /\ ScreenLike(n)
Outer == [n \in Nodes |-> IF Framed(n) THEN {} ELSE KidSet(n, Nodes)]

\* What the walk of the candidates goes on to.
LEMMA OuterIs ==
  /\ Children(Outer)
  /\ \A n \in Nodes : Framed(n) => Outer[n] = {}
  /\ \A n \in Nodes : ~Framed(n) => Outer[n] = KidSet(n, Nodes)
BY DEF Children, Outer, KidSet

Alone(L, n) ==
  Deep(n) - 1 = 1 /\ ScreenCandidate(n) /\ \A m \in KidSet(n, Nodes) : Range(L[m]) = {}
Picked(L) == {n \in Nodes : Framed(n) \/ Alone(L, n)}

\* A list is empty if it has no members.
LEMMA EmptyOnly ==
  ASSUME NEW s \in Seq(Nodes)
  PROVE  s = <<>> <=> Range(s) = {}
<1>1. DOMAIN s = 1 .. Len(s) /\ Len(s) \in Nat
  OBVIOUS
<1>2. ASSUME Range(s) = {} PROVE s = <<>>
  <2>1. Len(s) # 0 => 1 \in DOMAIN s
    BY <1>1
  <2>2. 1 \in DOMAIN s => s[1] \in Range(s)
    BY DEF Range
  <2>3. Len(s) = 0
    BY <1>2, <2>1, <2>2
  <2> QED BY <2>3
<1>3. Range(<<>>) = {}
  BY DEF Range
<1> QED BY <1>2, <1>3

\* Candidates is the list of a walk.
LEMMA CandidatesMade ==
  ASSUME DesignTypes
  PROVE  \E L : Walks(L, Picked(L), Outer) /\ Candidates = L[Root]
<1> DEFINE kids == [n \in Nodes |-> Kids(n, Nodes)]
           Made(n, d, ls) == IF d > 0 /\ ScreenLike(n) THEN <<n>>
                             ELSE IF Pushed(ls) = <<>> /\ d = 1 /\ ScreenCandidate(n) THEN <<n>>
                             ELSE Pushed(ls)
           B == [n \in Nodes |-> [d \in Nat |-> [ls \in Seq(Seq(Nodes)) |-> Made(n, d, ls)]]]
           Rec(f) == [n \in Nodes |-> [depth \in Nat |->
              IF depth > 0 /\ ScreenLike(n) THEN <<n>>
              ELSE IF /\ Pushed([i \in 1 .. Len(Kids(n, Nodes)) |-> f[Kids(n, Nodes)[i]][depth + 1]]) = <<>>
                      /\ depth = 1 /\ ScreenCandidate(n) THEN <<n>>
              ELSE Pushed([i \in 1 .. Len(Kids(n, Nodes)) |-> f[Kids(n, Nodes)[i]][depth + 1]])]]
           found == CHOOSE f : f = Rec(f)
<1>0. IsTree /\ maxDepth \in Nat
  BY DEF DesignTypes
<1>1. Candidates = found[Root][0]
  BY DEF Candidates
<1>2. \A n \in Nodes : kids[n] = Kids(n, Nodes)
  OBVIOUS
<1>3. \A n \in Nodes : kids[n] \in Seq(Nodes) /\ KidsOf(n, kids) /\ ListsAll(kids[n], KidSet(n, Nodes))
  <2> HIDE DEF kids
  <2>1. Nodes \in SUBSET Nodes
    OBVIOUS
  <2> QED BY <1>2, <2>1, ListsIs
<1>4. \A n \in Nodes : \A d \in Nat : \A ls \in Seq(Seq(Nodes)) :
        B[n][d][ls] = Made(n, d, ls) /\ Made(n, d, ls) \in Seq(Nodes)
  <2>1. \A n \in Nodes : \A d \in Nat : \A ls \in Seq(Seq(Nodes)) : B[n][d][ls] = Made(n, d, ls)
    <3> HIDE DEF Made
    <3> QED OBVIOUS
  <2>2. ASSUME NEW n \in Nodes, NEW d \in Nat, NEW ls \in Seq(Seq(Nodes))
        PROVE  Made(n, d, ls) \in Seq(Nodes)
    <3> DEFINE below == Pushed(ls)
    <3>1. below \in Seq(Nodes)
      BY PushedIs
    <3>2. <<n>> \in Seq(Nodes) /\ <<>> \in Seq(Nodes)
      OBVIOUS
    <3> HIDE DEF below
    <3> QED BY <3>1, <3>2 DEF below
  <2> HIDE DEF B, Made
  <2> QED BY <2>1, <2>2
<1>5. Layers(Nodes, kids, B)
  <2>1. kids \in [Nodes -> Seq(Nodes)]
    <3>1. \A n \in Nodes : Kids(n, Nodes) \in Seq(Nodes)
      BY <1>3
    <3> QED BY <3>1
  <2>2. B \in [Nodes -> [Nat -> [Seq(Seq(Nodes)) -> Seq(Nodes)]]]
    <3>1. \A n \in Nodes : \A d \in Nat : \A ls \in Seq(Seq(Nodes)) : Made(n, d, ls) \in Seq(Nodes)
      BY <1>4
    <3> HIDE DEF Made
    <3> QED BY <3>1
  <2> HIDE DEF kids, B
  <2> QED BY <1>3, <2>1, <2>2 DEF Layers
<1>6. \A f : \A n \in Nodes : \A d \in Nat : Rec(f)[n][d] = Made(n, d, Under(f, kids, n, d))
  <2> SUFFICES ASSUME NEW f, NEW n \in Nodes, NEW d \in Nat
               PROVE  Rec(f)[n][d] = Made(n, d, Under(f, kids, n, d))
    OBVIOUS
  <2> DEFINE ls == [i \in 1 .. Len(Kids(n, Nodes)) |-> f[Kids(n, Nodes)[i]][d + 1]]
  <2>1. Under(f, kids, n, d) = ls
    BY <1>2 DEF Under
  <2>2. Rec(f)[n][d] = Made(n, d, ls)
    OBVIOUS
  <2> HIDE DEF Rec, Made, ls, kids
  <2> QED BY <2>1, <2>2
<1>7. \E f : f = Rec(f)
  <2>1. PICK f \in [Nodes -> [Nat -> Seq(Nodes)]] : \A n \in Nodes : \A d \in Nat :
           f[n][d] = B[n][d][Under(f, kids, n, d)] /\ Under(f, kids, n, d) \in Seq(Seq(Nodes))
    <3> HIDE DEF kids, B
    <3> QED BY ONLY <1>0, <1>5, Layered
  <2>2. \A n \in Nodes : \A d \in Nat : f[n][d] = Rec(f)[n][d]
    <3> SUFFICES ASSUME NEW n \in Nodes, NEW d \in Nat PROVE f[n][d] = Rec(f)[n][d]
      OBVIOUS
    <3> DEFINE ls == Under(f, kids, n, d)
    <3> HIDE DEF Rec, B, Made, kids
    <3>1. Rec(f)[n][d] = Made(n, d, ls)
      BY <1>6
    <3>2. f[n][d] = B[n][d][ls] /\ ls \in Seq(Seq(Nodes))
      BY <2>1
    <3> HIDE DEF ls
    <3>3. B[n][d][ls] = Made(n, d, ls)
      BY <1>4, <3>2
    <3> QED BY <3>1, <3>2, <3>3
  <2> DEFINE g == Rec(f)
  <2>3. \A n \in Nodes : g[n] = f[n]
    <3> SUFFICES ASSUME NEW n \in Nodes PROVE g[n] = f[n]
      OBVIOUS
    <3>1. g[n] = [d \in Nat |-> g[n][d]] /\ f[n] = [d \in Nat |-> f[n][d]]
      OBVIOUS
    <3> HIDE DEF Rec
    <3> QED BY <2>2, <3>1
  <2>4. g = [n \in Nodes |-> g[n]] /\ f = [n \in Nodes |-> f[n]]
    OBVIOUS
  <2>5. g = f
    <3> HIDE DEF g
    <3> QED BY <2>3, <2>4
  <2> HIDE DEF Rec
  <2> QED BY <2>5
<1>8. found = Rec(found)
  <2> HIDE DEF Rec
  <2> QED BY <1>7
<1> HIDE DEF found
<1>9. \A n \in Nodes : \A d \in Nat : found[n][d] = Made(n, d, Under(found, kids, n, d))
  <2> HIDE DEF Rec, Made
  <2> QED BY <1>6, <1>8
<1> HIDE DEF Rec
<1>10. \A n \in Nodes : \A d \in Nat :
         found[n][d] \in Seq(Nodes) /\ Under(found, kids, n, d) \in Seq(Seq(Nodes))
  <2>1. \A n \in Nodes : \A d \in Nat :
           Under(found, kids, n, d) \in Seq(Seq(Nodes)) => found[n][d] \in Seq(Nodes)
    <3> HIDE DEF B, Made
    <3> QED BY <1>4, <1>9
  <2> HIDE DEF kids, B
  <2> QED BY <1>0, <1>5, <2>1, LayeredType
<1> HIDE DEF Made
<1> DEFINE L == [n \in Nodes |-> found[n][Deep(n) - 1]]
<1>11. ASSUME NEW n \in Nodes
       PROVE  /\ Deep(n) - 1 \in Nat /\ L[n] \in Seq(Nodes)
              /\ L[n] = Made(n, Deep(n) - 1, [i \in 1 .. Len(kids[n]) |-> L[kids[n][i]]])
  <2>1. Deep(n) - 1 \in Nat
    BY <1>0, DeepIs
  <2>2. ASSUME NEW i \in 1 .. Len(kids[n]) PROVE L[kids[n][i]] = found[kids[n][i]][(Deep(n) - 1) + 1]
    <3>1. kids[n][i] \in 2 .. TreeSize /\ parent[kids[n][i]] = n
      BY <1>3 DEF KidsOf
    <3>2. kids[n][i] \in Nodes /\ Deep(kids[n][i]) = Deep(n) + 1
      BY <1>0, <3>1, DeepIs, NodesAre
    <3>3. Deep(kids[n][i]) - 1 = (Deep(n) - 1) + 1
      <4>1. Deep(n) \in Nat /\ Deep(kids[n][i]) = Deep(n) + 1
        BY <1>0, <3>2, DeepIs
      <4> QED BY ONLY <4>1
    <3> HIDE DEF kids
    <3> QED BY <3>2, <3>3
  <2>3. [i \in 1 .. Len(kids[n]) |-> L[kids[n][i]]] = Under(found, kids, n, Deep(n) - 1)
    <3> HIDE DEF L, kids
    <3> QED BY <2>2 DEF Under
  <2>4. L[n] = found[n][Deep(n) - 1]
    OBVIOUS
  <2> HIDE DEF L, kids
  <2> QED BY <1>9, <1>10, <2>1, <2>3, <2>4
<1>12. ASSUME NEW n \in Nodes
       PROVE  \E ks : /\ ListsAll(ks, Outer[n])
                      /\ L[n] = OwnList(n, Picked(L)) \o Pushed([i \in 1 .. Len(ks) |-> L[ks[i]]])
  <2>0. /\ Deep(n) - 1 \in Nat
        /\ n \in Picked(L) <=> Framed(n) \/ Alone(L, n)
        /\ <<n>> \in Seq(Nodes)
    <3> HIDE DEF L, kids
    <3>1. Deep(n) - 1 \in Nat
      BY <1>11
    <3>2. <<n>> \in Seq(Nodes)
      OBVIOUS
    <3>3. n \in Picked(L) <=> Framed(n) \/ Alone(L, n)
      BY DEF Picked
    <3> QED BY <3>1, <3>2, <3>3
  <2>1. CASE Framed(n)
    <3> DEFINE ks == <<>>
               ls == [i \in 1 .. Len(ks) |-> L[ks[i]]]
    <3>1. ListsAll(ks, Outer[n])
      BY <2>1, OuterIs, NoKids
    <3>2. Len(ls) = 0 /\ ls \in Seq(Seq(Nodes))
      OBVIOUS
    <3>3. Pushed(ls) = <<>>
      <4> HIDE DEF ls
      <4> QED BY <3>2, PushedNone
    <3>4. L[n] = <<n>> /\ OwnList(n, Picked(L)) = <<n>>
      <4> HIDE DEF L, kids
      <4> QED BY <1>11, <2>0, <2>1 DEF Made, OwnList, Framed
    <3>5. <<n>> = <<n>> \o <<>>
      BY <2>0
    <3> HIDE DEF L, ls
    <3>6. ListsAll(ks, Outer[n]) /\ L[n] = OwnList(n, Picked(L)) \o Pushed(ls)
      BY <3>1, <3>3, <3>4, <3>5
    <3> QED BY <3>6 DEF ls
  <2>2. CASE ~Framed(n)
    <3> DEFINE ls == [i \in 1 .. Len(kids[n]) |-> L[kids[n][i]]]
               below == Pushed(ls)
    <3>1. ListsAll(kids[n], Outer[n])
      <4> HIDE DEF kids
      <4> QED BY <1>3, <2>2, OuterIs
    <3>2. L[n] = Made(n, Deep(n) - 1, ls)
      BY <1>11
    <3>3. ls \in Seq(Seq(Nodes)) /\ Len(ls) = Len(kids[n])
      <4>1. \A i \in 1 .. Len(kids[n]) : kids[n][i] \in Nodes
        <5> HIDE DEF kids
        <5> QED BY <1>3
      <4>2. \A i \in 1 .. Len(kids[n]) : L[kids[n][i]] \in Seq(Nodes)
        <5> HIDE DEF L, kids
        <5> QED BY <1>11, <4>1
      <4>3. Len(kids[n]) \in Nat
        <5> HIDE DEF kids
        <5> QED BY <1>3
      <4> HIDE DEF L, kids
      <4> QED BY <4>2, <4>3
    <3>4. \A i \in 1 .. Len(kids[n]) : ls[i] = L[kids[n][i]]
      OBVIOUS
    <3> HIDE DEF ls, L, kids
    <3>5. below \in Seq(Nodes) /\ \A x : x \in Range(below) <=> \E i \in 1 .. Len(ls) : x \in Range(ls[i])
      BY <3>3, PushedIs
    <3>6. below = <<>> <=> \A m \in KidSet(n, Nodes) : Range(L[m]) = {}
      <4>1. /\ \A i \in 1 .. Len(kids[n]) : kids[n][i] \in KidSet(n, Nodes)
            /\ \A m \in KidSet(n, Nodes) : \E i \in 1 .. Len(kids[n]) : kids[n][i] = m
        BY <1>3 DEF ListsAll
      <4>2. Range(below) = {} <=> \A m \in KidSet(n, Nodes) : Range(L[m]) = {}
        <5>1. \A i \in 1 .. Len(ls) : i \in 1 .. Len(kids[n]) /\ ls[i] = L[kids[n][i]]
          BY <3>3, <3>4
        <5>2. ASSUME Range(below) = {}, NEW m \in KidSet(n, Nodes) PROVE Range(L[m]) = {}
          <6>1. PICK i \in 1 .. Len(kids[n]) : kids[n][i] = m
            BY <4>1
          <6>2. i \in 1 .. Len(ls) /\ ls[i] = L[m]
            BY <3>3, <3>4, <6>1
          <6> HIDE DEF below
          <6> QED BY <3>5, <5>2, <6>2
        <5>3. ASSUME \A m \in KidSet(n, Nodes) : Range(L[m]) = {} PROVE Range(below) = {}
          <6> HIDE DEF below
          <6> QED BY <3>5, <4>1, <5>1, <5>3
        <5> QED BY <5>2, <5>3
      <4>3. below = <<>> <=> Range(below) = {}
        <5> HIDE DEF below
        <5> QED BY <3>5, EmptyOnly
      <4> QED BY <4>2, <4>3
    <3>7. ~(Deep(n) - 1 > 0 /\ ScreenLike(n))
      BY <2>2 DEF Framed
    <3>8. L[n] = OwnList(n, Picked(L)) \o below
      <4>1. CASE Alone(L, n)
        <5>1. below = <<>> /\ OwnList(n, Picked(L)) = <<n>>
          BY <2>0, <3>6, <4>1 DEF Alone, OwnList
        <5>2. L[n] = <<n>>
          BY <3>2, <3>7, <4>1, <5>1 DEF Made, Alone
        <5> QED BY <2>0, <5>1, <5>2
      <4>2. CASE ~Alone(L, n)
        <5>1. OwnList(n, Picked(L)) = <<>>
          BY <2>0, <2>2, <4>2 DEF OwnList
        <5>2. ~(below = <<>> /\ Deep(n) - 1 = 1 /\ ScreenCandidate(n))
          BY <3>6, <4>2 DEF Alone
        <5>3. L[n] = below
          BY <3>2, <3>7, <5>2 DEF Made
        <5> HIDE DEF below
        <5> QED BY <3>5, <5>1, <5>3
      <4> QED BY <4>1, <4>2
    <3>9. ListsAll(kids[n], Outer[n]) /\ L[n] = OwnList(n, Picked(L)) \o Pushed(ls)
      BY <3>1, <3>8
    <3> QED BY <3>9 DEF ls
  <2> QED BY <2>1, <2>2
<1>13. Walks(L, Picked(L), Outer)
  <2>1. L \in [Nodes -> Seq(Nodes)]
    BY <1>11
  <2>2. Picked(L) \in SUBSET Nodes
    BY DEF Picked
  <2> HIDE DEF L
  <2> QED BY <1>12, <2>1, <2>2, OuterIs DEF Walks
<1>14. Candidates = L[Root]
  <2>1. Deep(Root) - 1 = 0 /\ Root \in Nodes
    BY <1>0, DeepIs, NodesAre
  <2> QED BY <1>1, <2>1
<1> HIDE DEF L
<1> QED BY <1>13, <1>14

\* The parsed tree: what the options let through, once, a parent first.
LEMMA ParseIs ==
  ASSUME DesignTypes
  PROVE  /\ Parse \in Seq(Nodes) /\ IsInjective(Parse)
         /\ \A x : x \in Range(Parse) <=> x \in Reached(Root)
         /\ LedBy(Parse, {Root})
<1>1. IsTree /\ maxDepth \in Nat /\ Root \in Nodes
  BY NodesAre DEF DesignTypes
<1>2. PICK L : Walks(L, Nodes, Parsed) /\ Parse = L[Root]
  BY ParseMade
<1>3. Walked(L, Nodes, Parsed, Root)
  BY <1>1, <1>2, WalkIs
<1>4. L \in [Nodes -> Seq(Nodes)]
  BY <1>2 DEF Walks
<1>5. \A x : x \in Range(Parse) <=> x \in Visit(Root, Parsed) /\ x \in Nodes
  BY <1>2, <1>3 DEF Walked
<1>6. \A x : x \in Visit(Root, Parsed) => x \in Nodes
  BY DEF Visit
<1>7. \A x : x \in Reached(Root) <=> x \in Visit(Root, Parsed)
  BY <1>1, ParsedReached
<1> QED BY <1>1, <1>2, <1>3, <1>4, <1>5, <1>6, <1>7 DEF Walked

\* A list without repetition is as long as it has members.
LEMMA CountOf ==
  ASSUME NEW X, NEW s \in Seq(X), IsInjective(s)
  PROVE  Cardinality(Range(s)) = Len(s)
<1> DEFINE N == Len(s)
           S == Range(s)
<1>1. N \in Nat /\ DOMAIN s = 1 .. N
  OBVIOUS
<1>2. s \in [1 .. N -> S]
  BY DEF Range
<1>3. \A y \in S : \E i \in 1 .. N : s[i] = y
  BY <1>1 DEF Range
<1> HIDE DEF N, S
<1>4. s \in Bijection(1 .. N, S)
  BY <1>2, <1>3 DEF Bijection, Injection, Surjection
<1>5. ExistsBijection(1 .. N, S)
  BY <1>4 DEF ExistsBijection
<1>6. Cardinality(S) = N
  BY <1>1, <1>5, FS_CountingElements
<1> QED BY <1>6 DEF N, S

\* The summary counts what the options let through, and nothing below a
\* hidden root.
LEMMA SummaryIs ==
  ASSUME DesignTypes
  PROVE  Len(Summarized) = IF Shown(Root) THEN Cardinality(Reached(Root)) ELSE 0
<1>1. IsTree /\ maxDepth \in Nat /\ Root \in Nodes
  BY NodesAre DEF DesignTypes
<1>2. PICK L : Walks(L, Let(Root), OnFrom(Root)) /\ Summarized = L[Root]
  BY SummaryMade
<1>3. Walked(L, Let(Root), OnFrom(Root), Root)
  BY <1>1, <1>2, WalkIs
<1>4. Summarized \in Seq(Nodes) /\ IsInjective(Summarized)
  BY <1>1, <1>2, <1>3 DEF Walks, Walked
<1>5. \A x : x \in Range(Summarized) <=> x \in Visit(Root, OnFrom(Root)) /\ x \in Let(Root)
  BY <1>2, <1>3 DEF Walked
<1>6. CASE Shown(Root)
  <2>1. \A x : x \in Reached(Root) <=> x \in Visit(Root, OnFrom(Root)) /\ x \in Let(Root)
    BY <1>1, <1>6, ReachedIs
  <2>2. Range(Summarized) = Reached(Root)
    BY <1>5, <2>1
  <2>3. Cardinality(Range(Summarized)) = Len(Summarized)
    BY <1>4, CountOf
  <2> QED BY <1>6, <2>2, <2>3
<1>7. CASE ~Shown(Root)
  <2>1. Root \notin Let(Root) /\ OnFrom(Root)[Root] = {}
    BY <1>1, <1>7, OnFromIs DEF Let
  <2>2. ASSUME NEW x \in Range(Summarized) PROVE FALSE
    <3>1. /\ x \in Nodes /\ Root \in Path(x) /\ x # Root
          /\ \A y \in Path(x) \ Path(Root) : y \in OnFrom(Root)[parent[y]]
      BY <1>5, <2>1, <2>2 DEF Visit
    <3>2. PICK y \in 2 .. TreeSize : parent[y] = Root /\ y \in Path(x)
      BY <1>1, <3>1, PathNext
    <3>3. y \notin Path(Root)
      BY <1>1, <3>2, PathIs DEF Root
    <3> DEFINE K == OnFrom(Root)
    <3>4. K[Root] = {} /\ \A z \in Path(x) \ Path(Root) : z \in K[parent[z]]
      BY <2>1, <3>1
    <3> HIDE DEF K
    <3>5. y \in K[parent[y]]
      BY <3>2, <3>3, <3>4
    <3> QED BY <3>2, <3>4, <3>5
  <2>3. Len(Summarized) = 0
    <3>1. DOMAIN Summarized = 1 .. Len(Summarized) /\ Len(Summarized) \in Nat
      BY <1>4
    <3>2. Len(Summarized) # 0 => 1 \in DOMAIN Summarized
      BY <3>1
    <3>3. 1 \in DOMAIN Summarized => Summarized[1] \in Range(Summarized)
      BY DEF Range
    <3> QED BY <2>2, <3>2, <3>3
  <2> QED BY <1>7, <2>3
<1> QED BY <1>6, <1>7

\* The candidates by the paths: no screen on the way to one; a section at the
\* top with no screen inside.
Fringe ==
  {n \in Nodes \ {Root} :
     /\ \A y \in Path(n) \ {n, Root} : ~ScreenLike(y)
     /\ \/ ScreenLike(n)
        \/ /\ parent[n] = Root /\ ScreenCandidate(n)
           /\ \A x \in Nodes : ScreenLike(x) => n \notin Path(x)}

\* The root is at depth one, its children at depth two.
LEMMA SecondLevel ==
  ASSUME IsTree, NEW n \in Nodes
  PROVE  /\ n = Root <=> Deep(n) = 1
         /\ n # Root => (parent[n] = Root <=> Deep(n) = 2)
<1>1. Deep(Root) = 1 /\ \A m \in Nodes : Deep(m) \in Nat /\ Deep(m) >= 1
  BY DeepIs
<1>2. ASSUME NEW m \in 2 .. TreeSize PROVE parent[m] \in Nodes /\ Deep(m) = Deep(parent[m]) + 1
  BY DeepIs DEF IsTree
<1>3. \A m \in Nodes : m # Root => m \in 2 .. TreeSize
  BY NodesAre
<1>4. \A m \in Nodes : m # Root => Deep(m) # 1
  <2> SUFFICES ASSUME NEW m \in Nodes, m # Root PROVE Deep(m) # 1
    OBVIOUS
  <2>1. Deep(m) = Deep(parent[m]) + 1 /\ Deep(parent[m]) \in Nat /\ Deep(parent[m]) >= 1
    BY <1>1, <1>2, <1>3
  <2> QED BY <2>1
<1>5. ASSUME n # Root PROVE parent[n] = Root <=> Deep(n) = 2
  <2>1. /\ parent[n] \in Nodes /\ Deep(n) = Deep(parent[n]) + 1 /\ Deep(parent[n]) \in Nat
    BY <1>1, <1>2, <1>3, <1>5
  <2>2. Deep(n) = 2 <=> Deep(parent[n]) = 1
    BY <2>1
  <2> QED BY <1>1, <1>4, <2>1, <2>2
<1> QED BY <1>1, <1>4, <1>5

\* The walk ends at a screen other than the root.
LEMMA FramedIs ==
  ASSUME IsTree, NEW n \in Nodes
  PROVE  Framed(n) <=> n # Root /\ ScreenLike(n)
<1>1. Deep(n) \in Nat /\ Deep(n) >= 1 /\ (n = Root <=> Deep(n) = 1)
  BY DeepIs, SecondLevel
<1>2. Deep(n) - 1 > 0 <=> n # Root
  BY <1>1
<1> QED BY <1>2 DEF Framed

\* What the walk meets: no screen on the way.
LEMMA OuterMet ==
  ASSUME IsTree, NEW top \in Nodes, NEW x \in Nodes, top \in Path(x)
  PROVE  x \in Visit(top, Outer) <=>
           \A z \in Path(x) : z # x /\ z # Root /\ top \in Path(z) => ~ScreenLike(z)
<1>1. \A n \in Nodes : /\ Framed(n) => Outer[n] = {}
                       /\ ~Framed(n) => Outer[n] = KidSet(n, Nodes)
  BY OuterIs
<1>2. ASSUME x \in Visit(top, Outer), NEW z \in Path(x), z # x, z # Root, top \in Path(z), ScreenLike(z)
      PROVE  FALSE
  <2>1. z \in Nodes
    BY PathGoes
  <2>2. PICK y \in 2 .. TreeSize : parent[y] = z /\ y \in Path(x)
    BY <1>2, <2>1, PathNext
  <2>3. y \notin Path(top)
    <3>1. y \in Nodes /\ z < y /\ z \in Nat /\ y \in Nat /\ top \in Nat
      BY <2>1, <2>2, NodesAre DEF IsTree
    <3>2. top <= z
      BY <1>2, <2>1, PathGoes
    <3>3. y \in Path(top) => y <= top
      BY PathGoes
    <3> QED BY <3>1, <3>2, <3>3
  <2>4. y \in Outer[z]
    BY <1>2, <2>2, <2>3 DEF Visit
  <2>5. Framed(z)
    BY <1>2, <2>1, FramedIs
  <2> QED BY <1>1, <2>1, <2>4, <2>5
<1>3. ASSUME \A z \in Path(x) : z # x /\ z # Root /\ top \in Path(z) => ~ScreenLike(z)
      PROVE  x \in Visit(top, Outer)
  <2>1. ASSUME NEW y \in Path(x) \ Path(top) PROVE y \in Outer[parent[y]]
    <3> DEFINE p == parent[y]
    <3>1. y \in Nodes /\ y # Root
      BY PathGoes
    <3>2. y \in 2 .. TreeSize /\ p \in Nodes /\ Path(y) = {y} \cup Path(p) /\ p < y
      BY <3>1, NodesAre, PathIs DEF IsTree
    <3>3. p \in Path(x) /\ p # x
      <4>1. p \in Path(y) /\ Path(y) \subseteq Path(x)
        BY <3>2, PathGoes
      <4>2. y <= x /\ y \in Nat /\ x \in Nat /\ p \in Nat
        BY <3>1, <3>2, PathGoes, NodesAre
      <4> QED BY <3>2, <4>1, <4>2
    <3>4. top \in Path(p)
      <4>1. top <= y \/ y <= top
        BY <3>1, NodesAre
      <4>2. y <= top => y \in Path(top)
        BY PathGoes
      <4>3. top \in Path(y)
        BY <4>1, <4>2, PathGoes
      <4>4. top # y
        BY PathGoes
      <4> QED BY <3>2, <4>3, <4>4
    <3>5. ~Framed(p)
      BY <1>3, <3>2, <3>3, <3>4, FramedIs
    <3>6. y \in KidSet(p, Nodes)
      BY <3>1 DEF KidSet
    <3> QED BY <1>1, <3>2, <3>5, <3>6
  <2> QED BY <2>1 DEF Visit
<1> QED BY <1>2, <1>3

\* The candidates, by the paths.
LEMMA FringeIs ==
  ASSUME DesignTypes, ~ScreenLike(Root)
  PROVE  Range(Candidates) = Fringe
<1>0. IsTree /\ Root \in Nodes /\ Path(Root) = {Root} /\ \A x \in Nodes : Root \in Path(x)
  BY NodesAre, PathIs, PathGoes DEF DesignTypes
<1>1. PICK L : Walks(L, Picked(L), Outer) /\ Candidates = L[Root]
  BY CandidatesMade
<1>2. \A n \in Nodes : Walked(L, Picked(L), Outer, n)
  BY <1>0, <1>1, WalkIs
<1>3. \A n \in Nodes : \A x : x \in Range(L[n]) <=> x \in Visit(n, Outer) /\ x \in Picked(L)
  BY <1>2 DEF Walked
<1>4. ASSUME NEW x \in Nodes
      PROVE  x \in Visit(Root, Outer) <=> \A z \in Path(x) \ {x, Root} : ~ScreenLike(z)
  <2>1. \A z \in Path(x) : Root \in Path(z)
    BY <1>0, PathGoes
  <2>2. x \in Visit(Root, Outer) <=>
          \A z \in Path(x) : z # x /\ z # Root /\ Root \in Path(z) => ~ScreenLike(z)
    BY <1>0, OuterMet
  <2> QED BY <2>1, <2>2
<1>5. ASSUME NEW x \in Nodes, ~ScreenLike(x), Deep(x) - 1 = 1
      PROVE  (\A m \in KidSet(x, Nodes) : Range(L[m]) = {})
               <=> \A y \in Nodes : ScreenLike(y) => x \notin Path(y)
  <2>1. ASSUME \A y \in Nodes : ScreenLike(y) => x \notin Path(y),
               NEW m \in KidSet(x, Nodes), NEW y \in Range(L[m])
        PROVE  FALSE
    <3>1. m \in 2 .. TreeSize /\ m \in Nodes /\ parent[m] = x
      BY NodesAre DEF KidSet
    <3>2. y \in Visit(m, Outer) /\ y \in Picked(L)
      BY <1>3, <3>1
    <3>3. y \in Nodes /\ m \in Path(y)
      BY <3>2 DEF Visit
    <3>4. x \in Path(y)
      BY <1>0, <3>1, <3>3, PathIs, PathGoes
    <3>5. ~Framed(y)
      BY <1>0, <2>1, <3>3, <3>4, FramedIs
    <3>6. Deep(y) - 1 = 1
      BY <3>2, <3>5 DEF Picked, Alone
    <3>7. Deep(m) = Deep(x) + 1 /\ Deep(m) <= Deep(y) /\ Deep(x) \in Nat /\ Deep(y) \in Nat /\ Deep(m) \in Nat
      BY <1>0, <3>1, <3>3, DeepIs, DeeperOn
    <3> QED BY <1>5, <3>6, <3>7
  <2>2. ASSUME \A m \in KidSet(x, Nodes) : Range(L[m]) = {},
               NEW w \in Nodes, ScreenLike(w), x \in Path(w)
        PROVE  FALSE
    <3> DEFINE S == {y \in Nodes : ScreenLike(y) /\ x \in Path(y)}
    <3>1. PICK y \in S : \A v \in S : y <= v
      <4>1. S \in SUBSET (1 .. TreeSize) /\ S # {} /\ TreeSize \in Nat
        BY <2>2, NodesAre DEF Nodes
      <4> HIDE DEF S
      <4> QED BY <4>1, FirstIndex
    <3>2. y \in Nodes /\ ScreenLike(y) /\ x \in Path(y) /\ x # y
      BY <1>5
    <3>3. PICK m \in 2 .. TreeSize : parent[m] = x /\ m \in Path(y)
      BY <1>0, <3>2, PathNext
    <3>4. m \in KidSet(x, Nodes) /\ m \in Nodes
      BY <3>3, NodesAre DEF KidSet
    <3>5. ASSUME NEW z \in Path(y), z # y, m \in Path(z), ScreenLike(z) PROVE FALSE
      <4>1. z \in Nodes /\ z <= y /\ z \in Nat /\ y \in Nat
        BY <1>0, <3>2, PathGoes, NodesAre
      <4>2. x \in Path(z)
        <5>1. x \in Path(m)
          BY <1>0, <1>5, <3>3, PathIs, PathGoes
        <5> QED BY <1>0, <3>5, <4>1, <5>1, PathGoes
      <4>3. z \in S
        BY <3>5, <4>1, <4>2
      <4>4. y <= z
        <5> HIDE DEF S
        <5> QED BY <3>1, <4>3
      <4> QED BY <3>5, <4>1, <4>4
    <3>6. y \in Visit(m, Outer)
      BY <1>0, <3>2, <3>3, <3>4, <3>5, OuterMet
    <3>7. y \in Picked(L)
      <4>1. y # Root
        <5>1. Deep(x) # 1 /\ Deep(Root) = 1
          BY <1>0, <1>5, DeepIs
        <5> QED BY <1>0, <3>2, <5>1
      <4> QED BY <1>0, <3>2, <4>1, FramedIs DEF Picked
    <3> QED BY <1>3, <2>2, <3>4, <3>6, <3>7
  <2> QED BY <2>1, <2>2
<1>6. ASSUME NEW x \in Nodes
      PROVE  x \in Visit(Root, Outer) /\ x \in Picked(L) <=> x \in Fringe
  <2>1. Framed(x) <=> x # Root /\ ScreenLike(x)
    BY <1>0, FramedIs
  <2>2. /\ Deep(x) \in Nat
        /\ Deep(x) - 1 = 1 <=> Deep(x) = 2
        /\ x = Root <=> Deep(x) = 1
        /\ x # Root => (parent[x] = Root <=> Deep(x) = 2)
    <3>1. Deep(x) \in Nat
      BY <1>0, DeepIs
    <3> QED BY <1>0, <3>1, SecondLevel
  <2>3. CASE ScreenLike(x)
    <3>1. x # Root
      BY <2>3
    <3>2. x \in Picked(L)
      BY <2>1, <2>3, <3>1 DEF Picked
    <3> QED BY <1>4, <2>3, <3>1, <3>2 DEF Fringe
  <2>4. CASE ~ScreenLike(x)
    <3>1. x \in Picked(L) <=> Alone(L, x)
      BY <2>1, <2>4 DEF Picked
    <3>2. Alone(L, x) <=> /\ x # Root /\ parent[x] = Root /\ ScreenCandidate(x)
                          /\ \A y \in Nodes : ScreenLike(y) => x \notin Path(y)
      BY <1>5, <2>2, <2>4 DEF Alone
    <3> QED BY <1>4, <2>4, <3>1, <3>2 DEF Fringe
  <2> QED BY <2>3, <2>4
<1>7. \A x : x \in Range(Candidates) <=> x \in Visit(Root, Outer) /\ x \in Picked(L)
  BY <1>0, <1>1, <1>3
<1>8. \A x : x \in Visit(Root, Outer) => x \in Nodes
  BY DEF Visit
<1>9. \A x \in Fringe : x \in Nodes
  BY DEF Fringe
<1> QED BY <1>6, <1>7, <1>8, <1>9

OutermostOnly == IF ScreenLike(Root) THEN {Root} ELSE Fringe

\* The overview starts from these.
LEMMA CandidatesAre ==
  ASSUME DesignTypes
  PROVE  OverviewCandidates = OutermostOnly
BY FringeIs DEF OverviewCandidates, OutermostOnly

\* No candidate lies inside another, and each screen lies in one.
LEMMA OutermostIs ==
  ASSUME DesignTypes
  PROVE  /\ OutermostOnly \in SUBSET Nodes
         /\ \A x, y \in OutermostOnly : x \in Path(y) => x = y
         /\ \A n \in Nodes : ScreenLike(n) => \E top \in OutermostOnly : top \in Path(n)
<1>0. IsTree /\ Root \in Nodes /\ \A x \in Nodes : Root \in Path(x)
  BY NodesAre, PathGoes DEF DesignTypes
<1>1. CASE ScreenLike(Root)
  BY <1>0, <1>1 DEF OutermostOnly
<1>2. CASE ~ScreenLike(Root)
  <2>1. OutermostOnly = Fringe
    BY <1>2 DEF OutermostOnly
  <2>2. Fringe \in SUBSET Nodes
    BY DEF Fringe
  <2>3. ASSUME NEW x \in Fringe, NEW y \in Fringe, x \in Path(y), x # y PROVE FALSE
    <3>1. x \in Nodes /\ x # Root /\ y \in Nodes /\ y # Root
      BY DEF Fringe
    <3>2. ~ScreenLike(x)
      BY <2>3, <3>1 DEF Fringe
    <3>3. \A v \in Nodes : ScreenLike(v) => x \notin Path(v)
      BY <3>2 DEF Fringe
    <3>4. ~ScreenLike(y)
      BY <2>3, <3>1, <3>3
    <3>5. parent[y] = Root
      BY <3>4 DEF Fringe
    <3>6. Path(y) = {y} \cup Path(Root) /\ Path(Root) = {Root}
      BY <1>0, <3>1, <3>5, PathIs, NodesAre
    <3> QED BY <2>3, <3>1, <3>6
  <2>4. ASSUME NEW n \in Nodes, ScreenLike(n) PROVE \E top \in Fringe : top \in Path(n)
    <3> DEFINE S == {y \in Path(n) : ScreenLike(y)}
    <3>1. PICK top \in S : \A v \in S : top <= v
      <4>1. \A y \in S : y \in Nodes
        BY <1>0, PathGoes
      <4>2. S \in SUBSET (1 .. TreeSize) /\ TreeSize \in Nat
        BY <4>1, NodesAre DEF Nodes
      <4>3. n \in S
        BY <1>0, <2>4, PathGoes
      <4> HIDE DEF S
      <4> QED BY <4>2, <4>3, FirstIndex
    <3>2. top \in Path(n) /\ ScreenLike(top) /\ top \in Nodes /\ top # Root
      BY <1>0, <1>2, PathGoes
    <3>3. ASSUME NEW y \in Path(top) \ {top, Root}, ScreenLike(y) PROVE FALSE
      <4>1. y \in Nodes /\ y <= top /\ y \in Nat /\ top \in Nat
        BY <1>0, <3>2, PathGoes, NodesAre
      <4>2. y \in Path(n)
        BY <1>0, <3>2, PathGoes
      <4>3. y \in S
        BY <3>3, <4>2
      <4>4. top <= y
        <5> HIDE DEF S
        <5> QED BY <3>1, <4>3
      <4> QED BY <4>1, <4>4
    <3>4. top \in Fringe
      BY <3>2, <3>3 DEF Fringe
    <3> QED BY <3>2, <3>4
  <2> QED BY <2>1, <2>2, <2>3, <2>4
<1> QED BY <1>1, <1>2

-----------------------------------------------------------------------------
(* The texts of a component *)

\* The text of a node, and the texts of some nodes.
Text(n) == IF nodeKind[n] \in Texts THEN <<nodeKind[n]>> ELSE <<>>
TextsOf(S) == {nodeKind[x] : x \in S} \cap Texts

\* The text of a node.
LEMMA TextIs ==
  ASSUME NEW n
  PROVE  Text(n) \in Seq(Texts) /\ Range(Text(n)) = TextsOf({n})
<1>1. CASE nodeKind[n] \in Texts
  <2> DEFINE t == nodeKind[n]
  <2>1. Text(n) = <<t>> /\ t \in Texts
    BY <1>1 DEF Text
  <2>2. TextsOf({n}) = {t}
    BY <1>1 DEF TextsOf
  <2> HIDE DEF t
  <2>3. <<t>> \in Seq(Texts) /\ Range(<<t>>) = {t}
    BY <2>1 DEF Range
  <2> QED BY <2>1, <2>2, <2>3
<1>2. CASE nodeKind[n] \notin Texts
  <2>1. Text(n) = <<>>
    BY <1>2 DEF Text
  <2>2. TextsOf({n}) = {}
    BY <1>2 DEF TextsOf
  <2>3. <<>> \in Seq(Texts) /\ Range(<<>>) = {}
    BY DEF Range
  <2> QED BY <2>1, <2>2, <2>3
<1> QED BY <1>1, <1>2

\* The lists that are made of those of the children, without a depth.
Beneath(f, kids, n) == [i \in 1 .. Len(kids[n]) |-> f[kids[n][i]]]

\* What collectTextValues returns, from what it returns for the children.
LEMMA TextsMade ==
  ASSUME IsTree, NEW P \in SUBSET Nodes, NEW kids, \A n \in Nodes : kids[n] = Kids(n, P)
  PROVE  \E f \in [Nodes -> Seq(Texts)] :
           /\ \A n \in Nodes : /\ f[n] = Text(n) \o Pushed(Beneath(f, kids, n))
                               /\ Beneath(f, kids, n) \in Seq(Seq(Texts))
           /\ \A n \in Nodes : TextValues(n, P) = f[n]
<1> DEFINE W == Seq(Texts)
           Made(n, ls) == IF nodeKind[n] \in Texts THEN <<nodeKind[n]>> \o Pushed(ls) ELSE Pushed(ls)
           Rec(f) == [n \in Nodes |->
              IF nodeKind[n] \in Texts
              THEN <<nodeKind[n]>> \o Pushed([i \in 1 .. Len(Kids(n, P)) |-> f[Kids(n, P)[i]]])
              ELSE Pushed([i \in 1 .. Len(Kids(n, P)) |-> f[Kids(n, P)[i]]])]
           F == [n \in Nodes |-> [f \in [Nodes -> W] |-> Made(n, Beneath(f, kids, n))]]
           rank == [n \in Nodes |-> n]
           worded == CHOOSE f : f = Rec(f)
<1>1. \A n \in Nodes : TextValues(n, P) = worded[n]
  BY DEF TextValues
<1>2. \A n \in Nodes : kids[n] \in Seq(Nodes) /\ KidsOf(n, kids)
  BY ListsIs
<1>3. \A n \in Nodes : Len(kids[n]) \in Nat /\ \A i \in 1 .. Len(kids[n]) :
         kids[n][i] \in 2 .. TreeSize /\ parent[kids[n][i]] = n /\ kids[n][i] \in Nodes /\ n < kids[n][i]
  <2> SUFFICES ASSUME NEW n \in Nodes
               PROVE  Len(kids[n]) \in Nat /\ \A i \in 1 .. Len(kids[n]) :
         kids[n][i] \in 2 .. TreeSize /\ parent[kids[n][i]] = n /\ kids[n][i] \in Nodes /\ n < kids[n][i]
    OBVIOUS
  <2>1. kids[n] \in Seq(Nodes) /\ \A i \in 1 .. Len(kids[n]) :
         kids[n][i] \in 2 .. TreeSize /\ parent[kids[n][i]] = n
    BY <1>2 DEF KidsOf
  <2>2. Len(kids[n]) \in Nat
    BY <2>1
  <2> QED BY <2>1, <2>2, NodesAre DEF IsTree
<1>4. \A n \in Nodes : \A ls \in Seq(Seq(Texts)) :
        Made(n, ls) = Text(n) \o Pushed(ls) /\ Made(n, ls) \in Seq(Texts)
  <2> SUFFICES ASSUME NEW n \in Nodes, NEW ls \in Seq(Seq(Texts))
               PROVE  Made(n, ls) = Text(n) \o Pushed(ls) /\ Made(n, ls) \in Seq(Texts)
    OBVIOUS
  <2> DEFINE below == Pushed(ls)
             own == Text(n)
  <2>1. below \in Seq(Texts)
    BY PushedIs
  <2>2. own \in Seq(Texts)
    BY TextIs
  <2>3. Made(n, ls) = own \o below
    <3>1. CASE nodeKind[n] \in Texts
      BY <3>1 DEF Text
    <3>2. CASE nodeKind[n] \notin Texts
      <4>1. own = <<>> /\ Made(n, ls) = below
        BY <3>2 DEF Text
      <4> HIDE DEF own, below, Made
      <4>2. <<>> \o below = below
        BY <2>1
      <4> QED BY <4>1, <4>2
    <3> QED BY <3>1, <3>2
  <2> HIDE DEF own, below, Made
  <2>4. own \o below \in Seq(Texts)
    BY <2>1, <2>2
  <2> QED BY <2>3, <2>4 DEF own, below
<1>5. \A n \in Nodes : \A f \in [Nodes -> Seq(Texts)] : Beneath(f, kids, n) \in Seq(Seq(Texts))
  <2> SUFFICES ASSUME NEW n \in Nodes, NEW f \in [Nodes -> Seq(Texts)]
               PROVE  Beneath(f, kids, n) \in Seq(Seq(Texts))
    OBVIOUS
  <2>1. \A i \in 1 .. Len(kids[n]) : f[kids[n][i]] \in Seq(Texts)
    BY <1>3
  <2> QED BY <1>3, <2>1 DEF Beneath
<1>6. \A f : \A n \in Nodes : Rec(f)[n] = Made(n, Beneath(f, kids, n))
  <2> SUFFICES ASSUME NEW f, NEW n \in Nodes PROVE Rec(f)[n] = Made(n, Beneath(f, kids, n))
    OBVIOUS
  <2> DEFINE ls == [i \in 1 .. Len(Kids(n, P)) |-> f[Kids(n, P)[i]]]
  <2>1. Beneath(f, kids, n) = ls
    BY DEF Beneath
  <2>2. Rec(f)[n] = Made(n, ls)
    OBVIOUS
  <2> HIDE DEF Rec, Made, ls
  <2> QED BY <2>1, <2>2
<1>7. F \in [Nodes -> [[Nodes -> W] -> W]]
  <2>1. \A n \in Nodes : \A f \in [Nodes -> Seq(Texts)] : Made(n, Beneath(f, kids, n)) \in Seq(Texts)
    <3> HIDE DEF Made
    <3> QED BY <1>4, <1>5
  <2>2. \A n \in Nodes : \A f \in [Nodes -> W] : Made(n, Beneath(f, kids, n)) \in W
    BY <2>1
  <2> HIDE DEF Made, W
  <2> QED BY <2>2
<1>8. \A n \in Nodes : \A f \in [Nodes -> W] : F[n][f] = Made(n, Beneath(f, kids, n))
  <2> HIDE DEF Made, W
  <2> QED OBVIOUS
<1>9. rank \in [Nodes -> 0 .. TreeSize] /\ W # {} /\ TreeSize \in Nat
  <2>1. rank \in [Nodes -> 0 .. TreeSize] /\ TreeSize \in Nat
    BY NodesAre DEF Nodes
  <2>2. <<>> \in W
    OBVIOUS
  <2> QED BY <2>1, <2>2
<1>10. ASSUME NEW n \in Nodes, NEW g \in [Nodes -> W], NEW h \in [Nodes -> W],
              \A m \in Nodes : rank[n] < rank[m] => g[m] = h[m]
       PROVE  F[n][g] = F[n][h]
  <2>1. \A i \in 1 .. Len(kids[n]) : g[kids[n][i]] = h[kids[n][i]]
    BY <1>3, <1>10
  <2>2. Beneath(g, kids, n) = Beneath(h, kids, n)
    BY <2>1 DEF Beneath
  <2> HIDE DEF F, Made, W
  <2> QED BY <1>8, <2>2
<1>11. PICK f \in [Nodes -> W] : \A n \in Nodes : f[n] = F[n][f]
  <2> HIDE DEF W, rank, F
  <2>1. Ranked(Nodes, rank, TreeSize, W, F)
    BY <1>7, <1>9, <1>10 DEF Ranked
  <2> QED BY <2>1, Recursion
<1>12. Rec(f) = f
  <2> DEFINE g == Rec(f)
  <2>1. \A n \in Nodes : g[n] = f[n]
    <3> HIDE DEF Rec, F, Made, W
    <3> QED BY <1>6, <1>8, <1>11
  <2>2. g = [n \in Nodes |-> g[n]] /\ f = [n \in Nodes |-> f[n]]
    OBVIOUS
  <2> HIDE DEF g
  <2>3. g = f
    BY <2>1, <2>2
  <2> QED BY <2>3 DEF g
<1>13. worded = Rec(worded)
  <2> HIDE DEF Rec
  <2> QED BY <1>12
<1> HIDE DEF worded
<1>14. \A n \in Nodes : worded[n] = Made(n, Beneath(worded, kids, n))
  <2> HIDE DEF Rec, Made
  <2> QED BY <1>6, <1>13
<1>15. \A n \in Nodes : worded[n] = f[n]
  <2> DEFINE S == {n \in Nodes : worded[n] = f[n]}
  <2>1. ASSUME NEW n \in Nodes, \A m \in 2 .. TreeSize : parent[m] = n => m \in S PROVE n \in S
    <3>1. \A i \in 1 .. Len(kids[n]) : worded[kids[n][i]] = f[kids[n][i]]
      BY <1>3, <2>1
    <3>2. Beneath(worded, kids, n) = Beneath(f, kids, n)
      BY <3>1 DEF Beneath
    <3> HIDE DEF F, Made, W
    <3> QED BY <1>8, <1>11, <1>14, <3>2
  <2>2. \A n \in Nodes : n \in S
    <3> HIDE DEF S
    <3> QED BY <2>1, Descend
  <2> QED BY <2>2
<1>16. \A n \in Nodes : /\ f[n] = Text(n) \o Pushed(Beneath(f, kids, n))
                        /\ Beneath(f, kids, n) \in Seq(Seq(Texts))
  <2> SUFFICES ASSUME NEW n \in Nodes
               PROVE  /\ f[n] = Text(n) \o Pushed(Beneath(f, kids, n))
                      /\ Beneath(f, kids, n) \in Seq(Seq(Texts))
    OBVIOUS
  <2>1. Beneath(f, kids, n) \in Seq(Seq(Texts))
    BY <1>5, <1>11
  <2> HIDE DEF F, Made
  <2>2. f[n] = Made(n, Beneath(f, kids, n))
    BY <1>8, <1>11
  <2> QED BY <1>4, <2>1, <2>2
<1> HIDE DEF F, Made, Rec, rank
<1> QED BY <1>1, <1>11, <1>15, <1>16

\* The parsed nodes below a node.
Within(P) == [n \in Nodes |-> KidSet(n, P)]

\* What the walk of the parsed tree goes on to.
LEMMA WithinIs ==
  ASSUME NEW P \in SUBSET Nodes
  PROVE  Children(Within(P)) /\ \A n \in Nodes : Within(P)[n] = KidSet(n, P)
BY DEF Children, Within, KidSet

\* The texts of a component are those of the nodes a walk meets.
LEMMA TextsMet ==
  ASSUME IsTree, NEW P \in SUBSET Nodes, NEW n \in Nodes
  PROVE  Range(TextValues(n, P)) = TextsOf(Visit(n, Within(P)))
<1> DEFINE K == Within(P)
           kids == [m \in Nodes |-> Kids(m, P)]
<1>1. \A m \in Nodes : kids[m] = Kids(m, P)
  OBVIOUS
<1> HIDE DEF kids
<1>2. PICK f \in [Nodes -> Seq(Texts)] :
        /\ \A m \in Nodes : /\ f[m] = Text(m) \o Pushed(Beneath(f, kids, m))
                            /\ Beneath(f, kids, m) \in Seq(Seq(Texts))
        /\ \A m \in Nodes : TextValues(m, P) = f[m]
  BY <1>1, TextsMade
<1>3. Children(K) /\ \A m \in Nodes : K[m] = KidSet(m, P)
  BY WithinIs
<1> HIDE DEF K
<1> DEFINE S == {m \in Nodes : Range(f[m]) = TextsOf(Visit(m, K))}
<1>4. ASSUME NEW m \in Nodes, \A k \in 2 .. TreeSize : parent[k] = m => k \in S PROVE m \in S
  <2>1. kids[m] \in Seq(Nodes) /\ ListsAll(kids[m], K[m])
    BY <1>1, <1>3, ListsIs
  <2>2. Len(kids[m]) \in Nat /\ \A k \in K[m] : k \in 2 .. TreeSize /\ parent[k] = m /\ k \in Nodes
    BY <1>3, <2>1, NodesAre DEF KidSet
  <2>3. /\ \A i \in 1 .. Len(kids[m]) : kids[m][i] \in K[m]
        /\ \A k \in K[m] : \E i \in 1 .. Len(kids[m]) : kids[m][i] = k
    <3> DEFINE ks == kids[m]
               T == K[m]
    <3>1. ListsAll(ks, T) /\ Len(ks) \in Nat
      BY <2>1, <2>2
    <3> HIDE DEF ks, T
    <3>2. /\ \A i \in 1 .. Len(ks) : ks[i] \in T
          /\ \A k \in T : \E i \in 1 .. Len(ks) : ks[i] = k
      BY <3>1 DEF ListsAll
    <3> QED BY <3>2 DEF ks, T
  <2> DEFINE ls == Beneath(f, kids, m)
             below == Pushed(ls)
             own == Text(m)
  <2>4. Len(ls) = Len(kids[m]) /\ \A i \in 1 .. Len(kids[m]) : ls[i] = f[kids[m][i]]
    BY <2>2 DEF Beneath
  <2>5. ls \in Seq(Seq(Texts)) /\ f[m] = own \o below
    BY <1>2
  <2>6. own \in Seq(Texts) /\ Range(own) = TextsOf({m})
    BY TextIs
  <2> HIDE DEF ls, own
  <2>7. below \in Seq(Texts) /\ \A x : x \in Range(below) <=> \E i \in 1 .. Len(ls) : x \in Range(ls[i])
    BY <2>5, PushedIs
  <2> HIDE DEF below
  <2>8. \A k \in K[m] : Range(f[k]) = TextsOf(Visit(k, K))
    BY <1>4, <2>2
  <2>9. \A x : x \in Range(below) <=> \E k \in K[m] : x \in TextsOf(Visit(k, K))
    <3> HIDE DEF S
    <3>1. \A i \in 1 .. Len(kids[m]) : Range(ls[i]) = TextsOf(Visit(kids[m][i], K))
      BY <2>3, <2>4, <2>8
    <3>2. \A x : x \in Range(below) <=> \E i \in 1 .. Len(kids[m]) : x \in TextsOf(Visit(kids[m][i], K))
      BY <2>4, <2>7, <3>1
    <3> QED BY <2>3, <3>2
  <2>10. Range(f[m]) = Range(own) \cup Range(below)
    BY <2>5, <2>6, <2>7, JoinedRange
  <2>11. \A x : x \in Visit(m, K) <=> x = m \/ \E k \in K[m] : x \in Visit(k, K)
    BY <1>3, VisitIs
  <2>12. \A x : x \in TextsOf(Visit(m, K)) <=>
            x \in TextsOf({m}) \/ \E k \in K[m] : x \in TextsOf(Visit(k, K))
    <3>1. \A A : \A x : x \in TextsOf(A) <=> x \in Texts /\ \E y \in A : x = nodeKind[y]
      BY DEF TextsOf
    <3> QED BY <2>11, <3>1
  <2> HIDE DEF S
  <2>13. Range(f[m]) = TextsOf(Visit(m, K))
    BY <2>6, <2>9, <2>10, <2>12
  <2> QED BY <2>13 DEF S
<1>5. \A m \in Nodes : m \in S
  <2> HIDE DEF S
  <2> QED BY <1>4, Descend
<1> QED BY <1>2, <1>5 DEF K

\* They are the texts of the parsed nodes inside it.
LEMMA TextValuesIs ==
  ASSUME IsTree, NEW P \in SUBSET Nodes, \A x \in P : Path(x) \subseteq P, NEW top \in P
  PROVE  Range(TextValues(top, P)) = TextsOf({m \in P : top \in Path(m)})
<1> DEFINE K == Within(P)
<1>1. \A n \in Nodes : K[n] = KidSet(n, P)
  BY WithinIs
<1> HIDE DEF K
<1>2. ASSUME NEW x \in Nodes, top \in Path(x) PROVE x \in Visit(top, K) <=> x \in P
  <2>1. ASSUME NEW y \in Path(x) \ Path(top) PROVE y \in K[parent[y]] <=> y \in P
    <3>1. y \in Nodes /\ y # Root
      BY PathGoes
    <3>2. parent[y] \in Nodes
      BY <3>1, NodesAre DEF IsTree
    <3> QED BY <1>1, <3>1, <3>2 DEF KidSet
  <2>2. x \in Visit(top, K) <=> \A y \in Path(x) \ Path(top) : y \in P
    BY <1>2, <2>1 DEF Visit
  <2>3. x \in Path(top) => x = top
    <3>1. x \in Path(top) => x <= top
      BY PathGoes
    <3>2. top <= x /\ x \in Nat /\ top \in Nat
      BY <1>2, PathGoes, NodesAre
    <3> QED BY <3>1, <3>2
  <2>4. x \in Path(x)
    BY PathGoes
  <2> QED BY <2>2, <2>3, <2>4
<1>3. Visit(top, K) = {m \in P : top \in Path(m)}
  <2>1. \A x \in Visit(top, K) : x \in Nodes /\ top \in Path(x)
    BY DEF Visit
  <2> QED BY <1>2, <2>1
<1>4. Range(TextValues(top, P)) = TextsOf(Visit(top, K))
  BY TextsMet DEF K
<1> QED BY <1>3, <1>4

-----------------------------------------------------------------------------
(* The key texts of a screen *)

\* collectRawText at a node: its own text, and then what its children add.
OwnText(n, results) ==
  IF nodeKind[n] \in Texts \ Range(results) THEN Append(results, nodeKind[n]) ELSE results
Gather(g, ks, depth, first) ==
  LET found[i \in 0 .. Len(ks)] ==
        IF i = 0 THEN first
        ELSE IF Len(found[i - 1]) >= MaxText THEN found[i - 1]
             ELSE g[ks[i]][depth + 1][found[i - 1]]
  IN found[Len(ks)]

Gathers(g, ks, depth) ==
  /\ Len(ks) \in Nat
  /\ \A i \in 1 .. Len(ks) : g[ks[i]][depth + 1] \in [Seq(Texts) -> Seq(Texts)]
Steps(g, ks, depth, first, f) ==
  /\ f \in [0 .. Len(ks) -> Seq(Texts)] /\ f[0] = first
  /\ \A i \in 1 .. Len(ks) :
       f[i] = IF Len(f[i - 1]) >= MaxText THEN f[i - 1] ELSE g[ks[i]][depth + 1][f[i - 1]]

\* The text of the node is added to texts.
LEMMA OwnTextIn ==
  ASSUME NEW n, NEW r \in Seq(Texts)
  PROVE  OwnText(n, r) \in Seq(Texts)
<1>1. CASE nodeKind[n] \in Texts \ Range(r)
  <2> DEFINE t == nodeKind[n]
  <2>1. t \in Texts /\ OwnText(n, r) = Append(r, t)
    BY <1>1 DEF OwnText
  <2> HIDE DEF t
  <2> QED BY <2>1
<1>2. CASE nodeKind[n] \notin Texts \ Range(r)
  BY <1>2 DEF OwnText
<1> QED BY <1>1, <1>2

\* A node takes what its children add, child after child.
LEMMA GatherSteps ==
  ASSUME NEW g, NEW ks, NEW depth, NEW first \in Seq(Texts), Gathers(g, ks, depth)
  PROVE  \E f : Steps(g, ks, depth, first, f) /\ Gather(g, ks, depth, first) = f[Len(ks)]
<1> DEFINE N == Len(ks)
           V == Seq(Texts)
           On(i, v) == IF Len(v) >= MaxText THEN v ELSE g[ks[i]][depth + 1][v]
           Rec(f) == [i \in 0 .. N |->
             IF i = 0 THEN first
             ELSE IF Len(f[i - 1]) >= MaxText THEN f[i - 1] ELSE g[ks[i]][depth + 1][f[i - 1]]]
           onward == [i \in 1 .. N |-> [v \in V |-> On(i, v)]]
           made == CHOOSE f : f = Rec(f)
<1>1. N \in Nat /\ first \in V /\ \A i \in 1 .. N : g[ks[i]][depth + 1] \in [V -> V]
  BY DEF Gathers
<1>2. \A i \in 1 .. N : \A v \in V : On(i, v) \in V
  <2> HIDE DEF N, V
  <2> QED BY <1>1
<1>3. onward \in [1 .. N -> [V -> V]]
  <2> HIDE DEF N, V, On
  <2> QED BY <1>2
<1>4. \A i \in 1 .. N : \A v \in V : onward[i][v] = On(i, v)
  <2> HIDE DEF N, V, On
  <2> QED OBVIOUS
<1>5. \E f \in [0 .. N -> V] : f[0] = first /\ \A i \in 1 .. N : f[i] = onward[i][f[i - 1]]
  <2> HIDE DEF N, V, onward
  <2>1. Stepwise(N, V, first, onward)
    BY <1>1, <1>3 DEF Stepwise
  <2> QED BY <2>1, Stepping
<1>6. PICK f \in [0 .. N -> V] : f[0] = first /\ \A i \in 1 .. N : f[i] = onward[i][f[i - 1]]
  <2> HIDE DEF N, V, onward
  <2> QED BY <1>5
<1>7. \A i \in 1 .. N : i \in 0 .. N /\ i - 1 \in 0 .. N /\ i # 0
  <2> HIDE DEF N
  <2> QED BY <1>1
<1>8. \A i \in 1 .. N : f[i] = On(i, f[i - 1])
  <2> HIDE DEF N, V, onward, On
  <2> QED BY <1>4, <1>6, <1>7
<1>9. f = Rec(f)
  <2>1. \A i \in 0 .. N : i # 0 => i \in 1 .. N
    <3> HIDE DEF N
    <3> QED BY <1>1
  <2>2. \A i \in 0 .. N : f[i] = IF i = 0 THEN first ELSE On(i, f[i - 1])
    <3> HIDE DEF N, V, onward, On
    <3> QED BY <1>6, <1>8, <2>1
  <2> DEFINE h == Rec(f)
  <2>3. \A i \in 0 .. N : h[i] = f[i]
    <3> HIDE DEF N
    <3> QED BY <2>2
  <2>4. h = [i \in 0 .. N |-> h[i]] /\ f = [i \in 0 .. N |-> f[i]]
    <3> HIDE DEF N
    <3> QED OBVIOUS
  <2>5. h = f
    <3> HIDE DEF N, h
    <3> QED BY <2>3, <2>4
  <2> QED BY <2>5
<1>10. made = Rec(made)
  <2> HIDE DEF Rec
  <2> QED BY <1>9
<1>11. \A i \in 0 .. N : made[i] = IF i = 0 THEN first ELSE On(i, made[i - 1])
  <2> HIDE DEF N, made
  <2> QED BY <1>10
<1>12. Gather(g, ks, depth, first) = made[N]
  BY DEF Gather
<1> HIDE DEF made
<1>13. \A i \in 0 .. N : made[i] = f[i]
  <2> DEFINE S == {i \in 0 .. N : made[i] = f[i]}
  <2> HIDE DEF N, On, onward
  <2>1. 0 \in S
    BY <1>1, <1>6, <1>11
  <2>2. ASSUME NEW i \in 1 .. N, i - 1 \in S PROVE i \in S
    BY <1>7, <1>8, <1>11, <2>2
  <2>3. \A i \in 0 .. N : i \in S
    <3> HIDE DEF S
    <3> QED BY <1>1, <2>1, <2>2, Upward
  <2> QED BY <2>3
<1>14. N \in 0 .. N
  <2> HIDE DEF N
  <2> QED BY <1>1
<1>15. Gather(g, ks, depth, first) = f[N]
  <2> HIDE DEF N
  <2> QED BY <1>12, <1>13, <1>14
<1>16. Steps(g, ks, depth, first, f)
  BY <1>6, <1>8 DEF Steps
<1> QED BY <1>15, <1>16

\* It depends on what the children add only.
LEMMA GatherSame ==
  ASSUME NEW g, NEW h, NEW ks, NEW depth, NEW first \in Seq(Texts),
         Gathers(g, ks, depth), Gathers(h, ks, depth),
         \A i \in 1 .. Len(ks) : g[ks[i]] = h[ks[i]]
  PROVE  Gather(g, ks, depth, first) = Gather(h, ks, depth, first)
<1> DEFINE N == Len(ks)
<1>1. PICK a : Steps(g, ks, depth, first, a) /\ Gather(g, ks, depth, first) = a[N]
  BY GatherSteps
<1>2. PICK b : Steps(h, ks, depth, first, b) /\ Gather(h, ks, depth, first) = b[N]
  BY GatherSteps
<1>3. N \in Nat /\ a[0] = first /\ b[0] = first
  BY <1>1, <1>2 DEF Steps, Gathers
<1>4. \A i \in 1 .. N :
        /\ a[i] = IF Len(a[i - 1]) >= MaxText THEN a[i - 1] ELSE g[ks[i]][depth + 1][a[i - 1]]
        /\ b[i] = IF Len(b[i - 1]) >= MaxText THEN b[i - 1] ELSE h[ks[i]][depth + 1][b[i - 1]]
        /\ g[ks[i]] = h[ks[i]]
  BY <1>1, <1>2 DEF Steps
<1> HIDE DEF N
<1> DEFINE S == {i \in 0 .. N : a[i] = b[i]}
<1>5. 0 \in S
  BY <1>3
<1>6. ASSUME NEW i \in 1 .. N, i - 1 \in S PROVE i \in S
  <2>1. i \in 0 .. N
    BY <1>3
  <2> QED BY <1>4, <1>6, <2>1
<1>7. \A i \in 0 .. N : i \in S
  <2> HIDE DEF S
  <2> QED BY <1>3, <1>5, <1>6, Upward
<1>8. N \in 0 .. N
  BY <1>3
<1> QED BY <1>1, <1>2, <1>7, <1>8

\* What collectRawText returns for a node.
Collect(g, n, depth, results) ==
  IF Len(results) >= MaxText \/ ~Shown(n) \/ depth > maxDepth THEN results
  ELSE Gather(g, Kids(n, Nodes), depth, OwnText(n, results))

\* What collectRawText returns, from what it returns for the children.
LEMMA RawMade ==
  ASSUME IsTree
  PROVE  \E collect \in [Nodes -> [Nat -> [Seq(Texts) -> Seq(Texts)]]] :
           /\ \A n \in Nodes : \A d \in Nat : \A r \in Seq(Texts) :
                collect[n][d][r] = Collect(collect, n, d, r)
           /\ \A n \in Nodes : RawText(n) = collect[n][0][<<>>]
<1> DEFINE W == Seq(Texts)
           V == [Nat -> [W -> W]]
           Rec(g) == [n \in Nodes |-> [depth \in Nat |-> [results \in Seq(Texts) |->
              Collect(g, n, depth, results)]]]
           F == [n \in Nodes |-> [g \in [Nodes -> V] |-> [d \in Nat |-> [r \in W |-> Collect(g, n, d, r)]]]]
           rank == [n \in Nodes |-> n]
           collect == CHOOSE f : f = Rec(f)
<1>1. \A n \in Nodes : RawText(n) = collect[n][0][<<>>]
  BY DEF RawText, Collect, Gather, OwnText
<1>2. ASSUME NEW n \in Nodes
      PROVE  /\ Len(Kids(n, Nodes)) \in Nat
             /\ \A i \in 1 .. Len(Kids(n, Nodes)) :
                  /\ Kids(n, Nodes)[i] \in 2 .. TreeSize /\ parent[Kids(n, Nodes)[i]] = n
                  /\ Kids(n, Nodes)[i] \in Nodes /\ n < Kids(n, Nodes)[i]
  <2> DEFINE ks == Kids(n, Nodes)
             T == KidSet(n, Nodes)
  <2>1. ListsAll(ks, T)
    BY KidsAre
  <2>2. \A m \in T : m \in 2 .. TreeSize /\ m \in Nodes /\ parent[m] = n /\ n < m
    BY NodesAre DEF KidSet, IsTree
  <2> HIDE DEF ks, T
  <2>3. ks \in Seq(T)
    BY <2>1 DEF ListsAll
  <2>4. Len(ks) \in Nat /\ \A i \in 1 .. Len(ks) : ks[i] \in T
    BY <2>3
  <2>5. Len(ks) \in Nat /\ \A i \in 1 .. Len(ks) :
           ks[i] \in 2 .. TreeSize /\ parent[ks[i]] = n /\ ks[i] \in Nodes /\ n < ks[i]
    BY <2>2, <2>4
  <2> QED BY <2>5 DEF ks
<1>3. ASSUME NEW n \in Nodes, NEW g, NEW d \in Nat,
             \A i \in 1 .. Len(Kids(n, Nodes)) : g[Kids(n, Nodes)[i]] \in V
      PROVE  Gathers(g, Kids(n, Nodes), d)
  <2> DEFINE ks == Kids(n, Nodes)
  <2>1. Len(ks) \in Nat
    BY <1>2
  <2>2. d + 1 \in Nat
    OBVIOUS
  <2>3. \A i \in 1 .. Len(ks) : g[ks[i]][d + 1] \in [W -> W]
    <3> HIDE DEF W, ks
    <3> QED BY <1>3, <2>2 DEF ks
  <2> HIDE DEF ks
  <2>4. Gathers(g, ks, d)
    BY <2>1, <2>3 DEF Gathers
  <2> QED BY <2>4 DEF ks
<1>4. ASSUME NEW n \in Nodes, NEW g, NEW d \in Nat, NEW r \in W,
             \A i \in 1 .. Len(Kids(n, Nodes)) : g[Kids(n, Nodes)[i]] \in V
      PROVE  Collect(g, n, d, r) \in W
  <2> DEFINE ks == Kids(n, Nodes)
             first == OwnText(n, r)
  <2>1. Gathers(g, ks, d)
    <3> HIDE DEF V
    <3> QED BY <1>3, <1>4
  <2>2. first \in W
    BY OwnTextIn
  <2>3. Len(ks) \in Nat
    BY <1>2
  <2> HIDE DEF ks, first
  <2>4. PICK f : Steps(g, ks, d, first, f) /\ Gather(g, ks, d, first) = f[Len(ks)]
    BY <2>1, <2>2, GatherSteps
  <2>5. f[Len(ks)] \in W
    <3>1. f \in [0 .. Len(ks) -> W] /\ Len(ks) \in 0 .. Len(ks)
      BY <2>3, <2>4 DEF Steps
    <3> HIDE DEF W
    <3> QED BY <3>1
  <2>6. Gather(g, ks, d, first) \in W
    BY <2>4, <2>5
  <2> HIDE DEF W
  <2> QED BY <2>6 DEF Collect, ks, first
<1>5. \A n \in Nodes : \A g \in [Nodes -> V] : \A d \in Nat : \A r \in W : Collect(g, n, d, r) \in W
  <2> SUFFICES ASSUME NEW n \in Nodes, NEW g \in [Nodes -> V], NEW d \in Nat, NEW r \in W
               PROVE  Collect(g, n, d, r) \in W
    OBVIOUS
  <2>1. \A i \in 1 .. Len(Kids(n, Nodes)) : g[Kids(n, Nodes)[i]] \in V
    <3> HIDE DEF V
    <3> QED BY <1>2
  <2> HIDE DEF V, W
  <2> QED BY <1>4, <2>1
<1>6. F \in [Nodes -> [[Nodes -> V] -> V]]
  <2>1. \A n \in Nodes : \A g \in [Nodes -> V] : [d \in Nat |-> [r \in W |-> Collect(g, n, d, r)]] \in V
    <3> DEFINE T == [Nodes -> V]
    <3>1. \A n \in Nodes : \A g \in T : \A d \in Nat : \A r \in W : Collect(g, n, d, r) \in W
      BY <1>5
    <3> HIDE DEF T, W
    <3>2. \A n \in Nodes : \A g \in T : [d \in Nat |-> [r \in W |-> Collect(g, n, d, r)]] \in V
      BY <3>1
    <3> QED BY <3>2 DEF T
  <2> HIDE DEF V, W
  <2> QED BY <2>1
<1>7. \A n \in Nodes : \A g \in [Nodes -> V] : F[n][g] = [d \in Nat |-> [r \in W |-> Collect(g, n, d, r)]]
  <2> HIDE DEF V, W
  <2> QED OBVIOUS
<1>8. rank \in [Nodes -> 0 .. TreeSize] /\ V # {} /\ TreeSize \in Nat
  <2>1. rank \in [Nodes -> 0 .. TreeSize] /\ TreeSize \in Nat
    BY NodesAre DEF Nodes
  <2>2. [d \in Nat |-> [r \in W |-> r]] \in V
    <3> HIDE DEF W
    <3> QED OBVIOUS
  <2> HIDE DEF V
  <2> QED BY <2>1, <2>2
<1> DEFINE Agree(n, g, h) ==
             /\ \A i \in 1 .. Len(Kids(n, Nodes)) : g[Kids(n, Nodes)[i]] \in V
             /\ \A i \in 1 .. Len(Kids(n, Nodes)) : g[Kids(n, Nodes)[i]] = h[Kids(n, Nodes)[i]]
           Alike(n, g, h) == \A d \in Nat : \A r \in W : Collect(g, n, d, r) = Collect(h, n, d, r)
<1>9. ASSUME NEW n \in Nodes, NEW g, NEW h, Agree(n, g, h) PROVE Alike(n, g, h)
  <2> SUFFICES ASSUME NEW d \in Nat, NEW r \in W PROVE Collect(g, n, d, r) = Collect(h, n, d, r)
    OBVIOUS
  <2> DEFINE ks == Kids(n, Nodes)
             first == OwnText(n, r)
  <2> HIDE DEF V
  <2>1. Gathers(g, ks, d)
    BY <1>3, <1>9
  <2>2. Gathers(h, ks, d)
    <3>1. \A i \in 1 .. Len(Kids(n, Nodes)) : h[Kids(n, Nodes)[i]] \in V
      BY <1>9
    <3> QED BY <1>3, <3>1
  <2>3. first \in W
    BY OwnTextIn
  <2>4. \A i \in 1 .. Len(ks) : g[ks[i]] = h[ks[i]]
    BY <1>9
  <2> HIDE DEF ks, first
  <2>5. Gather(g, ks, d, first) = Gather(h, ks, d, first)
    BY <2>1, <2>2, <2>3, <2>4, GatherSame
  <2> HIDE DEF W
  <2> QED BY <2>5 DEF Collect, ks, first
<1>10. ASSUME NEW n \in Nodes, NEW g \in [Nodes -> V], NEW h \in [Nodes -> V],
              \A m \in Nodes : rank[n] < rank[m] => g[m] = h[m]
       PROVE  F[n][g] = F[n][h]
  <2>1. \A i \in 1 .. Len(Kids(n, Nodes)) : g[Kids(n, Nodes)[i]] = h[Kids(n, Nodes)[i]]
    <3> HIDE DEF V
    <3> QED BY <1>2, <1>10
  <2>2. \A i \in 1 .. Len(Kids(n, Nodes)) : g[Kids(n, Nodes)[i]] \in V
    <3> HIDE DEF V
    <3> QED BY <1>2
  <2>3. \A d \in Nat : \A r \in W : Collect(g, n, d, r) = Collect(h, n, d, r)
    <3>1. Agree(n, g, h)
      BY <2>1, <2>2
    <3> HIDE DEF Agree, Alike
    <3>2. Alike(n, g, h)
      BY <1>9, <3>1
    <3> QED BY <3>2 DEF Alike
  <2>4. [d \in Nat |-> [r \in W |-> Collect(g, n, d, r)]] = [d \in Nat |-> [r \in W |-> Collect(h, n, d, r)]]
    <3> HIDE DEF V, W
    <3>1. \A d \in Nat : [r \in W |-> Collect(g, n, d, r)] = [r \in W |-> Collect(h, n, d, r)]
      BY <2>3
    <3> QED BY <3>1
  <2> HIDE DEF F, W, V
  <2>5. F[n][g] = [d \in Nat |-> [r \in W |-> Collect(g, n, d, r)]]
    BY <1>7
  <2>6. F[n][h] = [d \in Nat |-> [r \in W |-> Collect(h, n, d, r)]]
    BY <1>7
  <2> QED BY <2>4, <2>5, <2>6
<1>11. PICK f \in [Nodes -> V] : \A n \in Nodes : f[n] = F[n][f]
  <2> HIDE DEF V, rank, F
  <2>1. Ranked(Nodes, rank, TreeSize, V, F)
    BY <1>6, <1>8, <1>10 DEF Ranked
  <2> QED BY <2>1, Recursion
<1>12. \A n \in Nodes : f[n] = [d \in Nat |-> [r \in W |-> Collect(f, n, d, r)]]
  <2> HIDE DEF V, W, F
  <2> QED BY <1>7, <1>11
<1>13. Rec(f) = f
  <2> DEFINE g == Rec(f)
  <2>1. \A n \in Nodes : g[n] = f[n]
    <3> HIDE DEF V, F
    <3> QED BY <1>12
  <2>2. g = [n \in Nodes |-> g[n]] /\ f = [n \in Nodes |-> f[n]]
    <3> HIDE DEF V
    <3> QED OBVIOUS
  <2> HIDE DEF g
  <2>3. g = f
    BY <2>1, <2>2
  <2> QED BY <2>3 DEF g
<1>14. collect = Rec(collect)
  <2> HIDE DEF Rec
  <2> QED BY <1>13
<1> HIDE DEF collect
<1>20. PICK made : made = collect
  OBVIOUS
<1>15. \A n \in Nodes : made[n] = [d \in Nat |-> [r \in W |-> Collect(made, n, d, r)]]
  BY <1>20, <1>14
<1>16. \A n \in Nodes : made[n] = f[n]
  <2> DEFINE S == {n \in Nodes : made[n] = f[n]}
  <2>1. ASSUME NEW n \in Nodes, \A m \in 2 .. TreeSize : parent[m] = n => m \in S PROVE n \in S
    <3> HIDE DEF V, W, F
    <3>1. \A i \in 1 .. Len(Kids(n, Nodes)) : f[Kids(n, Nodes)[i]] = made[Kids(n, Nodes)[i]]
      BY <1>2, <2>1
    <3>2. \A i \in 1 .. Len(Kids(n, Nodes)) : f[Kids(n, Nodes)[i]] \in V
      BY <1>2, <1>11
    <3>3. \A d \in Nat : \A r \in W : Collect(f, n, d, r) = Collect(made, n, d, r)
      <4>1. Agree(n, f, made)
        BY <3>1, <3>2
      <4> HIDE DEF Agree, Alike, S
      <4>2. Alike(n, f, made)
        BY <1>9, <4>1
      <4> QED BY <4>2 DEF Alike
    <3>4. \A d \in Nat : [r \in W |-> Collect(f, n, d, r)] = [r \in W |-> Collect(made, n, d, r)]
      BY <3>3
    <3>5. [d \in Nat |-> [r \in W |-> Collect(f, n, d, r)]] = [d \in Nat |-> [r \in W |-> Collect(made, n, d, r)]]
      BY <3>4
    <3> QED BY <1>12, <1>15, <3>5
  <2>2. \A n \in Nodes : n \in S
    <3> HIDE DEF S
    <3> QED BY <2>1, Descend
  <2> QED BY <2>2
<1>17. \A n \in Nodes : \A d \in Nat : \A r \in W : f[n][d][r] = Collect(f, n, d, r)
  <2> HIDE DEF V, W, F, Rec
  <2> QED BY <1>12
<1>18. f \in [Nodes -> V]
  BY <1>11
<1> HIDE DEF F, Rec
<1> QED BY <1>1, <1>20, <1>16, <1>17, <1>18

\* What collectRawText makes of some texts where it could find those of S.
Fine(r, out, S) ==
  /\ out \in Seq(Texts) /\ IsInjective(out) /\ Len(out) <= MaxText
  /\ Range(r) \subseteq Range(out) /\ Range(out) \subseteq Range(r) \cup S
  /\ Len(out) < MaxText => Range(out) = Range(r) \cup S

\* From child to child, as long as there is room.
LEMMA FineOn ==
  ASSUME NEW r, NEW a, NEW b, NEW A, NEW B, Fine(r, a, A)
  PROVE  /\ Len(a) < MaxText /\ Fine(a, b, B) => Fine(r, b, A \cup B)
         /\ Len(a) >= MaxText => Fine(r, a, A \cup B)
<1>1. ASSUME Len(a) < MaxText, Fine(a, b, B) PROVE Fine(r, b, A \cup B)
  BY <1>1 DEF Fine
<1>2. ASSUME Len(a) >= MaxText PROVE Fine(r, a, A \cup B)
  <2>1. ~(Len(a) < MaxText)
    <3>1. Len(a) \in Nat /\ MaxText \in Nat
      BY DesignAssumption DEF Fine
    <3> QED BY <1>2, <3>1
  <2> QED BY <2>1 DEF Fine
<1> QED BY <1>1, <1>2

\* The text of the node itself.
LEMMA OwnFine ==
  ASSUME NEW n, NEW r \in Seq(Texts), IsInjective(r), Len(r) < MaxText
  PROVE  Fine(r, OwnText(n, r), TextsOf({n}))
<1> DEFINE t == nodeKind[n]
<1>1. CASE t \in Texts \ Range(r)
  <2>1. OwnText(n, r) = Append(r, t) /\ TextsOf({n}) = {t} /\ t \in Texts /\ t \notin Range(r)
    BY <1>1 DEF OwnText, TextsOf
  <2> HIDE DEF t
  <2> DEFINE out == Append(r, t)
             N == Len(r)
  <2>2. /\ out \in Seq(Texts) /\ Len(out) = N + 1 /\ N \in Nat
        /\ DOMAIN out = 1 .. N + 1 /\ DOMAIN r = 1 .. N
        /\ out[N + 1] = t /\ \A i \in 1 .. N : out[i] = r[i]
    BY <2>1
  <2> HIDE DEF out, N
  <2>3. \A i \in 1 .. N : r[i] \in Range(r)
    BY <2>2 DEF Range
  <2>4. \A i \in 1 .. N + 1 : i \in 1 .. N \/ i = N + 1
    BY <2>2
  <2>5. IsInjective(out)
    <3>1. ASSUME NEW i \in 1 .. N + 1, NEW j \in 1 .. N + 1, out[i] = out[j] PROVE i = j
      <4>1. CASE i \in 1 .. N /\ j \in 1 .. N
        BY <2>2, <3>1, <4>1 DEF IsInjective
      <4>2. CASE i \notin 1 .. N /\ j \notin 1 .. N
        BY <2>4, <4>2
      <4>3. CASE i \in 1 .. N /\ j \notin 1 .. N
        <5>1. j = N + 1 /\ out[i] = r[i] /\ out[j] = t
          BY <2>2, <2>4, <4>3
        <5> QED BY <2>1, <2>3, <3>1, <4>3, <5>1
      <4>4. CASE i \notin 1 .. N /\ j \in 1 .. N
        <5>1. i = N + 1 /\ out[j] = r[j] /\ out[i] = t
          BY <2>2, <2>4, <4>4
        <5> QED BY <2>1, <2>3, <3>1, <4>4, <5>1
      <4> QED BY <4>1, <4>2, <4>3, <4>4
    <3> QED BY <2>2, <3>1 DEF IsInjective
  <2>6. Range(out) = Range(r) \cup {t}
    <3>1. \A i \in 1 .. N : i \in 1 .. N + 1
      BY <2>2
    <3>2. N + 1 \in 1 .. N + 1
      BY <2>2
    <3>3. ASSUME NEW x \in Range(out) PROVE x \in Range(r) \cup {t}
      <4>1. PICK i \in 1 .. N + 1 : out[i] = x
        BY <2>2 DEF Range
      <4> QED BY <2>2, <2>3, <2>4, <4>1
    <3>4. ASSUME NEW x \in Range(r) PROVE x \in Range(out)
      <4>1. PICK i \in 1 .. N : r[i] = x
        BY <2>2 DEF Range
      <4> QED BY <2>2, <3>1, <4>1 DEF Range
    <3>5. t \in Range(out)
      BY <2>2, <3>2 DEF Range
    <3> QED BY <3>3, <3>4, <3>5
  <2>7. Len(out) <= MaxText
    <3>1. N \in Nat /\ MaxText \in Nat /\ N < MaxText
      BY <2>2, DesignAssumption DEF N
    <3> QED BY <2>2, <3>1
  <2>8. Fine(r, out, {t})
    BY <2>2, <2>5, <2>6, <2>7 DEF Fine
  <2> QED BY <2>1, <2>8 DEF out
<1>2. CASE t \notin Texts \ Range(r)
  <2>1. OwnText(n, r) = r /\ TextsOf({n}) \subseteq Range(r)
    BY <1>2 DEF OwnText, TextsOf
  <2>2. Len(r) <= MaxText
    <3>1. Len(r) \in Nat /\ MaxText \in Nat
      BY DesignAssumption
    <3> QED BY <3>1
  <2> QED BY <2>1, <2>2 DEF Fine
<1> QED BY <1>1, <1>2

\* What the walk from a node can find.
Findable(top, n) == TextsOf({x \in Visit(n, OnFrom(top)) : x \in Let(top)})

\* What can be found at a node: its text, and what can be found at its
\* children.
LEMMA FindableIs ==
  ASSUME IsTree, NEW top \in Nodes, NEW n \in Nodes
  PROVE  /\ n \notin Let(top) => Findable(top, n) = {}
         /\ n \in Let(top) => \A x : x \in Findable(top, n) <=>
              x \in TextsOf({n}) \/ \E m \in KidSet(n, Nodes) : x \in Findable(top, m)
<1> DEFINE K == OnFrom(top)
           T == Let(top)
<1>1. /\ Children(K)
      /\ n \in T => K[n] = KidSet(n, Nodes)
      /\ n \notin T => K[n] = {}
  BY OnFromIs
<1> HIDE DEF K, T
<1>2. \A x : x \in Visit(n, K) <=> x = n \/ \E m \in K[n] : x \in Visit(m, K)
  BY <1>1, VisitIs
<1>4. \A A : \A x : x \in TextsOf(A) <=> x \in Texts /\ \E y \in A : x = nodeKind[y]
  BY DEF TextsOf
<1>5. \A m : \A x : x \in Findable(top, m) <=> x \in Texts /\ \E y \in Visit(m, K) : y \in T /\ x = nodeKind[y]
  BY DEF Findable, TextsOf, K, T
<1>6. ASSUME n \notin T PROVE Findable(top, n) = {}
  BY <1>1, <1>2, <1>5, <1>6
<1>7. ASSUME n \in T, NEW x
      PROVE  x \in Findable(top, n) <=>
               x \in TextsOf({n}) \/ \E m \in KidSet(n, Nodes) : x \in Findable(top, m)
  BY <1>1, <1>2, <1>4, <1>5, <1>7
<1> QED BY <1>6, <1>7 DEF T

\* What the walk of collectRawText makes at a node.
Raws(collect, top, n) ==
  top \in Path(n) =>
    \A r \in Seq(Texts) : IsInjective(r) /\ Len(r) <= MaxText =>
      Fine(r, collect[n][Deep(n) - Deep(top)][r], Findable(top, n))

\* What the walk makes at a node, from what it makes at the children.
LEMMA RawStep ==
  ASSUME DesignTypes, NEW collect \in [Nodes -> [Nat -> [Seq(Texts) -> Seq(Texts)]]],
         \A n \in Nodes : \A d \in Nat : \A r \in Seq(Texts) :
           collect[n][d][r] = Collect(collect, n, d, r),
         NEW top \in Nodes, NEW n \in Nodes,
         \A m \in 2 .. TreeSize : parent[m] = n => Raws(collect, top, m)
  PROVE  Raws(collect, top, n)
<1> DEFINE W == Seq(Texts)
<1>0. IsTree /\ maxDepth \in Nat /\ MaxText \in Nat
  BY DesignAssumption DEF DesignTypes
<1> SUFFICES ASSUME top \in Path(n), NEW r \in W, IsInjective(r), Len(r) <= MaxText
             PROVE  Fine(r, collect[n][Deep(n) - Deep(top)][r], Findable(top, n))
  BY DEF Raws
<1> DEFINE d == Deep(n) - Deep(top)
           ks == Kids(n, Nodes)
           first == OwnText(n, r)
           out == collect[n][d][r]
<1>1. d \in Nat /\ Deep(n) \in Nat /\ Deep(top) \in Nat
  <2>1. Deep(n) \in Nat /\ Deep(top) \in Nat /\ Deep(top) <= Deep(n)
    BY <1>0, DeepIs, DeeperOn
  <2> QED BY <2>1
<1>2. out = Collect(collect, n, d, r)
  <2> HIDE DEF d
  <2> QED BY <1>1
<1>3. Len(r) \in Nat
  OBVIOUS
<1>4. n \in Let(top) <=> Shown(n) /\ d <= maxDepth
  BY DEF Let
<1>5. CASE Len(r) >= MaxText
  <2>1. out = r
    BY <1>2, <1>5 DEF Collect
  <2>2. ~(Len(r) < MaxText)
    BY <1>0, <1>3, <1>5
  <2>3. Fine(r, out, Findable(top, n))
    <3> HIDE DEF out
    <3> QED BY <2>1, <2>2 DEF Fine
  <2> QED BY <2>3
<1>6. CASE n \notin Let(top)
  <2>1. out = r
    <3>1. ~Shown(n) \/ d > maxDepth
      BY <1>0, <1>1, <1>4, <1>6
    <3> HIDE DEF out, d
    <3> QED BY <1>2, <3>1 DEF Collect
  <2>2. Findable(top, n) = {}
    BY <1>0, <1>6, FindableIs
  <2>3. Fine(r, out, Findable(top, n))
    <3> HIDE DEF out
    <3> QED BY <2>1, <2>2 DEF Fine
  <2> QED BY <2>3
<1>7. CASE ~(Len(r) >= MaxText) /\ n \in Let(top)
  <2>1. out = Gather(collect, ks, d, first)
    <3>1. ~(d > maxDepth)
      BY <1>0, <1>1, <1>4, <1>7
    <3> HIDE DEF out, d
    <3> QED BY <1>2, <1>4, <1>7, <3>1 DEF Collect
  <2>2. ListsAll(ks, KidSet(n, Nodes))
    BY KidsAre
  <2>3. \A m \in KidSet(n, Nodes) : m \in 2 .. TreeSize /\ m \in Nodes /\ parent[m] = n
    BY NodesAre DEF KidSet
  <2> HIDE DEF ks
  <2>4. /\ Len(ks) \in Nat
        /\ \A i \in 1 .. Len(ks) : ks[i] \in KidSet(n, Nodes)
        /\ \A m \in KidSet(n, Nodes) : \E i \in 1 .. Len(ks) : ks[i] = m
    BY <2>2 DEF ListsAll
  <2>5. Gathers(collect, ks, d)
    <3>1. d + 1 \in Nat
      BY <1>1
    <3>2. \A i \in 1 .. Len(ks) : collect[ks[i]][d + 1] \in [W -> W]
      <4> HIDE DEF W, d
      <4> QED BY <2>3, <2>4, <3>1 DEF W
    <3> HIDE DEF d
    <3> QED BY <2>4, <3>2 DEF Gathers
  <2>6. first \in W
    BY OwnTextIn
  <2>7. Fine(r, first, TextsOf({n}))
    <3>1. Len(r) < MaxText
      BY <1>0, <1>3, <1>7
    <3> QED BY <3>1, OwnFine
  <2> HIDE DEF first
  <2>8. PICK f : Steps(collect, ks, d, first, f) /\ Gather(collect, ks, d, first) = f[Len(ks)]
    <3> HIDE DEF d
    <3>1. first \in Seq(Texts)
      BY <2>6
    <3> HIDE DEF W
    <3> QED BY ONLY <2>5, <3>1, GatherSteps
  <2> DEFINE N == Len(ks)
             Sofar(i) == TextsOf({n}) \cup UNION {Findable(top, ks[j]) : j \in 1 .. i}
             S == {i \in 0 .. N : Fine(r, f[i], Sofar(i))}
  <2>9. f \in [0 .. N -> W] /\ f[0] = first /\ N \in Nat
    BY <2>4, <2>8 DEF Steps
  <2>10. 0 \in S
    <3>1. Sofar(0) = TextsOf({n})
      OBVIOUS
    <3> HIDE DEF Sofar, N
    <3> QED BY <2>7, <2>9, <3>1
  <2>11. ASSUME NEW i \in 1 .. N, i - 1 \in S PROVE i \in S
    <3>0. i \in 0 .. N /\ i - 1 \in 0 .. N /\ f[i - 1] \in W
      <4>1. i \in 0 .. N /\ i - 1 \in 0 .. N
        <5> HIDE DEF S, N
        <5> QED BY ONLY <2>9, i \in 1 .. N
      <4> HIDE DEF W, S, N
      <4> QED BY ONLY <2>9, <4>1
    <3> DEFINE a == f[i - 1]
               b == f[i]
               B == Findable(top, ks[i])
    <3>1. b = IF Len(a) >= MaxText THEN a ELSE collect[ks[i]][d + 1][a]
      BY <2>8 DEF Steps
    <3>2. Sofar(i) = Sofar(i - 1) \cup B
      <4>1. \A j : j \in 1 .. i <=> j \in 1 .. i - 1 \/ j = i
        BY <2>9
      <4> QED BY <4>1
    <3>3. Fine(r, a, Sofar(i - 1))
      BY <2>11
    <3> HIDE DEF Sofar, N, S
    <3>4. Len(a) \in Nat /\ IsInjective(a) /\ Len(a) <= MaxText /\ a \in W
      BY <3>0, <3>3 DEF Fine
    <3>5. CASE Len(a) >= MaxText
      <4> HIDE DEF a, b, B
      <4>1. Fine(r, a, Sofar(i - 1) \cup B)
        BY <3>3, <3>5, FineOn
      <4> QED BY <3>0, <3>1, <3>2, <3>5, <4>1 DEF b, S
    <3>6. CASE ~(Len(a) >= MaxText)
      <4>1. ks[i] \in 2 .. TreeSize /\ ks[i] \in Nodes /\ parent[ks[i]] = n
        BY <2>3, <2>4 DEF N
      <4>2. Path(ks[i]) = {ks[i]} \cup Path(n) /\ Deep(ks[i]) = Deep(n) + 1
        BY <1>0, <4>1, PathIs, DeepIs
      <4>3. Deep(ks[i]) - Deep(top) = d + 1
        <5>1. Deep(ks[i]) = Deep(n) + 1 /\ Deep(n) \in Nat /\ Deep(top) \in Nat
          BY <1>1, <4>2
        <5> QED BY ONLY <5>1
      <4>4. Raws(collect, top, ks[i]) /\ top \in Path(ks[i])
        BY <4>1, <4>2
      <4> HIDE DEF a, b, B, d
      <4>5. Fine(a, collect[ks[i]][d + 1][a], B)
        BY <3>4, <4>3, <4>4 DEF Raws, B
      <4>6. Fine(a, b, B)
        BY <3>1, <3>6, <4>5
      <4>7. Len(a) < MaxText
        BY <1>0, <3>4, <3>6
      <4>8. Fine(r, b, Sofar(i - 1) \cup B)
        BY <3>3, <4>6, <4>7, FineOn
      <4> QED BY <3>0, <3>2, <4>8 DEF b, S
    <3> QED BY <3>5, <3>6
  <2>12. \A i \in 0 .. N : i \in S
    <3> HIDE DEF S, N
    <3> QED BY <2>9, <2>10, <2>11, Upward
  <2>13. Fine(r, f[N], Sofar(N))
    <3>1. N \in 0 .. N
      BY <2>9
    <3> HIDE DEF N, Sofar
    <3> QED BY <2>12, <3>1
  <2>14. Sofar(N) = Findable(top, n)
    <3>1. \A x : x \in Findable(top, n) <=>
             x \in TextsOf({n}) \/ \E m \in KidSet(n, Nodes) : x \in Findable(top, m)
      BY <1>0, <1>7, FindableIs
    <3>2. \A x : x \in Sofar(N) <=> x \in TextsOf({n}) \/ \E j \in 1 .. N : x \in Findable(top, ks[j])
      OBVIOUS
    <3>3. \A x : (\E m \in KidSet(n, Nodes) : x \in Findable(top, m))
                   <=> \E j \in 1 .. N : x \in Findable(top, ks[j])
      BY <2>4
    <3> HIDE DEF Sofar, N
    <3>4. \A x : x \in Sofar(N) <=> x \in Findable(top, n)
      BY <3>1, <3>2, <3>3
    <3> QED BY <3>4
  <2>15. out = f[N]
    BY <2>1, <2>8
  <2> HIDE DEF out, N, Sofar, S
  <2>16. Fine(r, out, Findable(top, n))
    BY <2>13, <2>14, <2>15
  <2> QED BY <2>16 DEF out
<1> QED BY <1>5, <1>6, <1>7

\* The key texts: distinct, shown inside the screen, all of them if they fit.
LEMMA RawIs ==
  ASSUME DesignTypes, NEW top \in Nodes, Shown(top)
  PROVE  Fine(<<>>, RawText(top), TextsOf(Reached(top)))
<1>0. IsTree /\ maxDepth \in Nat /\ MaxText \in Nat
  BY DesignAssumption DEF DesignTypes
<1>1. PICK collect \in [Nodes -> [Nat -> [Seq(Texts) -> Seq(Texts)]]] :
        /\ \A n \in Nodes : \A d \in Nat : \A r \in Seq(Texts) :
             collect[n][d][r] = Collect(collect, n, d, r)
        /\ \A n \in Nodes : RawText(n) = collect[n][0][<<>>]
  BY <1>0, RawMade
<1> DEFINE S == {n \in Nodes : Raws(collect, top, n)}
<1>2. ASSUME NEW n \in Nodes, \A m \in 2 .. TreeSize : parent[m] = n => m \in S PROVE n \in S
  <2>1. \A m \in 2 .. TreeSize : parent[m] = n => Raws(collect, top, m)
    BY <1>2
  <2>2. Raws(collect, top, n)
    BY <1>1, <2>1, RawStep
  <2> QED BY <2>2
<1>3. \A n \in Nodes : n \in S
  <2> HIDE DEF S
  <2> QED BY <1>0, <1>2, Descend
<1>4. Raws(collect, top, top) /\ top \in Path(top)
  BY <1>0, <1>3, PathGoes
<1>5. Deep(top) - Deep(top) = 0
  <2>1. Deep(top) \in Nat
    BY <1>0, DeepIs
  <2> QED BY <2>1
<1>6. Fine(<<>>, collect[top][0][<<>>], Findable(top, top))
  <2>1. <<>> \in Seq(Texts) /\ IsInjective(<<>>) /\ Len(<<>>) <= MaxText
    BY <1>0 DEF IsInjective
  <2> QED BY <1>4, <1>5, <2>1 DEF Raws
<1>7. Findable(top, top) = TextsOf(Reached(top))
  <2>1. Reached(top) = {x \in Visit(top, OnFrom(top)) : x \in Let(top)}
    BY <1>0, ReachedIs
  <2> QED BY <2>1 DEF Findable
<1> QED BY <1>1, <1>6, <1>7

-----------------------------------------------------------------------------
(* The context of a design *)

\* What does not change.
LEMMA PathSame ==
  ASSUME parent' = parent
  PROVE  \A n : Path(n)' = Path(n)
BY DEF Path, Up

LEMMA ReachedSame ==
  ASSUME parent' = parent, visible' = visible, includeHidden' = includeHidden, maxDepth' = maxDepth
  PROVE  \A n : Reached(n)' = Reached(n)
<1>1. \A n : Path(n)' = Path(n)
  BY PathSame
<1> QED BY <1>1 DEF Reached, Shown

LEMMA CandidatesSame ==
  ASSUME UNCHANGED <<nodeKind, visible, parent, includeHidden, maxDepth>>
  PROVE  OverviewCandidates' = OverviewCandidates
BY DEF OverviewCandidates, Candidates, ScreenLike, ScreenCandidate, Kids

\* The places in a list of what is marked, and what stands there.
PlacesOf(s, marked, ks) ==
  /\ Len(ks) \in Nat
  /\ \A i \in 1 .. Len(ks) : ks[i] \in 1 .. Len(s) /\ s[ks[i]] \in marked
  /\ \A k \in 1 .. Len(s) : s[k] \in marked => \E i \in 1 .. Len(ks) : ks[i] = k
  /\ \A i, j \in 1 .. Len(ks) : ks[i] = ks[j] => i = j

\* Filtered lists the places of what is marked.
LEMMA PlacesAre ==
  ASSUME NEW s \in Seq(Nodes), NEW marked
  PROVE  PlacesOf(s, marked, Filtered({i \in 1 .. Len(s) : s[i] \in marked}))
<1> DEFINE K == {i \in 1 .. Len(s) : s[i] \in marked}
           ks == Filtered(K)
<1>1. Len(s) \in Nat /\ K \in SUBSET (1 .. Len(s))
  OBVIOUS
<1>2. ListsAll(ks, K)
  <2> HIDE DEF K
  <2> QED BY <1>1, FilteredLists
<1> HIDE DEF ks
<1>3. /\ ks \in Seq(K)
      /\ \A x \in K : \E i \in 1 .. Len(ks) : ks[i] = x
      /\ \A i, j \in 1 .. Len(ks) : ks[i] = ks[j] => i = j
  <2> HIDE DEF K
  <2> QED BY <1>2 DEF ListsAll
<1>4. Len(ks) \in Nat /\ \A i \in 1 .. Len(ks) : ks[i] \in K
  <2> HIDE DEF K
  <2> QED BY ONLY <1>3
<1>5. PlacesOf(s, marked, ks)
  BY <1>3, <1>4 DEF PlacesOf
<1> QED BY <1>5 DEF ks

\* With a node its path is let through.
LEMMA ParsedPaths ==
  ASSUME DesignTypes, NEW x \in Reached(Root)
  PROVE  x \in Nodes /\ Path(x) \subseteq Reached(Root)
<1>0. IsTree /\ maxDepth \in Nat /\ Root \in Nodes /\ Deep(Root) = 1 /\ Path(Root) = {Root}
  BY NodesAre, DeepIs, PathIs DEF DesignTypes
<1>1. /\ x \in Nodes /\ Root \in Path(x) /\ Deep(x) - Deep(Root) <= maxDepth
      /\ \A m \in Path(x) \ Path(Root) : Shown(m)
  BY DEF Reached, Deep
<1>2. ASSUME NEW y \in Path(x) PROVE y \in Reached(Root)
  <2>1. y \in Nodes /\ Root \in Path(y) /\ Path(y) \subseteq Path(x)
    <3>1. y \in Nodes /\ Path(y) \subseteq Path(x)
      BY <1>0, <1>1, PathGoes
    <3> QED BY <1>0, <3>1, PathGoes
  <2>2. Deep(y) - Deep(Root) <= maxDepth
    <3>1. Deep(y) <= Deep(x) /\ Deep(y) \in Nat /\ Deep(x) \in Nat
      BY <1>0, <1>1, <2>1, DeeperOn, DeepIs
    <3> QED BY <1>0, <1>1, <3>1
  <2>3. \A m \in Path(y) \ Path(Root) : Shown(m)
    BY <1>1, <2>1
  <2> QED BY <2>1, <2>2, <2>3 DEF Reached, Deep
<1> QED BY <1>1, <1>2

\* A parent stands before its children.
LEMMA ParentFirst ==
  ASSUME DesignTypes, NEW tree, tree = Parse
  PROVE  LET at(n) == CHOOSE i \in DOMAIN tree : tree[i] = n
         IN  \A n \in Range(tree) \ {Root} : at(parent[n]) < at(n)
<1> DEFINE at(n) == CHOOSE i \in DOMAIN tree : tree[i] = n
<1>1. tree \in Seq(Nodes) /\ IsInjective(tree) /\ LedBy(tree, {Root})
  BY ParseIs
<1>2. DOMAIN tree = 1 .. Len(tree)
  BY <1>1
<1>3. ASSUME NEW i \in 1 .. Len(tree) PROVE at(tree[i]) = i
  <2>1. i \in DOMAIN tree /\ \A j \in DOMAIN tree : tree[j] = tree[i] => j = i
    BY <1>1, <1>2 DEF IsInjective
  <2> QED BY <2>1
<1> HIDE DEF at
<1>4. ASSUME NEW n \in Range(tree) \ {Root} PROVE at(parent[n]) < at(n)
  <2>1. PICK i \in 1 .. Len(tree) : tree[i] = n
    BY <1>2 DEF Range
  <2>2. PICK j \in 1 .. Len(tree) : j < i /\ tree[j] = parent[n]
    BY <1>1, <2>1 DEF LedBy
  <2>3. at(n) = i /\ at(parent[n]) = j
    BY <1>3, <2>1, <2>2
  <2> QED BY <2>2, <2>3
<1> QED BY <1>4 DEF at

\* The screen context.
LEMMA ScreenFaithful ==
  ASSUME DesignTypes, Screen
  PROVE  ContextFaithful'
<1> DEFINE tree == Parse
           at == Filtered({i \in 1 .. Len(tree) : nodeKind[tree[i]] = "component"})
           texts == Filtered({i \in 1 .. Len(tree) : nodeKind[tree[i]] \in Texts})
           comps == [i \in 1 .. Len(at) |->
                      [node |-> tree[at[i]], text |-> TextValues(tree[at[i]], Range(tree))]]
           listed == [i \in 1 .. Len(texts) |-> tree[texts[i]]]
<1>0. IsTree
  BY DEF DesignTypes
<1>1. /\ told' = [mode |-> "screen", tree |-> tree, components |-> comps, textNodes |-> listed]
      /\ nodeKind' = nodeKind /\ visible' = visible /\ parent' = parent
      /\ includeHidden' = includeHidden /\ maxDepth' = maxDepth
  BY DEF Screen
<1>2. /\ told'.mode = "screen" /\ told'.tree = tree /\ told'.components = comps
      /\ told'.textNodes = listed
  <2> HIDE DEF tree, comps, listed
  <2> QED BY <1>1
<1>3. \A n : Path(n)' = Path(n) /\ Reached(n)' = Reached(n)
  BY <1>1, PathSame, ReachedSame
<1>4. /\ tree \in Seq(Nodes) /\ IsInjective(tree) /\ Range(tree) = Reached(Root)
  <2>1. \A x : x \in Range(tree) <=> x \in Reached(Root)
    BY ParseIs
  <2> QED BY <2>1, ParseIs
<1>5. DOMAIN tree = 1 .. Len(tree) /\ \A x : x \in Range(tree) <=> \E k \in 1 .. Len(tree) : tree[k] = x
  BY <1>4, RangeOf
<1>6. LET place(n) == CHOOSE i \in DOMAIN tree : tree[i] = n
      IN  \A n \in Range(tree) \ {Root} : place(parent[n]) < place(n)
  BY ParentFirst
<1> DEFINE Marked == {n \in Nodes : nodeKind[n] = "component"}
           Worded == {n \in Nodes : nodeKind[n] \in Texts}
<1>7. \A k \in 1 .. Len(tree) : tree[k] \in Nodes
  <2> HIDE DEF tree
  <2> QED BY <1>4
<1>8. /\ Len(at) \in Nat
      /\ \A i \in 1 .. Len(at) : at[i] \in 1 .. Len(tree) /\ tree[at[i]] \in Marked
      /\ \A k \in 1 .. Len(tree) : tree[k] \in Marked => \E i \in 1 .. Len(at) : at[i] = k
  <2>1. {i \in 1 .. Len(tree) : nodeKind[tree[i]] = "component"} = {i \in 1 .. Len(tree) : tree[i] \in Marked}
    <3> HIDE DEF tree
    <3> QED BY <1>7
  <2>2. at = Filtered({i \in 1 .. Len(tree) : tree[i] \in Marked})
    <3> HIDE DEF tree, Marked
    <3> QED BY <2>1
  <2> HIDE DEF tree, Marked, at
  <2>3. PlacesOf(tree, Marked, Filtered({i \in 1 .. Len(tree) : tree[i] \in Marked}))
    BY <1>4, PlacesAre
  <2>4. PlacesOf(tree, Marked, at)
    BY <2>2, <2>3
  <2> QED BY <2>4 DEF PlacesOf
<1>9. /\ Len(texts) \in Nat
      /\ \A i \in 1 .. Len(texts) : texts[i] \in 1 .. Len(tree) /\ tree[texts[i]] \in Worded
      /\ \A k \in 1 .. Len(tree) : tree[k] \in Worded => \E i \in 1 .. Len(texts) : texts[i] = k
  <2>1. {i \in 1 .. Len(tree) : nodeKind[tree[i]] \in Texts} = {i \in 1 .. Len(tree) : tree[i] \in Worded}
    <3> HIDE DEF tree
    <3> QED BY <1>7
  <2>2. texts = Filtered({i \in 1 .. Len(tree) : tree[i] \in Worded})
    <3> HIDE DEF tree, Worded
    <3> QED BY <2>1
  <2> HIDE DEF tree, Worded, texts
  <2>3. PlacesOf(tree, Worded, Filtered({i \in 1 .. Len(tree) : tree[i] \in Worded}))
    BY <1>4, PlacesAre
  <2>4. PlacesOf(tree, Worded, texts)
    BY <2>2, <2>3
  <2> QED BY <2>4 DEF PlacesOf
<1> HIDE DEF at, texts
<1>10. DOMAIN comps = 1 .. Len(at) /\ DOMAIN listed = 1 .. Len(texts)
  <2> HIDE DEF tree
  <2> QED OBVIOUS
<1>11. \A i \in 1 .. Len(at) : comps[i].node = tree[at[i]] /\ comps[i].text = TextValues(tree[at[i]], Range(tree))
  <2> HIDE DEF tree
  <2> QED OBVIOUS
<1>12. \A i \in 1 .. Len(texts) : listed[i] = tree[texts[i]]
  <2> HIDE DEF tree
  <2> QED OBVIOUS
<1> HIDE DEF tree, comps, listed
<1>13. ASSUME NEW i \in DOMAIN comps
       PROVE  Range(comps[i].text) =
                {nodeKind[n] : n \in {m \in Range(tree) : comps[i].node \in Path(m)}} \cap Texts
  <2> DEFINE P == Range(tree)
             top == tree[at[i]]
  <2>1. P \in SUBSET Nodes /\ \A x \in P : Path(x) \subseteq P
    BY <1>4, ParsedPaths
  <2>2. top \in P
    BY <1>5, <1>8, <1>10
  <2> HIDE DEF P, top
  <2>3. Range(TextValues(top, P)) = TextsOf({m \in P : top \in Path(m)})
    BY <1>0, <2>1, <2>2, TextValuesIs
  <2> QED BY <1>10, <1>11, <2>3 DEF TextsOf, P, top
<1>14. {c.node : c \in Range(comps)} = {n \in Range(tree) : nodeKind[n] = "component"}
  <2>1. \A c : c \in Range(comps) <=> \E i \in 1 .. Len(at) : comps[i] = c
    BY <1>10 DEF Range
  <2>2. ASSUME NEW c \in Range(comps) PROVE c.node \in Range(tree) /\ nodeKind[c.node] = "component"
    <3>1. PICK i \in 1 .. Len(at) : comps[i] = c
      BY <2>1
    <3> QED BY <1>5, <1>8, <1>11, <3>1
  <2>3. ASSUME NEW n \in Range(tree), nodeKind[n] = "component" PROVE \E c \in Range(comps) : n = c.node
    <3>1. PICK k \in 1 .. Len(tree) : tree[k] = n
      BY <1>5
    <3>2. n \in Marked
      BY <1>7, <2>3, <3>1
    <3>3. PICK i \in 1 .. Len(at) : at[i] = k
      BY <1>8, <3>1, <3>2
    <3>4. comps[i].node = n /\ comps[i] \in Range(comps)
      BY <1>11, <2>1, <3>1, <3>3
    <3> QED BY <3>4
  <2> QED BY <2>2, <2>3
<1>15. Range(listed) = {n \in Range(tree) : nodeKind[n] \in Texts}
  <2>1. \A x : x \in Range(listed) <=> \E i \in 1 .. Len(texts) : listed[i] = x
    BY <1>10 DEF Range
  <2>2. ASSUME NEW x \in Range(listed) PROVE x \in Range(tree) /\ nodeKind[x] \in Texts
    <3>1. PICK i \in 1 .. Len(texts) : listed[i] = x
      BY <2>1
    <3> QED BY <1>5, <1>9, <1>12, <3>1
  <2>3. ASSUME NEW n \in Range(tree), nodeKind[n] \in Texts PROVE n \in Range(listed)
    <3>1. PICK k \in 1 .. Len(tree) : tree[k] = n
      BY <1>5
    <3>2. n \in Worded
      BY <1>7, <2>3, <3>1
    <3>3. PICK i \in 1 .. Len(texts) : texts[i] = k
      BY <1>9, <3>1, <3>2
    <3> QED BY <1>12, <2>1, <3>1, <3>3
  <2> QED BY <2>2, <2>3
<1> HIDE DEF Marked, Worded
<1>16. told'.mode # "overview"
  BY <1>2
<1>17. IsInjective(told'.tree) /\ Range(told'.tree) = Reached(Root)'
  BY <1>2, <1>3, <1>4
<1>18. LET place(n) == CHOOSE i \in DOMAIN told'.tree : told'.tree[i] = n
       IN  \A n \in Range(told'.tree) \ {Root} : place(parent'[n]) < place(n)
  BY <1>1, <1>2, <1>6
<1>19. ASSUME NEW i \in DOMAIN told'.components
       PROVE  Range(told'.components[i].text) =
                {nodeKind'[n] : n \in {m \in Range(told'.tree) : told'.components[i].node \in Path(m)'}} \cap Texts
  <2>1. Range(comps[i].text) =
          {nodeKind[n] : n \in {m \in Range(tree) : comps[i].node \in Path(m)}} \cap Texts
    BY <1>2, <1>13
  <2>2. {m \in Range(tree) : comps[i].node \in Path(m)'} = {m \in Range(tree) : comps[i].node \in Path(m)}
    BY <1>3
  <2> QED BY <1>1, <1>2, <2>1, <2>2
<1>20. {c.node : c \in Range(told'.components)} = {n \in Range(told'.tree) : nodeKind'[n] = "component"}
  BY <1>1, <1>2, <1>14
<1>21. Range(told'.textNodes) = {n \in Range(told'.tree) : nodeKind'[n] \in Texts}
  BY <1>1, <1>2, <1>15
<1> QED BY <1>16, <1>17, <1>18, <1>19, <1>20, <1>21 DEF ContextFaithful

\* In a sequence of a finite set is each of its members.
LEMMA SortedIs ==
  ASSUME NEW S \in SUBSET Nodes, NEW sorted \in SetToSeqs(S)
  PROVE  /\ sorted \in Seq(Nodes) /\ IsInjective(sorted)
         /\ \A i \in 1 .. Len(sorted) : sorted[i] \in S
         /\ \A x \in S : \E i \in 1 .. Len(sorted) : sorted[i] = x
<1> DEFINE C == Cardinality(S)
           D == 1 .. C
<1>1. IsFiniteSet(S) /\ C \in Nat
  <2>1. IsFiniteSet(Nodes)
    BY FS_Interval, DesignAssumption DEF Nodes
  <2>2. IsFiniteSet(S)
    BY <2>1, FS_Subset
  <2> QED BY <2>2, FS_CardinalityType
<1>2. sorted \in [D -> S] /\ \A i, j \in D : i # j => sorted[i] # sorted[j]
  BY DEF SetToSeqs
<1>3. IsFiniteSet(D) /\ Cardinality(D) = C
  <2> HIDE DEF C
  <2>1. IsFiniteSet(1 .. C) /\ Cardinality(1 .. C) = IF 1 > C THEN 0 ELSE C - 1 + 1
    BY <1>1, FS_Interval
  <2> QED BY <1>1, <2>1
<1>4. sorted \in Surjection(D, S)
  <2> HIDE DEF D, C
  <2>1. sorted \in Injection(D, S)
    BY <1>2 DEF Injection, IsInjective
  <2>2. Cardinality(D) = Cardinality(S)
    BY <1>3 DEF C
  <2> QED BY <1>1, <2>1, <2>2, FS_Injection
<1>5. Len(sorted) = C /\ sorted \in Seq(Nodes)
  <2>1. sorted \in Seq(S)
    <3> HIDE DEF C
    <3> QED BY <1>1, <1>2
  <2>2. Len(sorted) = C
    <3> HIDE DEF C
    <3> QED BY <1>1, <1>2
  <2> QED BY <2>1, <2>2
<1>6. \A x \in S : \E i \in D : sorted[i] = x
  <2> HIDE DEF D, C
  <2> QED BY <1>4 DEF Surjection
<1>7. IsInjective(sorted)
  <2>1. DOMAIN sorted = D
    BY <1>2
  <2> HIDE DEF D
  <2> QED BY <1>2, <2>1 DEF IsInjective
<1>8. \A i \in D : sorted[i] \in S
  <2> HIDE DEF D
  <2> QED BY <1>2
<1> QED BY <1>5, <1>6, <1>7, <1>8

\* Of what is told, too.
LEMMA ToldSame ==
  ASSUME parent' = parent, visible' = visible, includeHidden' = includeHidden, maxDepth' = maxDepth
  PROVE  \A i : /\ Path(told.screens[i])' = Path(told'.screens[i])
                /\ Reached(told.screens[i])' = Reached(told'.screens[i])
<1>1. \A i : Path(told.screens[i])' = Path(told'.screens[i])
  BY DEF Path, Up
<1>2. \A n : Path(n)' = Path(n)
  BY PathSame
<1> QED BY <1>1, <1>2 DEF Reached, Shown

\* The overview.
LEMMA OverviewFaithful ==
  ASSUME DesignTypes, Overview
  PROVE  ContextFaithful'
<1> DEFINE C == OverviewCandidates
<1>1. PICK sorted \in SetToSeqs(C) :
        LET shown == Filtered({i \in 1 .. Len(sorted) : Shown(sorted[i])})
            length == IF Len(shown) < MaxScreens THEN Len(shown) ELSE MaxScreens
        IN told' = [mode |-> "overview", total |-> Len(Summarized),
                    screens |-> [i \in 1 .. length |-> sorted[shown[i]]],
                    keyText |-> [i \in 1 .. length |-> RawText(sorted[shown[i]])]]
  BY DEF Overview
<1> DEFINE shown == Filtered({i \in 1 .. Len(sorted) : Shown(sorted[i])})
           length == IF Len(shown) < MaxScreens THEN Len(shown) ELSE MaxScreens
           screens == [i \in 1 .. length |-> sorted[shown[i]]]
           keyText == [i \in 1 .. length |-> RawText(sorted[shown[i]])]
           Visible == {n \in Nodes : Shown(n)}
<1>2. /\ nodeKind' = nodeKind /\ visible' = visible /\ parent' = parent
      /\ includeHidden' = includeHidden /\ maxDepth' = maxDepth
  BY DEF Overview
<1>3. /\ told'.mode = "overview" /\ told'.total = Len(Summarized)
      /\ told'.screens = screens /\ told'.keyText = keyText
  <2>1. told' = [mode |-> "overview", total |-> Len(Summarized), screens |-> screens, keyText |-> keyText]
    BY <1>1
  <2> HIDE DEF screens, keyText
  <2> QED BY <2>1
<1>4. \A n : Path(n)' = Path(n) /\ Reached(n)' = Reached(n)
  BY <1>2, PathSame, ReachedSame
<1>25. \A i : /\ Path(told.screens[i])' = Path(told'.screens[i])
              /\ Reached(told.screens[i])' = Reached(told'.screens[i])
  BY <1>2, ToldSame
<1>5. OverviewCandidates' = C /\ C = OutermostOnly
  BY <1>2, CandidatesSame, CandidatesAre
<1>6. /\ C \in SUBSET Nodes
      /\ \A x, y \in C : x \in Path(y) => x = y
      /\ \A n \in Nodes : ScreenLike(n) => \E top \in C : top \in Path(n)
  <2> HIDE DEF C
  <2> QED BY <1>5, OutermostIs
<1>7. /\ sorted \in Seq(Nodes) /\ IsInjective(sorted)
      /\ \A i \in 1 .. Len(sorted) : sorted[i] \in C
      /\ \A x \in C : \E i \in 1 .. Len(sorted) : sorted[i] = x
  <2> HIDE DEF C
  <2> QED BY <1>1, <1>6, SortedIs
<1>8. PlacesOf(sorted, Visible, shown)
  <2>1. \A i \in 1 .. Len(sorted) : sorted[i] \in Nodes
    BY <1>7
  <2>2. {i \in 1 .. Len(sorted) : Shown(sorted[i])} = {i \in 1 .. Len(sorted) : sorted[i] \in Visible}
    BY <2>1
  <2>3. shown = Filtered({i \in 1 .. Len(sorted) : sorted[i] \in Visible})
    <3> HIDE DEF Visible
    <3> QED BY <2>2
  <2> HIDE DEF Visible, shown
  <2>4. PlacesOf(sorted, Visible, Filtered({i \in 1 .. Len(sorted) : sorted[i] \in Visible}))
    BY <1>7, PlacesAre
  <2> QED BY <2>3, <2>4
<1> HIDE DEF shown, C
<1>9. /\ Len(shown) \in Nat
      /\ \A i \in 1 .. Len(shown) : shown[i] \in 1 .. Len(sorted) /\ sorted[shown[i]] \in Visible
      /\ \A k \in 1 .. Len(sorted) : sorted[k] \in Visible => \E i \in 1 .. Len(shown) : shown[i] = k
      /\ \A i, j \in 1 .. Len(shown) : shown[i] = shown[j] => i = j
  <2> HIDE DEF Visible
  <2> QED BY <1>8 DEF PlacesOf
<1>10. length \in Nat /\ length <= Len(shown) /\ (length < MaxScreens => length = Len(shown))
  BY <1>9, DesignAssumption
<1> HIDE DEF length
<1>11. DOMAIN screens = 1 .. length /\ \A i \in 1 .. length : screens[i] = sorted[shown[i]]
  OBVIOUS
<1>12. DOMAIN keyText = 1 .. length /\ \A i \in 1 .. length : keyText[i] = RawText(sorted[shown[i]])
  OBVIOUS
<1>13. Len(screens) = length
  BY <1>10
<1> HIDE DEF screens, keyText
<1>14. \A i \in 1 .. length : i \in 1 .. Len(shown)
  BY <1>9, <1>10
<1>15. \A i \in 1 .. length : screens[i] \in C /\ screens[i] \in Nodes
  BY <1>6, <1>7, <1>9, <1>11, <1>14
<1>16. ASSUME NEW i \in 1 .. length, NEW j \in 1 .. length, i # j
       PROVE  screens[i] \notin Path(screens[j])
  <2>1. shown[i] # shown[j] /\ shown[i] \in 1 .. Len(sorted) /\ shown[j] \in 1 .. Len(sorted)
    BY <1>9, <1>14, <1>16
  <2>2. DOMAIN sorted = 1 .. Len(sorted)
    BY <1>7
  <2>3. sorted[shown[i]] # sorted[shown[j]]
    BY <1>7, <2>1, <2>2 DEF IsInjective
  <2> QED BY <1>6, <1>11, <1>15, <2>3
<1>17. ASSUME length < MaxScreens, NEW n \in C, Shown(n) PROVE n \in Range(screens)
  <2>1. PICK k \in 1 .. Len(sorted) : sorted[k] = n
    BY <1>7
  <2>2. n \in Visible
    BY <1>6, <1>17
  <2>3. PICK i \in 1 .. Len(shown) : shown[i] = k
    BY <1>9, <2>1, <2>2
  <2>4. i \in 1 .. length
    BY <1>10, <1>17
  <2> QED BY <1>11, <2>1, <2>3, <2>4 DEF Range
<1>18. ASSUME NEW i \in 1 .. length
       PROVE  Fine(<<>>, keyText[i], TextsOf(Reached(screens[i])))
  <2>1. screens[i] \in Nodes /\ Shown(screens[i]) /\ keyText[i] = RawText(screens[i])
    BY <1>9, <1>11, <1>12, <1>14, <1>15
  <2>2. Fine(<<>>, RawText(screens[i]), TextsOf(Reached(screens[i])))
    BY <2>1, RawIs
  <2> QED BY <2>1, <2>2
<1>19. told'.total = IF Shown(Root)' THEN Cardinality(Reached(Root)') ELSE 0
  BY <1>2, <1>3, <1>4, SummaryIs DEF Shown
<1>20. \A i, j \in DOMAIN told'.screens : i # j => told'.screens[i] \notin Path(told.screens[j])'
  BY <1>3, <1>25, <1>11, <1>16
<1>21. \A n \in Nodes : ScreenLike(n)' => \E top \in OverviewCandidates' : top \in Path(n)'
  BY <1>2, <1>4, <1>5, <1>6 DEF ScreenLike
<1>22. Len(told'.screens) < MaxScreens =>
         {n \in OverviewCandidates' : Shown(n)'} \subseteq Range(told'.screens)
  BY <1>2, <1>3, <1>5, <1>13, <1>17 DEF Shown
<1>23. ASSUME NEW i \in DOMAIN told'.screens
       PROVE  LET found == {nodeKind'[n] : n \in Reached(told.screens[i])'} \cap Texts
                  key == told'.keyText[i]
              IN /\ IsInjective(key) /\ Range(key) \subseteq found
                 /\ Len(key) < MaxText => Range(key) = found
                 /\ Len(key) <= MaxText
  <2>1. i \in 1 .. length
    BY <1>3, <1>11
  <2>2. {nodeKind'[n] : n \in Reached(told.screens[i])'} \cap Texts = TextsOf(Reached(screens[i]))
    BY <1>2, <1>3, <1>25 DEF TextsOf
  <2>3. Range(<<>>) = {}
    BY DEF Range
  <2>4. told'.keyText[i] = keyText[i]
    BY <1>3
  <2>5. Fine(<<>>, keyText[i], TextsOf(Reached(screens[i])))
    BY <1>18, <2>1
  <2> QED BY <2>2, <2>3, <2>4, <2>5 DEF Fine
<1>24. told'.mode # "screen"
  BY <1>3
<1> QED BY <1>19, <1>20, <1>21, <1>22, <1>23, <1>24 DEF ContextFaithful

\* What is told is told of the same tree afterwards.
LEMMA FaithfulStays ==
  ASSUME ContextFaithful, UNCHANGED designVars
  PROVE  ContextFaithful'
<1>1. /\ told' = told /\ nodeKind' = nodeKind /\ visible' = visible /\ parent' = parent
      /\ includeHidden' = includeHidden /\ maxDepth' = maxDepth
  BY DEF designVars
<1>2. \A n : Path(n)' = Path(n) /\ Reached(n)' = Reached(n)
  BY <1>1, PathSame, ReachedSame
<1>3. \A i : /\ Path(told.screens[i])' = Path(told.screens[i])
             /\ Reached(told.screens[i])' = Reached(told.screens[i])
  <2>1. \A i : /\ Path(told.screens[i])' = Path(told'.screens[i])
               /\ Reached(told.screens[i])' = Reached(told'.screens[i])
    BY <1>1, ToldSame
  <2> QED BY <1>1, <2>1
<1>4. OverviewCandidates' = OverviewCandidates
  BY <1>1, CandidatesSame
<1>5. \A n : (ScreenLike(n)' <=> ScreenLike(n)) /\ (Shown(n)' <=> Shown(n))
  BY <1>1 DEF ScreenLike, Shown
<1>6. CASE told.mode = "screen"
  <2>1. told'.mode = "screen" /\ told'.mode # "overview"
    BY <1>1, <1>6
  <2>2. IsInjective(told'.tree) /\ Range(told'.tree) = Reached(Root)'
    BY <1>1, <1>2, <1>6 DEF ContextFaithful
  <2>3. LET place(n) == CHOOSE i \in DOMAIN told'.tree : told'.tree[i] = n
        IN  \A n \in Range(told'.tree) \ {Root} : place(parent'[n]) < place(n)
    BY <1>1, <1>6 DEF ContextFaithful
  <2>4. ASSUME NEW i \in DOMAIN told'.components
        PROVE  Range(told'.components[i].text) =
                 {nodeKind'[n] : n \in {m \in Range(told'.tree) : told'.components[i].node \in Path(m)'}}
                   \cap Texts
    <3>1. Range(told.components[i].text) =
            {nodeKind[n] : n \in {m \in Range(told.tree) : told.components[i].node \in Path(m)}} \cap Texts
      BY <1>1, <1>6 DEF ContextFaithful
    <3>2. {m \in Range(told.tree) : told.components[i].node \in Path(m)'}
            = {m \in Range(told.tree) : told.components[i].node \in Path(m)}
      BY <1>2
    <3> QED BY <1>1, <3>1, <3>2
  <2>5. {c.node : c \in Range(told'.components)} = {n \in Range(told'.tree) : nodeKind'[n] = "component"}
    BY <1>1, <1>6 DEF ContextFaithful
  <2>6. Range(told'.textNodes) = {n \in Range(told'.tree) : nodeKind'[n] \in Texts}
    BY <1>1, <1>6 DEF ContextFaithful
  <2> QED BY <2>1, <2>2, <2>3, <2>4, <2>5, <2>6 DEF ContextFaithful
<1>7. CASE told.mode = "overview"
  <2>1. told'.mode = "overview" /\ told'.mode # "screen"
    BY <1>1, <1>7
  <2>2. told'.total = IF Shown(Root)' THEN Cardinality(Reached(Root)') ELSE 0
    <3>1. Shown(Root)' <=> Shown(Root)
      BY <1>1 DEF Shown
    <3> QED BY <1>1, <1>2, <1>7, <3>1 DEF ContextFaithful
  <2>3. \A i, j \in DOMAIN told'.screens : i # j => told'.screens[i] \notin Path(told.screens[j])'
    BY <1>1, <1>3, <1>7 DEF ContextFaithful
  <2>4. \A n \in Nodes : ScreenLike(n)' => \E top \in OverviewCandidates' : top \in Path(n)'
    BY <1>2, <1>4, <1>5, <1>7 DEF ContextFaithful
  <2>5. Len(told'.screens) < MaxScreens =>
          {n \in OverviewCandidates' : Shown(n)'} \subseteq Range(told'.screens)
    BY <1>1, <1>4, <1>5, <1>7 DEF ContextFaithful
  <2>6. ASSUME NEW i \in DOMAIN told'.screens
        PROVE  LET found == {nodeKind'[n] : n \in Reached(told.screens[i])'} \cap Texts
                   key == told'.keyText[i]
               IN /\ IsInjective(key) /\ Range(key) \subseteq found
                  /\ Len(key) < MaxText => Range(key) = found
                  /\ Len(key) <= MaxText
    <3>1. LET found == {nodeKind[n] : n \in Reached(told.screens[i])} \cap Texts
              key == told.keyText[i]
          IN /\ IsInjective(key) /\ Range(key) \subseteq found
             /\ Len(key) < MaxText => Range(key) = found
             /\ Len(key) <= MaxText
      BY <1>1, <1>7 DEF ContextFaithful
    <3>2. Reached(told.screens[i])' = Reached(told.screens[i])
      BY <1>1, <1>3
    <3> QED BY <1>1, <3>1, <3>2
  <2> QED BY <2>1, <2>2, <2>3, <2>4, <2>5, <2>6 DEF ContextFaithful
<1>8. CASE told.mode # "screen" /\ told.mode # "overview"
  BY <1>1, <1>8 DEF ContextFaithful
<1> QED BY <1>6, <1>7, <1>8

(* The theorem of the design tree: whatever the nesting, the depth and the *)
(* hidden nodes, the root and the nodes above a screen among them: a       *)
(* screen context holds exactly the root and what the options let through  *)
(* below it, parents first, with the texts of each component; an overview  *)
(* counts the same nodes, or none when its root is hidden, none of its     *)
(* screens lies inside another, every screen lies in a candidate, and key  *)
(* texts are distinct, shown inside their screen and complete if they fit. *)
THEOREM ContextTheorem == DesignSpec => []ContextFaithful
<1> DEFINE Inv == DesignTypes /\ ContextFaithful
<1>1. DesignInit => Inv
  <2> SUFFICES ASSUME DesignInit PROVE Inv
    OBVIOUS
  <2>1. DesignTypes
    BY DesignAssumption DEF DesignInit, DesignTypes, IsTree
  <2>2. told.mode = "none"
    BY DEF DesignInit, Nothing
  <2>3. ContextFaithful
    BY <2>2 DEF ContextFaithful
  <2> QED BY <2>1, <2>3
<1>2. Inv /\ [DesignNext]_designVars => Inv'
  <2> SUFFICES ASSUME DesignTypes, ContextFaithful, [DesignNext]_designVars PROVE Inv'
    OBVIOUS
  <2>1. parent' = parent /\ visible' = visible /\ maxDepth' = maxDepth
    BY DEF DesignNext, Screen, Overview, designVars
  <2>2. DesignTypes'
    BY <2>1 DEF DesignTypes, IsTree
  <2>3. ContextFaithful'
    BY ScreenFaithful, OverviewFaithful, FaithfulStays DEF DesignNext
  <2> QED BY <2>2, <2>3
<1>3. Inv => ContextFaithful
  OBVIOUS
<1> QED BY <1>1, <1>2, <1>3, PTL DEF DesignSpec
=============================================================================
