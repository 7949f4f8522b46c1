--------------------------- MODULE MatchingProofs ---------------------------
(***************************************************************************)
(* Proofs about reconciliation.  Matching, whatever the batches, the       *)
(* weights and the limits are: a credit that pass 4 gave to an order       *)
(* proves the payment of no other; solving the components one by one gives *)
(* an optimum of the batch, and finds the ties of the batch; an order is   *)
(* unpaid only on proof, or because its candidates went to others.         *)
(* Certificates: the verifier refuses the certificates of nine kinds of    *)
(* verdict, and no other.                                                  *)
(* Identities, whatever the claims are: the verifier finds of the sources  *)
(* what the issuer found of the events it was handed.                      *)
(***************************************************************************)
EXTENDS Certificates, Identities, CollectionTheorems, SequenceTheorems

-----------------------------------------------------------------------------
(* Components.                                                             *)

\* A component is closed: who shares a candidate with a member is a member.
LEMMA ComponentIsClosed ==
    ASSUME NEW o
    PROVE  Closed(Component(o))
BY DEF Closed, Component

\* An order outside a closed set has its whole component outside it.
LEMMA ComponentIsOutside ==
    ASSUME NEW D \in SUBSET FuzzyOrders, Closed(D), NEW o \in FuzzyOrders \ D
    PROVE  Component(o) \cap D = {}
<1>. DEFINE R == FuzzyOrders \ D
<1>1. Closed(R)
    BY DEF Closed
<1>2. o \in R /\ R \in SUBSET FuzzyOrders
    OBVIOUS
<1>3. Component(o) \subseteq R
    BY <1>1, <1>2 DEF Component
<1>. QED
    BY <1>3

-----------------------------------------------------------------------------
(* Verdicts.                                                               *)

\* The pass 4 credit of an order is behind its verdict.
ByAssignment(o, v) ==
    /\ v.path = "probabilistic"
    /\ o \in FuzzyOrders
    /\ v.credits = {assignment[o].credit}
    /\ assignment[o].credit # 0

\* The credit of a settlement is.
BySettlement(v) == v.path = "exact" /\ v.credits \subseteq Consumed

Backed(o, v) == v.verdict \in Paid => ByAssignment(o, v) \/ BySettlement(v)

\* A settled order refers to a credit that its settlement has consumed.
LEMMA SettledIsBacked ==
    ASSUME NEW o
    PROVE  Backed(o, Settled(o))
<1>. DEFINE hit == HitOf(o)
<1>1. hit.credit # 0 => hit.credit \in Consumed
    BY DEF HitOf, Consumed
<1>2. CASE hit.credit = 0
  <2>1. Settled(o).verdict = "ambiguous"
      BY <1>2 DEF Settled, Abstain
  <2>. QED
      BY <2>1 DEF Backed, Paid
<1>3. CASE hit.credit # 0
  <2>1. Settled(o).credits = {hit.credit} /\ Settled(o).path = "exact"
      BY <1>3 DEF Settled, Abstain
  <2>. QED
      BY <2>1, <1>1, <1>3 DEF Backed, BySettlement
<1>. QED
    BY <1>2, <1>3

\* A match pays with the credit that was assigned, or does not pay.
LEMMA MatchedIsBacked ==
    ASSUME NEW o \in FuzzyOrders, assignment[o].credit # 0
    PROVE  Backed(o, Matched(o, assignment[o].credit))
<1>. DEFINE b == assignment[o].credit
            v == Matched(o, b)
<1>1. v.credits = {b}
    BY DEF Matched, Abstain
<1>2. v.path = "probabilistic" \/ v.verdict = "possible_tds_withholding"
    BY DEF Matched, Abstain
<1>. QED
    BY <1>1, <1>2 DEF Backed, ByAssignment, Paid

\* Pass 4 pays an order with its assignment or not at all.
LEMMA FuzzyIsBacked ==
    ASSUME NEW o
    PROVE  Backed(o, Fuzzy(o))
<1>. DEFINE choice == IF o \in FuzzyOrders THEN assignment[o] ELSE [credit |-> 0, tie |-> FALSE]
            b == choice.credit
<1>1. b # 0 => o \in FuzzyOrders /\ b = assignment[o].credit
    OBVIOUS
<1>2. Unpaid(o, b).verdict = "genuinely_unpaid"
    BY DEF Unpaid, Abstain
<1>3. Fuzzy(o).verdict \in {"ambiguous", "genuinely_unpaid"} \/ (b # 0 /\ Fuzzy(o) = Matched(o, b))
  <2>1. CASE choice.tie
      BY <2>1 DEF Fuzzy, Abstain
  <2>2. CASE ~choice.tie /\ b = 0
      BY <2>2, <1>2 DEF Fuzzy, Abstain
  <2>3. CASE ~choice.tie /\ b # 0
      BY <2>3, <1>2 DEF Fuzzy, Abstain
  <2>. QED
      BY <2>1, <2>2, <2>3
<1>. QED
    BY <1>1, <1>3, MatchedIsBacked DEF Backed, Paid

\* Every verdict is backed.
LEMMA ResolveIsBacked ==
    ASSUME NEW o
    PROVE  Backed(o, Resolve(o))
<1>1. Chargeback(o).verdict = "chargeback_open"
    BY DEF Chargeback, Abstain
<1>2. Resolve(o) \in {Settled(o), Fuzzy(o)}
        \/ Resolve(o).verdict \in {"chargeback_open", "failed_not_debited"}
    BY <1>1 DEF Resolve, Abstain
<1>. QED
    BY <1>2, SettledIsBacked, FuzzyIsBacked DEF Backed, Paid

-----------------------------------------------------------------------------
(* The inductive invariant.                                                *)

\* Pass 4 starts when the settlements are joined and verdicts when it is done.
Staged ==
    /\ pc \in {"settle", "assign", "resolve"}
    /\ pc = "settle" => assignment = <<>>
    /\ pc # "resolve" => verdicts = <<>>
    /\ pc = "resolve" => FuzzyOrders \subseteq DOMAIN assignment

\* The orders assigned so far are whole components, each has one of its own
\* candidates or none, and no two have the same.
Assigned ==
    /\ DOMAIN assignment \subseteq FuzzyOrders
    /\ Closed(DOMAIN assignment)
    /\ \A o \in DOMAIN assignment : assignment[o].credit \in Edges(o) \cup {0}
    /\ \A o, p \in DOMAIN assignment :
          assignment[o].credit = assignment[p].credit /\ assignment[o].credit # 0 => o = p

VerdictsBacked == \A o \in DOMAIN verdicts : Backed(o, verdicts[o])

IInv == Staged /\ Assigned /\ VerdictsBacked

\* A batch starts with nothing joined, assigned or resolved.
LEMMA InitIInv == Init => IInv
<1>. SUFFICES ASSUME Init PROVE IInv
    OBVIOUS
<1>1. DOMAIN assignment = {} /\ DOMAIN verdicts = {}
    BY DEF Init
<1>2. Assigned
    BY <1>1 DEF Assigned, Closed
<1>. QED
    BY <1>1, <1>2 DEF Init, IInv, Staged, VerdictsBacked

\* What a step leaves of the batch and of what was joined leaves the graph of
\* candidates as it was.
LEMMA GraphKept ==
    ASSUME UNCHANGED <<batch, hits>>
    PROVE  /\ FuzzyOrders' = FuzzyOrders
           /\ Consumed' = Consumed
           /\ \A o : Edges(o)' = Edges(o)
           /\ \A S : Closed(S)' = Closed(S)
<1>1. Orders' = Orders /\ Captures' = Captures /\ Credits' = Credits /\ orders' = orders
        /\ captures' = captures /\ bank' = bank
    BY DEF Orders, Captures, Credits, orders, captures, bank
<1>2. Consumed' = Consumed
    BY DEF Consumed
<1>3. \A o : RefundNetZero(o)' = RefundNetZero(o) /\ RowsOf(o)' = RowsOf(o)
    BY <1>1 DEF RefundNetZero, RowsIn, RowsOf, NetSum, NetOf
<1>4. FuzzyOrders' = FuzzyOrders
    BY <1>1, <1>3 DEF FuzzyOrders
<1>5. \A o : Edges(o)' = Edges(o)
    BY <1>1, <1>2 DEF Edges, Pool, CandidateAmounts, TdsNets
<1>. QED
    BY <1>2, <1>4, <1>5 DEF Closed

\* Resolving reads nothing else than the graph and the assignment.
LEMMA BackedKept ==
    ASSUME UNCHANGED <<batch, hits, assignment>>, NEW o, NEW v, Backed(o, v)
    PROVE  Backed(o, v)'
BY GraphKept DEF Backed, ByAssignment, BySettlement

\* A component that is assigned together stays apart from the orders assigned
\* before it, for it shares no candidate with them.
LEMMA ComponentAssigned ==
    ASSUME IInv, pc = "assign", NEW o \in Unassigned, NEW a,
           DOMAIN a = Component(o),
           \A p \in DOMAIN a : a[p].credit \in Edges(p) \cup {0},
           \A p, q \in DOMAIN a : a[p].credit = a[q].credit /\ a[p].credit # 0 => p = q,
           assignment' = Extended(assignment, a),
           UNCHANGED <<batch, pc, hits, verdicts>>
    PROVE  IInv'
<1>. DEFINE D == DOMAIN assignment
            C == Component(o)
<1>1. /\ D \subseteq FuzzyOrders /\ Closed(D)
      /\ C \subseteq FuzzyOrders /\ Closed(C)
      /\ C \cap D = {}
  <2>1. D \subseteq FuzzyOrders /\ Closed(D)
      BY DEF IInv, Assigned
  <2>2. C \subseteq FuzzyOrders
      BY DEF Component
  <2>. QED
      BY <2>1, <2>2, ComponentIsClosed, ComponentIsOutside DEF Unassigned
<1>2. /\ DOMAIN assignment' = D \cup C
      /\ \A p \in D : assignment'[p] = assignment[p]
      /\ \A p \in C : assignment'[p] = a[p]
    BY <1>1 DEF Extended
<1>3. Closed(D \cup C)
    BY <1>1 DEF Closed
<1>4. \A p \in D \cup C : assignment'[p].credit \in Edges(p) \cup {0}
    BY <1>2 DEF IInv, Assigned
<1>5. ASSUME NEW p \in D \cup C, NEW q \in D \cup C,
             assignment'[p].credit = assignment'[q].credit, assignment'[p].credit # 0
      PROVE  p = q
  <2>1. Edges(p) \cap Edges(q) # {}
      BY <1>4, <1>5
  <2>2. p \in D <=> q \in D
      BY <2>1, <1>1 DEF Closed
  <2>3. CASE p \in D
      BY <2>2, <2>3, <1>2, <1>5 DEF IInv, Assigned
  <2>4. CASE p \notin D
      BY <2>2, <2>4, <1>2, <1>5
  <2>. QED
      BY <2>3, <2>4
<1>6. Assigned'
    BY <1>1, <1>2, <1>3, <1>4, <1>5, GraphKept DEF Assigned
<1>7. Staged'
    BY DEF IInv, Staged
<1>8. VerdictsBacked'
    BY DEF IInv, Staged, VerdictsBacked
<1>. QED
    BY <1>6, <1>7, <1>8 DEF IInv

\* Every step keeps the invariant.
LEMMA StepIInv == IInv /\ [Next]_vars => IInv'
<1>. SUFFICES ASSUME IInv, [Next]_vars PROVE IInv'
    OBVIOUS
<1>1. CASE JoinSettlement
  <2>1. assignment' = <<>> /\ verdicts' = <<>> /\ pc' = "settle"
      BY <1>1 DEF JoinSettlement, IInv, Staged
  <2>2. DOMAIN assignment' = {} /\ DOMAIN verdicts' = {}
      BY <2>1
  <2>3. Assigned'
      BY <2>2 DEF Assigned, Closed
  <2>. QED
      BY <2>1, <2>2, <2>3 DEF IInv, Staged, VerdictsBacked
<1>2. CASE CloseSettlements
  <2>1. UNCHANGED <<batch, hits, assignment, verdicts>> /\ pc = "settle" /\ pc' = "assign"
      BY <1>2 DEF CloseSettlements
  <2>2. Assigned'
      BY <2>1, GraphKept DEF IInv, Assigned
  <2>. QED
      BY <2>1, <2>2 DEF IInv, Staged, VerdictsBacked
<1>3. CASE AssignComponent
  <2>1. PICK o \in Unassigned : \E a \in ComponentAssignment(Component(o)) :
            assignment' = Extended(assignment, a)
      BY <1>3 DEF AssignComponent, First
  <2>2. PICK a \in ComponentAssignment(Component(o)) : assignment' = Extended(assignment, a)
      BY <2>1
  <2>3. PICK m \in Matchings(Component(o)) :
            a = [p \in Component(o) |->
                    [credit |-> m[p], tie |-> \E n \in NearOptimal(Component(o)) : n[p] # m[p]]]
      BY <2>2 DEF ComponentAssignment, Optimal
  <2>4. /\ DOMAIN a = Component(o)
        /\ \A p \in DOMAIN a : a[p].credit = m[p]
      BY <2>3
  <2>5. /\ \A p \in DOMAIN a : a[p].credit \in Edges(p) \cup {0}
        /\ \A p, q \in DOMAIN a : a[p].credit = a[q].credit /\ a[p].credit # 0 => p = q
      BY <2>3, <2>4 DEF Matchings
  <2>. QED
      BY <1>3, <2>2, <2>4, <2>5, ComponentAssigned DEF AssignComponent
<1>4. CASE AbstainOnComponent
  <2>1. PICK o \in Unassigned : assignment' =
            Extended(assignment, [p \in Component(o) |-> [credit |-> 0, tie |-> TRUE]])
      BY <1>4 DEF AbstainOnComponent, First
  <2>. DEFINE a == [p \in Component(o) |-> [credit |-> 0, tie |-> TRUE]]
  <2>2. DOMAIN a = Component(o) /\ \A p \in DOMAIN a : a[p].credit = 0
      OBVIOUS
  <2>. HIDE DEF a
  <2>. QED
      BY <1>4, <2>1, <2>2, ComponentAssigned DEF AbstainOnComponent, a
<1>5. CASE CloseAssignment
  <2>1. /\ UNCHANGED <<batch, hits, assignment, verdicts>>
        /\ pc = "assign" /\ pc' = "resolve"
        /\ FuzzyOrders \subseteq DOMAIN assignment
      BY <1>5 DEF CloseAssignment, Unassigned
  <2>2. Assigned' /\ FuzzyOrders' = FuzzyOrders
      BY <2>1, GraphKept DEF IInv, Assigned
  <2>. QED
      BY <2>1, <2>2 DEF IInv, Staged, VerdictsBacked
<1>6. CASE ResolveOrder
  <2>1. PICK o : verdicts' = Extended(verdicts, [q \in {o} |-> Resolve(q)])
      BY <1>6 DEF ResolveOrder
  <2>2. UNCHANGED <<batch, pc, hits, assignment>> /\ pc = "resolve"
      BY <1>6 DEF ResolveOrder
  <2>3. Assigned' /\ FuzzyOrders' = FuzzyOrders
      BY <2>2, GraphKept DEF IInv, Assigned
  <2>4. ASSUME NEW p \in DOMAIN verdicts', NEW v, v = verdicts'[p]
        PROVE  Backed(p, v)'
    <3>1. verdicts'[p] \in {verdicts[p], Resolve(p)} /\ (p \notin DOMAIN verdicts => verdicts'[p] = Resolve(p))
            /\ (p \in DOMAIN verdicts => verdicts'[p] = verdicts[p])
        BY <2>1 DEF Extended
    <3>2. Backed(p, v)
        BY <2>4, <3>1, ResolveIsBacked DEF IInv, VerdictsBacked
    <3>. QED
        BY <3>2, <2>2, BackedKept
  <2>5. VerdictsBacked'
      BY <2>4 DEF VerdictsBacked
  <2>. QED
      BY <2>2, <2>3, <2>5 DEF IInv, Staged
<1>7. CASE UNCHANGED vars
  <2>1. UNCHANGED <<batch, pc, hits, assignment, verdicts>>
      BY <1>7 DEF vars
  <2>2. Assigned' /\ FuzzyOrders' = FuzzyOrders
      BY <2>1, GraphKept DEF IInv, Assigned
  <2>3. VerdictsBacked'
      BY <2>1, BackedKept DEF IInv, VerdictsBacked
  <2>. QED
      BY <2>1, <2>2, <2>3 DEF IInv, Staged
<1>. QED
    BY <1>1, <1>2, <1>3, <1>4, <1>5, <1>6, <1>7 DEF Next

\* The pool that pass 4 assigns from holds nothing that was consumed.
LEMMA IInvImplies == IInv => FuzzyCreditProvesOnce
<1>. SUFFICES ASSUME IInv, NEW o \in PaidOrders, NEW p \in PaidOrders, o # p,
                     verdicts[o].path = "probabilistic"
              PROVE  verdicts[o].credits \cap verdicts[p].credits = {}
    BY DEF FuzzyCreditProvesOnce
<1>. DEFINE b == assignment[o].credit
<1>1. o \in FuzzyOrders /\ verdicts[o].credits = {b} /\ b # 0
    BY DEF IInv, VerdictsBacked, PaidOrders, Backed, ByAssignment, BySettlement
<1>2. pc = "resolve"
    BY DEF IInv, Staged, PaidOrders
<1>3. FuzzyOrders \subseteq DOMAIN assignment
    BY <1>2 DEF IInv, Staged
<1>4. b \in Pool
    BY <1>1, <1>3 DEF IInv, Assigned, Edges
<1>5. CASE BySettlement(verdicts[p])
    BY <1>5, <1>1, <1>4 DEF BySettlement, Pool
<1>6. CASE ByAssignment(p, verdicts[p])
    BY <1>6, <1>1, <1>3 DEF ByAssignment, IInv, Assigned
<1>. QED
    BY <1>5, <1>6 DEF IInv, VerdictsBacked, PaidOrders, Backed

\* A credit that pass 4 gave to an order proves the payment of no other order
\* (recon.py:159-162, 271-272), for every batch, weight, margin and limit.
THEOREM FuzzyCreditIsProvenOnce == Spec => []FuzzyCreditProvesOnce
<1>1. Spec => []IInv
    BY InitIInv, StepIInv, PTL DEF Spec
<1>. QED
    BY <1>1, IInvImplies, PTL

-----------------------------------------------------------------------------
(* Matchings of sets of orders that share no candidate.                    *)

\* What the sources say of a batch bounds the graph of candidates.
LEMMA GraphShape ==
    ASSUME IsBatch(batch)
    PROVE  /\ IsFiniteSet(FuzzyOrders) /\ IsFiniteSet(Pool)
           /\ 0 \notin Pool
           /\ \A o \in FuzzyOrders, b \in Pool : Weight(o, b) \in Int
           /\ \A o : Edges(o) \subseteq Pool
<1>1. Len(orders) \in Nat /\ Len(bank) \in Nat
  <2>1. orders \in Seq(Order) /\ bank \in Seq(BankTxn)
      BY DEF IsBatch, orders, bank
  <2>. QED
      BY <2>1, LenProperties
<1>2. FuzzyOrders \subseteq 1..Len(orders) /\ Pool \subseteq 1..Len(bank)
    BY DEF FuzzyOrders, Orders, Pool, Credits
<1>3. IsFiniteSet(1..Len(orders)) /\ IsFiniteSet(1..Len(bank))
    BY <1>1, FS_Interval
<1>4. IsFiniteSet(FuzzyOrders) /\ IsFiniteSet(Pool)
    BY <1>2, <1>3, FS_Subset
<1>5. \A o \in 1..Len(orders), b \in 1..Len(bank) : Weight(o, b) \in Int
    BY DEF IsBatch, Weight, orders, bank
<1>6. 0 \notin Pool
    BY <1>1, <1>2
<1>. QED
    BY <1>2, <1>4, <1>5, <1>6 DEF Edges

Worth(m) == [o \in DOMAIN m |-> IF m[o] = 0 THEN 0 ELSE Weight(o, m[o])]

LEMMA TotalIsSum ==
    ASSUME NEW m
    PROVE  Total(m) = SumOf(Worth(m), DOMAIN m)
<1>1. DOMAIN Worth(m) = DOMAIN m
    BY DEF Worth
<1>2. Total(m) = SumFunction(Worth(m))
    BY DEF Total, Worth
<1>. QED
    BY <1>1, <1>2, SumsAgree

LEMMA MatchingShape ==
    ASSUME IsBatch(batch), NEW S \in SUBSET FuzzyOrders, NEW m \in Matchings(S)
    PROVE  /\ DOMAIN m = S /\ IsFiniteSet(S)
           /\ \A o \in S : m[o] \in Edges(o) \cup {0} /\ Worth(m)[o] \in Int
           /\ Total(m) \in Int
<1>1. DOMAIN m = S /\ m = [o \in S |-> m[o]] /\ IsFiniteSet(S)
    BY GraphShape, FS_Subset DEF Matchings
<1>2. \A o \in S : m[o] \in Edges(o) \cup {0}
    BY DEF Matchings
<1>3. \A o \in S : Worth(m)[o] \in Int
    BY <1>1, <1>2, GraphShape DEF Worth
<1>4. SumOf(Worth(m), S) \in Int
    BY <1>1, <1>3, SumIntSteps
<1>. QED
    BY <1>1, <1>2, <1>3, <1>4, TotalIsSum

\* Two sets of orders no credit is a candidate of both of.
Apart(A, B) ==
    /\ A \in SUBSET FuzzyOrders /\ B \in SUBSET FuzzyOrders
    /\ A \cap B = {}
    /\ \A p \in A, q \in B : Edges(p) \cap Edges(q) = {}

LEMMA ApartBothWays ==
    ASSUME NEW A, NEW B, Apart(A, B)
    PROVE  Apart(B, A)
BY DEF Apart

WorthBoth(k, m, n) == Total(k) = Total(m) + Total(n)

\* A matching of each makes one of both, worth what the two are.
LEMMA MatchingsJoin ==
    ASSUME IsBatch(batch), NEW A, NEW B, Apart(A, B),
           NEW m \in Matchings(A), NEW n \in Matchings(B)
    PROVE  /\ Extended(m, n) \in Matchings(A \cup B)
           /\ WorthBoth(Extended(m, n), m, n)
           /\ \A o \in A : Extended(m, n)[o] = m[o]
           /\ \A o \in B : Extended(m, n)[o] = n[o]
<1>. DEFINE k == Extended(m, n)
<1>1. /\ A \in SUBSET FuzzyOrders /\ B \in SUBSET FuzzyOrders /\ A \cap B = {}
      /\ \A p \in A, q \in B : Edges(p) \cap Edges(q) = {}
    BY DEF Apart
<1>2. /\ DOMAIN m = A /\ DOMAIN n = B /\ IsFiniteSet(A) /\ IsFiniteSet(B)
      /\ \A o \in A : m[o] \in Edges(o) \cup {0} /\ Worth(m)[o] \in Int
      /\ \A o \in B : n[o] \in Edges(o) \cup {0} /\ Worth(n)[o] \in Int
    BY <1>1, MatchingShape
<1>3. /\ k = [o \in A \cup B |-> IF o \in A THEN m[o] ELSE n[o]]
      /\ DOMAIN k = A \cup B
      /\ \A o \in A : k[o] = m[o]
      /\ \A o \in B : k[o] = n[o]
    BY <1>1, <1>2 DEF Extended
<1>. HIDE DEF k
<1>4. \A o \in A \cup B : k[o] \in Edges(o) \cup {0}
    BY <1>2, <1>3
<1>5. k \in [A \cup B -> Pool \cup {0}]
  <2>1. \A o \in A \cup B : k[o] \in Pool \cup {0}
      BY <1>4 DEF Edges
  <2>. QED
      BY <1>3, <2>1
<1>6. ASSUME NEW p \in A \cup B, NEW q \in A \cup B, k[p] = k[q], k[p] # 0
      PROVE  p = q
  <2>1. k[p] \in Edges(p) /\ k[p] \in Edges(q)
      BY <1>4, <1>6
  <2>2. p \in A <=> q \in A
      BY <1>1, <1>6, <2>1
  <2>3. CASE p \in A
      BY <1>3, <1>6, <2>2, <2>3 DEF Matchings
  <2>4. CASE p \notin A
      BY <1>3, <1>6, <2>2, <2>4 DEF Matchings
  <2>. QED
      BY <2>3, <2>4
<1>7. k \in Matchings(A \cup B)
    BY <1>4, <1>5, <1>6 DEF Matchings
<1>8. /\ \A o \in A : Worth(k)[o] = Worth(m)[o]
      /\ \A o \in B : Worth(k)[o] = Worth(n)[o]
    BY <1>2, <1>3 DEF Worth
<1>9. SumOf(Worth(k), A) = SumOf(Worth(m), A)
    BY <1>2, <1>8, SumSame
<1>10. SumOf(Worth(k), B) = SumOf(Worth(n), B)
    BY <1>2, <1>8, SumSame
<1>11. \A o \in A \cup B : Worth(k)[o] \in Int
    BY <1>2, <1>8
<1>12. SumOf(Worth(k), A \cup B) = SumOf(Worth(k), A) + SumOf(Worth(k), B)
    BY <1>1, <1>2, <1>11, SumSplit
<1>13. Total(k) = Total(m) + Total(n)
    BY <1>2, <1>3, <1>9, <1>10, <1>12, TotalIsSum
<1>. QED
    BY <1>3, <1>7, <1>13 DEF k, WorthBoth

\* The part of a matching that is about S.
PartOf(m, S) == [o \in S |-> m[o]]

\* A matching of both is one of each.
LEMMA MatchingsPart ==
    ASSUME IsBatch(batch), NEW A, NEW B, Apart(A, B), NEW k \in Matchings(A \cup B)
    PROVE  /\ PartOf(k, A) \in Matchings(A) /\ PartOf(k, B) \in Matchings(B)
           /\ WorthBoth(k, PartOf(k, A), PartOf(k, B))
<1>1. /\ PartOf(k, A) \in Matchings(A) /\ PartOf(k, B) \in Matchings(B)
      /\ DOMAIN PartOf(k, A) = A /\ DOMAIN PartOf(k, B) = B
    BY DEF Matchings, PartOf
<1>2. DOMAIN k = A \cup B /\ k = [o \in A \cup B |-> k[o]]
    BY DEF Matchings
<1>3. Extended(PartOf(k, A), PartOf(k, B)) = k
  <2>1. Extended(PartOf(k, A), PartOf(k, B))
            = [o \in A \cup B |-> IF o \in A THEN k[o] ELSE k[o]]
      BY <1>1 DEF Extended, PartOf
  <2>. QED
      BY <1>2, <2>1
<1>. QED
    BY <1>1, <1>3, MatchingsJoin

\* Optima of two sets that are apart make one of both: a matching of both is
\* worth what its parts are, and those are worth no more than the optima.
LEMMA OptimaJoin ==
    ASSUME IsBatch(batch), NEW A, NEW B, Apart(A, B),
           NEW a \in Optimal(A), NEW b \in Optimal(B)
    PROVE  Extended(a, b) \in Optimal(A \cup B)
<1>0. a \in Matchings(A) /\ b \in Matchings(B)
    BY DEF Optimal
<1>1. /\ a \in Matchings(A) /\ b \in Matchings(B)
      /\ A \in SUBSET FuzzyOrders /\ B \in SUBSET FuzzyOrders
    BY <1>0 DEF Apart
<1>2. /\ Extended(a, b) \in Matchings(A \cup B)
      /\ WorthBoth(Extended(a, b), a, b)
    BY <1>0, MatchingsJoin
<1>3. ASSUME NEW k \in Matchings(A \cup B)
      PROVE  Total(k) <= Total(Extended(a, b))
  <2>1. /\ PartOf(k, A) \in Matchings(A) /\ PartOf(k, B) \in Matchings(B)
        /\ WorthBoth(k, PartOf(k, A), PartOf(k, B))
      BY MatchingsPart
  <2>2. Total(PartOf(k, A)) <= Total(a) /\ Total(PartOf(k, B)) <= Total(b)
      BY <2>1 DEF Optimal
  <2>3. /\ Total(PartOf(k, A)) \in Int /\ Total(PartOf(k, B)) \in Int
        /\ Total(a) \in Int /\ Total(b) \in Int
      BY <1>1, <2>1, MatchingShape
  <2>. QED
      BY <1>2, <2>1, <2>2, <2>3 DEF WorthBoth
<1>. QED
    BY <1>2, <1>3 DEF Optimal

\* A matching near the optimum of one is part of one near that of both.
LEMMA NearJoins ==
    ASSUME IsBatch(batch), NEW A, NEW B, Apart(A, B),
           NEW a \in NearOptimal(A), NEW b \in Optimal(B)
    PROVE  Extended(a, b) \in NearOptimal(A \cup B)
<1>0. a \in Matchings(A) /\ b \in Matchings(B)
    BY DEF Optimal, NearOptimal
<1>1. /\ a \in Matchings(A) /\ b \in Matchings(B)
      /\ A \in SUBSET FuzzyOrders /\ B \in SUBSET FuzzyOrders
    BY <1>0 DEF Apart
<1>2. /\ Extended(a, b) \in Matchings(A \cup B)
      /\ WorthBoth(Extended(a, b), a, b)
    BY <1>0, MatchingsJoin
<1>3. ASSUME NEW k \in Matchings(A \cup B)
      PROVE  Total(Extended(a, b)) >= Total(k) - TIE_MARGIN_POINTS
  <2>1. /\ PartOf(k, A) \in Matchings(A) /\ PartOf(k, B) \in Matchings(B)
        /\ WorthBoth(k, PartOf(k, A), PartOf(k, B))
      BY MatchingsPart
  <2>2. /\ Total(a) >= Total(PartOf(k, A)) - TIE_MARGIN_POINTS
        /\ Total(PartOf(k, B)) <= Total(b)
      BY <2>1 DEF Optimal, NearOptimal
  <2>3. /\ Total(PartOf(k, A)) \in Int /\ Total(PartOf(k, B)) \in Int
        /\ Total(a) \in Int /\ Total(b) \in Int /\ TIE_MARGIN_POINTS \in Int
      BY <1>1, <2>1, MatchingShape, MatchingConstants DEF MatchingConstants
  <2>. QED
      BY <1>2, <2>1, <2>2, <2>3 DEF WorthBoth
<1>. QED
    BY <1>2, <1>3 DEF NearOptimal

\* And a part of one near the optimum of both is near that of its own: else
\* exchanging it for a better one would leave the whole further off.
LEMMA NearParts ==
    ASSUME IsBatch(batch), NEW A, NEW B, Apart(A, B), NEW k \in NearOptimal(A \cup B)
    PROVE  PartOf(k, A) \in NearOptimal(A)
<1>. DEFINE a == PartOf(k, A)
            b == PartOf(k, B)
<1>1. /\ a \in Matchings(A) /\ b \in Matchings(B) /\ k \in Matchings(A \cup B)
      /\ WorthBoth(k, a, b)
      /\ A \in SUBSET FuzzyOrders /\ B \in SUBSET FuzzyOrders
    BY MatchingsPart DEF NearOptimal, Apart
<1>. HIDE DEF a, b
<1>2. ASSUME NEW m \in Matchings(A)
      PROVE  Total(a) >= Total(m) - TIE_MARGIN_POINTS
  <2>1. /\ Extended(m, b) \in Matchings(A \cup B)
        /\ WorthBoth(Extended(m, b), m, b)
      BY <1>1, MatchingsJoin
  <2>2. Total(k) >= Total(Extended(m, b)) - TIE_MARGIN_POINTS
      BY <2>1 DEF NearOptimal
  <2>3. /\ Total(a) \in Int /\ Total(b) \in Int /\ Total(m) \in Int
        /\ TIE_MARGIN_POINTS \in Int
      BY <1>1, MatchingShape, MatchingConstants DEF MatchingConstants
  <2>. QED
      BY <1>1, <2>1, <2>2, <2>3 DEF WorthBoth
<1>3. a \in NearOptimal(A)
    BY <1>1, <1>2 DEF NearOptimal
<1>. QED
    BY <1>3 DEF a

\* Two matchings within the margin of the best disagree about o.
Disputed(S, o) == \E m, n \in NearOptimal(S) : m[o] # n[o]

\* So what is disputed within one of two sets that are apart is what is
\* disputed in both together.
LEMMA DisputesJoin ==
    ASSUME IsBatch(batch), NEW A, NEW B, Apart(A, B), Optimal(B) # {}, NEW o \in A
    PROVE  Disputed(A \cup B, o) <=> Disputed(A, o)
<1>1. ASSUME Disputed(A \cup B, o) PROVE Disputed(A, o)
  <2>1. PICK m \in NearOptimal(A \cup B) : \E n \in NearOptimal(A \cup B) : m[o] # n[o]
      BY <1>1 DEF Disputed
  <2>2. PICK n \in NearOptimal(A \cup B) : m[o] # n[o]
      BY <2>1
  <2>3. PartOf(m, A) \in NearOptimal(A) /\ PartOf(n, A) \in NearOptimal(A)
      BY NearParts
  <2>4. PartOf(m, A)[o] = m[o] /\ PartOf(n, A)[o] = n[o]
      BY DEF PartOf
  <2>. QED
      BY <2>2, <2>3, <2>4 DEF Disputed
<1>2. ASSUME Disputed(A, o) PROVE Disputed(A \cup B, o)
  <2>1. PICK m \in NearOptimal(A) : \E n \in NearOptimal(A) : m[o] # n[o]
      BY <1>2 DEF Disputed
  <2>2. PICK n \in NearOptimal(A) : m[o] # n[o]
      BY <2>1
  <2>3. PICK b \in Optimal(B) : TRUE
      OBVIOUS
  <2>4. Extended(m, b) \in NearOptimal(A \cup B) /\ Extended(n, b) \in NearOptimal(A \cup B)
      BY NearJoins
  <2>5. m \in Matchings(A) /\ n \in Matchings(A) /\ b \in Matchings(B)
      BY DEF NearOptimal, Optimal
  <2>6. Extended(m, b)[o] = m[o] /\ Extended(n, b)[o] = n[o]
      BY <2>5 DEF Extended, Matchings
  <2>. QED
      BY <2>2, <2>4, <2>6 DEF Disputed
<1>. QED
    BY <1>1, <1>2

\* An order that all matchings near the optimum give the same credit gains more
\* by it than the margin: without that credit the matching would not be near.
LEMMA UndisputedGains ==
    ASSUME IsBatch(batch), NEW S \in SUBSET FuzzyOrders, NEW m \in Optimal(S), NEW o \in S,
           m[o] # 0, \A n \in NearOptimal(S) : n[o] = m[o]
    PROVE  Weight(o, m[o]) > TIE_MARGIN_POINTS
<1>. DEFINE n == [m EXCEPT ![o] = 0]
<1>1. m \in Matchings(S) /\ DOMAIN m = S /\ TIE_MARGIN_POINTS \in Int
    BY MatchingConstants DEF Optimal, Matchings, MatchingConstants
<1>2. n \in Matchings(S) /\ n[o] = 0 /\ DOMAIN n = S /\ \A p \in S \ {o} : n[p] = m[p]
    BY <1>1 DEF Matchings
<1>. HIDE DEF n
<1>3. n \notin NearOptimal(S)
    BY <1>2
<1>4. PICK k \in Matchings(S) : ~(Total(n) >= Total(k) - TIE_MARGIN_POINTS)
    BY <1>2, <1>3 DEF NearOptimal
<1>5. Total(k) <= Total(m)
    BY DEF Optimal
<1>6. /\ IsFiniteSet(S) /\ Total(m) \in Int /\ Total(n) \in Int /\ Total(k) \in Int
      /\ \A p \in S : Worth(m)[p] \in Int
      /\ \A p \in S : Worth(n)[p] \in Int
    BY <1>1, <1>2, MatchingShape
<1>7. /\ Worth(m)[o] = Weight(o, m[o]) /\ Worth(n)[o] = 0
      /\ \A p \in S \ {o} : Worth(n)[p] = Worth(m)[p]
    BY <1>1, <1>2 DEF Worth
<1>8. SumOf(Worth(m), S) = Worth(m)[o] + SumOf(Worth(m), S \ {o})
    BY <1>6, SumIntSteps
<1>9. SumOf(Worth(n), S) = Worth(n)[o] + SumOf(Worth(n), S \ {o})
    BY <1>6, SumIntSteps
<1>10. IsFiniteSet(S \ {o}) /\ \A p \in S \ {o} : Worth(m)[p] \in Int
    BY <1>6, FS_Subset
<1>11. SumOf(Worth(n), S \ {o}) = SumOf(Worth(m), S \ {o}) /\ SumOf(Worth(m), S \ {o}) \in Int
    BY <1>7, <1>10, SumSame, SumIntSteps
<1>12. Weight(o, m[o]) \in Int
    BY <1>6, <1>7
<1>13. Total(m) = Weight(o, m[o]) + Total(n)
    BY <1>1, <1>2, <1>7, <1>8, <1>9, <1>11, <1>12, TotalIsSum
<1>. QED
    BY <1>1, <1>4, <1>5, <1>6, <1>12, <1>13

-----------------------------------------------------------------------------
(* Components are solved one by one.                                        *)

\* An order is of its component, and the members of one have it in common.
LEMMA ComponentsPartition ==
    ASSUME NEW o \in FuzzyOrders
    PROVE  /\ o \in Component(o) /\ Component(o) \in SUBSET FuzzyOrders
           /\ \A p \in Component(o) : Component(p) = Component(o)
<1>1. o \in Component(o) /\ Component(o) \in SUBSET FuzzyOrders
    BY DEF Component
<1>2. ASSUME NEW p \in Component(o)
      PROVE  Component(p) \subseteq Component(o)
    BY <1>2 DEF Component
<1>3. ASSUME NEW p \in Component(o)
      PROVE  o \in Component(p)
  <2>1. p \in FuzzyOrders /\ Closed(Component(p)) /\ p \in Component(p)
      BY <1>3, ComponentIsClosed DEF Component
  <2>2. CASE o \notin Component(p)
    <3>1. Component(o) \cap Component(p) = {}
        BY <2>1, <2>2, ComponentIsOutside DEF Component
    <3>. QED
        BY <1>3, <2>1, <3>1
  <2>. QED
      BY <2>2
<1>4. ASSUME NEW p \in Component(o)
      PROVE  Component(o) \subseteq Component(p)
    BY <1>3, <1>4 DEF Component
<1>. QED
    BY <1>1, <1>2, <1>4

\* The members of a component are enumerated together or not at all.
LEMMA ComponentIsEnumerated ==
    ASSUME IsBatch(batch), NEW o \in FuzzyOrders
    PROVE  /\ EdgeCount(Component(o)) <= MAX_COMPONENT_EDGES => Component(o) \subseteq Enumerated
           /\ EdgeCount(Component(o)) > MAX_COMPONENT_EDGES => Component(o) \cap Enumerated = {}
<1>. DEFINE C == Component(o)
            h == [p \in C |-> Cardinality(Edges(p))]
<1>1. C \in SUBSET FuzzyOrders /\ \A p \in C : Component(p) = C
    BY ComponentsPartition
<1>2. EdgeCount(C) \in Int /\ MAX_COMPONENT_EDGES \in Int
  <2>1. IsFiniteSet(C) /\ \A p \in C : IsFiniteSet(Edges(p))
      BY <1>1, GraphShape, FS_Subset
  <2>2. \A p \in C : h[p] \in Int
      BY <2>1, FS_CardinalityType
  <2>3. EdgeCount(C) = SumFunction(h) /\ DOMAIN h = C
      BY DEF EdgeCount
  <2>. HIDE DEF h, C
  <2>4. EdgeCount(C) \in Int
      BY <2>1, <2>2, <2>3, SumsAgree, SumIntSteps
  <2>. QED
      BY <2>4, MatchingConstants DEF MatchingConstants
<1>. HIDE DEF C
<1>3. EdgeCount(C) > MAX_COMPONENT_EDGES <=> ~(EdgeCount(C) <= MAX_COMPONENT_EDGES)
    BY <1>2
<1>4. \A p \in C : p \in Enumerated <=> EdgeCount(C) <= MAX_COMPONENT_EDGES
    BY <1>1 DEF Enumerated
<1>. QED
    BY <1>3, <1>4 DEF C

\* Of the orders assigned so far, those of enumerated components have an
\* optimum over all of them, and are tied exactly if they are disputed; the
\* others are tied.  What is not tied gains more than the margin.
SolvedOrders == DOMAIN assignment \cap Enumerated
Chosen(S) == [o \in S |-> assignment[o].credit]

Solved ==
    /\ Chosen(SolvedOrders) \in Optimal(SolvedOrders)
    /\ \A o \in DOMAIN assignment :
          /\ assignment[o].tie <=> (o \notin Enumerated \/ Disputed(SolvedOrders, o))
          /\ ~assignment[o].tie /\ assignment[o].credit # 0 =>
                Weight(o, assignment[o].credit) > TIE_MARGIN_POINTS

\* Nothing is solved of no order.
LEMMA NothingIsSolved == assignment = <<>> => Solved
<1>. SUFFICES ASSUME assignment = <<>> PROVE Solved
    OBVIOUS
<1>1. DOMAIN assignment = {} /\ SolvedOrders = {}
    BY DEF SolvedOrders
<1>2. Chosen({}) \in Matchings({})
    BY DEF Chosen, Matchings
<1>3. \A m \in Matchings({}) : Total(m) = 0
  <2>1. \A m \in Matchings({}) : DOMAIN m = {}
      BY DEF Matchings
  <2>. QED
      BY <2>1, TotalIsSum, SumOfNone
<1>4. Chosen({}) \in Optimal({})
  <2>1. \A m, n \in Matchings({}) : Total(m) <= Total(n)
      BY <1>3
  <2>. QED
      BY <1>2, <2>1 DEF Optimal
<1>. QED
    BY <1>1, <1>4 DEF Solved

\* What a step leaves of the batch and of what was joined leaves the matchings
\* and what they are worth.
LEMMA MatchingsKept ==
    ASSUME UNCHANGED <<batch, hits>>
    PROVE  /\ Enumerated' = Enumerated
           /\ \A S : Optimal(S)' = Optimal(S)
           /\ \A S : NearOptimal(S)' = NearOptimal(S)
           /\ \A o, b : Weight(o, b)' = Weight(o, b)
<1>1. FuzzyOrders' = FuzzyOrders /\ Pool' = Pool
    BY GraphKept DEF Pool, Credits, bank
<1>2. \A o : Edges(o)' = Edges(o)
    BY GraphKept
<1>3. \A o : Component(o)' = Component(o)
    BY <1>1, GraphKept DEF Component
<1>4. \A o, b : Weight(o, b)' = Weight(o, b)
    BY DEF Weight
<1>5. \A S : EdgeCount(S)' = EdgeCount(S)
    BY <1>2 DEF EdgeCount
<1>6. Enumerated' = Enumerated
    BY <1>1, <1>3, <1>5 DEF Enumerated
<1>7. \A S : Matchings(S)' = Matchings(S)
    BY <1>1, <1>2 DEF Matchings
<1>8. \A m : Total(m)' = Total(m)
    BY <1>4 DEF Total
<1>9. \A S : Optimal(S)' = Optimal(S)
    BY <1>7, <1>8 DEF Optimal
<1>10. \A S : NearOptimal(S)' = NearOptimal(S)
    BY <1>7, <1>8 DEF NearOptimal
<1>. QED
    BY <1>4, <1>6, <1>9, <1>10

LEMMA SolvedKept ==
    ASSUME UNCHANGED <<batch, hits, assignment>>, Solved
    PROVE  Solved'
<1>1. /\ SolvedOrders' = SolvedOrders
      /\ \A S, o : Disputed(S, o)' = Disputed(S, o)
      /\ \A S : Chosen(S)' = Chosen(S)
    BY MatchingsKept DEF SolvedOrders, Disputed, Chosen
<1>. QED
    BY <1>1, MatchingsKept DEF Solved

\* A component that is enumerated adds its optimum to what is solved, and
\* changes nothing of what was tied before.
LEMMA ComponentSolved ==
    ASSUME IsBatch(batch), Assigned, Solved, NEW o \in Unassigned,
           EdgeCount(Component(o)) <= MAX_COMPONENT_EDGES,
           NEW a \in ComponentAssignment(Component(o)),
           assignment' = Extended(assignment, a), UNCHANGED <<batch, hits>>
    PROVE  Solved'
<1>0. PICK D, E, C : D = DOMAIN assignment /\ E = SolvedOrders /\ C = Component(o)
    OBVIOUS
<1>1. PICK m \in Optimal(C) :
          a = [p \in C |-> [credit |-> m[p], tie |-> \E n \in NearOptimal(C) : n[p] # m[p]]]
    BY <1>0 DEF ComponentAssignment
<1>2. /\ D \subseteq FuzzyOrders /\ C \subseteq FuzzyOrders /\ Closed(D) /\ o \in FuzzyOrders
      /\ C \cap D = {}
    BY <1>0, ComponentIsOutside, ComponentsPartition DEF Assigned, Unassigned
<1>3. C \subseteq Enumerated /\ E = D \cap Enumerated /\ E \subseteq FuzzyOrders
    BY <1>0, <1>2, ComponentIsEnumerated DEF SolvedOrders
<1>4. Apart(E, C)
    BY <1>2, <1>3 DEF Apart, Closed
<1>5. Apart(C, E)
    BY <1>4, ApartBothWays
<1>6. m \in Matchings(C) /\ m \in NearOptimal(C) /\ DOMAIN m = C
  <2>1. m \in Matchings(C) /\ \A n \in Matchings(C) : Total(n) <= Total(m)
      BY DEF Optimal
  <2>2. Total(m) \in Int /\ \A n \in Matchings(C) : Total(n) \in Int
      BY <1>2, <2>1, MatchingShape
  <2>3. \A n \in Matchings(C) : Total(m) >= Total(n) - TIE_MARGIN_POINTS
      BY <2>1, <2>2, MatchingConstants DEF MatchingConstants
  <2>. QED
      BY <2>1, <2>3 DEF NearOptimal, Matchings
<1>7. /\ \A p \in C : a[p].credit = m[p]
      /\ \A p \in C : a[p].tie <=> \E n \in NearOptimal(C) : n[p] # m[p]
      /\ DOMAIN a = C
    BY <1>1
<1>8. /\ DOMAIN assignment' = D \cup C
      /\ \A p \in D : assignment'[p] = assignment[p]
      /\ \A p \in C : assignment'[p] = a[p]
    BY <1>0, <1>2, <1>7 DEF Extended
<1>9. /\ Enumerated' = Enumerated
      /\ SolvedOrders' = E \cup C
  <2>1. Enumerated' = Enumerated
      BY MatchingsKept
  <2>. QED
      BY <1>3, <1>8, <2>1 DEF SolvedOrders
<1>10. Chosen(E) \in Optimal(E) /\ DOMAIN Chosen(E) = E /\ \A p \in E : Chosen(E)[p] = assignment[p].credit
    BY <1>0 DEF Solved, Chosen
<1>11. Chosen(E \cup C)' = Extended(Chosen(E), m)
  <2>1. Chosen(E \cup C)' = [p \in E \cup C |-> assignment'[p].credit]
      BY DEF Chosen
  <2>2. Extended(Chosen(E), m) = [p \in E \cup C |-> IF p \in E THEN Chosen(E)[p] ELSE m[p]]
      BY <1>6, <1>10 DEF Extended
  <2>3. \A p \in E \cup C : assignment'[p].credit = IF p \in E THEN Chosen(E)[p] ELSE m[p]
      BY <1>3, <1>7, <1>8, <1>10
  <2>. QED
      BY <2>1, <2>2, <2>3
<1>12. Chosen(SolvedOrders)' \in Optimal(SolvedOrders)'
  <2>1. Extended(Chosen(E), m) \in Optimal(E \cup C)
      BY <1>4, <1>10, OptimaJoin
  <2>2. Optimal(E \cup C)' = Optimal(E \cup C)
      BY MatchingsKept
  <2>. QED
      BY <1>9, <1>11, <2>1, <2>2
<1>13. \A p : Disputed(E \cup C, p)' <=> Disputed(E \cup C, p)
    BY MatchingsKept DEF Disputed
<1>14. ASSUME NEW p \in D
       PROVE  /\ assignment'[p].tie <=> (p \notin Enumerated \/ Disputed(E \cup C, p))
              /\ ~assignment'[p].tie /\ assignment'[p].credit # 0 =>
                    Weight(p, assignment'[p].credit) > TIE_MARGIN_POINTS
  <2>1. /\ assignment[p].tie <=> (p \notin Enumerated \/ Disputed(E, p))
        /\ ~assignment[p].tie /\ assignment[p].credit # 0 =>
              Weight(p, assignment[p].credit) > TIE_MARGIN_POINTS
      BY <1>0 DEF Solved
  <2>2. p \in Enumerated => (Disputed(E \cup C, p) <=> Disputed(E, p))
      BY <1>3, <1>4, DisputesJoin
  <2>. QED
      BY <1>8, <2>1, <2>2
<1>15. ASSUME NEW p \in C
       PROVE  /\ assignment'[p].tie <=> (p \notin Enumerated \/ Disputed(E \cup C, p))
              /\ ~assignment'[p].tie /\ assignment'[p].credit # 0 =>
                    Weight(p, assignment'[p].credit) > TIE_MARGIN_POINTS
  <2>1. p \in Enumerated /\ E \cup C = C \cup E
      BY <1>3
  <2>2. Disputed(C \cup E, p) <=> Disputed(C, p)
      BY <1>5, <1>10, DisputesJoin
  <2>3. Disputed(C, p) <=> \E n \in NearOptimal(C) : n[p] # m[p]
      BY <1>6 DEF Disputed
  <2>4. (\A n \in NearOptimal(C) : n[p] = m[p]) /\ m[p] # 0 => Weight(p, m[p]) > TIE_MARGIN_POINTS
      BY <1>2, UndisputedGains
  <2>. QED
      BY <1>7, <1>8, <2>1, <2>2, <2>3, <2>4
<1>16. ASSUME NEW p \in D \cup C
       PROVE  /\ assignment'[p].tie <=> (p \notin Enumerated \/ Disputed(E \cup C, p))
              /\ ~assignment'[p].tie /\ assignment'[p].credit # 0 =>
                    Weight(p, assignment'[p].credit) > TIE_MARGIN_POINTS
    BY <1>14, <1>15
<1>17. \A p, b : Weight(p, b)' = Weight(p, b)
    BY MatchingsKept
<1>18. ASSUME NEW p \in DOMAIN assignment'
       PROVE  /\ assignment'[p].tie <=> (p \notin Enumerated' \/ Disputed(SolvedOrders, p)')
              /\ ~assignment'[p].tie /\ assignment'[p].credit # 0 =>
                    Weight(p, assignment[p].credit)' > TIE_MARGIN_POINTS
  <2>1. Disputed(SolvedOrders, p)' <=> Disputed(E \cup C, p)
      BY <1>9, <1>13
  <2>2. Weight(p, assignment[p].credit)' = Weight(p, assignment'[p].credit)
      BY <1>17
  <2>. QED
      BY <1>8, <1>9, <1>16, <2>1, <2>2
<1>. QED
    BY <1>12, <1>18 DEF Solved

\* One that is not leaves what is solved as it was.
LEMMA ComponentHeld ==
    ASSUME IsBatch(batch), Assigned, Solved, NEW o \in Unassigned,
           EdgeCount(Component(o)) > MAX_COMPONENT_EDGES,
           assignment' = Extended(assignment,
                            [p \in Component(o) |-> [credit |-> 0, tie |-> TRUE]]),
           UNCHANGED <<batch, hits>>
    PROVE  Solved'
<1>. DEFINE D == DOMAIN assignment
            C == Component(o)
            a == [p \in C |-> [credit |-> 0, tie |-> TRUE]]
<1>1. /\ C \cap D = {} /\ C \cap Enumerated = {}
    BY ComponentIsOutside, ComponentIsEnumerated DEF Assigned, Unassigned
<1>2. DOMAIN a = C /\ \A p \in C : a[p].tie
    OBVIOUS
<1>. HIDE DEF a
<1>3. /\ DOMAIN assignment' = D \cup C
      /\ \A p \in D : assignment'[p] = assignment[p]
      /\ \A p \in C : assignment'[p] = a[p]
    BY <1>1, <1>2 DEF Extended, a
<1>. HIDE DEF D, C
<1>4. Enumerated' = Enumerated /\ SolvedOrders' = SolvedOrders
  <2>1. Enumerated' = Enumerated
      BY MatchingsKept
  <2>. QED
      BY <1>1, <1>3, <2>1 DEF SolvedOrders, D
<1>5. Chosen(SolvedOrders)' = Chosen(SolvedOrders)
  <2>1. SolvedOrders \subseteq D
      BY DEF SolvedOrders, D
  <2>2. \A p \in SolvedOrders : assignment'[p].credit = assignment[p].credit
      BY <1>3, <2>1
  <2>. QED
      BY <1>4, <2>2 DEF Chosen
<1>6. Chosen(SolvedOrders)' \in Optimal(SolvedOrders)'
  <2>1. Chosen(SolvedOrders) \in Optimal(SolvedOrders)
      BY DEF Solved
  <2>2. Optimal(SolvedOrders)' = Optimal(SolvedOrders)
      BY <1>4, MatchingsKept
  <2>. QED
      BY <1>5, <2>1, <2>2
<1>7. \A p : /\ Disputed(SolvedOrders, p)' <=> Disputed(SolvedOrders, p)
             /\ \A b : Weight(p, b)' = Weight(p, b)
  <2>1. NearOptimal(SolvedOrders)' = NearOptimal(SolvedOrders)
      BY <1>4, MatchingsKept
  <2>. QED
      BY <2>1, MatchingsKept DEF Disputed
<1>8. ASSUME NEW p \in D \cup C
      PROVE  /\ assignment'[p].tie <=> (p \notin Enumerated \/ Disputed(SolvedOrders, p))
             /\ ~assignment'[p].tie /\ assignment'[p].credit # 0 =>
                   Weight(p, assignment'[p].credit) > TIE_MARGIN_POINTS
  <2>1. CASE p \in D
      BY <1>3, <2>1 DEF Solved, D
  <2>2. CASE p \in C
      BY <1>1, <1>2, <1>3, <2>2
  <2>. QED
      BY <2>1, <2>2
<1>. QED
    BY <1>3, <1>4, <1>6, <1>7, <1>8 DEF Solved

-----------------------------------------------------------------------------
(* What an unpaid order rests on.                                           *)

\* No credit outside the settlements has an amount that o may have paid.
NoCandidate(o) ==
    \A b \in Credits : bank[b].amount \in CandidateAmounts(o) =>
        b \in Consumed \/ bank[b].marked

UnpaidSound(o, v) ==
    v.verdict = "genuinely_unpaid" /\ RowsIn(o, "refund") = {} =>
        /\ v.path = "exact" => NoCandidate(o)
        /\ v.path # "exact" => v.pass = "pass4_rejected"

\* Only pass 4 calls an order unpaid, and only one without a gateway row.
LEMMA UnpaidIsFuzzy ==
    ASSUME IsBatch(batch), NEW o \in Orders, RowsIn(o, "refund") = {},
           Resolve(o).verdict = "genuinely_unpaid"
    PROVE  o \in FuzzyOrders /\ Resolve(o) = Fuzzy(o)
<1>1. /\ Chargeback(o).verdict = "chargeback_open"
      /\ Settled(o).verdict # "genuinely_unpaid"
    BY DEF Chargeback, Settled, Abstain
<1>2. /\ Resolve(o) = Fuzzy(o)
      /\ RowsIn(o, "chargeback_open") = {}
      /\ ~(RowsIn(o, "captured") # {} /\ ~RefundNetZero(o))
      /\ ~(RowsIn(o, "failed") # {} /\ RowsIn(o, "captured") = {})
    BY <1>1 DEF Resolve, Abstain
<1>3. ~RefundNetZero(o)
    BY DEF RefundNetZero
<1>4. RowsOf(o) = {}
  <2>1. \A c \in RowsOf(o) : captures[c].status \in Status
    <3>1. captures \in Seq(Capture)
        BY DEF IsBatch, captures
    <3>2. \A c \in Captures : captures[c] \in Capture
        BY <3>1, ElementOfSeq DEF Captures
    <3>. QED
        BY <3>2 DEF RowsOf, Capture
  <2>. QED
      BY <1>2, <1>3, <2>1 DEF RowsIn, Status
<1>. QED
    BY <1>2, <1>4 DEF FuzzyOrders

\* A chosen credit that is not tied gains more than the margin, so it is never
\* one that is decided not to match.
LEMMA GainIsNoMismatch ==
    ASSUME NEW o, NEW weight \in Int, weight > TIE_MARGIN_POINTS
    PROVE  Decision(o, weight) # "NON_MATCH"
<1>1. MatchPoints \in Int /\ TIE_MARGIN_POINTS \in Nat
    BY MatchingConstants DEF MatchingConstants
<1>2. weight <= - MatchPoints => weight >= MatchPoints
    BY <1>1
<1>. QED
    BY <1>2 DEF Decision

LEMMA ResolveIsSound ==
    ASSUME IsBatch(batch), Assigned, Solved, FuzzyOrders \subseteq DOMAIN assignment,
           NEW o \in Orders
    PROVE  UnpaidSound(o, Resolve(o))
<1>. SUFFICES ASSUME Resolve(o).verdict = "genuinely_unpaid", RowsIn(o, "refund") = {}
              PROVE  /\ Resolve(o).path = "exact" => NoCandidate(o)
                     /\ Resolve(o).path # "exact" => Resolve(o).pass = "pass4_rejected"
    BY DEF UnpaidSound
<1>. DEFINE b == assignment[o].credit
<1>1. o \in FuzzyOrders /\ Resolve(o) = Fuzzy(o) /\ ~RefundNetZero(o)
    BY UnpaidIsFuzzy DEF RefundNetZero
<1>2. b \in Edges(o) \cup {0}
    BY <1>1 DEF Assigned
<1>3. ~assignment[o].tie
    BY <1>1 DEF Fuzzy, Abstain
<1>4. b = 0
  <2>1. CASE b # 0
    <3>1. Weight(o, b) > TIE_MARGIN_POINTS /\ Weight(o, b) \in Int
        BY <1>1, <1>2, <1>3, <2>1, GraphShape DEF Solved
    <3>2. Decision(o, Weight(o, b)) # "NON_MATCH"
        BY <3>1, GainIsNoMismatch
    <3>3. Decision(o, Weight(o, b)) \in {"MATCH", "NON_MATCH", "AMBIGUOUS"}
        BY DEF Decision
    <3>4. Matched(o, b).verdict # "genuinely_unpaid"
        BY DEF Matched, Abstain
    <3>5. Fuzzy(o).verdict # "genuinely_unpaid"
        BY <1>1, <1>3, <2>1, <3>2, <3>3, <3>4 DEF Fuzzy, Abstain
    <3>. QED
        BY <1>1, <3>5
  <2>. QED
      BY <2>1
<1>5. Fuzzy(o) = Unpaid(o, 0)
    BY <1>1, <1>3, <1>4 DEF Fuzzy
<1>6. CASE Edges(o) = {}
  <2>1. Unpaid(o, 0).path = "exact"
      BY <1>1, <1>6 DEF Unpaid, Abstain
  <2>2. NoCandidate(o)
      BY <1>6 DEF NoCandidate, Edges, Pool
  <2>. QED
      BY <1>1, <1>5, <2>1, <2>2
<1>7. CASE Edges(o) # {}
  <2>1. Unpaid(o, 0).path = "probabilistic" /\ Unpaid(o, 0).pass = "pass4_rejected"
      BY <1>1, <1>7 DEF Unpaid, Abstain
  <2>. QED
      BY <1>1, <1>5, <2>1
<1>. QED
    BY <1>6, <1>7

\* Resolving reads nothing else than the graph and the assignment.
LEMMA SoundKept ==
    ASSUME UNCHANGED <<batch, hits>>, NEW o, NEW v, UnpaidSound(o, v)
    PROVE  UnpaidSound(o, v)'
<1>1. /\ RowsIn(o, "refund")' = RowsIn(o, "refund") /\ Credits' = Credits /\ bank' = bank
      /\ Consumed' = Consumed /\ CandidateAmounts(o)' = CandidateAmounts(o)
    BY GraphKept DEF RowsIn, RowsOf, Captures, captures, Credits, bank, CandidateAmounts,
                     TdsNets, orders
<1>. QED
    BY <1>1 DEF UnpaidSound, NoCandidate

-----------------------------------------------------------------------------
(* The run solves the batch.                                                *)

SolveInv ==
    /\ IInv
    /\ IsBatch(batch)
    /\ Solved
    /\ \A o \in DOMAIN verdicts : UnpaidSound(o, verdicts[o])

LEMMA SolveStart == Init => SolveInv
<1>. SUFFICES ASSUME Init PROVE SolveInv
    OBVIOUS
<1>1. IsBatch(batch) /\ Solved
    BY NothingIsSolved, MatchingConstants DEF Init, MatchingConstants
<1>2. DOMAIN verdicts = {}
    BY DEF Init
<1>. QED
    BY <1>1, <1>2, InitIInv DEF SolveInv

LEMMA SolveStep == SolveInv /\ [Next]_vars => SolveInv'
<1>. SUFFICES ASSUME SolveInv, [Next]_vars PROVE SolveInv'
    OBVIOUS
<1>1. IInv' /\ IInv /\ IsBatch(batch) /\ Solved
    BY StepIInv DEF SolveInv
<1>2. IsBatch(batch')
  <2>1. batch' = batch
      BY DEF Next, vars, JoinSettlement, CloseSettlements, AssignComponent, AbstainOnComponent,
             CloseAssignment, ResolveOrder
  <2>. QED
      BY <1>1, <2>1 DEF IsBatch
<1>3. ASSUME UNCHANGED <<batch, hits, verdicts>>
      PROVE  \A o \in DOMAIN verdicts' : UnpaidSound(o, verdicts[o])'
    BY <1>3, SoundKept DEF SolveInv
<1>4. ASSUME UNCHANGED <<batch, hits, assignment, verdicts>>
      PROVE  SolveInv'
    BY <1>1, <1>2, <1>3, <1>4, SolvedKept DEF SolveInv
<1>5. CASE JoinSettlement
  <2>1. assignment' = <<>> /\ verdicts' = <<>>
      BY <1>1, <1>5 DEF JoinSettlement, IInv, Staged
  <2>2. DOMAIN verdicts' = {}
      BY <2>1
  <2>3. (assignment = <<>>)' => Solved'
      BY NothingIsSolved, PTL
  <2>. QED
      BY <1>1, <1>2, <2>1, <2>2, <2>3 DEF SolveInv
<1>6. CASE AssignComponent
  <2>1. PICK o \in Unassigned :
            /\ EdgeCount(Component(o)) <= MAX_COMPONENT_EDGES
            /\ \E a \in ComponentAssignment(Component(o)) : assignment' = Extended(assignment, a)
      BY <1>6 DEF AssignComponent, First
  <2>2. PICK a \in ComponentAssignment(Component(o)) : assignment' = Extended(assignment, a)
      BY <2>1
  <2>3. Solved'
      BY <1>1, <1>6, <2>1, <2>2, ComponentSolved DEF AssignComponent, IInv
  <2>. QED
      BY <1>1, <1>2, <1>3, <1>6, <2>3 DEF SolveInv, AssignComponent
<1>7. CASE AbstainOnComponent
  <2>1. PICK o \in Unassigned :
            /\ EdgeCount(Component(o)) > MAX_COMPONENT_EDGES
            /\ assignment' = Extended(assignment,
                                [p \in Component(o) |-> [credit |-> 0, tie |-> TRUE]])
      BY <1>7 DEF AbstainOnComponent, First
  <2>2. Solved'
      BY <1>1, <1>7, <2>1, ComponentHeld DEF AbstainOnComponent, IInv
  <2>. QED
      BY <1>1, <1>2, <1>3, <1>7, <2>2 DEF SolveInv, AbstainOnComponent
<1>8. CASE ResolveOrder
  <2>1. PICK o \in Unresolved : verdicts' = Extended(verdicts, [q \in {o} |-> Resolve(q)])
      BY <1>8 DEF ResolveOrder, First
  <2>2. UNCHANGED <<batch, pc, hits, assignment>> /\ pc = "resolve"
      BY <1>8 DEF ResolveOrder
  <2>3. UnpaidSound(o, Resolve(o))
      BY <1>1, <2>2, ResolveIsSound DEF IInv, Staged, Unresolved
  <2>4. ASSUME NEW p \in DOMAIN verdicts', NEW v, v = verdicts'[p]
        PROVE  UnpaidSound(p, v)'
    <3>1. /\ p = o \/ p \in DOMAIN verdicts
          /\ p \in DOMAIN verdicts => verdicts'[p] = verdicts[p]
          /\ p \notin DOMAIN verdicts => verdicts'[p] = Resolve(p)
        BY <2>1 DEF Extended
    <3>2. UnpaidSound(p, v)
        BY <2>3, <2>4, <3>1 DEF SolveInv
    <3>. QED
        BY <2>2, <3>2, SoundKept
  <2>5. \A p \in DOMAIN verdicts' : UnpaidSound(p, verdicts[p])'
      BY <2>4
  <2>6. Solved'
      BY <1>1, <2>2, SolvedKept
  <2>. QED
      BY <1>1, <1>2, <2>5, <2>6 DEF SolveInv
<1>9. CASE CloseSettlements
    BY <1>4, <1>9 DEF CloseSettlements
<1>10. CASE CloseAssignment
    BY <1>4, <1>10 DEF CloseAssignment
<1>11. CASE UNCHANGED vars
    BY <1>4, <1>11 DEF vars
<1>. QED
    BY <1>5, <1>6, <1>7, <1>8, <1>9, <1>10, <1>11 DEF Next

LEMMA SpecSolves == Spec => []SolveInv
BY SolveStart, SolveStep, PTL DEF Spec

\* When pass 4 is over, what is solved is everything.
LEMMA AllIsSolved ==
    ASSUME SolveInv, pc = "resolve"
    PROVE  SolvedOrders = Enumerated /\ FuzzyOrders \subseteq DOMAIN assignment
BY DEF SolveInv, IInv, Staged, SolvedOrders, Enumerated

\* Solving the components one by one gives an optimum over all orders at once,
\* those of components past the limit aside (recon.py:118-173), whatever the
\* amounts, the weights, the margin and the limit are.
THEOREM ComponentsAreOptimal == Spec => []AssignmentIsOptimal
<1>1. SolveInv => AssignmentIsOptimal
    BY AllIsSolved DEF AssignmentIsOptimal, SolveInv, Solved, Chosen
<1>. QED
    BY <1>1, SpecSolves, PTL

\* An order is tied exactly if two assignments of the whole batch within the
\* margin of the best disagree about it, or its component is past the limit:
\* exhausting one component at a time finds every tie and makes none up.
THEOREM TiesAreFound == Spec => []TiesAreExact
<1>1. SolveInv => TiesAreExact
    BY AllIsSolved DEF TiesAreExact, SolveInv, Solved, Disputed
<1>. QED
    BY <1>1, SpecSolves, PTL

\* An order is proven unpaid only if no credit has an amount it may have paid,
\* and is otherwise unpaid only because all its candidates went to others
\* (recon.py:420-435, 520-526).
THEOREM UnpaidIsAlwaysProven == Spec => []UnpaidIsProven
<1>1. SolveInv => UnpaidIsProven
    BY DEF UnpaidIsProven, SolveInv, UnpaidSound, NoCandidate
<1>. QED
    BY <1>1, SpecSolves, PTL

-----------------------------------------------------------------------------
(* The verifier of verdicts: what a batch and its settlements hold.         *)

\* What a batch holds: positive orders and credits, refunds below nought and
\* every other row above it.
LEMMA BatchRows ==
    ASSUME IsBatch(batch)
    PROVE  /\ \A o \in Orders : orders[o] \in Order
           /\ \A c \in Captures : /\ captures[c] \in Capture
                                  /\ captures[c].status = "refund" <=> captures[c].amount < 0
           /\ \A b \in 1..Len(bank) : bank[b] \in BankTxn
           /\ Captures \in SUBSET (Nat \ {0}) /\ IsFiniteSet(Captures)
           /\ Credits \in SUBSET (1..Len(bank)) /\ Credits \in SUBSET (Nat \ {0})
           /\ IsFiniteSet(Credits)
<1>1. orders \in Seq(Order) /\ captures \in Seq(Capture) /\ bank \in Seq(BankTxn)
    BY DEF IsBatch, orders, captures, bank
<1>2. Len(captures) \in Nat /\ Len(bank) \in Nat
    BY <1>1, LenProperties
<1>3. IsFiniteSet(1..Len(captures)) /\ IsFiniteSet(1..Len(bank))
    BY <1>2, FS_Interval
<1>4. \A c \in Captures : captures[c].status = "refund" <=> captures[c].amount < 0
    BY DEF IsBatch, captures, Captures
<1>5. Credits \in SUBSET (1..Len(bank))
    BY DEF Credits
<1>6. IsFiniteSet(Credits)
    BY <1>3, <1>5, FS_Subset
<1>. QED
    BY <1>1, <1>2, <1>3, <1>4, <1>5, <1>6, ElementOfSeq DEF Orders, Captures

\* The rows of an order, and their latest day.
LEMMA LatestIsIn ==
    ASSUME IsBatch(batch), NEW rows \in SUBSET Captures, rows # {}
    PROVE  /\ LatestDay(rows) \in Nat
           /\ \E c \in rows : captures[c].day = LatestDay(rows)
           /\ \A c \in rows : captures[c].day =< LatestDay(rows)
<1>. DEFINE days == {captures[c].day : c \in rows}
<1>1. IsFiniteSet(rows)
    BY BatchRows, FS_Subset
<1>2. IsFiniteSet(days)
  <2>. DEFINE f == [c \in rows |-> captures[c].day]
  <2>1. f \in Surjection(rows, days)
      BY DEF Surjection
  <2>. QED
      BY <1>1, <2>1, FS_Surjection
<1>3. days \in SUBSET Nat /\ days # {}
    BY BatchRows DEF Capture
<1>4. Max(days) \in days /\ \A y \in days : y =< Max(days)
  <2>1. days \in SUBSET Int
      BY <1>3
  <2>. HIDE DEF days
  <2>. QED
      BY <1>2, <1>3, <2>1, GreatestIsIn
<1>. QED
    BY <1>3, <1>4 DEF LatestDay

\* The two ways to count days differ by one, over a new year or over a leap day.
LEMMA LagsCompare ==
    ASSUME NEW from \in Nat, NEW to \in Nat
    PROVE  /\ DayDelta(from, to) \in Int
           /\ DayDelta(from, to) \in 0..3 =>
                 (to - from \in 0..3 <=> ~\/ to = LeapDay /\ from = LeapDay + 1
                                          \/ to = from + 4 /\ LeapDay \in from..(from + 3))
           /\ DayDelta(from, to) =< 1 =>
                 (to - from > 1 <=> to = from + 2 /\ LeapDay \in {to - 2, to - 1})
           /\ DayDelta(from, to) > 1 =>
                 (to - from =< 1 <=> from = YearEnd /\ to = YearEnd + 1)
<1>1. /\ YearEnd \in Nat /\ LeapDay \in Nat
      /\ LeapDay >= YearEnd + 60 \/ YearEnd >= LeapDay + 306
    BY MatchingConstants DEF MatchingConstants
<1>2. DayDelta(from, to) = to - from
                           + (IF from =< YearEnd /\ to > YearEnd THEN 1
                              ELSE IF to =< YearEnd /\ from > YearEnd THEN -1 ELSE 0)
                           - (IF from =< LeapDay /\ to > LeapDay THEN 1
                              ELSE IF to =< LeapDay /\ from > LeapDay THEN -1 ELSE 0)
    BY <1>1 DEF DayDelta, Ordinal
<1>. QED
    BY <1>1, <1>2

\* Money.
LEMMA OneCredit ==
    ASSUME IsBatch(batch), NEW b \in Credits
    PROVE  /\ CreditSum({b}) = bank[b].amount /\ bank[b].amount \in Nat \ {0} /\ bank[b].day \in Nat
           /\ CreditSum({}) = 0
<1>. DEFINE h == [x \in {b} |-> bank[x].amount]
            none == [x \in {} |-> bank[x].amount]
<1>1. bank[b].amount \in Nat \ {0} /\ bank[b].day \in Nat
    BY BatchRows DEF BankTxn
<1>2. DOMAIN h = {b} /\ h[b] = bank[b].amount /\ DOMAIN none = {}
    OBVIOUS
<1>3. CreditSum({b}) = SumOf(h, {b}) /\ CreditSum({}) = SumOf(none, {})
    BY <1>2, SumsAgree DEF CreditSum
<1>. HIDE DEF h, none
<1>4. SumOf(h, {b}) = h[b] + SumOf(h, {b} \ {b})
  <2>1. IsFiniteSet({b})
      BY FS_Singleton
  <2>2. \A x \in {b} : h[x] \in Int
      BY <1>1, <1>2
  <2>. QED
      BY <2>1, <2>2, SumIntSteps
<1>5. SumOf(h, {b} \ {b}) = 0 /\ SumOf(none, {}) = 0
  <2>1. {b} \ {b} = {}
      OBVIOUS
  <2>. QED
      BY <2>1, SumOfNone
<1>6. SumOf(h, {b}) = bank[b].amount + 0
    BY <1>2, <1>4, <1>5
<1>7. bank[b].amount + 0 = bank[b].amount
    BY <1>1
<1>. QED
    BY <1>1, <1>3, <1>5, <1>6, <1>7

\* Refunds are negative rows, so what was refunded is nought only if nothing was.
LEMMA RefundsAreNegative ==
    ASSUME IsBatch(batch), NEW o
    PROVE  /\ Refunded(o) \in Nat
           /\ Refunded(o) > 0 <=> RowsIn(o, "refund") # {}
<1>. DEFINE S == RowsIn(o, "refund")
            h == [c \in S |-> captures[c].amount]
            k == [c \in S |-> - h[c]]
<1>1. S \in SUBSET Captures /\ IsFiniteSet(S)
    BY BatchRows, FS_Subset DEF RowsIn, RowsOf
<1>2. \A c \in S : h[c] \in Int /\ h[c] < 0
    BY <1>1, BatchRows DEF Capture, RowsIn
<1>3. \A c \in S : k[c] \in Nat /\ k[c] > 0 /\ k[c] = - h[c]
    BY <1>2
<1>4. Refunded(o) = - SumOf(h, S)
    BY SumsAgree DEF Refunded, AmountOf
<1>. HIDE DEF h, k
<1>5. SumOf(k, S) = - SumOf(h, S)
    BY <1>1, <1>2, <1>3, SumNegated
<1>6. SumOf(k, S) \in Nat
    BY <1>1, <1>3, SumSteps
<1>7. SumOf(h, S) \in Int
    BY <1>1, <1>2, SumIntSteps
<1>8. Refunded(o) = SumOf(k, S)
    BY <1>4, <1>5, <1>7
<1>9. CASE S = {}
    BY <1>8, <1>9, SumOfNone
<1>10. CASE S # {}
  <2>1. PICK c \in S : TRUE
      BY <1>10
  <2>2. SumOf(k, S) # 0
      BY <1>1, <1>3, <2>1, SumIsNought
  <2>. QED
      BY <1>6, <1>8, <2>2, <1>10
<1>. QED
    BY <1>9, <1>10

\* Net sums are integers.
LEMMA NetsAreIntegers ==
    ASSUME IsBatch(batch), NEW rows \in SUBSET Captures
    PROVE  NetSum(rows) \in Int
<1>. DEFINE h == [c \in rows |-> NetOf(c)]
<1>1. IsFiniteSet(rows)
    BY BatchRows, FS_Subset
<1>2. \A c \in rows : h[c] \in Int
    BY BatchRows DEF NetOf, Capture
<1>3. NetSum(rows) = SumOf(h, rows)
    BY SumsAgree DEF NetSum
<1>. HIDE DEF h
<1>. QED
    BY <1>1, <1>2, <1>3, SumIntSteps

-----------------------------------------------------------------------------
\* What a settlement and the credit it was joined to have in common.
HitFits(sid, hit) ==
    hit.credit # 0 =>
        /\ hit.credit \in Paying(sid)
        /\ hit.pass \in SettlementPasses
        /\ hit.pass = "pass1_exact_utr" => \E c \in Group(sid) : SharedUtr(c, hit.credit)
        /\ hit.pass = "pass2_amount_date" =>
              DayDelta(LatestDay(Group(sid)), bank[hit.credit].day) \in 0..3
        /\ hit.pass = "pass3_settlement_id" => bank[hit.credit].settlement = sid

HitsFit == \A sid \in DOMAIN hits : sid \in Settlements /\ HitFits(sid, hits[sid])

\* Each of the three passes joins a credit of the sum, on what it goes by.
LEMMA SettlementHitFits ==
    ASSUME IsBatch(batch), NEW sid
    PROVE  HitFits(sid, SettlementHit(sid))
<1>1. /\ Pass1(sid) \subseteq Paying(sid) /\ Pass2(sid) \subseteq Paying(sid)
      /\ Pass3(sid) \subseteq Paying(sid) /\ Paying(sid) \subseteq Nat \ {0}
    BY BatchRows DEF Pass1, Pass2, Pass3, Paying
<1>2. /\ Pass1(sid) # {} => Min(Pass1(sid)) \in Pass1(sid)
      /\ Pass2(sid) # {} => Min(Pass2(sid)) \in Pass2(sid)
      /\ Pass3(sid) # {} => Min(Pass3(sid)) \in Pass3(sid)
    BY <1>1, LeastNatural
<1>3. CASE Pass3(sid) # {}
  <2>. DEFINE b == Min(Pass3(sid))
              T == {x \in Credits : bank[x].settlement = sid}
  <2>1. SettlementHit(sid) = [credit |-> b, pass |-> "pass3_settlement_id"]
      BY <1>3 DEF SettlementHit
  <2>2. b \in Paying(sid) /\ b = Max(T \cup {0})
      BY <1>2, <1>3 DEF Pass3
  <2>3. T \cup {0} \in SUBSET Int /\ IsFiniteSet(T \cup {0})
    <3>1. T \in SUBSET Credits
        OBVIOUS
    <3>2. IsFiniteSet(T)
        BY <3>1, BatchRows, FS_Subset
    <3>3. IsFiniteSet(T \cup {0})
        BY <3>2, FS_AddElement
    <3>. QED
        BY <3>1, <3>3, BatchRows
  <2>4. b \in T \cup {0}
      BY <2>2, <2>3, GreatestIsIn
  <2>5. bank[b].settlement = sid
      BY <1>1, <2>2, <2>4
  <2>. QED
      BY <2>1, <2>2, <2>5 DEF HitFits, SettlementPasses
<1>4. CASE Pass3(sid) = {} /\ Pass1(sid) # {}
  <2>1. SettlementHit(sid) = [credit |-> Min(Pass1(sid)), pass |-> "pass1_exact_utr"]
      BY <1>4 DEF SettlementHit
  <2>2. Min(Pass1(sid)) \in Paying(sid) /\ \E c \in Group(sid) : SharedUtr(c, Min(Pass1(sid)))
      BY <1>2, <1>4 DEF Pass1
  <2>. QED
      BY <2>1, <2>2 DEF HitFits, SettlementPasses
<1>5. CASE Pass3(sid) = {} /\ Pass1(sid) = {} /\ Pass2(sid) # {}
  <2>1. SettlementHit(sid) = [credit |-> Min(Pass2(sid)), pass |-> "pass2_amount_date"]
      BY <1>5 DEF SettlementHit
  <2>2. /\ Min(Pass2(sid)) \in Paying(sid)
        /\ DayDelta(LatestDay(Group(sid)), bank[Min(Pass2(sid))].day) \in 0..3
      BY <1>1, <1>2, <1>5 DEF Pass2
  <2>. QED
      BY <2>1, <2>2 DEF HitFits, SettlementPasses
<1>6. CASE Pass3(sid) = {} /\ Pass1(sid) = {} /\ Pass2(sid) = {}
    BY <1>6 DEF SettlementHit, HitFits
<1>. QED
    BY <1>3, <1>4, <1>5, <1>6

-----------------------------------------------------------------------------
(* The verifier agrees: an order that is not for pass 4.                    *)

Agreed(o) == Verifies(o) <=> ~PartOn(o)

\* A verdict that claims no money.
LEMMA NoMoneyAgrees ==
    ASSUME NEW o \in Orders, verdicts[o].received = 0, verdicts[o].due = 0,
           verdicts[o].verdict \in Unpriced \cup {"genuinely_unpaid"},
           verdicts[o].pass \notin SettlementPasses,
           verdicts[o].verdict = "genuinely_unpaid" => verdicts[o].pass # "pass4_fuzzy"
               /\ verdicts[o].pass # "pass4_fuzzy_tds_evidence"
    PROVE  /\ AmountsAgree(o)
           /\ ~RefundElsewhere(o) /\ ~OverNewYear(o) /\ ~OverLeapDay(o) /\ ~FailedLater(o)
           /\ ~RepaidOddly(o)
<1>1. TermSum(o) = 0
    BY DEF TermSum, Unpriced
<1>2. AmountsAgree(o)
    BY <1>1 DEF AmountsAgree, Unpriced
<1>3. ~RefundElsewhere(o)
    BY DEF RefundElsewhere
<1>4. ~OverNewYear(o) /\ ~OverLeapDay(o) /\ ~FailedLater(o) /\ ~RepaidOddly(o)
    BY DEF OverNewYear, OverLeapDay, FailedLater, RepaidOddly, Unpriced, SettlementPasses
<1>. QED
    BY <1>2, <1>3, <1>4

LEMMA NoDispute ==
    ASSUME NEW o, orders[o].disputes = <<>>
    PROVE  ~SeveralDisputes(o) /\ ~DisputeTooLarge(o)
BY EmptySeq DEF SeveralDisputes, DisputeTooLarge

\* A verdict that leaves the order to a person claims none, and is verified by its rule.
LEMMA HeldAgrees ==
    ASSUME NEW o \in Orders, orders[o].disputes = <<>>,
           verdicts[o].received = 0, verdicts[o].due = 0, verdicts[o].verdict \in Unpriced,
           verdicts[o].pass \notin SettlementPasses \cup {"pass4_rejected", "exhausted"},
           RuleFits(o), EvidenceFits(o)
    PROVE  Agreed(o)
<1>1. verdicts[o].verdict # "genuinely_unpaid"
    BY DEF Unpriced
<1>2. ~UnpaidDespiteRow(o) /\ ~RejectedByEvidence(o)
    BY DEF UnpaidDespiteRow, RejectedByEvidence
<1>3. ~SeveralDisputes(o) /\ ~DisputeTooLarge(o)
    BY NoDispute
<1>. QED
    BY <1>1, <1>2, <1>3, NoMoneyAgrees DEF Agreed, PartOn, Verifies

\* A dispute, or a chargeback of the gateway.
LEMMA ChargebackAgrees ==
    ASSUME IsBatch(batch), NEW o \in Orders, verdicts[o] = Chargeback(o),
           orders[o].disputes # <<>> \/ RowsIn(o, "chargeback_open") # {}
    PROVE  Agreed(o)
<1>. DEFINE v == verdicts[o]
<1>1. /\ v.verdict = "chargeback_open" /\ v.received = orders[o].amount /\ v.due = 0
      /\ v.pass = IF orders[o].disputes # <<>> THEN "finance_event_dispute" ELSE "gateway_status"
      /\ v.pass = "gateway_status" => v.rows = RowsIn(o, "chargeback_open")
    BY DEF Chargeback, Abstain
<1>2. orders[o].amount \in Nat \ {0} /\ orders[o].disputes \in Seq(Nat \ {0})
    BY BatchRows DEF Order
<1>3. TermSum(o) = 0
  <2>1. v.pass \notin SettlementPasses \cup {"pass4_fuzzy", "pass4_fuzzy_tds_evidence"}
      BY <1>1 DEF SettlementPasses
  <2>. QED
      BY <1>1, <1>2, <2>1 DEF TermSum, Unpriced
<1>4. AmountsAgree(o)
    BY <1>1, <1>2, <1>3 DEF AmountsAgree, Unpriced
<1>5. RuleFits(o)
    BY <1>1 DEF RuleFits, RuleVerdicts
<1>6. v.pass = "gateway_status" => Rows(Claimed(o) \cap RowsOf(o), "chargeback_open") # {}
  <2>1. ASSUME v.pass = "gateway_status"
        PROVE  RowsIn(o, "chargeback_open")
                   \subseteq Rows(Claimed(o) \cap RowsOf(o), "chargeback_open")
      BY <1>1, <2>1 DEF Claimed, Rows, RowsIn
  <2>. QED
      BY <1>1, <2>1
<1>7. EvidenceFits(o) <=> (v.pass = "finance_event_dispute" =>
          \E amount \in 1..orders[o].amount : orders[o].disputes = <<amount>>)
    BY <1>1, <1>6 DEF EvidenceFits, SettlementPasses
<1>8. EvidenceFits(o) <=> ~SeveralDisputes(o) /\ ~DisputeTooLarge(o)
  <2>1. CASE orders[o].disputes = <<>>
      BY <1>1, <1>7, <2>1, NoDispute
  <2>2. CASE orders[o].disputes # <<>>
    <3>. DEFINE ds == orders[o].disputes
                due == orders[o].amount
    <3>1. v.pass = "finance_event_dispute"
        BY <1>1, <2>2
    <3>2. Len(ds) \in Nat \ {0} /\ (Len(ds) = 1 => ds = <<ds[1]>> /\ ds[1] \in Nat \ {0})
      <4>1. Len(ds) \in Nat \ {0}
          BY <1>2, <2>2, EmptySeq
      <4>2. ASSUME Len(ds) = 1 PROVE ds[1] \in Nat \ {0} /\ ds = <<ds[1]>>
        <5>1. ds[1] \in Nat \ {0}
            BY <1>2, <4>2, ElementOfSeq
        <5>2. <<ds[1]>> \in Seq(Nat \ {0}) /\ Len(<<ds[1]>>) = 1 /\ <<ds[1]>>[1] = ds[1]
            BY <5>1
        <5>. HIDE DEF ds
        <5>3. \A i \in 1..Len(ds) : ds[i] = <<ds[1]>>[i]
            BY <4>2, <5>2
        <5>4. ds \in Seq(Nat \ {0})
            BY <1>2 DEF ds
        <5>. QED
            BY <4>2, <5>1, <5>2, <5>3, <5>4, SeqEqual
      <4>. QED
          BY <4>1, <4>2
    <3>3. ASSUME NEW amount \in 1..due, ds = <<amount>>
          PROVE  Len(ds) = 1 /\ ds[1] =< due
        BY <1>2, <3>3
    <3>. HIDE DEF ds, due
    <3>4. (\E amount \in 1..due : ds = <<amount>>) <=> Len(ds) = 1 /\ ds[1] =< due
      <4>1. ASSUME Len(ds) = 1, ds[1] =< due
            PROVE  ds[1] \in 1..due /\ ds = <<ds[1]>>
          BY <1>2, <3>2, <4>1 DEF due
      <4>. QED
          BY <3>3, <4>1
    <3>5. SeveralDisputes(o) <=> Len(ds) # 1
      <4>1. SeveralDisputes(o) <=> Len(ds) > 1
          BY DEF SeveralDisputes, ds
      <4>2. \A n \in Nat \ {0} : n > 1 <=> n # 1
          OBVIOUS
      <4>. QED
          BY <3>2, <4>1, <4>2, Zenon
    <3>6. DisputeTooLarge(o) <=> Len(ds) = 1 /\ ~(ds[1] =< due)
        BY <1>2, <3>2 DEF DisputeTooLarge, ds, due
    <3>7. EvidenceFits(o) <=> \E amount \in 1..due : ds = <<amount>>
        BY <1>7, <3>1 DEF ds, due
    <3>. QED
        BY <3>4, <3>5, <3>6, <3>7
  <2>. QED
      BY <2>1, <2>2
<1>9. /\ ~RefundElsewhere(o) /\ ~OverNewYear(o) /\ ~OverLeapDay(o) /\ ~FailedLater(o)
      /\ ~RepaidOddly(o) /\ ~UnpaidDespiteRow(o) /\ ~RejectedByEvidence(o)
    BY <1>1 DEF RefundElsewhere, OverNewYear, OverLeapDay, FailedLater, RepaidOddly,
                UnpaidDespiteRow, RejectedByEvidence, SettlementPasses
<1>. QED
    BY <1>4, <1>5, <1>8, <1>9 DEF Agreed, PartOn, Verifies

\* A payment that failed.
LEMMA FailedAgrees ==
    ASSUME NEW o \in Orders, orders[o].disputes = <<>>, RowsIn(o, "failed") # {},
           verdicts[o] = [Abstain EXCEPT !.verdict = "failed_not_debited",
                                         !.pass = "gateway_status", !.path = "exact",
                                         !.rows = RowsIn(o, "failed")]
    PROVE  Agreed(o)
<1>. DEFINE v == verdicts[o]
<1>1. /\ v.verdict = "failed_not_debited" /\ v.received = 0 /\ v.due = 0
      /\ v.pass = "gateway_status" /\ v.rows = RowsIn(o, "failed")
    BY DEF Abstain
<1>2. RuleFits(o)
    BY <1>1 DEF RuleFits, RuleVerdicts
<1>3. RowsIn(o, "failed") \subseteq Rows(Claimed(o) \cap RowsOf(o), "failed")
    BY <1>1 DEF Claimed, Rows, RowsIn
<1>4. EvidenceFits(o)
    BY <1>1, <1>3 DEF EvidenceFits, SettlementPasses
<1>. QED
    BY <1>1, <1>2, <1>4, HeldAgrees DEF Unpriced, SettlementPasses

\* Captured, and no credit of the settlement was found.
LEMMA UnsettledAgrees ==
    ASSUME NEW o \in Orders, orders[o].disputes = <<>>, RowsIn(o, "captured") # {},
           verdicts[o] = Settled(o), HitOf(o).credit = 0
    PROVE  Agreed(o)
<1>. DEFINE v == verdicts[o]
<1>1. v.verdict = "ambiguous" /\ v.received = 0 /\ v.due = 0 /\ v.pass = "none"
    BY DEF Settled, Abstain
<1>2. RuleFits(o)
    BY <1>1 DEF RuleFits, RuleVerdicts
<1>3. EvidenceFits(o)
    BY <1>1 DEF EvidenceFits, SettlementPasses
<1>. QED
    BY <1>1, <1>2, <1>3, HeldAgrees DEF Unpriced, SettlementPasses

\* What is settled: the verdict, the credit, and the settlement it paid out.
LEMMA SettledShape ==
    ASSUME IsBatch(batch), HitsFit, NEW o \in Orders, RowsIn(o, "captured") # {},
           verdicts[o] = Settled(o), HitOf(o).credit # 0
    PROVE  LET v == verdicts[o]
               b == HitOf(o).credit
               sid == captures[Min(RowsIn(o, "captured"))].settlement
           IN  /\ b \in Credits /\ sid # "" /\ HitFits(sid, HitOf(o))
               /\ bank[b].amount = NetSum(Group(sid))
               /\ v.credits = {b} /\ v.pass = HitOf(o).pass /\ v.pass \in SettlementPasses
               /\ v.rows = RowsIn(o, "captured") \cup RowsIn(o, "refund")
               /\ v.received = orders[o].amount - Refunded(o) /\ v.due = Refunded(o)
               /\ v.verdict =
                     IF RowsIn(o, "refund") # {} THEN "partially_paid"
                     ELSE IF DayDelta(LatestDay(RowsIn(o, "captured")), bank[b].day) <= 1
                     THEN "settled_clean" ELSE "settled_late"
<1>. DEFINE v == verdicts[o]
            hit == HitOf(o)
            b == hit.credit
            sid == captures[Min(RowsIn(o, "captured"))].settlement
<1>1. sid \in DOMAIN hits /\ hit = hits[sid]
    BY DEF HitOf
<1>2. sid \in Settlements /\ HitFits(sid, hit)
    BY <1>1 DEF HitsFit
<1>3. sid # ""
    BY <1>2 DEF Settlements
<1>4. b \in Paying(sid) /\ hit.pass \in SettlementPasses
    BY <1>2 DEF HitFits
<1>5. b \in Credits /\ bank[b].amount = NetSum(Group(sid))
    BY <1>4 DEF Paying, Expected
<1>. HIDE DEF sid, hit
<1>6. /\ v.credits = {b} /\ v.pass = hit.pass
      /\ v.rows = RowsIn(o, "captured") \cup RowsIn(o, "refund")
      /\ v.received = orders[o].amount - Refunded(o) /\ v.due = Refunded(o)
      /\ v.verdict =
            IF RowsIn(o, "refund") # {} THEN "partially_paid"
            ELSE IF DayDelta(LatestDay(RowsIn(o, "captured")), bank[b].day) <= 1
            THEN "settled_clean" ELSE "settled_late"
    BY DEF Settled, Abstain, hit
<1>. QED
    BY <1>2, <1>3, <1>4, <1>5, <1>6 DEF sid, hit

\* Rows outside the one settlement, or nothing left of what was received: the
\* verifier refuses.
LEMMA ElsewhereIsRefused ==
    ASSUME IsBatch(batch), HitsFit, NEW o \in Orders, RowsIn(o, "captured") # {},
           verdicts[o] = Settled(o), HitOf(o).credit # 0, RefundElsewhere(o)
    PROVE  ~Verifies(o)
<1>. DEFINE v == verdicts[o]
            R == RowsIn(o, "captured") \cup RowsIn(o, "refund")
            due == orders[o].amount
<1>1. /\ v.pass \in SettlementPasses /\ v.rows = R
      /\ v.received = due - Refunded(o) /\ v.due = Refunded(o)
      /\ RowsIn(o, "refund") # {} => v.verdict = "partially_paid"
    BY SettledShape
<1>2. due \in Nat \ {0} /\ Refunded(o) \in Nat /\ (Refunded(o) > 0 => RowsIn(o, "refund") # {})
    BY BatchRows, RefundsAreNegative DEF Order
<1>3. CASE Refunded(o) >= due
  <2>1. v.verdict = "partially_paid" /\ ~(v.received > 0)
      BY <1>1, <1>2, <1>3
  <2>2. ~AmountsAgree(o)
      BY <2>1 DEF AmountsAgree
  <2>. QED
      BY <2>2 DEF Verifies
<1>4. CASE \E c \in R : captures[c].settlement # captures[Min(R)].settlement
  <2>1. PICK c \in R : captures[c].settlement # captures[Min(R)].settlement
      BY <1>4
  <2>2. Min(R) \in R
    <3>1. R \in SUBSET Nat /\ R # {}
        BY BatchRows DEF RowsIn, RowsOf
    <3>. HIDE DEF R
    <3>. QED
        BY <3>1, LeastNatural
  <2>3. R \subseteq Claimed(o)
      BY <1>1 DEF Claimed
  <2>4. SUFFICES ASSUME SettlementFits(o) PROVE FALSE
      BY <1>1 DEF Verifies, EvidenceFits
  <2>. DEFINE sids == {captures[d].settlement : d \in Claimed(o)} \ {""}
  <2>5. /\ Cardinality(sids) = 1
        /\ Claimed(o) = {d \in Captures : captures[d].settlement \in sids}
      BY <2>4 DEF SettlementFits
  <2>6. captures[c].settlement \in sids /\ captures[Min(R)].settlement \in sids
      BY <2>1, <2>2, <2>3, <2>5
  <2>7. IsFiniteSet(sids)
    <3>. DEFINE S == {captures[d].settlement : d \in Claimed(o)}
                f == [d \in Claimed(o) |-> captures[d].settlement]
    <3>1. Claimed(o) \in SUBSET Captures
        BY <2>5
    <3>2. IsFiniteSet(Claimed(o))
        BY <3>1, BatchRows, FS_Subset
    <3>3. f \in Surjection(Claimed(o), S)
        BY DEF Surjection
    <3>4. IsFiniteSet(S)
        BY <3>2, <3>3, FS_Surjection
    <3>5. sids \in SUBSET S
        OBVIOUS
    <3>. QED
        BY <3>4, <3>5, FS_Subset
  <2>8. \E x : sids = {x}
    <3>. HIDE DEF sids
    <3>. QED
        BY <2>5, <2>7, FS_Singleton
  <2>. QED
      BY <2>1, <2>6, <2>8
<1>. QED
    BY <1>3, <1>4, <1>1 DEF RefundElsewhere

\* All in one settlement: the certificate binds its group.
LEMMA GroupIsClaimed ==
    ASSUME IsBatch(batch), HitsFit, NEW o \in Orders, RowsIn(o, "captured") # {},
           verdicts[o] = Settled(o), HitOf(o).credit # 0, ~RefundElsewhere(o)
    PROVE  LET sid == captures[Min(RowsIn(o, "captured"))].settlement
               R == RowsIn(o, "captured") \cup RowsIn(o, "refund")
           IN  /\ Claimed(o) = Group(sid)
               /\ R \subseteq Group(sid) \cap RowsOf(o)
               /\ {captures[c].settlement : c \in Group(sid)} \ {""} = {sid}
<1>. DEFINE v == verdicts[o]
            cap == RowsIn(o, "captured")
            R == cap \cup RowsIn(o, "refund")
            sid == captures[Min(cap)].settlement
<1>1. /\ v.pass \in SettlementPasses /\ v.rows = R /\ sid # ""
      /\ v.verdict # "refunded_then_repaid"
    BY SettledShape
<1>2. Min(cap) \in cap
  <2>1. cap \in SUBSET Nat /\ cap # {}
      BY BatchRows DEF RowsIn, RowsOf
  <2>. HIDE DEF cap
  <2>. QED
      BY <2>1, LeastNatural
<1>3. \A c \in R : captures[c].settlement = sid
    BY <1>1, <1>2 DEF RefundElsewhere
<1>4. R \subseteq Captures /\ R \subseteq RowsOf(o)
    BY DEF RowsIn, RowsOf
<1>5. R \subseteq Group(sid) /\ Min(cap) \in R
    BY <1>2, <1>3, <1>4 DEF Group
<1>6. Claimed(o) = Group(sid)
  <2>1. Claimed(o) = R \cup {c \in Captures : captures[c].settlement # "" /\
                                \E d \in R : captures[d].settlement = captures[c].settlement}
      BY <1>1 DEF Claimed
  <2>. HIDE DEF R, sid
  <2>. QED
      BY <1>1, <1>3, <1>5, <2>1 DEF Group
<1>7. {captures[c].settlement : c \in Group(sid)} \ {""} = {sid}
  <2>1. \A c \in Group(sid) : captures[c].settlement = sid
      BY DEF Group
  <2>2. Min(cap) \in Group(sid)
      BY <1>5
  <2>. HIDE DEF sid
  <2>. QED
      BY <1>1, <2>1, <2>2
<1>. QED
    BY <1>4, <1>5, <1>6, <1>7

\* The verifier finds a long lag for a short one over a leap day only; it finds a
\* short one for a long one over a new year, or if a failed row of the settlement
\* makes it so.
LEMMA LatenessAgrees ==
    ASSUME IsBatch(batch), NEW o \in Orders, NEW own \in SUBSET RowsOf(o), NEW b \in Credits,
           RowsIn(o, "chargeback_open") = {}, RowsIn(o, "refund") = {},
           RowsIn(o, "captured") # {}, RowsIn(o, "captured") \subseteq own
    PROVE  LET L == LatestDay(RowsIn(o, "captured"))
               D == bank[b].day
           IN  /\ LatestDay(own) \in Nat
               /\ DayDelta(L, D) <= 1 =>
                     (D - LatestDay(own) > 1 <=>
                         D = LatestDay(own) + 2 /\ LeapDay \in {D - 2, D - 1})
               /\ DayDelta(L, D) > 1 =>
                     (D - LatestDay(own) <= 1 <=>
                         \/ D = YearEnd + 1 /\ L = YearEnd
                         \/ \E c \in Rows(own, "failed") : D - captures[c].day <= 1)
               /\ DayDelta(L, D) \in Int
<1>. DEFINE cap == RowsIn(o, "captured")
            L == LatestDay(cap)
            M == LatestDay(own)
            D == bank[b].day
<1>1. /\ cap \in SUBSET Captures /\ own \in SUBSET Captures /\ own # {}
      /\ \A c \in own : captures[c].status \in {"captured", "failed"} /\ captures[c].day \in Nat
    BY BatchRows DEF RowsIn, RowsOf, Capture, Status
<1>2. D \in Nat
    BY OneCredit
<1>3. /\ L \in Nat /\ \E c \in cap : captures[c].day = L
      /\ \A c \in cap : captures[c].day =< L
    BY <1>1, LatestIsIn
<1>4. /\ M \in Nat /\ \E c \in own : captures[c].day = M
      /\ \A c \in own : captures[c].day =< M
    BY <1>1, LatestIsIn
<1>5. L =< M
  <2>1. PICK c \in cap : captures[c].day = L
      BY <1>3
  <2>2. c \in own
      BY <2>1
  <2>. QED
      BY <1>4, <2>1, <2>2
<1>6. M = L \/ \E c \in Rows(own, "failed") : captures[c].day = M
  <2>1. PICK c \in own : captures[c].day = M
      BY <1>4
  <2>2. CASE captures[c].status = "captured"
    <3>1. c \in cap
        BY <2>2 DEF RowsIn
    <3>. HIDE DEF L, M, cap
    <3>. QED
        BY <1>3, <1>4, <1>5, <2>1, <3>1
  <2>3. CASE captures[c].status = "failed"
      BY <2>1, <2>3 DEF Rows
  <2>. QED
      BY <1>1, <2>2, <2>3
<1>7. \A c \in Rows(own, "failed") : captures[c].day \in Nat /\ captures[c].day =< M
    BY <1>1, <1>4 DEF Rows
<1>. HIDE DEF L, M, D
<1>8. (\E c \in Rows(own, "failed") : D - captures[c].day <= 1) => D - M <= 1
    BY <1>2, <1>4, <1>7
<1>9. D - L <= 1 => D - M <= 1
    BY <1>2, <1>3, <1>4, <1>5
<1>10. D - M <= 1 => D - L <= 1 \/ \E c \in Rows(own, "failed") : D - captures[c].day <= 1
    BY <1>6
<1>11. /\ DayDelta(L, D) \in Int
       /\ DayDelta(L, D) <= 1 => (D - L > 1 <=> D = L + 2 /\ LeapDay \in {D - 2, D - 1})
       /\ DayDelta(L, D) > 1 => (D - L <= 1 <=> L = YearEnd /\ D = YearEnd + 1)
    BY <1>2, <1>3, LagsCompare
<1>12. DayDelta(L, D) <= 1 => (D - M > 1 <=> D = M + 2 /\ LeapDay \in {D - 2, D - 1})
    BY <1>2, <1>3, <1>4, <1>5, <1>11
<1>. QED
    BY <1>4, <1>8, <1>9, <1>10, <1>11, <1>12 DEF L, M, D

\* The verifier's equations hold of a settlement that is claimed whole.
LEMMA SettlementEquals ==
    ASSUME IsBatch(batch), HitsFit, NEW o \in Orders, RowsIn(o, "captured") # {},
           verdicts[o] = Settled(o), HitOf(o).credit # 0, ~RefundElsewhere(o)
    PROVE  AmountsAgree(o) /\ RuleFits(o)
<1>. DEFINE v == verdicts[o]
            b == HitOf(o).credit
            sid == captures[Min(RowsIn(o, "captured"))].settlement
            due == orders[o].amount
<1>1. /\ b \in Credits /\ v.credits = {b} /\ v.pass \in SettlementPasses
      /\ bank[b].amount = NetSum(Group(sid))
      /\ v.received = due - Refunded(o) /\ v.due = Refunded(o)
      /\ v.verdict \in {"partially_paid", "settled_clean", "settled_late"}
      /\ v.verdict = "partially_paid" <=> RowsIn(o, "refund") # {}
    BY SettledShape
<1>2. Claimed(o) = Group(sid)
    BY GroupIsClaimed
<1>3. /\ due \in Nat \ {0} /\ Refunded(o) \in Nat
      /\ Refunded(o) > 0 <=> RowsIn(o, "refund") # {}
      /\ Refunded(o) < due
    BY <1>1, BatchRows, RefundsAreNegative DEF Order, RefundElsewhere
<1>4. NetSum(Claimed(o)) - CreditSum(v.credits) = 0
  <2>1. CreditSum({b}) = bank[b].amount /\ bank[b].amount \in Nat
      BY <1>1, OneCredit
  <2>. HIDE DEF sid, b
  <2>. QED
      BY <1>1, <1>2, <2>1
<1>. HIDE DEF sid, b
<1>5. due - v.received - (IF v.verdict = "partially_paid" THEN v.due ELSE 0) = 0
    BY <1>1, <1>3
<1>6. TermSum(o) = 0
    BY <1>1, <1>4, <1>5 DEF TermSum, Unpriced
<1>7. AmountsAgree(o)
  <2>1. v.received > 0 /\ (v.verdict = "partially_paid" => v.due > 0)
        /\ (v.verdict # "partially_paid" => v.due = 0) /\ due = v.received + v.due
      BY <1>1, <1>3
  <2>. QED
      BY <1>1, <1>3, <1>6, <2>1 DEF AmountsAgree, Unpriced
<1>8. RuleFits(o)
    BY <1>1 DEF RuleFits, RuleVerdicts, SettlementPasses
<1>. QED
    BY <1>7, <1>8

\* Its evidence is refused over a new year or a leap day or for a later failed row
\* only.
LEMMA SettlementShown ==
    ASSUME IsBatch(batch), HitsFit, NEW o \in Orders, RowsIn(o, "captured") # {},
           RowsIn(o, "chargeback_open") = {},
           verdicts[o] = Settled(o), HitOf(o).credit # 0, ~RefundElsewhere(o)
    PROVE  SettlementFits(o) <=> ~(OverNewYear(o) \/ OverLeapDay(o) \/ FailedLater(o))
<1>. DEFINE v == verdicts[o]
            b == HitOf(o).credit
            cap == RowsIn(o, "captured")
            sid == captures[Min(cap)].settlement
            own == Claimed(o) \cap RowsOf(o)
            lag == DayDelta(LatestDay(cap), bank[b].day)
            late == bank[b].day - LatestDay(own)
            latest == LatestDay(Claimed(o))
            leapLate == /\ v.verdict = "settled_clean"
                        /\ bank[b].day = LatestDay(own) + 2
                        /\ LeapDay \in {bank[b].day - 2, bank[b].day - 1}
            leapPass2 == /\ v.pass = "pass2_amount_date"
                         /\ \/ bank[b].day = LeapDay /\ latest = LeapDay + 1
                            \/ bank[b].day = latest + 4 /\ LeapDay \in latest..(latest + 3)
<1>1. /\ b \in Credits /\ v.credits = {b} /\ v.pass = HitOf(o).pass
      /\ HitFits(sid, HitOf(o)) /\ bank[b].amount = NetSum(Group(sid))
      /\ v.received = orders[o].amount - Refunded(o)
      /\ v.verdict = IF RowsIn(o, "refund") # {} THEN "partially_paid"
                     ELSE IF lag <= 1 THEN "settled_clean" ELSE "settled_late"
    BY SettledShape
<1>2. /\ Claimed(o) = Group(sid)
      /\ cap \cup RowsIn(o, "refund") \subseteq own
      /\ {captures[c].settlement : c \in Group(sid)} \ {""} = {sid}
    BY GroupIsClaimed
<1>3. Group(sid) \in SUBSET Captures /\ Group(sid) # {}
    BY <1>2 DEF Group
<1>4. Group(sid) = {c \in Captures : captures[c].settlement \in {sid}}
    BY DEF Group
<1>5. (CHOOSE c \in {b} : TRUE) = b
    OBVIOUS
<1>6. Rows(own, "refund") = RowsIn(o, "refund")
    BY <1>2 DEF Rows, RowsIn
<1>7. Cardinality({sid}) = 1
    BY FS_Singleton
<1>8. bank[b].day \in Nat /\ LatestDay(Group(sid)) \in Nat
    BY <1>1, <1>3, OneCredit, LatestIsIn
<1>. HIDE DEF sid, own
<1>9. (v.pass = "pass2_amount_date" => bank[b].day - latest \in 0..3) <=> ~leapPass2
  <2>1. v.pass = "pass2_amount_date" => DayDelta(LatestDay(Group(sid)), bank[b].day) \in 0..3
      BY <1>1 DEF HitFits
  <2>. QED
      BY <1>2, <1>8, <2>1, LagsCompare
<1>10. /\ v.pass = "pass1_exact_utr" => \E c \in Claimed(o) : SharedUtr(c, b)
       /\ v.pass = "pass3_settlement_id" => bank[b].settlement \in {sid}
    BY <1>1, <1>2 DEF HitFits
<1>14. OverLeapDay(o) <=> leapLate \/ leapPass2
    BY <1>1 DEF OverLeapDay, own
<1>. HIDE DEF b, lag, late, latest, leapPass2
<1>11. SettlementFits(o) <=> /\ ~leapPass2
                             /\ v.verdict = "settled_clean" => late <= 1
                             /\ v.verdict = "settled_late" => late > 1
  <2>1. own # {} /\ v.received = orders[o].amount - (- AmountOf(Rows(own, "refund")))
      BY <1>1, <1>2, <1>6 DEF Refunded
  <2>2. \A rows : bank[CHOOSE c \in v.credits : TRUE].day - LatestDay(rows)
                    = bank[b].day - LatestDay(rows)
      BY <1>1, <1>5
  <2>. QED
      BY <1>1, <1>2, <1>4, <1>5, <1>7, <1>9, <1>10, <2>1 DEF SettlementFits, own, late, latest
<1>12. CASE RowsIn(o, "refund") # {}
    BY <1>1, <1>11, <1>12, <1>14 DEF OverNewYear, FailedLater
<1>13. CASE RowsIn(o, "refund") = {}
  <2>1. /\ LatestDay(own) \in Nat /\ late \in Int /\ lag \in Int
        /\ lag <= 1 => (late > 1 <=> /\ bank[b].day = LatestDay(own) + 2
                                     /\ LeapDay \in {bank[b].day - 2, bank[b].day - 1})
        /\ lag > 1 => (late <= 1 <=>
              \/ bank[b].day = YearEnd + 1 /\ LatestDay(cap) = YearEnd
              \/ \E c \in Rows(own, "failed") : bank[b].day - captures[c].day <= 1)
    <3>1. own \in SUBSET RowsOf(o) /\ cap \subseteq own
        BY <1>2 DEF own
    <3>. QED
        BY <1>1, <1>8, <1>13, <3>1, LatenessAgrees DEF lag, late
  <2>2. /\ lag <= 1 => v.verdict = "settled_clean"
        /\ lag > 1 => v.verdict = "settled_late"
      BY <1>1, <1>13, <2>1
  <2>3. CASE lag <= 1
    <3>1. ~OverNewYear(o) /\ ~FailedLater(o)
        BY <2>2, <2>3 DEF OverNewYear, FailedLater
    <3>2. late > 1 <=> leapLate
        BY <2>1, <2>2, <2>3
    <3>3. SettlementFits(o) <=> ~leapPass2 /\ ~(late > 1)
        BY <1>11, <2>1, <2>2, <2>3
    <3>. HIDE DEF leapLate
    <3>. QED
        BY <1>14, <3>1, <3>2, <3>3
  <2>4. CASE lag > 1
    <3>1. OverNewYear(o) <=> bank[b].day = YearEnd + 1 /\ LatestDay(cap) = YearEnd
        BY <1>1, <2>2, <2>4 DEF OverNewYear
    <3>2. FailedLater(o) <=> \E c \in Rows(own, "failed") : bank[b].day - captures[c].day <= 1
        BY <1>1, <2>2, <2>4 DEF FailedLater, own
    <3>3. SettlementFits(o) <=> ~leapPass2 /\ ~(late <= 1)
        BY <1>11, <2>1, <2>2, <2>4
    <3>4. OverLeapDay(o) <=> leapPass2
        BY <1>14, <2>2, <2>4
    <3>. QED
        BY <2>1, <2>4, <3>1, <3>2, <3>3, <3>4
  <2>. QED
      BY <2>1, <2>3, <2>4
<1>. QED
    BY <1>12, <1>13

\* An order settled, or captured and not settled.
LEMMA SettledAgrees ==
    ASSUME IsBatch(batch), HitsFit, NEW o \in Orders, orders[o].disputes = <<>>,
           RowsIn(o, "captured") # {}, RowsIn(o, "chargeback_open") = {},
           verdicts[o] = Settled(o)
    PROVE  Agreed(o)
<1>. DEFINE v == verdicts[o]
<1>1. CASE HitOf(o).credit = 0
    BY <1>1, UnsettledAgrees
<1>2. CASE HitOf(o).credit # 0 /\ RefundElsewhere(o)
    BY <1>2, ElsewhereIsRefused DEF Agreed, PartOn
<1>3. CASE HitOf(o).credit # 0 /\ ~RefundElsewhere(o)
  <2>1. /\ v.pass \in {"pass1_exact_utr", "pass2_amount_date", "pass3_settlement_id"}
        /\ v.verdict \in {"partially_paid", "settled_clean", "settled_late"}
      BY <1>3, SettledShape DEF SettlementPasses
  <2>2. EvidenceFits(o) <=> SettlementFits(o)
      BY <2>1 DEF EvidenceFits, SettlementPasses
  <2>3. SettlementFits(o) <=> ~(OverNewYear(o) \/ OverLeapDay(o) \/ FailedLater(o))
      BY <1>3, SettlementShown
  <2>4. AmountsAgree(o) /\ RuleFits(o)
      BY <1>3, SettlementEquals
  <2>5. ~RepaidOddly(o) /\ ~UnpaidDespiteRow(o) /\ ~RejectedByEvidence(o)
      BY <2>1 DEF RepaidOddly, UnpaidDespiteRow, RejectedByEvidence
  <2>6. ~SeveralDisputes(o) /\ ~DisputeTooLarge(o)
      BY NoDispute
  <2>. QED
      BY <1>3, <2>2, <2>3, <2>4, <2>5, <2>6 DEF Agreed, PartOn, Verifies
<1>. QED
    BY <1>1, <1>2, <1>3

-----------------------------------------------------------------------------
(* The verifier agrees: an order that pass 4 decided.                       *)

\* The statutory taxes are naturals, so an amount of the gate is no more than the
\* order's, and less only by a tax.
LEMMA AmountsOfTheGate ==
    ASSUME IsBatch(batch), NEW o \in Orders
    PROVE  /\ orders[o].amount \in Nat \ {0} /\ PossibleAmounts(o) \subseteq CandidateAmounts(o)
           /\ \A a \in CandidateAmounts(o) :
                 /\ a \in Int /\ a =< orders[o].amount
                 /\ \/ a = orders[o].amount
                    \/ a \in TdsNets(orders[o].amount)
                    \/ orders[o].amount - a \in orders[o].tds
<1>. DEFINE due == orders[o].amount
<1>1. due \in Nat \ {0} /\ orders[o].tds \in SUBSET Nat
    BY BatchRows DEF Order
<1>2. PossibleAmounts(o) \subseteq CandidateAmounts(o)
    BY DEF PossibleAmounts, CandidateAmounts
<1>. HIDE DEF due
<1>3. ASSUME NEW a \in TdsNets(due)
      PROVE  a \in Int /\ a =< due
  <2>1. PICK bp \in {100, 200, 1000} : a = due - ((due * bp) \div 10000)
      BY <1>3 DEF TdsNets, STATUTORY_TDS_RATES_BP
  <2>. DEFINE p == due * bp
  <2>2. p \in Nat
      BY <1>1, <2>1
  <2>. HIDE DEF p
  <2>3. p \div 10000 \in Nat
      BY <2>2
  <2>4. a = due - (p \div 10000)
      BY <2>1 DEF p
  <2>. QED
      BY <1>1, <2>3, <2>4
<1>4. ASSUME NEW a \in CandidateAmounts(o)
      PROVE  /\ a \in Int /\ a =< due
             /\ a = due \/ a \in TdsNets(due) \/ due - a \in orders[o].tds
  <2>1. \/ a = due \/ a \in TdsNets(due)
        \/ \E t \in orders[o].tds : a = due - t
      BY DEF CandidateAmounts, due
  <2>2. CASE \E t \in orders[o].tds : a = due - t
    <3>1. PICK t \in orders[o].tds : a = due - t
        BY <2>2
    <3>2. t \in Nat
        BY <1>1
    <3>3. due - a = t
        BY <1>1, <3>1, <3>2
    <3>. QED
        BY <1>1, <3>1, <3>2, <3>3
  <2>. QED
      BY <1>1, <1>3, <2>1, <2>2
<1>. QED
    BY <1>1, <1>2, <1>4 DEF due

\* Pass 4 found candidates and could not choose, or the one it chose is doubtful.
LEMMA AmbiguousAgrees ==
    ASSUME NEW o \in Orders, orders[o].disputes = <<>>,
           verdicts[o].verdict \in {"ambiguous", "possible_tds_withholding"},
           verdicts[o].pass = "pass4_fuzzy",
           verdicts[o].received = 0, verdicts[o].due = 0
    PROVE  Agreed(o)
<1>1. RuleFits(o)
    BY DEF RuleFits, RuleVerdicts
<1>2. EvidenceFits(o)
    BY DEF EvidenceFits, SettlementPasses, Unpriced
<1>. QED
    BY <1>1, <1>2, HeldAgrees DEF Unpriced, SettlementPasses

\* Refunded in full, and no repayment found.
LEMMA NettedAgrees ==
    ASSUME NEW o \in Orders, orders[o].disputes = <<>>, RefundNetZero(o),
           verdicts[o].verdict = "ambiguous", verdicts[o].pass = "net_arithmetic",
           verdicts[o].received = 0, verdicts[o].due = 0
    PROVE  Agreed(o)
<1>1. RuleFits(o)
    BY DEF RuleFits, RuleVerdicts
<1>2. EvidenceFits(o)
    BY DEF EvidenceFits, SettlementPasses, Unpriced, RefundNetZero
<1>. QED
    BY <1>1, <1>2, HeldAgrees DEF Unpriced, SettlementPasses

\* Unpaid: the candidates went to others.
LEMMA RejectedAgrees ==
    ASSUME NEW o \in Orders, orders[o].disputes = <<>>,
           verdicts[o].verdict = "genuinely_unpaid", verdicts[o].pass = "pass4_rejected",
           verdicts[o].received = 0, verdicts[o].due = 0, verdicts[o].credits # {}
    PROVE  Agreed(o)
<1>1. RuleFits(o)
    BY DEF RuleFits, RuleVerdicts
<1>2. EvidenceFits(o) <=> ~RejectedByEvidence(o)
    BY DEF EvidenceFits, SettlementPasses, RejectedByEvidence
<1>3. /\ AmountsAgree(o)
      /\ ~RefundElsewhere(o) /\ ~OverNewYear(o) /\ ~OverLeapDay(o) /\ ~FailedLater(o)
      /\ ~RepaidOddly(o)
    BY NoMoneyAgrees DEF SettlementPasses
<1>4. ~UnpaidDespiteRow(o) /\ ~SeveralDisputes(o) /\ ~DisputeTooLarge(o)
    BY NoDispute DEF UnpaidDespiteRow
<1>. QED
    BY <1>1, <1>2, <1>3, <1>4 DEF Agreed, PartOn, Verifies

\* Unpaid, and there was no candidate.
LEMMA ExhaustedAgrees ==
    ASSUME IsBatch(batch), NEW o \in Orders, orders[o].disputes = <<>>,
           \/ RowsIn(o, "refund") # {}
           \/ RowsOf(o) = {} /\ Edges(o) = {},
           verdicts[o].verdict = "genuinely_unpaid", verdicts[o].pass = "exhausted",
           verdicts[o].received = 0, verdicts[o].due = 0
    PROVE  Agreed(o)
<1>1. RuleFits(o)
    BY DEF RuleFits, RuleVerdicts
<1>2. EvidenceFits(o) <=> NothingLeft(o)
    BY DEF EvidenceFits, SettlementPasses
<1>3. NothingLeft(o) <=> ~UnpaidDespiteRow(o)
  <2>1. CASE RowsIn(o, "refund") # {}
      BY <2>1 DEF NothingLeft, UnpaidDespiteRow, RowsIn
  <2>2. CASE RowsOf(o) = {} /\ Edges(o) = {}
    <3>1. RowsIn(o, "refund") = {}
        BY <2>2 DEF RowsIn
    <3>2. \A b \in Credits : bank[b].amount \in PossibleAmounts(o) =>
              b \in Consumed \/ bank[b].marked
        BY <2>2, AmountsOfTheGate DEF Edges, Pool
    <3>. QED
        BY <2>2, <3>1, <3>2 DEF NothingLeft, UnpaidDespiteRow
  <2>. QED
      BY <2>1, <2>2
<1>4. /\ AmountsAgree(o)
      /\ ~RefundElsewhere(o) /\ ~OverNewYear(o) /\ ~OverLeapDay(o) /\ ~FailedLater(o)
      /\ ~RepaidOddly(o)
    BY NoMoneyAgrees DEF SettlementPasses
<1>5. ~RejectedByEvidence(o) /\ ~SeveralDisputes(o) /\ ~DisputeTooLarge(o)
    BY NoDispute DEF RejectedByEvidence
<1>. QED
    BY <1>1, <1>2, <1>3, <1>4, <1>5 DEF Agreed, PartOn, Verifies

\* Paid, by the credit that pass 4 chose.
LEMMA MatchAgrees ==
    ASSUME IsBatch(batch), NEW o \in FuzzyOrders, orders[o].disputes = <<>>,
           NEW b \in Edges(o), verdicts[o] = Matched(o, b)
    PROVE  Agreed(o)
<1>. DEFINE v == verdicts[o]
            due == orders[o].amount
            amount == bank[b].amount
<1>1. o \in Orders /\ (RowsOf(o) = {} \/ RefundNetZero(o))
    BY DEF FuzzyOrders
<1>2. /\ b \in Credits /\ amount \in Nat \ {0} /\ CreditSum({b}) = amount
      /\ amount \in CandidateAmounts(o)
    BY OneCredit DEF Edges, Pool
<1>3. /\ due \in Nat \ {0} /\ amount =< due
      /\ amount = due \/ amount \in TdsNets(due) \/ due - amount \in orders[o].tds
    BY <1>1, <1>2, AmountsOfTheGate
<1>4. /\ ~RefundElsewhere(o) /\ ~OverNewYear(o) /\ ~OverLeapDay(o) /\ ~FailedLater(o)
      /\ ~UnpaidDespiteRow(o) /\ ~RejectedByEvidence(o)
      /\ ~SeveralDisputes(o) /\ ~DisputeTooLarge(o)
  <2>1. /\ v.pass \in {"pass4_fuzzy", "pass4_fuzzy_tds_evidence"}
        /\ v.verdict \notin {"settled_clean", "settled_late"}
      BY DEF Matched, Abstain
  <2>2. ~RefundElsewhere(o) /\ ~UnpaidDespiteRow(o) /\ ~RejectedByEvidence(o)
      BY <2>1 DEF RefundElsewhere, UnpaidDespiteRow, RejectedByEvidence, SettlementPasses
  <2>3. ~SeveralDisputes(o) /\ ~DisputeTooLarge(o)
      BY NoDispute
  <2>. QED
      BY <2>1, <2>2, <2>3 DEF OverNewYear, OverLeapDay, FailedLater
<1>5. CASE v.verdict = "possible_tds_withholding"
  <2>1. v.pass = "pass4_fuzzy" /\ v.received = 0 /\ v.due = 0
      BY <1>5 DEF Matched, Abstain
  <2>. QED
      BY <1>1, <1>5, <2>1, AmbiguousAgrees
<1>6. CASE v.verdict = "paid_net_of_tds"
  <2>1. /\ v.pass = "pass4_fuzzy_tds_evidence" /\ v.credits = {b} /\ v.received = amount
        /\ v.due = 0 /\ v.tds = due - amount /\ ~RefundNetZero(o)
      BY <1>2, <1>3, <1>6 DEF Matched, Abstain
  <2>2. TermSum(o) = 0
      BY <1>2, <1>6, <2>1 DEF TermSum, Unpriced, SettlementPasses
  <2>3. AmountsAgree(o)
      BY <1>2, <1>6, <2>1, <2>2 DEF AmountsAgree, Unpriced
  <2>4. RuleFits(o)
      BY <1>6, <2>1 DEF RuleFits, RuleVerdicts
  <2>5. EvidenceFits(o)
    <3>1. FuzzyFits(o)
        BY <1>1, <1>2, <1>6, <2>1 DEF FuzzyFits
    <3>. QED
        BY <1>6, <2>1, <3>1 DEF EvidenceFits, SettlementPasses
  <2>6. ~RepaidOddly(o)
      BY <1>6 DEF RepaidOddly
  <2>. QED
      BY <1>4, <2>3, <2>4, <2>5, <2>6 DEF Agreed, PartOn, Verifies
<1>7. CASE v.verdict = "paid_out_of_band"
  <2>1. /\ v.pass = "pass4_fuzzy" /\ v.credits = {b} /\ v.received = amount /\ v.due = 0
        /\ ~RefundNetZero(o)
        /\ due - amount > 0 => due - amount \notin orders[o].tds /\ amount \notin TdsNets(due)
      BY <1>7 DEF Matched, Abstain
  <2>2. amount = due
      BY <1>2, <1>3, <2>1
  <2>3. TermSum(o) = 0
      BY <1>2, <1>7, <2>1, <2>2 DEF TermSum, Unpriced, SettlementPasses
  <2>4. AmountsAgree(o)
      BY <1>2, <1>7, <2>1, <2>2, <2>3 DEF AmountsAgree, Unpriced
  <2>5. RuleFits(o)
      BY <1>7, <2>1 DEF RuleFits, RuleVerdicts
  <2>6. EvidenceFits(o)
    <3>1. FuzzyFits(o)
        BY <1>1, <1>2, <1>7, <2>1 DEF FuzzyFits
    <3>. QED
        BY <1>7, <2>1, <3>1 DEF EvidenceFits, SettlementPasses
  <2>7. ~RepaidOddly(o)
      BY <1>7 DEF RepaidOddly
  <2>. QED
      BY <1>4, <2>4, <2>5, <2>6, <2>7 DEF Agreed, PartOn, Verifies
<1>8. CASE v.verdict = "refunded_then_repaid"
  <2>1. /\ v.pass = "pass4_fuzzy" /\ v.credits = {b} /\ v.received = amount /\ v.due = 0
        /\ RefundNetZero(o)
      BY <1>8 DEF Matched, Abstain
  <2>2. RowsIn(o, "refund") # {} /\ NetSum(RowsOf(o)) = 0
      BY <2>1 DEF RefundNetZero
  <2>3. FuzzyFits(o) <=> Claimed(o) = RowsOf(o)
      BY <1>2, <1>8, <2>1, <2>2 DEF FuzzyFits
  <2>4. EvidenceFits(o) <=> FuzzyFits(o)
      BY <1>8, <2>1 DEF EvidenceFits, SettlementPasses, Unpriced
  <2>5. TermSum(o) = (due - amount) + NetSum(Claimed(o))
    <3>1. Claimed(o) \in SUBSET Captures
        BY <2>1 DEF Claimed, Matched, Abstain, RowsOf
    <3>2. NetSum(Claimed(o)) \in Int
        BY <3>1, NetsAreIntegers
    <3>3. TermSum(o) = (due - v.received - 0)
                       + ((CreditSum(v.credits) - v.received) + NetSum(Claimed(o)))
        BY <1>8, <2>1 DEF TermSum, Unpriced, SettlementPasses
    <3>4. TermSum(o) = (due - amount - 0) + ((amount - amount) + NetSum(Claimed(o)))
        BY <1>2, <2>1, <3>3
    <3>. QED
        BY <1>2, <1>3, <3>2, <3>4
  <2>6. RuleFits(o)
      BY <1>8, <2>1 DEF RuleFits, RuleVerdicts
  <2>7. AmountsAgree(o) <=> TermSum(o) = 0 /\ due = amount
      BY <1>2, <1>8, <2>1 DEF AmountsAgree, Unpriced
  <2>8. RepaidOddly(o) <=> amount < due \/ Claimed(o) # RowsOf(o)
      BY <1>8, <2>1 DEF RepaidOddly
  <2>9. ASSUME due = amount, Claimed(o) = RowsOf(o)
        PROVE  TermSum(o) = 0
      BY <1>2, <2>2, <2>5, <2>9
  <2>10. amount < due <=> due # amount
      BY <1>2, <1>3
  <2>. QED
      BY <1>4, <2>3, <2>4, <2>6, <2>7, <2>8, <2>9, <2>10 DEF Agreed, PartOn, Verifies
<1>9. v.verdict \in {"possible_tds_withholding", "paid_net_of_tds", "paid_out_of_band",
                     "refunded_then_repaid"}
    BY DEF Matched, Abstain
<1>. QED
    BY <1>5, <1>6, <1>7, <1>8, <1>9

\* Paid, unpaid or held by what pass 4 made of the order.
LEMMA FuzzyAgrees ==
    ASSUME IsBatch(batch), Assigned, Solved, FuzzyOrders \subseteq DOMAIN assignment,
           NEW o \in Orders, orders[o].disputes = <<>>, RowsIn(o, "chargeback_open") = {},
           ~(RowsIn(o, "captured") # {} /\ ~RefundNetZero(o)),
           ~(RowsIn(o, "failed") # {} /\ RowsIn(o, "refund") = {} /\ RowsIn(o, "captured") = {}),
           Resolve(o) = Fuzzy(o), verdicts[o] = Fuzzy(o)
    PROVE  Agreed(o)
<1>. DEFINE v == verdicts[o]
            b == assignment[o].credit
<1>1. CASE o \notin FuzzyOrders
  <2>1. RowsOf(o) # {} /\ ~RefundNetZero(o)
      BY <1>1 DEF FuzzyOrders
  <2>2. \A c \in RowsOf(o) : captures[c].status \in Status
      BY BatchRows DEF RowsOf, Capture
  <2>3. RowsIn(o, "refund") # {}
      BY <2>1, <2>2 DEF RowsIn, Status
  <2>4. Fuzzy(o) = Unpaid(o, 0)
      BY <1>1, <2>1 DEF Fuzzy
  <2>5. /\ v.verdict = "genuinely_unpaid" /\ v.pass = "exhausted"
        /\ v.received = 0 /\ v.due = 0
      BY <1>1, <2>4 DEF Unpaid, Abstain
  <2>. QED
      BY <2>3, <2>5, ExhaustedAgrees
<1>2. ASSUME o \in FuzzyOrders
      PROVE  b \in Edges(o) \cup {0} /\ (RowsOf(o) = {} \/ RefundNetZero(o))
    BY <1>2 DEF Assigned, FuzzyOrders
<1>. HIDE DEF b
<1>3. CASE /\ o \in FuzzyOrders
           /\ \/ assignment[o].tie
              \/ b # 0 /\ DuplicateUtr(b)
              \/ b # 0 /\ Decision(o, Weight(o, b)) = "AMBIGUOUS"
  <2>1. /\ v.verdict = "ambiguous" /\ v.pass = "pass4_fuzzy"
        /\ v.received = 0 /\ v.due = 0
      BY <1>3 DEF Fuzzy, Abstain, b
  <2>. QED
      BY <2>1, AmbiguousAgrees
<1>4. CASE /\ o \in FuzzyOrders /\ ~assignment[o].tie
           /\ b # 0 /\ ~DuplicateUtr(b) /\ Decision(o, Weight(o, b)) = "MATCH"
  <2>1. v = Matched(o, b)
      BY <1>4 DEF Fuzzy, b
  <2>. QED
      BY <1>2, <1>4, <2>1, MatchAgrees
<1>5. CASE /\ o \in FuzzyOrders /\ ~assignment[o].tie
           /\ b # 0 => ~DuplicateUtr(b) /\ Decision(o, Weight(o, b)) = "NON_MATCH"
  <2>1. CASE RefundNetZero(o)
    <3>1. v = [Abstain EXCEPT !.pass = "net_arithmetic", !.rows = RowsOf(o)]
        BY <1>5, <2>1 DEF Fuzzy, b
    <3>2. /\ v.verdict = "ambiguous" /\ v.pass = "net_arithmetic"
          /\ v.received = 0 /\ v.due = 0
        BY <3>1 DEF Abstain
    <3>. QED
        BY <2>1, <3>2, NettedAgrees
  <2>2. CASE ~RefundNetZero(o)
    <3>1. v = Unpaid(o, b) /\ v.verdict = "genuinely_unpaid" /\ RowsIn(o, "refund") = {}
      <4>1. v = Unpaid(o, b)
          BY <1>5, <2>2 DEF Fuzzy, b
      <4>. QED
          BY <1>2, <1>5, <2>2, <4>1 DEF Unpaid, Abstain, RowsIn
    <3>2. CASE b # 0
      <4>1. v.path # "exact" /\ v.pass = "pass4_fuzzy"
          BY <3>1, <3>2 DEF Unpaid, Abstain
      <4>2. UnpaidSound(o, Resolve(o))
          BY ResolveIsSound
      <4>. QED
          BY <3>1, <4>1, <4>2 DEF UnpaidSound
    <3>3. CASE b = 0 /\ Edges(o) # {}
      <4>1. /\ v.pass = "pass4_rejected" /\ v.credits = Edges(o)
            /\ v.received = 0 /\ v.due = 0
          BY <1>5, <3>1, <3>3 DEF Unpaid, Abstain
      <4>. QED
          BY <3>1, <3>3, <4>1, RejectedAgrees
    <3>4. CASE b = 0 /\ Edges(o) = {}
      <4>1. v.pass = "exhausted" /\ v.received = 0 /\ v.due = 0
          BY <1>5, <3>1, <3>4 DEF Unpaid, Abstain
      <4>. QED
          BY <1>2, <1>5, <2>2, <3>1, <3>4, <4>1, ExhaustedAgrees
    <3>. QED
        BY <3>2, <3>3, <3>4
  <2>. QED
      BY <2>1, <2>2
<1>6. \A weight : Decision(o, weight) \in {"MATCH", "NON_MATCH", "AMBIGUOUS"}
    BY DEF Decision
<1>. QED
    BY <1>1, <1>3, <1>4, <1>5, <1>6

\* The verifier agrees with every verdict that _resolve gives.
LEMMA ResolveAgrees ==
    ASSUME IsBatch(batch), HitsFit, Assigned, Solved, FuzzyOrders \subseteq DOMAIN assignment,
           NEW o \in Orders, verdicts[o] = Resolve(o)
    PROVE  Agreed(o)
<1>2. CASE orders[o].disputes # <<>> \/ RowsIn(o, "chargeback_open") # {}
  <2>1. verdicts[o] = Chargeback(o)
      BY <1>2 DEF Resolve
  <2>. QED
      BY <1>2, <2>1, ChargebackAgrees
<1>3. ASSUME ~(orders[o].disputes # <<>> \/ RowsIn(o, "chargeback_open") # {})
      PROVE  orders[o].disputes = <<>> /\ RowsIn(o, "chargeback_open") = {}
    BY <1>3
<1>4. CASE /\ ~(orders[o].disputes # <<>> \/ RowsIn(o, "chargeback_open") # {})
           /\ RowsIn(o, "captured") # {} /\ ~RefundNetZero(o)
  <2>1. verdicts[o] = Settled(o)
      BY <1>4 DEF Resolve
  <2>. QED
      BY <1>3, <1>4, <2>1, SettledAgrees
<1>5. CASE /\ ~(orders[o].disputes # <<>> \/ RowsIn(o, "chargeback_open") # {})
           /\ ~(RowsIn(o, "captured") # {} /\ ~RefundNetZero(o))
           /\ RowsIn(o, "failed") # {} /\ RowsIn(o, "refund") = {} /\ RowsIn(o, "captured") = {}
  <2>1. verdicts[o] = [Abstain EXCEPT !.verdict = "failed_not_debited", !.pass = "gateway_status",
                                      !.path = "exact", !.rows = RowsIn(o, "failed")]
      BY <1>5 DEF Resolve
  <2>. QED
      BY <1>3, <1>5, <2>1, FailedAgrees
<1>6. CASE /\ ~(orders[o].disputes # <<>> \/ RowsIn(o, "chargeback_open") # {})
           /\ ~(RowsIn(o, "captured") # {} /\ ~RefundNetZero(o))
           /\ ~(RowsIn(o, "failed") # {} /\ RowsIn(o, "refund") = {} /\ RowsIn(o, "captured") = {})
  <2>1. Resolve(o) = Fuzzy(o)
      BY <1>6 DEF Resolve
  <2>. QED
      BY <1>3, <1>6, <2>1, FuzzyAgrees
<1>. QED
    BY <1>2, <1>4, <1>5, <1>6

\* What _resolve reads are the rows, what was joined and what was assigned.
LEMMA ResolveKept ==
    ASSUME UNCHANGED <<batch, hits, assignment>>, NEW o
    PROVE  Resolve(o)' = Resolve(o)
<1>1. /\ orders' = orders /\ captures' = captures /\ bank' = bank
      /\ Captures' = Captures /\ Credits' = Credits
    BY DEF orders, captures, bank, Captures, Credits
<1>2. \A p : RowsOf(p)' = RowsOf(p)
    BY <1>1 DEF RowsOf
<1>3. \A p, status : RowsIn(p, status)' = RowsIn(p, status)
    BY <1>1, <1>2 DEF RowsIn
<1>4. RefundNetZero(o)' = RefundNetZero(o)
    BY <1>1, <1>2, <1>3 DEF RefundNetZero, NetSum, NetOf
<1>5. FuzzyOrders' = FuzzyOrders /\ Edges(o)' = Edges(o)
    BY GraphKept
<1>6. \A rows : LatestDay(rows)' = LatestDay(rows)
    BY <1>1 DEF LatestDay
<1>7. \A day : Covered(day)' = Covered(day)
    BY <1>1 DEF Covered
<1>8. HitOf(o)' = HitOf(o) /\ Refunded(o)' = Refunded(o)
    BY <1>1, <1>3 DEF HitOf, Refunded, AmountOf
<1>9. Chargeback(o)' = Chargeback(o)
    BY <1>1, <1>3 DEF Chargeback, Abstain
<1>10. Settled(o)' = Settled(o)
    BY <1>1, <1>3, <1>6, <1>7, <1>8 DEF Settled, Abstain
<1>11. \A b : /\ Matched(o, b)' = Matched(o, b)
              /\ Unpaid(o, b)' = Unpaid(o, b)
              /\ DuplicateUtr(b)' = DuplicateUtr(b)
              /\ Decision(o, Weight(o, b))' = Decision(o, Weight(o, b))
  <2>1. \A b : Matched(o, b)' = Matched(o, b)
      BY <1>1, <1>4 DEF Matched, Abstain, TdsNets
  <2>2. \A b : Unpaid(o, b)' = Unpaid(o, b)
      BY <1>1, <1>5, <1>7 DEF Unpaid, Abstain
  <2>3. \A b : DuplicateUtr(b)' = DuplicateUtr(b)
      BY <1>1 DEF DuplicateUtr
  <2>4. \A b : Decision(o, Weight(o, b))' = Decision(o, Weight(o, b))
      BY <1>1 DEF Decision, Weight
  <2>. QED
      BY <2>1, <2>2, <2>3, <2>4
<1>12. Fuzzy(o)' = Fuzzy(o)
  <2>. DEFINE choice == IF o \in FuzzyOrders THEN assignment[o] ELSE [credit |-> 0, tie |-> FALSE]
              b == choice.credit
  <2>1. choice' = choice /\ b' = b
      BY <1>5
  <2>2. /\ Matched(o, b)' = Matched(o, b) /\ Unpaid(o, b)' = Unpaid(o, b)
        /\ DuplicateUtr(b)' = DuplicateUtr(b)
        /\ Decision(o, Weight(o, b))' = Decision(o, Weight(o, b))
      BY <1>11, <2>1
  <2>3. /\ [Abstain EXCEPT !.pass = "pass4_fuzzy", !.credits = Edges(o)]'
              = [Abstain EXCEPT !.pass = "pass4_fuzzy", !.credits = Edges(o)]
        /\ Abstain' = Abstain
      BY <1>5 DEF Abstain
  <2>. QED
      BY <1>2, <1>4, <1>5, <2>1, <2>2, <2>3 DEF Fuzzy
<1>. QED
    BY <1>1, <1>3, <1>4, <1>9, <1>10, <1>12 DEF Resolve, Abstain

-----------------------------------------------------------------------------
(* The run, verified.                                                       *)

\* The invariant: every verdict is the one that _resolve gives, still.
AgreeInv ==
    /\ SolveInv
    /\ HitsFit
    /\ \A o \in DOMAIN verdicts : o \in Orders /\ verdicts[o] = Resolve(o)

LEMMA AgreeStart == Init => AgreeInv
<1>. SUFFICES ASSUME Init PROVE AgreeInv
    OBVIOUS
<1>1. DOMAIN hits = {} /\ DOMAIN verdicts = {}
    BY DEF Init
<1>. QED
    BY <1>1, SolveStart DEF AgreeInv, HitsFit

\* A settlement joined stays fit while the batch stays.
LEMMA FitKept ==
    ASSUME UNCHANGED batch, NEW sid, NEW hit, HitFits(sid, hit)
    PROVE  HitFits(sid, hit)'
<1>1. captures' = captures /\ bank' = bank /\ Credits' = Credits /\ Captures' = Captures
    BY DEF captures, bank, Credits, Captures
<1>2. Group(sid)' = Group(sid)
    BY <1>1 DEF Group
<1>3. Paying(sid)' = Paying(sid)
    BY <1>1, <1>2 DEF Paying, Expected, NetSum, NetOf
<1>4. LatestDay(Group(sid))' = LatestDay(Group(sid))
    BY <1>1, <1>2 DEF LatestDay
<1>. QED
    BY <1>1, <1>2, <1>3, <1>4 DEF HitFits, SharedUtr

\* Joining keeps what was joined, resolving adds what _resolve gives, and no step
\* changes what an earlier verdict was given of.
LEMMA AgreeStep == AgreeInv /\ [Next]_vars => AgreeInv'
<1>. SUFFICES ASSUME AgreeInv, [Next]_vars PROVE AgreeInv'
    OBVIOUS
<1>1. SolveInv' /\ SolveInv /\ IInv /\ IsBatch(batch)
    BY SolveStep DEF AgreeInv, SolveInv
<1>2. UNCHANGED batch
    BY DEF Next, vars, JoinSettlement, CloseSettlements, AssignComponent, AbstainOnComponent,
           CloseAssignment, ResolveOrder
<1>3. Orders' = Orders /\ Settlements' = Settlements
    BY <1>2 DEF Orders, orders, Settlements, Captures, captures
<1>4. ASSUME UNCHANGED hits PROVE HitsFit'
    BY <1>2, <1>3, <1>4, FitKept DEF AgreeInv, HitsFit
<1>5. CASE JoinSettlement
  <2>1. DOMAIN verdicts' = {}
    <3>1. verdicts' = <<>>
        BY <1>1, <1>5 DEF JoinSettlement, IInv, Staged
    <3>. QED
        BY <3>1
  <2>2. PICK c \in Unjoined :
            hits' = Extended(hits, [s \in {captures[c].settlement} |-> SettlementHit(s)])
      BY <1>5 DEF JoinSettlement, First
  <2>. DEFINE sid == captures[c].settlement
  <2>3. sid \in Settlements
      BY DEF Unjoined, Settlements
  <2>4. ASSUME NEW s \in DOMAIN hits'
        PROVE  s \in Settlements /\ HitFits(s, hits'[s])
    <3>1. /\ s \in DOMAIN hits \/ s = sid
          /\ hits'[s] = IF s \in DOMAIN hits THEN hits[s] ELSE SettlementHit(s)
        BY <2>2 DEF Extended
    <3>2. CASE s \in DOMAIN hits
        BY <3>1, <3>2 DEF AgreeInv, HitsFit
    <3>3. CASE s \notin DOMAIN hits
        BY <1>1, <2>3, <3>1, <3>3, SettlementHitFits
    <3>. QED
        BY <3>2, <3>3
  <2>5. HitsFit'
    <3>1. ASSUME NEW s \in DOMAIN hits', NEW h, h = hits'[s] PROVE HitFits(s, h)'
        BY <1>2, <2>4, <3>1, FitKept
    <3>. QED
        BY <1>3, <2>4, <3>1 DEF HitsFit
  <2>. QED
      BY <1>1, <2>1, <2>5 DEF AgreeInv
<1>6. ASSUME UNCHANGED hits, verdicts = <<>>, verdicts' = <<>>
      PROVE  AgreeInv'
  <2>1. DOMAIN verdicts' = {}
      BY <1>6
  <2>. QED
      BY <1>1, <1>4, <1>6, <2>1 DEF AgreeInv
<1>7. CASE CloseSettlements \/ AssignComponent \/ AbstainOnComponent \/ CloseAssignment
    BY <1>1, <1>6, <1>7 DEF CloseSettlements, AssignComponent, AbstainOnComponent, CloseAssignment,
                            IInv, Staged
<1>8. CASE ResolveOrder
  <2>1. PICK o \in Unresolved : verdicts' = Extended(verdicts, [q \in {o} |-> Resolve(q)])
      BY <1>8 DEF ResolveOrder, First
  <2>2. UNCHANGED <<batch, hits, assignment>>
      BY <1>8 DEF ResolveOrder
  <2>3. ASSUME NEW p \in DOMAIN verdicts'
        PROVE  p \in Orders' /\ verdicts'[p] = Resolve(p)'
    <3>1. /\ p = o \/ p \in DOMAIN verdicts
          /\ verdicts'[p] = IF p \in DOMAIN verdicts THEN verdicts[p] ELSE Resolve(p)
        BY <2>1 DEF Extended
    <3>2. p \in Orders /\ verdicts'[p] = Resolve(p)
        BY <2>1, <3>1 DEF AgreeInv, Unresolved
    <3>3. Resolve(p)' = Resolve(p)
        BY <2>2, ResolveKept
    <3>. QED
        BY <1>3, <3>2, <3>3
  <2>. QED
      BY <1>1, <1>4, <2>2, <2>3 DEF AgreeInv
<1>9. CASE UNCHANGED vars
  <2>1. UNCHANGED <<batch, hits, assignment, verdicts>>
      BY <1>9 DEF vars
  <2>2. \A p : Resolve(p)' = Resolve(p)
      BY <2>1, ResolveKept
  <2>. QED
      BY <1>1, <1>3, <1>4, <2>1, <2>2 DEF AgreeInv
<1>. QED
    BY <1>5, <1>7, <1>8, <1>9 DEF Next

\* Verdicts are given when pass 4 is over, so each is verified as it was given.
LEMMA AgreeInvImplies == AgreeInv => VerifierAgrees
<1>. SUFFICES ASSUME AgreeInv, NEW o \in DOMAIN verdicts PROVE Agreed(o)
    BY DEF VerifierAgrees, Agreed
<1>1. IsBatch(batch) /\ HitsFit /\ Assigned /\ Solved /\ o \in Orders /\ verdicts[o] = Resolve(o)
    BY DEF AgreeInv, SolveInv, IInv
<1>2. pc = "resolve"
  <2>1. verdicts # <<>>
      OBVIOUS
  <2>. QED
      BY <2>1 DEF AgreeInv, SolveInv, IInv, Staged
<1>3. FuzzyOrders \subseteq DOMAIN assignment
    BY <1>2 DEF AgreeInv, SolveInv, IInv, Staged
<1>. QED
    BY <1>1, <1>3, ResolveAgrees

\* The verifier accepts the certificate of every verdict the matcher gives but
\* those of the nine kinds, which it refuses (verifier.py:367-627 against
\* recon.py:344-527 and certificates.py:340-464), for every batch, weight,
\* margin and limit, and any calendar of one new year and one leap day.
THEOREM VerdictsVerify == Spec => []VerifierAgrees
<1>1. Spec => []AgreeInv
    BY AgreeStart, AgreeStep, PTL DEF Spec
<1>. QED
    BY <1>1, AgreeInvImplies, PTL

-----------------------------------------------------------------------------
(* Identities: the terms of the issuer.                                     *)

\* One term for each of a list, with its identifier.
LEMMA OneTermEach ==
    ASSUME NEW ids, IsSequence(ids), NEW terms,
           DOMAIN terms = 1..Len(ids), terms = [i \in 1..Len(ids) |-> terms[i]],
           \A i \in 1..Len(ids) : terms[i].ref = ids[i],
           \A i, j \in 1..Len(ids) : ids[i] = ids[j] => terms[i] = terms[j]
    PROVE  IsSequence(terms) /\ (IsInjective(terms) <=> IsInjective(ids))
<1>1. Len(ids) \in Nat /\ DOMAIN ids = 1..Len(ids)
  BY SequenceHas
<1>2. IsSequence(terms)
  BY <1>1, SequenceUpTo
<1>3. IsInjective(terms) <=> IsInjective(ids)
  BY <1>1 DEF IsInjective
<1> QED
  BY <1>2, <1>3

\* Three terms for each capture of a settlement.
LEMMA ThreeTermsEach ==
    ASSUME NEW c, IsSequence(c.captures)
    PROVE  /\ IsSequence(OfCaptures(c))
           /\ ToSet(OfCaptures(c)) =
                 UNION {ToSet(CaptureTerms(p, c.rows[p])) : p \in ToSet(c.captures)}
           /\ IsInjective(OfCaptures(c)) <=> IsInjective(c.captures)
<1> DEFINE ids == c.captures
           n == Len(ids)
           terms == OfCaptures(c)
           T(p) == CaptureTerms(p, c.rows[p])
           name == <<"gateway_capture", "gateway_fee", "gateway_gst">>
           K(i) == 1 + ((i - 1) \div 3)
           J(i) == 1 + ((i - 1) % 3)
<1>1. n \in Nat /\ DOMAIN ids = 1..n
  BY SequenceHas
<1>2. \A p : /\ DOMAIN T(p) = 1..3
             /\ \A j \in 1..3 : T(p)[j].ref = p /\ T(p)[j].name = name[j]
  BY DEF CaptureTerms, Term
<1>3. /\ DOMAIN terms = 1..(3 * n)
      /\ terms = [i \in 1..(3 * n) |-> terms[i]]
      /\ \A i \in 1..(3 * n) :
            terms[i] = T(ids[K(i)])[J(i)]
  BY DEF OfCaptures
<1>4. 3 * n \in Nat
  BY <1>1
<1>5. ASSUME NEW i \in 1..(3 * n)
      PROVE  K(i) \in 1..n /\ J(i) \in 1..3 /\ i = 3 * (K(i) - 1) + J(i)
  <2> DEFINE d == (i - 1) \div 3
             r == (i - 1) % 3
  <2>1. i \in Nat /\ i >= 1 /\ i =< 3 * n
    BY <1>1
  <2>2. d \in Int /\ r \in 0..2 /\ i - 1 = 3 * d + r
    BY <2>1
  <2> HIDE DEF d, r
  <2>3. d >= 0 /\ d < n
    BY <1>1, <2>1, <2>2
  <2>4. K(i) = 1 + d /\ J(i) = 1 + r
    BY DEF d, r
  <2> HIDE DEF K, J
  <2> QED
    BY <1>1, <2>1, <2>2, <2>3, <2>4
<1>6. ASSUME NEW k \in 1..n, NEW j \in 1..3
      PROVE  /\ 3 * (k - 1) + j \in 1..(3 * n)
             /\ terms[3 * (k - 1) + j] = T(ids[k])[j]
  <2> DEFINE i == 3 * (k - 1) + j
  <2>1. i \in 1..(3 * n)
    BY <1>1
  <2>2. (i - 1) \div 3 = k - 1 /\ (i - 1) % 3 = j - 1
    BY <1>1
  <2>3. K(i) = k /\ J(i) = j
    BY <1>1, <2>2
  <2> HIDE DEF i, T, terms, K, J
  <2> QED
    BY <1>3, <2>1, <2>3 DEF i
<1>7. IsSequence(terms)
  <2> HIDE DEF terms
  <2> QED
    BY <1>3, <1>4, SequenceUpTo
<1> HIDE DEF terms, T, name, K, J
<1>8. ToSet(terms) = UNION {ToSet(T(p)) : p \in ToSet(ids)}
  <2>1. ASSUME NEW i \in 1..(3 * n)
        PROVE  \E p \in ToSet(ids) : terms[i] \in ToSet(T(p))
    <3>1. K(i) \in 1..n /\ J(i) \in 1..3 /\ terms[i] = T(ids[K(i)])[J(i)]
      BY <1>3, <1>5
    <3> QED
      BY <1>1, <1>2, <3>1 DEF ToSet
  <2>2. ASSUME NEW p \in ToSet(ids), NEW t \in ToSet(T(p))
        PROVE  t \in ToSet(terms)
    <3>1. PICK k \in 1..n : p = ids[k]
      BY <1>1 DEF ToSet
    <3>2. PICK j \in 1..3 : t = T(p)[j]
      BY <1>2 DEF ToSet
    <3> QED
      BY <1>3, <1>6, <3>1, <3>2 DEF ToSet
  <2>3. ToSet(terms) = {terms[i] : i \in 1..(3 * n)}
    BY <1>3 DEF ToSet
  <2> QED
    BY <2>1, <2>2, <2>3
<1>9. ASSUME IsInjective(ids) PROVE IsInjective(terms)
  <2> SUFFICES ASSUME NEW h \in 1..(3 * n), NEW i \in 1..(3 * n), terms[h] = terms[i]
               PROVE  h = i
    BY <1>3 DEF IsInjective
  <2>1. /\ K(h) \in 1..n /\ J(h) \in 1..3 /\ K(i) \in 1..n /\ J(i) \in 1..3
        /\ terms[h] = T(ids[K(h)])[J(h)] /\ terms[i] = T(ids[K(i)])[J(i)]
    BY <1>3, <1>5
  <2>2. h = 3 * (K(h) - 1) + J(h) /\ i = 3 * (K(i) - 1) + J(i)
    BY <1>5
  <2>3. ids[K(h)] = ids[K(i)] /\ name[J(h)] = name[J(i)]
    <3> DEFINE p == ids[K(h)]
               q == ids[K(i)]
    <3>1. T(p)[J(h)] = T(q)[J(i)]
      BY <2>1
    <3>2. T(p)[J(h)].ref = p /\ T(p)[J(h)].name = name[J(h)]
      BY <1>2, <2>1
    <3>3. T(q)[J(i)].ref = q /\ T(q)[J(i)].name = name[J(i)]
      BY <1>2, <2>1
    <3> HIDE DEF p, q
    <3>4. p = q /\ name[J(h)] = name[J(i)]
      BY <3>1, <3>2, <3>3
    <3> QED
      BY <3>4 DEF p, q
  <2>4. K(h) = K(i)
    BY <1>1, <1>9, <2>1, <2>3 DEF IsInjective
  <2>5. J(h) = J(i)
    BY <2>1, <2>3 DEF name
  <2> QED
    BY <2>2, <2>4, <2>5
<1>10. ASSUME IsInjective(terms) PROVE IsInjective(ids)
  <2> SUFFICES ASSUME NEW k \in 1..n, NEW l \in 1..n, ids[k] = ids[l] PROVE k = l
    BY <1>1 DEF IsInjective
  <2>1. /\ 3 * (k - 1) + 1 \in 1..(3 * n) /\ 3 * (l - 1) + 1 \in 1..(3 * n)
        /\ terms[3 * (k - 1) + 1] = T(ids[k])[1] /\ terms[3 * (l - 1) + 1] = T(ids[l])[1]
    BY <1>6
  <2>2. 3 * (k - 1) + 1 = 3 * (l - 1) + 1
    <3> DEFINE x == 3 * (k - 1) + 1
               y == 3 * (l - 1) + 1
    <3>1. x \in DOMAIN terms /\ y \in DOMAIN terms /\ terms[x] = terms[y]
      BY <1>3, <2>1
    <3> HIDE DEF x, y
    <3>2. x = y
      BY <1>10, <3>1 DEF IsInjective
    <3> QED
      BY <3>2 DEF x, y
  <2> QED
    BY <1>1, <2>2
<1> QED
  BY <1>7, <1>8, <1>9, <1>10 DEF terms, T

\* The refunds that count: those of the claim that were processed.
LEMMA RefundsProcessed ==
    ASSUME NEW c, IsSequence(c.refunds)
    PROVE  /\ IsSequence(ProcessedRefunds(c))
           /\ ToSet(ProcessedRefunds(c)) =
                 {r \in ToSet(c.refunds) : c.rows[r].status = "processed"}
<1> DEFINE ids == c.refunds
           n == Len(ids)
           here == {i \in 1..n : c.rows[ids[i]].status = "processed"}
<1>1. n \in Nat /\ DOMAIN ids = 1..n /\ here \in SUBSET (1..n)
  BY SequenceHas
<1>2. ProcessedRefunds(c) = Pick(ids, here)
  BY DEF ProcessedRefunds
<1>3. /\ IsSequence(Pick(ids, here))
      /\ \A k \in here : ids[k] \in ToSet(Pick(ids, here))
      /\ \A x \in ToSet(Pick(ids, here)) : \E k \in here : x = ids[k]
  <2> HIDE DEF here, ids
  <2>1. here \in SUBSET (1..n) /\ n \in Nat
    BY <1>1
  <2> HIDE DEF n
  <2>2. IsSequence(Pick(ids, here)) /\ \A k \in here : ids[k] \in ToSet(Pick(ids, here))
    BY <2>1, PickedRows
  <2>3. ASSUME NEW x \in ToSet(Pick(ids, here)) PROVE \E k \in here : x = ids[k]
    <3>1. PICK i \in 1..Cardinality(here) : x = ids[Nth(here, i)]
      BY DEF Pick, ToSet
    <3>2. Nth(here, i) \in here
      BY <2>1, NthExists
    <3> QED
      BY <3>1, <3>2
  <2> QED
    BY <2>2, <2>3
<1>4. ToSet(ids) = {ids[i] : i \in 1..n}
  BY <1>1 DEF ToSet
<1> QED
  BY <1>2, <1>3, <1>4

-----------------------------------------------------------------------------
(* What the issuer and the verifier make of one claim.                      *)

CapturesMade(c) == ToSet(c.captures)
RefundsMade(c) == ToSet(ProcessedRefunds(c))
AdjustmentsMade(c) == ToSet(c.adjustments)
TaxRef(c) == IF c.tds_source_ref = "" THEN c.subject ELSE c.tds_source_ref

Parts(c, ps) == UNION {ToSet(CaptureTerms(p, c.rows[p])) : p \in ps}
Priced(name, c, ids) == {Term(name, c.rows[x].amount, x) : x \in ids}
Deducted(c, rs) == {Term("refund", - c.rows[r].amount, r) : r \in rs}

\* The lists of a claim are of rows of three kinds, so no two share one.
LEMMA EventsOfAClaim ==
    ASSUME NEW c, IsClaim(c)
    PROVE  /\ IsSequence(ProcessedRefunds(c))
           /\ \A p \in CapturesMade(c) : p \in DOMAIN c.rows /\ c.rows[p].kind = "capture"
           /\ \A r \in RefundsMade(c) : /\ r \in DOMAIN c.rows /\ c.rows[r].kind = "refund"
                                     /\ c.rows[r].status = "processed"
           /\ \A a \in AdjustmentsMade(c) : a \in DOMAIN c.rows /\ c.rows[a].kind = "adjustment"
           /\ c.captures = <<>> <=> CapturesMade(c) = {}
           /\ IsInjective(c.captures \o ProcessedRefunds(c) \o c.adjustments) <=>
                 IsInjective(c.captures) /\ IsInjective(ProcessedRefunds(c))
                 /\ IsInjective(c.adjustments)
<1>1. /\ IsSequence(c.captures) /\ IsSequence(c.refunds) /\ IsSequence(c.adjustments)
      /\ \A p \in ToSet(c.captures) : p \in DOMAIN c.rows /\ c.rows[p].kind = "capture"
      /\ \A r \in ToSet(c.refunds) : r \in DOMAIN c.rows /\ c.rows[r].kind = "refund"
      /\ \A a \in ToSet(c.adjustments) : a \in DOMAIN c.rows /\ c.rows[a].kind = "adjustment"
  BY DEF IsClaim
<1>2. /\ IsSequence(ProcessedRefunds(c))
      /\ \A r \in RefundsMade(c) : r \in ToSet(c.refunds) /\ c.rows[r].status = "processed"
  BY <1>1, RefundsProcessed DEF RefundsMade
<1> DEFINE P == ProcessedRefunds(c)
           cs == c.captures
           ads == c.adjustments
<1>3. /\ ToSet(cs) \cap ToSet(P) = {} /\ (ToSet(cs) \cup ToSet(P)) \cap ToSet(ads) = {}
  BY <1>1, <1>2 DEF RefundsMade
<1>4. IsSequence(P) /\ IsSequence(cs) /\ IsSequence(ads)
  BY <1>1, <1>2
<1>5. cs = <<>> <=> ToSet(cs) = {}
  <2>1. ASSUME cs = <<>> PROVE ToSet(cs) = {}
    <3>1. Len(cs) = 0
      BY <2>1
    <3> HIDE DEF cs
    <3>2. DOMAIN cs = 1..0
      BY <1>4, <3>1, SequenceHas
    <3> QED
      BY <3>2 DEF ToSet
  <2>2. ASSUME ToSet(cs) = {} PROVE cs = <<>>
    <3> HIDE DEF cs
    <3>1. DOMAIN cs = {} /\ DOMAIN cs = 1..Len(cs) /\ Len(cs) \in Nat
      BY <1>4, <2>2, SequenceHas DEF ToSet
    <3>2. Len(cs) = 0
      BY <3>1
    <3> QED
      BY <1>4, <3>2, EmptySeq DEF IsSequence
  <2> QED
    BY <2>1, <2>2
<1> HIDE DEF P, cs, ads
<1>6. /\ IsSequence(cs \o P) /\ ToSet(cs \o P) = ToSet(cs) \cup ToSet(P)
      /\ IsInjective(cs \o P) <=> IsInjective(cs) /\ IsInjective(P)
  BY <1>3, <1>4, JoinedSequences
<1>7. IsInjective((cs \o P) \o ads) <=> IsInjective(cs \o P) /\ IsInjective(ads)
  <2> DEFINE u == cs \o P
  <2>1. IsSequence(u) /\ ToSet(u) \cap ToSet(ads) = {}
    BY <1>3, <1>6
  <2> HIDE DEF u
  <2>2. IsInjective(u \o ads) <=> IsInjective(u) /\ IsInjective(ads)
    BY <1>4, <2>1, JoinedSequences
  <2> QED
    BY <2>2 DEF u
<1> QED
  BY <1>1, <1>2, <1>5, <1>6, <1>7 DEF CapturesMade, RefundsMade, AdjustmentsMade, P, cs, ads

LEMMA RefundTerms ==
    ASSUME NEW c, IsClaim(c)
    PROVE  /\ IsSequence(OfRefunds(c))
           /\ ToSet(OfRefunds(c)) = Deducted(c, RefundsMade(c))
           /\ IsInjective(OfRefunds(c)) <=> IsInjective(ProcessedRefunds(c))
<1> DEFINE ids == ProcessedRefunds(c)
           terms == OfRefunds(c)
<1>1. IsSequence(ids)
  BY EventsOfAClaim
<1>2. /\ DOMAIN terms = 1..Len(ids) /\ terms = [i \in 1..Len(ids) |-> terms[i]]
      /\ \A i \in 1..Len(ids) : terms[i] = Term("refund", - c.rows[ids[i]].amount, ids[i])
  BY DEF OfRefunds
<1> HIDE DEF ids, terms
<1>3. \A i \in 1..Len(ids) : terms[i].ref = ids[i]
  BY <1>2 DEF Term
<1>4. IsSequence(terms) /\ (IsInjective(terms) <=> IsInjective(ids))
  BY <1>1, <1>2, <1>3, OneTermEach
<1>5. /\ DOMAIN ids = 1..Len(ids) /\ ToSet(ids) = {ids[i] : i \in 1..Len(ids)}
      /\ ToSet(terms) = {terms[i] : i \in 1..Len(ids)}
  BY <1>1, <1>2, SequenceHas DEF ToSet
<1>6. ToSet(terms) = {Term("refund", - c.rows[x].amount, x) : x \in ToSet(ids)}
  BY <1>2, <1>5
<1> QED
  BY <1>4, <1>6 DEF terms, ids, Deducted, RefundsMade

LEMMA PaymentTerms ==
    ASSUME NEW c, IsClaim(c)
    PROVE  /\ IsSequence(OfPayments(c))
           /\ ToSet(OfPayments(c)) = Priced("payment", c, CapturesMade(c))
           /\ IsInjective(OfPayments(c)) <=> IsInjective(c.captures)
<1> DEFINE ids == c.captures
           terms == OfPayments(c)
<1>1. IsSequence(ids)
  BY DEF IsClaim
<1>2. /\ DOMAIN terms = 1..Len(ids) /\ terms = [i \in 1..Len(ids) |-> terms[i]]
      /\ \A i \in 1..Len(ids) : terms[i] = Term("payment", c.rows[ids[i]].amount, ids[i])
  BY DEF OfPayments
<1> HIDE DEF ids, terms
<1>3. \A i \in 1..Len(ids) : terms[i].ref = ids[i]
  BY <1>2 DEF Term
<1>4. IsSequence(terms) /\ (IsInjective(terms) <=> IsInjective(ids))
  BY <1>1, <1>2, <1>3, OneTermEach
<1>5. /\ DOMAIN ids = 1..Len(ids) /\ ToSet(ids) = {ids[i] : i \in 1..Len(ids)}
      /\ ToSet(terms) = {terms[i] : i \in 1..Len(ids)}
  BY <1>1, <1>2, SequenceHas DEF ToSet
<1>6. ToSet(terms) = {Term("payment", c.rows[x].amount, x) : x \in ToSet(ids)}
  BY <1>2, <1>5
<1> QED
  BY <1>4, <1>6 DEF terms, ids, Priced, CapturesMade

LEMMA AdjustmentTerms ==
    ASSUME NEW c, IsClaim(c)
    PROVE  /\ IsSequence(OfAdjustments(c))
           /\ ToSet(OfAdjustments(c)) = Priced("adjustment", c, AdjustmentsMade(c))
           /\ IsInjective(OfAdjustments(c)) <=> IsInjective(c.adjustments)
<1> DEFINE ids == c.adjustments
           terms == OfAdjustments(c)
<1>1. IsSequence(ids)
  BY DEF IsClaim
<1>2. /\ DOMAIN terms = 1..Len(ids) /\ terms = [i \in 1..Len(ids) |-> terms[i]]
      /\ \A i \in 1..Len(ids) : terms[i] = Term("adjustment", c.rows[ids[i]].amount, ids[i])
  BY DEF OfAdjustments
<1> HIDE DEF ids, terms
<1>3. \A i \in 1..Len(ids) : terms[i].ref = ids[i]
  BY <1>2 DEF Term
<1>4. IsSequence(terms) /\ (IsInjective(terms) <=> IsInjective(ids))
  BY <1>1, <1>2, <1>3, OneTermEach
<1>5. /\ DOMAIN ids = 1..Len(ids) /\ ToSet(ids) = {ids[i] : i \in 1..Len(ids)}
      /\ ToSet(terms) = {terms[i] : i \in 1..Len(ids)}
  BY <1>1, <1>2, SequenceHas DEF ToSet
<1>6. ToSet(terms) = {Term("adjustment", c.rows[x].amount, x) : x \in ToSet(ids)}
  BY <1>2, <1>5
<1> QED
  BY <1>4, <1>6 DEF terms, ids, Priced, AdjustmentsMade

\* Three sequences put together whose elements have names no other has.
LEMMA ThreeJoined ==
    ASSUME NEW x, IsSequence(x), NEW y, IsSequence(y), NEW z, IsSequence(z),
           ToSet(x) \cap ToSet(y) = {}, (ToSet(x) \cup ToSet(y)) \cap ToSet(z) = {}
    PROVE  /\ ToSet(x \o y \o z) = ToSet(x) \cup ToSet(y) \cup ToSet(z)
           /\ IsInjective(x \o y \o z) <=> IsInjective(x) /\ IsInjective(y) /\ IsInjective(z)
<1> DEFINE u == x \o y
<1>1. /\ IsSequence(u) /\ ToSet(u) = ToSet(x) \cup ToSet(y)
      /\ IsInjective(u) <=> IsInjective(x) /\ IsInjective(y)
  BY JoinedSequences
<1> HIDE DEF u
<1>2. /\ ToSet(u \o z) = ToSet(u) \cup ToSet(z)
      /\ IsInjective(u \o z) <=> IsInjective(u) /\ IsInjective(z)
  BY <1>1, JoinedSequences
<1> QED
  BY <1>1, <1>2 DEF u

LEMMA PartsOf ==
    ASSUME NEW c, NEW ps
    PROVE  \A t : t \in Parts(c, ps) <=>
              \E p \in ps : \/ t = Term("gateway_capture", c.rows[p].amount, p)
                            \/ t = Term("gateway_fee", - c.rows[p].fee, p)
                            \/ t = Term("gateway_gst", - c.rows[p].tax, p)
<1>1. ASSUME NEW a, NEW b, NEW d PROVE ToSet(<<a, b, d>>) = {a, b, d}
  BY DEF ToSet
<1>2. \A p : ToSet(CaptureTerms(p, c.rows[p])) =
              {Term("gateway_capture", c.rows[p].amount, p),
               Term("gateway_fee", - c.rows[p].fee, p), Term("gateway_gst", - c.rows[p].tax, p)}
  BY <1>1 DEF CaptureTerms
<1> QED
  BY <1>2 DEF Parts

LEMMA SettlementTerms ==
    ASSUME NEW c, IsClaim(c), c.rule = Net
    PROVE  /\ ToSet(Terms(c)) = Parts(c, CapturesMade(c)) \cup Deducted(c, RefundsMade(c))
                                \cup Priced("adjustment", c, AdjustmentsMade(c))
           /\ IsInjective(Terms(c)) <=>
                 IsInjective(c.captures) /\ IsInjective(ProcessedRefunds(c))
                 /\ IsInjective(c.adjustments)
<1> DEFINE x == OfCaptures(c)
           y == OfRefunds(c)
           z == OfAdjustments(c)
<1>1. /\ IsSequence(x) /\ ToSet(x) = Parts(c, CapturesMade(c))
      /\ IsInjective(x) <=> IsInjective(c.captures)
  BY ThreeTermsEach DEF IsClaim, Parts, CapturesMade
<1>2. /\ IsSequence(y) /\ ToSet(y) = Deducted(c, RefundsMade(c))
      /\ IsInjective(y) <=> IsInjective(ProcessedRefunds(c))
  BY RefundTerms
<1>3. /\ IsSequence(z) /\ ToSet(z) = Priced("adjustment", c, AdjustmentsMade(c))
      /\ IsInjective(z) <=> IsInjective(c.adjustments)
  BY AdjustmentTerms
<1>4. Terms(c) = x \o y \o z
  BY DEF Terms
<1> HIDE DEF x, y, z
<1>5. \A t \in ToSet(x) : t.name \in {"gateway_capture", "gateway_fee", "gateway_gst"}
  BY <1>1, PartsOf DEF Term
<1>6. \A t \in ToSet(y) : t.name = "refund"
  BY <1>2 DEF Deducted, Term
<1>7. \A t \in ToSet(z) : t.name = "adjustment"
  BY <1>3 DEF Priced, Term
<1>8. ToSet(x) \cap ToSet(y) = {} /\ (ToSet(x) \cup ToSet(y)) \cap ToSet(z) = {}
  BY <1>5, <1>6, <1>7
<1>9. /\ ToSet(x \o y \o z) = ToSet(x) \cup ToSet(y) \cup ToSet(z)
      /\ IsInjective(x \o y \o z) <=> IsInjective(x) /\ IsInjective(y) /\ IsInjective(z)
  BY <1>1, <1>2, <1>3, <1>8, ThreeJoined
<1> QED
  BY <1>1, <1>2, <1>3, <1>4, <1>9

LEMMA TaxTerm ==
    ASSUME NEW c
    PROVE  /\ IsSequence(OfTax(c)) /\ IsInjective(OfTax(c))
           /\ ToSet(OfTax(c)) = IF c.tds = 0 THEN {}
                                ELSE {Term("tds_withheld", c.tds, TaxRef(c))}
<1>1. CASE c.tds = 0
  <2>1. OfTax(c) = <<>>
    BY <1>1 DEF OfTax
  <2>2. IsSequence(<<>>) /\ IsInjective(<<>>) /\ ToSet(<<>>) = {}
    BY DEF IsSequence, IsInjective, ToSet
  <2> QED
    BY <1>1, <2>1, <2>2
<1>2. CASE c.tds # 0
  <2> DEFINE t == Term("tds_withheld", c.tds, TaxRef(c))
  <2>1. OfTax(c) = <<t>>
    BY <1>2 DEF OfTax, TaxRef
  <2> HIDE DEF t
  <2>2. IsInjective(<<t>>) /\ ToSet(<<t>>) = {t} /\ <<t>> \in Seq({t})
    BY DEF IsInjective, ToSet
  <2> QED
    BY <1>2, <2>1, <2>2 DEF IsSequence, t
<1> QED
  BY <1>1, <1>2

LEMMA InvoiceTerms ==
    ASSUME NEW c, IsClaim(c), c.rule = Coverage
    PROVE  /\ ToSet(Terms(c)) = Priced("payment", c, CapturesMade(c)) \cup Deducted(c, RefundsMade(c))
                 \cup (IF c.tds = 0 THEN {} ELSE {Term("tds_withheld", c.tds, TaxRef(c))})
           /\ IsInjective(Terms(c)) <=>
                 IsInjective(c.captures) /\ IsInjective(ProcessedRefunds(c))
<1> DEFINE x == OfPayments(c)
           y == OfRefunds(c)
           z == OfTax(c)
<1>1. /\ IsSequence(x) /\ ToSet(x) = Priced("payment", c, CapturesMade(c))
      /\ IsInjective(x) <=> IsInjective(c.captures)
  BY PaymentTerms
<1>2. /\ IsSequence(y) /\ ToSet(y) = Deducted(c, RefundsMade(c))
      /\ IsInjective(y) <=> IsInjective(ProcessedRefunds(c))
  BY RefundTerms
<1>3. /\ IsSequence(z) /\ IsInjective(z)
      /\ ToSet(z) = IF c.tds = 0 THEN {} ELSE {Term("tds_withheld", c.tds, TaxRef(c))}
  BY TaxTerm
<1>4. Terms(c) = x \o y \o z
  BY DEF Terms, Net, Coverage
<1> HIDE DEF x, y, z
<1>5. \A t \in ToSet(x) : t.name = "payment"
  BY <1>1 DEF Priced, Term
<1>6. \A t \in ToSet(y) : t.name = "refund"
  BY <1>2 DEF Deducted, Term
<1>7. \A t \in ToSet(z) : t.name = "tds_withheld"
  BY <1>3 DEF Term
<1>8. ToSet(x) \cap ToSet(y) = {} /\ (ToSet(x) \cup ToSet(y)) \cap ToSet(z) = {}
  BY <1>5, <1>6, <1>7
<1>9. /\ ToSet(x \o y \o z) = ToSet(x) \cup ToSet(y) \cup ToSet(z)
      /\ IsInjective(x \o y \o z) <=> IsInjective(x) /\ IsInjective(y) /\ IsInjective(z)
  BY <1>1, <1>2, <1>3, <1>8, ThreeJoined
<1> QED
  BY <1>1, <1>2, <1>3, <1>4, <1>9

\* The terms of a claim tell which events they are of.
Named(terms, name) == {t.ref : t \in {u \in terms : u.name = name}}

SettlementSet(c, ps, rs, ads) == Parts(c, ps) \cup Deducted(c, rs) \cup Priced("adjustment", c, ads)

LEMMA SettlementTermsTell ==
    ASSUME NEW c, NEW C, NEW R, NEW A
    PROVE  /\ Named(SettlementSet(c, C, R, A), "gateway_capture") = C
           /\ Named(SettlementSet(c, C, R, A), "refund") = R
           /\ Named(SettlementSet(c, C, R, A), "adjustment") = A
<1> DEFINE T == SettlementSet(c, C, R, A)
<1>0. T = Parts(c, C) \cup Deducted(c, R) \cup Priced("adjustment", c, A)
  BY DEF SettlementSet
<1>1. \A t \in Parts(c, C) :
         t.name \in {"gateway_capture", "gateway_fee", "gateway_gst"} /\ t.ref \in C
  BY PartsOf DEF Term
<1>2. \A t \in Deducted(c, R) : t.name = "refund" /\ t.ref \in R
  BY DEF Deducted, Term
<1>3. \A t \in Priced("adjustment", c, A) : t.name = "adjustment" /\ t.ref \in A
  BY DEF Priced, Term
<1>4. ASSUME NEW t \in T
      PROVE  /\ t.name = "gateway_capture" => t.ref \in C
             /\ t.name = "refund" => t.ref \in R
             /\ t.name = "adjustment" => t.ref \in A
  BY <1>0, <1>1, <1>2, <1>3
<1>5. ASSUME NEW p \in C PROVE \E t \in T : t.name = "gateway_capture" /\ t.ref = p
  <2> DEFINE t == Term("gateway_capture", c.rows[p].amount, p)
  <2>1. t.name = "gateway_capture" /\ t.ref = p
    BY DEF Term
  <2>2. t \in T
    BY <1>0, PartsOf
  <2> QED
    BY <2>1, <2>2
<1>6. ASSUME NEW r \in R PROVE \E t \in T : t.name = "refund" /\ t.ref = r
  <2> DEFINE t == Term("refund", - c.rows[r].amount, r)
  <2>1. t.name = "refund" /\ t.ref = r
    BY DEF Term
  <2>2. t \in T
    BY <1>0 DEF Deducted
  <2> QED
    BY <2>1, <2>2
<1>7. ASSUME NEW a \in A PROVE \E t \in T : t.name = "adjustment" /\ t.ref = a
  <2> DEFINE t == Term("adjustment", c.rows[a].amount, a)
  <2>1. t.name = "adjustment" /\ t.ref = a
    BY DEF Term
  <2>2. t \in T
    BY <1>0 DEF Priced
  <2> QED
    BY <2>1, <2>2
<1> HIDE DEF T
<1>8. Named(T, "gateway_capture") = C
  BY <1>4, <1>5 DEF Named
<1>9. Named(T, "refund") = R
  BY <1>4, <1>6 DEF Named
<1>10. Named(T, "adjustment") = A
  BY <1>4, <1>7 DEF Named
<1> QED
  BY <1>8, <1>9, <1>10 DEF T

LEMMA SettlementRefers ==
    ASSUME NEW c, IsClaim(c), c.rule = Net
    PROVE  Referenced(c) = {c.subject} \cup CapturesMade(c) \cup RefundsMade(c) \cup AdjustmentsMade(c)
<1> DEFINE C == CapturesMade(c)
           R == RefundsMade(c)
           A == AdjustmentsMade(c)
           T == ToSet(Terms(c))
<1>0. T = Parts(c, C) \cup Deducted(c, R) \cup Priced("adjustment", c, A)
  BY SettlementTerms
<1>1. \A t \in T : t.ref \in C \cup R \cup A
  <2>1. \A t \in Parts(c, C) : t.ref \in C
    BY PartsOf DEF Term
  <2>2. \A t \in Deducted(c, R) : t.ref \in R
    BY DEF Deducted, Term
  <2>3. \A t \in Priced("adjustment", c, A) : t.ref \in A
    BY DEF Priced, Term
  <2> HIDE DEF C, R, A, T
  <2> QED
    BY <1>0, <2>1, <2>2, <2>3
<1>2. \A p \in C : \E t \in T : t.ref = p
  <2> TAKE p \in C
  <2>1. Term("gateway_capture", c.rows[p].amount, p) \in Parts(c, C)
    BY PartsOf
  <2> QED
    BY <1>0, <2>1 DEF Term
<1>3. \A r \in R : \E t \in T : t.ref = r
  <2> TAKE r \in R
  <2>1. Term("refund", - c.rows[r].amount, r) \in Deducted(c, R)
    BY DEF Deducted
  <2> QED
    BY <1>0, <2>1 DEF Term
<1>4. \A a \in A : \E t \in T : t.ref = a
  <2> TAKE a \in A
  <2>1. Term("adjustment", c.rows[a].amount, a) \in Priced("adjustment", c, A)
    BY DEF Priced
  <2> QED
    BY <1>0, <2>1 DEF Term
<1>5. Referenced(c) = {c.subject} \cup {t.ref : t \in T}
  BY DEF Referenced
<1> HIDE DEF C, R, A, T
<1> QED
  BY <1>1, <1>2, <1>3, <1>4, <1>5 DEF C, R, A

\* Of a settlement the verifier finds what the issuer found.
LEMMA SettlementAgrees ==
    ASSUME NEW c, IsClaim(c), c.rule = Net
    PROVE  IdentityVerifies(Certificate(c), c.rows) <=> Issued(c)
<1> DEFINE C == CapturesMade(c)
           R == RefundsMade(c)
           A == AdjustmentsMade(c)
           cert == Certificate(c)
           cs == {p \in C : c.rows[p].status = "captured" /\ c.rows[p].settlement = c.subject}
           rs == {r \in R : c.rows[r].payment \in cs}
           ads == {a \in A : c.rows[a].settlement = c.subject}
           T == ToSet(Terms(c))
<1>1. /\ c.subject \in DOMAIN c.rows /\ c.rows[c.subject].kind = "settlement" /\ c.tds = 0
      /\ \A p \in C : p \in DOMAIN c.rows /\ c.rows[p].kind = "capture"
      /\ \A r \in R : /\ r \in DOMAIN c.rows /\ c.rows[r].kind = "refund"
                      /\ c.rows[r].status = "processed"
      /\ \A a \in A : a \in DOMAIN c.rows /\ c.rows[a].kind = "adjustment"
  BY EventsOfAClaim DEF IsClaim
<1>2. T = Parts(c, C) \cup Deducted(c, R) \cup Priced("adjustment", c, A)
  BY SettlementTerms
<1>3. Referenced(c) = {c.subject} \cup C \cup R \cup A
  BY SettlementRefers
<1>4. /\ cert.rule = Net /\ cert.subject = c.subject /\ cert.lhs = c.rows[c.subject].amount
      /\ cert.rhs = TermTotal(Terms(c)) /\ cert.terms = Terms(c)
      /\ cert.bound = {c.subject} \cup C \cup R \cup A
  BY <1>3 DEF Certificate
<1> HIDE DEF C, R, A, T, cert
<1>5. /\ Bound(cert, c.rows, "capture") = C /\ Bound(cert, c.rows, "refund") = R
      /\ Bound(cert, c.rows, "adjustment") = A /\ cert.bound \subseteq DOMAIN c.rows
  BY <1>1, <1>4 DEF Bound
<1>6. ExpectedTerms(cert, c.rows) = SettlementSet(c, cs, rs, ads)
  <2>1. Net # Coverage
    BY DEF Net, Coverage
  <2>2. /\ cs = {p \in Bound(cert, c.rows, "capture") :
                    c.rows[p].status = "captured" /\ c.rows[p].settlement = cert.subject}
        /\ rs = {r \in Bound(cert, c.rows, "refund") :
                    /\ c.rows[r].status = "processed" /\ c.rows[r].payment \in cs
                    /\ cert.rule = Coverage => c.rows[r].order = cert.subject}
        /\ ads = {a \in Bound(cert, c.rows, "adjustment") :
                    c.rows[a].settlement = cert.subject}
    BY <1>1, <1>4, <1>5, <2>1
  <2>3. ExpectedTerms(cert, c.rows) =
          {Term("refund", - c.rows[r].amount, r) : r \in rs}
          \cup ((UNION {ToSet(CaptureTerms(p, c.rows[p])) : p \in cs})
                \cup {Term("adjustment", c.rows[a].amount, a) : a \in ads})
    <3> HIDE DEF cs, rs, ads
    <3> QED
      BY <1>4, <2>1, <2>2 DEF ExpectedTerms
  <2> HIDE DEF cs, rs, ads
  <2>4. \A t : t \in ExpectedTerms(cert, c.rows) <=>
                 \/ \E r \in rs : t = Term("refund", - c.rows[r].amount, r)
                 \/ \E p \in cs : t \in ToSet(CaptureTerms(p, c.rows[p]))
                 \/ \E a \in ads : t = Term("adjustment", c.rows[a].amount, a)
    BY <2>3
  <2>5. /\ \A t : t \in Deducted(c, rs) <=> \E r \in rs : t = Term("refund", - c.rows[r].amount, r)
        /\ \A t : t \in Parts(c, cs) <=> \E p \in cs : t \in ToSet(CaptureTerms(p, c.rows[p]))
        /\ \A t : t \in Priced("adjustment", c, ads) <=>
                    \E a \in ads : t = Term("adjustment", c.rows[a].amount, a)
    BY DEF Parts, Deducted, Priced
  <2>6. \A t : t \in ExpectedTerms(cert, c.rows) <=>
                 t \in Parts(c, cs) \/ t \in Deducted(c, rs) \/ t \in Priced("adjustment", c, ads)
    BY <2>4, <2>5
  <2> QED
    BY <2>6 DEF SettlementSet
<1>7. T = ExpectedTerms(cert, c.rows) <=> cs = C /\ rs = R /\ ads = A
  <2> HIDE DEF cs, rs, ads
  <2>2. T = SettlementSet(c, C, R, A)
    BY <1>2 DEF SettlementSet
  <2>3. ASSUME T = ExpectedTerms(cert, c.rows) PROVE cs = C /\ rs = R /\ ads = A
    <3>1. /\ Named(T, "gateway_capture") = C /\ Named(T, "refund") = R
          /\ Named(T, "adjustment") = A
      BY <2>2, SettlementTermsTell
    <3>2. /\ Named(ExpectedTerms(cert, c.rows), "gateway_capture") = cs
          /\ Named(ExpectedTerms(cert, c.rows), "refund") = rs
          /\ Named(ExpectedTerms(cert, c.rows), "adjustment") = ads
      <4> DEFINE S == SettlementSet(c, cs, rs, ads)
      <4>1. /\ Named(S, "gateway_capture") = cs /\ Named(S, "refund") = rs
            /\ Named(S, "adjustment") = ads
        BY SettlementTermsTell
      <4> HIDE DEF S
      <4>2. ExpectedTerms(cert, c.rows) = S
        BY <1>6 DEF S
      <4> QED
        BY <4>1, <4>2
    <3> QED
      BY <2>3, <3>1, <3>2
  <2> QED
    BY <1>6, <2>2, <2>3
<1>8. ~Foreign(c) <=> cs = C /\ rs = R /\ ads = A
  <2>1. Net # Coverage
    BY DEF Net, Coverage
  <2>2. C = ToSet(c.captures) /\ R = ToSet(ProcessedRefunds(c)) /\ A = ToSet(c.adjustments)
    BY DEF C, R, A, CapturesMade, RefundsMade, AdjustmentsMade
  <2>3. Foreign(c) <=>
           \/ \E p \in C : c.rows[p].status # "captured" \/ c.rows[p].settlement # c.subject
           \/ \E r \in R : c.rows[r].payment \notin C
           \/ \E a \in A : c.rows[a].settlement # c.subject
    BY <2>1, <2>2 DEF Foreign
  <2>4. ASSUME ~Foreign(c) PROVE cs = C /\ rs = R /\ ads = A
    <3>1. cs = C
      BY <2>3, <2>4
    <3>2. ads = A
      BY <2>3, <2>4
    <3>3. rs = R
      <4> HIDE DEF cs
      <4> QED
        BY <2>3, <2>4, <3>1
    <3> QED
      BY <3>1, <3>2, <3>3
  <2>5. ASSUME cs = C, rs = R, ads = A PROVE ~Foreign(c)
    <3>1. \A p \in C : c.rows[p].status = "captured" /\ c.rows[p].settlement = c.subject
      BY <2>5
    <3>2. \A a \in A : c.rows[a].settlement = c.subject
      BY <2>5
    <3>3. \A r \in R : c.rows[r].payment \in cs
      BY <2>5
    <3>4. \A r \in R : c.rows[r].payment \in C
      BY <3>3
    <3> HIDE DEF cs, rs, ads
    <3> QED
      BY <2>3, <3>1, <3>2, <3>4
  <2> QED
    BY <2>4, <2>5
<1>9. (\E t \in T : t.name \in {"gateway_capture", "payment"}) <=> c.captures # <<>>
  <2>1. c.captures = <<>> <=> C = {}
    BY EventsOfAClaim DEF C
  <2>2. ASSUME NEW p \in C PROVE \E t \in T : t.name \in {"gateway_capture", "payment"}
    <3>1. Term("gateway_capture", c.rows[p].amount, p) \in Parts(c, C)
      BY PartsOf
    <3> QED
      BY <1>2, <3>1 DEF Term
  <2>3. ASSUME C = {}, NEW t \in T PROVE t.name \in {"refund", "adjustment"}
    <3>1. Parts(c, C) = {}
      BY <2>3, PartsOf
    <3> QED
      BY <1>2, <3>1 DEF Deducted, Priced, Term
  <2> QED
    BY <2>1, <2>2, <2>3
<1>10. IsInjective(Terms(c)) <=>
          IsInjective(c.captures \o ProcessedRefunds(c) \o c.adjustments)
  BY SettlementTerms, EventsOfAClaim
<1>11. Referenced(c) \subseteq DOMAIN c.rows
  BY <1>1, <1>3
<1> HIDE DEF cs, rs, ads
<1> DEFINE sound == c.rows[c.subject].status = "processed"
           paid == c.rows[c.subject].amount = TermTotal(Terms(c))
           once == IsInjective(Terms(c))
           some == c.captures # <<>>
           own == ~Foreign(c)
<1>12. IdentityVerifies(cert, c.rows) <=> sound /\ own /\ once /\ some /\ paid
  <2>1. IdentityVerifies(cert, c.rows) <=>
           /\ sound /\ T = ExpectedTerms(cert, c.rows) /\ once
           /\ \E t \in T : t.name \in {"gateway_capture", "payment"}
           /\ paid
    BY <1>4, <1>5 DEF IdentityVerifies, T
  <2> QED
    BY <1>7, <1>8, <1>9, <2>1
<1>13. Issued(c) <=> some /\ sound /\ once /\ own /\ paid
  BY <1>1, <1>10, <1>11 DEF Issued, Holds
<1> HIDE DEF sound, paid, once, some, own
<1> QED
  BY <1>12, <1>13 DEF cert

InvoiceSet(c, ps, rs, tax) == Priced("payment", c, ps) \cup Deducted(c, rs) \cup tax

LEMMA InvoiceTermsTell ==
    ASSUME NEW c, NEW C, NEW R, NEW X, \A t \in X : t.name = "tds_withheld"
    PROVE  /\ Named(InvoiceSet(c, C, R, X), "payment") = C
           /\ Named(InvoiceSet(c, C, R, X), "refund") = R
           /\ {t \in InvoiceSet(c, C, R, X) : t.name = "tds_withheld"} = X
<1> DEFINE T == InvoiceSet(c, C, R, X)
<1>0. T = Priced("payment", c, C) \cup Deducted(c, R) \cup X
  BY DEF InvoiceSet
<1>1. \A t \in Priced("payment", c, C) : t.name = "payment" /\ t.ref \in C
  BY DEF Priced, Term
<1>2. \A t \in Deducted(c, R) : t.name = "refund" /\ t.ref \in R
  BY DEF Deducted, Term
<1>3. ASSUME NEW t \in T
      PROVE  /\ t.name = "payment" => t.ref \in C
             /\ t.name = "refund" => t.ref \in R
             /\ t.name = "tds_withheld" => t \in X
  BY <1>0, <1>1, <1>2
<1>4. ASSUME NEW p \in C PROVE \E t \in T : t.name = "payment" /\ t.ref = p
  <2> DEFINE t == Term("payment", c.rows[p].amount, p)
  <2>1. t.name = "payment" /\ t.ref = p
    BY DEF Term
  <2>2. t \in T
    BY <1>0 DEF Priced
  <2> QED
    BY <2>1, <2>2
<1>5. ASSUME NEW r \in R PROVE \E t \in T : t.name = "refund" /\ t.ref = r
  <2> DEFINE t == Term("refund", - c.rows[r].amount, r)
  <2>1. t.name = "refund" /\ t.ref = r
    BY DEF Term
  <2>2. t \in T
    BY <1>0 DEF Deducted
  <2> QED
    BY <2>1, <2>2
<1>6. X \subseteq T
  BY <1>0
<1> HIDE DEF T
<1>7. Named(T, "payment") = C
  BY <1>3, <1>4 DEF Named
<1>8. Named(T, "refund") = R
  BY <1>3, <1>5 DEF Named
<1>9. {t \in T : t.name = "tds_withheld"} = X
  BY <1>3, <1>6
<1> QED
  BY <1>7, <1>8, <1>9 DEF T

LEMMA InvoiceRefers ==
    ASSUME NEW c, IsClaim(c), c.rule = Coverage
    PROVE  Referenced(c) = {c.subject} \cup CapturesMade(c) \cup RefundsMade(c)
                           \cup (IF c.tds = 0 THEN {} ELSE {TaxRef(c)})
<1> DEFINE C == CapturesMade(c)
           R == RefundsMade(c)
           X == IF c.tds = 0 THEN {} ELSE {Term("tds_withheld", c.tds, TaxRef(c))}
           ref == IF c.tds = 0 THEN {} ELSE {TaxRef(c)}
           T == ToSet(Terms(c))
<1>0. T = InvoiceSet(c, C, R, X)
  BY InvoiceTerms DEF InvoiceSet
<1>1. Priced("payment", c, C) \cup Deducted(c, R) \cup X = T
  BY <1>0 DEF InvoiceSet
<1>2. /\ \A t \in Priced("payment", c, C) : t.ref \in C
      /\ \A t \in Deducted(c, R) : t.ref \in R
      /\ \A t \in X : t.ref \in ref
  BY DEF Priced, Deducted, Term
<1>3. ASSUME NEW p \in C PROVE \E t \in T : t.ref = p
  <2>1. Term("payment", c.rows[p].amount, p) \in Priced("payment", c, C)
    BY DEF Priced
  <2> QED
    BY <1>1, <2>1 DEF Term
<1>4. ASSUME NEW r \in R PROVE \E t \in T : t.ref = r
  <2>1. Term("refund", - c.rows[r].amount, r) \in Deducted(c, R)
    BY DEF Deducted
  <2> QED
    BY <1>1, <2>1 DEF Term
<1>5. ASSUME NEW e \in ref PROVE \E t \in T : t.ref = e
  <2>1. Term("tds_withheld", c.tds, e) \in X
    OBVIOUS
  <2> QED
    BY <1>1, <2>1 DEF Term
<1>6. Referenced(c) = {c.subject} \cup {t.ref : t \in T}
  BY DEF Referenced
<1> HIDE DEF C, R, X, ref, T
<1>7. \A t \in T : t.ref \in C \cup R \cup ref
  BY <1>1, <1>2
<1> QED
  BY <1>3, <1>4, <1>5, <1>6, <1>7 DEF C, R, ref

\* Of an invoice the verifier finds what the issuer found, if the tax is on record.
LEMMA InvoiceAgrees ==
    ASSUME NEW c, IsClaim(c), c.rule = Coverage
    PROVE  IdentityVerifies(Certificate(c), c.rows) <=> Issued(c) /\ OnRecord(c)
<1> DEFINE C == CapturesMade(c)
           R == RefundsMade(c)
           cert == Certificate(c)
           X == IF c.tds = 0 THEN {} ELSE {Term("tds_withheld", c.tds, TaxRef(c))}
           ref == IF c.tds = 0 THEN {} ELSE {TaxRef(c)}
           T == ToSet(Terms(c))
           ps == {p \in Bound(cert, c.rows, "capture") :
                    c.rows[p].status = "captured" /\ c.rows[p].order = c.subject}
           rs == {r \in Bound(cert, c.rows, "refund") :
                    /\ c.rows[r].status = "processed" /\ c.rows[r].payment \in ps
                    /\ c.rows[r].order = c.subject}
           ws == {e \in Bound(cert, c.rows, "ledger") :
                    /\ c.rows[e].event = "tds_withheld" /\ c.rows[e].source = c.subject
                    /\ c.rows[e].direction = "credit"}
           W == {Term("tds_withheld", c.rows[e].amount, e) : e \in ws}
<1>0. Net # Coverage
  BY DEF Net, Coverage
<1>1. /\ c.subject \in DOMAIN c.rows /\ c.rows[c.subject].kind = "order"
      /\ \A p \in C : p \in DOMAIN c.rows /\ c.rows[p].kind = "capture"
      /\ \A r \in R : /\ r \in DOMAIN c.rows /\ c.rows[r].kind = "refund"
                      /\ c.rows[r].status = "processed"
  BY <1>0, EventsOfAClaim DEF IsClaim
<1>2. ToSet(c.adjustments) = {}
  <2>1. c.adjustments = <<>>
    BY <1>0 DEF IsClaim
  <2> QED
    BY <2>1 DEF ToSet
<1>3. T = InvoiceSet(c, C, R, X)
  BY InvoiceTerms DEF InvoiceSet
<1>4. Referenced(c) = {c.subject} \cup C \cup R \cup ref
  BY InvoiceRefers
<1>5. /\ cert.rule = Coverage /\ cert.subject = c.subject
      /\ cert.lhs = c.rows[c.subject].amount
      /\ cert.rhs = TermTotal(Terms(c)) /\ cert.terms = Terms(c)
      /\ cert.bound = {c.subject} \cup C \cup R \cup ref
  BY <1>4 DEF Certificate
<1>6. ExpectedTerms(cert, c.rows) = InvoiceSet(c, ps, rs, W)
  <2>1. /\ ps = {p \in Bound(cert, c.rows, "capture") :
                    c.rows[p].status = "captured" /\ c.rows[p].order = cert.subject}
        /\ rs = {r \in Bound(cert, c.rows, "refund") :
                    /\ c.rows[r].status = "processed" /\ c.rows[r].payment \in ps
                    /\ cert.rule = Coverage => c.rows[r].order = cert.subject}
        /\ ws = {e \in Bound(cert, c.rows, "ledger") :
                    /\ c.rows[e].event = "tds_withheld" /\ c.rows[e].source = cert.subject
                    /\ c.rows[e].direction = "credit"}
    BY <1>5
  <2>2. ExpectedTerms(cert, c.rows) =
          {Term("refund", - c.rows[r].amount, r) : r \in rs}
          \cup ({Term("payment", c.rows[p].amount, p) : p \in ps}
                \cup {Term("tds_withheld", c.rows[e].amount, e) : e \in ws})
    <3> HIDE DEF ps, rs, ws, cert
    <3> QED
      BY <1>0, <1>5, <2>1 DEF ExpectedTerms
  <2> HIDE DEF ps, rs, ws, cert
  <2>3. \A t : t \in ExpectedTerms(cert, c.rows) <=>
                 \/ \E r \in rs : t = Term("refund", - c.rows[r].amount, r)
                 \/ \E p \in ps : t = Term("payment", c.rows[p].amount, p)
                 \/ t \in W
    BY <2>2
  <2>4. /\ \A t : t \in Deducted(c, rs) <=> \E r \in rs : t = Term("refund", - c.rows[r].amount, r)
        /\ \A t : t \in Priced("payment", c, ps) <=>
                    \E p \in ps : t = Term("payment", c.rows[p].amount, p)
    BY DEF Deducted, Priced
  <2>5. \A t : t \in ExpectedTerms(cert, c.rows) <=>
                 t \in Priced("payment", c, ps) \/ t \in Deducted(c, rs) \/ t \in W
    BY <2>3, <2>4
  <2> HIDE DEF W
  <2> QED
    BY <2>5 DEF InvoiceSet
<1>7. (\A t \in X : t.name = "tds_withheld") /\ (\A t \in W : t.name = "tds_withheld")
  BY DEF Term
<1> HIDE DEF C, R, T, cert
<1>8. ASSUME T = ExpectedTerms(cert, c.rows) PROVE C = ps /\ R = rs /\ X = W
  <2> DEFINE S == InvoiceSet(c, ps, rs, W)
  <2> HIDE DEF X, W, ps, rs
  <2>1. /\ Named(T, "payment") = C /\ Named(T, "refund") = R
        /\ {t \in T : t.name = "tds_withheld"} = X
    BY <1>3, <1>7, InvoiceTermsTell
  <2>2. /\ Named(S, "payment") = ps /\ Named(S, "refund") = rs
        /\ {t \in S : t.name = "tds_withheld"} = W
    BY <1>7, InvoiceTermsTell
  <2> HIDE DEF S
  <2>3. T = S
    BY <1>6, <1>8 DEF S
  <2> QED
    BY <2>1, <2>2, <2>3
<1> DEFINE own == ~Foreign(c)
           taxed == c.tds # 0 => c.tds_source_ref # ""
           bound == Referenced(c) \subseteq DOMAIN c.rows
           paid == c.rows[c.subject].amount = TermTotal(Terms(c))
           once == IsInjective(Terms(c))
           some == c.captures # <<>>
<1>9. own <=> /\ \A p \in C : c.rows[p].status = "captured" /\ c.rows[p].order = c.subject
              /\ \A r \in R : c.rows[r].payment \in C /\ c.rows[r].order = c.subject
  BY <1>0, <1>2 DEF Foreign, C, R, CapturesMade, RefundsMade
<1>10. ASSUME T = ExpectedTerms(cert, c.rows) PROVE own /\ taxed /\ OnRecord(c)
  <2>1. C = ps /\ R = rs /\ X = W
    BY <1>8, <1>10
  <2>2. own
    <3>1. \A p \in C : c.rows[p].status = "captured" /\ c.rows[p].order = c.subject
      BY <2>1
    <3>2. \A r \in R : c.rows[r].payment \in ps /\ c.rows[r].order = c.subject
      BY <2>1
    <3> HIDE DEF ps, rs, own
    <3> QED
      BY <1>9, <2>1, <3>1, <3>2
  <2>3. ASSUME c.tds # 0 PROVE c.tds_source_ref # "" /\ OnRecord(c)
    <3>1. Term("tds_withheld", c.tds, TaxRef(c)) \in W
      BY <2>1, <2>3
    <3>2. PICK e \in ws : Term("tds_withheld", c.tds, TaxRef(c))
                            = Term("tds_withheld", c.rows[e].amount, e)
      BY <3>1
    <3>3. c.tds = c.rows[e].amount /\ TaxRef(c) = e
      BY <3>2 DEF Term
    <3>4. /\ c.rows[e].kind = "ledger" /\ c.rows[e].event = "tds_withheld"
          /\ c.rows[e].source = c.subject /\ c.rows[e].direction = "credit"
      BY DEF Bound
    <3>5. TaxRef(c) # c.subject
      BY <1>1, <3>3, <3>4
    <3>6. c.tds_source_ref # "" /\ TaxRef(c) = c.tds_source_ref
      BY <3>5 DEF TaxRef
    <3> QED
      BY <3>3, <3>4, <3>6 DEF OnRecord
  <2> QED
    BY <2>2, <2>3 DEF OnRecord
<1>11. ASSUME own, taxed, bound, OnRecord(c) PROVE T = ExpectedTerms(cert, c.rows)
  <2>1. c.tds # 0 => /\ TaxRef(c) \in DOMAIN c.rows /\ c.rows[TaxRef(c)].kind = "ledger"
                     /\ c.rows[TaxRef(c)].event = "tds_withheld"
                     /\ c.rows[TaxRef(c)].source = c.subject
                     /\ c.rows[TaxRef(c)].direction = "credit"
                     /\ c.rows[TaxRef(c)].amount = c.tds
    BY <1>4, <1>11 DEF TaxRef, OnRecord
  <2>2. \A x \in ref : x \in DOMAIN c.rows /\ c.rows[x].kind = "ledger"
    BY <2>1
  <2>3. /\ Bound(cert, c.rows, "capture") = C /\ Bound(cert, c.rows, "refund") = R
        /\ Bound(cert, c.rows, "ledger") = ref
    <3> HIDE DEF ref
    <3> QED
      BY <1>1, <1>5, <2>2 DEF Bound
  <2>4. ps = C
    BY <1>9, <1>11, <2>3
  <2>5. rs = R
    <3> HIDE DEF ps, own
    <3> QED
      BY <1>1, <1>9, <1>11, <2>3, <2>4
  <2>6. ws = ref
    BY <2>1, <2>3
  <2>7. W = X
    <3> HIDE DEF ws
    <3> QED
      BY <2>1, <2>6
  <2> HIDE DEF ps, rs, W, X
  <2> QED
    BY <1>3, <1>6, <2>4, <2>5, <2>7
<1>12. (\E t \in T : t.name \in {"gateway_capture", "payment"}) <=> some
  <2>1. c.captures = <<>> <=> C = {}
    BY EventsOfAClaim DEF C
  <2> HIDE DEF X
  <2>2. ASSUME NEW p \in C PROVE \E t \in T : t.name \in {"gateway_capture", "payment"}
    <3>1. Term("payment", c.rows[p].amount, p) \in T
      BY <1>3 DEF InvoiceSet, Priced
    <3> QED
      BY <3>1 DEF Term
  <2>3. ASSUME C = {}, NEW t \in T PROVE t.name \in {"refund", "tds_withheld"}
    <3>1. Priced("payment", c, C) = {}
      BY <2>3 DEF Priced
    <3> QED
      BY <1>3, <1>7, <3>1 DEF InvoiceSet, Deducted, Term
  <2> QED
    BY <2>1, <2>2, <2>3
<1>13. once <=> IsInjective(c.captures \o ProcessedRefunds(c) \o c.adjustments)
  <2>1. IsInjective(c.adjustments)
    BY <1>2 DEF IsInjective, ToSet
  <2> QED
    BY <2>1, InvoiceTerms, EventsOfAClaim
<1>14. IdentityVerifies(cert, c.rows) <=>
          bound /\ T = ExpectedTerms(cert, c.rows) /\ once /\ some /\ paid
  <2>1. cert.bound = Referenced(c)
    BY DEF cert, Certificate
  <2> HIDE DEF some
  <2> QED
    BY <1>0, <1>5, <1>12, <2>1 DEF IdentityVerifies, T
<1>15. Issued(c) <=> some /\ taxed /\ once /\ own /\ paid /\ bound
  BY <1>0, <1>13 DEF Issued, Holds
<1> HIDE DEF own, taxed, bound, paid, once, some
<1> QED
  BY <1>10, <1>11, <1>14, <1>15 DEF cert

-----------------------------------------------------------------------------
(* What the terms add up to.                                                *)

\* Terms of whole amounts.
IsPriced(terms) == IsSequence(terms) /\ \A i \in 1..Len(terms) : terms[i].amount \in Int

LEMMA TotalIsASum ==
    ASSUME NEW terms, IsPriced(terms)
    PROVE  \E h : /\ TermTotal(terms) = SumOf(h, 1..Len(terms))
                  /\ \A i \in 1..Len(terms) : h[i] = terms[i].amount /\ h[i] \in Int
<1> DEFINE h == [i \in DOMAIN terms |-> terms[i].amount]
<1>1. DOMAIN terms = 1..Len(terms) /\ DOMAIN h = 1..Len(terms)
  BY SequenceHas DEF IsPriced
<1>2. \A i \in 1..Len(terms) : h[i] = terms[i].amount /\ h[i] \in Int
  BY <1>1 DEF IsPriced
<1>3. TermTotal(terms) = SumFunction(h)
  BY DEF TermTotal
<1> HIDE DEF h
<1>4. TermTotal(terms) = SumOf(h, 1..Len(terms))
  BY <1>1, <1>3, SumsAgree
<1> QED
  BY <1>2, <1>4

LEMMA TotalJoined ==
    ASSUME NEW s, IsPriced(s), NEW t, IsPriced(t)
    PROVE  /\ IsPriced(s \o t)
           /\ TermTotal(s \o t) = TermTotal(s) + TermTotal(t)
           /\ TermTotal(s) \in Int /\ TermTotal(t) \in Int
<1> DEFINE u == s \o t
           m == Len(s)
           n == Len(t)
<1>1. /\ IsSequence(s) /\ IsSequence(t) /\ IsSequence(u) /\ m \in Nat /\ n \in Nat
      /\ Len(u) = m + n
      /\ \A i \in 1..m : u[i] = s[i]
      /\ \A i \in 1..n : u[m + i] = t[i]
  BY JoinedSequences, SequenceHas DEF IsPriced
<1> HIDE DEF u, m, n
<1>2. /\ \A i \in 1..m : s[i].amount \in Int
      /\ \A i \in 1..n : t[i].amount \in Int
  BY DEF IsPriced, m, n
<1>3. \A k \in 1..(m + n) : k \in 1..m \/ \E i \in 1..n : k = m + i
  <2> SUFFICES ASSUME NEW k \in 1..(m + n), ~(k =< m)
               PROVE  k - m \in 1..n /\ k = m + (k - m)
    BY <1>1
  <2> QED
    BY <1>1
<1>4. IsPriced(u)
  <2> SUFFICES ASSUME NEW k \in 1..(m + n) PROVE u[k].amount \in Int
    BY <1>1 DEF IsPriced
  <2>1. CASE k \in 1..m
    BY <1>1, <1>2, <2>1
  <2>2. CASE k \notin 1..m
    <3>1. PICK i \in 1..n : k = m + i
      BY <1>3, <2>2
    <3>2. u[k] = t[i]
      BY <1>1, <3>1
    <3> QED
      BY <1>2, <3>2
  <2> QED
    BY <2>1, <2>2
<1>5. PICK f : /\ TermTotal(s) = SumOf(f, 1..m)
               /\ \A i \in 1..m : f[i] = s[i].amount /\ f[i] \in Int
  BY TotalIsASum DEF m
<1>6. PICK g : /\ TermTotal(t) = SumOf(g, 1..n)
               /\ \A i \in 1..n : g[i] = t[i].amount /\ g[i] \in Int
  BY TotalIsASum DEF n
<1>7. PICK h : /\ TermTotal(u) = SumOf(h, 1..(m + n))
               /\ \A i \in 1..(m + n) : h[i] = u[i].amount /\ h[i] \in Int
  BY <1>1, <1>4, TotalIsASum
<1>8. SumOf(h, 1..m) = SumOf(f, 1..m) /\ SumOf(f, 1..m) \in Int
  <2> DEFINE S == 1..m
  <2>1. IsFiniteSet(S)
    BY FS_Interval, <1>1
  <2>2. \A i \in S : f[i] \in Int /\ h[i] = f[i]
    BY <1>1, <1>5, <1>7
  <2> HIDE DEF S
  <2>3. SumOf(h, S) = SumOf(f, S) /\ SumOf(f, S) \in Int
    BY <2>1, <2>2, SumSame, SumIntSteps
  <2> QED
    BY <2>3 DEF S
<1>9. \A i \in 1..n : m + i \in 1..(m + n) /\ h[m + i] = g[i]
  BY <1>1, <1>6, <1>7
<1> DEFINE Bad == {k \in 0..n : SumOf(h, 1..(m + k)) # SumOf(f, 1..m) + SumOf(g, 1..k)}
<1>10. Bad = {}
  <2> SUFFICES ASSUME Bad # {} PROVE FALSE
    OBVIOUS
  <2> DEFINE k == Min(Bad)
  <2>1. Bad \in SUBSET Nat
    BY <1>1
  <2>2. k \in Bad /\ \A y \in Bad : k =< y
    <3> HIDE DEF Bad
    <3> QED
      BY <2>1, LeastNatural
  <2>3. k \in 0..n /\ SumOf(h, 1..(m + k)) # SumOf(f, 1..m) + SumOf(g, 1..k)
    BY <2>2
  <2>4. k # 0
    <3> SUFFICES ASSUME k = 0 PROVE FALSE
      OBVIOUS
    <3>1. 1..k = {} /\ m + k = m
      <4> HIDE DEF k
      <4>1. k = 0
        OBVIOUS
      <4>2. 1..0 = {} /\ m + 0 = m
        BY <1>1
      <4> QED
        BY <4>1, <4>2
    <3>2. SumOf(g, 1..k) = 0
      BY <3>1, SumOfNone
    <3> HIDE DEF k
    <3> QED
      BY <1>8, <2>3, <3>1, <3>2
  <2> DEFINE j == k - 1
  <2>5. j \in Nat /\ j \in 0..n /\ k = j + 1 /\ m + k = (m + j) + 1 /\ m + j \in Nat
        /\ m + (j + 1) = (m + j) + 1
    BY <1>1, <2>3, <2>4
  <2>6. SumOf(h, 1..(m + j)) = SumOf(f, 1..m) + SumOf(g, 1..j)
    <3>1. j \notin Bad
      <4> HIDE DEF Bad
      <4>1. ~(k =< j) /\ k \in Nat
        BY <2>3, <2>5
      <4> QED
        BY <2>2, <4>1
    <3> HIDE DEF k, j
    <3> QED
      BY <2>5, <3>1
  <2> HIDE DEF k, j, Bad
  <2>7. /\ SumOf(h, 1..((m + j) + 1)) = h[(m + j) + 1] + SumOf(h, 1..(m + j))
        /\ SumOf(h, 1..(m + j)) \in Int
    <3> DEFINE w == m + j
    <3>1. \A i \in 1..(w + 1) : h[i] \in Int
      BY <1>1, <1>7, <2>3, <2>5
    <3>2. w \in Nat
      BY <2>5
    <3> HIDE DEF w
    <3>3. SumOf(h, 1..(w + 1)) = h[w + 1] + SumOf(h, 1..w) /\ SumOf(h, 1..w) \in Int
      BY <3>1, <3>2, SumUpTo
    <3> QED
      BY <3>3 DEF w
  <2>8. SumOf(g, 1..(j + 1)) = g[j + 1] + SumOf(g, 1..j) /\ SumOf(g, 1..j) \in Int
    <3>1. \A i \in 1..(j + 1) : g[i] \in Int
      BY <1>1, <1>6, <2>3, <2>5
    <3> QED
      BY <2>5, <3>1, SumUpTo
  <2>9. h[(m + j) + 1] = g[j + 1] /\ g[j + 1] \in Int
    <3>1. j + 1 \in 1..n
      BY <1>1, <2>3, <2>5
    <3> QED
      BY <1>6, <1>9, <2>5, <3>1
  <2> QED
    BY <1>8, <2>3, <2>5, <2>6, <2>7, <2>8, <2>9
<1>11. SumOf(h, 1..(m + n)) = SumOf(f, 1..m) + SumOf(g, 1..n)
  BY <1>1, <1>10
<1>12. SumOf(g, 1..n) \in Int
  <2> DEFINE S == 1..n
  <2>0. IsFiniteSet(S)
    BY FS_Interval, <1>1
  <2>1. IsFiniteSet(S) /\ \A i \in S : g[i] \in Int
    BY <1>6, <2>0
  <2> HIDE DEF S
  <2>2. SumOf(g, S) \in Int
    BY <2>1, SumIntSteps
  <2> QED
    BY <2>2 DEF S
<1> QED
  BY <1>4, <1>5, <1>6, <1>7, <1>8, <1>11, <1>12 DEF u

LEMMA TotalOfNoneOrOne ==
    /\ IsPriced(<<>>) /\ TermTotal(<<>>) = 0
    /\ \A t : t.amount \in Int => IsPriced(<<t>>) /\ TermTotal(<<t>>) = t.amount
<1>1. IsPriced(<<>>) /\ TermTotal(<<>>) = 0
  <2>1. IsPriced(<<>>) /\ Len(<<>>) = 0 /\ 1..0 = {}
    BY DEF IsPriced, IsSequence
  <2>2. PICK h : TermTotal(<<>>) = SumOf(h, 1..Len(<<>>))
    BY <2>1, TotalIsASum
  <2> QED
    BY <2>1, <2>2, SumOfNone
<1>2. ASSUME NEW t, t.amount \in Int PROVE IsPriced(<<t>>) /\ TermTotal(<<t>>) = t.amount
  <2>1. <<t>> \in Seq({t}) /\ ToSet(<<t>>) = {t} /\ Len(<<t>>) = 1 /\ <<t>>[1] = t
    BY DEF ToSet
  <2>2. IsPriced(<<t>>)
    BY <1>2, <2>1 DEF IsPriced, IsSequence
  <2>3. PICK h : /\ TermTotal(<<t>>) = SumOf(h, 1..Len(<<t>>))
                 /\ \A i \in 1..Len(<<t>>) : h[i] = <<t>>[i].amount /\ h[i] \in Int
    BY <2>2, TotalIsASum
  <2>4. h[1] = t.amount /\ TermTotal(<<t>>) = SumOf(h, 1..1)
    BY <2>1, <2>3
  <2>5. \A i \in 1..(0 + 1) : h[i] \in Int
    BY <1>2, <2>4
  <2>6. SumOf(h, 1..(0 + 1)) = h[0 + 1] + SumOf(h, 1..0)
    BY <2>5, SumUpTo
  <2>7. SumOf(h, 1..0) = 0
    BY SumOfNone
  <2> QED
    BY <1>2, <2>2, <2>4, <2>6, <2>7
<1> QED
  BY <1>1, <1>2

LEMMA TotalOfThreeOrSix ==
    ASSUME NEW u, IsPriced(u)
    PROVE  /\ Len(u) = 3 => TermTotal(u) = u[1].amount + u[2].amount + u[3].amount
           /\ Len(u) = 6 => TermTotal(u) = u[1].amount + u[2].amount + u[3].amount
                                           + u[4].amount + u[5].amount + u[6].amount
<1>1. PICK h : /\ TermTotal(u) = SumOf(h, 1..Len(u))
               /\ \A i \in 1..Len(u) : h[i] = u[i].amount /\ h[i] \in Int
  BY TotalIsASum
<1> DEFINE S(n) == SumOf(h, 1..n)
<1>2. S(0) = 0
  <2>1. 1..0 = {}
    OBVIOUS
  <2> QED
    BY <2>1, SumOfNone
<1>3. ASSUME NEW n \in Nat, n + 1 =< Len(u)
      PROVE  S(n + 1) = h[n + 1] + S(n) /\ S(n) \in Int
  <2>1. \A i \in 1..(n + 1) : h[i] \in Int
    <3>1. Len(u) \in Nat
      BY SequenceHas DEF IsPriced
    <3> QED
      BY <1>1, <1>3, <3>1
  <2> QED
    BY <2>1, SumUpTo
<1> HIDE DEF S
<1>4. ASSUME Len(u) >= 3, Len(u) \in Nat
      PROVE  S(3) = h[1] + h[2] + h[3] /\ h[1] \in Int /\ h[2] \in Int /\ h[3] \in Int
  <2>1. S(0 + 1) = h[0 + 1] + S(0) /\ S(1 + 1) = h[1 + 1] + S(1) /\ S(2 + 1) = h[2 + 1] + S(2)
    BY <1>3, <1>4
  <2>2. h[1] \in Int /\ h[2] \in Int /\ h[3] \in Int
    BY <1>1, <1>4
  <2> QED
    BY <1>2, <2>1, <2>2
<1>5. CASE Len(u) = 3
  BY <1>1, <1>4, <1>5 DEF S
<1>6. CASE Len(u) = 6
  <2>1. S(3 + 1) = h[3 + 1] + S(3) /\ S(4 + 1) = h[4 + 1] + S(4) /\ S(5 + 1) = h[5 + 1] + S(5)
    BY <1>3, <1>6
  <2>2. h[4] \in Int /\ h[5] \in Int /\ h[6] \in Int
    BY <1>1, <1>6
  <2>3. S(6) = h[1] + h[2] + h[3] + h[4] + h[5] + h[6]
    BY <1>4, <1>6, <2>1, <2>2
  <2> QED
    BY <1>1, <1>6, <2>3 DEF S
<1> QED
  BY <1>5, <1>6

-----------------------------------------------------------------------------
(* Claims of an event or two of each kind.                                  *)

\* What a capture leaves after the gateway's charges.
Left(row) == row.amount - row.fee - row.tax

IsCharged(row) == row.amount \in Int /\ row.fee \in Int /\ row.tax \in Int

LEMMA FewCaptures ==
    ASSUME NEW c, NEW p, IsCharged(c.rows[p]), NEW q, IsCharged(c.rows[q])
    PROVE  /\ c.captures = <<p>> =>
                IsPriced(OfCaptures(c)) /\ TermTotal(OfCaptures(c)) = Left(c.rows[p])
           /\ c.captures = <<p, q>> =>
                /\ IsPriced(OfCaptures(c))
                /\ TermTotal(OfCaptures(c)) = Left(c.rows[p]) + Left(c.rows[q])
<1> DEFINE u == OfCaptures(c)
           P == c.rows[p]
           Q == c.rows[q]
<1>0. /\ P.amount \in Int /\ P.fee \in Int /\ P.tax \in Int
      /\ Q.amount \in Int /\ Q.fee \in Int /\ Q.tax \in Int
  BY DEF IsCharged
<1>1. ASSUME NEW x
      PROVE  /\ CaptureTerms(x, c.rows[x])[1].amount = c.rows[x].amount
             /\ CaptureTerms(x, c.rows[x])[2].amount = - c.rows[x].fee
             /\ CaptureTerms(x, c.rows[x])[3].amount = - c.rows[x].tax
  BY DEF CaptureTerms, Term
<1>2. CASE c.captures = <<p>>
  <2>1. Len(c.captures) = 1 /\ c.captures[1] = p
    BY <1>2
  <2>2. DOMAIN u = 1..3 /\ u = [i \in 1..3 |-> u[i]]
    BY <2>1 DEF OfCaptures
  <2>3. \A i \in 1..3 : u[i] = CaptureTerms(p, P)[i]
    <3>1. u[1] = CaptureTerms(p, P)[1]
      BY <2>1 DEF OfCaptures
    <3>2. u[2] = CaptureTerms(p, P)[2]
      BY <2>1 DEF OfCaptures
    <3>3. u[3] = CaptureTerms(p, P)[3]
      BY <2>1 DEF OfCaptures
    <3> QED
      BY <3>1, <3>2, <3>3
  <2> HIDE DEF u
  <2>4. u[1].amount = P.amount /\ u[2].amount = - P.fee /\ u[3].amount = - P.tax
    BY <1>1, <2>3
  <2>5. IsSequence(u) /\ Len(u) = 3
    BY <2>2, SequenceUpTo
  <2>6. IsPriced(u)
    <3>1. \A i \in 1..3 : i = 1 \/ i = 2 \/ i = 3
      OBVIOUS
    <3> HIDE DEF P
    <3> QED
      BY <1>0, <2>4, <2>5, <3>1 DEF IsPriced
  <2>7. TermTotal(u) = u[1].amount + u[2].amount + u[3].amount
    BY <2>5, <2>6, TotalOfThreeOrSix
  <2>8. TermTotal(u) = Left(P)
    <3> HIDE DEF P
    <3> QED
      BY <1>0, <2>4, <2>7 DEF Left
  <2>9. c.captures # <<p, q>>
    BY <1>2
  <2> QED
    BY <2>6, <2>8, <2>9 DEF u
<1>3. CASE c.captures = <<p, q>>
  <2>1. Len(c.captures) = 2 /\ c.captures[1] = p /\ c.captures[2] = q
    BY <1>3
  <2>2. DOMAIN u = 1..6 /\ u = [i \in 1..6 |-> u[i]]
    BY <2>1 DEF OfCaptures
  <2>3. /\ u[1] = CaptureTerms(p, P)[1] /\ u[2] = CaptureTerms(p, P)[2]
        /\ u[3] = CaptureTerms(p, P)[3]
    BY <2>1 DEF OfCaptures
  <2>4. /\ u[4] = CaptureTerms(q, Q)[1] /\ u[5] = CaptureTerms(q, Q)[2]
        /\ u[6] = CaptureTerms(q, Q)[3]
    BY <2>1 DEF OfCaptures
  <2> HIDE DEF u
  <2>5. /\ u[1].amount = P.amount /\ u[2].amount = - P.fee /\ u[3].amount = - P.tax
        /\ u[4].amount = Q.amount /\ u[5].amount = - Q.fee /\ u[6].amount = - Q.tax
    BY <1>1, <2>3, <2>4
  <2>6. IsSequence(u) /\ Len(u) = 6
    BY <2>2, SequenceUpTo
  <2>7. IsPriced(u)
    <3>1. \A i \in 1..6 : i = 1 \/ i = 2 \/ i = 3 \/ i = 4 \/ i = 5 \/ i = 6
      OBVIOUS
    <3> HIDE DEF P, Q
    <3> QED
      BY <1>0, <2>5, <2>6, <3>1 DEF IsPriced
  <2>8. TermTotal(u) = u[1].amount + u[2].amount + u[3].amount
                       + u[4].amount + u[5].amount + u[6].amount
    BY <2>6, <2>7, TotalOfThreeOrSix
  <2>9. TermTotal(u) = Left(P) + Left(Q)
    <3> HIDE DEF P, Q
    <3> QED
      BY <1>0, <2>5, <2>8 DEF Left
  <2>10. c.captures # <<p>>
    BY <1>3
  <2> QED
    BY <2>7, <2>9, <2>10 DEF u
<1> QED
  BY <1>2, <1>3

LEMMA FewPayments ==
    ASSUME NEW c, NEW p, c.rows[p].amount \in Int, c.captures = <<p>>
    PROVE  IsPriced(OfPayments(c)) /\ TermTotal(OfPayments(c)) = c.rows[p].amount
<1>1. Len(c.captures) = 1 /\ c.captures[1] = p
  OBVIOUS
<1>2. OfPayments(c) = <<Term("payment", c.rows[p].amount, p)>>
  BY <1>1 DEF OfPayments
<1>3. Term("payment", c.rows[p].amount, p).amount = c.rows[p].amount
  BY DEF Term
<1> QED
  BY <1>2, <1>3, TotalOfNoneOrOne

LEMMA FewAdjustments ==
    ASSUME NEW c, NEW a, c.rows[a].amount \in Int
    PROVE  /\ c.adjustments = <<>> =>
                IsPriced(OfAdjustments(c)) /\ TermTotal(OfAdjustments(c)) = 0
           /\ c.adjustments = <<a>> =>
                IsPriced(OfAdjustments(c)) /\ TermTotal(OfAdjustments(c)) = c.rows[a].amount
<1>1. ASSUME c.adjustments = <<>> PROVE OfAdjustments(c) = <<>>
  <2>1. Len(c.adjustments) = 0 /\ 1..0 = {}
    BY <1>1
  <2> QED
    BY <2>1 DEF OfAdjustments
<1>2. ASSUME c.adjustments = <<a>>
      PROVE  OfAdjustments(c) = <<Term("adjustment", c.rows[a].amount, a)>>
  <2>1. Len(c.adjustments) = 1 /\ c.adjustments[1] = a
    BY <1>2
  <2> QED
    BY <2>1 DEF OfAdjustments
<1>3. Term("adjustment", c.rows[a].amount, a).amount = c.rows[a].amount
  BY DEF Term
<1> QED
  BY <1>1, <1>2, <1>3, TotalOfNoneOrOne

LEMMA FewRefunds ==
    ASSUME NEW c, NEW r, c.rows[r].amount \in Int, c.rows[r].status = "processed"
    PROVE  /\ c.refunds = <<>> =>
                /\ ProcessedRefunds(c) = <<>>
                /\ IsPriced(OfRefunds(c)) /\ TermTotal(OfRefunds(c)) = 0
           /\ c.refunds = <<r>> =>
                /\ ProcessedRefunds(c) = <<r>>
                /\ IsPriced(OfRefunds(c)) /\ TermTotal(OfRefunds(c)) = - c.rows[r].amount
<1>1. ASSUME c.refunds = <<>> PROVE ProcessedRefunds(c) = <<>> /\ OfRefunds(c) = <<>>
  <2>1. Len(c.refunds) = 0 /\ 1..0 = {} /\ Cardinality({}) = 0
    BY <1>1, FS_EmptySet
  <2>2. ProcessedRefunds(c) = Pick(c.refunds, {})
    BY <2>1 DEF ProcessedRefunds
  <2>3. ProcessedRefunds(c) = <<>>
    BY <2>1, <2>2 DEF Pick
  <2>4. Len(ProcessedRefunds(c)) = 0
    BY <2>3
  <2> QED
    BY <2>1, <2>3, <2>4 DEF OfRefunds
<1>2. ASSUME c.refunds = <<r>>
      PROVE  /\ ProcessedRefunds(c) = <<r>>
             /\ OfRefunds(c) = <<Term("refund", - c.rows[r].amount, r)>>
  <2>1. Len(c.refunds) = 1 /\ c.refunds[1] = r
    BY <1>2
  <2>2. {i \in 1..Len(c.refunds) : c.rows[c.refunds[i]].status = "processed"} = {1}
    BY <2>1
  <2>3. ProcessedRefunds(c) = Pick(c.refunds, {1})
    BY <2>2 DEF ProcessedRefunds
  <2>4. Cardinality({1}) = 1 /\ {j \in {1} : j =< 1} = {1}
    <3>1. {j \in {1} : j =< 1} = {1}
      OBVIOUS
    <3> QED
      BY <3>1, FS_Singleton
  <2>5. Nth({1}, 1) = 1
    BY <2>4 DEF Nth
  <2>6. ProcessedRefunds(c) = <<r>>
    BY <2>1, <2>3, <2>4, <2>5 DEF Pick
  <2>7. Len(ProcessedRefunds(c)) = 1 /\ ProcessedRefunds(c)[1] = r
    BY <2>6
  <2> QED
    BY <2>6, <2>7 DEF OfRefunds
<1>3. Term("refund", - c.rows[r].amount, r).amount = - c.rows[r].amount
  BY DEF Term
<1>4. - c.rows[r].amount \in Int
  OBVIOUS
<1> QED
  BY <1>1, <1>2, <1>3, <1>4, TotalOfNoneOrOne

-----------------------------------------------------------------------------
(* The generator's scenarios.                                               *)

\* One settled capture of 100, less the gateway's charges, a refund and an adjustment.
LEMMA SettlementScenarios ==
    ASSUME NEW name \in ScenarioNames \ {"missing_source", "tds", "split_capture_payout"}
    PROVE  LET c == Scenario(name) IN
           /\ c.rule = Net /\ c.subject = "setl" /\ c.captures = <<"pay">> /\ c.tds = 0
           /\ c.rows["pay"].status = "captured" /\ c.rows["pay"].settlement = "setl"
           /\ c.rows["rfnd"].payment = "pay" /\ c.rows["rfnd"].status = "processed"
           /\ c.rows["adj"].settlement = "setl" /\ c.rows["setl"].status = "processed"
           /\ IsCharged(c.rows["pay"]) /\ Left(c.rows["pay"]) = 9764
           /\ c.rows["rfnd"].amount \in Int /\ c.rows["adj"].amount \in Int
           /\ \/ c.refunds = <<"rfnd">>
              \/ c.refunds = <<>> /\ c.rows["rfnd"].amount = 0
           /\ \/ c.adjustments = <<"adj">>
              \/ c.adjustments = <<>> /\ c.rows["adj"].amount = 0
           /\ c.rows["setl"].amount = 9764 - c.rows["rfnd"].amount + c.rows["adj"].amount
<1> DEFINE c == Scenario(name)
<1>1. name \in {"full_refund", "partial_refund", "open_dispute", "closed_dispute",
    "positive_adjustment", "negative_adjustment", "fee_reversal", "gst_variance",
    "cross_period_settlement"}
  BY DEF ScenarioNames
<1>2. /\ c.rule = Net /\ c.subject = "setl" /\ c.captures = <<"pay">> /\ c.tds = 0
  BY <1>1 DEF Scenario
<1>3. /\ c.rows["pay"].status = "captured" /\ c.rows["pay"].settlement = "setl"
      /\ c.rows["pay"].amount = 10000 /\ c.rows["pay"].fee = 200 /\ c.rows["pay"].tax = 36
  BY <1>1 DEF Scenario
<1>4. /\ c.rows["rfnd"].payment = "pay" /\ c.rows["rfnd"].status = "processed"
      /\ c.rows["adj"].settlement = "setl" /\ c.rows["setl"].status = "processed"
  BY <1>1 DEF Scenario
<1>5. /\ c.rows["rfnd"].amount \in Int
      /\ \/ c.refunds = <<"rfnd">>
         \/ c.refunds = <<>> /\ c.rows["rfnd"].amount = 0
  BY <1>1 DEF Scenario
<1>6. /\ c.rows["adj"].amount \in Int
      /\ \/ c.adjustments = <<"adj">>
         \/ c.adjustments = <<>> /\ c.rows["adj"].amount = 0
  BY <1>1 DEF Scenario
<1>7. c.rows["setl"].amount = 9764 - c.rows["rfnd"].amount + c.rows["adj"].amount
  BY <1>1 DEF Scenario
<1> HIDE DEF c
<1>8. IsCharged(c.rows["pay"]) /\ Left(c.rows["pay"]) = 9764
  BY <1>3 DEF IsCharged, Left
<1> QED
  BY <1>2, <1>3, <1>4, <1>5, <1>6, <1>7, <1>8 DEF c

\* A settlement of one capture, or of two, and of at most a refund and an adjustment,
\* each of it, that pays what they leave.
PaysOut(c, p, q, r, a) ==
    LET left == IF c.captures = <<p>> THEN Left(c.rows[p])
                ELSE Left(c.rows[p]) + Left(c.rows[q])
        back == IF c.refunds = <<>> THEN 0 ELSE c.rows[r].amount
        moved == IF c.adjustments = <<>> THEN 0 ELSE c.rows[a].amount
    IN  /\ c.captures = <<p>> \/ (c.captures = <<p, q>> /\ p # q)
        /\ c.refunds = <<>> \/ c.refunds = <<r>>
        /\ c.adjustments = <<>> \/ c.adjustments = <<a>>
        /\ \A e \in {p, q} : /\ IsCharged(c.rows[e]) /\ c.rows[e].status = "captured"
                             /\ c.rows[e].settlement = c.subject
        /\ c.rows[r].amount \in Int /\ c.rows[r].status = "processed" /\ c.rows[r].payment = p
        /\ c.rows[a].amount \in Int /\ c.rows[a].settlement = c.subject
        /\ c.rows[c.subject].status = "processed"
        /\ c.rows[c.subject].amount = left - back + moved

LEMMA SettlementIssued ==
    ASSUME NEW c, IsClaim(c), c.rule = Net,
           NEW p, NEW q, NEW r, NEW a, PaysOut(c, p, q, r, a)
    PROVE  Issued(c)
<1> DEFINE x == OfCaptures(c)
           y == OfRefunds(c)
           z == OfAdjustments(c)
           left == IF c.captures = <<p>> THEN Left(c.rows[p])
                   ELSE Left(c.rows[p]) + Left(c.rows[q])
           back == IF c.refunds = <<>> THEN 0 ELSE c.rows[r].amount
           moved == IF c.adjustments = <<>> THEN 0 ELSE c.rows[a].amount
<1>0. /\ c.captures = <<p>> \/ (c.captures = <<p, q>> /\ p # q)
      /\ c.refunds = <<>> \/ c.refunds = <<r>>
      /\ c.adjustments = <<>> \/ c.adjustments = <<a>>
      /\ IsCharged(c.rows[p]) /\ c.rows[p].status = "captured" /\ c.rows[p].settlement = c.subject
      /\ IsCharged(c.rows[q]) /\ c.rows[q].status = "captured" /\ c.rows[q].settlement = c.subject
      /\ c.rows[r].amount \in Int /\ c.rows[r].status = "processed" /\ c.rows[r].payment = p
      /\ c.rows[a].amount \in Int /\ c.rows[a].settlement = c.subject
      /\ c.rows[c.subject].status = "processed" /\ c.tds = 0 /\ Net # Coverage
      /\ c.rows[c.subject].amount = left - back + moved
  BY DEF PaysOut, IsClaim, Net, Coverage
<1>1. IsPriced(x) /\ TermTotal(x) = left
  BY <1>0, FewCaptures
<1>2. /\ IsPriced(y) /\ TermTotal(y) = - back
      /\ ProcessedRefunds(c) = <<>> \/ ProcessedRefunds(c) = <<r>>
  BY <1>0, FewRefunds
<1>3. IsPriced(z) /\ TermTotal(z) = moved
  BY <1>0, FewAdjustments
<1>4. Terms(c) = x \o y \o z
  BY <1>0 DEF Terms
<1>5. TermTotal(Terms(c)) = left - back + moved
  <2> HIDE DEF x, y, z, left, back, moved
  <2>1. /\ IsPriced(x \o y) /\ TermTotal(x \o y) = TermTotal(x) + TermTotal(y)
        /\ TermTotal(x) \in Int /\ TermTotal(y) \in Int
    BY <1>1, <1>2, TotalJoined
  <2>2. /\ TermTotal((x \o y) \o z) = TermTotal(x \o y) + TermTotal(z)
        /\ TermTotal(z) \in Int
    BY <1>3, <2>1, TotalJoined
  <2>3. back \in Int
    BY <1>0 DEF back
  <2> QED
    BY <1>1, <1>2, <1>3, <1>4, <2>1, <2>2, <2>3
<1>6. c.rows[c.subject].amount = TermTotal(Terms(c))
  BY <1>0, <1>5
<1>7. IsInjective(c.captures) /\ IsInjective(ProcessedRefunds(c)) /\ IsInjective(c.adjustments)
  <2>1. IsInjective(<<>>)
    BY DEF IsInjective
  <2>2. \A e : IsInjective(<<e>>)
    BY DEF IsInjective
  <2>3. p # q => IsInjective(<<p, q>>)
    BY DEF IsInjective
  <2> QED
    BY <1>0, <1>2, <2>1, <2>2, <2>3
<1>8. IsInjective(c.captures \o ProcessedRefunds(c) \o c.adjustments)
  BY <1>7, EventsOfAClaim
<1>9. ~Foreign(c)
  <2>1. /\ ToSet(c.captures) \in {{p}, {p, q}} /\ ToSet(ProcessedRefunds(c)) \in {{}, {r}}
        /\ ToSet(c.adjustments) \in {{}, {a}}
    <3>1. ToSet(<<>>) = {} /\ \A e : ToSet(<<e>>) = {e}
      BY DEF ToSet
    <3>2. ToSet(<<p, q>>) = {p, q}
      BY DEF ToSet
    <3> QED
      BY <1>0, <1>2, <3>1, <3>2
  <2>2. \A e \in ToSet(c.captures) : e = p \/ e = q
    BY <2>1
  <2>3. p \in ToSet(c.captures)
    BY <2>1
  <2>4. \A e \in ToSet(ProcessedRefunds(c)) : e = r
    BY <2>1
  <2>5. \A e \in ToSet(c.adjustments) : e = a
    BY <2>1
  <2> QED
    BY <1>0, <2>2, <2>3, <2>4, <2>5 DEF Foreign
<1>10. Referenced(c) \subseteq DOMAIN c.rows
  <2>1. c.subject \in DOMAIN c.rows
    BY DEF IsClaim
  <2> QED
    BY <2>1, SettlementRefers, EventsOfAClaim
<1>11. c.captures # <<>>
  <2>1. <<p>> # <<>> /\ <<p, q>> # <<>>
    <3>1. Len(<<p>>) = 1 /\ Len(<<p, q>>) = 2 /\ Len(<<>>) = 0
      OBVIOUS
    <3> QED
      BY <3>1
  <2> QED
    BY <1>0, <2>1
<1> QED
  BY <1>0, <1>6, <1>8, <1>9, <1>10, <1>11 DEF Issued, Holds

LEMMA SettlementsIssued ==
    ASSUME NEW name \in ScenarioNames \ {"missing_source", "tds", "split_capture_payout"},
           IsClaim(Scenario(name))
    PROVE  Issued(Scenario(name)) /\ Scenario(name).rule = Net
<1> DEFINE c == Scenario(name)
<1>1. /\ c.rule = Net /\ c.subject = "setl" /\ c.captures = <<"pay">> /\ c.tds = 0
      /\ c.rows["pay"].status = "captured" /\ c.rows["pay"].settlement = "setl"
      /\ c.rows["rfnd"].payment = "pay" /\ c.rows["rfnd"].status = "processed"
      /\ c.rows["adj"].settlement = "setl" /\ c.rows["setl"].status = "processed"
      /\ IsCharged(c.rows["pay"]) /\ Left(c.rows["pay"]) = 9764
      /\ c.rows["rfnd"].amount \in Int /\ c.rows["adj"].amount \in Int
      /\ \/ c.refunds = <<"rfnd">>
         \/ c.refunds = <<>> /\ c.rows["rfnd"].amount = 0
      /\ \/ c.adjustments = <<"adj">>
         \/ c.adjustments = <<>> /\ c.rows["adj"].amount = 0
      /\ c.rows["setl"].amount = 9764 - c.rows["rfnd"].amount + c.rows["adj"].amount
  BY SettlementScenarios
<1> DEFINE back == IF c.refunds = <<>> THEN 0 ELSE c.rows["rfnd"].amount
           moved == IF c.adjustments = <<>> THEN 0 ELSE c.rows["adj"].amount
<1>2. IsClaim(c)
  OBVIOUS
<1> HIDE DEF c
<1>3. \A e : <<e>> # <<>>
  <2>1. \A e : Len(<<e>>) = 1 /\ Len(<<>>) = 0
    OBVIOUS
  <2> QED
    BY <2>1
<1>4. back = c.rows["rfnd"].amount /\ moved = c.rows["adj"].amount
  BY <1>1, <1>3
<1>5. /\ c.refunds = <<>> \/ c.refunds = <<"rfnd">>
      /\ c.adjustments = <<>> \/ c.adjustments = <<"adj">>
  BY <1>1
<1>6. PaysOut(c, "pay", "pay", "rfnd", "adj")
  BY <1>1, <1>4, <1>5 DEF PaysOut
<1>7. Issued(c)
  BY <1>1, <1>2, <1>6, SettlementIssued
<1> QED
  BY <1>1, <1>7 DEF c

LEMMA SplitScenario ==
    ASSUME NEW name, name = "split_capture_payout"
    PROVE  LET c == Scenario(name) IN
           /\ c.rule = Net /\ c.subject = "setl" /\ c.captures = <<"pay", "pay-2">>
           /\ c.tds = 0 /\ c.refunds = <<>> /\ c.adjustments = <<>>
           /\ c.rows["pay"].status = "captured" /\ c.rows["pay"].settlement = "setl"
           /\ IsCharged(c.rows["pay"]) /\ Left(c.rows["pay"]) = 9764
           /\ c.rows["pay-2"].status = "captured" /\ c.rows["pay-2"].settlement = "setl"
           /\ IsCharged(c.rows["pay-2"]) /\ Left(c.rows["pay-2"]) = 19528
           /\ c.rows["rfnd"].payment = "pay" /\ c.rows["rfnd"].status = "processed"
           /\ c.rows["adj"].settlement = "setl" /\ c.rows["setl"].status = "processed"
           /\ c.rows["rfnd"].amount \in Int /\ c.rows["adj"].amount \in Int
           /\ c.rows["setl"].amount = 29292
<1> DEFINE c == Scenario(name)
<1>1. /\ c.rule = Net /\ c.subject = "setl" /\ c.captures = <<"pay", "pay-2">> /\ c.tds = 0
      /\ c.refunds = <<>> /\ c.adjustments = <<>>
  BY DEF Scenario
<1>2. /\ c.rows["pay"].status = "captured" /\ c.rows["pay"].settlement = "setl"
      /\ c.rows["pay"].amount = 10000 /\ c.rows["pay"].fee = 200 /\ c.rows["pay"].tax = 36
  BY DEF Scenario
<1>3. /\ c.rows["pay-2"].status = "captured" /\ c.rows["pay-2"].settlement = "setl"
      /\ c.rows["pay-2"].amount = 20000 /\ c.rows["pay-2"].fee = 400 /\ c.rows["pay-2"].tax = 72
  BY DEF Scenario
<1>4. /\ c.rows["rfnd"].payment = "pay" /\ c.rows["rfnd"].status = "processed"
      /\ c.rows["adj"].settlement = "setl" /\ c.rows["setl"].status = "processed"
      /\ c.rows["rfnd"].amount \in Int /\ c.rows["adj"].amount \in Int
      /\ c.rows["setl"].amount = 29292
  BY DEF Scenario
<1> HIDE DEF c
<1>5. /\ IsCharged(c.rows["pay"]) /\ Left(c.rows["pay"]) = 9764
      /\ IsCharged(c.rows["pay-2"]) /\ Left(c.rows["pay-2"]) = 19528
  BY <1>2, <1>3 DEF IsCharged, Left
<1> QED
  BY <1>1, <1>2, <1>3, <1>4, <1>5 DEF c

LEMMA SplitIssued ==
    ASSUME NEW name, name = "split_capture_payout", IsClaim(Scenario(name))
    PROVE  Issued(Scenario(name)) /\ Scenario(name).tds = 0
<1> DEFINE c == Scenario(name)
<1>1. /\ c.rule = Net /\ c.subject = "setl" /\ c.captures = <<"pay", "pay-2">> /\ c.tds = 0
      /\ c.refunds = <<>> /\ c.adjustments = <<>>
  BY SplitScenario
<1>2. /\ c.rows["pay"].status = "captured" /\ c.rows["pay"].settlement = "setl"
      /\ IsCharged(c.rows["pay"]) /\ Left(c.rows["pay"]) = 9764
      /\ c.rows["pay-2"].status = "captured" /\ c.rows["pay-2"].settlement = "setl"
      /\ IsCharged(c.rows["pay-2"]) /\ Left(c.rows["pay-2"]) = 19528
  BY SplitScenario
<1>3. /\ c.rows["rfnd"].payment = "pay" /\ c.rows["rfnd"].status = "processed"
      /\ c.rows["adj"].settlement = "setl" /\ c.rows["setl"].status = "processed"
      /\ c.rows["rfnd"].amount \in Int /\ c.rows["adj"].amount \in Int
      /\ c.rows["setl"].amount = 29292
  BY SplitScenario
<1>4. IsClaim(c)
  OBVIOUS
<1> HIDE DEF c
<1>5. <<"pay", "pay-2">> # <<"pay">>
  <2>1. Len(<<"pay", "pay-2">>) = 2 /\ Len(<<"pay">>) = 1
    OBVIOUS
  <2> QED
    BY <2>1
<1>6. PaysOut(c, "pay", "pay-2", "rfnd", "adj")
  BY <1>1, <1>2, <1>3, <1>5 DEF PaysOut
<1>7. Issued(c)
  BY <1>1, <1>4, <1>6, SettlementIssued
<1> QED
  BY <1>1, <1>7 DEF c

LEMMA TaxIssued ==
    ASSUME IsClaim(Scenario("tds"))
    PROVE  /\ Issued(Scenario("tds")) /\ OnRecord(Scenario("tds"))
           /\ Scenario("tds").rule = Coverage
<1> DEFINE c == Scenario("tds")
           x == OfPayments(c)
           y == OfRefunds(c)
           z == OfTax(c)
<1>0. Net # Coverage
  BY DEF Net, Coverage
<1>1. /\ c.rule = Coverage /\ c.subject = "ORD" /\ c.captures = <<"pay">>
      /\ c.refunds = <<>> /\ c.adjustments = <<>> /\ c.tds = 1000 /\ c.tds_source_ref = "tds"
  BY DEF Scenario
<1>2. /\ c.rows["pay"].status = "captured" /\ c.rows["pay"].order = "ORD"
      /\ c.rows["pay"].amount = 9000 /\ c.rows["ORD"].amount = 10000
      /\ c.rows["rfnd"].status = "processed" /\ c.rows["rfnd"].amount \in Int
  BY DEF Scenario
<1>3. "ORD" \in DOMAIN c.rows /\ "tds" \in DOMAIN c.rows
  BY DEF Scenario
<1>4. /\ c.rows["tds"].kind = "ledger" /\ c.rows["tds"].event = "tds_withheld"
      /\ c.rows["tds"].source = "ORD" /\ c.rows["tds"].direction = "credit"
      /\ c.rows["tds"].amount = 1000
  BY DEF Scenario
<1>5. IsClaim(c)
  OBVIOUS
<1> HIDE DEF c
<1>6. IsPriced(x) /\ TermTotal(x) = 9000
  BY <1>1, <1>2, FewPayments
<1>7. IsPriced(y) /\ TermTotal(y) = 0 /\ ProcessedRefunds(c) = <<>>
  BY <1>1, <1>2, FewRefunds
<1>8. IsPriced(z) /\ TermTotal(z) = 1000
  <2>1. z = <<Term("tds_withheld", 1000, "tds")>>
    BY <1>1 DEF OfTax
  <2>2. Term("tds_withheld", 1000, "tds").amount = 1000
    BY DEF Term
  <2> QED
    BY <2>1, <2>2, TotalOfNoneOrOne
<1>9. Terms(c) = x \o y \o z
  BY <1>0, <1>1 DEF Terms
<1>10. TermTotal(Terms(c)) = 10000
  <2> HIDE DEF x, y, z
  <2>1. IsPriced(x \o y) /\ TermTotal(x \o y) = TermTotal(x) + TermTotal(y)
    BY <1>6, <1>7, TotalJoined
  <2>2. TermTotal((x \o y) \o z) = TermTotal(x \o y) + TermTotal(z)
    BY <1>8, <2>1, TotalJoined
  <2> QED
    BY <1>6, <1>7, <1>8, <1>9, <2>1, <2>2
<1>11. IsInjective(c.captures \o ProcessedRefunds(c) \o c.adjustments)
  <2>1. IsInjective(<<>>) /\ IsInjective(<<"pay">>)
    BY DEF IsInjective
  <2> QED
    BY <1>1, <1>5, <1>7, <2>1, EventsOfAClaim
<1>12. ~Foreign(c)
  <2>1. ToSet(<<>>) = {} /\ ToSet(<<"pay">>) = {"pay"}
    BY DEF ToSet
  <2> QED
    BY <1>0, <1>1, <1>2, <1>7, <2>1 DEF Foreign
<1>13. Referenced(c) \subseteq DOMAIN c.rows
  <2>1. TaxRef(c) = "tds"
    BY <1>1 DEF TaxRef
  <2> QED
    BY <1>1, <1>3, <1>5, <2>1, InvoiceRefers, EventsOfAClaim
<1>14. c.captures # <<>> /\ c.tds # 0 /\ c.tds_source_ref # ""
  <2>1. Len(<<"pay">>) = 1 /\ Len(<<>>) = 0
    OBVIOUS
  <2> QED
    BY <1>1, <2>1
<1>15. Issued(c)
  BY <1>0, <1>1, <1>2, <1>10, <1>11, <1>12, <1>13, <1>14 DEF Issued, Holds
<1>16. OnRecord(c)
  BY <1>1, <1>4 DEF OnRecord
<1> QED
  BY <1>1, <1>15, <1>16 DEF c

LEMMA NothingCaptured == \A name : name = "missing_source" => Scenario(name).captures = <<>>
BY DEF Scenario

\* Every scenario is verified but the one without a payment.
LEMMA ScenariosVerify ==
    ASSUME NEW name \in ScenarioNames, IsClaim(Scenario(name))
    PROVE  Issued(Scenario(name)) /\ OnRecord(Scenario(name)) <=> name # "missing_source"
<1> DEFINE c == Scenario(name)
<1>1. CASE name = "missing_source"
  <2>1. c.captures = <<>>
    BY <1>1, NothingCaptured
  <2> HIDE DEF c
  <2>2. ~Issued(c)
    BY <2>1 DEF Issued, Holds
  <2> QED
    BY <1>1, <2>2 DEF c
<1>2. CASE name = "split_capture_payout"
  <2>1. c.tds = 0 /\ Issued(c)
    BY <1>2, SplitIssued
  <2> HIDE DEF c
  <2>3. OnRecord(c)
    BY <2>1 DEF OnRecord
  <2> QED
    BY <1>2, <2>1, <2>3 DEF c
<1>3. CASE name = "tds"
  BY <1>3, TaxIssued
<1>4. CASE name \notin {"missing_source", "split_capture_payout", "tds"}
  <2>1. Issued(c)
    BY <1>4, SettlementsIssued
  <2>2. c.tds = 0
    BY <1>4, SettlementScenarios
  <2> HIDE DEF c
  <2>3. OnRecord(c)
    BY <2>2 DEF OnRecord
  <2> QED
    BY <1>4, <2>1, <2>3 DEF c
<1> QED
  BY <1>1, <1>2, <1>3, <1>4

-----------------------------------------------------------------------------
(* The proofs of a file.                                                    *)

\* For whatever claims are looked at: verify-proof says VALID of what the issuer finds
\* to hold, and the ledger has the tax of, and of nothing else; the generator's
\* scenarios are verified, all but the one without a payment.
THEOREM IdentitiesAgree == ProofSpec => []IdentityAgrees
<1> DEFINE Answered ==
             /\ claim \in Claims
             /\ answer \in {"none",
                    IF IdentityVerifies(Certificate(claim), claim.rows) THEN "VALID"
                    ELSE "INVALID"}
<1>1. ProofInit => Answered
  BY DEF ProofInit
<1>2. Answered /\ [VerifyProof]_<<claim, answer>> => Answered'
  BY DEF VerifyProof
<1>3. Answered => IdentityAgrees
  <2> SUFFICES ASSUME Answered, answer # "none" PROVE IdentityAgrees
    BY DEF IdentityAgrees
  <2>1. IsClaim(claim)
    BY IdentityConstants
  <2>2. IdentityVerifies(Certificate(claim), claim.rows) <=> Issued(claim) /\ OnRecord(claim)
    <3>1. CASE claim.rule = Net
      <4>1. claim.tds = 0
        BY <2>1, <3>1 DEF IsClaim
      <4>2. OnRecord(claim)
        BY <4>1 DEF OnRecord
      <4> QED
        BY <2>1, <3>1, <4>2, SettlementAgrees
    <3>2. CASE claim.rule = Coverage
      BY <2>1, <3>2, InvoiceAgrees
    <3> QED
      BY <2>1, <3>1, <3>2 DEF IsClaim
  <2>3. /\ answer \in {"VALID", "INVALID"}
        /\ answer = "VALID" <=> Issued(claim) /\ OnRecord(claim)
    BY <2>2
  <2>4. ASSUME NEW name \in ScenarioNames, claim = Scenario(name)
        PROVE  answer = IF name = "missing_source" THEN "INVALID" ELSE "VALID"
    <3>1. Issued(claim) /\ OnRecord(claim) <=> name # "missing_source"
      BY <2>1, <2>4, ScenariosVerify
    <3> QED
      BY <2>3, <3>1
  <2> QED
    BY <2>3, <2>4 DEF IdentityAgrees
<1> QED
  BY <1>1, <1>2, <1>3, PTL DEF ProofSpec

=============================================================================
