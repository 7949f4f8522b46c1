------------------------ MODULE RuleLifecycleProofs -------------------------
(***************************************************************************)
(* Proofs about RuleLifecycle: its types, that an activation receipt stays *)
(* valid, that the store implements RuleHistory, that no capability is     *)
(* spent in vain, and that a rule in force harmed no case it was tried on. *)
(***************************************************************************)
EXTENDS RuleLifecycle, CollectionTheorems, SequenceTheorems

\* What a call in progress is.
LEMMA CallShape ==
    ASSUME TypeOK, NEW p \in Caller
    PROVE  /\ InCall(p, "verified") => call[p] \in VerifiedCall
           /\ InCall(p, "compiled") => call[p] \in CompiledCall
           /\ InCall(p, "replayed") => call[p] \in ReplayedCall
           /\ InCall(p, "activated") => call[p] \in ActivatedCall
BY DEF TypeOK, InCall, Call, Idle, VerifiedCall, CompiledCall, ReplayedCall, ActivatedCall

\* A capability has the fields of one.
LEMMA CapabilityShape ==
    ASSUME NEW c \in Capability
    PROVE  /\ c.actor \in Analyst
           /\ c.version \in Nat \ {0}
           /\ c.action \in HumanAction
BY RuleConstants DEF RuleConstants, HumanAuthority

\* A rule with rows has a latest one.
LEMMA LatestIsRow ==
    ASSUME TypeOK, NEW r \in Rule, rules[r] # <<>>
    PROVE  /\ Latest(r) \in Row
           /\ Len(rules[r]) \in Nat \ {0}
<1>1. rules[r] \in Seq(Row)
    BY DEF TypeOK
<1>2. Len(rules[r]) \in Nat /\ Len(rules[r]) # 0
    BY <1>1, EmptySeq, LenProperties
<1>. QED
    BY <1>1, <1>2, ElementOfSeq DEF Latest

\* Rows appended to a rule keep the table's type.
LEMMA AppendsTyped ==
    ASSUME TypeOK, NEW r \in Rule, NEW row \in Row, Appends(r, row)
    PROVE  rules' \in [Rule -> Seq(Row)]
<1>1. Append(rules[r], row) \in Seq(Row)
    BY AppendProperties DEF TypeOK
<1>. QED
    BY <1>1 DEF TypeOK, Appends

-----------------------------------------------------------------------------
(* The inductive invariant.                                                 *)

ActiveAt(r, n, actor) ==
    /\ n \in DOMAIN rules[r]
    /\ rules[r][n].status = "ACTIVE"
    /\ rules[r][n].activated_by = actor

\* A call that has seen the registry has seen the one in force, and a call that
\* activated a rule finds the row it wrote.
CallsKnow ==
    \A p \in Caller :
        /\ InCall(p, "verified") \/ InCall(p, "activated") => call[p].registry = registry
        /\ InCall(p, "activated") => ActiveAt(call[p].rule, call[p].version, call[p].actor)

RuleInv == TypeOK /\ CallsKnow /\ ReceiptsStayValid

LEMMA InitInv == Init => RuleInv
<1>. SUFFICES ASSUME Init PROVE RuleInv
    OBVIOUS
<1>1. TypeOK
  <2>1. <<>> \in Seq(Row)
    BY EmptySeq
  <2>2. [version |-> 1, resolution |-> Open] \in Case
    BY DEF Case
  <2>3. rules \in [Rule -> Seq(Row)] /\ cases \in [Rule -> Case] /\ call \in [Caller -> Call]
    BY <2>1, <2>2 DEF Init, Call
  <2>. QED
    BY <2>3 DEF Init, TypeOK
<1>2. CallsKnow /\ ReceiptsStayValid
    BY DEF Init, CallsKnow, InCall, Idle, ReceiptsStayValid
<1>. QED
    BY <1>1, <1>2 DEF RuleInv

\* What each step appends is a row, with the status it is for.
LEMMA AddRow ==
    ASSUME TypeOK, NEW p \in Caller, Add(p)
    PROVE  /\ call[p].rule \in Rule
           /\ \E row \in Row : row.status = "PROPOSED" /\ Appends(call[p].rule, row)
<1>1. call[p] \in CompiledCall
    BY CallShape DEF Add
<1>2. [status |-> "PROPOSED", author |-> call[p].author, approver |-> NoOne,
       activated_by |-> NoOne, replay |-> NoReplay] \in Row
    BY <1>1 DEF CompiledCall, Row, RuleStatus
<1>. QED
    BY <1>1, <1>2 DEF Add, CompiledCall

LEMMA RecordReplayRow ==
    ASSUME TypeOK, NEW p \in Caller, RecordReplay(p)
    PROVE  /\ call[p].rule \in Rule
           /\ \E row \in Row :
                row.status \in {"REPLAY_PASSED", "REJECTED"} /\ Appends(call[p].rule, row)
<1>. DEFINE r == call[p].rule
            replay == call[p].replay
            row == [status |-> ReplayStatus(replay.confirmed, replay.attacks),
                    author |-> Latest(r).author, approver |-> Latest(r).approver,
                    activated_by |-> NoOne, replay |-> replay]
<1>1. call[p] \in ReplayedCall
    BY CallShape DEF RecordReplay
<1>2. r \in Rule /\ replay \in Replay
    BY <1>1 DEF ReplayedCall
<1>3. Latest(r) \in Row /\ Latest(r).status = "PROPOSED"
    BY <1>2, LatestIsRow DEF RecordReplay, MayMove
<1>4. ReplayStatus(replay.confirmed, replay.attacks) \in {"REPLAY_PASSED", "REJECTED"}
    BY DEF ReplayStatus
<1>5. row \in Row
    BY <1>2, <1>3, <1>4 DEF Row, RuleStatus
<1>. QED
    BY <1>2, <1>4, <1>5 DEF RecordReplay

LEMMA ApproveRow ==
    ASSUME TypeOK, NEW p \in Caller, NEW r \in Rule, Approve(p, r)
    PROVE  \E row \in Row :
              /\ row.status = "APPROVED"
              /\ row.author = Latest(r).author
              /\ row.approver = call[p].cap.actor
              /\ Appends(r, row)
<1>1. call[p] \in VerifiedCall
    BY CallShape DEF Approve, Presents
<1>2. call[p].cap.actor \in Analyst
    BY <1>1, CapabilityShape DEF VerifiedCall
<1>3. Latest(r) \in Row
    BY LatestIsRow DEF Approve, MayMove
<1>4. [status |-> "APPROVED", author |-> Latest(r).author, approver |-> call[p].cap.actor,
       activated_by |-> NoOne, replay |-> NoReplay] \in Row
    BY <1>2, <1>3, RuleConstants DEF Row, RuleStatus, RuleConstants
<1>. QED
    BY <1>4 DEF Approve

LEMMA ActivateRow ==
    ASSUME TypeOK, NEW p \in Caller, NEW r \in Rule, Activate(p, r)
    PROVE  \E row \in Row :
              /\ row.status = "ACTIVE"
              /\ row.author = Latest(r).author
              /\ row.activated_by = call[p].cap.actor
              /\ Appends(r, row)
<1>1. call[p] \in VerifiedCall
    BY CallShape DEF Activate, Presents
<1>2. call[p].cap.actor \in Analyst
    BY <1>1, CapabilityShape DEF VerifiedCall
<1>3. Latest(r) \in Row /\ Latest(r).status = "APPROVED"
    BY LatestIsRow DEF Activate, MayMove
<1>4. [status |-> "ACTIVE", author |-> Latest(r).author, approver |-> Latest(r).approver,
       activated_by |-> call[p].cap.actor, replay |-> NoReplay] \in Row
    BY <1>2, <1>3, RuleConstants DEF Row, RuleStatus, RuleConstants
<1>. QED
    BY <1>4 DEF Activate

-----------------------------------------------------------------------------
(* What every step leaves: the registry once it is there, and the rows.     *)

Kept ==
    /\ registry # NoOperator => registry' = registry
    /\ \A r \in Rule :
        /\ Len(rules'[r]) >= Len(rules[r])
        /\ \A i \in 1..Len(rules[r]) : rules'[r][i] = rules[r][i]

\* An appended row keeps the others.
LEMMA AppendsKeeps ==
    ASSUME TypeOK, NEW q \in Rule, NEW row \in Row, Appends(q, row), NEW r \in Rule
    PROVE  /\ Len(rules'[r]) >= Len(rules[r])
           /\ \A i \in 1..Len(rules[r]) : rules'[r][i] = rules[r][i]
<1>1. rules[r] \in Seq(Row) /\ Len(rules[r]) \in Nat
    BY LenProperties DEF TypeOK
<1>2. rules'[r] = IF r = q THEN Append(rules[r], row) ELSE rules[r]
    BY DEF TypeOK, Appends
<1>3. CASE r = q
    BY <1>1, <1>2, <1>3, AppendProperties
<1>4. CASE r # q
    BY <1>1, <1>2, <1>4
<1>. QED
    BY <1>3, <1>4

\* A step only adds rows, and the registry stays the one it is.
LEMMA StepKeeps ==
    ASSUME TypeOK, [Next]_vars
    PROVE  rules' \in [Rule -> Seq(Row)] /\ Kept
<1>. DEFINE Goal == rules' \in [Rule -> Seq(Row)] /\ Kept
<1>1. ASSUME rules' = rules, registry # NoOperator => registry' = registry
      PROVE  Goal
  <2>1. \A r \in Rule : Len(rules[r]) \in Nat
      BY LenProperties DEF TypeOK
  <2>. QED
      BY <1>1, <2>1 DEF TypeOK, Kept
<1>2. ASSUME NEW q \in Rule, NEW row \in Row, Appends(q, row), registry' = registry
      PROVE  Goal
    BY <1>2, AppendsTyped, AppendsKeeps DEF Kept
<1>. HIDE DEF Goal
<1>3. ASSUME NEW o \in Operator, BootstrapFindsNone(o) \/ BootstrapInserts(o)
      PROVE  Goal
    BY <1>1, <1>3 DEF BootstrapFindsNone, BootstrapInserts
<1>4. ASSUME Tick PROVE Goal
    BY <1>1, <1>4 DEF Tick
<1>5. ASSUME NEW r \in Rule, CaseMoves(r) \/ CaseClosesUntrusted(r)
      PROVE  Goal
    BY <1>1, <1>5 DEF CaseMoves, CaseClosesUntrusted
<1>6. ASSUME NEW p \in Caller, NEW c \in Capability, Present(p, c)
      PROVE  Goal
    BY <1>1, <1>6 DEF Present
<1>7. ASSUME NEW p \in Caller, NEW r \in Rule, ResolveCase(p, r) \/ Compile(p, r)
      PROVE  Goal
    BY <1>1, <1>7 DEF ResolveCase, Compile
<1>8. ASSUME NEW p \in Caller, NEW r \in Rule, Approve(p, r)
      PROVE  Goal
    BY <1>2, <1>8, ApproveRow DEF Approve
<1>9. ASSUME NEW p \in Caller, NEW r \in Rule, Activate(p, r)
      PROVE  Goal
    BY <1>2, <1>9, ActivateRow DEF Activate
<1>10. ASSUME NEW p \in Caller, NEW r \in Rule, NEW expected \in 1..2, NEW replay \in Replay,
              VerifyReplay(p, r, expected, replay)
       PROVE  Goal
    BY <1>1, <1>10 DEF VerifyReplay
<1>11. ASSUME NEW p \in Caller, ImportReplay(p) \/ ReceiveActivation(p) \/ Fails(p)
       PROVE  Goal
    BY <1>1, <1>11 DEF ImportReplay, ReceiveActivation, Fails
<1>12. ASSUME NEW p \in Caller, Add(p)
       PROVE  Goal
    BY <1>2, <1>12, AddRow DEF Add
<1>13. ASSUME NEW p \in Caller, RecordReplay(p)
       PROVE  Goal
    BY <1>2, <1>13, RecordReplayRow DEF RecordReplay
<1>14. ASSUME UNCHANGED vars PROVE Goal
    BY <1>1, <1>14 DEF vars
<1>15. Goal
    BY <1>3, <1>4, <1>5, <1>6, <1>7, <1>8, <1>9, <1>10, <1>11, <1>12, <1>13, <1>14 DEF Next
<1>. QED
    BY <1>15 DEF Goal

-----------------------------------------------------------------------------
(* Every step keeps the types.                                              *)

LEMMA CallTyped ==
    ASSUME TypeOK, NEW p \in Caller, NEW c \in Call, call' = [call EXCEPT ![p] = c]
    PROVE  call' \in [Caller -> Call]
BY DEF TypeOK

LEMMA ReturnTyped ==
    ASSUME TypeOK, NEW p \in Caller, Return(p)
    PROVE  call' \in [Caller -> Call]
BY CallTyped DEF Return, Call

\* The receipt of an activation is one: the row it is for is there.
LEMMA ReceiptTyped ==
    ASSUME TypeOK, CallsKnow, NEW p \in Caller, ReceiveActivation(p)
    PROVE  activations' \subseteq ActivationReceipt
<1>. DEFINE r == call[p].rule
            n == call[p].version
<1>1. call[p] \in ActivatedCall
    BY CallShape DEF ReceiveActivation
<1>2. r \in Rule /\ n \in Nat /\ call[p].registry \in Operator /\ call[p].actor \in Analyst
    BY <1>1 DEF ActivatedCall
<1>3. rules[r] \in Seq(Row)
    BY <1>2 DEF TypeOK
<1>4. n \in 1..Len(rules[r])
    BY <1>3, LenProperties DEF ReceiveActivation, CallsKnow, ActiveAt
<1>5. \A i \in 1..n : rules[r][i] \in Row
  <2>1. SUFFICES ASSUME NEW i \in 1..n PROVE rules[r][i] \in Row
      OBVIOUS
  <2>2. Len(rules[r]) \in Nat
      BY <1>3, LenProperties
  <2>3. i \in 1..Len(rules[r])
      BY <1>2, <1>4, <2>2
  <2>. QED
      BY <1>3, <2>3, ElementOfSeq
<1>6. SubSeq(rules[r], 1, n) \in Seq(Row)
    BY <1>2, <1>5, SubSeqProperties
<1>. DEFINE receipt ==
        [rule |-> r, version |-> n, history |-> SubSeq(rules[r], 1, n),
         registry |-> call[p].registry, by |-> call[p].actor]
<1>7. receipt \in ActivationReceipt
    BY <1>2, <1>6 DEF ActivationReceipt
<1>8. activations' = activations \cup {receipt}
    BY DEF ReceiveActivation
<1>. HIDE DEF receipt
<1>. QED
    BY <1>7, <1>8 DEF TypeOK

LEMMA TypeStep ==
    ASSUME TypeOK, CallsKnow, [Next]_vars
    PROVE  TypeOK'
<1>. DEFINE Typed ==
        /\ clock' \in Nat
        /\ registry' \in Operator \cup {NoOperator}
        /\ bootstrap' \subseteq Operator
        /\ cases' \in [Rule -> Case]
        /\ used' \subseteq Capability
        /\ imported' \in BOOLEAN
        /\ call' \in [Caller -> Call]
        /\ activations' \subseteq ActivationReceipt
<1>1. ASSUME NEW o \in Operator, BootstrapFindsNone(o) \/ BootstrapInserts(o)
      PROVE  Typed
    BY <1>1 DEF BootstrapFindsNone, BootstrapInserts, TypeOK
<1>2. ASSUME Tick
      PROVE  Typed
    BY <1>2 DEF Tick, TypeOK
<1>3. ASSUME NEW r \in Rule, CaseMoves(r)
      PROVE  Typed
  <2>1. cases[r] \in Case
      BY DEF TypeOK
  <2>2. [cases[r] EXCEPT !.version = @ + 1] \in Case
      BY <2>1 DEF Case
  <2>3. cases' \in [Rule -> Case]
      BY <1>3, <2>2 DEF CaseMoves, TypeOK
  <2>. QED
      BY <1>3, <2>3 DEF CaseMoves, TypeOK
<1>4. ASSUME NEW r \in Rule, CaseClosesUntrusted(r)
      PROVE  Typed
  <2>1. cases[r] \in Case
      BY DEF TypeOK
  <2>2. [cases[r] EXCEPT !.resolution = Untrusted] \in Case
      BY <2>1 DEF Case
  <2>3. cases' \in [Rule -> Case]
      BY <1>4, <2>2 DEF CaseClosesUntrusted, TypeOK
  <2>. QED
      BY <1>4, <2>3 DEF CaseClosesUntrusted, TypeOK
<1>5. ASSUME NEW p \in Caller, NEW c \in Capability, Present(p, c)
      PROVE  Typed
  <2>1. Verified(c) \in Call
      BY <1>5 DEF Present, Valid, TypeOK, Verified, Call, VerifiedCall
  <2>. QED
      BY <1>5, <2>1, CallTyped DEF Present, TypeOK
<1>6. ASSUME NEW p \in Caller, NEW r \in Rule, ResolveCase(p, r)
      PROVE  Typed
  <2>1. call[p] \in VerifiedCall
      BY <1>6, CallShape DEF ResolveCase, Presents
  <2>2. call[p].cap \in Capability
      BY <2>1 DEF VerifiedCall
  <2>3. PICK teaches \in BOOLEAN :
            cases' = [cases EXCEPT ![r].resolution = By(call[p].cap, teaches)]
      BY <1>6 DEF ResolveCase
  <2>4. cases[r] \in Case
      BY DEF TypeOK
  <2>5. [cases[r] EXCEPT !.resolution = By(call[p].cap, teaches)] \in Case
      BY <2>2, <2>4 DEF Case
  <2>6. cases' \in [Rule -> Case]
      BY <2>3, <2>5 DEF TypeOK
  <2>. QED
      BY <1>6, <2>2, <2>6, ReturnTyped DEF ResolveCase, Spend, TypeOK
<1>7. ASSUME NEW p \in Caller, ImportReplay(p)
      PROVE  Typed
  <2>1. call[p] \in VerifiedCall
      BY <1>7, CallShape DEF ImportReplay, Presents
  <2>2. call[p].cap \in Capability
      BY <2>1 DEF VerifiedCall
  <2>. QED
      BY <1>7, <2>2, ReturnTyped DEF ImportReplay, Spend, TypeOK
<1>8. ASSUME NEW p \in Caller, NEW r \in Rule, Approve(p, r)
      PROVE  Typed
  <2>1. call[p] \in VerifiedCall
      BY <1>8, CallShape DEF Approve, Presents
  <2>2. call[p].cap \in Capability
      BY <2>1 DEF VerifiedCall
  <2>. QED
      BY <1>8, <2>2, ReturnTyped DEF Approve, Spend, TypeOK
<1>9. ASSUME NEW p \in Caller, NEW r \in Rule, Activate(p, r)
      PROVE  Typed
  <2>1. call[p] \in VerifiedCall
      BY <1>9, CallShape DEF Activate, Presents
  <2>2. call[p].cap \in Capability /\ call[p].registry \in Operator
      BY <2>1 DEF VerifiedCall
  <2>3. call[p].cap.actor \in Analyst /\ Len(rules[r]) \in Nat
      BY <1>9, <2>2, CapabilityShape, LatestIsRow DEF Activate, MayMove
  <2>4. Activated(r, call[p].registry, Len(rules[r]) + 1, call[p].cap.actor) \in Call
      BY <2>2, <2>3 DEF Activated, Call, ActivatedCall
  <2>. QED
      BY <1>9, <2>2, <2>4, CallTyped DEF Activate, Spend, TypeOK
<1>10. ASSUME NEW p \in Caller, ReceiveActivation(p)
       PROVE  Typed
    BY <1>10, ReceiptTyped, ReturnTyped DEF ReceiveActivation, TypeOK
<1>11. ASSUME NEW p \in Caller, NEW r \in Rule, Compile(p, r)
       PROVE  Typed
  <2>1. PICK c \in Capability : call' = [call EXCEPT ![p] = Compiled(r, c.actor)]
      BY <1>11 DEF Compile
  <2>2. Compiled(r, c.actor) \in Call
      BY CapabilityShape DEF Compiled, Call, CompiledCall
  <2>. QED
      BY <1>11, <2>1, <2>2, CallTyped DEF Compile, TypeOK
<1>12. ASSUME NEW p \in Caller, NEW r \in Rule, NEW expected \in 1..2, NEW replay \in Replay,
              VerifyReplay(p, r, expected, replay)
       PROVE  Typed
  <2>1. Replayed(r, expected, replay) \in Call
      BY DEF Replayed, Call, ReplayedCall
  <2>. QED
      BY <1>12, <2>1, CallTyped DEF VerifyReplay, TypeOK
<1>13. ASSUME NEW p \in Caller, Add(p) \/ RecordReplay(p) \/ Fails(p)
       PROVE  Typed
    BY <1>13, ReturnTyped DEF Add, RecordReplay, Fails, TypeOK
<1>14. ASSUME UNCHANGED vars
       PROVE  Typed
    BY <1>14 DEF vars, TypeOK
<1>. HIDE DEF Typed
<1>15. Typed
    BY <1>1, <1>2, <1>3, <1>4, <1>5, <1>6, <1>7, <1>8, <1>9, <1>10, <1>11, <1>12, <1>13, <1>14
    DEF Next
<1>. QED
    BY <1>15, StepKeeps DEF Typed, TypeOK

-----------------------------------------------------------------------------
(* Every step keeps what calls know and what receipts say.                  *)

\* The rows up to a version stay what they are.
LEMMA HistoryStays ==
    ASSUME TypeOK, TypeOK', Kept, NEW r \in Rule, NEW n \in DOMAIN rules[r]
    PROVE  SubSeq(rules'[r], 1, n) = SubSeq(rules[r], 1, n)
<1>1. /\ rules[r] \in Seq(Row) /\ Len(rules[r]) \in Nat /\ n \in 1..Len(rules[r])
      /\ rules'[r] \in Seq(Row) /\ Len(rules'[r]) \in Nat /\ n \in 1..Len(rules'[r])
    BY LenProperties DEF TypeOK, Kept
<1>2. \A i \in 1..n : /\ rules'[r][i] = rules[r][i]
                      /\ i \in 1..Len(rules[r]) /\ i \in 1..Len(rules'[r])
    BY <1>1 DEF Kept
<1>3. \A i \in 1..n : rules[r][i] \in Row /\ rules'[r][i] \in Row
    BY <1>1, <1>2, ElementOfSeq
<1>4. /\ SubSeq(rules[r], 1, n) \in Seq(Row) /\ Len(SubSeq(rules[r], 1, n)) = n
      /\ \A i \in 1..n : SubSeq(rules[r], 1, n)[i] = rules[r][i]
    BY <1>1, <1>3, SubSeqProperties
<1>5. /\ SubSeq(rules'[r], 1, n) \in Seq(Row) /\ Len(SubSeq(rules'[r], 1, n)) = n
      /\ \A i \in 1..n : SubSeq(rules'[r], 1, n)[i] = rules'[r][i]
    BY <1>1, <1>3, SubSeqProperties
<1>. QED
    BY <1>2, <1>4, <1>5, SeqEqual

\* What call p knows.
Knows(p) ==
    /\ InCall(p, "verified") \/ InCall(p, "activated") => call[p].registry = registry
    /\ InCall(p, "activated") => ActiveAt(call[p].rule, call[p].version, call[p].actor)

LEMMA KnowsStays ==
    ASSUME TypeOK, TypeOK', Kept, NEW p \in Caller, Knows(p), call'[p] = call[p]
    PROVE  Knows(p)'
<1>1. ASSUME InCall(p, "verified") \/ InCall(p, "activated")
      PROVE  registry' = registry
  <2>1. call[p].registry \in Operator
      BY <1>1, CallShape DEF VerifiedCall, ActivatedCall
  <2>. QED
      BY <1>1, <2>1, RuleConstants DEF Knows, Kept, RuleConstants
<1>2. ASSUME InCall(p, "activated")
      PROVE  ActiveAt(call[p].rule, call[p].version, call[p].actor)'
  <2>1. call[p].rule \in Rule
      BY <1>2, CallShape DEF ActivatedCall
  <2>. DEFINE r == call[p].rule
              n == call[p].version
              actor == call[p].actor
  <2>2. ActiveAt(r, n, actor)
      BY <1>2 DEF Knows
  <2>3. /\ n \in DOMAIN rules'[r]
        /\ rules'[r][n].status = "ACTIVE"
        /\ rules'[r][n].activated_by = actor
    <3>. HIDE DEF r, n, actor
    <3>1. r \in Rule
        BY <2>1 DEF r
    <3>2. /\ DOMAIN rules[r] = 1..Len(rules[r]) /\ Len(rules[r]) \in Nat
          /\ DOMAIN rules'[r] = 1..Len(rules'[r]) /\ Len(rules'[r]) \in Nat
        BY <3>1, LenProperties DEF TypeOK
    <3>. QED
        BY <2>2, <3>1, <3>2 DEF ActiveAt, Kept
  <2>. QED
      BY <2>3 DEF ActiveAt
<1>. QED
    BY <1>1, <1>2 DEF Knows, InCall

\* A step that brings call q where nothing need be known, or leaves the calls.
LEMMA KnowsLess ==
    ASSUME TypeOK, TypeOK', Kept, CallsKnow, NEW q \in Caller,
           \A p \in Caller \ {q} : call'[p] = call[p],
           \/ call'[q] = call[q]
           \/ call'[q].at \notin {"verified", "activated"}
    PROVE  CallsKnow'
<1>1. ASSUME NEW p \in Caller
      PROVE  Knows(p)'
  <2>1. CASE call'[p] = call[p]
      BY <2>1, KnowsStays DEF CallsKnow, Knows
  <2>2. CASE call'[p].at \notin {"verified", "activated"}
      BY <2>2 DEF Knows, InCall
  <2>. QED
      BY <2>1, <2>2
<1>. QED
    BY <1>1 DEF CallsKnow, Knows

LEMMA PresentKnows ==
    ASSUME TypeOK, TypeOK', Kept, CallsKnow,
           NEW q \in Caller, NEW c \in Capability, Present(q, c)
    PROVE  CallsKnow'
<1>1. ASSUME NEW p \in Caller
      PROVE  Knows(p)'
  <2>1. CASE p # q
    <3>1. call'[p] = call[p]
        BY <2>1 DEF Present, TypeOK
    <3>. QED
        BY <3>1, KnowsStays DEF CallsKnow, Knows
  <2>2. CASE p = q
    <3>1. call'[p] = [at |-> "verified", cap |-> c, registry |-> registry]
        BY <2>2 DEF Present, Verified, TypeOK
    <3>2. registry' = registry
        BY DEF Present
    <3>. QED
        BY <3>1, <3>2 DEF Knows, InCall
  <2>. QED
      BY <2>1, <2>2
<1>. QED
    BY <1>1 DEF CallsKnow, Knows

LEMMA ActivateKnows ==
    ASSUME TypeOK, TypeOK', Kept, CallsKnow,
           NEW q \in Caller, NEW r \in Rule, Activate(q, r)
    PROVE  CallsKnow'
<1>1. ASSUME NEW p \in Caller, p # q
      PROVE  Knows(p)'
  <2>1. call'[p] = call[p]
      BY <1>1 DEF Activate, TypeOK
  <2>. QED
      BY <1>1, <2>1, KnowsStays DEF CallsKnow, Knows
<1>2. Knows(q)'
  <2>1. call'[q] = [at |-> "activated", rule |-> r, registry |-> call[q].registry,
                    version |-> Len(rules[r]) + 1, actor |-> call[q].cap.actor]
      BY DEF Activate, Activated, TypeOK
  <2>2. call[q].registry = registry /\ registry' = registry
      BY DEF Activate, Presents, CallsKnow
  <2>3. PICK row \in Row : /\ row.status = "ACTIVE"
                           /\ row.activated_by = call[q].cap.actor
                           /\ Appends(r, row)
      BY ActivateRow
  <2>4. rules[r] \in Seq(Row) /\ Len(rules[r]) \in Nat /\ rules'[r] = Append(rules[r], row)
      BY <2>3, LenProperties DEF TypeOK, Appends
  <2>5. /\ Len(rules'[r]) = Len(rules[r]) + 1
        /\ rules'[r][Len(rules[r]) + 1] = row
        /\ DOMAIN rules'[r] = 1..Len(rules'[r])
      BY <2>4, AppendProperties, LenProperties DEF TypeOK
  <2>6. /\ Len(rules[r]) + 1 \in DOMAIN rules'[r]
        /\ rules'[r][Len(rules[r]) + 1].status = "ACTIVE"
        /\ rules'[r][Len(rules[r]) + 1].activated_by = call[q].cap.actor
      BY <2>3, <2>4, <2>5
  <2>7. /\ call'[q].version \in DOMAIN rules'[call'[q].rule]
        /\ rules'[call'[q].rule][call'[q].version].status = "ACTIVE"
        /\ rules'[call'[q].rule][call'[q].version].activated_by = call'[q].actor
      BY <2>1, <2>6
  <2>. QED
      BY <2>1, <2>2, <2>7 DEF Knows, ActiveAt
<1>. QED
    BY <1>1, <1>2 DEF CallsKnow, Knows

LEMMA KnowsStep ==
    ASSUME TypeOK, TypeOK', Kept, CallsKnow, [Next]_vars
    PROVE  CallsKnow'
<1>. DEFINE Less(q) ==
        /\ \A p \in Caller \ {q} : call'[p] = call[p]
        /\ call'[q] = call[q] \/ call'[q].at \notin {"verified", "activated"}
<1>1. ASSUME NEW q \in Caller, Return(q)
      PROVE  Less(q)
    BY <1>1 DEF Return, Idle, TypeOK
<1>2. ASSUME NEW q \in Caller, NEW r \in Rule, Compile(q, r)
      PROVE  Less(q)
    BY <1>2 DEF Compile, Compiled, TypeOK
<1>3. ASSUME NEW q \in Caller, NEW r \in Rule, NEW expected \in 1..2, NEW replay \in Replay,
             VerifyReplay(q, r, expected, replay)
      PROVE  Less(q)
    BY <1>3 DEF VerifyReplay, Replayed, TypeOK
<1>4. ASSUME NEW q \in Caller, Less(q)
      PROVE  CallsKnow'
    BY <1>4, KnowsLess
<1>5. ASSUME call' = call
      PROVE  CallsKnow'
  <2>1. ASSUME NEW p \in Caller
        PROVE  Knows(p)'
      BY <1>5, <2>1, KnowsStays DEF CallsKnow, Knows
  <2>. QED
      BY <2>1 DEF CallsKnow, Knows
<1>. HIDE DEF Less
<1>6. ASSUME NEW o \in Operator, BootstrapFindsNone(o) \/ BootstrapInserts(o)
      PROVE  CallsKnow'
    BY <1>5, <1>6 DEF BootstrapFindsNone, BootstrapInserts
<1>7. ASSUME Tick
      PROVE  CallsKnow'
    BY <1>5, <1>7 DEF Tick
<1>8. ASSUME NEW r \in Rule, CaseMoves(r) \/ CaseClosesUntrusted(r)
      PROVE  CallsKnow'
    BY <1>5, <1>8 DEF CaseMoves, CaseClosesUntrusted
<1>9. ASSUME UNCHANGED vars
      PROVE  CallsKnow'
    BY <1>5, <1>9 DEF vars
<1>10. ASSUME NEW q \in Caller, NEW r \in Rule, ResolveCase(q, r) \/ Approve(q, r)
       PROVE  CallsKnow'
    BY <1>1, <1>4, <1>10 DEF ResolveCase, Approve
<1>11. ASSUME NEW q \in Caller,
              \/ ImportReplay(q) \/ ReceiveActivation(q) \/ Add(q)
              \/ RecordReplay(q) \/ Fails(q)
       PROVE  CallsKnow'
    BY <1>1, <1>4, <1>11 DEF ImportReplay, ReceiveActivation, Add, RecordReplay, Fails
<1>. QED
    BY <1>2, <1>3, <1>4, <1>6, <1>7, <1>8, <1>9, <1>10, <1>11, PresentKnows, ActivateKnows DEF Next

\* A receipt that is valid stays valid.
LEMMA ReceiptStays ==
    ASSUME TypeOK, TypeOK', Kept, NEW receipt \in activations, ValidatesActivation(receipt)
    PROVE  ValidatesActivation(receipt)'
<1>. DEFINE r == receipt.rule
            n == receipt.version
<1>1. receipt \in ActivationReceipt
    BY DEF TypeOK
<1>2. r \in Rule /\ receipt.registry \in Operator
    BY <1>1 DEF ActivationReceipt
<1>3. registry' = registry
    BY <1>2, RuleConstants DEF ValidatesActivation, Kept, RuleConstants
<1>4. /\ DOMAIN rules[r] = 1..Len(rules[r]) /\ Len(rules[r]) \in Nat
      /\ DOMAIN rules'[r] = 1..Len(rules'[r]) /\ Len(rules'[r]) \in Nat
    BY <1>2, LenProperties DEF TypeOK
<1>5. n \in DOMAIN rules[r]
    BY DEF ValidatesActivation
<1>6. n \in DOMAIN rules'[r] /\ rules'[r][n] = rules[r][n]
    BY <1>2, <1>4, <1>5 DEF Kept
<1>7. SubSeq(rules'[r], 1, n) = SubSeq(rules[r], 1, n)
    BY <1>2, <1>5, HistoryStays
<1>. QED
    BY <1>3, <1>6, <1>7 DEF ValidatesActivation

\* A receipt is valid as it is handed out.
LEMMA NewReceiptValid ==
    ASSUME TypeOK, CallsKnow, NEW p \in Caller, ReceiveActivation(p),
           NEW receipt \in activations' \ activations
    PROVE  ValidatesActivation(receipt)'
<1>1. receipt = [rule |-> call[p].rule, version |-> call[p].version,
                 history |-> SubSeq(rules[call[p].rule], 1, call[p].version),
                 registry |-> call[p].registry, by |-> call[p].actor]
    BY DEF ReceiveActivation
<1>2. /\ call[p].registry = registry
      /\ ActiveAt(call[p].rule, call[p].version, call[p].actor)
    BY DEF ReceiveActivation, CallsKnow
<1>3. rules' = rules /\ registry' = registry
    BY DEF ReceiveActivation
<1>. QED
    BY <1>1, <1>2, <1>3 DEF ValidatesActivation, ActiveAt

LEMMA ReceiptsStep ==
    ASSUME TypeOK, TypeOK', Kept, CallsKnow, ReceiptsStayValid, [Next]_vars
    PROVE  ReceiptsStayValid'
<1>1. SUFFICES ASSUME NEW receipt \in activations'
               PROVE  ValidatesActivation(receipt)'
    BY DEF ReceiptsStayValid
<1>2. CASE receipt \in activations
    BY <1>2, ReceiptStays DEF ReceiptsStayValid
<1>3. CASE receipt \notin activations
  <2>1. activations' # activations
      BY <1>3
  <2>2. PICK p \in Caller : ReceiveActivation(p)
      BY <2>1 DEF Next, vars, BootstrapFindsNone, BootstrapInserts, Tick, CaseMoves,
         CaseClosesUntrusted, Present, ResolveCase, Approve, Activate, Compile, VerifyReplay,
         ImportReplay, Add, RecordReplay, Fails
  <2>. QED
      BY <1>3, <2>2, NewReceiptValid
<1>. QED
    BY <1>2, <1>3

LEMMA InvStep ==
    ASSUME RuleInv, [Next]_vars
    PROVE  RuleInv'
<1>1. TypeOK'
    BY TypeStep DEF RuleInv
<1>2. Kept
    BY StepKeeps DEF RuleInv
<1>. QED
    BY <1>1, <1>2, KnowsStep, ReceiptsStep DEF RuleInv

LEMMA SpecInv == Spec => []RuleInv
BY InitInv, InvStep, PTL DEF Spec

(***************************************************************************)
(* An activation receipt is good for ever: validate_activation accepts it  *)
(* whatever operators, callers and kills come after, for any number of     *)
(* rules, callers, operators and capabilities.                             *)
(***************************************************************************)
THEOREM ReceiptsAreForEver == Spec => [](TypeOK /\ ReceiptsStayValid)
<1>1. RuleInv => TypeOK /\ ReceiptsStayValid
    BY DEF RuleInv
<1>. QED
    BY <1>1, SpecInv, PTL

(***************************************************************************)
(* No transaction commits on a capability that expired or that the         *)
(* registry in force does not grant, however long before it was verified.  *)
(***************************************************************************)
THEOREM SpendingIsCurrent == Spec => SpentWhileValid
<1>1. ASSUME [Next]_vars
      PROVE  [\A c \in used' \ used : Valid(c)]_vars
  <2>1. ASSUME NEW c \in used' \ used
        PROVE  Valid(c)
    <3>1. PICK p \in Caller : Spend(p)
        BY <1>1, <2>1 DEF Next, vars, BootstrapFindsNone, BootstrapInserts, Tick, CaseMoves,
           CaseClosesUntrusted, Present, ResolveCase, Approve, Activate, Compile,
           VerifyReplay, ImportReplay, Add, RecordReplay, ReceiveActivation, Fails
    <3>. QED
        BY <2>1, <3>1 DEF Spend, Consumable
  <2>. QED
      BY <2>1
<1>. QED
    BY <1>1, PTL DEF Spec, SpentWhileValid

-----------------------------------------------------------------------------
(* The store implements RuleHistory.                                        *)

LEMMA StatusesOfRows ==
    ASSUME NEW rows \in Seq(Row)
    PROVE  /\ Statuses(rows) \in Seq(RuleStatus)
           /\ Len(Statuses(rows)) = Len(rows)
           /\ \A i \in 1..Len(rows) : Statuses(rows)[i] = rows[i].status
<1>1. Len(rows) \in Nat /\ DOMAIN rows = 1..Len(rows)
    BY LenProperties
<1>2. \A i \in 1..Len(rows) : rows[i].status \in RuleStatus
    BY ElementOfSeq DEF Row
<1>3. Statuses(rows) \in [1..Len(rows) -> RuleStatus]
    BY <1>1, <1>2 DEF Statuses
<1>4. Statuses(rows) \in Seq(RuleStatus)
    BY <1>1, <1>3, SeqDef
<1>5. Len(Statuses(rows)) = Len(rows)
    BY <1>1, <1>3, <1>4, LenProperties
<1>. QED
    BY <1>1, <1>4, <1>5 DEF Statuses

LEMMA StatusesAppend ==
    ASSUME NEW rows \in Seq(Row), NEW row \in Row
    PROVE  Statuses(Append(rows, row)) = Append(Statuses(rows), row.status)
<1>. DEFINE s == Statuses(Append(rows, row))
            t == Append(Statuses(rows), row.status)
<1>1. row.status \in RuleStatus
    BY DEF Row
<1>2. /\ Append(rows, row) \in Seq(Row)
      /\ Len(Append(rows, row)) = Len(rows) + 1
      /\ \A i \in 1..Len(rows) : Append(rows, row)[i] = rows[i]
      /\ Append(rows, row)[Len(rows) + 1] = row
    BY AppendProperties
<1>3. /\ s \in Seq(RuleStatus) /\ Len(s) = Len(rows) + 1
      /\ \A i \in 1..Len(rows) + 1 : s[i] = Append(rows, row)[i].status
    BY <1>2, StatusesOfRows
<1>4. /\ Statuses(rows) \in Seq(RuleStatus) /\ Len(Statuses(rows)) = Len(rows)
      /\ \A i \in 1..Len(rows) : Statuses(rows)[i] = rows[i].status
    BY StatusesOfRows
<1>5. /\ t \in Seq(RuleStatus) /\ Len(t) = Len(rows) + 1
      /\ \A i \in 1..Len(rows) : t[i] = Statuses(rows)[i]
      /\ t[Len(rows) + 1] = row.status
    BY <1>1, <1>4, AppendProperties
<1>6. Len(rows) \in Nat
    BY LenProperties
<1>7. \A i \in 1..Len(s) : s[i] = t[i]
    BY <1>2, <1>3, <1>4, <1>5, <1>6
<1>. HIDE DEF s, t
<1>8. s = t
    BY <1>3, <1>5, <1>7, SeqEqual
<1>. QED
    BY <1>8 DEF s, t

\* A row appended here is a status appended there.
LEMMA AppendsBecomes ==
    ASSUME TypeOK, NEW r \in Rule, NEW row \in Row, Appends(r, row)
    PROVE  History!Becomes(r, row.status)
<1>1. rules \in [Rule -> Seq(Row)] /\ rules' = [rules EXCEPT ![r] = Append(rules[r], row)]
    BY DEF TypeOK, Appends
<1>2. Statuses(Append(rules[r], row)) = Append(Statuses(rules[r]), row.status)
    BY <1>1, StatusesAppend
<1>3. [q \in Rule |-> Statuses(rules'[q])]
        = [[q \in Rule |-> Statuses(rules[q])] EXCEPT ![r] = Append(Statuses(rules[r]), row.status)]
    BY <1>1, <1>2
<1>. QED
    BY <1>3 DEF History!Becomes

\* The latest row is the last status.
LEMMA LatestIsLast ==
    ASSUME TypeOK, NEW r \in Rule
    PROVE  /\ rules[r] = <<>> => History!StatusOf(r) = ""
           /\ rules[r] # <<>> => History!StatusOf(r) = Latest(r).status
           /\ Len(Statuses(rules[r])) = Len(rules[r])
<1>1. rules[r] \in Seq(Row) /\ Len(rules[r]) \in Nat
    BY LenProperties DEF TypeOK
<1>2. /\ Statuses(rules[r]) \in Seq(RuleStatus)
      /\ Len(Statuses(rules[r])) = Len(rules[r])
      /\ \A i \in 1..Len(rules[r]) : Statuses(rules[r])[i] = rules[r][i].status
    BY <1>1, StatusesOfRows
<1>3. rules[r] = <<>> <=> Len(rules[r]) = 0
    BY <1>1, EmptySeq
<1>4. Statuses(rules[r]) = <<>> <=> Len(rules[r]) = 0
    BY <1>2, EmptySeq
<1>5. History!StatusOf(r) =
        IF Statuses(rules[r]) = <<>> THEN "" ELSE Statuses(rules[r])[Len(Statuses(rules[r]))]
    BY DEF History!StatusOf
<1>6. CASE Len(rules[r]) = 0
    BY <1>2, <1>3, <1>4, <1>5, <1>6
<1>7. CASE Len(rules[r]) # 0
  <2>1. Len(rules[r]) \in 1..Len(rules[r])
      BY <1>1, <1>7
  <2>2. Statuses(rules[r])[Len(rules[r])] = rules[r][Len(rules[r])].status
      BY <1>2, <2>1
  <2>. QED
      BY <1>2, <1>3, <1>4, <1>5, <1>7, <2>2 DEF Latest
<1>. QED
    BY <1>6, <1>7

LEMMA HistoryInit == Init => History!Init
<1>1. Statuses(<<>>) = <<>>
    BY DEF Statuses
<1>. QED
    BY <1>1 DEF Init, History!Init

\* A human step on a rule, here and there.
LEMMA HumanStepMaps ==
    ASSUME TypeOK, NEW p \in Caller, NEW r \in Rule, NEW action,
           NEW required \in RuleStatus, NEW target,
           Presents(p, action, r, Len(rules[r])), Spend(p),
           rules[r] # <<>>, Latest(r).status = required,
           NEW row \in Row, row.status = target, Appends(r, row)
    PROVE  History!HumanStep(r, action, required, target)
<1>1. call[p] \in VerifiedCall
    BY CallShape DEF Presents
<1>2. call[p].cap \in Capability \ used
    BY <1>1 DEF VerifiedCall, Spend, Consumable
<1>3. History!Becomes(r, target)
    BY AppendsBecomes
<1>4. History!StatusOf(r) = required
    BY LatestIsLast
<1>5. [q \in Rule |-> Statuses(rules[q])][r] = Statuses(rules[r])
    OBVIOUS
<1>6. /\ call[p].cap.action = action /\ call[p].cap.subject = r
      /\ call[p].cap.version = Len([q \in Rule |-> Statuses(rules[q])][r])
    BY <1>5, LatestIsLast DEF Presents
<1>7. \E c \in Capability \ used :
        /\ c.action = action
        /\ c.subject = r
        /\ c.version = Len([q \in Rule |-> Statuses(rules[q])][r])
        /\ used' = used \cup {c}
    BY <1>2, <1>6 DEF Spend
<1>. QED
    BY <1>3, <1>4, <1>7 DEF History!HumanStep

LEMMA ElsewhereMaps ==
    ASSUME TypeOK, NEW p \in Caller,
           ImportReplay(p) \/ \E r \in Rule : ResolveCase(p, r)
    PROVE  History!HumanStepElsewhere
<1>1. call[p] \in VerifiedCall
    BY CallShape DEF ResolveCase, ImportReplay, Presents
<1>2. /\ call[p].cap \in Capability \ used
      /\ call[p].cap.action \in {"RESOLVE", "IMPORT_REPLAY"}
      /\ used' = used \cup {call[p].cap}
      /\ rules' = rules
    BY <1>1 DEF VerifiedCall, ResolveCase, ImportReplay, Presents, Spend, Consumable
<1>. QED
    BY <1>2 DEF History!HumanStepElsewhere

LEMMA HistoryStep ==
    ASSUME TypeOK, [Next]_vars
    PROVE  [History!Next]_(History!vars)
<1>. DEFINE Maps == [History!Next]_(History!vars)
<1>1. ASSUME rules' = rules, used' = used
      PROVE  Maps
    BY <1>1 DEF History!vars
<1>2. ASSUME NEW p \in Caller, Add(p)
      PROVE  Maps
  <2>. DEFINE r == call[p].rule
  <2>1. PICK row \in Row : row.status = "PROPOSED" /\ Appends(r, row)
      BY <1>2, AddRow
  <2>2. r \in Rule
      BY <1>2, AddRow
  <2>3. History!Becomes(r, "PROPOSED")
      BY <2>1, <2>2, AppendsBecomes
  <2>4. History!StatusOf(r) = ""
      BY <1>2, <2>2, LatestIsLast DEF Add
  <2>5. History!Propose(r)
      BY <1>2, <2>3, <2>4 DEF History!Propose, Add
  <2>. QED
      BY <2>2, <2>5 DEF History!Next
<1>3. ASSUME NEW p \in Caller, RecordReplay(p)
      PROVE  Maps
  <2>. DEFINE r == call[p].rule
  <2>1. PICK row \in Row : row.status \in {"REPLAY_PASSED", "REJECTED"} /\ Appends(r, row)
      BY <1>3, RecordReplayRow
  <2>2. r \in Rule
      BY <1>3, RecordReplayRow
  <2>3. History!Becomes(r, "REPLAY_PASSED") \/ History!Becomes(r, "REJECTED")
      BY <2>1, <2>2, AppendsBecomes
  <2>4. History!StatusOf(r) = "PROPOSED"
      BY <1>3, <2>2, LatestIsLast DEF RecordReplay, MayMove
  <2>5. History!Replay(r)
      BY <1>3, <2>3, <2>4 DEF History!Replay, RecordReplay
  <2>. QED
      BY <2>2, <2>5 DEF History!Next
<1>4. ASSUME NEW p \in Caller, NEW r \in Rule, Approve(p, r)
      PROVE  Maps
  <2>1. PICK row \in Row : row.status = "APPROVED" /\ Appends(r, row)
      BY <1>4, ApproveRow
  <2>2. /\ Presents(p, "APPROVE", r, Len(rules[r])) /\ Spend(p)
        /\ rules[r] # <<>> /\ Latest(r).status = "REPLAY_PASSED"
      BY <1>4 DEF Approve, MayMove
  <2>3. History!HumanStep(r, "APPROVE", "REPLAY_PASSED", "APPROVED")
      BY <2>1, <2>2, HumanStepMaps DEF RuleStatus
  <2>. QED
      BY <2>3 DEF History!Next
<1>5. ASSUME NEW p \in Caller, NEW r \in Rule, Activate(p, r)
      PROVE  Maps
  <2>1. PICK row \in Row : row.status = "ACTIVE" /\ Appends(r, row)
      BY <1>5, ActivateRow
  <2>2. /\ Presents(p, "ACTIVATE", r, Len(rules[r])) /\ Spend(p)
        /\ rules[r] # <<>> /\ Latest(r).status = "APPROVED"
      BY <1>5 DEF Activate, MayMove
  <2>3. History!HumanStep(r, "ACTIVATE", "APPROVED", "ACTIVE")
      BY <2>1, <2>2, HumanStepMaps DEF RuleStatus
  <2>. QED
      BY <2>3 DEF History!Next
<1>6. ASSUME NEW p \in Caller, ImportReplay(p) \/ \E r \in Rule : ResolveCase(p, r)
      PROVE  Maps
    BY <1>6, ElsewhereMaps DEF History!Next
<1>. HIDE DEF Maps
<1>7. ASSUME NEW o \in Operator, BootstrapFindsNone(o) \/ BootstrapInserts(o)
      PROVE  Maps
    BY <1>1, <1>7 DEF BootstrapFindsNone, BootstrapInserts
<1>8. ASSUME Tick \/ UNCHANGED vars
      PROVE  Maps
    BY <1>1, <1>8 DEF Tick, vars
<1>9. ASSUME NEW r \in Rule, CaseMoves(r) \/ CaseClosesUntrusted(r)
      PROVE  Maps
    BY <1>1, <1>9 DEF CaseMoves, CaseClosesUntrusted
<1>10. ASSUME NEW p \in Caller, NEW c \in Capability, Present(p, c)
       PROVE  Maps
    BY <1>1, <1>10 DEF Present
<1>11. ASSUME NEW p \in Caller, NEW r \in Rule, Compile(p, r)
       PROVE  Maps
    BY <1>1, <1>11 DEF Compile
<1>12. ASSUME NEW p \in Caller, NEW r \in Rule, NEW expected \in 1..2, NEW replay \in Replay,
              VerifyReplay(p, r, expected, replay)
       PROVE  Maps
    BY <1>1, <1>12 DEF VerifyReplay
<1>13. ASSUME NEW p \in Caller, ReceiveActivation(p) \/ Fails(p)
       PROVE  Maps
    BY <1>1, <1>13 DEF ReceiveActivation, Fails
<1>14. Maps
    BY <1>2, <1>3, <1>4, <1>5, <1>6, <1>7, <1>8, <1>9, <1>10, <1>11, <1>12, <1>13 DEF Next
<1>. QED
    BY <1>14 DEF Maps

(***************************************************************************)
(* Seen through the statuses of its rows and the capabilities it recorded, *)
(* the store is a RuleHistory: no rule skips or repeats a status, and each *)
(* human step spends a capability for that rule at that version.           *)
(***************************************************************************)
THEOREM StoreImplementsHistory == Spec => ImplementsRuleHistory
<1>1. Init => History!Init
    BY HistoryInit
<1>2. ASSUME RuleInv, [Next]_vars
      PROVE  [History!Next]_(History!vars)
    BY <1>2, HistoryStep DEF RuleInv
<1>. QED
    BY <1>1, <1>2, SpecInv, PTL DEF Spec, ImplementsRuleHistory, History!Spec

-----------------------------------------------------------------------------
(* What was spent.                                                          *)

Spent == used \ UsedFor("IMPORT_REPLAY")
Steps == Resolutions \cup Approvals \cup Activations

SignedStep(r, i, row) ==
    [action |-> IF row.status = "APPROVED" THEN "APPROVE" ELSE "ACTIVATE",
     subject |-> r, version |-> i - 1,
     actor |-> IF row.status = "APPROVED" THEN row.approver ELSE row.activated_by]

\* x is a step on a rule that `table` has, or a resolution that `cs` has.
SignedIn(table, x) ==
    \E r \in Rule : \E i \in 1..Len(table[r]) :
        /\ table[r][i].status \in {"APPROVED", "ACTIVE"}
        /\ x = SignedStep(r, i, table[r][i])

ResolvedIn(cs, x) ==
    \E r \in Rule :
        /\ cs[r].resolution.by = "human"
        /\ x = [action |-> "RESOLVE", subject |-> r, version |-> cs[r].version,
                actor |-> cs[r].resolution.cap.actor]

\* Every step has the one capability it was spent on.
Accounts ==
    /\ IsFiniteSet(used)
    /\ \A c \in Spent : Scope(c) \in Steps
    /\ \A x \in Steps : \E c \in Spent : x = Scope(c)
    /\ \A c, d \in Spent : Scope(c) = Scope(d) => c = d
    /\ imported => \E c : UsedFor("IMPORT_REPLAY") = {c}
    /\ ~imported => UsedFor("IMPORT_REPLAY") = {}

\* Approvals and activations, in any table of rules.
RowsIn(table, status) ==
    UNION {{<<r, i>> : i \in {j \in DOMAIN table[r] : table[r][j].status = status}} : r \in Rule}
ApprovalsIn(table) ==
    {[action |-> "APPROVE", subject |-> row[1], version |-> row[2] - 1,
      actor |-> table[row[1]][row[2]].approver] : row \in RowsIn(table, "APPROVED")}
ActivationsIn(table) ==
    {[action |-> "ACTIVATE", subject |-> row[1], version |-> row[2] - 1,
      actor |-> table[row[1]][row[2]].activated_by] : row \in RowsIn(table, "ACTIVE")}

LEMMA SignedRowsAre ==
    ASSUME NEW table \in [Rule -> Seq(Row)], NEW x
    PROVE  x \in ApprovalsIn(table) \/ x \in ActivationsIn(table) <=> SignedIn(table, x)
<1>1. \A r \in Rule : DOMAIN table[r] = 1..Len(table[r])
    BY LenProperties
<1>2. ASSUME NEW status, NEW row
      PROVE  row \in RowsIn(table, status) <=>
                \E r \in Rule : \E i \in 1..Len(table[r]) :
                    table[r][i].status = status /\ row = <<r, i>>
    BY <1>1 DEF RowsIn
<1>3. x \in ApprovalsIn(table) <=>
        \E r \in Rule : \E i \in 1..Len(table[r]) :
            table[r][i].status = "APPROVED" /\ x = SignedStep(r, i, table[r][i])
  <2>. DEFINE At(r, i) == table[r][i].status = "APPROVED" /\ x = SignedStep(r, i, table[r][i])
  <2>1. ASSUME x \in ApprovalsIn(table)
        PROVE  \E r \in Rule : \E i \in 1..Len(table[r]) : At(r, i)
    <3>1. PICK row \in RowsIn(table, "APPROVED") :
              x = [action |-> "APPROVE", subject |-> row[1], version |-> row[2] - 1,
                   actor |-> table[row[1]][row[2]].approver]
        BY <2>1 DEF ApprovalsIn
    <3>2. PICK r \in Rule : \E i \in 1..Len(table[r]) :
              table[r][i].status = "APPROVED" /\ row = <<r, i>>
        BY <1>2
    <3>3. PICK i \in 1..Len(table[r]) : table[r][i].status = "APPROVED" /\ row = <<r, i>>
        BY <3>2
    <3>4. At(r, i)
        BY <3>1, <3>3 DEF SignedStep
    <3>. QED
        BY <3>4
  <2>2. ASSUME NEW r \in Rule, NEW i \in 1..Len(table[r]), At(r, i)
        PROVE  x \in ApprovalsIn(table)
    <3>1. <<r, i>> \in RowsIn(table, "APPROVED")
        BY <1>2, <2>2
    <3>. QED
        BY <2>2, <3>1 DEF SignedStep, ApprovalsIn
  <2>. QED
      BY <2>1, <2>2
<1>4. x \in ActivationsIn(table) <=>
        \E r \in Rule : \E i \in 1..Len(table[r]) :
            table[r][i].status = "ACTIVE" /\ x = SignedStep(r, i, table[r][i])
  <2>. DEFINE At(r, i) == table[r][i].status = "ACTIVE" /\ x = SignedStep(r, i, table[r][i])
  <2>1. ASSUME x \in ActivationsIn(table)
        PROVE  \E r \in Rule : \E i \in 1..Len(table[r]) : At(r, i)
    <3>1. PICK row \in RowsIn(table, "ACTIVE") :
              x = [action |-> "ACTIVATE", subject |-> row[1], version |-> row[2] - 1,
                   actor |-> table[row[1]][row[2]].activated_by]
        BY <2>1 DEF ActivationsIn
    <3>2. PICK r \in Rule : \E i \in 1..Len(table[r]) :
              table[r][i].status = "ACTIVE" /\ row = <<r, i>>
        BY <1>2
    <3>3. PICK i \in 1..Len(table[r]) : table[r][i].status = "ACTIVE" /\ row = <<r, i>>
        BY <3>2
    <3>4. At(r, i)
        BY <3>1, <3>3 DEF SignedStep
    <3>. QED
        BY <3>4
  <2>2. ASSUME NEW r \in Rule, NEW i \in 1..Len(table[r]), At(r, i)
        PROVE  x \in ActivationsIn(table)
    <3>1. <<r, i>> \in RowsIn(table, "ACTIVE")
        BY <1>2, <2>2
    <3>. QED
        BY <2>2, <3>1 DEF SignedStep, ActivationsIn
  <2>. QED
      BY <2>1, <2>2
<1>. QED
    BY <1>3, <1>4 DEF SignedIn

LEMMA StepsAre ==
    ASSUME TypeOK, TypeOK', NEW x
    PROVE  /\ x \in Steps <=> ResolvedIn(cases, x) \/ SignedIn(rules, x)
           /\ x \in Steps' <=> ResolvedIn(cases', x) \/ SignedIn(rules', x)
<1>1. /\ x \in Resolutions <=> ResolvedIn(cases, x)
      /\ x \in Resolutions' <=> ResolvedIn(cases', x)
    BY DEF Resolutions, ResolvedIn
<1>2. /\ Approvals = ApprovalsIn(rules) /\ Activations = ActivationsIn(rules)
      /\ Approvals' = ApprovalsIn(rules') /\ Activations' = ActivationsIn(rules')
    BY DEF Approvals, Activations, RowsWith, ApprovalsIn, ActivationsIn, RowsIn
<1>3. rules \in [Rule -> Seq(Row)] /\ rules' \in [Rule -> Seq(Row)]
    BY DEF TypeOK
<1>. QED
    BY <1>1, <1>2, <1>3, SignedRowsAre DEF Steps

\* Nothing is spent and nothing done, or one capability on the step it names, or
\* the one that imports.
LEMMA QuietAccounts ==
    ASSUME Accounts, used' = used, imported' = imported, \A x : x \in Steps' <=> x \in Steps
    PROVE  Accounts'
BY DEF Accounts, Spent, UsedFor

LEMMA SpendAccounts ==
    ASSUME Accounts, imported' = imported, NEW c, c \notin used, used' = used \cup {c},
           c.action # "IMPORT_REPLAY", Scope(c) \notin Steps,
           \A x : x \in Steps' <=> x \in Steps \/ x = Scope(c)
    PROVE  Accounts'
<1>1. IsFiniteSet(used')
    BY FS_AddElement DEF Accounts
<1>2. UsedFor("IMPORT_REPLAY")' = UsedFor("IMPORT_REPLAY")
    BY DEF UsedFor
<1>3. Spent' = Spent \cup {c}
    BY <1>2 DEF Spent, UsedFor
<1>4. \A x \in Steps' : \E d \in Spent' : x = Scope(d)
    BY <1>3 DEF Accounts
<1>5. \A d, e \in Spent' : Scope(d) = Scope(e) => d = e
    BY <1>3 DEF Accounts
<1>. QED
    BY <1>1, <1>2, <1>3, <1>4, <1>5 DEF Accounts

LEMMA ImportAccounts ==
    ASSUME Accounts, ~imported, imported', NEW c, c.action = "IMPORT_REPLAY",
           used' = used \cup {c}, \A x : x \in Steps' <=> x \in Steps
    PROVE  Accounts'
<1>1. IsFiniteSet(used')
    BY FS_AddElement DEF Accounts
<1>2. UsedFor("IMPORT_REPLAY")' = {c}
    BY DEF Accounts, UsedFor
<1>3. Spent' = Spent
    BY DEF Accounts, Spent, UsedFor
<1>. QED
    BY <1>1, <1>2, <1>3 DEF Accounts

\* An appended row is one step more, or none; the steps before it name earlier
\* versions of the rule.
LEMMA AppendSigns ==
    ASSUME TypeOK, NEW r \in Rule, NEW row \in Row, Appends(r, row)
    PROVE  \A x : SignedIn(rules', x) <=>
                    \/ SignedIn(rules, x)
                    \/ /\ row.status \in {"APPROVED", "ACTIVE"}
                       /\ x = SignedStep(r, Len(rules[r]) + 1, row)
<1>1. /\ rules' = [rules EXCEPT ![r] = Append(rules[r], row)]
      /\ \A q \in Rule : rules[q] \in Seq(Row) /\ Len(rules[q]) \in Nat
    BY LenProperties DEF TypeOK, Appends
<1>2. /\ Len(rules'[r]) = Len(rules[r]) + 1
      /\ \A i \in 1..Len(rules[r]) : rules'[r][i] = rules[r][i]
      /\ rules'[r][Len(rules[r]) + 1] = row
      /\ \A q \in Rule : q # r => rules'[q] = rules[q]
    BY <1>1, AppendProperties DEF TypeOK
<1>3. ASSUME NEW x, SignedIn(rules, x) PROVE SignedIn(rules', x)
  <2>. DEFINE At(q, i) ==
           rules[q][i].status \in {"APPROVED", "ACTIVE"} /\ x = SignedStep(q, i, rules[q][i])
  <2>0. PICK q \in Rule : \E i \in 1..Len(rules[q]) : At(q, i)
      BY <1>3 DEF SignedIn
  <2>1. PICK i \in 1..Len(rules[q]) : At(q, i)
      BY <2>0
  <2>2. i \in 1..Len(rules'[q]) /\ rules'[q][i] = rules[q][i]
      BY <1>1, <1>2
  <2>. QED
      BY <2>1, <2>2 DEF SignedIn
<1>4. ASSUME row.status \in {"APPROVED", "ACTIVE"}
      PROVE  SignedIn(rules', SignedStep(r, Len(rules[r]) + 1, row))
  <2>1. Len(rules[r]) + 1 \in 1..Len(rules'[r])
      BY <1>1, <1>2
  <2>. QED
      BY <1>2, <1>4, <2>1 DEF SignedIn
<1>5. ASSUME NEW x, SignedIn(rules', x), ~SignedIn(rules, x)
      PROVE  /\ row.status \in {"APPROVED", "ACTIVE"}
             /\ x = SignedStep(r, Len(rules[r]) + 1, row)
  <2>. DEFINE At(q, i) ==
           rules'[q][i].status \in {"APPROVED", "ACTIVE"} /\ x = SignedStep(q, i, rules'[q][i])
  <2>0. PICK q \in Rule : \E i \in 1..Len(rules'[q]) : At(q, i)
      BY <1>5 DEF SignedIn
  <2>1. PICK i \in 1..Len(rules'[q]) : At(q, i)
      BY <2>0
  <2>2. q = r /\ i = Len(rules[r]) + 1
      BY <1>1, <1>2, <1>5, <2>1 DEF SignedIn
  <2>. QED
      BY <1>2, <2>1, <2>2
<1>. QED
    BY <1>3, <1>4, <1>5

LEMMA StepsAreEarlier ==
    ASSUME TypeOK, NEW x, SignedIn(rules, x)
    PROVE  x.subject \in Rule /\ x.version < Len(rules[x.subject]) /\ x.action # "RESOLVE"
<1>0. PICK r \in Rule : \E i \in 1..Len(rules[r]) : x = SignedStep(r, i, rules[r][i])
    BY DEF SignedIn
<1>1. PICK i \in 1..Len(rules[r]) : x = SignedStep(r, i, rules[r][i])
    BY <1>0
<1>2. Len(rules[r]) \in Nat
    BY LenProperties DEF TypeOK
<1>. QED
    BY <1>1, <1>2 DEF SignedStep

\* Cases that are not resolved by this step stay resolved as they were.
LEMMA ResolveAccounts ==
    ASSUME TypeOK, TypeOK', Accounts, NEW p \in Caller, NEW r \in Rule, ResolveCase(p, r)
    PROVE  Accounts'
<1>. DEFINE c == call[p].cap
<1>1. PICK teaches \in BOOLEAN : cases' = [cases EXCEPT ![r].resolution = By(c, teaches)]
    BY DEF ResolveCase
<1>2. /\ c.action = "RESOLVE" /\ c.subject = r /\ c.version = cases[r].version
      /\ cases[r].resolution = Open /\ c \notin used /\ used' = used \cup {c}
      /\ rules' = rules /\ imported' = imported
    BY DEF ResolveCase, Presents, Spend, Consumable
<1>3. cases \in [Rule -> Case]
    BY DEF TypeOK
<1>4. /\ cases'[r].resolution.by = "human" /\ cases'[r].version = cases[r].version
      /\ cases'[r].resolution.cap = c
      /\ \A q \in Rule : q # r => cases'[q] = cases[q]
      /\ cases[r].resolution.by # "human"
    BY <1>1, <1>2, <1>3 DEF Case, By, Open
<1>. HIDE DEF c
<1>5. \A x : ResolvedIn(cases', x) <=> ResolvedIn(cases, x) \/ x = Scope(c)
    BY <1>2, <1>4 DEF ResolvedIn, Scope
<1>6. \A x : x \in Steps' <=> x \in Steps \/ x = Scope(c)
    BY <1>2, <1>5, StepsAre
<1>7. Scope(c) \notin Steps
  <2>1. ~ResolvedIn(cases, Scope(c))
      BY <1>2, <1>4 DEF ResolvedIn, Scope
  <2>2. ~SignedIn(rules, Scope(c))
      BY <1>2, StepsAreEarlier DEF Scope
  <2>. QED
      BY <2>1, <2>2, StepsAre
<1>. QED
    BY <1>2, <1>6, <1>7, SpendAccounts

\* A human step on a rule, by the row it appends.
LEMMA SignAccounts ==
    ASSUME TypeOK, TypeOK', Accounts, NEW p \in Caller, NEW r \in Rule, NEW action,
           Presents(p, action, r, Len(rules[r])), Spend(p), imported' = imported, cases' = cases,
           NEW row \in Row, Appends(r, row),
           \/ /\ action = "APPROVE" /\ row.status = "APPROVED"
              /\ row.approver = call[p].cap.actor
           \/ /\ action = "ACTIVATE" /\ row.status = "ACTIVE"
              /\ row.activated_by = call[p].cap.actor
    PROVE  Accounts'
<1>. DEFINE c == call[p].cap
<1>1. /\ c.action = action /\ c.subject = r /\ c.version = Len(rules[r])
      /\ c \notin used /\ used' = used \cup {c}
    BY DEF Presents, Spend, Consumable
<1>2. Len(rules[r]) \in Nat
    BY LenProperties DEF TypeOK
<1>3. Scope(c) = SignedStep(r, Len(rules[r]) + 1, row)
    BY <1>1, <1>2 DEF Scope, SignedStep
<1>. HIDE DEF c
<1>4. \A x : SignedIn(rules', x) <=> SignedIn(rules, x) \/ x = Scope(c)
    BY <1>3, AppendSigns
<1>5. \A x : x \in Steps' <=> x \in Steps \/ x = Scope(c)
    BY <1>4, StepsAre
<1>6. Scope(c) \notin Steps
  <2>1. ~ResolvedIn(cases, Scope(c))
      BY <1>1 DEF ResolvedIn, Scope
  <2>2. ~SignedIn(rules, Scope(c))
      BY <1>1, <1>2, StepsAreEarlier DEF Scope
  <2>. QED
      BY <2>1, <2>2, StepsAre
<1>. QED
    BY <1>1, <1>5, <1>6, SpendAccounts

LEMMA AccountsStart == Init => Accounts
<1>. SUFFICES ASSUME Init PROVE Accounts
    OBVIOUS
<1>1. Resolutions = {}
    BY DEF Init, Resolutions, Open
<1>2. \A status : RowsWith(status) = {}
    BY DEF Init, RowsWith
<1>3. Steps = {} /\ UsedFor("IMPORT_REPLAY") = {} /\ Spent = {}
    BY <1>1, <1>2 DEF Init, Steps, Approvals, Activations, UsedFor, Spent
<1>. QED
    BY <1>3, FS_EmptySet DEF Init, Accounts

LEMMA AccountsStep ==
    ASSUME TypeOK, TypeOK', Accounts, [Next]_vars
    PROVE  Accounts'
<1>1. ASSUME used' = used, imported' = imported,
             \A x : ResolvedIn(cases', x) <=> ResolvedIn(cases, x),
             \A x : SignedIn(rules', x) <=> SignedIn(rules, x)
      PROVE  Accounts'
  <2>1. \A x : x \in Steps' <=> x \in Steps
      BY <1>1, StepsAre
  <2>. QED
      BY <1>1, <2>1, QuietAccounts
<1>2. ASSUME used' = used, imported' = imported, cases' = cases, rules' = rules
      PROVE  Accounts'
    BY <1>1, <1>2
<1>3. ASSUME NEW r \in Rule, CaseMoves(r) \/ CaseClosesUntrusted(r)
      PROVE  Accounts'
  <2>1. cases[r].resolution.by # "human" /\ cases'[r].resolution.by # "human"
        /\ \A q \in Rule : q # r => cases'[q] = cases[q]
    <3>1. cases \in [Rule -> Case]
        BY DEF TypeOK
    <3>. QED
        BY <1>3, <3>1 DEF CaseMoves, CaseClosesUntrusted, Case, Open, Untrusted
  <2>2. \A x : ResolvedIn(cases', x) <=> ResolvedIn(cases, x)
      BY <2>1 DEF ResolvedIn
  <2>. QED
      BY <1>1, <1>3, <2>2 DEF CaseMoves, CaseClosesUntrusted
<1>4. ASSUME NEW r \in Rule, NEW row \in Row, Appends(r, row),
             row.status \notin {"APPROVED", "ACTIVE"},
             used' = used, imported' = imported, cases' = cases
      PROVE  Accounts'
    BY <1>1, <1>4, AppendSigns
<1>5. ASSUME NEW p \in Caller, Add(p) PROVE Accounts'
  <2>1. PICK row \in Row : row.status = "PROPOSED" /\ Appends(call[p].rule, row)
      BY <1>5, AddRow
  <2>. QED
      BY <1>4, <1>5, <2>1, AddRow DEF Add
<1>6. ASSUME NEW p \in Caller, RecordReplay(p) PROVE Accounts'
  <2>1. PICK row \in Row :
            row.status \in {"REPLAY_PASSED", "REJECTED"} /\ Appends(call[p].rule, row)
      BY <1>6, RecordReplayRow
  <2>. QED
      BY <1>4, <1>6, <2>1, RecordReplayRow DEF RecordReplay
<1>7. ASSUME NEW p \in Caller, NEW r \in Rule, Approve(p, r) PROVE Accounts'
  <2>1. PICK row \in Row : /\ row.status = "APPROVED" /\ row.approver = call[p].cap.actor
                           /\ Appends(r, row)
      BY <1>7, ApproveRow
  <2>. QED
      BY <1>7, <2>1, SignAccounts DEF Approve
<1>8. ASSUME NEW p \in Caller, NEW r \in Rule, Activate(p, r) PROVE Accounts'
  <2>1. PICK row \in Row : /\ row.status = "ACTIVE" /\ row.activated_by = call[p].cap.actor
                           /\ Appends(r, row)
      BY <1>8, ActivateRow
  <2>. QED
      BY <1>8, <2>1, SignAccounts DEF Activate
<1>9. ASSUME NEW p \in Caller, ImportReplay(p) PROVE Accounts'
  <2>1. \A x : x \in Steps' <=> x \in Steps
      BY <1>9, StepsAre DEF ImportReplay
  <2>. QED
      BY <1>9, <2>1, ImportAccounts DEF ImportReplay, Presents, Spend
<1>10. ASSUME NEW o \in Operator, BootstrapFindsNone(o) \/ BootstrapInserts(o)
       PROVE  Accounts'
    BY <1>2, <1>10 DEF BootstrapFindsNone, BootstrapInserts
<1>11. ASSUME Tick \/ UNCHANGED vars PROVE Accounts'
    BY <1>2, <1>11 DEF Tick, vars
<1>12. ASSUME NEW p \in Caller, NEW c \in Capability, Present(p, c) PROVE Accounts'
    BY <1>2, <1>12 DEF Present
<1>13. ASSUME NEW p \in Caller, NEW r \in Rule, Compile(p, r) PROVE Accounts'
    BY <1>2, <1>13 DEF Compile
<1>14. ASSUME NEW p \in Caller, NEW r \in Rule, NEW expected \in 1..2, NEW replay \in Replay,
              VerifyReplay(p, r, expected, replay)
       PROVE  Accounts'
    BY <1>2, <1>14 DEF VerifyReplay
<1>15. ASSUME NEW p \in Caller, ReceiveActivation(p) \/ Fails(p) PROVE Accounts'
    BY <1>2, <1>15 DEF ReceiveActivation, Fails
<1>. QED
    BY <1>3, <1>5, <1>6, <1>7, <1>8, <1>9, <1>10, <1>11, <1>12, <1>13, <1>14, <1>15,
       ResolveAccounts DEF Next

LEMMA AccountsMatch ==
    ASSUME Accounts
    PROVE  SpentMatchesSteps
<1>1. {Scope(c) : c \in Spent} = Steps
    BY DEF Accounts
<1>2. Cardinality(Spent) = Cardinality(Steps)
  <2>. DEFINE f == [c \in Spent |-> Scope(c)]
  <2>1. f \in Bijection(Spent, Steps)
      BY <1>1 DEF Accounts, Bijection, Injection, IsInjective, Surjection
  <2>2. IsFiniteSet(Spent)
      BY FS_Subset DEF Accounts, Spent
  <2>3. ExistsBijection(Spent, Steps)
      BY <2>1 DEF ExistsBijection
  <2>. QED
      BY <2>2, <2>3, FS_Bijection
<1>3. Cardinality(UsedFor("IMPORT_REPLAY")) = IF imported THEN 1 ELSE 0
    BY FS_Singleton, FS_EmptySet DEF Accounts
<1>. QED
    BY <1>1, <1>2, <1>3 DEF SpentMatchesSteps, Spent, Steps

LEMMA SpecAccounts == Spec => []Accounts
<1>1. RuleInv /\ RuleInv' /\ Accounts /\ [Next]_vars => Accounts'
    BY AccountsStep DEF RuleInv
<1>. QED
    BY <1>1, AccountsStart, SpecInv, PTL DEF Spec

(***************************************************************************)
(* A human's capability is used up exactly when what it authorized is in   *)
(* the tables under that human's name, and no step took two, however many  *)
(* callers race for a step and wherever they are killed (_verify_and_      *)
(* consume in the transaction of its step).                                *)
(***************************************************************************)
THEOREM NothingSpentInVain == Spec => []SpentMatchesSteps
BY SpecAccounts, AccountsMatch, PTL

-----------------------------------------------------------------------------
(* What a rule in force rests on.                                           *)

\* A corpus a rule is promoted on has no case that is worse for it.
LEMMA PromotedHarmsNone ==
    ASSUME NEW outcomes \in Seq(Outcome), NewWrongVerdicts(outcomes) = 0,
           NewWrongPaise(outcomes) = 0, ProofsValid(outcomes)
    PROVE  \A i \in DOMAIN outcomes : NoWorse(outcomes[i])
<1>. DEFINE D == DOMAIN outcomes
            wrong == {i \in D : outcomes[i].before_correct /\ ~outcomes[i].after_correct}
            more(i) == outcomes[i].after_wrong_paise - outcomes[i].before_wrong_paise
            h == [i \in D |-> IF more(i) > 0 THEN more(i) ELSE 0]
<1>1. IsFiniteSet(D)
    BY FS_Interval, LenProperties
<1>2. wrong = {}
  <2>1. IsFiniteSet(wrong)
      BY <1>1, FS_Subset
  <2>. QED
      BY <2>1, FS_EmptySet DEF NewWrongVerdicts
<1>3. \A i \in D : outcomes[i] \in Outcome
    BY ElementOfSeq, LenProperties
<1>4. \A i \in D : more(i) \in Int
    BY <1>3 DEF Outcome
<1>5. \A i \in D : h[i] = 0
  <2>1. SumOf(h, D) = 0
    <3>1. NewWrongPaise(outcomes) = SumFunction(h)
        BY DEF NewWrongPaise
    <3>2. DOMAIN h = D
        OBVIOUS
    <3>. HIDE DEF h, D
    <3>. QED
        BY <3>1, <3>2, SumsAgree
  <2>2. \A i \in D : h[i] \in Nat
      BY <1>4
  <2>. HIDE DEF h, D
  <2>. QED
      BY <1>1, <2>1, <2>2, SumIsNought
<1>6. ASSUME NEW i \in D
      PROVE  outcomes[i].after_wrong_paise <= outcomes[i].before_wrong_paise
  <2>1. outcomes[i].after_wrong_paise \in Nat /\ outcomes[i].before_wrong_paise \in Nat
      BY <1>3 DEF Outcome
  <2>2. h[i] = 0 /\ h[i] = IF more(i) > 0 THEN more(i) ELSE 0
      BY <1>5
  <2>. HIDE DEF h
  <2>. QED
      BY <2>1, <2>2
<1>. QED
    BY <1>2, <1>6 DEF NoWorse, ProofsValid

LEMMA PromotableHarmsNone ==
    ASSUME NEW confirmed \in Seq(Outcome), NEW attacks \in Seq(Outcome),
           Promotable(confirmed, attacks)
    PROVE  /\ \A i \in DOMAIN confirmed : NoWorse(confirmed[i])
           /\ \A i \in DOMAIN attacks : NoWorse(attacks[i])
<1>. DEFINE outcomes == confirmed \o attacks
<1>1. /\ outcomes \in Seq(Outcome) /\ Len(outcomes) = Len(confirmed) + Len(attacks)
      /\ \A i \in 1..Len(confirmed) : outcomes[i] = confirmed[i]
      /\ \A i \in 1..Len(attacks) : outcomes[Len(confirmed) + i] = attacks[i]
    BY ConcatProperties
<1>2. /\ DOMAIN confirmed = 1..Len(confirmed) /\ DOMAIN attacks = 1..Len(attacks)
      /\ Len(confirmed) \in Nat /\ Len(attacks) \in Nat
    BY LenProperties
<1>3. DOMAIN outcomes = 1..Len(outcomes)
    BY <1>1, LenProperties
<1>4. \A i \in DOMAIN outcomes : NoWorse(outcomes[i])
    BY <1>1, PromotedHarmsNone DEF Promotable
<1>. HIDE DEF outcomes
<1>. QED
    BY <1>1, <1>2, <1>3, <1>4

\* A human resolved the case of r in a way that teaches it.
Taught(cs, us, r, author) == \E c \in us : cs[r].resolution = By(c, TRUE) /\ author = c.actor

Turn(status) ==
    IF status = "PROPOSED" THEN 1
    ELSE IF status \in {"REPLAY_PASSED", "REJECTED"} THEN 2
    ELSE IF status = "APPROVED" THEN 3 ELSE 4

\* Every row comes at its turn and keeps the author its case's resolution has;
\* the second says what the gate said of the corpora it names, and a third comes
\* only after one that passed.
RowGrounded(cs, us, known, rows, r, i) ==
    /\ i = Turn(rows[i].status)
    /\ Taught(cs, us, r, rows[i].author)
    /\ i = 2 => /\ known /\ rows[2].replay \in Replay
                /\ rows[2].status = ReplayStatus(rows[2].replay.confirmed, rows[2].replay.attacks)
    /\ i = 2 /\ Len(rows) > 2 => rows[2].status = "REPLAY_PASSED"

Grounded(r) ==
    \A i \in 1..Len(rules[r]) : RowGrounded(cases, used, imported, rules[r], r, i)

Grounds ==
    /\ \A p \in Caller :
          /\ InCall(p, "compiled") => Taught(cases, used, call[p].rule, call[p].author)
          /\ InCall(p, "replayed") => imported
    /\ \A r \in Rule : Grounded(r)

\* What is resolved, spent or imported is so for good.
LEMMA ResolvedStays ==
    ASSUME TypeOK, [Next]_vars
    PROVE  /\ \A r \in Rule : cases[r].resolution # Open => cases'[r].resolution = cases[r].resolution
           /\ used \subseteq used'
           /\ imported => imported'
<1>. DEFINE Goal == /\ \A r \in Rule :
                          cases[r].resolution # Open => cases'[r].resolution = cases[r].resolution
                    /\ used \subseteq used'
                    /\ imported => imported'
<1>1. ASSUME cases' = cases, used \subseteq used', imported => imported'
      PROVE  Goal
    BY <1>1
<1>2. ASSUME NEW r \in Rule,
             CaseMoves(r) \/ CaseClosesUntrusted(r) \/ \E p \in Caller : ResolveCase(p, r)
      PROVE  Goal
  <2>1. cases[r].resolution = Open /\ cases \in [Rule -> Case]
      BY <1>2 DEF TypeOK, CaseMoves, CaseClosesUntrusted, ResolveCase
  <2>2. \A q \in Rule : q # r => cases'[q] = cases[q]
      BY <1>2, <2>1 DEF CaseMoves, CaseClosesUntrusted, ResolveCase
  <2>3. used \subseteq used' /\ imported' = imported
      BY <1>2 DEF CaseMoves, CaseClosesUntrusted, ResolveCase, Spend
  <2>. QED
      BY <2>1, <2>2, <2>3
<1>. HIDE DEF Goal
<1>3. ASSUME NEW o \in Operator, BootstrapFindsNone(o) \/ BootstrapInserts(o) PROVE Goal
    BY <1>1, <1>3 DEF BootstrapFindsNone, BootstrapInserts
<1>4. ASSUME Tick \/ UNCHANGED vars PROVE Goal
    BY <1>1, <1>4 DEF Tick, vars
<1>5. ASSUME NEW p \in Caller, NEW c \in Capability, Present(p, c) PROVE Goal
    BY <1>1, <1>5 DEF Present
<1>6. ASSUME NEW p \in Caller, NEW r \in Rule,
             \/ Approve(p, r) \/ Activate(p, r) \/ Compile(p, r)
             \/ \E expected \in 1..2, replay \in Replay : VerifyReplay(p, r, expected, replay)
      PROVE  Goal
    BY <1>1, <1>6 DEF Approve, Activate, Compile, VerifyReplay, Spend
<1>7. ASSUME NEW p \in Caller, \/ ImportReplay(p) \/ ReceiveActivation(p) \/ Add(p)
                               \/ RecordReplay(p) \/ Fails(p)
      PROVE  Goal
    BY <1>1, <1>7 DEF ImportReplay, ReceiveActivation, Add, RecordReplay, Fails, Spend
<1>8. Goal
    BY <1>2, <1>3, <1>4, <1>5, <1>6, <1>7 DEF Next
<1>. QED
    BY <1>8 DEF Goal

LEMMA TaughtStays ==
    ASSUME TypeOK, [Next]_vars, NEW r \in Rule, NEW author, Taught(cases, used, r, author)
    PROVE  Taught(cases', used', r, author)
<1>1. PICK c \in used : cases[r].resolution = By(c, TRUE) /\ author = c.actor
    BY DEF Taught
<1>2. cases[r].resolution # Open
    BY <1>1 DEF By, Open
<1>3. c \in used' /\ cases'[r].resolution = By(c, TRUE)
    BY <1>1, <1>2, ResolvedStays
<1>. QED
    BY <1>1, <1>3 DEF Taught

LEMMA GroundsStart == Init => Grounds
<1>. SUFFICES ASSUME Init PROVE Grounds
    OBVIOUS
<1>1. \A p \in Caller : call[p] = Idle
    BY DEF Init
<1>2. \A r \in Rule : Len(rules[r]) = 0
    BY EmptySeq DEF Init
<1>. QED
    BY <1>1, <1>2 DEF Grounds, Grounded, InCall

\* A rule without a new row keeps its grounds.
LEMMA GroundedStays ==
    ASSUME TypeOK, [Next]_vars, NEW r \in Rule, Grounded(r), rules'[r] = rules[r]
    PROVE  Grounded(r)'
BY TaughtStays, ResolvedStays DEF Grounded, RowGrounded

\* A row at its turn, on grounds of its own.
Follows(r, row) ==
    \/ Len(rules[r]) = 0 /\ row.status = "PROPOSED"
    \/ /\ Len(rules[r]) = 1 /\ row.status \in {"REPLAY_PASSED", "REJECTED"}
       /\ imported /\ row.replay \in Replay
       /\ row.status = ReplayStatus(row.replay.confirmed, row.replay.attacks)
    \/ /\ Len(rules[r]) = 2 /\ row.status = "APPROVED"
       /\ rules[r][2].status = "REPLAY_PASSED"
    \/ Len(rules[r]) = 3 /\ row.status = "ACTIVE"

LEMMA RowIsGrounded ==
    ASSUME TypeOK, [Next]_vars, Grounds, NEW r \in Rule, NEW row \in Row, Appends(r, row),
           Follows(r, row), Taught(cases, used, r, row.author)
    PROVE  \A q \in Rule : Grounded(q)'
<1>1. /\ rules' = [rules EXCEPT ![r] = Append(rules[r], row)]
      /\ rules[r] \in Seq(Row) /\ Len(rules[r]) \in Nat
    BY LenProperties DEF TypeOK, Appends
<1>2. /\ Len(rules'[r]) = Len(rules[r]) + 1
      /\ \A i \in 1..Len(rules[r]) : rules'[r][i] = rules[r][i]
      /\ rules'[r][Len(rules[r]) + 1] = row
      /\ \A q \in Rule : q # r => rules'[q] = rules[q]
    BY <1>1, AppendProperties DEF TypeOK
<1>3. ASSUME NEW q \in Rule, q # r PROVE Grounded(q)'
    BY <1>2, <1>3, GroundedStays DEF Grounds
<1>4. rules[r] \in Seq(Row) /\ Len(rules[r]) \in Nat
    BY <1>1
<1>5. ASSUME NEW i \in 1..Len(rules[r])
      PROVE  RowGrounded(cases', used', imported', rules'[r], r, i)
  <2>1. RowGrounded(cases, used, imported, rules[r], r, i) /\ rules'[r][i] = rules[r][i]
      BY <1>2 DEF Grounds, Grounded
  <2>2. i = Turn(rules'[r][i].status) /\ Taught(cases', used', r, rules'[r][i].author)
      BY <2>1, TaughtStays DEF RowGrounded
  <2>3. i = 2 =>
          /\ imported' /\ rules'[r][2].replay \in Replay
          /\ rules'[r][2].status =
                ReplayStatus(rules'[r][2].replay.confirmed, rules'[r][2].replay.attacks)
      BY <2>1, ResolvedStays DEF RowGrounded
  <2>4. i = 2 /\ Len(rules'[r]) > 2 => rules'[r][2].status = "REPLAY_PASSED"
    <3>1. CASE Len(rules[r]) = 2
        BY <2>1, <3>1 DEF Follows
    <3>2. CASE Len(rules[r]) # 2
      <4>1. i = 2 => Len(rules[r]) > 2
        <5>. DEFINE n == Len(rules[r])
        <5>1. n \in Nat /\ i \in 1..n /\ n # 2
            BY <1>4, <3>2
        <5>. HIDE DEF n
        <5>2. i = 2 => n > 2
            BY <5>1
        <5>. QED
            BY <5>2 DEF n
      <4>. QED
          BY <2>1, <4>1 DEF RowGrounded
    <3>. QED
        BY <3>1, <3>2
  <2>. QED
      BY <2>2, <2>3, <2>4 DEF RowGrounded
<1>6. RowGrounded(cases', used', imported', rules'[r], r, Len(rules[r]) + 1)
  <2>1. Taught(cases', used', r, row.author)
      BY TaughtStays
  <2>2. Len(rules[r]) + 1 = 2 => Len(rules[r]) = 1 /\ ~(Len(rules'[r]) > 2)
    <3>1. Len(rules'[r]) = Len(rules[r]) + 1
        BY <1>2
    <3>. DEFINE n == Len(rules[r])
                m == Len(rules'[r])
    <3>2. n \in Nat /\ m = n + 1
        BY <1>4, <3>1
    <3>. HIDE DEF n, m
    <3>3. n + 1 = 2 => n = 1 /\ ~(m > 2)
        BY <3>2
    <3>. QED
        BY <3>3 DEF n, m
  <2>3. Len(rules[r]) + 1 = Turn(row.status)
    <3>. DEFINE n == Len(rules[r])
    <3>1. \/ n = 0 /\ row.status = "PROPOSED"
          \/ n = 1 /\ row.status \in {"REPLAY_PASSED", "REJECTED"}
          \/ n = 2 /\ row.status = "APPROVED"
          \/ n = 3 /\ row.status = "ACTIVE"
        BY DEF Follows
    <3>. HIDE DEF n
    <3>2. n + 1 = Turn(row.status)
        BY <3>1 DEF Turn
    <3>. QED
        BY <3>2 DEF n
  <2>4. Len(rules[r]) = 1 =>
          /\ imported /\ row.replay \in Replay
          /\ row.status = ReplayStatus(row.replay.confirmed, row.replay.attacks)
      BY DEF Follows
  <2>. QED
      BY <1>2, <2>1, <2>2, <2>3, <2>4, ResolvedStays DEF RowGrounded
<1>7. Grounded(r)'
  <2>1. \A i \in 1..Len(rules'[r]) : i \in 1..Len(rules[r]) \/ i = Len(rules[r]) + 1
      BY <1>1, <1>2
  <2>. QED
      BY <1>5, <1>6, <2>1 DEF Grounded
<1>. QED
    BY <1>3, <1>7

\* The latest row of a grounded rule is at its turn.
LEMMA LatestIsGrounded ==
    ASSUME TypeOK, Grounds, NEW r \in Rule, rules[r] # <<>>
    PROVE  /\ Len(rules[r]) = Turn(Latest(r).status)
           /\ Taught(cases, used, r, Latest(r).author)
<1>1. Len(rules[r]) \in 1..Len(rules[r])
    BY LatestIsRow
<1>. QED
    BY <1>1 DEF Grounds, Grounded, RowGrounded, Latest

LEMMA GroundedStep ==
    ASSUME TypeOK, Grounds, [Next]_vars
    PROVE  \A q \in Rule : Grounded(q)'
<1>. DEFINE Goal == \A q \in Rule : Grounded(q)'
<1>1. ASSUME rules' = rules PROVE Goal
    BY <1>1, GroundedStays DEF Grounds
<1>2. ASSUME NEW p \in Caller, Add(p) PROVE Goal
  <2>. DEFINE r == call[p].rule
              row == [status |-> "PROPOSED", author |-> call[p].author, approver |-> NoOne,
                      activated_by |-> NoOne, replay |-> NoReplay]
  <2>1. call[p] \in CompiledCall
      BY <1>2, CallShape DEF Add
  <2>2. r \in Rule /\ row \in Row
      BY <2>1 DEF CompiledCall, Row, RuleStatus
  <2>3. Appends(r, row) /\ Len(rules[r]) = 0
      BY <1>2, EmptySeq DEF Add
  <2>4. Taught(cases, used, r, row.author) /\ Follows(r, row)
      BY <1>2, <2>3 DEF Add, Grounds, Follows
  <2>. HIDE DEF r, row
  <2>5. Follows(r, row)
      BY <2>2, <2>3, <2>4 DEF Follows
  <2>. QED
      BY <2>2, <2>3, <2>4, <2>5, RowIsGrounded
<1>3. ASSUME NEW p \in Caller, RecordReplay(p) PROVE Goal
  <2>. DEFINE r == call[p].rule
              replay == call[p].replay
              row == [status |-> ReplayStatus(replay.confirmed, replay.attacks),
                      author |-> Latest(r).author, approver |-> Latest(r).approver,
                      activated_by |-> NoOne, replay |-> replay]
  <2>1. call[p] \in ReplayedCall
      BY <1>3, CallShape DEF RecordReplay
  <2>2. r \in Rule /\ replay \in Replay
      BY <2>1 DEF ReplayedCall
  <2>3. Appends(r, row) /\ rules[r] # <<>> /\ Latest(r).status = "PROPOSED"
      BY <1>3 DEF RecordReplay, MayMove
  <2>4. ReplayStatus(replay.confirmed, replay.attacks) \in {"REPLAY_PASSED", "REJECTED"}
      BY DEF ReplayStatus
  <2>5. row \in Row
      BY <2>2, <2>3, <2>4, LatestIsRow DEF Row, RuleStatus
  <2>6. Len(rules[r]) = 1 /\ Taught(cases, used, r, Latest(r).author)
      BY <2>2, <2>3, LatestIsGrounded DEF Turn
  <2>7. /\ row.replay = replay /\ row.author = Latest(r).author
        /\ row.status = ReplayStatus(replay.confirmed, replay.attacks)
      OBVIOUS
  <2>8. imported
      BY <1>3 DEF Grounds, RecordReplay
  <2>. HIDE DEF r, row, replay
  <2>9. Follows(r, row)
      BY <2>2, <2>4, <2>6, <2>7, <2>8 DEF Follows
  <2>. QED
      BY <2>2, <2>3, <2>5, <2>6, <2>7, <2>9, RowIsGrounded
<1>4. ASSUME NEW p \in Caller, NEW r \in Rule, Approve(p, r) PROVE Goal
  <2>1. /\ rules[r] # <<>> /\ Latest(r).status = "REPLAY_PASSED"
      BY <1>4 DEF Approve, MayMove
  <2>2. PICK row \in Row : /\ row.status = "APPROVED" /\ row.author = Latest(r).author
                           /\ Appends(r, row)
      BY <1>4, ApproveRow
  <2>3. Len(rules[r]) = 2 /\ Taught(cases, used, r, row.author)
      BY <2>1, <2>2, LatestIsGrounded DEF Turn
  <2>4. rules[r][2].status = "REPLAY_PASSED"
      BY <2>1, <2>3 DEF Latest
  <2>5. Follows(r, row)
      BY <2>2, <2>3, <2>4 DEF Follows
  <2>. QED
      BY <2>2, <2>3, <2>4, <2>5, RowIsGrounded
<1>5. ASSUME NEW p \in Caller, NEW r \in Rule, Activate(p, r) PROVE Goal
  <2>1. /\ rules[r] # <<>> /\ Latest(r).status = "APPROVED"
      BY <1>5 DEF Activate, MayMove
  <2>2. PICK row \in Row : /\ row.status = "ACTIVE" /\ row.author = Latest(r).author
                           /\ Appends(r, row)
      BY <1>5, ActivateRow
  <2>3. Len(rules[r]) = 3 /\ Taught(cases, used, r, row.author)
      BY <2>1, <2>2, LatestIsGrounded DEF Turn
  <2>4. Follows(r, row)
      BY <2>2, <2>3 DEF Follows
  <2>. QED
      BY <2>2, <2>3, <2>4, RowIsGrounded
<1>. HIDE DEF Goal
<1>6. ASSUME NEW o \in Operator, BootstrapFindsNone(o) \/ BootstrapInserts(o) PROVE Goal
    BY <1>1, <1>6 DEF BootstrapFindsNone, BootstrapInserts
<1>7. ASSUME Tick \/ UNCHANGED vars PROVE Goal
    BY <1>1, <1>7 DEF Tick, vars
<1>8. ASSUME NEW r \in Rule, CaseMoves(r) \/ CaseClosesUntrusted(r) PROVE Goal
    BY <1>1, <1>8 DEF CaseMoves, CaseClosesUntrusted
<1>9. ASSUME NEW p \in Caller, NEW c \in Capability, Present(p, c) PROVE Goal
    BY <1>1, <1>9 DEF Present
<1>10. ASSUME NEW p \in Caller, NEW r \in Rule,
              \/ ResolveCase(p, r) \/ Compile(p, r)
              \/ \E expected \in 1..2, replay \in Replay : VerifyReplay(p, r, expected, replay)
       PROVE  Goal
    BY <1>1, <1>10 DEF ResolveCase, Compile, VerifyReplay
<1>11. ASSUME NEW p \in Caller, ImportReplay(p) \/ ReceiveActivation(p) \/ Fails(p) PROVE Goal
    BY <1>1, <1>11 DEF ImportReplay, ReceiveActivation, Fails
<1>12. Goal
    BY <1>2, <1>3, <1>4, <1>5, <1>6, <1>7, <1>8, <1>9, <1>10, <1>11 DEF Next
<1>. QED
    BY <1>12 DEF Goal

\* What a call relies on.
OnGrounds(p) ==
    /\ InCall(p, "compiled") => Taught(cases, used, call[p].rule, call[p].author)
    /\ InCall(p, "replayed") => imported

LEMMA OnGroundsStays ==
    ASSUME TypeOK, [Next]_vars, NEW p \in Caller, OnGrounds(p), call'[p] = call[p]
    PROVE  OnGrounds(p)'
<1>1. InCall(p, "compiled") => call[p].rule \in Rule
    BY CallShape DEF CompiledCall
<1>. QED
    BY <1>1, TaughtStays, ResolvedStays DEF OnGrounds, InCall

\* A compiled rule is one that its case teaches now; a replay is verified only
\* against the corpora that were imported.
LEMMA OnGroundsStep ==
    ASSUME TypeOK, [Next]_vars, \A p \in Caller : OnGrounds(p)
    PROVE  \A p \in Caller : OnGrounds(p)'
<1>. DEFINE Goal == \A p \in Caller : OnGrounds(p)'
<1>1. ASSUME call' = call PROVE Goal
    BY <1>1, OnGroundsStays
<1>2. ASSUME NEW q \in Caller, \A p \in Caller \ {q} : call'[p] = call[p], OnGrounds(q)'
      PROVE  Goal
    BY <1>2, OnGroundsStays
<1>3. ASSUME NEW q \in Caller, Return(q) PROVE Goal
  <2>1. call'[q] = Idle /\ \A p \in Caller \ {q} : call'[p] = call[p]
      BY <1>3 DEF Return, TypeOK
  <2>2. OnGrounds(q)'
      BY <2>1 DEF OnGrounds, InCall
  <2>. QED
      BY <1>2, <2>1, <2>2
<1>4. ASSUME NEW q \in Caller, NEW c \in Capability, Present(q, c) PROVE Goal
  <2>1. call'[q].at = "verified" /\ \A p \in Caller \ {q} : call'[p] = call[p]
      BY <1>4 DEF Present, Verified, TypeOK
  <2>2. OnGrounds(q)'
      BY <2>1 DEF OnGrounds, InCall
  <2>. QED
      BY <1>2, <2>1, <2>2
<1>5. ASSUME NEW q \in Caller, NEW r \in Rule, Activate(q, r) PROVE Goal
  <2>1. call'[q].at = "activated" /\ \A p \in Caller \ {q} : call'[p] = call[p]
      BY <1>5 DEF Activate, Activated, TypeOK
  <2>2. OnGrounds(q)'
      BY <2>1 DEF OnGrounds, InCall
  <2>. QED
      BY <1>2, <2>1, <2>2
<1>6. ASSUME NEW q \in Caller, NEW r \in Rule, Compile(q, r) PROVE Goal
  <2>1. PICK c \in Capability : Compiles(r, c) /\ call' = [call EXCEPT ![q] = Compiled(r, c.actor)]
      BY <1>6 DEF Compile
  <2>2. /\ call'[q] = [at |-> "compiled", rule |-> r, author |-> c.actor]
        /\ \A p \in Caller \ {q} : call'[p] = call[p]
      BY <2>1 DEF Compiled, TypeOK
  <2>3. Taught(cases', used', r, c.actor)
      BY <2>1, TaughtStays DEF Compiles, Taught
  <2>4. OnGrounds(q)'
      BY <2>2, <2>3 DEF OnGrounds, InCall
  <2>. QED
      BY <1>2, <2>2, <2>4
<1>7. ASSUME NEW q \in Caller, NEW r \in Rule, NEW expected \in 1..2, NEW replay \in Replay,
             VerifyReplay(q, r, expected, replay)
      PROVE  Goal
  <2>1. /\ call'[q].at = "replayed" /\ \A p \in Caller \ {q} : call'[p] = call[p]
        /\ imported'
      BY <1>7 DEF VerifyReplay, Replayed, TypeOK
  <2>2. OnGrounds(q)'
      BY <2>1 DEF OnGrounds, InCall
  <2>. QED
      BY <1>2, <2>1, <2>2
<1>. HIDE DEF Goal
<1>8. ASSUME NEW o \in Operator, BootstrapFindsNone(o) \/ BootstrapInserts(o) PROVE Goal
    BY <1>1, <1>8 DEF BootstrapFindsNone, BootstrapInserts
<1>9. ASSUME Tick \/ UNCHANGED vars PROVE Goal
    BY <1>1, <1>9 DEF Tick, vars
<1>10. ASSUME NEW r \in Rule, CaseMoves(r) \/ CaseClosesUntrusted(r) PROVE Goal
    BY <1>1, <1>10 DEF CaseMoves, CaseClosesUntrusted
<1>11. ASSUME NEW q \in Caller, NEW r \in Rule, ResolveCase(q, r) \/ Approve(q, r) PROVE Goal
    BY <1>3, <1>11 DEF ResolveCase, Approve
<1>12. ASSUME NEW q \in Caller,
              \/ ImportReplay(q) \/ ReceiveActivation(q) \/ Add(q)
              \/ RecordReplay(q) \/ Fails(q)
       PROVE  Goal
    BY <1>3, <1>12 DEF ImportReplay, ReceiveActivation, Add, RecordReplay, Fails
<1>13. Goal
    BY <1>4, <1>5, <1>6, <1>7, <1>8, <1>9, <1>10, <1>11, <1>12 DEF Next
<1>. QED
    BY <1>13 DEF Goal

LEMMA SpecGrounds == Spec => []Grounds
<1>1. ASSUME RuleInv, Grounds, [Next]_vars
      PROVE  Grounds'
  <2>1. TypeOK /\ \A p \in Caller : OnGrounds(p)
      BY <1>1 DEF RuleInv, Grounds, OnGrounds
  <2>2. \A p \in Caller : OnGrounds(p)'
      BY <1>1, <2>1, OnGroundsStep
  <2>3. \A q \in Rule : Grounded(q)'
      BY <1>1, <2>1, GroundedStep
  <2>. QED
      BY <2>2, <2>3 DEF Grounds, OnGrounds
<1>. QED
    BY <1>1, SpecInv, GroundsStart, PTL DEF Spec

\* A rule in force came from a human's own resolution of its case and was
\* replayed, before approval, over corpora of which it harmed no case: however
\* the calls that compile, replay, approve and activate it interleave or die,
\* and whatever the two corpora are.
THEOREM ActiveRulesHarmNone == Spec => []ActiveRuleHarmedNoCase
<1>1. ASSUME TypeOK, Grounds
      PROVE  ActiveRuleHarmedNoCase
  <2>1. SUFFICES ASSUME NEW r \in Rule, rules[r] # <<>>, Latest(r).status = "ACTIVE"
                 PROVE  LET replay == rules[r][2].replay IN
                        /\ imported
                        /\ \E c \in used : /\ cases[r].resolution = By(c, TRUE)
                                           /\ Latest(r).author = c.actor
                        /\ \A i \in DOMAIN replay.confirmed : NoWorse(replay.confirmed[i])
                        /\ \A i \in DOMAIN replay.attacks : NoWorse(replay.attacks[i])
      BY DEF ActiveRuleHarmedNoCase
  <2>. DEFINE replay == rules[r][2].replay
  <2>2. Len(rules[r]) = 4 /\ Taught(cases, used, r, Latest(r).author)
      BY <1>1, <2>1, LatestIsGrounded DEF Turn
  <2>3. RowGrounded(cases, used, imported, rules[r], r, 2)
    <3>1. 2 \in 1..4
        OBVIOUS
    <3>2. 2 \in 1..Len(rules[r]) /\ Grounded(r)
        BY <1>1, <2>2, <3>1 DEF Grounds
    <3>. QED
        BY <3>2 DEF Grounded
  <2>4. /\ imported /\ replay \in Replay
        /\ ReplayStatus(replay.confirmed, replay.attacks) = "REPLAY_PASSED"
      BY <2>2, <2>3 DEF RowGrounded
  <2>. HIDE DEF replay
  <2>5. /\ replay.confirmed \in Seq(Outcome) /\ replay.attacks \in Seq(Outcome)
        /\ Promotable(replay.confirmed, replay.attacks)
      BY <2>4, RuleConstants DEF RuleConstants, Replay, ReplayStatus
  <2>6. /\ \A i \in DOMAIN replay.confirmed : NoWorse(replay.confirmed[i])
        /\ \A i \in DOMAIN replay.attacks : NoWorse(replay.attacks[i])
      BY <2>5, PromotableHarmsNone
  <2>. QED
      BY <2>2, <2>4, <2>6 DEF Taught, replay
<1>2. RuleInv => TypeOK
    BY DEF RuleInv
<1>. QED
    BY <1>1, <1>2, SpecInv, SpecGrounds, PTL

=============================================================================
