--------------------------- MODULE RecoveryProofs ---------------------------
(***************************************************************************)
(* The three safety properties of Recovery, for any orders, servers and    *)
(* batches.  They are not inductive alone: a row is written, and an action *)
(* performed, for what an earlier step put into `call`, and the demo's     *)
(* actions for what it queued; RecoveryInv carries both along.             *)
(***************************************************************************)
EXTENDS Recovery, SequenceTheorems, TLAPS

\* A performed call has its entry in the history.
Backed(c) ==
    (call[c] # Idle /\ call[c].at = "performed") =>
        \E i \in 1..Len(calls[call[c].event]) :
            calls[call[c].event][i].amount = call[c].amount

CallsEarned == \A c \in Caller : call[c] # Idle => Earned(call[c].gated)

PendingEarned ==
    demo.at = "executing" => \A e \in demo.pending : Earned(demo.batch[e[1]])

RecoveryInv ==
    /\ TypeOK
    /\ RowHasAction
    /\ OneCallerIsFirst
    /\ NothingBypassesPolicy
    /\ \A c \in Caller : Backed(c)
    /\ CallsEarned
    /\ PendingEarned

-----------------------------------------------------------------------------
LEMMA AllowImpliesEarned ==
    ASSUME NEW s \in Situation, NEW a, NEW m, NEW n, NEW c, Allows(s, a, m, n, c)
    PROVE  Earned(s)
<1>1. s.verdict \in CHASEABLE_VERDICTS
  <2>1. s.verdict \in Verdict
    BY DEF Situation
  <2>2. s.verdict \notin CHASEABLE_VERDICTS => Disposition(s.verdict).outcome # "ALLOW"
    BY <2>1 DEF Disposition, Rule, Verdict, PROVABLY_PAID
  <2>3. QED
    BY <2>2 DEF Allows, Evaluate, Rule
<1>2. EvaluateChaseable(s, a, m, n, c).outcome = "ALLOW"
  BY <1>1 DEF Allows, Evaluate, Rule
<1>3. s.bank_coverage_ok /\ ~(ExpectedValue(s) <= COST_WRONG_CHASE_PAISE) /\ HasProof(s)
  BY <1>2 DEF EvaluateChaseable, Rule
<1>4. ChaseAmount(s) \in Nat
  BY DEF ChaseAmount, Situation
<1>5. ExpectedValue(s) > COST_WRONG_CHASE_PAISE
  BY <1>3, <1>4 DEF ExpectedValue, RECOVERY_RATE_NUM, RECOVERY_RATE_DEN, COST_WRONG_CHASE_PAISE
<1>6. QED
  BY <1>1, <1>3, <1>5 DEF Earned

LEMMA EvidenceIsSituations ==
    ASSUME NEW b \in Evidence, NEW o \in Order
    PROVE  b[o] \in Situations /\ b[o] \in Situation /\ ChaseAmount(b[o]) \in Nat
BY RecoveryConstants DEF Evidence, ChaseAmount, Situation

LEMMA EvidentIsEvidence ==
    ASSUME TypeOK, NEW s \in Server
    PROVE  Evident(s) \in Evidence
BY DEF TypeOK, Evident

LEMMA EventParts ==
    ASSUME NEW e \in EventId
    PROVE  e[1] \in Order
BY DEF EventId

\* What the executor's steps do to the variables an invariant reads.
LEMMA FinishTypes ==
    ASSUME TypeOK, NEW c \in Caller, Finish(c)
    PROVE  /\ call' \in [Caller -> Call \cup {Idle}]
           /\ call'[c] = Idle
           /\ \A d \in Caller : d # c => call'[d] = call[d]
BY DEF TypeOK, Finish

LEMMA BeginTypes ==
    ASSUME TypeOK, NEW c \in Caller, NEW e \in EventId, NEW m \in Nat,
           NEW s \in Situations, Begin(c, e, m, s)
    PROVE  /\ call' \in [Caller -> Call \cup {Idle}]
           /\ call'[c] = [at |-> "gated", event |-> e, amount |-> m, gated |-> s]
           /\ \A d \in Caller : d # c => call'[d] = call[d]
<1>1. [at |-> "gated", event |-> e, amount |-> m, gated |-> s] \in Call
  BY DEF Call
<1>2. QED
  BY <1>1 DEF TypeOK, Begin

LEMMA CallParts ==
    ASSUME TypeOK, NEW c \in Caller, call[c] # Idle
    PROVE  /\ call[c] \in Call
           /\ call[c].event \in EventId
           /\ call[c].amount \in Nat
           /\ call[c].gated \in Situations
BY DEF TypeOK, Call

LEMMA PerformingTypes ==
    ASSUME TypeOK, NEW c \in Caller, call[c] # Idle, Performing(c)
    PROVE  LET e == call[c].event
               entry == [amount |-> call[c].amount, gated |-> call[c].gated]
           IN  /\ calls' \in [EventId -> Seq([amount : Nat, gated : Situations])]
               /\ calls'[e] = Append(calls[e], entry)
               /\ \A f \in EventId : f # e => calls'[f] = calls[f]
<1> DEFINE e == call[c].event
           entry == [amount |-> call[c].amount, gated |-> call[c].gated]
<1>1. e \in EventId /\ entry \in [amount : Nat, gated : Situations]
  BY CallParts
<1>2. calls' = [calls EXCEPT ![e] = Append(@, entry)]
  BY DEF Performing
<1>3. Append(calls[e], entry) \in Seq([amount : Nat, gated : Situations])
  BY <1>1, AppendProperties DEF TypeOK
<1> HIDE DEF e, entry
<1>4. /\ calls' \in [EventId -> Seq([amount : Nat, gated : Situations])]
      /\ calls'[e] = Append(calls[e], entry)
      /\ \A f \in EventId : f # e => calls'[f] = calls[f]
  BY <1>1, <1>2, <1>3 DEF TypeOK
<1>5. QED
  BY <1>4 DEF e, entry

LEMMA InsertTypes ==
    ASSUME TypeOK, NEW e \in EventId, NEW m \in Nat, Insert(e, m)
    PROVE  /\ audit' \in [EventId -> Nat \cup {NoRow}]
           /\ fresh' \in [EventId -> Nat]
           /\ audit'[e] = IF Recorded(e) THEN audit[e] ELSE m
           /\ fresh'[e] = IF Recorded(e) THEN fresh[e] ELSE fresh[e] + 1
           /\ \A f \in EventId : f # e => audit'[f] = audit[f] /\ fresh'[f] = fresh[f]
<1>1. CASE Recorded(e)
  BY <1>1 DEF TypeOK, Insert
<1>2. CASE ~Recorded(e)
  <2>1. /\ audit' = [audit EXCEPT ![e] = m]
        /\ fresh' = [fresh EXCEPT ![e] = @ + 1]
    BY <1>2 DEF Insert
  <2>2. /\ audit' \in [EventId -> Nat \cup {NoRow}] /\ audit'[e] = m
        /\ \A f \in EventId : f # e => audit'[f] = audit[f]
    BY <2>1 DEF TypeOK
  <2>3. /\ fresh' \in [EventId -> Nat] /\ fresh'[e] = fresh[e] + 1
        /\ \A f \in EventId : f # e => fresh'[f] = fresh[f]
    BY <2>1 DEF TypeOK
  <2>4. QED
    BY <1>2, <2>2, <2>3
<1>3. QED
  BY <1>1, <1>2

-----------------------------------------------------------------------------
LEMMA TypePreserved == TypeOK /\ [Next]_vars => TypeOK'
<1> SUFFICES ASSUME TypeOK, [Next]_vars PROVE TypeOK'
  OBVIOUS
<1>1. ASSUME NEW c \in Caller, Perform(c) PROVE TypeOK'
  <2>1. [call[c] EXCEPT !.at = "performed"] \in Call
    BY <1>1, CallParts DEF Perform, Call
  <2>2. call' \in [Caller -> Call \cup {Idle}]
    BY <1>1, <2>1 DEF Perform, TypeOK
  <2>3. calls' \in [EventId -> Seq([amount : Nat, gated : Situations])]
    BY <1>1, PerformingTypes DEF Perform
  <2>4. QED
    BY <1>1, <2>2, <2>3 DEF Perform, TypeOK, diskVars
<1>2. ASSUME NEW s \in Server, AdapterFails(s) PROVE TypeOK'
  <2>1. s \in Caller
    BY DEF Caller
  <2>2. calls' \in [EventId -> Seq([amount : Nat, gated : Situations])]
    BY <1>2, <2>1, PerformingTypes DEF AdapterFails, TypeOK
  <2>3. QED
    BY <1>2, <2>1, <2>2, FinishTypes DEF AdapterFails, TypeOK, diskVars
<1>3. ASSUME NEW c \in Caller, Record(c) PROVE TypeOK'
  <2>1. audit' \in [EventId -> Nat \cup {NoRow}] /\ fresh' \in [EventId -> Nat]
    BY <1>3, CallParts, InsertTypes DEF Record, TypeOK
  <2>2. QED
    BY <1>3, <2>1, FinishTypes DEF Record, TypeOK
<1>4. ASSUME NEW s \in Server, ReconcileElsewhere(s) PROVE TypeOK'
  BY <1>4 DEF ReconcileElsewhere, TypeOK, diskVars
<1>5. ASSUME NEW s \in Server, ProposeRecovery(s) PROVE TypeOK'
  <2>1. loaded' \in [Server -> Evidence \cup {<<>>}]
    BY <1>5, EvidentIsEvidence DEF ProposeRecovery, Ensured, TypeOK
  <2>2. [o \in Order |-> IF schema /\ Chased(s, o) THEN ChaseAmount(Evident(s)[o])
                                                   ELSE proposals[s][o]] \in [Order -> Nat]
    BY EvidentIsEvidence, EvidenceIsSituations DEF TypeOK
  <2>3. proposals' \in [Server -> [Order -> Nat]]
    BY <1>5, <2>2 DEF ProposeRecovery, TypeOK
  <2>4. QED
    BY <1>5, <2>1, <2>3 DEF ProposeRecovery, TypeOK, diskVars
<1>6. ASSUME NEW s \in Server, NEW o \in Order, Approve(s, o) PROVE TypeOK'
  <2>1. loaded' \in [Server -> Evidence \cup {<<>>}]
    BY <1>6, EvidentIsEvidence DEF Approve, Ensured, TypeOK
  <2>2. <<o, LINK>> \in EventId /\ proposals[s][o] \in Nat /\ s \in Caller
    BY DEF EventId, TypeOK, Caller
  <2>3. Evident(s)[o] \in Situations
    BY EvidentIsEvidence, EvidenceIsSituations
  <2>4. call' \in [Caller -> Call \cup {Idle}]
    BY <1>6, <2>2, <2>3, BeginTypes DEF Approve, TypeOK
  <2>5. QED
    BY <1>6, <2>1, <2>4 DEF Approve, TypeOK, diskVars
<1>7. ASSUME NEW s \in Server, Restart(s) PROVE TypeOK'
  <2>1. s \in Caller
    BY DEF Caller
  <2>2. proposals' \in [Server -> [Order -> Nat]]
    BY <1>7 DEF Restart, TypeOK
  <2>3. QED
    BY <1>7, <2>1, <2>2, FinishTypes DEF Restart, TypeOK
<1>8. CASE Generate
  BY <1>8 DEF Generate, TypeOK, diskVars
<1>9. CASE DemoGenerate
  <2>1. demo' \in DemoStage
    BY <1>9 DEF DemoGenerate, DemoStage
  <2>2. QED
    BY <1>9, <2>1 DEF DemoGenerate, TypeOK, diskVars
<1>10. CASE DemoRemoveDb
  <2>1. demo' \in DemoStage
    BY <1>10 DEF DemoRemoveDb, DemoStage, NoDemo, TypeOK
  <2>2. QED
    BY <1>10, <2>1 DEF DemoRemoveDb, TypeOK
<1>11. CASE DemoGate
  <2>1. demo' \in DemoStage
    BY <1>11 DEF DemoGate, DemoStage, NoDemo, TypeOK
  <2>2. QED
    BY <1>11, <2>1 DEF DemoGate, TypeOK
<1>12. ASSUME NEW e \in EventId, DemoExecute(e) PROVE TypeOK'
  <2>1. /\ demo \in [at : {"executing"}, batch : Evidence, pending : SUBSET EventId]
        /\ demo' \in DemoStage
    BY <1>12 DEF DemoExecute, DemoStage, NoDemo, TypeOK
  <2>2. demo.batch[e[1]] \in Situations /\ ChaseAmount(demo.batch[e[1]]) \in Nat
    BY <2>1, EventParts, EvidenceIsSituations
  <2>3. call' \in [Caller -> Call \cup {Idle}]
    BY <1>12, <2>2, BeginTypes DEF DemoExecute, Caller
  <2>4. QED
    BY <1>12, <2>1, <2>3 DEF DemoExecute, TypeOK, diskVars
<1>13. CASE DemoEnds
  BY <1>13, FinishTypes DEF DemoEnds, TypeOK, diskVars, Caller
<1>14. CASE UNCHANGED vars
  BY <1>14 DEF vars, diskVars, TypeOK
<1>15. QED
  BY <1>1, <1>2, <1>3, <1>4, <1>5, <1>6, <1>7, <1>8, <1>9, <1>10, <1>11, <1>12, <1>13, <1>14
     DEF Next, NextServing, ServerStep, DemoStep, Caller

-----------------------------------------------------------------------------
(***************************************************************************)
(* The history only grows, and only by what a gated call holds.            *)
(***************************************************************************)
CallsGrow ==
    \A e \in EventId : \A i \in 1..Len(calls[e]) :
        i \in 1..Len(calls'[e]) /\ calls'[e][i] = calls[e][i]

NewEntriesFromCalls ==
    \A e \in EventId : \A i \in 1..Len(calls'[e]) :
        \/ i \in 1..Len(calls[e]) /\ calls'[e][i] = calls[e][i]
        \/ \E c \in Caller : call[c] # Idle /\ calls'[e][i].gated = call[c].gated

LEMMA PerformingExtends ==
    ASSUME TypeOK, NEW c \in Caller, call[c] # Idle, Performing(c)
    PROVE  /\ CallsGrow
           /\ NewEntriesFromCalls
           /\ \E i \in 1..Len(calls'[call[c].event]) :
                calls'[call[c].event][i].amount = call[c].amount
<1> DEFINE e == call[c].event
           entry == [amount |-> call[c].amount, gated |-> call[c].gated]
<1>1. /\ calls'[e] = Append(calls[e], entry)
      /\ \A f \in EventId : f # e => calls'[f] = calls[f]
  BY PerformingTypes
<1>2. e \in EventId /\ entry \in [amount : Nat, gated : Situations]
  BY CallParts
<1>3. /\ Len(calls'[e]) = Len(calls[e]) + 1 /\ Len(calls[e]) \in Nat
      /\ calls'[e][Len(calls[e]) + 1] = entry
      /\ \A i \in 1..Len(calls[e]) : calls'[e][i] = calls[e][i]
  BY <1>1, <1>2, AppendProperties, LenProperties DEF TypeOK
<1>4. entry.amount = call[c].amount /\ entry.gated = call[c].gated
  OBVIOUS
<1>5. CallsGrow
  <2> SUFFICES ASSUME NEW f \in EventId, NEW i \in 1..Len(calls[f])
               PROVE  i \in 1..Len(calls'[f]) /\ calls'[f][i] = calls[f][i]
    BY DEF CallsGrow
  <2> HIDE DEF e, entry
  <2>1. CASE f = e
    BY <1>3, <2>1
  <2>2. CASE f # e
    BY <1>1, <2>2
  <2>3. QED
    BY <2>1, <2>2
<1>6. NewEntriesFromCalls
  <2> SUFFICES ASSUME NEW f \in EventId, NEW i \in 1..Len(calls'[f])
               PROVE  \/ i \in 1..Len(calls[f]) /\ calls'[f][i] = calls[f][i]
                      \/ \E d \in Caller : call[d] # Idle /\ calls'[f][i].gated = call[d].gated
    BY DEF NewEntriesFromCalls
  <2> HIDE DEF e, entry
  <2>1. CASE f # e
    BY <1>1, <2>1
  <2>2. CASE f = e /\ i \in 1..Len(calls[e])
    BY <1>3, <2>2
  <2>3. CASE f = e /\ i = Len(calls[e]) + 1
    BY <1>3, <1>4, <2>3
  <2>4. QED
    BY <1>3, <2>1, <2>2, <2>3
<1>7. \E i \in 1..Len(calls'[e]) : calls'[e][i].amount = call[c].amount
  <2> HIDE DEF e, entry
  <2>1. Len(calls[e]) + 1 \in 1..Len(calls'[e])
    BY <1>3
  <2>2. QED
    BY <1>3, <1>4, <2>1
<1>8. QED
  BY <1>5, <1>6, <1>7

LEMMA SameCalls ==
    ASSUME TypeOK, calls' = calls
    PROVE  CallsGrow /\ NewEntriesFromCalls
BY DEF CallsGrow, NewEntriesFromCalls

LEMMA HistoryGrows ==
    ASSUME TypeOK, [Next]_vars
    PROVE  CallsGrow /\ NewEntriesFromCalls
<1>1. ASSUME NEW c \in Caller, Perform(c) PROVE CallsGrow /\ NewEntriesFromCalls
  BY <1>1, PerformingExtends DEF Perform
<1>2. ASSUME NEW s \in Server, AdapterFails(s) PROVE CallsGrow /\ NewEntriesFromCalls
  BY <1>2, PerformingExtends, SameCalls DEF AdapterFails, Caller
<1>3. CASE calls' = calls
  BY <1>3, SameCalls
<1>4. QED
  BY <1>1, <1>2, <1>3 DEF Next, NextServing, ServerStep, DemoStep, Caller, vars,
     ReconcileElsewhere, ProposeRecovery, Approve, Record, Restart, Generate,
     DemoGenerate, DemoRemoveDb, DemoGate, DemoExecute, DemoEnds

\* How a step changes what a caller is executing.
LEMMA CallSteps ==
    ASSUME RecoveryInv, [Next]_vars, NEW c \in Caller
    PROVE  \/ call'[c] = call[c]
           \/ call'[c] = Idle
           \/ /\ call'[c] # Idle /\ call'[c].at = "gated"
              /\ Earned(call'[c].gated)
           \/ /\ call[c] # Idle /\ Performing(c)
              /\ call'[c].event = call[c].event
              /\ call'[c].amount = call[c].amount
              /\ call'[c].gated = call[c].gated
<1> DEFINE Goal == \/ call'[c] = call[c]
                   \/ call'[c] = Idle
                   \/ /\ call'[c] # Idle /\ call'[c].at = "gated"
                      /\ Earned(call'[c].gated)
                   \/ /\ call[c] # Idle /\ Performing(c)
                      /\ call'[c].event = call[c].event
                      /\ call'[c].amount = call[c].amount
                      /\ call'[c].gated = call[c].gated
<1> USE DEF RecoveryInv
<1>1. ASSUME NEW d \in Caller, Perform(d) PROVE Goal
  <2>1. CASE d = c
    <3>1. call[c] \in Call
      BY <1>1, <2>1, CallParts DEF Perform
    <3>2. call'[c] = [call[c] EXCEPT !.at = "performed"]
      BY <1>1, <2>1 DEF Perform, TypeOK
    <3>3. QED
      BY <1>1, <2>1, <3>1, <3>2 DEF Perform, Call
  <2>2. CASE d # c
    BY <1>1, <2>2 DEF Perform, TypeOK
  <2>3. QED
    BY <2>1, <2>2
<1>2. ASSUME NEW d \in Caller, Finish(d) PROVE Goal
  BY <1>2, FinishTypes
<1>3. ASSUME NEW d \in Caller, NEW e \in EventId, NEW m \in Nat, NEW s \in Situations,
             Earned(s), Begin(d, e, m, s)
      PROVE  Goal
  <2>1. /\ call'[d] = [at |-> "gated", event |-> e, amount |-> m, gated |-> s]
        /\ d # c => call'[c] = call[c]
    BY <1>3, BeginTypes
  <2>2. [at |-> "gated", event |-> e, amount |-> m, gated |-> s] # Idle
    BY DEF Idle
  <2>3. QED
    BY <1>3, <2>1, <2>2
<1>4. ASSUME NEW s \in Server, NEW o \in Order, Approve(s, o) PROVE Goal
  <2>1. <<o, LINK>> \in EventId /\ proposals[s][o] \in Nat /\ s \in Caller
    BY DEF EventId, TypeOK, Caller
  <2>2. Evident(s)[o] \in Situations /\ Evident(s)[o] \in Situation
    BY EvidentIsEvidence, EvidenceIsSituations
  <2>3. CASE schema /\ Chased(s, o)
    <3>1. Earned(Evident(s)[o])
      BY <2>2, <2>3, AllowImpliesEarned DEF Chased
    <3>2. Begin(s, <<o, LINK>>, proposals[s][o], Evident(s)[o])
      BY <1>4, <2>3 DEF Approve
    <3>3. QED
      BY <1>3, <2>1, <2>2, <3>1, <3>2
  <2>4. CASE ~(schema /\ Chased(s, o))
    BY <1>4, <2>4 DEF Approve
  <2>5. QED
    BY <2>3, <2>4
<1>5. ASSUME NEW e \in EventId, DemoExecute(e) PROVE Goal
  <2>1. demo \in [at : {"executing"}, batch : Evidence, pending : SUBSET EventId]
    BY <1>5 DEF DemoExecute, DemoStage, NoDemo, TypeOK
  <2>2. /\ demo.batch[e[1]] \in Situations /\ ChaseAmount(demo.batch[e[1]]) \in Nat
        /\ Earned(demo.batch[e[1]]) /\ "demo" \in Caller
    BY <1>5, <2>1, EventParts, EvidenceIsSituations DEF DemoExecute, PendingEarned, Caller
  <2>3. Begin("demo", e, ChaseAmount(demo.batch[e[1]]), demo.batch[e[1]])
    BY <1>5 DEF DemoExecute
  <2>4. QED
    BY <1>3, <2>2, <2>3
<1>6. CASE call' = call
  BY <1>6
<1>7. QED
  BY <1>1, <1>2, <1>4, <1>5, <1>6 DEF Next, NextServing, ServerStep, DemoStep, Caller, vars,
     ReconcileElsewhere, ProposeRecovery, AdapterFails, Record, Restart, Generate,
     DemoGenerate, DemoRemoveDb, DemoGate, DemoEnds

\* How a step changes the audit table: nothing, a row, or everything gone.
LEMMA AuditSteps ==
    ASSUME TypeOK, [Next]_vars
    PROVE  \/ audit' = audit /\ fresh' = fresh
           \/ \E c \in Caller : /\ call[c] # Idle /\ call[c].at = "performed"
                               /\ Insert(call[c].event, call[c].amount)
           \/ /\ audit' = [e \in EventId |-> NoRow]
              /\ fresh' = [e \in EventId |-> 0]
<1>1. ASSUME NEW c \in Caller, Record(c)
      PROVE  \/ audit' = audit /\ fresh' = fresh
             \/ /\ call[c] # Idle /\ call[c].at = "performed"
                /\ Insert(call[c].event, call[c].amount)
  BY <1>1 DEF Record
<1>2. CASE DemoRemoveDb
  BY <1>2 DEF DemoRemoveDb
<1>3. CASE audit' = audit /\ fresh' = fresh
  BY <1>3
<1>4. QED
  BY <1>1, <1>2, <1>3 DEF Next, NextServing, ServerStep, DemoStep, Caller, vars, diskVars,
     ReconcileElsewhere, ProposeRecovery, Approve, Perform, AdapterFails, Restart, Generate,
     DemoGenerate, DemoGate, DemoExecute, DemoEnds

LEMMA PendingKept ==
    ASSUME RecoveryInv, [Next]_vars
    PROVE  PendingEarned'
<1> USE DEF RecoveryInv
<1>1. CASE DemoGate
  <2>1. demo.batch \in Evidence
    BY <1>1 DEF DemoGate, DemoStage, NoDemo, TypeOK
  <2>2. demo' = [at |-> "executing", batch |-> demo.batch,
                 pending |-> {e \in EventId : Allows(demo.batch[e[1]], LINK, 0, 0, NoConfidence)}]
    BY <1>1 DEF DemoGate
  <2>3. ASSUME NEW e \in demo'.pending PROVE Earned(demo'.batch[e[1]])
    <3>1. e \in EventId /\ Allows(demo.batch[e[1]], LINK, 0, 0, NoConfidence)
      BY <2>2, <2>3
    <3>2. Earned(demo.batch[e[1]])
      BY <2>1, <3>1, EventParts, EvidenceIsSituations, AllowImpliesEarned
    <3>3. QED
      BY <2>2, <3>2
  <2>4. QED
    BY <2>3 DEF PendingEarned
<1>2. ASSUME NEW e \in EventId, DemoExecute(e) PROVE PendingEarned'
  BY <1>2 DEF DemoExecute, PendingEarned
<1>3. CASE demo' = demo
  BY <1>3 DEF PendingEarned
<1>4. CASE demo' = NoDemo \/ DemoGenerate \/ DemoRemoveDb
  BY <1>4 DEF PendingEarned, NoDemo, DemoGenerate, DemoRemoveDb
<1>5. QED
  BY <1>1, <1>2, <1>3, <1>4 DEF Next, NextServing, ServerStep, DemoStep, vars, diskVars,
     ReconcileElsewhere, ProposeRecovery, Approve, Perform, AdapterFails, Record, Restart,
     Generate, DemoEnds

LEMMA RecoveryInvPreserved == RecoveryInv /\ [Next]_vars => RecoveryInv'
<1> SUFFICES ASSUME RecoveryInv, [Next]_vars PROVE RecoveryInv'
  OBVIOUS
<1>1. TypeOK /\ TypeOK'
  BY TypePreserved DEF RecoveryInv
<1>2. CallsGrow /\ NewEntriesFromCalls
  BY <1>1, HistoryGrows
<1>3. NothingBypassesPolicy'
  <2> SUFFICES ASSUME NEW e \in EventId, NEW i \in 1..Len(calls'[e])
               PROVE  Earned(calls'[e][i].gated)
    BY DEF NothingBypassesPolicy
  <2>1. CASE i \in 1..Len(calls[e]) /\ calls'[e][i] = calls[e][i]
    BY <2>1 DEF RecoveryInv, NothingBypassesPolicy
  <2>2. ASSUME NEW c \in Caller, call[c] # Idle, calls'[e][i].gated = call[c].gated
        PROVE  Earned(calls'[e][i].gated)
    BY <2>2 DEF RecoveryInv, CallsEarned
  <2>3. QED
    BY <1>2, <2>1, <2>2 DEF NewEntriesFromCalls
<1>4. CallsEarned'
  <2> SUFFICES ASSUME NEW c \in Caller, call'[c] # Idle PROVE Earned(call'[c].gated)
    BY DEF CallsEarned
  <2>1. QED
    BY CallSteps DEF RecoveryInv, CallsEarned
<1>5. ASSUME NEW c \in Caller PROVE Backed(c)'
  <2> SUFFICES ASSUME call'[c] # Idle, call'[c].at = "performed"
               PROVE  \E i \in 1..Len(calls'[call'[c].event]) :
                        calls'[call'[c].event][i].amount = call'[c].amount
    BY DEF Backed
  <2>1. CASE call'[c] = call[c]
    <3>1. PICK i \in 1..Len(calls[call[c].event]) :
            calls[call[c].event][i].amount = call[c].amount
      BY <2>1 DEF RecoveryInv, Backed
    <3>2. call[c].event \in EventId
      BY <1>1, <2>1, CallParts
    <3>3. QED
      BY <1>2, <2>1, <3>1, <3>2 DEF CallsGrow
  <2>2. CASE /\ call[c] # Idle /\ Performing(c)
             /\ call'[c].event = call[c].event
             /\ call'[c].amount = call[c].amount
    BY <1>1, <2>2, PerformingExtends
  <2>3. QED
    BY <2>1, <2>2, CallSteps
<1>6. RowHasAction'
  <2> SUFFICES ASSUME NEW e \in EventId, audit'[e] # NoRow
               PROVE  \E i \in 1..Len(calls'[e]) : calls'[e][i].amount = audit'[e]
    BY DEF RowHasAction, Recorded
  <2>1. CASE audit'[e] = audit[e]
    <3>1. PICK i \in 1..Len(calls[e]) : calls[e][i].amount = audit[e]
      BY <2>1 DEF RecoveryInv, RowHasAction, Recorded
    <3>2. QED
      BY <1>2, <2>1, <3>1 DEF CallsGrow
  <2>2. ASSUME NEW c \in Caller, call[c] # Idle, call[c].at = "performed",
               Insert(call[c].event, call[c].amount), audit'[e] # audit[e]
        PROVE  \E i \in 1..Len(calls'[e]) : calls'[e][i].amount = audit'[e]
    <3>1. call[c].event \in EventId /\ call[c].amount \in Nat
      BY <1>1, <2>2, CallParts
    <3>2. e = call[c].event /\ audit'[e] = call[c].amount
      BY <1>1, <2>2, <3>1, InsertTypes
    <3>3. PICK i \in 1..Len(calls[e]) : calls[e][i].amount = call[c].amount
      BY <2>2, <3>2 DEF RecoveryInv, Backed
    <3>4. QED
      BY <1>2, <3>2, <3>3 DEF CallsGrow
  <2>3. QED
    BY <1>1, <2>1, <2>2, AuditSteps
<1>7. OneCallerIsFirst'
  <2> SUFFICES ASSUME NEW e \in EventId
               PROVE  fresh'[e] = IF audit'[e] # NoRow THEN 1 ELSE 0
    BY DEF OneCallerIsFirst, Recorded
  <2>1. fresh[e] = IF audit[e] # NoRow THEN 1 ELSE 0
    BY DEF RecoveryInv, OneCallerIsFirst, Recorded
  <2>2. CASE audit' = audit /\ fresh' = fresh
    BY <2>1, <2>2
  <2>3. ASSUME NEW c \in Caller, call[c] # Idle, Insert(call[c].event, call[c].amount)
        PROVE  fresh'[e] = IF audit'[e] # NoRow THEN 1 ELSE 0
    <3>1. call[c].event \in EventId /\ call[c].amount \in Nat
      BY <1>1, <2>3, CallParts
    <3>2. call[c].amount # NoRow
      BY <3>1, RecoveryConstants
    <3>3. CASE e # call[c].event
      BY <1>1, <2>1, <2>3, <3>1, <3>3, InsertTypes
    <3>4. CASE e = call[c].event /\ Recorded(e)
      BY <1>1, <2>1, <2>3, <3>1, <3>4, InsertTypes DEF Recorded
    <3>5. CASE e = call[c].event /\ ~Recorded(e)
      BY <1>1, <2>1, <2>3, <3>1, <3>2, <3>5, InsertTypes DEF Recorded
    <3>6. QED
      BY <3>3, <3>4, <3>5
  <2>4. CASE /\ audit' = [f \in EventId |-> NoRow]
             /\ fresh' = [f \in EventId |-> 0]
    BY <2>4
  <2>5. QED
    BY <1>1, <2>2, <2>3, <2>4, AuditSteps
<1>8. QED
  BY <1>1, <1>3, <1>4, <1>5, <1>6, <1>7, PendingKept DEF RecoveryInv

LEMMA InitRecoveryInv == Init => RecoveryInv
<1> SUFFICES ASSUME Init PROVE RecoveryInv
  OBVIOUS
<1>1. TypeOK
  BY EmptySeq DEF Init, TypeOK
<1>2. \A e \in EventId : audit[e] = NoRow /\ fresh[e] = 0 /\ calls[e] = <<>>
  BY DEF Init
<1>3. RowHasAction /\ OneCallerIsFirst
  BY <1>2 DEF RowHasAction, OneCallerIsFirst, Recorded
<1>4. NothingBypassesPolicy
  BY <1>2, EmptySeq DEF NothingBypassesPolicy
<1>5. \A c \in Caller : call[c] = Idle
  BY DEF Init
<1>6. (\A c \in Caller : Backed(c)) /\ CallsEarned
  BY <1>5 DEF Backed, CallsEarned
<1>7. PendingEarned
  BY DEF Init, PendingEarned, NoDemo
<1>8. QED
  BY <1>1, <1>3, <1>4, <1>6, <1>7 DEF RecoveryInv

LEMMA RecoveryInvariant == Spec => []RecoveryInv
BY InitRecoveryInv, RecoveryInvPreserved, PTL DEF Spec

(***************************************************************************)
(* Every audit row stands for an action performed for its amount           *)
(* (Executor.execute), with any number of servers and orders, killed and   *)
(* failing at any step.                                                    *)
(***************************************************************************)
THEOREM AuditIsHonest == Spec => [](TypeOK /\ RowHasAction)
BY RecoveryInvariant, PTL DEF RecoveryInv

(***************************************************************************)
(* However many callers performed an action, exactly one of them was told  *)
(* that it wrote the row (Executor.execute, INSERT OR IGNORE).             *)
(***************************************************************************)
THEOREM OneCallerIsTold == Spec => []OneCallerIsFirst
BY RecoveryInvariant, PTL DEF RecoveryInv

(***************************************************************************)
(* Nothing reaches an adapter or a draft that the gate, on the evidence of *)
(* its caller, would not pass: proposals older than the evidence, retries, *)
(* restarts and races included (Service.approve, cmd_demo).                *)
(***************************************************************************)
THEOREM PolicyIsNotBypassed == Spec => []NothingBypassesPolicy
BY RecoveryInvariant, PTL DEF RecoveryInv

=============================================================================
