-------------------------- MODULE MCRuleLifecycle ---------------------------
(* One rule, two callers, two operators who would allow different things, and *)
(* capabilities that compete for every step.                                  *)
EXTENDS RuleLifecycle, TLC

CONSTANTS r1, r2, p1, p2, o1, o2, ana, ben, corpora

Callers == Permutations(Caller)

\* The second operator allows Ben nothing.
MCAllowance ==
    (o1 :> [a \in Analyst |-> HumanAction]) @@
    (o2 :> ((ana :> HumanAction) @@ (ben :> {"APPROVE"})))

Cap(nonce, actor, action, subject, version, expires) ==
    [nonce |-> nonce, actor |-> actor, action |-> action, subject |-> subject,
     version |-> version, expires |-> expires]

MCCapability == {
    Cap(1, ana, "RESOLVE", r1, 1, 2), Cap(2, ben, "RESOLVE", r1, 2, 1),
    Cap(3, ana, "IMPORT_REPLAY", corpora, 1, 2), Cap(4, ben, "IMPORT_REPLAY", corpora, 1, 1),
    Cap(5, ana, "APPROVE", r1, 2, 2), Cap(6, ben, "APPROVE", r1, 2, 1),
    Cap(7, ana, "APPROVE", r1, 3, 2),
    Cap(8, ana, "ACTIVATE", r1, 3, 1), Cap(9, ana, "ACTIVATE", r1, 3, 2),
    Cap(10, ben, "RESOLVE", r2, 1, 2), Cap(11, ana, "APPROVE", r2, 2, 2)}

Result(before, after, valid) ==
    [before_correct |-> TRUE, after_correct |-> TRUE, before_wrong_paise |-> before,
     after_wrong_paise |-> after, after_proof_valid |-> valid,
     before_safe_coverage |-> 0, after_safe_coverage |-> 1]

\* In the second corpus one case gains a paisa and another loses it.
MCConfirmed == {<<Result(1, 0, TRUE)>>, <<Result(1, 0, TRUE), Result(0, 1, TRUE)>>}
MCAttack == {<<Result(0, 0, TRUE)>>}

=============================================================================
