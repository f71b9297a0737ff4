-------------------------- MODULE MCReviewRecords --------------------------
(* Judgements, patches and the symmetry of tenants for TLC.                *)
EXTENDS ReviewRecords, TLC

Rejected == [useful |-> FALSE, confidence |-> 900, comment |-> FALSE]
Doubtful == [useful |-> TRUE, confidence |-> 300, comment |-> FALSE]
Borderline == [useful |-> TRUE, confidence |-> 650, comment |-> FALSE]

MCJudgements == {<<Rejected, Doubtful>>, <<Doubtful, Borderline>>}

MCPatches == {[status |-> "resolved"], [assignee |-> "ann"]}

TenantSymmetry == Permutations(Tenants)
=============================================================================
