-------------------------- MODULE MCEligibleIndex --------------------------
(* Small instances of EligibleIndex for TLC. *)
EXTENDS EligibleIndex

CONSTANTS c1, c2, j1, j2

\* Every job is promoted with the first deadline.
FirstDeadline == [j \in Jobs |-> 0]

\* Two profiles: the first matches every job, the second none.
TwoProfiles == {1, 2}
MatchFirst == [p \in TwoProfiles |-> IF p = 1 THEN Jobs ELSE {}]
=============================================================================
