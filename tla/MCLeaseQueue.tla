---------------------------- MODULE MCLeaseQueue ----------------------------
(* Small instances of LeaseQueue for TLC. *)
EXTENDS LeaseQueue, TLC

CONSTANTS c1, c2, j1, j2, s1, s2

\* No job expires within the bounds; or the first one does, in second 1.
NoDeadline == [j \in Jobs |-> 99]
FirstExpires == [j \in Jobs |-> IF j = j1 THEN 1 ELSE 99]

\* Every job is open; or its roster is every client.
OpenRoster == [j \in Jobs |-> {}]
ClosedRoster == [j \in Jobs |-> Clients]

\* Two profiles: the first matches every job, the second none.
TwoProfiles == {1, 2}
MatchFirst == [p \in TwoProfiles |-> IF p = 1 THEN Jobs ELSE {}]

\* Every client may fetch what every job needs; or only the first client may.
AllFetchable == Clients \X Jobs
FirstFetches == {c1} \X Jobs

SlotSymmetry == Permutations(Slots)
=============================================================================
