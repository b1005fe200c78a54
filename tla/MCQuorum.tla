------------------------------ MODULE MCQuorum ------------------------------
(* Small clusters for module QuorumCommit. *)
EXTENDS QuorumCommit

\* Interrupted runs while standbys and synchronous_node_count change, then calm.
RepairSetup == [nodes |-> {1, 2, 3}, counts |-> {1, 2}, strict |-> TRUE, calmRuns |-> 2, wal |-> 0, failovers |-> 0]
\* The same with failovers instead of a calm end.
FailoverSetup == [nodes |-> {1, 2, 3}, counts |-> {1, 2}, strict |-> FALSE, calmRuns |-> 0, wal |-> 0, failovers |-> 2]
\* Three nodes, a transaction and a failover.
CommitSetup == [nodes |-> {1, 2, 3}, counts |-> {1, 2}, strict |-> FALSE, calmRuns |-> 0, wal |-> 1, failovers |-> 1]
\* A primary and one standby, and transactions.
TwoNodesSetup == [nodes |-> {1, 2}, counts |-> {1}, strict |-> TRUE, calmRuns |-> 0, wal |-> 2, failovers |-> 2]
\* Three nodes, and one transaction.
OneCommitSetup == [nodes |-> {1, 2, 3}, counts |-> {1}, strict |-> FALSE, calmRuns |-> 0, wal |-> 1, failovers |-> 0]

\* Three nodes, one transaction and two failovers.
FormerLeaderSetup == [OneCommitSetup EXCEPT !.failovers = 2]

\* Four nodes: several standbys come and go at once.
FourNodesSetup == [nodes |-> {1, 2, 3, 4}, counts |-> {1, 2, 3}, strict |-> FALSE, calmRuns |-> 0, wal |-> 0, failovers |-> 0]
\* Four nodes and a calm end.
FourCalmSetup == [nodes |-> {1, 2, 3, 4}, counts |-> {1, 2, 3}, strict |-> FALSE, calmRuns |-> 3, wal |-> 0, failovers |-> 0]

MCSetups == {RepairSetup, FailoverSetup, CommitSetup, TwoNodesSetup}
OneCommitOnly == {OneCommitSetup}
FormerLeaderOnly == {FormerLeaderSetup}
FourNodesOnly == {FourNodesSetup}
FourCalmOnly == {FourCalmSetup}
=============================================================================
