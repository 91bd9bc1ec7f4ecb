----------------------------- MODULE MCCluster ------------------------------
EXTENDS Cluster

CONSTANTS b1, b2

FixedOrder == {<<b1, b2>>}
AnyOrder == {}

=============================================================================
