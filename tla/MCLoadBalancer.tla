--------------------------- MODULE MCLoadBalancer ---------------------------
EXTENDS LoadBalancer, TLC

CONSTANTS b1, b2, strong

MCSourceOf == [u \in URLs |-> strong]

MCSymmetry == Permutations(Requests) \cup Permutations({b1, b2})

=============================================================================
