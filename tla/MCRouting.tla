----------------------------- MODULE MCRouting ------------------------------
EXTENDS Routing, TLC

CONSTANTS a, b, c, g1, g2

\* Weight 0 is the invalid one that counts as 1.
MCWeight == [u \in URLs |-> CASE u = a -> 3 [] u = b -> 2 [] OTHER -> 0]

\* None, one, two and three healthy backends, and two orders of the same.
MCLists == {<<>>, <<a>>, <<b, c>>, <<a, b, c>>, <<b, c, a>>}

MCSymmetry == Permutations(Callers)

=============================================================================
