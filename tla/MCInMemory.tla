----------------------------- MODULE MCInMemory -----------------------------
EXTENDS InMemory

CONSTANTS b1, b2, b3, weak, strong

MCSourceOf == [u \in URLs |-> IF u = b3 THEN weak ELSE strong]

\* Filter is SelectSeq on every sequence of up to four.
ASSUME FilterIsSelectSeq ==
  \A n \in 0 .. 4 : \A s \in [1 .. n -> 1 .. 3], S \in SUBSET (1 .. 3) :
    Filter(s, S) = SelectSeq(s, LAMBDA x : x \in S)

MCSymmetry == Permutations(Refs)

=============================================================================
