------------------------ MODULE MCAvailabilityIndex ------------------------
EXTENDS AvailabilityIndex, TLC

CONSTANTS p1, p2

OneProvider == {<<p1>>}
Reordered   == {<<p1, p2>>, <<p2, p1>>, <<p2>>}

Symmetry == Permutations(Keys)
=============================================================================
