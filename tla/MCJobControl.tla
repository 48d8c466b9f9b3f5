---------------------------- MODULE MCJobControl ----------------------------
(* JobControl on small instances.  Process ids are interchangeable.        *)
EXTENDS JobControlProperties

CONSTANTS p1, p2, p3

TwoPids   == {p1, p2}
ThreePids == {p1, p2, p3}

TwoSymmetric   == Permutations(TwoPids)
ThreeSymmetric == Permutations(ThreePids)
=============================================================================
