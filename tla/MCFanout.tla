------------------------------ MODULE MCFanout ------------------------------
(***************************************************************************)
(* Instances of Fanout for TLC.                                            *)
(***************************************************************************)
EXTENDS Fanout, TLC

CONSTANTS a, b, c,     \* accounts
          p1, p2, r1,  \* a post of a, a post of b, and a reply of b to p1
          i1, i2       \* server instances

MCAuthor == [p \in Posts |-> IF p = p1 THEN a ELSE b]
MCParent == [p \in Posts |-> IF p = r1 THEN p1 ELSE NoPost]
MCThread == [p \in Posts |-> IF p = r1 THEN p1 ELSE p]

MCSymmetry == Permutations({i1, i2})

=============================================================================
