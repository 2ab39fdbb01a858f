------------------------------ MODULE MCStore -------------------------------
(***************************************************************************)
(* Instances of Store for TLC.                                             *)
(***************************************************************************)
EXTENDS Store, TLC

CONSTANTS a, b, c,      \* accounts
          q, r1, r2,    \* a question of a, a reply of b to it, a reply of a to the reply
          x1, x2, x3    \* requests

MCAuthor == [p \in Posts |-> IF p = r1 THEN b ELSE a]
MCParent == [p \in Posts |-> IF p = q THEN NoPost ELSE IF p = r1 THEN q ELSE r1]
MCBothToQuestion == [p \in Posts |-> IF p = q THEN NoPost ELSE q]   \* both replies are to q
MCThread == [p \in Posts |-> q]
MCMentions == [p \in Posts |-> Users]

MCSymmetry == Permutations(Requests)

=============================================================================
