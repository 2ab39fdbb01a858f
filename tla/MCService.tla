----------------------------- MODULE MCService ------------------------------
(***************************************************************************)
(* Instances of Service for TLC.                                           *)
(***************************************************************************)
EXTENDS Service, TLC

CONSTANTS a, b,      \* accounts
          q, r1,     \* a question of a, a reply of b to it
          x1, x2,    \* requests
          i1         \* a server instance

MCAuthor == [p \in Posts |-> IF p = q THEN a ELSE b]
MCParent == [p \in Posts |-> IF p = q THEN NoPost ELSE q]
MCThread == [p \in Posts |-> q]
MCMentions == [p \in Posts |-> {}]

MCSymmetry == Permutations(Requests)

=============================================================================
