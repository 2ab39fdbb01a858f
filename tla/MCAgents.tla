------------------------------ MODULE MCAgents ------------------------------
(* The agent of a, on an inbox of two notifications and pages of one, and    *)
(* one of b; an old instance without the inbox (i1) beside a new one (i2).    *)
(* The first migration stands for 001 and 002, the second for 003.          *)
EXTENDS Agents, TLC

CONSTANTS i1, i2, a, b, q

MCEmbedded == (i1 :> 1) @@ (i2 :> 2)
MCTo == 1 :> a @@ 2 :> a @@ 3 :> b
MCSubject == 1 :> {} @@ 2 :> {q} @@ 3 :> {}   \* nobody deletes the posts of 1 and 3
=============================================================================
