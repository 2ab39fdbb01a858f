------------------------------- MODULE Quota --------------------------------
(***************************************************************************)
(* What the rate limiter promises its clients, without a map, a counter or *)
(* a sweep: the first request of a client opens a window, in which its     *)
(* requests pass until Limit of them have; the next one after the window   *)
(* opens another.  A client is told nothing of the others.                 *)
(*                                                                         *)
(* RateLimit implements this specification (RateLimit!ImplementsQuota).    *)
(***************************************************************************)
EXTENDS Integers

CONSTANTS Clients, Limit, Window, Burst   \* as in RateLimit

VARIABLES left,     \* left[k]: when the window of k ends, -1 when it has none
          granted,  \* granted[k][n]: what passed in the last n ticks and this one
          asked     \* requests since the last tick, which Burst bounds

vars == <<left, granted, asked>>

Spans == 0..Window

Init == /\ left = [k \in Clients |-> -1]
        /\ granted = [k \in Clients |-> [n \in Spans |-> 0]]
        /\ asked = [k \in Clients |-> 0]

\* What has passed in the window of k is read off the log.
Spent(k) == granted[k][Window - left[k]] = Limit

Grant(k) == granted' = [granted EXCEPT ![k] = [n \in Spans |-> @[n] + 1]]

Request(k) ==
  /\ asked[k] < Burst
  /\ asked' = [asked EXCEPT ![k] = @ + 1]
  /\ \/ left[k] < 0 /\ left' = [left EXCEPT ![k] = Window] /\ Grant(k)
     \/ left[k] >= 0 /\ ~Spent(k) /\ Grant(k) /\ UNCHANGED left
     \/ left[k] >= 0 /\ Spent(k) /\ UNCHANGED <<left, granted>>

Tick ==
  /\ left' = [k \in Clients |-> IF left[k] < 0 THEN -1 ELSE left[k] - 1]
  /\ granted' = [k \in Clients |-> [n \in Spans |-> IF n = 0 THEN 0 ELSE granted[k][n - 1]]]
  /\ asked' = [k \in Clients |-> 0]

Next == (\E k \in Clients : Request(k)) \/ Tick

Spec == Init /\ [][Next]_vars
=============================================================================
