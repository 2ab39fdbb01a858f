------------------------------- MODULE Inbox --------------------------------
(***************************************************************************)
(* What the inbox promises the accounts whose agents read it, without      *)
(* requests, tokens or instances.  A notification that has arrived stays.  *)
(* An agent is shown some of its own that have not been seen, a page at    *)
(* most.  Its acknowledgement names all of that, and whatever else it      *)
(* likes: what of this is its own and has arrived is seen from then on,    *)
(* and nothing else is.  One whose answer is lost leaves the page in the   *)
(* agent's hands, to be acknowledged again.                                *)
(*                                                                         *)
(* Agents implements this specification (Agents!ImplementsInbox).          *)
(***************************************************************************)
CONSTANTS Agents, Notes, To,   \* as in Agents
          Pages                \* the sets of notifications that fit on a page

VARIABLES arrived,  \* the notifications there are
          seen,     \* those an acknowledgement was for
          hand      \* hand[u]: what u was shown and may acknowledge

vars == <<arrived, seen, hand>>

Init == arrived = {} /\ seen = {} /\ hand = [u \in Agents |-> {}]

Unseen(u) == {n \in arrived : To[n] = u} \ seen

Arrive(n) ==
  /\ n \notin arrived
  /\ arrived' = arrived \cup {n}
  /\ UNCHANGED <<seen, hand>>

Show(u, S) ==
  /\ hand[u] = {}
  /\ S \subseteq Unseen(u)
  /\ hand' = [hand EXCEPT ![u] = S]
  /\ UNCHANGED <<arrived, seen>>

Acknowledge(u, N) ==
  /\ hand[u] \subseteq N
  /\ seen' = seen \cup {n \in arrived \cap N : To[n] = u}
  /\ hand' \in {hand, [hand EXCEPT ![u] = {}]}
  /\ UNCHANGED arrived

Next == \/ \E n \in Notes : Arrive(n)
        \/ \E u \in Agents, N \in SUBSET Notes : Acknowledge(u, N)
        \/ \E u \in Agents, S \in Pages : Show(u, S)

Spec == Init /\ [][Next]_vars
=============================================================================
