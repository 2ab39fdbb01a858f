------------------------------ MODULE HomeFeed ------------------------------
(***************************************************************************)
(* What the home timeline promises its readers, with the delivery left     *)
(* open: no outbox, no workers, no retries.  A post is in its author's     *)
(* feed from the moment it is published and in no feed at all from the     *)
(* moment it is deleted.  In between it may be delivered, any number of    *)
(* times; a delivery reaches every user who has followed the author ever   *)
(* since the publication, and nobody who has not followed at some moment   *)
(* since the publication.  Following and unfollowing change no feed.       *)
(*                                                                         *)
(* Fanout implements this specification (Fanout!ImplementsHomeFeed).       *)
(***************************************************************************)
EXTENDS FiniteSets

CONSTANTS Users,      \* accounts
          Posts,      \* posts and replies that may be written
          Author,     \* the account that writes each of them, in [Posts -> Users]
          TopLevel    \* the posts that are not replies; only these are in feeds

VARIABLES post,       \* "none", "visible" or "deleted"
          follows,    \* <<u, v>>: u follows v
          loyal,      \* loyal[p]: who has followed the author since p was published
          audience,   \* audience[p]: who has followed at some moment since then
          feed        \* feed[u]: the posts in the home timeline of u

vars == <<post, follows, loyal, audience, feed>>

FollowersOf(v) == {u \in Users : <<u, v>> \in follows}

Init == /\ post = [p \in Posts |-> "none"]
        /\ follows \in SUBSET {e \in Users \X Users : e[1] # e[2]}
        /\ loyal = [p \in Posts |-> {}]
        /\ audience = [p \in Posts |-> {}]
        /\ feed = [u \in Users |-> {}]

Publish(p) ==
  /\ post[p] = "none"
  /\ post' = [post EXCEPT ![p] = "visible"]
  /\ feed' = [u \in Users |-> IF p \in TopLevel /\ u = Author[p]
                              THEN feed[u] \cup {p} ELSE feed[u]]
  /\ LET now == IF p \in TopLevel THEN FollowersOf(Author[p]) ELSE {}
     IN /\ loyal' = [loyal EXCEPT ![p] = now]
        /\ audience' = [audience EXCEPT ![p] = now]
  /\ UNCHANGED follows

Delete(p) ==
  /\ post[p] = "visible"
  /\ post' = [post EXCEPT ![p] = "deleted"]
  /\ feed' = [u \in Users |-> feed[u] \ {p}]
  /\ loyal' = [loyal EXCEPT ![p] = {}]
  /\ audience' = [audience EXCEPT ![p] = {}]
  /\ UNCHANGED follows

Deliver(p, S) ==
  /\ p \in TopLevel /\ post[p] = "visible"
  /\ loyal[p] \subseteq S /\ S \subseteq audience[p]
  /\ feed' = [u \in Users |-> IF u \in S THEN feed[u] \cup {p} ELSE feed[u]]
  /\ UNCHANGED <<post, follows, loyal, audience>>

Follow(u, v) ==
  /\ u # v
  /\ follows' = follows \cup {<<u, v>>}
  /\ audience' = [p \in Posts |-> IF p \in TopLevel /\ post[p] = "visible" /\ Author[p] = v
                                  THEN audience[p] \cup {u} ELSE audience[p]]
  /\ UNCHANGED <<post, loyal, feed>>

Unfollow(u, v) ==
  /\ follows' = follows \ {<<u, v>>}
  /\ loyal' = [p \in Posts |-> IF Author[p] = v THEN loyal[p] \ {u} ELSE loyal[p]]
  /\ UNCHANGED <<post, audience, feed>>

Next == \/ \E p \in Posts : Publish(p) \/ Delete(p)
        \/ \E p \in Posts : \E S \in SUBSET Users : Deliver(p, S)
        \/ \E u, v \in Users : Follow(u, v) \/ Unfollow(u, v)

Spec == Init /\ [][Next]_vars

=============================================================================
