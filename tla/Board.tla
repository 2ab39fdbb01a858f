------------------------------- MODULE Board --------------------------------
(***************************************************************************)
(* What the write requests promise of the database, whatever happens       *)
(* between their statements: the abstract specification of Store.          *)
(*                                                                         *)
(* There are no statements, locks, failures or requests in progress.  A    *)
(* write takes effect at once, on the posts and edges as they are at that  *)
(* moment, or not at all; and what the repository keeps besides them - the *)
(* counters of user_stats, the notifications, the rows of the outbox -     *)
(* follows from the posts and edges at every moment (Recorded).            *)
(*                                                                         *)
(* Not promised: that the thread of a post is still there when the post is *)
(* deleted or its outcome set, which the handlers read too early for that. *)
(***************************************************************************)
EXTENDS Naturals, FiniteSets

CONSTANTS Users, Posts, NoPost, Author, Parent, Thread,
          Questions,   \* the posts of kind 'question'
          Mentions,    \* the accounts a post mentions
          Admins       \* users with role 'admin'

VARIABLES post, state, follows,                        \* posts, outcomes, edges
          tweets, following, followers, notes, outbox  \* what is kept besides

vars == <<post, state, tweets, following, followers, follows, notes, outbox>>

Replies == {p \in Posts : Parent[p] # NoPost}
Outcomes == {"open", "answered", "tested"}

-----------------------------------------------------------------------------
(* What follows from the posts and the edges *)

Visible(u) == {p \in Posts : post[p] = "visible" /\ Author[p] = u}
Published == {p \in Posts : post[p] # "none"}

\* Who is told of a post: the owners of its parent and of its thread of the
\* reply, the others it mentions of the mention, its author of nothing.
Told(p) ==
  LET owners == IF p \in Replies THEN {Author[Parent[p]], Author[Thread[p]]} ELSE {}
  IN [user : owners \ {Author[p]}, post : {p}, kind : {"reply"}]
       \cup [user : Mentions[p] \ (owners \cup {Author[p]}), post : {p}, kind : {"mention"}]

Recorded ==
  /\ tweets = [u \in Users |-> Cardinality(Visible(u))]
  /\ following = [u \in Users |-> Cardinality({v \in Users : <<u, v>> \in follows})]
  /\ followers = [u \in Users |-> Cardinality({v \in Users : <<v, u>> \in follows})]
  /\ notes = UNION {Told(p) : p \in Published}
  /\ outbox = [t \in {"tweet_created", "tweet_deleted"} |-> [p \in Posts |->
                 IF t = "tweet_created" THEN IF p \in Published \ Replies THEN 1 ELSE 0
                 ELSE IF post[p] = "deleted" THEN 1 ELSE 0]]

-----------------------------------------------------------------------------
(* The writes *)

Publish(p) ==
  /\ post[p] = "none"
  /\ p \in Replies => post[Parent[p]] = "visible" /\ post[Thread[p]] = "visible"
  /\ post' = [post EXCEPT ![p] = "visible"]
  /\ state' = [state EXCEPT ![p] = IF p \in Questions THEN "open" ELSE ""]
  /\ UNCHANGED follows

Delete(u, p) ==
  /\ post[p] = "visible" /\ u \in {Author[p]} \cup Admins
  /\ post' = [post EXCEPT ![p] = "deleted"]
  /\ UNCHANGED <<state, follows>>

SetOutcome(u, p, s) ==
  /\ p \in Questions /\ post[p] = "visible" /\ u = Author[p]
  /\ state' = [state EXCEPT ![p] = s]
  /\ UNCHANGED <<post, follows>>

Follow(u, v) ==
  /\ u # v /\ <<u, v>> \notin follows
  /\ follows' = follows \cup {<<u, v>>}
  /\ UNCHANGED <<post, state>>

Unfollow(u, v) ==
  /\ <<u, v>> \in follows
  /\ follows' = follows \ {<<u, v>>}
  /\ UNCHANGED <<post, state>>

-----------------------------------------------------------------------------
Init == /\ post = [p \in Posts |-> "none"]
        /\ state = [p \in Posts |-> ""]
        /\ follows = {}
        /\ Recorded

Next == /\ \/ \E p \in Posts : Publish(p) \/ \E u \in Users : Delete(u, p)
           \/ \E u \in Users, p \in Posts, s \in Outcomes : SetOutcome(u, p, s)
           \/ \E u, v \in Users : Follow(u, v) \/ Unfollow(u, v)
        /\ Recorded'

Spec == Init /\ [][Next]_vars

-----------------------------------------------------------------------------
(* What the board is like, and so the database *)

\* No reply without the posts it answers: a thread is published from its root
\* downwards and nothing is ever unpublished, only marked as deleted.
ThreadsWhole ==
  \A p \in Replies : post[p] # "none" => post[Parent[p]] # "none" /\ post[Thread[p]] # "none"

\* Whatever was ever published and is a question has an outcome, nothing else has.
OutcomesOfQuestions == \A p \in Posts : state[p] # "" <=> p \in Questions \cap Published

=============================================================================
