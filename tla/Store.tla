------------------------------- MODULE Store --------------------------------
(***************************************************************************)
(* The write transactions of the repository, statement by statement, under *)
(* the row locks PostgreSQL takes at READ COMMITTED: publishing a post or  *)
(* a reply (CreatePostWithOutbox), deleting (DeletePost), following and    *)
(* unfollowing (Follow, Unfollow) and setting the outcome of a question    *)
(* (SetQuestionState, one statement), with the read their handlers do      *)
(* first (GetPostByID).                                                    *)
(*                                                                         *)
(* The variables of the database hold what is committed; what a            *)
(* transaction has written is private to it until Commit.  Statements that *)
(* neither wait nor are seen by others before the commit are folded into   *)
(* the next one that may wait.                                             *)
(***************************************************************************)
EXTENDS Naturals, Sequences, FiniteSets

CONSTANTS Users, Posts, NoPost, Author, Parent, Thread,
          Questions,   \* the posts of kind 'question'
          Mentions,    \* Mentions[p]: the accounts MentionUsernames finds in p
          Admins,      \* users with role 'admin'
          Requests,    \* requests that may be in progress at the same time
          Nobody,      \* the owner of a free lock
          Ops          \* the operations a run asks for

TopLevel == {p \in Posts : Parent[p] = NoPost}
QuestionStates == {"open", "answered", "tested"}

ASSUME StoreAssumption ==
  /\ IsFiniteSet(Users) /\ IsFiniteSet(Posts)
  /\ NoPost \notin Posts /\ Nobody \notin Requests
  /\ Author \in [Posts -> Users]
  /\ Parent \in [Posts -> Posts \cup {NoPost}]
  /\ Thread \in [Posts -> Posts]
  /\ \A p \in Posts : Thread[p] = IF Parent[p] = NoPost THEN p ELSE Thread[Parent[p]]
  /\ Questions \subseteq TopLevel
  /\ Mentions \in [Posts -> SUBSET Users]
  /\ Admins \subseteq Users
  /\ Ops \subseteq {"create", "delete", "follow", "unfollow"} \cup QuestionStates

\* What is asked for: a post to write or delete, a question to set to the
\* state that op names, an account to follow or not.
Jobs == [op : Ops \cap {"create"}, user : Users, on : Posts]
          \cup [op : Ops \cap ({"delete"} \cup QuestionStates), user : Users, on : Posts]
          \cup [op : Ops \cap {"follow", "unfollow"}, user : Users, on : Users]

Tweet(p) == <<"tweets", p>>
Stats(u) == <<"user_stats", u>>
Edge(u, v) == <<"follows", <<u, v>>>>
Rows == {Tweet(p) : p \in Posts} \cup {Stats(u) : u \in Users}
          \cup {Edge(u, v) : u, v \in Users}

VARIABLES post,       \* tweets.status, "none" before the insert
          state,      \* tweets.question_state, "" when it is not a question
          tweets, following, followers,  \* the counters of user_stats
          follows,    \* table follows
          notes,      \* table notifications, as [user, post, kind]
          outbox,     \* how many rows of each type there are for each post
          owner,      \* who holds the row exclusively
          sharers,    \* who holds the row FOR SHARE
          pc, job     \* where each request is, and what it is about

database == <<post, state, tweets, following, followers, follows, notes, outbox>>
locks == <<owner, sharers>>
vars == <<database, locks, pc, job>>

InTransaction == {"parent", "root", "row", "edge", "stats", "stats2", "commit"}
Control == {"idle", "check"} \cup InTransaction
NoJob == [op |-> "none", user |-> Nobody, on |-> Nobody]

TypeOK == /\ post \in [Posts -> {"none", "visible", "deleted"}]
          /\ state \in [Posts -> QuestionStates \cup {""}]
          /\ tweets \in [Users -> Nat]
          /\ following \in [Users -> Nat]
          /\ followers \in [Users -> Nat]
          /\ follows \subseteq Users \X Users
          /\ notes \subseteq [user : Users, post : Posts, kind : {"reply", "mention"}]
          /\ outbox \in [{"tweet_created", "tweet_deleted"} -> [Posts -> Nat]]
          /\ owner \in [Rows -> Requests \cup {Nobody}]
          /\ sharers \in [Posts -> SUBSET Requests]
          /\ pc \in [Requests -> Control]
          /\ job \in [Requests -> Jobs \cup {NoJob}]

Init == /\ post = [p \in Posts |-> "none"]
        /\ state = [p \in Posts |-> ""]
        /\ tweets = [u \in Users |-> 0]
        /\ following = [u \in Users |-> 0]
        /\ followers = [u \in Users |-> 0]
        /\ follows = {}
        /\ notes = {}
        /\ outbox = [t \in {"tweet_created", "tweet_deleted"} |-> [p \in Posts |-> 0]]
        /\ owner = [x \in Rows |-> Nobody]
        /\ sharers = [p \in Posts |-> {}]
        /\ pc = [r \in Requests |-> "idle"]
        /\ job = [r \in Requests |-> NoJob]

-----------------------------------------------------------------------------
(* Locks *)

\* Who else keeps r from locking the row exclusively.
Blockers(r, x) ==
  ({owner[x]} \ {Nobody, r}) \cup UNION {sharers[p] \ {r} : p \in {q \in Posts : x = Tweet(q)}}

Acquire(r, x) == Blockers(r, x) = {} /\ owner' = [owner EXCEPT ![x] = r] /\ UNCHANGED sharers

Release(r) ==
  /\ owner' = [x \in Rows |-> IF owner[x] = r THEN Nobody ELSE owner[x]]
  /\ sharers' = [p \in Posts |-> sharers[p] \ {r}]

-----------------------------------------------------------------------------
(* The order of the statements *)

IsFollow(j) == j.op \in {"follow", "unfollow"}

\* DeletePost that updates the counter before the post (mutant).
PlanStatsFirst(j) ==
  CASE j.op = "create" /\ j.on \in TopLevel    -> <<"stats", "commit">>
    [] j.op = "create" /\ j.on \notin TopLevel -> <<"parent", "root", "stats", "commit">>
    [] j.op = "delete"                         -> <<"check", "stats", "row", "commit">>
    [] j.op \in QuestionStates                 -> <<"check", "row">>
    [] IsFollow(j)                             -> <<"edge", "stats", "stats2", "commit">>

\* The statements that may wait, in the order each operation issues them.
Plan(j) ==
  CASE j.op = "create" /\ j.on \in TopLevel    -> <<"stats", "commit">>
    [] j.op = "create" /\ j.on \notin TopLevel -> <<"parent", "root", "stats", "commit">>
    [] j.op = "delete"                         -> <<"check", "row", "stats", "commit">>
    [] j.op \in QuestionStates                 -> <<"check", "row">>
    [] IsFollow(j)                             -> <<"edge", "stats", "stats2", "commit">>

\* On to the next statement.
Proceed(r) ==
  LET plan == Plan(job[r])
  IN /\ \E k \in 1..(Len(plan) - 1) : plan[k] = pc[r] /\ pc' = [pc EXCEPT ![r] = plan[k + 1]]
     /\ UNCHANGED job

\* The request is answered: nothing of it is left.
Answer(r) == pc' = [pc EXCEPT ![r] = "idle"] /\ job' = [job EXCEPT ![r] = NoJob]

-----------------------------------------------------------------------------
(* Requests *)

\* Every post has an id of its own (a fresh ULID); the Follow handler refuses
\* following oneself, the Unfollow handler lets it through.
Accepted(j) ==
  /\ j.op = "create" => /\ j.user = Author[j.on] /\ post[j.on] = "none"
                        /\ \A r \in Requests : job[r] # j
  /\ j.op = "follow" => j.user # j.on

Begin(r) ==
  /\ pc[r] = "idle"
  /\ \E j \in Jobs :
       /\ Accepted(j)
       /\ job' = [job EXCEPT ![r] = j]
       /\ pc' = [pc EXCEPT ![r] = Plan(j)[1]]
  /\ UNCHANGED <<database, locks>>

\* GetPostByID finds posts of any status, unless the root of their thread is gone.
Found(p) == post[p] # "none" /\ (p \notin TopLevel => post[Thread[p]] = "visible")

\* What the handlers check on the post they have read, before they write.
Allowed(j) ==
  /\ Found(j.on)
  /\ IF j.op = "delete" THEN j.user = Author[j.on] \/ j.user \in Admins
     ELSE post[j.on] = "visible" /\ j.user = Author[j.on] /\ j.on \in Questions

Check(r) ==
  /\ pc[r] = "check"
  /\ IF Allowed(job[r]) THEN Proceed(r) ELSE Answer(r)
  /\ UNCHANGED <<database, locks>>

\* CreatePostWithOutbox: SELECT ... WHERE status = 'visible' FOR SHARE, first of
\* the parent and then of the root.  A row that is not there, or not visible, is
\* ErrPostUnavailable; a row being deleted is waited for.
Share(r, p) ==
  /\ post[p] = "visible" /\ owner[Tweet(p)] = Nobody
  /\ sharers' = [sharers EXCEPT ![p] = @ \cup {r}]
  /\ UNCHANGED owner

\* SELECT without FOR SHARE (mutant).
ReadOnly(r, p) == post[p] = "visible" /\ UNCHANGED locks

LockForReply(r, p) == Share(r, p)

LockParent(r) ==
  /\ pc[r] = "parent"
  /\ LockForReply(r, Parent[job[r].on])
  /\ Proceed(r)
  /\ UNCHANGED database

LockRoot(r) ==
  /\ pc[r] = "root"
  /\ LockForReply(r, Thread[job[r].on])
  /\ Proceed(r)
  /\ UNCHANGED database

PostUnavailable(r) ==
  /\ \/ pc[r] = "parent" /\ post[Parent[job[r].on]] # "visible"
     \/ pc[r] = "root" /\ post[Thread[job[r].on]] # "visible"
  /\ Release(r) /\ Answer(r)
  /\ UNCHANGED database

\* DeletePost that takes the row whatever its status (mutant).
LockPostAnyStatus(r) ==
  /\ pc[r] = "row" /\ job[r].op = "delete"
  /\ Acquire(r, Tweet(job[r].on))
  /\ Proceed(r)
  /\ UNCHANGED database

\* DeletePost: UPDATE tweets ... WHERE id = $1 AND status = 'visible' RETURNING.
LockPost(r) ==
  /\ pc[r] = "row" /\ job[r].op = "delete"
  /\ post[job[r].on] = "visible"
  /\ Acquire(r, Tweet(job[r].on))
  /\ Proceed(r)
  /\ UNCHANGED database

\* SetQuestionState that trusts what the handler has read (mutant).
SetStateUnchecked(r) ==
  /\ pc[r] = "row" /\ job[r].op \in QuestionStates
  /\ Blockers(r, Tweet(job[r].on)) = {}
  /\ state' = [state EXCEPT ![job[r].on] = job[r].op]
  /\ Answer(r)
  /\ UNCHANGED <<post, tweets, following, followers, follows, notes, outbox, locks>>

\* SetQuestionState is one statement, committed at once; its WHERE repeats
\* what the handler has checked.
SetQuestionState(r) ==
  /\ pc[r] = "row" /\ job[r].op \in QuestionStates
  /\ post[job[r].on] = "visible" /\ job[r].user = Author[job[r].on] /\ job[r].on \in Questions
  /\ Blockers(r, Tweet(job[r].on)) = {}
  /\ state' = [state EXCEPT ![job[r].on] = job[r].op]
  /\ Answer(r)
  /\ UNCHANGED <<post, tweets, following, followers, follows, notes, outbox, locks>>

\* Either update finds no visible row: pgx.ErrNoRows, or false.
PostGone(r) ==
  /\ pc[r] = "row" /\ post[job[r].on] # "visible"
  /\ Release(r) /\ Answer(r)
  /\ UNCHANGED database

\* Follow and Unfollow that do not look at RowsAffected (mutant).
WriteEdgeAlways(r) ==
  /\ pc[r] = "edge"
  /\ Acquire(r, Edge(job[r].user, job[r].on))
  /\ Proceed(r)
  /\ UNCHANGED database

\* Follow: INSERT ... ON CONFLICT DO NOTHING waits for a transaction that is
\* writing the same edge.  Unfollow: DELETE waits for one that is deleting it,
\* and does not see one that is being inserted.
WriteEdge(r) ==
  LET u == job[r].user  v == job[r].on
  IN /\ pc[r] = "edge"
     /\ <<u, v>> \in follows <=> job[r].op = "unfollow"
     /\ Acquire(r, Edge(u, v))
     /\ Proceed(r)
     /\ UNCHANGED database

\* RowsAffected() = 0: the counters are left alone.
EdgeUnchanged(r) ==
  LET u == job[r].user  v == job[r].on
  IN /\ pc[r] = "edge"
     /\ <<u, v>> \in follows <=> job[r].op = "follow"
     /\ job[r].op = "follow" => Blockers(r, Edge(u, v)) = {}
     /\ Answer(r)
     /\ UNCHANGED <<database, locks>>

\* The stats rows a transaction updates: the first, and for a follow the second.
\* CreatePostWithOutbox and DeletePost update that of the author.
FirstStats(j) == IF IsFollow(j) THEN Stats(j.user) ELSE Stats(Author[j.on])

UpdateStats(r) ==
  /\ pc[r] = "stats"
  /\ Acquire(r, FirstStats(job[r]))
  /\ Proceed(r)
  /\ UNCHANGED database

UpdateStats2(r) ==
  /\ pc[r] = "stats2"
  /\ Acquire(r, Stats(job[r].on))
  /\ Proceed(r)
  /\ UNCHANGED database

-----------------------------------------------------------------------------
(* Commit *)

Decrease(n) == IF n = 0 THEN 0 ELSE n - 1   \* GREATEST(n - 1, 0)

\* Mentions added without regard to the replies (mutant).
NotifiedTwice(p) ==
  LET owners == IF p \in TopLevel THEN {} ELSE {Author[Parent[p]], Author[Thread[p]]}
  IN [user : owners \ {Author[p]}, post : {p}, kind : {"reply"}]
       \cup [user : Mentions[p] \ {Author[p]}, post : {p}, kind : {"mention"}]

\* A kind the inbox does not know (mutant).
NotifiedOfThread(p) ==
  [user : (IF p \in TopLevel THEN {} ELSE {Author[Thread[p]]}) \ {Author[p]},
   post : {p}, kind : {"thread"}]

\* The notifications of a post: the owners of its parent and of its thread,
\* then, ON CONFLICT DO NOTHING, those it mentions; never its author.
Notified(p) ==
  LET owners == IF p \in TopLevel THEN {} ELSE {Author[Parent[p]], Author[Thread[p]]}
  IN [user : owners \ {Author[p]}, post : {p}, kind : {"reply"}]
       \cup [user : (Mentions[p] \ owners) \ {Author[p]}, post : {p}, kind : {"mention"}]

CommitCreate(p) ==
  /\ post' = [post EXCEPT ![p] = "visible"]
  /\ state' = [state EXCEPT ![p] = IF p \in Questions THEN "open" ELSE ""]
  /\ tweets' = [tweets EXCEPT ![Author[p]] = @ + 1]
  /\ outbox' = IF p \in TopLevel THEN [outbox EXCEPT !["tweet_created"][p] = @ + 1] ELSE outbox
  /\ notes' = notes \cup Notified(p)
  /\ UNCHANGED <<following, followers, follows>>

CommitDelete(p) ==
  /\ post' = [post EXCEPT ![p] = "deleted"]
  /\ tweets' = [tweets EXCEPT ![Author[p]] = Decrease(@)]
  /\ outbox' = [outbox EXCEPT !["tweet_deleted"][p] = @ + 1]
  /\ UNCHANGED <<state, following, followers, follows, notes>>

CommitFollow(u, v) ==
  /\ follows' = follows \cup {<<u, v>>}
  /\ following' = [following EXCEPT ![u] = @ + 1]
  /\ followers' = [followers EXCEPT ![v] = @ + 1]
  /\ UNCHANGED <<post, state, tweets, notes, outbox>>

CommitUnfollow(u, v) ==
  /\ follows' = follows \ {<<u, v>>}
  /\ following' = [following EXCEPT ![u] = Decrease(@)]
  /\ followers' = [followers EXCEPT ![v] = Decrease(@)]
  /\ UNCHANGED <<post, state, tweets, notes, outbox>>

Commit(r) ==
  /\ pc[r] = "commit"
  /\ \/ job[r].op = "create" /\ CommitCreate(job[r].on)
     \/ job[r].op = "delete" /\ CommitDelete(job[r].on)
     \/ job[r].op = "follow" /\ CommitFollow(job[r].user, job[r].on)
     \/ job[r].op = "unfollow" /\ CommitUnfollow(job[r].user, job[r].on)
  /\ Release(r) /\ Answer(r)

-----------------------------------------------------------------------------
(* Failures *)

\* A failed statement that leaves its transaction open (mutant).
RollbackLeaks(r) == pc[r] \in InTransaction /\ Answer(r) /\ UNCHANGED <<database, locks>>

\* A statement fails, the client is gone or the process dies: the transaction
\* is rolled back (defer tx.Rollback, or the server noticing the lost session).
Rollback(r) ==
  /\ pc[r] \in InTransaction
  /\ Release(r) /\ Answer(r)
  /\ UNCHANGED database

\* The requests that r is waiting for.
WaitsFor(r) ==
  LET j == job[r]
      sharing(p) == IF post[p] = "visible" THEN {owner[Tweet(p)]} \ {Nobody} ELSE {}
  IN CASE pc[r] = "parent" -> sharing(Parent[j.on])
       [] pc[r] = "root"   -> sharing(Thread[j.on])
       [] pc[r] = "row"    -> IF post[j.on] = "visible" THEN Blockers(r, Tweet(j.on)) ELSE {}
       [] pc[r] = "edge"   -> IF j.op = "unfollow" /\ <<j.user, j.on>> \notin follows
                              THEN {} ELSE Blockers(r, Edge(j.user, j.on))
       [] pc[r] = "stats"  -> Blockers(r, FirstStats(j))
       [] pc[r] = "stats2" -> Blockers(r, Stats(j.on))
       [] OTHER            -> {}

\* Requests that wait for each other in a circle: no smaller set does.
Knot(S) == S # {} /\ \A r \in S : WaitsFor(r) \cap S # {}
Circle(S) == Knot(S) /\ \A T \in SUBSET S : Knot(T) => T = S

\* The deadlock detector of PostgreSQL aborts one of them.
AbortDeadlocked(r) ==
  /\ WaitsFor(r) # {}
  /\ \E S \in SUBSET Requests : r \in S /\ Circle(S)
  /\ Release(r) /\ Answer(r)
  /\ UNCHANGED database

-----------------------------------------------------------------------------
Step(r) == \/ Check(r)
           \/ LockParent(r) \/ LockRoot(r) \/ PostUnavailable(r)
           \/ LockPost(r) \/ SetQuestionState(r) \/ PostGone(r)
           \/ WriteEdge(r) \/ EdgeUnchanged(r)
           \/ UpdateStats(r) \/ UpdateStats2(r)
           \/ Commit(r)

Next == \E r \in Requests : Begin(r) \/ Step(r) \/ Rollback(r) \/ AbortDeadlocked(r)

Spec == Init /\ [][Next]_vars

\* A request goes on.  One that waits for a row which is free again and again
\* gets it some day (PostgreSQL queues the waiters of a tuple, although one that
\* comes by may be quicker): strong fairness.  That is no promise to an update
\* that waits for the sharers of a row: a SELECT ... FOR SHARE joins these past
\* it, so the row need never be free (RequestsAnswered).  And the deadlock
\* detector runs.
FairSpec == /\ Spec
            /\ \A r \in Requests : SF_vars(Step(r))
            /\ WF_vars(\E r \in Requests : AbortDeadlocked(r))

-----------------------------------------------------------------------------
(* Safety *)

\* The three counters of user_stats are the posts and the edges there are, whatever
\* requests are repeated, run at the same time, or fail half-way.
CountersExact ==
  \A u \in Users :
    /\ tweets[u] = Cardinality({p \in Posts : post[p] = "visible" /\ Author[p] = u})
    /\ following[u] = Cardinality({v \in Users : <<u, v>> \in follows})
    /\ followers[u] = Cardinality({v \in Users : <<v, u>> \in follows})

\* Each publication of a top-level post and each deletion left exactly one row
\* in the outbox, and nothing else did (CreatePostWithOutbox, DeletePost).
OneEventPerChange ==
  \A p \in Posts :
    /\ outbox["tweet_created"][p] = IF p \in TopLevel /\ post[p] # "none" THEN 1 ELSE 0
    /\ outbox["tweet_deleted"][p] = IF post[p] = "deleted" THEN 1 ELSE 0

\* "Lock the referenced posts until commit so deletion cannot race a reply":
\* when a reply appears, its parent and the root of its thread are still there.
RepliesJoinLiveThreads ==
  [][\A p \in Posts \ TopLevel :
       post[p] = "none" /\ post'[p] = "visible" =>
         post[Parent[p]] = "visible" /\ post[Thread[p]] = "visible"]_vars

\* A deleted question keeps the state it had, although the handler of the
\* update looks at the question in an earlier statement (SetQuestionState).
DeletedQuestionsFrozen == [][\A p \in Posts : post[p] = "deleted" => state'[p] = state[p]]_vars

\* One notification per recipient and post, even if the recipient owns both
\* the parent and the thread and is mentioned too, and none for its author.
OneNotificationEach ==
  /\ \A m, n \in notes : m.user = n.user /\ m.post = n.post => m = n
  /\ \A n \in notes : n.user # Author[n.post]

\* Only follows and unfollows can deadlock, which lock the stats of two users
\* in the order of the request; posts and their counters are always locked in
\* one order (CreatePostWithOutbox, DeletePost).
OnlyFollowsDeadlock ==
  \A S \in SUBSET Requests : Circle(S) => \A r \in S : IsFollow(job[r])

\* The transactions behave as if each request took effect at one moment, on the
\* database as it then is: every commit is a write of the abstract board, with
\* the guards of that write true at the commit although they were evaluated
\* statements earlier, and no other step shows (pgx.BeginTx ... tx.Commit).
B == INSTANCE Board
ImplementsBoard == B!Spec

-----------------------------------------------------------------------------
(* Liveness *)

\* r wants to update a post that replies are sharing.
Overtaken(r) == pc[r] = "row" /\ sharers[job[r].on] # {}

\* Every request is answered, whoever it waits for, with one exception: a deletion
\* or an outcome of a post that, from some time on, is never without a reply in
\* progress, each joining before the last one has ended (the FOR SHARE of
\* CreatePostWithOutbox against the UPDATE of DeletePost and SetQuestionState).
RequestsAnswered == \A r \in Requests : []<>(pc[r] = "idle") \/ <>[]Overtaken(r)

=============================================================================
