------------------------------- MODULE Fanout -------------------------------
(***************************************************************************)
(* The asynchronous fan-out of posts into home timelines.                  *)
(*                                                                         *)
(* HTTP handlers of any instance of the server write posts, deletions and  *)
(* follow edges; publishing and deleting also insert an outbox row in the  *)
(* same transaction (repository.CreatePostWithOutbox, DeletePost).  Every  *)
(* instance runs one outbox processor (fanout.OutboxProcessor): a ticker   *)
(* claims a batch of pending rows and handles them one by one, each call   *)
(* on the repository being a database transaction of its own.  One action  *)
(* below is one such transaction, so every interleaving of the handlers    *)
(* and of the processors of all instances is explored.                     *)
(*                                                                         *)
(* loyal, audience are observations for the properties; faults counts the  *)
(* failures, which MaxFaults bounds.  No guard of the code reads them.     *)
(***************************************************************************)
EXTENDS Naturals, FiniteSets

CONSTANTS Users, Posts,
          NoPost,        \* the parent of a top-level post
          Author,        \* tweets.user_id
          Parent,        \* tweets.parent_id
          Thread,        \* COALESCE(tweets.thread_id, tweets.id)
          Instances,     \* running copies of the server
          BatchSize,     \* 50 in processBatch
          MaxAttempts,   \* 5 in FailOutboxEvent
          NoEvent,       \* an idle processor handles no event
          FaultKinds,    \* the kinds of failure a run allows: "work", "settle", "stop"
          MaxFaults      \* bound on their number

TopLevel == {p \in Posts : Parent[p] = NoPost}

Created(p) == <<"tweet_created", p>>
Deleted(p) == <<"tweet_deleted", p>>
CreatedEvents == {Created(p) : p \in Posts}
Events == CreatedEvents \cup {Deleted(p) : p \in Posts}

ASSUME FanoutAssumption ==
  /\ NoPost \notin Posts
  /\ Author \in [Posts -> Users]
  /\ Parent \in [Posts -> Posts \cup {NoPost}]
  /\ Thread \in [Posts -> Posts]
  /\ BatchSize \in Nat \ {0}
  /\ MaxAttempts \in Nat \ {0}
  /\ NoEvent \notin Events
  /\ MaxFaults \in Nat

VARIABLES post,      \* tweets.status, "none" before the insert
          follows,   \* table follows
          status,    \* outbox.status, "absent" before the insert
          attempts,  \* outbox.attempts
          entries,   \* table timeline_entries: entries[p] are the users it lists for p
          pc,        \* where the processor of each instance is
          batch,     \* the events of its batch that it has not finished
          cur,       \* the event it handles
          fans,      \* followerIDs, as read by handlePostCreated
          loyal,     \* who has followed the author ever since the publication
          audience,  \* who has followed the author at some moment since then
          faults

worker == <<pc, batch, cur, fans>>
observed == <<loyal, audience>>
vars == <<post, follows, status, attempts, entries, worker, observed, faults>>

PostStatus  == {"none", "visible", "deleted"}
EventStatus == {"absent", "pending", "processing", "done", "dead"}
Control     == {"idle", "batch", "insert", "complete", "fail", "down"}

TypeOK == /\ post \in [Posts -> PostStatus]
          /\ follows \in SUBSET (Users \X Users)
          /\ status \in [Events -> EventStatus]
          /\ attempts \in [Events -> Nat]
          /\ entries \in [Posts -> SUBSET Users]
          /\ pc \in [Instances -> Control]
          /\ batch \in [Instances -> SUBSET Events]
          /\ cur \in [Instances -> Events \cup {NoEvent}]
          /\ fans \in [Instances -> SUBSET Users]
          /\ loyal \in [Posts -> SUBSET Users]
          /\ audience \in [Posts -> SUBSET Users]
          /\ faults \in 0..MaxFaults

Init == /\ post = [p \in Posts |-> "none"]
        /\ follows \in SUBSET {e \in Users \X Users : e[1] # e[2]}
        /\ status = [e \in Events |-> "absent"]
        /\ attempts = [e \in Events |-> 0]
        /\ entries = [p \in Posts |-> {}]
        /\ pc = [i \in Instances |-> "idle"]
        /\ batch = [i \in Instances |-> {}]
        /\ cur = [i \in Instances |-> NoEvent]
        /\ fans = [i \in Instances |-> {}]
        /\ loyal = [p \in Posts |-> {}]
        /\ audience = [p \in Posts |-> {}]
        /\ faults = 0

-----------------------------------------------------------------------------
(* The handlers' transactions *)

ListedFollowers(v) == {u \in Users : <<u, v>> \in follows}

\* CreatePostWithOutbox without its outbox insert (mutant).
CreatePostNoOutbox(p) ==
  /\ post[p] = "none"
  /\ p \notin TopLevel => post[Parent[p]] = "visible" /\ post[Thread[p]] = "visible"
  /\ post' = [post EXCEPT ![p] = "visible"]
  /\ LET now == IF p \in TopLevel THEN ListedFollowers(Author[p]) ELSE {}
     IN /\ loyal' = [loyal EXCEPT ![p] = now]
        /\ audience' = [audience EXCEPT ![p] = now]
  /\ UNCHANGED <<follows, status, attempts, entries, worker, faults>>

\* A reply needs its parent and the root of its thread visible, and locks them
\* FOR SHARE until commit; only a top-level post gets an outbox row.
CreatePost(p) ==
  /\ post[p] = "none"
  /\ p \notin TopLevel => post[Parent[p]] = "visible" /\ post[Thread[p]] = "visible"
  /\ post' = [post EXCEPT ![p] = "visible"]
  /\ status' = IF p \in TopLevel THEN [status EXCEPT ![Created(p)] = "pending"] ELSE status
  /\ LET now == IF p \in TopLevel THEN ListedFollowers(Author[p]) ELSE {}
     IN /\ loyal' = [loyal EXCEPT ![p] = now]
        /\ audience' = [audience EXCEPT ![p] = now]
  /\ UNCHANGED <<follows, attempts, entries, worker, faults>>

\* UPDATE ... WHERE status = 'visible' RETURNING: a second deletion finds no row.
DeletePost(p) ==
  /\ post[p] = "visible"
  /\ post' = [post EXCEPT ![p] = "deleted"]
  /\ status' = [status EXCEPT ![Deleted(p)] = "pending"]
  /\ loyal' = [loyal EXCEPT ![p] = {}]
  /\ audience' = [audience EXCEPT ![p] = {}]
  /\ UNCHANGED <<follows, attempts, entries, worker, faults>>

\* The handler refuses following oneself; an edge that is there stays.
Follow(u, v) ==
  /\ u # v
  /\ follows' = follows \cup {<<u, v>>}
  /\ audience' = [p \in Posts |-> IF p \in TopLevel /\ post[p] = "visible" /\ Author[p] = v
                                  THEN audience[p] \cup {u} ELSE audience[p]]
  /\ UNCHANGED <<post, status, attempts, entries, worker, loyal, faults>>

Unfollow(u, v) ==
  /\ follows' = follows \ {<<u, v>>}
  /\ loyal' = [p \in Posts |-> IF Author[p] = v THEN loyal[p] \ {u} ELSE loyal[p]]
  /\ UNCHANGED <<post, status, attempts, entries, worker, audience, faults>>

-----------------------------------------------------------------------------
(* The outbox processor *)

Pending == {e \in Events : status[e] = "pending"}

\* Claim conditions a careless edit could leave (mutants): one that forgets
\* the status filter for rows in progress, one that revives the dead letters.
ClaimableInProgress == {e \in Events : status[e] \in {"pending", "processing"}}
ClaimableDead == {e \in Events : status[e] \in {"pending", "dead"}}

Claimable == Pending

\* What ClaimOutboxEvents commits.  Rows locked by a concurrent claim are
\* skipped and created_at is the start of the inserting transaction, so the
\* batch may be any of the pending rows, whatever their order.
Claim(S) ==
  /\ S # {} /\ S \subseteq Claimable /\ Cardinality(S) <= BatchSize
  /\ status' = [e \in Events |-> IF e \in S THEN "processing" ELSE status[e]]
  /\ attempts' = [e \in Events |-> IF e \in S THEN attempts[e] + 1 ELSE attempts[e]]

ClaimOutboxEvents(i) ==
  /\ pc[i] = "idle"
  /\ \E S \in SUBSET Events : Claim(S) /\ batch' = [batch EXCEPT ![i] = S]
  /\ pc' = [pc EXCEPT ![i] = "batch"]
  /\ UNCHANGED <<post, follows, entries, cur, fans, observed, faults>>

GetFollowerIDs(v) == {u \in Users : <<u, v>> \in follows}

\* handlePostCreated up to the followers it reads; with none there is nothing
\* to insert and it goes straight to CompleteOutboxEvent.
ReadFollowers(i, p) ==
  /\ pc[i] = "batch" /\ Created(p) \in batch[i]
  /\ cur' = [cur EXCEPT ![i] = Created(p)]
  /\ fans' = [fans EXCEPT ![i] = GetFollowerIDs(Author[p])]
  /\ pc' = [pc EXCEPT ![i] = IF GetFollowerIDs(Author[p]) = {} THEN "complete" ELSE "insert"]
  /\ UNCHANGED <<post, follows, status, attempts, entries, batch, observed, faults>>

\* InsertTimelineEntries: one implicit transaction, ON CONFLICT DO NOTHING.
Insert(i) == entries' = [entries EXCEPT ![cur[i][2]] = @ \cup fans[i]]

InsertEntries(i) ==
  /\ pc[i] = "insert"
  /\ Insert(i)
  /\ fans' = [fans EXCEPT ![i] = {}]
  /\ pc' = [pc EXCEPT ![i] = "complete"]
  /\ UNCHANGED <<post, follows, status, attempts, batch, cur, observed, faults>>

\* handlePostDeleted: DeleteTimelineEntries.
DeleteEntries(i, p) ==
  /\ pc[i] = "batch" /\ Deleted(p) \in batch[i]
  /\ cur' = [cur EXCEPT ![i] = Deleted(p)]
  /\ entries' = [entries EXCEPT ![p] = {}]
  /\ pc' = [pc EXCEPT ![i] = "complete"]
  /\ UNCHANGED <<post, follows, status, attempts, batch, fans, observed, faults>>

\* The event is finished with: the loop takes the next one, or returns.
Advance(i) ==
  /\ batch' = [batch EXCEPT ![i] = @ \ {cur[i]}]
  /\ cur' = [cur EXCEPT ![i] = NoEvent]
  /\ pc' = [pc EXCEPT ![i] = IF batch[i] = {cur[i]} THEN "idle" ELSE "batch"]
  /\ UNCHANGED <<post, follows, attempts, entries, fans, observed>>

\* CompleteOutboxEvent that leaves the row as it is (mutant).
CompleteWithoutUpdate(i) ==
  /\ pc[i] = "complete"
  /\ Advance(i)
  /\ UNCHANGED <<status, faults>>

CompleteOutboxEvent(i) ==
  /\ pc[i] = "complete"
  /\ status' = [status EXCEPT ![cur[i]] = "done"]
  /\ Advance(i)
  /\ UNCHANGED faults

\* FailOutboxEvent with an off-by-one limit, and with a status that no claim
\* ever looks for (mutants).
FailedStatusLate(e) == IF attempts[e] > MaxAttempts THEN "dead" ELSE "pending"
FailedStatusOther(e) == IF attempts[e] >= MaxAttempts THEN "dead" ELSE "failed"

FailedStatus(e) == IF attempts[e] >= MaxAttempts THEN "dead" ELSE "pending"

FailOutboxEvent(i) ==
  /\ pc[i] = "fail"
  /\ status' = [status EXCEPT ![cur[i]] = FailedStatus(cur[i])]
  /\ Advance(i)
  /\ UNCHANGED faults

-----------------------------------------------------------------------------
(* Failures *)

Fault(k) == k \in FaultKinds /\ faults < MaxFaults /\ faults' = faults + 1

\* handlePostCreated that completes the event after a failed insert (mutant).
InsertErrorIgnored(i) ==
  /\ Fault("work")
  /\ pc[i] = "insert"
  /\ fans' = [fans EXCEPT ![i] = {}]
  /\ pc' = [pc EXCEPT ![i] = "complete"]
  /\ UNCHANGED <<post, follows, status, attempts, entries, batch, cur, observed>>

\* GetFollowerIDs or DeleteTimelineEntries returns an error.  The deletion may
\* have been committed all the same.
HandlerFails(i, e) ==
  /\ Fault("work")
  /\ pc[i] = "batch" /\ e \in batch[i]
  /\ cur' = [cur EXCEPT ![i] = e]
  /\ pc' = [pc EXCEPT ![i] = "fail"]
  /\ \/ UNCHANGED entries
     \/ e = Deleted(e[2]) /\ entries' = [entries EXCEPT ![e[2]] = {}]
  /\ UNCHANGED <<post, follows, status, attempts, batch, fans, observed>>

\* InsertTimelineEntries returns an error, committed or not.
InsertFails(i) ==
  /\ Fault("work")
  /\ pc[i] = "insert"
  /\ UNCHANGED entries \/ Insert(i)
  /\ fans' = [fans EXCEPT ![i] = {}]
  /\ pc' = [pc EXCEPT ![i] = "fail"]
  /\ UNCHANGED <<post, follows, status, attempts, batch, cur, observed>>

\* CompleteOutboxEvent or FailOutboxEvent fails: the error is logged or
\* dropped and the loop goes on, the row stays 'processing'.  (If the update
\* was committed and only its reply was lost, nobody can tell the difference
\* from CompleteOutboxEvent and FailOutboxEvent.)
SettleFails(i) ==
  /\ Fault("settle")
  /\ pc[i] \in {"complete", "fail"}
  /\ Advance(i)
  /\ UNCHANGED status

\* The claim is committed but its rows do not reach the processor.
ClaimReplyLost(i) ==
  /\ Fault("settle")
  /\ pc[i] = "idle"
  /\ \E S \in SUBSET Events : Claim(S)
  /\ UNCHANGED <<post, follows, entries, worker, observed>>

\* The process is killed, or SIGTERM cancels the context of the processor:
\* every later call of the batch fails, the ones to FailOutboxEvent included.
Stop(i) ==
  /\ Fault("stop")
  /\ pc[i] # "down"
  /\ pc' = [pc EXCEPT ![i] = "down"]
  /\ batch' = [batch EXCEPT ![i] = {}]
  /\ cur' = [cur EXCEPT ![i] = NoEvent]
  /\ fans' = [fans EXCEPT ![i] = {}]
  /\ UNCHANGED <<post, follows, status, attempts, entries, observed>>

Start(i) ==
  /\ pc[i] = "down"
  /\ pc' = [pc EXCEPT ![i] = "idle"]
  /\ UNCHANGED <<post, follows, status, attempts, entries, batch, cur, fans, observed, faults>>

-----------------------------------------------------------------------------
Handlers == \/ \E p \in Posts : CreatePost(p) \/ DeletePost(p)
            \/ \E u, v \in Users : Follow(u, v) \/ Unfollow(u, v)

Process(i) == \/ ClaimOutboxEvents(i)
              \/ \E p \in Posts : ReadFollowers(i, p) \/ DeleteEntries(i, p)
              \/ InsertEntries(i)
              \/ CompleteOutboxEvent(i)
              \/ FailOutboxEvent(i)

Failures(i) == \/ \E e \in Events : HandlerFails(i, e)
               \/ InsertFails(i)
               \/ SettleFails(i)
               \/ ClaimReplyLost(i)
               \/ Stop(i)

Next == \/ Handlers
        \/ \E i \in Instances : Process(i) \/ Start(i) \/ Failures(i)

Spec == Init /\ [][Next]_vars

\* The ticker of every running processor keeps firing and its loop keeps
\* going; a stopped instance is started again.  Users owe nothing.
FairSpec == Spec /\ \A i \in Instances : WF_vars(Process(i)) /\ WF_vars(Start(i))

-----------------------------------------------------------------------------
(* What readers see *)

\* GetHomeTimeline without its status filter (mutant).
HomeTimelineAnyStatus(u) == {p \in TopLevel : post[p] # "none" /\ (Author[p] = u \/ u \in entries[p])}

\* The posts GetHomeTimeline selects for u.
HomeTimeline(u) ==
  {p \in TopLevel : post[p] = "visible" /\ (Author[p] = u \/ u \in entries[p])}

-----------------------------------------------------------------------------
(* Safety *)

\* Two processors never hold the same event, and an event that one holds is
\* 'processing': it can be neither claimed again nor settled by another.
\* This is what UPDATE ... FOR UPDATE SKIP LOCKED is for (ClaimOutboxEvents).
ExclusiveClaim ==
  /\ \A i, j \in Instances : i # j => batch[i] \cap batch[j] = {}
  /\ \A i \in Instances : \A e \in batch[i] : status[e] = "processing"

\* No event is tried more than MaxAttempts times, one that may still be tried
\* has an attempt left, and one in the dead letters has used them all,
\* whatever failed on the way (FailOutboxEvent).
RetryBudget ==
  \A e \in Events :
    /\ attempts[e] <= MaxAttempts
    /\ status[e] = "pending" => attempts[e] < MaxAttempts
    /\ status[e] = "dead" => attempts[e] = MaxAttempts

\* A creation event is 'done' only when everybody who has followed the author
\* since the publication has the post, although the followers are read and
\* the entries written in different transactions (handlePostCreated).
DoneMeansDelivered ==
  \A p \in Posts :
    post[p] = "visible" /\ status[Created(p)] = "done" => loyal[p] \subseteq entries[p]

\* A visible post is only ever put on the timelines of users who have followed
\* its author at some moment since the publication, however stale the list of
\* followers a processor works from (handlePostCreated).
OnlyAudience ==
  \A p \in Posts : post[p] = "visible" => entries[p] \subseteq audience[p]

\* An event that is done or in the dead letters stays so: no late
\* FailOutboxEvent and no claim brings it back.
SettledForever ==
  [][\A e \in Events : status[e] \in {"done", "dead"} => status'[e] = status[e]]_vars

\* An event in progress is in the batch of a processor, except for those that
\* failures have taken from it, a batch at most for each: nothing else loses an
\* event (processBatch, which drops what it fails to settle, ClaimOutboxEvents).
Stranded == {e \in Events : status[e] = "processing" /\ \A i \in Instances : e \notin batch[i]}
StrandedBound == Cardinality(Stranded) <= faults * BatchSize

\* The outbox, its processors and their failures implement the abstract home
\* feed: every step publishes, deletes, delivers, (un)follows or changes no feed.
HF == INSTANCE HomeFeed WITH feed <- [u \in Users |-> HomeTimeline(u)]
ImplementsHomeFeed == HF!Spec

-----------------------------------------------------------------------------
(* The inductive invariant: what the safety properties need at every step *)

\* The outbox follows the posts: a creation event for every top-level post
\* ever published, a deletion event for every post deleted.
EventLifecycle ==
  \A p \in Posts :
    /\ status[Created(p)] = "absent" <=> p \notin TopLevel \/ post[p] = "none"
    /\ status[Deleted(p)] = "absent" <=> post[p] # "deleted"

\* A row that is not there has no attempts (outbox.attempts DEFAULT 0).
AbsentUntried == \A e \in Events : status[e] = "absent" => attempts[e] = 0

\* What a processor holds at each point of its loop.
WorkerState ==
  \A i \in Instances :
    /\ pc[i] \in {"idle", "down"} => batch[i] = {}
    /\ pc[i] \in {"insert", "complete", "fail"} => cur[i] \in batch[i]
    /\ pc[i] = "insert" => cur[i] \in CreatedEvents

\* The present followers lie between the loyal ones and the audience.
FollowersBetween ==
  \A p \in TopLevel :
    post[p] = "visible" => /\ loyal[p] \subseteq ListedFollowers(Author[p])
                           /\ ListedFollowers(Author[p]) \subseteq audience[p]

\* A list of followers read is never too short for the loyal ones nor too long
\* for the audience by the time it is inserted, nor is the insert undone
\* before the event is completed.
InFlight ==
  \A i \in Instances : \A p \in Posts :
    post[p] = "visible" /\ cur[i] = Created(p) =>
      /\ pc[i] = "insert" => loyal[p] \subseteq fans[i] /\ fans[i] \subseteq audience[p]
      /\ pc[i] = "complete" => loyal[p] \subseteq entries[p]

\* Nothing is on a timeline before it is published.
NothingEarly == \A p \in Posts : post[p] = "none" => entries[p] = {}

IInv == /\ TypeOK
        /\ ExclusiveClaim
        /\ RetryBudget
        /\ EventLifecycle
        /\ AbsentUntried
        /\ WorkerState
        /\ FollowersBetween
        /\ InFlight
        /\ NothingEarly
        /\ OnlyAudience
        /\ DoneMeansDelivered

-----------------------------------------------------------------------------
(* Liveness *)

\* An event of the outbox is processed in the end, or declared dead: what
\* ARCHITECTURE.md promises of the outbox pattern across cold starts.
EventSettles ==
  \A e \in Events : status[e] = "pending" ~> status[e] \in {"done", "dead"}

\* A follower at the time of the publication finds the post at home in the
\* end, unless it is deleted, they stop following, or its event is dead.
LoyalFollowersReached ==
  \A p \in TopLevel : \A u \in Users :
    u \in loyal[p] ~> \/ p \in HomeTimeline(u)
                      \/ u \notin loyal[p]
                      \/ status[Created(p)] = "dead"

=============================================================================
