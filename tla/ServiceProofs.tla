--------------------------- MODULE ServiceProofs ----------------------------
(***************************************************************************)
(* Store and Fanout, composed, implement Fanout; so what is proved of      *)
(* Fanout, where a request is one step, holds of requests of several       *)
(* statements too.                                                         *)
(***************************************************************************)
EXTENDS Service, StoreRefinement

\* The theorems about Fanout, for the variables of Service.
FP == INSTANCE FanoutProofs WITH pc <- at

-----------------------------------------------------------------------------
(* FanoutProofs extends Fanout: its definitions are those of F *)

LEMMA FanoutAssumed == FP!FanoutAssumption
BY ServiceAssumption
   DEF FP!FanoutAssumption, F!FanoutAssumption, FP!Events, F!Events, FP!CreatedEvents,
       F!CreatedEvents, FP!Created, F!Created, FP!Deleted, F!Deleted

LEMMA SameVocabulary ==
  /\ FP!TopLevel = F!TopLevel /\ FP!Events = F!Events /\ FP!CreatedEvents = F!CreatedEvents
  /\ FP!PostStatus = F!PostStatus /\ FP!EventStatus = F!EventStatus /\ FP!Control = F!Control
  /\ \A p : FP!Created(p) = F!Created(p) /\ FP!Deleted(p) = F!Deleted(p)
  /\ FP!worker = F!worker /\ FP!observed = F!observed /\ FP!vars = F!vars
BY DEF FP!TopLevel, F!TopLevel, FP!Events, F!Events, FP!CreatedEvents, F!CreatedEvents,
       FP!PostStatus, F!PostStatus, FP!EventStatus, F!EventStatus, FP!Control, F!Control,
       FP!Created, F!Created, FP!Deleted, F!Deleted, FP!worker, F!worker, FP!observed,
       F!observed, FP!vars, F!vars

LEMMA SameInit == FP!Init <=> F!Init
BY SameVocabulary DEF FP!Init, F!Init

LEMMA SameNext == FP!Next <=> F!Next
BY Zenon
   DEF FP!Next, F!Next, FP!Handlers, F!Handlers, FP!CreatePost, F!CreatePost, FP!DeletePost,
       F!DeletePost, FP!Follow, F!Follow, FP!Unfollow, F!Unfollow, FP!ListedFollowers,
       F!ListedFollowers, FP!Process, F!Process, FP!ClaimOutboxEvents, F!ClaimOutboxEvents,
       FP!Claim, F!Claim, FP!Claimable, F!Claimable, FP!Pending, F!Pending, FP!ReadFollowers,
       F!ReadFollowers, FP!GetFollowerIDs, F!GetFollowerIDs, FP!DeleteEntries, F!DeleteEntries,
       FP!InsertEntries, F!InsertEntries, FP!Insert, F!Insert, FP!CompleteOutboxEvent,
       F!CompleteOutboxEvent, FP!FailOutboxEvent, F!FailOutboxEvent, FP!FailedStatus,
       F!FailedStatus, FP!Advance, F!Advance, FP!Failures, F!Failures, FP!Fault, F!Fault,
       FP!HandlerFails, F!HandlerFails, FP!InsertFails, F!InsertFails, FP!SettleFails,
       F!SettleFails, FP!ClaimReplyLost, F!ClaimReplyLost, FP!Stop, F!Stop, FP!Start, F!Start,
       FP!TopLevel, F!TopLevel, FP!Events, F!Events, FP!CreatedEvents, F!CreatedEvents,
       FP!Created, F!Created, FP!Deleted, F!Deleted, FP!worker, F!worker, FP!observed,
       F!observed, FP!Cardinality, F!Cardinality

LEMMA SameSpec == FP!Spec <=> F!Spec
<1>1. [FP!Next]_(FP!vars) <=> [F!Next]_(F!vars)
  BY SameNext, Zenon DEF FP!vars, F!vars, FP!worker, F!worker, FP!observed, F!observed
<1> QED BY <1>1, SameInit, PTL DEF FP!Spec, F!Spec

LEMMA SameInvariant == FP!IInv <=> F!IInv
BY SameVocabulary
   DEF FP!IInv, F!IInv, FP!TypeOK, F!TypeOK, FP!ExclusiveClaim, F!ExclusiveClaim,
       FP!RetryBudget, F!RetryBudget, FP!EventLifecycle, F!EventLifecycle, FP!AbsentUntried,
       F!AbsentUntried, FP!WorkerState, F!WorkerState, FP!FollowersBetween,
       F!FollowersBetween, FP!ListedFollowers, F!ListedFollowers, FP!InFlight, F!InFlight,
       FP!NothingEarly, F!NothingEarly, FP!OnlyAudience, F!OnlyAudience,
       FP!DoneMeansDelivered, F!DoneMeansDelivered

LEMMA FanoutBegins == F!Init => F!IInv
BY FP!IInvInit, FanoutAssumed, SameInit, SameInvariant

LEMMA FanoutStep == F!IInv /\ [F!Next]_(F!vars) => F!IInv'
<1>1. FP!IInv /\ [FP!Next]_(FP!vars) => FP!IInv' BY FP!IInvStep, FanoutAssumed
<1>2. [FP!Next]_(FP!vars) <=> [F!Next]_(F!vars)
  BY SameNext, Zenon DEF FP!vars, F!vars, FP!worker, F!worker, FP!observed, F!observed
<1>3. FP!IInv' <=> F!IInv' BY SameInvariant, PTL
<1> QED BY <1>1, <1>2, <1>3, SameInvariant

-----------------------------------------------------------------------------
(* What a step of a request does to the queue and to the observations *)

\* Nothing is observed of a post that is not on anybody's timeline.
Unobserved == \A p \in Posts : ~ Followed(p) => loyal[p] = {} /\ audience[p] = {}

ServiceInv == RefInv /\ F!IInv /\ Unobserved

LEMMA EventRows ==
  /\ \A p \in Posts : /\ F!Created(p) \in F!Events /\ F!Deleted(p) \in F!Events
                      /\ F!Created(p)[1] = "tweet_created" /\ F!Created(p)[2] = p
                      /\ F!Deleted(p)[1] = "tweet_deleted" /\ F!Deleted(p)[2] = p
  /\ \A e \in F!Events : \E p \in Posts : e \in {F!Created(p), F!Deleted(p)}
  /\ \A p, q \in Posts : /\ F!Created(p) # F!Deleted(q)
                         /\ F!Created(p) = F!Created(q) => p = q
                         /\ F!Deleted(p) = F!Deleted(q) => p = q
BY DEF F!Created, F!Deleted, F!Events, F!CreatedEvents

\* The row of a publication or of a deletion is queued at the commit of it.
LEMMA QueueFacts ==
  ASSUME RefInv, RefInv', F!IInv, Enqueued
  PROVE  /\ DOMAIN status' = F!Events
         /\ \A p \in Posts : status'[F!Created(p)] =
              IF p \in TopLevel /\ post[p] = "none" /\ post'[p] # "none"
              THEN "pending" ELSE status[F!Created(p)]
         /\ \A p \in Posts : status'[F!Deleted(p)] =
              IF post[p] # "deleted" /\ post'[p] = "deleted"
              THEN "pending" ELSE status[F!Deleted(p)]
<1>1. OneEventPerChange /\ OneEventPerChange' BY DEF RefInv, IInv, DataInv
<1>2. ASSUME NEW p \in Posts
      PROVE  /\ outbox'["tweet_created"][p] > outbox["tweet_created"][p]
                  <=> p \in TopLevel /\ post[p] = "none" /\ post'[p] # "none"
             /\ outbox'["tweet_deleted"][p] > outbox["tweet_deleted"][p]
                  <=> post[p] # "deleted" /\ post'[p] = "deleted"
  <2>1. /\ outbox["tweet_created"][p] = IF p \in TopLevel /\ post[p] # "none" THEN 1 ELSE 0
        /\ outbox["tweet_deleted"][p] = IF post[p] = "deleted" THEN 1 ELSE 0
        /\ outbox'["tweet_created"][p] = IF p \in TopLevel /\ post'[p] # "none" THEN 1 ELSE 0
        /\ outbox'["tweet_deleted"][p] = IF post'[p] = "deleted" THEN 1 ELSE 0
    BY <1>1 DEF OneEventPerChange
  <2> QED BY <2>1
<1>3. ASSUME NEW p \in Posts
      PROVE  /\ status'[F!Created(p)] = IF outbox'["tweet_created"][p] > outbox["tweet_created"][p]
                                        THEN "pending" ELSE status[F!Created(p)]
             /\ status'[F!Deleted(p)] = IF outbox'["tweet_deleted"][p] > outbox["tweet_deleted"][p]
                                        THEN "pending" ELSE status[F!Deleted(p)]
  BY EventRows DEF Enqueued
<1>4. DOMAIN status' = F!Events BY DEF Enqueued
<1> QED BY <1>2, <1>3, <1>4

\* What Fanout's step is called with: the queue and the observations, as they
\* follow from what happens to the posts and the edges.
LEMMA ObservedFacts ==
  ASSUME ServiceInv, Observed, NEW p \in Posts, post[p] # "deleted" \/ post'[p] # "visible"
  PROVE  /\ DOMAIN loyal' = Posts /\ DOMAIN audience' = Posts
         /\ ~ Followed(p)' => loyal'[p] = {} /\ audience'[p] = {}
         /\ Followed(p)' /\ ~ Followed(p) =>
              loyal'[p] = F!ListedFollowers(Author[p])' /\ audience'[p] = F!ListedFollowers(Author[p])'
         /\ Followed(p)' /\ Followed(p) =>
              /\ loyal'[p] = loyal[p] \cap F!ListedFollowers(Author[p])'
              /\ audience'[p] = audience[p] \cup F!ListedFollowers(Author[p])'
         /\ Followed(p) => /\ loyal[p] \subseteq F!ListedFollowers(Author[p])
                           /\ F!ListedFollowers(Author[p]) \subseteq audience[p]
<1>1. F!ListedFollowers(Author[p])' = {u \in Users : <<u, Author[p]>> \in follows}'
  BY DEF F!ListedFollowers
<1>2. Followed(p) => /\ loyal[p] \subseteq F!ListedFollowers(Author[p])
                    /\ F!ListedFollowers(Author[p]) \subseteq audience[p]
  BY DEF ServiceInv, F!IInv, F!FollowersBetween, Followed, F!TopLevel, TopLevel
<1>3. /\ ~ Followed(p)' => loyal'[p] = {} /\ audience'[p] = {}
      /\ Followed(p)' => loyal'[p] = IF post[p] = "none" THEN F!ListedFollowers(Author[p])'
                                     ELSE loyal[p] \cap F!ListedFollowers(Author[p])'
      /\ Followed(p)' => audience'[p] = audience[p] \cup F!ListedFollowers(Author[p])'
  BY <1>1 DEF Observed
<1>4. ~ Followed(p) => loyal[p] = {} /\ audience[p] = {} BY DEF ServiceInv, Unobserved
<1>5. /\ Followed(p) => post[p] # "none"
      /\ Followed(p)' /\ ~ Followed(p) => post[p] = "none"
  BY DEF Followed, ServiceInv, RefInv, IInv, TypeOK
<1>6. DOMAIN loyal' = Posts /\ DOMAIN audience' = Posts BY DEF Observed
<1> QED BY <1>2, <1>3, <1>4, <1>5, <1>6

LEMMA StaysObserved ==
  ASSUME ServiceInv, Observed, NEW p \in Posts, post[p] # "deleted" \/ post'[p] # "visible",
         Followed(p)' <=> Followed(p),
         F!ListedFollowers(Author[p])' = F!ListedFollowers(Author[p])
  PROVE  loyal'[p] = loyal[p] /\ audience'[p] = audience[p]
<1>1. CASE Followed(p)
  <2>1. /\ loyal'[p] = loyal[p] \cap F!ListedFollowers(Author[p])
        /\ audience'[p] = audience[p] \cup F!ListedFollowers(Author[p])
        /\ loyal[p] \subseteq F!ListedFollowers(Author[p])
        /\ F!ListedFollowers(Author[p]) \subseteq audience[p]
    BY <1>1, ObservedFacts
  <2> QED BY <2>1
<1>2. CASE ~ Followed(p) BY <1>2, ObservedFacts DEF ServiceInv, Unobserved
<1> QED BY <1>1, <1>2

-----------------------------------------------------------------------------
(* A commit is a handler of Fanout *)

LEMMA CreateIsHandler ==
  ASSUME ServiceInv, RefInv', Enqueued, Observed, UNCHANGED processors,
         NEW p \in Posts, post[p] = "none",
         p \notin TopLevel => post[Parent[p]] = "visible" /\ post[Thread[p]] = "visible",
         CommitCreate(p)
  PROVE  F!CreatePost(p)
<1> DEFINE now == IF p \in F!TopLevel THEN F!ListedFollowers(Author[p]) ELSE {}
<1>0. /\ TypeOK /\ RefInv /\ F!IInv /\ F!TypeOK
      /\ TopLevel = F!TopLevel
  BY DEF ServiceInv, RefInv, IInv, F!IInv, TopLevel, F!TopLevel
<1>1. post' = [post EXCEPT ![p] = "visible"] /\ follows' = follows BY DEF CommitCreate
<1>2. post'[p] = "visible" /\ \A q \in Posts \ {p} : post'[q] = post[q] BY <1>0, <1>1 DEF TypeOK
<1>3. status' = IF p \in F!TopLevel THEN [status EXCEPT ![F!Created(p)] = "pending"] ELSE status
  <2>1. DOMAIN status' = F!Events /\ status \in [F!Events -> F!EventStatus]
    BY <1>0, QueueFacts DEF F!TypeOK
  <2>2. \A q \in Posts :
          /\ status'[F!Deleted(q)] = status[F!Deleted(q)]
          /\ status'[F!Created(q)] = IF q = p /\ p \in F!TopLevel THEN "pending"
                                     ELSE status[F!Created(q)]
    BY <1>0, <1>2, QueueFacts
  <2>3. status' = [e \in F!Events |-> status'[e]] BY <2>1 DEF Enqueued
  <2>4. CASE p \in F!TopLevel
    <3>1. \A e \in F!Events : status'[e] = [status EXCEPT ![F!Created(p)] = "pending"][e]
      BY <2>1, <2>2, <2>4, EventRows
    <3> QED BY <2>1, <2>3, <2>4, <3>1
  <2>5. CASE p \notin F!TopLevel
    <3>1. \A e \in F!Events : status'[e] = status[e] BY <2>2, <2>5, EventRows
    <3> QED BY <2>1, <2>3, <2>5, <3>1
  <2> QED BY <2>4, <2>5
<1>4. loyal' = [loyal EXCEPT ![p] = now] /\ audience' = [audience EXCEPT ![p] = now]
  <2>1. \A q \in Posts \ {p} : loyal'[q] = loyal[q] /\ audience'[q] = audience[q]
    <3> SUFFICES ASSUME NEW q \in Posts \ {p}
                 PROVE  loyal'[q] = loyal[q] /\ audience'[q] = audience[q]
      OBVIOUS
    <3>1. Followed(q)' <=> Followed(q) BY <1>2 DEF Followed
    <3>2. F!ListedFollowers(Author[q])' = F!ListedFollowers(Author[q])
      BY <1>1 DEF F!ListedFollowers
    <3>3. post[q] # "deleted" \/ post'[q] # "visible" BY <1>2
    <3> QED BY <3>1, <3>2, <3>3, StaysObserved
  <2>2. loyal'[p] = now /\ audience'[p] = now
    <3>1. ~ Followed(p) /\ (Followed(p)' <=> p \in F!TopLevel) BY <1>0, <1>2 DEF Followed
    <3>2. F!ListedFollowers(Author[p])' = F!ListedFollowers(Author[p])
      BY <1>1 DEF F!ListedFollowers
    <3> QED BY <3>1, <3>2, ObservedFacts
  <2>3. /\ loyal' = [q \in Posts |-> loyal'[q]] /\ audience' = [q \in Posts |-> audience'[q]]
        /\ loyal \in [Posts -> SUBSET Users] /\ audience \in [Posts -> SUBSET Users]
    BY <1>0 DEF Observed, F!TypeOK
  <2> HIDE DEF now
  <2> QED BY <2>1, <2>2, <2>3
<1>5. UNCHANGED <<follows, attempts, entries, F!worker, faults>>
  BY <1>1 DEF processors, F!worker
<1> QED BY <1>0, <1>1, <1>3, <1>4, <1>5 DEF F!CreatePost

LEMMA DeleteIsHandler ==
  ASSUME ServiceInv, RefInv', Enqueued, Observed, UNCHANGED processors,
         NEW p \in Posts, post[p] = "visible", CommitDelete(p)
  PROVE  F!DeletePost(p)
<1>0. TypeOK /\ RefInv /\ F!IInv /\ F!TypeOK BY DEF ServiceInv, RefInv, IInv, F!IInv
<1>1. post' = [post EXCEPT ![p] = "deleted"] /\ follows' = follows BY DEF CommitDelete
<1>2. post'[p] = "deleted" /\ \A q \in Posts \ {p} : post'[q] = post[q] BY <1>0, <1>1 DEF TypeOK
<1>3. status' = [status EXCEPT ![F!Deleted(p)] = "pending"]
  <2>1. DOMAIN status' = F!Events /\ status \in [F!Events -> F!EventStatus]
    BY <1>0, QueueFacts DEF F!TypeOK
  <2>2. \A q \in Posts :
          /\ status'[F!Created(q)] = status[F!Created(q)]
          /\ status'[F!Deleted(q)] = IF q = p THEN "pending" ELSE status[F!Deleted(q)]
    BY <1>0, <1>2, QueueFacts
  <2>3. status' = [e \in F!Events |-> status'[e]] BY <2>1 DEF Enqueued
  <2>4. \A e \in F!Events : status'[e] = [status EXCEPT ![F!Deleted(p)] = "pending"][e]
    BY <2>1, <2>2, EventRows
  <2> QED BY <2>1, <2>3, <2>4
<1>4. loyal' = [loyal EXCEPT ![p] = {}] /\ audience' = [audience EXCEPT ![p] = {}]
  <2>1. \A q \in Posts \ {p} : loyal'[q] = loyal[q] /\ audience'[q] = audience[q]
    <3> SUFFICES ASSUME NEW q \in Posts \ {p}
                 PROVE  loyal'[q] = loyal[q] /\ audience'[q] = audience[q]
      OBVIOUS
    <3>1. Followed(q)' <=> Followed(q) BY <1>2 DEF Followed
    <3>2. F!ListedFollowers(Author[q])' = F!ListedFollowers(Author[q])
      BY <1>1 DEF F!ListedFollowers
    <3>3. post[q] # "deleted" \/ post'[q] # "visible" BY <1>2
    <3> QED BY <3>1, <3>2, <3>3, StaysObserved
  <2>2. loyal'[p] = {} /\ audience'[p] = {}
    <3>1. ~ Followed(p)' BY <1>2 DEF Followed
    <3> QED BY <1>2, <3>1, ObservedFacts
  <2>3. /\ loyal' = [q \in Posts |-> loyal'[q]] /\ audience' = [q \in Posts |-> audience'[q]]
        /\ loyal \in [Posts -> SUBSET Users] /\ audience \in [Posts -> SUBSET Users]
    BY <1>0 DEF Observed, F!TypeOK
  <2> QED BY <2>1, <2>2, <2>3
<1>5. UNCHANGED <<follows, attempts, entries, F!worker, faults>>
  BY <1>1 DEF processors, F!worker
<1> QED BY <1>1, <1>3, <1>4, <1>5 DEF F!DeletePost

\* A step that changes no post leaves the queue as it is.
LEMMA QueueStays ==
  ASSUME ServiceInv, RefInv', Enqueued, post' = post
  PROVE  status' = status
<1>1. RefInv /\ F!IInv /\ status \in [F!Events -> F!EventStatus]
  BY DEF ServiceInv, F!IInv, F!TypeOK
<1>2. \A q \in Posts : /\ status'[F!Created(q)] = status[F!Created(q)]
                       /\ status'[F!Deleted(q)] = status[F!Deleted(q)]
  BY <1>1, QueueFacts
<1>3. \A e \in F!Events : status'[e] = status[e] BY <1>2, EventRows
<1>4. status' = [e \in F!Events |-> status'[e]] BY DEF Enqueued
<1> QED BY <1>1, <1>3, <1>4

LEMMA FollowIsHandler ==
  ASSUME ServiceInv, RefInv', Enqueued, Observed, UNCHANGED processors,
         NEW u \in Users, NEW v \in Users, u # v, CommitFollow(u, v)
  PROVE  F!Follow(u, v)
<1>0. F!TypeOK /\ TopLevel = F!TopLevel BY DEF ServiceInv, F!IInv, TopLevel, F!TopLevel
<1>1. post' = post /\ follows' = follows \cup {<<u, v>>} BY DEF CommitFollow
<1>2. ASSUME NEW p \in Posts
      PROVE  /\ loyal'[p] = loyal[p]
             /\ audience'[p] = IF p \in TopLevel /\ post[p] = "visible" /\ Author[p] = v
                               THEN audience[p] \cup {u} ELSE audience[p]
  <2>1. Followed(p)' <=> Followed(p) BY <1>1 DEF Followed
  <2>2. F!ListedFollowers(Author[p])' =
          F!ListedFollowers(Author[p]) \cup (IF Author[p] = v THEN {u} ELSE {})
    BY <1>1 DEF F!ListedFollowers
  <2>3. CASE Followed(p)
    <3>1. /\ loyal'[p] = loyal[p] \cap F!ListedFollowers(Author[p])'
          /\ audience'[p] = audience[p] \cup F!ListedFollowers(Author[p])'
          /\ loyal[p] \subseteq F!ListedFollowers(Author[p])
          /\ F!ListedFollowers(Author[p]) \subseteq audience[p]
      BY <1>1, <2>1, <2>3, ObservedFacts
    <3> QED BY <2>2, <2>3, <3>1 DEF Followed
  <2>4. CASE ~ Followed(p)
    <3>1. loyal'[p] = loyal[p] /\ audience'[p] = audience[p]
      BY <1>1, <2>1, <2>4, ObservedFacts DEF ServiceInv, Unobserved
    <3> QED BY <2>4, <3>1 DEF Followed
  <2> QED BY <2>3, <2>4
<1>3. loyal' = loyal
  <2>1. loyal' = [p \in Posts |-> loyal'[p]] BY DEF Observed
  <2> QED BY <1>0, <1>2, <2>1 DEF F!TypeOK
<1>4. audience' = [p \in Posts |-> IF p \in F!TopLevel /\ post[p] = "visible" /\ Author[p] = v
                                  THEN audience[p] \cup {u} ELSE audience[p]]
  <2>1. audience' = [p \in Posts |-> audience'[p]] BY DEF Observed
  <2> QED BY <1>0, <1>2, <2>1
<1>5. UNCHANGED <<post, status, attempts, entries, F!worker, faults>>
  BY <1>1, QueueStays DEF processors, F!worker
<1> QED BY <1>1, <1>3, <1>4, <1>5 DEF F!Follow

LEMMA UnfollowIsHandler ==
  ASSUME ServiceInv, RefInv', Enqueued, Observed, UNCHANGED processors,
         NEW u \in Users, NEW v \in Users, CommitUnfollow(u, v)
  PROVE  F!Unfollow(u, v)
<1>0. F!TypeOK BY DEF ServiceInv, F!IInv
<1>1. post' = post /\ follows' = follows \ {<<u, v>>} BY DEF CommitUnfollow
<1>2. ASSUME NEW p \in Posts
      PROVE  /\ loyal'[p] = IF Author[p] = v THEN loyal[p] \ {u} ELSE loyal[p]
             /\ audience'[p] = audience[p]
  <2>1. Followed(p)' <=> Followed(p) BY <1>1 DEF Followed
  <2>2. F!ListedFollowers(Author[p])' =
          F!ListedFollowers(Author[p]) \ (IF Author[p] = v THEN {u} ELSE {})
    BY <1>1 DEF F!ListedFollowers
  <2>3. CASE Followed(p)
    <3>1. /\ loyal'[p] = loyal[p] \cap F!ListedFollowers(Author[p])'
          /\ audience'[p] = audience[p] \cup F!ListedFollowers(Author[p])'
          /\ loyal[p] \subseteq F!ListedFollowers(Author[p])
          /\ F!ListedFollowers(Author[p]) \subseteq audience[p]
      BY <1>1, <2>1, <2>3, ObservedFacts
    <3> QED BY <2>2, <3>1
  <2>4. CASE ~ Followed(p)
    BY <1>1, <2>1, <2>4, ObservedFacts DEF ServiceInv, Unobserved
  <2> QED BY <2>3, <2>4
<1>3. audience' = audience
  <2>1. audience' = [p \in Posts |-> audience'[p]] BY DEF Observed
  <2> QED BY <1>0, <1>2, <2>1 DEF F!TypeOK
<1>4. loyal' = [p \in Posts |-> IF Author[p] = v THEN loyal[p] \ {u} ELSE loyal[p]]
  <2>1. loyal' = [p \in Posts |-> loyal'[p]] BY DEF Observed
  <2> QED BY <1>2, <2>1
<1>5. UNCHANGED <<post, status, attempts, entries, F!worker, faults>>
  BY <1>1, QueueStays DEF processors, F!worker
<1> QED BY <1>1, <1>3, <1>4, <1>5 DEF F!Unfollow

-----------------------------------------------------------------------------
(* The refinement *)

\* A step of a request is a handler of Fanout if it commits, and nothing else.
LEMMA ServeIsFanout ==
  ASSUME ServiceInv, RefInv', Serve
  PROVE  [F!Next]_(F!vars)
<1> USE DEF Serve
<1>0. RefInv /\ TypeOK /\ ControlInv /\ Granted BY DEF ServiceInv, RefInv, IInv
<1>1. ASSUME NEW r \in Requests, Commit(r) PROVE F!Handlers
  <2> DEFINE j == job[r]
  <2>1. pc[r] = "commit" BY <1>1 DEF Commit
  <2>2. j \in Jobs /\ j.user \in Users BY <1>0, <2>1, AtCommit, JobFacts
  <2>3. CASE j.op = "create" /\ CommitCreate(j.on)
    <3>1. /\ j.on \in Posts /\ post[j.on] = "none"
          /\ j.on \notin TopLevel => /\ post[Parent[j.on]] = "visible"
                                   /\ post[Thread[j.on]] = "visible"
      BY <1>0, <2>1, <2>3, AtCommit
    <3>2. F!CreatePost(j.on) BY <2>3, <3>1, CreateIsHandler
    <3> QED BY <3>1, <3>2 DEF F!Handlers
  <2>4. CASE j.op = "delete" /\ CommitDelete(j.on)
    <3>1. j.on \in Posts /\ post[j.on] = "visible" BY <1>0, <2>1, <2>4, AtCommit
    <3>2. F!DeletePost(j.on) BY <2>4, <3>1, DeleteIsHandler
    <3> QED BY <3>1, <3>2 DEF F!Handlers
  <2>5. CASE j.op = "follow" /\ CommitFollow(j.user, j.on)
    <3>1. j.on \in Users BY <1>0, <2>1, <2>5, AtCommit DEF IsFollow
    <3>2. j.user # j.on BY <1>0, <1>1, <2>5 DEF Granted
    <3>3. F!Follow(j.user, j.on) BY <2>2, <2>5, <3>1, <3>2, FollowIsHandler
    <3> QED BY <2>2, <3>1, <3>3 DEF F!Handlers
  <2>6. CASE j.op = "unfollow" /\ CommitUnfollow(j.user, j.on)
    <3>1. j.on \in Users BY <1>0, <2>1, <2>6, AtCommit DEF IsFollow
    <3>2. F!Unfollow(j.user, j.on) BY <2>2, <2>6, <3>1, UnfollowIsHandler
    <3> QED BY <2>2, <3>1, <3>2 DEF F!Handlers
  <2> QED BY <1>1, <2>3, <2>4, <2>5, <2>6 DEF Commit
<1>2. CASE UNCHANGED <<post, tweets, following, followers, follows, notes, outbox>>
  <2>1. post' = post /\ follows' = follows BY <1>2
  <2>2. status' = status BY <2>1, QueueStays
  <2>3. ASSUME NEW p \in Posts PROVE loyal'[p] = loyal[p] /\ audience'[p] = audience[p]
    <3>1. Followed(p)' <=> Followed(p) BY <2>1 DEF Followed
    <3>2. F!ListedFollowers(Author[p])' = F!ListedFollowers(Author[p])
      BY <2>1 DEF F!ListedFollowers
    <3>3. post[p] # "deleted" \/ post'[p] # "visible" BY <2>1
    <3> QED BY <3>1, <3>2, <3>3, StaysObserved
  <2>4. loyal' = loyal /\ audience' = audience
    <3>1. /\ loyal' = [q \in Posts |-> loyal'[q]] /\ audience' = [q \in Posts |-> audience'[q]]
          /\ loyal \in [Posts -> SUBSET Users] /\ audience \in [Posts -> SUBSET Users]
      BY DEF Observed, ServiceInv, F!IInv, F!TypeOK
    <3> QED BY <2>3, <3>1
  <2> QED BY <2>1, <2>2, <2>4 DEF processors, F!vars, F!worker, F!observed
<1> QED BY <1>1, <1>2, OnlyCommitsPublish DEF F!Next

LEMMA FanIsFanout == Fan => F!Next /\ UNCHANGED vars
BY DEF Fan, F!Next

\* No processor touches a post, an edge or what is observed of them.
LEMMA FanObserves == Fan => UNCHANGED <<post, follows, loyal, audience>>
BY DEF Fan, vars, F!observed, F!Process, F!ClaimOutboxEvents, F!ReadFollowers, F!DeleteEntries,
       F!InsertEntries, F!CompleteOutboxEvent, F!FailOutboxEvent, F!Failures, F!HandlerFails,
       F!InsertFails, F!SettleFails, F!Advance, F!ClaimReplyLost, F!Stop, F!Start

LEMMA ServiceRefStep == ServiceInv /\ [ServiceNext]_serviceVars => RefInv' /\ [F!Next]_(F!vars)
<1> SUFFICES ASSUME ServiceInv, [ServiceNext]_serviceVars PROVE RefInv' /\ [F!Next]_(F!vars)
  OBVIOUS
<1>1. RefInv'
  <2>1. [Next]_vars BY FanIsFanout DEF ServiceNext, Serve, serviceVars
  <2> QED BY <2>1, RefStep DEF ServiceInv
<1>2. CASE Serve BY <1>1, <1>2, ServeIsFanout
<1>3. CASE Fan BY <1>1, <1>3, FanIsFanout
<1>4. CASE UNCHANGED serviceVars
  BY <1>1, <1>4 DEF serviceVars, vars, database, processors, F!vars, F!worker, F!observed
<1> QED BY <1>2, <1>3, <1>4 DEF ServiceNext

LEMMA UnobservedStep == ServiceInv /\ [ServiceNext]_serviceVars => Unobserved'
<1> SUFFICES ASSUME ServiceInv, [ServiceNext]_serviceVars, NEW p \in Posts, ~ Followed(p)'
             PROVE  loyal'[p] = {} /\ audience'[p] = {}
  BY DEF Unobserved
<1>1. CASE Serve BY <1>1 DEF Serve, Observed
<1>2. CASE UNCHANGED <<post, loyal, audience>>
  <2>1. ~ Followed(p) BY <1>2 DEF Followed
  <2> QED BY <1>2, <2>1 DEF ServiceInv, Unobserved
<1>3. CASE UNCHANGED serviceVars BY <1>2, <1>3 DEF serviceVars, vars, database
<1> QED BY <1>1, <1>2, <1>3, FanObserves DEF ServiceNext

LEMMA ServiceBegins == ServiceInit => ServiceInv
<1> SUFFICES ASSUME ServiceInit PROVE ServiceInv
  OBVIOUS
<1>1. Unobserved BY DEF ServiceInit, F!Init, Unobserved
<1> QED BY <1>1, RefBegins, FanoutBegins DEF ServiceInit, ServiceInv

LEMMA AlwaysServiceInv == ServiceSpec => []ServiceInv
<1>1. ServiceInv /\ [ServiceNext]_serviceVars => ServiceInv'
  BY ServiceRefStep, UnobservedStep, FanoutStep DEF ServiceInv
<1> QED BY <1>1, ServiceBegins, PTL DEF ServiceSpec

\* Requests of several statements, with their locks, failures and deadlocks,
\* between and during the calls of any number of processors, are to those
\* processors the handlers of Fanout, each of one step.
THEOREM ServiceImplementsFanout == ServiceSpec => ImplementsFanout
<1>1. ServiceInit => F!Init BY DEF ServiceInit
<1> QED BY <1>1, ServiceRefStep, AlwaysServiceInv, PTL DEF ServiceSpec, ImplementsFanout, F!Spec

-----------------------------------------------------------------------------
(* What is proved of Fanout, of the service *)

\* Nobody who has followed the author ever since misses a post whose creation
\* event is completed, and nobody who never did gets it, with publications and
\* follows that take several statements.
THEOREM ServiceDelivers == ServiceSpec => [](F!DoneMeansDelivered /\ F!OnlyAudience)
<1>1. ServiceInv => F!DoneMeansDelivered /\ F!OnlyAudience BY DEF ServiceInv, F!IInv
<1> QED BY <1>1, AlwaysServiceInv, PTL

\* An event is in the batch of one processor at most, and is not tried more than
\* MaxAttempts times, however its row came to be committed.
THEOREM ServiceClaims == ServiceSpec => [](F!ExclusiveClaim /\ F!RetryBudget)
<1>1. ServiceInv => F!ExclusiveClaim /\ F!RetryBudget BY DEF ServiceInv, F!IInv
<1> QED BY <1>1, AlwaysServiceInv, PTL

LEMMA SameHomeFeed == FP!ImplementsHomeFeed <=> F!ImplementsHomeFeed
<1>1. FP!HF!Init <=> F!HF!Init
  BY Zenon DEF FP!HF!Init, F!HF!Init, FP!HomeTimeline, F!HomeTimeline, FP!TopLevel, F!TopLevel
<1>2. [FP!HF!Next]_(FP!HF!vars) <=> [F!HF!Next]_(F!HF!vars)
  BY Zenon
     DEF FP!HF!Next, F!HF!Next, FP!HF!vars, F!HF!vars, FP!HF!Publish, F!HF!Publish,
         FP!HF!Delete, F!HF!Delete, FP!HF!Deliver, F!HF!Deliver, FP!HF!Follow, F!HF!Follow,
         FP!HF!Unfollow, F!HF!Unfollow, FP!HF!FollowersOf, F!HF!FollowersOf,
         FP!HomeTimeline, F!HomeTimeline, FP!TopLevel, F!TopLevel
<1> QED BY <1>1, <1>2, PTL DEF FP!ImplementsHomeFeed, F!ImplementsHomeFeed, FP!HF!Spec, F!HF!Spec

\* The home timelines of the service, from the first statement of a publication
\* to the last timeline entry, are those of the abstract home feed.
THEOREM ServiceImplementsHomeFeed == ServiceSpec => F!ImplementsHomeFeed
BY ServiceImplementsFanout, SameSpec, SameHomeFeed, FanoutAssumed, FP!FanoutImplementsHomeFeed,
   PTL DEF ImplementsFanout

=============================================================================
