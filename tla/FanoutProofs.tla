---------------------------- MODULE FanoutProofs ----------------------------
(***************************************************************************)
(* Proofs about Fanout, for any sets of users, posts and instances, any    *)
(* batch size, any number of attempts and of failures.                     *)
(***************************************************************************)
EXTENDS Fanout, FiniteSetTheorems, TLAPS

-----------------------------------------------------------------------------
(* Events *)

\* The creation and the deletion events of all posts are distinct, and an
\* event names its post (the payload of the outbox row).
LEMMA EventFacts ==
  /\ \A p \in Posts : /\ Created(p) \in CreatedEvents /\ Created(p) \in Events
                      /\ Deleted(p) \in Events
                      /\ Created(p)[2] = p /\ Deleted(p)[2] = p
  /\ \A p, q \in Posts : /\ Created(p) # Deleted(q)
                         /\ Created(p) = Created(q) => p = q
                         /\ Deleted(p) = Deleted(q) => p = q
  /\ \A e \in CreatedEvents : \E p \in Posts : e = Created(p)
  /\ \A e \in Events : \E p \in Posts : e = Created(p) \/ e = Deleted(p)
  /\ CreatedEvents \subseteq Events
  /\ TopLevel \subseteq Posts
  BY DEF Events, CreatedEvents, Created, Deleted, TopLevel

-----------------------------------------------------------------------------
(* Types *)

LEMMA TypeInit == Init => TypeOK
  BY FanoutAssumption DEF Init, TypeOK, PostStatus, EventStatus, Control

LEMMA TypeStep == TypeOK /\ [Next]_vars => TypeOK'
<1> SUFFICES ASSUME TypeOK, [Next]_vars PROVE TypeOK'
  OBVIOUS
<1> USE FanoutAssumption DEF TypeOK, worker, observed
<1>1. ASSUME NEW p \in Posts, CreatePost(p) PROVE TypeOK'
  BY <1>1, EventFacts DEF CreatePost, ListedFollowers, PostStatus, EventStatus
<1>2. ASSUME NEW p \in Posts, DeletePost(p) PROVE TypeOK'
  BY <1>2, EventFacts DEF DeletePost, PostStatus, EventStatus
<1>3. ASSUME NEW u \in Users, NEW v \in Users, Follow(u, v) PROVE TypeOK'
  BY <1>3 DEF Follow
<1>4. ASSUME NEW u \in Users, NEW v \in Users, Unfollow(u, v) PROVE TypeOK'
  BY <1>4 DEF Unfollow
<1>5. ASSUME NEW S \in SUBSET Events, Claim(S)
      PROVE status' \in [Events -> EventStatus] /\ attempts' \in [Events -> Nat]
  BY <1>5 DEF Claim, EventStatus
<1>6. ASSUME NEW i \in Instances, ClaimOutboxEvents(i) PROVE TypeOK'
  BY <1>5, <1>6 DEF ClaimOutboxEvents, Control
<1>7. ASSUME NEW i \in Instances, NEW p \in Posts, ReadFollowers(i, p) PROVE TypeOK'
  BY <1>7, EventFacts DEF ReadFollowers, GetFollowerIDs, Control
<1>8. ASSUME NEW i \in Instances, NEW p \in Posts, DeleteEntries(i, p) PROVE TypeOK'
  BY <1>8, EventFacts DEF DeleteEntries, Control
<1>9. ASSUME NEW i \in Instances, Insert(i) PROVE entries' \in [Posts -> SUBSET Users]
  BY <1>9 DEF Insert
<1>10. ASSUME NEW i \in Instances, InsertEntries(i) PROVE TypeOK'
  BY <1>9, <1>10 DEF InsertEntries, Control
<1>11. ASSUME NEW i \in Instances, Advance(i)
       PROVE /\ batch' \in [Instances -> SUBSET Events]
             /\ cur' \in [Instances -> Events \cup {NoEvent}]
             /\ pc' \in [Instances -> Control]
  BY <1>11 DEF Advance, Control
<1>12. ASSUME NEW i \in Instances, CompleteOutboxEvent(i) PROVE TypeOK'
  BY <1>11, <1>12 DEF CompleteOutboxEvent, Advance, EventStatus
<1>13. ASSUME NEW i \in Instances, FailOutboxEvent(i) PROVE TypeOK'
  BY <1>11, <1>13 DEF FailOutboxEvent, FailedStatus, Advance, EventStatus
<1>14. ASSUME NEW k, Fault(k) PROVE faults' \in 0..MaxFaults
  BY <1>14 DEF Fault
<1>15. ASSUME NEW i \in Instances, NEW e \in Events, HandlerFails(i, e) PROVE TypeOK'
  BY <1>14, <1>15 DEF HandlerFails, Control
<1>16. ASSUME NEW i \in Instances, InsertFails(i) PROVE TypeOK'
  BY <1>9, <1>14, <1>16 DEF InsertFails, Control
<1>17. ASSUME NEW i \in Instances, SettleFails(i) PROVE TypeOK'
  BY <1>11, <1>14, <1>17 DEF SettleFails, Advance
<1>18. ASSUME NEW i \in Instances, ClaimReplyLost(i) PROVE TypeOK'
  BY <1>5, <1>14, <1>18 DEF ClaimReplyLost
<1>19. ASSUME NEW i \in Instances, Stop(i) PROVE TypeOK'
  BY <1>14, <1>19 DEF Stop, Control
<1>20. ASSUME NEW i \in Instances, Start(i) PROVE TypeOK'
  BY <1>20 DEF Start, Control
<1>21. CASE UNCHANGED vars
  BY <1>21 DEF vars
<1> QED
  BY <1>1, <1>2, <1>3, <1>4, <1>6, <1>7, <1>8, <1>10, <1>12, <1>13, <1>15,
     <1>16, <1>17, <1>18, <1>19, <1>20, <1>21 DEF Next, Handlers, Process, Failures

\* Every variable keeps its type.
THEOREM TypeCorrect == Spec => []TypeOK
  BY TypeInit, TypeStep, PTL DEF Spec

-----------------------------------------------------------------------------
(* The inductive invariant *)

LEMMA IInvInit == Init => IInv
<1> SUFFICES ASSUME Init PROVE IInv
  OBVIOUS
<1>1. TypeOK
  BY TypeInit
<1>2. ExclusiveClaim /\ WorkerState
  BY DEF Init, ExclusiveClaim, WorkerState
<1>3. RetryBudget
  BY FanoutAssumption DEF Init, RetryBudget
<1>4. EventLifecycle /\ AbsentUntried
  BY EventFacts DEF Init, EventLifecycle, AbsentUntried
<1>5. FollowersBetween /\ InFlight /\ NothingEarly /\ OnlyAudience /\ DoneMeansDelivered
  BY EventFacts DEF Init, FollowersBetween, InFlight, NothingEarly, OnlyAudience,
     DoneMeansDelivered
<1> QED
  BY <1>1, <1>2, <1>3, <1>4, <1>5 DEF IInv

\* Only pending events are claimed.
LEMMA ClaimFacts ==
  ASSUME TypeOK, NEW S \in SUBSET Events, Claim(S)
  PROVE  /\ \A e \in S : status[e] = "pending" /\ status'[e] = "processing"
                         /\ attempts'[e] = attempts[e] + 1
         /\ \A e \in Events \ S : status'[e] = status[e] /\ attempts'[e] = attempts[e]
  BY DEF TypeOK, Claim, Claimable, Pending

\* Settling an event takes it, and nothing else, out of the batch.
LEMMA AdvanceFacts ==
  ASSUME IInv, NEW i \in Instances, pc[i] \in {"complete", "fail"}, Advance(i)
  PROVE  /\ cur[i] \in batch[i] /\ cur[i] \in Events
         /\ status[cur[i]] = "processing"
         /\ batch'[i] = batch[i] \ {cur[i]}
         /\ \A j \in Instances \ {i} : batch'[j] = batch[j] /\ cur[i] \notin batch[j]
         /\ \A j \in Instances \ {i} : cur'[j] = cur[j] /\ pc'[j] = pc[j]
         /\ cur'[i] = NoEvent
         /\ pc'[i] = "idle" => batch'[i] = {}
         /\ pc'[i] \in {"idle", "batch"}
  BY DEF IInv, TypeOK, WorkerState, ExclusiveClaim, Advance

LEMMA ExclusiveClaimStep == IInv /\ [Next]_vars => ExclusiveClaim'
<1> SUFFICES ASSUME IInv, [Next]_vars PROVE ExclusiveClaim'
  OBVIOUS
<1> USE DEF IInv, worker, observed
<1>1. ASSUME NEW p \in Posts, CreatePost(p) PROVE ExclusiveClaim'
  \* the new event was absent, so in no batch
  BY <1>1, EventFacts DEF CreatePost, TypeOK, ExclusiveClaim, EventLifecycle
<1>2. ASSUME NEW p \in Posts, DeletePost(p) PROVE ExclusiveClaim'
  BY <1>2, EventFacts DEF DeletePost, TypeOK, ExclusiveClaim, EventLifecycle
<1>3. ASSUME NEW S \in SUBSET Events, Claim(S), UNCHANGED batch PROVE ExclusiveClaim'
  BY <1>3, ClaimFacts DEF TypeOK, ExclusiveClaim
<1>4. ASSUME NEW i \in Instances, ClaimOutboxEvents(i) PROVE ExclusiveClaim'
  <2>1. PICK S \in SUBSET Events : Claim(S) /\ batch' = [batch EXCEPT ![i] = S]
    BY <1>4 DEF ClaimOutboxEvents
  <2>2. \A e \in S : status[e] = "pending" /\ \A j \in Instances : e \notin batch[j]
    BY <2>1, ClaimFacts DEF ExclusiveClaim, TypeOK
  <2>3. \A j \in Instances : batch'[j] = IF j = i THEN S ELSE batch[j]
    BY <2>1 DEF TypeOK
  <2> QED
    BY <2>1, <2>2, <2>3, ClaimFacts DEF TypeOK, ExclusiveClaim
<1>5. ASSUME NEW i \in Instances, ClaimReplyLost(i) PROVE ExclusiveClaim'
  BY <1>3, <1>5 DEF ClaimReplyLost
<1>6. ASSUME NEW i \in Instances, pc[i] \in {"complete", "fail"}, Advance(i),
             NEW s \in EventStatus, status' = [status EXCEPT ![cur[i]] = s] \/ status' = status
      PROVE ExclusiveClaim'
  <2>1. /\ \A j \in Instances : batch'[j] \subseteq batch[j] /\ cur[i] \notin batch'[j]
        /\ \A e \in Events \ {cur[i]} : status'[e] = status[e]
    BY <1>6, AdvanceFacts DEF TypeOK
  <2> QED
    BY <2>1 DEF TypeOK, ExclusiveClaim
<1>7. ASSUME NEW i \in Instances,
             CompleteOutboxEvent(i) \/ FailOutboxEvent(i) \/ SettleFails(i)
      PROVE ExclusiveClaim'
  BY <1>6, <1>7 DEF CompleteOutboxEvent, FailOutboxEvent, FailedStatus, SettleFails, EventStatus
<1>8. ASSUME NEW i \in Instances, Stop(i) PROVE ExclusiveClaim'
  BY <1>8 DEF Stop, TypeOK, ExclusiveClaim
<1>9. ASSUME UNCHANGED <<status, batch>> PROVE ExclusiveClaim'
  BY <1>9 DEF ExclusiveClaim
<1> QED
  BY <1>1, <1>2, <1>4, <1>5, <1>7, <1>8, <1>9
     DEF Next, Handlers, Process, Failures, Follow, Unfollow, ReadFollowers, InsertEntries,
         DeleteEntries, HandlerFails, InsertFails, Start, vars

LEMMA RetryBudgetStep == IInv /\ [Next]_vars => RetryBudget'
<1> SUFFICES ASSUME IInv, [Next]_vars PROVE RetryBudget'
  OBVIOUS
<1> USE FanoutAssumption DEF IInv, worker, observed, RetryBudget
<1>1. ASSUME NEW p \in Posts, CreatePost(p) PROVE RetryBudget'
  <2>1. CASE p \in TopLevel
    <3>1. /\ attempts[Created(p)] = 0 /\ UNCHANGED attempts
          /\ status' = [status EXCEPT ![Created(p)] = "pending"]
      BY <1>1, <2>1, EventFacts DEF CreatePost, TypeOK, EventLifecycle, AbsentUntried
    <3> QED
      BY <3>1 DEF TypeOK
  <2>2. CASE p \notin TopLevel
    BY <1>1, <2>2 DEF CreatePost
  <2> QED
    BY <2>1, <2>2
<1>2. ASSUME NEW p \in Posts, DeletePost(p) PROVE RetryBudget'
  <2>1. /\ attempts[Deleted(p)] = 0 /\ UNCHANGED attempts
        /\ status' = [status EXCEPT ![Deleted(p)] = "pending"]
    BY <1>2, EventFacts DEF DeletePost, TypeOK, EventLifecycle, AbsentUntried
  <2> QED
    BY <2>1 DEF TypeOK
<1>3. ASSUME NEW S \in SUBSET Events, Claim(S) PROVE RetryBudget'
  <2> SUFFICES ASSUME NEW e \in Events
               PROVE /\ attempts'[e] <= MaxAttempts
                     /\ status'[e] = "pending" => attempts'[e] < MaxAttempts
                     /\ status'[e] = "dead" => attempts'[e] = MaxAttempts
    OBVIOUS
  <2>1. CASE e \in S
    BY <1>3, <2>1, ClaimFacts DEF TypeOK
  <2>2. CASE e \notin S
    BY <1>3, <2>2, ClaimFacts
  <2> QED
    BY <2>1, <2>2
<1>4. ASSUME NEW i \in Instances, ClaimOutboxEvents(i) \/ ClaimReplyLost(i) PROVE RetryBudget'
  BY <1>3, <1>4 DEF ClaimOutboxEvents, ClaimReplyLost
<1>5. ASSUME NEW i \in Instances, CompleteOutboxEvent(i) PROVE RetryBudget'
  BY <1>5 DEF CompleteOutboxEvent, Advance, TypeOK
<1>6. ASSUME NEW i \in Instances, FailOutboxEvent(i) PROVE RetryBudget'
  <2>1. cur[i] \in Events BY <1>6, AdvanceFacts DEF FailOutboxEvent
  <2>2. /\ UNCHANGED attempts
        /\ status'[cur[i]] = FailedStatus(cur[i])
        /\ \A e \in Events \ {cur[i]} : status'[e] = status[e]
    BY <1>6, <2>1 DEF FailOutboxEvent, Advance, TypeOK
  <2>3. /\ \A e \in Events : attempts[e] <= MaxAttempts /\ attempts[e] \in Nat
        /\ MaxAttempts \in Nat
    BY FanoutAssumption DEF TypeOK
  <2> QED BY <2>1, <2>2, <2>3 DEF FailedStatus
<1>7. ASSUME UNCHANGED <<status, attempts>> PROVE RetryBudget'
  BY <1>7
<1> QED
  BY <1>1, <1>2, <1>4, <1>5, <1>6, <1>7
     DEF Next, Handlers, Process, Failures, Follow, Unfollow, ReadFollowers, InsertEntries,
         DeleteEntries, HandlerFails, InsertFails, SettleFails, Advance, Stop, Start, vars

LEMMA EventLifecycleStep == IInv /\ [Next]_vars => EventLifecycle'
<1> SUFFICES ASSUME IInv, [Next]_vars PROVE EventLifecycle'
  OBVIOUS
<1> USE DEF IInv, worker, observed, EventLifecycle
<1>1. ASSUME NEW p \in Posts, CreatePost(p) PROVE EventLifecycle'
  BY <1>1, EventFacts DEF CreatePost, TypeOK
<1>2. ASSUME NEW p \in Posts, DeletePost(p) PROVE EventLifecycle'
  BY <1>2, EventFacts DEF DeletePost, TypeOK
<1>3. ASSUME UNCHANGED post,
             \A e \in Events : status'[e] = "absent" <=> status[e] = "absent"
      PROVE EventLifecycle'
  BY <1>3, EventFacts
<1>4. ASSUME NEW i \in Instances, ClaimOutboxEvents(i) \/ ClaimReplyLost(i)
      PROVE EventLifecycle'
  BY <1>3, <1>4, ClaimFacts DEF ClaimOutboxEvents, ClaimReplyLost
<1>5. ASSUME NEW i \in Instances, CompleteOutboxEvent(i) \/ FailOutboxEvent(i)
      PROVE EventLifecycle'
  BY <1>3, <1>5, AdvanceFacts
     DEF CompleteOutboxEvent, FailOutboxEvent, FailedStatus, Advance, TypeOK
<1>6. ASSUME UNCHANGED <<post, status>> PROVE EventLifecycle'
  BY <1>6
<1> QED
  BY <1>1, <1>2, <1>4, <1>5, <1>6
     DEF Next, Handlers, Process, Failures, Follow, Unfollow, ReadFollowers, InsertEntries,
         DeleteEntries, HandlerFails, InsertFails, SettleFails, Advance, Stop, Start, vars

LEMMA AbsentUntriedStep == IInv /\ [Next]_vars => AbsentUntried'
<1> SUFFICES ASSUME IInv, [Next]_vars PROVE AbsentUntried'
  OBVIOUS
<1> USE DEF IInv, worker, observed, AbsentUntried
<1>1. ASSUME NEW p \in Posts, CreatePost(p) \/ DeletePost(p) PROVE AbsentUntried'
  BY <1>1, EventFacts DEF CreatePost, DeletePost, TypeOK
<1>2. ASSUME NEW i \in Instances, ClaimOutboxEvents(i) \/ ClaimReplyLost(i)
      PROVE AbsentUntried'
  BY <1>2, ClaimFacts DEF ClaimOutboxEvents, ClaimReplyLost
<1>3. ASSUME NEW i \in Instances, CompleteOutboxEvent(i) \/ FailOutboxEvent(i)
      PROVE AbsentUntried'
  BY <1>3 DEF CompleteOutboxEvent, FailOutboxEvent, FailedStatus, Advance, TypeOK
<1>4. ASSUME UNCHANGED <<status, attempts>> PROVE AbsentUntried'
  BY <1>4
<1> QED
  BY <1>1, <1>2, <1>3, <1>4
     DEF Next, Handlers, Process, Failures, Follow, Unfollow, ReadFollowers, InsertEntries,
         DeleteEntries, HandlerFails, InsertFails, SettleFails, Advance, Stop, Start, vars

LEMMA WorkerStateStep == IInv /\ [Next]_vars => WorkerState'
<1> SUFFICES ASSUME IInv, [Next]_vars PROVE WorkerState'
  OBVIOUS
<1> USE DEF IInv, worker, observed, WorkerState
<1>1. ASSUME NEW i \in Instances, ClaimOutboxEvents(i) PROVE WorkerState'
  BY <1>1 DEF ClaimOutboxEvents, TypeOK
<1>2. ASSUME NEW i \in Instances, NEW p \in Posts, ReadFollowers(i, p) \/ DeleteEntries(i, p)
      PROVE WorkerState'
  BY <1>2, EventFacts DEF ReadFollowers, DeleteEntries, TypeOK
<1>3. ASSUME NEW i \in Instances, NEW e \in Events, HandlerFails(i, e) PROVE WorkerState'
  BY <1>3 DEF HandlerFails, TypeOK
<1>4. ASSUME NEW i \in Instances, InsertEntries(i) \/ InsertFails(i) PROVE WorkerState'
  BY <1>4 DEF InsertEntries, InsertFails, TypeOK
<1>5. ASSUME NEW i \in Instances,
             CompleteOutboxEvent(i) \/ FailOutboxEvent(i) \/ SettleFails(i)
      PROVE WorkerState'
  <2>1. pc[i] \in {"complete", "fail"} /\ Advance(i)
    BY <1>5 DEF CompleteOutboxEvent, FailOutboxEvent, SettleFails
  <2> QED
    BY <2>1, AdvanceFacts
<1>6. ASSUME NEW i \in Instances, Stop(i) \/ Start(i) PROVE WorkerState'
  BY <1>6 DEF Stop, Start, TypeOK
<1>7. ASSUME UNCHANGED worker PROVE WorkerState'
  BY <1>7
<1> QED
  BY <1>1, <1>2, <1>3, <1>4, <1>5, <1>6, <1>7
     DEF Next, Handlers, Process, Failures, CreatePost, DeletePost, Follow, Unfollow,
         ClaimReplyLost, vars

LEMMA FollowersBetweenStep == IInv /\ [Next]_vars => FollowersBetween'
<1> SUFFICES ASSUME IInv, [Next]_vars PROVE FollowersBetween'
  OBVIOUS
<1> USE EventFacts DEF IInv, worker, observed, FollowersBetween, ListedFollowers
<1>1. ASSUME NEW p \in Posts, CreatePost(p) PROVE FollowersBetween'
  BY <1>1 DEF CreatePost, TypeOK
<1>2. ASSUME NEW p \in Posts, DeletePost(p) PROVE FollowersBetween'
  BY <1>2 DEF DeletePost, TypeOK
<1>3. ASSUME NEW u \in Users, NEW v \in Users, Follow(u, v) PROVE FollowersBetween'
  BY <1>3 DEF Follow, TypeOK
<1>4. ASSUME NEW u \in Users, NEW v \in Users, Unfollow(u, v) PROVE FollowersBetween'
  BY <1>4 DEF Unfollow, TypeOK
<1>5. ASSUME UNCHANGED <<post, follows, observed>> PROVE FollowersBetween'
  BY <1>5
<1> QED
  BY <1>1, <1>2, <1>3, <1>4, <1>5
     DEF Next, Handlers, Process, Failures, ClaimOutboxEvents, ReadFollowers, InsertEntries,
         DeleteEntries, CompleteOutboxEvent, FailOutboxEvent, HandlerFails, InsertFails,
         SettleFails, Advance, ClaimReplyLost, Stop, Start, vars

LEMMA InFlightStep == IInv /\ [Next]_vars => InFlight'
<1> SUFFICES ASSUME IInv, [Next]_vars PROVE InFlight'
  OBVIOUS
<1> USE EventFacts DEF IInv, worker, observed, InFlight
<1>1. ASSUME NEW p \in Posts, CreatePost(p) PROVE InFlight'
  \* no processor is inserting or completing: the event of p was absent
  <2>1. \A i \in Instances : pc[i] \in {"insert", "complete"} => cur[i] # Created(p)
    BY <1>1 DEF CreatePost, WorkerState, ExclusiveClaim, EventLifecycle
  <2> QED
    BY <1>1, <2>1 DEF CreatePost, TypeOK
<1>2. ASSUME NEW p \in Posts, DeletePost(p) PROVE InFlight'
  BY <1>2 DEF DeletePost, TypeOK
<1>3. ASSUME NEW u \in Users, NEW v \in Users, Follow(u, v) PROVE InFlight'
  BY <1>3 DEF Follow, TypeOK
<1>4. ASSUME NEW u \in Users, NEW v \in Users, Unfollow(u, v) PROVE InFlight'
  BY <1>4 DEF Unfollow, TypeOK
<1>5. ASSUME NEW i \in Instances, NEW p \in Posts, ReadFollowers(i, p) PROVE InFlight'
  <2>1. p \in TopLevel
    BY <1>5 DEF ReadFollowers, ExclusiveClaim, EventLifecycle
  <2>2. post[p] = "visible" => /\ loyal[p] \subseteq GetFollowerIDs(Author[p])
                               /\ GetFollowerIDs(Author[p]) \subseteq audience[p]
    BY <2>1 DEF FollowersBetween, ListedFollowers, GetFollowerIDs
  <2>3. /\ cur'[i] = Created(p) /\ fans'[i] = GetFollowerIDs(Author[p])
        /\ pc'[i] = "complete" => GetFollowerIDs(Author[p]) = {}
        /\ \A j \in Instances \ {i} : cur'[j] = cur[j] /\ fans'[j] = fans[j] /\ pc'[j] = pc[j]
        /\ UNCHANGED <<post, entries, loyal, audience>>
    BY <1>5 DEF ReadFollowers, TypeOK
  <2> QED
    BY <2>2, <2>3
<1>6. ASSUME NEW i \in Instances, InsertEntries(i) PROVE InFlight'
  <2>1. PICK q \in Posts : cur[i] = Created(q) /\ cur[i][2] = q
    BY <1>6 DEF InsertEntries, WorkerState
  <2>2. /\ entries' = [entries EXCEPT ![q] = @ \cup fans[i]]
        /\ pc' = [pc EXCEPT ![i] = "complete"]
        /\ UNCHANGED <<post, cur, loyal, audience>>
        /\ \A j \in Instances \ {i} : fans'[j] = fans[j]
    BY <1>6, <2>1 DEF InsertEntries, Insert, TypeOK
  <2> QED
    BY <1>6, <2>1, <2>2 DEF InsertEntries, TypeOK
<1>7. ASSUME NEW q \in Posts, entries' = [entries EXCEPT ![q] = {}] \/ UNCHANGED entries,
             post[q] = "deleted", NEW i \in Instances, NEW s \in Control \ {"insert"},
             NEW e \in Events, \A p \in Posts : e = Created(p) => s # "complete",
             pc' = [pc EXCEPT ![i] = s], cur' = [cur EXCEPT ![i] = e],
             UNCHANGED <<post, fans, loyal, audience>>
      PROVE InFlight'
  BY <1>7 DEF TypeOK
<1>8. ASSUME NEW i \in Instances, NEW p \in Posts, DeleteEntries(i, p) PROVE InFlight'
  <2>1. post[p] = "deleted"
    BY <1>8 DEF DeleteEntries, ExclusiveClaim, EventLifecycle
  <2>2. /\ \A q \in Posts : cur'[i] # Created(q)
        /\ \A q \in Posts \ {p} : entries'[q] = entries[q]
        /\ \A j \in Instances \ {i} : cur'[j] = cur[j] /\ pc'[j] = pc[j]
        /\ UNCHANGED <<post, fans, loyal, audience>>
    BY <1>8 DEF DeleteEntries, TypeOK
  <2> QED
    BY <2>1, <2>2
<1>9. ASSUME NEW i \in Instances, NEW e \in Events, HandlerFails(i, e) PROVE InFlight'
  <2>1. PICK q \in Posts : e = Created(q) \/ e = Deleted(q)
    OBVIOUS
  <2>2. CASE UNCHANGED entries
    BY <1>9, <2>2 DEF HandlerFails, TypeOK
  <2>3. CASE e = Deleted(e[2]) /\ entries' = [entries EXCEPT ![e[2]] = {}]
    <3>1. e = Deleted(q) /\ e[2] = q
      BY <2>1, <2>3 DEF Created, Deleted
    <3>2. post[q] = "deleted"
      BY <1>9, <3>1 DEF HandlerFails, ExclusiveClaim, EventLifecycle
    <3> QED
      BY <1>7, <1>9, <2>3, <3>1, <3>2 DEF HandlerFails, Control
  <2> QED
    BY <1>9, <2>2, <2>3 DEF HandlerFails
<1>10. ASSUME NEW i \in Instances, InsertFails(i) PROVE InFlight'
  <2>1. PICK q \in Posts : cur[i] = Created(q) /\ cur[i][2] = q
    BY <1>10 DEF InsertFails, WorkerState
  <2>2. /\ \A r \in Posts : entries[r] \subseteq entries'[r]
        /\ pc'[i] = "fail"
        /\ UNCHANGED <<post, cur, loyal, audience>>
        /\ \A j \in Instances \ {i} : fans'[j] = fans[j] /\ pc'[j] = pc[j]
    <3>1. \A r \in Posts : entries[r] \subseteq entries'[r]
      <4>1. CASE UNCHANGED entries
        BY <4>1
      <4>2. CASE Insert(i)
        BY <2>1, <4>2 DEF Insert, TypeOK
      <4> QED
        BY <1>10, <4>1, <4>2 DEF InsertFails
    <3> QED
      BY <1>10, <3>1 DEF InsertFails, TypeOK
  <2> QED
    BY <2>2
<1>11. ASSUME NEW i \in Instances,
              CompleteOutboxEvent(i) \/ FailOutboxEvent(i) \/ SettleFails(i)
       PROVE InFlight'
  <2>1. /\ pc[i] \in {"complete", "fail"} /\ Advance(i)
        /\ UNCHANGED <<post, entries, fans, loyal, audience>>
    BY <1>11 DEF CompleteOutboxEvent, FailOutboxEvent, SettleFails, Advance
  <2> QED
    BY <2>1, AdvanceFacts
<1>12. ASSUME NEW i \in Instances, NEW s \in Control \ {"insert", "complete"},
              pc' = [pc EXCEPT ![i] = s], \A j \in Instances \ {i} : cur'[j] = cur[j] /\ fans'[j] = fans[j],
              UNCHANGED <<post, entries, loyal, audience>>
       PROVE InFlight'
  BY <1>12 DEF TypeOK
<1>13. ASSUME NEW i \in Instances, ClaimOutboxEvents(i) \/ Stop(i) \/ Start(i)
       PROVE InFlight'
  BY <1>12, <1>13 DEF ClaimOutboxEvents, Stop, Start, Control, TypeOK
<1>14. ASSUME UNCHANGED <<post, entries, worker, observed>> PROVE InFlight'
  BY <1>14
<1> QED
  BY <1>1, <1>2, <1>3, <1>4, <1>5, <1>6, <1>8, <1>9, <1>10, <1>11, <1>13, <1>14
     DEF Next, Handlers, Process, Failures, ClaimReplyLost, vars

\* How a step may change the timelines of a post that it neither publishes
\* nor finds deleted: it inserts the followers a processor has read, or nothing.
LEMMA EntriesStep ==
  ASSUME IInv, [Next]_vars, NEW p \in Posts, post[p] # "deleted"
  PROVE  \/ entries'[p] = entries[p]
         \/ \E i \in Instances : /\ pc[i] = "insert" /\ cur[i] = Created(p)
                                 /\ entries'[p] = entries[p] \cup fans[i]
                                 /\ UNCHANGED <<post, status, observed>>
<1> USE EventFacts DEF IInv, worker, observed
<1>1. ASSUME NEW i \in Instances, Deleted(p) \in batch[i] PROVE FALSE
  BY <1>1 DEF ExclusiveClaim, EventLifecycle
<1>2. ASSUME NEW i \in Instances, NEW q \in Posts, DeleteEntries(i, q)
      PROVE entries'[p] = entries[p]
  BY <1>1, <1>2 DEF DeleteEntries, TypeOK
<1>3. ASSUME NEW i \in Instances, NEW e \in Events, HandlerFails(i, e)
      PROVE entries'[p] = entries[p]
  <2>1. CASE UNCHANGED entries
    BY <2>1
  <2>2. CASE e = Deleted(e[2]) /\ entries' = [entries EXCEPT ![e[2]] = {}]
    <3>1. e # Deleted(p)
      BY <1>1, <1>3 DEF HandlerFails
    <3> QED
      BY <2>2, <3>1 DEF TypeOK
  <2> QED
    BY <1>3, <2>1, <2>2 DEF HandlerFails
<1>4. ASSUME NEW i \in Instances, pc[i] = "insert", Insert(i), UNCHANGED <<post, status, observed>>
      PROVE \/ entries'[p] = entries[p]
            \/ /\ cur[i] = Created(p) /\ entries'[p] = entries[p] \cup fans[i]
               /\ UNCHANGED <<post, status, observed>>
  <2>1. PICK q \in Posts : cur[i] = Created(q) /\ cur[i][2] = q
    BY <1>4 DEF WorkerState
  <2> QED
    BY <1>4, <2>1 DEF Insert, TypeOK
<1>5. CASE UNCHANGED entries
  BY <1>5
<1> QED
  BY <1>2, <1>3, <1>4, <1>5
     DEF Next, Handlers, Process, Failures, CreatePost, DeletePost, Follow, Unfollow,
         ClaimOutboxEvents, ReadFollowers, InsertEntries, CompleteOutboxEvent, FailOutboxEvent,
         InsertFails, SettleFails, Advance, ClaimReplyLost, Stop, Start, vars

\* How a step may change the publication of a post and what is observed of it.
LEMMA PostStep ==
  ASSUME IInv, [Next]_vars, NEW p \in Posts
  PROVE  /\ post[p] = "none" => post'[p] \in {"none", "visible"}
         /\ post[p] = "none" /\ post'[p] = "visible" => UNCHANGED entries
         /\ post[p] = "visible" => /\ post'[p] \in {"visible", "deleted"}
                                   /\ post'[p] = "visible" => audience[p] \subseteq audience'[p]
                                   /\ post'[p] = "visible" => loyal'[p] \subseteq loyal[p]
         /\ post[p] = "deleted" => post'[p] = "deleted"
<1> USE EventFacts DEF IInv, worker, observed, TypeOK, PostStatus
<1>1. ASSUME NEW q \in Posts, CreatePost(q) \/ DeletePost(q)
      PROVE /\ post[p] = "none" => post'[p] \in {"none", "visible"}
            /\ UNCHANGED entries
            /\ post[p] = "visible" => /\ post'[p] \in {"visible", "deleted"}
                                      /\ post'[p] = "visible" => UNCHANGED <<loyal[p], audience[p]>>
            /\ post[p] = "deleted" => post'[p] = "deleted"
  BY <1>1 DEF CreatePost, DeletePost
<1>2. ASSUME NEW u \in Users, NEW v \in Users, Follow(u, v) \/ Unfollow(u, v)
      PROVE UNCHANGED post /\ loyal'[p] \subseteq loyal[p] /\ audience[p] \subseteq audience'[p]
  BY <1>2 DEF Follow, Unfollow
<1>3. CASE UNCHANGED <<post, observed>>
  BY <1>3
<1> QED
  BY <1>1, <1>2, <1>3
     DEF Next, Handlers, Process, Failures, ClaimOutboxEvents, ReadFollowers, InsertEntries,
         DeleteEntries, CompleteOutboxEvent, FailOutboxEvent, HandlerFails, InsertFails,
         SettleFails, Advance, ClaimReplyLost, Stop, Start, vars

LEMMA NothingEarlyStep == IInv /\ [Next]_vars => NothingEarly'
<1> SUFFICES ASSUME IInv, [Next]_vars, NEW p \in Posts, post'[p] = "none"
             PROVE entries'[p] = {}
  BY DEF NothingEarly
<1>1. post[p] = "none" /\ entries[p] = {}
  BY PostStep DEF IInv, TypeOK, PostStatus, NothingEarly
<1>2. \A i \in Instances : pc[i] = "insert" => cur[i] # Created(p)
  BY <1>1, EventFacts DEF IInv, WorkerState, ExclusiveClaim, EventLifecycle
<1> QED
  BY <1>1, <1>2, EntriesStep

LEMMA OnlyAudienceStep == IInv /\ [Next]_vars => OnlyAudience'
<1> SUFFICES ASSUME IInv, [Next]_vars, NEW p \in Posts, post'[p] = "visible"
             PROVE entries'[p] \subseteq audience'[p]
  BY DEF OnlyAudience
<1>1. CASE post[p] = "none"
  BY <1>1, PostStep DEF IInv, NothingEarly
<1>2. CASE post[p] = "visible"
  <2>1. entries[p] \subseteq audience[p] /\ audience[p] \subseteq audience'[p]
    BY <1>2, PostStep DEF IInv, OnlyAudience
  <2>2. \A i \in Instances : pc[i] = "insert" /\ cur[i] = Created(p) => fans[i] \subseteq audience[p]
    BY <1>2 DEF IInv, InFlight
  <2> QED
    BY <1>2, <2>1, <2>2, EntriesStep
<1> QED
  BY <1>1, <1>2, PostStep DEF IInv, TypeOK, PostStatus

\* How a step may change the status of an event.
LEMMA StatusStep ==
  ASSUME IInv, [Next]_vars, NEW e \in Events
  PROVE  /\ status[e] \in {"done", "dead"} => status'[e] = status[e]
         /\ status[e] = "absent" => status'[e] \in {"absent", "pending"}
         /\ status'[e] = "done" /\ status[e] # "done" =>
               /\ \E i \in Instances : pc[i] = "complete" /\ cur[i] = e
               /\ UNCHANGED <<post, entries, observed>>
<1> USE EventFacts DEF IInv, worker, observed
<1>1. ASSUME NEW p \in Posts, CreatePost(p) \/ DeletePost(p)
      PROVE status'[e] = status[e] \/ (status[e] = "absent" /\ status'[e] = "pending")
  <2>1. CASE CreatePost(p) /\ p \in TopLevel
    <3>1. status[Created(p)] = "absent" /\ status' = [status EXCEPT ![Created(p)] = "pending"]
      BY <2>1 DEF CreatePost, EventLifecycle
    <3> QED
      BY <3>1 DEF TypeOK
  <2>2. CASE CreatePost(p) /\ p \notin TopLevel
    BY <2>2 DEF CreatePost
  <2>3. CASE DeletePost(p)
    <3>1. status[Deleted(p)] = "absent" /\ status' = [status EXCEPT ![Deleted(p)] = "pending"]
      BY <2>3 DEF DeletePost, EventLifecycle
    <3> QED
      BY <3>1 DEF TypeOK
  <2> QED
    BY <1>1, <2>1, <2>2, <2>3
<1>2. ASSUME NEW i \in Instances, ClaimOutboxEvents(i) \/ ClaimReplyLost(i)
      PROVE status'[e] = status[e] \/ (status[e] = "pending" /\ status'[e] = "processing")
  <2>1. PICK S \in SUBSET Events : Claim(S)
    BY <1>2 DEF ClaimOutboxEvents, ClaimReplyLost
  <2>2. CASE e \in S
    BY <2>1, <2>2, ClaimFacts
  <2>3. CASE e \notin S
    BY <2>1, <2>3, ClaimFacts
  <2> QED
    BY <2>2, <2>3
<1>3. ASSUME NEW i \in Instances, CompleteOutboxEvent(i)
      PROVE \/ status'[e] = status[e]
            \/ /\ pc[i] = "complete" /\ cur[i] = e
               /\ status[e] = "processing" /\ UNCHANGED <<post, entries, observed>>
  <2>1. pc[i] = "complete" /\ Advance(i)
    BY <1>3 DEF CompleteOutboxEvent
  <2>2. status[cur[i]] = "processing"
    BY <2>1, AdvanceFacts
  <2> QED
    BY <1>3, <2>1, <2>2 DEF CompleteOutboxEvent, Advance, TypeOK
<1>4. ASSUME NEW i \in Instances, FailOutboxEvent(i)
      PROVE \/ status'[e] = status[e]
            \/ status[e] = "processing" /\ status'[e] \in {"pending", "dead"}
  <2>1. pc[i] = "fail" /\ Advance(i)
    BY <1>4 DEF FailOutboxEvent
  <2>2. status[cur[i]] = "processing"
    BY <2>1, AdvanceFacts
  <2> QED
    BY <1>4, <2>2 DEF FailOutboxEvent, FailedStatus, TypeOK
<1>5. CASE UNCHANGED status
  BY <1>5
<1> QED
  BY <1>1, <1>2, <1>3, <1>4, <1>5
     DEF Next, Handlers, Process, Failures, Follow, Unfollow, ReadFollowers, InsertEntries,
         DeleteEntries, HandlerFails, InsertFails, SettleFails, Advance, Stop, Start, vars

LEMMA DoneMeansDeliveredStep == IInv /\ [Next]_vars => DoneMeansDelivered'
<1> SUFFICES ASSUME IInv, [Next]_vars, NEW p \in Posts,
                    post'[p] = "visible", status'[Created(p)] = "done"
             PROVE loyal'[p] \subseteq entries'[p]
  BY DEF DoneMeansDelivered
<1> USE EventFacts DEF IInv
<1>1. post[p] = "visible"
  <2>1. status[Created(p)] # "absent"
    BY StatusStep
  <2> QED
    BY <2>1, PostStep DEF EventLifecycle, TypeOK, PostStatus
<1>2. CASE status[Created(p)] = "done"
  BY <1>1, <1>2, EntriesStep, PostStep DEF DoneMeansDelivered, observed
<1>3. CASE status[Created(p)] # "done"
  \* completed in this step, so the processor had inserted what it read
  BY <1>1, <1>3, StatusStep DEF InFlight, observed
<1> QED
  BY <1>2, <1>3

LEMMA IInvStep == IInv /\ [Next]_vars => IInv'
<1> SUFFICES ASSUME IInv, [Next]_vars PROVE IInv'
  OBVIOUS
<1>1. TypeOK'
  BY TypeStep DEF IInv
<1> QED
  BY <1>1, ExclusiveClaimStep, RetryBudgetStep, EventLifecycleStep, AbsentUntriedStep,
     WorkerStateStep, FollowersBetweenStep, InFlightStep, NothingEarlyStep, OnlyAudienceStep,
     DoneMeansDeliveredStep DEF IInv

LEMMA Invariance == Spec => []IInv
  BY IInvInit, IInvStep, PTL DEF Spec

-----------------------------------------------------------------------------
(* The results *)

\* No two processors handle the same event, whatever instances are started,
\* stopped or killed (ClaimOutboxEvents).
THEOREM ClaimsAreExclusive == Spec => []ExclusiveClaim
<1>1. IInv => ExclusiveClaim
  BY DEF IInv
<1> QED
  BY <1>1, Invariance, PTL

\* The attempts on an event are bounded by MaxAttempts and the dead letters are
\* the events that used them all (FailOutboxEvent).
THEOREM RetriesAreBounded == Spec => []RetryBudget
<1>1. IInv => RetryBudget
  BY DEF IInv
<1> QED
  BY <1>1, Invariance, PTL

\* A completed creation event has reached every follower who stayed
\* (handlePostCreated).
THEOREM CompletedIsDelivered == Spec => []DoneMeansDelivered
<1>1. IInv => DoneMeansDelivered
  BY DEF IInv
<1> QED
  BY <1>1, Invariance, PTL

\* Nobody who never followed the author gets a visible post (handlePostCreated).
THEOREM DeliveredToAudienceOnly == Spec => []OnlyAudience
<1>1. IInv => OnlyAudience
  BY DEF IInv
<1> QED
  BY <1>1, Invariance, PTL

\* A settled event is never tried again.
THEOREM SettledEventsStay == Spec => SettledForever
<1>1. IInv /\ [Next]_vars =>
        [\A e \in Events : status[e] \in {"done", "dead"} => status'[e] = status[e]]_vars
  BY StatusStep
<1> QED
  BY <1>1, Invariance, PTL DEF Spec, SettledForever

-----------------------------------------------------------------------------
(* Events that are lost *)

\* What a step can take from the processors, if anything.
LEMMA StrandedStep ==
  ASSUME IInv, [Next]_vars
  PROVE  \/ Stranded' = Stranded /\ UNCHANGED faults
         \/ Stranded' = Stranded /\ Fault("work")
         \/ /\ \E i \in Instances : SettleFails(i) \/ ClaimReplyLost(i) \/ Stop(i)
            /\ faults' = faults + 1
<1> USE DEF IInv, worker, observed
<1>1. ASSUME UNCHANGED <<status, batch>> PROVE Stranded' = Stranded
  BY <1>1 DEF Stranded
<1>2. ASSUME UNCHANGED batch, NEW e \in Events, status[e] = "absent" \/ status' = status,
             status' = [status EXCEPT ![e] = "pending"] \/ status' = status
      PROVE  Stranded' = Stranded
  BY <1>2 DEF Stranded, TypeOK
<1>3. ASSUME NEW p \in Posts, CreatePost(p) \/ DeletePost(p)
      PROVE  Stranded' = Stranded /\ UNCHANGED faults
  <2>1. CASE CreatePost(p)
    <3>1. status[Created(p)] = "absent" BY <2>1, EventFacts DEF CreatePost, EventLifecycle
    <3> QED BY <1>2, <2>1, <3>1, EventFacts DEF CreatePost
  <2>2. CASE DeletePost(p)
    <3>1. status[Deleted(p)] = "absent" BY <2>2, EventFacts DEF DeletePost, EventLifecycle
    <3> QED BY <1>2, <2>2, <3>1, EventFacts DEF DeletePost
  <2> QED BY <1>3, <2>1, <2>2
<1>4. ASSUME NEW i \in Instances, ClaimOutboxEvents(i)
      PROVE  Stranded' = Stranded /\ UNCHANGED faults
  <2>1. PICK S \in SUBSET Events : Claim(S) /\ batch' = [batch EXCEPT ![i] = S]
    BY <1>4 DEF ClaimOutboxEvents
  <2>2. batch[i] = {} BY <1>4 DEF ClaimOutboxEvents, WorkerState
  <2>3. /\ \A e \in S : status[e] = "pending" /\ status'[e] = "processing"
        /\ \A e \in Events \ S : status'[e] = status[e]
    BY <2>1, ClaimFacts
  <2>4. batch'[i] = S /\ \A j \in Instances \ {i} : batch'[j] = batch[j] BY <2>1 DEF TypeOK
  <2>5. ASSUME NEW e \in Events PROVE e \in Stranded' <=> e \in Stranded
    <3>1. CASE e \in S BY <2>3, <2>4, <3>1 DEF Stranded
    <3>2. CASE e \notin S BY <2>2, <2>3, <2>4, <3>2 DEF Stranded
    <3> QED BY <3>1, <3>2
  <2> QED BY <1>4, <2>5 DEF Stranded, ClaimOutboxEvents
<1>5. ASSUME NEW i \in Instances, CompleteOutboxEvent(i) \/ FailOutboxEvent(i)
      PROVE  Stranded' = Stranded /\ UNCHANGED faults
  <2>1. pc[i] \in {"complete", "fail"} /\ Advance(i) /\ UNCHANGED faults
    BY <1>5 DEF CompleteOutboxEvent, FailOutboxEvent
  <2>2. /\ cur[i] \in batch[i] /\ cur[i] \in Events
        /\ status[cur[i]] = "processing"
        /\ batch'[i] = batch[i] \ {cur[i]}
        /\ \A j \in Instances \ {i} : batch'[j] = batch[j] /\ cur[i] \notin batch[j]
    BY <2>1, AdvanceFacts
  <2>3. /\ status'[cur[i]] # "processing"
        /\ \A e \in Events \ {cur[i]} : status'[e] = status[e]
    BY <1>5, <2>2 DEF CompleteOutboxEvent, FailOutboxEvent, FailedStatus, TypeOK
  <2>4. ASSUME NEW e \in Events PROVE e \in Stranded' <=> e \in Stranded
    <3>1. CASE e = cur[i] BY <2>2, <2>3, <3>1 DEF Stranded
    <3>2. CASE e # cur[i] BY <2>2, <2>3, <3>2 DEF Stranded
    <3> QED BY <3>1, <3>2
  <2> QED BY <2>1, <2>4 DEF Stranded
<1>6. ASSUME NEW i \in Instances, Start(i) \/ \E p \in Posts : ReadFollowers(i, p) \/ DeleteEntries(i, p)
                                           \/ InsertEntries(i)
      PROVE  Stranded' = Stranded /\ UNCHANGED faults
  BY <1>1, <1>6 DEF Start, ReadFollowers, DeleteEntries, InsertEntries
<1>7. ASSUME NEW i \in Instances, InsertFails(i) \/ \E e \in Events : HandlerFails(i, e)
      PROVE  Stranded' = Stranded /\ Fault("work")
  BY <1>1, <1>7 DEF InsertFails, HandlerFails
<1>8. ASSUME NEW i \in Instances, SettleFails(i) \/ ClaimReplyLost(i) \/ Stop(i)
      PROVE  faults' = faults + 1
  BY <1>8 DEF SettleFails, ClaimReplyLost, Stop, Fault
<1>9. ASSUME NEW u \in Users, NEW v \in Users, Follow(u, v) \/ Unfollow(u, v)
      PROVE  Stranded' = Stranded /\ UNCHANGED faults
  BY <1>1, <1>9 DEF Follow, Unfollow
<1>10. CASE UNCHANGED vars BY <1>1, <1>10 DEF vars
<1>11. ASSUME NEW i \in Instances, InsertEntries(i) PROVE Stranded' = Stranded /\ UNCHANGED faults
  BY <1>1, <1>11 DEF InsertEntries
<1> QED
  BY <1>3, <1>4, <1>5, <1>6, <1>7, <1>8, <1>9, <1>10, <1>11 DEF Next, Handlers, Process, Failures

LEMMA UnionSize ==
  ASSUME NEW S, IsFiniteSet(S), NEW T, IsFiniteSet(T)
  PROVE  IsFiniteSet(S \cup T) /\ Cardinality(S \cup T) <= Cardinality(S) + Cardinality(T)
<1>1. Cardinality(S) \in Nat /\ Cardinality(T) \in Nat BY FS_CardinalityType
<1>2. IsFiniteSet(S \cap T) BY FS_Intersection
<1>3. Cardinality(S \cap T) \in Nat BY <1>2, FS_CardinalityType
<1>4. /\ IsFiniteSet(S \cup T)
      /\ Cardinality(S \cup T) = Cardinality(S) + Cardinality(T) - Cardinality(S \cap T)
  BY FS_Union
<1> QED BY <1>1, <1>3, <1>4

\* A processor never has more than a batch, so no failure takes more.
BatchBound == \A i \in Instances : Cardinality(batch[i]) <= BatchSize

\* The rows of the outbox.  There are finitely many at any time, however many
\* posts there may be: an insert adds one.
Rows == {e \in Events : status[e] # "absent"}
FiniteRows == IsFiniteSet(Rows)

LEMMA FiniteRowsStep ==
  ASSUME IInv, FiniteRows, [Next]_vars
  PROVE  FiniteRows'
<1> USE DEF IInv, worker, observed
<1>1. ASSUME NEW e \in Events, status' = [status EXCEPT ![e] = "pending"] PROVE FiniteRows'
  <2>1. Rows' \subseteq Rows \cup {e} BY <1>1 DEF Rows, TypeOK
  <2>2. IsFiniteSet(Rows \cup {e}) BY FS_AddElement DEF FiniteRows
  <2> QED BY <2>1, <2>2, FS_Subset DEF FiniteRows
<1>2. ASSUME \A e \in Events : status[e] = "absent" => status'[e] = "absent" PROVE FiniteRows'
  <2>1. Rows' \subseteq Rows BY <1>2 DEF Rows
  <2> QED BY <2>1, FS_Subset DEF FiniteRows
<1>3. CASE status' = status BY <1>2, <1>3
<1>4. ASSUME NEW p \in Posts, CreatePost(p) \/ DeletePost(p) PROVE FiniteRows'
  BY <1>1, <1>3, <1>4, EventFacts DEF CreatePost, DeletePost
<1>5. ASSUME NEW S \in SUBSET Events, Claim(S) PROVE FiniteRows'
  BY <1>2, <1>5, ClaimFacts
<1>6. ASSUME NEW i \in Instances, CompleteOutboxEvent(i) \/ FailOutboxEvent(i) PROVE FiniteRows'
  <2>1. cur[i] \in Events /\ status[cur[i]] = "processing"
    BY <1>6, AdvanceFacts DEF CompleteOutboxEvent, FailOutboxEvent
  <2> QED BY <1>2, <1>6, <2>1 DEF CompleteOutboxEvent, FailOutboxEvent, TypeOK
<1> QED
  BY <1>3, <1>4, <1>5, <1>6
     DEF Next, Handlers, Process, Failures, Follow, Unfollow, ClaimOutboxEvents,
         ReadFollowers, DeleteEntries, InsertEntries, HandlerFails, InsertFails, SettleFails,
         ClaimReplyLost, Stop, Start, Advance, vars

\* What a processor has, what a claim takes and what is stranded are rows.
LEMMA RowFacts ==
  ASSUME IInv, FiniteRows
  PROVE  /\ \A i \in Instances : IsFiniteSet(batch[i]) /\ Cardinality(batch[i]) \in Nat
         /\ \A S \in SUBSET Events : Claim(S) => IsFiniteSet(S) /\ Cardinality(S) \in Nat
         /\ IsFiniteSet(Stranded) /\ Cardinality(Stranded) \in Nat
<1>1. \A i \in Instances : batch[i] \subseteq Rows BY DEF IInv, TypeOK, ExclusiveClaim, Rows
<1>2. \A S \in SUBSET Events : Claim(S) => S \subseteq Rows BY ClaimFacts DEF IInv, Rows
<1>3. Stranded \subseteq Rows BY DEF Stranded, Rows
<1>4. \A S \in SUBSET Rows : IsFiniteSet(S) /\ Cardinality(S) \in Nat
  BY FS_Subset, FS_CardinalityType DEF FiniteRows
<1> QED BY <1>1, <1>2, <1>3, <1>4

LEMMA BatchBoundStep ==
  ASSUME IInv, FiniteRows, BatchBound, [Next]_vars
  PROVE  BatchBound'
<1> USE DEF IInv, worker, observed
<1>1. SUFFICES ASSUME NEW i \in Instances PROVE Cardinality(batch'[i]) <= BatchSize
  BY DEF BatchBound
<1>2. IsFiniteSet(batch[i]) /\ Cardinality(batch[i]) \in Nat /\ Cardinality(batch[i]) <= BatchSize
  BY RowFacts DEF BatchBound
<1>3. CASE batch'[i] \subseteq batch[i]
  <2>1. IsFiniteSet(batch'[i]) /\ Cardinality(batch'[i]) <= Cardinality(batch[i])
    BY <1>2, <1>3, FS_Subset
  <2> QED BY <1>2, <2>1, FS_CardinalityType, FanoutAssumption
<1>4. CASE \E S \in SUBSET Events : Claim(S) /\ batch'[i] = S BY <1>4 DEF Claim
<1>5. ASSUME NEW j \in Instances, ClaimOutboxEvents(j)
      PROVE  batch'[i] \subseteq batch[i] \/ \E S \in SUBSET Events : Claim(S) /\ batch'[i] = S
  BY <1>5 DEF ClaimOutboxEvents, TypeOK
<1>6. ASSUME NEW j \in Instances, Advance(j) \/ Stop(j) PROVE batch'[i] \subseteq batch[i]
  BY <1>6 DEF Advance, Stop, TypeOK
<1>7. CASE UNCHANGED batch BY <1>3, <1>7
<1> QED
  BY <1>3, <1>4, <1>5, <1>6, <1>7
     DEF Next, Handlers, Process, Failures, CreatePost, DeletePost, Follow, Unfollow,
         ReadFollowers, DeleteEntries, InsertEntries, CompleteOutboxEvent, FailOutboxEvent,
         HandlerFails, InsertFails, SettleFails, ClaimReplyLost, Start, vars

\* A failure strands what it takes from a processor: a batch, or one event of it.
LEMMA FaultStrands ==
  ASSUME IInv, FiniteRows, BatchBound, NEW i \in Instances,
         SettleFails(i) \/ ClaimReplyLost(i) \/ Stop(i)
  PROVE  \E S \in SUBSET Events : /\ IsFiniteSet(S) /\ Cardinality(S) \in 0..BatchSize
                                  /\ Stranded' \subseteq Stranded \cup S
<1> USE DEF IInv, worker, observed
<1>1. CASE SettleFails(i)
  <2>1. pc[i] \in {"complete", "fail"} /\ Advance(i) /\ UNCHANGED status
    BY <1>1 DEF SettleFails
  <2>2. /\ cur[i] \in Events /\ batch'[i] = batch[i] \ {cur[i]}
        /\ \A j \in Instances \ {i} : batch'[j] = batch[j]
    BY <2>1, AdvanceFacts
  <2>3. Stranded' \subseteq Stranded \cup {cur[i]} BY <2>1, <2>2 DEF Stranded
  <2>4. IsFiniteSet({cur[i]}) /\ Cardinality({cur[i]}) = 1 BY FS_Singleton
  <2>5. 1 \in 0..BatchSize BY FanoutAssumption
  <2> QED BY <2>2, <2>3, <2>4, <2>5
<1>2. CASE ClaimReplyLost(i)
  <2>1. PICK S \in SUBSET Events : Claim(S) BY <1>2 DEF ClaimReplyLost
  <2>2. batch' = batch /\ \A e \in Events \ S : status'[e] = status[e]
    BY <1>2, <2>1, ClaimFacts DEF ClaimReplyLost
  <2>3. Stranded' \subseteq Stranded \cup S BY <2>2 DEF Stranded
  <2> QED BY <2>1, <2>3, RowFacts, FanoutAssumption DEF Claim
<1>3. CASE Stop(i)
  <2>1. status' = status /\ \A j \in Instances \ {i} : batch'[j] = batch[j]
    BY <1>3 DEF Stop, TypeOK
  <2>2. Stranded' \subseteq Stranded \cup batch[i] BY <2>1 DEF Stranded
  <2> QED BY <2>2, RowFacts, FanoutAssumption DEF BatchBound, TypeOK
<1> QED BY <1>1, <1>2, <1>3

\* No event is lost but by a failure, and each failure loses a batch at most, for
\* any number of posts, instances and failures (processBatch).
THEOREM OnlyFailuresStrand == Spec => []StrandedBound
<1> DEFINE Inv == IInv /\ FiniteRows /\ BatchBound /\ StrandedBound
<1>1. Init => Inv
  <2> SUFFICES ASSUME Init PROVE FiniteRows /\ BatchBound /\ StrandedBound
    BY IInvInit
  <2>0. FiniteRows
    <3>1. Rows = {} BY DEF Init, Rows
    <3> QED BY <3>1, FS_EmptySet DEF FiniteRows
  <2>1. BatchBound BY FS_EmptySet, FanoutAssumption DEF Init, BatchBound
  <2>2. Stranded = {} BY DEF Init, Stranded
  <2>3. StrandedBound BY <2>2, FS_EmptySet, FanoutAssumption DEF Init, StrandedBound
  <2> QED BY <2>0, <2>1, <2>3
<1>2. Inv /\ [Next]_vars => Inv'
  <2> SUFFICES ASSUME IInv, FiniteRows, BatchBound, StrandedBound, [Next]_vars
               PROVE  StrandedBound'
    BY IInvStep, FiniteRowsStep, BatchBoundStep
  <2>1. faults \in Nat /\ BatchSize \in Nat BY FanoutAssumption DEF IInv, TypeOK
  <2>2. IsFiniteSet(Stranded) /\ Cardinality(Stranded) \in Nat
    BY RowFacts
  <2>3. (faults + 1) * BatchSize = faults * BatchSize + BatchSize BY <2>1
  <2>4. faults * BatchSize \in Nat BY <2>1
  <2>5. CASE Stranded' = Stranded /\ UNCHANGED faults BY <2>5 DEF StrandedBound
  <2>6. CASE Stranded' = Stranded /\ Fault("work")
    BY <2>1, <2>2, <2>3, <2>4, <2>6 DEF StrandedBound, Fault
  <2>7. ASSUME NEW i \in Instances, SettleFails(i) \/ ClaimReplyLost(i) \/ Stop(i),
               faults' = faults + 1
        PROVE  StrandedBound'
    <3>1. PICK S \in SUBSET Events : /\ IsFiniteSet(S) /\ Cardinality(S) \in 0..BatchSize
                                     /\ Stranded' \subseteq Stranded \cup S
      BY <2>7, FaultStrands
    <3>2. IsFiniteSet(S) /\ Cardinality(S) \in Nat /\ Cardinality(S) <= BatchSize
      BY <2>1, <3>1
    <3>3. /\ IsFiniteSet(Stranded \cup S)
          /\ Cardinality(Stranded \cup S) <= Cardinality(Stranded) + Cardinality(S)
      BY <2>2, <3>2, UnionSize
    <3>4. Cardinality(Stranded') <= Cardinality(Stranded \cup S) /\ Cardinality(Stranded') \in Nat
      BY <3>1, <3>3, FS_Subset, FS_CardinalityType
    <3>5. Cardinality(Stranded \cup S) \in Nat BY <3>3, FS_CardinalityType
    <3>6. Cardinality(Stranded) <= faults * BatchSize BY DEF StrandedBound
    <3>7. Cardinality(Stranded') <= faults * BatchSize + BatchSize
      BY <2>1, <2>2, <2>4, <3>1, <3>2, <3>3, <3>4, <3>5, <3>6
    <3> QED BY <2>3, <2>7, <3>7 DEF StrandedBound
  <2> QED BY <2>5, <2>6, <2>7, StrandedStep
<1>3. Inv => StrandedBound OBVIOUS
<1> QED BY <1>1, <1>2, <1>3, PTL DEF Spec

\* With failing statements of the handlers only, however many, none is lost.
THEOREM WorkStrandsNothing == ASSUME FaultKinds \subseteq {"work"} PROVE Spec => [](Stranded = {})
<1>1. Init => Stranded = {} BY DEF Init, Stranded
<1>2. IInv /\ Stranded = {} /\ [Next]_vars => (Stranded = {})'
  BY StrandedStep DEF SettleFails, ClaimReplyLost, Stop, Fault
<1> QED BY <1>1, <1>2, Invariance, PTL DEF Spec

\* What is lost is lost for good, which is why EventSettles fails with a stop:
\* no claim and no restart picks it up (ClaimOutboxEvents looks for 'pending').
THEOREM StrandedForGood == Spec => [][Stranded \subseteq Stranded']_vars
<1>1. IInv /\ [Next]_vars => [Stranded \subseteq Stranded']_vars
  <2> SUFFICES ASSUME IInv, Next, NEW e \in Stranded PROVE e \in Stranded'
    OBVIOUS
  <2>1. ASSUME NEW i \in Instances, SettleFails(i) \/ ClaimReplyLost(i) \/ Stop(i)
        PROVE  e \in Stranded'
    <3>1. CASE SettleFails(i)
      BY <3>1 DEF SettleFails, Advance, Stranded, IInv, TypeOK
    <3>2. CASE ClaimReplyLost(i)
      <4>1. PICK S \in SUBSET Events : Claim(S) BY <3>2 DEF ClaimReplyLost
      <4>2. batch' = batch /\ status'[e] = status[e]
        BY <3>2, <4>1, ClaimFacts DEF ClaimReplyLost, Stranded, IInv, worker
      <4> QED BY <4>2 DEF Stranded
    <3>3. CASE Stop(i) BY <3>3 DEF Stop, Stranded, IInv, TypeOK
    <3> QED BY <2>1, <3>1, <3>2, <3>3
  <2> QED BY <2>1, StrandedStep
<1> QED BY <1>1, Invariance, PTL DEF Spec

-----------------------------------------------------------------------------
(* Refinement *)

Feed == [u \in Users |-> HomeTimeline(u)]

\* The feeds change only where a visible post or its timelines do.
LEMMA FeedFrame ==
  ASSUME TypeOK, UNCHANGED post,
         \A p \in TopLevel : post[p] = "visible" => entries'[p] = entries[p]
  PROVE  Feed' = Feed
<1>1. \A u \in Users : HomeTimeline(u)' = HomeTimeline(u)
  BY DEF HomeTimeline
<1> QED
  BY <1>1 DEF Feed

\* Publishing adds the post to the feed of its author.
LEMMA FeedPublish ==
  ASSUME IInv, NEW p \in Posts, CreatePost(p)
  PROVE  Feed' = [u \in Users |-> IF p \in TopLevel /\ u = Author[p]
                                  THEN Feed[u] \cup {p} ELSE Feed[u]]
<1>1. /\ post[p] = "none" /\ entries[p] = {} /\ UNCHANGED entries
      /\ post'[p] = "visible" /\ \A q \in Posts \ {p} : post'[q] = post[q]
  BY DEF CreatePost, IInv, TypeOK, NothingEarly
<1>2. ASSUME NEW u \in Users
      PROVE HomeTimeline(u)' = IF p \in TopLevel /\ u = Author[p]
                               THEN HomeTimeline(u) \cup {p} ELSE HomeTimeline(u)
  BY <1>1, EventFacts DEF HomeTimeline
<1> QED
  BY <1>2 DEF Feed

\* Deleting takes it out of every feed at once.
LEMMA FeedDelete ==
  ASSUME IInv, NEW p \in Posts, DeletePost(p)
  PROVE  Feed' = [u \in Users |-> Feed[u] \ {p}]
<1>1. /\ UNCHANGED entries
      /\ post'[p] = "deleted" /\ \A q \in Posts \ {p} : post'[q] = post[q]
  BY DEF DeletePost, IInv, TypeOK
<1>2. ASSUME NEW u \in Users PROVE HomeTimeline(u)' = HomeTimeline(u) \ {p}
  BY <1>1, EventFacts DEF HomeTimeline
<1> QED
  BY <1>2 DEF Feed

\* Inserting the entries of a visible post delivers it to the followers read.
LEMMA FeedDeliver ==
  ASSUME TypeOK, NEW p \in TopLevel, post[p] = "visible", NEW S \in SUBSET Users,
         UNCHANGED post, entries' = [entries EXCEPT ![p] = @ \cup S]
  PROVE  Feed' = [u \in Users |-> IF u \in S THEN Feed[u] \cup {p} ELSE Feed[u]]
<1>1. /\ entries'[p] = entries[p] \cup S
      /\ \A q \in Posts \ {p} : entries'[q] = entries[q]
  BY EventFacts DEF TypeOK
<1>2. ASSUME NEW u \in Users
      PROVE HomeTimeline(u)' = IF u \in S THEN HomeTimeline(u) \cup {p} ELSE HomeTimeline(u)
  BY <1>1, EventFacts DEF HomeTimeline
<1> QED
  BY <1>2 DEF Feed

\* A processor that changes timelines delivers a visible post, or touches only
\* posts that are deleted.
LEMMA InsertDelivers ==
  ASSUME IInv, NEW i \in Instances, pc[i] = "insert", Insert(i),
         UNCHANGED <<post, follows, observed>>
  PROVE  [HF!Next]_(HF!vars)
<1> USE DEF IInv
<1>1. PICK p \in Posts : cur[i] = Created(p) /\ cur[i][2] = p
  BY EventFacts DEF WorkerState
<1>2. status[Created(p)] # "absent"
  BY <1>1 DEF WorkerState, ExclusiveClaim
<1>3. p \in TopLevel /\ post[p] # "none"
  BY <1>2 DEF EventLifecycle
<1>4. entries' = [entries EXCEPT ![p] = @ \cup fans[i]] /\ fans[i] \in SUBSET Users
  BY <1>1 DEF Insert, TypeOK
<1>5. CASE post[p] = "visible"
  <2>1. Feed' = [u \in Users |-> IF u \in fans[i] THEN Feed[u] \cup {p} ELSE Feed[u]]
    BY <1>3, <1>4, <1>5, FeedDeliver
  <2>2. loyal[p] \subseteq fans[i] /\ fans[i] \subseteq audience[p]
    BY <1>1, <1>5 DEF InFlight
  <2>3. HF!Deliver(p, fans[i])
    BY <1>3, <1>5, <2>1, <2>2 DEF HF!Deliver, Feed, observed
  <2> QED
    BY <1>4, <2>3 DEF HF!Next
<1>6. CASE post[p] # "visible"
  <2>1. \A q \in TopLevel : post[q] = "visible" => entries'[q] = entries[q]
    BY <1>4, <1>6, EventFacts DEF TypeOK
  <2>2. Feed' = Feed
    BY <2>1, FeedFrame
  <2> QED
    BY <2>2 DEF HF!vars, Feed, observed
<1> QED
  BY <1>5, <1>6

LEMMA RefineStep == IInv /\ [Next]_vars => [HF!Next]_(HF!vars)
<1> SUFFICES ASSUME IInv, [Next]_vars PROVE [HF!Next]_(HF!vars)
  OBVIOUS
<1> USE DEF worker, observed
<1>1. ASSUME NEW p \in Posts, CreatePost(p) PROVE HF!Publish(p)
  BY <1>1, FeedPublish DEF CreatePost, HF!Publish, HF!FollowersOf, ListedFollowers, Feed
<1>2. ASSUME NEW p \in Posts, DeletePost(p) PROVE HF!Delete(p)
  BY <1>2, FeedDelete DEF DeletePost, HF!Delete, Feed
<1>3. ASSUME NEW u \in Users, NEW v \in Users, Follow(u, v) PROVE HF!Follow(u, v)
  <2>1. Feed' = Feed
    BY <1>3, FeedFrame DEF Follow, IInv
  <2> QED
    BY <1>3, <2>1 DEF Follow, HF!Follow, Feed
<1>4. ASSUME NEW u \in Users, NEW v \in Users, Unfollow(u, v) PROVE HF!Unfollow(u, v)
  <2>1. Feed' = Feed
    BY <1>4, FeedFrame DEF Unfollow, IInv
  <2> QED
    BY <1>4, <2>1 DEF Unfollow, HF!Unfollow, Feed
<1>5. ASSUME NEW i \in Instances, InsertEntries(i) \/ InsertFails(i), UNCHANGED entries \/ Insert(i)
      PROVE [HF!Next]_(HF!vars)
  <2>1. CASE Insert(i)
    BY <1>5, <2>1, InsertDelivers DEF InsertEntries, InsertFails
  <2>2. CASE UNCHANGED entries
    <3>1. Feed' = Feed
      BY <1>5, <2>2, FeedFrame DEF InsertEntries, InsertFails, IInv
    <3> QED
      BY <1>5, <3>1 DEF InsertEntries, InsertFails, HF!vars, Feed
  <2> QED
    BY <1>5, <2>1, <2>2
<1>6. ASSUME UNCHANGED <<post, follows, observed>>,
             \A p \in TopLevel : post[p] = "visible" => entries'[p] = entries[p]
      PROVE UNCHANGED HF!vars
  <2>1. Feed' = Feed
    BY <1>6, FeedFrame DEF IInv
  <2> QED
    BY <1>6, <2>1 DEF HF!vars, Feed
<1>7. ASSUME NEW i \in Instances, NEW p \in Posts, Deleted(p) \in batch[i]
      PROVE post[p] = "deleted"
  BY <1>7 DEF IInv, ExclusiveClaim, EventLifecycle
<1>8. ASSUME NEW i \in Instances, NEW p \in Posts, DeleteEntries(i, p) PROVE UNCHANGED HF!vars
  BY <1>6, <1>7, <1>8, EventFacts DEF DeleteEntries, IInv, TypeOK
<1>9. ASSUME NEW i \in Instances, NEW e \in Events, HandlerFails(i, e) PROVE UNCHANGED HF!vars
  <2>1. CASE UNCHANGED entries
    BY <1>6, <1>9, <2>1 DEF HandlerFails
  <2>2. CASE e = Deleted(e[2]) /\ entries' = [entries EXCEPT ![e[2]] = {}]
    <3>1. PICK p \in Posts : e = Deleted(p) /\ e[2] = p
      BY <2>2, EventFacts DEF Created, Deleted
    <3>2. post[p] = "deleted"
      BY <1>7, <1>9, <3>1 DEF HandlerFails
    <3>3. \A q \in TopLevel : post[q] = "visible" => entries'[q] = entries[q]
      BY <2>2, <3>1, <3>2, EventFacts DEF IInv, TypeOK
    <3> QED
      BY <1>6, <1>9, <3>3 DEF HandlerFails
  <2> QED
    BY <1>9, <2>1, <2>2 DEF HandlerFails
<1>10. ASSUME UNCHANGED <<post, follows, entries, observed>> PROVE UNCHANGED HF!vars
  BY <1>6, <1>10
<1>11. CASE Handlers
  BY <1>1, <1>2, <1>3, <1>4, <1>11 DEF Handlers, HF!Next
<1>12. ASSUME NEW i \in Instances, Process(i) \/ Start(i) \/ Failures(i)
       PROVE [HF!Next]_(HF!vars)
  <2>1. CASE InsertEntries(i) \/ InsertFails(i)
    BY <1>5, <2>1 DEF InsertEntries, InsertFails
  <2>2. CASE ~(InsertEntries(i) \/ InsertFails(i))
    BY <1>8, <1>9, <1>10, <1>12, <2>2
       DEF Process, Failures, ClaimOutboxEvents, ReadFollowers, CompleteOutboxEvent,
           FailOutboxEvent, SettleFails, Advance, ClaimReplyLost, Stop, Start
  <2> QED
    BY <2>1, <2>2
<1> QED
  BY <1>10, <1>11, <1>12 DEF Next, vars

LEMMA RefineInit == Init => HF!Init
<1> SUFFICES ASSUME Init PROVE HF!Init
  OBVIOUS
<1>1. Feed = [u \in Users |-> {}]
  BY EventFacts DEF Init, Feed, HomeTimeline
<1> QED
  BY <1>1 DEF Init, HF!Init, Feed

\* The outbox with its processors, retries and crashes behaves as the abstract
\* home feed does.
THEOREM FanoutImplementsHomeFeed == Spec => ImplementsHomeFeed
  BY RefineInit, RefineStep, Invariance, PTL DEF Spec, ImplementsHomeFeed, HF!Spec

=============================================================================
