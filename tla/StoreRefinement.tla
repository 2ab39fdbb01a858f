-------------------------- MODULE StoreRefinement ---------------------------
(***************************************************************************)
(* The transactions of Store implement the abstract board of Board: what   *)
(* they do to the tables, statement by statement, under locks, rolled back *)
(* and overlapping, is what a sequence of atomic writes would do.          *)
(*                                                                         *)
(* A commit finds the guards of its write true because of what the request *)
(* holds (KeepInv of StoreProofs) and of what it was let in with (Granted). *)
(***************************************************************************)
EXTENDS StoreProofs

\* What the handler has checked of a request, and nobody can change: a follow
\* is of somebody else, a deletion past its check is the author's or an admin's.
Granted ==
  \A r \in Requests :
    /\ job[r].op = "follow" => job[r].user # job[r].on
    /\ job[r].op = "delete" /\ pc[r] \in {"row", "stats", "commit"} =>
         job[r].user \in {Author[job[r].on]} \cup Admins

\* The notifications there are, are those of the posts ever published.
NotesExact == notes = UNION {Notified(p) : p \in {q \in Posts : post[q] # "none"}}

RefInv == IInv /\ Granted /\ NotesExact

-----------------------------------------------------------------------------
(* Granted and NotesExact are invariant *)

LEMMA GrantedOthers ==
  ASSUME NEW r \in Requests, Granted,
         \A q \in Requests \ {r} : pc'[q] = pc[q] /\ job'[q] = job[q],
         job'[r].op = "follow" => job'[r].user # job'[r].on,
         job'[r].op = "delete" /\ pc'[r] \in {"row", "stats", "commit"} =>
           job'[r].user \in {Author[job'[r].on]} \cup Admins
  PROVE  Granted'
BY DEF Granted

LEMMA GrantedAnswer ==
  ASSUME TypeOK, Granted, NEW r \in Requests, Answer(r)
  PROVE  Granted'
<1>1. /\ job'[r] = NoJob
      /\ \A q \in Requests \ {r} : pc'[q] = pc[q] /\ job'[q] = job[q]
  BY DEF Answer, TypeOK
<1> QED BY <1>1, GrantedOthers DEF NoJob

\* The next statement of a request whose check, if it has one, is behind it.
LEMMA GrantedProceed ==
  ASSUME TypeOK, ControlInv, Granted, NEW r \in Requests, pc[r] # "idle", Proceed(r),
         pc[r] = "check" => Allowed(job[r])
  PROVE  Granted'
<1> DEFINE j == job[r]
<1>1. j \in Jobs /\ pc[r] \in Stages(j) BY DEF ControlInv, JobInv
<1>2. pc' = [pc EXCEPT ![r] = After(j, pc[r])] /\ job' = job BY <1>1, Plans
<1>3. /\ pc'[r] = After(j, pc[r])
      /\ \A q \in Requests \ {r} : pc'[q] = pc[q] /\ job'[q] = job[q]
  BY <1>2 DEF TypeOK
<1>4. ASSUME j.op = "delete" PROVE j.user \in {Author[j.on]} \cup Admins
  <2>1. CASE pc[r] = "check" BY <1>4, <2>1 DEF Allowed
  <2>2. CASE pc[r] # "check" BY <1>1, <1>4, <2>2 DEF Granted, Stages
  <2> QED BY <2>1, <2>2
<1> QED BY <1>2, <1>3, <1>4, GrantedOthers DEF Granted

LEMMA GrantedBegin ==
  ASSUME TypeOK, Granted, NEW r \in Requests, Begin(r)
  PROVE  Granted'
<1>1. PICK j \in Jobs : /\ Accepted(j)
                        /\ job' = [job EXCEPT ![r] = j]
                        /\ pc' = [pc EXCEPT ![r] = Plan(j)[1]]
  BY DEF Begin
<1>2. /\ pc'[r] = Plan(j)[1] /\ job'[r] = j
      /\ \A q \in Requests \ {r} : pc'[q] = pc[q] /\ job'[q] = job[q]
  BY <1>1 DEF TypeOK
<1>3. j.op = "delete" => Plan(j)[1] = "check" BY DEF Plan, QuestionStates, IsFollow
<1> QED BY <1>1, <1>2, <1>3, GrantedOthers DEF Accepted

LEMMA GrantedStep == TypeOK /\ ControlInv /\ Granted /\ [Next]_vars => Granted'
<1> SUFFICES ASSUME TypeOK, ControlInv, Granted, [Next]_vars PROVE Granted'
  OBVIOUS
<1>1. ASSUME NEW r \in Requests, Step(r) PROVE Granted'
  <2>1. CASE Check(r) BY <2>1, GrantedAnswer, GrantedProceed DEF Check
  <2>2. CASE LockParent(r) \/ LockRoot(r) \/ LockPost(r) \/ WriteEdge(r) \/ UpdateStats(r)
               \/ UpdateStats2(r)
    BY <2>2, GrantedProceed DEF LockParent, LockRoot, LockPost, WriteEdge, UpdateStats, UpdateStats2
  <2>3. CASE PostUnavailable(r) \/ SetQuestionState(r) \/ PostGone(r) \/ EdgeUnchanged(r) \/ Commit(r)
    BY <2>3, GrantedAnswer DEF PostUnavailable, SetQuestionState, PostGone, EdgeUnchanged, Commit
  <2> QED BY <1>1, <2>1, <2>2, <2>3 DEF Step
<1>2. ASSUME NEW r \in Requests, Rollback(r) \/ AbortDeadlocked(r) PROVE Granted'
  BY <1>2, GrantedAnswer DEF Rollback, AbortDeadlocked
<1>3. CASE UNCHANGED vars BY <1>3 DEF vars, Granted
<1> QED BY <1>1, <1>2, <1>3, GrantedBegin DEF Next

\* A step that is not a commit leaves the posts and the notifications alone.
LEMMA OnlyCommitsPublish ==
  ASSUME [Next]_vars
  PROVE  \/ \E r \in Requests : Commit(r)
         \/ UNCHANGED <<post, tweets, following, followers, follows, notes, outbox>>
BY DEF Next, Begin, Step, Check, LockParent, LockRoot, PostUnavailable, LockPost,
   SetQuestionState, PostGone, WriteEdge, EdgeUnchanged, UpdateStats, UpdateStats2,
   Rollback, AbortDeadlocked, database, vars

LEMMA NotesStep == IInv /\ NotesExact /\ [Next]_vars => NotesExact'
<1> SUFFICES ASSUME IInv, NotesExact, [Next]_vars PROVE NotesExact'
  OBVIOUS
<1> DEFINE Pub == {p \in Posts : post[p] # "none"}
<1>0. TypeOK BY DEF IInv
<1>1. ASSUME NEW r \in Requests, Commit(r), job[r].op = "create", CommitCreate(job[r].on)
      PROVE  NotesExact'
  <2> DEFINE p == job[r].on
  <2>1. p \in Posts BY <1>1, AtCommit DEF IInv, Commit
  <2>2. notes' = notes \cup Notified(p) /\ post' = [post EXCEPT ![p] = "visible"]
    BY <1>1 DEF CommitCreate
  <2>3. Pub' = Pub \cup {p} BY <1>0, <2>1, <2>2 DEF TypeOK
  <2>4. notes' = UNION {Notified(q) : q \in Pub \cup {p}}
    <3>1. notes = UNION {Notified(q) : q \in Pub} BY DEF NotesExact
    <3> HIDE DEF Pub, p
    <3> QED BY <2>2, <3>1
  <2> QED BY <2>3, <2>4 DEF NotesExact
<1>2. ASSUME notes' = notes, Pub' = Pub PROVE NotesExact'
  BY <1>2 DEF NotesExact
<1>3. ASSUME NEW r \in Requests, Commit(r), job[r].op = "delete", CommitDelete(job[r].on)
      PROVE  NotesExact'
  <2>1. job[r].on \in Posts /\ post[job[r].on] = "visible" BY <1>3, AtCommit DEF IInv, Commit
  <2>2. Pub' = Pub BY <1>0, <1>3, <2>1 DEF CommitDelete, TypeOK
  <2> QED BY <1>2, <1>3, <2>2 DEF CommitDelete
<1>4. ASSUME NEW u, NEW v, CommitFollow(u, v) \/ CommitUnfollow(u, v) PROVE NotesExact'
  BY <1>2, <1>4 DEF CommitFollow, CommitUnfollow
<1> QED BY <1>1, <1>2, <1>3, <1>4, OnlyCommitsPublish DEF Commit

LEMMA BeginsGranted == Init => Granted /\ NotesExact
<1> SUFFICES ASSUME Init PROVE Granted /\ NotesExact
  OBVIOUS
<1>1. Granted BY DEF Init, Granted, NoJob
<1>2. {q \in Posts : post[q] # "none"} = {} BY DEF Init
<1>3. NotesExact BY <1>2 DEF Init, NotesExact
<1> QED BY <1>1, <1>3

LEMMA RefBegins == Init => RefInv
BY BeginsGranted, StoreBegins DEF RefInv

LEMMA RefStep == RefInv /\ [Next]_vars => RefInv'
BY StoreStep, GrantedStep, NotesStep DEF RefInv, IInv

LEMMA AlwaysRefInv == Spec => []RefInv
BY RefBegins, RefStep, PTL DEF Spec

-----------------------------------------------------------------------------
(* The refinement *)

LEMMA TopLevelOrReply == TopLevel = Posts \ B!Replies /\ QuestionStates = B!Outcomes
BY DEF TopLevel, B!Replies, QuestionStates, B!Outcomes

LEMMA ToldIsNotified == ASSUME NEW p \in Posts PROVE B!Told(p) = Notified(p)
<1>1. p \in B!Replies <=> p \notin TopLevel BY TopLevelOrReply
<1>2. CASE p \in TopLevel BY <1>1, <1>2 DEF B!Told, Notified
<1>3. CASE p \notin TopLevel BY <1>1, <1>3 DEF B!Told, Notified
<1> QED BY <1>2, <1>3

\* Board counts as Store does.
LEMMA SameCardinality == \A S : B!Cardinality(S) = Cardinality(S)
BY DEF Cardinality, B!Cardinality

\* The invariants of the store say that what is kept besides the posts and
\* edges is what the board says follows from them.
LEMMA KeptIsRecorded == RefInv => B!Recorded
<1> SUFFICES ASSUME RefInv PROVE B!Recorded
  OBVIOUS
<1>0. TypeOK /\ CountersExact /\ OneEventPerChange /\ NotesExact BY DEF RefInv, IInv, DataInv
<1>1. tweets = [u \in Users |-> B!Cardinality(B!Visible(u))]
  BY <1>0, SameCardinality DEF TypeOK, CountersExact, B!Visible
<1>2. following = [u \in Users |-> B!Cardinality({v \in Users : <<u, v>> \in follows})]
  BY <1>0, SameCardinality DEF TypeOK, CountersExact
<1>3. followers = [u \in Users |-> B!Cardinality({v \in Users : <<v, u>> \in follows})]
  BY <1>0, SameCardinality DEF TypeOK, CountersExact
<1>4. notes = UNION {B!Told(p) : p \in B!Published}
  <2>1. \A p \in B!Published : B!Told(p) = Notified(p) BY ToldIsNotified DEF B!Published
  <2>2. notes = UNION {Notified(p) : p \in B!Published} BY <1>0 DEF NotesExact, B!Published
  <2> QED BY <2>1, <2>2
<1>5. outbox = [t \in {"tweet_created", "tweet_deleted"} |-> [p \in Posts |->
                  IF t = "tweet_created" THEN IF p \in B!Published \ B!Replies THEN 1 ELSE 0
                  ELSE IF post[p] = "deleted" THEN 1 ELSE 0]]
  <2>1. outbox \in [{"tweet_created", "tweet_deleted"} -> [Posts -> Nat]] BY <1>0 DEF TypeOK
  <2>2. outbox["tweet_created"] = [p \in Posts |-> IF p \in B!Published \ B!Replies THEN 1 ELSE 0]
    <3>1. \A p \in Posts : p \in B!Published \ B!Replies <=> p \in TopLevel /\ post[p] # "none"
      BY TopLevelOrReply DEF B!Published
    <3>2. \A p \in Posts : outbox["tweet_created"][p] = IF p \in B!Published \ B!Replies THEN 1 ELSE 0
      BY <1>0, <3>1 DEF OneEventPerChange
    <3> QED BY <2>1, <3>2
  <2>3. outbox["tweet_deleted"] = [p \in Posts |-> IF post[p] = "deleted" THEN 1 ELSE 0]
    BY <1>0, <2>1 DEF OneEventPerChange
  <2> QED BY <2>1, <2>2, <2>3
<1> QED BY <1>1, <1>2, <1>3, <1>4, <1>5 DEF B!Recorded

LEMMA KeptIsRecordedNext == RefInv' => B!Recorded'
BY KeptIsRecorded, PTL

\* A commit is a write of the board, at the moment of the commit.
LEMMA CommitIsWrite ==
  ASSUME RefInv, RefInv', NEW r \in Requests, Commit(r)
  PROVE  B!Next
<1> DEFINE j == job[r]
<1>0. B!Recorded' BY KeptIsRecordedNext
<1>1. TypeOK /\ ControlInv /\ Granted /\ pc[r] = "commit" BY DEF RefInv, IInv, Commit
<1>2. j \in Jobs /\ j.user \in Users BY <1>1, AtCommit, JobFacts
<1>3. CASE j.op = "create" /\ CommitCreate(j.on)
  <2>1. /\ j.on \in Posts /\ post[j.on] = "none"
        /\ j.on \in B!Replies => post[Parent[j.on]] = "visible" /\ post[Thread[j.on]] = "visible"
    BY <1>1, <1>3, AtCommit, TopLevelOrReply
  <2>2. B!Publish(j.on) BY <1>3, <2>1 DEF CommitCreate, B!Publish
  <2> QED BY <1>0, <2>1, <2>2 DEF B!Next
<1>4. CASE j.op = "delete" /\ CommitDelete(j.on)
  <2>1. j.on \in Posts /\ post[j.on] = "visible" BY <1>1, <1>4, AtCommit
  <2>2. j.user \in {Author[j.on]} \cup Admins BY <1>1, <1>4 DEF Granted
  <2>3. B!Delete(j.user, j.on) BY <1>4, <2>1, <2>2 DEF CommitDelete, B!Delete
  <2> QED BY <1>0, <1>2, <2>1, <2>3 DEF B!Next
<1>5. CASE j.op = "follow" /\ CommitFollow(j.user, j.on)
  <2>1. j.on \in Users /\ <<j.user, j.on>> \notin follows BY <1>1, <1>5, AtCommit DEF IsFollow
  <2>2. j.user # j.on BY <1>1, <1>5 DEF Granted
  <2>3. B!Follow(j.user, j.on) BY <1>5, <2>1, <2>2 DEF CommitFollow, B!Follow
  <2> QED BY <1>0, <1>2, <2>1, <2>3 DEF B!Next
<1>6. CASE j.op = "unfollow" /\ CommitUnfollow(j.user, j.on)
  <2>1. j.on \in Users /\ <<j.user, j.on>> \in follows BY <1>1, <1>6, AtCommit DEF IsFollow
  <2>2. B!Unfollow(j.user, j.on) BY <1>6, <2>1 DEF CommitUnfollow, B!Unfollow
  <2> QED BY <1>0, <1>2, <2>1, <2>2 DEF B!Next
<1> QED BY <1>3, <1>4, <1>5, <1>6 DEF Commit

\* So is the one statement of SetQuestionState.
LEMMA SetStateIsWrite ==
  ASSUME RefInv, RefInv', NEW r \in Requests, SetQuestionState(r)
  PROVE  B!Next
<1> DEFINE j == job[r]
<1>1. /\ j.op \in QuestionStates /\ post[j.on] = "visible"
      /\ j.user = Author[j.on] /\ j.on \in Questions
      /\ state' = [state EXCEPT ![j.on] = j.op]
      /\ post' = post /\ follows' = follows
  BY DEF SetQuestionState
<1>2. pc[r] = "row" /\ JobInv(r) BY DEF SetQuestionState, RefInv, IInv, ControlInv
<1>3. j.user \in Users /\ j.on \in Posts
  BY <1>1, <1>2, JobFacts DEF JobInv, IsFollow, QuestionStates
<1>4. B!SetOutcome(j.user, j.on, j.op) BY <1>1, <1>3 DEF B!SetOutcome
<1> QED BY <1>1, <1>3, <1>4, KeptIsRecordedNext, TopLevelOrReply DEF B!Next

\* No other step writes.
LEMMA OnlyWritesShow ==
  ASSUME [Next]_vars
  PROVE  \/ \E r \in Requests : Commit(r) \/ SetQuestionState(r)
         \/ UNCHANGED database
BY DEF Next, Begin, Step, Check, LockParent, LockRoot, PostUnavailable, LockPost,
   PostGone, WriteEdge, EdgeUnchanged, UpdateStats, UpdateStats2,
   Rollback, AbortDeadlocked, vars

\* The transactions implement the abstract board, for any users, posts, threads
\* and number of concurrent requests, wherever they fail: every history of the
\* tables is one of atomic writes.
THEOREM StoreImplementsBoard == Spec => ImplementsBoard
<1>1. Init => B!Init
  <2> SUFFICES ASSUME Init PROVE B!Init
    OBVIOUS
  <2>1. Granted /\ NotesExact BY BeginsGranted
  <2>2. B!Recorded BY <2>1, StoreBegins, KeptIsRecorded DEF RefInv
  <2> QED BY <2>2 DEF Init, B!Init
<1>2. RefInv /\ RefInv' /\ [Next]_vars => [B!Next]_(B!vars)
  <2> SUFFICES ASSUME RefInv, RefInv', [Next]_vars PROVE [B!Next]_(B!vars)
    OBVIOUS
  <2>1. ASSUME NEW r \in Requests, Commit(r) \/ SetQuestionState(r) PROVE B!Next
    BY <2>1, CommitIsWrite, SetStateIsWrite
  <2>2. CASE UNCHANGED database BY <2>2 DEF database, B!vars
  <2> QED BY <2>1, <2>2, OnlyWritesShow
<1> QED BY <1>1, <1>2, AlwaysRefInv, PTL DEF Spec, ImplementsBoard, B!Spec

-----------------------------------------------------------------------------
(* What the board guarantees, and the store with it *)

\* No reply stands without the posts it answers, however publications and
\* deletions overlap: true of the board, and so of the tables.
THEOREM ThreadsStayWhole == Spec => []B!ThreadsWhole
<1>1. B!Init => B!ThreadsWhole BY DEF B!Init, B!ThreadsWhole, B!Replies
<1>2. TypeOK /\ B!ThreadsWhole /\ [B!Next]_(B!vars) => B!ThreadsWhole'
  <2> SUFFICES ASSUME TypeOK, B!ThreadsWhole, [B!Next]_(B!vars), NEW p \in B!Replies, post'[p] # "none"
               PROVE  post'[Parent[p]] # "none" /\ post'[Thread[p]] # "none"
    BY DEF B!ThreadsWhole
  <2>1. p \in Posts /\ Parent[p] \in Posts /\ Thread[p] \in Posts
    BY ThreadFacts, TopLevelOrReply DEF B!Replies
  <2>2. \A q \in Posts : post[q] # "none" => post'[q] # "none"
    <3>1. CASE post' = post BY <3>1
    <3>2. ASSUME NEW q \in Posts, B!Publish(q) \/ \E u \in Users : B!Delete(u, q)
          PROVE  \A x \in Posts : post[x] # "none" => post'[x] # "none"
      BY <3>2 DEF B!Publish, B!Delete, TypeOK
    <3> QED BY <3>1, <3>2 DEF B!Next, B!SetOutcome, B!Follow, B!Unfollow, B!vars
  <2>3. CASE post[p] # "none" BY <2>1, <2>2, <2>3 DEF B!ThreadsWhole
  <2>4. CASE post[p] = "none"
    <3>1. B!Publish(p)
      <4>1. ASSUME NEW q \in Posts, q # p, B!Publish(q) PROVE FALSE
        BY <2>1, <2>4, <4>1 DEF B!Publish, TypeOK
      <4>2. ASSUME NEW q \in Posts, NEW u, B!Delete(u, q) PROVE FALSE
        BY <2>1, <2>4, <4>2 DEF B!Delete, TypeOK
      <4> QED BY <2>1, <2>4, <4>1, <4>2 DEF B!Next, B!SetOutcome, B!Follow, B!Unfollow, B!vars
    <3>2. post[Parent[p]] = "visible" /\ post[Thread[p]] = "visible" BY <3>1 DEF B!Publish
    <3> QED BY <2>1, <2>2, <3>2
  <2> QED BY <2>3, <2>4
<1> QED BY <1>1, <1>2, StoreImplementsBoard, StoreTypeCorrect, PTL DEF ImplementsBoard, B!Spec

\* A question has an outcome from its publication on, and nothing else ever has
\* one: SetQuestionState cannot give a plain post an outcome.
THEOREM OutcomesAreOfQuestions == Spec => []B!OutcomesOfQuestions
<1>1. B!Init => B!OutcomesOfQuestions BY DEF B!Init, B!OutcomesOfQuestions, B!Published
<1>2. TypeOK /\ B!OutcomesOfQuestions /\ [B!Next]_(B!vars) => B!OutcomesOfQuestions'
  <2> SUFFICES ASSUME TypeOK, B!OutcomesOfQuestions, [B!Next]_(B!vars), NEW p \in Posts
               PROVE  state'[p] # "" <=> p \in Questions /\ post'[p] # "none"
    BY DEF B!OutcomesOfQuestions, B!Published
  <2>0. state[p] # "" <=> p \in Questions /\ post[p] # "none"
    BY DEF B!OutcomesOfQuestions, B!Published
  <2>1. CASE post' = post /\ state' = state BY <2>0, <2>1
  <2>2. ASSUME NEW q \in Posts, B!Publish(q)
        PROVE  state'[p] # "" <=> p \in Questions /\ post'[p] # "none"
    <3>1. CASE p = q BY <2>2, <3>1 DEF B!Publish, TypeOK
    <3>2. CASE p # q BY <2>0, <2>2, <3>2 DEF B!Publish, TypeOK
    <3> QED BY <3>1, <3>2
  <2>3. ASSUME NEW q \in Posts, NEW u, B!Delete(u, q)
        PROVE  state'[p] # "" <=> p \in Questions /\ post'[p] # "none"
    BY <2>0, <2>3 DEF B!Delete, TypeOK
  <2>4. ASSUME NEW q \in Posts, NEW u, NEW s \in B!Outcomes, B!SetOutcome(u, q, s)
        PROVE  state'[p] # "" <=> p \in Questions /\ post'[p] # "none"
    BY <2>0, <2>4 DEF B!SetOutcome, B!Outcomes, TypeOK
  <2> QED BY <2>1, <2>2, <2>3, <2>4 DEF B!Next, B!Follow, B!Unfollow, B!vars
<1> QED BY <1>1, <1>2, StoreImplementsBoard, StoreTypeCorrect, PTL DEF ImplementsBoard, B!Spec

=============================================================================
