---------------------------- MODULE StoreProofs -----------------------------
(***************************************************************************)
(* What the transactions of Store guarantee for any users, posts, threads  *)
(* and requests.                                                           *)
(*                                                                         *)
(* The argument is about the locks: who holds a row is at a statement      *)
(* after the one that takes it (HoldInv), and what a transaction has found *)
(* in a row it has locked is still so (KeepInv), until it commits.         *)
(***************************************************************************)
EXTENDS Store, FiniteSetTheorems, WellFoundedInduction, TLAPS

USE StoreAssumption

\* The statements of an operation that may wait, as Plan lists them.
Stages(j) ==
  IF j.op = "create"
  THEN IF j.on \in TopLevel THEN {"stats", "commit"} ELSE {"parent", "root", "stats", "commit"}
  ELSE IF j.op = "delete" THEN {"check", "row", "stats", "commit"}
  ELSE IF j.op \in QuestionStates THEN {"check", "row"}
  ELSE {"edge", "stats", "stats2", "commit"}

After(j, s) == CASE s = "parent" -> "root"
                 [] s \in {"root", "row", "edge"} -> "stats"
                 [] s = "check" -> "row"
                 [] s = "stats" -> IF IsFollow(j) THEN "stats2" ELSE "commit"
                 [] s = "stats2" -> "commit"

JobInv(r) == /\ pc[r] = "idle" => job[r] = NoJob
             /\ pc[r] # "idle" => job[r] \in Jobs /\ pc[r] \in Stages(job[r])

\* What the holder of a row is doing.
Deletes(r, p) == job[r].op = "delete" /\ job[r].on = p /\ pc[r] \in {"stats", "commit"}
Replies(r) == job[r].op = "create" /\ pc[r] \in {"root", "stats", "commit"}
Updates(r) == pc[r] = "commit" \/ (pc[r] = "stats2" /\ IsFollow(job[r]))
Edges(r) == IsFollow(job[r]) /\ pc[r] \in {"stats", "stats2", "commit"}

Holder(r) ==
  /\ \A p \in Posts : owner[Tweet(p)] = r => Deletes(r, p)
  /\ \A p \in Posts : r \in sharers[p] => Replies(r)
  /\ \A u \in Users : owner[Stats(u)] = r => Updates(r)
  /\ \A u, v \in Users : owner[Edge(u, v)] = r => Edges(r)

HoldInv == \A r \in Requests : Holder(r)

Exclusion == \A p \in Posts : /\ owner[Tweet(p)] # Nobody => sharers[p] = {}
                              /\ sharers[p] # {} => post[p] = "visible"

\* What a request has locked it holds, and what it has found there is so.
KeepInv(r) ==
  LET j == job[r] IN
  /\ j.op = "create" =>
       /\ post[j.on] = "none" /\ j.user = Author[j.on]
       /\ \A q \in Requests \ {r} : job[q] # j
  /\ j.op = "create" /\ j.on \notin TopLevel /\ pc[r] \in {"root", "stats", "commit"} =>
       r \in sharers[Parent[j.on]] /\ post[Parent[j.on]] = "visible"
  /\ j.op = "create" /\ j.on \notin TopLevel /\ pc[r] \in {"stats", "commit"} =>
       r \in sharers[Thread[j.on]] /\ post[Thread[j.on]] = "visible"
  /\ j.op = "delete" /\ pc[r] \in {"stats", "commit"} =>
       owner[Tweet(j.on)] = r /\ post[j.on] = "visible"
  /\ IsFollow(j) /\ pc[r] \in {"stats", "stats2", "commit"} =>
       /\ owner[Edge(j.user, j.on)] = r
       /\ <<j.user, j.on>> \in follows <=> j.op = "unfollow"

ControlInv == /\ \A r \in Requests : JobInv(r) /\ KeepInv(r)
              /\ HoldInv
              /\ Exclusion

DataInv == /\ CountersExact
           /\ OneEventPerChange
           /\ OneNotificationEach
           /\ \A n \in notes : post[n.post] # "none"

IInv == TypeOK /\ ControlInv /\ DataInv

-----------------------------------------------------------------------------
(* Rows and plans *)

LEMMA RowFacts ==
  /\ \A p \in Posts : Tweet(p) \in Rows
  /\ \A u \in Users : Stats(u) \in Rows
  /\ \A u, v \in Users : Edge(u, v) \in Rows
  /\ \A p, q \in Posts : Tweet(p) = Tweet(q) => p = q
  /\ \A p \in Posts, u, v \in Users : Tweet(p) # Stats(u) /\ Tweet(p) # Edge(u, v)
  /\ \A u, v, w \in Users : Stats(u) # Edge(v, w)
  /\ \A u, v, w, x \in Users : Edge(u, v) = Edge(w, x) => u = w /\ v = x
BY DEF Rows, Tweet, Stats, Edge

\* The posts and accounts a job is about.
LEMMA JobFacts ==
  ASSUME NEW j \in Jobs
  PROVE  /\ j.op \in Ops /\ j.op \in {"create", "delete", "follow", "unfollow"} \cup QuestionStates
         /\ ~ IsFollow(j) => j.on \in Posts
         /\ IsFollow(j) => j.on \in Users
         /\ j.user \in Users
         /\ j # NoJob
BY DEF Jobs, IsFollow, NoJob, QuestionStates

LEMMA ThreadFacts == ASSUME NEW p \in Posts \ TopLevel PROVE Parent[p] \in Posts /\ Thread[p] \in Posts
BY DEF TopLevel

LEMMA Plans ==
  ASSUME TypeOK, NEW r \in Requests, job[r] \in Jobs, pc[r] \in Stages(job[r]), Proceed(r)
  PROVE  /\ pc' = [pc EXCEPT ![r] = After(job[r], pc[r])]
         /\ After(job[r], pc[r]) \in Stages(job[r])
         /\ job' = job
<1> DEFINE j == job[r]
<1>0. job' = job BY DEF Proceed
<1>1. PICK k \in 1 .. (Len(Plan(j)) - 1) :
        Plan(j)[k] = pc[r] /\ pc' = [pc EXCEPT ![r] = Plan(j)[k + 1]]
  BY DEF Proceed
<1>2. ASSUME j.op = "create", j.on \in TopLevel
      PROVE  Plan(j)[k + 1] = After(j, pc[r]) /\ After(j, pc[r]) \in Stages(j)
  <2>1. Plan(j) = <<"stats", "commit">> BY <1>2 DEF Plan, QuestionStates, IsFollow
  <2> QED BY <2>1, <1>1, <1>2 DEF After, Stages, IsFollow
<1>3. ASSUME j.op = "create", j.on \notin TopLevel
      PROVE  Plan(j)[k + 1] = After(j, pc[r]) /\ After(j, pc[r]) \in Stages(j)
  <2>1. Plan(j) = <<"parent", "root", "stats", "commit">> BY <1>3 DEF Plan, QuestionStates, IsFollow
  <2> QED BY <2>1, <1>1, <1>3 DEF After, Stages, IsFollow
<1>4. ASSUME j.op = "delete"
      PROVE  Plan(j)[k + 1] = After(j, pc[r]) /\ After(j, pc[r]) \in Stages(j)
  <2>1. Plan(j) = <<"check", "row", "stats", "commit">> BY <1>4 DEF Plan, QuestionStates, IsFollow
  <2> QED BY <2>1, <1>1, <1>4 DEF After, Stages, IsFollow
<1>5. ASSUME j.op \in QuestionStates
      PROVE  Plan(j)[k + 1] = After(j, pc[r]) /\ After(j, pc[r]) \in Stages(j)
  <2>1. Plan(j) = <<"check", "row">> BY <1>5 DEF Plan, QuestionStates, IsFollow
  <2> QED BY <2>1, <1>1, <1>5 DEF After, Stages, IsFollow, QuestionStates
<1>6. ASSUME IsFollow(j)
      PROVE  Plan(j)[k + 1] = After(j, pc[r]) /\ After(j, pc[r]) \in Stages(j)
  <2>1. Plan(j) = <<"edge", "stats", "stats2", "commit">> BY <1>6 DEF Plan, QuestionStates, IsFollow
  <2> QED BY <2>1, <1>1, <1>6 DEF After, Stages, IsFollow, QuestionStates
<1>7. Plan(j)[k + 1] = After(j, pc[r]) /\ After(j, pc[r]) \in Stages(j)
  BY <1>2, <1>3, <1>4, <1>5, <1>6, JobFacts DEF IsFollow
<1> QED BY <1>0, <1>1, <1>7

-----------------------------------------------------------------------------
(* The control of one request does not disturb the others *)

\* A request that does not move, in a step that leaves it its locks and what
\* it has found.
LEMMA OthersStay ==
  ASSUME TypeOK, NEW q \in Requests, JobInv(q), KeepInv(q),
         pc'[q] = pc[q], job'[q] = job[q],
         \A x \in Rows : owner[x] = q => owner'[x] = q,
         \A p \in Posts : q \in sharers[p] => q \in sharers'[p],
         \A p \in Posts : q \in sharers[p] \/ owner[Tweet(p)] = q => post'[p] = post[p],
         job[q].op = "create" => /\ post'[job[q].on] = post[job[q].on]
                                /\ \A s \in Requests \ {q} : job'[s] # job[q],
         \A u, v \in Users :
           owner[Edge(u, v)] = q => (<<u, v>> \in follows' <=> <<u, v>> \in follows)
  PROVE  JobInv(q)' /\ KeepInv(q)'
<1> DEFINE j == job[q]
<1>1. JobInv(q)' BY DEF JobInv
<1>2. CASE j.op = "create"
  <2>1. j \in Jobs BY <1>2 DEF JobInv, NoJob
  <2>2. j.on \in Posts /\ (j.on \notin TopLevel => Parent[j.on] \in Posts /\ Thread[j.on] \in Posts)
    BY <1>2, <2>1, JobFacts, ThreadFacts DEF IsFollow
  <2> QED BY <1>1, <1>2, <2>2 DEF KeepInv, IsFollow
<1>3. CASE j.op = "delete" /\ pc[q] \in {"stats", "commit"}
  <2>1. j \in Jobs BY <1>3 DEF JobInv, NoJob
  <2>2. j.on \in Posts BY <1>3, <2>1, JobFacts DEF IsFollow
  <2>3. owner[Tweet(j.on)] = q /\ post[j.on] = "visible" BY <1>3 DEF KeepInv
  <2>4. owner'[Tweet(j.on)] = q /\ post'[j.on] = "visible" BY <2>2, <2>3, RowFacts
  <2> QED BY <1>1, <1>3, <2>4 DEF KeepInv, IsFollow
<1>4. CASE IsFollow(j) /\ pc[q] \in {"stats", "stats2", "commit"}
  <2>1. j \in Jobs BY <1>4 DEF JobInv
  <2>2. j.user \in Users /\ j.on \in Users BY <1>4, <2>1, JobFacts
  <2>3. /\ owner[Edge(j.user, j.on)] = q
        /\ <<j.user, j.on>> \in follows <=> j.op = "unfollow"
    BY <1>4 DEF KeepInv
  <2>4. /\ owner'[Edge(j.user, j.on)] = q
        /\ <<j.user, j.on>> \in follows' <=> j.op = "unfollow"
    BY <2>2, <2>3, RowFacts
  <2> QED BY <1>1, <1>4, <2>4 DEF KeepInv, IsFollow
<1>5. CASE /\ j.op # "create"
           /\ ~ (j.op = "delete" /\ pc[q] \in {"stats", "commit"})
           /\ ~ (IsFollow(j) /\ pc[q] \in {"stats", "stats2", "commit"})
  BY <1>1, <1>5 DEF KeepInv
<1> QED BY <1>2, <1>3, <1>4, <1>5

\* A request that checks, or is about to take its first row, holds none.
LEMMA HoldsNothing ==
  ASSUME TypeOK, HoldInv, NEW r \in Requests,
         pc[r] \in {"idle", "check", "parent", "row", "edge"}
  PROVE  /\ \A x \in Rows : owner[x] # r
         /\ \A p \in Posts : r \notin sharers[p]
<1>1. r # Nobody OBVIOUS
<1>2. \A p \in Posts : owner[Tweet(p)] # r BY <1>1 DEF HoldInv, Holder, Deletes
<1>3. \A u \in Users : owner[Stats(u)] # r BY <1>1 DEF HoldInv, Holder, Updates
<1>4. \A u, v \in Users : owner[Edge(u, v)] # r BY <1>1 DEF HoldInv, Holder, Edges
<1>5. \A p \in Posts : r \notin sharers[p] BY DEF HoldInv, Holder, Replies
<1> QED BY <1>2, <1>3, <1>4, <1>5 DEF Rows

\* What a committing request may have changed, as far as others rely on it.
OwnPosts(r) ==
  \A p \in Posts : post'[p] # post[p] =>
    \/ job[r].op = "create" /\ job[r].on = p /\ post[p] = "none"
    \/ owner[Tweet(p)] = r /\ post[p] = "visible"

OwnEdges(r) ==
  \A u, v \in Users : \/ owner[Edge(u, v)] = r
                      \/ <<u, v>> \in follows' <=> <<u, v>> \in follows

\* The end of a request, with its locks released.
LEMMA LeaveKeeps ==
  ASSUME TypeOK, ControlInv, NEW r \in Requests, Answer(r),
         \A x \in Rows : owner'[x] = IF owner[x] = r THEN Nobody ELSE owner[x],
         \A p \in Posts : sharers'[p] = sharers[p] \ {r},
         OwnPosts(r), OwnEdges(r)
  PROVE  ControlInv'
<1>1. /\ pc'[r] = "idle" /\ job'[r] = NoJob
      /\ \A q \in Requests \ {r} : pc'[q] = pc[q] /\ job'[q] = job[q]
  BY DEF Answer, TypeOK
<1>2. JobInv(r)' /\ KeepInv(r)'
  BY <1>1 DEF JobInv, KeepInv, NoJob, IsFollow
<1>3. ASSUME NEW q \in Requests \ {r} PROVE JobInv(q)' /\ KeepInv(q)'
  <2>1. JobInv(q) /\ KeepInv(q) BY DEF ControlInv
  <2>2. \A x \in Rows : owner[x] = q => owner'[x] = q OBVIOUS
  <2>3. \A p \in Posts : q \in sharers[p] => q \in sharers'[p] OBVIOUS
  <2>4. ASSUME NEW p \in Posts, q \in sharers[p] PROVE post'[p] = post[p]
    <3>1. owner[Tweet(p)] = Nobody /\ post[p] = "visible"
      BY <2>4 DEF ControlInv, Exclusion
    <3>2. r # Nobody OBVIOUS
    <3> QED BY <3>1, <3>2 DEF OwnPosts
  <2>5. ASSUME NEW p \in Posts, owner[Tweet(p)] = q PROVE post'[p] = post[p]
    <3>1. Deletes(q, p) BY <2>5 DEF ControlInv, HoldInv, Holder
    <3>2. post[p] = "visible" BY <2>1, <3>1 DEF KeepInv, Deletes
    <3> QED BY <2>5, <3>2 DEF OwnPosts
  <2>6. ASSUME job[q].op = "create"
        PROVE  /\ post'[job[q].on] = post[job[q].on]
               /\ \A x \in Requests \ {q} : job'[x] # job[q]
    <3>1. /\ post[job[q].on] = "none" /\ job[q].user = Author[job[q].on]
          /\ \A x \in Requests \ {q} : job[x] # job[q]
      BY <2>1, <2>6 DEF KeepInv
    <3>2. job[q] # NoJob BY <2>6 DEF NoJob
    <3>3. job[q] \in Jobs BY <2>1, <3>2 DEF JobInv
    <3>4. job[q].on \in Posts BY <2>6, <3>3, JobFacts DEF IsFollow
    <3>5. ASSUME job[r].op = "create", job[r].on = job[q].on PROVE FALSE
      <4>1. job[r] \in Jobs BY <3>5 DEF ControlInv, JobInv, NoJob
      <4>2. KeepInv(r) BY DEF ControlInv
      <4>4. job[r].user = job[q].user BY <4>2, <3>1, <3>5 DEF KeepInv
      <4>3. job[r] = job[q] BY <2>6, <3>3, <3>5, <4>1, <4>4 DEF Jobs, QuestionStates
      <4> QED BY <3>1, <4>3
    <3>6. post'[job[q].on] = post[job[q].on] BY <3>1, <3>4, <3>5 DEF OwnPosts
    <3> QED BY <1>1, <3>1, <3>2, <3>6
  <2>7. \A u, v \in Users :
          owner[Edge(u, v)] = q => (<<u, v>> \in follows' <=> <<u, v>> \in follows)
    BY DEF OwnEdges
  <2> QED BY <1>1, <2>1, <2>2, <2>3, <2>4, <2>5, <2>6, <2>7, OthersStay
<1>4. \A x \in Rows : owner'[x] # Nobody => owner'[x] = owner[x] /\ owner[x] \in Requests \ {r}
  BY DEF TypeOK
<1>9. HoldInv'
  <2> SUFFICES ASSUME NEW q \in Requests
               PROVE  /\ \A p \in Posts : owner'[Tweet(p)] = q => Deletes(q, p)'
                      /\ \A p \in Posts : q \in sharers'[p] => Replies(q)'
                      /\ \A u \in Users : owner'[Stats(u)] = q => Updates(q)'
                      /\ \A u, v \in Users : owner'[Edge(u, v)] = q => Edges(q)'
    BY DEF HoldInv, Holder
  <2>1. CASE q = r
    <3>1. \A x \in Rows : owner'[x] # r OBVIOUS
    <3>2. \A p \in Posts : r \notin sharers'[p] OBVIOUS
    <3> QED BY <2>1, <3>1, <3>2, RowFacts
  <2>2. CASE q # r
    <3>1. \A x \in Rows : owner'[x] = q => owner[x] = q OBVIOUS
    <3>2. \A p \in Posts : q \in sharers'[p] => q \in sharers[p] OBVIOUS
    <3>3. pc'[q] = pc[q] /\ job'[q] = job[q] BY <2>2, <1>1
    <3> QED BY <3>1, <3>2, <3>3, RowFacts
          DEF ControlInv, HoldInv, Holder, Deletes, Replies, Updates, Edges
  <2> QED BY <2>1, <2>2
<1>10. Exclusion'
  <2> SUFFICES ASSUME NEW p \in Posts
               PROVE  /\ owner'[Tweet(p)] # Nobody => sharers'[p] = {}
                      /\ sharers'[p] # {} => post'[p] = "visible"
    BY DEF Exclusion
  <2>1. owner'[Tweet(p)] # Nobody => sharers'[p] = {}
    BY <1>4, RowFacts DEF ControlInv, Exclusion
  <2>2. ASSUME sharers'[p] # {} PROVE post'[p] = "visible"
    <3>1. sharers[p] # {} BY <2>2
    <3>2. owner[Tweet(p)] = Nobody /\ post[p] = "visible"
      BY <3>1 DEF ControlInv, Exclusion
    <3>3. r # Nobody OBVIOUS
    <3> QED BY <3>2, <3>3 DEF OwnPosts
  <2> QED BY <2>1, <2>2
<1> QED BY <1>2, <1>3, <1>9, <1>10 DEF ControlInv

\* One statement of a request, which may take locks that are free.
LEMMA GoOnKeeps ==
  ASSUME TypeOK, ControlInv, NEW r \in Requests, pc[r] # "idle",
         Proceed(r), UNCHANGED <<post, follows>>,
         \A x \in Rows : owner'[x] = owner[x] \/ (owner[x] \in {Nobody, r} /\ owner'[x] = r),
         \A p \in Posts : sharers[p] \subseteq sharers'[p] /\ sharers'[p] \subseteq sharers[p] \cup {r},
         KeepInv(r)', Holder(r)', Exclusion'
  PROVE  ControlInv' /\ pc' \in [Requests -> Control] /\ job' = job
<1>1. job[r] \in Jobs /\ pc[r] \in Stages(job[r]) BY DEF ControlInv, JobInv
<1>2. /\ pc' = [pc EXCEPT ![r] = After(job[r], pc[r])]
      /\ After(job[r], pc[r]) \in Stages(job[r])
      /\ job' = job
  BY <1>1, Plans
<1>3. /\ pc'[r] = After(job[r], pc[r])
      /\ \A q \in Requests \ {r} : pc'[q] = pc[q]
  BY <1>2 DEF TypeOK
<1>4. Stages(job[r]) \subseteq Control BY DEF Stages, Control, InTransaction
<1>5. pc' \in [Requests -> Control] BY <1>2, <1>4 DEF TypeOK
<1>6. JobInv(r)' BY <1>1, <1>2, <1>3 DEF JobInv, Stages
<1>7. ASSUME NEW q \in Requests \ {r} PROVE JobInv(q)' /\ KeepInv(q)' /\ Holder(q)'
  <2>1. JobInv(q) /\ KeepInv(q) /\ Holder(q) BY DEF ControlInv, HoldInv
  <2>2. \A x \in Rows : owner[x] = q <=> owner'[x] = q OBVIOUS
  <2>3. \A p \in Posts : q \in sharers[p] <=> q \in sharers'[p] OBVIOUS
  <2>4. job[q].op = "create" => \A x \in Requests \ {q} : job'[x] # job[q]
    BY <2>1, <1>2 DEF KeepInv
  <2>5. JobInv(q)' /\ KeepInv(q)' BY <1>2, <1>3, <2>1, <2>2, <2>3, <2>4, OthersStay
  <2>6. Holder(q)'
    BY <1>2, <1>3, <2>1, <2>2, <2>3, RowFacts DEF Holder, Deletes, Replies, Updates, Edges
  <2> QED BY <2>5, <2>6
<1> QED BY <1>2, <1>5, <1>6, <1>7 DEF ControlInv, HoldInv

\* What Acquire does: the row was free, of others who share it too.
LEMMA Acquired ==
  ASSUME TypeOK, NEW r \in Requests, NEW x \in Rows, Acquire(r, x)
  PROVE  /\ owner' = [owner EXCEPT ![x] = r] /\ sharers' = sharers
         /\ owner' \in [Rows -> Requests \cup {Nobody}]
         /\ owner[x] \in {Nobody, r}
         /\ \A p \in Posts : x = Tweet(p) => sharers[p] \subseteq {r}
<1>1. Blockers(r, x) = {} /\ owner' = [owner EXCEPT ![x] = r] /\ sharers' = sharers
  BY DEF Acquire
<1>2. owner[x] \in {Nobody, r} BY <1>1 DEF Blockers
<1>3. ASSUME NEW p \in Posts, x = Tweet(p) PROVE sharers[p] \subseteq {r}
  <2>1. p \in {q \in Posts : x = Tweet(q)} BY <1>3
  <2>2. sharers[p] \ {r} \subseteq Blockers(r, x) BY <2>1 DEF Blockers
  <2> QED BY <1>1, <2>2
<1> QED BY <1>1, <1>2, <1>3 DEF TypeOK

\* A statement that takes no lock.
LEMMA CheckKeeps ==
  ASSUME TypeOK, ControlInv, NEW r \in Requests, Check(r)
  PROVE  ControlInv' /\ TypeOK'
<1>1. UNCHANGED <<database, locks>> /\ pc[r] = "check" BY DEF Check
<1>2. UNCHANGED <<post, follows, owner, sharers>> BY <1>1 DEF database, locks
<1>3. (\A x \in Rows : owner[x] # r) /\ (\A p \in Posts : r \notin sharers[p])
  BY <1>1, HoldsNothing DEF ControlInv
<1>4. CASE Answer(r)
  <2>1. OwnPosts(r) /\ OwnEdges(r) BY <1>2 DEF OwnPosts, OwnEdges
  <2>2. ControlInv' BY <1>2, <1>3, <1>4, <2>1, LeaveKeeps
  <2>3. pc' \in [Requests -> Control] /\ job' \in [Requests -> Jobs \cup {NoJob}]
    BY <1>4 DEF Answer, TypeOK, Control
  <2> QED BY <1>1, <2>2, <2>3 DEF TypeOK, database, locks
<1>5. CASE Proceed(r)
  <2>1. job[r] \in Jobs /\ pc[r] \in Stages(job[r]) BY <1>1 DEF ControlInv, JobInv
  <2>2. pc'[r] = "row" /\ job' = job BY <1>1, <1>5, <2>1, Plans DEF After, TypeOK
  <2>3. job[r].op # "create" BY <1>1, <2>1 DEF Stages
  <2>4. KeepInv(r)' BY <2>2, <2>3 DEF KeepInv
  <2>5. Holder(r)' BY <1>2, <1>3, RowFacts DEF Holder
  <2>6. Exclusion' BY <1>2 DEF ControlInv, Exclusion
  <2>7. ControlInv' /\ pc' \in [Requests -> Control]
    BY <1>1, <1>2, <1>5, <2>4, <2>5, <2>6, GoOnKeeps
  <2> QED BY <1>1, <2>2, <2>7 DEF TypeOK, database, locks
<1> QED BY <1>4, <1>5 DEF Check

\* FOR SHARE on a post that is visible and that no deletion holds.
LEMMA ShareKeeps ==
  ASSUME TypeOK, ControlInv, NEW r \in Requests, LockParent(r) \/ LockRoot(r)
  PROVE  ControlInv' /\ TypeOK'
<1> DEFINE j == job[r]
<1>1. PICK p \in {Parent[j.on], Thread[j.on]} :
        /\ \/ pc[r] = "parent" /\ p = Parent[j.on]
           \/ pc[r] = "root" /\ p = Thread[j.on]
        /\ Share(r, p) /\ Proceed(r) /\ UNCHANGED database
  BY DEF LockParent, LockRoot, LockForReply
<1>2. j \in Jobs /\ pc[r] \in Stages(j) BY <1>1 DEF ControlInv, JobInv
<1>3. j.op = "create" /\ j.on \notin TopLevel
  BY <1>1, <1>2, JobFacts DEF Stages, QuestionStates
<1>4. j.on \in Posts /\ p \in Posts BY <1>1, <1>2, <1>3, JobFacts, ThreadFacts DEF IsFollow
<1>5. /\ post[p] = "visible" /\ owner[Tweet(p)] = Nobody
      /\ sharers' = [sharers EXCEPT ![p] = @ \cup {r}]
      /\ owner' = owner
  BY <1>1 DEF Share
<1>6. UNCHANGED <<post, follows>> BY <1>1 DEF database
<1>7. sharers' \in [Posts -> SUBSET Requests] BY <1>5 DEF TypeOK
<1>8. /\ r \in sharers'[p]
      /\ \A x \in Posts : sharers[x] \subseteq sharers'[x] /\ sharers'[x] \subseteq sharers[x] \cup {r}
      /\ \A x \in Posts : x # p => sharers'[x] = sharers[x]
  BY <1>4, <1>5 DEF TypeOK
<1>9. /\ job' = job
      /\ pc'[r] = IF pc[r] = "parent" THEN "root" ELSE "stats"
  <2>1. job' = job /\ pc'[r] = After(j, pc[r]) BY <1>1, <1>2, Plans DEF TypeOK
  <2> QED BY <2>1, <1>1 DEF After
<1>10. KeepInv(r) /\ Holder(r) BY DEF ControlInv, HoldInv
<1>11. KeepInv(r)'
  <2>1. /\ post'[j.on] = "none" /\ j.user = Author[j.on]
        /\ \A q \in Requests \ {r} : job'[q] # j
    BY <1>3, <1>6, <1>9, <1>10 DEF KeepInv
  <2>2. r \in sharers'[Parent[j.on]] /\ post'[Parent[j.on]] = "visible"
    BY <1>1, <1>3, <1>4, <1>5, <1>6, <1>8, <1>10, ThreadFacts DEF KeepInv
  <2>3. pc'[r] # "root" => r \in sharers'[Thread[j.on]] /\ post'[Thread[j.on]] = "visible"
    BY <1>1, <1>5, <1>6, <1>8, <1>9
  <2> QED BY <1>3, <1>9, <2>1, <2>2, <2>3 DEF KeepInv, IsFollow
<1>12. Holder(r)'
  <2>1. Replies(r)' BY <1>1, <1>3, <1>9 DEF Replies
  <2>2. (\A x \in Posts : owner[Tweet(x)] # r) /\ (\A u \in Users : owner[Stats(u)] # r)
    BY <1>1, <1>3, <1>10 DEF Holder, Deletes, Updates
  <2>3. \A u, v \in Users : owner[Edge(u, v)] # r
    BY <1>3, <1>10 DEF Holder, Edges, IsFollow
  <2> QED BY <1>5, <2>1, <2>2, <2>3 DEF Holder
<1>13. Exclusion' BY <1>5, <1>6, <1>8 DEF ControlInv, Exclusion
<1>14. ControlInv' /\ pc' \in [Requests -> Control]
  BY <1>1, <1>5, <1>6, <1>8, <1>11, <1>12, <1>13, GoOnKeeps
<1> QED BY <1>1, <1>5, <1>7, <1>9, <1>14 DEF TypeOK, database

\* DeletePost has locked a visible post which no reply shares.
LEMMA LockPostKeeps ==
  ASSUME TypeOK, ControlInv, NEW r \in Requests, LockPost(r)
  PROVE  ControlInv' /\ TypeOK'
<1> DEFINE j == job[r]
<1>1. /\ pc[r] = "row" /\ j.op = "delete" /\ post[j.on] = "visible"
      /\ Acquire(r, Tweet(j.on)) /\ Proceed(r) /\ UNCHANGED database
  BY DEF LockPost
<1>2. j \in Jobs /\ pc[r] \in Stages(j) BY <1>1 DEF ControlInv, JobInv
<1>3. j.on \in Posts /\ Tweet(j.on) \in Rows BY <1>1, <1>2, JobFacts, RowFacts DEF IsFollow
<1>4. /\ owner' = [owner EXCEPT ![Tweet(j.on)] = r] /\ sharers' = sharers
      /\ owner' \in [Rows -> Requests \cup {Nobody}]
      /\ owner[Tweet(j.on)] \in {Nobody, r}
      /\ sharers[j.on] \subseteq {r}
  BY <1>1, <1>3, Acquired
<1>5. UNCHANGED <<post, follows>> BY <1>1 DEF database
<1>6. job' = job /\ pc'[r] = "stats" BY <1>1, <1>2, Plans DEF After, TypeOK
<1>7. (\A x \in Rows : owner[x] # r) /\ (\A p \in Posts : r \notin sharers[p])
  BY <1>1, HoldsNothing DEF ControlInv
<1>8. /\ owner'[Tweet(j.on)] = r
      /\ \A x \in Rows : x # Tweet(j.on) => owner'[x] = owner[x]
  BY <1>3, <1>4 DEF TypeOK
<1>9. KeepInv(r)' BY <1>1, <1>5, <1>6, <1>8 DEF KeepInv, IsFollow
<1>10. Holder(r)'
  <2>1. \A x \in Rows : owner'[x] = r => x = Tweet(j.on) BY <1>7, <1>8
  <2>2. \A p \in Posts : p = j.on => Deletes(r, p)' BY <1>1, <1>6 DEF Deletes
  <2>3. \A p \in Posts : owner'[Tweet(p)] = r => p = j.on BY <1>3, <2>1, RowFacts
  <2>4. \A u \in Users : owner'[Stats(u)] # r BY <1>3, <2>1, RowFacts
  <2>5. \A u, v \in Users : owner'[Edge(u, v)] # r BY <1>3, <2>1, RowFacts
  <2>6. \A p \in Posts : r \notin sharers'[p] BY <1>4, <1>7
  <2>7. \A p \in Posts : owner'[Tweet(p)] = r => Deletes(r, p)' BY <2>2, <2>3
  <2> QED BY <2>4, <2>5, <2>6, <2>7 DEF Holder
<1>11. Exclusion'
  <2> SUFFICES ASSUME NEW p \in Posts
               PROVE  /\ owner'[Tweet(p)] # Nobody => sharers'[p] = {}
                      /\ sharers'[p] # {} => post'[p] = "visible"
    BY DEF Exclusion
  <2>1. CASE p = j.on BY <2>1, <1>3, <1>4, <1>7
  <2>2. CASE p # j.on
    <3>1. owner'[Tweet(p)] = owner[Tweet(p)] BY <2>2, <1>3, <1>8, RowFacts
    <3> QED BY <3>1, <1>4, <1>5 DEF ControlInv, Exclusion
  <2> QED BY <2>1, <2>2
<1>12. ControlInv' /\ pc' \in [Requests -> Control]
  BY <1>1, <1>4, <1>5, <1>8, <1>9, <1>10, <1>11, GoOnKeeps
<1> QED BY <1>1, <1>4, <1>6, <1>12 DEF TypeOK, database

\* An exclusive lock of a row that is not a post.
LEMMA LockRowKeeps ==
  ASSUME TypeOK, ControlInv, NEW r \in Requests,
         WriteEdge(r) \/ UpdateStats(r) \/ UpdateStats2(r)
  PROVE  ControlInv' /\ TypeOK'
<1> DEFINE j == job[r]
<1>1. /\ pc[r] \in {"edge", "stats", "stats2"} /\ Proceed(r) /\ UNCHANGED database
      /\ pc[r] = "edge" => Acquire(r, Edge(j.user, j.on))
      /\ pc[r] = "edge" => (<<j.user, j.on>> \in follows <=> j.op = "unfollow")
      /\ pc[r] = "stats" => Acquire(r, FirstStats(j))
      /\ pc[r] = "stats2" => Acquire(r, Stats(j.on))
  BY DEF WriteEdge, UpdateStats, UpdateStats2
<1>2. j \in Jobs /\ pc[r] \in Stages(j) BY <1>1 DEF ControlInv, JobInv
<1>3. /\ pc[r] \in {"edge", "stats2"} => IsFollow(j)
      /\ ~ IsFollow(j) => j.op \in {"create", "delete"} /\ j.on \in Posts
      /\ IsFollow(j) => j.on \in Users
      /\ j.user \in Users
  BY <1>1, <1>2, JobFacts DEF Stages, QuestionStates, IsFollow
<1>4. PICK x \in Rows :
        /\ Acquire(r, x)
        /\ \A p \in Posts : x # Tweet(p)
        /\ pc[r] = "edge" => x = Edge(j.user, j.on)
        /\ pc[r] # "edge" => \E u \in Users : x = Stats(u)
  <2>1. CASE pc[r] = "edge"
    <3>1. Edge(j.user, j.on) \in Rows /\ \A p \in Posts : Edge(j.user, j.on) # Tweet(p)
      BY <2>1, <1>3, RowFacts
    <3>2. Acquire(r, Edge(j.user, j.on)) BY <2>1, <1>1
    <3> HIDE DEF j
    <3> QED BY <2>1, <3>1, <3>2
  <2>2. CASE pc[r] = "stats"
    <3>1. PICK u \in Users : FirstStats(j) = Stats(u) BY <1>3 DEF FirstStats
    <3>2. Stats(u) \in Rows /\ \A p \in Posts : Stats(u) # Tweet(p) BY RowFacts
    <3>3. Acquire(r, Stats(u)) BY <2>2, <3>1, <1>1
    <3> QED BY <2>2, <3>2, <3>3
  <2>3. CASE pc[r] = "stats2"
    <3>1. j.on \in Users BY <2>3, <1>3
    <3>2. Stats(j.on) \in Rows /\ \A p \in Posts : Stats(j.on) # Tweet(p) BY <3>1, RowFacts
    <3> QED BY <2>3, <3>1, <3>2, <1>1
  <2> QED BY <1>1, <2>1, <2>2, <2>3
<1>5. /\ owner' = [owner EXCEPT ![x] = r] /\ sharers' = sharers
      /\ owner' \in [Rows -> Requests \cup {Nobody}]
      /\ owner[x] \in {Nobody, r}
  BY <1>4, Acquired
<1>6. UNCHANGED <<post, follows>> BY <1>1 DEF database
<1>7. job' = job /\ pc'[r] = After(j, pc[r]) BY <1>1, <1>2, Plans DEF TypeOK
<1>8. /\ pc[r] = "edge" => pc'[r] = "stats"
      /\ pc[r] = "stats" => pc'[r] = IF IsFollow(j) THEN "stats2" ELSE "commit"
      /\ pc[r] = "stats2" => pc'[r] = "commit"
  BY <1>7 DEF After
<1>9. /\ owner'[x] = r
      /\ \A y \in Rows : y # x => owner'[y] = owner[y]
  BY <1>5 DEF TypeOK
<1>10. KeepInv(r) /\ Holder(r) BY DEF ControlInv, HoldInv
<1>11. KeepInv(r)'
  <2>1. CASE pc[r] = "edge"
    <3>1. IsFollow(j) BY <2>1, <1>3
    <3> QED BY <2>1, <3>1, <1>1, <1>4, <1>6, <1>7, <1>8, <1>9 DEF KeepInv, IsFollow
  <2>2. CASE pc[r] # "edge" /\ IsFollow(j)
    <3>1. owner[Edge(j.user, j.on)] = r /\ (<<j.user, j.on>> \in follows <=> j.op = "unfollow")
      BY <1>1, <1>10, <2>2 DEF KeepInv
    <3>2. owner'[Edge(j.user, j.on)] = r BY <1>3, <1>9, <2>2, <3>1, RowFacts
    <3> QED BY <2>2, <3>1, <3>2, <1>6, <1>7 DEF KeepInv, IsFollow
  <2>3. CASE ~ IsFollow(j)
    <3>1. pc[r] = "stats" /\ pc'[r] = "commit" BY <1>1, <1>3, <1>8, <2>3
    <3>2. j.op = "delete" => owner'[Tweet(j.on)] = r
      <4>1. j.op = "delete" => owner[Tweet(j.on)] = r BY <3>1, <1>10 DEF KeepInv
      <4> QED BY <4>1, <1>3, <1>4, <1>9, <2>3, RowFacts
    <3> QED BY <2>3, <3>1, <3>2, <1>3, <1>5, <1>6, <1>7, <1>10 DEF KeepInv
  <2> QED BY <2>1, <2>2, <2>3
<1>12. Holder(r)'
  <2>1. \A p \in Posts : owner'[Tweet(p)] = r => Deletes(r, p)'
    <3>1. \A p \in Posts : owner'[Tweet(p)] = owner[Tweet(p)] BY <1>4, <1>9, RowFacts
    <3>2. \A p \in Posts : Deletes(r, p) => Deletes(r, p)' BY <1>1, <1>3, <1>7, <1>8 DEF Deletes, IsFollow
    <3> QED BY <3>1, <3>2, <1>10 DEF Holder
  <2>2. \A p \in Posts : r \in sharers'[p] => Replies(r)'
    <3>1. Replies(r) => Replies(r)' BY <1>1, <1>3, <1>7, <1>8 DEF Replies, IsFollow
    <3> QED BY <3>1, <1>5, <1>10 DEF Holder
  <2>3. \A u \in Users : owner'[Stats(u)] = r => Updates(r)'
    <3>1. CASE pc[r] = "edge"
      <4>1. \A u \in Users : owner'[Stats(u)] = owner[Stats(u)] BY <3>1, <1>3, <1>4, <1>9, RowFacts
      <4>2. \A u \in Users : owner[Stats(u)] # r BY <3>1, <1>10 DEF Holder, Updates
      <4> QED BY <4>1, <4>2
    <3>2. CASE pc[r] # "edge" BY <3>2, <1>1, <1>7, <1>8 DEF Updates
    <3> QED BY <3>1, <3>2
  <2>4. \A u, v \in Users : owner'[Edge(u, v)] = r => Edges(r)'
    <3>1. CASE pc[r] = "edge" BY <3>1, <1>3, <1>7, <1>8 DEF Edges
    <3>2. CASE pc[r] # "edge"
      <4>1. \A u, v \in Users : owner'[Edge(u, v)] = owner[Edge(u, v)] BY <3>2, <1>4, <1>9, RowFacts
      <4>2. Edges(r) => Edges(r)' BY <1>1, <1>7, <1>8 DEF Edges
      <4> QED BY <4>1, <4>2, <1>10 DEF Holder
    <3> QED BY <3>1, <3>2
  <2> QED BY <2>1, <2>2, <2>3, <2>4 DEF Holder
<1>13. Exclusion'
  <2>1. \A p \in Posts : owner'[Tweet(p)] = owner[Tweet(p)] BY <1>4, <1>9, RowFacts
  <2> QED BY <2>1, <1>5, <1>6 DEF ControlInv, Exclusion
<1>14. ControlInv' /\ pc' \in [Requests -> Control]
  BY <1>1, <1>5, <1>6, <1>9, <1>11, <1>12, <1>13, GoOnKeeps
<1> QED BY <1>1, <1>5, <1>7, <1>14 DEF TypeOK, database

LEMMA Released ==
  ASSUME TypeOK, NEW r \in Requests, Release(r), Answer(r)
  PROVE  /\ \A x \in Rows : owner'[x] = IF owner[x] = r THEN Nobody ELSE owner[x]
         /\ \A p \in Posts : sharers'[p] = sharers[p] \ {r}
         /\ owner' \in [Rows -> Requests \cup {Nobody}]
         /\ sharers' \in [Posts -> SUBSET Requests]
         /\ pc' \in [Requests -> Control] /\ job' \in [Requests -> Jobs \cup {NoJob}]
BY DEF Release, Answer, TypeOK, Control

\* A transaction that ends without a commit, for whatever reason.
LEMMA RollbackKeeps ==
  ASSUME TypeOK, ControlInv, NEW r \in Requests, Release(r), Answer(r), UNCHANGED database
  PROVE  ControlInv' /\ TypeOK'
<1>1. UNCHANGED <<post, follows>> BY DEF database
<1>2. OwnPosts(r) /\ OwnEdges(r) BY <1>1 DEF OwnPosts, OwnEdges
<1>3. ControlInv' BY <1>2, Released, LeaveKeeps
<1> QED BY <1>3, Released DEF TypeOK, database

\* A request that is answered before it has taken a lock.
LEMMA AnswerKeeps ==
  ASSUME TypeOK, ControlInv, NEW r \in Requests, Answer(r), UNCHANGED <<post, follows, locks>>,
         pc[r] \in {"check", "row", "edge"}
  PROVE  /\ ControlInv'
         /\ pc' \in [Requests -> Control] /\ job' \in [Requests -> Jobs \cup {NoJob}]
<1>1. owner' = owner /\ sharers' = sharers BY DEF locks
<1>2. (\A x \in Rows : owner[x] # r) /\ (\A p \in Posts : r \notin sharers[p])
  BY HoldsNothing DEF ControlInv
<1>3. OwnPosts(r) /\ OwnEdges(r) BY DEF OwnPosts, OwnEdges
<1>4. ControlInv' BY <1>1, <1>2, <1>3, LeaveKeeps
<1>5. pc' \in [Requests -> Control] /\ job' \in [Requests -> Jobs \cup {NoJob}]
  BY DEF Answer, TypeOK, Control
<1> QED BY <1>4, <1>5

LEMMA SetStateKeeps ==
  ASSUME TypeOK, ControlInv, NEW r \in Requests, SetQuestionState(r)
  PROVE  ControlInv' /\ TypeOK'
<1>1. /\ pc[r] = "row" /\ Answer(r)
      /\ state' = [state EXCEPT ![job[r].on] = job[r].op]
      /\ job[r].op \in QuestionStates
      /\ UNCHANGED <<post, tweets, following, followers, follows, notes, outbox, locks>>
  BY DEF SetQuestionState
<1>2. ControlInv' /\ pc' \in [Requests -> Control] /\ job' \in [Requests -> Jobs \cup {NoJob}]
  BY <1>1, AnswerKeeps
<1>3. state' \in [Posts -> QuestionStates \cup {""}] BY <1>1 DEF TypeOK
<1> QED BY <1>1, <1>2, <1>3 DEF TypeOK, locks

LEMMA EdgeUnchangedKeeps ==
  ASSUME TypeOK, ControlInv, NEW r \in Requests, EdgeUnchanged(r)
  PROVE  ControlInv' /\ TypeOK'
<1>1. pc[r] = "edge" /\ Answer(r) /\ UNCHANGED <<database, locks>> BY DEF EdgeUnchanged
<1>2. UNCHANGED <<post, follows, locks>> BY <1>1 DEF database
<1>3. ControlInv' /\ pc' \in [Requests -> Control] /\ job' \in [Requests -> Jobs \cup {NoJob}]
  BY <1>1, <1>2, AnswerKeeps
<1> QED BY <1>1, <1>3 DEF TypeOK, database, locks

LEMMA BeginKeeps ==
  ASSUME TypeOK, ControlInv, NEW r \in Requests, Begin(r)
  PROVE  ControlInv' /\ TypeOK'
<1>1. PICK j \in Jobs : /\ Accepted(j)
                        /\ job' = [job EXCEPT ![r] = j]
                        /\ pc' = [pc EXCEPT ![r] = Plan(j)[1]]
  BY DEF Begin
<1>2. pc[r] = "idle" /\ UNCHANGED <<database, locks>> BY DEF Begin
<1>3. UNCHANGED <<post, follows, owner, sharers>> BY <1>2 DEF database, locks
<1>4. /\ Plan(j)[1] \in Stages(j)
      /\ Plan(j)[1] \in {"stats", "parent", "check", "edge"}
      /\ Plan(j)[1] = "stats" => j.op = "create" /\ j.on \in TopLevel
  BY JobFacts DEF Plan, Stages, QuestionStates, IsFollow
<1>5. /\ pc'[r] = Plan(j)[1] /\ job'[r] = j
      /\ \A q \in Requests \ {r} : pc'[q] = pc[q] /\ job'[q] = job[q]
  BY <1>1 DEF TypeOK
<1>6. pc' \in [Requests -> Control] /\ job' \in [Requests -> Jobs \cup {NoJob}]
  BY <1>1, <1>4 DEF TypeOK, Control, InTransaction
<1>7. (\A x \in Rows : owner[x] # r) /\ (\A p \in Posts : r \notin sharers[p])
  BY <1>2, HoldsNothing DEF ControlInv
<1>8. JobInv(r)' BY <1>4, <1>5 DEF JobInv
<1>9. KeepInv(r)'
  <2>1. CASE j.op = "create"
    <3>1. /\ j.user = Author[j.on] /\ post[j.on] = "none"
          /\ \A q \in Requests : job[q] # j
      BY <1>1, <2>1 DEF Accepted
    <3> QED BY <1>3, <1>4, <1>5, <2>1, <3>1 DEF KeepInv, IsFollow
  <2>2. CASE j.op # "create"
    BY <1>4, <1>5, <2>2 DEF KeepInv
  <2> QED BY <2>1, <2>2
<1>10. ASSUME NEW q \in Requests \ {r} PROVE JobInv(q)' /\ KeepInv(q)' /\ Holder(q)'
  <2>1. JobInv(q) /\ KeepInv(q) /\ Holder(q) BY DEF ControlInv, HoldInv
  <2>2. job[q].op = "create" => \A x \in Requests \ {q} : job'[x] # job[q]
    <3> SUFFICES ASSUME job[q].op = "create", NEW x \in Requests \ {q} PROVE job'[x] # job[q]
      OBVIOUS
    <3>1. CASE x = r
      <4>1. j = job[q] => j.op = "create" OBVIOUS
      <4>2. j.op = "create" => job[q] # j BY <1>1 DEF Accepted
      <4> QED BY <3>1, <4>1, <4>2, <1>5
    <3>2. CASE x # r BY <3>2, <2>1, <1>5 DEF KeepInv
    <3> QED BY <3>1, <3>2
  <2>3. JobInv(q)' /\ KeepInv(q)' BY <1>3, <1>5, <2>1, <2>2, OthersStay
  <2>4. Holder(q)' BY <1>3, <1>5, <2>1 DEF Holder, Deletes, Replies, Updates, Edges
  <2> QED BY <2>3, <2>4
<1>11. Holder(r)' BY <1>3, <1>7, RowFacts DEF Holder
<1>12. Exclusion' BY <1>3 DEF ControlInv, Exclusion
<1>13. ControlInv' BY <1>8, <1>9, <1>10, <1>11, <1>12 DEF ControlInv, HoldInv
<1> QED BY <1>2, <1>6, <1>13 DEF TypeOK, database, locks

-----------------------------------------------------------------------------
(* Commit *)

\* What a transaction knows when it commits.
LEMMA AtCommit ==
  ASSUME TypeOK, ControlInv, NEW r \in Requests, pc[r] = "commit"
  PROVE  LET j == job[r] IN
         /\ j \in Jobs
         /\ j.op = "create" => /\ j.on \in Posts /\ post[j.on] = "none"
                               /\ j.on \notin TopLevel => /\ post[Parent[j.on]] = "visible"
                                                          /\ post[Thread[j.on]] = "visible"
         /\ j.op = "delete" => /\ j.on \in Posts /\ post[j.on] = "visible"
                               /\ owner[Tweet(j.on)] = r
         /\ IsFollow(j) => /\ j.user \in Users /\ j.on \in Users
                           /\ owner[Edge(j.user, j.on)] = r
                           /\ <<j.user, j.on>> \in follows <=> j.op = "unfollow"
<1>1. JobInv(r) /\ KeepInv(r) BY DEF ControlInv
<1>2. job[r] \in Jobs BY <1>1 DEF JobInv
<1> QED BY <1>1, <1>2, JobFacts DEF KeepInv, IsFollow

LEMMA CommitKeepsControl ==
  ASSUME TypeOK, ControlInv, NEW r \in Requests, Commit(r)
  PROVE  ControlInv'
<1> DEFINE j == job[r]
<1>1. pc[r] = "commit" /\ Release(r) /\ Answer(r) BY DEF Commit
<1>2. OwnPosts(r) /\ OwnEdges(r)
  <2>1. CASE j.op = "create" /\ CommitCreate(j.on)
    <3>1. post[j.on] = "none" /\ j.on \in Posts BY <1>1, <2>1, AtCommit
    <3>2. post' = [post EXCEPT ![j.on] = "visible"] /\ follows' = follows BY <2>1 DEF CommitCreate
    <3>3. \A p \in Posts : p # j.on => post'[p] = post[p] BY <3>2 DEF TypeOK
    <3> QED BY <2>1, <3>1, <3>2, <3>3 DEF OwnPosts, OwnEdges
  <2>2. CASE j.op = "delete" /\ CommitDelete(j.on)
    <3>1. post[j.on] = "visible" /\ owner[Tweet(j.on)] = r /\ j.on \in Posts
      BY <1>1, <2>2, AtCommit
    <3>2. post' = [post EXCEPT ![j.on] = "deleted"] /\ follows' = follows BY <2>2 DEF CommitDelete
    <3>3. \A p \in Posts : p # j.on => post'[p] = post[p] BY <3>2 DEF TypeOK
    <3> QED BY <3>1, <3>2, <3>3 DEF OwnPosts, OwnEdges
  <2>3. CASE j.op = "follow" /\ CommitFollow(j.user, j.on)
    <3>1. owner[Edge(j.user, j.on)] = r BY <1>1, <2>3, AtCommit DEF IsFollow
    <3>2. post' = post /\ follows' = follows \cup {<<j.user, j.on>>} BY <2>3 DEF CommitFollow
    <3> QED BY <3>1, <3>2 DEF OwnPosts, OwnEdges
  <2>4. CASE j.op = "unfollow" /\ CommitUnfollow(j.user, j.on)
    <3>1. owner[Edge(j.user, j.on)] = r BY <1>1, <2>4, AtCommit DEF IsFollow
    <3>2. post' = post /\ follows' = follows \ {<<j.user, j.on>>} BY <2>4 DEF CommitUnfollow
    <3> QED BY <3>1, <3>2 DEF OwnPosts, OwnEdges
  <2> QED BY <2>1, <2>2, <2>3, <2>4 DEF Commit
<1> QED BY <1>1, <1>2, Released, LeaveKeeps

\* What the counters count.
PostsOf(u) == {p \in Posts : post[p] = "visible" /\ Author[p] = u}
FollowedBy(u) == {v \in Users : <<u, v>> \in follows}
FollowersOf(u) == {v \in Users : <<v, u>> \in follows}

LEMMA OneMore ==
  ASSUME NEW S, IsFiniteSet(S), NEW x, x \notin S
  PROVE  Cardinality(S \cup {x}) = Cardinality(S) + 1
BY FS_AddElement

LEMMA OneLess ==
  ASSUME NEW S, IsFiniteSet(S), NEW x \in S
  PROVE  Cardinality(S \ {x}) = Decrease(Cardinality(S))
<1>1. Cardinality(S \ {x}) = Cardinality(S) - 1 BY FS_RemoveElement
<1>2. IsFiniteSet(S \ {x}) BY FS_RemoveElement
<1>3. Cardinality(S) \in Nat /\ Cardinality(S \ {x}) \in Nat BY <1>2, FS_CardinalityType
<1> QED BY <1>1, <1>3 DEF Decrease

LEMMA Finite ==
  ASSUME NEW u
  PROVE  IsFiniteSet(PostsOf(u)) /\ IsFiniteSet(FollowedBy(u)) /\ IsFiniteSet(FollowersOf(u))
<1>1. PostsOf(u) \subseteq Posts /\ FollowedBy(u) \subseteq Users /\ FollowersOf(u) \subseteq Users
  BY DEF PostsOf, FollowedBy, FollowersOf
<1> QED BY <1>1, FS_Subset

LEMMA Counters ==
  ASSUME CountersExact, NEW u \in Users
  PROVE  /\ tweets[u] = Cardinality(PostsOf(u))
         /\ following[u] = Cardinality(FollowedBy(u))
         /\ followers[u] = Cardinality(FollowersOf(u))
BY DEF CountersExact, PostsOf, FollowedBy, FollowersOf

LEMMA NextCounters ==
  ASSUME \A u \in Users : /\ tweets'[u] = Cardinality(PostsOf(u)')
                          /\ following'[u] = Cardinality(FollowedBy(u)')
                          /\ followers'[u] = Cardinality(FollowersOf(u)')
  PROVE  CountersExact'
BY DEF CountersExact, PostsOf, FollowedBy, FollowersOf

LEMMA SameCounts ==
  ASSUME NEW u
  PROVE  /\ post' = post => PostsOf(u)' = PostsOf(u)
         /\ follows' = follows => FollowedBy(u)' = FollowedBy(u) /\ FollowersOf(u)' = FollowersOf(u)
BY DEF PostsOf, FollowedBy, FollowersOf

LEMMA DataStays ==
  ASSUME DataInv, UNCHANGED <<post, tweets, following, followers, follows, notes, outbox>>
  PROVE  DataInv'
<1>1. CountersExact' BY Counters, NextCounters, SameCounts DEF DataInv
<1>2. OneEventPerChange' BY DEF DataInv, OneEventPerChange
<1>3. OneNotificationEach' BY DEF DataInv, OneNotificationEach
<1>4. \A n \in notes' : post'[n.post] # "none" BY DEF DataInv
<1> QED BY <1>1, <1>2, <1>3, <1>4 DEF DataInv

\* The notifications of a post: one for each recipient, none for its author.
LEMMA NotifiedFacts ==
  ASSUME NEW p \in Posts
  PROVE  /\ Notified(p) \subseteq [user : Users, post : Posts, kind : {"reply", "mention"}]
         /\ \A n \in Notified(p) : n.post = p /\ n.user # Author[p]
         /\ \A m, n \in Notified(p) : m.user = n.user => m = n
<1> DEFINE owners == IF p \in TopLevel THEN {} ELSE {Author[Parent[p]], Author[Thread[p]]}
<1>1. owners \subseteq Users BY ThreadFacts
<1>2. Mentions[p] \subseteq Users OBVIOUS
<1>3. Notified(p) = [user : owners \ {Author[p]}, post : {p}, kind : {"reply"}]
        \cup [user : (Mentions[p] \ owners) \ {Author[p]}, post : {p}, kind : {"mention"}]
  BY DEF Notified
<1> HIDE DEF owners
<1> QED BY <1>1, <1>2, <1>3

LEMMA CreateData ==
  ASSUME TypeOK, DataInv, NEW p \in Posts, post[p] = "none", CommitCreate(p)
  PROVE  /\ DataInv'
         /\ post' \in [Posts -> {"none", "visible", "deleted"}]
         /\ state' \in [Posts -> QuestionStates \cup {""}]
         /\ tweets' \in [Users -> Nat]
         /\ notes' \subseteq [user : Users, post : Posts, kind : {"reply", "mention"}]
         /\ outbox' \in [{"tweet_created", "tweet_deleted"} -> [Posts -> Nat]]
<1> DEFINE w == Author[p]
<1>0. w \in Users OBVIOUS
<1>1. /\ post' = [post EXCEPT ![p] = "visible"]
      /\ state' = [state EXCEPT ![p] = IF p \in Questions THEN "open" ELSE ""]
      /\ tweets' = [tweets EXCEPT ![w] = @ + 1]
      /\ outbox' = IF p \in TopLevel THEN [outbox EXCEPT !["tweet_created"][p] = @ + 1] ELSE outbox
      /\ notes' = notes \cup Notified(p)
      /\ UNCHANGED <<following, followers, follows>>
  BY DEF CommitCreate
<1>2. /\ post' \in [Posts -> {"none", "visible", "deleted"}]
      /\ state' \in [Posts -> QuestionStates \cup {""}]
      /\ tweets' \in [Users -> Nat]
  <2>1. post' \in [Posts -> {"none", "visible", "deleted"}] BY <1>1 DEF TypeOK
  <2>2. state' \in [Posts -> QuestionStates \cup {""}] BY <1>1 DEF TypeOK, QuestionStates
  <2>3. tweets' \in [Users -> Nat]
    <3>1. tweets \in [Users -> Nat] BY DEF TypeOK
    <3>2. tweets' = [tweets EXCEPT ![w] = tweets[w] + 1] BY <1>1
    <3> HIDE DEF w
    <3> QED BY <1>0, <3>1, <3>2
  <2> QED BY <2>1, <2>2, <2>3
<1>3. notes' \subseteq [user : Users, post : Posts, kind : {"reply", "mention"}]
  BY <1>1, NotifiedFacts DEF TypeOK
<1>4. outbox' \in [{"tweet_created", "tweet_deleted"} -> [Posts -> Nat]]
  <2>1. outbox["tweet_created"] \in [Posts -> Nat] BY DEF TypeOK
  <2>2. [outbox["tweet_created"] EXCEPT ![p] = @ + 1] \in [Posts -> Nat] BY <2>1
  <2> QED BY <1>1, <2>2 DEF TypeOK
<1>5. post'[p] = "visible" /\ \A q \in Posts \ {p} : post'[q] = post[q]
  BY <1>1 DEF TypeOK
<1>6. CountersExact'
  <2>1. ASSUME NEW u \in Users PROVE tweets'[u] = Cardinality(PostsOf(u)')
    <3>1. tweets[u] = Cardinality(PostsOf(u)) BY Counters DEF DataInv
    <3>2. CASE u = w
      <4>1. PostsOf(u)' = PostsOf(u) \cup {p} /\ p \notin PostsOf(u) BY <1>5, <3>2 DEF PostsOf
      <4>2. Cardinality(PostsOf(u)') = Cardinality(PostsOf(u)) + 1
        BY <4>1, Finite, OneMore
      <4> QED BY <1>1, <3>1, <3>2, <4>2 DEF TypeOK
    <3>3. CASE u # w
      <4>1. PostsOf(u)' = PostsOf(u) BY <1>5, <3>3 DEF PostsOf
      <4> QED BY <1>1, <3>1, <3>3, <4>1 DEF TypeOK
    <3> QED BY <3>2, <3>3
  <2>2. \A u \in Users : /\ following'[u] = Cardinality(FollowedBy(u)')
                         /\ followers'[u] = Cardinality(FollowersOf(u)')
    BY <1>1, Counters, SameCounts DEF DataInv
  <2> QED BY <2>1, <2>2, NextCounters
<1>7. OneEventPerChange'
  <2> SUFFICES ASSUME NEW q \in Posts
               PROVE  /\ outbox'["tweet_created"][q] = IF q \in TopLevel /\ post'[q] # "none" THEN 1 ELSE 0
                      /\ outbox'["tweet_deleted"][q] = IF post'[q] = "deleted" THEN 1 ELSE 0
    BY DEF OneEventPerChange
  <2>1. /\ outbox["tweet_created"][q] = IF q \in TopLevel /\ post[q] # "none" THEN 1 ELSE 0
        /\ outbox["tweet_deleted"][q] = IF post[q] = "deleted" THEN 1 ELSE 0
    BY DEF DataInv, OneEventPerChange
  <2>2. outbox'["tweet_deleted"][q] = outbox["tweet_deleted"][q] BY <1>1 DEF TypeOK
  <2>3. outbox'["tweet_created"][q] = IF q = p /\ p \in TopLevel THEN outbox["tweet_created"][q] + 1
                                     ELSE outbox["tweet_created"][q]
    <3>1. CASE p \in TopLevel BY <1>1, <3>1 DEF TypeOK
    <3>2. CASE p \notin TopLevel BY <1>1, <3>2
    <3> QED BY <3>1, <3>2
  <2> QED BY <2>1, <2>2, <2>3, <1>5
<1>8. OneNotificationEach' /\ \A n \in notes' : post'[n.post] # "none"
  <2>1. \A n \in notes : n.post # p /\ n.post \in Posts BY DEF DataInv, TypeOK
  <2>2. \A n \in notes' : post'[n.post] # "none"
    <3> SUFFICES ASSUME NEW n \in notes' PROVE post'[n.post] # "none"
      OBVIOUS
    <3>1. CASE n \in notes BY <3>1, <1>5, <2>1 DEF DataInv
    <3>2. CASE n \in Notified(p) BY <3>2, <1>5, NotifiedFacts
    <3> QED BY <1>1, <3>1, <3>2
  <2>3. \A n \in notes' : n.user # Author[n.post]
    BY <1>1, NotifiedFacts DEF DataInv, OneNotificationEach
  <2>4. \A m, n \in notes' : m.user = n.user /\ m.post = n.post => m = n
    BY <1>1, <2>1, NotifiedFacts DEF DataInv, OneNotificationEach
  <2> QED BY <2>2, <2>3, <2>4 DEF OneNotificationEach
<1> QED BY <1>2, <1>3, <1>4, <1>6, <1>7, <1>8 DEF DataInv

LEMMA DeleteData ==
  ASSUME TypeOK, DataInv, NEW p \in Posts, post[p] = "visible", CommitDelete(p)
  PROVE  /\ DataInv'
         /\ post' \in [Posts -> {"none", "visible", "deleted"}]
         /\ tweets' \in [Users -> Nat]
         /\ outbox' \in [{"tweet_created", "tweet_deleted"} -> [Posts -> Nat]]
<1> DEFINE w == Author[p]
<1>0. w \in Users OBVIOUS
<1>1. /\ post' = [post EXCEPT ![p] = "deleted"]
      /\ tweets' = [tweets EXCEPT ![w] = Decrease(@)]
      /\ outbox' = [outbox EXCEPT !["tweet_deleted"][p] = @ + 1]
      /\ UNCHANGED <<state, following, followers, follows, notes>>
  BY DEF CommitDelete
<1>2. /\ post' \in [Posts -> {"none", "visible", "deleted"}]
      /\ tweets' \in [Users -> Nat]
      /\ outbox' \in [{"tweet_created", "tweet_deleted"} -> [Posts -> Nat]]
  <2>1. post' \in [Posts -> {"none", "visible", "deleted"}] BY <1>1 DEF TypeOK
  <2>2. tweets' \in [Users -> Nat]
    <3>1. tweets \in [Users -> Nat] BY DEF TypeOK
    <3>2. tweets' = [tweets EXCEPT ![w] = Decrease(tweets[w])] BY <1>1
    <3> HIDE DEF w
    <3>3. Decrease(tweets[w]) \in Nat BY <1>0, <3>1 DEF Decrease
    <3> QED BY <1>0, <3>1, <3>2, <3>3
  <2>3. outbox["tweet_deleted"] \in [Posts -> Nat] BY DEF TypeOK
  <2>4. [outbox["tweet_deleted"] EXCEPT ![p] = @ + 1] \in [Posts -> Nat] BY <2>3
  <2>5. outbox' \in [{"tweet_created", "tweet_deleted"} -> [Posts -> Nat]]
    BY <1>1, <2>4 DEF TypeOK
  <2> QED BY <2>1, <2>2, <2>5
<1>3. post'[p] = "deleted" /\ \A q \in Posts \ {p} : post'[q] = post[q]
  BY <1>1 DEF TypeOK
<1>4. CountersExact'
  <2>1. ASSUME NEW u \in Users PROVE tweets'[u] = Cardinality(PostsOf(u)')
    <3>1. tweets[u] = Cardinality(PostsOf(u)) BY Counters DEF DataInv
    <3>2. CASE u = w
      <4>1. PostsOf(u)' = PostsOf(u) \ {p} /\ p \in PostsOf(u) BY <1>3, <3>2 DEF PostsOf
      <4>2. Cardinality(PostsOf(u)') = Decrease(Cardinality(PostsOf(u)))
        BY <4>1, Finite, OneLess
      <4> QED BY <1>1, <3>1, <3>2, <4>2 DEF TypeOK
    <3>3. CASE u # w
      <4>1. PostsOf(u)' = PostsOf(u) BY <1>3, <3>3 DEF PostsOf
      <4> QED BY <1>1, <3>1, <3>3, <4>1 DEF TypeOK
    <3> QED BY <3>2, <3>3
  <2>2. \A u \in Users : /\ following'[u] = Cardinality(FollowedBy(u)')
                         /\ followers'[u] = Cardinality(FollowersOf(u)')
    BY <1>1, Counters, SameCounts DEF DataInv
  <2> QED BY <2>1, <2>2, NextCounters
<1>5. OneEventPerChange'
  <2> SUFFICES ASSUME NEW q \in Posts
               PROVE  /\ outbox'["tweet_created"][q] = IF q \in TopLevel /\ post'[q] # "none" THEN 1 ELSE 0
                      /\ outbox'["tweet_deleted"][q] = IF post'[q] = "deleted" THEN 1 ELSE 0
    BY DEF OneEventPerChange
  <2>1. /\ outbox["tweet_created"][q] = IF q \in TopLevel /\ post[q] # "none" THEN 1 ELSE 0
        /\ outbox["tweet_deleted"][q] = IF post[q] = "deleted" THEN 1 ELSE 0
    BY DEF DataInv, OneEventPerChange
  <2>2. outbox'["tweet_created"][q] = outbox["tweet_created"][q] BY <1>1 DEF TypeOK
  <2>3. outbox'["tweet_deleted"][q] = IF q = p THEN outbox["tweet_deleted"][q] + 1
                                     ELSE outbox["tweet_deleted"][q]
    BY <1>1 DEF TypeOK
  <2> QED BY <2>1, <2>2, <2>3, <1>3
<1>6. OneNotificationEach' /\ \A n \in notes' : post'[n.post] # "none"
  BY <1>1, <1>3 DEF DataInv, OneNotificationEach, TypeOK
<1> QED BY <1>2, <1>4, <1>5, <1>6 DEF DataInv

LEMMA FollowData ==
  ASSUME TypeOK, DataInv, NEW u \in Users, NEW v \in Users,
         \/ <<u, v>> \notin follows /\ CommitFollow(u, v)
         \/ <<u, v>> \in follows /\ CommitUnfollow(u, v)
  PROVE  /\ DataInv'
         /\ follows' \subseteq Users \X Users
         /\ following' \in [Users -> Nat] /\ followers' \in [Users -> Nat]
<1>1. UNCHANGED <<post, tweets, notes, outbox>> BY DEF CommitFollow, CommitUnfollow
<1>2. /\ follows' \subseteq Users \X Users
      /\ following' \in [Users -> Nat] /\ followers' \in [Users -> Nat]
  <2>1. following \in [Users -> Nat] /\ followers \in [Users -> Nat] /\ follows \subseteq Users \X Users
    BY DEF TypeOK
  <2>2. Decrease(following[u]) \in Nat /\ Decrease(followers[v]) \in Nat BY <2>1 DEF Decrease
  <2>3. follows' \subseteq Users \X Users BY <2>1 DEF CommitFollow, CommitUnfollow
  <2>4. following' \in [Users -> Nat] BY <2>1, <2>2 DEF CommitFollow, CommitUnfollow
  <2>5. followers' \in [Users -> Nat] BY <2>1, <2>2 DEF CommitFollow, CommitUnfollow
  <2> QED BY <2>3, <2>4, <2>5
<1>3. ASSUME NEW x \in Users PROVE following'[x] = Cardinality(FollowedBy(x)')
  <2>1. following[x] = Cardinality(FollowedBy(x)) BY Counters DEF DataInv
  <2>2. CASE x # u
    <3>1. FollowedBy(x)' = FollowedBy(x) BY <2>2 DEF CommitFollow, CommitUnfollow, FollowedBy
    <3>2. following'[x] = following[x] BY <2>2 DEF CommitFollow, CommitUnfollow, TypeOK
    <3> QED BY <2>1, <3>1, <3>2
  <2>3. CASE x = u /\ <<u, v>> \notin follows /\ CommitFollow(u, v)
    <3>1. FollowedBy(x)' = FollowedBy(x) \cup {v} /\ v \notin FollowedBy(x)
      BY <2>3 DEF CommitFollow, FollowedBy
    <3>2. Cardinality(FollowedBy(x)') = Cardinality(FollowedBy(x)) + 1 BY <3>1, Finite, OneMore
    <3>3. following'[x] = following[x] + 1 BY <2>3 DEF CommitFollow, TypeOK
    <3> QED BY <2>1, <3>2, <3>3
  <2>4. CASE x = u /\ <<u, v>> \in follows /\ CommitUnfollow(u, v)
    <3>1. FollowedBy(x)' = FollowedBy(x) \ {v} /\ v \in FollowedBy(x)
      BY <2>4 DEF CommitUnfollow, FollowedBy
    <3>2. Cardinality(FollowedBy(x)') = Decrease(Cardinality(FollowedBy(x)))
      BY <3>1, Finite, OneLess
    <3>3. following'[x] = Decrease(following[x]) BY <2>4 DEF CommitUnfollow, TypeOK
    <3> QED BY <2>1, <3>2, <3>3
  <2> QED BY <2>2, <2>3, <2>4
<1>4. ASSUME NEW x \in Users PROVE followers'[x] = Cardinality(FollowersOf(x)')
  <2>1. followers[x] = Cardinality(FollowersOf(x)) BY Counters DEF DataInv
  <2>2. CASE x # v
    <3>1. FollowersOf(x)' = FollowersOf(x) BY <2>2 DEF CommitFollow, CommitUnfollow, FollowersOf
    <3>2. followers'[x] = followers[x] BY <2>2 DEF CommitFollow, CommitUnfollow, TypeOK
    <3> QED BY <2>1, <3>1, <3>2
  <2>3. CASE x = v /\ <<u, v>> \notin follows /\ CommitFollow(u, v)
    <3>1. FollowersOf(x)' = FollowersOf(x) \cup {u} /\ u \notin FollowersOf(x)
      BY <2>3 DEF CommitFollow, FollowersOf
    <3>2. Cardinality(FollowersOf(x)') = Cardinality(FollowersOf(x)) + 1 BY <3>1, Finite, OneMore
    <3>3. followers'[x] = followers[x] + 1 BY <2>3 DEF CommitFollow, TypeOK
    <3> QED BY <2>1, <3>2, <3>3
  <2>4. CASE x = v /\ <<u, v>> \in follows /\ CommitUnfollow(u, v)
    <3>1. FollowersOf(x)' = FollowersOf(x) \ {u} /\ u \in FollowersOf(x)
      BY <2>4 DEF CommitUnfollow, FollowersOf
    <3>2. Cardinality(FollowersOf(x)') = Decrease(Cardinality(FollowersOf(x)))
      BY <3>1, Finite, OneLess
    <3>3. followers'[x] = Decrease(followers[x]) BY <2>4 DEF CommitUnfollow, TypeOK
    <3> QED BY <2>1, <3>2, <3>3
  <2> QED BY <2>2, <2>3, <2>4
<1>5. CountersExact'
  <2>1. \A x \in Users : tweets'[x] = Cardinality(PostsOf(x)')
    BY <1>1, Counters, SameCounts DEF DataInv
  <2> QED BY <2>1, <1>3, <1>4, NextCounters
<1>6. OneEventPerChange' /\ OneNotificationEach' /\ \A n \in notes' : post'[n.post] # "none"
  BY <1>1 DEF DataInv, OneEventPerChange, OneNotificationEach
<1> QED BY <1>2, <1>5, <1>6 DEF DataInv

LEMMA CommitKeeps ==
  ASSUME TypeOK, ControlInv, DataInv, NEW r \in Requests, Commit(r)
  PROVE  TypeOK' /\ DataInv'
<1> DEFINE j == job[r]
<1>1. pc[r] = "commit" /\ Release(r) /\ Answer(r) BY DEF Commit
<1>2. CASE j.op = "create" /\ CommitCreate(j.on)
  <2>1. j.on \in Posts /\ post[j.on] = "none" BY <1>1, <1>2, AtCommit
  <2>2. UNCHANGED <<following, followers, follows>> BY <1>2 DEF CommitCreate
  <2> QED BY <1>1, <1>2, <2>1, <2>2, CreateData, Released DEF TypeOK
<1>3. CASE j.op = "delete" /\ CommitDelete(j.on)
  <2>1. j.on \in Posts /\ post[j.on] = "visible" BY <1>1, <1>3, AtCommit
  <2>2. UNCHANGED <<state, following, followers, follows, notes>> BY <1>3 DEF CommitDelete
  <2> QED BY <1>1, <1>3, <2>1, <2>2, DeleteData, Released DEF TypeOK
<1>4. CASE \/ j.op = "follow" /\ CommitFollow(j.user, j.on)
           \/ j.op = "unfollow" /\ CommitUnfollow(j.user, j.on)
  <2>1. j.user \in Users /\ j.on \in Users BY <1>1, <1>4, AtCommit DEF IsFollow
  <2>2. \/ <<j.user, j.on>> \notin follows /\ CommitFollow(j.user, j.on)
        \/ <<j.user, j.on>> \in follows /\ CommitUnfollow(j.user, j.on)
    BY <1>1, <1>4, AtCommit DEF IsFollow
  <2>3. UNCHANGED <<post, state, tweets, notes, outbox>>
    BY <1>4 DEF CommitFollow, CommitUnfollow
  <2> QED BY <1>1, <2>1, <2>2, <2>3, FollowData, Released DEF TypeOK
<1> QED BY <1>2, <1>3, <1>4 DEF Commit

-----------------------------------------------------------------------------
(* Every step *)

LEMMA StoreBegins == Init => IInv
<1> SUFFICES ASSUME Init PROVE IInv
  OBVIOUS
<1>1. TypeOK BY DEF Init, TypeOK, QuestionStates, Control
<1>2. \A r \in Requests : JobInv(r) /\ KeepInv(r)
  BY DEF Init, JobInv, KeepInv, NoJob, IsFollow
<1>3. HoldInv BY RowFacts DEF Init, HoldInv, Holder
<1>4. Exclusion BY DEF Init, Exclusion
<1>5. CountersExact
  <2>1. \A u : PostsOf(u) = {} /\ FollowedBy(u) = {} /\ FollowersOf(u) = {}
    BY DEF Init, PostsOf, FollowedBy, FollowersOf
  <2> QED BY <2>1, FS_EmptySet DEF Init, CountersExact, PostsOf, FollowedBy, FollowersOf
<1>6. OneEventPerChange /\ OneNotificationEach /\ \A n \in notes : post[n.post] # "none"
  BY DEF Init, OneEventPerChange, OneNotificationEach
<1> QED BY <1>1, <1>2, <1>3, <1>4, <1>5, <1>6 DEF IInv, ControlInv, DataInv

\* All but the commit and the state of a question leave the tables alone.
Unwritten == UNCHANGED <<post, tweets, following, followers, follows, notes, outbox>>

LEMMA StoreStep == IInv /\ [Next]_vars => IInv'
<1> SUFFICES ASSUME IInv, [Next]_vars PROVE IInv'
  OBVIOUS
<1>0. TypeOK /\ ControlInv /\ DataInv BY DEF IInv
<1>1. ASSUME TypeOK', ControlInv', Unwritten PROVE IInv'
  BY <1>0, <1>1, DataStays DEF IInv, Unwritten
<1>2. ASSUME NEW r \in Requests, Begin(r) PROVE IInv'
  BY <1>0, <1>1, <1>2, BeginKeeps DEF Begin, Unwritten, database
<1>3. ASSUME NEW r \in Requests, Release(r), Answer(r), UNCHANGED database PROVE IInv'
  BY <1>0, <1>1, <1>3, RollbackKeeps DEF Unwritten, database
<1>4. ASSUME NEW r \in Requests, Step(r) PROVE IInv'
  <2>1. CASE Check(r) BY <1>0, <1>1, <2>1, CheckKeeps DEF Check, Unwritten, database
  <2>2. CASE LockParent(r) \/ LockRoot(r)
    BY <1>0, <1>1, <2>2, ShareKeeps DEF LockParent, LockRoot, Unwritten, database
  <2>3. CASE LockPost(r) BY <1>0, <1>1, <2>3, LockPostKeeps DEF LockPost, Unwritten, database
  <2>4. CASE WriteEdge(r) \/ UpdateStats(r) \/ UpdateStats2(r)
    BY <1>0, <1>1, <2>4, LockRowKeeps DEF WriteEdge, UpdateStats, UpdateStats2, Unwritten, database
  <2>5. CASE PostUnavailable(r) \/ PostGone(r)
    BY <1>3, <2>5 DEF PostUnavailable, PostGone
  <2>6. CASE SetQuestionState(r)
    BY <1>0, <1>1, <2>6, SetStateKeeps DEF SetQuestionState, Unwritten
  <2>7. CASE EdgeUnchanged(r)
    BY <1>0, <1>1, <2>7, EdgeUnchangedKeeps DEF EdgeUnchanged, Unwritten, database
  <2>8. CASE Commit(r) BY <1>0, <2>8, CommitKeeps, CommitKeepsControl DEF IInv
  <2> QED BY <1>4, <2>1, <2>2, <2>3, <2>4, <2>5, <2>6, <2>7, <2>8 DEF Step
<1>5. ASSUME NEW r \in Requests, Rollback(r) \/ AbortDeadlocked(r) PROVE IInv'
  BY <1>3, <1>5 DEF Rollback, AbortDeadlocked
<1>6. CASE UNCHANGED vars
  <2>1. UNCHANGED <<post, state, tweets, following, followers, follows, notes, outbox,
                    owner, sharers, pc, job>>
    BY <1>6 DEF vars, database, locks
  <2>2. TypeOK' BY <1>0, <2>1 DEF TypeOK
  <2>3. ControlInv'
    BY <1>0, <2>1 DEF ControlInv, JobInv, KeepInv, HoldInv, Holder, Exclusion, Deletes, Replies,
       Updates, Edges
  <2> QED BY <1>1, <2>1, <2>2, <2>3 DEF Unwritten
<1> QED BY <1>2, <1>4, <1>5, <1>6 DEF Next

LEMMA AlwaysIInv == Spec => []IInv
<1> QED BY StoreBegins, StoreStep, PTL DEF Spec

\* Tables, locks and requests have their types.
THEOREM StoreTypeCorrect == Spec => []TypeOK
<1>1. IInv => TypeOK BY DEF IInv
<1> QED BY <1>1, AlwaysIInv, PTL

\* The counters of user_stats are exact, for any users, posts and requests,
\* whichever of them are repeated or fail half-way.
THEOREM CountersAreExact == Spec => []CountersExact
<1>1. IInv => CountersExact BY DEF IInv, DataInv
<1> QED BY <1>1, AlwaysIInv, PTL

\* A published top-level post has one creation event, a deleted post one
\* deletion event (CreatePostWithOutbox, DeletePost).
THEOREM EventsAreOnePerChange == Spec => []OneEventPerChange
<1>1. IInv => OneEventPerChange BY DEF IInv, DataInv
<1> QED BY <1>1, AlwaysIInv, PTL

\* A recipient is notified once of a post, an author never of his own.
THEOREM NotifiedOnce == Spec => []OneNotificationEach
<1>1. IInv => OneNotificationEach BY DEF IInv, DataInv
<1> QED BY <1>1, AlwaysIInv, PTL

\* A reply appears only while its parent and its thread are visible: their
\* rows are shared until the commit (SELECT ... FOR SHARE).
THEOREM RepliesJoinLive == Spec => RepliesJoinLiveThreads
<1>1. IInv /\ [Next]_vars =>
        [\A p \in Posts \ TopLevel :
           post[p] = "none" /\ post'[p] = "visible" =>
             post[Parent[p]] = "visible" /\ post[Thread[p]] = "visible"]_vars
  <2> SUFFICES ASSUME IInv, Next, NEW p \in Posts \ TopLevel,
                      post[p] = "none", post'[p] = "visible"
               PROVE  post[Parent[p]] = "visible" /\ post[Thread[p]] = "visible"
    OBVIOUS
  <2>1. PICK r \in Requests : Commit(r)
    BY DEF Next, Begin, Step, Check, LockParent, LockRoot, PostUnavailable, LockPost,
       SetQuestionState, PostGone, WriteEdge, EdgeUnchanged, UpdateStats, UpdateStats2,
       Rollback, AbortDeadlocked, database
  <2>2. job[r].op = "create" /\ job[r].on = p
    BY <2>1 DEF Commit, CommitCreate, CommitDelete, CommitFollow, CommitUnfollow, IInv, TypeOK
  <2> QED BY <2>1, <2>2, AtCommit DEF IInv, Commit
<1> QED BY <1>1, AlwaysIInv, PTL DEF Spec, RepliesJoinLiveThreads

\* Nothing changes the state of a question that is deleted (the WHERE of
\* SetQuestionState, and that no post is created twice).
THEOREM DeletedStayFrozen == Spec => DeletedQuestionsFrozen
<1>1. IInv /\ [Next]_vars =>
        [\A p \in Posts : post[p] = "deleted" => state'[p] = state[p]]_vars
  <2> SUFFICES ASSUME IInv, Next, NEW p \in Posts, post[p] = "deleted"
               PROVE  state'[p] = state[p]
    OBVIOUS
  <2>1. CASE state' = state BY <2>1
  <2>2. ASSUME NEW r \in Requests, Commit(r) PROVE state'[p] = state[p]
    <3>1. CASE job[r].op = "create" /\ CommitCreate(job[r].on)
      <4>1. job[r].on # p BY <2>2, <3>1, AtCommit DEF IInv, Commit
      <4> QED BY <3>1, <4>1 DEF CommitCreate, IInv, TypeOK
    <3>2. CASE job[r].op # "create"
      BY <2>2, <3>2 DEF Commit, CommitDelete, CommitFollow, CommitUnfollow
    <3> QED BY <2>2, <3>1, <3>2 DEF Commit
  <2>3. ASSUME NEW r \in Requests, SetQuestionState(r) PROVE state'[p] = state[p]
    BY <2>3 DEF SetQuestionState, IInv, TypeOK
  <2> QED BY <2>1, <2>2, <2>3 DEF Next, Begin, Step, Check, LockParent, LockRoot,
        PostUnavailable, LockPost, PostGone, WriteEdge, EdgeUnchanged, UpdateStats,
        UpdateStats2, Rollback, AbortDeadlocked, database
<1> QED BY <1>1, AlwaysIInv, PTL DEF Spec, DeletedQuestionsFrozen

-----------------------------------------------------------------------------
(* Deadlocks *)

LEMMA WhoBlocks ==
  ASSUME TypeOK, NEW r \in Requests, NEW x \in Rows, NEW q \in Requests, q \in Blockers(r, x)
  PROVE  owner[x] = q \/ \E p \in Posts : x = Tweet(p) /\ q \in sharers[p]
BY DEF Blockers

\* What the others are at that a request waits for.
LEMMA WhoIsWaitedFor ==
  ASSUME TypeOK, ControlInv, NEW r \in Requests, NEW q \in Requests, q \in WaitsFor(r)
  PROVE  /\ pc[r] \in {"parent", "root", "row", "edge", "stats", "stats2"}
         /\ pc[r] \in {"parent", "root"} => job[q].op = "delete" /\ pc[q] \in {"stats", "commit"}
         /\ pc[r] = "row" => \/ job[q].op = "delete" /\ pc[q] \in {"stats", "commit"}
                             \/ job[q].op = "create" /\ pc[q] \in {"root", "stats", "commit"}
         /\ pc[r] = "edge" => IsFollow(job[q])
         /\ pc[r] \in {"stats", "stats2"} => pc[q] = "commit" \/ IsFollow(job[q])
<1> DEFINE j == job[r]
<1>0. Holder(q) BY DEF ControlInv, HoldInv
<1>1. pc[r] \in {"parent", "root", "row", "edge", "stats", "stats2"} BY DEF WaitsFor
<1>2. j \in Jobs /\ pc[r] \in Stages(j) BY <1>1 DEF ControlInv, JobInv
<1>3. /\ pc[r] \in {"parent", "root"} => j.op = "create" /\ j.on \in Posts \ TopLevel
      /\ pc[r] = "row" => j.on \in Posts
      /\ pc[r] \in {"edge", "stats2"} => IsFollow(j) /\ j.on \in Users /\ j.user \in Users
      /\ pc[r] = "stats" => \E u \in Users : FirstStats(j) = Stats(u)
  <2>1. pc[r] \in {"edge", "stats2"} => IsFollow(j)
    BY <1>2, JobFacts DEF Stages, QuestionStates, IsFollow
  <2>2. pc[r] \in {"parent", "root"} => j.op = "create" /\ j.on \notin TopLevel
    BY <1>2, JobFacts DEF Stages
  <2>3. pc[r] \in {"parent", "root", "row"} => ~ IsFollow(j)
    BY <1>2 DEF Stages, IsFollow, QuestionStates
  <2>4. pc[r] = "stats" => \E u \in Users : FirstStats(j) = Stats(u)
    <3>1. CASE IsFollow(j) BY <3>1, <1>2, JobFacts DEF FirstStats
    <3>2. CASE ~ IsFollow(j) BY <3>2, <1>2, JobFacts DEF FirstStats
    <3> QED BY <3>1, <3>2
  <2> QED BY <2>1, <2>2, <2>3, <2>4, <1>2, JobFacts
<1>4. CASE pc[r] \in {"parent", "root"}
  <2>1. PICK p \in Posts : owner[Tweet(p)] = q
    BY <1>3, <1>4, ThreadFacts DEF WaitsFor
  <2> QED BY <1>0, <1>4, <2>1 DEF Holder, Deletes
<1>5. CASE pc[r] = "row"
  <2>1. q \in Blockers(r, Tweet(j.on)) BY <1>5 DEF WaitsFor
  <2>2. owner[Tweet(j.on)] = q \/ \E p \in Posts : q \in sharers[p]
    BY <1>3, <1>5, <2>1, WhoBlocks, RowFacts
  <2> QED BY <1>0, <1>3, <1>5, <2>2 DEF Holder, Deletes, Replies
<1>6. CASE pc[r] = "edge"
  <2>1. q \in Blockers(r, Edge(j.user, j.on)) BY <1>6 DEF WaitsFor
  <2>2. owner[Edge(j.user, j.on)] = q BY <1>3, <1>6, <2>1, WhoBlocks, RowFacts
  <2> QED BY <1>0, <1>3, <1>6, <2>2 DEF Holder, Edges
<1>7. CASE pc[r] \in {"stats", "stats2"}
  <2>1. PICK u \in Users : q \in Blockers(r, Stats(u)) BY <1>3, <1>7 DEF WaitsFor
  <2>2. owner[Stats(u)] = q BY <2>1, WhoBlocks, RowFacts
  <2> QED BY <1>0, <1>7, <2>2 DEF Holder, Updates
<1> QED BY <1>1, <1>4, <1>5, <1>6, <1>7

\* The requests of a deadlock are all follows and unfollows.  Who commits
\* waits for nobody, so a follow in a circle waits for a follow, and these
\* alone would be a knot; and among the others, those who wait for a counter
\* wait for a commit, and those who wait for a post for one of them or for a
\* reply which waits for one of them.
THEOREM DeadlocksAreFollows == Spec => []OnlyFollowsDeadlock
<1>1. IInv => OnlyFollowsDeadlock
  <2> SUFFICES ASSUME IInv, NEW S \in SUBSET Requests, Circle(S)
               PROVE  \A r \in S : IsFollow(job[r])
    BY DEF OnlyFollowsDeadlock
  <2> DEFINE F == {r \in S : IsFollow(job[r])}
  <2>0. /\ S # {} /\ \A T \in SUBSET S : Knot(T) => T = S
        /\ \A r \in S : \E q \in S : q \in WaitsFor(r)
    BY DEF Circle, Knot
  <2>1. \A r \in S : pc[r] # "commit" BY <2>0, WhoIsWaitedFor DEF IInv
  <2>2. \A r \in F : WaitsFor(r) \cap F # {}
    <3> SUFFICES ASSUME NEW r \in F PROVE WaitsFor(r) \cap F # {}
      OBVIOUS
    <3>1. PICK q \in S : q \in WaitsFor(r) BY <2>0
    <3>2. JobInv(r) BY DEF IInv, ControlInv
    <3>3. pc[r] \in {"edge", "stats", "stats2", "commit", "idle"}
      BY <3>2 DEF JobInv, Stages, IsFollow, QuestionStates
    <3>4. IsFollow(job[q]) BY <2>1, <3>1, <3>3, WhoIsWaitedFor DEF IInv
    <3> QED BY <3>1, <3>4
  <2>3. CASE F # {}
    <3>1. Knot(F) BY <2>2, <2>3 DEF Knot
    <3> QED BY <2>0, <3>1
  <2>4. CASE F = {}
    <3>1. \A r \in S : pc[r] \notin {"stats", "stats2", "edge"}
      BY <2>0, <2>1, <2>4, WhoIsWaitedFor DEF IInv
    <3>2. \A r \in S : pc[r] \notin {"parent", "root"}
      BY <2>0, <2>1, <3>1, WhoIsWaitedFor DEF IInv
    <3>3. \A r \in S : pc[r] # "row"
      BY <2>0, <2>1, <3>1, <3>2, WhoIsWaitedFor DEF IInv
    <3> QED BY <2>0, <3>1, <3>2, <3>3, WhoIsWaitedFor DEF IInv
  <2> QED BY <2>3, <2>4
<1> QED BY <1>1, AlwaysIInv, PTL
-----------------------------------------------------------------------------
(* Progress *)

Busy == {r \in Requests : pc[r] # "idle"}

\* The requests of S wait for requests of S only.
Closed(S) == \A r \in S : WaitsFor(r) \subseteq S

\* One of S can go on, or the deadlock detector finds a victim in S, which
\* follows or unfollows.
SomeoneGoesOn(S) == \/ \E r \in S : WaitsFor(r) = {}
                    \/ \E T \in SUBSET S : Circle(T) /\ \A r \in T : IsFollow(job[r])

\* Not all wait: neither all requests in progress, nor a request with all
\* those it waits for and those these wait for, and so on.
NeverStuck == Closed(Busy) /\ \A S \in SUBSET Busy : S # {} /\ Closed(S) => SomeoneGoesOn(S)

LEMMA LeastNat == ASSUME NEW S \in SUBSET Nat, S # {} PROVE \E m \in S : \A n \in S : m <= n
<1>1. IsWellFoundedOn(OpToRel(<, Nat), Nat) BY NatLessThanWellFounded
<1>2. PICK m \in S : \A n \in S : <<n, m>> \notin OpToRel(<, Nat) BY <1>1, WFMin, Zenon
<1>3. \A n \in S : ~ (n < m) BY <1>2 DEF OpToRel
<1> QED BY <1>3

\* Among subsets of a finite set there is one that contains no other.
LEMMA SmallestSubset ==
  ASSUME NEW S, IsFiniteSet(S), NEW C \in SUBSET SUBSET S, C # {}
  PROVE  \E T \in C : \A U \in C : U \subseteq T => U = T
<1> DEFINE sizes == {Cardinality(T) : T \in C}
<1>1. \A T \in C : IsFiniteSet(T) /\ Cardinality(T) \in Nat BY FS_Subset, FS_CardinalityType
<1>2. sizes \in SUBSET Nat /\ sizes # {} BY <1>1
<1>3. PICK m \in sizes : \A n \in sizes : m <= n
  <2> HIDE DEF sizes
  <2> QED BY <1>2, LeastNat
<1>4. PICK T \in C : Cardinality(T) = m BY <1>3
<1>5. ASSUME NEW U \in C, U \subseteq T PROVE U = T
  <2>1. Cardinality(U) <= Cardinality(T) /\ (Cardinality(T) = Cardinality(U) => T = U)
    BY <1>1, <1>5, FS_Subset
  <2>2. Cardinality(T) <= Cardinality(U) BY <1>3, <1>4
  <2> QED BY <1>1, <2>1, <2>2
<1> QED BY <1>5

\* A request waits for requests in progress.
LEMMA WaitsForBusy == ASSUME TypeOK, ControlInv PROVE Closed(Busy)
<1> SUFFICES ASSUME NEW r \in Busy, NEW q \in WaitsFor(r) PROVE q \in Busy
  BY DEF Closed
<1> DEFINE j == job[r]
<1>1. j \in Jobs /\ pc[r] \in Stages(j) BY DEF ControlInv, JobInv, Busy
<1>2. /\ pc[r] \in {"parent", "root"} => Parent[j.on] \in Posts /\ Thread[j.on] \in Posts
      /\ pc[r] = "row" => Tweet(j.on) \in Rows
      /\ pc[r] = "edge" => Edge(j.user, j.on) \in Rows
      /\ pc[r] = "stats" => FirstStats(j) \in Rows
      /\ pc[r] = "stats2" => Stats(j.on) \in Rows
  <2>1. CASE IsFollow(j)
    BY <1>1, <2>1, JobFacts, RowFacts DEF Stages, FirstStats, IsFollow, QuestionStates
  <2>2. CASE ~ IsFollow(j)
    <3>1. j.on \in Posts /\ Author[j.on] \in Users BY <1>1, <2>2, JobFacts
    <3>2. pc[r] \notin {"edge", "stats2"} BY <1>1, <2>2, JobFacts DEF Stages, IsFollow
    <3>3. pc[r] \in {"parent", "root"} => j.on \notin TopLevel
      BY <1>1, <2>2, JobFacts DEF Stages, IsFollow, QuestionStates
    <3> QED BY <2>2, <3>1, <3>2, <3>3, ThreadFacts, RowFacts DEF FirstStats
  <2> QED BY <2>1, <2>2
<1>0. /\ \A x \in Rows : owner[x] \in Requests \cup {Nobody}
      /\ \A p \in Posts : sharers[p] \subseteq Requests
  BY DEF TypeOK
<1>3. ASSUME NEW x \in Rows PROVE Blockers(r, x) \subseteq Requests
  BY <1>0 DEF Blockers
<1>4. ASSUME NEW p \in Posts PROVE owner[Tweet(p)] \in Requests \cup {Nobody}
  BY <1>0, RowFacts
<1>5. q \in Requests BY <1>2, <1>3, <1>4 DEF WaitsFor
<1>6. JobInv(q) BY <1>5 DEF ControlInv
<1>7. pc[q] = "idle" => job[q].op = "none" BY <1>6 DEF JobInv, NoJob
<1>8. r \in Requests BY DEF Busy
<1> QED BY <1>5, <1>7, <1>8, WhoIsWaitedFor DEF Busy, IsFollow

LEMMA FiniteBusyStep == IsFiniteSet(Busy) /\ [Next]_vars => IsFiniteSet(Busy)'
<1> SUFFICES ASSUME IsFiniteSet(Busy), [Next]_vars PROVE IsFiniteSet(Busy')
  OBVIOUS
<1>1. ASSUME NEW r \in Requests, \A q \in Requests \ {r} : pc'[q] = pc[q]
      PROVE  IsFiniteSet(Busy')
  <2>1. Busy' \subseteq Busy \cup {r} BY <1>1 DEF Busy
  <2>2. IsFiniteSet(Busy \cup {r}) BY FS_AddElement
  <2> QED BY <2>1, <2>2, FS_Subset
<1>2. CASE UNCHANGED vars
  <2>1. pc' = pc BY <1>2 DEF vars
  <2> QED BY <2>1 DEF Busy
<1>3. ASSUME NEW r \in Requests, Begin(r) \/ Step(r) \/ Rollback(r) \/ AbortDeadlocked(r)
      PROVE  \E x : pc' = [pc EXCEPT ![r] = x]
  BY <1>3
     DEF Begin, Step, Check, LockParent, LockRoot, PostUnavailable, LockPost, SetQuestionState,
         PostGone, WriteEdge, EdgeUnchanged, UpdateStats, UpdateStats2, Commit, Rollback,
         AbortDeadlocked, Proceed, Answer
<1>4. ASSUME NEW r \in Requests, NEW x, pc' = [pc EXCEPT ![r] = x],
             NEW q \in Requests \ {r}
      PROVE  pc'[q] = pc[q]
  BY <1>4
<1> QED BY <1>1, <1>2, <1>3, <1>4 DEF Next

\* Requests never come to a standstill: of the requests in progress, and of
\* any of them with all those they wait for, one can go on or there is a circle
\* of follows, of which the deadlock detector aborts one.  For any number of
\* requests (CreatePostWithOutbox, DeletePost, Follow, Unfollow).
THEOREM SomeoneAlwaysGoesOn == Spec => []NeverStuck
<1>1. Init => IsFiniteSet(Busy)
  <2> SUFFICES ASSUME Init PROVE IsFiniteSet(Busy)
    OBVIOUS
  <2>1. Busy = {} BY DEF Init, Busy
  <2> QED BY <2>1, FS_EmptySet
<1>2. IInv /\ OnlyFollowsDeadlock /\ IsFiniteSet(Busy) => NeverStuck
  <2> SUFFICES ASSUME IInv, OnlyFollowsDeadlock, IsFiniteSet(Busy) PROVE NeverStuck
    OBVIOUS
  <2>0. Closed(Busy) BY WaitsForBusy DEF IInv
  <2> SUFFICES ASSUME NEW S \in SUBSET Busy, S # {}, Closed(S), \A r \in S : WaitsFor(r) # {}
               PROVE  \E T \in SUBSET S : Circle(T) /\ \A r \in T : IsFollow(job[r])
    BY <2>0 DEF NeverStuck, SomeoneGoesOn
  <2> DEFINE knots == {T \in SUBSET S : Knot(T)}
  <2>1. IsFiniteSet(S) BY FS_Subset
  <2>2. Knot(S) BY DEF Knot, Closed
  <2>3. knots \in SUBSET SUBSET S /\ knots # {} BY <2>2
  <2>4. PICK T \in knots : \A U \in knots : U \subseteq T => U = T
    <3> HIDE DEF knots
    <3> QED BY <2>1, <2>3, SmallestSubset
  <2>5. T \in SUBSET S /\ Circle(T) BY <2>4 DEF Circle
  <2>6. T \in SUBSET Requests BY <2>5 DEF Busy
  <2> QED BY <2>5, <2>6 DEF OnlyFollowsDeadlock
<1> QED BY <1>1, <1>2, FiniteBusyStep, AlwaysIInv, DeadlocksAreFollows, PTL DEF Spec

\* While nobody follows or unfollows, there is always a request that can go
\* on: writing and deleting posts, replies and outcomes never deadlock, although
\* a reply locks two posts and a counter and a deletion a post and a counter.
THEOREM WritesGoOn ==
  Spec => [](Busy # {} /\ (\A r \in Busy : ~ IsFollow(job[r])) => \E r \in Busy : WaitsFor(r) = {})
<1>1. NeverStuck => (Busy # {} /\ (\A r \in Busy : ~ IsFollow(job[r])) =>
                       \E r \in Busy : WaitsFor(r) = {})
  <2> SUFFICES ASSUME NeverStuck, Busy # {}, \A r \in Busy : ~ IsFollow(job[r])
               PROVE  \E r \in Busy : WaitsFor(r) = {}
    OBVIOUS
  <2>1. SomeoneGoesOn(Busy) BY DEF NeverStuck
  <2>2. ASSUME NEW T \in SUBSET Busy, Circle(T) PROVE \E r \in T : ~ IsFollow(job[r])
    BY <2>2 DEF Circle, Knot
  <2> QED BY <2>1, <2>2 DEF SomeoneGoesOn
<1> QED BY <1>1, SomeoneAlwaysGoesOn, PTL

\* What replies may keep from a post for as long as they come, a deletion or an
\* outcome, keeps nobody else waiting: it has locked nothing yet (the update of
\* the post is the first statement of DeletePost, and all of SetQuestionState).
THEOREM OvertakenBlockNobody ==
  Spec => [](\A r, q \in Requests : Overtaken(r) => r \notin WaitsFor(q))
<1>1. ASSUME IInv, NEW r \in Requests, NEW q \in Requests, Overtaken(r), r \in WaitsFor(q)
      PROVE  FALSE
  <2>1. pc[r] = "row" BY <1>1 DEF Overtaken
  <2>2. JobInv(r) BY <1>1 DEF IInv, ControlInv
  <2>3. ~ IsFollow(job[r]) BY <2>1, <2>2 DEF JobInv, Stages, IsFollow, QuestionStates
  <2> QED BY <1>1, <2>1, <2>3, WhoIsWaitedFor DEF IInv
<1>2. IInv => \A r, q \in Requests : Overtaken(r) => r \notin WaitsFor(q)
  BY <1>1
<1> QED BY <1>2, AlwaysIInv, PTL
=============================================================================
