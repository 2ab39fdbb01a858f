--------------------------- MODULE AccountsProofs ---------------------------
(***************************************************************************)
(* What Accounts guarantees for any people, requests and bounds.           *)
(*                                                                         *)
(* Accounts are unique because what a registration has in the unique       *)
(* indexes is held by no other one and by no row.  A refresh token is      *)
(* exchanged a bounded number of times because, as long as its row is      *)
(* there, each exchange has cost a failed delete, and once the row is gone *)
(* only the requests that have read it before can go on.                   *)
(***************************************************************************)
EXTENDS Accounts, FiniteSetTheorems, SequenceTheorems, TLAPS

USE AccountsAssumption

\* What a request knows at each of its steps.
JobInv(r) ==
  /\ pc[r] \in {"name", "email", "insert name", "insert email", "commit", "find"}
       => job[r].person \in Persons
  /\ pc[r] \in {"read", "drop", "user", "purge", "rotate"} => job[r].token \in Token
  /\ pc[r] \in {"purge", "rotate", "grant"} => job[r].user \in Account
  /\ pc[r] \in {"purge", "rotate"} => job[r].user = issued[job[r].token].user
  /\ pc[r] = "purge" => job[r].user \in banned
  /\ job[r].token \in Token \cup {0}

\* What is held in the unique indexes is not committed, and held once.
IndexInv == /\ \A r \in Requests : Holds(r) \cap Taken = {}
            /\ \A r \in Requests, q \in Requests : r # q => Holds(r) \cap Holds(q) = {}
            /\ UniqueAccounts

\* The tokens t has been exchanged for, the requests that have found its row
\* and can still exchange it, and those of them past the delete.
Exchanged(t) == {k \in Token : issued[k].from = t}
Past(t) == {r \in Requests : pc[r] \in {"user", "rotate", "grant"} /\ job[r].token = t}
Granting(t) == {r \in Requests : pc[r] = "grant" /\ job[r].token = t}

RotationInv(t) ==
  /\ t \in live => Cardinality(Exchanged(t)) + Cardinality(Granting(t)) <= faults
  /\ t \notin live =>
       Cardinality(Exchanged(t)) + Cardinality(Past(t)) <= Cardinality(Requests) + faults

Ancestry == \A k \in Token : issued[k].from \in Token \cup {0}

IInv == /\ TypeOK
        /\ Ancestry
        /\ \A r \in Requests : JobInv(r)
        /\ IndexInv
        /\ \A t \in Token : RotationInv(t)

-----------------------------------------------------------------------------
(* The pieces *)

LEMMA SeqGrows == ASSUME NEW S, NEW T, S \subseteq T, NEW s \in Seq(S) PROVE s \in Seq(T)
<1>1. Len(s) \in Nat /\ s \in [1 .. Len(s) -> S] BY LenProperties
<1>2. s \in [1 .. Len(s) -> T] BY <1>1
<1> QED BY <1>1, <1>2

LEMMA Domains == TypeOK => /\ Account = 1 .. Len(users) /\ Len(users) \in Nat
                           /\ Token = 1 .. Len(issued) /\ Len(issued) \in Nat
                           /\ \A t \in Token : issued[t] \in [user : Account, from : Nat]
                           /\ \A u \in Account : users[u] \in Persons
<1> SUFFICES ASSUME TypeOK
             PROVE  /\ Account = 1 .. Len(users) /\ Len(users) \in Nat
                    /\ Token = 1 .. Len(issued) /\ Len(issued) \in Nat
                    /\ \A t \in Token : issued[t] \in [user : Account, from : Nat]
                    /\ \A u \in Account : users[u] \in Persons
  OBVIOUS
<1>1. users \in Seq(Persons) /\ issued \in Seq([user : Account, from : Nat]) BY DEF TypeOK
<1>2. /\ Len(users) \in Nat /\ DOMAIN users = 1 .. Len(users)
      /\ users \in [1 .. Len(users) -> Persons]
  BY <1>1, LenProperties
<1>3. /\ Len(issued) \in Nat /\ DOMAIN issued = 1 .. Len(issued)
      /\ issued \in [1 .. Len(issued) -> [user : Account, from : Nat]]
  BY <1>1, LenProperties
<1> QED BY <1>2, <1>3 DEF Account, Token

\* The sets of requests and of tokens that RotationInv counts.
LEMMA Counted ==
  ASSUME TypeOK, NEW t
  PROVE  /\ IsFiniteSet(Exchanged(t)) /\ Cardinality(Exchanged(t)) \in Nat
         /\ IsFiniteSet(Past(t)) /\ Cardinality(Past(t)) \in Nat
         /\ IsFiniteSet(Granting(t)) /\ Cardinality(Granting(t)) \in Nat
         /\ Cardinality(Past(t)) <= Cardinality(Requests)
         /\ Cardinality(Requests) \in Nat
         /\ faults \in Nat
<1>1. IsFiniteSet(Token) BY Domains, FS_Interval
<1>2. Exchanged(t) \subseteq Token /\ Past(t) \subseteq Requests /\ Granting(t) \subseteq Requests
  BY DEF Exchanged, Past, Granting
<1>3. IsFiniteSet(Exchanged(t)) BY <1>1, <1>2, FS_Subset
<1>4. IsFiniteSet(Past(t)) /\ Cardinality(Past(t)) <= Cardinality(Requests)
  BY <1>2, FS_Subset
<1>5. IsFiniteSet(Granting(t)) BY <1>2, FS_Subset
<1>6. faults \in Nat BY DEF TypeOK
<1> QED BY <1>3, <1>4, <1>5, <1>6, FS_CardinalityType

LEMMA NextCounted ==
  ASSUME NEW t
  PROVE  /\ Cardinality(Granting(t)') \in Nat /\ Cardinality(Past(t)') \in Nat
         /\ Cardinality(Past(t)') <= Cardinality(Requests)
<1>1. Granting(t)' \subseteq Requests /\ Past(t)' \subseteq Requests BY DEF Granting, Past
<1>2. IsFiniteSet(Granting(t)') /\ IsFiniteSet(Past(t)') BY <1>1, FS_Subset
<1> QED BY <1>1, <1>2, FS_Subset, FS_CardinalityType

LEMMA AddOne ==
  ASSUME NEW S, NEW x, IsFiniteSet(S)
  PROVE  Cardinality(S \cup {x}) <= Cardinality(S) + 1
<1>1. Cardinality(S) \in Nat BY FS_CardinalityType
<1>2. Cardinality(S \cup {x}) = IF x \in S THEN Cardinality(S) ELSE Cardinality(S) + 1
  BY FS_AddElement
<1> QED BY <1>1, <1>2

\* A step at which one request moves and the others stay where they are.
LEMMA OneMoves ==
  ASSUME TypeOK, NEW r \in Requests, NEW s \in Steps, NEW j \in Jobs,
         pc' = [pc EXCEPT ![r] = s], job' = [job EXCEPT ![r] = j]
  PROVE  /\ pc' \in [Requests -> Steps] /\ job' \in [Requests -> Jobs]
         /\ pc'[r] = s /\ job'[r] = j
         /\ \A q \in Requests \ {r} : pc'[q] = pc[q] /\ job'[q] = job[q]
BY DEF TypeOK

LEMMA OthersStay ==
  ASSUME NEW q, JobInv(q), pc'[q] = pc[q], job'[q] = job[q],
         Token \subseteq Token', Account \subseteq Account', banned \subseteq banned',
         \A t \in Token : issued'[t] = issued[t]
  PROVE  JobInv(q)'
BY DEF JobInv

\* What neither exchanges t nor lets a request past its row keeps the bound.
LEMMA RotationStays ==
  ASSUME TypeOK, TypeOK', NEW t, RotationInv(t),
         Exchanged(t)' = Exchanged(t), faults' = faults,
         Granting(t)' \subseteq Granting(t),
         t \in live <=> t \in live',
         t \in live \/ Past(t)' \subseteq Past(t)
  PROVE  RotationInv(t)'
<1>1. Cardinality(Granting(t)') <= Cardinality(Granting(t)) BY Counted, FS_Subset
<1>2. Cardinality(Granting(t)') \in Nat /\ Cardinality(Past(t)') \in Nat
  BY NextCounted
<1>3. CASE t \in live BY <1>1, <1>2, <1>3, Counted DEF RotationInv
<1>4. CASE t \notin live
  <2>1. Cardinality(Past(t)') <= Cardinality(Past(t)) BY <1>4, Counted, FS_Subset
  <2> QED BY <2>1, <1>2, <1>4, Counted DEF RotationInv
<1> QED BY <1>3, <1>4

\* A row that leaves the table leaves its token to those who have read it.
LEMMA RotationDrops ==
  ASSUME TypeOK, NEW t, RotationInv(t), t \in live, t \notin live',
         Exchanged(t)' = Exchanged(t), faults' = faults
  PROVE  RotationInv(t)'
BY Counted, NextCounted DEF RotationInv

-----------------------------------------------------------------------------
(* Steps of a request that write nothing *)

\* r goes on with what it has, or ends.
LEMMA MoveKeeps ==
  ASSUME IInv, NEW r \in Requests, NEW s \in Steps, NEW j \in Jobs,
         UNCHANGED <<accounts, tokens, faults>>,
         pc' = [pc EXCEPT ![r] = s], job' = [job EXCEPT ![r] = j],
         JobInv(r)',
         Holds(r)' \cap Taken = {},
         \A q \in Requests \ {r} : Holds(r)' \cap Holds(q) = {},
         s = "grant" => j.token = 0,
         s \in {"user", "rotate"} => j.token \in live \/ r \in Past(j.token)
  PROVE  IInv'
<1>0. users' = users /\ banned' = banned /\ issued' = issued /\ live' = live /\ faults' = faults
  BY DEF accounts, tokens
<1>1. /\ pc' \in [Requests -> Steps] /\ job' \in [Requests -> Jobs]
      /\ pc'[r] = s /\ job'[r] = j
      /\ \A q \in Requests \ {r} : pc'[q] = pc[q] /\ job'[q] = job[q]
  BY OneMoves DEF IInv
<1>2. TypeOK' BY <1>0, <1>1 DEF IInv, TypeOK, Account, Token
<1>3. Account' = Account /\ Token' = Token /\ Taken' = Taken
  BY <1>0 DEF Account, Token, Taken
<1>4. Ancestry' BY <1>0, <1>3 DEF IInv, Ancestry
<1>5. \A q \in Requests : JobInv(q)'
  <2> SUFFICES ASSUME NEW q \in Requests \ {r} PROVE JobInv(q)'
    OBVIOUS
  <2> QED BY <1>0, <1>1, <1>3, OthersStay DEF IInv
<1>6. IndexInv'
  <2>1. \A q \in Requests \ {r} : Holds(q)' = Holds(q) BY <1>1 DEF Holds
  <2>2. UniqueAccounts' BY <1>0, <1>3 DEF IInv, IndexInv, UniqueAccounts
  <2>3. \A q \in Requests : Holds(q)' \cap Taken' = {} BY <1>3, <2>1 DEF IInv, IndexInv
  <2>4. ASSUME NEW p \in Requests, NEW q \in Requests, p # q
        PROVE  Holds(p)' \cap Holds(q)' = {}
    <3>1. CASE p = r BY <3>1, <2>1, <2>4
    <3>2. CASE q = r BY <3>2, <2>1, <2>4
    <3>3. CASE p # r /\ q # r BY <3>3, <2>1, <2>4 DEF IInv, IndexInv
    <3> QED BY <3>1, <3>2, <3>3
  <2> QED BY <2>2, <2>3, <2>4 DEF IndexInv
<1>7. ASSUME NEW t \in Token PROVE RotationInv(t)'
  <2>1. Exchanged(t)' = Exchanged(t) BY <1>0, <1>3 DEF Exchanged
  <2>2. t # 0 BY Domains DEF IInv
  <2>3. Granting(t)' \subseteq Granting(t) BY <1>1, <2>2 DEF Granting
  <2>4. t \in live \/ Past(t)' \subseteq Past(t) BY <1>1, <2>2 DEF Past
  <2> QED BY <1>0, <1>2, <2>1, <2>3, <2>4, RotationStays DEF IInv
<1> QED BY <1>2, <1>3, <1>4, <1>5, <1>6, <1>7 DEF IInv

LEMMA EndKeeps ==
  ASSUME IInv, NEW r \in Requests, Ends(r), UNCHANGED <<accounts, tokens, faults>>
  PROVE  IInv'
<1>1. Idle \in Jobs BY DEF Idle, Jobs
<1>2. "idle" \in Steps BY DEF Steps
<1>3. pc' = [pc EXCEPT ![r] = "idle"] /\ job' = [job EXCEPT ![r] = Idle] BY DEF Ends, Becomes
<1>4. pc'[r] = "idle" /\ job'[r] = Idle BY <1>3 DEF IInv, TypeOK
<1>5. JobInv(r)' BY <1>4 DEF JobInv, Idle
<1>6. Holds(r)' = {} BY <1>4 DEF Holds
<1> QED BY <1>1, <1>2, <1>3, <1>5, <1>6, MoveKeeps

\* The next step of a request, about the same thing.
LEMMA NextKeeps ==
  ASSUME IInv, NEW r \in Requests, NEW s \in Steps, Becomes(r, s), UNCHANGED job,
         UNCHANGED <<accounts, tokens, faults>>,
         JobInv(r)',
         Holds(r)' \cap Taken = {},
         \A q \in Requests \ {r} : Holds(r)' \cap Holds(q) = {},
         s # "grant",
         s \in {"user", "rotate"} => job[r].token \in live \/ r \in Past(job[r].token)
  PROVE  IInv'
<1>1. job[r] \in Jobs /\ job' = [job EXCEPT ![r] = job[r]] BY DEF IInv, TypeOK
<1>2. pc' = [pc EXCEPT ![r] = s] BY DEF Becomes
<1> QED BY <1>1, <1>2, MoveKeeps

LEMMA BeginKeeps ==
  ASSUME IInv, NEW r \in Requests, Register(r) \/ Login(r) \/ RefreshToken(r) PROVE IInv'
<1>1. PICK s \in {"name", "find", "read"}, j \in Jobs :
        /\ Begin(r, s, j)
        /\ s \in {"name", "find"} => j.person \in Persons /\ j.token = 0
        /\ s = "read" => j.token \in Token
  <2>1. CASE Register(r)
    <3>1. PICK p \in Persons : Begin(r, "name", [Idle EXCEPT !.person = p]) BY <2>1 DEF Register
    <3> QED BY <3>1 DEF Idle, Jobs
  <2>2. CASE Login(r)
    <3>1. PICK p \in Persons : Begin(r, "find", [Idle EXCEPT !.person = p]) BY <2>2 DEF Login
    <3> QED BY <3>1 DEF Idle, Jobs
  <2>3. CASE RefreshToken(r)
    <3>1. PICK t \in Token : Begin(r, "read", [Idle EXCEPT !.token = t])
      BY <2>3 DEF RefreshToken
    <3>2. t \in Nat BY Domains DEF IInv
    <3> QED BY <3>1, <3>2 DEF Idle, Jobs
  <2> QED BY <2>1, <2>2, <2>3
<1>2. /\ pc' = [pc EXCEPT ![r] = s] /\ job' = [job EXCEPT ![r] = j]
      /\ UNCHANGED <<accounts, tokens, faults>>
      /\ s \in Steps
  BY <1>1 DEF Begin, Becomes, Steps
<1>3. pc'[r] = s /\ job'[r] = j BY <1>2 DEF IInv, TypeOK
<1>4. Token' = Token BY <1>2 DEF Token, tokens
<1>5. JobInv(r)' BY <1>1, <1>3, <1>4 DEF JobInv
<1>6. Holds(r)' = {} BY <1>1, <1>3 DEF Holds
<1> QED BY <1>1, <1>2, <1>5, <1>6, MoveKeeps

LEMMA FailsKeeps == ASSUME IInv, NEW r \in Requests, Fails(r) PROVE IInv'
BY EndKeeps DEF Fails

LEMMA LookUpKeeps == ASSUME IInv, NEW r \in Requests, LookUp(r) PROVE IInv'
<1>1. UNCHANGED <<accounts, tokens, faults>> BY DEF LookUp
<1>2. CASE Ends(r) BY <1>1, <1>2, EndKeeps
<1>3. ASSUME NEW s \in {"email", "insert name"}, Becomes(r, s), UNCHANGED job,
             pc[r] \in {"name", "email"}
      PROVE  IInv'
  <2>1. pc'[r] = s /\ job'[r] = job[r] BY <1>3 DEF Becomes, IInv, TypeOK
  <2>2. Token' = Token BY <1>1 DEF Token, tokens
  <2>3. JobInv(r)' BY <1>3, <2>1, <2>2 DEF IInv, JobInv
  <2>4. Holds(r)' = {} BY <1>3, <2>1 DEF Holds
  <2> QED BY <1>1, <1>3, <2>3, <2>4, NextKeeps DEF Steps
<1> QED BY <1>2, <1>3 DEF LookUp

\* The value that is entered is held by nobody else and in no row.
LEMMA InsertKeeps == ASSUME IInv, NEW r \in Requests, InsertUser(r) PROVE IInv'
<1>1. UNCHANGED <<accounts, tokens, faults>> BY DEF InsertUser
<1>2. CASE Ends(r) BY <1>1, <1>2, EndKeeps
<1>3. ASSUME NEW s \in {"insert email", "commit"}, NEW value,
             Becomes(r, s), UNCHANGED job,
             value \notin Taken, \A q \in Requests \ {r} : value \notin Holds(q),
             \/ /\ s = "insert email" /\ pc[r] = "insert name"
                /\ value = job[r].person.name
             \/ /\ s = "commit" /\ pc[r] = "insert email"
                /\ value = job[r].person.email
      PROVE  IInv'
  <2>1. pc'[r] = s /\ job'[r] = job[r] BY <1>3 DEF Becomes, IInv, TypeOK
  <2>2. Token' = Token BY <1>1 DEF Token, tokens
  <2>3. JobInv(r)' BY <1>3, <2>1, <2>2 DEF IInv, JobInv
  <2>4. Holds(r)' = Holds(r) \cup {value} BY <1>3, <2>1 DEF Holds
  <2>5. Holds(r)' \cap Taken = {} BY <1>3, <2>4 DEF IInv, IndexInv
  <2>6. \A q \in Requests \ {r} : Holds(r)' \cap Holds(q) = {}
    BY <1>3, <2>4 DEF IInv, IndexInv
  <2> QED BY <1>1, <1>3, <2>3, <2>5, <2>6, NextKeeps DEF Steps
<1> QED BY <1>2, <1>3 DEF InsertUser, InsertUnique

LEMMA FindKeeps == ASSUME IInv, NEW r \in Requests, FindUser(r) PROVE IInv'
<1>1. UNCHANGED <<accounts, tokens, faults>> BY DEF FindUser
<1>2. CASE Ends(r) BY <1>1, <1>2, EndKeeps
<1>3. ASSUME NEW u \in Account, Becomes(r, "grant"),
             job' = [job EXCEPT ![r] = [Idle EXCEPT !.user = u]]
      PROVE  IInv'
  <2>1. u \in Nat BY Domains DEF IInv
  <2>2. [Idle EXCEPT !.user = u] \in Jobs BY <2>1 DEF Idle, Jobs
  <2>3. pc' = [pc EXCEPT ![r] = "grant"] BY <1>3 DEF Becomes
  <2>4. pc'[r] = "grant" /\ job'[r] = [Idle EXCEPT !.user = u]
    BY <1>3, <2>3 DEF IInv, TypeOK
  <2>5. Account' = Account BY <1>1 DEF Account, accounts
  <2>6. JobInv(r)' BY <2>4, <2>5 DEF JobInv, Idle
  <2>7. Holds(r)' = {} BY <2>4 DEF Holds
  <2>8. [Idle EXCEPT !.user = u].token = 0 BY DEF Idle
  <2> QED BY <1>1, <1>3, <2>2, <2>3, <2>6, <2>7, <2>8, MoveKeeps DEF Steps
<1> QED BY <1>2, <1>3 DEF FindUser

\* Only a request that finds the row of its token goes past it.
LEMMA ReadTokenKeeps == ASSUME IInv, NEW r \in Requests, ReadToken(r) PROVE IInv'
<1>1. UNCHANGED <<accounts, tokens, faults>> BY DEF ReadToken
<1>2. CASE Ends(r) BY <1>1, <1>2, EndKeeps
<1>3. ASSUME NEW s \in {"drop", "user"}, pc' = [pc EXCEPT ![r] = s], UNCHANGED job,
             job[r].token \in live, pc[r] = "read"
      PROVE  IInv'
  <2>1. pc'[r] = s /\ job'[r] = job[r] BY <1>3 DEF IInv, TypeOK
  <2>2. Token' = Token BY <1>1 DEF Token, tokens
  <2>3. JobInv(r)' BY <1>3, <2>1, <2>2 DEF IInv, JobInv
  <2>4. Holds(r)' = {} BY <1>3, <2>1 DEF Holds
  <2> QED BY <1>1, <1>3, <2>3, <2>4, NextKeeps DEF Steps, Becomes
<1> QED BY <1>2, <1>3 DEF ReadToken

LEMMA ReadUserKeeps == ASSUME IInv, NEW r \in Requests, ReadUser(r) PROVE IInv'
<1> DEFINE u == issued[job[r].token].user
           j == [job[r] EXCEPT !.user = u]
<1>1. UNCHANGED <<accounts, tokens, faults>> /\ pc[r] = "user" BY DEF ReadUser
<1>2. job[r] \in Jobs /\ job[r].token \in Token BY <1>1 DEF IInv, TypeOK, JobInv
<1>3. u \in Account BY <1>2, Domains DEF IInv
<1>4. u \in Nat BY <1>3, Domains DEF IInv
<1>5. j \in Jobs /\ j.token = job[r].token /\ j.user = u BY <1>2, <1>4 DEF Jobs
<1>6. PICK s \in {"purge", "rotate"} : Becomes(r, s) /\ (s = "purge" => u \in banned)
  BY DEF ReadUser
<1>7. pc' = [pc EXCEPT ![r] = s] /\ job' = [job EXCEPT ![r] = j]
  BY <1>6 DEF ReadUser, Becomes
<1>8. pc'[r] = s /\ job'[r] = j BY <1>7 DEF IInv, TypeOK
<1>9. Token' = Token /\ Account' = Account /\ issued' = issued /\ banned' = banned
  BY <1>1 DEF Token, Account, tokens, accounts
<1>10. JobInv(r)' BY <1>2, <1>3, <1>5, <1>6, <1>8, <1>9 DEF JobInv
<1>11. Holds(r)' = {} BY <1>8, <1>6 DEF Holds
<1>12. r \in Past(j.token) BY <1>1, <1>5 DEF Past
<1> HIDE DEF j
<1> QED BY <1>1, <1>5, <1>6, <1>7, <1>10, <1>11, <1>12, MoveKeeps DEF Steps

-----------------------------------------------------------------------------
(* Steps of a request that write *)

\* A step that leaves the accounts and what is held of the indexes alone.
LEMMA IndexStays ==
  ASSUME IInv, UNCHANGED users, \A q \in Requests : Holds(q)' = Holds(q)
  PROVE  IndexInv'
<1>1. Taken' = Taken /\ Account' = Account BY DEF Taken, Account
<1> QED BY <1>1 DEF IInv, IndexInv, UniqueAccounts

\* The account that is committed has what its request held.
LEMMA CreateKeeps == ASSUME IInv, NEW r \in Requests, CreateUser(r) PROVE IInv'
<1>1. /\ pc[r] = "commit"
      /\ users' = Append(users, job[r].person)
      /\ UNCHANGED <<banned, issued, live, faults>>
  BY DEF CreateUser, tokens
<1>2. job[r].person \in Persons BY <1>1 DEF IInv, JobInv
<1>3. users \in Seq(Persons) BY DEF IInv, TypeOK
<1>4. /\ users' \in Seq(Persons)
      /\ Len(users') = Len(users) + 1
      /\ \A u \in 1 .. Len(users) : users'[u] = users[u]
      /\ users'[Len(users) + 1] = job[r].person
      /\ Len(users) \in Nat
  BY <1>1, <1>2, <1>3, AppendProperties, LenProperties
<1>5. /\ Account = 1 .. Len(users)
      /\ Account' = Account \cup {Len(users) + 1}
      /\ Len(users) + 1 \notin Account
  <2>1. Account = 1 .. Len(users) /\ Account' = 1 .. Len(users')
    BY <1>3, <1>4, LenProperties DEF Account
  <2> QED BY <2>1, <1>4
<1>6. Token' = Token /\ TokensOf(0)' = TokensOf(0) BY <1>1 DEF Token, TokensOf
<1>7. PICK s \in {"grant", "idle"}, j \in {Idle, [Idle EXCEPT !.user = Len(users) + 1]} :
        /\ pc' = [pc EXCEPT ![r] = s] /\ job' = [job EXCEPT ![r] = j]
        /\ s = "grant" => j.user = Len(users) + 1
  BY DEF CreateUser, Becomes, Ends, Idle
<1>8. j \in Jobs /\ j.token = 0 BY <1>4 DEF Idle, Jobs
<1>9. /\ pc' \in [Requests -> Steps] /\ job' \in [Requests -> Jobs]
      /\ pc'[r] = s /\ job'[r] = j
      /\ \A q \in Requests \ {r} : pc'[q] = pc[q] /\ job'[q] = job[q]
  BY <1>7, <1>8, OneMoves DEF IInv, Steps
<1>10. TypeOK'
  <2>1. issued \in Seq([user : Account', from : Nat])
    <3>1. [user : Account, from : Nat] \subseteq [user : Account', from : Nat] BY <1>5
    <3> QED BY <3>1, SeqGrows DEF IInv, TypeOK
  <2> QED BY <1>1, <1>4, <1>5, <1>6, <1>9, <2>1 DEF IInv, TypeOK
<1>11. Ancestry' BY <1>1, <1>6 DEF IInv, Ancestry
<1>12. \A q \in Requests : JobInv(q)'
  <2>1. JobInv(r)' BY <1>5, <1>7, <1>8, <1>9 DEF JobInv
  <2>2. ASSUME NEW q \in Requests \ {r} PROVE JobInv(q)'
    BY <1>1, <1>5, <1>6, <1>9, OthersStay DEF IInv
  <2> QED BY <2>1, <2>2
<1>13. IndexInv'
  <2> DEFINE p == job[r].person
  <2>1. Holds(r) = {p.name, p.email} BY <1>1 DEF Holds
  <2>2. Taken' = Taken \cup Holds(r)
    BY <1>4, <1>5, <2>1 DEF Taken
  <2>3. Holds(r)' = {} BY <1>9, <1>7 DEF Holds
  <2>4. \A q \in Requests \ {r} : Holds(q)' = Holds(q) BY <1>9 DEF Holds
  <2>5. \A q \in Requests : Holds(q)' \cap Taken' = {}
    BY <2>2, <2>3, <2>4 DEF IInv, IndexInv
  <2>6. \A q1 \in Requests, q2 \in Requests : q1 # q2 => Holds(q1)' \cap Holds(q2)' = {}
    BY <2>3, <2>4 DEF IInv, IndexInv
  <2>7. p.name \notin Taken /\ p.email \notin Taken BY <2>1 DEF IInv, IndexInv
  <2>8. \A u \in Account : users[u].name # p.name /\ users[u].email # p.email
    BY <2>7 DEF Taken
  <2>9. UniqueAccounts' BY <1>4, <1>5, <2>8 DEF UniqueAccounts, IInv, IndexInv
  <2> QED BY <2>5, <2>6, <2>9 DEF IndexInv
<1>14. ASSUME NEW t \in Token PROVE RotationInv(t)'
  <2>1. Exchanged(t)' = Exchanged(t) BY <1>1, <1>6 DEF Exchanged
  <2>2. t # 0 BY Domains DEF IInv
  <2>3. Granting(t)' \subseteq Granting(t) /\ Past(t)' \subseteq Past(t)
    BY <1>8, <1>9, <2>2 DEF Granting, Past
  <2> QED BY <1>1, <1>10, <2>1, <2>3, RotationStays DEF IInv
<1> QED BY <1>6, <1>10, <1>11, <1>12, <1>13, <1>14 DEF IInv

\* A delete at the end of a request, whether its error is ignored or not.
LEMMA DeleteKeeps ==
  ASSUME IInv, NEW r \in Requests, NEW rows, DeleteTokens(rows), Ends(r) PROVE IInv'
<1>1. /\ UNCHANGED <<users, banned, issued>>
      /\ live' \subseteq live
      /\ faults' \in 0 .. MaxFaults /\ faults' >= faults
      /\ faults' = faults \/ live' = live
  BY DEF DeleteTokens, accounts, IInv, TypeOK
<1>2. pc' = [pc EXCEPT ![r] = "idle"] /\ job' = [job EXCEPT ![r] = Idle] BY DEF Ends, Becomes
<1>3. /\ pc' \in [Requests -> Steps] /\ job' \in [Requests -> Jobs]
      /\ pc'[r] = "idle" /\ job'[r] = Idle
      /\ \A q \in Requests \ {r} : pc'[q] = pc[q] /\ job'[q] = job[q]
  BY <1>2, OneMoves DEF IInv, Idle, Jobs, Steps
<1>4. Account' = Account /\ Token' = Token BY <1>1 DEF Account, Token
<1>5. TypeOK' BY <1>1, <1>3, <1>4 DEF IInv, TypeOK
<1>6. Ancestry' BY <1>1, <1>4 DEF IInv, Ancestry
<1>7. \A q \in Requests : JobInv(q)'
  <2>1. JobInv(r)' BY <1>3 DEF JobInv, Idle
  <2>2. ASSUME NEW q \in Requests \ {r} PROVE JobInv(q)'
    BY <1>1, <1>3, <1>4, OthersStay DEF IInv
  <2> QED BY <2>1, <2>2
<1>8. IndexInv'
  <2>1. Holds(r)' = {} BY <1>3 DEF Holds
  <2>2. \A q \in Requests \ {r} : Holds(q)' = Holds(q) BY <1>3 DEF Holds
  <2>3. Taken' = Taken /\ UniqueAccounts' BY <1>1, <1>4 DEF Taken, IInv, IndexInv, UniqueAccounts
  <2> QED BY <2>1, <2>2, <2>3 DEF IInv, IndexInv
<1>9. ASSUME NEW t \in Token PROVE RotationInv(t)'
  <2>1. Exchanged(t)' = Exchanged(t) BY <1>1, <1>4 DEF Exchanged
  <2>2. t # 0 BY Domains DEF IInv
  <2>3. Granting(t)' \subseteq Granting(t) /\ Past(t)' \subseteq Past(t)
    BY <1>3, <2>2 DEF Granting, Past, Idle
  <2>4. CASE t \in live /\ t \notin live'
    BY <1>1, <2>1, <2>4, RotationDrops DEF IInv
  <2>5. CASE faults' = faults /\ (t \in live <=> t \in live')
    BY <1>5, <2>1, <2>3, <2>5, RotationStays DEF IInv
  <2>6. CASE live' = live
    <3>1. /\ Cardinality(Granting(t)') <= Cardinality(Granting(t))
          /\ Cardinality(Past(t)') <= Cardinality(Past(t))
      BY <2>3, Counted, FS_Subset DEF IInv
    <3> QED BY <1>1, <2>1, <2>6, <3>1, Counted, NextCounted DEF IInv, RotationInv, TypeOK
  <2> QED BY <1>1, <2>4, <2>5, <2>6
<1> QED BY <1>4, <1>5, <1>6, <1>7, <1>8, <1>9 DEF IInv

\* An exchange: when the row goes, those who have read it may follow, and
\* when it stays, that has cost a fault.
LEMMA RotateKeeps == ASSUME IInv, NEW r \in Requests, Rotate(r) PROVE IInv'
<1> DEFINE s == job[r].token
<1>1. /\ UNCHANGED <<users, banned, issued, job>>
      /\ \/ live' = live \ {s} /\ faults' = faults
         \/ live' = live /\ faults' = faults + 1 /\ faults < MaxFaults
      /\ pc[r] = "rotate"
      /\ pc' = [pc EXCEPT ![r] = "grant"]
  BY DEF Rotate, Rotated, DeleteTokens, Becomes, accounts
<1>2. job[r] \in Jobs /\ job' = [job EXCEPT ![r] = job[r]] BY <1>1 DEF IInv, TypeOK
<1>3. /\ pc' \in [Requests -> Steps] /\ pc'[r] = "grant" /\ job' = job
      /\ \A q \in Requests \ {r} : pc'[q] = pc[q]
  BY <1>1, <1>2, OneMoves DEF IInv, Steps
<1>4. Account' = Account /\ Token' = Token BY <1>1 DEF Account, Token
<1>5. TypeOK' BY <1>1, <1>3, <1>4 DEF IInv, TypeOK
<1>6. Ancestry' BY <1>1, <1>4 DEF IInv, Ancestry
<1>7. \A q \in Requests : JobInv(q)'
  <2>1. JobInv(r)' BY <1>1, <1>3, <1>4 DEF IInv, JobInv
  <2>2. ASSUME NEW q \in Requests \ {r} PROVE JobInv(q)'
    BY <1>1, <1>3, <1>4, OthersStay DEF IInv
  <2> QED BY <2>1, <2>2
<1>8. \A q \in Requests : Holds(q)' = Holds(q) BY <1>1, <1>3 DEF Holds
<1>9. IndexInv' BY <1>1, <1>8, IndexStays
<1>10. ASSUME NEW t \in Token PROVE RotationInv(t)'
  <2>1. Exchanged(t)' = Exchanged(t) BY <1>1, <1>4 DEF Exchanged
  <2>2. Past(t)' = Past(t) BY <1>1, <1>3 DEF Past
  <2>3. t # s => Granting(t)' = Granting(t) BY <1>3 DEF Granting
  <2>4. t = s => Granting(t)' = Granting(t) \cup {r} BY <1>3 DEF Granting
  <2>5. CASE t \in live /\ t \notin live'
    BY <1>1, <2>1, <2>5, RotationDrops DEF IInv
  <2>6. CASE t \notin live
    BY <1>1, <2>1, <2>2, <2>6, Counted DEF IInv, RotationInv
  <2>7. CASE t \in live /\ t \in live' /\ t # s
    BY <1>1, <2>1, <2>3, <2>7, Counted DEF IInv, RotationInv
  <2>8. CASE t \in live /\ t \in live' /\ t = s
    <3>1. Cardinality(Granting(t)') <= Cardinality(Granting(t)) + 1
      <4>1. IsFiniteSet(Granting(t)) /\ Cardinality(Granting(t)) \in Nat BY Counted DEF IInv
      <4>2. Cardinality(Granting(t) \cup {r}) <= Cardinality(Granting(t)) + 1
        BY <4>1, AddOne
      <4> QED BY <2>4, <2>8, <4>2
    <3> QED BY <1>1, <2>1, <2>8, <3>1, Counted, NextCounted DEF IInv, RotationInv
  <2> QED BY <2>5, <2>6, <2>7, <2>8
<1> QED BY <1>4, <1>5, <1>6, <1>7, <1>9, <1>10 DEF IInv

LEMMA GrantKeeps == ASSUME IInv, NEW r \in Requests, Grant(r) PROVE IInv'
<1> DEFINE s == job[r].token
           row == [user |-> job[r].user, from |-> s]
<1>0. PICK n \in Nat : n = Len(issued) + 1
  BY LenProperties DEF IInv, TypeOK
<1>1. /\ UNCHANGED <<users, banned, faults>>
      /\ pc[r] = "grant"
      /\ issued' = Append(issued, row)
      /\ live' = live \cup {n}
      /\ pc' = [pc EXCEPT ![r] = "idle"] /\ job' = [job EXCEPT ![r] = Idle]
  BY <1>0 DEF Grant, Ends, Becomes, accounts
<1>2. job[r].user \in Account /\ s \in Token \cup {0} /\ s \in Nat
  BY <1>1 DEF IInv, JobInv, TypeOK, Jobs
<1>3. row \in [user : Account, from : Nat] BY <1>2
<1>4. issued \in Seq([user : Account, from : Nat]) BY DEF IInv, TypeOK
<1>5. /\ issued' \in Seq([user : Account, from : Nat])
      /\ Len(issued') = n
      /\ \A t \in 1 .. Len(issued) : issued'[t] = issued[t]
      /\ issued'[n] = row
      /\ Len(issued) \in Nat
  <2> HIDE DEF row
  <2> QED BY <1>0, <1>1, <1>3, <1>4, AppendProperties, LenProperties
<1>6. Token = 1 .. Len(issued) /\ Token' = Token \cup {n} /\ n \notin Token
  <2>1. Token = 1 .. Len(issued) /\ Token' = 1 .. Len(issued')
    BY <1>4, <1>5, LenProperties DEF Token
  <2> QED BY <2>1, <1>0, <1>5
<1>7. Account' = Account BY <1>1 DEF Account
<1>8. /\ pc' \in [Requests -> Steps] /\ job' \in [Requests -> Jobs]
      /\ pc'[r] = "idle" /\ job'[r] = Idle
      /\ \A q \in Requests \ {r} : pc'[q] = pc[q] /\ job'[q] = job[q]
  BY <1>1, OneMoves DEF IInv, Idle, Jobs, Steps
<1>9. TypeOK' BY <1>1, <1>5, <1>6, <1>7, <1>8 DEF IInv, TypeOK
<1>10. Ancestry'
  <2>1. issued'[n].from = s BY <1>5
  <2>2. \A k \in Token : issued'[k].from \in Token \cup {0}
    BY <1>5, <1>6 DEF IInv, Ancestry
  <2> QED BY <2>1, <2>2, <1>2, <1>6 DEF Ancestry
<1>11. \A q \in Requests : JobInv(q)'
  <2>1. JobInv(r)' BY <1>8 DEF JobInv, Idle
  <2>2. ASSUME NEW q \in Requests \ {r} PROVE JobInv(q)'
    BY <1>1, <1>5, <1>6, <1>7, <1>8, OthersStay DEF IInv
  <2> QED BY <2>1, <2>2
<1>12. \A q \in Requests : Holds(q)' = Holds(q)
  <2>1. Holds(r) = {} /\ Holds(r)' = {} BY <1>1, <1>8 DEF Holds
  <2>2. \A q \in Requests \ {r} : Holds(q)' = Holds(q) BY <1>8 DEF Holds
  <2> QED BY <2>1, <2>2
<1>13. IndexInv' BY <1>1, <1>12, IndexStays
<1>14. ASSUME NEW t \in Token PROVE RotationInv(t)'
  <2>0. RotationInv(t) /\ t # 0 BY <1>6 DEF IInv
  <2>1. t # s => Exchanged(t)' = Exchanged(t) BY <1>5, <1>6 DEF Exchanged
  <2>2. t = s => Exchanged(t)' = Exchanged(t) \cup {n} BY <1>5, <1>6 DEF Exchanged
  <2>3. t \in live <=> t \in live' BY <1>1, <1>6
  <2>4. t = s => Granting(t)' = Granting(t) \ {r} /\ r \in Granting(t)
    BY <1>1, <1>8, <2>0 DEF Granting, Idle
  <2>5. t = s => Past(t)' = Past(t) \ {r} /\ r \in Past(t)
    BY <1>1, <1>8, <2>0 DEF Past, Idle
  <2>6. Granting(t)' \subseteq Granting(t) /\ Past(t)' \subseteq Past(t)
    BY <1>1, <1>8, <2>0 DEF Past, Granting, Idle
  <2>7. CASE t # s
    BY <1>1, <1>9, <2>0, <2>1, <2>3, <2>6, <2>7, RotationStays DEF IInv
  <2>8. CASE t = s
    <3>1. n \notin Exchanged(t) BY <1>6 DEF Exchanged
    <3>2. Cardinality(Exchanged(t)') = Cardinality(Exchanged(t)) + 1
      BY <3>1, <2>2, <2>8, Counted, FS_AddElement DEF IInv
    <3>3. Cardinality(Granting(t)') = Cardinality(Granting(t)) - 1
      BY <2>4, <2>8, Counted, FS_RemoveElement DEF IInv
    <3>4. Cardinality(Past(t)') = Cardinality(Past(t)) - 1
      BY <2>5, <2>8, Counted, FS_RemoveElement DEF IInv
    <3> QED BY <1>1, <2>0, <2>3, <3>2, <3>3, <3>4, Counted DEF IInv, RotationInv
  <2> QED BY <2>7, <2>8
<1>15. RotationInv(n)'
  <2>0. n # 0 /\ n # s BY <1>0, <1>2, <1>5, <1>6
  <2>1. \A k \in Token : issued[k].from # n
    BY <2>0, <1>6 DEF IInv, Ancestry
  <2>2. \A q \in Requests : job[q].token # n
    BY <2>0, <1>6 DEF IInv, JobInv
  <2>3. Exchanged(n)' = {} BY <1>5, <1>6, <2>0, <2>1 DEF Exchanged
  <2>4. Granting(n)' = {} BY <1>8, <2>0, <2>2 DEF Granting, Idle
  <2>5. faults' \in Nat BY <1>1 DEF IInv, TypeOK
  <2>6. n \in live' BY <1>1
  <2>7. Cardinality(Exchanged(n)') = 0 /\ Cardinality(Granting(n)') = 0
    BY <2>3, <2>4, FS_EmptySet
  <2> QED BY <2>5, <2>6, <2>7 DEF RotationInv
<1>16. \A t \in Token' : RotationInv(t)' BY <1>6, <1>14, <1>15
<1> QED BY <1>9, <1>10, <1>11, <1>13, <1>16 DEF IInv

LEMMA BanKeeps == ASSUME IInv, NEW u \in Account, Ban(u) PROVE IInv'
<1>1. UNCHANGED <<users, issued, live, faults, pc, job>> /\ banned' = banned \cup {u}
  BY DEF Ban, tokens
<1>2. Account' = Account /\ Token' = Token BY <1>1 DEF Account, Token
<1>3. TypeOK' BY <1>1, <1>2 DEF IInv, TypeOK
<1>4. Ancestry' BY <1>1, <1>2 DEF IInv, Ancestry
<1>5. \A q \in Requests : JobInv(q)' BY <1>1, <1>2, OthersStay DEF IInv
<1>6. \A q \in Requests : Holds(q)' = Holds(q) BY <1>1 DEF Holds
<1>7. IndexInv' BY <1>1, <1>6, IndexStays
<1>8. \A t \in Token : RotationInv(t)'
  BY <1>1, <1>2 DEF IInv, RotationInv, Exchanged, Past, Granting
<1> QED BY <1>2, <1>3, <1>4, <1>5, <1>7, <1>8 DEF IInv

-----------------------------------------------------------------------------
(* Every step *)

LEMMA AccountsBegin == Init => IInv
<1> SUFFICES ASSUME Init PROVE IInv
  OBVIOUS
<1>1. users = <<>> /\ issued = <<>> /\ Account = {} /\ Token = {}
  BY DEF Init, Account, Token
<1>2. TypeOK BY <1>1 DEF Init, TypeOK, Steps, Jobs, Idle
<1>3. \A r \in Requests : JobInv(r) BY DEF Init, JobInv, Idle
<1>4. \A r \in Requests : Holds(r) = {} BY DEF Init, Holds
<1>5. IndexInv BY <1>1, <1>4 DEF IndexInv, UniqueAccounts
<1> QED BY <1>1, <1>2, <1>3, <1>5 DEF IInv, Ancestry

LEMMA ServeKeeps == ASSUME IInv, NEW r \in Requests, Serve(r) PROVE IInv'
<1>1. CASE DropExpired(r) BY <1>1, DeleteKeeps DEF DropExpired
<1>2. CASE Purge(r) BY <1>2, DeleteKeeps DEF Purge
<1> QED BY <1>1, <1>2, LookUpKeeps, InsertKeeps, CreateKeeps, FindKeeps, ReadTokenKeeps,
      ReadUserKeeps, RotateKeeps, GrantKeeps DEF Serve

LEMMA AccountsStep == IInv /\ [Next]_vars => IInv'
<1> SUFFICES ASSUME IInv, [Next]_vars PROVE IInv'
  OBVIOUS
<1>1. ASSUME NEW r \in Requests,
             Register(r) \/ Login(r) \/ RefreshToken(r) \/ Serve(r) \/ Fails(r)
      PROVE  IInv'
  BY <1>1, BeginKeeps, ServeKeeps, FailsKeeps
<1>2. CASE \E u \in Account : Ban(u)
  BY <1>2, BanKeeps
<1>3. CASE UNCHANGED vars
  <2>1. UNCHANGED <<users, banned, issued, live, faults, pc, job>>
    BY <1>3 DEF vars, accounts, tokens
  <2>2. Account' = Account /\ Token' = Token BY <2>1 DEF Account, Token
  <2>3. \A q \in Requests : Holds(q)' = Holds(q) BY <2>1 DEF Holds
  <2>4. IndexInv' BY <2>1, <2>3, IndexStays
  <2>5. \A q \in Requests : JobInv(q)' BY <2>1, <2>2, OthersStay DEF IInv
  <2>6. \A t \in Token : RotationInv(t)'
    BY <2>1, <2>2 DEF IInv, RotationInv, Exchanged, Past, Granting
  <2> QED BY <2>1, <2>2, <2>4, <2>5, <2>6 DEF IInv, TypeOK, Ancestry
<1> QED BY <1>1, <1>2, <1>3 DEF Next

LEMMA AlwaysIInv == Spec => []IInv
<1> QED BY AccountsBegin, AccountsStep, PTL DEF Spec

\* Tables and requests have their types, for any people and requests.
THEOREM AccountsTypeCorrect == Spec => []TypeOK
<1>1. IInv => TypeOK BY DEF IInv
<1> QED BY <1>1, AlwaysIInv, PTL

\* No two accounts share a name or an address, whichever registrations race
\* past the look-ups of apiRegister (the unique indexes of users).
THEOREM AccountsAreUnique == Spec => []UniqueAccounts
<1>1. IInv => UniqueAccounts BY DEF IInv, IndexInv
<1> QED BY <1>1, AlwaysIInv, PTL

\* A refresh token is exchanged at most once by each request in progress, and
\* once more for each delete whose error RefreshToken ignores.
THEOREM RotationIsBounded == Spec => []RotationBound
<1>1. IInv => RotationBound
  <2> SUFFICES ASSUME IInv, NEW t \in Token
               PROVE  Cardinality(Exchanged(t)) <= Cardinality(Requests) + faults
    BY DEF RotationBound, Exchanged
  <2>1. RotationInv(t) BY DEF IInv
  <2> QED BY <2>1, Counted DEF IInv, RotationInv
<1> QED BY <1>1, AlwaysIInv, PTL

\* The registrations whose entry in a unique index r waits for.
WaitsFor(r) ==
  {q \in Requests \ {r} : \/ pc[r] = "insert name" /\ job[r].person.name \in Holds(q)
                          \/ pc[r] = "insert email" /\ job[r].person.email \in Holds(q)}

\* Registrations that wait at the unique indexes wait for one that is about to
\* commit, or for one that waits for such: names are entered before addresses
\* and no name is an address, so there is no circle, for any number of requests
\* and however their names and addresses cross (the insert of CreateUser).
THEOREM RegistrationsWaitForCommits ==
  Spec => [](\A r \in Requests :
               /\ pc[r] = "commit" => WaitsFor(r) = {}
               /\ \A q \in WaitsFor(r) : pc[q] = "commit" \/ \A s \in WaitsFor(q) : pc[s] = "commit")
<1>1. ASSUME IInv, NEW r \in Requests, NEW q \in WaitsFor(r), pc[q] # "commit"
      PROVE  \A s \in WaitsFor(q) : pc[s] = "commit"
  <2>1. q \in Requests /\ pc[q] = "insert email" BY <1>1 DEF WaitsFor, Holds
  <2> SUFFICES ASSUME NEW s \in WaitsFor(q), pc[s] # "commit" PROVE FALSE
    OBVIOUS
  <2>2. s \in Requests /\ pc[s] = "insert email" /\ job[q].person.email = job[s].person.name
    BY <2>1 DEF WaitsFor, Holds
  <2>3. job[q].person \in Persons /\ job[s].person \in Persons
    BY <1>1, <2>1, <2>2 DEF IInv, JobInv
  <2> QED BY <2>2, <2>3
<1>2. IInv => \A r \in Requests :
                /\ pc[r] = "commit" => WaitsFor(r) = {}
                /\ \A q \in WaitsFor(r) : pc[q] = "commit" \/ \A s \in WaitsFor(q) : pc[s] = "commit"
  BY <1>1 DEF WaitsFor
<1> QED BY <1>2, AlwaysIInv, PTL

\* No request ends the session of another token, unless the account has been
\* banned (DeleteRefreshToken, DeleteRefreshTokensByUser).
THEOREM SessionsAreIndependent == Spec => SessionsIndependent
<1>1. IInv /\ [Next]_vars =>
        [\A t \in live \ live' : \/ \E r \in Requests : job[r].token = t
                                 \/ issued[t].user \in banned]_vars
  <2> SUFFICES ASSUME IInv, Next, NEW t \in live \ live'
               PROVE  (\E r \in Requests : job[r].token = t) \/ issued[t].user \in banned
    OBVIOUS
  <2>1. ASSUME NEW r \in Requests, DropExpired(r) \/ Rotate(r)
        PROVE  job[r].token = t
    BY <2>1 DEF DropExpired, Rotate, Rotated, DeleteTokens
  <2>2. ASSUME NEW r \in Requests, Purge(r)
        PROVE  issued[t].user \in banned
    <3>1. pc[r] = "purge" /\ t \in TokensOf(job[r].user)
      BY <2>2 DEF Purge, DeleteTokens
    <3>2. job[r].user \in banned BY <3>1 DEF IInv, JobInv
    <3> QED BY <3>1, <3>2 DEF TokensOf
  <2>3. live \subseteq live' \/ \E r \in Requests : DropExpired(r) \/ Rotate(r) \/ Purge(r)
    BY DEF Next, Register, Login, RefreshToken, Begin, Fails, Serve, LookUp, InsertUser,
           CreateUser, FindUser, ReadToken, ReadUser, Grant, Ban, tokens
  <2> QED BY <2>1, <2>2, <2>3
<1> QED BY <1>1, AlwaysIInv, PTL DEF Spec, SessionsIndependent

\* An account that is banned and has no token and no request past the check
\* of its role never has one again (Login, RefreshToken).
THEOREM BansHold == Spec => BanHolds
<1>1. IInv /\ [Next]_vars => [\A u \in Account : Excluded(u) => Excluded(u)']_vars
  <2> SUFFICES ASSUME IInv, Next, NEW u \in Account, Excluded(u) PROVE Excluded(u)'
    OBVIOUS
  <2>0. u \in banned /\ TokensOf(u) \cap live = {} /\ Admitted(u) = {} BY DEF Excluded
  <2>1. ASSUME banned \subseteq banned', Admitted(u)' \subseteq Admitted(u),
               live' \subseteq live, issued' = issued
        PROVE  Excluded(u)'
    <3>1. TokensOf(u)' = TokensOf(u) BY <2>1 DEF TokensOf, Token
    <3> QED BY <2>0, <2>1, <3>1 DEF Excluded
  <2>2. ASSUME NEW r \in Requests, Serve(r), ~ Grant(r)
        PROVE  Excluded(u)'
    <3>1. banned' = banned /\ live' \subseteq live /\ issued' = issued
      BY <2>2 DEF Serve, LookUp, InsertUser, CreateUser, FindUser, ReadToken, DropExpired,
        ReadUser, Purge, Rotate, DeleteTokens, accounts, tokens
    <3>2. \A q \in Requests \ {r} : pc'[q] = pc[q] /\ job'[q] = job[q]
      BY <2>2 DEF IInv, TypeOK, Serve, LookUp, InsertUser, InsertUnique, CreateUser, FindUser,
        ReadToken, DropExpired, ReadUser, Purge, Rotate, Becomes, Ends
    <3>3. r \in Admitted(u)' => r \in Admitted(u)
      <4>1. CASE LookUp(r) \/ InsertUser(r) \/ ReadToken(r) \/ DropExpired(r) \/ Purge(r)
        BY <4>1 DEF IInv, TypeOK, LookUp, InsertUser, InsertUnique, ReadToken, DropExpired, Purge,
          Becomes, Ends, Admitted
      <4>2. CASE CreateUser(r)
        <5>1. u \in Nat /\ u # Len(users) + 1 BY Domains DEF IInv
        <5>2. pc'[r] = "grant" => job'[r].user = Len(users) + 1
          BY <4>2 DEF IInv, TypeOK, CreateUser, Becomes, Ends, Idle
        <5>3. pc'[r] \in {"grant", "idle"}
          BY <4>2 DEF IInv, TypeOK, CreateUser, Becomes, Ends
        <5> QED BY <5>1, <5>2, <5>3 DEF Admitted
      <4>3. CASE FindUser(r)
        BY <4>3, <2>0 DEF IInv, TypeOK, FindUser, MayEnter, Becomes, Ends, Admitted, Idle
      <4>4. CASE ReadUser(r)
        <5>1. job'[r].user = issued[job[r].token].user
          BY <4>4 DEF IInv, TypeOK, ReadUser, Jobs
        <5>2. pc'[r] = "purge" \/ job'[r].user \notin banned
          BY <4>4, <5>1 DEF IInv, TypeOK, ReadUser, Becomes
        <5> QED BY <5>2, <2>0 DEF Admitted
      <4>5. CASE Rotate(r)
        BY <4>5 DEF IInv, TypeOK, Rotate, Becomes, Admitted
      <4> QED BY <2>2, <4>1, <4>2, <4>3, <4>4, <4>5 DEF Serve
    <3>4. Admitted(u)' \subseteq Admitted(u) BY <3>2, <3>3 DEF Admitted
    <3> QED BY <2>1, <3>1, <3>4
  <2>3. ASSUME NEW r \in Requests, Grant(r) PROVE Excluded(u)'
    <3>1. PICK n \in Nat : n = Len(issued) + 1 BY Domains DEF IInv
    <3>2. /\ pc[r] = "grant"
          /\ issued' = Append(issued, [user |-> job[r].user, from |-> job[r].token])
          /\ live' = live \cup {n} /\ banned' = banned
          /\ pc' = [pc EXCEPT ![r] = "idle"] /\ job' = [job EXCEPT ![r] = Idle]
      BY <2>3, <3>1 DEF Grant, Ends, Becomes, accounts
    <3>3. job[r].user # u BY <2>0, <3>2 DEF Admitted
    <3>4. issued'[n].user = job[r].user BY <3>1, <3>2, Domains DEF IInv, TypeOK
    <3>5. \A t \in live : t \in Token /\ issued'[t] = issued[t]
      BY <3>2, Domains DEF IInv, TypeOK
    <3>6. TokensOf(u)' \cap live' = {}
      BY <2>0, <3>2, <3>3, <3>4, <3>5 DEF TokensOf
    <3>7. Admitted(u)' \subseteq Admitted(u) BY <3>2 DEF IInv, TypeOK, Admitted
    <3> QED BY <2>0, <3>2, <3>6, <3>7 DEF Excluded
  <2>4. ASSUME NEW r \in Requests, Register(r) \/ Login(r) \/ RefreshToken(r) \/ Fails(r)
        PROVE  Excluded(u)'
    <3>1. UNCHANGED <<banned, live, issued>>
      BY <2>4 DEF Register, Login, RefreshToken, Begin, Fails, accounts, tokens
    <3>2. PICK s \in {"name", "find", "read", "idle"} :
            pc' = [pc EXCEPT ![r] = s] /\ \E j : job' = [job EXCEPT ![r] = j]
      BY <2>4 DEF Register, Login, RefreshToken, Begin, Fails, Ends, Becomes
    <3>3. Admitted(u)' \subseteq Admitted(u) BY <3>2 DEF IInv, TypeOK, Admitted
    <3> QED BY <2>1, <3>1, <3>3
  <2>5. ASSUME NEW v \in Account, Ban(v) PROVE Excluded(u)'
    <3>1. banned \subseteq banned' /\ UNCHANGED <<live, issued, pc, job>>
      BY <2>5 DEF Ban, tokens
    <3>2. Admitted(u)' = Admitted(u) BY <3>1 DEF Admitted
    <3> QED BY <2>1, <3>1, <3>2
  <2> QED BY <2>2, <2>3, <2>4, <2>5 DEF Next
<1> QED BY <1>1, AlwaysIInv, PTL DEF Spec, BanHolds
=============================================================================
