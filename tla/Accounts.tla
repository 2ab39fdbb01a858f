------------------------------ MODULE Accounts ------------------------------
(***************************************************************************)
(* Registration, login and the rotation of refresh tokens, as requests     *)
(* that one or several instances serve at the same time over one database, *)
(* while accounts are banned.  Each statement is a step; a request keeps   *)
(* what it has read, and may end at any step.                              *)
(*                                                                         *)
(* A person is what a client fills in: a name, an e-mail address and the   *)
(* password that goes with them.  The account of index u is users[u].  A   *)
(* refresh token is the index of its row in issued, which remembers the    *)
(* token it was exchanged for (0 for registration and login).              *)
(***************************************************************************)
EXTENDS Naturals, Sequences, FiniteSets

CONSTANTS Persons,    \* records with the fields name and email
          Nobody,     \* in place of a person, in a request of nobody in particular
          Requests,   \* requests that may be in progress at the same time
          MaxTokens,  \* bound: refresh tokens issued in a behaviour
          MaxFaults   \* bound: failing deletes whose error is ignored

ASSUME AccountsAssumption ==
  /\ \A p, q \in Persons : p.name # q.email   \* a name has no @, an address has one
  /\ IsFiniteSet(Requests)
  /\ MaxTokens \in Nat /\ MaxFaults \in Nat

VARIABLES users,      \* tables users and user_stats, in the order of the commits
          banned,     \* the accounts with role 'banned'
          issued,     \* every refresh token there has been
          live,       \* table refresh_tokens
          faults,     \* how many ignored errors there have been
          pc, job     \* where each request is, and what it is about

accounts == <<users, banned>>
tokens == <<issued, live>>
vars == <<accounts, tokens, faults, pc, job>>

Steps == {"idle", "name", "email", "insert name", "insert email", "commit",
          "find", "read", "drop", "user", "purge", "rotate", "grant"}

Account == DOMAIN users
Token == DOMAIN issued

\* What a request is about: a person, or a token of an account.
Idle == [person |-> Nobody, user |-> 0, token |-> 0]
Jobs == [person : Persons \cup {Nobody}, user : Nat, token : Nat]

TypeOK == /\ users \in Seq(Persons)
          /\ banned \subseteq Account
          /\ issued \in Seq([user : Account, from : Nat])
          /\ live \subseteq Token
          /\ faults \in 0 .. MaxFaults
          /\ pc \in [Requests -> Steps]
          /\ job \in [Requests -> Jobs]

Init == /\ users = <<>>
        /\ banned = {}
        /\ issued = <<>>
        /\ live = {}
        /\ faults = 0
        /\ pc = [r \in Requests |-> "idle"]
        /\ job = [r \in Requests |-> Idle]

-----------------------------------------------------------------------------
(* Requests *)

Becomes(r, step) == pc' = [pc EXCEPT ![r] = step]
Ends(r) == Becomes(r, "idle") /\ job' = [job EXCEPT ![r] = Idle]

\* What validateRegistration and the decoding of the body refuse never gets
\* here.
Begin(r, step, about) ==
  /\ pc[r] = "idle"
  /\ Len(issued) + Cardinality({q \in Requests : pc[q] # "idle"}) < MaxTokens
  /\ Becomes(r, step)
  /\ job' = [job EXCEPT ![r] = about]
  /\ UNCHANGED <<accounts, tokens, faults>>

Register(r) == \E p \in Persons : Begin(r, "name", [Idle EXCEPT !.person = p])
Login(r) == \E p \in Persons : Begin(r, "find", [Idle EXCEPT !.person = p])
RefreshToken(r) == \E t \in Token : Begin(r, "read", [Idle EXCEPT !.token = t])

\* A statement fails, the client is gone, or the instance ends: an open
\* transaction is rolled back.  (An error of a delete does not end a request,
\* see DeleteTokens; the end of its instance does.)
Fails(r) ==
  /\ pc[r] # "idle"
  /\ Ends(r)
  /\ UNCHANGED <<accounts, tokens, faults>>

-----------------------------------------------------------------------------
(* Registration *)

\* GetUserByUsername, then GetUserByEmail: 409 when one of them finds a row.
LookUp(r) ==
  /\ \/ /\ pc[r] = "name"
        /\ \A u \in Account : users[u].name # job[r].person.name
        /\ Becomes(r, "email") /\ UNCHANGED job
     \/ /\ pc[r] = "name"
        /\ \E u \in Account : users[u].name = job[r].person.name
        /\ Ends(r)
     \/ /\ pc[r] = "email"
        /\ \A u \in Account : users[u].email # job[r].person.email
        /\ Becomes(r, "insert name") /\ UNCHANGED job
     \/ /\ pc[r] = "email"
        /\ \E u \in Account : users[u].email = job[r].person.email
        /\ Ends(r)
  /\ UNCHANGED <<accounts, tokens, faults>>

\* The values of r's row that are in the unique indexes, not yet committed.
Holds(r) == CASE pc[r] = "insert email" -> {job[r].person.name}
              [] pc[r] = "commit" -> {job[r].person.name, job[r].person.email}
              [] OTHER -> {}

\* The values of the rows that are committed.
Taken == {users[u].name : u \in Account} \cup {users[u].email : u \in Account}

\* A plain index, unique only by the look-ups (mutant).
InsertUnchecked(r, value, step) == Becomes(r, step) /\ UNCHANGED job

\* A unique violation that is retried (mutant).
InsertRetried(r, value, step) ==
  /\ \A q \in Requests \ {r} : value \notin Holds(q)
  /\ value \notin Taken
  /\ Becomes(r, step)
  /\ UNCHANGED job

\* The entry of a row in a unique index: waits while another transaction has
\* the value, fails when one has committed it.
InsertUnique(r, value, step) ==
  /\ \A q \in Requests \ {r} : value \notin Holds(q)
  /\ \/ value \in Taken /\ Ends(r)
     \/ value \notin Taken /\ Becomes(r, step) /\ UNCHANGED job

InsertUser(r) ==
  /\ \/ pc[r] = "insert name" /\ InsertUnique(r, job[r].person.name, "insert email")
     \/ pc[r] = "insert email" /\ InsertUnique(r, job[r].person.email, "commit")
  /\ UNCHANGED <<accounts, tokens, faults>>

\* The new account's id is not passed on (mutant).
CreateUserNoID(r) ==
  /\ pc[r] = "commit"
  /\ users' = Append(users, job[r].person)
  /\ Becomes(r, "grant")
  /\ UNCHANGED <<banned, tokens, faults, job>>

\* The JSON interface goes on to issue a refresh token; the form does with
\* the cookie.
CreateUser(r) ==
  /\ pc[r] = "commit"
  /\ users' = Append(users, job[r].person)
  /\ \/ Becomes(r, "grant") /\ job' = [job EXCEPT ![r] = [Idle EXCEPT !.user = Len(users) + 1]]
     \/ Ends(r)
  /\ UNCHANGED <<banned, tokens, faults>>

-----------------------------------------------------------------------------
(* Login *)

\* The role is read but not looked at (mutant).
MayEnterBanned(u, p) == users[u] = p

\* The account of the name or address, with the password of p, not banned.
MayEnter(u, p) == users[u] = p /\ u \notin banned

FindUser(r) ==
  /\ pc[r] = "find"
  /\ \/ \E u \in Account :
          /\ MayEnter(u, job[r].person)
          /\ Becomes(r, "grant")
          /\ job' = [job EXCEPT ![r] = [Idle EXCEPT !.user = u]]
     \/ Ends(r)
  /\ UNCHANGED <<accounts, tokens, faults>>

-----------------------------------------------------------------------------
(* Refresh *)

\* Deleted rows of refresh_tokens; the error is ignored, the rows then stay.
DeleteTokens(rows) ==
  /\ \/ live' = live \ rows /\ UNCHANGED faults
     \/ faults < MaxFaults /\ faults' = faults + 1 /\ UNCHANGED live
  /\ UNCHANGED <<accounts, issued>>

TokensOf(u) == {t \in Token : issued[t].user = u}

\* GetRefreshToken: 401 without a row.  No time is kept here: the row of any
\* token may be found to have expired.
ReadToken(r) ==
  /\ pc[r] = "read"
  /\ \/ job[r].token \notin live /\ Ends(r)
     \/ job[r].token \in live /\ pc' \in {[pc EXCEPT ![r] = s] : s \in {"drop", "user"}} /\ UNCHANGED job
  /\ UNCHANGED <<accounts, tokens, faults>>

DropExpired(r) == pc[r] = "drop" /\ DeleteTokens({job[r].token}) /\ Ends(r)

ReadUser(r) ==
  LET u == issued[job[r].token].user IN
  /\ pc[r] = "user"
  /\ \/ u \in banned /\ Becomes(r, "purge")
     \/ u \notin banned /\ Becomes(r, "rotate")
  /\ job' = [job EXCEPT ![r].user = u]
  /\ UNCHANGED <<accounts, tokens, faults>>

Purge(r) == pc[r] = "purge" /\ DeleteTokens(TokensOf(job[r].user)) /\ Ends(r)

\* The old token stays (mutant).
Keep(t) == {}

\* Every token of the account is rotated away (mutant).
AllOfAccount(t) == TokensOf(issued[t].user)

\* What DeleteRefreshToken deletes.
Rotated(t) == {t}

Rotate(r) ==
  /\ pc[r] = "rotate"
  /\ DeleteTokens(Rotated(job[r].token))
  /\ Becomes(r, "grant")
  /\ UNCHANGED job

\* CreateRefreshToken: the last statement of all three requests.
Grant(r) ==
  /\ pc[r] = "grant"
  /\ issued' = Append(issued, [user |-> job[r].user, from |-> job[r].token])
  /\ live' = live \cup {Len(issued) + 1}
  /\ Ends(r)
  /\ UNCHANGED <<accounts, faults>>

-----------------------------------------------------------------------------
(* The surroundings *)

\* The role is set in the database.
Ban(u) ==
  /\ u \notin banned
  /\ banned' = banned \cup {u}
  /\ UNCHANGED <<users, tokens, faults, pc, job>>

Serve(r) == \/ LookUp(r) \/ InsertUser(r) \/ CreateUser(r) \/ FindUser(r)
            \/ ReadToken(r) \/ DropExpired(r) \/ ReadUser(r) \/ Purge(r)
            \/ Rotate(r) \/ Grant(r)

Next == \/ \E r \in Requests : Register(r) \/ Login(r) \/ RefreshToken(r) \/ Serve(r) \/ Fails(r)
        \/ \E u \in Account : Ban(u)

\* A statement is answered or fails, so a request that can go on does.  The
\* database wakes who waits for an entry of a unique index when its holder
\* ends: who finds it free again and again goes on some day.
Fairness == \A r \in Requests : SF_vars(Serve(r))

Spec == Init /\ [][Next]_vars /\ Fairness

-----------------------------------------------------------------------------

\* Whatever registrations race, no name and no address has two accounts: the
\* look-ups may all have found nothing.
UniqueAccounts ==
  \A u, v \in Account : u # v => /\ users[u].name # users[v].name
                                 /\ users[u].email # users[v].email

\* A refresh token is read, deleted and replaced in separate statements, and
\* the result of the delete is ignored.  It may therefore be exchanged more
\* than once, but only by the requests that were in progress together, and
\* once more for each delete that failed.
RotationBound ==
  \A t \in Token : Cardinality({k \in Token : issued[k].from = t}) <= Cardinality(Requests) + faults

\* A session ends by a request with its own token, or with all of an account
\* that is banned: never by what happens to the other sessions.
SessionsIndependent ==
  [][\A t \in live \ live' : \/ \E r \in Requests : job[r].token = t
                             \/ issued[t].user \in banned]_vars

\* The account's requests that have been through the check of its role.
Admitted(u) == {r \in Requests : pc[r] \in {"rotate", "grant"} /\ job[r].user = u}

\* A banned account whose tokens are gone stays without: nothing that begins
\* after the ban is granted a token, whatever was read before it.
Excluded(u) == u \in banned /\ TokensOf(u) \cap live = {} /\ Admitted(u) = {}
BanHolds == [][\A u \in Account : Excluded(u) => Excluded(u)']_vars

\* Every request is answered, also when it waits for the account of another
\* one to be committed.
RequestsFinish == \A r \in Requests : pc[r] # "idle" ~> pc[r] = "idle"
=============================================================================
