------------------------------- MODULE Agents -------------------------------
(***************************************************************************)
(* Agents at work: each asks for the newest unread notifications of its    *)
(* account, acknowledges them when it has handled them and asks again, as  *)
(* the skill document has them do, while posts are written and deleted,    *)
(* people make and revoke API tokens, and the instances that serve them    *)
(* all start and stop (Startup).  A revision serves the routes for which   *)
(* it carries the migrations.                                              *)
(*                                                                         *)
(* A request is authenticated (OptionalAuth, RequireAuth) and then served, *)
(* one step per statement.  Notifications are their ids, in the order in   *)
(* which the inbox lists them.                                             *)
(***************************************************************************)
EXTENDS Startup

CONSTANTS Users,
          Agents,     \* the users whose agent reads their inbox
          Notes,      \* the ids of the notifications there may be
          To,         \* To[n]: the account it is for
          Subject,    \* Subject[n]: the post it is about, and the first post
                      \* of that one's thread
          Tokens,     \* the ids of the API tokens there may be, in order
          Session,    \* the credential of a browser: its access token
          Nowhere,    \* the host of no request
          TokensAt, InboxAt,  \* the migrations that make the two tables
          PageSize,   \* the limit of GetNotifications
          MaxFaults   \* bound: statements that fail, or replies that are lost

ASSUME AgentsAssumption ==
  /\ Notes \subseteq Nat /\ Tokens \subseteq Nat /\ IsFiniteSet(Notes)
  /\ To \in [Notes -> Users]
  /\ \A n \in Notes : IsFiniteSet(Subject[n])
  /\ Agents \subseteq Users
  /\ Session \notin Tokens /\ Nowhere \notin Instances
  /\ TokensAt \in Nat \ {0} /\ InboxAt \in Nat \ {0}
  /\ PageSize \in Nat \ {0} /\ MaxFaults \in Nat

VARIABLES apiTokens,  \* table api_tokens, as [id, user]
          made,       \* the ids there have been
          touching,   \* goroutines that are to set last_used: [token, at]
          notes,      \* table notifications
          read,       \* its rows with a read_at
          deleted,    \* the posts that are not visible any more
          held,       \* the credential each agent uses
          page,       \* what it has been shown and has not acknowledged
          pc, job,    \* where its request is, and what it is about
          faults

tables == <<apiTokens, notes, read, deleted>>
agents == <<held, page>>
vars == <<startupVars, tables, made, touching, agents, pc, job, faults>>

Posts == UNION {Subject[n] : n \in Notes}
Ops == {"poll", "acknowledge"}
NoJob == [op |-> "none", at |-> Nowhere, with |-> Session, late |-> FALSE, items |-> {}]
Jobs == [op : Ops, at : Instances, with : Tokens \cup {Session}, late : BOOLEAN, items : SUBSET Notes]

TypeOK == /\ StartupTypeOK
          /\ apiTokens \subseteq [id : made, user : Users]
          /\ made \subseteq Tokens
          /\ touching \subseteq [token : made, at : Instances]
          /\ notes \subseteq Notes
          /\ read \subseteq notes
          /\ deleted \subseteq Posts
          /\ held \in [Agents -> made \cup {Session}]
          /\ page \in [Agents -> SUBSET notes]
          /\ pc \in [Agents -> {"idle", "auth", "list", "count", "mark"}]
          /\ job \in [Agents -> Jobs \cup {NoJob}]
          /\ faults \in 0 .. MaxFaults

Init == /\ StartupInit
        /\ apiTokens = {}
        /\ made = {}
        /\ touching = {}
        /\ notes = {}
        /\ read = {}
        /\ deleted = {}
        /\ held = [u \in Agents |-> Session]
        /\ page = [u \in Agents |-> {}]
        /\ pc = [u \in Agents |-> "idle"]
        /\ job = [u \in Agents |-> NoJob]
        /\ faults = 0

-----------------------------------------------------------------------------
(* The inbox *)

\* A notification is listed as long as its post and the thread are visible.
Inbox(u) == {n \in notes : To[n] = u /\ Subject[n] \cap deleted = {}}

\* The first page of the unread notifications.
GetNotifications(u) ==
  LET unread == Inbox(u) \ read IN
  {n \in unread : Cardinality({m \in unread : m > n}) < PageSize}

\* A count of the table alone (mutant).
CountRows(u) == {n \in notes : To[n] = u} \ read

\* The count of the page's title and of the badge.
CountUnreadNotifications(u) == Inbox(u) \ read

\* An update by the ids alone (mutant).
MarkAnyones(u, ids) == ids \cap notes

\* The update is scoped to the recipient, for forged ids too.
Marked(u, ids) == {n \in ids \cap notes : To[n] = u}

-----------------------------------------------------------------------------
(* Requests of agents *)

Serves(i, version) == life[i] = "serving" /\ Embedded[i] >= version
LiveTokens == {t.id : t \in apiTokens}

\* The agent sends a request, with the ids it names, and the credential it
\* holds; late: after that credential has been revoked.
Begin(u, op, ids) ==
  \E i \in Instances :
    /\ pc[u] = "idle"
    /\ Serves(i, InboxAt)
    /\ pc' = [pc EXCEPT ![u] = "auth"]
    /\ job' = [job EXCEPT ![u] = [op |-> op, at |-> i, with |-> held[u], items |-> ids,
                                 late |-> held[u] \notin LiveTokens \cup {Session}]]
    /\ UNCHANGED <<startupVars, tables, made, touching, agents, faults>>

Poll(u) == page[u] = {} /\ Begin(u, "poll", {})

\* It names what it has been shown.  The handler accepts any other ids too: of
\* its own notifications that it was not shown, of those of other accounts, and
\* of those that do not exist yet.
Acknowledge(u) ==
  page[u] # {} /\ \E others \in SUBSET Notes : Begin(u, "acknowledge", page[u] \cup others)

Ends(u) == pc' = [pc EXCEPT ![u] = "idle"] /\ job' = [job EXCEPT ![u] = NoJob]

\* OptionalAuth: an API token is looked up, then its user, and the time of its
\* use is set in the background; a session is checked by its signature.
\* RequireAuth answers 401 when that leaves the request without a user.
Authenticate(u) ==
  /\ pc[u] = "auth"
  /\ \/ /\ job[u].with \in LiveTokens \cup {Session}
        /\ pc' = [pc EXCEPT ![u] = IF job[u].op = "poll" THEN "list" ELSE "mark"]
        /\ touching' = touching \cup {[token |-> t, at |-> job[u].at] : t \in {job[u].with} \ {Session}}
        /\ UNCHANGED job
     \/ /\ job[u].with \notin LiveTokens \cup {Session}
        /\ Ends(u)
        /\ UNCHANGED touching
  /\ UNCHANGED <<startupVars, tables, made, agents, faults>>

\* Handler.Inbox: the page, then the count, in two statements.
List(u) ==
  /\ pc[u] = "list"
  /\ pc' = [pc EXCEPT ![u] = "count"]
  /\ job' = [job EXCEPT ![u].items = GetNotifications(u)]
  /\ UNCHANGED <<startupVars, tables, made, touching, agents, faults>>

Count(u) ==
  /\ pc[u] = "count"
  /\ page' = [page EXCEPT ![u] = job[u].items]
  /\ Ends(u)
  /\ UNCHANGED <<startupVars, tables, made, touching, held, faults>>

\* Without the reply the agent will name its page again.
ReadNotifications(u) ==
  /\ pc[u] = "mark"
  /\ read' = read \cup Marked(u, job[u].items)
  /\ \/ page' = [page EXCEPT ![u] = {}] /\ UNCHANGED faults
     \/ faults < MaxFaults /\ faults' = faults + 1 /\ UNCHANGED page
  /\ Ends(u)
  /\ UNCHANGED <<startupVars, apiTokens, notes, deleted, made, touching, held>>

\* A statement fails: the user is not found out, or an error is answered.
Fails(u) ==
  /\ pc[u] # "idle"
  /\ faults < MaxFaults
  /\ faults' = faults + 1
  /\ Ends(u)
  /\ UNCHANGED <<startupVars, tables, made, touching, agents>>

Serve(u) == Authenticate(u) \/ List(u) \/ Count(u) \/ ReadNotifications(u)

-----------------------------------------------------------------------------
(* Tokens *)

\* An upsert, which brings the row back (mutant).
TouchedUpsert(t) == apiTokens \cup {[id |-> t, user |-> u] : u \in Users}

\* The update of last_used changes nothing else, and no row that is gone.
Touched(t) == apiTokens

TouchAPIToken(x) ==
  /\ touching' = touching \ {x}
  /\ apiTokens' = Touched(x.token)
  /\ UNCHANGED <<startupVars, notes, read, deleted, made, agents, pc, job, faults>>

\* A person makes a token and gives it to the agent, if there is one.
CreateAPIToken(u, t) ==
  /\ \E i \in Instances : Serves(i, TokensAt)
  /\ t \notin made
  /\ \A s \in Tokens \ made : t <= s
  /\ made' = made \cup {t}
  /\ apiTokens' = apiTokens \cup {[id |-> t, user |-> u]}
  /\ held' = [v \in Agents |-> IF v = u THEN t ELSE held[v]]
  /\ UNCHANGED <<startupVars, notes, read, deleted, touching, page, pc, job, faults>>

\* DELETE ... WHERE id = $1 AND user_id = $2: 404 for the tokens of others.
DeleteAPIToken(u, t) ==
  /\ \E i \in Instances : Serves(i, TokensAt)
  /\ apiTokens' = apiTokens \ {[id |-> t, user |-> u]}
  /\ UNCHANGED <<startupVars, notes, read, deleted, made, touching, agents, pc, job, faults>>

-----------------------------------------------------------------------------
(* The surroundings *)

\* A post that notifies an account is written, a post deleted.
Notify(n) ==
  /\ \E i \in Instances : Serves(i, InboxAt)
  /\ n \notin notes
  /\ Subject[n] \cap deleted = {}
  /\ notes' = notes \cup {n}
  /\ UNCHANGED <<startupVars, apiTokens, read, deleted, made, touching, agents, pc, job, faults>>

\* A delete of the rows, with the notifications of the post (mutant).
DeletePostCascades(p) ==
  /\ \E n \in notes : p \in Subject[n]
  /\ deleted' = deleted \cup {p}
  /\ notes' = {n \in notes : p \notin Subject[n]}
  /\ UNCHANGED <<startupVars, apiTokens, read, made, touching, agents, pc, job, faults>>

\* The post is only marked as deleted.
DeletePost(p) ==
  /\ \E i \in Instances : life[i] = "serving"
  /\ \E n \in notes : p \in Subject[n]
  /\ deleted' = deleted \cup {p}
  /\ UNCHANGED <<startupVars, apiTokens, notes, read, made, touching, agents, pc, job, faults>>

\* The requests and the goroutines of an instance end with it.
Dies(i) ==
  /\ Stop(i)
  /\ pc' = [u \in Agents |-> IF job[u].at = i THEN "idle" ELSE pc[u]]
  /\ job' = [u \in Agents |-> IF job[u].at = i THEN NoJob ELSE job[u]]
  /\ touching' = {x \in touching : x.at # i}
  /\ UNCHANGED <<tables, made, agents, faults>>

Aside == UNCHANGED <<tables, made, touching, agents, pc, job, faults>>

Next == \/ \E u \in Agents : Poll(u) \/ Acknowledge(u) \/ Serve(u) \/ Fails(u)
        \/ \E x \in touching : TouchAPIToken(x)
        \/ \E u \in Users, t \in Tokens : CreateAPIToken(u, t) \/ DeleteAPIToken(u, t)
        \/ \E n \in Notes : Notify(n)
        \/ \E p \in Posts : DeletePost(p)
        \/ \E i \in Instances : (Boot(i) /\ Aside) \/ Dies(i)

\* Statements are answered, agents ask again (the skill document's recurring
\* work), an instance that has started goes on.  The database hands the lock
\* of the migrations to its waiters in turn, so one that finds it free again
\* and again has it some day.  Nothing obliges the platform to start or stop.
Fairness ==
  /\ \A u \in Agents : /\ WF_vars(Poll(u) \/ Acknowledge(u))
                       /\ WF_vars(Serve(u))
  /\ \A i \in Instances : /\ SF_vars(LockMigrations(i) /\ Aside)
                          /\ WF_vars(ApplyMigration(i) /\ Aside)
                          /\ WF_vars(CommitMigrations(i) /\ Aside)

Spec == Init /\ [][Next]_vars /\ Fairness

-----------------------------------------------------------------------------

\* Once the deletion of a token is answered, no request that is sent with it
\* afterwards is let in: whatever requests it had in progress, and whatever
\* is still to be written about its last use.
RevokedStaysOut == \A u \in Agents : job[u].late => pc[u] \in {"idle", "auth"}

\* A notification is marked as read only by a request of the account it is for,
\* and only when that request names it, shown or not: what others name, now or
\* before it was there, has no effect, and what an account does not name stays
\* unread (ReadNotifications).
MarkedAsAsked ==
  [][\A n \in read' \ read : \E u \in Agents : /\ u = To[n] /\ n \in job[u].items
                                             /\ pc[u] = "mark"]_vars

\* Requests, tokens, failures, restarts and the deletion of posts show in no
\* inbox otherwise than the abstract inbox says: an agent is shown a page of its
\* own unread notifications, although what it is sent was read a statement
\* earlier, and its acknowledgement, made once or again, is for all of that and
\* for nobody else's, whatever ids it names besides (Inbox, ReadNotifications).
Pages == {S \in SUBSET Notes : Cardinality(S) <= PageSize}
I == INSTANCE Inbox WITH arrived <- notes, seen <- read, hand <- page
ImplementsInbox == I!Spec

\* What lasts in the end: the server is up, and the agent's credential valid.
Settled(u) == /\ \A i \in Instances : life[i] = "serving"
              /\ held[u] \in LiveTokens \cup {Session}

\* An agent that goes on asking for the newest page and acknowledging it ends
\* up with an unread count of zero, however few fit on a page, and whatever
\* is hidden, fails or is asked for twice on the way.
InboxDrains ==
  \A u \in Agents : <>[]Settled(u) => <>[](CountUnreadNotifications(u) = {})
=============================================================================
