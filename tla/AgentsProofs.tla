---------------------------- MODULE AgentsProofs ----------------------------
(***************************************************************************)
(* What Agents and Startup guarantee for any instances and revisions, any  *)
(* users, tokens and notifications.                                        *)
(*                                                                         *)
(* The migrations: at most one instance is in their transaction, what it   *)
(* has executed is not in the schema, and together they hold every version *)
(* up to where it is.  The requests: what a late one needs is a row of     *)
(* api_tokens, and the row of a revoked token never comes back.            *)
(***************************************************************************)
EXTENDS Agents, FiniteSetTheorems, WellFoundedInduction, TLAPS

-----------------------------------------------------------------------------
(* Startup *)

\* An open transaction of the migrations; without one nothing is executed.
Walks(i) == /\ life[i] = "migrating" => /\ walk[i] <= Embedded[i]
                                        /\ 1 .. walk[i] \subseteq schema \cup applying[i]
                                        /\ applying[i] \subseteq 1 .. walk[i]
                                        /\ applying[i] \cap schema = {}
            /\ life[i] # "migrating" => walk[i] = 0 /\ applying[i] = {}

OneMigrates == \A i, j \in Instances : life[i] = "migrating" /\ life[j] = "migrating" => i = j

StartupInv == /\ StartupTypeOK
              /\ \A i \in Instances : Walks(i)
              /\ OneMigrates
              /\ SchemaReady

USE StartupAssumption

LEMMA StartupBegins == StartupInit => StartupInv
<1> SUFFICES ASSUME StartupInit PROVE StartupInv
  OBVIOUS
<1>1. StartupTypeOK
  BY DEF StartupInit, StartupTypeOK, Lives
<1>2. \A i \in Instances : Walks(i)
  BY DEF StartupInit, Walks
<1>3. OneMigrates
  BY DEF StartupInit, OneMigrates
<1>4. SchemaReady
  BY DEF StartupInit, SchemaReady
<1> QED BY <1>1, <1>2, <1>3, <1>4 DEF StartupInv

LEMMA BootKeeps == ASSUME StartupInv, NEW i \in Instances, Boot(i) PROVE StartupInv'
<1> USE DEF StartupInv, StartupTypeOK, Lives
<1>1. CASE Launch(i)
  <2>1. StartupTypeOK' BY <1>1 DEF Launch
  <2>2. \A j \in Instances : Walks(j)' BY <1>1 DEF Launch, Walks
  <2>3. OneMigrates' BY <1>1 DEF Launch, OneMigrates
  <2>4. SchemaReady' BY <1>1 DEF Launch, SchemaReady
  <2> QED BY <2>1, <2>2, <2>3, <2>4
<1>2. CASE LockMigrations(i)
  <2>1. StartupTypeOK' BY <1>2 DEF LockMigrations
  <2>2. \A j \in Instances : Walks(j)' BY <1>2 DEF LockMigrations, Walks
  <2>3. OneMigrates' BY <1>2 DEF LockMigrations, LockHolders, OneMigrates
  <2>4. SchemaReady' BY <1>2 DEF LockMigrations, SchemaReady
  <2> QED BY <2>1, <2>2, <2>3, <2>4
<1>3. CASE ApplyMigration(i)
  <2>1. StartupTypeOK' BY <1>3 DEF ApplyMigration
  <2>2. \A j \in Instances : Walks(j)' BY <1>3 DEF ApplyMigration, Walks
  <2>3. OneMigrates' BY <1>3 DEF ApplyMigration, OneMigrates
  <2>4. SchemaReady' BY <1>3 DEF ApplyMigration, SchemaReady
  <2> QED BY <2>1, <2>2, <2>3, <2>4
<1>4. CASE CommitMigrations(i)
  <2>0. /\ schema' = schema \cup applying[i]
        /\ 1 .. Embedded[i] \subseteq schema'
        /\ applying[i] \subseteq 1 .. Embedded[i]
        /\ life[i] = "migrating"
        /\ life' = [life EXCEPT ![i] = "serving"]
    BY <1>4 DEF CommitMigrations, Walks
  <2>1. StartupTypeOK' BY <1>4 DEF CommitMigrations
  <2>2. \A j \in Instances : Walks(j)'
    <3> SUFFICES ASSUME NEW j \in Instances PROVE Walks(j)'
      OBVIOUS
    <3>1. CASE j = i BY <3>1, <1>4 DEF CommitMigrations, Walks
    <3>2. CASE j # i
      <4>1. life[j] # "migrating" BY <3>2, <2>0 DEF OneMigrates
      <4> QED BY <4>1, <3>2, <1>4 DEF CommitMigrations, Walks
    <3> QED BY <3>1, <3>2
  <2>3. OneMigrates' BY <1>4 DEF CommitMigrations, OneMigrates
  <2>4. SchemaReady'
    <3>1. \A j \in Instances : life'[j] = "serving" => 1 .. Embedded[j] \subseteq schema'
      BY <2>0 DEF SchemaReady
    <3>2. \A m \in schema' : 1 .. m \subseteq schema'
      <4> SUFFICES ASSUME NEW m \in schema' PROVE 1 .. m \subseteq schema'
        OBVIOUS
      <4>1. CASE m \in schema BY <4>1, <2>0 DEF SchemaReady
      <4>2. CASE m \in applying[i]
        <5>1. 1 .. m \subseteq 1 .. Embedded[i] BY <4>2, <2>0
        <5> QED BY <5>1, <2>0
      <4> QED BY <4>1, <4>2, <2>0
    <3> QED BY <3>1, <3>2 DEF SchemaReady
  <2> QED BY <2>1, <2>2, <2>3, <2>4
<1> QED BY <1>1, <1>2, <1>3, <1>4 DEF Boot

LEMMA StopKeeps == ASSUME StartupInv, NEW i \in Instances, Stop(i) PROVE StartupInv'
<1> USE DEF StartupInv, StartupTypeOK, Lives
<1>1. StartupTypeOK' BY DEF Stop
<1>2. \A j \in Instances : Walks(j)' BY DEF Stop, Walks
<1>3. OneMigrates' BY DEF Stop, OneMigrates
<1>4. SchemaReady' BY DEF Stop, SchemaReady
<1> QED BY <1>1, <1>2, <1>3, <1>4

LEMMA StartupStutters == ASSUME StartupInv, UNCHANGED startupVars PROVE StartupInv'
BY DEF StartupInv, StartupTypeOK, Walks, OneMigrates, SchemaReady, startupVars

LEMMA StartupStep == StartupInv /\ [Next]_vars => StartupInv'
<1> SUFFICES ASSUME StartupInv, [Next]_vars PROVE StartupInv'
  OBVIOUS
<1>1. CASE UNCHANGED startupVars
  BY <1>1, StartupStutters
<1>2. CASE \E i \in Instances : Boot(i)
  BY <1>2, BootKeeps
<1>3. CASE \E i \in Instances : Stop(i)
  BY <1>3, StopKeeps
<1> QED BY <1>1, <1>2, <1>3 DEF vars, Next, Poll, Acknowledge, Begin, Serve, Authenticate,
      List, Count, ReadNotifications, Fails, TouchAPIToken, CreateAPIToken, DeleteAPIToken,
      Notify, DeletePost, Dies

\* Instances take requests with the schema of their revision, whatever
\* revisions start, fail and start again together (RunMigrations).
THEOREM SchemaIsReady == Spec => []SchemaReady
<1>1. Init => StartupInv
  BY StartupBegins DEF Init
<1>2. StartupInv => SchemaReady
  BY DEF StartupInv
<1> QED BY <1>1, <1>2, StartupStep, PTL DEF Spec

\* No migration is executed that is in the schema, or by two instances at a
\* time (the advisory lock of RunMigrations).
THEOREM MigrationsApplyOnce == Spec => []AppliedOnce
<1>1. Init => StartupInv
  BY StartupBegins DEF Init
<1>2. StartupInv => AppliedOnce
  <2> SUFFICES ASSUME StartupInv PROVE AppliedOnce
    OBVIOUS
  <2>1. \A i \in Instances : applying[i] \cap schema = {}
    BY DEF StartupInv, Walks
  <2>2. ASSUME NEW i \in Instances, NEW j \in Instances \ {i}
        PROVE applying[i] \cap applying[j] = {}
    <3>1. life[i] # "migrating" \/ life[j] # "migrating"
      BY DEF StartupInv, OneMigrates
    <3> QED BY <3>1 DEF StartupInv, Walks
  <2> QED BY <2>1, <2>2 DEF AppliedOnce
<1> QED BY <1>1, <1>2, StartupStep, PTL DEF Spec

-----------------------------------------------------------------------------
(* Requests *)

USE AgentsAssumption

\* The types of the tables and the agents.
TablesOK == /\ apiTokens \subseteq [id : made, user : Users]
            /\ made \subseteq Tokens
            /\ touching \subseteq [token : made, at : Instances]
            /\ notes \subseteq Notes
            /\ read \subseteq notes
            /\ deleted \subseteq Posts
            /\ held \in [Agents -> made \cup {Session}]
            /\ page \in [Agents -> SUBSET notes]
            /\ faults \in 0 .. MaxFaults

ControlOK == /\ pc \in [Agents -> {"idle", "auth", "list", "count", "mark"}]
             /\ job \in [Agents -> Jobs \cup {NoJob}]

\* A request has a host, what it has listed is there, and the credential of a
\* late one was made and has no row any more.
RequestInv(u) == /\ pc[u] # "idle" => job[u] \in Jobs
                 /\ pc[u] = "count" => job[u].items \subseteq notes
                 /\ job[u].with \in made \cup {Session}
                 /\ job[u].late => /\ pc[u] \in {"idle", "auth"}
                                  /\ job[u].with \in made \ LiveTokens

IInv == StartupInv /\ TablesOK /\ ControlOK /\ \A u \in Agents : RequestInv(u)

LEMMA AgentsBegin == Init => IInv
<1> SUFFICES ASSUME Init PROVE IInv
  OBVIOUS
<1>1. StartupInv BY StartupBegins DEF Init
<1>2. TablesOK BY DEF Init, TablesOK
<1>3. ControlOK BY DEF Init, ControlOK
<1>4. \A u \in Agents : RequestInv(u) BY DEF Init, RequestInv, NoJob
<1> QED BY <1>1, <1>2, <1>3, <1>4 DEF IInv

\* What leaves the tables and the agents as they are keeps their types.
LEMMA TablesStutter == TablesOK /\ UNCHANGED <<tables, made, touching, agents, faults>> => TablesOK'
BY DEF TablesOK, tables, agents

LEMMA BeginKeeps ==
  ASSUME IInv, NEW v \in Agents, NEW op \in Ops, NEW ids \in SUBSET Notes, Begin(v, op, ids)
  PROVE  IInv'
<1>1. PICK i \in Instances :
        /\ pc' = [pc EXCEPT ![v] = "auth"]
        /\ job' = [job EXCEPT ![v] = [op |-> op, at |-> i, with |-> held[v], items |-> ids,
                                     late |-> held[v] \notin LiveTokens \cup {Session}]]
  BY DEF Begin
<1>2. UNCHANGED <<startupVars, tables, made, touching, agents, faults>>
  BY DEF Begin
<1>3. held[v] \in made \cup {Session} /\ made \subseteq Tokens
  BY DEF IInv, TablesOK
<1>4. job'[v] \in Jobs
  BY <1>1, <1>3 DEF IInv, ControlOK, Jobs
<1>5. StartupInv' BY <1>2, StartupStutters DEF IInv
<1>6. TablesOK' BY <1>2, TablesStutter DEF IInv
<1>7. ControlOK' BY <1>1, <1>4 DEF IInv, ControlOK
<1>8. ASSUME NEW u \in Agents PROVE RequestInv(u)'
  <2>1. LiveTokens' = LiveTokens BY <1>2 DEF LiveTokens, tables
  <2>2. notes' = notes /\ made' = made BY <1>2 DEF tables
  <2>3. CASE u = v
    <3>1. job'[v].with = held[v] /\ pc'[v] = "auth"
      BY <1>1 DEF IInv, ControlOK
    <3>2. job'[v].late = (held[v] \notin LiveTokens \cup {Session})
      BY <1>1 DEF IInv, ControlOK
    <3> QED BY <2>1, <2>2, <2>3, <3>1, <3>2, <1>3, <1>4 DEF RequestInv
  <2>4. CASE u # v
    <3>1. job'[u] = job[u] /\ pc'[u] = pc[u] BY <2>4, <1>1 DEF IInv, ControlOK
    <3> QED BY <3>1, <2>1, <2>2 DEF IInv, RequestInv
  <2> QED BY <2>3, <2>4
<1> QED BY <1>5, <1>6, <1>7, <1>8 DEF IInv

\* A request that is left alone, while rows are added and the tokens that are
\* not there any more stay away.
LEMMA RequestStutters ==
  ASSUME NEW u, RequestInv(u),
         pc'[u] = pc[u], job'[u] = job[u],
         notes \subseteq notes', made \subseteq made',
         LiveTokens' \cap made \subseteq LiveTokens
  PROVE  RequestInv(u)'
BY DEF RequestInv

LEMMA RequestEnds == ASSUME NEW u, pc'[u] = "idle", job'[u] = NoJob PROVE RequestInv(u)'
BY DEF RequestInv, NoJob

\* The end of one request leaves the others as they are.
LEMMA EndsKeeps ==
  ASSUME IInv, NEW v \in Agents, Ends(v), UNCHANGED <<apiTokens, notes, made>>
  PROVE  ControlOK' /\ \A u \in Agents : RequestInv(u)'
<1>1. ControlOK' BY DEF Ends, IInv, ControlOK
<1>2. ASSUME NEW u \in Agents PROVE RequestInv(u)'
  <2>1. CASE u = v
    <3>1. pc'[v] = "idle" /\ job'[v] = NoJob BY DEF Ends, IInv, ControlOK
    <3> QED BY <3>1, <2>1, RequestEnds
  <2>2. CASE u # v
    <3>1. pc'[u] = pc[u] /\ job'[u] = job[u] BY <2>2 DEF Ends, IInv, ControlOK
    <3>2. LiveTokens' = LiveTokens BY DEF LiveTokens
    <3>3. RequestInv(u) BY DEF IInv
    <3> QED BY <3>1, <3>2, <3>3, RequestStutters
  <2> QED BY <2>1, <2>2
<1> QED BY <1>1, <1>2

\* What leaves every request as it is, and brings no token back.
LEMMA RequestsStay ==
  ASSUME IInv, UNCHANGED <<pc, job>>,
         notes \subseteq notes', made \subseteq made',
         LiveTokens' \cap made \subseteq LiveTokens
  PROVE  ControlOK' /\ \A u \in Agents : RequestInv(u)'
<1>1. ControlOK' BY DEF IInv, ControlOK
<1>2. ASSUME NEW u \in Agents PROVE RequestInv(u)'
  <2>1. RequestInv(u) BY DEF IInv
  <2> QED BY <2>1, RequestStutters
<1> QED BY <1>1, <1>2

LEMMA AuthenticateKeeps == ASSUME IInv, NEW v \in Agents, Authenticate(v) PROVE IInv'
<1>1. UNCHANGED <<startupVars, tables, made, agents, faults>> BY DEF Authenticate
<1>2. StartupInv' BY <1>1, StartupStutters DEF IInv
<1>3. job[v] \in Jobs /\ job[v].with \in made \cup {Session}
  BY DEF Authenticate, IInv, RequestInv
<1>4. CASE /\ job[v].with \in LiveTokens \cup {Session}
           /\ pc' = [pc EXCEPT ![v] = IF job[v].op = "poll" THEN "list" ELSE "mark"]
           /\ touching' = touching \cup {[token |-> t, at |-> job[v].at] :
                                          t \in {job[v].with} \ {Session}}
           /\ UNCHANGED job
  <2>1. job[v].at \in Instances BY <1>3 DEF Jobs
  <2>2. touching' \subseteq [token : made, at : Instances]
    BY <1>3, <1>4, <2>1 DEF IInv, TablesOK
  <2>3. TablesOK' BY <1>1, <2>2 DEF IInv, TablesOK, tables, agents
  <2>4. ControlOK' BY <1>4 DEF IInv, ControlOK
  <2>5. ASSUME NEW u \in Agents PROVE RequestInv(u)'
    <3>1. LiveTokens' = LiveTokens /\ notes' = notes /\ made' = made
      BY <1>1 DEF LiveTokens, tables
    <3>2. RequestInv(u) BY DEF IInv
    <3>3. CASE u = v
      <4>1. ~ job[v].late BY <1>3, <1>4, <3>2, <3>3, AgentsAssumption DEF RequestInv, IInv, TablesOK
      <4> QED BY <4>1, <3>1, <3>2, <3>3, <1>3, <1>4 DEF RequestInv
    <3>4. CASE u # v
      <4>1. pc'[u] = pc[u] BY <3>4, <1>4 DEF IInv, ControlOK
      <4> QED BY <4>1, <3>1, <3>2, <1>4, RequestStutters
    <3> QED BY <3>3, <3>4
  <2> QED BY <1>2, <2>3, <2>4, <2>5 DEF IInv
<1>5. CASE Ends(v) /\ UNCHANGED touching
  <2>1. TablesOK' BY <1>1, <1>5, TablesStutter DEF IInv
  <2>2. UNCHANGED <<apiTokens, notes, made>> BY <1>1 DEF tables
  <2> QED BY <1>2, <1>5, <2>1, <2>2, EndsKeeps DEF IInv
<1> QED BY <1>4, <1>5 DEF Authenticate

LEMMA ListKeeps == ASSUME IInv, NEW v \in Agents, List(v) PROVE IInv'
<1>1. UNCHANGED <<startupVars, tables, made, touching, agents, faults>> BY DEF List
<1>2. StartupInv' BY <1>1, StartupStutters DEF IInv
<1>3. TablesOK' BY <1>1, TablesStutter DEF IInv
<1>4. GetNotifications(v) \subseteq notes /\ notes \subseteq Notes
  BY DEF GetNotifications, Inbox, IInv, TablesOK
<1>5. job[v] \in Jobs BY DEF List, IInv, RequestInv
<1>6. /\ job' = [job EXCEPT ![v].items = GetNotifications(v)]
      /\ pc' = [pc EXCEPT ![v] = "count"]
      /\ pc[v] = "list"
  BY DEF List
<1>7. /\ job'[v].items = GetNotifications(v)
      /\ job'[v].with = job[v].with
      /\ job'[v].late = job[v].late
      /\ job'[v] \in Jobs
  BY <1>4, <1>5, <1>6 DEF IInv, ControlOK, Jobs
<1>8. ControlOK' BY <1>6, <1>7 DEF IInv, ControlOK
<1>9. ASSUME NEW u \in Agents PROVE RequestInv(u)'
  <2>1. LiveTokens' = LiveTokens /\ notes' = notes /\ made' = made
    BY <1>1 DEF LiveTokens, tables
  <2>2. RequestInv(u) BY DEF IInv
  <2>3. CASE u = v
    BY <2>1, <2>2, <2>3, <1>4, <1>6, <1>7 DEF RequestInv
  <2>4. CASE u # v
    <3>1. pc'[u] = pc[u] /\ job'[u] = job[u] BY <2>4, <1>6 DEF IInv, ControlOK
    <3> QED BY <3>1, <2>1, <2>2, RequestStutters
  <2> QED BY <2>3, <2>4
<1> QED BY <1>2, <1>3, <1>8, <1>9 DEF IInv

LEMMA CountKeeps == ASSUME IInv, NEW v \in Agents, Count(v) PROVE IInv'
<1>1. /\ UNCHANGED <<startupVars, tables, made, touching, held, faults>>
      /\ page' = [page EXCEPT ![v] = job[v].items]
      /\ Ends(v)
  BY DEF Count
<1>2. StartupInv' BY <1>1, StartupStutters DEF IInv
<1>3. job[v].items \subseteq notes BY DEF Count, IInv, RequestInv
<1>4. TablesOK' BY <1>1, <1>3 DEF IInv, TablesOK, tables
<1>5. UNCHANGED <<apiTokens, notes, made>> BY <1>1 DEF tables
<1> QED BY <1>1, <1>2, <1>4, <1>5, EndsKeeps DEF IInv

LEMMA ReadKeeps == ASSUME IInv, NEW v \in Agents, ReadNotifications(v) PROVE IInv'
<1>1. /\ UNCHANGED <<startupVars, apiTokens, notes, deleted, made, touching, held>>
      /\ Ends(v)
  BY DEF ReadNotifications
<1>2. /\ read' = read \cup Marked(v, job[v].items)
      /\ \/ page' = [page EXCEPT ![v] = {}] /\ UNCHANGED faults
         \/ faults < MaxFaults /\ faults' = faults + 1 /\ UNCHANGED page
  BY DEF ReadNotifications
<1>3. StartupInv' BY <1>1, StartupStutters DEF IInv
<1>4. read' \subseteq notes BY <1>2 DEF IInv, TablesOK, Marked
<1>5. page' \in [Agents -> SUBSET notes] BY <1>2 DEF IInv, TablesOK
<1>6. faults' \in 0 .. MaxFaults BY <1>2 DEF IInv, TablesOK
<1>7. TablesOK' BY <1>1, <1>4, <1>5, <1>6 DEF IInv, TablesOK
<1> QED BY <1>1, <1>3, <1>7, EndsKeeps DEF IInv

LEMMA FailsKeeps == ASSUME IInv, NEW v \in Agents, Fails(v) PROVE IInv'
<1>1. /\ UNCHANGED <<startupVars, tables, made, touching, agents>>
      /\ faults < MaxFaults /\ faults' = faults + 1
      /\ Ends(v)
  BY DEF Fails
<1>2. StartupInv' BY <1>1, StartupStutters DEF IInv
<1>3. TablesOK' BY <1>1 DEF IInv, TablesOK, tables, agents
<1>4. UNCHANGED <<apiTokens, notes, made>> BY <1>1 DEF tables
<1> QED BY <1>1, <1>2, <1>3, <1>4, EndsKeeps DEF IInv

\* The update of last_used (Touched): the row it finds is left alone, and one
\* that is gone is not made again.
LEMMA TouchKeeps == ASSUME IInv, NEW x \in touching, TouchAPIToken(x) PROVE IInv'
<1>1. /\ UNCHANGED <<startupVars, notes, read, deleted, made, agents, pc, job, faults>>
      /\ touching' \subseteq touching
      /\ apiTokens' = apiTokens
  BY DEF TouchAPIToken, Touched
<1>2. StartupInv' BY <1>1, StartupStutters DEF IInv
<1>3. TablesOK' BY <1>1 DEF IInv, TablesOK, agents
<1>4. LiveTokens' = LiveTokens BY <1>1 DEF LiveTokens
<1> QED BY <1>1, <1>2, <1>3, <1>4, RequestsStay DEF IInv

\* The id of a token is a new one, not that of a token that was revoked.
LEMMA CreateKeeps ==
  ASSUME IInv, NEW u \in Users, NEW t \in Tokens, CreateAPIToken(u, t) PROVE IInv'
<1>1. /\ UNCHANGED <<startupVars, notes, read, deleted, touching, page, pc, job, faults>>
      /\ t \notin made
      /\ made' = made \cup {t}
      /\ apiTokens' = apiTokens \cup {[id |-> t, user |-> u]}
      /\ held' = [v \in Agents |-> IF v = u THEN t ELSE held[v]]
  BY DEF CreateAPIToken
<1>2. StartupInv' BY <1>1, StartupStutters DEF IInv
<1>3. apiTokens' \subseteq [id : made', user : Users] BY <1>1 DEF IInv, TablesOK
<1>4. held' \in [Agents -> made' \cup {Session}] BY <1>1 DEF IInv, TablesOK
<1>5. touching' \subseteq [token : made', at : Instances] BY <1>1 DEF IInv, TablesOK
<1>6. TablesOK' BY <1>1, <1>3, <1>4, <1>5 DEF IInv, TablesOK
<1>7. \A x \in apiTokens' : x \in apiTokens \/ x.id = t BY <1>1
<1>8. LiveTokens' \cap made \subseteq LiveTokens BY <1>1, <1>7 DEF LiveTokens
<1> QED BY <1>1, <1>2, <1>6, <1>8, RequestsStay DEF IInv

LEMMA DeleteKeeps ==
  ASSUME IInv, NEW u \in Users, NEW t \in Tokens, DeleteAPIToken(u, t) PROVE IInv'
<1>1. /\ UNCHANGED <<startupVars, notes, read, deleted, made, touching, agents, pc, job, faults>>
      /\ apiTokens' \subseteq apiTokens
  BY DEF DeleteAPIToken
<1>2. StartupInv' BY <1>1, StartupStutters DEF IInv
<1>3. TablesOK' BY <1>1 DEF IInv, TablesOK, agents
<1>4. LiveTokens' \subseteq LiveTokens BY <1>1 DEF LiveTokens
<1> QED BY <1>1, <1>2, <1>3, <1>4, RequestsStay DEF IInv

LEMMA NotifyKeeps == ASSUME IInv, NEW n \in Notes, Notify(n) PROVE IInv'
<1>1. /\ UNCHANGED <<startupVars, apiTokens, read, deleted, made, touching, agents, pc, job, faults>>
      /\ notes' = notes \cup {n}
  BY DEF Notify
<1>2. StartupInv' BY <1>1, StartupStutters DEF IInv
<1>3. page' \in [Agents -> SUBSET notes'] BY <1>1 DEF IInv, TablesOK, agents
<1>4. TablesOK' BY <1>1, <1>3 DEF IInv, TablesOK, agents
<1>5. LiveTokens' = LiveTokens BY <1>1 DEF LiveTokens
<1> QED BY <1>1, <1>2, <1>4, <1>5, RequestsStay DEF IInv

LEMMA DeletePostKeeps == ASSUME IInv, NEW p \in Posts, DeletePost(p) PROVE IInv'
<1>1. /\ UNCHANGED <<startupVars, apiTokens, notes, read, made, touching, agents, pc, job, faults>>
      /\ deleted' = deleted \cup {p}
  BY DEF DeletePost
<1>2. StartupInv' BY <1>1, StartupStutters DEF IInv
<1>3. TablesOK' BY <1>1 DEF IInv, TablesOK, agents
<1>4. LiveTokens' = LiveTokens BY <1>1 DEF LiveTokens
<1> QED BY <1>1, <1>2, <1>3, <1>4, RequestsStay DEF IInv

LEMMA StartKeeps == ASSUME IInv, NEW i \in Instances, Boot(i), Aside PROVE IInv'
<1>1. UNCHANGED <<tables, made, touching, agents, pc, job, faults>> BY DEF Aside
<1>2. StartupInv' BY BootKeeps DEF IInv
<1>3. TablesOK' BY <1>1, TablesStutter DEF IInv
<1>4. LiveTokens' = LiveTokens /\ notes' = notes /\ made' = made
  BY <1>1 DEF LiveTokens, tables
<1> QED BY <1>1, <1>2, <1>3, <1>4, RequestsStay DEF IInv

LEMMA DiesKeeps == ASSUME IInv, NEW i \in Instances, Dies(i) PROVE IInv'
<1>1. /\ pc' = [u \in Agents |-> IF job[u].at = i THEN "idle" ELSE pc[u]]
      /\ job' = [u \in Agents |-> IF job[u].at = i THEN NoJob ELSE job[u]]
      /\ touching' \subseteq touching
      /\ UNCHANGED <<tables, made, agents, faults>>
  BY DEF Dies
<1>2. StartupInv' BY StopKeeps DEF IInv, Dies
<1>3. TablesOK' BY <1>1 DEF IInv, TablesOK, tables, agents
<1>4. ControlOK' BY <1>1 DEF IInv, ControlOK
<1>5. ASSUME NEW u \in Agents PROVE RequestInv(u)'
  <2>1. LiveTokens' = LiveTokens /\ notes' = notes /\ made' = made
    BY <1>1 DEF LiveTokens, tables
  <2>2. CASE job[u].at = i BY <2>2, <1>1, RequestEnds
  <2>3. CASE job[u].at # i
    <3>1. pc'[u] = pc[u] /\ job'[u] = job[u] BY <2>3, <1>1
    <3> QED BY <3>1, <2>1, RequestStutters DEF IInv
  <2> QED BY <2>2, <2>3
<1> QED BY <1>2, <1>3, <1>4, <1>5 DEF IInv

LEMMA AgentsStep == IInv /\ [Next]_vars => IInv'
<1> SUFFICES ASSUME IInv, [Next]_vars PROVE IInv'
  OBVIOUS
<1>1. ASSUME NEW u \in Agents, Poll(u) \/ Acknowledge(u) PROVE IInv'
  <2>1. CASE Begin(u, "poll", {}) BY <2>1, BeginKeeps DEF Ops
  <2>2. ASSUME NEW others \in SUBSET Notes, Begin(u, "acknowledge", page[u] \cup others)
        PROVE  IInv'
    <3>1. page[u] \cup others \in SUBSET Notes BY DEF IInv, TablesOK
    <3> QED BY <2>2, <3>1, BeginKeeps DEF Ops
  <2> QED BY <1>1, <2>1, <2>2 DEF Poll, Acknowledge
<1>2. ASSUME NEW u \in Agents, Serve(u) PROVE IInv'
  BY <1>2, AuthenticateKeeps, ListKeeps, CountKeeps, ReadKeeps DEF Serve
<1>3. ASSUME NEW u \in Agents, Fails(u) PROVE IInv'
  BY <1>3, FailsKeeps
<1>4. CASE \E x \in touching : TouchAPIToken(x)
  BY <1>4, TouchKeeps
<1>5. ASSUME NEW u \in Users, NEW t \in Tokens, CreateAPIToken(u, t) \/ DeleteAPIToken(u, t)
      PROVE IInv'
  BY <1>5, CreateKeeps, DeleteKeeps
<1>6. CASE \E n \in Notes : Notify(n)
  BY <1>6, NotifyKeeps
<1>7. CASE \E p \in Posts : DeletePost(p)
  BY <1>7, DeletePostKeeps
<1>8. ASSUME NEW i \in Instances, (Boot(i) /\ Aside) \/ Dies(i) PROVE IInv'
  BY <1>8, StartKeeps, DiesKeeps
<1>9. CASE UNCHANGED vars
  <2>1. UNCHANGED <<startupVars, tables, made, touching, agents, pc, job, faults>>
    BY <1>9 DEF vars
  <2>2. StartupInv' BY <2>1, StartupStutters DEF IInv
  <2>3. TablesOK' BY <2>1, TablesStutter DEF IInv
  <2>4. LiveTokens' = LiveTokens /\ notes' = notes /\ made' = made
    BY <2>1 DEF LiveTokens, tables
  <2> QED BY <2>1, <2>2, <2>3, <2>4, RequestsStay DEF IInv
<1> QED BY <1>1, <1>2, <1>3, <1>4, <1>5, <1>6, <1>7, <1>8, <1>9 DEF Next

LEMMA AlwaysIInv == Spec => []IInv
<1> QED BY AgentsBegin, AgentsStep, PTL DEF Spec

\* The tables, the agents and their requests have their types (the handlers
\* write nothing else), and what an agent acts on is in the tables.
THEOREM TypeCorrect == Spec => []TypeOK
<1>1. IInv => TypeOK
  BY DEF IInv, StartupInv, TablesOK, ControlOK, TypeOK
<1> QED BY <1>1, AlwaysIInv, PTL

\* A request sent with a token whose deletion was answered is let in by no
\* instance, at no time (OptionalAuth, DeleteAPIToken, TouchAPIToken).
THEOREM RevokedTokensStayOut == Spec => []RevokedStaysOut
<1>1. IInv => RevokedStaysOut
  BY DEF IInv, RequestInv, RevokedStaysOut
<1> QED BY <1>1, AlwaysIInv, PTL

\* Only a request of the account a notification is for marks it, and only when
\* it names it: whatever ids anybody names, of notifications shown or never
\* shown, of others, or not there yet (ReadNotifications).
THEOREM OnlyRecipientsMark == Spec => MarkedAsAsked
<1>1. IInv /\ [Next]_vars =>
        [\A n \in read' \ read : \E u \in Agents : /\ u = To[n] /\ n \in job[u].items
                                                  /\ pc[u] = "mark"]_vars
  <2> SUFFICES ASSUME IInv, Next, NEW n \in read' \ read
               PROVE  \E u \in Agents : u = To[n] /\ n \in job[u].items /\ pc[u] = "mark"
    OBVIOUS
  <2>1. ASSUME NEW v \in Agents, ReadNotifications(v)
        PROVE  \E u \in Agents : u = To[n] /\ n \in job[u].items /\ pc[u] = "mark"
    <3>1. pc[v] = "mark" /\ read' = read \cup Marked(v, job[v].items)
      BY <2>1 DEF ReadNotifications
    <3>2. To[n] = v /\ n \in job[v].items BY <3>1 DEF Marked
    <3> QED BY <3>1, <3>2
  <2>2. CASE read' = read BY <2>2
  <2> QED BY <2>1, <2>2 DEF Next, Poll, Acknowledge, Begin, Serve, Authenticate, List, Count,
        Fails, TouchAPIToken, CreateAPIToken, DeleteAPIToken, Notify, DeletePost, Dies, Aside,
        tables
<1> QED BY <1>1, AlwaysIInv, PTL DEF Spec, MarkedAsAsked
-----------------------------------------------------------------------------
(* Refinement of Inbox *)

LEMMA LeastNat == ASSUME NEW S \in SUBSET Nat, S # {} PROVE \E m \in S : \A n \in S : m <= n
<1>1. IsWellFoundedOn(OpToRel(<, Nat), Nat) BY NatLessThanWellFounded
<1>2. PICK m \in S : \A n \in S : <<n, m>> \notin OpToRel(<, Nat) BY <1>1, WFMin, Zenon
<1>3. \A n \in S : ~ (n < m) BY <1>2 DEF OpToRel
<1> QED BY <1>3

\* Those of a finite set with fewer than k above them are at most k.
LEMMA TopOfSet ==
  ASSUME NEW S \in SUBSET Nat, IsFiniteSet(S), NEW k \in Nat
  PROVE  Cardinality({n \in S : Cardinality({m \in S : m > n}) < k}) <= k
<1> DEFINE above(n) == {m \in S : m > n}
           top == {n \in S : Cardinality(above(n)) < k}
<1>1. IsFiniteSet(top) /\ Cardinality(top) \in Nat BY FS_Subset, FS_CardinalityType
<1> SUFFICES Cardinality(top) <= k
  OBVIOUS
<1>2. CASE top = {}
  <2>1. Cardinality(top) = 0
    <3> HIDE DEF top
    <3> QED BY <1>2, FS_EmptySet
  <2> HIDE DEF top
  <2> QED BY <2>1
<1>3. CASE top # {}
  <2>1. PICK x \in top : \A n \in top : x <= n
    <3>1. top \in SUBSET Nat OBVIOUS
    <3> HIDE DEF top
    <3> QED BY <1>3, <3>1, LeastNat
  <2>2. Cardinality(top \ {x}) = Cardinality(top) - 1 BY <1>1, <2>1, FS_RemoveElement
  <2>3. top \ {x} \subseteq above(x)
    <3> SUFFICES ASSUME NEW y \in top, y # x PROVE y \in S /\ y > x
      OBVIOUS
    <3>1. x <= y BY <2>1
    <3>2. x \in Nat /\ y \in Nat /\ y \in S BY <2>1
    <3> HIDE DEF top, above
    <3> QED BY <3>1, <3>2
  <2>4. IsFiniteSet(above(x)) /\ Cardinality(above(x)) \in Nat BY FS_Subset, FS_CardinalityType
  <2>5. Cardinality(top \ {x}) <= Cardinality(above(x)) BY <2>3, <2>4, FS_Subset
  <2>6. Cardinality(above(x)) < k BY <2>1
  <2> HIDE DEF top, above
  <2> QED BY <1>1, <2>2, <2>4, <2>5, <2>6
<1> QED BY <1>2, <1>3

Own(u) == {n \in notes : To[n] = u}

\* What an agent has been shown, and what it is about to be, is its own; what it
\* is about to be shown is still unread, since nobody else can mark it; and while
\* its acknowledgement is under way, the request names all it was shown.
PageInv(u) ==
  /\ page[u] \subseteq Own(u)
  /\ pc[u] \in {"list", "count"} => job[u].op = "poll"
  /\ pc[u] = "mark" => job[u].op = "acknowledge"
  /\ pc[u] # "idle" /\ job[u].op = "poll" => page[u] = {}
  /\ pc[u] # "idle" /\ job[u].op = "acknowledge" => page[u] \subseteq job[u].items
  /\ pc[u] = "count" => /\ job[u].items \subseteq Own(u) \ read
                        /\ Cardinality(job[u].items) <= PageSize

PagesInv == \A u \in Agents : PageInv(u)

\* Whoever is left alone keeps its page, while others read what is theirs.
LEMMA PageStays ==
  ASSUME NEW u, PageInv(u), page'[u] = page[u], pc'[u] = pc[u], job'[u] = job[u],
         notes \subseteq notes', Own(u) \cap read' \subseteq read
  PROVE  PageInv(u)'
BY DEF PageInv, Own

LEMMA PageEnds ==
  ASSUME NEW u, pc'[u] = "idle", page'[u] \subseteq Own(u), notes \subseteq notes'
  PROVE  PageInv(u)'
BY DEF PageInv, Own

LEMMA PagesStep == IInv /\ PagesInv /\ [Next]_vars => PagesInv'
<1> SUFFICES ASSUME IInv, PagesInv, [Next]_vars, NEW u \in Agents PROVE PageInv(u)'
  BY DEF PagesInv
<1>0. /\ PageInv(u) /\ RequestInv(u)
      /\ pc \in [Agents -> {"idle", "auth", "list", "count", "mark"}]
      /\ job \in [Agents -> Jobs \cup {NoJob}]
      /\ page \in [Agents -> SUBSET notes]
      /\ notes \subseteq Notes
  BY DEF PagesInv, IInv, ControlOK, TablesOK
<1>1. ASSUME NEW v \in Agents, NEW op \in Ops, NEW ids, Begin(v, op, ids),
             op = "poll" => page[v] = {}, op = "acknowledge" => page[v] \subseteq ids
      PROVE  PageInv(u)'
  <2>1. page' = page /\ notes' = notes /\ read' = read BY <1>1 DEF Begin, tables, agents
  <2>2. CASE u = v
    <3>1. pc'[u] = "auth" /\ job'[u].op = op /\ job'[u].items = ids
      BY <1>0, <1>1, <2>2 DEF Begin
    <3> QED BY <1>0, <1>1, <2>1, <2>2, <3>1 DEF PageInv, Own
  <2>3. CASE u # v
    <3>1. pc'[u] = pc[u] /\ job'[u] = job[u] BY <1>0, <1>1, <2>3 DEF Begin
    <3> QED BY <1>0, <2>1, <3>1, PageStays
  <2> QED BY <2>2, <2>3
<1>2. ASSUME NEW v \in Agents, Ends(v), UNCHANGED notes, read' \cap Own(u) \subseteq read \/ u = v,
             u # v => page'[u] = page[u], u = v => page'[u] \subseteq Own(u)
      PROVE  PageInv(u)'
  <2>1. CASE u = v
    <3>1. pc'[u] = "idle" BY <1>0, <1>2, <2>1 DEF Ends
    <3> QED BY <1>2, <2>1, <3>1, PageEnds
  <2>2. CASE u # v
    <3>1. pc'[u] = pc[u] /\ job'[u] = job[u] BY <1>0, <1>2, <2>2 DEF Ends
    <3> QED BY <1>0, <1>2, <2>2, <3>1, PageStays
  <2> QED BY <2>1, <2>2
<1>3. ASSUME NEW v \in Agents, Authenticate(v) PROVE PageInv(u)'
  <2>1. page' = page /\ notes' = notes /\ read' = read BY <1>3 DEF Authenticate, tables, agents
  <2>2. CASE Ends(v) BY <1>0, <1>2, <2>1, <2>2 DEF PageInv
  <2>3. CASE UNCHANGED job /\ pc' = [pc EXCEPT ![v] = IF job[v].op = "poll" THEN "list" ELSE "mark"]
    <3>1. CASE u = v
      <4>1. pc'[u] = IF job[u].op = "poll" THEN "list" ELSE "mark" BY <1>0, <2>3, <3>1
      <4>2. pc[u] = "auth" /\ job[u].op \in Ops
        BY <1>0, <1>3, <3>1 DEF Authenticate, RequestInv, Jobs
      <4> QED BY <1>0, <2>1, <2>3, <4>1, <4>2 DEF PageInv, Own, Ops
    <3>2. CASE u # v
      <4>1. pc'[u] = pc[u] BY <1>0, <2>3, <3>2
      <4> QED BY <1>0, <2>1, <2>3, <4>1, PageStays
    <3> QED BY <3>1, <3>2
  <2> QED BY <1>3, <2>2, <2>3 DEF Authenticate
<1>4. ASSUME NEW v \in Agents, List(v) PROVE PageInv(u)'
  <2>1. /\ page' = page /\ notes' = notes /\ read' = read /\ pc[v] = "list"
        /\ pc' = [pc EXCEPT ![v] = "count"]
        /\ job' = [job EXCEPT ![v].items = GetNotifications(v)]
    BY <1>4 DEF List, tables, agents
  <2>2. CASE u = v
    <3>1. job[u] \in Jobs BY <1>0, <2>1, <2>2 DEF RequestInv
    <3>2. job'[u].items = GetNotifications(u) /\ job'[u].op = job[u].op /\ pc'[u] = "count"
      BY <1>0, <2>1, <2>2, <3>1 DEF Jobs
    <3>3. GetNotifications(u) \subseteq Own(u) \ read BY DEF GetNotifications, Inbox, Own
    <3>4. Cardinality(GetNotifications(u)) <= PageSize
      <4>1. Inbox(u) \ read \in SUBSET Nat /\ IsFiniteSet(Inbox(u) \ read)
        <5>1. Inbox(u) \ read \subseteq Notes BY <1>0 DEF Inbox
        <5> QED BY <5>1, FS_Subset
      <4> QED BY <4>1, TopOfSet DEF GetNotifications
    <3> QED BY <1>0, <2>1, <2>2, <3>2, <3>3, <3>4 DEF PageInv, Own
  <2>3. CASE u # v
    <3>1. pc'[u] = pc[u] /\ job'[u] = job[u] BY <1>0, <2>1, <2>3
    <3> QED BY <1>0, <2>1, <3>1, PageStays
  <2> QED BY <2>2, <2>3
<1>5. ASSUME NEW v \in Agents, Count(v) PROVE PageInv(u)'
  <2>1. /\ page' = [page EXCEPT ![v] = job[v].items] /\ Ends(v) /\ pc[v] = "count"
        /\ notes' = notes /\ read' = read
    BY <1>5 DEF Count, tables
  <2>2. u = v => page'[u] \subseteq Own(u) BY <1>0, <2>1 DEF PageInv
  <2>3. u # v => page'[u] = page[u] BY <1>0, <2>1
  <2> QED BY <1>2, <2>1, <2>2, <2>3
<1>6. ASSUME NEW v \in Agents, ReadNotifications(v) PROVE PageInv(u)'
  <2>1. /\ notes' = notes /\ Ends(v)
        /\ (page' = page \/ page' = [page EXCEPT ![v] = {}])
        /\ read' = read \cup Marked(v, job[v].items)
    BY <1>6 DEF ReadNotifications
  <2>2. u # v => read' \cap Own(u) \subseteq read BY <2>1 DEF Marked, Own
  <2>3. (u # v => page'[u] = page[u]) /\ (u = v => page'[u] \subseteq Own(u))
    BY <1>0, <2>1 DEF PageInv
  <2> QED BY <1>2, <2>1, <2>2, <2>3
<1>7. ASSUME NEW v \in Agents, Fails(v) PROVE PageInv(u)'
  <2>1. Ends(v) /\ page' = page /\ notes' = notes /\ read' = read
    BY <1>7 DEF Fails, tables, agents
  <2> QED BY <1>0, <1>2, <2>1 DEF PageInv
<1>8. ASSUME UNCHANGED <<page, pc, job, read>>, notes \subseteq notes' PROVE PageInv(u)'
  BY <1>0, <1>8, PageStays
<1>9. ASSUME NEW i \in Instances, Dies(i) PROVE PageInv(u)'
  <2>1. /\ pc' = [w \in Agents |-> IF job[w].at = i THEN "idle" ELSE pc[w]]
        /\ job' = [w \in Agents |-> IF job[w].at = i THEN NoJob ELSE job[w]]
        /\ page' = page /\ notes' = notes /\ read' = read
    BY <1>9 DEF Dies, tables, agents
  <2>2. CASE job[u].at = i
    <3>1. pc'[u] = "idle" BY <2>1, <2>2
    <3> QED BY <1>0, <2>1, <3>1, PageEnds DEF PageInv
  <2>3. CASE job[u].at # i
    <3>1. pc'[u] = pc[u] /\ job'[u] = job[u] BY <2>1, <2>3
    <3> QED BY <1>0, <2>1, <3>1, PageStays
  <2> QED BY <2>2, <2>3
<1>10. ASSUME NEW v \in Agents, Poll(v) \/ Acknowledge(v) PROVE PageInv(u)'
  <2>1. CASE Poll(v) BY <1>1, <2>1 DEF Poll, Ops
  <2>2. CASE Acknowledge(v)
    <3>1. PICK others \in SUBSET Notes : Begin(v, "acknowledge", page[v] \cup others)
      BY <2>2 DEF Acknowledge
    <3> QED BY <1>1, <3>1 DEF Ops
  <2> QED BY <1>10, <2>1, <2>2
<1>11. CASE \/ \E x \in touching : TouchAPIToken(x)
            \/ \E w \in Users, t \in Tokens : CreateAPIToken(w, t) \/ DeleteAPIToken(w, t)
            \/ \E n \in Notes : Notify(n)
            \/ \E p \in Posts : DeletePost(p)
            \/ Aside
            \/ UNCHANGED vars
  BY <1>8, <1>11 DEF TouchAPIToken, CreateAPIToken, DeleteAPIToken, Notify, DeletePost, Aside,
       vars, tables, agents
<1> QED BY <1>3, <1>4, <1>5, <1>6, <1>7, <1>9, <1>10, <1>11 DEF Next, Serve

LEMMA InboxStep == IInv /\ PagesInv /\ [Next]_vars => [I!Next]_(I!vars)
<1> SUFFICES ASSUME IInv, PagesInv, [Next]_vars PROVE [I!Next]_(I!vars)
  OBVIOUS
<1>0. /\ page \in [Agents -> SUBSET notes] /\ notes \subseteq Notes
  BY DEF IInv, TablesOK
<1>1. ASSUME NEW v \in Agents, Count(v) PROVE [I!Next]_(I!vars)
  <2>1. /\ page' = [page EXCEPT ![v] = job[v].items] /\ pc[v] = "count"
        /\ notes' = notes /\ read' = read
    BY <1>1 DEF Count, tables
  <2>2. PageInv(v) BY DEF PagesInv
  <2>3. /\ page[v] = {} /\ Cardinality(job[v].items) <= PageSize
        /\ job[v].items \subseteq I!Unseen(v) /\ job[v].items \in Pages
    BY <1>0, <2>1, <2>2 DEF PageInv, I!Unseen, Own, Pages
  <2>4. I!Show(v, job[v].items) BY <2>1, <2>3 DEF I!Show, I!Unseen
  <2> QED BY <2>3, <2>4 DEF I!Next
<1>2. ASSUME NEW v \in Agents, ReadNotifications(v) PROVE [I!Next]_(I!vars)
  <2>1. /\ notes' = notes /\ pc[v] = "mark"
        /\ (page' = page \/ page' = [page EXCEPT ![v] = {}])
        /\ read' = read \cup Marked(v, job[v].items)
    BY <1>2 DEF ReadNotifications
  <2>2. page[v] \subseteq job[v].items BY <2>1 DEF PagesInv, PageInv
  <2>3. job[v].items \in SUBSET Notes BY <2>1 DEF IInv, RequestInv, Jobs
  <2>4. I!Acknowledge(v, job[v].items) BY <2>1, <2>2 DEF I!Acknowledge, Marked
  <2> QED BY <2>3, <2>4 DEF I!Next
<1>3. ASSUME NEW n \in Notes, Notify(n) PROVE [I!Next]_(I!vars)
  <2>1. I!Arrive(n) BY <1>3 DEF Notify, I!Arrive, agents
  <2> QED BY <2>1 DEF I!Next
<1>4. CASE UNCHANGED <<notes, read, page>> BY <1>4 DEF I!vars
<1> QED BY <1>1, <1>2, <1>3, <1>4 DEF Next, Poll, Acknowledge, Begin, Serve, Authenticate, List,
      Fails, TouchAPIToken, CreateAPIToken, DeleteAPIToken, DeletePost, Dies, Aside, vars,
      tables, agents

\* An inbox behaves as the abstract one says, for any instances, migrations,
\* accounts, tokens and page size, whatever fails or is restarted: what an agent
\* is shown is unread and its own, and what it acknowledges is all of that and
\* nothing of anybody else's, whatever ids it names
\* (Inbox, GetNotifications, ReadNotifications).
THEOREM AgentsImplementInbox == Spec => ImplementsInbox
<1>1. Init => PagesInv BY DEF Init, PagesInv, PageInv
<1>2. Init => I!Init BY DEF Init, I!Init
<1> QED BY <1>1, <1>2, AlwaysIInv, PagesStep, InboxStep, PTL DEF Spec, ImplementsInbox, I!Spec
=============================================================================
