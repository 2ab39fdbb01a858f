------------------------------ MODULE Startup -------------------------------
(***************************************************************************)
(* The life of the instances of the server: main runs the migrations its   *)
(* binary carries before it serves (RunMigrations), ends at SIGTERM or in   *)
(* a crash, and is started again by its platform.  Instances of different  *)
(* revisions start side by side; their migrations are one transaction      *)
(* each, serialised by an advisory lock of the database.                   *)
(*                                                                         *)
(* A revision carries the migrations 1 .. Embedded[i], in the order of     *)
(* their file names.  Any statement may fail and the process may die at    *)
(* any time: both are Stop, which rolls the transaction back.              *)
(***************************************************************************)
EXTENDS Naturals, FiniteSets

CONSTANTS Instances,
          Embedded   \* how many migrations the revision of each instance carries

ASSUME StartupAssumption == Embedded \in [Instances -> Nat]

VARIABLES life,      \* what each instance does
          schema,    \* table schema_migrations: the versions committed
          walk,      \* how many entries RunMigrations has been through
          applying   \* the versions executed in the open transaction

startupVars == <<life, schema, walk, applying>>

Lives == {"down", "locking", "migrating", "serving"}

StartupTypeOK == /\ life \in [Instances -> Lives]
                 /\ schema \subseteq Nat
                 /\ walk \in [Instances -> Nat]
                 /\ applying \in [Instances -> SUBSET Nat]

StartupInit == /\ life = [i \in Instances |-> "down"]
               /\ schema = {}
               /\ walk = [i \in Instances |-> 0]
               /\ applying = [i \in Instances |-> {}]

-----------------------------------------------------------------------------

\* pg_advisory_lock, which the session would keep (mutant).
SessionLockHolders == {i \in Instances : life[i] \in {"migrating", "serving"}}

\* No lock (mutant).
NoLockHolders == {}

\* pg_advisory_xact_lock is held until the end of the transaction.
LockHolders == {i \in Instances : life[i] = "migrating"}

\* The platform starts the process; main connects and begins the transaction.
Launch(i) ==
  /\ life[i] = "down"
  /\ life' = [life EXCEPT ![i] = "locking"]
  /\ UNCHANGED <<schema, walk, applying>>

LockMigrations(i) ==
  /\ life[i] = "locking"
  /\ LockHolders = {}
  /\ life' = [life EXCEPT ![i] = "migrating"]
  /\ UNCHANGED <<schema, walk, applying>>

\* One entry of the directory: skipped when it is recorded, executed and
\* recorded in the transaction otherwise.
ApplyMigration(i) ==
  /\ life[i] = "migrating"
  /\ walk[i] < Embedded[i]
  /\ walk' = [walk EXCEPT ![i] = @ + 1]
  /\ applying' = [applying EXCEPT ![i] = @ \cup ({walk[i] + 1} \ schema)]
  /\ UNCHANGED <<life, schema>>

\* The server starts although its migrations failed (mutant).
ServeAnyway(i) ==
  /\ life[i] = "migrating"
  /\ walk[i] = Embedded[i]
  /\ schema' \in {schema, schema \cup applying[i]}
  /\ life' = [life EXCEPT ![i] = "serving"]
  /\ walk' = [walk EXCEPT ![i] = 0]
  /\ applying' = [applying EXCEPT ![i] = {}]

CommitMigrations(i) ==
  /\ life[i] = "migrating"
  /\ walk[i] = Embedded[i]
  /\ schema' = schema \cup applying[i]
  /\ life' = [life EXCEPT ![i] = "serving"]
  /\ walk' = [walk EXCEPT ![i] = 0]
  /\ applying' = [applying EXCEPT ![i] = {}]

\* The process ends: at SIGTERM once its requests are answered or ten seconds
\* have passed (a server that drains is one that nobody asks anything more),
\* by log.Fatalf, or killed.
Stop(i) ==
  /\ life[i] # "down"
  /\ life' = [life EXCEPT ![i] = "down"]
  /\ walk' = [walk EXCEPT ![i] = 0]
  /\ applying' = [applying EXCEPT ![i] = {}]
  /\ UNCHANGED schema

Boot(i) == \/ Launch(i) \/ LockMigrations(i) \/ ApplyMigration(i) \/ CommitMigrations(i)

-----------------------------------------------------------------------------

\* Whatever revisions start together, fail and start again: an instance that
\* takes requests finds every migration of its revision committed, and no
\* migration without those before it.
SchemaReady ==
  /\ \A i \in Instances : life[i] = "serving" => 1 .. Embedded[i] \subseteq schema
  /\ \A m \in schema : 1 .. m \subseteq schema

\* No instance executes a migration that is in the schema or that another
\* one is executing: from 002 on they would fail, and stop the start.
AppliedOnce ==
  \A i \in Instances :
    /\ applying[i] \cap schema = {}
    /\ \A j \in Instances \ {i} : applying[i] \cap applying[j] = {}

\* Every start ends with the instance serving, or with its end.
EveryStartServes ==
  \A i \in Instances : life[i] = "locking" ~> life[i] \in {"serving", "down"}
=============================================================================
