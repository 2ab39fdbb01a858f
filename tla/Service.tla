------------------------------ MODULE Service -------------------------------
(***************************************************************************)
(* The whole of writing and fanning out: the transactions of Store, and    *)
(* the processors of Fanout that live on the outbox rows they commit.      *)
(*                                                                         *)
(* Fanout has publishing, deleting, following and unfollowing as one step  *)
(* each.  Here they are the transactions of several statements that they   *)
(* are, with locks, failures and deadlocks, overlapping each other and     *)
(* every call of the processors; both meet in the tables tweets, follows   *)
(* and outbox.  ImplementsFanout says that nothing is lost by the          *)
(* abstraction: what the processors see is what Fanout says they see.      *)
(***************************************************************************)
EXTENDS Store

CONSTANTS Instances, BatchSize, MaxAttempts, NoEvent, FaultKinds, MaxFaults

VARIABLES status, attempts, entries,   \* outbox.status, outbox.attempts, timeline_entries
          at,                          \* where the processor of each instance is
          batch, cur, fans,            \* what it holds
          loyal, audience, faults      \* as in Fanout

F == INSTANCE Fanout WITH pc <- at

ASSUME ServiceAssumption == F!FanoutAssumption

processors == <<attempts, entries, at, batch, cur, fans, faults>>
serviceVars == <<vars, status, processors, loyal, audience>>

ServiceInit == Init /\ F!Init

-----------------------------------------------------------------------------
(* A step of a request *)

\* A row of the outbox is pending when the transaction that inserts it commits
\* (outbox.status DEFAULT 'pending').
Enqueued ==
  status' = [e \in F!Events |->
               IF outbox'[e[1]][e[2]] > outbox[e[1]][e[2]] THEN "pending" ELSE status[e]]

\* Who has followed the author of a published top-level post ever since, and
\* at some moment since.
Followed(p) == p \in TopLevel /\ post[p] = "visible"
Observed ==
  LET now(p) == {u \in Users : <<u, Author[p]>> \in follows}'
  IN /\ loyal' = [p \in Posts |->
            IF ~ Followed(p)' THEN {} ELSE IF post[p] = "none" THEN now(p) ELSE loyal[p] \cap now(p)]
     /\ audience' = [p \in Posts |-> IF ~ Followed(p)' THEN {} ELSE audience[p] \cup now(p)]

Serve == Next /\ Enqueued /\ Observed /\ UNCHANGED processors

-----------------------------------------------------------------------------
(* A step of a processor *)

Fan == /\ \E i \in Instances : F!Process(i) \/ F!Start(i) \/ F!Failures(i)
       /\ UNCHANGED vars

-----------------------------------------------------------------------------
ServiceNext == Serve \/ Fan

ServiceSpec == ServiceInit /\ [][ServiceNext]_serviceVars

\* Requests, statement by statement, and processors together implement Fanout,
\* in which a request is one step: a processor never sees the difference
\* (CreatePostWithOutbox and DeletePost insert the outbox row in the
\* transaction of the change).
ImplementsFanout == F!Spec

=============================================================================
