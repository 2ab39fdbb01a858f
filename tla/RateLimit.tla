----------------------------- MODULE RateLimit ------------------------------
(***************************************************************************)
(* The rate limiter of one server instance (ratelimit.Limiter): a map from *)
(* client addresses to a counter and the end of its window, guarded by a   *)
(* mutex, and a goroutine that sweeps expired entries once per window.     *)
(* Allow and one pass of cleanup hold the mutex from end to end, so each   *)
(* is one action.                                                          *)
(*                                                                         *)
(* Time advances in ticks and is kept relative to now, so that it needs no *)
(* bound: left[k] is resetAt - now, and granted[k][n] is how many requests *)
(* of k were let through in the last n ticks and the present one, as far   *)
(* back as a window reaches.                                               *)
(***************************************************************************)
EXTENDS Integers

CONSTANTS Clients,
          Limit,     \* 100 in main
          Window,    \* a minute in main
          Burst      \* bound on the requests of one client between two ticks

ASSUME RateLimitAssumption == Limit \in Nat \ {0} /\ Window \in Nat \ {0} /\ Burst \in Nat \ {0}

VARIABLES known,    \* the keys of entries
          count,    \* entries[k].count; from Limit + 1 on, all the same
          left,     \* entries[k].resetAt - now; -1 when now is after it
          sleep,    \* how long the goroutine of cleanup still sleeps
          granted,  \* what was let through, for each span of time up to now
          asked     \* requests since the last tick, which Burst bounds

vars == <<known, count, left, sleep, granted, asked>>

Spans == 0..Window

TypeOK == /\ known \subseteq Clients
          /\ count \in [Clients -> 0..(Limit + 1)]
          /\ left \in [Clients -> -1..Window]
          /\ sleep \in 0..Window
          /\ granted \in [Clients -> [Spans -> Nat]]
          /\ asked \in [Clients -> 0..Burst]

Init == /\ known = {}
        /\ count = [k \in Clients |-> 0]
        /\ left = [k \in Clients |-> -1]
        /\ sleep = Window
        /\ granted = [k \in Clients |-> [n \in Spans |-> 0]]
        /\ asked = [k \in Clients |-> 0]

\* now.After(e.resetAt)
Expired(k) == left[k] < 0

\* A cleanup that sweeps everything, or nothing (mutants).
SweepsAll(k) == TRUE
SweepsNothing(k) == FALSE

\* The entries cleanup deletes.
Sweeps(k) == Expired(k)

NewWindow(k) == k \notin known \/ Expired(k)

\* The counter compared before it is incremented (mutant).
PassesOneMore(k) == NewWindow(k) \/ count[k] <= Limit

\* Whether Allow answers true.  The first request of a window always passes.
Passes(k) == NewWindow(k) \/ count[k] < Limit

\* What Allow does to the counter of the client and to what is observed.
Count(k) ==
  /\ asked[k] < Burst
  /\ asked' = [asked EXCEPT ![k] = @ + 1]
  /\ known' = known \cup {k}
  /\ count' = [count EXCEPT ![k] = IF NewWindow(k) THEN 1 ELSE IF @ > Limit THEN @ ELSE @ + 1]
  /\ granted' = IF Passes(k) THEN [granted EXCEPT ![k] = [n \in Spans |-> @[n] + 1]] ELSE granted
  /\ UNCHANGED sleep

\* Every request, or every one after the first, sets the end of the window
\* anew (mutants).
AllowRestarts(k) == Count(k) /\ left' = [left EXCEPT ![k] = Window]
AllowExtends(k) ==
  Count(k) /\ left' = [left EXCEPT ![k] = IF NewWindow(k) THEN Window ELSE @ + Window]

Allow(k) == Count(k) /\ left' = [left EXCEPT ![k] = IF NewWindow(k) THEN Window ELSE @]

\* One pass of cleanup, which may come any time after its sleep.
Cleanup ==
  /\ sleep = 0
  /\ known' = {k \in known : ~Sweeps(k)}
  /\ count' = [k \in Clients |-> IF k \in known' THEN count[k] ELSE 0]
  /\ left' = [k \in Clients |-> IF k \in known' THEN left[k] ELSE -1]
  /\ sleep' = Window
  /\ UNCHANGED <<granted, asked>>

Tick ==
  /\ left' = [k \in Clients |-> IF left[k] < 0 THEN left[k] ELSE left[k] - 1]
  /\ sleep' = IF sleep = 0 THEN 0 ELSE sleep - 1
  /\ granted' = [k \in Clients |-> [n \in Spans |-> IF n = 0 THEN 0 ELSE granted[k][n - 1]]]
  /\ asked' = [k \in Clients |-> 0]
  /\ UNCHANGED <<known, count>>

Next == (\E k \in Clients : Allow(k)) \/ Cleanup \/ Tick

Spec == Init /\ [][Next]_vars

\* Time passes and the goroutine wakes up.  Clients owe nothing.
FairSpec == Spec /\ WF_vars(Tick) /\ WF_vars(Cleanup)

-----------------------------------------------------------------------------
\* In the time of one window no client gets more than twice the limit through,
\* wherever that time begins and whenever cleanup runs (Allow, cleanup).
TwiceTheLimit == \A k \in Clients : granted[k][Window] <= 2 * Limit

\* In the window that is open no client has got more than the limit through:
\* the sweep never reopens it (cleanup against Allow).
WindowLimit ==
  \A k \in Clients :
    k \in known /\ left[k] >= 0 => granted[k][Window - left[k]] <= Limit

\* Whether a request passes depends on what has passed in the client's own
\* window and on nothing else: the counter is what has passed, and neither the
\* sweep of the map nor the requests of others ever show (Allow, cleanup).
Q == INSTANCE Quota
ImplementsQuota == Q!Spec

\* skill/SKILL.md, developers.html: 100 requests per minute per IP.
LimitPerMinute == \A k \in Clients : granted[k][Window - 1] <= Limit

\* The map does not grow for ever: the entry of a client who stays away is
\* swept, or renewed by a request (cleanup).
ExpiredSwept == \A k \in Clients : k \in known /\ left[k] < 0 ~> k \notin known \/ left[k] >= 0

\* A client that was refused is let through again, however often it asks in
\* between: refused requests do not extend the window (Allow).
Reopens == \A k \in Clients : ~Passes(k) ~> Passes(k)

=============================================================================
