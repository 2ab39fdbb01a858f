-------------------------- MODULE RateLimitProofs ---------------------------
(***************************************************************************)
(* Theorems about RateLimit, for any clients, limit and window: its types, *)
(* and how much one client gets through in a window and in the time of one. *)
(*                                                                         *)
(* A window opens for a client that has been let through at most Limit     *)
(* times in the time of a window before, and not at all at this very time  *)
(* (Between); while it is open, its counter bounds what it lets through,    *)
(* and what lies before it is at most Limit more (Within).                  *)
(***************************************************************************)
EXTENDS RateLimit, TLAPS

\* A longer span has no less in it.
Growing(k) == \A m, n \in Spans : m <= n => granted[k][m] <= granted[k][n]

\* A client with an open window.
Within(k) ==
  left[k] >= 0 =>
    /\ k \in known
    /\ granted[k][Window - left[k]] <= count[k]
    /\ granted[k][Window - left[k]] <= Limit
    /\ \A n \in Spans : n >= Window - left[k] =>
         granted[k][n] <= granted[k][Window - left[k]] + Limit

\* A client without one: its next request opens it.
Between(k) == left[k] < 0 => granted[k][0] = 0 /\ granted[k][Window] <= Limit

IInv == TypeOK /\ \A k \in Clients : Growing(k) /\ Within(k) /\ Between(k)

-----------------------------------------------------------------------------

LEMMA RateLimitBegins == Init => IInv
BY RateLimitAssumption, SMTT(30)
   DEF Init, IInv, TypeOK, Spans, Growing, Within, Between

\* A request of k, in the window that is open or in a new one.
LEMMA AllowStep == ASSUME IInv, NEW k \in Clients, Allow(k) PROVE IInv'
<1> USE RateLimitAssumption
<1>0. TypeOK /\ 0 \in Spans /\ Window \in Spans BY DEF IInv, Spans
<1>1. Growing(k) /\ Within(k) /\ Between(k) BY DEF IInv
<1>2. left[k] \in -1..Window /\ count[k] \in 0..(Limit + 1) /\ granted[k] \in [Spans -> Nat]
  BY <1>0 DEF TypeOK
<1>3. TypeOK'
  <2>1. known' \subseteq Clients /\ asked' \in [Clients -> 0..Burst] /\ sleep' \in 0..Window
    BY <1>0 DEF TypeOK, Allow, Count
  <2>2. count' \in [Clients -> 0..(Limit + 1)]
    BY <1>0, <1>2 DEF TypeOK, Allow, Count
  <2>3. left' \in [Clients -> -1..Window]
    BY <1>0 DEF TypeOK, Allow
  <2>4. granted' \in [Clients -> [Spans -> Nat]]
    <3>1. [n \in Spans |-> granted[k][n] + 1] \in [Spans -> Nat] BY <1>2
    <3> QED BY <1>0, <3>1 DEF TypeOK, Allow, Count
  <2> QED BY <2>1, <2>2, <2>3, <2>4 DEF TypeOK
<1>4. Growing(k)' /\ Within(k)' /\ Between(k)'
  <2>1. CASE left[k] < 0
    <3>1. /\ left'[k] = Window /\ k \in known' /\ count'[k] = 1
          /\ \A n \in Spans : granted'[k][n] = granted[k][n] + 1
      BY <1>0, <2>1 DEF Allow, Count, NewWindow, Passes, Expired, TypeOK
    <3>2. /\ \A n \in Spans : granted[k][n] \in Nat
          /\ \A n \in Spans : granted[k][0] <= granted[k][n] /\ granted[k][n] <= granted[k][Window]
      BY <1>0, <1>1, <1>2 DEF Growing, Spans
    <3>3. Growing(k)' BY <1>1, <3>1, <3>2 DEF Growing
    <3>4. Within(k)'
      <4>1. Window - left'[k] = 0 BY <3>1
      <4>2. granted'[k][0] = 1 BY <1>0, <1>1, <2>1, <3>1 DEF Between
      <4>3. ASSUME NEW n \in Spans PROVE granted'[k][n] <= granted'[k][0] + Limit
        BY <1>0, <1>1, <1>2, <2>1, <3>1, <3>2, <4>2 DEF Between
      <4> QED BY <3>1, <4>1, <4>2, <4>3 DEF Within
    <3>5. Between(k)' BY <3>1 DEF Between
    <3> QED BY <3>3, <3>4, <3>5
  <2>2. CASE left[k] >= 0 /\ count[k] < Limit
    <3>1. /\ left'[k] = left[k] /\ k \in known' /\ count'[k] = count[k] + 1
          /\ \A n \in Spans : granted'[k][n] = granted[k][n] + 1
      BY <1>0, <1>1, <1>2, <2>2 DEF Allow, Count, NewWindow, Passes, Expired, TypeOK, Within
    <3>2. /\ \A n \in Spans : granted[k][n] \in Nat
          /\ Window - left[k] \in Spans
      BY <1>0, <1>2, <2>2 DEF Spans
    <3>3. Growing(k)' BY <1>1, <3>1, <3>2 DEF Growing
    <3>4. Within(k)' BY <1>1, <1>2, <2>2, <3>1, <3>2 DEF Within
    <3>5. Between(k)' BY <1>2, <2>2, <3>1 DEF Between
    <3> QED BY <3>3, <3>4, <3>5
  <2>3. CASE left[k] >= 0 /\ count[k] >= Limit
    <3>1. /\ left'[k] = left[k] /\ k \in known' /\ count'[k] >= count[k] /\ count'[k] \in Nat
          /\ granted' = granted
      BY <1>0, <1>1, <1>2, <2>3 DEF Allow, Count, NewWindow, Passes, Expired, TypeOK, Within
    <3>2. /\ \A n \in Spans : granted[k][n] \in Nat
          /\ Window - left[k] \in Spans
      BY <1>0, <1>2, <2>3 DEF Spans
    <3>3. Growing(k)' BY <1>1, <3>1, <3>2 DEF Growing
    <3>4. Within(k)' BY <1>1, <1>2, <2>3, <3>1, <3>2 DEF Within
    <3>5. Between(k)' BY <1>2, <2>3, <3>1 DEF Between
    <3> QED BY <3>3, <3>4, <3>5
  <2> QED BY <1>2, <2>1, <2>2, <2>3
<1>5. ASSUME NEW c \in Clients, c # k PROVE Growing(c)' /\ Within(c)' /\ Between(c)'
  <2>1. /\ left'[c] = left[c] /\ count'[c] = count[c] /\ granted'[c] = granted[c]
        /\ c \in known => c \in known'
    BY <1>0, <1>5 DEF Allow, Count, TypeOK
  <2>2. Growing(c) /\ Within(c) /\ Between(c) BY DEF IInv
  <2> QED BY <2>1, <2>2 DEF Growing, Within, Between
<1> QED BY <1>3, <1>4, <1>5 DEF IInv

\* The sweep takes expired entries only.
LEMMA CleanupStep == ASSUME IInv, Cleanup PROVE IInv'
<1> USE RateLimitAssumption
<1>0. TypeOK BY DEF IInv
<1>1. TypeOK' BY <1>0 DEF TypeOK, Cleanup, Spans
<1>2. ASSUME NEW c \in Clients PROVE Growing(c)' /\ Within(c)' /\ Between(c)'
  <2>1. granted' = granted BY DEF Cleanup
  <2>2. Growing(c) /\ Within(c) /\ Between(c) BY DEF IInv
  <2>3. left[c] \in -1..Window BY <1>0 DEF TypeOK
  <2>4. CASE left[c] >= 0
    <3>1. c \in known' BY <2>2, <2>3, <2>4 DEF Cleanup, Sweeps, Expired, Within
    <3>2. left'[c] = left[c] /\ count'[c] = count[c] BY <3>1 DEF Cleanup
    <3> QED BY <2>1, <2>2, <3>1, <3>2 DEF Growing, Within, Between
  <2>5. CASE left[c] < 0
    <3>1. left'[c] = -1 BY <2>3, <2>5 DEF Cleanup
    <3> QED BY <2>1, <2>2, <2>5, <3>1 DEF Growing, Within, Between
  <2> QED BY <2>3, <2>4, <2>5
<1> QED BY <1>1, <1>2 DEF IInv

\* Time passes: every span reaches a tick less far back.
LEMMA TickStep == ASSUME IInv, Tick PROVE IInv'
<1> USE RateLimitAssumption
<1>0. TypeOK BY DEF IInv
<1>1. TypeOK' BY <1>0 DEF TypeOK, Tick, Spans
<1>2. ASSUME NEW c \in Clients PROVE Growing(c)' /\ Within(c)' /\ Between(c)'
  <2>1. Growing(c) /\ Within(c) /\ Between(c) BY DEF IInv
  <2>2. /\ left[c] \in -1..Window /\ count[c] \in 0..(Limit + 1) /\ granted[c] \in [Spans -> Nat]
        /\ 0 \in Spans /\ Window \in Spans /\ Window - 1 \in Spans
    BY <1>0 DEF TypeOK, Spans
  <2>3. /\ known' = known /\ count' = count
        /\ granted'[c][0] = 0
        /\ \A n \in Spans \ {0} : n - 1 \in Spans /\ granted'[c][n] = granted[c][n - 1]
        /\ left'[c] = IF left[c] < 0 THEN left[c] ELSE left[c] - 1
    BY DEF Tick, Spans
  <2>4. Growing(c)'
    <3> SUFFICES ASSUME NEW m \in Spans, NEW n \in Spans, m <= n
                 PROVE  granted'[c][m] <= granted'[c][n]
      BY DEF Growing
    <3>1. CASE m = 0
      <4>1. granted'[c][n] \in Nat BY <1>1 DEF TypeOK
      <4> QED BY <2>3, <3>1, <4>1
    <3>2. CASE m # 0
      <4>1. n # 0 /\ m - 1 <= n - 1 BY <3>2 DEF Spans
      <4>2. /\ m - 1 \in Spans /\ granted'[c][m] = granted[c][m - 1]
            /\ n - 1 \in Spans /\ granted'[c][n] = granted[c][n - 1]
        BY <2>3, <3>2, <4>1
      <4> QED BY <2>1, <4>1, <4>2 DEF Growing
    <3> QED BY <3>1, <3>2
  <2>5. Within(c)'
    <3>1. left'[c] >= 0 => left[c] >= 1 BY <2>2, <2>3
    <3> SUFFICES ASSUME left[c] >= 1 PROVE Within(c)'
      BY <3>1 DEF Within
    <3>2. left'[c] = left[c] - 1 /\ left[c] \in 1..Window BY <2>2, <2>3
    <3>3. Window - left'[c] \in Spans \ {0} /\ (Window - left'[c]) - 1 = Window - left[c]
      BY <3>2 DEF Spans
    <3>4. granted'[c][Window - left'[c]] = granted[c][Window - left[c]] BY <2>3, <3>3
    <3>5. ASSUME NEW n \in Spans, n >= Window - left'[c]
          PROVE  granted'[c][n] <= granted'[c][Window - left'[c]] + Limit
      <4>1. n # 0 /\ n - 1 >= Window - left[c] BY <2>2, <3>3, <3>5 DEF Spans
      <4> QED BY <2>1, <2>2, <2>3, <3>4, <4>1 DEF Within
    <3>6. left[c] >= 0 BY <3>2
    <3> QED BY <2>1, <2>3, <3>4, <3>5, <3>6 DEF Within
  <2>6. Between(c)'
    <3> SUFFICES ASSUME left[c] < 1 PROVE granted'[c][Window] <= Limit
      BY <2>2, <2>3 DEF Between
    <3>1. granted'[c][Window] = granted[c][Window - 1] BY <2>2, <2>3
    <3>2. granted[c][Window - 1] <= granted[c][Window] BY <2>1, <2>2 DEF Growing
    <3>3. granted[c][Window] <= Limit BY <2>1, <2>2 DEF Within, Between
    <3> QED BY <2>2, <3>1, <3>2, <3>3
  <2> QED BY <2>4, <2>5, <2>6
<1> QED BY <1>1, <1>2 DEF IInv

LEMMA RateLimitIInv == Spec => []IInv
<1>1. ASSUME IInv, UNCHANGED vars PROVE IInv'
  BY <1>1 DEF vars, IInv, TypeOK, Growing, Within, Between
<1>2. IInv /\ [Next]_vars => IInv'
  BY <1>1, AllowStep, CleanupStep, TickStep DEF Next
<1> QED BY RateLimitBegins, <1>2, PTL DEF Spec

-----------------------------------------------------------------------------

\* The entries of the map and what is observed have their types.
THEOREM RateLimitTypeCorrect == Spec => []TypeOK
<1>1. IInv => TypeOK BY DEF IInv
<1> QED BY <1>1, RateLimitIInv, PTL

\* In an open window no client gets more than the limit through, whatever
\* other clients ask and whenever cleanup runs (Allow, cleanup).
THEOREM WindowsAreLimited == Spec => []WindowLimit
<1>1. IInv => WindowLimit BY DEF IInv, Within, WindowLimit
<1> QED BY <1>1, RateLimitIInv, PTL

\* In the time of a window no client gets more than twice the limit through,
\* wherever that time begins (Allow, cleanup).
THEOREM NeverMoreThanTwice == Spec => []TwiceTheLimit
<1>1. ASSUME IInv, NEW k \in Clients PROVE granted[k][Window] <= 2 * Limit
  <2>1. Within(k) /\ Between(k) /\ left[k] \in -1..Window /\ granted[k] \in [Spans -> Nat]
    BY <1>1 DEF IInv, TypeOK
  <2>2. Window \in Spans /\ (left[k] >= 0 => Window - left[k] \in Spans)
    BY <2>1, RateLimitAssumption DEF Spans
  <2>3. Limit \in Nat BY RateLimitAssumption
  <2>4. CASE left[k] >= 0
    <3>1. granted[k][Window] <= granted[k][Window - left[k]] + Limit
      BY <2>1, <2>2, <2>4, RateLimitAssumption DEF Within
    <3>2. granted[k][Window - left[k]] <= Limit BY <2>1, <2>4 DEF Within
    <3> QED BY <2>1, <2>2, <2>3, <2>4, <3>1, <3>2
  <2>5. CASE left[k] < 0 BY <2>1, <2>2, <2>3, <2>5 DEF Between
  <2> QED BY <2>1, <2>4, <2>5
<1>2. IInv => TwiceTheLimit BY <1>1 DEF TwiceTheLimit
<1> QED BY <1>2, RateLimitIInv, PTL
-----------------------------------------------------------------------------
(* Refinement of Quota *)

\* The counter of an open window is what has passed in it; from Limit + 1 on it
\* counts refusals too.
Exact(k) ==
  left[k] >= 0 => granted[k][Window - left[k]] = IF count[k] > Limit THEN Limit ELSE count[k]

Exactly == \A k \in Clients : Exact(k)

LEMMA ExactlyStep == IInv /\ Exactly /\ [Next]_vars => Exactly'
<1> SUFFICES ASSUME IInv, Exactly, [Next]_vars PROVE Exactly'
  OBVIOUS
<1> USE RateLimitAssumption
<1>0. TypeOK /\ 0 \in Spans /\ Window \in Spans BY DEF IInv, Spans
<1>1. ASSUME NEW c \in Clients
      PROVE  /\ left[c] \in -1..Window /\ count[c] \in 0..(Limit + 1)
             /\ granted[c] \in [Spans -> Nat] /\ Exact(c) /\ Within(c) /\ Between(c)
             /\ left[c] >= 0 => Window - left[c] \in Spans
  BY <1>0 DEF TypeOK, IInv, Exactly, Spans
<1>2. ASSUME NEW k \in Clients, Allow(k), NEW c \in Clients PROVE Exact(c)'
  <2>1. CASE c # k
    <3>1. left'[c] = left[c] /\ count'[c] = count[c] /\ granted'[c] = granted[c]
      BY <1>0, <1>2, <2>1 DEF Allow, Count, TypeOK
    <3> QED BY <1>1, <3>1 DEF Exact
  <2>2. CASE c = k /\ left[k] < 0
    <3>1. left'[k] = Window /\ count'[k] = 1 /\ granted'[k][0] = granted[k][0] + 1
      BY <1>0, <1>2, <2>2 DEF Allow, Count, NewWindow, Passes, Expired, TypeOK
    <3>2. granted[k][0] = 0 /\ Window - left'[k] = 0 BY <1>1, <2>2, <3>1 DEF Between
    <3> QED BY <2>2, <3>1, <3>2 DEF Exact
  <2>3. CASE c = k /\ left[k] >= 0
    <3>1. ~ NewWindow(k) BY <1>1, <2>3 DEF NewWindow, Expired, Within
    <3>2. /\ left'[k] = left[k]
          /\ count'[k] = IF count[k] > Limit THEN count[k] ELSE count[k] + 1
          /\ granted'[k] = IF count[k] < Limit THEN [n \in Spans |-> granted[k][n] + 1] ELSE granted[k]
      BY <1>0, <1>2, <3>1 DEF Allow, Count, Passes, TypeOK
    <3> QED BY <1>1, <2>3, <3>2 DEF Exact
  <2> QED BY <1>1, <2>1, <2>2, <2>3
<1>3. ASSUME Cleanup, NEW c \in Clients PROVE Exact(c)'
  <2>1. CASE left[c] >= 0
    <3>1. c \in known' BY <1>1, <1>3, <2>1 DEF Cleanup, Sweeps, Expired, Within
    <3>2. left'[c] = left[c] /\ count'[c] = count[c] /\ granted' = granted
      BY <1>3, <3>1 DEF Cleanup
    <3> QED BY <1>1, <3>2 DEF Exact
  <2>2. CASE left[c] < 0
    <3>1. left'[c] = -1 BY <1>1, <1>3, <2>2 DEF Cleanup
    <3> QED BY <3>1 DEF Exact
  <2> QED BY <1>1, <2>1, <2>2
<1>4. ASSUME Tick, NEW c \in Clients PROVE Exact(c)'
  <2>1. count' = count /\ left'[c] = (IF left[c] < 0 THEN left[c] ELSE left[c] - 1)
    BY <1>4 DEF Tick
  <2> SUFFICES ASSUME left[c] >= 1 PROVE Exact(c)'
    BY <1>1, <2>1 DEF Exact
  <2>2. left'[c] = left[c] - 1 BY <1>1, <2>1
  <2>3. Window - left'[c] \in Spans \ {0} /\ (Window - left'[c]) - 1 = Window - left[c]
    BY <1>1, <2>2 DEF Spans
  <2>4. granted'[c][Window - left'[c]] = granted[c][Window - left[c]] BY <1>4, <2>3 DEF Tick
  <2> QED BY <1>1, <2>1, <2>4 DEF Exact
<1>5. CASE UNCHANGED vars BY <1>1, <1>5 DEF vars, Exact, Exactly
<1> QED BY <1>2, <1>3, <1>4, <1>5 DEF Next, Exactly

\* Allow is a request, the sweep shows nothing, a tick is a tick.
LEMMA QuotaStep == IInv /\ Exactly /\ [Next]_vars => [Q!Next]_(Q!vars)
<1> SUFFICES ASSUME IInv, Exactly, [Next]_vars PROVE [Q!Next]_(Q!vars)
  OBVIOUS
<1> USE RateLimitAssumption
<1>0. TypeOK BY DEF IInv
<1>1. ASSUME NEW c \in Clients
      PROVE  /\ left[c] \in -1..Window /\ count[c] \in 0..(Limit + 1)
             /\ Exact(c) /\ Within(c)
  BY <1>0 DEF TypeOK, IInv, Exactly
<1>2. ASSUME NEW k \in Clients, Allow(k) PROVE Q!Request(k)
  <2>1. asked[k] < Burst /\ asked' = [asked EXCEPT ![k] = @ + 1] BY <1>2 DEF Allow, Count
  <2>2. CASE left[k] < 0
    <3>1. left' = [left EXCEPT ![k] = Window] /\ Q!Grant(k)
      BY <1>2, <2>2 DEF Allow, Count, NewWindow, Passes, Expired, Q!Grant, Q!Spans, Spans
    <3> QED BY <2>1, <2>2, <3>1 DEF Q!Request
  <2>3. CASE left[k] >= 0
    <3>1. ~ NewWindow(k) BY <1>1, <2>3 DEF NewWindow, Expired, Within
    <3>2. left' = left BY <1>0, <1>2, <3>1 DEF Allow, TypeOK
    <3>3. Q!Spent(k) <=> ~ (count[k] < Limit) BY <1>1, <2>3 DEF Q!Spent, Exact
    <3>4. CASE count[k] < Limit
      <4>1. Q!Grant(k) BY <1>2, <3>1, <3>4 DEF Allow, Count, Passes, Q!Grant, Q!Spans, Spans
      <4> QED BY <2>1, <2>3, <3>2, <3>3, <3>4, <4>1 DEF Q!Request
    <3>5. CASE ~ (count[k] < Limit)
      <4>1. granted' = granted BY <1>2, <3>1, <3>5 DEF Allow, Count, Passes
      <4> QED BY <2>1, <2>3, <3>2, <3>3, <3>5, <4>1 DEF Q!Request
    <3> QED BY <3>4, <3>5
  <2> QED BY <1>1, <2>2, <2>3
<1>3. CASE Cleanup
  <2>1. ASSUME NEW c \in Clients PROVE left'[c] = left[c]
    <3>1. CASE left[c] < 0 BY <1>1, <1>3, <3>1 DEF Cleanup
    <3>2. CASE left[c] >= 0
      <4>1. c \in known' BY <1>1, <1>3, <3>2 DEF Cleanup, Sweeps, Expired, Within
      <4> QED BY <1>3, <4>1 DEF Cleanup
    <3> QED BY <1>1, <3>1, <3>2
  <2>2. left' = [k \in Clients |-> left'[k]] /\ left = [k \in Clients |-> left[k]]
    BY <1>0, <1>3 DEF Cleanup, TypeOK
  <2>3. left' = left BY <2>1, <2>2
  <2> QED BY <1>3, <2>3 DEF Cleanup, Q!vars
<1>4. CASE Tick
  <2>1. \A c \in Clients : left[c] < 0 => left[c] = -1 BY <1>1
  <2>2. Q!Tick BY <1>4, <2>1 DEF Tick, Q!Tick, Q!Spans, Spans
  <2> QED BY <2>2 DEF Q!Next
<1>5. CASE UNCHANGED vars BY <1>5 DEF vars, Q!vars
<1> QED BY <1>2, <1>3, <1>4, <1>5 DEF Next, Q!Next

\* Whether a request passes depends on the client's own window alone: the map,
\* its counters and its sweep are invisible (Allow, cleanup).
THEOREM RateLimitImplementsQuota == Spec => ImplementsQuota
<1>1. Init => Exactly BY DEF Init, Exactly, Exact
<1>2. Init => Q!Init BY DEF Init, Q!Init, Q!Spans, Spans
<1> QED BY <1>1, <1>2, RateLimitIInv, ExactlyStep, QuotaStep, PTL DEF Spec, ImplementsQuota, Q!Spec
=============================================================================
