----------------------------- MODULE PagingProofs -----------------------------
(***************************************************************************)
(* Proofs about Paging, for every set of items, every page size and every  *)
(* order in which the list changes under the reader.  The cursor parts the *)
(* items: everything shown is at or above it, and everything that has been *)
(* in the list all along and is at or above it has been shown.             *)
(***************************************************************************)
EXTENDS Paging, FiniteSetTheorems, TLAPS

\* A query of a list that is not the search page matches the items below the
\* cursor.
LEMMA AskedBelowCursor ==
  ASSUME list # SearchPage
  PROVE  Asked = {BelowCursor(cursor)}
  BY DEF Asked

\* A handler that gives no next cursor has returned all that its query matched.
LEMMA LastPageIsWhole ==
  ASSUME NEW C, NEW P, IsPage(P, C), LastPage(P)
  PROVE  P = C
<1>1. Cardinality({}) = 0
  BY FS_EmptySet
<1>2. Cardinality(P) # Limit
  <2>1. CASE list \in EndsShort
    BY <2>1, PagingAssumption DEF LastPage
  <2>2. CASE list \notin EndsShort
    BY <2>2, <1>1, PagingAssumption DEF LastPage
  <2> QED BY <2>1, <2>2
<1> QED BY <1>2 DEF IsPage

\* A page with a next cursor has an item.
LEMMA NextPageHasItem ==
  ASSUME NEW P, ~LastPage(P)
  PROVE  P # {}
<1>1. Cardinality({}) = 0
  BY FS_EmptySet
<1> QED BY <1>1, PagingAssumption DEF LastPage

LEMMA InitIInv == Init => IInv
  BY PagingAssumption DEF Init, IInv, TypeOK, NewestFirst, WalkComplete

\* Every state is of its type, in every list, the search page included.
THEOREM PagingTypeCorrect == Spec => []TypeOK
<1>1. Init => TypeOK
  BY PagingAssumption DEF Init, TypeOK
<1>2. TypeOK /\ [Next]_vars => TypeOK'
  <2> SUFFICES ASSUME TypeOK, [Next]_vars
               PROVE  TypeOK'
    OBVIOUS
  <2>1. CASE Start
    BY <2>1 DEF Start, TypeOK
  <2>2. CASE Fetch
    <3>1. \A C \in Asked : C \subseteq Ids
      BY DEF Asked, BelowCursor, TypeOK
    <3> QED BY <2>2, <3>1 DEF Fetch, TypeOK
  <2>3. ASSUME NEW x \in Ids, Enter(x) \/ Leave(x)
        PROVE  TypeOK'
    BY <2>3 DEF Enter, Leave, TypeOK
  <2>4. CASE UNCHANGED vars
    BY <2>4 DEF vars, TypeOK
  <2> QED BY <2>1, <2>2, <2>3, <2>4 DEF Next
<1> QED BY <1>1, <1>2, PTL DEF Spec

\* A page of items below the cursor keeps the invariant.
LEMMA FetchKeepsIInv ==
  ASSUME IInv, Fetch, list # SearchPage
  PROVE  IInv'
<1>1. TypeOK /\ Asked = {BelowCursor(cursor)}
  BY AskedBelowCursor DEF IInv
<1> DEFINE C == BelowCursor(cursor)
<1>2. PICK P \in SUBSET C : \E c \in P \cup {0} :
        /\ IsPage(P, C) /\ IsCursor(c, P)
        /\ page' = P
        /\ cursor' = IF LastPage(P) THEN 0 ELSE c
        /\ walking' = ~LastPage(P)
  BY <1>1 DEF Fetch
<1>3. PICK c \in P \cup {0} :
        /\ IsPage(P, C) /\ IsCursor(c, P)
        /\ page' = P
        /\ cursor' = IF LastPage(P) THEN 0 ELSE c
        /\ walking' = ~LastPage(P)
  BY <1>2
<1>4. /\ walking
      /\ earlier' = earlier \cup page
      /\ UNCHANGED <<list, present, steady>>
  BY DEF Fetch
<1>5. /\ C = {x \in present : cursor = 0 \/ x < cursor}
      /\ C \subseteq Ids /\ Ids \subseteq Nat /\ 0 \notin Ids
  BY <1>1, PagingAssumption DEF BelowCursor, TypeOK
<1> HIDE DEF C
<1>6. TypeOK'
  BY <1>1, <1>3, <1>4, <1>5 DEF TypeOK
\* The page lies below the cursor, and what was shown at or above it.
<1>7. \A x \in P : \A y \in earlier \cup page : x < y
  <2> SUFFICES ASSUME NEW x \in P, NEW y \in earlier \cup page
               PROVE  x < y
    OBVIOUS
  <2>1. cursor # 0 /\ cursor <= y
    BY <1>4 DEF IInv
  <2>2. x < cursor
    BY <2>1, <1>5
  <2> QED BY <2>1, <2>2, <1>1, <1>5 DEF TypeOK
<1>8. NewestFirst'
  BY <1>3, <1>4, <1>7 DEF NewestFirst
\* What has been in the list all along is in the page, below it, or was shown.
<1>9. \A x \in steady : x \in C \/ x \in earlier \cup page
  <2> SUFFICES ASSUME NEW x \in steady, x \notin C
               PROVE  x \in earlier \cup page
    OBVIOUS
  <2>1. cursor # 0 /\ cursor <= x
    BY <1>1, <1>5 DEF IInv, TypeOK
  <2> QED BY <2>1, <1>4 DEF IInv
<1>10. CASE LastPage(P)
  <2>1. P = C
    BY <1>3, <1>10, LastPageIsWhole
  <2>2. WalkComplete'
    BY <2>1, <1>3, <1>4, <1>9 DEF WalkComplete
  <2> QED BY <2>2, <1>3, <1>4, <1>6, <1>8, <1>10 DEF IInv
<1>11. CASE ~LastPage(P)
  <2>1. c \in P /\ \A x \in P : c <= x
    BY <1>3, <1>11, NextPageHasItem DEF IsCursor
  <2>2. walking' /\ cursor' = c /\ c # 0
    BY <2>1, <1>3, <1>5, <1>11
  <2>3. \A x \in earlier' \cup page' : c <= x
    BY <2>1, <1>1, <1>3, <1>4, <1>5, <1>7 DEF TypeOK
  <2>4. \A x \in steady' : c <= x => x \in earlier' \cup page'
    <3> SUFFICES ASSUME NEW x \in steady, c <= x, x \in C, x \notin P
                 PROVE  FALSE
      BY <1>3, <1>4, <1>9
    <3>1. x < c
      BY <2>1, <1>3 DEF IsPage
    <3> QED BY <3>1, <2>1, <1>5
  <2> QED BY <2>2, <2>3, <2>4, <1>4, <1>6, <1>8 DEF IInv, WalkComplete
<1> QED BY <1>10, <1>11

\* Every other step: a walk begins, or the list changes under the reader.
LEMMA NextIInv ==
  ASSUME IInv, [Next]_vars, list # SearchPage
  PROVE  IInv'
<1>1. CASE Start
  BY <1>1 DEF Start, IInv, TypeOK, NewestFirst, WalkComplete
<1>2. CASE Fetch
  BY <1>2, FetchKeepsIInv
<1>3. ASSUME NEW x \in Ids, Enter(x)
      PROVE  IInv'
  BY <1>3 DEF Enter, IInv, TypeOK, NewestFirst, WalkComplete
<1>4. ASSUME NEW x \in Ids, Leave(x)
      PROVE  IInv'
  BY <1>4 DEF Leave, IInv, TypeOK, NewestFirst, WalkComplete
<1>5. CASE UNCHANGED vars
  BY <1>5 DEF vars, IInv, TypeOK, NewestFirst, WalkComplete
<1> QED BY <1>1, <1>2, <1>3, <1>4, <1>5 DEF Next

\* The reader's place in a list: what was shown is above the cursor, and what
\* stayed in the list above the cursor was shown (scanPosts, GetNotifications).
THEOREM ReaderKeepsPlace == Spec => [](list # SearchPage => IInv)
<1>1. Init => (list # SearchPage => IInv)
  BY InitIInv
<1>2. (list # SearchPage => IInv) /\ [Next]_vars => (list # SearchPage => IInv)'
  <2>1. [Next]_vars => list' = list
    BY DEF Next, Start, Fetch, Enter, Leave, vars
  <2> QED BY <2>1, NextIInv
<1> QED BY <1>1, <1>2, PTL DEF Spec

\* The pages of a walk are in order and show no item twice, in every list that
\* passes its cursor on.
THEOREM PagesNewestFirst == Spec => [](list # SearchPage => NewestFirst)
<1>1. (list # SearchPage => IInv) => (list # SearchPage => NewestFirst)
  BY DEF IInv
<1> QED BY <1>1, ReaderKeepsPlace, PTL

\* A walk that has ended has missed nothing that was there throughout, in every
\* list that passes its cursor on; the run paging_search is the other case.
THEOREM WalksAreComplete == Spec => [](list # SearchPage => WalkComplete)
<1>1. (list # SearchPage => IInv) => (list # SearchPage => WalkComplete)
  BY DEF IInv
<1> QED BY <1>1, ReaderKeepsPlace, PTL

=============================================================================
