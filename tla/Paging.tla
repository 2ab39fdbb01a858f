------------------------------- MODULE Paging -------------------------------
(***************************************************************************)
(* A reader walks a list page by page while the list changes.              *)
(*                                                                         *)
(* Every list of the server is read the same way: the newest items below a *)
(* cursor, ORDER BY id DESC LIMIT, and the id of the last one as the next  *)
(* cursor (scanPosts, GetNotifications).  Lists differ in how a walk ends: *)
(* some handlers clear the cursor when a page is short, with the others    *)
(* the reader goes on to an empty page.                                    *)
(*                                                                         *)
(* Items are their ids.  An id is drawn when the item is made and the item *)
(* is seen later, at the commit or at the fan-out, so items enter a list   *)
(* in any order; they leave it when they are deleted, read or filtered     *)
(* out, and a question may return when its state does.                     *)
(***************************************************************************)
EXTENDS Naturals, FiniteSets

CONSTANTS Ids,      \* the items that may be in the list
          Limit,    \* 20 in the handlers
          Lists     \* the lists a run walks

\* Lists whose handler clears the cursor of a short page, and lists that end
\* with an empty page.
EndsShort == {"replies", "questions", "inbox"}
EndsEmpty == {"home", "global", "profile", "search"}

\* The infinite scroll of the search page.
SearchPage == "search page"

ASSUME PagingAssumption == /\ Ids \subseteq Nat \ {0} /\ IsFiniteSet(Ids)
                           /\ Limit \in Nat \ {0}
                           /\ Lists \subseteq EndsShort \cup EndsEmpty \cup {SearchPage}

VARIABLES list,      \* the list that is walked
          present,   \* the items that are in it
          walking,   \* whether the reader has another page to ask for
          cursor,    \* the cursor it will ask with; 0 stands for none
          page,      \* the page it was given last
          earlier,   \* the items of the pages before
          steady     \* the items that have been in the list since the walk began

vars == <<list, present, walking, cursor, page, earlier, steady>>

TypeOK == /\ list \in Lists
          /\ present \subseteq Ids
          /\ walking \in BOOLEAN
          /\ cursor \in Ids \cup {0}
          /\ page \subseteq Ids
          /\ earlier \subseteq Ids
          /\ steady \subseteq Ids

Init == /\ list \in Lists
        /\ present \in SUBSET Ids
        /\ walking = FALSE
        /\ cursor = 0
        /\ page = {} /\ earlier = {} /\ steady = {}

-----------------------------------------------------------------------------
(* The query *)

\* The cursor included (mutant).
FromCursor(c) == {x \in present : c = 0 \/ x <= c}

\* WHERE ... AND id < cursor, when there is a cursor.
BelowCursor(c) == {x \in present : c = 0 \/ x < c}

\* Without the ORDER BY (mutant).
IsAnyPage(P, C) == IF Cardinality(C) <= Limit THEN P = C ELSE Cardinality(P) = Limit

\* ORDER BY id DESC LIMIT Limit
IsPage(P, C) == /\ \A x \in P : \A y \in C \ P : y < x
                /\ IF Cardinality(C) <= Limit THEN P = C ELSE Cardinality(P) = Limit

\* nextCursor: the id of the last row, or "".
IsCursor(c, P) == IF P = {} THEN c = 0 ELSE c \in P /\ \A x \in P : c <= x

\* What may match the next request.  The search page appends "?cursor=..." to a
\* URL that has a query already: the cursor becomes part of the words that are
\* searched for, and what matches them all is some of the results, from the top.
Asked == IF list = SearchPage /\ cursor # 0 THEN SUBSET present ELSE {BelowCursor(cursor)}

\* A full page taken for the last one (mutant).
LastPageFull(P) == IF list \in EndsShort THEN Cardinality(P) <= Limit ELSE P = {}

\* Whether there is no next cursor.
LastPage(P) == IF list \in EndsShort THEN Cardinality(P) < Limit ELSE P = {}

-----------------------------------------------------------------------------
(* The reader *)

\* A handler that does not check the cursor it is given (mutant).
StartUnchecked ==
  /\ ~walking
  /\ walking' = TRUE /\ cursor' \in {0, Limit + 100}
  /\ page' = {} /\ earlier' = {}
  /\ steady' = present
  /\ UNCHANGED <<list, present>>

\* From the newest item, without a cursor.
Start ==
  /\ ~walking
  /\ walking' = TRUE /\ cursor' = 0
  /\ page' = {} /\ earlier' = {}
  /\ steady' = present
  /\ UNCHANGED <<list, present>>

Fetch ==
  /\ walking
  /\ \E C \in Asked : \E P \in SUBSET C : \E c \in P \cup {0} :
       /\ IsPage(P, C) /\ IsCursor(c, P)
       /\ page' = P
       /\ cursor' = IF LastPage(P) THEN 0 ELSE c
       /\ walking' = ~LastPage(P)
  /\ earlier' = earlier \cup page
  /\ UNCHANGED <<list, present, steady>>

-----------------------------------------------------------------------------
(* The list changes *)

Enter(x) ==
  /\ x \notin present
  /\ present' = present \cup {x}
  /\ UNCHANGED <<list, walking, cursor, page, earlier, steady>>

Leave(x) ==
  /\ x \in present
  /\ present' = present \ {x}
  /\ steady' = steady \ {x}
  /\ UNCHANGED <<list, walking, cursor, page, earlier>>

-----------------------------------------------------------------------------
Next == Start \/ Fetch \/ \E x \in Ids : Enter(x) \/ Leave(x)

Spec == Init /\ [][Next]_vars

\* A reader asks for the pages of a walk, and walks again and again.
FairSpec == Spec /\ WF_vars(Start) /\ WF_vars(Fetch)

-----------------------------------------------------------------------------
(* Safety *)

\* A page is all older than the pages before it: no item is shown twice in a
\* walk, not even one that left and returned, and the order holds across pages,
\* whatever enters late (scanPosts, GetNotifications).
NewestFirst == \A x \in page : \A y \in earlier : x < y

\* A walk that has ended has shown everything that was in the list from its
\* beginning to its end, however the rest of the list moved (LastPage).
WalkComplete == ~walking => steady \subseteq earlier \cup page

\* What the two rest on.
IInv == /\ TypeOK
        /\ NewestFirst
        /\ steady \subseteq present
        /\ walking /\ cursor = 0 => earlier = {} /\ page = {}
        /\ cursor # 0 => \A x \in earlier \cup page : cursor <= x
        /\ walking => \A x \in steady : (cursor # 0 /\ cursor <= x) => x \in earlier \cup page
        /\ WalkComplete

-----------------------------------------------------------------------------
(* Liveness *)

\* A walk ends, even if the list never stands still.
WalkEnds == walking ~> ~walking

\* An item that enters below the cursor is missed by the walk but met by the
\* next one, which begins at the newest item again, as skill/SKILL.md tells
\* agents to do with the inbox.
LateItemsMet == \A x \in Ids : x \in present ~> x \notin present \/ x \in page

=============================================================================
