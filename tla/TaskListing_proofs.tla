------------------------- MODULE TaskListing_proofs --------------------------
(***************************************************************************)
(* Proofs about TaskListing for any tasks, timestamps, page sizes and      *)
(* interleavings.  What a walk has shown is compared with the rank of what *)
(* it has not: while nothing leaves the list ranks only grow, while        *)
(* nothing joins it they only shrink.                                      *)
(***************************************************************************)
EXTENDS TaskListing, FiniteSetTheorems, TLAPS

\* Where the next page begins, as soon as this one is answered.
Reached == IF phase \in {"answered", "done"} THEN offset + Limit ELSE offset

\* An id is given out once, so a POST that commits meets no row.
OpenFresh ==
    \A t \in Tasks :
        /\ t \in open => rows[t] = Absent
        /\ t \in open \/ rows[t] # Absent => t \in used

\* A page is asked for with a limit of 1 or more.
LimitInv == phase \in {"counted", "answered"} => Limit >= 1

CountInv == phase = "counted" /\ quiet => total = Cardinality(List)

\* What has not been shown is not behind the walk.
MissedInv ==
    ~left => \A t \in first : t \in List /\ (t \notin seen => Rank(t) >= Reached)

\* What has been shown is.
RepeatedInv ==
    ~joined => again = {} /\ \A t \in seen : t \in List => Rank(t) < Reached

LastPageInv == phase = "answered" /\ ~beyond /\ ~left => first \subseteq seen

Walking == phase \notin Over

IInv ==
    /\ TypeOK /\ OpenFresh /\ LimitInv /\ CountInv /\ QuietPageIsExact
    /\ Walking => MissedInv /\ LastPageInv
    /\ RepeatedInv /\ NothingMissed

-----------------------------------------------------------------------------
\* Lists are finite and ranks are numbers.
ListIsFinite ==
  /\ IsFiniteSet(List) /\ Cardinality(List) \in Nat
  /\ \A t : IsFiniteSet(Ahead(t)) /\ Rank(t) \in Nat
  /\ \A S \in SUBSET List : IsFiniteSet(S) /\ Cardinality(S) <= Cardinality(List)
                            /\ (Cardinality(S) = Cardinality(List) => S = List)

\* So they are, before a step and after it.
LEMMA Finiteness == ListIsFinite
  <1>1. IsFiniteSet(List)
    BY FS_Subset, ListingAssumption DEF List
  <1>2. ASSUME NEW S \in SUBSET List
        PROVE  /\ IsFiniteSet(S) /\ Cardinality(S) \in Nat
               /\ Cardinality(S) <= Cardinality(List)
               /\ Cardinality(S) = Cardinality(List) => S = List
    BY <1>1, <1>2, FS_Subset, FS_CardinalityType
  <1>3. ASSUME NEW t PROVE Ahead(t) \in SUBSET List
    BY DEF Ahead
  <1> QED BY <1>1, <1>2, <1>3, FS_CardinalityType DEF Rank, ListIsFinite

\* The order of the list is a strict total order.
LEMMA Order ==
  ASSUME TypeOK
  PROVE  /\ \A s, t \in List : s # t => Precedes(s, t) \/ Precedes(t, s)
         /\ \A s \in List : ~Precedes(s, s)
         /\ \A r, s, t \in List : Precedes(r, s) /\ Precedes(s, t) => Precedes(r, t)
  <1>1. \A t \in List : t \in Int /\ rows[t].created_at \in Int
    BY ListingAssumption DEF TypeOK, List, Selected
  <1> QED BY <1>1 DEF Precedes

\* Of two tasks the one ahead has the smaller rank.
LEMMA RankGrows ==
  ASSUME TypeOK, NEW s \in List, NEW t \in List, Precedes(s, t)
  PROVE  Rank(s) < Rank(t)
  <1>1. Ahead(s) \subseteq Ahead(t)
    BY Order DEF Ahead
  <1>2. s \in Ahead(t) /\ s \notin Ahead(s)
    BY Order DEF Ahead
  <1>3. IsFiniteSet(Ahead(t)) /\ Rank(s) \in Nat /\ Rank(t) \in Nat
    BY Finiteness DEF ListIsFinite
  <1>4. Cardinality(Ahead(s)) <= Cardinality(Ahead(t)) /\ Cardinality(Ahead(s)) # Cardinality(Ahead(t))
    BY <1>1, <1>2, <1>3, FS_Subset
  <1> QED BY <1>3, <1>4 DEF Rank

\* Ranks go from 0 to the length of the list less one: something lies beyond
\* a page exactly if the page ends before the list does.
LEMMA BeyondIsCounted ==
  ASSUME TypeOK, NEW k \in Nat
  PROVE  (\E t \in List : Rank(t) >= k) <=> k < Cardinality(List)
  <1>1. ASSUME NEW t \in List, Rank(t) >= k PROVE k < Cardinality(List)
    <2>1. Ahead(t) \in SUBSET List /\ t \notin Ahead(t)
      BY Order DEF Ahead
    <2>2. Cardinality(Ahead(t)) <= Cardinality(List) /\ Cardinality(Ahead(t)) # Cardinality(List)
      BY <2>1, Finiteness DEF ListIsFinite
    <2> QED BY <1>1, <2>2, Finiteness DEF Rank, ListIsFinite
  <1>2. ASSUME k < Cardinality(List), \A t \in List : ~(Rank(t) >= k) PROVE FALSE
    <2> DEFINE f == [t \in List |-> Rank(t)]
    <2>1. \A t \in List : Rank(t) \in 0 .. k - 1
      BY <1>2, Finiteness DEF ListIsFinite
    <2>2. IsFiniteSet(0 .. k - 1) /\ Cardinality(0 .. k - 1) = k
      <3>1. IsFiniteSet(0 .. k - 1) /\ Cardinality(0 .. k - 1) = IF 0 > k - 1 THEN 0 ELSE k - 1 - 0 + 1
        BY FS_Interval, 0 \in Int, k - 1 \in Int
      <3> QED BY <3>1
    <2>3. \E s, t \in List : s # t /\ f[s] = f[t]
      <3>1. f \in [List -> 0 .. k - 1]
        BY <2>1
      <3> HIDE DEF f
      <3> QED BY <3>1, <2>2, <1>2, Finiteness, FS_PigeonHole DEF ListIsFinite
    <2>4. PICK s \in List, t \in List : s # t /\ Rank(s) = Rank(t)
      BY <2>3
    <2>5. Rank(s) < Rank(t) \/ Rank(t) < Rank(s)
      BY <2>4, Order, RankGrows
    <2> QED BY <2>4, <2>5, Finiteness DEF ListIsFinite
  <1> QED BY <1>1, <1>2

\* What get_page_params yields is a number, not always a positive one.
LEMMA LimitType ==
  ASSUME TypeOK
  PROVE  Limit \in Int
  BY ListingAssumption DEF TypeOK, Limit

-----------------------------------------------------------------------------
\* The commits that change the table.
Committing(t) == CommitPost(t) \/ Patch(t) \/ Delete(t)

\* Commits keep the types and the freshness of ids, and created_at of a row
\* that was there and still is.
LEMMA CommitKeepsRows ==
  ASSUME TypeOK, OpenFresh, NEW t \in Tasks, Committing(t)
  PROVE  /\ TypeOK' /\ OpenFresh'
         /\ \A s \in Tasks : rows[s] # Absent /\ rows'[s] # Absent
                                => rows'[s].created_at = rows[s].created_at
  <1>1. /\ UNCHANGED <<walk, again, first, beyond>>
        /\ joined' \in BOOLEAN /\ left' \in BOOLEAN /\ quiet' \in BOOLEAN
    BY DEF Committing, CommitPost, Patch, Delete, Watched, TypeOK
  <1>2. Absent \notin Row
    BY ListingAssumption
  <1>3. /\ used' = used /\ open' \subseteq open
        /\ \E new \in Row \cup {Absent} :
              /\ rows' = [rows EXCEPT ![t] = new]
              /\ new # Absent => t \in used /\ t \notin open'
              /\ rows[t] # Absent /\ new # Absent => new.created_at = rows[t].created_at
    <2>1. CASE CommitPost(t)
      BY <2>1 DEF CommitPost, Table!CommitPost, OpenFresh
    <2>2. CASE Patch(t)
      BY <2>2 DEF Patch, Table!Patch, OpenFresh
    <2>3. CASE Delete(t)
      BY <2>3 DEF Delete, Table!Delete
    <2> QED BY <2>1, <2>2, <2>3 DEF Committing
  <1>4. PICK new \in Row \cup {Absent} :
          /\ rows' = [rows EXCEPT ![t] = new]
          /\ new # Absent => t \in used /\ t \notin open'
          /\ rows[t] # Absent /\ new # Absent => new.created_at = rows[t].created_at
    BY <1>3
  <1>5. TypeOK'
    <2>1. rows' \in [Tasks -> Row \cup {Absent}] /\ used' \subseteq Tasks /\ open' \subseteq Tasks
      BY <1>3, <1>4 DEF TypeOK
    <2> QED BY <1>1, <2>1 DEF TypeOK, walk
  <1>6. OpenFresh'
    BY <1>3, <1>4 DEF TypeOK, OpenFresh
  <1> QED BY <1>4, <1>5, <1>6 DEF TypeOK

\* A list that only grew has greater ranks, one that only shrank has smaller
\* ones.
LEMMA CommitMovesRanks ==
  ASSUME TypeOK, OpenFresh, NEW t \in Tasks, Committing(t)
  PROVE  /\ List \subseteq List' => \A s \in List : Rank(s)' >= Rank(s)
         /\ List' \subseteq List => \A s \in List' : Rank(s)' <= Rank(s)
  <1>1. \A s, u \in List : s \in List' /\ u \in List' => (Precedes(s, u)' <=> Precedes(s, u))
    BY CommitKeepsRows DEF List, Selected, Precedes
  <1>2. ListIsFinite /\ ListIsFinite'
    <2>1. ListIsFinite
      BY Finiteness
    <2>2. ListIsFinite'
      BY Finiteness, PTL
    <2> QED BY <2>1, <2>2
  <1>3. ASSUME List \subseteq List', NEW s \in List PROVE Rank(s)' >= Rank(s)
    <2>1. Ahead(s) \subseteq Ahead(s)'
      BY <1>1, <1>3 DEF Ahead
    <2>2. IsFiniteSet(Ahead(s)') /\ Rank(s) \in Nat /\ Rank(s)' \in Nat
      BY <1>2 DEF ListIsFinite
    <2> QED BY <2>1, <2>2, FS_Subset DEF Rank
  <1>4. ASSUME List' \subseteq List, NEW s \in List' PROVE Rank(s)' <= Rank(s)
    <2>1. Ahead(s)' \subseteq Ahead(s)
      BY <1>1, <1>4 DEF Ahead
    <2>2. IsFiniteSet(Ahead(s)) /\ Rank(s) \in Nat /\ Rank(s)' \in Nat
      BY <1>2 DEF ListIsFinite
    <2> QED BY <2>1, <2>2, FS_Subset DEF Rank
  <1> QED BY <1>3, <1>4

-----------------------------------------------------------------------------
\* The invariant, step by step.
LEMMA InitInv == Init => IInv
  <1> SUFFICES ASSUME Init PROVE IInv
    OBVIOUS
  <1>1. TypeOK /\ OpenFresh
    BY ListingAssumption DEF Init, Table!TableInit, TypeOK, OpenFresh, List
  <1>2. MissedInv
    BY Finiteness DEF Init, MissedInv, Reached, ListIsFinite
  <1> QED BY <1>1, <1>2 DEF Init, IInv, LimitInv, CountInv, QuietPageIsExact, RepeatedInv,
                            NothingMissed, LastPageInv

\* Reading changes neither the list nor the limit.
LEMMA SameList ==
  ASSUME UNCHANGED <<rows, settings, param, filter>>
  PROVE  List' = List /\ Limit' = Limit /\ \A t : Rank(t)' = Rank(t)
  BY DEF List, Selected, Limit, Rank, Ahead, Precedes

LEMMA CountStep == IInv /\ Count => IInv'
  <1> SUFFICES ASSUME IInv, Count PROVE IInv'
    OBVIOUS
  <1>1. /\ List' = List /\ Limit' = Limit /\ \A t : Rank(t)' = Rank(t)
        /\ phase = "ask" /\ phase' \in {"counted", "refused"}
        /\ UNCHANGED <<rows, used, open, settings, param, filter, offset, seen,
                       again, first, joined, left, beyond>>
    BY SameList DEF Count
  <1>2. Cardinality(List) \in Nat
    BY Finiteness DEF ListIsFinite
  <1>3. TypeOK' /\ OpenFresh'
    BY <1>1, <1>2 DEF IInv, TypeOK, OpenFresh, Over, Count
  <1>4. phase' = "counted" => Limit >= 1 /\ total' = Cardinality(List)
    BY LimitType DEF Count, BadLimit, IInv
  <1>5. Reached' = Reached
    BY <1>1 DEF Reached
  <1>6. MissedInv' /\ RepeatedInv'
    BY <1>1, <1>5 DEF IInv, MissedInv, RepeatedInv, Walking, Over
  <1> QED BY <1>1, <1>3, <1>4, <1>6 DEF IInv, LimitInv, CountInv, QuietPageIsExact,
                                        LastPageInv, NothingMissed

LEMMA SelectStep == IInv /\ Select => IInv'
  <1> SUFFICES ASSUME IInv, Select PROVE IInv'
    OBVIOUS
  <1>1. /\ List' = List /\ Limit' = Limit /\ \A t : Rank(t)' = Rank(t)
        /\ phase = "counted" /\ phase' = "answered"
        /\ seen' = seen \cup Page /\ again' = again \cup (seen \cap Page)
        /\ beyond' = \E t \in List : Rank(t) >= offset + Limit
        /\ UNCHANGED <<rows, used, open, settings, param, filter, offset, total,
                       first, joined, left, quiet>>
    BY SameList DEF Select
  <1>2. /\ Limit \in Nat /\ Limit >= 1 /\ offset \in Nat /\ total \in Nat
        /\ \A t : Rank(t) \in Nat
    BY <1>1, LimitType, Finiteness DEF IInv, LimitInv, TypeOK, ListIsFinite
  <1>3. Page \subseteq List /\ List \subseteq Tasks
    BY DEF Page, List
  <1>4. TypeOK' /\ OpenFresh'
    <2>1. beyond' \in BOOLEAN
      BY <1>1
    <2> QED BY <1>1, <1>3, <2>1 DEF IInv, TypeOK, OpenFresh
  <1>5. Reached = offset /\ Reached' = offset + Limit
    BY <1>1 DEF Reached
  <1>6. MissedInv'
    BY <1>1, <1>2, <1>5 DEF IInv, Walking, Over, MissedInv, Page
  <1>7. RepeatedInv'
    <2>1. SUFFICES ASSUME ~joined
                   PROVE  again' = {} /\ \A t \in seen' : t \in List => Rank(t) < offset + Limit
      BY <1>1, <1>5 DEF RepeatedInv
    <2>2. again = {} /\ \A t \in seen : t \in List => Rank(t) < offset
      BY <2>1, <1>5 DEF IInv, RepeatedInv
    <2>3. seen \cap Page = {}
      BY <1>2, <2>2 DEF Page
    <2> QED BY <1>1, <1>2, <2>2, <2>3 DEF Page
  <1>8. LastPageInv'
    BY <1>1, <1>2, <1>6, <1>5 DEF LastPageInv, MissedInv, Page
  <1>9. QuietPageIsExact'
    <2>1. SUFFICES ASSUME quiet PROVE offset + Limit < total <=> beyond'
      BY <1>1 DEF QuietPageIsExact, HasMore
    <2>2. total = Cardinality(List)
      BY <1>1, <2>1 DEF IInv, CountInv
    <2>3. offset + Limit \in Nat
      BY <1>2
    <2> QED BY <1>1, <2>2, <2>3, BeyondIsCounted DEF IInv
  <1> QED BY <1>1, <1>2, <1>4, <1>6, <1>7, <1>8, <1>9
          DEF IInv, LimitInv, CountInv, NothingMissed

LEMMA TurnStep == IInv /\ Turn => IInv'
  <1> SUFFICES ASSUME IInv, Turn PROVE IInv'
    OBVIOUS
  <1>1. /\ List' = List /\ Limit' = Limit /\ \A t : Rank(t)' = Rank(t)
        /\ phase = "answered" /\ phase' \in {"ask", "done"}
        /\ phase' = "done" => ~HasMore /\ offset' = offset
        /\ phase' = "ask" => offset' = offset + Limit
        /\ UNCHANGED <<rows, used, open, settings, param, filter, total, seen, history>>
    BY SameList DEF Turn
  <1>2. Limit \in Nat /\ Limit >= 1 /\ offset \in Nat /\ \A t : Rank(t) \in Nat
    BY <1>1, LimitType, Finiteness DEF IInv, LimitInv, TypeOK, ListIsFinite
  <1>3. TypeOK' /\ OpenFresh'
    BY <1>1, <1>2 DEF IInv, TypeOK, OpenFresh, Over, history
  <1>4. CASE phase' = "ask"
    <2>1. Reached' = Reached
      BY <1>1, <1>4 DEF Reached
    <2> QED BY <1>1, <1>3, <1>4, <2>1 DEF IInv, Walking, Over, MissedInv, RepeatedInv, LimitInv,
               CountInv, QuietPageIsExact, LastPageInv, NothingMissed, history
  <1>5. CASE phase' = "done"
    <2>1. quiet => ~beyond
      BY <1>1, <1>5 DEF IInv, QuietPageIsExact
    <2>2. NothingMissed'
      BY <1>1, <2>1 DEF IInv, Walking, Over, LastPageInv, NothingMissed, history
    <2> QED
      BY <1>1, <1>2, <1>3, <1>5, <2>2 DEF IInv, Walking, Over, RepeatedInv, LimitInv, CountInv,
         QuietPageIsExact, history, Reached
  <1> QED BY <1>1, <1>4, <1>5

\* A page that fails leaves the walk where it is.
LEMMA FailStep == IInv /\ PageFails => IInv'
  <1> SUFFICES ASSUME IInv, PageFails PROVE IInv'
    OBVIOUS
  <1>1. /\ List' = List /\ Limit' = Limit /\ \A t : Rank(t)' = Rank(t)
        /\ phase \in {"ask", "counted"} /\ phase' \in {"ask", "failed"}
        /\ UNCHANGED <<rows, used, open, settings, param, filter, offset, total, seen, history>>
    BY SameList DEF PageFails
  <1>2. TypeOK' /\ OpenFresh'
    BY <1>1 DEF IInv, TypeOK, OpenFresh, Over, history
  <1>3. Reached' = Reached
    BY <1>1 DEF Reached
  <1> QED BY <1>1, <1>2, <1>3 DEF IInv, Walking, Over, MissedInv, RepeatedInv, LimitInv,
             CountInv, QuietPageIsExact, LastPageInv, NothingMissed, history

LEMMA CommitStep == ASSUME NEW t \in Tasks PROVE IInv /\ Walking /\ Committing(t) => IInv'
  <1> SUFFICES ASSUME IInv, Walking, Committing(t) PROVE IInv'
    OBVIOUS
  <1>1. /\ UNCHANGED <<walk, again, first, beyond>>
        /\ ~joined' => ~joined /\ List' \subseteq List
        /\ ~left' => ~left /\ List \subseteq List'
        /\ quiet' => quiet /\ (phase = "counted" => List' = List)
    BY DEF Committing, CommitPost, Patch, Delete, Watched
  <1>2. /\ phase' = phase /\ seen' = seen /\ again' = again /\ first' = first /\ beyond' = beyond
        /\ total' = total /\ Limit' = Limit /\ Reached' = Reached /\ offset' = offset
    BY <1>1 DEF walk, Limit, Reached
  <1>3. TypeOK' /\ OpenFresh'
    BY CommitKeepsRows DEF IInv
  <1>4. /\ List \subseteq List' => \A s \in List : Rank(s)' >= Rank(s)
        /\ List' \subseteq List => \A s \in List' : Rank(s)' <= Rank(s)
    BY CommitMovesRanks DEF IInv
  <1>5. (\A s : Rank(s) \in Nat) /\ (\A s : Rank(s)' \in Nat) /\ Reached \in Int
    <2>1. ListIsFinite /\ ListIsFinite'
      <3>1. ListIsFinite
        BY Finiteness
      <3>2. ListIsFinite'
        BY Finiteness, PTL
      <3> QED BY <3>1, <3>2
    <2> QED BY <2>1, LimitType DEF ListIsFinite, IInv, TypeOK, Reached
  <1>6. MissedInv'
    <2>1. SUFFICES ASSUME ~left', NEW s \in first
                   PROVE  s \in List' /\ (s \notin seen => Rank(s)' >= Reached)
      BY <1>2 DEF MissedInv
    <2>2. List \subseteq List' /\ s \in List /\ (s \notin seen => Rank(s) >= Reached)
      BY <1>1, <2>1 DEF IInv, MissedInv
    <2>3. Rank(s)' >= Rank(s)
      BY <1>4, <2>2
    <2> QED BY <1>5, <2>2, <2>3
  <1>7. RepeatedInv'
    <2>1. SUFFICES ASSUME ~joined'
                   PROVE  again = {} /\ \A s \in seen : s \in List' => Rank(s)' < Reached
      BY <1>2 DEF RepeatedInv
    <2>2. /\ List' \subseteq List /\ again = {}
          /\ \A s \in seen : s \in List => Rank(s) < Reached
      BY <1>1, <2>1 DEF IInv, RepeatedInv
    <2>3. \A s \in List' : Rank(s)' <= Rank(s)
      BY <1>4, <2>2
    <2> QED BY <1>5, <2>2, <2>3
  <1>8. CountInv' /\ QuietPageIsExact'
    BY <1>1, <1>2 DEF IInv, CountInv, QuietPageIsExact, HasMore
  <1>9. LastPageInv' /\ LimitInv' /\ NothingMissed'
    BY <1>1, <1>2 DEF IInv, Walking, LastPageInv, LimitInv, NothingMissed
  <1> QED BY <1>3, <1>6, <1>7, <1>8, <1>9 DEF IInv

\* POSTs that are not committed are not in any list.
LEMMA PostStep == ASSUME NEW t \in Tasks PROVE IInv /\ (Post(t) \/ AbortPost(t)) => IInv'
  <1> SUFFICES ASSUME IInv, Post(t) \/ AbortPost(t) PROVE IInv'
    OBVIOUS
  <1>1. UNCHANGED <<rows, walk, history>> /\ used' \subseteq Tasks
    BY DEF Post, Table!Post, AbortPost, Table!AbortPost, IInv, TypeOK
  <1>2. open' \subseteq Tasks /\ OpenFresh'
    <2>1. CASE Post(t)
      BY <2>1 DEF Post, Table!Post, IInv, TypeOK, OpenFresh
    <2>2. CASE AbortPost(t)
      BY <2>2 DEF AbortPost, Table!AbortPost, IInv, TypeOK, OpenFresh
    <2> QED BY <2>1, <2>2
  <1>3. List' = List /\ Limit' = Limit /\ \A s : Rank(s)' = Rank(s)
    BY <1>1, SameList DEF walk
  <1>4. TypeOK'
    BY <1>1, <1>2 DEF IInv, TypeOK, walk, history
  <1>5. Reached' = Reached
    BY <1>1, <1>3 DEF walk, Reached
  <1> QED BY <1>1, <1>2, <1>3, <1>4, <1>5 DEF IInv, Walking, walk, history, LimitInv, CountInv,
             QuietPageIsExact, HasMore, MissedInv, RepeatedInv, LastPageInv, NothingMissed

LEMMA StutterStep == IInv /\ UNCHANGED vars => IInv'
  <1> SUFFICES ASSUME IInv, UNCHANGED vars PROVE IInv'
    OBVIOUS
  <1>1. UNCHANGED <<rows, walk, history, open, used>>
    BY DEF vars, history, walk
  <1>2. List' = List /\ Limit' = Limit /\ \A s : Rank(s)' = Rank(s)
    BY <1>1, SameList DEF walk
  <1>3. Reached' = Reached
    BY <1>1, <1>2 DEF walk, Reached
  <1> QED BY <1>1, <1>2, <1>3 DEF IInv, TypeOK, OpenFresh, Walking, walk, history, LimitInv,
             CountInv, QuietPageIsExact, HasMore, MissedInv, RepeatedInv, LastPageInv, NothingMissed

LEMMA Invariance == Spec => []IInv
  <1>1. IInv /\ [Next]_vars => IInv'
    <2> SUFFICES ASSUME IInv, [Next]_vars PROVE IInv'
      OBVIOUS
    <2>1. CASE Reading
      BY <2>1, CountStep, SelectStep, TurnStep DEF Reading
    <2>4. CASE PageFails
      BY <2>4, FailStep
    <2>2. CASE Walking /\ Writing
      BY <2>2, CommitStep, PostStep DEF Writing, Committing
    <2>3. CASE UNCHANGED vars
      BY <2>3, StutterStep
    <2> QED BY <2>1, <2>2, <2>3, <2>4 DEF Next, Finished, Walking
  <1> QED BY <1>1, InitInv, PTL DEF Spec

-----------------------------------------------------------------------------
\* Every variable keeps its type; in particular offsets never get negative,
\* whatever page sizes are configured.
THEOREM ListingTypeCorrect == Spec => []TypeOK
  <1>1. IInv => TypeOK
    BY DEF IInv
  <1> QED BY <1>1, Invariance, PTL

\* A walk along a list nothing leaves shows all that was there at the start.
THEOREM WalksMissNothing == Spec => []NothingMissed
  <1>1. IInv => NothingMissed
    BY DEF IInv
  <1> QED BY <1>1, Invariance, PTL

\* A walk along a list nothing joins shows nothing twice.
THEOREM WalksRepeatNothing == Spec => []NothingRepeated
  <1>1. IInv => NothingRepeated
    BY DEF IInv, RepeatedInv, NothingRepeated
  <1> QED BY <1>1, Invariance, PTL

\* A page no commit falls into comes with a true has_more: ranks are exactly
\* the numbers below the length of the list.
THEOREM QuietPagesAreExact == Spec => []QuietPageIsExact
  <1>1. IInv => QuietPageIsExact
    BY DEF IInv
  <1> QED BY <1>1, Invariance, PTL
=============================================================================
