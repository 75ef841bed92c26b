---------------------------- MODULE Timeline_proofs ----------------------------
(***************************************************************************)
(* A message has one row on the screen, and a deleted one stays gone, for  *)
(* any messages, texts and number of faults: the positions of the          *)
(* announcements in the four queues on their way, and of the rows on the   *)
(* list.                                                                   *)
(***************************************************************************)
EXTENDS Timeline, WellFoundedInduction, FiniteSetTheorems, TLAPS

-------------------------------------------------------------------------------
(* Sequences.                                                              *)

\* A set of numbers has a least one.
LEMMA LeastNat ==
    ASSUME NEW T \in SUBSET Nat, T # {} PROVE \E x \in T : \A y \in T : x <= y
<1> DEFINE R == {p \in Nat \X Nat : p[1] < p[2]}
<1>1. IsWellFoundedOn(R, Nat)
  BY NatLessThanWellFounded DEF OpToRel
<1>2. \A x, y \in Nat : y < x => <<y, x>> \in R
  OBVIOUS
<1> HIDE DEF R
<1>3. PICK x \in T : \A y \in T : <<y, x>> \notin R
  BY <1>1, WFMin
<1>4. \A y \in T : y \in Nat /\ x \in Nat /\ ~(y < x)
  BY <1>2, <1>3
<1>. QED
  BY <1>4

\* The k-th of the elements of a finite set of numbers.
LEMMA KthElement ==
    ASSUME NEW K \in SUBSET Nat, IsFiniteSet(K), NEW k \in 1..Cardinality(K)
    PROVE  \E i \in K : Cardinality({j \in K : j < i}) = k - 1
<1> DEFINE Below(i) == {j \in K : j < i}
           Bad == {n \in 1..Cardinality(K) : \A i \in K : Cardinality(Below(i)) # n - 1}
<1>1. Cardinality(K) \in Nat
  BY FS_CardinalityType
<1>2. SUFFICES ASSUME Bad # {} PROVE FALSE
  OBVIOUS
<1>3. Bad \in SUBSET Nat
  BY <1>1
<1>4. PICK n \in Bad : \A y \in Bad : n <= y
  <2> HIDE DEF Bad
  <2>. QED
    BY <1>2, <1>3, LeastNat
<1>5. n \in 1..Cardinality(K) /\ n \in Nat /\ \A i \in K : Cardinality(Below(i)) # n - 1
  BY <1>1
<1>6. CASE n = 1
  <2>1. K # {}
    BY <1>5, <1>6, <1>1, FS_EmptySet
  <2>2. PICK i \in K : \A j \in K : i <= j
    BY <2>1, LeastNat
  <2>3. \A j \in K : ~(j < i)
    BY <2>2
  <2>4. Below(i) = {}
    BY <2>3
  <2>. QED
    BY <2>4, <1>5, <1>6, FS_EmptySet
<1>7. CASE n # 1
  <2>1. n - 1 \in 1..Cardinality(K) /\ n - 1 \notin Bad
    BY <1>1, <1>4, <1>5, <1>7
  <2>2. PICK i \in K : Cardinality(Below(i)) = n - 2
    <3>1. ~ \A i \in K : Cardinality(Below(i)) # (n - 1) - 1
      <4> HIDE DEF Below
      <4>. QED
        BY <2>1
    <3>2. (n - 1) - 1 = n - 2
      BY <1>5
    <3> HIDE DEF Below, Bad
    <3>. QED
      BY <3>1, <3>2
  <2> DEFINE Upto == Below(i) \cup {i}
  <2>3. IsFiniteSet(Below(i)) /\ i \notin Below(i)
    BY FS_Subset
  <2>4. IsFiniteSet(Upto) /\ Cardinality(Upto) = n - 1
    <3>1. IsFiniteSet(Upto) /\ Cardinality(Upto) = Cardinality(Below(i)) + 1
      <4> HIDE DEF Below
      <4>. QED
        BY <2>3, FS_AddElement
    <3>2. n - 2 + 1 = n - 1
      BY <1>5
    <3> HIDE DEF Below
    <3>. QED
      BY <3>1, <3>2, <2>2
  <2>5. K \ Upto # {}
    <3>1. Upto \subseteq K
      OBVIOUS
    <3>2. K # Upto
      BY <2>4, <1>1, <1>5
    <3>. QED
      BY <3>1, <3>2
  <2>6. PICK m \in K \ Upto : \A j \in K \ Upto : m <= j
    <3>1. K \ Upto \in SUBSET Nat
      OBVIOUS
    <3> HIDE DEF Upto
    <3>. QED
      BY <3>1, <2>5, LeastNat
  <2>7. Below(m) = Upto
    <3>1. m > i
      BY <2>6
    <3>2. \A j \in K : j < m <=> j \in Upto
      BY <3>1, <2>6
    <3>. QED
      BY <3>2
  <2>. QED
    BY <2>4, <2>6, <2>7, <1>5
<1>. QED
  BY <1>6, <1>7

In(X, q)   == \E i \in 1..Len(q) : q[i] \in X
Once(X, q) == \A i, j \in 1..Len(q) : q[i] \in X /\ q[j] \in X => i = j
Before(X, Y, q) == \A i, j \in 1..Len(q) : q[i] \in X /\ q[j] \in Y => i < j

LEMMA AppendAt ==
    ASSUME NEW S, NEW q \in Seq(S), NEW e \in S, NEW X, NEW Y
    PROVE  /\ Append(q, e) \in Seq(S)
           /\ In(X, Append(q, e)) <=> In(X, q) \/ e \in X
           /\ Once(X, q) /\ ~(In(X, q) /\ e \in X) => Once(X, Append(q, e))
           /\ Before(X, Y, q) /\ ~(In(Y, q) /\ e \in X) /\ X \cap Y = {}
                 => Before(X, Y, Append(q, e))
<1> DEFINE r == Append(q, e)
<1>1. /\ Len(q) \in Nat /\ r \in Seq(S) /\ Len(r) = Len(q) + 1 /\ r[Len(q) + 1] = e
      /\ \A i \in 1..Len(q) : r[i] = q[i]
  OBVIOUS
<1> HIDE DEF r
<1>2. /\ \A i \in 1..Len(q) : i \in 1..Len(r)
      /\ Len(q) + 1 \in 1..Len(r)
      /\ \A i \in 1..Len(r) : i \in 1..Len(q) \/ i = Len(q) + 1
  BY <1>1
<1>3. In(X, r) <=> In(X, q) \/ e \in X
  BY <1>1, <1>2 DEF In
<1>4. Once(X, q) /\ ~(In(X, q) /\ e \in X) => Once(X, r)
  BY <1>1, <1>2 DEF In, Once
<1>5. Before(X, Y, q) /\ ~(In(Y, q) /\ e \in X) /\ X \cap Y = {} => Before(X, Y, r)
  BY <1>1, <1>2 DEF In, Before
<1>. QED
  BY <1>1, <1>3, <1>4, <1>5 DEF r

LEMMA TailAt ==
    ASSUME NEW S, NEW q \in Seq(S), q # <<>>, NEW X, NEW Y
    PROVE  /\ Head(q) \in S /\ Tail(q) \in Seq(S)
           /\ In(X, q) <=> In(X, Tail(q)) \/ Head(q) \in X
           /\ Once(X, q) => Once(X, Tail(q)) /\ ~(Head(q) \in X /\ In(X, Tail(q)))
           /\ Before(X, Y, q) => Before(X, Y, Tail(q)) /\ ~(Head(q) \in Y /\ In(X, Tail(q)))
<1> DEFINE r == Tail(q)
<1>1. /\ Len(q) \in Nat /\ Len(q) >= 1 /\ r \in Seq(S) /\ Len(r) = Len(q) - 1
      /\ Head(q) = q[1] /\ Head(q) \in S
      /\ \A i \in 1..Len(r) : r[i] = q[i + 1]
  OBVIOUS
<1> HIDE DEF r
<1>2. /\ 1 \in 1..Len(q) /\ \A i \in 1..Len(r) : i + 1 \in 1..Len(q) /\ i + 1 # 1
      /\ \A i \in 1..Len(q) : i = 1 \/ (i - 1 \in 1..Len(r) /\ (i - 1) + 1 = i)
  BY <1>1
<1>3. In(X, q) <=> In(X, r) \/ Head(q) \in X
  <2>1. ASSUME NEW i \in 1..Len(q), q[i] \in X PROVE In(X, r) \/ Head(q) \in X
    <3>1. CASE i = 1
      BY <2>1, <3>1, <1>1
    <3>2. CASE i # 1
      <4>1. i - 1 \in 1..Len(r) /\ r[i - 1] = q[i]
        BY <3>2, <1>1, <1>2
      <4>. QED
        BY <4>1, <2>1 DEF In
    <3>. QED
      BY <3>1, <3>2
  <2>. QED
    BY <2>1, <1>1, <1>2 DEF In
<1>4. Once(X, q) => Once(X, r) /\ ~(Head(q) \in X /\ In(X, r))
  <2> SUFFICES ASSUME Once(X, q) PROVE Once(X, r) /\ ~(Head(q) \in X /\ In(X, r))
    OBVIOUS
  <2>1. ASSUME NEW i \in 1..Len(r), NEW j \in 1..Len(r), r[i] \in X, r[j] \in X PROVE i = j
    <3>1. q[i + 1] \in X /\ q[j + 1] \in X /\ i + 1 \in 1..Len(q) /\ j + 1 \in 1..Len(q)
      BY <2>1, <1>1, <1>2
    <3>2. i + 1 = j + 1
      BY <3>1 DEF Once
    <3>. QED
      BY <3>2
  <2>2. ASSUME NEW i \in 1..Len(r), r[i] \in X, q[1] \in X PROVE FALSE
    BY <2>2, <1>1, <1>2 DEF Once
  <2>. QED
    BY <2>1, <2>2, <1>1 DEF Once, In
<1>5. Before(X, Y, q) => Before(X, Y, r) /\ ~(Head(q) \in Y /\ In(X, r))
  <2> SUFFICES ASSUME Before(X, Y, q) PROVE Before(X, Y, r) /\ ~(Head(q) \in Y /\ In(X, r))
    OBVIOUS
  <2>1. ASSUME NEW i \in 1..Len(r), NEW j \in 1..Len(r), r[i] \in X, r[j] \in Y PROVE i < j
    <3>1. q[i + 1] \in X /\ q[j + 1] \in Y /\ i + 1 \in 1..Len(q) /\ j + 1 \in 1..Len(q)
      BY <2>1, <1>1, <1>2
    <3>2. i + 1 < j + 1
      BY <3>1 DEF Before
    <3>. QED
      BY <3>2
  <2>2. ASSUME NEW i \in 1..Len(r), r[i] \in X, q[1] \in Y PROVE FALSE
    <3>1. i + 1 \in 1..Len(q) /\ q[i + 1] \in X
      BY <2>2, <1>1, <1>2
    <3>2. i + 1 < 1
      BY <3>1, <2>2, <1>2 DEF Before
    <3>. QED
      BY <3>2
  <2>. QED
    BY <2>1, <2>2, <1>1 DEF Before, In
<1>. QED
  BY <1>1, <1>3, <1>4, <1>5 DEF r

LEMMA ConcatAt ==
    ASSUME NEW S, NEW a \in Seq(S), NEW b \in Seq(S), NEW X, NEW Y
    PROVE  /\ a \o b \in Seq(S)
           /\ In(X, a \o b) <=> In(X, a) \/ In(X, b)
           /\ Once(X, a) /\ Once(X, b) /\ ~(In(X, a) /\ In(X, b)) => Once(X, a \o b)
           /\ Before(X, Y, a) /\ Before(X, Y, b) /\ ~(In(Y, a) /\ In(X, b)) => Before(X, Y, a \o b)
<1> DEFINE r == a \o b
<1>1. /\ Len(a) \in Nat /\ Len(b) \in Nat /\ r \in Seq(S) /\ Len(r) = Len(a) + Len(b)
      /\ \A i \in 1..Len(a) : r[i] = a[i]
      /\ \A i \in 1..Len(r) : i > Len(a) => r[i] = b[i - Len(a)]
  OBVIOUS
<1> HIDE DEF r
<1>2. /\ \A i \in 1..Len(a) : i \in 1..Len(r) /\ i <= Len(a)
      /\ \A i \in 1..Len(b) : i + Len(a) \in 1..Len(r) /\ i + Len(a) > Len(a)
                              /\ (i + Len(a)) - Len(a) = i
      /\ \A i \in 1..Len(r) : i \in 1..Len(a) \/ (i > Len(a) /\ i - Len(a) \in 1..Len(b))
  BY <1>1
<1>3. /\ \A i \in 1..Len(r) : \/ i \in 1..Len(a) /\ r[i] = a[i]
                              \/ i > Len(a) /\ i - Len(a) \in 1..Len(b) /\ r[i] = b[i - Len(a)]
      /\ \A i \in 1..Len(b) : i + Len(a) \in 1..Len(r) /\ r[i + Len(a)] = b[i]
  BY <1>1, <1>2
<1>4. In(X, r) <=> In(X, a) \/ In(X, b)
  <2>1. In(X, a) => In(X, r)
    BY <1>1, <1>2 DEF In
  <2>2. In(X, b) => In(X, r)
    BY <1>3 DEF In
  <2>3. In(X, r) => In(X, a) \/ In(X, b)
    BY <1>3 DEF In
  <2>. QED
    BY <2>1, <2>2, <2>3
<1>5. ASSUME Once(X, a), Once(X, b), ~(In(X, a) /\ In(X, b)) PROVE Once(X, r)
  <2> SUFFICES ASSUME NEW i \in 1..Len(r), NEW j \in 1..Len(r), r[i] \in X, r[j] \in X PROVE i = j
    BY DEF Once
  <2>1. CASE i \in 1..Len(a) /\ j \in 1..Len(a)
    BY <2>1, <1>1, <1>5 DEF Once
  <2>2. CASE i > Len(a) /\ j > Len(a)
    <3>1. i - Len(a) \in 1..Len(b) /\ j - Len(a) \in 1..Len(b)
      BY <2>2, <1>1
    <3>2. b[i - Len(a)] \in X /\ b[j - Len(a)] \in X
      BY <2>2, <1>1
    <3>3. i - Len(a) = j - Len(a)
      BY <3>1, <3>2, <1>5 DEF Once
    <3>. QED
      BY <3>3, <1>1
  <2>3. CASE i \in 1..Len(a) /\ j > Len(a)
    BY <2>3, <1>1, <1>3, <1>5 DEF In
  <2>4. CASE i > Len(a) /\ j \in 1..Len(a)
    BY <2>4, <1>1, <1>3, <1>5 DEF In
  <2>. QED
    BY <2>1, <2>2, <2>3, <2>4, <1>2
<1>6. ASSUME Before(X, Y, a), Before(X, Y, b), ~(In(Y, a) /\ In(X, b)) PROVE Before(X, Y, r)
  <2> SUFFICES ASSUME NEW i \in 1..Len(r), NEW j \in 1..Len(r), r[i] \in X, r[j] \in Y PROVE i < j
    BY DEF Before
  <2>1. CASE i \in 1..Len(a) /\ j \in 1..Len(a)
    BY <2>1, <1>1, <1>6 DEF Before
  <2>2. CASE i > Len(a) /\ j > Len(a)
    <3>1. i - Len(a) \in 1..Len(b) /\ j - Len(a) \in 1..Len(b)
      BY <2>2, <1>1
    <3>2. b[i - Len(a)] \in X /\ b[j - Len(a)] \in Y
      BY <2>2, <1>1
    <3>3. i - Len(a) < j - Len(a)
      BY <3>1, <3>2, <1>6 DEF Before
    <3>. QED
      BY <3>3, <1>1
  <2>3. CASE i \in 1..Len(a) /\ j > Len(a)
    BY <2>3, <1>1
  <2>4. CASE i > Len(a) /\ j \in 1..Len(a)
    <3>1. In(Y, a)
      BY <2>4, <1>1 DEF In
    <3>2. i - Len(a) \in 1..Len(b) /\ r[i] = b[i - Len(a)]
      BY <2>4, <1>1
    <3>3. In(X, b)
      BY <3>2 DEF In
    <3>. QED
      BY <3>1, <3>3, <1>6
  <2>. QED
    BY <2>1, <2>2, <2>3, <2>4, <1>2
<1>. QED
  BY <1>1, <1>4, <1>5, <1>6 DEF r

\* What Without leaves comes from s, in as many places.
LEMMA WithoutAt ==
    ASSUME NEW S, NEW s \in Seq(S), NEW T, NEW X
    PROVE  /\ Without(s, T) \in Seq(S)
           /\ In(X, Without(s, T)) => In(X, s) /\ ~(X \subseteq T)
           /\ Once(X, s) => Once(X, Without(s, T))
<1> DEFINE kept == {i \in DOMAIN s : s[i] \notin T}
           nth(k) == CHOOSE i \in kept : Cardinality({j \in kept : j < i}) = k - 1
           r == Without(s, T)
<1>1. Len(s) \in Nat /\ DOMAIN s = 1..Len(s) /\ \A i \in 1..Len(s) : s[i] \in S
  OBVIOUS
<1>2. IsFiniteSet(kept) /\ kept \in SUBSET Nat /\ Cardinality(kept) \in Nat
  <2>1. IsFiniteSet(1..Len(s))
    BY <1>1, FS_Interval
  <2>2. kept \subseteq 1..Len(s)
    BY <1>1
  <2>3. IsFiniteSet(kept)
    BY <2>1, <2>2, FS_Subset
  <2>. QED
    BY <2>2, <2>3, FS_CardinalityType
<1>3. r = [k \in 1..Cardinality(kept) |-> s[nth(k)]]
  BY DEF Without
<1>4. \A k \in 1..Cardinality(kept) :
        nth(k) \in kept /\ Cardinality({j \in kept : j < nth(k)}) = k - 1
  <2> HIDE DEF kept
  <2>. QED
    BY <1>2, KthElement
<1>5. \A k \in 1..Cardinality(kept) : nth(k) \in 1..Len(s) /\ s[nth(k)] \in S /\ s[nth(k)] \notin T
  BY <1>1, <1>4
<1>6. \A k, l \in 1..Cardinality(kept) : nth(k) = nth(l) => k = l
  <2> SUFFICES ASSUME NEW k \in 1..Cardinality(kept), NEW l \in 1..Cardinality(kept), nth(k) = nth(l)
               PROVE  k = l
    OBVIOUS
  <2>1. k - 1 = l - 1
    BY <1>4
  <2>. QED
    BY <2>1, <1>2
<1> HIDE DEF kept, nth, r
<1>7. r \in Seq(S) /\ Len(r) = Cardinality(kept) /\ \A k \in 1..Len(r) : r[k] = s[nth(k)]
  BY <1>2, <1>3, <1>5
<1>8. In(X, r) => In(X, s) /\ ~(X \subseteq T)
  BY <1>5, <1>7 DEF In
<1>9. Once(X, s) => Once(X, r)
  BY <1>5, <1>6, <1>7 DEF Once
<1>. QED
  BY <1>7, <1>8, <1>9 DEF r

\* The newest rows of s come from s, each from a place of its own.
LEMMA NewestAt ==
    ASSUME NEW S, NEW s \in Seq(S), NEW X
    PROVE  /\ Newest(s) \in Seq(S)
           /\ In(X, Newest(s)) => In(X, s)
           /\ Once(X, s) => Once(X, Newest(s))
<1> DEFINE from == IF Len(s) > Limit THEN Len(s) - Limit + 1 ELSE 1
           r == Newest(s)
<1>1. Len(s) \in Nat /\ DOMAIN s = 1..Len(s) /\ \A i \in 1..Len(s) : s[i] \in S
  OBVIOUS
<1>2. from \in Nat /\ from >= 1 /\ from <= Len(s) + 1
  BY <1>1, ConstantsAssumption
<1>3. r = SubSeq(s, from, Len(s))
  BY DEF Newest
<1> HIDE DEF from, r
<1>4. /\ r \in Seq(S) /\ Len(r) = Len(s) - from + 1
      /\ \A k \in 1..Len(r) : r[k] = s[from + k - 1] /\ from + k - 1 \in 1..Len(s)
  BY <1>1, <1>2, <1>3
<1>5. In(X, r) => In(X, s)
  BY <1>1, <1>4 DEF In
<1>6. Once(X, s) => Once(X, r)
  <2> SUFFICES ASSUME Once(X, s), NEW i \in 1..Len(r), NEW j \in 1..Len(r), r[i] \in X, r[j] \in X
               PROVE  i = j
    BY <1>4 DEF Once
  <2>1. from + i - 1 = from + j - 1
    BY <1>1, <1>4 DEF Once
  <2>. QED
    BY <2>1, <1>2
<1>. QED
  BY <1>4, <1>5, <1>6 DEF r

\* The page of history that is answered.
LEMMA PageAt ==
    ASSUME history \in Seq(Messages), NEW X
    PROVE  /\ Page \in Seq(Messages)
           /\ In(X, Page) => In(X, history) /\ ~(X \subseteq Deleted)
           /\ Once(X, history) => Once(X, Page)
<1>1. /\ Without(history, Deleted) \in Seq(Messages)
      /\ In(X, Without(history, Deleted)) => In(X, history) /\ ~(X \subseteq Deleted)
      /\ Once(X, history) => Once(X, Without(history, Deleted))
  BY WithoutAt
<1>. QED
  BY <1>1, NewestAt DEF Page

-------------------------------------------------------------------------------
(* The events of a message, and its rows.                                  *)

New(m)     == {[kind |-> "new", id |-> m]}
Gone(m)    == {[kind |-> "deleted", id |-> m]}
Sending(m) == {[id |-> m, status |-> "sending"]}
Sent(m)    == {[id |-> m, status |-> "sent"]}
Alive(m)   == Sending(m) \cup Sent(m)

-------------------------------------------------------------------------------
(* Types.                                                                  *)

Stages     == {"unsent", "posted", "lost", "inserted", "published"}
Deletion   == [state : {"none", "row", "published"}, announced : BOOLEAN]
LoadStates == {"unused", "asked", "served", "done", "failed"}

QueuesTyped ==
    /\ partition \in Seq(Event) /\ uncommitted \in Seq(Event)
    /\ emitQueue \in Seq(Event) /\ wire \in Seq(Event)

ServerTyped ==
    /\ history \in Seq(Messages) /\ stage \in [Messages -> Stages]
    /\ deletion \in [Messages -> Deletion]

RoomTyped ==
    /\ inRoom \in BOOLEAN /\ joining \in BOOLEAN /\ connected \in BOOLEAN
    /\ (inRoom \/ joining \/ wire # <<>>) => connected
    /\ attempts \in 0..RECONNECTION_ATTEMPTS

ScreenTyped ==
    /\ list \in Seq(Row) /\ awaiting \subseteq Mine /\ pendingMessages \subseteq Mine
    /\ load \in [Loads -> [state : LoadStates, rows : Seq(Messages)]]

GhostsTyped ==
    /\ gone \cup again \cup overlapped \cup dropped \subseteq Messages
    /\ faults \in 0..MaxFaults

Typed == QueuesTyped /\ ServerTyped /\ RoomTyped /\ ScreenTyped /\ GhostsTyped

LEMMA TypedInit == Init => Typed
<1> SUFFICES ASSUME Init PROVE Typed
  OBVIOUS
<1>1. QueuesTyped
  BY DEF Init, QueuesTyped
<1>2. ServerTyped
  BY DEF Init, ServerTyped, Stages, Deletion
<1>3. RoomTyped
  <2>1. attempts \in 0..RECONNECTION_ATTEMPTS
    BY ConstantsAssumption DEF Init
  <2>. QED
    BY <2>1 DEF Init, RoomTyped
<1>4. ScreenTyped
  BY DEF Init, ScreenTyped, LoadStates
<1>5. GhostsTyped
  BY ConstantsAssumption DEF Init, GhostsTyped
<1>. QED
  BY <1>1, <1>2, <1>3, <1>4, <1>5 DEF Typed

\* The ids of the announcements in a queue.
LEMMA IdsAre ==
    ASSUME NEW q \in Seq(Event) PROVE \A m \in Messages : m \in Ids(q) <=> In(New(m), q)
<1>1. DOMAIN q = 1..Len(q) /\ \A i \in 1..Len(q) : q[i] \in Event
  OBVIOUS
<1>2. \A e \in Event, m \in Messages : e.kind = "new" /\ e.id = m <=> e \in New(m)
  BY DEF Event, New
<1>3. \A m \in Messages : In(New(m), q) <=> \E i \in 1..Len(q) : q[i].kind = "new" /\ q[i].id = m
  BY <1>1, <1>2 DEF In
<1>. QED
  BY <1>1, <1>3 DEF Ids

LEMMA IdsTyped == ASSUME NEW q \in Seq(Event) PROVE Ids(q) \subseteq Messages
<1>1. DOMAIN q = 1..Len(q) /\ \A i \in 1..Len(q) : q[i] \in Event
  OBVIOUS
<1>2. \A e \in Event : e.id \in Messages
  BY DEF Event
<1>. QED
  BY <1>1, <1>2 DEF Ids

LEMMA ServerKeepsTypes ==
    ASSUME Typed, NEW m \in Messages,
           \/ Insert(m) \/ Publish(m) \/ DeleteOther(m) \/ PublishDeletion(m)
    PROVE  Typed'
<1>1. /\ [kind |-> "new", id |-> m] \in Event /\ [kind |-> "deleted", id |-> m] \in Event
  BY DEF Event
<1>2. /\ Append(partition, [kind |-> "new", id |-> m]) \in Seq(Event)
      /\ Append(partition, [kind |-> "deleted", id |-> m]) \in Seq(Event)
  BY <1>1 DEF Typed, QueuesTyped
<1>3. UNCHANGED <<room, screen, load, wire, emitQueue, uncommitted, gone, again, overlapped, dropped>>
  BY DEF Insert, Publish, DeleteOther, PublishDeletion, ghosts, kafka
<1>4. QueuesTyped'
  BY <1>2, <1>3 DEF Insert, Publish, DeleteOther, PublishDeletion, kafka, Emit, Typed, QueuesTyped
<1>5. ServerTyped'
  <2>1. CASE Insert(m)
    BY <2>1 DEF Insert, Typed, ServerTyped, Stages
  <2>2. CASE Publish(m)
    BY <2>2 DEF Publish, Typed, ServerTyped, Stages
  <2>3. CASE DeleteOther(m)
    BY <2>3 DEF DeleteOther, Typed, ServerTyped, Deletion
  <2>4. CASE PublishDeletion(m)
    BY <2>4 DEF PublishDeletion, Typed, ServerTyped, Deletion
  <2>. QED
    BY <2>1, <2>2, <2>3, <2>4
<1>6. faults' \in 0..MaxFaults
  BY ConstantsAssumption
  DEF Insert, Publish, DeleteOther, PublishDeletion, ghosts, Typed, GhostsTyped
<1>. QED
  BY <1>3, <1>4, <1>5, <1>6 DEF Typed, RoomTyped, ScreenTyped, GhostsTyped, room, screen

LEMMA RealtimeKeepsTypes ==
    ASSUME Typed, Consume \/ FlushEmitQueue \/ Join \/ Crash \/ Disconnect PROVE Typed'
<1>1. UNCHANGED <<server, screen, load, gone, overlapped, dropped>>
  BY DEF Consume, FlushEmitQueue, Join, Crash, Disconnect, ghosts
<1>2. /\ Ids(uncommitted) \subseteq Messages
      /\ partition # <<>> => /\ Head(partition) \in Event /\ Tail(partition) \in Seq(Event)
                             /\ Append(emitQueue, Head(partition)) \in Seq(Event)
                             /\ Append(uncommitted, Head(partition)) \in Seq(Event)
      /\ wire \o emitQueue \in Seq(Event) /\ uncommitted \o partition \in Seq(Event)
      /\ <<>> \in Seq(Event)
  BY IdsTyped DEF Typed, QueuesTyped
<1>3. QueuesTyped'
  BY <1>2 DEF Consume, FlushEmitQueue, Join, Crash, Disconnect, Typed, QueuesTyped, kafka
<1>4. RoomTyped'
  <2>1. CASE Consume
    BY <2>1 DEF Consume, Typed, RoomTyped, room
  <2>2. CASE FlushEmitQueue
    <3>1. UNCHANGED <<inRoom, joining, connected, attempts>> /\ (~inRoom => wire' = wire)
      BY <2>2 DEF FlushEmitQueue, room
    <3>. QED
      BY <3>1 DEF Typed, RoomTyped
  <2>3. CASE Join
    BY <2>3 DEF Join, Typed, RoomTyped
  <2>4. CASE Crash \/ Disconnect
    BY <2>4 DEF Crash, Disconnect, Typed, RoomTyped
  <2>. QED
    BY <2>1, <2>2, <2>3, <2>4
<1>5. GhostsTyped'
  BY <1>1, <1>2, ConstantsAssumption
  DEF Consume, FlushEmitQueue, Join, Crash, Disconnect, Typed, GhostsTyped, ghosts
<1>. QED
  BY <1>1, <1>3, <1>4, <1>5 DEF Typed, ServerTyped, ScreenTyped, server, screen

LEMMA LoadsKeepTypes ==
    ASSUME Typed,
           Connect \/ ConnectFails \/ Refused \/ \E l \in Loads : Serve(l) \/ Apply(l) \/ LoadFails(l)
    PROVE  Typed'
<1>1. UNCHANGED <<server, kafka, emitQueue, wire, awaiting, pendingMessages, gone, again, faults>>
  BY DEF Connect, ConnectFails, Refused, Serve, Apply, LoadFails, screen, room, ghosts
<1>2. Page \in Seq(Messages)
  BY PageAt DEF Typed, ServerTyped
<1>3. load' \in [Loads -> [state : LoadStates, rows : Seq(Messages)]]
  <2>1. CASE Connect
    BY <2>1 DEF Connect, Ask, Typed, ScreenTyped, LoadStates
  <2>5. CASE ConnectFails \/ Refused
    BY <2>5 DEF ConnectFails, Refused, Typed, ScreenTyped
  <2>2. ASSUME NEW l \in Loads, Serve(l) PROVE load' \in [Loads -> [state : LoadStates, rows : Seq(Messages)]]
    BY <2>2, <1>2 DEF Serve, Typed, ScreenTyped, LoadStates
  <2>3. ASSUME NEW l \in Loads, Apply(l)
        PROVE  load' \in [Loads -> [state : LoadStates, rows : Seq(Messages)]]
    <3>1. load' = [load EXCEPT ![l].state = "done"]
      BY <2>3 DEF Apply
    <3>. QED
      BY <3>1 DEF Typed, ScreenTyped, LoadStates
  <2>4. ASSUME NEW l \in Loads, LoadFails(l)
        PROVE  load' \in [Loads -> [state : LoadStates, rows : Seq(Messages)]]
    BY <2>4 DEF LoadFails, Typed, ScreenTyped, LoadStates
  <2>. QED
    BY <2>1, <2>2, <2>3, <2>4, <2>5
<1>4. list' \in Seq(Row) /\ overlapped' \subseteq Messages /\ dropped' \subseteq Messages
  <2>1. CASE UNCHANGED <<list, overlapped, dropped>>
    BY <2>1 DEF Typed, ScreenTyped, GhostsTyped
  <2>2. ASSUME NEW l \in Loads, Apply(l)
        PROVE  list' \in Seq(Row) /\ overlapped' \subseteq Messages /\ dropped' \subseteq Messages
    <3> DEFINE rows == load[l].rows
    <3>1. rows \in Seq(Messages)
      BY DEF Typed, ScreenTyped
    <3>2. DOMAIN rows = 1..Len(rows) /\ Len(rows) \in Nat /\ \A i \in DOMAIN rows : rows[i] \in Messages
      BY <3>1
    <3>3. list' = [i \in DOMAIN rows |-> [id |-> rows[i], status |-> "sent"]]
      BY <2>2 DEF Apply
    <3>4. \A i \in DOMAIN rows : [id |-> rows[i], status |-> "sent"] \in Row
      BY <3>2 DEF Row
    <3>5. list' \in Seq(Row)
      <4> HIDE DEF rows
      <4>. QED
        BY <3>2, <3>3, <3>4
    <3>6. {rows[i] : i \in DOMAIN rows} \subseteq Messages
      BY <3>2
    <3>7. overlapped' \subseteq Messages /\ dropped' \subseteq Messages
      BY <2>2, <3>6 DEF Apply, Mine, Typed, GhostsTyped
    <3>. QED
      BY <3>5, <3>7
  <2>. QED
    BY <2>1, <2>2 DEF Connect, ConnectFails, Refused, Serve, LoadFails, screen, ghosts
<1>5. RoomTyped'
  <2>1. CASE Connect
    BY <2>1, <1>1, ConstantsAssumption DEF Connect, Typed, RoomTyped
  <2>4. CASE ConnectFails \/ Refused
    BY <2>4, <1>1, ConstantsAssumption DEF ConnectFails, Refused, Typed, RoomTyped
  <2>2. ASSUME NEW l \in Loads, Serve(l) \/ Apply(l) \/ LoadFails(l) PROVE UNCHANGED room
    BY <2>2 DEF Serve, Apply, LoadFails
  <2>3. UNCHANGED room => RoomTyped'
    BY <1>1 DEF room, Typed, RoomTyped
  <2>. QED
    BY <2>1, <2>2, <2>3, <2>4
<1>. QED
  BY <1>1, <1>3, <1>4, <1>5
  DEF Typed, QueuesTyped, ServerTyped, ScreenTyped, GhostsTyped, server, kafka

\* What SetStatus does to the rows.
LEMMA SetStatusAt ==
    ASSUME list \in Seq(Row), NEW m \in Messages, NEW status \in {"sent", "failed"}, SetStatus(m, status)
    PROVE  /\ list' \in Seq(Row)
           /\ \A p \in Messages : In(Sending(p), list') => p # m /\ In(Sending(p), list)
           /\ \A p \in Messages : In(Sent(p), list') =>
                 In(Sent(p), list) \/ (p = m /\ status = "sent")
           /\ \A p \in Messages : Once(Alive(p), list) => Once(Alive(p), list')
<1>1. /\ Len(list) \in Nat /\ DOMAIN list = 1..Len(list)
      /\ \A i \in 1..Len(list) : list[i] \in Row
  OBVIOUS
<1>2. [id |-> m, status |-> status] \in Row
  BY DEF Row
<1>3. /\ list' \in Seq(Row) /\ Len(list') = Len(list)
      /\ \A i \in 1..Len(list) :
            IF list[i] = [id |-> m, status |-> "sending"]
            THEN list'[i] = [id |-> m, status |-> status] ELSE list'[i] = list[i]
  BY <1>1, <1>2 DEF SetStatus
<1>4. /\ \A p : [id |-> m, status |-> status] # [id |-> p, status |-> "sending"]
      /\ \A p : [id |-> m, status |-> status] = [id |-> p, status |-> "sent"]
                  => p = m /\ status = "sent"
  OBVIOUS
<1>5. \A p \in Messages : In(Sending(p), list') => p # m /\ In(Sending(p), list)
  BY <1>3, <1>4 DEF In, Sending
<1>6. \A p \in Messages : In(Sent(p), list') => In(Sent(p), list) \/ (p = m /\ status = "sent")
  BY <1>3, <1>4 DEF In, Sent
<1>7. \A p, i : i \in 1..Len(list) /\ list'[i] \in Alive(p) => list[i] \in Alive(p)
  BY <1>3, <1>4 DEF Alive, Sending, Sent
<1>8. \A p \in Messages : Once(Alive(p), list) => Once(Alive(p), list')
  BY <1>3, <1>7 DEF Once
<1>. QED
  BY <1>3, <1>5, <1>6, <1>8

LEMMA SendingKeepsTypes ==
    ASSUME Typed, NEW m \in Messages,
           SendMessage(m) \/ SendAnswered(m) \/ SendFailed(m) \/ DeleteMessage(m)
    PROVE  Typed'
<1>1. UNCHANGED <<history, kafka, emitQueue, room, wire, load, gone, again, overlapped, dropped>>
  BY DEF SendMessage, SendAnswered, SendFailed, DeleteMessage, server, ghosts
<1>2. list' \in Seq(Row)
  <2>1. CASE SendMessage(m)
    <3>1. [id |-> m, status |-> "sending"] \in Row
      BY DEF Row
    <3>. QED
      BY <2>1, <3>1 DEF SendMessage, Typed, ScreenTyped
  <2>2. CASE SendAnswered(m)
    BY <2>2, SetStatusAt DEF SendAnswered, Typed, ScreenTyped
  <2>3. CASE SendFailed(m)
    BY <2>3, SetStatusAt DEF SendFailed, Typed, ScreenTyped
  <2>4. CASE DeleteMessage(m)
    <3>1. list \in Seq(Row)
      BY DEF Typed, ScreenTyped
    <3>2. Without(list, {[id |-> m, status |-> "sent"]}) \in Seq(Row)
      BY <3>1, WithoutAt
    <3>. QED
      BY <2>4, <3>2 DEF DeleteMessage
  <2>. QED
    BY <2>1, <2>2, <2>3, <2>4
<1>3. /\ stage' \in [Messages -> Stages] /\ deletion' \in [Messages -> Deletion]
      /\ awaiting' \subseteq Mine /\ pendingMessages' \subseteq Mine /\ faults' \in 0..MaxFaults
  <2>1. CASE SendMessage(m)
    BY <2>1 DEF SendMessage, ghosts, Typed, ServerTyped, ScreenTyped, GhostsTyped, Stages
  <2>2. CASE SendAnswered(m)
    BY <2>2 DEF SendAnswered, server, ghosts, Typed, ServerTyped, ScreenTyped, GhostsTyped
  <2>3. CASE SendFailed(m)
    BY <2>3 DEF SendFailed, ghosts, Typed, ServerTyped, ScreenTyped, GhostsTyped, Stages
  <2>4. CASE DeleteMessage(m)
    <3>1. deletion' \in [Messages -> Deletion]
      <4>1. [state |-> "row", announced |-> stage[m] = "published"] \in Deletion
        BY DEF Deletion
      <4>. QED
        BY <2>4, <4>1 DEF DeleteMessage, Typed, ServerTyped
    <3>2. faults' \in 0..MaxFaults /\ UNCHANGED <<stage, awaiting, pendingMessages>>
      BY <2>4, ConstantsAssumption DEF DeleteMessage, Typed, GhostsTyped
    <3>. QED
      BY <3>1, <3>2 DEF Typed, ServerTyped, ScreenTyped
  <2>. QED
    BY <2>1, <2>2, <2>3, <2>4
<1>. QED
  BY <1>1, <1>2, <1>3 DEF Typed, QueuesTyped, ServerTyped, RoomTyped, ScreenTyped, GhostsTyped,
     kafka, room

LEMMA ReceiveKeepsTypes == ASSUME Typed, Receive PROVE Typed'
<1>1. /\ wire # <<>> /\ wire' = Tail(wire)
      /\ UNCHANGED <<server, kafka, emitQueue, room, awaiting, load, again, overlapped, dropped, faults>>
  BY DEF Receive
<1>2. Head(wire) \in Event /\ Tail(wire) \in Seq(Event)
  BY <1>1 DEF Typed, QueuesTyped
<1>3. Head(wire).id \in Messages
  BY <1>2 DEF Event
<1>4. [id |-> Head(wire).id, status |-> "sent"] \in Row
  BY <1>3 DEF Row
<1>5. /\ list' \in Seq(Row) /\ pendingMessages' \subseteq Mine /\ gone' \subseteq Messages
  <2> DEFINE h == Head(wire).id
             sent == [id |-> h, status |-> "sent"]
  <2>a. list \in Seq(Row) /\ pendingMessages \subseteq Mine /\ gone \subseteq Messages
    BY DEF Typed, ScreenTyped, GhostsTyped
  <2>b. Append(list, sent) \in Seq(Row)
    BY <1>4, <2>a
  <2>c. Without(list, {sent}) \in Seq(Row)
    BY <2>a, WithoutAt
  <2>1. CASE Head(wire).kind = "new"
    <3>1. gone' = gone /\ ReceiveNew(h)
      BY <2>1 DEF Receive
    <3>2. /\ list' \in {list, Append(list, sent)}
          /\ pendingMessages' \in {pendingMessages, pendingMessages \ {h}}
      BY <3>1 DEF ReceiveNew
    <3>. QED
      BY <3>1, <3>2, <2>a, <2>b
  <2>2. CASE Head(wire).kind # "new"
    <3>1. /\ list' = Without(list, {sent}) /\ pendingMessages' = pendingMessages
          /\ gone' = gone \cup ({h} \ awaiting)
      BY <2>2 DEF Receive, ReceiveDeleted
    <3>. QED
      BY <3>1, <2>a, <2>c, <1>3
  <2>. QED
    BY <2>1, <2>2
<1>. QED
  BY <1>1, <1>2, <1>5 DEF Typed, QueuesTyped, ServerTyped, RoomTyped, ScreenTyped, GhostsTyped,
     server, kafka, room

LEMMA TypedStep == Typed /\ [Next]_vars => Typed'
<1> SUFFICES ASSUME Typed, [Next]_vars PROVE Typed'
  OBVIOUS
<1>1. CASE UNCHANGED vars
  BY <1>1
  DEF vars, server, kafka, room, screen, ghosts, Typed, QueuesTyped, ServerTyped, RoomTyped,
     ScreenTyped, GhostsTyped
<1>. QED
  BY <1>1, ServerKeepsTypes, RealtimeKeepsTypes, LoadsKeepTypes, SendingKeepsTypes,
     ReceiveKeepsTypes
  DEF Next

\* Every variable of the timeline has its type.
THEOREM TimelineTyped == Spec => []TypeOK
<1>1. Typed => TypeOK
  BY DEF Typed, QueuesTyped, ServerTyped, RoomTyped, ScreenTyped, GhostsTyped, TypeOK, Stages,
     Deletion, LoadStates
<1>. QED
  BY <1>1, TypedInit, TypedStep, PTL DEF Spec
-------------------------------------------------------------------------------
(* Where the announcements are.                                            *)

NewOut(m) ==
    In(New(m), partition) \/ In(New(m), uncommitted) \/ In(New(m), emitQueue) \/ In(New(m), wire)

GoneOut(m) ==
    In(Gone(m), partition) \/ In(Gone(m), uncommitted) \/ In(Gone(m), emitQueue) \/ In(Gone(m), wire)

\* Announcements follow the rows.
EventsFollowRows(m) ==
    /\ NewOut(m) => stage[m] = "published"
    /\ m \in gone \/ GoneOut(m) => deletion[m].state = "published"
    /\ deletion[m].announced => stage[m] = "published"

\* An announcement that is not consumed twice is in one place.
InOnePlace(m) ==
    /\ Once(New(m), partition) /\ Once(New(m), emitQueue) /\ Once(New(m), wire)
    /\ In(New(m), partition) => /\ ~In(New(m), uncommitted) /\ ~In(New(m), emitQueue)
                                /\ ~In(New(m), wire)
    /\ In(New(m), emitQueue) => ~In(New(m), wire)

\* It is ahead of that of the deletion.
NewFirst(m) ==
    /\ Before(New(m), Gone(m), partition) /\ Before(New(m), Gone(m), emitQueue)
    /\ Before(New(m), Gone(m), wire)
    /\ In(New(m), partition) => /\ ~In(Gone(m), uncommitted) /\ ~In(Gone(m), emitQueue)
                                /\ ~In(Gone(m), wire)
    /\ In(New(m), emitQueue) => ~In(Gone(m), wire)
    /\ m \in gone => ~In(New(m), partition) /\ ~In(New(m), emitQueue) /\ ~In(New(m), wire)

InOrder(m) == m \notin again => InOnePlace(m) /\ (deletion[m].announced => NewFirst(m))

QInv == \A m \in Messages : EventsFollowRows(m) /\ InOrder(m)

LEMMA EventKinds ==
    ASSUME NEW m, NEW p
    PROVE  /\ [kind |-> "new", id |-> m] \in New(p) <=> m = p
           /\ [kind |-> "deleted", id |-> m] \in Gone(p) <=> m = p
           /\ [kind |-> "new", id |-> m] \notin Gone(p)
           /\ [kind |-> "deleted", id |-> m] \notin New(p)
           /\ New(p) \cap Gone(p) = {}
BY DEF New, Gone

LEMMA NoEvents ==
    ASSUME NEW X, NEW Y, NEW q
    PROVE  /\ ~In(X, <<>>) /\ Once(X, <<>>) /\ Before(X, Y, <<>>)
           /\ ~In(X, q) \/ ~In(Y, q) => Before(X, Y, q)
BY DEF In, Once, Before

LEMMA EventAppended ==
    ASSUME NEW q \in Seq(Event), NEW e \in Event, NEW p
    PROVE  /\ In(New(p), Append(q, e)) <=> In(New(p), q) \/ e \in New(p)
           /\ In(Gone(p), Append(q, e)) <=> In(Gone(p), q) \/ e \in Gone(p)
           /\ Once(New(p), q) /\ ~(In(New(p), q) /\ e \in New(p)) => Once(New(p), Append(q, e))
           /\ Before(New(p), Gone(p), q) /\ ~(In(Gone(p), q) /\ e \in New(p))
                 => Before(New(p), Gone(p), Append(q, e))
<1>1. New(p) \cap Gone(p) = {}
  BY EventKinds
<1>. QED
  BY <1>1, AppendAt

LEMMA EventTaken ==
    ASSUME NEW q \in Seq(Event), q # <<>>, NEW p
    PROVE  /\ Head(q) \in Event /\ Tail(q) \in Seq(Event)
           /\ In(New(p), q) <=> In(New(p), Tail(q)) \/ Head(q) \in New(p)
           /\ In(Gone(p), q) <=> In(Gone(p), Tail(q)) \/ Head(q) \in Gone(p)
           /\ Once(New(p), q) => /\ Once(New(p), Tail(q))
                                 /\ ~(Head(q) \in New(p) /\ In(New(p), Tail(q)))
           /\ Before(New(p), Gone(p), q) => /\ Before(New(p), Gone(p), Tail(q))
                                            /\ ~(Head(q) \in Gone(p) /\ In(New(p), Tail(q)))
BY TailAt

LEMMA EventsJoined ==
    ASSUME NEW a \in Seq(Event), NEW b \in Seq(Event), NEW p
    PROVE  /\ In(New(p), a \o b) <=> In(New(p), a) \/ In(New(p), b)
           /\ In(Gone(p), a \o b) <=> In(Gone(p), a) \/ In(Gone(p), b)
           /\ Once(New(p), a) /\ Once(New(p), b)
                 /\ ~(In(New(p), a) /\ In(New(p), b))
                 => Once(New(p), a \o b)
           /\ Before(New(p), Gone(p), a) /\ Before(New(p), Gone(p), b)
                 /\ ~(In(Gone(p), a) /\ In(New(p), b))
                 => Before(New(p), Gone(p), a \o b)
<1>1. \A X : In(X, a \o b) <=> In(X, a) \/ In(X, b)
  BY ConcatAt
<1>2. \A X : Once(X, a) /\ Once(X, b) /\ ~(In(X, a) /\ In(X, b)) => Once(X, a \o b)
  BY ConcatAt
<1>3. \A X, Y : Before(X, Y, a) /\ Before(X, Y, b) /\ ~(In(Y, a) /\ In(X, b))
                   => Before(X, Y, a \o b)
  BY ConcatAt
<1>. QED
  BY <1>1, <1>2, <1>3

LEMMA QInit == Init => QInv
<1> SUFFICES ASSUME Init, NEW m \in Messages PROVE EventsFollowRows(m) /\ InOrder(m)
  BY DEF QInv
<1>1. /\ partition = <<>> /\ uncommitted = <<>> /\ emitQueue = <<>> /\ wire = <<>>
      /\ m \notin gone /\ ~deletion[m].announced
  BY DEF Init
<1>2. \A X, Y : ~In(X, <<>>) /\ Once(X, <<>>)
  BY NoEvents
<1>. QED
  BY <1>1, <1>2 DEF EventsFollowRows, NewOut, GoneOut, InOrder, InOnePlace

\* Nothing is put into a queue or taken out; what was not stored may be now.
LEMMA QueuesRest ==
    ASSUME NEW p \in Messages, EventsFollowRows(p), InOrder(p),
           UNCHANGED <<kafka, emitQueue, wire, gone, again, deletion>>,
           stage'[p] # stage[p] => stage[p] \notin {"inserted", "published"}
    PROVE  EventsFollowRows(p)' /\ InOrder(p)'
BY DEF EventsFollowRows, NewOut, GoneOut, InOrder, InOnePlace, NewFirst, kafka

LEMMA QueuesAtPublish ==
    ASSUME Typed, NEW p \in Messages, EventsFollowRows(p), InOrder(p), NEW m \in Messages, Publish(m)
    PROVE  EventsFollowRows(p)' /\ InOrder(p)'
<1> DEFINE e == [kind |-> "new", id |-> m]
<1>1. /\ partition' = Append(partition, e) /\ stage[m] = "inserted"
      /\ stage' = [stage EXCEPT ![m] = "published"]
      /\ UNCHANGED <<deletion, uncommitted, emitQueue, wire, gone, again>>
  BY DEF Publish, Emit, ghosts
<1>2. /\ partition \in Seq(Event) /\ e \in Event /\ (e \in New(p) <=> m = p) /\ e \notin Gone(p)
      /\ stage \in [Messages -> Stages]
  BY EventKinds DEF Typed, QueuesTyped, ServerTyped, Event
<1> HIDE DEF e
<1>3. /\ In(New(p), partition') <=> In(New(p), partition) \/ m = p
      /\ In(Gone(p), partition') <=> In(Gone(p), partition)
      /\ Once(New(p), partition) /\ ~(In(New(p), partition) /\ m = p) => Once(New(p), partition')
      /\ Before(New(p), Gone(p), partition) /\ ~(In(Gone(p), partition) /\ m = p)
            => Before(New(p), Gone(p), partition')
  BY <1>1, <1>2, EventAppended
<1>4. stage'[p] = IF p = m THEN "published" ELSE stage[p]
  BY <1>1, <1>2
<1>. QED
  BY <1>1, <1>3, <1>4 DEF EventsFollowRows, NewOut, GoneOut, InOrder, InOnePlace, NewFirst

LEMMA QueuesAtDeletion ==
    ASSUME Typed, NEW p \in Messages, EventsFollowRows(p), InOrder(p), NEW m \in Messages,
           DeleteOther(m) \/ DeleteMessage(m)
    PROVE  EventsFollowRows(p)' /\ InOrder(p)'
<1>1. UNCHANGED <<kafka, emitQueue, wire, gone, again, stage>>
  BY DEF DeleteOther, DeleteMessage
<1>2. CASE UNCHANGED deletion
  BY <1>1, <1>2, QueuesRest
<1>3. CASE ~UNCHANGED deletion
  <2>1. /\ deletion' = [deletion EXCEPT ![m] = [state |-> "row", announced |-> stage[m] = "published"]]
        /\ deletion[m].state = "none"
    BY <1>3 DEF DeleteOther, DeleteMessage
  <2>2. p # m => deletion'[p] = deletion[p]
    BY <2>1 DEF Typed, ServerTyped
  <2>3. CASE p # m
    BY <2>2, <2>3, <1>1
    DEF EventsFollowRows, NewOut, GoneOut, InOrder, InOnePlace, NewFirst, kafka
  <2>4. CASE p = m
    <3>1. deletion'[p].state = "row" /\ deletion'[p].announced = (stage[p] = "published")
      BY <2>1, <2>4 DEF Typed, ServerTyped
    <3>2. p \notin gone /\ ~GoneOut(p)
      BY <2>1, <2>4 DEF EventsFollowRows
    <3>4. EventsFollowRows(p)'
      BY <3>1, <3>2, <1>1 DEF EventsFollowRows, NewOut, GoneOut, kafka
    <3>5. /\ Before(New(p), Gone(p), partition) /\ Before(New(p), Gone(p), emitQueue)
          /\ Before(New(p), Gone(p), wire)
      BY <3>2, NoEvents DEF GoneOut
    <3>. QED
      BY <3>2, <3>4, <3>5, <1>1 DEF InOrder, InOnePlace, NewFirst, GoneOut, kafka
  <2>. QED
    BY <2>3, <2>4
<1>. QED
  BY <1>2, <1>3

LEMMA QueuesAtPublishDeletion ==
    ASSUME Typed, NEW p \in Messages, EventsFollowRows(p), InOrder(p), NEW m \in Messages,
           PublishDeletion(m)
    PROVE  EventsFollowRows(p)' /\ InOrder(p)'
<1> DEFINE e == [kind |-> "deleted", id |-> m]
<1>1. /\ partition' = Append(partition, e) /\ deletion[m].state = "row"
      /\ deletion' = [deletion EXCEPT ![m].state = "published"]
      /\ UNCHANGED <<stage, uncommitted, emitQueue, wire, gone, again>>
  BY DEF PublishDeletion, Emit, ghosts
<1>2. /\ partition \in Seq(Event) /\ e \in Event /\ (e \in Gone(p) <=> m = p) /\ e \notin New(p)
      /\ deletion \in [Messages -> Deletion]
  BY EventKinds DEF Typed, QueuesTyped, ServerTyped, Event
<1> HIDE DEF e
<1>3. /\ In(New(p), partition') <=> In(New(p), partition)
      /\ In(Gone(p), partition') <=> In(Gone(p), partition) \/ m = p
      /\ Once(New(p), partition) => Once(New(p), partition')
      /\ Before(New(p), Gone(p), partition) => Before(New(p), Gone(p), partition')
  BY <1>1, <1>2, EventAppended
<1>4. /\ deletion'[p].announced = deletion[p].announced
      /\ deletion'[p].state = IF p = m THEN "published" ELSE deletion[p].state
  BY <1>1, <1>2 DEF Deletion
<1>. QED
  BY <1>1, <1>3, <1>4 DEF EventsFollowRows, NewOut, GoneOut, InOrder, InOnePlace, NewFirst

LEMMA QueuesAtConsume ==
    ASSUME Typed, NEW p \in Messages, EventsFollowRows(p), InOrder(p), Consume
    PROVE  EventsFollowRows(p)' /\ InOrder(p)'
<1> DEFINE e == Head(partition)
<1>1. /\ partition # <<>> /\ partition' = Tail(partition) /\ emitQueue' = Append(emitQueue, e)
      /\ uncommitted' \in {<<>>, Append(uncommitted, e)}
      /\ UNCHANGED <<stage, deletion, wire, gone, again>>
  BY DEF Consume, server, ghosts
<1>2. /\ partition \in Seq(Event) /\ emitQueue \in Seq(Event) /\ uncommitted \in Seq(Event)
      /\ e \in Event /\ ~(e \in New(p) /\ e \in Gone(p))
  BY <1>1, EventTaken, EventKinds DEF Typed, QueuesTyped
<1>3. /\ In(New(p), partition) <=> In(New(p), partition') \/ e \in New(p)
      /\ In(Gone(p), partition) <=> In(Gone(p), partition') \/ e \in Gone(p)
      /\ Once(New(p), partition) => /\ Once(New(p), partition')
                                    /\ ~(e \in New(p) /\ In(New(p), partition'))
      /\ Before(New(p), Gone(p), partition) => /\ Before(New(p), Gone(p), partition')
                                               /\ ~(e \in Gone(p) /\ In(New(p), partition'))
  BY <1>1, <1>2, EventTaken
<1> HIDE DEF e
<1>4. /\ In(New(p), emitQueue') <=> In(New(p), emitQueue) \/ e \in New(p)
      /\ In(Gone(p), emitQueue') <=> In(Gone(p), emitQueue) \/ e \in Gone(p)
      /\ Once(New(p), emitQueue) /\ ~(In(New(p), emitQueue) /\ e \in New(p))
            => Once(New(p), emitQueue')
      /\ Before(New(p), Gone(p), emitQueue) /\ ~(In(Gone(p), emitQueue) /\ e \in New(p))
            => Before(New(p), Gone(p), emitQueue')
  BY <1>1, <1>2, EventAppended
<1>5. /\ In(New(p), uncommitted') => In(New(p), uncommitted) \/ e \in New(p)
      /\ In(Gone(p), uncommitted') => In(Gone(p), uncommitted) \/ e \in Gone(p)
  <2>1. CASE uncommitted' = <<>>
    BY <2>1, NoEvents
  <2>2. CASE uncommitted' = Append(uncommitted, e)
    BY <2>2, <1>2, EventAppended
  <2>. QED
    BY <2>1, <2>2, <1>1
<1>6. EventsFollowRows(p)'
  BY <1>1, <1>3, <1>4, <1>5 DEF EventsFollowRows, NewOut, GoneOut
<1>7. p \notin again => InOnePlace(p)'
  BY <1>1, <1>3, <1>4, <1>5 DEF InOrder, InOnePlace
<1>8. p \notin again /\ deletion[p].announced => NewFirst(p)'
  BY <1>1, <1>2, <1>3, <1>4, <1>5 DEF InOrder, NewFirst
<1>. QED
  BY <1>1, <1>6, <1>7, <1>8 DEF InOrder

LEMMA QueuesAtFlush ==
    ASSUME Typed, NEW p \in Messages, EventsFollowRows(p), InOrder(p), FlushEmitQueue
    PROVE  EventsFollowRows(p)' /\ InOrder(p)'
<1>1. /\ wire' \in {wire, wire \o emitQueue} /\ emitQueue' = <<>>
      /\ UNCHANGED <<stage, deletion, partition, uncommitted, gone, again>>
  BY DEF FlushEmitQueue, server, kafka, ghosts
<1>2. wire \in Seq(Event) /\ emitQueue \in Seq(Event)
  BY DEF Typed, QueuesTyped
<1>3. /\ ~In(New(p), emitQueue') /\ ~In(Gone(p), emitQueue') /\ Once(New(p), emitQueue')
      /\ Before(New(p), Gone(p), emitQueue')
  BY <1>1, NoEvents
<1>4. /\ In(New(p), wire') => In(New(p), wire) \/ In(New(p), emitQueue)
      /\ In(Gone(p), wire') => In(Gone(p), wire) \/ In(Gone(p), emitQueue)
      /\ Once(New(p), wire) /\ Once(New(p), emitQueue)
            /\ ~(In(New(p), wire) /\ In(New(p), emitQueue))
            => Once(New(p), wire')
      /\ Before(New(p), Gone(p), wire) /\ Before(New(p), Gone(p), emitQueue)
            /\ ~(In(Gone(p), wire) /\ In(New(p), emitQueue))
            => Before(New(p), Gone(p), wire')
  <2>1. CASE wire' = wire
    BY <2>1
  <2>2. CASE wire' = wire \o emitQueue
    BY <2>2, <1>2, EventsJoined
  <2>. QED
    BY <2>1, <2>2, <1>1
<1>6. EventsFollowRows(p)'
  BY <1>1, <1>3, <1>4 DEF EventsFollowRows, NewOut, GoneOut
<1>7. p \notin again => InOnePlace(p)'
  BY <1>1, <1>3, <1>4 DEF InOrder, InOnePlace
<1>8. p \notin again /\ deletion[p].announced => NewFirst(p)'
  BY <1>1, <1>3, <1>4 DEF InOrder, NewFirst
<1>. QED
  BY <1>1, <1>6, <1>7, <1>8 DEF InOrder

LEMMA QueuesAtCrash ==
    ASSUME Typed, NEW p \in Messages, EventsFollowRows(p), InOrder(p), Crash
    PROVE  EventsFollowRows(p)' /\ InOrder(p)'
<1>1. /\ partition' = uncommitted \o partition /\ uncommitted' = <<>>
      /\ emitQueue' = <<>> /\ wire' = <<>> /\ again' = again \cup Ids(uncommitted)
      /\ UNCHANGED <<stage, deletion, gone>>
  BY DEF Crash, server
<1>2. partition \in Seq(Event) /\ uncommitted \in Seq(Event)
  BY DEF Typed, QueuesTyped
<1>3. /\ ~In(New(p), emitQueue') /\ ~In(Gone(p), emitQueue') /\ Once(New(p), emitQueue')
      /\ Before(New(p), Gone(p), emitQueue')
      /\ ~In(New(p), wire') /\ ~In(Gone(p), wire') /\ Once(New(p), wire')
      /\ Before(New(p), Gone(p), wire') /\ ~In(New(p), uncommitted') /\ ~In(Gone(p), uncommitted')
  BY <1>1, NoEvents
<1>4. /\ In(New(p), partition') => In(New(p), uncommitted) \/ In(New(p), partition)
      /\ In(Gone(p), partition') => In(Gone(p), uncommitted) \/ In(Gone(p), partition)
      /\ Once(New(p), uncommitted) /\ Once(New(p), partition)
            /\ ~(In(New(p), uncommitted) /\ In(New(p), partition))
            => Once(New(p), partition')
      /\ Before(New(p), Gone(p), uncommitted) /\ Before(New(p), Gone(p), partition)
            /\ ~(In(Gone(p), uncommitted) /\ In(New(p), partition))
            => Before(New(p), Gone(p), partition')
  BY <1>1, <1>2, EventsJoined
<1>5. p \notin again' => p \notin again /\ ~In(New(p), uncommitted)
  BY <1>1, <1>2, IdsAre
<1>6. ~In(New(p), uncommitted) => Once(New(p), uncommitted) /\ Before(New(p), Gone(p), uncommitted)
  BY DEF In, Once, Before
<1>7. EventsFollowRows(p)'
  BY <1>1, <1>3, <1>4 DEF EventsFollowRows, NewOut, GoneOut
<1>8. p \notin again' => InOnePlace(p)'
  BY <1>3, <1>4, <1>5, <1>6 DEF InOrder, InOnePlace
<1>9. p \notin again' /\ deletion'[p].announced => NewFirst(p)'
  BY <1>1, <1>3, <1>4, <1>5, <1>6 DEF InOrder, NewFirst
<1>. QED
  BY <1>7, <1>8, <1>9 DEF InOrder

LEMMA QueuesAtDisconnect ==
    ASSUME Typed, NEW p \in Messages, EventsFollowRows(p), InOrder(p), Disconnect
    PROVE  EventsFollowRows(p)' /\ InOrder(p)'
<1>1. wire' = <<>> /\ UNCHANGED <<stage, deletion, partition, uncommitted, emitQueue, gone, again>>
  BY DEF Disconnect, server, kafka
<1>2. /\ ~In(New(p), wire') /\ ~In(Gone(p), wire') /\ Once(New(p), wire')
      /\ Before(New(p), Gone(p), wire')
  BY <1>1, NoEvents
<1>. QED
  BY <1>1, <1>2 DEF EventsFollowRows, NewOut, GoneOut, InOrder, InOnePlace, NewFirst

LEMMA QueuesAtReceive ==
    ASSUME Typed, NEW p \in Messages, EventsFollowRows(p), InOrder(p), Receive
    PROVE  EventsFollowRows(p)' /\ InOrder(p)'
<1> DEFINE e == Head(wire)
<1>1. /\ wire # <<>> /\ wire' = Tail(wire)
      /\ UNCHANGED <<stage, deletion, partition, uncommitted, emitQueue, again>>
      /\ gone' = IF e.kind = "new" THEN gone ELSE gone \cup ({e.id} \ awaiting)
  BY DEF Receive, server, kafka
<1>2. wire \in Seq(Event)
  BY DEF Typed, QueuesTyped
<1>3. /\ e \in Event
      /\ In(New(p), wire) <=> In(New(p), wire') \/ e \in New(p)
      /\ In(Gone(p), wire) <=> In(Gone(p), wire') \/ e \in Gone(p)
      /\ Once(New(p), wire) => Once(New(p), wire') /\ ~(e \in New(p) /\ In(New(p), wire'))
      /\ Before(New(p), Gone(p), wire) => /\ Before(New(p), Gone(p), wire')
                                          /\ ~(e \in Gone(p) /\ In(New(p), wire'))
  BY <1>1, <1>2, EventTaken
<1> HIDE DEF e
<1>4. p \in gone' => p \in gone \/ e \in Gone(p)
  BY <1>1, <1>3 DEF Event, Gone
<1>6. EventsFollowRows(p)'
  BY <1>1, <1>3, <1>4 DEF EventsFollowRows, NewOut, GoneOut
<1>7. p \notin again => InOnePlace(p)'
  BY <1>1, <1>3 DEF InOrder, InOnePlace
<1>8. p \notin again /\ deletion[p].announced => NewFirst(p)'
  BY <1>1, <1>3, <1>4 DEF InOrder, NewFirst
<1>. QED
  BY <1>1, <1>6, <1>7, <1>8 DEF InOrder

LEMMA QStep == Typed /\ QInv /\ [Next]_vars => QInv'
<1> SUFFICES ASSUME Typed, QInv, [Next]_vars, NEW p \in Messages
             PROVE  EventsFollowRows(p)' /\ InOrder(p)'
  BY DEF QInv
<1>1. EventsFollowRows(p) /\ InOrder(p)
  BY DEF QInv
<1>2. CASE UNCHANGED vars
  BY <1>1, <1>2, QueuesRest DEF vars, server, ghosts
<1>3. ASSUME NEW m \in Messages, Insert(m) \/ SendMessage(m) \/ SendAnswered(m) \/ SendFailed(m)
      PROVE  EventsFollowRows(p)' /\ InOrder(p)'
  <2>1. UNCHANGED <<kafka, emitQueue, wire, gone, again, deletion>>
    BY <1>3 DEF Insert, SendMessage, SendAnswered, SendFailed, server, ghosts
  <2>2. stage'[p] # stage[p] => stage[p] \notin {"inserted", "published"}
    BY <1>3 DEF Insert, SendMessage, SendAnswered, SendFailed, server, Typed, ServerTyped
  <2>. QED
    BY <2>1, <2>2, <1>1, QueuesRest
<1>4. CASE Join \/ Connect \/ ConnectFails \/ Refused \/ \E l \in Loads : Serve(l) \/ Apply(l) \/ LoadFails(l)
  <2>1. UNCHANGED <<kafka, emitQueue, wire, gone, again, deletion, stage>>
    BY <1>4 DEF Join, Connect, ConnectFails, Refused, Serve, Apply, LoadFails, server, ghosts
  <2>. QED
    BY <2>1, <1>1, QueuesRest
<1>. QED
  BY <1>1, <1>2, <1>3, <1>4, QueuesAtPublish, QueuesAtDeletion, QueuesAtPublishDeletion,
     QueuesAtConsume, QueuesAtFlush, QueuesAtCrash, QueuesAtDisconnect, QueuesAtReceive DEF Next

-------------------------------------------------------------------------------
(* Where the rows are.                                                     *)

\* The announcement of m is not yet handled.
ToCome(m) ==
    stage[m] # "published" \/ In(New(m), partition) \/ In(New(m), emitQueue) \/ In(New(m), wire)

IsStored(m) == stage[m] \in {"inserted", "published"}

\* The rows of the server are stored, and its answers are of them.
AnswersAreRows(m) ==
    /\ In({m}, history) => IsStored(m)
    /\ Once({m}, history)
    /\ deletion[m].state # "none" => IsStored(m)
    /\ \A l \in Loads : /\ Once({m}, load[l].rows)
                        /\ In({m}, load[l].rows) => IsStored(m)
                        /\ load[l].state \in {"unused", "asked"} => ~In({m}, load[l].rows)

\* A row that is being sent has its POST, one that is sent is stored.
RowsOfPosts(m) ==
    /\ m \in awaiting \cup pendingMessages => stage[m] # "unsent"
    /\ m \in gone => m \notin awaiting
    /\ In(Sending(m), list) => m \in awaiting
    /\ In(Sent(m), list) => IsStored(m)

\* A row that is sent before its announcement comes has its id remembered.
OneRow(m) ==
    m \notin again \cup overlapped =>
        /\ Once(Alive(m), list)
        /\ ToCome(m) /\ In(Sent(m), list) => m \in pendingMessages

StaysGone(m) ==
    m \in gone \ again /\ deletion[m].announced /\ (\A l \in Loads : ~In({m}, load[l].rows))
        => ~In(Sent(m), list)

ListOK(m) == AnswersAreRows(m) /\ RowsOfPosts(m) /\ OneRow(m) /\ StaysGone(m)

LInv == \A m \in Messages : ListOK(m)

LEMMA AliveRows ==
    ASSUME NEW p, NEW q PROVE In(Alive(p), q) <=> In(Sending(p), q) \/ In(Sent(p), q)
BY DEF In, Alive

LEMMA LInit == Init => LInv
<1> SUFFICES ASSUME Init, NEW m \in Messages PROVE ListOK(m)
  BY DEF LInv
<1>1. /\ history = <<>> /\ list = <<>> /\ \A l \in Loads : load[l].rows = <<>>
      /\ m \notin awaiting /\ m \notin pendingMessages /\ m \notin gone
      /\ deletion[m].state = "none"
  BY DEF Init
<1>2. \A X : ~In(X, <<>>) /\ Once(X, <<>>)
  BY NoEvents
<1>. QED
  BY <1>1, <1>2 DEF ListOK, AnswersAreRows, RowsOfPosts, OneRow, StaysGone

\* The rows stay, and so do the answers.
LEMMA RowsRest ==
    ASSUME NEW p \in Messages, ListOK(p),
           UNCHANGED <<history, list, awaiting, pendingMessages, gone>>,
           IsStored(p) => IsStored(p)', stage[p] # "unsent" => stage'[p] # "unsent",
           again \subseteq again', overlapped \subseteq overlapped',
           p \notin again' => (ToCome(p)' => ToCome(p)),
           deletion'[p].state # "none" => IsStored(p)',
           p \in gone => deletion'[p].announced = deletion[p].announced,
           \A l \in Loads : /\ load'[l].rows = load[l].rows
                            /\ load'[l].state \in {"unused", "asked"}
                                  => load[l].state \in {"unused", "asked"}
    PROVE  ListOK(p)'
<1>1. AnswersAreRows(p)'
  BY DEF ListOK, AnswersAreRows
<1>2. RowsOfPosts(p)'
  BY DEF ListOK, RowsOfPosts
<1>3. OneRow(p)'
  BY DEF ListOK, OneRow
<1>4. StaysGone(p)'
  BY DEF ListOK, StaysGone
<1>. QED
  BY <1>1, <1>2, <1>3, <1>4 DEF ListOK

LEMMA RowsAtQueues ==
    ASSUME Typed, NEW p \in Messages, ListOK(p),
           Consume \/ FlushEmitQueue \/ Join \/ Crash \/ Disconnect
    PROVE  ListOK(p)'
<1>1. /\ UNCHANGED <<server, screen, load, gone, overlapped>> /\ again \subseteq again'
  BY DEF Consume, FlushEmitQueue, Join, Crash, Disconnect, ghosts
<1>2. /\ partition \in Seq(Event) /\ uncommitted \in Seq(Event) /\ emitQueue \in Seq(Event)
      /\ wire \in Seq(Event)
  BY DEF Typed, QueuesTyped
<1>3. p \notin again' => (ToCome(p)' => ToCome(p))
  <2>1. CASE Consume
    <3>1. /\ partition # <<>> /\ partition' = Tail(partition) /\ UNCHANGED <<wire, stage>>
          /\ emitQueue' = Append(emitQueue, Head(partition)) /\ Head(partition) \in Event
      BY <2>1, <1>2, EventTaken DEF Consume, server
    <3>2. In(New(p), partition) <=> In(New(p), partition') \/ Head(partition) \in New(p)
      BY <3>1, <1>2, EventTaken
    <3>3. In(New(p), emitQueue') => In(New(p), emitQueue) \/ Head(partition) \in New(p)
      BY <3>1, <1>2, EventAppended
    <3>. QED
      BY <3>1, <3>2, <3>3 DEF ToCome
  <2>2. CASE FlushEmitQueue
    <3>1. UNCHANGED <<stage, partition>> /\ emitQueue' = <<>> /\ wire' \in {wire, wire \o emitQueue}
      BY <2>2 DEF FlushEmitQueue, server, kafka
    <3>2. In(New(p), wire \o emitQueue) => In(New(p), wire) \/ In(New(p), emitQueue)
      BY <1>2, EventsJoined
    <3>3. ~In(New(p), <<>>)
      BY NoEvents
    <3>. QED
      BY <3>1, <3>2, <3>3 DEF ToCome
  <2>3. CASE Join
    BY <2>3 DEF Join, ToCome, server, kafka
  <2>4. CASE Crash
    <3>1. /\ UNCHANGED stage /\ partition' = uncommitted \o partition /\ emitQueue' = <<>>
          /\ wire' = <<>> /\ again' = again \cup Ids(uncommitted)
      BY <2>4 DEF Crash, server
    <3>2. p \notin again' => ~In(New(p), uncommitted)
      BY <3>1, <1>2, IdsAre
    <3>3. In(New(p), partition') => In(New(p), uncommitted) \/ In(New(p), partition)
      BY <3>1, <1>2, EventsJoined
    <3>4. ~In(New(p), <<>>)
      BY NoEvents
    <3>. QED
      BY <3>1, <3>2, <3>3, <3>4 DEF ToCome
  <2>5. CASE Disconnect
    <3>1. UNCHANGED <<stage, partition, emitQueue>> /\ wire' = <<>>
      BY <2>5 DEF Disconnect, server, kafka
    <3>2. ~In(New(p), <<>>)
      BY NoEvents
    <3>. QED
      BY <3>1, <3>2 DEF ToCome
  <2>. QED
    BY <2>1, <2>2, <2>3, <2>4, <2>5
<1>4. deletion[p].state # "none" => IsStored(p)
  BY DEF ListOK, AnswersAreRows
<1>. QED
  BY <1>1, <1>3, <1>4, RowsRest DEF server, screen, IsStored

LEMMA RowsAtServer ==
    ASSUME Typed, NEW p \in Messages, ListOK(p), EventsFollowRows(p), NEW m \in Messages,
           Publish(m) \/ DeleteOther(m) \/ PublishDeletion(m)
    PROVE  ListOK(p)'
<1>1. UNCHANGED <<history, screen, load, emitQueue, wire, gone, again, overlapped>>
  BY DEF Publish, DeleteOther, PublishDeletion, ghosts
<1>2. partition \in Seq(Event) /\ stage \in [Messages -> Stages] /\ deletion \in [Messages -> Deletion]
  BY DEF Typed, QueuesTyped, ServerTyped
<1>3. deletion[p].state # "none" => IsStored(p)
  BY DEF ListOK, AnswersAreRows
<1>4. /\ [kind |-> "new", id |-> m] \in Event /\ [kind |-> "deleted", id |-> m] \in Event
      /\ [kind |-> "new", id |-> m] \in New(p) <=> m = p
      /\ [kind |-> "deleted", id |-> m] \notin New(p)
  BY EventKinds DEF Event
<1>5. CASE Publish(m)
  <2>1. /\ UNCHANGED deletion /\ partition' = Append(partition, [kind |-> "new", id |-> m])
        /\ stage[m] = "inserted" /\ stage'[p] = IF p = m THEN "published" ELSE stage[p]
    BY <1>5, <1>2 DEF Publish, Emit
  <2>2. In(New(p), partition') <=> In(New(p), partition) \/ m = p
    BY <2>1, <1>2, <1>4, EventAppended
  <2>3. ToCome(p)' => ToCome(p)
    BY <2>1, <2>2, <1>1 DEF ToCome
  <2>. QED
    BY <2>1, <2>3, <1>1, <1>3, RowsRest DEF IsStored, screen
<1>6. CASE DeleteOther(m)
  <2>1. /\ UNCHANGED <<stage, partition>> /\ IsStored(m) /\ deletion[m].state = "none"
        /\ p # m => deletion'[p] = deletion[p]
    BY <1>6, <1>2 DEF DeleteOther, Stored, IsStored, kafka
  <2>2. p \in gone => deletion[p].state = "published"
    BY DEF EventsFollowRows
  <2>3. p \in gone => p # m
    BY <2>1, <2>2
  <2>4. ToCome(p)' => ToCome(p)
    BY <2>1, <1>1 DEF ToCome
  <2>. QED
    BY <2>1, <2>3, <2>4, <1>1, <1>3, RowsRest DEF IsStored, screen
<1>7. CASE PublishDeletion(m)
  <2>1. /\ UNCHANGED stage /\ partition' = Append(partition, [kind |-> "deleted", id |-> m])
        /\ deletion[m].state = "row" /\ deletion' = [deletion EXCEPT ![m].state = "published"]
    BY <1>7 DEF PublishDeletion, Emit
  <2>2. /\ deletion'[p].announced = deletion[p].announced
        /\ deletion'[p].state # "none" => deletion[p].state # "none"
    BY <2>1, <1>2 DEF Deletion
  <2>3. In(New(p), partition') <=> In(New(p), partition)
    BY <2>1, <1>2, <1>4, EventAppended
  <2>4. ToCome(p)' => ToCome(p)
    BY <2>1, <2>3, <1>1 DEF ToCome
  <2>. QED
    BY <2>1, <2>2, <2>4, <1>1, <1>3, RowsRest DEF IsStored, screen
<1>. QED
  BY <1>5, <1>6, <1>7

LEMMA RowsAtInsert ==
    ASSUME Typed, NEW p \in Messages, ListOK(p), NEW m \in Messages, Insert(m)
    PROVE  ListOK(p)'
<1>1. /\ UNCHANGED <<screen, load, deletion, kafka, emitQueue, wire, gone, again, overlapped>>
      /\ history' = Append(history, m) /\ ~IsStored(m)
      /\ stage'[p] = IF p = m THEN "inserted" ELSE stage[p]
      /\ history \in Seq(Messages)
  BY DEF Insert, ghosts, IsStored, Typed, ServerTyped
<1>2. /\ In({p}, history') <=> In({p}, history) \/ m \in {p}
      /\ Once({p}, history) /\ ~(In({p}, history) /\ m \in {p}) => Once({p}, history')
  BY <1>1, AppendAt
<1>3. AnswersAreRows(p)'
  BY <1>1, <1>2 DEF ListOK, AnswersAreRows, IsStored
<1>4. ToCome(p)' => ToCome(p)
  BY <1>1 DEF ToCome, IsStored, kafka
<1>5. RowsOfPosts(p)' /\ OneRow(p)' /\ StaysGone(p)'
  BY <1>1, <1>4 DEF ListOK, RowsOfPosts, OneRow, StaysGone, IsStored, screen
<1>. QED
  BY <1>3, <1>5 DEF ListOK

LEMMA RowsAtServe ==
    ASSUME Typed, NEW p \in Messages, ListOK(p), NEW l \in Loads, Serve(l)
    PROVE  ListOK(p)'
<1>1. /\ UNCHANGED <<server, kafka, emitQueue, wire, screen, ghosts>> /\ load[l].state = "asked"
      /\ load' = [load EXCEPT ![l] = [state |-> "served", rows |-> Page]]
  BY DEF Serve
<1>2. history \in Seq(Messages) /\ load \in [Loads -> [state : LoadStates, rows : Seq(Messages)]]
  BY DEF Typed, ServerTyped, ScreenTyped
<1>3. /\ load'[l].rows = Page /\ load'[l].state = "served"
      /\ \A k \in Loads : k # l => load'[k] = load[k]
  BY <1>1, <1>2
<1>4. /\ In({p}, Page) => In({p}, history)
      /\ Once({p}, history) => Once({p}, Page)
  BY <1>2, PageAt
<1>5. /\ UNCHANGED <<history, stage, deletion, list, awaiting, pendingMessages, gone, again, overlapped>>
      /\ ToCome(p)' = ToCome(p)
  BY <1>1 DEF server, kafka, screen, ghosts, ToCome
<1>6. AnswersAreRows(p)'
  BY <1>3, <1>4, <1>5 DEF ListOK, AnswersAreRows, IsStored
<1>7. RowsOfPosts(p)' /\ OneRow(p)'
  BY <1>5 DEF ListOK, RowsOfPosts, OneRow, IsStored
<1>8. StaysGone(p)'
  <2>1. ~In({p}, load[l].rows)
    BY <1>1 DEF ListOK, AnswersAreRows
  <2>2. (\A k \in Loads : ~In({p}, load'[k].rows)) => \A k \in Loads : ~In({p}, load[k].rows)
    BY <2>1, <1>3
  <2>. QED
    BY <2>2, <1>5 DEF ListOK, StaysGone
<1>. QED
  BY <1>6, <1>7, <1>8 DEF ListOK

LEMMA RowsAtApply ==
    ASSUME Typed, NEW p \in Messages, ListOK(p), NEW l \in Loads, Apply(l)
    PROVE  ListOK(p)'
<1> DEFINE rows == load[l].rows
           fetched == {rows[i] : i \in DOMAIN rows}
<1>1. /\ UNCHANGED <<server, kafka, emitQueue, wire, awaiting, pendingMessages, gone, again>>
      /\ load[l].state = "served" /\ load' = [load EXCEPT ![l].state = "done"]
      /\ list' = [i \in DOMAIN rows |-> [id |-> rows[i], status |-> "sent"]]
      /\ overlapped' = overlapped \cup {m \in fetched : Ahead(m) \/ stage[m] = "inserted"}
  BY DEF Apply
<1>2. /\ rows \in Seq(Messages) /\ partition \in Seq(Event) /\ emitQueue \in Seq(Event)
      /\ wire \in Seq(Event) /\ load \in [Loads -> [state : LoadStates, rows : Seq(Messages)]]
  BY DEF Typed, QueuesTyped, ScreenTyped
<1>3. DOMAIN rows = 1..Len(rows) /\ Len(rows) \in Nat
  BY <1>2
<1>4. \A k \in Loads : /\ load'[k].rows = load[k].rows
                       /\ load'[k].state \in {"unused", "asked"} => load[k].state \in {"unused", "asked"}
  BY <1>1, <1>2
<1>5. UNCHANGED <<history, stage, deletion>>
  BY <1>1 DEF server
<1>6. AnswersAreRows(p)'
  BY <1>4, <1>5 DEF ListOK, AnswersAreRows, IsStored
<1>7. In({p}, rows) => IsStored(p)
  BY DEF ListOK, AnswersAreRows
<1>8. Once({p}, rows)
  BY DEF ListOK, AnswersAreRows
<1>9. In({p}, rows) => p \in fetched
  BY <1>3 DEF In
<1> HIDE DEF rows
<1>10. /\ Len(list') = Len(rows)
       /\ \A i \in 1..Len(rows) : list'[i] = [id |-> rows[i], status |-> "sent"]
  BY <1>1, <1>3
<1>11. /\ In(Sent(p), list') => In({p}, rows)
       /\ ~In(Sending(p), list')
       /\ Once(Alive(p), list')
  <2>a. \A x : LET row == [id |-> x, status |-> "sent"]
              IN  (row \in Sent(p) <=> x = p) /\ row \notin Sending(p)
    BY DEF Sent, Sending
  <2>1. \A i \in 1..Len(rows) : (list'[i] \in Sent(p) <=> rows[i] = p) /\ list'[i] \notin Sending(p)
    BY <2>a, <1>10
  <2>2. \A i \in 1..Len(rows) : list'[i] \in Alive(p) => rows[i] \in {p}
    BY <2>1 DEF Alive
  <2>3. Once(Alive(p), list')
    BY <2>2, <1>8, <1>10 DEF Once
  <2>. QED
    BY <2>1, <2>3, <1>10 DEF In
<1>12. RowsOfPosts(p)'
  BY <1>1, <1>5, <1>7, <1>11 DEF ListOK, RowsOfPosts, IsStored
<1>13. OneRow(p)'
  <2>1. p \notin overlapped' /\ In({p}, rows) => ~Ahead(p) /\ stage[p] # "inserted"
    BY <1>1, <1>9
  <2>2. ~Ahead(p) => ~In(New(p), partition) /\ ~In(New(p), emitQueue) /\ ~In(New(p), wire)
    BY <1>2, IdsAre DEF Ahead
  <2>3. ToCome(p)' = ToCome(p)
    BY <1>1, <1>5 DEF ToCome, kafka
  <2>. QED
    BY <2>1, <2>2, <2>3, <1>7, <1>11 DEF OneRow, ToCome, IsStored
<1>14. StaysGone(p)'
  BY <1>4, <1>11 DEF StaysGone, rows
<1>. QED
  BY <1>6, <1>12, <1>13, <1>14 DEF ListOK

LEMMA RowsAtLoads ==
    ASSUME Typed, NEW p \in Messages, ListOK(p),
           Connect \/ ConnectFails \/ Refused \/ \E l \in Loads : LoadFails(l)
    PROVE  ListOK(p)'
<1>1. UNCHANGED <<server, kafka, emitQueue, wire, screen, ghosts>>
  BY DEF Connect, ConnectFails, Refused, LoadFails
<1>2. load \in [Loads -> [state : LoadStates, rows : Seq(Messages)]]
  BY DEF Typed, ScreenTyped
<1>3. \A k \in Loads : /\ load'[k].rows = load[k].rows
                       /\ load'[k].state \in {"unused", "asked"} => load[k].state \in {"unused", "asked"}
  BY SMTT(30), <1>2 DEF Connect, ConnectFails, Refused, Ask, LoadFails
<1>4. ToCome(p)' = ToCome(p)
  BY <1>1 DEF ToCome, server, kafka
<1>5. deletion[p].state # "none" => IsStored(p)
  BY DEF ListOK, AnswersAreRows
<1>. QED
  BY <1>1, <1>3, <1>4, <1>5, RowsRest DEF server, screen, ghosts, IsStored

LEMMA RowsAtSend ==
    ASSUME Typed, NEW p \in Messages, ListOK(p), EventsFollowRows(p), NEW m \in Messages,
           SendMessage(m)
    PROVE  ListOK(p)'
<1> DEFINE row == [id |-> m, status |-> "sending"]
<1>1. /\ UNCHANGED <<history, deletion, kafka, emitQueue, wire, pendingMessages, load, ghosts>>
      /\ stage[m] = "unsent" /\ list' = Append(list, row) /\ awaiting' = awaiting \cup {m}
      /\ stage' = [stage EXCEPT ![m] = "posted"]
  BY DEF SendMessage
<1>2. /\ list \in Seq(Row) /\ stage \in [Messages -> Stages] /\ row \in Row
  BY DEF Typed, ScreenTyped, ServerTyped, Row
<1>3. stage'[p] = IF p = m THEN "posted" ELSE stage[p]
  BY <1>1, <1>2
<1>4. (row \in Sending(p) <=> m = p) /\ row \notin Sent(p) /\ (row \in Alive(p) <=> m = p)
  BY DEF Sending, Sent, Alive
<1> HIDE DEF row
<1>5. \A X : /\ In(X, list') <=> In(X, list) \/ row \in X
             /\ Once(X, list) /\ ~(In(X, list) /\ row \in X) => Once(X, list')
  BY <1>1, <1>2, AppendAt
<1>6. AnswersAreRows(p)'
  BY <1>1, <1>3 DEF ListOK, AnswersAreRows, IsStored
<1>7. p = m => ~IsStored(p) /\ p \notin gone /\ ~In(Alive(p), list)
  <2>1. p = m => ~IsStored(p) /\ p \notin awaiting
    BY <1>1 DEF IsStored, ListOK, RowsOfPosts
  <2>2. p = m => ~In(Sent(p), list) /\ ~In(Sending(p), list)
    BY <2>1 DEF ListOK, RowsOfPosts
  <2>3. p \in gone => IsStored(p)
    BY DEF ListOK, AnswersAreRows, EventsFollowRows
  <2>. QED
    BY <2>1, <2>2, <2>3, AliveRows
<1>8. RowsOfPosts(p)'
  BY <1>1, <1>3, <1>4, <1>5, <1>7 DEF ListOK, RowsOfPosts, IsStored, ghosts
<1>9. OneRow(p)'
  <2>1. ToCome(p)' => ToCome(p)
    BY <1>1, <1>3 DEF ToCome, kafka
  <2>. QED
    BY <2>1, <1>1, <1>4, <1>5, <1>7 DEF ListOK, OneRow, ghosts
<1>10. StaysGone(p)'
  BY <1>1, <1>4, <1>5 DEF ListOK, StaysGone, ghosts
<1>. QED
  BY <1>6, <1>8, <1>9, <1>10 DEF ListOK

LEMMA RowsAtAnswer ==
    ASSUME Typed, NEW p \in Messages, ListOK(p), NEW m \in Messages,
           SendAnswered(m) \/ SendFailed(m)
    PROVE  ListOK(p)'
<1> DEFINE status == IF SendAnswered(m) THEN "sent" ELSE "failed"
<1>1. /\ UNCHANGED <<history, deletion, kafka, emitQueue, wire, load, ghosts>>
      /\ m \in awaiting /\ awaiting' = awaiting \ {m}
      /\ SendAnswered(m) => SetStatus(m, "sent") /\ stage[m] = "published"
      /\ ~SendAnswered(m) => SetStatus(m, "failed")
      /\ pendingMessages \subseteq pendingMessages'
      /\ pendingMessages' \subseteq pendingMessages \cup {m}
      /\ SendAnswered(m) => m \in pendingMessages'
  BY DEF SendAnswered, SendFailed, server
<1>2. list \in Seq(Row) /\ stage \in [Messages -> Stages] /\ status \in {"sent", "failed"}
  BY DEF Typed, ScreenTyped, ServerTyped
<1>3. SetStatus(m, status)
  BY <1>1
<1>4. /\ stage'[p] = stage[p] \/ (stage[p] = "posted" /\ stage'[p] = "lost")
      /\ SendAnswered(m) => stage' = stage
  BY <1>2 DEF SendAnswered, SendFailed, server
<1>5. status = "sent" => SendAnswered(m)
  OBVIOUS
<1> HIDE DEF status
<1>6. /\ In(Sending(p), list') => p # m /\ In(Sending(p), list)
      /\ In(Sent(p), list') => In(Sent(p), list) \/ (p = m /\ status = "sent")
      /\ Once(Alive(p), list) => Once(Alive(p), list')
  BY <1>2, <1>3, SetStatusAt
<1>7. AnswersAreRows(p)'
  BY <1>1, <1>4 DEF ListOK, AnswersAreRows, IsStored
<1>8. RowsOfPosts(p)'
  BY <1>1, <1>4, <1>5, <1>6 DEF ListOK, RowsOfPosts, IsStored, ghosts
<1>9. OneRow(p)'
  <2>1. ToCome(p)' => ToCome(p)
    BY <1>1, <1>4 DEF ToCome, kafka
  <2>. QED
    BY <2>1, <1>1, <1>5, <1>6 DEF ListOK, OneRow, ghosts
<1>10. StaysGone(p)'
  <2>1. p = m => p \notin gone
    BY <1>1 DEF ListOK, RowsOfPosts
  <2>. QED
    BY <2>1, <1>1, <1>6 DEF ListOK, StaysGone, ghosts
<1>. QED
  BY <1>7, <1>8, <1>9, <1>10 DEF ListOK

LEMMA RowsAtDelete ==
    ASSUME Typed, NEW p \in Messages, ListOK(p), EventsFollowRows(p), NEW m \in Messages,
           DeleteMessage(m)
    PROVE  ListOK(p)'
<1> DEFINE row == [id |-> m, status |-> "sent"]
<1>1. /\ UNCHANGED <<history, stage, kafka, emitQueue, wire, awaiting, pendingMessages, load, gone,
                     again, overlapped>>
      /\ ShownSent(m) /\ list' = Without(list, {row})
  BY DEF DeleteMessage
<1>2. list \in Seq(Row) /\ deletion \in [Messages -> Deletion]
  BY DEF Typed, ScreenTyped, ServerTyped
<1>3. \A X : /\ In(X, list') => In(X, list)
             /\ Once(X, list) => Once(X, list')
  BY <1>1, <1>2, WithoutAt
<1>4. In(Sent(m), list)
  BY <1>1, <1>2 DEF ShownSent, In, Sent
<1>5. \/ deletion'[p] = deletion[p]
      \/ p = m /\ deletion[m].state = "none"
  BY <1>2 DEF DeleteMessage
<1>6. p = m => IsStored(p)
  BY <1>4 DEF ListOK, RowsOfPosts
<1>7. p \in gone => deletion'[p] = deletion[p]
  BY <1>5 DEF EventsFollowRows
<1>8. AnswersAreRows(p)'
  BY <1>1, <1>5, <1>6 DEF ListOK, AnswersAreRows, IsStored
<1>9. ToCome(p)' = ToCome(p)
  BY <1>1 DEF ToCome, kafka
<1>10. RowsOfPosts(p)' /\ OneRow(p)' /\ StaysGone(p)'
  BY <1>1, <1>3, <1>7, <1>9 DEF ListOK, RowsOfPosts, OneRow, StaysGone, IsStored
<1>. QED
  BY <1>8, <1>10 DEF ListOK

LEMMA RowsAtReceive ==
    ASSUME Typed, NEW p \in Messages, ListOK(p), EventsFollowRows(p), InOrder(p), Receive
    PROVE  ListOK(p)'
<1> DEFINE e == Head(wire)
           row == [id |-> e.id, status |-> "sent"]
<1>1. /\ wire # <<>> /\ wire' = Tail(wire)
      /\ UNCHANGED <<server, kafka, emitQueue, awaiting, load, again, overlapped>>
      /\ IF e.kind = "new"
         THEN ReceiveNew(e.id) /\ gone' = gone
         ELSE /\ list' = Without(list, {row}) /\ gone' = gone \cup ({e.id} \ awaiting)
              /\ pendingMessages' = pendingMessages
  BY DEF Receive, ReceiveDeleted
<1>2. wire \in Seq(Event) /\ list \in Seq(Row) /\ awaiting \subseteq Mine
  BY DEF Typed, QueuesTyped, ScreenTyped
<1>3. /\ e \in Event
      /\ In(New(p), wire) <=> In(New(p), wire') \/ e \in New(p)
      /\ In(Gone(p), wire) <=> In(Gone(p), wire') \/ e \in Gone(p)
      /\ Once(New(p), wire) => ~(e \in New(p) /\ In(New(p), wire'))
  BY <1>1, <1>2, EventTaken
<1>4. UNCHANGED <<history, stage, deletion, partition>>
  BY <1>1 DEF server, kafka
<1>5. AnswersAreRows(p)'
  BY <1>1, <1>4 DEF ListOK, AnswersAreRows, IsStored
<1>6. ToCome(p)' => ToCome(p)
  BY <1>1, <1>3, <1>4 DEF ToCome
<1>7. CASE e.kind # "new"
  <2>1. row \in Row
    BY <1>3 DEF Event, Row
  <2>2. \A X : /\ In(X, list') => In(X, list) /\ ~(X \subseteq {row})
               /\ Once(X, list) => Once(X, list')
    BY <1>1, <1>2, <1>7, WithoutAt
  <2>3. In(Sent(p), list') => p # e.id
    BY <2>2 DEF Sent
  <2>4. /\ pendingMessages' = pendingMessages
        /\ p \in gone' => p \in gone \/ (p = e.id /\ p \notin awaiting)
    BY <1>1, <1>7
  <2> HIDE DEF e, row
  <2>5. RowsOfPosts(p)' /\ OneRow(p)' /\ StaysGone(p)'
    BY <1>1, <1>4, <1>6, <2>2, <2>3, <2>4 DEF ListOK, RowsOfPosts, OneRow, StaysGone, IsStored
  <2>. QED
    BY <1>5, <2>5 DEF ListOK
<1>8. CASE e.kind = "new"
  <2>1. ReceiveNew(e.id) /\ gone' = gone /\ (e \in New(p) <=> e.id = p)
    BY <1>1, <1>3, <1>8 DEF Event, New
  <2>2. p = e.id => stage[p] = "published" /\ In(New(p), wire)
    BY <1>3, <2>1 DEF EventsFollowRows, NewOut
  <2>3. p = e.id /\ p \notin again => ToCome(p) /\ ~ToCome(p)'
    BY <1>1, <1>3, <1>4, <2>1, <2>2 DEF ToCome, InOrder, InOnePlace
  <2>4. CASE e.id \in pendingMessages
    <3>1. pendingMessages' = pendingMessages \ {e.id} /\ list' = list
      BY <2>1, <2>4 DEF ReceiveNew
    <3> HIDE DEF e, row
    <3>2. RowsOfPosts(p)' /\ OneRow(p)' /\ StaysGone(p)'
      BY <1>1, <1>4, <1>6, <2>1, <2>3, <3>1 DEF ListOK, RowsOfPosts, OneRow, StaysGone, IsStored
    <3>. QED
      BY <1>5, <3>2 DEF ListOK
  <2>5. CASE e.id \notin pendingMessages /\ e.id \in Mine /\ PendingDuplicate(e.id)
    <3>1. pendingMessages' = pendingMessages /\ list' = list
      BY <2>1, <2>5 DEF ReceiveNew
    <3> HIDE DEF e, row
    <3>2. RowsOfPosts(p)' /\ OneRow(p)' /\ StaysGone(p)'
      BY <1>1, <1>4, <1>6, <2>1, <3>1 DEF ListOK, RowsOfPosts, OneRow, StaysGone, IsStored
    <3>. QED
      BY <1>5, <3>2 DEF ListOK
  <2>6. CASE e.id \notin pendingMessages /\ ~(e.id \in Mine /\ PendingDuplicate(e.id))
    <3>1. pendingMessages' = pendingMessages /\ list' = Append(list, row) /\ row \in Row
      BY <1>3, <2>1, <2>6 DEF ReceiveNew, Event, Row
    <3>2. /\ row \notin Sending(p) /\ (row \in Sent(p) <=> p = e.id) /\ (row \in Alive(p) <=> p = e.id)
      BY DEF Sending, Sent, Alive
    <3>3. p = e.id => ~In(Sending(p), list)
      <4>1. In(Sending(p), list) => p \in Mine
        BY <1>2 DEF ListOK, RowsOfPosts
      <4>2. In(Sending(p), list) => PendingDuplicate(p)
        BY <1>2 DEF In, Sending, PendingDuplicate
      <4>. QED
        BY <4>1, <4>2, <2>6
    <3>4. p = e.id /\ p \notin again \cup overlapped => ~In(Sent(p), list)
      BY <2>3, <2>6 DEF ListOK, OneRow
    <3>5. p = e.id /\ p \notin again \cup overlapped => ~In(Alive(p), list)
      BY <3>3, <3>4, AliveRows
    <3>6. p = e.id /\ p \in gone \ again => ~deletion[p].announced
      BY <2>2 DEF InOrder, NewFirst
    <3> HIDE DEF row
    <3>7. \A X : /\ In(X, list') <=> In(X, list) \/ row \in X
                 /\ Once(X, list) /\ ~(In(X, list) /\ row \in X) => Once(X, list')
      BY <1>2, <3>1, AppendAt
    <3> HIDE DEF e
    <3>8. RowsOfPosts(p)'
      BY <1>1, <1>4, <2>1, <2>2, <3>1, <3>2, <3>7 DEF ListOK, RowsOfPosts, IsStored
    <3>9. OneRow(p)'
      BY <1>1, <1>6, <2>3, <3>1, <3>2, <3>5, <3>7 DEF ListOK, OneRow
    <3>10. StaysGone(p)'
      BY <1>1, <1>4, <2>1, <3>2, <3>6, <3>7 DEF ListOK, StaysGone
    <3>. QED
      BY <1>5, <3>8, <3>9, <3>10 DEF ListOK
  <2>. QED
    BY <2>4, <2>5, <2>6
<1>. QED
  BY <1>7, <1>8

LEMMA LStep == Typed /\ QInv /\ LInv /\ [Next]_vars => LInv'
<1> SUFFICES ASSUME Typed, QInv, LInv, [Next]_vars, NEW p \in Messages PROVE ListOK(p)'
  BY DEF LInv
<1>1. ListOK(p) /\ EventsFollowRows(p) /\ InOrder(p)
  BY DEF LInv, QInv
<1>2. CASE UNCHANGED vars
  <2>1. UNCHANGED <<history, stage, deletion, partition, emitQueue, wire, list, awaiting,
                    pendingMessages, load, gone, again, overlapped>>
    BY <1>2 DEF vars, server, kafka, screen, ghosts
  <2>2. ToCome(p)' = ToCome(p) /\ IsStored(p)' = IsStored(p)
    BY <2>1 DEF ToCome, IsStored
  <2>. QED
    BY <1>1, <2>1, <2>2 DEF ListOK, AnswersAreRows, RowsOfPosts, OneRow, StaysGone
<1>. QED
  BY <1>1, <1>2, RowsAtQueues, RowsAtServer, RowsAtInsert, RowsAtServe, RowsAtApply, RowsAtLoads,
     RowsAtSend, RowsAtAnswer, RowsAtDelete, RowsAtReceive DEF Next

-------------------------------------------------------------------------------
LEMMA Shown == Spec => [](Typed /\ QInv /\ LInv)
<1>1. Init => Typed /\ QInv /\ LInv
  BY TypedInit, QInit, LInit
<1>2. Typed /\ QInv /\ LInv /\ [Next]_vars => (Typed /\ QInv /\ LInv)'
  BY TypedStep, QStep, LStep
<1>. QED
  BY <1>1, <1>2, PTL DEF Spec

\* "Deduplicate own messages that were optimistically added": in whatever order the
\* echo and the answer of the POST arrive, a message has one row, unless the POST
\* failed on the client, the announcement was consumed twice, or a history answer
\* brought the message before its announcement.
THEOREM OneRowEach == Spec => []ShownOnce
<1>1. Typed /\ LInv => ShownOnce
  <2> SUFFICES ASSUME Typed, LInv, NEW m \in Messages \ (again \cup overlapped)
               PROVE  Cardinality({i \in DOMAIN list : list[i].id = m /\ list[i].status # "failed"}) <= 1
    BY DEF ShownOnce
  <2> DEFINE rows == {i \in DOMAIN list : list[i].id = m /\ list[i].status # "failed"}
  <2>1. list \in Seq(Row)
    BY DEF Typed, ScreenTyped
  <2>2. DOMAIN list = 1..Len(list) /\ \A i \in 1..Len(list) : list[i] \in Row
    BY <2>1
  <2>3. \A r \in Row : r.id = m /\ r.status # "failed" => r \in Alive(m)
    BY DEF Row, Alive, Sending, Sent
  <2>4. Once(Alive(m), list)
    BY DEF LInv, ListOK, OneRow
  <2>5. \A i, j \in rows : i = j
    BY <2>2, <2>3, <2>4 DEF Once
  <2> HIDE DEF rows
  <2>6. ASSUME rows = {} PROVE Cardinality(rows) <= 1
    BY <2>6, FS_EmptySet
  <2>7. ASSUME rows # {} PROVE Cardinality(rows) <= 1
    <3>1. PICK i : rows = {i}
      BY <2>5, <2>7
    <3>2. Cardinality({i}) = 1
      BY FS_Singleton
    <3>. QED
      BY <3>1, <3>2
  <2>8. Cardinality(rows) <= 1
    BY <2>6, <2>7
  <2>. QED
    BY <2>8 DEF rows
<1>. QED
  BY <1>1, Shown, PTL

\* A message that is deleted after it was announced is announced and deleted in that
\* order: once the deletion is handled the message does not come back, except from a
\* history answer that was read before, or from events consumed twice.
THEOREM GoneIsGone == Spec => []DeletedStaysGone
<1>1. Typed /\ LInv => DeletedStaysGone
  <2> SUFFICES ASSUME Typed, LInv, NEW m \in gone \ again, deletion[m].announced,
                      \A l \in Loads : m \notin {load[l].rows[i] : i \in DOMAIN load[l].rows}
               PROVE  ~ShownSent(m)
    BY DEF DeletedStaysGone
  <2>1. m \in Messages /\ list \in Seq(Row) /\ load \in [Loads -> [state : LoadStates, rows : Seq(Messages)]]
    BY DEF Typed, ScreenTyped, GhostsTyped
  <2>2. \A l \in Loads : DOMAIN load[l].rows = 1..Len(load[l].rows)
    BY <2>1
  <2>3. \A l \in Loads : ~In({m}, load[l].rows)
    BY <2>2 DEF In
  <2>4. ~In(Sent(m), list)
    BY <2>1, <2>3 DEF LInv, ListOK, StaysGone
  <2>5. DOMAIN list = 1..Len(list)
    BY <2>1
  <2>. QED
    BY <2>4, <2>5 DEF ShownSent, In, Sent
<1>. QED
  BY <1>1, Shown, PTL

===============================================================================
