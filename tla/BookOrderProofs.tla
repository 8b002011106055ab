---------------------------- MODULE BookOrderProofs ----------------------------
(***************************************************************************)
(* Proofs about the order of a delegation book: every method leaves both   *)
(* lists sorted, with at most one delegation of each owner and none at the *)
(* bottom larger than one at the top; it moves, adds and removes exactly   *)
(* the delegations it should; and it keeps the recorded total of the top   *)
(* list equal to the sum of its amounts.  So it does at the bottom, except *)
(* for a decrease there.                                                   *)
(***************************************************************************)
EXTENDS DelegationBookProofs, SumProofs

-----------------------------------------------------------------------------
(* A sequence and the same sequence with one element more.                 *)

\* Where element j of a sequence stands once another was put at position p.
Past(p, j) == IF j < p THEN j ELSE j + 1

\* t is s with one element more, at position p.
OneMore(t, p, s) ==
    /\ p \in 1 .. Len(t)
    /\ Len(t) = Len(s) + 1
    /\ \A j \in 1 .. Len(s) : s[j] = t[Past(p, j)]

LEMMA InsertAtOneMore ==
    ASSUME NEW S, NEW s \in Seq(S), NEW p \in 1 .. Len(s) + 1, NEW e \in S
    PROVE  OneMore(InsertAt(s, p, e), p, s) /\ InsertAt(s, p, e)[p] = e
<1> DEFINE n == Len(s)
           front == SubSeq(s, 1, p - 1)
           mid == <<e>>
           back == SubSeq(s, p, n)
<1>1. n \in Nat /\ p \in Nat /\ p - 1 \in Nat
    BY LenProperties
<1>2. /\ front \in Seq(S) /\ Len(front) = p - 1
      /\ \A i \in 1 .. p - 1 : front[i] = s[i]
    BY <1>1, SubSeqProperties, ElementOfSeq
<1>3. /\ back \in Seq(S) /\ Len(back) = n - p + 1
      /\ \A i \in 1 .. n - p + 1 : back[i] = s[p + i - 1]
    BY <1>1, SubSeqProperties, ElementOfSeq
<1>4. mid \in Seq(S) /\ Len(mid) = 1 /\ mid[1] = e
    OBVIOUS
<1> DEFINE t == front \o mid
<1>5. /\ t \in Seq(S) /\ Len(t) = p
      /\ \A i \in 1 .. p : t[i] = IF i <= p - 1 THEN s[i] ELSE e
    <2> HIDE DEF front, mid
    <2>1. /\ t \in Seq(S) /\ Len(t) = Len(front) + Len(mid)
          /\ \A i \in 1 .. Len(front) + Len(mid) :
               t[i] = IF i <= Len(front) THEN front[i] ELSE mid[i - Len(front)]
        BY <1>2, <1>4, ConcatProperties
    <2> HIDE DEF t
    <2>2. \A i \in 1 .. p : ~ (i <= p - 1) => i = p /\ i - (p - 1) = 1
        BY <1>1
    <2> QED
        BY <1>1, <1>2, <1>4, <2>1, <2>2
<1> DEFINE u == t \o back
<1>6. /\ u \in Seq(S) /\ Len(u) = n + 1
      /\ \A i \in 1 .. n + 1 :
           u[i] = IF i <= p THEN t[i] ELSE back[i - p]
    <2> HIDE DEF t, back
    <2>1. /\ u \in Seq(S) /\ Len(u) = p + (n - p + 1)
          /\ \A i \in 1 .. p + (n - p + 1) :
               u[i] = IF i <= p THEN t[i] ELSE back[i - p]
        BY <1>3, <1>5, ConcatProperties
    <2> QED
        BY <1>1, <2>1
<1> HIDE DEF t, back, front, mid
<1>7. u = InsertAt(s, p, e)
    BY DEF InsertAt, t, front, mid, back
<1> HIDE DEF u
<1>8. u[p] = e
    BY <1>1, <1>5, <1>6
<1>9. ASSUME NEW j \in 1 .. n
      PROVE  s[j] = u[Past(p, j)]
    <2>1. CASE j < p
        <3>1. j \in 1 .. p /\ j <= p - 1 /\ j \in 1 .. n + 1 /\ j <= p
            BY <1>1, <2>1
        <3> QED
            BY <1>5, <1>6, <2>1, <3>1 DEF Past
    <2>2. CASE ~ (j < p)
        <3>1. /\ j + 1 \in 1 .. n + 1 /\ ~ (j + 1 <= p)
              /\ (j + 1) - p \in 1 .. n - p + 1
              /\ p + ((j + 1) - p) - 1 = j
            BY <1>1, <2>2
        <3>2. u[j + 1] = back[(j + 1) - p]
            BY <1>6, <3>1
        <3>3. back[(j + 1) - p] = s[p + ((j + 1) - p) - 1]
            BY <1>3, <3>1
        <3> QED
            BY <2>2, <3>1, <3>2, <3>3 DEF Past
    <2> QED
        BY <2>1, <2>2
<1> QED
    BY <1>1, <1>6, <1>7, <1>8, <1>9 DEF OneMore

LEMMA RemoveAtOneMore ==
    ASSUME NEW S, NEW s \in Seq(S), NEW p \in 1 .. Len(s)
    PROVE  OneMore(s, p, RemoveAt(s, p))
<1> DEFINE n == Len(s)
           front == SubSeq(s, 1, p - 1)
           back == SubSeq(s, p + 1, n)
<1>1. n \in Nat /\ p \in Nat /\ p - 1 \in Nat
    BY LenProperties
<1>2. /\ front \in Seq(S) /\ Len(front) = p - 1
      /\ \A i \in 1 .. p - 1 : front[i] = s[i]
    BY <1>1, SubSeqProperties, ElementOfSeq
<1>3. /\ back \in Seq(S) /\ Len(back) = n - p
      /\ \A i \in 1 .. n - p : back[i] = s[p + 1 + i - 1]
    BY <1>1, SubSeqProperties, ElementOfSeq
<1> DEFINE t == front \o back
<1>4. /\ Len(t) = n - 1
      /\ \A i \in 1 .. n - 1 : t[i] = IF i <= p - 1 THEN front[i]
                                                    ELSE back[i - (p - 1)]
    <2> HIDE DEF front, back
    <2>1. /\ Len(t) = Len(front) + Len(back)
          /\ \A i \in 1 .. Len(front) + Len(back) :
               t[i] = IF i <= Len(front) THEN front[i] ELSE back[i - Len(front)]
        BY <1>2, <1>3, ConcatProperties
    <2> QED
        BY <1>1, <1>2, <1>3, <2>1
<1>5. t = RemoveAt(s, p)
    BY DEF RemoveAt
<1> HIDE DEF t, front, back
<1>6. ASSUME NEW j \in 1 .. n - 1
      PROVE  t[j] = s[Past(p, j)]
    <2>1. CASE j < p
        <3>1. j \in 1 .. p - 1 /\ j <= p - 1
            BY <1>1, <2>1
        <3> QED
            BY <1>2, <1>4, <2>1, <3>1 DEF Past
    <2>2. CASE ~ (j < p)
        <3>1. /\ ~ (j <= p - 1) /\ j - (p - 1) \in 1 .. n - p
              /\ p + 1 + (j - (p - 1)) - 1 = j + 1
            BY <1>1, <2>2
        <3>2. t[j] = back[j - (p - 1)]
            BY <1>4, <3>1
        <3>3. back[j - (p - 1)] = s[p + 1 + (j - (p - 1)) - 1]
            BY <1>3, <3>1
        <3> QED
            BY <2>2, <3>1, <3>2, <3>3 DEF Past
    <2> QED
        BY <2>1, <2>2
<1> QED
    BY <1>1, <1>4, <1>5, <1>6 DEF OneMore

\* The positions of the longer sequence are p and those of the shorter one,
\* moved past p and in the same order.
LEMMA PastProperties ==
    ASSUME NEW n \in Nat, NEW p \in 1 .. n + 1
    PROVE  /\ \A j \in 1 .. n : Past(p, j) \in (1 .. n + 1) \ {p}
           /\ \A i, j \in 1 .. n : i < j <=> Past(p, i) < Past(p, j)
           /\ \A i, j \in 1 .. n : Past(p, i) = Past(p, j) => i = j
           /\ \A k \in (1 .. n + 1) \ {p} : \E j \in 1 .. n : k = Past(p, j)
<1>1. ASSUME NEW k \in (1 .. n + 1) \ {p}
      PROVE  \E j \in 1 .. n : k = Past(p, j)
    <2>1. CASE k < p
        <3>1. k \in 1 .. n /\ Past(p, k) = k
            BY <2>1 DEF Past
        <3> QED
            BY <3>1
    <2>2. CASE k > p
        <3>1. k - 1 \in 1 .. n /\ Past(p, k - 1) = k
            BY <2>2 DEF Past
        <3> QED
            BY <3>1
    <2> QED
        BY <2>1, <2>2
<1> QED
    BY <1>1 DEF Past

\* The elements of a list of delegations.

LEMMA OneMoreRange ==
    ASSUME NEW S, NEW s \in Seq(S), NEW t \in Seq(S), NEW p, OneMore(t, p, s)
    PROVE  Range(t) = Range(s) \union { t[p] }
<1>1. /\ DOMAIN s = 1 .. Len(s) /\ DOMAIN t = 1 .. Len(t)
      /\ Len(s) \in Nat /\ p \in 1 .. Len(s) + 1 /\ Len(t) = Len(s) + 1
      /\ \A j \in 1 .. Len(s) : s[j] = t[Past(p, j)]
    BY LenProperties DEF OneMore
<1>2. /\ \A j \in 1 .. Len(s) : Past(p, j) \in 1 .. Len(s) + 1
      /\ \A k \in (1 .. Len(s) + 1) \ {p} : \E j \in 1 .. Len(s) : k = Past(p, j)
    BY <1>1, PastProperties
<1>3. ASSUME NEW x \in Range(t)
      PROVE  x \in Range(s) \union { t[p] }
    <2>1. PICK k \in 1 .. Len(s) + 1 : x = t[k]
        BY <1>1, <1>3 DEF Range
    <2>2. CASE k = p
        BY <2>1, <2>2
    <2>3. CASE k # p
        <3>1. PICK j \in 1 .. Len(s) : k = Past(p, j)
            BY <1>2, <2>3
        <3> QED
            BY <1>1, <2>1, <3>1 DEF Range
    <2> QED
        BY <2>2, <2>3
<1>4. ASSUME NEW x \in Range(s)
      PROVE  x \in Range(t)
    BY <1>1, <1>2, <1>4 DEF Range
<1>5. t[p] \in Range(t)
    BY <1>1 DEF Range
<1> QED
    BY <1>3, <1>4, <1>5

\* The sum of the amounts of a list of delegations.
AmountSum(s) == SumFunction([i \in DOMAIN s |-> s[i].amount])

LEMMA AmountSumType ==
    ASSUME NEW s \in Seq(Bond)
    PROVE  AmountSum(s) \in Nat
<1> DEFINE f == [i \in DOMAIN s |-> s[i].amount]
<1>1. DOMAIN s = 1 .. Len(s) /\ Len(s) \in Nat
    BY LenProperties
<1>2. IsFiniteSet(DOMAIN f) /\ \A i \in DOMAIN f : f[i] \in Nat
    <2>1. IsFiniteSet(1 .. Len(s))
        BY <1>1, PositionsCounted
    <2>2. \A i \in 1 .. Len(s) : s[i] \in Bond
        BY ElementOfSeq
    <2> QED
        BY <1>1, <2>1, <2>2 DEF Bond
<1>3. SumFunctionOnSet(f, DOMAIN f) \in Nat
    <2> HIDE DEF f
    <2> QED
        BY <1>2, SumType
<1> QED
    BY <1>3 DEF AmountSum, SumFunction

LEMMA OneMoreSum ==
    ASSUME NEW s \in Seq(Bond), NEW t \in Seq(Bond), NEW p, OneMore(t, p, s)
    PROVE  AmountSum(t) = AmountSum(s) + t[p].amount
<1> DEFINE n == Len(s)
           f == [i \in DOMAIN s |-> s[i].amount]
           g == [i \in DOMAIN t |-> t[i].amount]
           h == [j \in DOMAIN s |-> Past(p, j)]
<1>1. /\ DOMAIN s = 1 .. n /\ DOMAIN t = 1 .. n + 1 /\ n \in Nat
      /\ p \in 1 .. n + 1
      /\ \A j \in 1 .. n : s[j] = t[Past(p, j)]
    BY LenProperties DEF OneMore
<1>2. /\ \A i \in 1 .. n : f[i] \in Nat
      /\ \A i \in 1 .. n + 1 : g[i] \in Nat
    <2>1. Len(t) = n + 1
        BY DEF OneMore
    <2>2. \A i \in 1 .. n : s[i] \in Bond
        BY ElementOfSeq
    <2>3. \A i \in 1 .. n + 1 : t[i] \in Bond
        BY <2>1, ElementOfSeq
    <2> QED
        BY <1>1, <2>2, <2>3 DEF Bond
<1>3. IsFiniteSet(1 .. n) /\ IsFiniteSet(1 .. n + 1)
    BY <1>1, PositionsCounted
<1>4. /\ h \in [1 .. n -> 1 .. n + 1]
      /\ \A x, y \in 1 .. n : h[x] = h[y] => x = y
      /\ { h[x] : x \in 1 .. n } = (1 .. n + 1) \ {p}
    <2>1. \A x \in 1 .. n : h[x] = Past(p, x)
        BY <1>1
    <2> HIDE DEF n
    <2>2. /\ \A j \in 1 .. n : Past(p, j) \in (1 .. n + 1) \ {p}
          /\ \A i, j \in 1 .. n : Past(p, i) = Past(p, j) => i = j
          /\ \A k \in (1 .. n + 1) \ {p} : \E j \in 1 .. n : k = Past(p, j)
        BY <1>1, PastProperties
    <2>3. h \in [1 .. n -> 1 .. n + 1]
        BY <1>1, <2>2
    <2> HIDE DEF h
    <2>4. { h[x] : x \in 1 .. n } = (1 .. n + 1) \ {p}
        BY <2>1, <2>2
    <2> QED
        BY <2>1, <2>2, <2>3, <2>4
<1>5. \A x \in 1 .. n : g[h[x]] = f[x]
    <2>1. \A x \in 1 .. n : Past(p, x) \in 1 .. n + 1
        BY <1>1, PastProperties
    <2> QED
        BY <1>1, <2>1
<1>6. SumFunctionOnSet(f, 1 .. n) = SumFunctionOnSet(g, (1 .. n + 1) \ {p})
    <2> DEFINE S == 1 .. n
               R == 1 .. n + 1
    <2>1. /\ IsFiniteSet(S) /\ \A x \in S : f[x] \in Nat
          /\ IsFiniteSet(R) /\ \A y \in R : g[y] \in Nat
          /\ h \in [S -> R]
          /\ \A x, y \in S : h[x] = h[y] => x = y
          /\ \A x \in S : g[h[x]] = f[x]
        BY <1>2, <1>3, <1>4, <1>5
    <2>2. SumFunctionOnSet(f, S) = SumFunctionOnSet(g, { h[x] : x \in S })
        <3> HIDE DEF f, g, h, S, R
        <3> QED
            BY <2>1, SumRenamed
    <2> HIDE DEF f, g, h, n
    <2> QED
        BY <1>4, <2>2
<1>7. SumFunctionOnSet(g, 1 .. n + 1)
        = g[p] + SumFunctionOnSet(g, (1 .. n + 1) \ {p})
    <2> HIDE DEF g, n
    <2> QED
        BY <1>1, <1>2, <1>3, SumRemove
<1>8. AmountSum(s) = SumFunctionOnSet(f, 1 .. n) /\ AmountSum(t) = SumFunctionOnSet(g, 1 .. n + 1)
    BY <1>1 DEF AmountSum, SumFunction
<1>9. AmountSum(s) \in Nat /\ g[p] \in Nat /\ g[p] = t[p].amount
    BY <1>1, <1>2, AmountSumType
<1> HIDE DEF f, g, h, n
<1> QED
    BY <1>6, <1>7, <1>8, <1>9

\* An initial part A of the positions, p left out, holds those whose place
\* among the others is at most Cardinality(A).
LEMMA InitialPart ==
    ASSUME NEW n \in Nat, NEW p \in 1 .. n + 1,
           NEW A \in SUBSET ((1 .. n + 1) \ {p}),
           \A i \in A, j \in (1 .. n + 1) \ {p} : j < i => j \in A
    PROVE  \A j \in 1 .. n : Past(p, j) \in A <=> j <= Cardinality(A)
<1> SUFFICES ASSUME NEW j \in 1 .. n
             PROVE  Past(p, j) \in A <=> j <= Cardinality(A)
    OBVIOUS
<1>1. IsFiniteSet(A) /\ Cardinality(A) \in Nat
    <2>1. n + 1 \in Nat
        OBVIOUS
    <2>2. IsFiniteSet(1 .. n + 1)
        BY <2>1, PositionsCounted
    <2>3. A \in SUBSET (1 .. n + 1)
        OBVIOUS
    <2>4. IsFiniteSet(A)
        BY <2>2, <2>3, FS_Subset
    <2> QED
        BY <2>4, FS_CardinalityType
<1>2. PICK m \in 1 .. n + 1 : m = Past(p, j) /\ m # p
    BY PastProperties
<1> DEFINE W == (1 .. m) \ {p}
           V == W \ {m}
<1>3. IsFiniteSet(W) /\ Cardinality(W) = j
    <2>1. IsFiniteSet(1 .. m) /\ Cardinality(1 .. m) = m
        BY PositionsCounted
    <2>2. /\ IsFiniteSet(W)
          /\ Cardinality(W) = IF p \in 1 .. m THEN m - 1 ELSE m
        BY <2>1, FS_RemoveElement
    <2>3. (IF p \in 1 .. m THEN m - 1 ELSE m) = j
        BY <1>2 DEF Past
    <2> HIDE DEF W
    <2> QED
        BY <2>2, <2>3
<1>4. IsFiniteSet(V) /\ Cardinality(V) = j - 1
    <2>1. m \in W
        BY <1>2
    <2> HIDE DEF W
    <2> QED
        BY <1>3, <2>1, FS_RemoveElement
<1>5. CASE m \in A
    <2>1. W \in SUBSET A
        BY <1>5
    <2>2. j <= Cardinality(A)
        <3> HIDE DEF W
        <3> QED
            BY <1>1, <1>3, <2>1, FS_Subset
    <2> QED
        BY <1>2, <1>5, <2>2
<1>6. CASE m \notin A
    <2>1. A \in SUBSET V
        BY <1>2, <1>6
    <2>2. Cardinality(A) <= j - 1
        <3> HIDE DEF V
        <3> QED
            BY <1>4, <2>1, FS_Subset
    <2> QED
        BY <1>1, <1>2, <1>6, <2>2
<1> QED
    BY <1>5, <1>6

-----------------------------------------------------------------------------
(* Sorted lists of delegations of different owners.                        *)

Orderly(s) ==
    \A i, j \in DOMAIN s :
      i < j => s[i].amount >= s[j].amount /\ s[i].owner # s[j].owner

\* An orderly list with one element less is orderly, and has lost the one
\* delegation of its owner.
LEMMA OneLessOrderly ==
    ASSUME NEW s \in Seq(Bond), NEW t \in Seq(Bond), NEW p, OneMore(t, p, s),
           Orderly(t)
    PROVE  /\ Orderly(s)
           /\ Range(s) = { x \in Range(t) : x.owner # t[p].owner }
<1>1. /\ DOMAIN s = 1 .. Len(s) /\ DOMAIN t = 1 .. Len(s) + 1 /\ Len(s) \in Nat
      /\ p \in 1 .. Len(s) + 1
      /\ \A j \in 1 .. Len(s) : s[j] = t[Past(p, j)]
    BY LenProperties DEF OneMore
<1>2. /\ \A j \in 1 .. Len(s) : Past(p, j) \in (1 .. Len(s) + 1) \ {p}
      /\ \A i, j \in 1 .. Len(s) : i < j <=> Past(p, i) < Past(p, j)
    BY <1>1, PastProperties
<1>3. Orderly(s)
    BY <1>1, <1>2 DEF Orderly
<1>4. \A i, j \in 1 .. Len(s) + 1 : i # j => t[i].owner # t[j].owner
    BY <1>1 DEF Orderly
<1>5. \A x \in Range(s) : x.owner # t[p].owner
    BY <1>1, <1>2, <1>4 DEF Range
<1>6. Range(t) = Range(s) \union { t[p] }
    BY OneMoreRange
<1> QED
    BY <1>3, <1>5, <1>6

\* An orderly list stays orderly when one more goes behind those that are
\* larger and ahead of those that are smaller.
LEMMA OneMoreOrderly ==
    ASSUME NEW s \in Seq(Bond), NEW t \in Seq(Bond), NEW p, OneMore(t, p, s),
           Orderly(s),
           \A x \in Range(s) : x.owner # t[p].owner,
           \A j \in 1 .. Len(s) : IF j < p THEN s[j].amount >= t[p].amount
                                           ELSE t[p].amount >= s[j].amount
    PROVE  Orderly(t)
<1>1. /\ DOMAIN s = 1 .. Len(s) /\ DOMAIN t = 1 .. Len(s) + 1 /\ Len(s) \in Nat
      /\ p \in 1 .. Len(s) + 1
      /\ \A j \in 1 .. Len(s) : s[j] = t[Past(p, j)]
    BY LenProperties DEF OneMore
<1>2. /\ \A i, j \in 1 .. Len(s) : i < j <=> Past(p, i) < Past(p, j)
      /\ \A k \in (1 .. Len(s) + 1) \ {p} : \E j \in 1 .. Len(s) : k = Past(p, j)
    BY <1>1, PastProperties
<1>3. \A j \in 1 .. Len(s) : s[j] \in Range(s)
    BY <1>1 DEF Range
<1> SUFFICES ASSUME NEW k \in 1 .. Len(s) + 1, NEW l \in 1 .. Len(s) + 1, k < l
             PROVE  t[k].amount >= t[l].amount /\ t[k].owner # t[l].owner
    BY <1>1 DEF Orderly
<1>4. CASE k # p /\ l # p
    <2>1. PICK i \in 1 .. Len(s) : k = Past(p, i)
        BY <1>2, <1>4
    <2>2. PICK j \in 1 .. Len(s) : l = Past(p, j)
        BY <1>2, <1>4
    <2>3. i < j
        BY <1>2, <2>1, <2>2
    <2> QED
        BY <1>1, <2>1, <2>2, <2>3 DEF Orderly
<1>5. CASE k = p
    <2>1. PICK j \in 1 .. Len(s) : l = Past(p, j)
        BY <1>2, <1>5
    <2>2. ~ (j < p)
        BY <1>1, <1>5, <2>1 DEF Past
    <2> QED
        BY <1>1, <1>3, <1>5, <2>1, <2>2
<1>6. CASE l = p
    <2>1. PICK i \in 1 .. Len(s) : k = Past(p, i)
        BY <1>2, <1>6
    <2>2. i < p
        BY <1>1, <1>6, <2>1 DEF Past
    <2> QED
        BY <1>1, <1>3, <1>6, <2>1, <2>2
<1> QED
    BY <1>4, <1>5, <1>6

-----------------------------------------------------------------------------
(* The lists of a book.                                                    *)

\* The delegations of a list, as a set.
Entries(list) == Range(list.delegations)

\* A list as the methods of a book find it and leave it.
ListInOrder(list) == list \in Delegations /\ Orderly(list.delegations)

\* The delegations of other owners than d.
Others(E, d) == { x \in E : x.owner # d }

LEMMA InOrderSorted ==
    ASSUME NEW list, ListInOrder(list)
    PROVE  SortedList(list)
BY DEF ListInOrder, Orderly, SortedList

\* Entries and owners.
LEMMA EntriesOfList ==
    ASSUME NEW list \in Delegations
    PROVE  /\ Entries(list) \subseteq Bond
           /\ \A d : d \in Owners(list) <=> \E x \in Entries(list) : x.owner = d
           /\ list.delegations = <<>> <=> Entries(list) = {}
<1>1. Entries(list) \subseteq Bond
    BY ListParts DEF Entries, Range
<1>2. \A d : d \in Owners(list) <=> \E x \in Entries(list) : x.owner = d
    BY DEF Entries, Range, Owners
<1>3. list.delegations # <<>> => list.delegations[1] \in Entries(list)
    BY ListParts DEF Entries, Range
<1>4. list.delegations = <<>> => Entries(list) = {}
    BY ListParts DEF Entries, Range
<1> QED
    BY <1>1, <1>2, <1>3, <1>4

LEMMA DistinctOwners ==
    ASSUME NEW list, ListInOrder(list), NEW x \in Entries(list),
           NEW y \in Entries(list), x.owner = y.owner
    PROVE  x = y
BY ListParts DEF ListInOrder, Orderly, Entries, Range

\* The delegation of an owner in a list.
LEMMA EntryOf ==
    ASSUME NEW list, ListInOrder(list), NEW d \in Owners(list)
    PROVE  /\ [owner |-> d, amount |-> AmountOf(list, d)] \in Entries(list)
           /\ \A x \in Entries(list) : x.owner = d => x.amount = AmountOf(list, d)
           /\ AmountOf(list, d) \in Nat
           /\ d \in Accounts
<1>1. list \in Delegations
    BY DEF ListInOrder
<1> DEFINE p == PositionOf(list, d)
           e == list.delegations[p]
<1>2. /\ p \in DOMAIN list.delegations /\ e.owner = d
      /\ AmountOf(list, d) \in Nat /\ d \in Accounts
    BY <1>1, PositionType
<1>3. e \in Entries(list) /\ e \in Bond /\ e.amount = AmountOf(list, d)
    BY <1>1, <1>2, ListParts DEF Entries, Range, AmountOf
<1> HIDE DEF e
<1>4. e = [owner |-> d, amount |-> AmountOf(list, d)]
    BY <1>2, <1>3 DEF Bond
<1>5. \A x \in Entries(list) : x.owner = d => x = e
    BY <1>2, <1>3, DistinctOwners
<1> QED
    BY <1>2, <1>3, <1>4, <1>5

LEMMA CountType ==
    ASSUME NEW n \in Nat, NEW A \in SUBSET (1 .. n)
    PROVE  Cardinality(A) \in Nat
BY PositionsCounted, FS_Subset, FS_CardinalityType

\* insert_sorted_greatest_to_least finds the place.
LEMMA InsertInOrder ==
    ASSUME NEW list, ListInOrder(list), NEW bond \in Bond,
           bond.owner \notin Owners(list)
    PROVE  /\ ListInOrder(Insert(list, bond))
           /\ Entries(Insert(list, bond)) = Entries(list) \union { bond }
           /\ AmountSum(Insert(list, bond).delegations)
                = AmountSum(list.delegations) + bond.amount
<1> DEFINE s == list.delegations
           n == Len(s)
           ahead == { i \in DOMAIN s : s[i].amount >= bond.amount }
           k == Cardinality(ahead)
           t == InsertAt(s, k + 1, bond)
<1>1. /\ list \in Delegations /\ s \in Seq(Bond) /\ n \in Nat /\ DOMAIN s = 1 .. n
      /\ \A i \in 1 .. n : s[i].amount \in Nat
      /\ Orderly(s) /\ bond.amount \in Nat
    BY ListParts DEF ListInOrder, Bond
<1>2. k + 1 \in 1 .. n + 1 /\ k \in Nat
    BY <1>1, PlaceBehind, CountType
<1>3. OneMore(t, k + 1, s) /\ t[k + 1] = bond
    <2> HIDE DEF s, k
    <2> QED
        BY <1>1, <1>2, InsertAtOneMore
<1>4. Insert(list, bond) \in Delegations /\ Insert(list, bond).delegations = t
      /\ t \in Seq(Bond)
    BY <1>1, InsertType, ListParts DEF Insert
<1>5. \A j \in 1 .. n : j \in ahead <=> j <= k
    <2>1. /\ n + 1 \in 1 .. n + 1
          /\ ahead \in SUBSET ((1 .. n + 1) \ {n + 1})
          /\ \A i \in ahead, j \in (1 .. n + 1) \ {n + 1} : j < i => j \in ahead
        BY <1>1 DEF Orderly
    <2>2. \A j \in 1 .. n : Past(n + 1, j) \in ahead <=> j <= k
        <3> HIDE DEF ahead, s, n
        <3> QED
            BY <1>1, <2>1, InitialPart
    <2>3. \A j \in 1 .. n : Past(n + 1, j) = j
        BY <1>1 DEF Past
    <2> QED
        BY <2>2, <2>3
<1>6. \A j \in 1 .. n : IF j < k + 1 THEN s[j].amount >= t[k + 1].amount
                                     ELSE t[k + 1].amount >= s[j].amount
    <2>1. \A j \in 1 .. n : j < k + 1 <=> j \in ahead
        <3> HIDE DEF ahead, k
        <3> QED
            BY <1>1, <1>2, <1>5
    <2> HIDE DEF k, t
    <2> QED
        BY <1>1, <1>3, <2>1
<1>7. \A x \in Range(s) : x.owner # t[k + 1].owner
    BY <1>1, <1>3, EntriesOfList DEF Entries
<1> HIDE DEF s, t, k, n
<1>8. Orderly(t)
    BY <1>1, <1>3, <1>4, <1>6, <1>7, OneMoreOrderly DEF n
<1>9. Range(t) = Range(s) \union { t[k + 1] }
    BY <1>1, <1>3, <1>4, OneMoreRange
<1>10. AmountSum(t) = AmountSum(s) + t[k + 1].amount
    BY <1>1, <1>3, <1>4, OneMoreSum
<1> QED
    BY <1>3, <1>4, <1>8, <1>9, <1>10 DEF ListInOrder, Entries, s

\* What taking one element out of a list does.
LEMMA OneLessInOrder ==
    ASSUME NEW list, ListInOrder(list), NEW rest \in Delegations, NEW p,
           OneMore(list.delegations, p, rest.delegations),
           NEW e, e = list.delegations[p]
    PROVE  /\ ListInOrder(rest)
           /\ e \in Entries(list)
           /\ Entries(rest) = Others(Entries(list), e.owner)
           /\ AmountSum(list.delegations) = AmountSum(rest.delegations) + e.amount
<1>1. list.delegations \in Seq(Bond) /\ rest.delegations \in Seq(Bond)
    BY DEF ListInOrder, Delegations
<1>2. Orderly(list.delegations)
    BY DEF ListInOrder
<1>3. /\ Orderly(rest.delegations)
      /\ Range(rest.delegations)
           = { x \in Range(list.delegations) : x.owner # e.owner }
    BY <1>1, <1>2, OneLessOrderly
<1>4. AmountSum(list.delegations) = AmountSum(rest.delegations) + e.amount
    BY <1>1, OneMoreSum
<1>5. e \in Range(list.delegations)
    BY <1>1, OneMoreRange
<1> QED
    BY <1>3, <1>4, <1>5 DEF ListInOrder, Entries, Others

LEMMA WithoutInOrder ==
    ASSUME NEW list, ListInOrder(list), NEW d \in Owners(list), NEW amount
    PROVE  LET rest == Without(list, d, amount)
           IN  /\ ListInOrder(rest)
               /\ Entries(rest) = Others(Entries(list), d)
               /\ AmountSum(list.delegations)
                    = AmountSum(rest.delegations) + AmountOf(list, d)
<1> DEFINE rest == Without(list, d, amount)
           p == PositionOf(list, d)
           e == list.delegations[p]
<1>1. /\ list \in Delegations /\ list.delegations \in Seq(Bond)
      /\ DOMAIN list.delegations = 1 .. Len(list.delegations)
    BY ListParts DEF ListInOrder
<1>2. p \in DOMAIN list.delegations /\ e.owner = d /\ e.amount = AmountOf(list, d)
    BY <1>1, PositionType DEF AmountOf
<1>3. rest \in Delegations /\ rest.delegations = RemoveAt(list.delegations, p)
    BY <1>1, WithoutType DEF Without
<1>4. OneMore(list.delegations, p, rest.delegations)
    <2> HIDE DEF p, rest
    <2> QED
        BY <1>1, <1>2, <1>3, RemoveAtOneMore
<1> HIDE DEF rest, p
<1>5. /\ ListInOrder(rest)
      /\ Entries(rest) = Others(Entries(list), e.owner)
      /\ AmountSum(list.delegations) = AmountSum(rest.delegations) + e.amount
    BY <1>3, <1>4, OneLessInOrder
<1> QED
    BY <1>2, <1>5 DEF rest

LEMMA WithoutLastInOrder ==
    ASSUME NEW list, ListInOrder(list), list.delegations # <<>>
    PROVE  LET rest == WithoutLast(list)
               last == Last(list.delegations)
           IN  /\ ListInOrder(rest)
               /\ last \in Entries(list)
               /\ \A x \in Entries(list) : x.amount >= last.amount
               /\ Entries(rest) = Others(Entries(list), last.owner)
               /\ AmountSum(list.delegations)
                    = AmountSum(rest.delegations) + last.amount
<1> DEFINE s == list.delegations
           n == Len(s)
           rest == WithoutLast(list)
<1>1. /\ list \in Delegations /\ s \in Seq(Bond) /\ DOMAIN s = 1 .. n
      /\ n \in Nat /\ n > 0
      /\ \A i \in 1 .. n : s[i] \in Bond /\ s[i].amount \in Nat
    BY ListParts DEF ListInOrder
<1>2. rest \in Delegations /\ Len(rest.delegations) = n - 1
      /\ rest.delegations = SubSeq(s, 1, n - 1)
    BY <1>1, WithoutLastType DEF WithoutLast, Front
<1>3. \A j \in 1 .. n - 1 : SubSeq(s, 1, n - 1)[j] = s[j]
    <2>1. 1 \in Int /\ n - 1 \in Int /\ \A i \in 1 .. n - 1 : s[i] \in Bond
        BY <1>1
    <2>2. \A i \in 1 .. n - 1 - 1 + 1 : SubSeq(s, 1, n - 1)[i] = s[1 + i - 1]
        <3> HIDE DEF s, n
        <3> QED
            BY <2>1, SubSeqProperties
    <2> QED
        BY <1>1, <2>2
<1>4. OneMore(s, n, rest.delegations)
    <2> HIDE DEF rest, s
    <2> QED
        BY <1>1, <1>2, <1>3 DEF OneMore, Past
<1>5. \A x \in Entries(list) : x.amount >= s[n].amount
    BY <1>1 DEF ListInOrder, Orderly, Entries, Range
<1> HIDE DEF rest
<1>6. /\ ListInOrder(rest)
      /\ s[n] \in Entries(list)
      /\ Entries(rest) = Others(Entries(list), s[n].owner)
      /\ AmountSum(s) = AmountSum(rest.delegations) + s[n].amount
    BY <1>2, <1>4, OneLessInOrder
<1> QED
    BY <1>5, <1>6 DEF rest, Last

LEMMA WithoutFirstInOrder ==
    ASSUME NEW list, ListInOrder(list), list.delegations # <<>>
    PROVE  LET rest == WithoutFirst(list)
               first == Head(list.delegations)
           IN  /\ ListInOrder(rest)
               /\ first \in Entries(list)
               /\ \A x \in Entries(list) : first.amount >= x.amount
               /\ Entries(rest) = Others(Entries(list), first.owner)
               /\ AmountSum(list.delegations)
                    = AmountSum(rest.delegations) + first.amount
<1> DEFINE s == list.delegations
           n == Len(s)
           rest == WithoutFirst(list)
<1>1. /\ list \in Delegations /\ s \in Seq(Bond) /\ DOMAIN s = 1 .. n
      /\ n \in Nat /\ n > 0 /\ s # <<>>
      /\ \A i \in 1 .. n : s[i] \in Bond /\ s[i].amount \in Nat
    BY ListParts DEF ListInOrder
<1>2. rest \in Delegations /\ Len(rest.delegations) = n - 1
      /\ rest.delegations = Tail(s)
    BY <1>1, WithoutFirstType DEF WithoutFirst
<1>3. \A j \in 1 .. n - 1 : Tail(s)[j] = s[j + 1]
    BY <1>1, <1>2, HeadTailProperties
<1>4. OneMore(s, 1, rest.delegations) /\ Head(s) = s[1]
    <2> HIDE DEF rest, s
    <2> QED
        BY <1>1, <1>2, <1>3 DEF OneMore, Past
<1>5. \A x \in Entries(list) : s[1].amount >= x.amount
    BY <1>1 DEF ListInOrder, Orderly, Entries, Range
<1> HIDE DEF rest
<1>6. /\ ListInOrder(rest)
      /\ s[1] \in Entries(list)
      /\ Entries(rest) = Others(Entries(list), s[1].owner)
      /\ AmountSum(s) = AmountSum(rest.delegations) + s[1].amount
    BY <1>2, <1>4, OneLessInOrder
<1> QED
    BY <1>4, <1>5, <1>6 DEF rest

\* Where the places are: the changed list is the others, r, with the changed
\* delegation behind the first k of them - those that are larger, and those of
\* the same amount that it stood behind.
LEMMA ResortedPlaces ==
    ASSUME NEW list, ListInOrder(list), NEW d \in Owners(list),
           NEW amount \in Nat
    PROVE  \E r \in Seq(Bond), k \in Nat :
             LET s == list.delegations
                 p == PositionOf(list, d)
                 t == Resorted(list, d, amount)
             IN  /\ r = RemoveAt(s, p) /\ Len(r) = Len(s) - 1
                 /\ OneMore(s, p, r)
                 /\ OneMore(t, k + 1, r) /\ t \in Seq(Bond)
                 /\ t[k + 1] = [owner |-> d, amount |-> amount]
                 /\ \A j \in 1 .. Len(r) :
                      j <= k <=> \/ r[j].amount > amount
                                 \/ r[j].amount = amount /\ j < p
<1> DEFINE s == list.delegations
           m == Len(s)
           p == PositionOf(list, d)
           e == [owner |-> d, amount |-> amount]
           r == RemoveAt(s, p)
           ahead == { i \in DOMAIN s \ {p} :
                        s[i].amount > amount \/ (i < p /\ s[i].amount = amount) }
           k == Cardinality(ahead)
           t == InsertAt(r, k + 1, e)
           rest == Without(list, d, 0)
<1>1. /\ list \in Delegations /\ s \in Seq(Bond) /\ m \in Nat /\ DOMAIN s = 1 .. m
      /\ \A i \in 1 .. m : s[i].amount \in Nat
      /\ Orderly(s) /\ p \in 1 .. m /\ s[p].owner = d /\ e \in Bond
    BY ListParts, PositionType DEF ListInOrder, Bond
<1>2. k + 1 \in 1 .. m /\ k \in Nat
    <2>1. ahead \in SUBSET (DOMAIN s \ {p}) /\ ahead \in SUBSET (1 .. m)
        BY <1>1
    <2> HIDE DEF ahead, s, p, m
    <2>2. k \in Nat
        BY <1>1, <2>1, CountType
    <2>3. k + 1 \in 1 .. Len(s)
        BY <1>1, <2>1, PlaceBehindOthers DEF m
    <2> QED
        BY <2>2, <2>3 DEF m
<1>3. /\ rest \in Delegations /\ rest.delegations = r /\ r \in Seq(Bond)
      /\ Len(r) = m - 1 /\ OneMore(s, p, r)
    <2>1. rest \in Delegations /\ rest.delegations = r
        BY <1>1, WithoutType DEF Without
    <2>2. OneMore(s, p, r)
        <3> HIDE DEF s, p
        <3> QED
            BY <1>1, RemoveAtOneMore
    <2>3. r \in Seq(Bond) /\ Len(r) = m - 1
        <3> HIDE DEF s, p
        <3> QED
            BY <1>1, RemoveAtType
    <2> QED
        BY <2>1, <2>2, <2>3
<1>4. OneMore(t, k + 1, r) /\ t[k + 1] = e /\ t \in Seq(Bond)
    <2>1. k + 1 \in 1 .. Len(r) + 1
        BY <1>1, <1>2, <1>3
    <2> HIDE DEF r, k, e
    <2> QED
        BY <1>1, <1>3, <2>1, InsertAtOneMore, InsertAtType
<1>5. \A j \in 1 .. m - 1 : Past(p, j) \in ahead <=> j <= k
    <2>1. m - 1 \in Nat /\ p \in 1 .. m - 1 + 1
        BY <1>1
    <2>2. /\ ahead \in SUBSET ((1 .. m - 1 + 1) \ {p})
          /\ \A i \in ahead, j \in (1 .. m - 1 + 1) \ {p} : j < i => j \in ahead
        <3> HIDE DEF s, m, p
        <3>1. (1 .. m - 1 + 1) \ {p} = DOMAIN s \ {p} /\ DOMAIN s \subseteq Nat
            BY <1>1
        <3>2. ASSUME NEW i \in ahead, NEW j \in DOMAIN s \ {p}, j < i
              PROVE  j \in ahead
            <4>1. s[j].amount >= s[i].amount /\ s[j].amount \in Nat /\ s[i].amount \in Nat
                BY <1>1, <3>2 DEF Orderly
            <4> QED
                BY <1>1, <3>1, <3>2, <4>1
        <3> HIDE DEF ahead
        <3>3. ahead \in SUBSET (DOMAIN s \ {p})
            BY DEF ahead
        <3> QED
            BY <3>1, <3>2, <3>3
    <2> HIDE DEF ahead, s, m, p
    <2> QED
        BY <2>1, <2>2, InitialPart
<1>6. ASSUME NEW j \in 1 .. m - 1
      PROVE  j <= k <=> r[j].amount > amount \/ (r[j].amount = amount /\ j < p)
    <2>1. r[j] = s[Past(p, j)]
        BY <1>3 DEF OneMore
    <2>2. Past(p, j) \in (1 .. m) \ {p} /\ (Past(p, j) < p <=> j < p)
        BY <1>1 DEF Past
    <2>3. Past(p, j) \in ahead
            <=> \/ s[Past(p, j)].amount > amount
                \/ Past(p, j) < p /\ s[Past(p, j)].amount = amount
        <3> HIDE DEF s, p, m
        <3> QED
            BY <1>1, <2>2
    <2> HIDE DEF ahead, s, m, p, r, k
    <2> QED
        BY <1>5, <2>1, <2>2, <2>3
<1>7. Resorted(list, d, amount) = t
    BY DEF Resorted
<1> HIDE DEF rest, ahead, s, m, p, r, k, e, t
<1> QED
    BY <1>2, <1>3, <1>4, <1>6, <1>7 DEF s, m, p, e, r

\* sort_greatest_to_least after the amount of d changed.
LEMMA ResortedInOrder ==
    ASSUME NEW list, ListInOrder(list), NEW d \in Owners(list),
           NEW amount \in Nat, NEW n \in Nat
    PROVE  LET changed == [delegations |-> Resorted(list, d, amount), total |-> n]
           IN  /\ ListInOrder(changed)
               /\ Entries(changed) = Others(Entries(list), d)
                                     \union { [owner |-> d, amount |-> amount] }
               /\ AmountSum(changed.delegations) + AmountOf(list, d)
                    = AmountSum(list.delegations) + amount
<1> DEFINE s == list.delegations
           m == Len(s)
           p == PositionOf(list, d)
           e == [owner |-> d, amount |-> amount]
           t == Resorted(list, d, amount)
           rest == Without(list, d, 0)
           changed == [delegations |-> t, total |-> n]
<1>1. /\ list \in Delegations /\ s \in Seq(Bond) /\ m \in Nat /\ DOMAIN s = 1 .. m
      /\ \A i \in 1 .. m : s[i].amount \in Nat
      /\ Orderly(s) /\ p \in 1 .. m /\ s[p].owner = d /\ e \in Bond
    BY ListParts, PositionType DEF ListInOrder, Bond
<1>2. PICK r \in Seq(Bond), k \in Nat :
        /\ r = RemoveAt(s, p) /\ Len(r) = m - 1
        /\ OneMore(s, p, r)
        /\ OneMore(t, k + 1, r) /\ t \in Seq(Bond)
        /\ t[k + 1] = e
        /\ \A j \in 1 .. Len(r) :
             j <= k <=> \/ r[j].amount > amount
                        \/ r[j].amount = amount /\ j < p
    BY ResortedPlaces
<1>3. /\ rest \in Delegations /\ rest.delegations = r
    BY <1>1, <1>2, WithoutType DEF Without
<1>4. \A j \in 1 .. Len(r) : IF j < k + 1 THEN r[j].amount >= t[k + 1].amount
                                          ELSE t[k + 1].amount >= r[j].amount
    <2>1. e.amount = amount
        OBVIOUS
    <2>2. \A j \in 1 .. Len(r) : r[j].amount \in Nat
        <3>1. \A j \in 1 .. Len(r) : r[j] \in Bond
            BY ElementOfSeq
        <3> QED
            BY <3>1 DEF Bond
    <2> HIDE DEF s, m, p, e, t
    <2>3. \A j \in 1 .. Len(r) : j < k + 1 <=> j <= k
        OBVIOUS
    <2> QED
        BY <1>2, <2>1, <2>2, <2>3
<1>5. /\ ListInOrder(rest)
      /\ Entries(rest) = Others(Entries(list), d)
      /\ AmountSum(s) = AmountSum(r) + AmountOf(list, d)
    <2> HIDE DEF rest
    <2> QED
        BY <1>3, WithoutInOrder DEF rest
<1>6. \A x \in Range(r) : x.owner # t[k + 1].owner
    BY <1>2, <1>3, <1>5 DEF Entries, Others
<1> HIDE DEF rest, s, m, p, e, t
<1>7. Orderly(t)
    BY <1>2, <1>3, <1>4, <1>5, <1>6, OneMoreOrderly DEF ListInOrder
<1>8. Range(t) = Range(r) \union { t[k + 1] }
    BY <1>2, OneMoreRange
<1>9. AmountSum(t) = AmountSum(r) + t[k + 1].amount
    BY <1>2, OneMoreSum
<1>10. changed \in Delegations /\ changed.delegations = t
    BY <1>2 DEF Delegations
<1>11. e = [owner |-> d, amount |-> amount] /\ e.amount = amount
    BY DEF e
<1>12. changed = [delegations |-> Resorted(list, d, amount), total |-> n]
    BY DEF changed, t
<1> HIDE DEF changed
<1>13. AmountSum(t) + AmountOf(list, d) = AmountSum(s) + amount
    <2>1. AmountSum(r) \in Nat /\ AmountOf(list, d) \in Nat
        BY <1>1, AmountSumType, PositionType
    <2> QED
        BY <1>2, <1>5, <1>9, <1>11, <2>1
<1> QED
    BY <1>2, <1>3, <1>5, <1>7, <1>8, <1>10, <1>11, <1>12, <1>13
       DEF ListInOrder, Entries, s

-----------------------------------------------------------------------------
(* The methods of a book.                                                  *)

\* The delegations of a candidate.
BookEntries(book) == Entries(book.top) \union Entries(book.bottom)

\* The recorded total of a list is the sum of its amounts, or more.
Exact(list) == list.total = AmountSum(list.delegations)
Covers(list) == list.total >= AmountSum(list.delegations)

\* Both lists are sorted, nobody is in them twice, no delegation at the bottom
\* is larger than one at the top, and the recorded totals are those of the
\* lists: exactly at the top, at least at the bottom (decrease_bottom_delegation
\* does not lower it).
InOrder(book) ==
    /\ ListInOrder(book.top)
    /\ ListInOrder(book.bottom)
    /\ \A x \in Entries(book.top), y \in Entries(book.bottom) :
         x.amount >= y.amount /\ x.owner # y.owner
    /\ Exact(book.top)
    /\ Covers(book.bottom)

LEMMA SubBehaves ==
    ASSUME NEW a \in Nat, NEW b \in Nat
    PROVE  /\ SaturatingSub(a, b) \in Nat
           /\ b <= a => SaturatingSub(a, b) = a - b
           /\ a <= b => SaturatingSub(a, b) = 0
           /\ SaturatingSub(a, b) >= a - b
BY DEF SaturatingSub

\* A total that covers its parts still covers the rest when it loses one.
LEMMA SubCovers ==
    ASSUME NEW t \in Nat, NEW a \in Nat, NEW r \in Nat
    PROVE  /\ t >= r + a => SaturatingSub(t, a) >= r
           /\ t = r + a => SaturatingSub(t, a) = r
<1>1. t >= r + a => a \in 0 .. t
    OBVIOUS
<1>2. t >= r + a => SaturatingSub(t, a) = t - a
    BY <1>1 DEF SaturatingSub
<1> QED
    BY <1>2

LEMMA NewBookInOrder ==
    ASSUME NEW book, book.top = NoDelegations, book.bottom = NoDelegations
    PROVE  InOrder(book) /\ BookEntries(book) = {}
<1>1. /\ NoDelegations \in Delegations
      /\ NoDelegations.delegations = <<>>
      /\ NoDelegations.total = 0
      /\ DOMAIN <<>> = {}
    BY EmptySeq DEF NoDelegations, Delegations
<1>2. ListInOrder(NoDelegations) /\ Entries(NoDelegations) = {}
    BY <1>1 DEF ListInOrder, Orderly, Entries, Range
<1>3. AmountSum(<<>>) = 0
    <2> DEFINE f == [i \in DOMAIN <<>> |-> <<>>[i].amount]
    <2>1. DOMAIN f = {}
        BY <1>1
    <2>2. SumFunctionOnSet(f, {}) = 0
        BY SumOfNothing
    <2> HIDE DEF f
    <2>3. SumFunctionOnSet(f, DOMAIN f) = 0
        BY <2>1, <2>2
    <2> QED
        BY <2>3 DEF AmountSum, SumFunction, f
<1> QED
    BY <1>1, <1>2, <1>3 DEF InOrder, BookEntries, Exact, Covers

\* What the lemmas below use of a book that is well kept and in order.
LEMMA InOrderParts ==
    ASSUME NEW book, WellKept(book), InOrder(book)
    PROVE  /\ book.top \in Delegations /\ book.bottom \in Delegations
           /\ ListInOrder(book.top) /\ ListInOrder(book.bottom)
           /\ Entries(book.top) \subseteq Bond /\ Entries(book.bottom) \subseteq Bond
           /\ book.top.total \in Nat /\ book.bottom.total \in Nat
           /\ AmountSum(book.top.delegations) \in Nat
           /\ AmountSum(book.bottom.delegations) \in Nat
           /\ book.info.lowest_top = LowestAmount(book.top)
           /\ book.info.highest_bottom = HighestAmount(book.bottom)
           /\ book.info.lowest_bottom = LowestAmount(book.bottom)
           /\ \A d : d \in Owners(book.top)
                       <=> \E x \in Entries(book.top) : x.owner = d
           /\ \A d : d \in Owners(book.bottom)
                       <=> \E x \in Entries(book.bottom) : x.owner = d
<1>1. ListInOrder(book.top) /\ ListInOrder(book.bottom)
    BY DEF InOrder
<1>2. /\ book.top \in Delegations /\ book.bottom \in Delegations
      /\ book.top.delegations \in Seq(Bond) /\ book.bottom.delegations \in Seq(Bond)
      /\ book.top.total \in Nat /\ book.bottom.total \in Nat
    BY <1>1, ListParts DEF ListInOrder
<1>3. /\ AmountSum(book.top.delegations) \in Nat
      /\ AmountSum(book.bottom.delegations) \in Nat
    BY <1>2, AmountSumType
<1>4. /\ book.info.lowest_top = LowestAmount(book.top)
      /\ book.info.highest_bottom = HighestAmount(book.bottom)
      /\ book.info.lowest_bottom = LowestAmount(book.bottom)
    BY DEF WellKept, Mirrors
<1> QED
    BY <1>1, <1>2, <1>3, <1>4, EntriesOfList

LEMMA TotalsTypes ==
    ASSUME NEW list, ListInOrder(list)
    PROVE  /\ list.total \in Nat /\ AmountSum(list.delegations) \in Nat
           /\ Entries(list) \subseteq Bond
           /\ \A x \in Entries(list) : x.amount \in Nat /\ x.owner \in Accounts
           /\ \A d : d \in Owners(list) <=> \E x \in Entries(list) : x.owner = d
           /\ list.delegations = <<>> <=> Entries(list) = {}
<1>1. list \in Delegations
    BY DEF ListInOrder
<1> QED
    BY <1>1, ListParts, AmountSumType, EntriesOfList DEF Bond

LEMMA InsertTotals ==
    ASSUME NEW list, ListInOrder(list), NEW bond \in Bond,
           bond.owner \notin Owners(list)
    PROVE  /\ Exact(list) => Exact(Insert(list, bond))
           /\ Covers(list) => Covers(Insert(list, bond))
<1>1. AmountSum(Insert(list, bond).delegations)
        = AmountSum(list.delegations) + bond.amount
    BY InsertInOrder
<1>2. Insert(list, bond).total = list.total + bond.amount
    BY DEF Insert
<1>3. list.total \in Nat /\ AmountSum(list.delegations) \in Nat /\ bond.amount \in Nat
    BY TotalsTypes DEF Bond
<1> QED
    BY <1>1, <1>2, <1>3 DEF Exact, Covers

LEMMA LessTotals ==
    ASSUME NEW list, ListInOrder(list), NEW rest, ListInOrder(rest),
           NEW amount \in Nat,
           rest.total = SaturatingSub(list.total, amount),
           AmountSum(list.delegations) = AmountSum(rest.delegations) + amount
    PROVE  /\ Exact(list) => Exact(rest)
           /\ Covers(list) => Covers(rest)
<1>1. list.total \in Nat /\ AmountSum(rest.delegations) \in Nat
    BY TotalsTypes
<1> QED
    BY <1>1, SubCovers DEF Exact, Covers

\* Taking a delegation out, with its amount off the total.
LEMMA WithoutTakes ==
    ASSUME NEW list, ListInOrder(list), NEW x \in Entries(list)
    PROVE  LET rest == Without(list, x.owner, x.amount)
           IN  /\ ListInOrder(rest)
               /\ Entries(rest) = Entries(list) \ {x}
               /\ Exact(list) => Exact(rest)
               /\ Covers(list) => Covers(rest)
<1> DEFINE rest == Without(list, x.owner, x.amount)
<1>1. x.owner \in Owners(list) /\ x.amount \in Nat
    BY TotalsTypes
<1>2. x.amount = AmountOf(list, x.owner)
    BY <1>1, EntryOf
<1>3. /\ ListInOrder(rest)
      /\ Entries(rest) = Others(Entries(list), x.owner)
      /\ AmountSum(list.delegations) = AmountSum(rest.delegations) + x.amount
    BY <1>1, <1>2, WithoutInOrder
<1>4. Others(Entries(list), x.owner) = Entries(list) \ {x}
    BY DistinctOwners DEF Others
<1>5. rest.total = SaturatingSub(list.total, x.amount)
    BY DEF Without
<1> HIDE DEF rest
<1> QED
    BY <1>1, <1>3, <1>4, <1>5, LessTotals DEF rest

LEMMA WithoutLastTakes ==
    ASSUME NEW list, ListInOrder(list), list.delegations # <<>>
    PROVE  LET rest == WithoutLast(list)
               last == Last(list.delegations)
           IN  /\ ListInOrder(rest)
               /\ last \in Entries(list)
               /\ \A x \in Entries(list) : x.amount >= last.amount
               /\ Entries(rest) = Entries(list) \ {last}
               /\ Exact(list) => Exact(rest)
               /\ Covers(list) => Covers(rest)
<1> DEFINE rest == WithoutLast(list)
           last == Last(list.delegations)
<1>1. /\ ListInOrder(rest)
      /\ last \in Entries(list)
      /\ \A x \in Entries(list) : x.amount >= last.amount
      /\ Entries(rest) = Others(Entries(list), last.owner)
      /\ AmountSum(list.delegations) = AmountSum(rest.delegations) + last.amount
    BY WithoutLastInOrder
<1>2. rest.total = SaturatingSub(list.total, last.amount)
    BY DEF WithoutLast
<1> HIDE DEF rest, last
<1>3. Others(Entries(list), last.owner) = Entries(list) \ {last}
    BY <1>1, DistinctOwners DEF Others
<1>4. last.amount \in Nat
    BY <1>1, TotalsTypes
<1> QED
    BY <1>1, <1>2, <1>3, <1>4, LessTotals DEF rest, last

LEMMA WithoutFirstTakes ==
    ASSUME NEW list, ListInOrder(list), list.delegations # <<>>
    PROVE  LET rest == WithoutFirst(list)
               first == Head(list.delegations)
           IN  /\ ListInOrder(rest)
               /\ first \in Entries(list)
               /\ \A x \in Entries(list) : first.amount >= x.amount
               /\ Entries(rest) = Entries(list) \ {first}
               /\ Exact(list) => Exact(rest)
               /\ Covers(list) => Covers(rest)
<1> DEFINE rest == WithoutFirst(list)
           first == Head(list.delegations)
<1>1. /\ ListInOrder(rest)
      /\ first \in Entries(list)
      /\ \A x \in Entries(list) : first.amount >= x.amount
      /\ Entries(rest) = Others(Entries(list), first.owner)
      /\ AmountSum(list.delegations) = AmountSum(rest.delegations) + first.amount
    BY WithoutFirstInOrder
<1>2. rest.total = SaturatingSub(list.total, first.amount)
    BY DEF WithoutFirst
<1> HIDE DEF rest, first
<1>3. Others(Entries(list), first.owner) = Entries(list) \ {first}
    BY <1>1, DistinctOwners DEF Others
<1>4. first.amount \in Nat
    BY <1>1, TotalsTypes
<1> QED
    BY <1>1, <1>2, <1>3, <1>4, LessTotals DEF rest, first

LEMMA InsertPuts ==
    ASSUME NEW list, ListInOrder(list), NEW bond \in Bond,
           \A x \in Entries(list) : x.owner # bond.owner
    PROVE  LET more == Insert(list, bond)
           IN  /\ ListInOrder(more)
               /\ Entries(more) = Entries(list) \union { bond }
               /\ Exact(list) => Exact(more)
               /\ Covers(list) => Covers(more)
<1>1. bond.owner \notin Owners(list)
    BY TotalsTypes
<1> QED
    BY <1>1, InsertInOrder, InsertTotals

\* What add_bottom_delegation does, as one predicate.
AddedToBottom(outcome, book, bond) ==
    /\ outcome.top = book.top
    /\ ListInOrder(outcome.bottom)
    /\ Covers(outcome.bottom)
    /\ outcome.kicked \subseteq Entries(book.bottom)
    /\ Entries(outcome.bottom)
         = (Entries(book.bottom) \ outcome.kicked) \union { bond }
    /\ outcome.kicked
         = IF Len(book.bottom.delegations) = MaxBottomDelegationsPerCandidate
           THEN { Last(book.bottom.delegations) } ELSE {}

\* add_bottom_delegation: the new delegation is in, and out of a full list the
\* lowest one is kicked.
LEMMA AddToBottomInOrder ==
    ASSUME NEW book, WellKept(book), ListInOrder(book.bottom), Covers(book.bottom),
           NEW bond \in Bond,
           \A x \in Entries(book.bottom) : x.owner # bond.owner,
           NEW bumped_from_top,
           NEW outcome, outcome = AddToBottom(book, bumped_from_top, bond)
    PROVE  AddedToBottom(outcome, book, bond)
<1> DEFINE full == Len(book.bottom.delegations) = MaxBottomDelegationsPerCandidate
           last == Last(book.bottom.delegations)
           before == IF full THEN WithoutLast(book.bottom) ELSE book.bottom
           bottom == Insert(before, bond)
           kicked == IF full THEN { last } ELSE {}
<1>1. /\ outcome.top = book.top /\ outcome.bottom = bottom
      /\ outcome.kicked = kicked
    BY DEF AddToBottom
<1>2. full => book.bottom.delegations # <<>>
    BY WellKeptCapacities
<1>3. /\ ListInOrder(before) /\ Covers(before)
      /\ kicked \subseteq Entries(book.bottom)
      /\ Entries(before) = Entries(book.bottom) \ kicked
    <2>1. CASE full
        BY <1>2, <2>1, WithoutLastTakes
    <2>2. CASE ~full
        BY <2>2
    <2> QED
        BY <2>1, <2>2
<1> HIDE DEF before, kicked
<1>4. \A x \in Entries(before) : x.owner # bond.owner
    BY <1>3
<1>5. /\ ListInOrder(bottom) /\ Covers(bottom)
      /\ Entries(bottom) = Entries(before) \union { bond }
    BY <1>3, <1>4, InsertPuts
<1>6. Entries(bottom) = (Entries(book.bottom) \ kicked) \union { bond }
    BY <1>3, <1>5
<1> HIDE DEF bottom
<1> QED
    BY <1>1, <1>3, <1>5, <1>6 DEF kicked, AddedToBottom

\* The lists are full when their capacity says so, and the bottom is empty
\* unless the top is full.
LEMMA FillParts ==
    ASSUME NEW book, WellKept(book)
    PROVE  /\ book.info.top_capacity = "Full"
                <=> Len(book.top.delegations) = MaxTopDelegationsPerCandidate
           /\ book.info.bottom_capacity = "Full"
                <=> Len(book.bottom.delegations) = MaxBottomDelegationsPerCandidate
           /\ book.info.bottom_capacity = "Empty"
                <=> book.bottom.delegations = <<>>
           /\ CapacityOf(book.top, MaxTopDelegationsPerCandidate)
                = book.info.top_capacity
           /\ Len(book.top.delegations) = MaxTopDelegationsPerCandidate
                => book.top.delegations # <<>>
           /\ Len(book.bottom.delegations) = MaxBottomDelegationsPerCandidate
                => book.bottom.delegations # <<>>
           /\ book.bottom.delegations # <<>>
                => Len(book.top.delegations) = MaxTopDelegationsPerCandidate
<1>1. FillsFromTheTop(book) /\ Mirrors(book)
    BY DEF WellKept
<1> QED
    BY <1>1, WellKeptCapacities DEF FillsFromTheTop, Mirrors

\* The delegation that goes when a new one comes in: nobody, unless both lists
\* are full, and then the last of the bottom, which the new one outbids.
KickedFor(kicked, book, bond) ==
    kicked # {} =>
      /\ Len(book.top.delegations) = MaxTopDelegationsPerCandidate
      /\ Len(book.bottom.delegations) = MaxBottomDelegationsPerCandidate
      /\ kicked = { Last(book.bottom.delegations) }
      /\ bond.amount > Last(book.bottom.delegations).amount

\* add_top_delegation
LEMMA AddToTopInOrder ==
    ASSUME NEW book, WellKept(book), InOrder(book), NEW bond \in Bond,
           \A x \in BookEntries(book) : x.owner # bond.owner,
           Len(book.top.delegations) = MaxTopDelegationsPerCandidate
             => book.info.lowest_top < bond.amount,
           NEW outcome, outcome = AddToTop(book, bond)
    PROVE  /\ InOrder(outcome)
           /\ outcome.kicked \subseteq BookEntries(book)
           /\ BookEntries(outcome) = (BookEntries(book) \ outcome.kicked) \union {bond}
           /\ KickedFor(outcome.kicked, book, bond)
           /\ outcome.less = { x.amount : x \in outcome.kicked }
<1> DEFINE full == Len(book.top.delegations) = MaxTopDelegationsPerCandidate
           bottomFull == Len(book.bottom.delegations)
                           = MaxBottomDelegationsPerCandidate
           last == Last(book.top.delegations)
           below == AddToBottom(book, TRUE, last)
           before == IF full THEN WithoutLast(book.top) ELSE book.top
           top == Insert(before, bond)
           bottom == IF full THEN below.bottom ELSE book.bottom
           kicked == IF full THEN below.kicked ELSE {}
           less == IF full THEN LessTotalStaked(book.info) ELSE {}
<1>1. /\ outcome.top = top /\ outcome.bottom = bottom
      /\ outcome.kicked = kicked /\ outcome.less = less
    BY DEF AddToTop
<1>2. /\ ListInOrder(book.top) /\ ListInOrder(book.bottom)
      /\ Exact(book.top) /\ Covers(book.bottom)
      /\ \A x \in Entries(book.top), y \in Entries(book.bottom) :
           x.amount >= y.amount /\ x.owner # y.owner
      /\ Entries(book.top) \subseteq Bond /\ Entries(book.bottom) \subseteq Bond
    BY TotalsTypes DEF InOrder
<1>3. bond.amount \in Nat
    BY DEF Bond
<1>4. CASE full
    <2>1. book.top.delegations # <<>> /\ (bottomFull => book.bottom.delegations # <<>>)
        BY <1>4, FillParts
    <2>2. /\ ListInOrder(before) /\ Exact(before)
          /\ last \in Entries(book.top) /\ last \in Bond
          /\ \A x \in Entries(book.top) : x.amount >= last.amount
          /\ Entries(before) = Entries(book.top) \ {last}
        BY <1>2, <1>4, <2>1, WithoutLastTakes
    <2>3. last.amount < bond.amount
        BY <1>4, <2>1, InOrderParts DEF LowestAmount
    <2>4. /\ ListInOrder(bottom) /\ Covers(bottom)
          /\ kicked \subseteq Entries(book.bottom)
          /\ Entries(bottom) = (Entries(book.bottom) \ kicked) \union { last }
          /\ kicked = IF bottomFull THEN { Last(book.bottom.delegations) } ELSE {}
        <3>1. \A x \in Entries(book.bottom) : x.owner # last.owner
            BY <1>2, <2>2
        <3> HIDE DEF last
        <3>2. below = AddToBottom(book, TRUE, last)
            OBVIOUS
        <3> HIDE DEF below
        <3> QED
            BY <1>2, <1>4, <2>2, <3>1, <3>2, AddToBottomInOrder DEF AddedToBottom
    <2> HIDE DEF before, below, bottom, last
    <2>5. /\ ListInOrder(top) /\ Exact(top)
          /\ Entries(top) = Entries(before) \union { bond }
        <3>1. \A x \in Entries(before) : x.owner # bond.owner
            BY <2>2 DEF BookEntries
        <3> QED
            BY <2>2, <3>1, InsertPuts
    <2> HIDE DEF top
    <2>6. \A x \in Entries(top), y \in Entries(bottom) :
            x.amount >= y.amount /\ x.owner # y.owner
        <3> SUFFICES ASSUME NEW x \in Entries(top), NEW y \in Entries(bottom)
                     PROVE  x.amount >= y.amount /\ x.owner # y.owner
            OBVIOUS
        <3>1. x \in Bond /\ y \in Bond /\ last.amount \in Nat
            BY <2>4, <2>5, TotalsTypes, <2>2 DEF Bond
        <3>2. x.amount >= last.amount
            BY <2>2, <2>3, <2>5, <1>3, <3>1 DEF Bond
        <3>3. last.amount >= y.amount
            BY <1>2, <2>2, <2>4, <3>1 DEF Bond
        <3>4. x.amount >= y.amount
            BY <3>1, <3>2, <3>3 DEF Bond
        <3>5. x.owner # y.owner
            <4>1. CASE x = bond
                BY <2>2, <2>4, <4>1 DEF BookEntries
            <4>2. CASE x # bond
                <5>1. x \in Entries(book.top) /\ x # last
                    BY <2>2, <2>5, <4>2
                <5>2. x.owner # last.owner
                    BY <1>2, <2>2, <5>1, DistinctOwners
                <5> QED
                    BY <1>2, <2>4, <5>1, <5>2
            <4> QED
                BY <4>1, <4>2
        <3> QED
            BY <3>4, <3>5
    <2>7. InOrder(outcome)
        BY <1>1, <2>4, <2>5, <2>6 DEF InOrder
    <2>8. /\ kicked \subseteq BookEntries(book)
          /\ BookEntries(outcome) = (BookEntries(book) \ kicked) \union {bond}
        <3>1. last \notin kicked /\ bond \notin kicked
            BY <1>2, <2>2, <2>4 DEF BookEntries
        <3>2. kicked \intersect Entries(book.top) = {}
            BY <1>2, <2>4
        <3> QED
            BY <1>1, <2>2, <2>4, <2>5, <3>1, <3>2 DEF BookEntries
    <2>9. KickedFor(kicked, book, bond)
        <3> SUFFICES ASSUME kicked # {}
                     PROVE  /\ full /\ bottomFull
                            /\ kicked = { Last(book.bottom.delegations) }
                            /\ bond.amount > Last(book.bottom.delegations).amount
            BY DEF KickedFor
        <3>1. bottomFull /\ kicked = { Last(book.bottom.delegations) }
            BY <2>4
        <3> DEFINE k == Last(book.bottom.delegations)
        <3>2. k \in Entries(book.bottom)
            BY <2>4, <3>1
        <3> HIDE DEF k
        <3>3. k.amount \in Nat /\ last.amount \in Nat /\ last.amount >= k.amount
            BY <1>2, <2>2, <3>2 DEF Bond
        <3>4. bond.amount > k.amount
            BY <1>3, <2>3, <3>3
        <3> QED
            BY <1>4, <3>1, <3>4 DEF k
    <2>10. less = { x.amount : x \in kicked }
        <3>1. book.info.bottom_capacity = "Full" <=> bottomFull
            BY FillParts
        <3>2. less = IF bottomFull THEN { book.info.lowest_bottom } ELSE {}
            BY <1>4, <3>1 DEF LessTotalStaked
        <3>3. bottomFull => book.info.lowest_bottom = Last(book.bottom.delegations).amount
            BY <2>1, InOrderParts DEF LowestAmount
        <3> HIDE DEF less
        <3> QED
            BY <2>4, <3>2, <3>3
    <2> QED
        BY <1>1, <2>7, <2>8, <2>9, <2>10
<1>5. CASE ~full
    <2>1. book.bottom.delegations = <<>> /\ Entries(book.bottom) = {}
        BY <1>2, <1>5, FillParts, TotalsTypes
    <2>2. /\ ListInOrder(top) /\ Exact(top)
          /\ Entries(top) = Entries(book.top) \union { bond }
        <3>1. \A x \in Entries(book.top) : x.owner # bond.owner
            BY DEF BookEntries
        <3>2. top = Insert(book.top, bond)
            BY <1>5
        <3> HIDE DEF top
        <3> QED
            BY <1>2, <3>1, <3>2, InsertPuts
    <2>3. bottom = book.bottom /\ kicked = {} /\ less = {}
        BY <1>5
    <2> HIDE DEF top, bottom, kicked, less
    <2>4. InOrder(outcome)
        BY <1>1, <1>2, <2>1, <2>2, <2>3 DEF InOrder
    <2> QED
        BY <1>1, <2>1, <2>2, <2>3, <2>4 DEF BookEntries, KickedFor
<1> QED
    BY <1>4, <1>5

\* add_delegation, once CanAdd has let the delegation in.
LEMMA AddDelegationInOrder ==
    ASSUME NEW book, WellKept(book), InOrder(book), NEW bond \in Bond,
           \A x \in BookEntries(book) : x.owner # bond.owner,
           CanAdd(book.info, bond.amount),
           NEW outcome, outcome = AddDelegation(book, bond)
    PROVE  /\ InOrder(outcome)
           /\ outcome.kicked \subseteq BookEntries(book)
           /\ BookEntries(outcome) = (BookEntries(book) \ outcome.kicked) \union {bond}
           /\ KickedFor(outcome.kicked, book, bond)
           /\ outcome.less = { x.amount : x \in outcome.kicked }
<1>1. CASE book.info.top_capacity # "Full" \/ book.info.lowest_top < bond.amount
    <2>1. outcome = AddToTop(book, bond)
        BY <1>1 DEF AddDelegation
    <2>2. Len(book.top.delegations) = MaxTopDelegationsPerCandidate
             => book.info.lowest_top < bond.amount
        BY <1>1, FillParts
    <2> QED
        BY <2>1, <2>2, AddToTopInOrder
<1>2. CASE ~ (book.info.top_capacity # "Full" \/ book.info.lowest_top < bond.amount)
    <2> DEFINE below == AddToBottom(book, FALSE, bond)
               k == Last(book.bottom.delegations)
               bottomFull == Len(book.bottom.delegations)
                               = MaxBottomDelegationsPerCandidate
    <2>1. /\ outcome.top = below.top /\ outcome.bottom = below.bottom
          /\ outcome.kicked = below.kicked
          /\ outcome.less = LessTotalStaked(book.info)
        BY <1>2 DEF AddDelegation
    <2>2. /\ ListInOrder(book.top) /\ ListInOrder(book.bottom)
          /\ Exact(book.top) /\ Covers(book.bottom)
          /\ \A x \in Entries(book.top), y \in Entries(book.bottom) :
               x.amount >= y.amount /\ x.owner # y.owner
          /\ Entries(book.top) \subseteq Bond /\ Entries(book.bottom) \subseteq Bond
        BY TotalsTypes DEF InOrder
    <2>3. /\ Len(book.top.delegations) = MaxTopDelegationsPerCandidate
          /\ book.top.delegations # <<>>
          /\ bottomFull => book.bottom.delegations # <<>>
          /\ book.info.bottom_capacity = "Full" <=> bottomFull
        BY <1>2, FillParts
    <2>4. /\ below.top = book.top
          /\ ListInOrder(below.bottom) /\ Covers(below.bottom)
          /\ below.kicked \subseteq Entries(book.bottom)
          /\ Entries(below.bottom)
               = (Entries(book.bottom) \ below.kicked) \union { bond }
          /\ below.kicked = IF bottomFull THEN { k } ELSE {}
        <3>1. \A x \in Entries(book.bottom) : x.owner # bond.owner
            BY DEF BookEntries
        <3>2. below = AddToBottom(book, FALSE, bond)
            OBVIOUS
        <3> HIDE DEF below, k, bottomFull
        <3>3. PICK bumped : bumped = FALSE
            OBVIOUS
        <3>4. below = AddToBottom(book, bumped, bond)
            BY <3>2, <3>3
        <3>5. ListInOrder(book.bottom) /\ Covers(book.bottom)
            BY <2>2
        <3>6. AddedToBottom(below, book, bond)
            BY <3>1, <3>4, <3>5, AddToBottomInOrder
        <3> QED
            BY <3>6 DEF AddedToBottom, k, bottomFull
    <2> HIDE DEF below
    <2>5. \A x \in Entries(book.top) : x.amount >= bond.amount /\ x.owner # bond.owner
        <3> SUFFICES ASSUME NEW x \in Entries(book.top)
                     PROVE  x.amount >= bond.amount /\ x.owner # bond.owner
            OBVIOUS
        <3> DEFINE last == Last(book.top.delegations)
        <3>1. last \in Entries(book.top) /\ x.amount >= last.amount
            BY <2>2, <2>3, WithoutLastTakes
        <3>2. book.info.lowest_top = last.amount
            BY <2>3, InOrderParts DEF LowestAmount
        <3> HIDE DEF last
        <3>3. last.amount \in Nat /\ bond.amount \in Nat /\ x.amount \in Nat
            BY <2>2, <3>1 DEF Bond
        <3>4. ~ (last.amount < bond.amount)
            BY <1>2, <3>2
        <3> QED
            BY <3>1, <3>3, <3>4 DEF BookEntries
    <2>6. InOrder(outcome)
        <3>1. \A x \in Entries(book.top), y \in Entries(below.bottom) :
                x.amount >= y.amount /\ x.owner # y.owner
            BY <2>2, <2>4, <2>5
        <3> QED
            BY <2>1, <2>2, <2>4, <3>1 DEF InOrder
    <2>7. /\ outcome.kicked \subseteq BookEntries(book)
          /\ BookEntries(outcome)
               = (BookEntries(book) \ outcome.kicked) \union {bond}
        <3>1. below.kicked \intersect Entries(book.top) = {}
            BY <2>2, <2>4
        <3> QED
            BY <2>1, <2>4, <3>1 DEF BookEntries
    <2>8. bottomFull => book.info.lowest_bottom = k.amount
        BY <2>3, InOrderParts DEF LowestAmount
    <2>9. KickedFor(outcome.kicked, book, bond)
        <3>1. ASSUME bottomFull PROVE bond.amount > k.amount
            <4>1. k \in Entries(book.bottom)
                BY <2>4, <3>1
            <4> HIDE DEF k
            <4>2. k.amount \in Nat /\ bond.amount \in Nat
                BY <2>2, <4>1 DEF Bond
            <4>3. bond.amount > book.info.lowest_bottom
                BY <1>2, <2>3, <3>1 DEF CanAdd
            <4> QED
                BY <2>8, <3>1, <4>2, <4>3 DEF k
        <3> QED
            BY <2>1, <2>3, <2>4, <3>1 DEF KickedFor
    <2>10. outcome.less = { x.amount : x \in outcome.kicked }
        <3>1. outcome.less = IF bottomFull THEN { k.amount } ELSE {}
            BY <2>1, <2>3, <2>8 DEF LessTotalStaked
        <3> HIDE DEF k
        <3> QED
            BY <2>1, <2>4, <3>1
    <2> QED
        BY <2>6, <2>7, <2>9, <2>10
<1> QED
    BY <1>1, <1>2

-----------------------------------------------------------------------------
(* The methods that take a delegation out or change its amount.            *)

\* No owner has two delegations in a book.
LEMMA OneEntryEach ==
    ASSUME NEW book, InOrder(book), NEW x \in BookEntries(book)
    PROVE  /\ Others(BookEntries(book), x.owner) = BookEntries(book) \ {x}
           /\ x \in Bond
           /\ \A y \in BookEntries(book) : y.owner = x.owner => y = x
           /\ ~ (x \in Entries(book.top) /\ x \in Entries(book.bottom))
<1>1. ListInOrder(book.top) /\ ListInOrder(book.bottom)
    BY DEF InOrder
<1>2. \A y \in BookEntries(book) : y.owner = x.owner => y = x
    BY <1>1, DistinctOwners DEF InOrder, BookEntries
<1>3. x \in Bond
    BY <1>1, TotalsTypes DEF BookEntries
<1>4. ~ (x \in Entries(book.top) /\ x \in Entries(book.bottom))
    BY DEF InOrder
<1> QED
    BY <1>2, <1>3, <1>4 DEF Others

\* The amount of a delegation is the amount of its owner.
LEMMA AmountOfEntry ==
    ASSUME NEW list, ListInOrder(list), NEW x \in Entries(list)
    PROVE  /\ x.owner \in Owners(list)
           /\ AmountOf(list, x.owner) = x.amount
           /\ x \in Bond
           /\ x = [owner |-> x.owner, amount |-> x.amount]
<1>1. x.owner \in Owners(list) /\ x \in Bond
    BY TotalsTypes
<1>2. AmountOf(list, x.owner) = x.amount
    BY <1>1, EntryOf
<1> QED
    BY <1>1, <1>2 DEF Bond

\* A delegation whose amount changes within its list.
LEMMA ResortedTakes ==
    ASSUME NEW list, ListInOrder(list), NEW x \in Entries(list),
           NEW amount \in Nat, NEW n \in Nat
    PROVE  LET changed == [ delegations |-> Resorted(list, x.owner, amount),
                            total |-> n ]
           IN  /\ ListInOrder(changed)
               /\ Entries(changed) = (Entries(list) \ {x})
                                     \union { [owner |-> x.owner, amount |-> amount] }
               /\ AmountSum(changed.delegations) \in Nat
               /\ AmountSum(changed.delegations) + x.amount
                    = AmountSum(list.delegations) + amount
<1> DEFINE changed == [delegations |-> Resorted(list, x.owner, amount), total |-> n]
<1>1. x.owner \in Owners(list) /\ AmountOf(list, x.owner) = x.amount
    BY AmountOfEntry
<1>2. /\ ListInOrder(changed)
      /\ Entries(changed) = Others(Entries(list), x.owner)
                            \union { [owner |-> x.owner, amount |-> amount] }
      /\ AmountSum(changed.delegations) + x.amount
           = AmountSum(list.delegations) + amount
    BY <1>1, ResortedInOrder
<1>3. Others(Entries(list), x.owner) = Entries(list) \ {x}
    BY DistinctOwners DEF Others
<1> HIDE DEF changed
<1>4. AmountSum(changed.delegations) \in Nat
    BY <1>2, TotalsTypes
<1> QED
    BY <1>2, <1>3, <1>4 DEF changed

\* What a removal promises.
TakesOut(outcome, book, x) ==
    /\ InOrder(outcome)
    /\ BookEntries(outcome) = BookEntries(book) \ {x}

\* What a change of x's amount to n promises.
Changes(outcome, book, x, n) ==
    /\ InOrder(outcome)
    /\ BookEntries(outcome) = (BookEntries(book) \ {x})
                              \union { [owner |-> x.owner, amount |-> n] }

\* rm_top_delegation: the highest bottom delegation moves up.
LEMMA RemoveFromTopInOrder ==
    ASSUME NEW book, WellKept(book), InOrder(book), NEW x \in Entries(book.top),
           NEW outcome, outcome = RemoveFromTop(book, x.owner)
    PROVE  TakesOut(outcome, book, x)
<1> DEFINE rest == Without(book.top, x.owner, x.amount)
           first == Head(book.bottom.delegations)
           below == WithoutFirst(book.bottom)
           filled == Insert(rest, first)
<1>1. /\ ListInOrder(book.top) /\ ListInOrder(book.bottom)
      /\ Exact(book.top) /\ Covers(book.bottom)
      /\ \A t \in Entries(book.top), b \in Entries(book.bottom) :
           t.amount >= b.amount /\ t.owner # b.owner
      /\ Entries(book.top) \subseteq Bond /\ Entries(book.bottom) \subseteq Bond
    BY TotalsTypes DEF InOrder
<1>2. AmountOf(book.top, x.owner) = x.amount
    BY <1>1, AmountOfEntry
<1>3. ListInOrder(rest) /\ Exact(rest) /\ Entries(rest) = Entries(book.top) \ {x}
    BY <1>1, WithoutTakes
<1>4. x \notin Entries(book.bottom)
    BY <1>1
<1>5. CASE book.info.bottom_capacity = "Empty"
    <2>1. outcome.top = rest /\ outcome.bottom = book.bottom
        BY <1>2, <1>5 DEF RemoveFromTop
    <2> HIDE DEF rest
    <2>2. InOrder(outcome)
        BY <1>1, <1>3, <2>1 DEF InOrder
    <2> QED
        BY <1>3, <1>4, <2>1, <2>2 DEF TakesOut, BookEntries
<1>6. CASE book.info.bottom_capacity # "Empty"
    <2>1. outcome.top = filled /\ outcome.bottom = below
        BY <1>2, <1>6 DEF RemoveFromTop
    <2>2. book.bottom.delegations # <<>>
        BY <1>6, FillParts
    <2>3. /\ ListInOrder(below) /\ Covers(below) /\ first \in Entries(book.bottom)
          /\ \A b \in Entries(book.bottom) : first.amount >= b.amount
          /\ Entries(below) = Entries(book.bottom) \ {first}
        BY <1>1, <2>2, WithoutFirstTakes
    <2> HIDE DEF rest, first, below
    <2>4. first \in Bond /\ \A t \in Entries(rest) : t.owner # first.owner
        BY <1>1, <1>3, <2>3
    <2>5. /\ ListInOrder(filled) /\ Exact(filled)
          /\ Entries(filled) = Entries(rest) \union {first}
        BY <1>3, <2>4, InsertPuts
    <2> HIDE DEF filled
    <2>6. \A b \in Entries(below) : b.owner # first.owner
        BY <1>1, <2>3, DistinctOwners
    <2>7. \A t \in Entries(filled), b \in Entries(below) :
            t.amount >= b.amount /\ t.owner # b.owner
        BY <1>1, <1>3, <2>3, <2>5, <2>6
    <2>8. InOrder(outcome)
        BY <2>1, <2>3, <2>5, <2>7 DEF InOrder
    <2>9. Entries(filled) \union Entries(below)
            = (Entries(book.top) \union Entries(book.bottom)) \ {x}
        BY <1>3, <1>4, <2>3, <2>5
    <2> QED
        BY <2>1, <2>8, <2>9 DEF TakesOut, BookEntries
<1> QED
    BY <1>5, <1>6

\* rm_bottom_delegation
LEMMA RemoveFromBottomInOrder ==
    ASSUME NEW book, WellKept(book), InOrder(book), NEW x \in Entries(book.bottom),
           NEW outcome, outcome = RemoveFromBottom(book, x.owner)
    PROVE  TakesOut(outcome, book, x)
<1> DEFINE rest == Without(book.bottom, x.owner, x.amount)
<1>1. /\ ListInOrder(book.top) /\ ListInOrder(book.bottom)
      /\ Exact(book.top) /\ Covers(book.bottom)
      /\ \A t \in Entries(book.top), b \in Entries(book.bottom) :
           t.amount >= b.amount /\ t.owner # b.owner
    BY DEF InOrder
<1>2. AmountOf(book.bottom, x.owner) = x.amount
    BY <1>1, AmountOfEntry
<1>3. ListInOrder(rest) /\ Covers(rest) /\ Entries(rest) = Entries(book.bottom) \ {x}
    BY <1>1, WithoutTakes
<1>4. x \notin Entries(book.top)
    BY <1>1
<1>5. outcome.top = book.top /\ outcome.bottom = rest
    BY <1>2 DEF RemoveFromBottom
<1> HIDE DEF rest
<1>6. InOrder(outcome)
    BY <1>1, <1>3, <1>5 DEF InOrder
<1> QED
    BY <1>3, <1>4, <1>5, <1>6 DEF TakesOut, BookEntries

\* increase_top_delegation
LEMMA IncreaseTopInOrder ==
    ASSUME NEW book, WellKept(book), InOrder(book), NEW x \in Entries(book.top),
           NEW more \in Nat, NEW n, n = x.amount + more,
           NEW outcome, outcome = IncreaseTop(book, x.owner, more)
    PROVE  Changes(outcome, book, x, n)
<1> DEFINE total == book.top.total + more
           top == [ delegations |-> Resorted(book.top, x.owner, n),
                    total |-> total ]
           new == [owner |-> x.owner, amount |-> n]
<1>1. /\ ListInOrder(book.top) /\ ListInOrder(book.bottom)
      /\ Exact(book.top) /\ Covers(book.bottom)
      /\ \A t \in Entries(book.top), b \in Entries(book.bottom) :
           t.amount >= b.amount /\ t.owner # b.owner
    BY DEF InOrder
<1>2. AmountOf(book.top, x.owner) = x.amount /\ x \in Bond
    BY <1>1, AmountOfEntry
<1>3. x.amount \in Nat /\ n \in Nat /\ n >= x.amount
    BY <1>2 DEF Bond
<1>4. /\ book.top.total \in Nat /\ AmountSum(book.top.delegations) \in Nat
      /\ total \in Nat
    BY <1>1, TotalsTypes
<1>5. outcome.top = top /\ outcome.bottom = book.bottom
    BY <1>2 DEF IncreaseTop
<1> HIDE DEF total
<1>6. /\ ListInOrder(top) /\ Entries(top) = (Entries(book.top) \ {x}) \union {new}
      /\ AmountSum(top.delegations) \in Nat
      /\ AmountSum(top.delegations) + x.amount
           = AmountSum(book.top.delegations) + n
    BY <1>1, <1>3, <1>4, ResortedTakes
<1>7. top.total = total
    OBVIOUS
<1> HIDE DEF top
<1>8. Exact(top)
    BY <1>1, <1>3, <1>4, <1>6, <1>7 DEF Exact, total
<1>9. \A t \in Entries(top), b \in Entries(book.bottom) :
        t.amount >= b.amount /\ t.owner # b.owner
    <2> SUFFICES ASSUME NEW t \in Entries(top), NEW b \in Entries(book.bottom)
                 PROVE  t.amount >= b.amount /\ t.owner # b.owner
        OBVIOUS
    <2>1. b.amount \in Nat
        BY <1>1, TotalsTypes
    <2>2. x.amount >= b.amount /\ x.owner # b.owner
        BY <1>1
    <2>3. CASE t = new
        BY <1>3, <2>1, <2>2, <2>3
    <2>4. CASE t # new
        BY <1>1, <1>6, <2>4
    <2> QED
        BY <2>3, <2>4
<1>10. InOrder(outcome)
    BY <1>1, <1>5, <1>6, <1>8, <1>9 DEF InOrder
<1>11. x \notin Entries(book.bottom)
    BY <1>1
<1> QED
    BY <1>5, <1>6, <1>10, <1>11 DEF Changes, BookEntries

\* increase_bottom_delegation: above the lowest top the delegation moves up.
LEMMA IncreaseBottomInOrder ==
    ASSUME NEW book, WellKept(book), InOrder(book), NEW x \in Entries(book.bottom),
           NEW more \in Nat, NEW n, n = x.amount + more,
           NEW outcome, outcome = IncreaseBottom(book, x.owner, x.amount, more)
    PROVE  Changes(outcome, book, x, n)
<1> DEFINE new == [owner |-> x.owner, amount |-> n]
           last == Last(book.top.delegations)
<1>1. /\ ListInOrder(book.top) /\ ListInOrder(book.bottom)
      /\ Exact(book.top) /\ Covers(book.bottom)
      /\ \A t \in Entries(book.top), b \in Entries(book.bottom) :
           t.amount >= b.amount /\ t.owner # b.owner
      /\ Entries(book.top) \subseteq Bond /\ Entries(book.bottom) \subseteq Bond
    BY TotalsTypes DEF InOrder
<1>2. AmountOf(book.bottom, x.owner) = x.amount /\ x \in Bond
    BY <1>1, AmountOfEntry
<1>3. x.amount \in Nat /\ n \in Nat /\ n >= x.amount /\ new \in Bond
    BY <1>2 DEF Bond
<1>4. /\ CapacityOf(book.top, MaxTopDelegationsPerCandidate) = "Full"
      /\ book.top.delegations # <<>>
    <2>1. book.bottom.delegations # <<>>
        BY <1>1, TotalsTypes
    <2> QED
        BY <2>1, FillParts
<1>5. /\ last \in Entries(book.top) /\ last \in Bond /\ last.amount \in Nat
      /\ \A t \in Entries(book.top) : t.amount >= last.amount
    BY <1>1, <1>4, WithoutLastTakes DEF Bond
<1>6. book.info.lowest_top = last.amount
    BY <1>4, InOrderParts DEF LowestAmount
<1>7. x \notin Entries(book.top)
    BY <1>1
<1>8. CASE x.amount + more > book.info.lowest_top
    <2> DEFINE rest == Without(book.bottom, x.owner, x.amount)
               bottom == Insert(rest, last)
               others == WithoutLast(book.top)
               top == Insert(others, new)
    <2>1. outcome.top = top /\ outcome.bottom = bottom
        BY <1>2, <1>4, <1>8 DEF IncreaseBottom
    <2>2. ListInOrder(rest) /\ Covers(rest) /\ Entries(rest) = Entries(book.bottom) \ {x}
        BY <1>1, WithoutTakes
    <2>3. /\ ListInOrder(others) /\ Exact(others)
          /\ Entries(others) = Entries(book.top) \ {last}
        BY <1>1, <1>4, WithoutLastTakes
    <2> HIDE DEF rest, others, last, new
    <2>4. /\ \A b \in Entries(rest) : b.owner # last.owner
          /\ \A t \in Entries(others) : t.owner # new.owner
        BY <1>1, <1>5, <2>2, <2>3 DEF new
    <2>5. /\ ListInOrder(bottom) /\ Covers(bottom)
          /\ Entries(bottom) = Entries(rest) \union {last}
        BY <1>5, <2>2, <2>4, InsertPuts
    <2>6. /\ ListInOrder(top) /\ Exact(top)
          /\ Entries(top) = Entries(others) \union {new}
        BY <1>3, <2>3, <2>4, InsertPuts
    <2> HIDE DEF top, bottom
    <2>7. new.amount > last.amount
        BY <1>6, <1>8 DEF new
    <2>8. \A t \in Entries(top) : t.amount >= last.amount /\ t.amount \in Nat
        BY <1>1, <1>3, <1>5, <2>3, <2>6, <2>7 DEF Bond
    <2>9. \A b \in Entries(bottom) : last.amount >= b.amount /\ b.amount \in Nat
        BY <1>1, <1>5, <2>2, <2>5 DEF Bond
    <2>10. \A t \in Entries(top), b \in Entries(bottom) :
             t.amount >= b.amount /\ t.owner # b.owner
        <3>1. \A t \in Entries(top), b \in Entries(bottom) : t.owner # b.owner
            <4>1. new.owner = x.owner
                BY DEF new
            <4>2. \A t \in Entries(others) : t.owner # last.owner
                BY <1>1, <1>5, <2>3, DistinctOwners
            <4>3. \A b \in Entries(rest) : b.owner # x.owner
                BY <1>1, <2>2, DistinctOwners
            <4> QED
                BY <1>1, <1>5, <2>2, <2>3, <2>5, <2>6, <4>1, <4>2, <4>3
        <3> QED
            BY <1>5, <2>8, <2>9, <3>1
    <2>11. InOrder(outcome)
        BY <2>1, <2>5, <2>6, <2>10 DEF InOrder
    <2>12. Entries(top) \union Entries(bottom)
             = ((Entries(book.top) \union Entries(book.bottom)) \ {x}) \union {new}
        BY <1>5, <1>7, <2>2, <2>3, <2>5, <2>6
    <2> QED
        BY <2>1, <2>11, <2>12 DEF Changes, BookEntries, new
<1>9. CASE ~ (x.amount + more > book.info.lowest_top)
    <2> DEFINE total == book.bottom.total + more
               bottom == [ delegations |-> Resorted(book.bottom, x.owner, n),
                           total |-> total ]
    <2>1. outcome.top = book.top /\ outcome.bottom = bottom
        BY <1>2, <1>9 DEF IncreaseBottom
    <2>2. /\ book.bottom.total \in Nat /\ AmountSum(book.bottom.delegations) \in Nat
          /\ total \in Nat
        BY <1>1, TotalsTypes
    <2> HIDE DEF total, last
    <2>3. /\ ListInOrder(bottom)
          /\ Entries(bottom) = (Entries(book.bottom) \ {x}) \union {new}
          /\ AmountSum(bottom.delegations) \in Nat
          /\ AmountSum(bottom.delegations) + x.amount
               = AmountSum(book.bottom.delegations) + n
        BY <1>1, <1>3, <2>2, ResortedTakes
    <2>4. bottom.total = total
        OBVIOUS
    <2> HIDE DEF bottom
    <2>5. Covers(bottom)
        BY <1>1, <1>3, <2>2, <2>3, <2>4 DEF Covers, total
    <2>6. \A t \in Entries(book.top), b \in Entries(bottom) :
            t.amount >= b.amount /\ t.owner # b.owner
        <3> SUFFICES ASSUME NEW t \in Entries(book.top), NEW b \in Entries(bottom)
                     PROVE  t.amount >= b.amount /\ t.owner # b.owner
            OBVIOUS
        <3>1. CASE b = new
            <4>1. t.amount \in Nat /\ t.amount >= last.amount /\ t.owner # x.owner
                BY <1>1, <1>5 DEF Bond
            <4> QED
                BY <1>3, <1>5, <1>6, <1>9, <3>1, <4>1
        <3>2. CASE b # new
            BY <1>1, <2>3, <3>2
        <3> QED
            BY <3>1, <3>2
    <2>7. InOrder(outcome)
        BY <1>1, <2>1, <2>3, <2>5, <2>6 DEF InOrder
    <2> QED
        BY <1>7, <2>1, <2>3, <2>7 DEF Changes, BookEntries
<1> QED
    BY <1>8, <1>9

\* decrease_top_delegation: below the highest bottom the two trade places.
LEMMA DecreaseTopInOrder ==
    ASSUME NEW book, WellKept(book), InOrder(book), NEW x \in Entries(book.top),
           NEW less \in 0 .. x.amount, NEW n, n = x.amount - less,
           NEW outcome, outcome = DecreaseTop(book, x.owner, x.amount, less)
    PROVE  Changes(outcome, book, x, n)
<1> DEFINE new == [owner |-> x.owner, amount |-> n]
           first == Head(book.bottom.delegations)
<1>1. /\ ListInOrder(book.top) /\ ListInOrder(book.bottom)
      /\ Exact(book.top) /\ Covers(book.bottom)
      /\ \A t \in Entries(book.top), b \in Entries(book.bottom) :
           t.amount >= b.amount /\ t.owner # b.owner
      /\ Entries(book.top) \subseteq Bond /\ Entries(book.bottom) \subseteq Bond
    BY TotalsTypes DEF InOrder
<1>2. AmountOf(book.top, x.owner) = x.amount /\ x \in Bond
    BY <1>1, AmountOfEntry
<1>3. /\ x.amount \in Nat /\ less \in Nat /\ n \in Nat /\ n <= x.amount
      /\ new \in Bond /\ SaturatingSub(x.amount, less) = n
    BY <1>2 DEF Bond, SaturatingSub
<1>4. x \notin Entries(book.bottom)
    BY <1>1
<1>5. book.bottom.delegations # <<>> =>
        /\ first \in Entries(book.bottom) /\ first \in Bond /\ first.amount \in Nat
        /\ \A b \in Entries(book.bottom) : first.amount >= b.amount
        /\ book.info.highest_bottom = first.amount
        /\ book.info.top_capacity = "Full"
        /\ book.info.bottom_capacity # "Empty"
    BY <1>1, WithoutFirstTakes, InOrderParts, FillParts DEF Bond, HighestAmount
<1>6. book.info.bottom_capacity # "Empty" => book.bottom.delegations # <<>>
    BY FillParts
<1>7. CASE /\ n < book.info.highest_bottom
           /\ book.info.top_capacity = "Full"
           /\ book.info.bottom_capacity # "Empty"
    <2> DEFINE rest == Without(book.top, x.owner, x.amount)
               top == Insert(rest, first)
               others == WithoutFirst(book.bottom)
               bottom == Insert(others, new)
    <2>1. outcome.top = top /\ outcome.bottom = bottom
        BY <1>2, <1>3, <1>7 DEF DecreaseTop
    <2>2. ListInOrder(rest) /\ Exact(rest) /\ Entries(rest) = Entries(book.top) \ {x}
        BY <1>1, WithoutTakes
    <2>3. /\ ListInOrder(others) /\ Covers(others)
          /\ Entries(others) = Entries(book.bottom) \ {first}
        BY <1>1, <1>6, <1>7, WithoutFirstTakes
    <2>4. /\ first \in Entries(book.bottom) /\ first \in Bond /\ first.amount \in Nat
          /\ \A b \in Entries(book.bottom) : first.amount >= b.amount
          /\ n < first.amount
        BY <1>5, <1>6, <1>7
    <2> HIDE DEF rest, others, first, new
    <2>5. /\ \A t \in Entries(rest) : t.owner # first.owner
          /\ \A b \in Entries(others) : b.owner # new.owner
        BY <1>1, <2>2, <2>3, <2>4 DEF new
    <2>6. /\ ListInOrder(top) /\ Exact(top)
          /\ Entries(top) = Entries(rest) \union {first}
        BY <2>2, <2>4, <2>5, InsertPuts
    <2>7. /\ ListInOrder(bottom) /\ Covers(bottom)
          /\ Entries(bottom) = Entries(others) \union {new}
        BY <1>3, <2>3, <2>5, InsertPuts
    <2> HIDE DEF top, bottom
    <2>8. \A t \in Entries(top) : t.amount >= first.amount /\ t.amount \in Nat
        BY <1>1, <2>2, <2>4, <2>6 DEF Bond
    <2>9. \A b \in Entries(bottom) : first.amount >= b.amount /\ b.amount \in Nat
        <3>1. new.amount = n
            BY DEF new
        <3> QED
            BY <1>1, <1>3, <2>3, <2>4, <2>7, <3>1 DEF Bond
    <2>10. \A t \in Entries(top), b \in Entries(bottom) :
             t.amount >= b.amount /\ t.owner # b.owner
        <3>1. \A t \in Entries(top), b \in Entries(bottom) : t.owner # b.owner
            <4>1. new.owner = x.owner
                BY DEF new
            <4>2. \A b \in Entries(others) : b.owner # first.owner
                BY <1>1, <2>3, <2>4, DistinctOwners
            <4>3. \A t \in Entries(rest) : t.owner # x.owner
                BY <1>1, <2>2, DistinctOwners
            <4> QED
                BY <1>1, <2>2, <2>3, <2>4, <2>6, <2>7, <4>1, <4>2, <4>3
        <3> QED
            BY <2>4, <2>8, <2>9, <3>1
    <2>11. InOrder(outcome)
        BY <2>1, <2>6, <2>7, <2>10 DEF InOrder
    <2>12. Entries(top) \union Entries(bottom)
             = ((Entries(book.top) \union Entries(book.bottom)) \ {x}) \union {new}
        BY <1>4, <2>2, <2>3, <2>4, <2>6, <2>7
    <2> QED
        BY <2>1, <2>11, <2>12 DEF Changes, BookEntries, new
<1>8. CASE ~ ( /\ n < book.info.highest_bottom
               /\ book.info.top_capacity = "Full"
               /\ book.info.bottom_capacity # "Empty" )
    <2> DEFINE total == SaturatingSub(book.top.total, less)
               top == [ delegations |-> Resorted(book.top, x.owner, n),
                        total |-> total ]
    <2>1. outcome.top = top /\ outcome.bottom = book.bottom
        BY <1>2, <1>3, <1>8 DEF DecreaseTop
    <2>2. /\ book.top.total \in Nat /\ AmountSum(book.top.delegations) \in Nat
          /\ total \in Nat
        BY <1>1, <1>3, TotalsTypes, SubBehaves
    <2> HIDE DEF total, first
    <2>3. /\ ListInOrder(top)
          /\ Entries(top) = (Entries(book.top) \ {x}) \union {new}
          /\ AmountSum(top.delegations) \in Nat
          /\ AmountSum(top.delegations) + x.amount
               = AmountSum(book.top.delegations) + n
        BY <1>1, <1>3, <2>2, ResortedTakes
    <2>4. top.total = total
        OBVIOUS
    <2> HIDE DEF top
    <2>5. Exact(top)
        <3>1. AmountSum(book.top.delegations) = AmountSum(top.delegations) + less
            BY <1>3, <2>2, <2>3
        <3>2. book.top.total = AmountSum(top.delegations) + less
            BY <1>1, <3>1 DEF Exact
        <3>3. total = AmountSum(top.delegations)
            BY <1>3, <2>2, <2>3, <3>2, SubCovers DEF total
        <3> QED
            BY <2>4, <3>3 DEF Exact
    <2>6. \A t \in Entries(top), b \in Entries(book.bottom) :
            t.amount >= b.amount /\ t.owner # b.owner
        <3> SUFFICES ASSUME NEW t \in Entries(top), NEW b \in Entries(book.bottom)
                     PROVE  t.amount >= b.amount /\ t.owner # b.owner
            OBVIOUS
        <3>1. CASE t = new
            <4>1. b.amount \in Nat /\ b.owner # x.owner
                BY <1>1 DEF Bond
            <4>2. book.bottom.delegations # <<>>
                BY <1>1, TotalsTypes
            <4>3. n >= first.amount /\ first.amount >= b.amount /\ first.amount \in Nat
                BY <1>3, <1>5, <1>8, <4>2
            <4> QED
                BY <1>3, <3>1, <4>1, <4>3
        <3>2. CASE t # new
            BY <1>1, <2>3, <3>2
        <3> QED
            BY <3>1, <3>2
    <2>7. InOrder(outcome)
        BY <1>1, <2>1, <2>3, <2>5, <2>6 DEF InOrder
    <2> QED
        BY <1>4, <2>1, <2>3, <2>7 DEF Changes, BookEntries
<1> QED
    BY <1>7, <1>8

\* decrease_bottom_delegation: the recorded total stays, so it covers the list.
LEMMA DecreaseBottomInOrder ==
    ASSUME NEW book, WellKept(book), InOrder(book), NEW x \in Entries(book.bottom),
           NEW less \in 0 .. x.amount, NEW n, n = x.amount - less,
           NEW outcome, outcome = DecreaseBottom(book, x.owner, less)
    PROVE  Changes(outcome, book, x, n)
<1> DEFINE new == [owner |-> x.owner, amount |-> n]
           bottom == [ delegations |-> Resorted(book.bottom, x.owner, n),
                       total |-> book.bottom.total ]
<1>1. /\ ListInOrder(book.top) /\ ListInOrder(book.bottom)
      /\ Exact(book.top) /\ Covers(book.bottom)
      /\ \A t \in Entries(book.top), b \in Entries(book.bottom) :
           t.amount >= b.amount /\ t.owner # b.owner
      /\ Entries(book.top) \subseteq Bond /\ Entries(book.bottom) \subseteq Bond
    BY TotalsTypes DEF InOrder
<1>2. AmountOf(book.bottom, x.owner) = x.amount /\ x \in Bond
    BY <1>1, AmountOfEntry
<1>3. /\ x.amount \in Nat /\ less \in Nat /\ n \in Nat /\ n <= x.amount
      /\ SaturatingSub(x.amount, less) = n
    BY <1>2 DEF Bond, SaturatingSub
<1>4. outcome.top = book.top /\ outcome.bottom = bottom
    <2>1. book.bottom \in [delegations : Seq(Bond), total : Nat]
        BY <1>1 DEF ListInOrder, Delegations
    <2> QED
        BY <1>2, <1>3, <2>1 DEF DecreaseBottom
<1>5. book.bottom.total \in Nat /\ AmountSum(book.bottom.delegations) \in Nat
    BY <1>1, TotalsTypes
<1>6. /\ ListInOrder(bottom)
      /\ Entries(bottom) = (Entries(book.bottom) \ {x}) \union {new}
      /\ AmountSum(bottom.delegations) \in Nat
      /\ AmountSum(bottom.delegations) + x.amount
           = AmountSum(book.bottom.delegations) + n
    BY <1>1, <1>3, <1>5, ResortedTakes
<1>7. bottom.total = book.bottom.total
    OBVIOUS
<1> HIDE DEF bottom
<1>8. Covers(bottom)
    BY <1>1, <1>3, <1>5, <1>6, <1>7 DEF Covers
<1>9. \A t \in Entries(book.top), b \in Entries(bottom) :
        t.amount >= b.amount /\ t.owner # b.owner
    <2> SUFFICES ASSUME NEW t \in Entries(book.top), NEW b \in Entries(bottom)
                 PROVE  t.amount >= b.amount /\ t.owner # b.owner
        OBVIOUS
    <2>1. CASE b = new
        <3>1. t.amount >= x.amount /\ t.owner # x.owner /\ t.amount \in Nat
            BY <1>1 DEF Bond
        <3> QED
            BY <1>3, <2>1, <3>1
    <2>2. CASE b # new
        BY <1>1, <1>6, <2>2
    <2> QED
        BY <2>1, <2>2
<1>10. InOrder(outcome)
    BY <1>1, <1>4, <1>6, <1>8, <1>9 DEF InOrder
<1>11. x \notin Entries(book.top)
    BY <1>1
<1> QED
    BY <1>4, <1>6, <1>10, <1>11 DEF Changes, BookEntries

\* The boundary amounts lead to the list the delegation is in, ties between the
\* lists included, whether or not the call knows that the top has room.
LEMMA LookupLeads ==
    ASSUME NEW book, WellKept(book), InOrder(book), NEW x \in BookEntries(book),
           NEW room \in BOOLEAN, room => book.info.top_capacity # "Full"
    PROVE  Lookup(book, x.owner, x.amount, room)
             = IF x.owner \in Owners(book.top) THEN "top" ELSE "bottom"
<1>1. /\ ListInOrder(book.top) /\ ListInOrder(book.bottom)
      /\ \A t \in Entries(book.top), b \in Entries(book.bottom) :
           t.amount >= b.amount /\ t.owner # b.owner
      /\ Entries(book.top) \subseteq Bond /\ Entries(book.bottom) \subseteq Bond
    BY TotalsTypes DEF InOrder
<1>2. CASE x \in Entries(book.top)
    <2>1. x.owner \in Owners(book.top) /\ book.top.delegations # <<>>
        BY <1>1, <1>2, TotalsTypes
    <2>2. x.amount >= book.info.lowest_top
        BY <1>1, <1>2, <2>1, WithoutLastTakes, InOrderParts DEF LowestAmount
    <2> QED
        BY <2>1, <2>2 DEF Lookup
<1>3. CASE x \in Entries(book.bottom)
    <2>1. x.owner \in Owners(book.bottom) /\ book.bottom.delegations # <<>>
        BY <1>1, <1>3, TotalsTypes
    <2>2. x.owner \notin Owners(book.top)
        BY <1>1, <1>3, TotalsTypes
    <2>3. ~room /\ book.top.delegations # <<>>
        BY <2>1, FillParts
    <2>4. /\ book.info.lowest_top = Last(book.top.delegations).amount
          /\ book.info.highest_bottom = Head(book.bottom.delegations).amount
        BY <2>1, <2>3, InOrderParts DEF LowestAmount, HighestAmount
    <2>5. /\ Last(book.top.delegations) \in Entries(book.top)
          /\ Head(book.bottom.delegations) \in Entries(book.bottom)
          /\ Head(book.bottom.delegations).amount >= x.amount
        BY <1>1, <1>3, <2>1, <2>3, WithoutLastTakes, WithoutFirstTakes
    <2>6. /\ book.info.lowest_top >= book.info.highest_bottom
          /\ book.info.highest_bottom >= x.amount
          /\ book.info.lowest_top \in Nat /\ book.info.highest_bottom \in Nat
          /\ x.amount \in Nat
        BY <1>1, <1>3, <2>4, <2>5 DEF Bond
    <2>7. x.amount >= book.info.lowest_top
            => book.info.lowest_top = book.info.highest_bottom
        BY <2>6
    <2> QED
        BY <2>1, <2>2, <2>3, <2>7 DEF Lookup
<1> QED
    BY <1>2, <1>3 DEF BookEntries

\* The list in which a delegation stands.
StandsIn(book, x, list) ==
    \/ list = "top" /\ x \in Entries(book.top)
    \/ list = "bottom" /\ x \in Entries(book.bottom)

\* Whatever amount the caller names, a list that is found is the right one.
LEMMA FoundStandsIn ==
    ASSUME NEW book, WellKept(book), InOrder(book), NEW x \in BookEntries(book),
           NEW amount, NEW room, NEW list,
           list = Lookup(book, x.owner, amount, room), list # "missing"
    PROVE  StandsIn(book, x, list)
<1>1. ListInOrder(book.top) /\ ListInOrder(book.bottom)
    BY DEF InOrder
<1>2. \/ list = "top" /\ x.owner \in Owners(book.top)
      \/ list = "bottom" /\ x.owner \in Owners(book.bottom)
    BY DEF Lookup
<1>3. CASE list = "top" /\ x.owner \in Owners(book.top)
    <2>1. PICK y \in Entries(book.top) : y.owner = x.owner
        BY <1>1, <1>3, TotalsTypes
    <2>2. y = x
        BY <2>1, OneEntryEach DEF BookEntries
    <2> QED
        BY <1>3, <2>1, <2>2 DEF StandsIn
<1>4. CASE list = "bottom" /\ x.owner \in Owners(book.bottom)
    <2>1. PICK y \in Entries(book.bottom) : y.owner = x.owner
        BY <1>1, <1>4, TotalsTypes
    <2>2. y = x
        BY <2>1, OneEntryEach DEF BookEntries
    <2> QED
        BY <1>4, <2>1, <2>2 DEF StandsIn
<1> QED
    BY <1>2, <1>3, <1>4

\* rm_delegation_if_exists
LEMMA RemoveDelegationInOrder ==
    ASSUME NEW book, WellKept(book), InOrder(book), NEW x, NEW list,
           StandsIn(book, x, list),
           NEW outcome, outcome = RemoveDelegation(book, x.owner, list)
    PROVE  TakesOut(outcome, book, x)
<1>1. CASE list = "top" /\ x \in Entries(book.top)
    BY <1>1, RemoveFromTopInOrder DEF RemoveDelegation
<1>2. CASE list = "bottom" /\ x \in Entries(book.bottom)
    BY <1>2, RemoveFromBottomInOrder DEF RemoveDelegation
<1> QED
    BY <1>1, <1>2 DEF StandsIn

\* increase_delegation
LEMMA IncreaseDelegationInOrder ==
    ASSUME NEW book, WellKept(book), InOrder(book), NEW x, NEW list,
           StandsIn(book, x, list), NEW more \in Nat, NEW n, n = x.amount + more,
           NEW outcome,
           outcome = IncreaseDelegation(book, x.owner, x.amount, more, list)
    PROVE  Changes(outcome, book, x, n)
<1>1. CASE list = "top" /\ x \in Entries(book.top)
    BY <1>1, IncreaseTopInOrder DEF IncreaseDelegation
<1>2. CASE list = "bottom" /\ x \in Entries(book.bottom)
    BY <1>2, IncreaseBottomInOrder DEF IncreaseDelegation
<1> QED
    BY <1>1, <1>2 DEF StandsIn

\* decrease_delegation
LEMMA DecreaseDelegationInOrder ==
    ASSUME NEW book, WellKept(book), InOrder(book), NEW x, NEW list,
           StandsIn(book, x, list), NEW less \in 0 .. x.amount,
           NEW n, n = x.amount - less,
           NEW outcome,
           outcome = DecreaseDelegation(book, x.owner, x.amount, less, list)
    PROVE  Changes(outcome, book, x, n)
<1>1. CASE list = "top" /\ x \in Entries(book.top)
    BY <1>1, DecreaseTopInOrder DEF DecreaseDelegation
<1>2. CASE list = "bottom" /\ x \in Entries(book.bottom)
    BY <1>2, DecreaseBottomInOrder DEF DecreaseDelegation
<1> QED
    BY <1>1, <1>2 DEF StandsIn

-----------------------------------------------------------------------------
(* The recorded total of the bottom list.  It is exact as long as nothing  *)
(* is taken off a delegation of the bottom list.                           *)

\* add_bottom_delegation
LEMMA AddToBottomExact ==
    ASSUME NEW book, WellKept(book), ListInOrder(book.bottom), Exact(book.bottom),
           NEW bond \in Bond,
           \A x \in Entries(book.bottom) : x.owner # bond.owner,
           NEW bumped_from_top
    PROVE  Exact(AddToBottom(book, bumped_from_top, bond).bottom)
<1> DEFINE full == Len(book.bottom.delegations) = MaxBottomDelegationsPerCandidate
           before == IF full THEN WithoutLast(book.bottom) ELSE book.bottom
<1>1. AddToBottom(book, bumped_from_top, bond).bottom = Insert(before, bond)
    BY DEF AddToBottom
<1>2. full => book.bottom.delegations # <<>>
    BY WellKeptCapacities
<1>3. /\ ListInOrder(before) /\ Exact(before)
      /\ Entries(before) \subseteq Entries(book.bottom)
    <2>1. CASE full
        BY <1>2, <2>1, WithoutLastTakes
    <2>2. CASE ~full
        BY <2>2
    <2> QED
        BY <2>1, <2>2
<1> HIDE DEF before
<1>4. \A x \in Entries(before) : x.owner # bond.owner
    BY <1>3
<1>5. Exact(Insert(before, bond))
    BY <1>3, <1>4, InsertPuts
<1> QED
    BY <1>1, <1>5

\* add_delegation: the lowest of a full top list goes down, or the new one.
LEMMA AddDelegationExact ==
    ASSUME NEW book, WellKept(book), InOrder(book), Exact(book.bottom),
           NEW bond \in Bond, \A x \in BookEntries(book) : x.owner # bond.owner
    PROVE  Exact(AddDelegation(book, bond).bottom)
<1> DEFINE full == Len(book.top.delegations) = MaxTopDelegationsPerCandidate
           last == Last(book.top.delegations)
<1>1. /\ ListInOrder(book.top) /\ ListInOrder(book.bottom)
      /\ \A t \in Entries(book.top), b \in Entries(book.bottom) : t.owner # b.owner
      /\ Entries(book.top) \subseteq Bond
    BY TotalsTypes DEF InOrder
<1>2. Exact(AddToTop(book, bond).bottom)
    <2>1. CASE full
        <3>1. last \in Entries(book.top)
            BY <1>1, <2>1, FillParts, WithoutLastTakes
        <3>2. last \in Bond /\ \A b \in Entries(book.bottom) : b.owner # last.owner
            BY <1>1, <3>1
        <3>3. AddToTop(book, bond).bottom = AddToBottom(book, TRUE, last).bottom
            BY <2>1 DEF AddToTop
        <3> HIDE DEF last
        <3>4. Exact(AddToBottom(book, TRUE, last).bottom)
            BY <1>1, <3>2, AddToBottomExact
        <3> QED
            BY <3>3, <3>4
    <2>2. CASE ~full
        <3>1. AddToTop(book, bond).bottom = book.bottom
            BY <2>2 DEF AddToTop
        <3> QED
            BY <3>1
    <2> QED
        BY <2>1, <2>2
<1>3. Exact(AddToBottom(book, FALSE, bond).bottom)
    <2>1. \A x \in Entries(book.bottom) : x.owner # bond.owner
        BY DEF BookEntries
    <2> QED
        BY <1>1, <2>1, AddToBottomExact
<1>4. \/ AddDelegation(book, bond).bottom = AddToTop(book, bond).bottom
      \/ AddDelegation(book, bond).bottom = AddToBottom(book, FALSE, bond).bottom
    BY DEF AddDelegation
<1> QED
    BY <1>2, <1>3, <1>4

\* rm_delegation_if_exists: the first of the bottom list goes up, or the
\* delegation is taken out of it.
LEMMA RemoveDelegationExact ==
    ASSUME NEW book, WellKept(book), InOrder(book), Exact(book.bottom),
           NEW x, NEW list, StandsIn(book, x, list)
    PROVE  Exact(RemoveDelegation(book, x.owner, list).bottom)
<1>1. ListInOrder(book.bottom)
    BY DEF InOrder
<1>2. CASE list = "top"
    <2>1. RemoveDelegation(book, x.owner, list) = RemoveFromTop(book, x.owner)
        BY <1>2 DEF RemoveDelegation
    <2>2. CASE book.info.bottom_capacity # "Empty"
        <3>1. RemoveFromTop(book, x.owner).bottom = WithoutFirst(book.bottom)
            BY <2>2 DEF RemoveFromTop
        <3>2. Exact(WithoutFirst(book.bottom))
            BY <1>1, <2>2, FillParts, WithoutFirstTakes
        <3> QED
            BY <2>1, <3>1, <3>2
    <2>3. CASE book.info.bottom_capacity = "Empty"
        <3>1. RemoveFromTop(book, x.owner).bottom = book.bottom
            BY <2>3 DEF RemoveFromTop
        <3> QED
            BY <2>1, <3>1
    <2> QED
        BY <2>2, <2>3
<1>3. CASE list = "bottom" /\ x \in Entries(book.bottom)
    <2>1. AmountOf(book.bottom, x.owner) = x.amount
        BY <1>1, <1>3, AmountOfEntry
    <2>2. RemoveDelegation(book, x.owner, list).bottom
            = Without(book.bottom, x.owner, x.amount)
        BY <1>3, <2>1 DEF RemoveDelegation, RemoveFromBottom
    <2> QED
        BY <1>1, <1>3, <2>2, WithoutTakes
<1> QED
    BY <1>2, <1>3 DEF StandsIn

\* A delegation of the bottom list that grows in its place.
LEMMA ResortedExact ==
    ASSUME NEW list, ListInOrder(list), Exact(list), NEW x \in Entries(list),
           NEW more \in Nat, NEW n \in Nat, n = x.amount + more,
           NEW m \in Nat, m = list.total + more
    PROVE  Exact([delegations |-> Resorted(list, x.owner, n), total |-> m])
<1> DEFINE changed == [delegations |-> Resorted(list, x.owner, n), total |-> m]
<1>1. /\ ListInOrder(changed)
      /\ AmountSum(changed.delegations) \in Nat
      /\ AmountSum(changed.delegations) + x.amount = AmountSum(list.delegations) + n
    BY ResortedTakes
<1>2. /\ AmountSum(list.delegations) \in Nat /\ x.amount \in Nat
      /\ list.total = AmountSum(list.delegations)
    BY TotalsTypes DEF Exact
<1>3. changed.total = m
    OBVIOUS
<1> HIDE DEF changed
<1>4. changed.total = AmountSum(changed.delegations)
    BY <1>1, <1>2, <1>3
<1>5. Exact(changed)
    BY <1>4 DEF Exact
<1> QED
    BY <1>5 DEF changed

\* increase_delegation
LEMMA IncreaseDelegationExact ==
    ASSUME NEW book, WellKept(book), InOrder(book), Exact(book.bottom),
           NEW x, NEW list, StandsIn(book, x, list), NEW more \in Nat
    PROVE  Exact(IncreaseDelegation(book, x.owner, x.amount, more, list).bottom)
<1>1. /\ ListInOrder(book.top) /\ ListInOrder(book.bottom)
      /\ \A t \in Entries(book.top), b \in Entries(book.bottom) : t.owner # b.owner
      /\ Entries(book.top) \subseteq Bond /\ Entries(book.bottom) \subseteq Bond
    BY TotalsTypes DEF InOrder
<1>2. CASE list = "top"
    <2>1. IncreaseDelegation(book, x.owner, x.amount, more, list).bottom = book.bottom
        BY <1>2 DEF IncreaseDelegation, IncreaseTop
    <2> QED
        BY <2>1
<1>3. CASE list = "bottom" /\ x \in Entries(book.bottom)
    <2>1. AmountOf(book.bottom, x.owner) = x.amount /\ x \in Bond
        BY <1>1, <1>3, AmountOfEntry
    <2>2. PICK n \in Nat : n = x.amount + more /\ x.amount \in Nat
        BY <2>1 DEF Bond
    <2>3. IncreaseDelegation(book, x.owner, x.amount, more, list)
            = IncreaseBottom(book, x.owner, x.amount, more)
        BY <1>3 DEF IncreaseDelegation
    <2>4. CASE n > book.info.lowest_top
        <3> DEFINE full == CapacityOf(book.top, MaxTopDelegationsPerCandidate) = "Full"
                   last == Last(book.top.delegations)
                   rest == Without(book.bottom, x.owner, x.amount)
        <3>1. IncreaseBottom(book, x.owner, x.amount, more).bottom
                = IF full THEN Insert(rest, last) ELSE rest
            BY <2>2, <2>4 DEF IncreaseBottom
        <3>2. ListInOrder(rest) /\ Exact(rest) /\ Entries(rest) \subseteq Entries(book.bottom)
            BY <1>1, <1>3, WithoutTakes
        <3>3. full => last \in Entries(book.top)
            BY <1>1, FillParts, WithoutLastTakes
        <3> HIDE DEF rest, last
        <3>4. full => last \in Bond /\ \A b \in Entries(rest) : b.owner # last.owner
            BY <1>1, <3>2, <3>3
        <3>5. full => Exact(Insert(rest, last))
            BY <3>2, <3>4, InsertPuts
        <3> QED
            BY <2>3, <3>1, <3>2, <3>5
    <2>5. CASE ~(n > book.info.lowest_top)
        <3>1. PICK m \in Nat : m = book.bottom.total + more
            BY <1>1, TotalsTypes
        <3>2. IncreaseBottom(book, x.owner, x.amount, more).bottom
                = [delegations |-> Resorted(book.bottom, x.owner, n), total |-> m]
            BY <2>1, <2>2, <2>5, <3>1 DEF IncreaseBottom
        <3>3. Exact([delegations |-> Resorted(book.bottom, x.owner, n), total |-> m])
            BY <1>1, <1>3, <2>2, <3>1, ResortedExact
        <3> QED
            BY <2>3, <3>2, <3>3
    <2> QED
        BY <2>4, <2>5
<1> QED
    BY <1>2, <1>3 DEF StandsIn

\* decrease_delegation, unless it takes something off a delegation that stays
\* in the bottom list.
LEMMA DecreaseDelegationExact ==
    ASSUME NEW book, WellKept(book), InOrder(book), Exact(book.bottom),
           NEW x, NEW list, StandsIn(book, x, list), NEW less \in 0 .. x.amount,
           list = "bottom" => less = 0
    PROVE  Exact(DecreaseDelegation(book, x.owner, x.amount, less, list).bottom)
<1>1. /\ ListInOrder(book.top) /\ ListInOrder(book.bottom)
      /\ \A t \in Entries(book.top), b \in Entries(book.bottom) : t.owner # b.owner
      /\ Entries(book.top) \subseteq Bond /\ Entries(book.bottom) \subseteq Bond
    BY TotalsTypes DEF InOrder
<1>2. CASE list = "top" /\ x \in Entries(book.top)
    <2>1. AmountOf(book.top, x.owner) = x.amount /\ x \in Bond
        BY <1>1, <1>2, AmountOfEntry
    <2>2. PICK n \in Nat : n = SaturatingSub(x.amount, less) /\ x.owner \in Accounts
        BY <2>1 DEF Bond, SaturatingSub
    <2>3. DecreaseDelegation(book, x.owner, x.amount, less, list)
            = DecreaseTop(book, x.owner, x.amount, less)
        BY <1>2 DEF DecreaseDelegation
    <2>4. CASE /\ n < book.info.highest_bottom
               /\ book.info.top_capacity = "Full"
               /\ book.info.bottom_capacity # "Empty"
        <3> DEFINE others == WithoutFirst(book.bottom)
                   new == [owner |-> x.owner, amount |-> n]
        <3>1. DecreaseTop(book, x.owner, x.amount, less).bottom = Insert(others, new)
            BY <2>1, <2>2, <2>4 DEF DecreaseTop
        <3>2. /\ ListInOrder(others) /\ Exact(others)
              /\ Entries(others) \subseteq Entries(book.bottom)
            BY <1>1, <2>4, FillParts, WithoutFirstTakes
        <3>3. new \in Bond /\ new.owner = x.owner
            BY <2>2 DEF Bond
        <3> HIDE DEF others, new
        <3>4. \A b \in Entries(others) : b.owner # new.owner
            BY <1>1, <1>2, <3>2, <3>3
        <3>5. Exact(Insert(others, new))
            BY <3>2, <3>3, <3>4, InsertPuts
        <3> QED
            BY <2>3, <3>1, <3>5
    <2>5. CASE ~ ( /\ n < book.info.highest_bottom
                   /\ book.info.top_capacity = "Full"
                   /\ book.info.bottom_capacity # "Empty" )
        <3>1. DecreaseTop(book, x.owner, x.amount, less).bottom = book.bottom
            BY <2>2, <2>5 DEF DecreaseTop
        <3> QED
            BY <2>3, <3>1
    <2> QED
        BY <2>4, <2>5
<1>3. CASE list = "bottom" /\ x \in Entries(book.bottom)
    <2>1. AmountOf(book.bottom, x.owner) = x.amount /\ x \in Bond
        BY <1>1, <1>3, AmountOfEntry
    <2>2. PICK n \in Nat : n = x.amount
        BY <2>1 DEF Bond
    <2>3. PICK m \in Nat : m = book.bottom.total
        BY <1>1, TotalsTypes
    <2>4. SaturatingSub(n, 0) = n
        BY DEF SaturatingSub
    <2>5. book.bottom \in [delegations : Seq(Bond), total : Nat]
        BY <1>1 DEF ListInOrder, Delegations
    <2>6. DecreaseDelegation(book, x.owner, x.amount, less, list).bottom
            = [delegations |-> Resorted(book.bottom, x.owner, n), total |-> m]
        BY <1>3, <2>1, <2>2, <2>3, <2>4, <2>5 DEF DecreaseDelegation, DecreaseBottom
    <2>7. n = x.amount + 0 /\ m = book.bottom.total + 0
        BY <2>2, <2>3
    <2>8. Exact([delegations |-> Resorted(book.bottom, x.owner, n), total |-> m])
        BY <1>1, <1>3, <2>7, ResortedExact
    <2> QED
        BY <2>6, <2>8
<1> QED
    BY <1>2, <1>3 DEF StandsIn

==============================================================================
