------------------------- MODULE DelegationBookProofs -------------------------
(***************************************************************************)
(* Proofs about the methods of DelegationBook: each takes a well-kept book *)
(* (typed, Mirrors, FillsFromTheTop) to a well-kept book, and changes      *)
(* neither the candidate's own bond, nor its request, nor its status.      *)
(***************************************************************************)
EXTENDS DelegationBook, SequenceTheorems, FiniteSetTheorems, TLAPS

-----------------------------------------------------------------------------
(* Numbers and sequences.                                                  *)

\* A saturating subtraction from a natural number is a natural number,
\* whatever is subtracted.
LEMMA SaturatingSubType ==
    ASSUME NEW a \in Nat, NEW b
    PROVE  SaturatingSub(a, b) \in 0..a
BY DEF SaturatingSub

\* InsertAt makes a sequence longer by one.
LEMMA InsertAtType ==
    ASSUME NEW S, NEW s \in Seq(S), NEW i \in 1 .. Len(s) + 1, NEW e \in S
    PROVE  /\ InsertAt(s, i, e) \in Seq(S)
           /\ Len(InsertAt(s, i, e)) = Len(s) + 1
<1>1. /\ SubSeq(s, 1, i - 1) \in Seq(S)
      /\ Len(SubSeq(s, 1, i - 1)) = i - 1
    BY SubSeqProperties, ElementOfSeq, LenProperties
<1>2. /\ SubSeq(s, i, Len(s)) \in Seq(S)
      /\ Len(SubSeq(s, i, Len(s))) = Len(s) - i + 1
    BY SubSeqProperties, ElementOfSeq, LenProperties
<1>3. <<e>> \in Seq(S) /\ Len(<<e>>) = 1
    OBVIOUS
<1>4. /\ SubSeq(s, 1, i - 1) \o <<e>> \in Seq(S)
      /\ Len(SubSeq(s, 1, i - 1) \o <<e>>) = i
    BY <1>1, <1>3, ConcatProperties
<1>5. /\ InsertAt(s, i, e) \in Seq(S)
      /\ Len(InsertAt(s, i, e)) = i + (Len(s) - i + 1)
    <2> DEFINE front == SubSeq(s, 1, i - 1) \o <<e>>
               back == SubSeq(s, i, Len(s))
    <2>1. front \o back \in Seq(S) /\ Len(front \o back) = Len(front) + Len(back)
        <3> HIDE DEF front, back
        <3>1. front \in Seq(S) /\ back \in Seq(S)
            BY <1>2, <1>4 DEF front, back
        <3> QED
            BY <3>1, ConcatProperties
    <2> QED
        BY <2>1, <1>2, <1>4 DEF InsertAt
<1> QED
    BY <1>5, LenProperties

\* RemoveAt makes a sequence shorter by one.
LEMMA RemoveAtType ==
    ASSUME NEW S, NEW s \in Seq(S), NEW i \in DOMAIN s
    PROVE  /\ RemoveAt(s, i) \in Seq(S)
           /\ Len(RemoveAt(s, i)) = Len(s) - 1
<1>1. i \in 1 .. Len(s) /\ Len(s) \in Nat
    BY LenProperties
<1>2. /\ SubSeq(s, 1, i - 1) \in Seq(S)
      /\ Len(SubSeq(s, 1, i - 1)) = i - 1
    BY <1>1, SubSeqProperties, ElementOfSeq
<1>3. /\ SubSeq(s, i + 1, Len(s)) \in Seq(S)
      /\ Len(SubSeq(s, i + 1, Len(s))) = Len(s) - i
    BY <1>1, SubSeqProperties, ElementOfSeq
<1>4. /\ RemoveAt(s, i) \in Seq(S)
      /\ Len(RemoveAt(s, i)) = (i - 1) + (Len(s) - i)
    <2> DEFINE front == SubSeq(s, 1, i - 1)
               back == SubSeq(s, i + 1, Len(s))
    <2>1. front \o back \in Seq(S) /\ Len(front \o back) = Len(front) + Len(back)
        <3> HIDE DEF front, back
        <3>1. front \in Seq(S) /\ back \in Seq(S)
            BY <1>2, <1>3 DEF front, back
        <3> QED
            BY <3>1, ConcatProperties
    <2> QED
        BY <2>1, <1>2, <1>3 DEF RemoveAt
<1> QED
    BY <1>1, <1>4

\* The positions of a sequence of length n are n.
LEMMA PositionsCounted ==
    ASSUME NEW n \in Nat
    PROVE  IsFiniteSet(1 .. n) /\ Cardinality(1 .. n) = n
<1>1. /\ IsFiniteSet(1 .. n)
      /\ Cardinality(1 .. n) = IF 1 > n THEN 0 ELSE n - 1 + 1
    BY 1 \in Int, n \in Int, FS_Interval, ZenonT(20)
<1> QED
    BY <1>1

\* Any subset of the positions of a sequence has at most Len(s) members, so
\* the place right behind them is a place at which InsertAt can insert.
LEMMA PlaceBehind ==
    ASSUME NEW S, NEW s \in Seq(S), NEW ahead \in SUBSET DOMAIN s
    PROVE  Cardinality(ahead) + 1 \in 1 .. Len(s) + 1
<1>1. DOMAIN s = 1 .. Len(s) /\ Len(s) \in Nat
    BY LenProperties
<1>2. IsFiniteSet(1 .. Len(s)) /\ Cardinality(1 .. Len(s)) = Len(s)
    BY <1>1, PositionsCounted
<1>3. IsFiniteSet(ahead) /\ Cardinality(ahead) <= Len(s)
    BY <1>1, <1>2, FS_Subset
<1> QED
    BY <1>1, <1>3, FS_CardinalityType

\* The same when one position is taken out first.
LEMMA PlaceBehindOthers ==
    ASSUME NEW S, NEW s \in Seq(S), NEW p \in DOMAIN s,
           NEW ahead \in SUBSET (DOMAIN s \ {p})
    PROVE  Cardinality(ahead) + 1 \in 1 .. Len(s)
<1>1. DOMAIN s = 1 .. Len(s) /\ Len(s) \in Nat
    BY LenProperties
<1>2. IsFiniteSet(DOMAIN s) /\ Cardinality(DOMAIN s) = Len(s)
    BY <1>1, PositionsCounted
<1>3. IsFiniteSet(DOMAIN s \ {p}) /\ Cardinality(DOMAIN s \ {p}) = Len(s) - 1
    BY <1>2, FS_RemoveElement
<1>4. IsFiniteSet(ahead) /\ Cardinality(ahead) <= Len(s) - 1
    BY <1>3, FS_Subset
<1> QED
    BY <1>1, <1>4, FS_CardinalityType

-----------------------------------------------------------------------------
(* One list.                                                               *)

\* A list as the lemmas below see it.
LEMMA ListParts ==
    ASSUME NEW list \in Delegations
    PROVE  /\ list.delegations \in Seq(Bond)
           /\ list.total \in Nat
           /\ Len(list.delegations) \in Nat
           /\ DOMAIN list.delegations = 1 .. Len(list.delegations)
           /\ list.delegations # <<>> <=> Len(list.delegations) > 0
           /\ \A i \in DOMAIN list.delegations :
                 /\ list.delegations[i] \in Bond
                 /\ list.delegations[i].owner \in Accounts
                 /\ list.delegations[i].amount \in Nat
<1>1. list.delegations \in Seq(Bond) /\ list.total \in Nat
    BY DEF Delegations
<1>2. /\ Len(list.delegations) \in Nat
      /\ DOMAIN list.delegations = 1 .. Len(list.delegations)
    BY <1>1, LenProperties
<1>3. list.delegations # <<>> <=> Len(list.delegations) > 0
    BY <1>1, <1>2, EmptySeq
<1>4. \A i \in DOMAIN list.delegations : list.delegations[i] \in Bond
    BY <1>1, <1>2, ElementOfSeq
<1> QED
    BY <1>1, <1>2, <1>3, <1>4 DEF Bond

\* The ends of a list that is not empty.
LEMMA EndsType ==
    ASSUME NEW list \in Delegations, list.delegations # <<>>
    PROVE  /\ Last(list.delegations) \in Bond
           /\ Head(list.delegations) \in Bond
BY ListParts, HeadTailProperties DEF Last

LEMMA AmountsType ==
    ASSUME NEW list \in Delegations
    PROVE  LowestAmount(list) \in Nat /\ HighestAmount(list) \in Nat
BY EndsType DEF LowestAmount, HighestAmount, Bond

\* Insert adds one delegation and its amount.
LEMMA InsertType ==
    ASSUME NEW list \in Delegations, NEW bond \in Bond
    PROVE  /\ Insert(list, bond) \in Delegations
           /\ Len(Insert(list, bond).delegations) = Len(list.delegations) + 1
           /\ Insert(list, bond).total = list.total + bond.amount
<1> DEFINE s == list.delegations
           ahead == { i \in DOMAIN s : s[i].amount >= bond.amount }
<1>1. s \in Seq(Bond) /\ list.total \in Nat /\ bond.amount \in Nat
    BY ListParts DEF Bond
<1>2. Cardinality(ahead) + 1 \in 1 .. Len(s) + 1
    BY <1>1, PlaceBehind
<1>3. /\ InsertAt(s, Cardinality(ahead) + 1, bond) \in Seq(Bond)
      /\ Len(InsertAt(s, Cardinality(ahead) + 1, bond)) = Len(s) + 1
    <2> HIDE DEF s, ahead
    <2> QED
        BY <1>1, <1>2, InsertAtType
<1> QED
    BY <1>1, <1>3 DEF Insert, Delegations

\* The position of an owner, and the amount there.
LEMMA PositionType ==
    ASSUME NEW list \in Delegations, NEW d \in Owners(list)
    PROVE  /\ PositionOf(list, d) \in DOMAIN list.delegations
           /\ list.delegations[PositionOf(list, d)].owner = d
           /\ AmountOf(list, d) \in Nat
           /\ d \in Accounts
           /\ list.delegations # <<>>
<1>1. \E i \in DOMAIN list.delegations : list.delegations[i].owner = d
    BY DEF Owners
<1>2. /\ PositionOf(list, d) \in DOMAIN list.delegations
      /\ list.delegations[PositionOf(list, d)].owner = d
    BY <1>1 DEF PositionOf
<1> QED
    BY <1>2, ListParts DEF AmountOf

\* Removals make a list shorter by one.
LEMMA WithoutType ==
    ASSUME NEW list \in Delegations, NEW d \in Owners(list), NEW amount
    PROVE  /\ Without(list, d, amount) \in Delegations
           /\ Len(Without(list, d, amount).delegations)
                = Len(list.delegations) - 1
<1>1. /\ RemoveAt(list.delegations, PositionOf(list, d)) \in Seq(Bond)
      /\ Len(RemoveAt(list.delegations, PositionOf(list, d)))
           = Len(list.delegations) - 1
    BY PositionType, ListParts, RemoveAtType
<1>2. SaturatingSub(list.total, amount) \in Nat
    BY ListParts, SaturatingSubType
<1> QED
    BY <1>1, <1>2 DEF Without, Delegations

LEMMA WithoutLastType ==
    ASSUME NEW list \in Delegations, list.delegations # <<>>
    PROVE  /\ WithoutLast(list) \in Delegations
           /\ Len(WithoutLast(list).delegations) = Len(list.delegations) - 1
<1> DEFINE s == list.delegations
<1>1. s \in Seq(Bond) /\ Len(s) \in Nat \ {0}
    BY ListParts
<1>2. /\ SubSeq(s, 1, Len(s) - 1) \in Seq(Bond)
      /\ Len(SubSeq(s, 1, Len(s) - 1)) = Len(s) - 1
    <2> DEFINE n == Len(s) - 1
    <2>1. n \in Nat /\ \A i \in 1 .. n : s[i] \in Bond
        BY <1>1, ListParts
    <2>2. /\ SubSeq(s, 1, n) \in Seq(Bond)
          /\ Len(SubSeq(s, 1, n)) = IF 1 <= n THEN n - 1 + 1 ELSE 0
        <3> HIDE DEF s, n
        <3>1. 1 \in Int /\ n \in Int
            BY <2>1
        <3> QED
            BY <2>1, <3>1, SubSeqProperties
    <2> QED
        BY <2>1, <2>2
<1>3. SaturatingSub(list.total, Last(s).amount) \in Nat
    BY ListParts, SaturatingSubType
<1> QED
    BY <1>2, <1>3 DEF WithoutLast, Front, Delegations

LEMMA WithoutFirstType ==
    ASSUME NEW list \in Delegations, list.delegations # <<>>
    PROVE  /\ WithoutFirst(list) \in Delegations
           /\ Len(WithoutFirst(list).delegations) = Len(list.delegations) - 1
<1>1. /\ Tail(list.delegations) \in Seq(Bond)
      /\ Len(Tail(list.delegations)) = Len(list.delegations) - 1
    BY ListParts, HeadTailProperties
<1>2. SaturatingSub(list.total, Head(list.delegations).amount) \in Nat
    BY ListParts, SaturatingSubType
<1> QED
    BY <1>1, <1>2 DEF WithoutFirst, Delegations

\* A change of amount keeps the length.
LEMMA ResortedType ==
    ASSUME NEW list \in Delegations, NEW d \in Owners(list), NEW amount \in Nat
    PROVE  /\ Resorted(list, d, amount) \in Seq(Bond)
           /\ Len(Resorted(list, d, amount)) = Len(list.delegations)
<1> DEFINE s == list.delegations
           p == PositionOf(list, d)
           ahead == { i \in DOMAIN s \ {p} :
                        s[i].amount > amount \/ (i < p /\ s[i].amount = amount) }
           bond == [owner |-> d, amount |-> amount]
<1>1. s \in Seq(Bond) /\ p \in DOMAIN s /\ bond \in Bond
    BY ListParts, PositionType DEF Bond
<1>2. ahead \in SUBSET (DOMAIN s \ {p})
    OBVIOUS
<1>3. Cardinality(ahead) + 1 \in 1 .. Len(s)
    <2> HIDE DEF s, p, ahead
    <2> QED
        BY <1>1, <1>2, PlaceBehindOthers
<1>4. RemoveAt(s, p) \in Seq(Bond) /\ Len(RemoveAt(s, p)) = Len(s) - 1
    <2> HIDE DEF s, p
    <2> QED
        BY <1>1, RemoveAtType
<1>5. /\ InsertAt(RemoveAt(s, p), Cardinality(ahead) + 1, bond) \in Seq(Bond)
      /\ Len(InsertAt(RemoveAt(s, p), Cardinality(ahead) + 1, bond)) = Len(s)
    <2> DEFINE rest == RemoveAt(s, p)
               place == Cardinality(ahead) + 1
    <2>1. rest \in Seq(Bond) /\ place \in 1 .. Len(rest) + 1 /\ Len(rest) = Len(s) - 1
        BY <1>1, <1>3, <1>4, ListParts
    <2> HIDE DEF rest, place, s, bond
    <2>2. /\ InsertAt(rest, place, bond) \in Seq(Bond)
          /\ Len(InsertAt(rest, place, bond)) = Len(rest) + 1
        BY <1>1, <2>1, InsertAtType
    <2> QED
        BY <1>1, <2>1, <2>2, LenProperties DEF rest, place
<1> QED
    BY <1>5 DEF Resorted

-----------------------------------------------------------------------------
(* The metadata.                                                           *)

\* Within its limit a list is "Full" when no place is left and "Empty" when
\* it has no delegation.
LEMMA CapacityMeaning ==
    ASSUME NEW list \in Delegations, NEW max \in Nat \ {0},
           Len(list.delegations) <= max
    PROVE  /\ CapacityOf(list, max) \in Capacity
           /\ CapacityOf(list, max) = "Full" <=> Len(list.delegations) = max
           /\ CapacityOf(list, max) = "Empty" <=> list.delegations = <<>>
BY ListParts DEF CapacityOf, Capacity

LEMMA CapacityType ==
    ASSUME NEW list, NEW max
    PROVE  CapacityOf(list, max) \in Capacity
BY DEF CapacityOf, Capacity

\* reset_top_data writes the three fields that describe the top list.
LEMMA ResetTopFields ==
    ASSUME NEW info \in CandidateMetadata, NEW top \in Delegations
    PROVE  LET reset == ResetTop(info, top)
           IN  /\ reset \in CandidateMetadata
               /\ reset.total_counted = info.bond + top.total
               /\ reset.lowest_top = LowestAmount(top)
               /\ reset.top_capacity
                    = CapacityOf(top, MaxTopDelegationsPerCandidate)
               /\ reset.bond = info.bond
               /\ reset.delegation_count = info.delegation_count
               /\ reset.highest_bottom = info.highest_bottom
               /\ reset.lowest_bottom = info.lowest_bottom
               /\ reset.bottom_capacity = info.bottom_capacity
               /\ reset.request = info.request
               /\ reset.status = info.status
<1>1. /\ LowestAmount(top) \in Nat
      /\ top.total \in Nat
      /\ CapacityOf(top, MaxTopDelegationsPerCandidate) \in Capacity
    BY AmountsType, ListParts, CapacityType
<1> DEFINE counted == info.bond + top.total
<1>2. counted \in Nat
    BY <1>1 DEF CandidateMetadata
<1>3. ResetTop(info, top)
        = [ info EXCEPT !.lowest_top = LowestAmount(top),
                        !.top_capacity =
                            CapacityOf(top, MaxTopDelegationsPerCandidate),
                        !.total_counted = counted ]
    BY DEF ResetTop
<1> HIDE DEF counted
<1>4. /\ ResetTop(info, top).total_counted = counted
      /\ ResetTop(info, top) \in CandidateMetadata
    BY <1>1, <1>2, <1>3 DEF CandidateMetadata
<1> QED
    BY <1>3, <1>4 DEF CandidateMetadata, counted

\* reset_bottom_data writes the three fields that describe the bottom list.
LEMMA ResetBottomFields ==
    ASSUME NEW info \in CandidateMetadata, NEW bottom \in Delegations
    PROVE  LET reset == ResetBottom(info, bottom)
           IN  /\ reset \in CandidateMetadata
               /\ reset.highest_bottom = HighestAmount(bottom)
               /\ reset.lowest_bottom = LowestAmount(bottom)
               /\ reset.bottom_capacity
                    = CapacityOf(bottom, MaxBottomDelegationsPerCandidate)
               /\ reset.bond = info.bond
               /\ reset.delegation_count = info.delegation_count
               /\ reset.total_counted = info.total_counted
               /\ reset.lowest_top = info.lowest_top
               /\ reset.top_capacity = info.top_capacity
               /\ reset.request = info.request
               /\ reset.status = info.status
<1>1. /\ LowestAmount(bottom) \in Nat /\ HighestAmount(bottom) \in Nat
      /\ CapacityOf(bottom, MaxBottomDelegationsPerCandidate) \in Capacity
    BY AmountsType, CapacityType
<1> QED
    BY <1>1 DEF ResetBottom, CandidateMetadata

\* What the two counting operators change.
LEMMA CountFields ==
    ASSUME NEW info \in CandidateMetadata, NEW n \in Nat,
           NEW counted, counted = [info EXCEPT !.delegation_count = n]
    PROVE  /\ counted \in CandidateMetadata
           /\ counted.delegation_count = n
           /\ counted.total_counted = info.total_counted
           /\ counted.lowest_top = info.lowest_top
           /\ counted.top_capacity = info.top_capacity
           /\ counted.highest_bottom = info.highest_bottom
           /\ counted.lowest_bottom = info.lowest_bottom
           /\ counted.bottom_capacity = info.bottom_capacity
           /\ counted.bond = info.bond
           /\ counted.request = info.request
           /\ counted.status = info.status
BY DEF CandidateMetadata

LEMMA CountOneMoreFields ==
    ASSUME NEW info \in CandidateMetadata
    PROVE  CountOneMore(info)
             = [info EXCEPT !.delegation_count = info.delegation_count + 1]
BY DEF CountOneMore

LEMMA CountOneLessFields ==
    ASSUME NEW info \in CandidateMetadata, info.delegation_count > 0
    PROVE  CountOneLess(info)
             = [info EXCEPT !.delegation_count = info.delegation_count - 1]
BY DEF CountOneLess, CandidateMetadata, SaturatingSub

-----------------------------------------------------------------------------
(* The methods of a book.                                                  *)

\* A book as every method finds it and leaves it.
WellKept(book) ==
    /\ book.info \in CandidateMetadata
    /\ book.top \in Delegations
    /\ book.bottom \in Delegations
    /\ Mirrors(book)
    /\ FillsFromTheTop(book)

\* The part of the metadata that the delegations do not touch.
SameCandidate(info, other) ==
    /\ info.bond = other.bond
    /\ info.request = other.request
    /\ info.status = other.status

\* What the boundary fields say of a well-kept book.
LEMMA WellKeptCapacities ==
    ASSUME NEW book, WellKept(book)
    PROVE  /\ book.info.top_capacity = "Full"
                <=> Len(book.top.delegations) = MaxTopDelegationsPerCandidate
           /\ book.info.bottom_capacity = "Full"
                <=> Len(book.bottom.delegations)
                      = MaxBottomDelegationsPerCandidate
           /\ book.info.bottom_capacity = "Empty"
                <=> book.bottom.delegations = <<>>
           /\ Len(book.top.delegations) = MaxTopDelegationsPerCandidate
                => book.top.delegations # <<>>
           /\ Len(book.bottom.delegations) = MaxBottomDelegationsPerCandidate
                => book.bottom.delegations # <<>>
           /\ Len(book.top.delegations) \in Nat
           /\ Len(book.bottom.delegations) \in Nat
<1>1. /\ book.top \in Delegations
      /\ book.bottom \in Delegations
      /\ Len(book.top.delegations) <= MaxTopDelegationsPerCandidate
      /\ Len(book.bottom.delegations) <= MaxBottomDelegationsPerCandidate
      /\ book.info.top_capacity = CapacityOf(book.top, MaxTopDelegationsPerCandidate)
      /\ book.info.bottom_capacity
           = CapacityOf(book.bottom, MaxBottomDelegationsPerCandidate)
    BY DEF WellKept, Mirrors, FillsFromTheTop
<1> QED
    BY <1>1, CapacityMeaning, CapacityAssumption, ListParts

\* The book of a new candidate is well kept.
LEMMA NewBookWellKept ==
    ASSUME NEW bond \in Nat, NEW book,
           book = [ info |-> NewCandidate(bond), top |-> NoDelegations,
                    bottom |-> NoDelegations ]
    PROVE  WellKept(book)
<1>1. /\ NoDelegations \in Delegations
      /\ NoDelegations.delegations = <<>>
      /\ NoDelegations.total = 0
      /\ Len(<<>>) = 0
    BY EmptySeq DEF NoDelegations, Delegations
<1>2. NewCandidate(bond) \in CandidateMetadata
    BY DEF NewCandidate, CandidateMetadata, Capacity, Status, Active
<1>3. \A max \in Nat \ {0} : CapacityOf(NoDelegations, max) = "Empty"
    BY <1>1 DEF CapacityOf
<1>4. LowestAmount(NoDelegations) = 0 /\ HighestAmount(NoDelegations) = 0
    BY <1>1 DEF LowestAmount, HighestAmount
<1>5. Mirrors(book)
    BY <1>1, <1>3, <1>4, CapacityAssumption DEF Mirrors, NewCandidate
<1>6. FillsFromTheTop(book)
    BY <1>1, CapacityAssumption DEF FillsFromTheTop
<1> QED
    BY <1>1, <1>2, <1>5, <1>6 DEF WellKept

\* add_bottom_delegation: whatever is inserted, the bottom half of the book is
\* in order afterwards and the top half is as it was.
LEMMA AddToBottomKeeps ==
    ASSUME NEW book, WellKept(book), NEW bond \in Bond,
           NEW bumped_from_top \in BOOLEAN
    PROVE  LET outcome == AddToBottom(book, bumped_from_top, bond)
               full == Len(book.bottom.delegations)
                         = MaxBottomDelegationsPerCandidate
           IN  /\ outcome.info \in CandidateMetadata
               /\ outcome.bottom \in Delegations
               /\ outcome.top = book.top
               /\ Len(outcome.bottom.delegations)
                    = IF full THEN Len(book.bottom.delegations)
                              ELSE Len(book.bottom.delegations) + 1
               /\ outcome.info.delegation_count
                    = IF full \/ bumped_from_top
                      THEN book.info.delegation_count
                      ELSE book.info.delegation_count + 1
               /\ outcome.info.highest_bottom = HighestAmount(outcome.bottom)
               /\ outcome.info.lowest_bottom = LowestAmount(outcome.bottom)
               /\ outcome.info.bottom_capacity
                    = CapacityOf(outcome.bottom, MaxBottomDelegationsPerCandidate)
               /\ outcome.info.total_counted = book.info.total_counted
               /\ outcome.info.lowest_top = book.info.lowest_top
               /\ outcome.info.top_capacity = book.info.top_capacity
               /\ SameCandidate(outcome.info, book.info)
               /\ outcome.kicked \subseteq Bond
<1> DEFINE outcome == AddToBottom(book, bumped_from_top, bond)
           full == Len(book.bottom.delegations) = MaxBottomDelegationsPerCandidate
           before == IF full THEN WithoutLast(book.bottom) ELSE book.bottom
           bottom == Insert(before, bond)
           info == IF full \/ bumped_from_top THEN book.info
                                              ELSE CountOneMore(book.info)
<1>1. /\ book.info \in CandidateMetadata
      /\ book.bottom \in Delegations
      /\ full => book.bottom.delegations # <<>>
      /\ Len(book.bottom.delegations) \in Nat
    BY WellKeptCapacities DEF WellKept
<1>2. /\ before \in Delegations
      /\ Len(before.delegations) = IF full THEN Len(book.bottom.delegations) - 1
                                           ELSE Len(book.bottom.delegations)
    BY <1>1, WithoutLastType
<1>3. /\ bottom \in Delegations
      /\ Len(bottom.delegations) = Len(before.delegations) + 1
    <2> HIDE DEF before
    <2> QED
        BY <1>2, InsertType
<1>4. /\ info \in CandidateMetadata
      /\ info.delegation_count = IF full \/ bumped_from_top
                                 THEN book.info.delegation_count
                                 ELSE book.info.delegation_count + 1
      /\ info.total_counted = book.info.total_counted
      /\ info.lowest_top = book.info.lowest_top
      /\ info.top_capacity = book.info.top_capacity
      /\ SameCandidate(info, book.info)
    <2>1. CASE full \/ bumped_from_top
        BY <1>1, <2>1 DEF SameCandidate
    <2>2. CASE ~(full \/ bumped_from_top)
        <3>1. book.info.delegation_count + 1 \in Nat
            BY <1>1 DEF CandidateMetadata
        <3> QED
            BY <1>1, <2>2, <3>1, CountOneMoreFields, CountFields
               DEF SameCandidate
    <2> QED
        BY <2>1, <2>2
<1>5. /\ outcome.info = ResetBottom(info, bottom)
      /\ outcome.top = book.top
      /\ outcome.bottom = bottom
      /\ outcome.kicked = IF full THEN { Last(book.bottom.delegations) } ELSE {}
    BY DEF AddToBottom
<1>6. outcome.kicked \subseteq Bond
    BY <1>1, <1>5, EndsType
<1>7. Len(bottom.delegations) = IF full THEN Len(book.bottom.delegations)
                                       ELSE Len(book.bottom.delegations) + 1
    <2> HIDE DEF bottom, before
    <2> QED
        BY <1>1, <1>2, <1>3
<1>8. /\ outcome.info \in CandidateMetadata
      /\ outcome.info.highest_bottom = HighestAmount(bottom)
      /\ outcome.info.lowest_bottom = LowestAmount(bottom)
      /\ outcome.info.bottom_capacity
           = CapacityOf(bottom, MaxBottomDelegationsPerCandidate)
      /\ outcome.info.delegation_count = info.delegation_count
      /\ outcome.info.total_counted = info.total_counted
      /\ outcome.info.lowest_top = info.lowest_top
      /\ outcome.info.top_capacity = info.top_capacity
      /\ SameCandidate(outcome.info, info)
    <2> HIDE DEF outcome, bottom, info
    <2> QED
        BY <1>3, <1>4, <1>5, ResetBottomFields DEF SameCandidate
<1> HIDE DEF outcome, bottom, info, full
<1>9. SameCandidate(outcome.info, book.info)
    BY <1>4, <1>8 DEF SameCandidate
<1> QED
    BY <1>3, <1>4, <1>5, <1>6, <1>7, <1>8, <1>9 DEF outcome, full

\* add_top_delegation keeps the book: what drops from the top is caught at the
\* bottom, and the count grows exactly when nobody is kicked.
LEMMA AddToTopKeeps ==
    ASSUME NEW book, WellKept(book), NEW bond \in Bond
    PROVE  LET outcome == AddToTop(book, bond)
           IN  /\ WellKept(outcome)
               /\ SameCandidate(outcome.info, book.info)
               /\ outcome.kicked \subseteq Bond
<1> DEFINE outcome == AddToTop(book, bond)
           full == Len(book.top.delegations) = MaxTopDelegationsPerCandidate
           bottomFull == Len(book.bottom.delegations)
                           = MaxBottomDelegationsPerCandidate
           less == IF full THEN LessTotalStaked(book.info) ELSE {}
           below == IF full
                    THEN AddToBottom(book, TRUE, Last(book.top.delegations))
                    ELSE [ info |-> book.info, bottom |-> book.bottom,
                           kicked |-> {} ]
           before == IF full THEN WithoutLast(book.top) ELSE book.top
           top == Insert(before, bond)
           reset == ResetTop(below.info, top)
           info == IF less = {} THEN CountOneMore(reset) ELSE reset
<1>1. /\ book.info \in CandidateMetadata
      /\ book.top \in Delegations
      /\ book.bottom \in Delegations
      /\ full => book.top.delegations # <<>>
      /\ Len(book.top.delegations) \in Nat
      /\ Len(book.bottom.delegations) \in Nat
      /\ book.info.bottom_capacity = "Full" <=> bottomFull
    BY WellKeptCapacities DEF WellKept
<1>2. /\ outcome.info = info
      /\ outcome.top = top
      /\ outcome.bottom = below.bottom
      /\ outcome.kicked = below.kicked
    BY DEF AddToTop
<1>3. /\ below.info \in CandidateMetadata
      /\ below.bottom \in Delegations
      /\ Len(below.bottom.delegations)
           = IF full /\ ~bottomFull THEN Len(book.bottom.delegations) + 1
                                    ELSE Len(book.bottom.delegations)
      /\ below.info.delegation_count = book.info.delegation_count
      /\ below.info.highest_bottom = HighestAmount(below.bottom)
      /\ below.info.lowest_bottom = LowestAmount(below.bottom)
      /\ below.info.bottom_capacity
           = CapacityOf(below.bottom, MaxBottomDelegationsPerCandidate)
      /\ SameCandidate(below.info, book.info)
      /\ below.kicked \subseteq Bond
    <2>1. CASE full
        <3>1. Last(book.top.delegations) \in Bond
            BY <1>1, <2>1, EndsType
        <3>2. below = AddToBottom(book, TRUE, Last(book.top.delegations))
            BY <2>1
        <3> HIDE DEF below
        <3> QED
            BY <1>1, <2>1, <3>1, <3>2, AddToBottomKeeps
    <2>2. CASE ~full
        BY <1>1, <2>2 DEF SameCandidate, WellKept, Mirrors
    <2> QED
        BY <2>1, <2>2
<1>4. /\ top \in Delegations
      /\ Len(top.delegations) = IF full THEN Len(book.top.delegations)
                                        ELSE Len(book.top.delegations) + 1
    <2>1. /\ before \in Delegations
          /\ Len(before.delegations) = IF full THEN Len(book.top.delegations) - 1
                                               ELSE Len(book.top.delegations)
        BY <1>1, WithoutLastType
    <2>2. /\ top \in Delegations
          /\ Len(top.delegations) = Len(before.delegations) + 1
        <3> HIDE DEF before
        <3> QED
            BY <2>1, InsertType
    <2> HIDE DEF top, before
    <2> QED
        BY <1>1, <2>1, <2>2
<1>5. /\ reset \in CandidateMetadata
      /\ reset.total_counted = below.info.bond + top.total
      /\ reset.lowest_top = LowestAmount(top)
      /\ reset.top_capacity = CapacityOf(top, MaxTopDelegationsPerCandidate)
      /\ reset.highest_bottom = below.info.highest_bottom
      /\ reset.lowest_bottom = below.info.lowest_bottom
      /\ reset.bottom_capacity = below.info.bottom_capacity
      /\ reset.delegation_count = below.info.delegation_count
      /\ reset.bond = below.info.bond
      /\ SameCandidate(reset, below.info)
    <2> HIDE DEF below, top
    <2> QED
        BY <1>3, <1>4, ResetTopFields DEF SameCandidate
<1>6. /\ info \in CandidateMetadata
      /\ info.total_counted = reset.total_counted
      /\ info.lowest_top = reset.lowest_top
      /\ info.top_capacity = reset.top_capacity
      /\ info.highest_bottom = reset.highest_bottom
      /\ info.lowest_bottom = reset.lowest_bottom
      /\ info.bottom_capacity = reset.bottom_capacity
      /\ info.bond = reset.bond
      /\ info.delegation_count = IF less = {} THEN reset.delegation_count + 1
                                              ELSE reset.delegation_count
      /\ SameCandidate(info, reset)
    <2>1. reset.delegation_count \in Nat
        <3> HIDE DEF reset
        <3> QED
            BY <1>5 DEF CandidateMetadata
    <2> HIDE DEF reset, less
    <2>2. CASE less = {}
        <3>1. info = [ reset EXCEPT !.delegation_count
                                      = reset.delegation_count + 1 ]
            BY <1>5, <2>2, CountOneMoreFields
        <3>2. reset.delegation_count + 1 \in Nat
            BY <2>1
        <3> HIDE DEF info, top, below
        <3> QED
            BY <1>5, <2>2, <3>1, <3>2, CountFields DEF SameCandidate
    <2>3. CASE less # {}
        BY <1>5, <2>3 DEF SameCandidate
    <2> QED
        BY <2>2, <2>3
<1>7. less = {} <=> ~(full /\ bottomFull)
    BY <1>1 DEF LessTotalStaked
<1> HIDE DEF outcome, info, top, below, reset, less
<1>8. Mirrors(outcome)
    <2>1. outcome.info.delegation_count
            = Len(outcome.top.delegations) + Len(outcome.bottom.delegations)
        <3>1. book.info.delegation_count
                = Len(book.top.delegations) + Len(book.bottom.delegations)
            BY DEF WellKept, Mirrors
        <3>2. /\ book.info.delegation_count \in Nat
              /\ FillsFromTheTop(book)
            BY <1>1 DEF CandidateMetadata, WellKept
        <3>3. info.delegation_count
                = IF full /\ bottomFull THEN book.info.delegation_count
                                        ELSE book.info.delegation_count + 1
            BY <1>3, <1>5, <1>6, <1>7
        <3> DEFINE counted == info.delegation_count
                   before_ == book.info.delegation_count
                   t == Len(book.top.delegations)
                   b == Len(book.bottom.delegations)
                   t_ == Len(top.delegations)
                   b_ == Len(below.bottom.delegations)
        <3>4. t \in Nat /\ b \in Nat /\ before_ = t + b
            BY <1>1, <3>1
        <3>5. counted = t_ + b_
            <4>1. CASE full /\ bottomFull
                <5>1. counted = before_ /\ t_ = t /\ b_ = b
                    BY <1>3, <1>4, <3>3, <4>1
                <5> QED
                    BY <3>1, <5>1
            <4>2. CASE full /\ ~bottomFull
                <5>1. counted = before_ + 1 /\ t_ = t /\ b_ = b + 1
                    BY <1>3, <1>4, <3>3, <4>2
                <5> HIDE DEF counted, t_, b_, before_, t, b
                <5> QED
                    BY <3>4, <5>1
            <4>3. CASE ~full
                <5>1. counted = before_ + 1 /\ t_ = t + 1 /\ b_ = b
                    BY <1>3, <1>4, <3>3, <4>3
                <5> HIDE DEF counted, t_, b_, before_, t, b
                <5> QED
                    BY <3>4, <5>1
            <4> QED
                BY <4>1, <4>2, <4>3
        <3> QED
            BY <1>2, <3>5
    <2> QED
        BY <1>2, <1>3, <1>5, <1>6, <2>1 DEF Mirrors
<1>9. FillsFromTheTop(outcome)
    <2>1. FillsFromTheTop(book)
        BY DEF WellKept
    <2>2. book.bottom.delegations # <<>> <=> Len(book.bottom.delegations) > 0
        BY <1>1, ListParts
    <2>3. below.bottom.delegations # <<>> <=> Len(below.bottom.delegations) > 0
        BY <1>3, ListParts
    <2> QED
        BY <1>1, <1>2, <1>3, <1>4, <2>1, <2>2, <2>3, CapacityAssumption
           DEF FillsFromTheTop
<1>10. SameCandidate(outcome.info, book.info)
    BY <1>2, <1>3, <1>5, <1>6 DEF SameCandidate
<1> QED
    BY <1>2, <1>3, <1>4, <1>6, <1>8, <1>9, <1>10 DEF WellKept, outcome

\* add_delegation keeps the book, once CanAdd has let the delegation in.
LEMMA AddDelegationKeeps ==
    ASSUME NEW book, WellKept(book), NEW bond \in Bond
    PROVE  LET outcome == AddDelegation(book, bond)
           IN  /\ WellKept(outcome)
               /\ SameCandidate(outcome.info, book.info)
               /\ outcome.kicked \subseteq Bond
<1>1. CASE book.info.top_capacity # "Full" \/ book.info.lowest_top < bond.amount
    BY <1>1, AddToTopKeeps DEF AddDelegation
<1>2. CASE ~(book.info.top_capacity # "Full" \/ book.info.lowest_top < bond.amount)
    <2> DEFINE added == AddToBottom(book, FALSE, bond)
               outcome == AddDelegation(book, bond)
               full == Len(book.bottom.delegations)
                         = MaxBottomDelegationsPerCandidate
    <2>1. /\ outcome.info = added.info
          /\ outcome.top = added.top
          /\ outcome.bottom = added.bottom
          /\ outcome.kicked = added.kicked
        BY <1>2 DEF AddDelegation
    <2>2. /\ added.info \in CandidateMetadata
          /\ added.bottom \in Delegations
          /\ added.top = book.top
          /\ Len(added.bottom.delegations)
               = IF full THEN Len(book.bottom.delegations)
                         ELSE Len(book.bottom.delegations) + 1
          /\ added.info.delegation_count
               = IF full THEN book.info.delegation_count
                         ELSE book.info.delegation_count + 1
          /\ added.info.highest_bottom = HighestAmount(added.bottom)
          /\ added.info.lowest_bottom = LowestAmount(added.bottom)
          /\ added.info.bottom_capacity
               = CapacityOf(added.bottom, MaxBottomDelegationsPerCandidate)
          /\ added.info.total_counted = book.info.total_counted
          /\ added.info.lowest_top = book.info.lowest_top
          /\ added.info.top_capacity = book.info.top_capacity
          /\ SameCandidate(added.info, book.info)
          /\ added.kicked \subseteq Bond
        BY AddToBottomKeeps
    <2>3. /\ book.info \in CandidateMetadata
          /\ book.top \in Delegations
          /\ Mirrors(book)
          /\ FillsFromTheTop(book)
          /\ Len(book.top.delegations) = MaxTopDelegationsPerCandidate
          /\ Len(book.top.delegations) \in Nat
          /\ Len(book.bottom.delegations) \in Nat
        BY <1>2, WellKeptCapacities DEF WellKept
    <2> HIDE DEF added, outcome
    <2>4. outcome.info.delegation_count
            = Len(outcome.top.delegations) + Len(outcome.bottom.delegations)
        BY <2>1, <2>2, <2>3 DEF Mirrors
    <2>5. Mirrors(outcome)
        BY <2>1, <2>2, <2>3, <2>4 DEF Mirrors, SameCandidate
    <2>6. FillsFromTheTop(outcome)
        BY <2>1, <2>2, <2>3, CapacityAssumption DEF FillsFromTheTop
    <2> QED
        BY <2>1, <2>2, <2>3, <2>5, <2>6 DEF WellKept, outcome
<1> QED
    BY <1>1, <1>2

-----------------------------------------------------------------------------
(* The methods that move delegations within a book.                        *)

Size(list) == Len(list.delegations)

\* The part of the metadata that describes the top list.
TopPart(info, top) ==
    /\ info.total_counted = info.bond + top.total
    /\ info.lowest_top = LowestAmount(top)
    /\ info.top_capacity = CapacityOf(top, MaxTopDelegationsPerCandidate)

\* The part of the metadata that describes the bottom list.
BottomPart(info, bottom) ==
    /\ info.highest_bottom = HighestAmount(bottom)
    /\ info.lowest_bottom = LowestAmount(bottom)
    /\ info.bottom_capacity = CapacityOf(bottom, MaxBottomDelegationsPerCandidate)

\* FillsFromTheTop in terms of the sizes of the lists.
SizesFit(top, bottom) ==
    /\ Size(top) <= MaxTopDelegationsPerCandidate
    /\ Size(bottom) <= MaxBottomDelegationsPerCandidate
    /\ Size(bottom) > 0 => Size(top) = MaxTopDelegationsPerCandidate

\* Metadata and two lists that agree, the number of delegations aside.
Summarised(info, top, bottom) ==
    /\ info \in CandidateMetadata
    /\ top \in Delegations
    /\ bottom \in Delegations
    /\ TopPart(info, top)
    /\ BottomPart(info, bottom)
    /\ SizesFit(top, bottom)

LEMMA SizeType ==
    ASSUME NEW list \in Delegations
    PROVE  /\ Size(list) \in Nat
           /\ list.delegations # <<>> <=> Size(list) > 0
BY ListParts DEF Size

\* A book is well kept when metadata and lists agree and the count is right.
LEMMA WellKeptSummary ==
    ASSUME NEW book
    PROVE  WellKept(book) <=>
             /\ Summarised(book.info, book.top, book.bottom)
             /\ book.info.delegation_count = Size(book.top) + Size(book.bottom)
<1>1. ASSUME book.top \in Delegations, book.bottom \in Delegations
      PROVE  FillsFromTheTop(book) <=> SizesFit(book.top, book.bottom)
    BY <1>1, SizeType DEF FillsFromTheTop, SizesFit, Size
<1> QED
    BY <1>1 DEF WellKept, Summarised, Mirrors, TopPart, BottomPart, Size

\* Resetting the part that describes a list that changed makes the metadata
\* agree with both lists, in whichever order the parts are reset.
LEMMA ResetSummarises ==
    ASSUME NEW info \in CandidateMetadata,
           NEW top \in Delegations, NEW bottom \in Delegations,
           SizesFit(top, bottom), NEW reset,
           \/ reset = ResetTop(info, top) /\ BottomPart(info, bottom)
           \/ reset = ResetBottom(info, bottom) /\ TopPart(info, top)
           \/ reset = ResetTop(ResetBottom(info, bottom), top)
           \/ reset = ResetBottom(ResetTop(info, top), bottom)
    PROVE  /\ Summarised(reset, top, bottom)
           /\ SameCandidate(reset, info)
           /\ reset.delegation_count = info.delegation_count
<1>1. ASSUME NEW i \in CandidateMetadata
      PROVE  /\ ResetTop(i, top) \in CandidateMetadata
             /\ TopPart(ResetTop(i, top), top)
             /\ BottomPart(i, bottom) => BottomPart(ResetTop(i, top), bottom)
             /\ SameCandidate(ResetTop(i, top), i)
             /\ ResetTop(i, top).delegation_count = i.delegation_count
    BY ResetTopFields DEF TopPart, BottomPart, SameCandidate
<1>2. ASSUME NEW i \in CandidateMetadata
      PROVE  /\ ResetBottom(i, bottom) \in CandidateMetadata
             /\ BottomPart(ResetBottom(i, bottom), bottom)
             /\ TopPart(i, top) => TopPart(ResetBottom(i, bottom), top)
             /\ SameCandidate(ResetBottom(i, bottom), i)
             /\ ResetBottom(i, bottom).delegation_count = i.delegation_count
    BY ResetBottomFields DEF TopPart, BottomPart, SameCandidate
<1>3. CASE reset = ResetTop(info, top) /\ BottomPart(info, bottom)
    BY <1>1, <1>3 DEF Summarised
<1>4. CASE reset = ResetBottom(info, bottom) /\ TopPart(info, top)
    BY <1>2, <1>4 DEF Summarised
<1>5. CASE reset = ResetTop(ResetBottom(info, bottom), top)
    BY <1>1, <1>2, <1>5 DEF Summarised, SameCandidate
<1>6. CASE reset = ResetBottom(ResetTop(info, top), bottom)
    BY <1>1, <1>2, <1>6 DEF Summarised, SameCandidate
<1> QED
    BY <1>3, <1>4, <1>5, <1>6

\* One delegation less, once the lists have lost one.
LEMMA OneLessWellKept ==
    ASSUME NEW info, NEW top, NEW bottom, Summarised(info, top, bottom),
           info.delegation_count = Size(top) + Size(bottom) + 1
    PROVE  LET book == [ info |-> CountOneLess(info), top |-> top,
                         bottom |-> bottom ]
           IN  WellKept(book) /\ SameCandidate(book.info, info)
<1> DEFINE n == Size(top) + Size(bottom)
           counted == CountOneLess(info)
<1>1. /\ info \in CandidateMetadata
      /\ n \in Nat
      /\ info.delegation_count = n + 1
    BY SizeType DEF Summarised
<1>2. counted = [info EXCEPT !.delegation_count = n]
    <2> HIDE DEF n
    <2>1. info.delegation_count > 0 /\ info.delegation_count - 1 = n
        BY <1>1
    <2> QED
        BY <1>1, <2>1, CountOneLessFields
<1>3. /\ counted \in CandidateMetadata
      /\ counted.delegation_count = n
      /\ counted.total_counted = info.total_counted
      /\ counted.lowest_top = info.lowest_top
      /\ counted.top_capacity = info.top_capacity
      /\ counted.highest_bottom = info.highest_bottom
      /\ counted.lowest_bottom = info.lowest_bottom
      /\ counted.bottom_capacity = info.bottom_capacity
      /\ counted.bond = info.bond
      /\ SameCandidate(counted, info)
    <2> HIDE DEF n, counted
    <2> QED
        BY <1>1, <1>2, CountFields DEF SameCandidate
<1> HIDE DEF counted
<1>4. Summarised(counted, top, bottom)
    BY <1>3 DEF Summarised, TopPart, BottomPart
<1> DEFINE book == [info |-> counted, top |-> top, bottom |-> bottom]
<1>5. book.info = counted /\ book.top = top /\ book.bottom = bottom
    OBVIOUS
<1> HIDE DEF book
<1>6. WellKept(book) /\ SameCandidate(book.info, info)
    BY <1>3, <1>4, <1>5, WellKeptSummary
<1> QED
    BY <1>6 DEF book, counted

\* What the lemmas below use of a well-kept book.
LEMMA WellKeptParts ==
    ASSUME NEW book, WellKept(book)
    PROVE  /\ book.info \in CandidateMetadata
           /\ book.top \in Delegations
           /\ book.bottom \in Delegations
           /\ TopPart(book.info, book.top)
           /\ BottomPart(book.info, book.bottom)
           /\ SizesFit(book.top, book.bottom)
           /\ Size(book.top) \in Nat
           /\ Size(book.bottom) \in Nat
           /\ book.info.delegation_count = Size(book.top) + Size(book.bottom)
           /\ book.info.bottom_capacity # "Empty" <=> Size(book.bottom) > 0
           /\ book.info.top_capacity = "Full"
                <=> Size(book.top) = MaxTopDelegationsPerCandidate
<1>1. /\ Summarised(book.info, book.top, book.bottom)
      /\ book.info.delegation_count = Size(book.top) + Size(book.bottom)
    BY WellKeptSummary
<1>2. /\ book.info.bottom_capacity # "Empty" <=> book.bottom.delegations # <<>>
      /\ book.info.top_capacity = "Full"
           <=> Size(book.top) = MaxTopDelegationsPerCandidate
    BY WellKeptCapacities DEF Size
<1> QED
    BY <1>1, <1>2, SizeType DEF Summarised

\* rm_top_delegation: the place left free at the top is taken by the highest
\* of the bottom, so the top stays full while somebody waits.
LEMMA RemoveFromTopKeeps ==
    ASSUME NEW book, WellKept(book), NEW d \in Owners(book.top)
    PROVE  /\ WellKept(RemoveFromTop(book, d))
           /\ SameCandidate(RemoveFromTop(book, d).info, book.info)
<1> DEFINE rest == Without(book.top, d, AmountOf(book.top, d))
<1>1. rest \in Delegations /\ Size(rest) = Size(book.top) - 1
    BY WellKeptParts, WithoutType DEF Size
<1>2. CASE book.info.bottom_capacity # "Empty"
    <2> DEFINE bottom == WithoutFirst(book.bottom)
               top == Insert(rest, Head(book.bottom.delegations))
               reset == ResetTop(ResetBottom(book.info, bottom), top)
    <2>1. RemoveFromTop(book, d)
            = [info |-> CountOneLess(reset), top |-> top, bottom |-> bottom]
        BY <1>2 DEF RemoveFromTop
    <2> HIDE DEF rest
    <2>2. Size(book.bottom) > 0 /\ book.bottom.delegations # <<>>
        BY <1>2, WellKeptParts, SizeType
    <2>3. bottom \in Delegations /\ Size(bottom) = Size(book.bottom) - 1
        BY <2>2, WellKeptParts, WithoutFirstType DEF Size
    <2>4. top \in Delegations /\ Size(top) = Size(rest) + 1
        BY <1>1, <2>2, WellKeptParts, EndsType, InsertType DEF Size
    <2> HIDE DEF bottom, top
    <2>5. SizesFit(top, bottom)
        BY <1>1, <2>2, <2>3, <2>4, WellKeptParts, CapacityAssumption DEF SizesFit
    <2>6. /\ Summarised(reset, top, bottom)
          /\ SameCandidate(reset, book.info)
          /\ reset.delegation_count = book.info.delegation_count
        BY <2>3, <2>4, <2>5, WellKeptParts, ResetSummarises
    <2> HIDE DEF reset
    <2>7. reset.delegation_count = Size(top) + Size(bottom) + 1
        BY <1>1, <2>3, <2>4, <2>6, WellKeptParts
    <2> QED
        BY <2>1, <2>6, <2>7, OneLessWellKept DEF SameCandidate
<1>3. CASE book.info.bottom_capacity = "Empty"
    <2> DEFINE reset == ResetTop(book.info, rest)
    <2>1. RemoveFromTop(book, d)
            = [info |-> CountOneLess(reset), top |-> rest, bottom |-> book.bottom]
        BY <1>3 DEF RemoveFromTop
    <2> HIDE DEF rest
    <2>2. SizesFit(rest, book.bottom)
        BY <1>1, <1>3, WellKeptParts, CapacityAssumption DEF SizesFit
    <2>3. /\ Summarised(reset, rest, book.bottom)
          /\ SameCandidate(reset, book.info)
          /\ reset.delegation_count = book.info.delegation_count
        BY <1>1, <2>2, WellKeptParts, ResetSummarises
    <2> HIDE DEF reset
    <2>4. reset.delegation_count = Size(rest) + Size(book.bottom) + 1
        BY <1>1, <2>3, WellKeptParts
    <2> QED
        BY <2>1, <2>3, <2>4, OneLessWellKept DEF SameCandidate
<1> QED
    BY <1>2, <1>3

\* rm_bottom_delegation leaves the top as it is.
LEMMA RemoveFromBottomKeeps ==
    ASSUME NEW book, WellKept(book), NEW d \in Owners(book.bottom)
    PROVE  /\ WellKept(RemoveFromBottom(book, d))
           /\ SameCandidate(RemoveFromBottom(book, d).info, book.info)
<1> DEFINE bottom == Without(book.bottom, d, AmountOf(book.bottom, d))
           reset == ResetBottom(book.info, bottom)
<1>1. bottom \in Delegations /\ Size(bottom) = Size(book.bottom) - 1
    BY WellKeptParts, WithoutType DEF Size
<1>2. RemoveFromBottom(book, d)
        = [info |-> CountOneLess(reset), top |-> book.top, bottom |-> bottom]
    BY DEF RemoveFromBottom
<1> HIDE DEF bottom
<1>3. SizesFit(book.top, bottom)
    BY <1>1, WellKeptParts, CapacityAssumption DEF SizesFit
<1>4. /\ Summarised(reset, book.top, bottom)
      /\ SameCandidate(reset, book.info)
      /\ reset.delegation_count = book.info.delegation_count
    BY <1>1, <1>3, WellKeptParts, ResetSummarises
<1> HIDE DEF reset
<1>5. reset.delegation_count = Size(book.top) + Size(bottom) + 1
    BY <1>1, <1>4, WellKeptParts
<1> QED
    BY <1>2, <1>4, <1>5, OneLessWellKept DEF SameCandidate

\* A method that moves delegations about, and resets the parts of the metadata
\* whose list it changed, keeps the book.
LEMMA MovesKeep ==
    ASSUME NEW book, WellKept(book),
           NEW top \in Delegations, NEW bottom \in Delegations,
           SizesFit(top, bottom),
           Size(top) + Size(bottom) = Size(book.top) + Size(book.bottom),
           NEW reset,
           \/ reset = ResetTop(book.info, top) /\ bottom = book.bottom
           \/ reset = ResetBottom(book.info, bottom) /\ top = book.top
           \/ reset = ResetTop(ResetBottom(book.info, bottom), top)
           \/ reset = ResetBottom(ResetTop(book.info, top), bottom)
    PROVE  LET outcome == [info |-> reset, top |-> top, bottom |-> bottom]
           IN  WellKept(outcome) /\ SameCandidate(outcome.info, book.info)
<1>1. /\ Summarised(reset, top, bottom)
      /\ SameCandidate(reset, book.info)
      /\ reset.delegation_count = book.info.delegation_count
    BY WellKeptParts, ResetSummarises
<1>2. reset.delegation_count = Size(top) + Size(bottom)
    BY <1>1, WellKeptParts
<1> DEFINE outcome == [info |-> reset, top |-> top, bottom |-> bottom]
<1>3. outcome.info = reset /\ outcome.top = top /\ outcome.bottom = bottom
    OBVIOUS
<1> HIDE DEF outcome
<1>4. WellKept(outcome) /\ SameCandidate(outcome.info, book.info)
    BY <1>1, <1>2, <1>3, WellKeptSummary
<1> QED
    BY <1>4 DEF outcome

\* A list with one amount changed, whatever its new total.
LEMMA ResortedListType ==
    ASSUME NEW list \in Delegations, NEW d \in Owners(list),
           NEW amount \in Nat, NEW n \in Nat
    PROVE  LET changed == [delegations |-> Resorted(list, d, amount), total |-> n]
           IN  changed \in Delegations /\ Size(changed) = Size(list)
BY ResortedType DEF Delegations, Size

\* increase_top_delegation
LEMMA IncreaseTopKeeps ==
    ASSUME NEW book, WellKept(book), NEW d \in Owners(book.top), NEW more \in Nat
    PROVE  /\ WellKept(IncreaseTop(book, d, more))
           /\ SameCandidate(IncreaseTop(book, d, more).info, book.info)
<1> DEFINE top == [ delegations |-> Resorted(book.top, d, AmountOf(book.top, d) + more),
                    total |-> book.top.total + more ]
<1>1. AmountOf(book.top, d) + more \in Nat /\ book.top.total + more \in Nat
    BY WellKeptParts, PositionType, ListParts
<1>2. top \in Delegations /\ Size(top) = Size(book.top)
    BY <1>1, WellKeptParts, ResortedListType
<1>3. IncreaseTop(book, d, more)
        = [info |-> ResetTop(book.info, top), top |-> top, bottom |-> book.bottom]
    BY DEF IncreaseTop
<1> HIDE DEF top
<1>4. SizesFit(top, book.bottom)
    BY <1>2, WellKeptParts DEF SizesFit
<1> QED
    BY <1>2, <1>3, <1>4, WellKeptParts, MovesKeep

\* increase_bottom_delegation: a delegation that moves up frees a place at the
\* bottom, which the lowest of a full top list takes.
LEMMA IncreaseBottomKeeps ==
    ASSUME NEW book, WellKept(book), NEW d \in Owners(book.bottom),
           NEW amount, NEW more \in Nat
    PROVE  /\ WellKept(IncreaseBottom(book, d, amount, more))
           /\ SameCandidate(IncreaseBottom(book, d, amount, more).info, book.info)
<1> DEFINE outcome == IncreaseBottom(book, d, amount, more)
           held == AmountOf(book.bottom, d) + more
<1>1. held \in Nat /\ d \in Accounts /\ Size(book.bottom) > 0
    BY WellKeptParts, PositionType, SizeType
<1>2. Size(book.top) = MaxTopDelegationsPerCandidate
    BY <1>1, WellKeptParts DEF SizesFit
<1>3. CASE amount + more > book.info.lowest_top
    <2> DEFINE rest == Without(book.bottom, d, amount)
               bottom == Insert(rest, Last(book.top.delegations))
               bond == [owner |-> d, amount |-> held]
               top == Insert(WithoutLast(book.top), bond)
    <2>1. CapacityOf(book.top, MaxTopDelegationsPerCandidate) = "Full"
        BY <1>2, WellKeptParts DEF TopPart
    <2>2. outcome = [ info |-> ResetBottom(ResetTop(book.info, top), bottom),
                      top |-> top, bottom |-> bottom ]
        BY <1>3, <2>1 DEF IncreaseBottom
    <2>3. book.top.delegations # <<>>
        BY <1>2, WellKeptParts, SizeType, CapacityAssumption
    <2>4. rest \in Delegations /\ Size(rest) = Size(book.bottom) - 1
        BY WellKeptParts, WithoutType DEF Size
    <2>5. /\ WithoutLast(book.top) \in Delegations
          /\ Size(WithoutLast(book.top)) = Size(book.top) - 1
        BY <2>3, WellKeptParts, WithoutLastType DEF Size
    <2>6. bond \in Bond
        BY <1>1 DEF Bond
    <2> HIDE DEF rest, bond, held
    <2>7. bottom \in Delegations /\ Size(bottom) = Size(rest) + 1
        BY <2>3, <2>4, WellKeptParts, EndsType, InsertType DEF Size
    <2>8. top \in Delegations /\ Size(top) = Size(WithoutLast(book.top)) + 1
        BY <2>5, <2>6, InsertType DEF Size
    <2> HIDE DEF bottom, top
    <2>9. Size(bottom) = Size(book.bottom) /\ Size(top) = Size(book.top)
        BY <2>4, <2>5, <2>7, <2>8, WellKeptParts
    <2>10. SizesFit(top, bottom)
        BY <2>9, WellKeptParts DEF SizesFit
    <2> QED
        BY <2>2, <2>7, <2>8, <2>9, <2>10, WellKeptParts, MovesKeep
<1>4. CASE ~(amount + more > book.info.lowest_top)
    <2> DEFINE bottom == [ delegations |-> Resorted(book.bottom, d, held),
                           total |-> book.bottom.total + more ]
    <2>1. outcome = [ info |-> ResetBottom(book.info, bottom),
                      top |-> book.top, bottom |-> bottom ]
        BY <1>4 DEF IncreaseBottom
    <2>2. book.bottom.total + more \in Nat
        BY WellKeptParts, ListParts
    <2>3. bottom \in Delegations /\ Size(bottom) = Size(book.bottom)
        BY <1>1, <2>2, WellKeptParts, ResortedListType
    <2> HIDE DEF bottom
    <2>4. SizesFit(book.top, bottom)
        BY <2>3, WellKeptParts DEF SizesFit
    <2> QED
        BY <2>1, <2>3, <2>4, WellKeptParts, MovesKeep
<1> QED
    BY <1>3, <1>4

\* decrease_top_delegation: the delegation and the highest of the bottom trade
\* places, or it stays.
LEMMA DecreaseTopKeeps ==
    ASSUME NEW book, WellKept(book), NEW d \in Owners(book.top),
           NEW amount, NEW less
    PROVE  /\ WellKept(DecreaseTop(book, d, amount, less))
           /\ SameCandidate(DecreaseTop(book, d, amount, less).info, book.info)
<1> DEFINE outcome == DecreaseTop(book, d, amount, less)
           held == AmountOf(book.top, d)
           left == SaturatingSub(held, less)
           trades == /\ SaturatingSub(amount, less) < book.info.highest_bottom
                     /\ book.info.top_capacity = "Full"
                     /\ book.info.bottom_capacity # "Empty"
<1>1. /\ left \in Nat
      /\ d \in Accounts
      /\ SaturatingSub(book.top.total, less) \in Nat
    BY WellKeptParts, PositionType, ListParts, SaturatingSubType
<1>2. CASE trades
    <2> DEFINE rest == Without(book.top, d, held)
               top == Insert(rest, Head(book.bottom.delegations))
               bond == [owner |-> d, amount |-> left]
               bottom == Insert(WithoutFirst(book.bottom), bond)
    <2>1. outcome = [ info |-> ResetTop(ResetBottom(book.info, bottom), top),
                      top |-> top, bottom |-> bottom ]
        BY <1>2 DEF DecreaseTop
    <2>2. book.bottom.delegations # <<>>
        BY <1>2, WellKeptParts, SizeType
    <2>3. rest \in Delegations /\ Size(rest) = Size(book.top) - 1
        BY WellKeptParts, WithoutType DEF Size
    <2>4. /\ WithoutFirst(book.bottom) \in Delegations
          /\ Size(WithoutFirst(book.bottom)) = Size(book.bottom) - 1
        BY <2>2, WellKeptParts, WithoutFirstType DEF Size
    <2>5. bond \in Bond
        BY <1>1 DEF Bond
    <2> HIDE DEF rest, bond, left
    <2>6. top \in Delegations /\ Size(top) = Size(rest) + 1
        BY <2>2, <2>3, WellKeptParts, EndsType, InsertType DEF Size
    <2>7. /\ bottom \in Delegations
          /\ Size(bottom) = Size(WithoutFirst(book.bottom)) + 1
        BY <2>4, <2>5, InsertType DEF Size
    <2> HIDE DEF bottom, top
    <2>8. Size(bottom) = Size(book.bottom) /\ Size(top) = Size(book.top)
        BY <2>3, <2>4, <2>6, <2>7, WellKeptParts
    <2>9. SizesFit(top, bottom)
        BY <2>8, WellKeptParts DEF SizesFit
    <2> QED
        BY <2>1, <2>6, <2>7, <2>8, <2>9, WellKeptParts, MovesKeep
<1>3. CASE ~trades
    <2> DEFINE top == [ delegations |-> Resorted(book.top, d, left),
                        total |-> SaturatingSub(book.top.total, less) ]
    <2>1. outcome = [ info |-> ResetTop(book.info, top),
                      top |-> top, bottom |-> book.bottom ]
        BY <1>3 DEF DecreaseTop
    <2>2. top \in Delegations /\ Size(top) = Size(book.top)
        <3> HIDE DEF left
        <3> QED
            BY <1>1, WellKeptParts, ResortedListType
    <2> HIDE DEF top
    <2>3. SizesFit(top, book.bottom)
        BY <2>2, WellKeptParts DEF SizesFit
    <2> QED
        BY <2>1, <2>2, <2>3, WellKeptParts, MovesKeep
<1> QED
    BY <1>2, <1>3

\* decrease_bottom_delegation
LEMMA DecreaseBottomKeeps ==
    ASSUME NEW book, WellKept(book), NEW d \in Owners(book.bottom), NEW less
    PROVE  /\ WellKept(DecreaseBottom(book, d, less))
           /\ SameCandidate(DecreaseBottom(book, d, less).info, book.info)
<1> DEFINE left == SaturatingSub(AmountOf(book.bottom, d), less)
           bottom == [ delegations |-> Resorted(book.bottom, d, left),
                       total |-> book.bottom.total ]
<1>1. left \in Nat /\ book.bottom.total \in Nat
    BY WellKeptParts, PositionType, ListParts, SaturatingSubType
<1>2. bottom \in Delegations /\ Size(bottom) = Size(book.bottom)
    <2> HIDE DEF left
    <2> QED
        BY <1>1, WellKeptParts, ResortedListType
<1>3. DecreaseBottom(book, d, less)
        = [ info |-> ResetBottom(book.info, bottom), top |-> book.top,
            bottom |-> bottom ]
    <2>1. [book.bottom EXCEPT !.delegations = Resorted(book.bottom, d, left)]
            = bottom
        BY WellKeptParts DEF Delegations
    <2> QED
        BY <2>1 DEF DecreaseBottom
<1> HIDE DEF bottom
<1>4. SizesFit(book.top, bottom)
    BY <1>2, WellKeptParts DEF SizesFit
<1> QED
    BY <1>2, <1>3, <1>4, WellKeptParts, MovesKeep

-----------------------------------------------------------------------------
(* The three calls that look a delegation up first.                        *)

\* The list that Lookup names is a list in which the delegation is.
LEMMA LookupFinds ==
    ASSUME NEW book, NEW d, NEW amount, NEW top_has_room
    PROVE  LET list == Lookup(book, d, amount, top_has_room)
           IN  /\ list = "top" => d \in Owners(book.top)
               /\ list = "bottom" => d \in Owners(book.bottom)
               /\ list \in {"top", "bottom", "missing"}
BY DEF Lookup

\* Keeps the book, and the part of it the delegations do not touch.
Keeps(outcome, book) ==
    WellKept(outcome) /\ SameCandidate(outcome.info, book.info)

\* rm_delegation_if_exists keeps the book when Lookup finds the delegation.
LEMMA RemoveDelegationKeeps ==
    ASSUME NEW book, WellKept(book), NEW d, NEW amount, NEW top_has_room, NEW list,
           list = Lookup(book, d, amount, top_has_room), list # "missing"
    PROVE  Keeps(RemoveDelegation(book, d, list), book)
BY LookupFinds, RemoveFromTopKeeps, RemoveFromBottomKeeps
   DEF RemoveDelegation, Keeps

\* increase_delegation keeps the book when Lookup finds the delegation.
LEMMA IncreaseDelegationKeeps ==
    ASSUME NEW book, WellKept(book), NEW d, NEW amount, NEW more \in Nat, NEW list,
           list = Lookup(book, d, amount, FALSE), list # "missing"
    PROVE  Keeps(IncreaseDelegation(book, d, amount, more, list), book)
BY LookupFinds, IncreaseTopKeeps, IncreaseBottomKeeps
   DEF IncreaseDelegation, Keeps

\* decrease_delegation keeps the book when Lookup finds the delegation.
LEMMA DecreaseDelegationKeeps ==
    ASSUME NEW book, WellKept(book), NEW d, NEW amount, NEW less, NEW list,
           list = Lookup(book, d, amount, FALSE), list # "missing"
    PROVE  Keeps(DecreaseDelegation(book, d, amount, less, list), book)
BY LookupFinds, DecreaseTopKeeps, DecreaseBottomKeeps
   DEF DecreaseDelegation, Keeps

===============================================================================
