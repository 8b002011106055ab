---------------------------- MODULE DelegationBook ----------------------------
(***************************************************************************)
(* The delegation book of one collator candidate of the allychain-staking  *)
(* pallet: the candidate's metadata and its two bounded, sorted lists of   *)
(* delegations, top (counted towards the candidate's stake) and bottom.    *)
(*                                                                         *)
(* The methods of `Delegations` and `CandidateMetadata` are pure operators *)
(* here: each takes the book as it is in storage and returns the outcome   *)
(* that the extrinsic then writes back.  An early return with an error is  *)
(* a predicate (CanAdd, Lookup) that the caller uses as a guard.           *)
(*                                                                         *)
(* Abstractions: amounts are naturals (balances are u128 and bounded by    *)
(* the total issuance, so saturating additions never saturate;             *)
(* saturating subtractions are kept); an Option is a set with at most one  *)
(* member; events and weights are left out.                                *)
(***************************************************************************)
EXTENDS SequencesExt

CONSTANTS
    Accounts,                          \* account identifiers
    MaxTopDelegationsPerCandidate,
    MaxBottomDelegationsPerCandidate

\* Both lists have room for at least one delegation: the runtimes set 300 and
\* 50, and add_bottom_delegation relies on it ("full capacity (>0)").
ASSUME CapacityAssumption ==
    /\ MaxTopDelegationsPerCandidate \in Nat \ {0}
    /\ MaxBottomDelegationsPerCandidate \in Nat \ {0}

-----------------------------------------------------------------------------
(* Partial functions: the storage maps of the pallet.                      *)

IsMap(f, S, T) == DOMAIN f \subseteq S /\ f \in [DOMAIN f -> T]

EmptyMap == [k \in {} |-> k]

Put(f, k, v) == [x \in DOMAIN f \union {k} |-> IF x = k THEN v ELSE f[x]]

Drop(f, k) == [x \in DOMAIN f \ {k} |-> f[x]]

\* Saturating subtraction: the difference when it is a natural number, else 0.
SaturatingSub(a, b) == IF b \in 0..a THEN a - b ELSE 0

-----------------------------------------------------------------------------
(* Types.                                                                  *)

Bond == [owner : Accounts, amount : Nat]

Delegations == [delegations : Seq(Bond), total : Nat]

Capacity == {"Full", "Empty", "Partial"}

\* CollatorStatus and DelegatorStatus: `when` is the round of Leaving(when).
Active == [kind |-> "Active", when |-> 0]
Idle == [kind |-> "Idle", when |-> 0]
Leaving(when) == [kind |-> "Leaving", when |-> when]
Status == [kind : {"Active", "Idle", "Leaving"}, when : Nat]

CandidateBondLessRequest == [amount : Nat, when_executable : Nat]

CandidateMetadata ==
    [ bond : Nat,
      delegation_count : Nat,
      total_counted : Nat,
      lowest_top : Nat,
      highest_bottom : Nat,
      lowest_bottom : Nat,
      top_capacity : Capacity,
      bottom_capacity : Capacity,
      request : SUBSET CandidateBondLessRequest,
      status : Status ]

Books == [info : CandidateMetadata, top : Delegations, bottom : Delegations]

\* CandidateMetadata::new
NewCandidate(bond) ==
    [ bond |-> bond,
      delegation_count |-> 0,
      total_counted |-> bond,
      lowest_top |-> 0,
      highest_bottom |-> 0,
      lowest_bottom |-> 0,
      top_capacity |-> "Empty",
      bottom_capacity |-> "Empty",
      request |-> {},
      status |-> Active ]

IsActive(info) == info.status.kind = "Active"
IsLeaving(info) == info.status.kind = "Leaving"

NoDelegations == [delegations |-> <<>>, total |-> 0]

-----------------------------------------------------------------------------
(* One list of delegations, sorted from the greatest amount to the least.  *)

Owners(list) == { list.delegations[i].owner : i \in DOMAIN list.delegations }

\* Where d stands in the list.  An account owns at most one entry (property
\* BooksMatchDelegators), so the code's filter and map over all the entries
\* of an owner touch this one.
PositionOf(list, d) ==
    CHOOSE i \in DOMAIN list.delegations : list.delegations[i].owner = d

AmountOf(list, d) == list.delegations[PositionOf(list, d)].amount

LowestAmount(list) ==
    IF list.delegations = <<>> THEN 0 ELSE Last(list.delegations).amount

HighestAmount(list) ==
    IF list.delegations = <<>> THEN 0 ELSE Head(list.delegations).amount

CapacityOf(list, max) ==
    IF Len(list.delegations) >= max THEN "Full"
    ELSE IF list.delegations = <<>> THEN "Empty" ELSE "Partial"

\* A faulty insertion, ahead of the equals (the sensitivity of
\* FirstComeFirstServedInList and InsertAgrees).
Insert_AheadOfEquals(list, bond) ==
    LET ahead == { i \in DOMAIN list.delegations :
                     list.delegations[i].amount > bond.amount }
    IN  [ delegations |-> InsertAt(list.delegations, Cardinality(ahead) + 1, bond),
          total |-> list.total + bond.amount ]

\* insert_sorted_greatest_to_least: the new delegation goes behind every
\* delegation that is at least as large (first come, first served).
Insert(list, bond) ==
    LET ahead == { i \in DOMAIN list.delegations :
                     list.delegations[i].amount >= bond.amount }
    IN  [ delegations |-> InsertAt(list.delegations, Cardinality(ahead) + 1, bond),
          total |-> list.total + bond.amount ]

\* filter(|d| d.owner != delegator), and `amount` off the recorded total
Without(list, d, amount) ==
    [ delegations |-> RemoveAt(list.delegations, PositionOf(list, d)),
      total |-> SaturatingSub(list.total, amount) ]

\* delegations.pop()
WithoutLast(list) ==
    [ delegations |-> Front(list.delegations),
      total |-> SaturatingSub(list.total, Last(list.delegations).amount) ]

\* delegations.remove(0)
WithoutFirst(list) ==
    [ delegations |-> Tail(list.delegations),
      total |-> SaturatingSub(list.total, Head(list.delegations).amount) ]

\* Changes d's amount in place and calls sort_greatest_to_least, a stable
\* sort of a list in which only this entry is out of order: those larger go
\* ahead of it, and among its equals those that stood ahead of it.
Resorted(list, d, amount) ==
    LET s == list.delegations
        p == PositionOf(list, d)
        ahead == { i \in DOMAIN s \ {p} :
                     s[i].amount > amount \/ (i < p /\ s[i].amount = amount) }
    IN  InsertAt(RemoveAt(s, p), Cardinality(ahead) + 1,
                 [owner |-> d, amount |-> amount])

-----------------------------------------------------------------------------
(* The book of a candidate: the methods of CandidateMetadata.              *)

\* reset_top_data, without the update of CandidatePool (see SaveBooks in
\* AllychainStaking)
ResetTop(info, top) ==
    [ info EXCEPT !.lowest_top = LowestAmount(top),
                  !.top_capacity = CapacityOf(top, MaxTopDelegationsPerCandidate),
                  !.total_counted = info.bond + top.total ]

ResetBottom(info, bottom) ==
    [ info EXCEPT !.lowest_bottom = LowestAmount(bottom),
                  !.highest_bottom = HighestAmount(bottom),
                  !.bottom_capacity =
                      CapacityOf(bottom, MaxBottomDelegationsPerCandidate) ]

CountOneMore(info) == [info EXCEPT !.delegation_count = @ + 1]
CountOneLess(info) == [info EXCEPT !.delegation_count = SaturatingSub(@, 1)]

\* add_bottom_delegation.  `kicked` is the delegation that had to go because
\* the list was full; AllychainStaking!Delegate settles it with its owner.
AddToBottom(book, bumped_from_top, bond) ==
    LET full == Len(book.bottom.delegations) = MaxBottomDelegationsPerCandidate
        bottom == Insert(IF full THEN WithoutLast(book.bottom) ELSE book.bottom,
                         bond)
        info == IF full \/ bumped_from_top THEN book.info
                                           ELSE CountOneMore(book.info)
    IN  [ info |-> ResetBottom(info, bottom),
          top |-> book.top,
          bottom |-> bottom,
          kicked |-> IF full THEN { Last(book.bottom.delegations) } ELSE {} ]

\* A faulty variant that does not report what the kick takes off the total.
LessTotalStaked_Forgotten(info) == {}

\* less_total_staked, an Option: the amount about to be kicked from the bottom
LessTotalStaked(info) ==
    IF info.bottom_capacity = "Full" THEN { info.lowest_bottom } ELSE {}

\* add_top_delegation
AddToTop(book, bond) ==
    LET full == Len(book.top.delegations) = MaxTopDelegationsPerCandidate
        less == IF full THEN LessTotalStaked(book.info) ELSE {}
        below == IF full
                 THEN AddToBottom(book, TRUE, Last(book.top.delegations))
                 ELSE [ info |-> book.info, bottom |-> book.bottom,
                        kicked |-> {} ]
        top == Insert(IF full THEN WithoutLast(book.top) ELSE book.top, bond)
        info == ResetTop(below.info, top)
    IN  [ info |-> IF less = {} THEN CountOneMore(info) ELSE info,
          top |-> top,
          bottom |-> below.bottom,
          kicked |-> below.kicked,
          less |-> less ]

\* A faulty check that lets an equal amount kick the lowest bottom.
CanAdd_KicksEqual(info, amount) ==
    \/ info.top_capacity # "Full"
    \/ info.lowest_top < amount
    \/ info.bottom_capacity # "Full"
    \/ amount >= info.lowest_bottom

\* add_delegation fails when both lists are full and the new delegation beats
\* neither the lowest top nor the lowest bottom.
CanAdd(info, amount) ==
    \/ info.top_capacity # "Full"
    \/ info.lowest_top < amount
    \/ info.bottom_capacity # "Full"
    \/ amount > info.lowest_bottom

AddDelegation(book, bond) ==
    IF book.info.top_capacity # "Full" \/ book.info.lowest_top < bond.amount
    THEN AddToTop(book, bond)
    ELSE LET outcome == AddToBottom(book, FALSE, bond)
         IN  [ info |-> outcome.info,
               top |-> outcome.top,
               bottom |-> outcome.bottom,
               kicked |-> outcome.kicked,
               less |-> LessTotalStaked(book.info) ]

\* A faulty lookup that takes every delegation of at least the lowest top
\* amount to be in the top list, ties with the bottom included.
Lookup_NoFallback(book, d, amount, top_has_room) ==
    IF top_has_room \/ amount >= book.info.lowest_top
    THEN IF d \in Owners(book.top) THEN "top" ELSE "missing"
    ELSE IF d \in Owners(book.bottom) THEN "bottom" ELSE "missing"

\* The list in which rm_delegation_if_exists, increase_delegation and
\* decrease_delegation find the delegation of d, from the amount the caller
\* says it has; "missing" is Err(DelegationDNE).  Only a removal takes into
\* account that the top list has room (top_has_room).
Lookup(book, d, amount, top_has_room) ==
    LET tie == book.info.lowest_top = book.info.highest_bottom
        try_top == top_has_room \/ amount >= book.info.lowest_top
        try_bottom == ~try_top \/ (tie /\ ~top_has_room)
    IN  IF try_top /\ d \in Owners(book.top) THEN "top"
        ELSE IF try_bottom /\ d \in Owners(book.bottom) THEN "bottom"
        ELSE "missing"

\* A faulty removal that leaves the place at the top free.
RemoveFromTop_NoRefill(book, d) ==
    LET top == Without(book.top, d, AmountOf(book.top, d))
    IN  [ info |-> CountOneLess(ResetTop(book.info, top)),
          top |-> top,
          bottom |-> book.bottom ]

\* rm_top_delegation: the highest bottom delegation takes the free place.
RemoveFromTop(book, d) ==
    LET refill == book.info.bottom_capacity # "Empty"
        top == Without(book.top, d, AmountOf(book.top, d))
        newBottom == IF refill THEN WithoutFirst(book.bottom) ELSE book.bottom
        newTop == IF refill THEN Insert(top, Head(book.bottom.delegations))
                            ELSE top
        info == IF refill THEN ResetBottom(book.info, newBottom) ELSE book.info
    IN  [ info |-> CountOneLess(ResetTop(info, newTop)),
          top |-> newTop,
          bottom |-> newBottom ]

\* A faulty removal that forgets to refresh the bottom metadata.
RemoveFromBottom_NoReset(book, d) ==
    LET bottom == Without(book.bottom, d, AmountOf(book.bottom, d))
    IN  [ info |-> CountOneLess(book.info), top |-> book.top, bottom |-> bottom ]

\* rm_bottom_delegation
RemoveFromBottom(book, d) ==
    LET bottom == Without(book.bottom, d, AmountOf(book.bottom, d))
    IN  [ info |-> CountOneLess(ResetBottom(book.info, bottom)),
          top |-> book.top,
          bottom |-> bottom ]

\* rm_delegation_if_exists, once Lookup has found the delegation
RemoveDelegation(book, d, list) ==
    IF list = "top" THEN RemoveFromTop(book, d) ELSE RemoveFromBottom(book, d)

IncreaseTop(book, d, more) ==
    LET top == [ delegations |-> Resorted(book.top, d, AmountOf(book.top, d) + more),
                 total |-> book.top.total + more ]
    IN  [ info |-> ResetTop(book.info, top), top |-> top, bottom |-> book.bottom ]

\* increase_bottom_delegation: above the lowest top the delegation moves up,
\* and a full top list sends its lowest down.  `amount` is the delegation
\* according to the delegator's own record.
IncreaseBottom(book, d, amount, more) ==
    IF amount + more > book.info.lowest_top
    THEN LET full == CapacityOf(book.top, MaxTopDelegationsPerCandidate) = "Full"
             rest == Without(book.bottom, d, amount)
             bottom == IF full THEN Insert(rest, Last(book.top.delegations))
                               ELSE rest
             top == Insert(IF full THEN WithoutLast(book.top) ELSE book.top,
                           [ owner |-> d,
                             amount |-> AmountOf(book.bottom, d) + more ])
         IN  [ info |-> ResetBottom(ResetTop(book.info, top), bottom),
               top |-> top,
               bottom |-> bottom ]
    ELSE LET bottom == [ delegations |-> Resorted(book.bottom, d,
                                            AmountOf(book.bottom, d) + more),
                         total |-> book.bottom.total + more ]
         IN  [ info |-> ResetBottom(book.info, bottom),
               top |-> book.top,
               bottom |-> bottom ]

\* increase_delegation, once Lookup has found the delegation
IncreaseDelegation(book, d, amount, more, list) ==
    IF list = "top" THEN IncreaseTop(book, d, more)
                    ELSE IncreaseBottom(book, d, amount, more)

\* A faulty decrease that never sends the delegation down.
DecreaseTop_Stays(book, d, amount, less) ==
    LET top == [ delegations |-> Resorted(book.top, d,
                              SaturatingSub(AmountOf(book.top, d), less)),
                 total |-> SaturatingSub(book.top.total, less) ]
    IN  [ info |-> ResetTop(book.info, top), top |-> top, bottom |-> book.bottom ]

\* A faulty decrease that, like decrease_bottom_delegation, leaves the recorded
\* total of the list as it was.
DecreaseTop_TotalKept(book, d, amount, less) ==
    LET top == [ book.top EXCEPT !.delegations =
                   Resorted(book.top, d,
                            SaturatingSub(AmountOf(book.top, d), less)) ]
    IN  [ info |-> ResetTop(book.info, top), top |-> top, bottom |-> book.bottom ]

\* decrease_top_delegation: below the highest bottom the two trade places.
DecreaseTop(book, d, amount, less) ==
    IF /\ SaturatingSub(amount, less) < book.info.highest_bottom
       /\ book.info.top_capacity = "Full"
       /\ book.info.bottom_capacity # "Empty"
    THEN LET held == AmountOf(book.top, d)
             top == Insert(Without(book.top, d, held),
                           Head(book.bottom.delegations))
             bottom == Insert(WithoutFirst(book.bottom),
                              [ owner |-> d, amount |-> SaturatingSub(held, less) ])
         IN  [ info |-> ResetTop(ResetBottom(book.info, bottom), top),
               top |-> top,
               bottom |-> bottom ]
    ELSE LET top == [ delegations |-> Resorted(book.top, d,
                                SaturatingSub(AmountOf(book.top, d), less)),
                      total |-> SaturatingSub(book.top.total, less) ]
         IN  [ info |-> ResetTop(book.info, top),
               top |-> top,
               bottom |-> book.bottom ]

\* decrease_bottom_delegation leaves the recorded total of the list as it was.
DecreaseBottom(book, d, less) ==
    LET bottom == [ book.bottom EXCEPT !.delegations =
                      Resorted(book.bottom, d,
                               SaturatingSub(AmountOf(book.bottom, d), less)) ]
    IN  [ info |-> ResetBottom(book.info, bottom),
          top |-> book.top,
          bottom |-> bottom ]

\* decrease_delegation, once Lookup has found the delegation
DecreaseDelegation(book, d, amount, less, list) ==
    IF list = "top" THEN DecreaseTop(book, d, amount, less)
                    ELSE DecreaseBottom(book, d, less)

-----------------------------------------------------------------------------
(* What every method keeps of a book, whatever the order of calls.         *)

\* The metadata is a true summary of the two lists.
Mirrors(book) ==
    LET info == book.info
        top == book.top
        bottom == book.bottom
    IN  /\ info.total_counted = info.bond + top.total
        /\ info.delegation_count
             = Len(top.delegations) + Len(bottom.delegations)
        /\ info.lowest_top = LowestAmount(top)
        /\ info.highest_bottom = HighestAmount(bottom)
        /\ info.lowest_bottom = LowestAmount(bottom)
        /\ info.top_capacity = CapacityOf(top, MaxTopDelegationsPerCandidate)
        /\ info.bottom_capacity
             = CapacityOf(bottom, MaxBottomDelegationsPerCandidate)

\* The lists are within their limits, and nothing waits at the bottom while
\* the top has room.
FillsFromTheTop(book) ==
    /\ Len(book.top.delegations) <= MaxTopDelegationsPerCandidate
    /\ Len(book.bottom.delegations) <= MaxBottomDelegationsPerCandidate
    /\ book.bottom.delegations # <<>> =>
         Len(book.top.delegations) = MaxTopDelegationsPerCandidate

\* From the greatest amount to the least.
SortedList(list) ==
    \A i, j \in DOMAIN list.delegations :
      i < j => list.delegations[i].amount >= list.delegations[j].amount

\* What the recorded total of a list stands for.
SumOfList(list) ==
    SumFunction([i \in DOMAIN list.delegations |-> list.delegations[i].amount])

=============================================================================
