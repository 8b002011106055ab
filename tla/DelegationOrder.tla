---------------------------- MODULE DelegationOrder ----------------------------
(***************************************************************************)
(* The order algorithms of `Delegations` as the code runs them - the early *)
(* push, the binary search with its forward scan, the stable sort of the   *)
(* whole list - against the declarative Insert and Resorted with which     *)
(* DelegationBook describes their result.  The lists are those that        *)
(* insertions, removals and changes of amount can produce.                 *)
(***************************************************************************)
EXTENDS DelegationBook

CONSTANTS
    OrderAmounts,     \* amounts of the delegations
    MaxLength         \* longest list explored

ASSUME OrderAssumption == OrderAmounts \subseteq Nat

VARIABLE list

Amount(s, i) == s[i].amount

\* binary_search_by(|x| delegation.amount.cmp(&x.amount)): the standard
\* library returns any match, or the place that keeps the order.
Matches(s, amount) == { i \in DOMAIN s : Amount(s, i) = amount }
GapFor(s, amount) == Cardinality({ i \in DOMAIN s : Amount(s, i) > amount }) + 1

\* From a match at i the code walks to the first later entry with another
\* amount, and inserts there, or pushes when there is none.
PlaceAfterMatch(s, i, amount) ==
    LET later == { j \in i + 1 .. Len(s) : Amount(s, j) # amount }
    IN  IF later = {} THEN Len(s) + 1 ELSE Min(later)

\* The places where insert_sorted_greatest_to_least may put the delegation.
PlacesInCode(s, amount) ==
    IF s # <<>> /\ Amount(s, Len(s)) = amount THEN { Len(s) + 1 }
    ELSE IF Matches(s, amount) = {} THEN { GapFor(s, amount) }
    ELSE { PlaceAfterMatch(s, i, amount) : i \in Matches(s, amount) }

InsertInCode(bond) ==
    { [ delegations |-> InsertAt(list.delegations, p, bond),
        total |-> list.total + bond.amount ] :
      p \in PlacesInCode(list.delegations, bond.amount) }

\* sort_by(|a, b| b.amount.cmp(&a.amount)) is stable: an entry ends up behind
\* the larger ones and the equal ones that stood ahead of it.
RankInSort(s, i) ==
    1 + Cardinality({ j \in DOMAIN s : \/ Amount(s, j) > Amount(s, i)
                                       \/ Amount(s, j) = Amount(s, i) /\ j < i })

StableSort(s) ==
    [ k \in DOMAIN s |-> s[CHOOSE i \in DOMAIN s : RankInSort(s, i) = k] ]

\* The map over all entries that changes d's amount, then the sort.
ResortInCode(d, amount) ==
    StableSort([ i \in DOMAIN list.delegations |->
                   IF list.delegations[i].owner = d
                   THEN [owner |-> d, amount |-> amount]
                   ELSE list.delegations[i] ])

-----------------------------------------------------------------------------
Init == list = NoDelegations

InsertStep(d, amount) ==
    /\ d \notin Owners(list)
    /\ Len(list.delegations) < MaxLength
    /\ list' \in InsertInCode([owner |-> d, amount |-> amount])

ChangeStep(d, amount) ==
    /\ d \in Owners(list)
    /\ list' = [list EXCEPT !.delegations = ResortInCode(d, amount)]

RemoveStep(d) ==
    /\ d \in Owners(list)
    /\ list' = Without(list, d, AmountOf(list, d))

Next ==
    \E d \in Accounts :
      \/ RemoveStep(d)
      \/ \E amount \in OrderAmounts : InsertStep(d, amount) \/ ChangeStep(d, amount)

Spec == Init /\ [][Next]_list

\* Totals are not compared here and would grow without bound.
ListView == list.delegations

-----------------------------------------------------------------------------
\* Whichever match the binary search returns, insertion puts a delegation
\* behind all that are at least as large and ahead of all smaller ones.
InsertAgrees ==
    \A d \in Accounts \ Owners(list), amount \in OrderAmounts :
      LET bond == [owner |-> d, amount |-> amount]
      IN  InsertInCode(bond) = { Insert(list, bond) }

\* Moving the one changed entry is what the stable sort of the list does.
ResortAgrees ==
    \A d \in Owners(list), amount \in OrderAmounts :
      ResortInCode(d, amount) = Resorted(list, d, amount)

\* Both together: the declarative lists are the lists of the code.
OrderAgrees == InsertAgrees /\ ResortAgrees

=============================================================================
