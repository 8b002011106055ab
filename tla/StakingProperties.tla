--------------------------- MODULE StakingProperties ---------------------------
(***************************************************************************)
(* What should be true of AllychainStaking, and what comments in its       *)
(* source say of it that the code does not keep.                           *)
(***************************************************************************)
EXTENDS AllychainStaking

-----------------------------------------------------------------------------
(* Safety.                                                                 *)

\* The pool from which collators are selected holds exactly the active
\* candidates, each with its counted stake, whichever call changed the stake
\* or the status (update_active is called from five places, and
\* go_offline, go_online and the exit calls edit the pool directly).
PoolMatchesActive ==
    candidatePool = [ c \in { x \in DOMAIN candidateInfo :
                                IsActive(candidateInfo[x]) } |->
                      candidateInfo[c].total_counted ]

\* No account is a candidate and a delegator at once: join_candidates and the
\* first `delegate` each check the other role, at different times.
RolesDisjoint == DOMAIN candidateInfo \intersect DOMAIN delegatorState = {}

\* The metadata that add_, increase_, decrease_ and rm_delegation decide by is
\* a true summary of the two lists: counted stake, the three boundary
\* amounts, both capacities and the number of delegations.
MetadataMirrorsBooks == \A c \in DOMAIN candidateInfo : Mirrors(Book(c))

\* Both lists are within their limits and a delegation waits at the bottom
\* only while the top is full, through every kick, swap and refill.
ListsFillFromTheTop == \A c \in DOMAIN candidateInfo : FillsFromTheTop(Book(c))

\* The stake that counts for selection is the sum of the top delegations: the
\* recorded total of a top list, unlike that of a bottom list, never drifts.
TopTotalsAreSums ==
    \A c \in DOMAIN candidateInfo :
      topDelegations[c].total = SumOfList(topDelegations[c])

\* The top list holds the largest delegations: both lists are sorted, and no
\* bottom delegation is larger than a top one.
TopHoldsTheLargest ==
    \A c \in DOMAIN candidateInfo :
      /\ SortedList(topDelegations[c])
      /\ SortedList(bottomDelegations[c])
      /\ bottomDelegations[c].delegations # <<>> =>
           LowestAmount(topDelegations[c]) >= HighestAmount(bottomDelegations[c])

\* The candidate's book and the delegators' own records tell the same story:
\* each delegation stands exactly once in the two lists of its candidate,
\* with the amount in DelegatorState, and a delegator's total is their sum.
\* The `.expect`s of add_bottom_delegation and execute_leave_candidates rest
\* on it.
BooksMatchDelegators ==
    /\ \A c \in DOMAIN candidateInfo :
         LET entries == topDelegations[c].delegations
                        \o bottomDelegations[c].delegations
         IN  /\ \A i, j \in DOMAIN entries :
                  entries[i].owner = entries[j].owner => i = j
             /\ \A i \in DOMAIN entries :
                  /\ IsDelegator(entries[i].owner)
                  /\ LET held == delegatorState[entries[i].owner].delegations
                     IN  c \in DOMAIN held /\ held[c] = entries[i].amount
    /\ \A d \in DOMAIN delegatorState :
         LET del == delegatorState[d]
         IN  /\ del.delegations # EmptyMap
             /\ Cardinality(DOMAIN del.delegations) <= MaxDelegationsPerDelegator
             /\ del.total = SumFunction(del.delegations)
             /\ \A c \in DOMAIN del.delegations :
                  /\ IsCandidate(c)
                  /\ d \in Owners(topDelegations[c])
                           \union Owners(bottomDelegations[c])

\* With the amount in the delegator's record, the boundary amounts always
\* lead increase_delegation, decrease_delegation and rm_delegation_if_exists
\* to the list the delegation is in, ties between the lists included.  So the
\* calls that write before they look up never fail half-way, and
\* execute_leave_delegators never logs "STORAGE CORRUPTED".
LookupsFindTheirList ==
    \A d \in DOMAIN delegatorState :
      \A c \in DOMAIN delegatorState[d].delegations :
        LET held == delegatorState[d].delegations[c]
            list == IF d \in Owners(topDelegations[c]) THEN "top" ELSE "bottom"
        IN  /\ Lookup(Book(c), d, held, FALSE) = list
            /\ Lookup(Book(c), d, held, TopHasRoom(c)) = list

\* Pending requests are for delegations that still exist (kicks, revocations
\* and exits take theirs along), and less_total and revocations_count are
\* their sum and number.
RequestsAccounted ==
    \A d \in DOMAIN delegatorState :
      LET del == delegatorState[d]
          revokes == { c \in DOMAIN del.requests :
                         del.requests[c].action = "Revoke" }
      IN  /\ DOMAIN del.requests \subseteq DOMAIN del.delegations
          /\ del.less_total = SumFunction([ c \in DOMAIN del.requests |->
                                              del.requests[c].amount ])
          /\ del.revocations_count = Cardinality(revokes)

\* A decrease that was accepted stays within its limits until it is executed:
\* whatever happens meanwhile, it leaves the candidate its minimum bond and
\* the delegation its minimum.
PendingDecreasesLeaveMinimum ==
    /\ \A c \in DOMAIN candidateInfo :
         /\ candidateInfo[c].bond >= MinCandidateStk
         /\ \A request \in candidateInfo[c].request :
              candidateInfo[c].bond >= request.amount + MinCandidateStk
    /\ \A d \in DOMAIN delegatorState :
         LET del == delegatorState[d]
         IN  \A c \in DOMAIN del.requests :
               del.requests[c].action = "Decrease" =>
                 del.delegations[c] >= del.requests[c].amount + MinDelegation

\* Stake is never promised without a balance behind it: what a candidate has
\* bonded and a delegator has delegated is reserved in the currency pallet,
\* so no later unreserve comes up short.
StakeIsReserved ==
    /\ \A c \in DOMAIN candidateInfo : reserved[c] >= candidateInfo[c].bond
    /\ \A d \in DOMAIN delegatorState : reserved[d] >= delegatorState[d].total

\* Total, which sets the issuance, is never more than what is reserved.
TotalWithinReserved == total <= SumFunction(reserved)

\* Whatever root repairs, an active candidate is in the pool with its counted
\* stake (the hotfix may add others, which are leaving).
ActiveAreInPool ==
    \A c \in DOMAIN candidateInfo :
      IsActive(candidateInfo[c]) =>
        /\ c \in DOMAIN candidatePool
        /\ candidatePool[c] = candidateInfo[c].total_counted

BondedStake ==
    SumFunction([c \in DOMAIN candidateInfo |-> candidateInfo[c].bond])
    + SumFunction([d \in DOMAIN delegatorState |-> delegatorState[d].total])

\* As long as nobody tops up a delegation that is being revoked and nobody
\* takes stake off a bottom delegation (PrudentStep), the three ledgers agree
\* to the last unit: Total, the bonds and delegations, and the reserves.
LedgersAgree ==
    /\ total = BondedStake
    /\ \A a \in Accounts :
         reserved[a] = IF IsCandidate(a) THEN candidateInfo[a].bond
                       ELSE IF IsDelegator(a) THEN delegatorState[a].total
                       ELSE 0

-----------------------------------------------------------------------------
(* What a step may never do.                                               *)

Due(when) == when <= round

CandidateExits(c) ==
    /\ IsLeaving(candidateInfo[c])
    /\ Due(candidateInfo[c].status.when)
    /\ c \notin DOMAIN candidateInfo'

DelegatorExits(d) ==
    /\ IsLeaving(delegatorState[d])
    /\ Due(delegatorState[d].status.when)
    /\ d \notin DOMAIN delegatorState'

RevokeIsDue(d, c) ==
    /\ c \in DOMAIN delegatorState[d].requests
    /\ delegatorState[d].requests[c].action = "Revoke"
    /\ Due(delegatorState[d].requests[c].when_executable)

\* d was last of two full lists and somebody new brought more than d has
Outbid(d, c) ==
    /\ Len(topDelegations[c].delegations) = MaxTopDelegationsPerCandidate
    /\ Len(bottomDelegations[c].delegations) = MaxBottomDelegationsPerCandidate
    /\ Last(bottomDelegations[c].delegations).owner = d
    /\ \E e \in DOMAIN delegatorState' :
         /\ c \in DOMAIN delegatorState'[e].delegations
         /\ IsDelegator(e) => c \notin DOMAIN delegatorState[e].delegations
         /\ delegatorState'[e].delegations[c] > delegatorState[d].delegations[c]

\* A delegation ends only by a due exit of its candidate, a due exit or
\* revocation of its owner, or by being outbid when it was the very lowest.
DelegationsEndOnlyWithCause ==
    [][ \A d \in DOMAIN delegatorState :
          \A c \in DOMAIN delegatorState[d].delegations :
            (d \in DOMAIN delegatorState' =>
               c \notin DOMAIN delegatorState'[d].delegations)
            => \/ CandidateExits(c)
               \/ DelegatorExits(d)
               \/ RevokeIsDue(d, c)
               \/ Outbid(d, c) ]_vars

\* Who has the same amount in `before` and `after` keeps its place: everyone
\* of that amount who did not stand ahead of it before stands behind it after.
PlacesKept(before, after) ==
    \A d \in Owners(before) \intersect Owners(after) :
      AmountOf(before, d) = AmountOf(after, d) =>
        \A e \in Owners(after) \ {d} :
          /\ AmountOf(after, e) = AmountOf(after, d)
          /\ e \in Owners(before) => PositionOf(before, e) > PositionOf(before, d)
          => PositionOf(after, d) < PositionOf(after, e)

\* First come, first served within a list: a delegation whose amount does not
\* change keeps its place before all newcomers and later ones of its amount.
FirstComeFirstServedInList ==
    [][ \A c \in DOMAIN candidateInfo \intersect DOMAIN candidateInfo' :
          /\ PlacesKept(topDelegations[c], topDelegations'[c])
          /\ PlacesKept(bottomDelegations[c], bottomDelegations'[c]) ]_vars

\* A step that neither adds to a delegation with a pending revocation nor
\* lowers a delegation within the bottom list.
PrudentStep ==
    /\ \A d \in DOMAIN delegatorState \intersect DOMAIN delegatorState' :
         \A c \in DOMAIN delegatorState[d].requests
                  \intersect DOMAIN delegatorState'[d].delegations :
           delegatorState[d].requests[c].action = "Revoke" =>
             delegatorState'[d].delegations[c] <= delegatorState[d].delegations[c]
    /\ \A c \in DOMAIN bottomDelegations \intersect DOMAIN bottomDelegations' :
         \A d \in Owners(bottomDelegations[c]) \intersect Owners(bottomDelegations'[c]) :
           AmountOf(bottomDelegations'[c], d) >= AmountOf(bottomDelegations[c], d)

PrudentSpec == Init /\ [][Next /\ PrudentStep]_vars

-----------------------------------------------------------------------------
(* What comments in the source say of the pallet and the code does not keep.*)

\* `Total` is documented as "Total capital locked by this staking pallet": it
\* is at least what candidates and delegators have bonded.
TotalCoversBondedStake == total >= BondedStake

\* `Delegator.total` is documented as "Total balance locked for this
\* delegator": for who is not also a candidate it is all that is reserved.
DelegatorTotalIsItsReserve ==
    \A d \in DOMAIN delegatorState : reserved[d] = delegatorState[d].total

=============================================================================
