--------------------------- MODULE AllychainStaking ---------------------------
(***************************************************************************)
(* The bonding half of the allychain-staking pallet: candidates that bond, *)
(* delegators that delegate to them, the delayed requests of both, and the *)
(* book-keeping that ties them together (the candidate pool, the total     *)
(* locked stake and the balances reserved with the currency pallet).       *)
(*                                                                         *)
(* One action is one successful dispatch of one extrinsic.  Extrinsics of  *)
(* a block run one after the other and a dispatch that fails before its    *)
(* first write leaves no trace, so it is no step.  This runtime does not   *)
(* roll back: the two calls that can fail after a write keep what they     *)
(* wrote (DelegatorBondMore, ExecuteDelegationBondLess).                   *)
(*                                                                         *)
(* Weight hints (candidate_count, ...) are taken to be large enough; a     *)
(* smaller one only makes the call fail at once.                           *)
(***************************************************************************)
EXTENDS DelegationBook

CONSTANTS
    MinCandidateStk, MinDelegatorStk, MinDelegation,
    MaxDelegationsPerDelegator,
    LeaveCandidatesDelay, CandidateBondLessDelay, LeaveDelegatorsDelay,
    RevokeDelegationDelay, DelegationBondLessDelay,
    \* bounds of the model
    Joiners,          \* accounts that may call join_candidates
    Backers,          \* accounts that may call delegate
    BondAmounts,      \* amounts a candidate may bond at first
    Amounts,          \* amounts delegated, and added or taken off later
    Endowment,        \* balance of every account, free and reserved
    MaxRound          \* last round explored

\* A delegator with nothing at stake does not exist: the runtimes set both
\* minima well above zero.
ASSUME StakingAssumption ==
    /\ {MinCandidateStk, MinDelegatorStk, MinDelegation} \subseteq Nat \ {0}
    /\ MaxDelegationsPerDelegator \in Nat \ {0}
    /\ {LeaveCandidatesDelay, CandidateBondLessDelay, LeaveDelegatorsDelay,
        RevokeDelegationDelay, DelegationBondLessDelay} \subseteq Nat
    /\ IsFiniteSet(Accounts)
    /\ Joiners \subseteq Accounts /\ Backers \subseteq Accounts
    /\ BondAmounts \subseteq Nat /\ Amounts \subseteq Nat
    /\ Endowment \in Nat /\ MaxRound \in Nat

VARIABLES
    round,                \* Round.current
    candidateInfo,        \* CandidateInfo
    topDelegations,       \* TopDelegations
    bottomDelegations,    \* BottomDelegations
    candidatePool,        \* CandidatePool: owner -> amount
    delegatorState,       \* DelegatorState
    total,                \* Total
    reserved              \* reserved balance of every account (currency pallet)

books == <<candidateInfo, topDelegations, bottomDelegations, candidatePool>>
vars == <<round, candidateInfo, topDelegations, bottomDelegations,
          candidatePool, delegatorState, total, reserved>>

-----------------------------------------------------------------------------
(* Delegators.                                                             *)

DelegationRequest ==
    [amount : Nat, when_executable : Nat, action : {"Revoke", "Decrease"}]

DelegatorOK(del) ==
    /\ del \in [ delegations : { del.delegations },
                 total : Nat,
                 requests : { del.requests },
                 less_total : Nat,
                 revocations_count : Nat,
                 status : Status ]
    /\ IsMap(del.delegations, Accounts, Nat)
    /\ IsMap(del.requests, Accounts, DelegationRequest)

\* Delegator::new
NewDelegator(c, amount) ==
    [ delegations |-> [x \in {c} |-> amount],
      total |-> amount,
      requests |-> EmptyMap,
      less_total |-> 0,
      revocations_count |-> 0,
      status |-> Active ]

\* A faulty removal that leaves the delegator's total as it was.
WithoutDelegation_TotalKept(del, c) ==
    IF c \in DOMAIN del.delegations
    THEN [del EXCEPT !.delegations = Drop(@, c)] ELSE del

\* Delegator::rm_delegation
WithoutDelegation(del, c) ==
    IF c \in DOMAIN del.delegations
    THEN [ del EXCEPT !.delegations = Drop(@, c),
                      !.total = SaturatingSub(@, del.delegations[c]) ]
    ELSE del

\* requests.remove(c), with what it took off less_total and revocations_count
WithoutRequest(del, c) ==
    IF c \in DOMAIN del.requests
    THEN [ del EXCEPT
             !.requests = Drop(@, c),
             !.less_total = SaturatingSub(@, del.requests[c].amount),
             !.revocations_count = IF del.requests[c].action = "Revoke"
                                   THEN SaturatingSub(@, 1) ELSE @ ]
    ELSE del

\* PendingDelegationRequests::bond_less and ::revoke
WithRequest(del, c, amount, when, action) ==
    [ del EXCEPT
        !.requests = Put(@, c, [ amount |-> amount, when_executable |-> when,
                                 action |-> action ]),
        !.less_total = @ + amount,
        !.revocations_count = IF action = "Revoke" THEN @ + 1 ELSE @ ]

IsDelegator(a) == a \in DOMAIN delegatorState
IsCandidate(a) == a \in DOMAIN candidateInfo

-----------------------------------------------------------------------------
(* The books in storage.                                                   *)

Book(c) == [ info |-> candidateInfo[c],
             top |-> topDelegations[c],
             bottom |-> bottomDelegations[c] ]

TopHasRoom(c) == candidateInfo[c].top_capacity # "Full"

\* The fault of an earlier version: the pool kept the old value when only the
\* delegations changed.
PoolWith_Stale(infos) == candidatePool

\* CandidatePool once `infos` are written: update_active is called for an
\* active candidate whose counted stake changed (reset_top_data).
PoolWith(infos) ==
    LET moved == { c \in DOMAIN infos :
                     /\ IsActive(infos[c])
                     /\ infos[c].total_counted # candidateInfo[c].total_counted }
    IN  [ c \in DOMAIN candidatePool \union moved |->
            IF c \in moved THEN infos[c].total_counted ELSE candidatePool[c] ]

\* Writes the outcomes of book operations back, one per candidate.
SaveBooks(outcomes) ==
    /\ candidateInfo' = [ c \in DOMAIN candidateInfo |->
         IF c \in DOMAIN outcomes THEN outcomes[c].info ELSE candidateInfo[c] ]
    /\ topDelegations' = [ c \in DOMAIN topDelegations |->
         IF c \in DOMAIN outcomes THEN outcomes[c].top ELSE topDelegations[c] ]
    /\ bottomDelegations' = [ c \in DOMAIN bottomDelegations |->
         IF c \in DOMAIN outcomes THEN outcomes[c].bottom
                                  ELSE bottomDelegations[c] ]
    /\ candidatePool' = PoolWith([c \in DOMAIN outcomes |-> outcomes[c].info])

SaveBook(c, outcome) == SaveBooks([x \in {c} |-> outcome])

SaveInfo(c, info) ==
    /\ candidateInfo' = [candidateInfo EXCEPT ![c] = info]
    /\ UNCHANGED <<topDelegations, bottomDelegations>>

SaveDelegator(d, del) == delegatorState' = [delegatorState EXCEPT ![d] = del]

\* Currency::can_reserve, reserve and unreserve
CanReserve(a, amount) == reserved[a] + amount <= Endowment
Reserve(a, amount) == reserved' = [reserved EXCEPT ![a] = @ + amount]
Unreserve(a, amount) ==
    reserved' = [reserved EXCEPT ![a] = SaturatingSub(@, amount)]

-----------------------------------------------------------------------------
\* The genesis build starts round 1.  Its candidates and delegations enter
\* by join_candidates and delegate, the actions below.
Init ==
    /\ round = 1
    /\ candidateInfo = EmptyMap
    /\ topDelegations = EmptyMap
    /\ bottomDelegations = EmptyMap
    /\ candidatePool = EmptyMap
    /\ delegatorState = EmptyMap
    /\ total = 0
    /\ reserved = [a \in Accounts |-> 0]

\* on_initialize starts a new round.  Of the handler's state this module has
\* only Round.current; selection, snapshots and payouts read the books and
\* write none of them.
StartRound ==
    /\ round < MaxRound
    /\ round' = round + 1
    /\ UNCHANGED <<books, delegatorState, total, reserved>>

-----------------------------------------------------------------------------
(* Extrinsics of candidates.                                               *)

JoinCandidates(acc, bond) ==
    /\ ~IsCandidate(acc)
    /\ ~IsDelegator(acc)
    /\ bond >= MinCandidateStk
    /\ acc \notin DOMAIN candidatePool
    /\ CanReserve(acc, bond)
    /\ Reserve(acc, bond)
    /\ candidateInfo' = Put(candidateInfo, acc, NewCandidate(bond))
    /\ topDelegations' = Put(topDelegations, acc, NoDelegations)
    /\ bottomDelegations' = Put(bottomDelegations, acc, NoDelegations)
    /\ candidatePool' = Put(candidatePool, acc, bond)
    /\ total' = total + bond
    /\ UNCHANGED <<round, delegatorState>>

ScheduleLeaveCandidates(c) ==
    /\ IsCandidate(c)
    /\ ~IsLeaving(candidateInfo[c])
    /\ SaveInfo(c, [ candidateInfo[c] EXCEPT
                       !.status = Leaving(round + LeaveCandidatesDelay) ])
    /\ candidatePool' = Drop(candidatePool, c)
    /\ UNCHANGED <<round, delegatorState, total, reserved>>

\* What execute_leave_candidates gives back to account a for candidate c.
StakeReturned(c, a) ==
    IF a = c THEN candidateInfo[c].bond
    ELSE (IF a \in Owners(topDelegations[c])
          THEN AmountOf(topDelegations[c], a) ELSE 0)
         + (IF a \in Owners(bottomDelegations[c])
            THEN AmountOf(bottomDelegations[c], a) ELSE 0)

\* What the candidate's exit takes off Total.
BackingOf_CountedOnly(c) == candidateInfo[c].total_counted

BackingOf(c) == candidateInfo[c].bond + topDelegations[c].total
                                      + bottomDelegations[c].total

\* A faulty exit that keeps the delegation in the delegator's record.
AfterCandidateLeft_DelegationStays(d, c) == WithoutRequest(delegatorState[d], c)

\* A delegator of a candidate that left: its delegation and request go.
AfterCandidateLeft(d, c) ==
    WithoutRequest(WithoutDelegation(delegatorState[d], c), c)

\* A faulty exit that leaves the bottom list in storage.
RemoveCandidate_BottomStays(c) ==
    /\ candidateInfo' = Drop(candidateInfo, c)
    /\ topDelegations' = Drop(topDelegations, c)
    /\ UNCHANGED bottomDelegations

RemoveCandidate(c) ==
    /\ candidateInfo' = Drop(candidateInfo, c)
    /\ topDelegations' = Drop(topDelegations, c)
    /\ bottomDelegations' = Drop(bottomDelegations, c)

ExecuteLeaveCandidates(c) ==
    /\ IsCandidate(c)
    /\ IsLeaving(candidateInfo[c])
    /\ round >= candidateInfo[c].status.when
    /\ LET owners == Owners(topDelegations[c]) \union Owners(bottomDelegations[c])
           gone == { d \in owners :
                       WithoutDelegation(delegatorState[d], c).total = 0 }
       IN  delegatorState' = [ d \in DOMAIN delegatorState \ gone |->
               IF d \in owners THEN AfterCandidateLeft(d, c)
                               ELSE delegatorState[d] ]
    /\ reserved' = [ a \in Accounts |->
                       SaturatingSub(reserved[a], StakeReturned(c, a)) ]
    /\ total' = SaturatingSub(total, BackingOf(c))
    /\ RemoveCandidate(c)
    /\ UNCHANGED <<round, candidatePool>>

CancelLeaveCandidates(c) ==
    /\ IsCandidate(c)
    /\ IsLeaving(candidateInfo[c])
    /\ c \notin DOMAIN candidatePool
    /\ SaveInfo(c, [candidateInfo[c] EXCEPT !.status = Active])
    /\ candidatePool' = Put(candidatePool, c, candidateInfo[c].total_counted)
    /\ UNCHANGED <<round, delegatorState, total, reserved>>

GoOffline(c) ==
    /\ IsCandidate(c)
    /\ IsActive(candidateInfo[c])
    /\ SaveInfo(c, [candidateInfo[c] EXCEPT !.status = Idle])
    /\ candidatePool' = Drop(candidatePool, c)
    /\ UNCHANGED <<round, delegatorState, total, reserved>>

GoOnline(c) ==
    /\ IsCandidate(c)
    /\ ~IsActive(candidateInfo[c])
    /\ ~IsLeaving(candidateInfo[c])
    /\ c \notin DOMAIN candidatePool
    /\ SaveInfo(c, [candidateInfo[c] EXCEPT !.status = Active])
    /\ candidatePool' = Put(candidatePool, c, candidateInfo[c].total_counted)
    /\ UNCHANGED <<round, delegatorState, total, reserved>>

CandidateBondMore(c, more) ==
    /\ IsCandidate(c)
    /\ CanReserve(c, more)
    /\ Reserve(c, more)
    /\ total' = total + more
    /\ LET info == [ candidateInfo[c] EXCEPT !.bond = @ + more,
                                             !.total_counted = @ + more ]
       IN  /\ SaveInfo(c, info)
           /\ candidatePool' = IF IsActive(info)
                               THEN Put(candidatePool, c, info.total_counted)
                               ELSE candidatePool
    /\ UNCHANGED <<round, delegatorState>>

\* A faulty check that forgets the minimum.
MayBondLess_NoMinimum(info, less) == info.request = {} /\ info.bond > less

MayBondLess(info, less) ==
    /\ info.request = {}
    /\ info.bond > less
    /\ info.bond - less >= MinCandidateStk

\* CandidateMetadata::schedule_bond_less
ScheduleCandidateBondLess(c, less) ==
    /\ IsCandidate(c)
    /\ MayBondLess(candidateInfo[c], less)
    /\ SaveInfo(c, [ candidateInfo[c] EXCEPT
                       !.request = { [ amount |-> less,
                           when_executable |-> round + CandidateBondLessDelay ] } ])
    /\ UNCHANGED <<round, candidatePool, delegatorState, total, reserved>>

ExecuteCandidateBondLess(c) ==
    /\ IsCandidate(c)
    /\ \E request \in candidateInfo[c].request :
         /\ request.when_executable <= round
         /\ Unreserve(c, request.amount)
         /\ total' = SaturatingSub(total, request.amount)
         /\ LET info == [ candidateInfo[c] EXCEPT
                            !.bond = SaturatingSub(@, request.amount),
                            !.total_counted = SaturatingSub(@, request.amount),
                            !.request = {} ]
            IN  /\ SaveInfo(c, info)
                /\ candidatePool' = IF IsActive(info)
                                    THEN Put(candidatePool, c, info.total_counted)
                                    ELSE candidatePool
    /\ UNCHANGED <<round, delegatorState>>

CancelCandidateBondLess(c) ==
    /\ IsCandidate(c)
    /\ candidateInfo[c].request # {}
    /\ SaveInfo(c, [candidateInfo[c] EXCEPT !.request = {}])
    /\ UNCHANGED <<round, candidatePool, delegatorState, total, reserved>>

-----------------------------------------------------------------------------
(* Extrinsics of delegators.                                               *)

\* A faulty kick that forgets the request of who has other delegations.
AfterKick_RequestStays(c, kicked) ==
    LET owners == { bond.owner : bond \in kicked }
        leaving == { d \in owners :
                       Cardinality(DOMAIN delegatorState[d].delegations) = 1 }
    IN  [ d \in DOMAIN delegatorState \ leaving |->
            IF d \in owners THEN WithoutDelegation(delegatorState[d], c)
                            ELSE delegatorState[d] ]

\* The delegators once the delegations in `kicked` were removed for want of
\* room at c: who had no other delegation leaves the set of delegators.
AfterKick(c, kicked) ==
    LET owners == { bond.owner : bond \in kicked }
        leaving == { d \in owners :
                       Cardinality(DOMAIN delegatorState[d].delegations) = 1 }
    IN  [ d \in DOMAIN delegatorState \ leaving |->
            IF d \in owners
            THEN WithoutRequest(WithoutDelegation(delegatorState[d], c), c)
            ELSE delegatorState[d] ]

\* What d's record becomes when it delegates to c.
WithDelegation(d, c, amount) ==
    IF IsDelegator(d)
    THEN [ delegatorState[d] EXCEPT !.delegations = Put(@, c, amount),
                                    !.total = @ + amount ]
    ELSE NewDelegator(c, amount)

\* A faulty check that lets a candidate become a delegator.
MayDelegate_Candidate(d, c, amount) ==
    IF IsDelegator(d)
    THEN /\ IsActive(delegatorState[d])
         /\ amount >= MinDelegation
         /\ Cardinality(DOMAIN delegatorState[d].delegations)
              < MaxDelegationsPerDelegator
         /\ c \notin DOMAIN delegatorState[d].delegations
    ELSE amount >= MinDelegatorStk

MayDelegate(d, c, amount) ==
    IF IsDelegator(d)
    THEN /\ IsActive(delegatorState[d])
         /\ amount >= MinDelegation
         /\ Cardinality(DOMAIN delegatorState[d].delegations)
              < MaxDelegationsPerDelegator
         /\ c \notin DOMAIN delegatorState[d].delegations
    ELSE amount >= MinDelegatorStk /\ ~IsCandidate(d)

Delegate(d, c, amount) ==
    /\ CanReserve(d, amount)
    /\ MayDelegate(d, c, amount)
    /\ IsCandidate(c)
    /\ CanAdd(candidateInfo[c], amount)
    /\ LET outcome == AddDelegation(Book(c), [owner |-> d, amount |-> amount])
       IN  /\ SaveBook(c, outcome)
           /\ delegatorState' = Put(AfterKick(c, outcome.kicked), d,
                                    WithDelegation(d, c, amount))
           /\ reserved' = [ a \in Accounts |->
                IF a = d THEN reserved[a] + amount
                ELSE IF \E bond \in outcome.kicked : bond.owner = a
                THEN SaturatingSub(reserved[a],
                       (CHOOSE bond \in outcome.kicked : bond.owner = a).amount)
                ELSE reserved[a] ]
           /\ total' = total + (IF outcome.less = {} THEN amount
                     ELSE SaturatingSub(amount, CHOOSE l \in outcome.less : TRUE))
    /\ UNCHANGED round

ScheduleLeaveDelegators(d) ==
    /\ IsDelegator(d)
    /\ ~IsLeaving(delegatorState[d])
    /\ SaveDelegator(d, [ delegatorState[d] EXCEPT
                            !.status = Leaving(round + LeaveDelegatorsDelay) ])
    /\ UNCHANGED <<round, books, total, reserved>>

CancelLeaveDelegators(d) ==
    /\ IsDelegator(d)
    /\ IsLeaving(delegatorState[d])
    /\ SaveDelegator(d, [delegatorState[d] EXCEPT !.status = Active])
    /\ UNCHANGED <<round, books, total, reserved>>

\* The delegations of d that delegator_leaves_candidate can remove; the call
\* ignores (and logs) a failure for any other.
Removable(d) ==
    { c \in DOMAIN delegatorState[d].delegations :
        /\ IsCandidate(c)
        /\ Lookup(Book(c), d, delegatorState[d].delegations[c], TopHasRoom(c))
             # "missing" }

ExecuteLeaveDelegators(d) ==
    /\ IsDelegator(d)
    /\ IsLeaving(delegatorState[d])
    /\ round >= delegatorState[d].status.when
    /\ LET held == delegatorState[d].delegations
           unstaked == SumFunctionOnSet(held, Removable(d))
       IN  /\ SaveBooks([ c \in Removable(d) |->
                 RemoveDelegation(Book(c), d,
                     Lookup(Book(c), d, held[c], TopHasRoom(c))) ])
           /\ Unreserve(d, unstaked)
           /\ total' = SaturatingSub(total, unstaked)
    /\ delegatorState' = Drop(delegatorState, d)
    /\ UNCHANGED round

ScheduleRevokeDelegation(d, c) ==
    /\ IsDelegator(d)
    /\ c \in DOMAIN delegatorState[d].delegations
    /\ c \notin DOMAIN delegatorState[d].requests
    /\ SaveDelegator(d, WithRequest(delegatorState[d], c,
                          delegatorState[d].delegations[c],
                          round + RevokeDelegationDelay, "Revoke"))
    /\ UNCHANGED <<round, books, total, reserved>>

\* Delegator::schedule_decrease_delegation
ScheduleDelegatorBondLess(d, c, less) ==
    /\ IsDelegator(d)
    /\ LET del == delegatorState[d]
           net_total == SaturatingSub(del.total, del.less_total)
       IN  /\ c \in DOMAIN del.delegations
           /\ del.delegations[c] > less
           /\ del.delegations[c] - less >= MinDelegation
           /\ less <= SaturatingSub(net_total, MinDelegatorStk)
           /\ c \notin DOMAIN del.requests
           /\ SaveDelegator(d, WithRequest(del, c, less,
                                 round + DelegationBondLessDelay, "Decrease"))
    /\ UNCHANGED <<round, books, total, reserved>>

\* Delegator::increase_delegation.  The balance is reserved before the lookup
\* in the book, and stays reserved when the lookup fails.
DelegatorBondMore(d, c, more) ==
    /\ IsDelegator(d)
    /\ c \in DOMAIN delegatorState[d].delegations
    /\ IsCandidate(c)
    /\ CanReserve(d, more)
    /\ Reserve(d, more)
    /\ LET held == delegatorState[d].delegations[c]
           list == Lookup(Book(c), d, held, FALSE)
       IN  IF list = "missing"
           THEN UNCHANGED <<books, delegatorState, total>>
           ELSE /\ SaveBook(c, IncreaseDelegation(Book(c), d, held, more, list))
                /\ total' = total + more
                /\ SaveDelegator(d, [ delegatorState[d] EXCEPT
                                        !.delegations[c] = @ + more,
                                        !.total = @ + more ])
    /\ UNCHANGED round

\* execute_pending_request, DelegationChange::Revoke.  The amount recorded
\* with the request is used to find the delegation and is what is unreserved;
\* what leaves the two records is the delegation as it now is.
ExecuteRevokeDelegation(d, c) ==
    /\ IsDelegator(d)
    /\ c \in DOMAIN delegatorState[d].requests
    /\ LET del == delegatorState[d]
           request == del.requests[c]
           leaving == Cardinality(DOMAIN del.delegations) = 1
           list == Lookup(Book(c), d, request.amount, TopHasRoom(c))
       IN  /\ request.action = "Revoke"
           /\ request.when_executable <= round
           /\ leaving \/ SaturatingSub(del.total, MinDelegatorStk) >= request.amount
           /\ IsCandidate(c)
           /\ list # "missing"
           /\ SaveBook(c, RemoveDelegation(Book(c), d, list))
           /\ Unreserve(d, request.amount)
           /\ total' = SaturatingSub(total, request.amount)
           /\ IF leaving
              THEN delegatorState' = Drop(delegatorState, d)
              ELSE SaveDelegator(d, WithoutDelegation(WithoutRequest(del, c), c))
    /\ UNCHANGED round

\* execute_pending_request, DelegationChange::Decrease.  The balance is
\* unreserved before the lookup in the book, and stays so when it fails.
ExecuteDelegationBondLess(d, c) ==
    /\ IsDelegator(d)
    /\ c \in DOMAIN delegatorState[d].requests
    /\ LET del == delegatorState[d]
           request == del.requests[c]
           held == del.delegations[c]
           new_total == SaturatingSub(del.total, request.amount)
           list == Lookup(Book(c), d, held, FALSE)
       IN  /\ request.action = "Decrease"
           /\ request.when_executable <= round
           /\ c \in DOMAIN del.delegations
           /\ held > request.amount
           /\ new_total >= MinDelegation
           /\ new_total >= MinDelegatorStk
           /\ IsCandidate(c)
           /\ Unreserve(d, request.amount)
           /\ IF list = "missing"
              THEN UNCHANGED <<books, delegatorState, total>>
              ELSE /\ SaveBook(c, DecreaseDelegation(Book(c), d, held,
                                                     request.amount, list))
                   /\ total' = SaturatingSub(total, request.amount)
                   /\ SaveDelegator(d, [ WithoutRequest(del, c) EXCEPT
                          !.delegations[c] = SaturatingSub(@, request.amount),
                          !.total = new_total ])
    /\ UNCHANGED round

ExecuteDelegationRequest(d, c) ==
    ExecuteRevokeDelegation(d, c) \/ ExecuteDelegationBondLess(d, c)

CancelDelegationRequest(d, c) ==
    /\ IsDelegator(d)
    /\ c \in DOMAIN delegatorState[d].requests
    /\ SaveDelegator(d, WithoutRequest(delegatorState[d], c))
    /\ UNCHANGED <<round, books, total, reserved>>

-----------------------------------------------------------------------------
CandidateCall ==
    \/ \E acc \in Joiners, bond \in BondAmounts : JoinCandidates(acc, bond)
    \/ \E c \in Joiners :
         \/ ScheduleLeaveCandidates(c)
         \/ ExecuteLeaveCandidates(c)
         \/ CancelLeaveCandidates(c)
         \/ GoOffline(c)
         \/ GoOnline(c)
         \/ ExecuteCandidateBondLess(c)
         \/ CancelCandidateBondLess(c)
         \/ \E more \in Amounts : CandidateBondMore(c, more)
         \/ \E less \in Amounts : ScheduleCandidateBondLess(c, less)

DelegatorCall ==
    \E d \in Backers :
      \/ ScheduleLeaveDelegators(d)
      \/ CancelLeaveDelegators(d)
      \/ ExecuteLeaveDelegators(d)
      \/ \E c \in Joiners :
           \/ ScheduleRevokeDelegation(d, c)
           \/ ExecuteDelegationRequest(d, c)
           \/ CancelDelegationRequest(d, c)
           \/ \E amount \in Amounts :
                \/ Delegate(d, c, amount)
                \/ DelegatorBondMore(d, c, amount)
                \/ ScheduleDelegatorBondLess(d, c, amount)

Next == StartRound \/ CandidateCall \/ DelegatorCall

Spec == Init /\ [][Next]_vars

-----------------------------------------------------------------------------
(* Root calls.                                                             *)

\* hotfix_remove_delegation_requests, for one delegator of the vector: drops
\* every request that has no delegation.
HotfixRemoveDelegationRequests(d) ==
    /\ IsDelegator(d)
    /\ LET del == delegatorState[d]
           orphans == DOMAIN del.requests \ DOMAIN del.delegations
           revokes == { c \in orphans : del.requests[c].action = "Revoke" }
           amounts == [c \in orphans |-> del.requests[c].amount]
       IN  SaveDelegator(d, [ del EXCEPT
             !.requests = [c \in DOMAIN del.requests \ orphans |-> del.requests[c]],
             !.less_total = SaturatingSub(@, SumFunction(amounts)),
             !.revocations_count = SaturatingSub(@, Cardinality(revokes)) ])
    /\ UNCHANGED <<round, books, total, reserved>>

\* hotfix_update_candidate_pool_value, for one candidate of the vector
HotfixUpdateCandidatePoolValue(c) ==
    /\ IsCandidate(c)
    /\ candidatePool' = Put(candidatePool, c, candidateInfo[c].total_counted)
    /\ UNCHANGED <<round, candidateInfo, topDelegations, bottomDelegations,
                   delegatorState, total, reserved>>

RootCall ==
    \/ \E d \in Backers : HotfixRemoveDelegationRequests(d)
    \/ \E c \in Joiners : HotfixUpdateCandidatePoolValue(c)

RootSpec == Init /\ [][Next \/ RootCall]_vars

-----------------------------------------------------------------------------
\* Every storage item has its type, and the three maps of a candidate have
\* the same keys.
TypeOK ==
    /\ round \in Nat
    /\ IsMap(candidateInfo, Accounts, CandidateMetadata)
    /\ topDelegations \in [DOMAIN candidateInfo -> Delegations]
    /\ bottomDelegations \in [DOMAIN candidateInfo -> Delegations]
    /\ IsMap(candidatePool, Accounts, Nat)
    /\ IsMap(delegatorState, Accounts, { delegatorState[d] :
                                           d \in DOMAIN delegatorState })
    /\ \A d \in DOMAIN delegatorState : DelegatorOK(delegatorState[d])
    /\ total \in Nat
    /\ reserved \in [Accounts -> Nat]

===============================================================================
