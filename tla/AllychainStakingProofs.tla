------------------------- MODULE AllychainStakingProofs -------------------------
(***************************************************************************)
(* Proofs about the reachable states of AllychainStaking: its types, the   *)
(* metadata that mirrors the lists, the pool that holds the active         *)
(* candidates, the separation of roles, and the bonds that cover pending   *)
(* decreases.                                                              *)
(***************************************************************************)
EXTENDS StakingProperties, DelegationBookProofs

-----------------------------------------------------------------------------
(* The inductive invariant, in parts.                                      *)

\* The three maps of the candidates hold well-kept books.
BooksOK ==
    /\ DOMAIN candidateInfo \subseteq Accounts
    /\ candidateInfo = [c \in DOMAIN candidateInfo |-> candidateInfo[c]]
    /\ topDelegations = [c \in DOMAIN candidateInfo |-> topDelegations[c]]
    /\ bottomDelegations = [c \in DOMAIN candidateInfo |-> bottomDelegations[c]]
    /\ \A c \in DOMAIN candidateInfo : WellKept(Book(c))

\* A bond never falls below the minimum, executed decrease included.
Covered(info) ==
    /\ info.bond >= MinCandidateStk
    /\ \A request \in info.request : info.bond >= request.amount + MinCandidateStk

BondsCovered == \A c \in DOMAIN candidateInfo : Covered(candidateInfo[c])

DelegatorsOK ==
    /\ DOMAIN delegatorState \subseteq Accounts
    /\ delegatorState = [d \in DOMAIN delegatorState |-> delegatorState[d]]
    /\ \A d \in DOMAIN delegatorState : DelegatorOK(delegatorState[d])

\* The pool has every active candidate with its counted stake.  Unless root
\* repairs it, it has no strays.
PoolOK == IsMap(candidatePool, Accounts, Nat) /\ ActiveAreInPool

NoStrays ==
    \A c \in DOMAIN candidatePool :
      c \in DOMAIN candidateInfo /\ IsActive(candidateInfo[c])

NumbersOK ==
    /\ round \in Nat
    /\ total \in Nat
    /\ reserved \in [Accounts -> Nat]

StakingInv ==
    /\ BooksOK
    /\ BondsCovered
    /\ PoolOK
    /\ DelegatorsOK
    /\ RolesDisjoint
    /\ NumbersOK

-----------------------------------------------------------------------------
(* Constants and maps.                                                     *)

LEMMA ConstantsType ==
    /\ MinCandidateStk \in Nat /\ MinCandidateStk > 0
    /\ LeaveCandidatesDelay \in Nat
    /\ CandidateBondLessDelay \in Nat
    /\ LeaveDelegatorsDelay \in Nat
    /\ RevokeDelegationDelay \in Nat
    /\ DelegationBondLessDelay \in Nat
    /\ \A c \in Joiners : c \in Accounts
    /\ \A d \in Backers : d \in Accounts
    /\ \A bond \in BondAmounts : bond \in Nat
    /\ \A amount \in Amounts : amount \in Nat
BY StakingAssumption

\* A natural number less something is a natural number.
LEMMA SubNat ==
    ASSUME NEW a \in Nat, NEW b
    PROVE  SaturatingSub(a, b) \in Nat
BY SaturatingSubType

\* Put and Drop on a map.
LEMMA PutType ==
    ASSUME NEW f, NEW S, NEW T, IsMap(f, S, T), NEW k \in S, NEW v \in T
    PROVE  IsMap(Put(f, k, v), S, T)
BY DEF IsMap, Put

LEMMA DropType ==
    ASSUME NEW f, NEW S, NEW T, IsMap(f, S, T), NEW k
    PROVE  IsMap(Drop(f, k), S, T)
BY DEF IsMap, Drop

-----------------------------------------------------------------------------
(* What the invariant says.                                                *)

LEMMA InvImpliesTypes ==
    StakingInv => TypeOK
<1> SUFFICES ASSUME StakingInv
             PROVE  TypeOK
    OBVIOUS
<1>1. ASSUME NEW c \in DOMAIN candidateInfo
      PROVE  /\ candidateInfo[c] \in CandidateMetadata
             /\ topDelegations[c] \in Delegations
             /\ bottomDelegations[c] \in Delegations
             /\ candidateInfo[c].total_counted \in Nat
    BY DEF StakingInv, BooksOK, WellKept, Book, CandidateMetadata
<1>2. /\ IsMap(candidateInfo, Accounts, CandidateMetadata)
      /\ topDelegations \in [DOMAIN candidateInfo -> Delegations]
      /\ bottomDelegations \in [DOMAIN candidateInfo -> Delegations]
    BY <1>1 DEF StakingInv, BooksOK, IsMap
<1>3. IsMap(candidatePool, Accounts, Nat)
    BY DEF StakingInv, PoolOK
<1>4. IsMap(delegatorState, Accounts, { delegatorState[d] :
                                          d \in DOMAIN delegatorState })
    BY DEF StakingInv, DelegatorsOK, IsMap
<1> QED
    BY <1>2, <1>3, <1>4 DEF TypeOK, StakingInv, DelegatorsOK, NumbersOK

LEMMA InvImpliesSummaries ==
    StakingInv => MetadataMirrorsBooks /\ ListsFillFromTheTop
BY DEF StakingInv, BooksOK, WellKept, MetadataMirrorsBooks, ListsFillFromTheTop

-----------------------------------------------------------------------------
(* The initial states.                                                     *)

LEMMA InitEstablishes ==
    Init => StakingInv
<1> SUFFICES ASSUME Init
             PROVE  StakingInv
    OBVIOUS
<1>1. DOMAIN candidateInfo = {} /\ DOMAIN delegatorState = {}
    BY DEF Init, EmptyMap
<1>2. BooksOK
    BY <1>1 DEF Init, BooksOK, EmptyMap
<1>3. PoolOK
    BY <1>1 DEF Init, PoolOK, ActiveAreInPool, IsMap, EmptyMap
<1>4. DelegatorsOK
    BY <1>1 DEF Init, DelegatorsOK, EmptyMap
<1> QED
    BY <1>1, <1>2, <1>3, <1>4
       DEF Init, StakingInv, BondsCovered, RolesDisjoint, NumbersOK

-----------------------------------------------------------------------------
(* Delegators' records.                                                    *)

\* The parts of a delegator's record.
LEMMA DelegatorParts ==
    ASSUME NEW del, DelegatorOK(del)
    PROVE  /\ del.total \in Nat
           /\ del.less_total \in Nat
           /\ del.revocations_count \in Nat
           /\ del.status \in Status
           /\ \A c \in DOMAIN del.delegations : del.delegations[c] \in Nat
           /\ \A c \in DOMAIN del.requests :
                 del.requests[c] \in DelegationRequest
BY DEF DelegatorOK, IsMap

LEMMA StatusType ==
    /\ Active \in Status
    /\ Idle \in Status
    /\ \A when \in Nat : Leaving(when) \in Status
BY DEF Active, Idle, Leaving, Status

LEMMA WithStatusOK ==
    ASSUME NEW del, DelegatorOK(del), NEW status \in Status
    PROVE  DelegatorOK([del EXCEPT !.status = status])
BY DEF DelegatorOK

LEMMA NewDelegatorOK ==
    ASSUME NEW c \in Accounts, NEW amount \in Nat
    PROVE  DelegatorOK(NewDelegator(c, amount))
BY StatusType DEF NewDelegator, DelegatorOK, IsMap, EmptyMap

LEMMA WithoutDelegationOK ==
    ASSUME NEW del, DelegatorOK(del), NEW c
    PROVE  DelegatorOK(WithoutDelegation(del, c))
<1>1. IsMap(Drop(del.delegations, c), Accounts, Nat)
    BY DropType DEF DelegatorOK
<1>2. SaturatingSub(del.total, del.delegations[c]) \in Nat
    BY DelegatorParts, SubNat
<1> QED
    BY <1>1, <1>2 DEF WithoutDelegation, DelegatorOK

LEMMA WithoutRequestOK ==
    ASSUME NEW del, DelegatorOK(del), NEW c
    PROVE  DelegatorOK(WithoutRequest(del, c))
<1>1. IsMap(Drop(del.requests, c), Accounts, DelegationRequest)
    BY DropType DEF DelegatorOK
<1>2. /\ SaturatingSub(del.less_total, del.requests[c].amount) \in Nat
      /\ SaturatingSub(del.revocations_count, 1) \in Nat
    BY DelegatorParts, SubNat
<1> QED
    BY <1>1, <1>2 DEF WithoutRequest, DelegatorOK

LEMMA WithRequestOK ==
    ASSUME NEW del, DelegatorOK(del), NEW c \in Accounts, NEW amount \in Nat,
           NEW when \in Nat, NEW action \in {"Revoke", "Decrease"}
    PROVE  DelegatorOK(WithRequest(del, c, amount, when, action))
<1> DEFINE request == [ amount |-> amount, when_executable |-> when,
                        action |-> action ]
<1>1. IsMap(Put(del.requests, c, request), Accounts, DelegationRequest)
    <2>1. request \in DelegationRequest
        BY DEF DelegationRequest
    <2> HIDE DEF request
    <2> QED
        BY <2>1, PutType DEF DelegatorOK
<1>2. /\ del.less_total + amount \in Nat
      /\ del.revocations_count + 1 \in Nat
    BY DelegatorParts
<1> HIDE DEF request
<1> DEFINE requests == Put(del.requests, c, request)
<1>3. WithRequest(del, c, amount, when, action)
        = [ del EXCEPT !.requests = requests,
                       !.less_total = del.less_total + amount,
                       !.revocations_count = IF action = "Revoke"
                                             THEN del.revocations_count + 1
                                             ELSE del.revocations_count ]
    BY DEF WithRequest, request
<1> HIDE DEF requests
<1>4. IsMap(requests, Accounts, DelegationRequest)
    BY <1>1 DEF requests
<1> QED
    BY <1>2, <1>3, <1>4 DEF DelegatorOK

\* delegations[c] and the total of a record may change to other numbers.
LEMMA WithAmountOK ==
    ASSUME NEW del, DelegatorOK(del), NEW c \in DOMAIN del.delegations,
           NEW amount \in Nat, NEW total_ \in Nat
    PROVE  DelegatorOK([ del EXCEPT !.delegations[c] = amount,
                                    !.total = total_ ])
<1>1. IsMap([del.delegations EXCEPT ![c] = amount], Accounts, Nat)
    BY DEF DelegatorOK, IsMap
<1> QED
    BY <1>1 DEF DelegatorOK

LEMMA WithDelegationOK ==
    ASSUME NEW d, IsDelegator(d) => DelegatorOK(delegatorState[d]),
           NEW c \in Accounts, NEW amount \in Nat
    PROVE  DelegatorOK(WithDelegation(d, c, amount))
<1>1. CASE IsDelegator(d)
    <2>1. /\ IsMap(Put(delegatorState[d].delegations, c, amount), Accounts, Nat)
          /\ delegatorState[d].total + amount \in Nat
        BY <1>1, PutType, DelegatorParts DEF DelegatorOK
    <2> QED
        BY <1>1, <2>1 DEF WithDelegation, DelegatorOK
<1>2. CASE ~IsDelegator(d)
    BY <1>2, NewDelegatorOK DEF WithDelegation
<1> QED
    BY <1>1, <1>2

\* Saving one delegator, and dropping one.
LEMMA SaveDelegatorKeeps ==
    ASSUME DelegatorsOK, NEW d \in DOMAIN delegatorState, NEW del,
           DelegatorOK(del), SaveDelegator(d, del)
    PROVE  DelegatorsOK' /\ DOMAIN delegatorState' = DOMAIN delegatorState
BY DEF DelegatorsOK, SaveDelegator

LEMMA DropDelegatorKeeps ==
    ASSUME DelegatorsOK, NEW d, delegatorState' = Drop(delegatorState, d)
    PROVE  /\ DelegatorsOK'
           /\ DOMAIN delegatorState' \subseteq DOMAIN delegatorState
BY DEF DelegatorsOK, Drop

-----------------------------------------------------------------------------
(* What a step does to the delegators' records.                            *)

LEMMA ExitKeepsDelegators ==
    ASSUME StakingInv, NEW c, ExecuteLeaveCandidates(c)
    PROVE  DelegatorsOK' /\ DOMAIN delegatorState' \subseteq DOMAIN delegatorState
<1>1. \A d \in DOMAIN delegatorState : DelegatorOK(AfterCandidateLeft(d, c))
    BY WithoutDelegationOK, WithoutRequestOK
       DEF AfterCandidateLeft, StakingInv, DelegatorsOK
<1>2. PICK owners, gone :
        delegatorState' = [ d \in DOMAIN delegatorState \ gone |->
               IF d \in owners THEN AfterCandidateLeft(d, c)
                               ELSE delegatorState[d] ]
    BY DEF ExecuteLeaveCandidates
<1> QED
    BY <1>1, <1>2 DEF StakingInv, DelegatorsOK

LEMMA DelegateKeepsDelegators ==
    ASSUME StakingInv, NEW d \in Accounts, NEW c \in Accounts, NEW amount \in Nat,
           Delegate(d, c, amount)
    PROVE  /\ DelegatorsOK'
           /\ DOMAIN delegatorState' \subseteq DOMAIN delegatorState \union {d}
<1>1. PICK kicked : delegatorState' = Put(AfterKick(c, kicked), d,
                                          WithDelegation(d, c, amount))
    BY DEF Delegate
<1>2. /\ DOMAIN AfterKick(c, kicked) \subseteq DOMAIN delegatorState
      /\ \A e \in DOMAIN AfterKick(c, kicked) : DelegatorOK(AfterKick(c, kicked)[e])
    BY WithoutDelegationOK, WithoutRequestOK DEF AfterKick, StakingInv, DelegatorsOK
<1>3. DelegatorOK(WithDelegation(d, c, amount))
    BY WithDelegationOK DEF StakingInv, DelegatorsOK, IsDelegator
<1> DEFINE kept == AfterKick(c, kicked)
           del == WithDelegation(d, c, amount)
<1>4. delegatorState' = Put(kept, d, del)
    BY <1>1
<1> HIDE DEF kept, del
<1>5. /\ DOMAIN delegatorState' = DOMAIN kept \union {d}
      /\ delegatorState'[d] = del
      /\ \A e \in DOMAIN kept : e # d => delegatorState'[e] = kept[e]
      /\ delegatorState' = [e \in DOMAIN delegatorState' |-> delegatorState'[e]]
    BY <1>4 DEF Put
<1> QED
    BY <1>2, <1>3, <1>5 DEF StakingInv, DelegatorsOK, kept, del

LEMMA DecreaseKeepsDelegators ==
    ASSUME StakingInv, NEW d, NEW c, ExecuteDelegationBondLess(d, c)
    PROVE  DelegatorsOK' /\ DOMAIN delegatorState' = DOMAIN delegatorState
<1> DEFINE del == delegatorState[d]
           request == del.requests[c]
           left == SaturatingSub(WithoutRequest(del, c).delegations[c], request.amount)
           new_total == SaturatingSub(del.total, request.amount)
<1>1. /\ d \in DOMAIN delegatorState
      /\ DelegatorOK(del)
      /\ c \in DOMAIN del.delegations
    BY DEF ExecuteDelegationBondLess, IsDelegator, StakingInv, DelegatorsOK
<1>2. /\ DelegatorOK(WithoutRequest(del, c))
      /\ c \in DOMAIN WithoutRequest(del, c).delegations
    BY <1>1, WithoutRequestOK DEF WithoutRequest, DelegatorOK
<1>3. left \in Nat /\ new_total \in Nat
    BY <1>1, <1>2, DelegatorParts, SubNat
<1>4. DelegatorOK([ WithoutRequest(del, c) EXCEPT
                      !.delegations[c] = left, !.total = new_total ])
    <2> HIDE DEF left, new_total
    <2> QED
        BY <1>2, <1>3, WithAmountOK
<1>5. \/ UNCHANGED delegatorState
      \/ SaveDelegator(d, [ WithoutRequest(del, c) EXCEPT
                              !.delegations[c] = left, !.total = new_total ])
    BY DEF ExecuteDelegationBondLess
<1>6. CASE UNCHANGED delegatorState
    BY <1>6 DEF StakingInv, DelegatorsOK
<1>7. CASE SaveDelegator(d, [ WithoutRequest(del, c) EXCEPT
                                !.delegations[c] = left, !.total = new_total ])
    BY <1>1, <1>4, <1>7, SaveDelegatorKeeps DEF StakingInv
<1> QED
    BY <1>5, <1>6, <1>7

LEMMA BondMoreKeepsDelegators ==
    ASSUME StakingInv, NEW d, NEW c, NEW more \in Nat, DelegatorBondMore(d, c, more)
    PROVE  DelegatorsOK' /\ DOMAIN delegatorState' = DOMAIN delegatorState
<1> DEFINE del == delegatorState[d]
           held == del.delegations[c]
           new_total == del.total + more
<1>1. /\ d \in DOMAIN delegatorState
      /\ DelegatorOK(del)
      /\ c \in DOMAIN del.delegations
    BY DEF DelegatorBondMore, IsDelegator, StakingInv, DelegatorsOK
<1>2. held + more \in Nat /\ new_total \in Nat
    BY <1>1, DelegatorParts
<1>3. DelegatorOK([del EXCEPT !.delegations[c] = held + more, !.total = new_total])
    BY <1>1, <1>2, WithAmountOK
<1>4. \/ UNCHANGED delegatorState
      \/ SaveDelegator(d, [ del EXCEPT !.delegations[c] = held + more,
                                       !.total = new_total ])
    BY DEF DelegatorBondMore
<1>5. CASE UNCHANGED delegatorState
    BY <1>5 DEF StakingInv, DelegatorsOK
<1>6. CASE SaveDelegator(d, [ del EXCEPT !.delegations[c] = held + more,
                                         !.total = new_total ])
    BY <1>1, <1>3, <1>6, SaveDelegatorKeeps DEF StakingInv
<1> QED
    BY <1>4, <1>5, <1>6

LEMMA RevokeKeepsDelegators ==
    ASSUME StakingInv, NEW d, NEW c, ExecuteRevokeDelegation(d, c)
    PROVE  DelegatorsOK' /\ DOMAIN delegatorState' \subseteq DOMAIN delegatorState
<1> DEFINE less == WithoutDelegation(WithoutRequest(delegatorState[d], c), c)
<1>1. d \in DOMAIN delegatorState /\ DelegatorsOK
    BY DEF ExecuteRevokeDelegation, IsDelegator, StakingInv
<1>2. DelegatorOK(less)
    BY <1>1, WithoutDelegationOK, WithoutRequestOK DEF DelegatorsOK
<1>3. \/ delegatorState' = Drop(delegatorState, d)
      \/ SaveDelegator(d, less)
    BY DEF ExecuteRevokeDelegation
<1> HIDE DEF less
<1> QED
    BY <1>1, <1>2, <1>3, SaveDelegatorKeeps, DropDelegatorKeeps

\* A request joins a record, or its delegator leaves or stays.
LEMMA RequestKeepsDelegators ==
    ASSUME StakingInv, NEW d, NEW c \in Accounts, NEW less \in Nat,
           \/ ScheduleRevokeDelegation(d, c)
           \/ ScheduleDelegatorBondLess(d, c, less)
           \/ CancelDelegationRequest(d, c)
           \/ ScheduleLeaveDelegators(d)
           \/ CancelLeaveDelegators(d)
    PROVE  DelegatorsOK' /\ DOMAIN delegatorState' = DOMAIN delegatorState
<1> DEFINE del == delegatorState[d]
<1>1. d \in DOMAIN delegatorState /\ DelegatorsOK /\ DelegatorOK(del)
    BY DEF ScheduleRevokeDelegation, ScheduleDelegatorBondLess,
           CancelDelegationRequest, ScheduleLeaveDelegators, CancelLeaveDelegators,
           IsDelegator, StakingInv, DelegatorsOK
<1>2. /\ round + RevokeDelegationDelay \in Nat
      /\ round + DelegationBondLessDelay \in Nat
      /\ round + LeaveDelegatorsDelay \in Nat
    BY ConstantsType DEF StakingInv, NumbersOK
<1>3. CASE ScheduleRevokeDelegation(d, c)
    <2> DEFINE when == round + RevokeDelegationDelay
    <2>1. /\ del.delegations[c] \in Nat
          /\ SaveDelegator(d, WithRequest(del, c, del.delegations[c], when, "Revoke"))
        BY <1>1, <1>3, DelegatorParts DEF ScheduleRevokeDelegation
    <2> HIDE DEF del, when
    <2>2. DelegatorOK(WithRequest(del, c, del.delegations[c], when, "Revoke"))
        BY <1>1, <1>2, <2>1, WithRequestOK DEF when
    <2> QED
        BY <1>1, <2>1, <2>2, SaveDelegatorKeeps
<1>4. CASE ScheduleDelegatorBondLess(d, c, less)
    <2> DEFINE when == round + DelegationBondLessDelay
    <2>1. SaveDelegator(d, WithRequest(del, c, less, when, "Decrease"))
        BY <1>4 DEF ScheduleDelegatorBondLess
    <2> HIDE DEF del, when
    <2>2. DelegatorOK(WithRequest(del, c, less, when, "Decrease"))
        BY <1>1, <1>2, WithRequestOK DEF when
    <2> QED
        BY <1>1, <2>1, <2>2, SaveDelegatorKeeps
<1>5. CASE CancelDelegationRequest(d, c)
    BY <1>1, <1>5, WithoutRequestOK, SaveDelegatorKeeps DEF CancelDelegationRequest
<1>6. CASE ScheduleLeaveDelegators(d)
    <2>1. DelegatorOK([del EXCEPT !.status = Leaving(round + LeaveDelegatorsDelay)])
        BY <1>1, <1>2, StatusType, WithStatusOK
    <2> QED
        BY <1>1, <1>6, <2>1, SaveDelegatorKeeps DEF ScheduleLeaveDelegators
<1>7. CASE CancelLeaveDelegators(d)
    BY <1>1, <1>7, StatusType, WithStatusOK, SaveDelegatorKeeps
       DEF CancelLeaveDelegators
<1> QED
    BY <1>3, <1>4, <1>5, <1>6, <1>7

\* The records keep their type, and only `delegate` makes a new delegator.
DelegatorsKept ==
    /\ DelegatorsOK'
    /\ \/ DOMAIN delegatorState' \subseteq DOMAIN delegatorState
       \/ \E d, c, amount :
            /\ Delegate(d, c, amount)
            /\ DOMAIN delegatorState' \subseteq DOMAIN delegatorState \union {d}

LEMMA StepKeepsDelegators ==
    ASSUME StakingInv, Next
    PROVE  DelegatorsKept
<1>1. ASSUME UNCHANGED delegatorState PROVE DelegatorsKept
    BY <1>1 DEF StakingInv, DelegatorsOK, DelegatorsKept
<1>2. CASE StartRound
    BY <1>1, <1>2 DEF StartRound
<1>3. CASE CandidateCall
    <2>1. ASSUME NEW acc, NEW bond, JoinCandidates(acc, bond) PROVE DelegatorsKept
        BY <1>1, <2>1 DEF JoinCandidates
    <2>2. ASSUME NEW c, ExecuteLeaveCandidates(c) PROVE DelegatorsKept
        BY <2>2, ExitKeepsDelegators DEF DelegatorsKept
    <2>3. ASSUME NEW c,
                 \/ ScheduleLeaveCandidates(c)
                 \/ CancelLeaveCandidates(c)
                 \/ GoOffline(c)
                 \/ GoOnline(c)
                 \/ ExecuteCandidateBondLess(c)
                 \/ CancelCandidateBondLess(c)
          PROVE  DelegatorsKept
        BY <1>1, <2>3 DEF ScheduleLeaveCandidates, CancelLeaveCandidates, GoOffline,
                          GoOnline, ExecuteCandidateBondLess, CancelCandidateBondLess
    <2>4. ASSUME NEW c, NEW amount,
                 CandidateBondMore(c, amount) \/ ScheduleCandidateBondLess(c, amount)
          PROVE  DelegatorsKept
        BY <1>1, <2>4 DEF CandidateBondMore, ScheduleCandidateBondLess
    <2> QED
        BY <1>3, <2>1, <2>2, <2>3, <2>4 DEF CandidateCall
<1>4. CASE DelegatorCall
    <2>1. ASSUME NEW d, NEW c \in Accounts, NEW less \in Nat,
                 \/ ScheduleRevokeDelegation(d, c)
                 \/ ScheduleDelegatorBondLess(d, c, less)
                 \/ CancelDelegationRequest(d, c)
                 \/ ScheduleLeaveDelegators(d)
                 \/ CancelLeaveDelegators(d)
          PROVE  DelegatorsKept
        BY <2>1, RequestKeepsDelegators DEF DelegatorsKept
    <2>2. ASSUME NEW d, ExecuteLeaveDelegators(d) PROVE DelegatorsKept
        BY <2>2, DropDelegatorKeeps DEF ExecuteLeaveDelegators, StakingInv, DelegatorsKept
    <2>3. ASSUME NEW d, NEW c, ExecuteDelegationRequest(d, c) PROVE DelegatorsKept
        BY <2>3, RevokeKeepsDelegators, DecreaseKeepsDelegators
           DEF ExecuteDelegationRequest, DelegatorsKept
    <2>4. ASSUME NEW d \in Accounts, NEW c \in Accounts, NEW amount \in Nat,
                 Delegate(d, c, amount)
          PROVE  DelegatorsKept
        BY <2>4, DelegateKeepsDelegators DEF DelegatorsKept
    <2>5. ASSUME NEW d, NEW c, NEW more \in Nat, DelegatorBondMore(d, c, more)
          PROVE  DelegatorsKept
        BY <2>5, BondMoreKeepsDelegators DEF DelegatorsKept
    <2>6. PICK d \in Backers :
             \/ ScheduleLeaveDelegators(d)
             \/ CancelLeaveDelegators(d)
             \/ ExecuteLeaveDelegators(d)
             \/ \E c \in Joiners :
                  \/ ScheduleRevokeDelegation(d, c)
                  \/ ExecuteDelegationRequest(d, c)
                  \/ CancelDelegationRequest(d, c)
                  \/ \E amount \in Amounts :
                       \/ Delegate(d, c, amount)
                       \/ DelegatorBondMore(d, c, amount)
                       \/ ScheduleDelegatorBondLess(d, c, amount)
        BY <1>4 DEF DelegatorCall
    <2>7. CASE ScheduleLeaveDelegators(d) \/ CancelLeaveDelegators(d)
        <3>1. d \in Accounts /\ 0 \in Nat
            BY ConstantsType
        <3> QED
            BY <2>1, <2>7, <3>1
    <2>8. CASE ExecuteLeaveDelegators(d)
        BY <2>2, <2>8
    <2>9. ASSUME NEW c \in Joiners,
                 \/ ScheduleRevokeDelegation(d, c)
                 \/ ExecuteDelegationRequest(d, c)
                 \/ CancelDelegationRequest(d, c)
          PROVE  DelegatorsKept
        <3>1. c \in Accounts /\ 0 \in Nat
            BY ConstantsType
        <3> QED
            BY <2>1, <2>3, <2>9, <3>1
    <2>10. ASSUME NEW c \in Joiners, NEW amount \in Amounts,
                  \/ Delegate(d, c, amount)
                  \/ DelegatorBondMore(d, c, amount)
                  \/ ScheduleDelegatorBondLess(d, c, amount)
           PROVE  DelegatorsKept
        <3>1. d \in Accounts /\ c \in Accounts /\ amount \in Nat
            BY ConstantsType
        <3> QED
            BY <2>1, <2>4, <2>5, <2>10, <3>1
    <2> QED
        BY <2>6, <2>7, <2>8, <2>9, <2>10
<1> QED
    BY <1>2, <1>3, <1>4 DEF Next

-----------------------------------------------------------------------------
(* What a step does to the numbers.                                        *)

LEMMA ReserveType ==
    ASSUME NumbersOK, NEW a, NEW amount,
           \/ amount \in Nat /\ Reserve(a, amount)
           \/ Unreserve(a, amount)
    PROVE  reserved' \in [Accounts -> Nat]
<1>1. CASE amount \in Nat /\ Reserve(a, amount)
    <2>1. \A x \in Accounts : reserved[x] + amount \in Nat
        BY <1>1 DEF NumbersOK
    <2> QED
        BY <1>1, <2>1 DEF Reserve, NumbersOK
<1>2. CASE Unreserve(a, amount)
    <2>1. \A x \in Accounts : SaturatingSub(reserved[x], amount) \in Nat
        BY SubNat DEF NumbersOK
    <2> QED
        BY <1>2, <2>1 DEF Unreserve, NumbersOK
<1> QED
    BY <1>1, <1>2

\* Total and the reserves stay natural numbers: every call adds amounts that
\* are, or subtracts saturating.
LEMMA StepKeepsNumbers ==
    ASSUME StakingInv, Next
    PROVE  NumbersOK'
<1>1. NumbersOK /\ round \in Nat /\ total \in Nat /\ reserved \in [Accounts -> Nat]
    BY DEF StakingInv, NumbersOK
<1>2. \A amount : SaturatingSub(total, amount) \in Nat
    BY <1>1, SubNat
<1>3. ASSUME UNCHANGED <<total, reserved>>, round' \in Nat PROVE NumbersOK'
    BY <1>1, <1>3 DEF NumbersOK
<1>4. ASSUME UNCHANGED round, reserved' \in [Accounts -> Nat],
             NEW amount, \/ amount \in Nat /\ total' = total + amount
                         \/ total' = SaturatingSub(total, amount)
                         \/ UNCHANGED total
      PROVE  NumbersOK'
    BY <1>1, <1>2, <1>4 DEF NumbersOK
<1>5. CASE StartRound
    BY <1>1, <1>3, <1>5 DEF StartRound
<1>6. CASE CandidateCall
    <2>1. ASSUME NEW acc, NEW bond \in Nat, JoinCandidates(acc, bond) PROVE NumbersOK'
        BY <1>1, <1>4, <2>1, ReserveType DEF JoinCandidates
    <2>2. ASSUME NEW c, ExecuteLeaveCandidates(c) PROVE NumbersOK'
        <3>1. \A a \in Accounts : SaturatingSub(reserved[a], StakeReturned(c, a)) \in Nat
            BY <1>1, SubNat
        <3> QED
            BY <1>4, <2>2, <3>1 DEF ExecuteLeaveCandidates
    <2>3. ASSUME NEW c, NEW amount,
                 \/ ScheduleLeaveCandidates(c)
                 \/ CancelLeaveCandidates(c)
                 \/ GoOffline(c)
                 \/ GoOnline(c)
                 \/ CancelCandidateBondLess(c)
                 \/ ScheduleCandidateBondLess(c, amount)
          PROVE  NumbersOK'
        BY <1>1, <1>3, <2>3
           DEF ScheduleLeaveCandidates, CancelLeaveCandidates, GoOffline, GoOnline,
               CancelCandidateBondLess, ScheduleCandidateBondLess
    <2>4. ASSUME NEW c, NEW more \in Nat, CandidateBondMore(c, more) PROVE NumbersOK'
        BY <1>1, <1>4, <2>4, ReserveType DEF CandidateBondMore
    <2>5. ASSUME NEW c, ExecuteCandidateBondLess(c) PROVE NumbersOK'
        <3>1. PICK request \in candidateInfo[c].request :
                /\ Unreserve(c, request.amount)
                /\ total' = SaturatingSub(total, request.amount)
                /\ UNCHANGED round
            BY <2>5 DEF ExecuteCandidateBondLess
        <3> QED
            BY <1>1, <1>4, <3>1, ReserveType
    <2> QED
        BY <1>6, <2>1, <2>2, <2>3, <2>4, <2>5, ConstantsType DEF CandidateCall
<1>7. CASE DelegatorCall
    <2>1. ASSUME NEW d, NEW c, NEW amount,
                 \/ ScheduleLeaveDelegators(d)
                 \/ CancelLeaveDelegators(d)
                 \/ ScheduleRevokeDelegation(d, c)
                 \/ CancelDelegationRequest(d, c)
                 \/ ScheduleDelegatorBondLess(d, c, amount)
          PROVE  NumbersOK'
        BY <1>1, <1>3, <2>1
           DEF ScheduleLeaveDelegators, CancelLeaveDelegators, ScheduleRevokeDelegation,
               CancelDelegationRequest, ScheduleDelegatorBondLess
    <2>2. ASSUME NEW d, ExecuteLeaveDelegators(d) PROVE NumbersOK'
        <3>1. PICK unstaked : /\ Unreserve(d, unstaked)
                              /\ total' = SaturatingSub(total, unstaked)
            BY <2>2 DEF ExecuteLeaveDelegators
        <3>2. UNCHANGED round
            BY <2>2 DEF ExecuteLeaveDelegators
        <3> QED
            BY <1>1, <1>4, <3>1, <3>2, ReserveType
    <2>3. ASSUME NEW d, NEW c, ExecuteRevokeDelegation(d, c) PROVE NumbersOK'
        BY <1>1, <1>4, <2>3, ReserveType DEF ExecuteRevokeDelegation
    <2>4. ASSUME NEW d, NEW c, ExecuteDelegationBondLess(d, c) PROVE NumbersOK'
        <3> DEFINE amount == delegatorState[d].requests[c].amount
        <3>1. /\ Unreserve(d, amount)
              /\ UNCHANGED total \/ total' = SaturatingSub(total, amount)
              /\ UNCHANGED round
            BY <2>4 DEF ExecuteDelegationBondLess
        <3> HIDE DEF amount
        <3> QED
            BY <1>1, <1>4, <3>1, ReserveType
    <2>5. ASSUME NEW d, NEW c, NEW more \in Nat, DelegatorBondMore(d, c, more)
          PROVE  NumbersOK'
        <3>1. /\ Reserve(d, more)
              /\ UNCHANGED total \/ total' = total + more
              /\ UNCHANGED round
            BY <2>5 DEF DelegatorBondMore
        <3> QED
            BY <1>1, <1>4, <3>1, ReserveType
    <2>6. ASSUME NEW d, NEW c, NEW amount \in Nat, Delegate(d, c, amount)
          PROVE  NumbersOK'
        <3> DEFINE outcome == AddDelegation(Book(c), [owner |-> d, amount |-> amount])
                   less == outcome.less
                   added == IF less = {} THEN amount
                            ELSE SaturatingSub(amount, CHOOSE l \in less : TRUE)
        <3>1. /\ total' = total + added
              /\ UNCHANGED round
              /\ reserved' = [ a \in Accounts |->
                   IF a = d THEN reserved[a] + amount
                   ELSE IF \E bond \in outcome.kicked : bond.owner = a
                   THEN SaturatingSub(reserved[a],
                          (CHOOSE bond \in outcome.kicked : bond.owner = a).amount)
                   ELSE reserved[a] ]
            BY <2>6 DEF Delegate
        <3> HIDE DEF outcome
        <3>2. added \in Nat
            BY SubNat
        <3> HIDE DEF less, added
        <3>3. \A a \in Accounts : /\ reserved[a] + amount \in Nat
                                  /\ \A x : SaturatingSub(reserved[a], x) \in Nat
            BY <1>1, SubNat
        <3>4. reserved' \in [Accounts -> Nat]
            BY <1>1, <3>1, <3>3
        <3> QED
            BY <1>4, <3>1, <3>2, <3>4
    <2> QED
        BY <1>7, <2>1, <2>2, <2>3, <2>4, <2>5, <2>6, ConstantsType
           DEF DelegatorCall, ExecuteDelegationRequest
<1> QED
    BY <1>5, <1>6, <1>7 DEF Next

-----------------------------------------------------------------------------
(* Ways to write the candidates' maps.                                     *)

\* The part of the invariant that is about candidates.
CandidatesOK == BooksOK /\ BondsCovered /\ PoolOK

CandidatesStay == CandidatesOK' /\ (NoStrays => NoStrays')

\* No candidate's own bond changes.
BondsKept ==
    \A c \in DOMAIN candidateInfo : candidateInfo'[c].bond = candidateInfo[c].bond

\* Only info, top and bottom of a record matter for a book to be well kept.
LEMMA WellKeptRecord ==
    ASSUME NEW book, NEW other, WellKept(book),
           other.info = book.info, other.top = book.top, other.bottom = book.bottom
    PROVE  WellKept(other)
BY WellKeptSummary

LEMMA SameCandidateCovered ==
    ASSUME NEW info, NEW other, SameCandidate(info, other), Covered(other)
    PROVE  Covered(info)
BY DEF SameCandidate, Covered

\* When nothing of the candidates is written.
LEMMA UnchangedCandidates ==
    ASSUME CandidatesOK, UNCHANGED books
    PROVE  CandidatesStay /\ DOMAIN candidateInfo' = DOMAIN candidateInfo /\ BondsKept
<1>1. UNCHANGED <<candidateInfo, topDelegations, bottomDelegations, candidatePool>>
    BY DEF books
<1>2. BooksOK'
    BY <1>1 DEF CandidatesOK, BooksOK, Book
<1>3. BondsCovered'
    BY <1>1 DEF CandidatesOK, BondsCovered
<1>4. PoolOK' /\ (NoStrays => NoStrays')
    BY <1>1 DEF CandidatesOK, PoolOK, ActiveAreInPool, NoStrays
<1> QED
    BY <1>1, <1>2, <1>3, <1>4 DEF CandidatesOK, CandidatesStay, BondsKept

\* SaveBooks writes well-kept outcomes back.  The pool follows: the status of
\* no candidate changes, and an active one whose counted stake changed is
\* updated.
LEMMA SaveBooksKeeps ==
    ASSUME CandidatesOK, NEW outcomes,
           DOMAIN outcomes \subseteq DOMAIN candidateInfo,
           \A c \in DOMAIN outcomes : Keeps(outcomes[c], Book(c)),
           SaveBooks(outcomes)
    PROVE  CandidatesStay /\ DOMAIN candidateInfo' = DOMAIN candidateInfo /\ BondsKept
<1>1. /\ BooksOK /\ BondsCovered /\ PoolOK
      /\ DOMAIN topDelegations = DOMAIN candidateInfo
      /\ DOMAIN bottomDelegations = DOMAIN candidateInfo
    BY DEF CandidatesOK, BooksOK
<1>2. /\ candidateInfo' = [ c \in DOMAIN candidateInfo |->
           IF c \in DOMAIN outcomes THEN outcomes[c].info ELSE candidateInfo[c] ]
      /\ topDelegations' = [ c \in DOMAIN candidateInfo |->
           IF c \in DOMAIN outcomes THEN outcomes[c].top ELSE topDelegations[c] ]
      /\ bottomDelegations' = [ c \in DOMAIN candidateInfo |->
           IF c \in DOMAIN outcomes THEN outcomes[c].bottom
                                    ELSE bottomDelegations[c] ]
      /\ candidatePool' = PoolWith([c \in DOMAIN outcomes |-> outcomes[c].info])
    BY <1>1 DEF SaveBooks
<1>3. ASSUME NEW c \in DOMAIN candidateInfo
      PROVE  /\ WellKept(Book(c)')
             /\ SameCandidate(candidateInfo'[c], candidateInfo[c])
             /\ c \in DOMAIN outcomes => candidateInfo'[c] = outcomes[c].info
             /\ c \notin DOMAIN outcomes => candidateInfo'[c] = candidateInfo[c]
    <2>1. CASE c \in DOMAIN outcomes
        <3>1. /\ WellKept(outcomes[c])
              /\ SameCandidate(outcomes[c].info, candidateInfo[c])
            BY <2>1 DEF Keeps, Book
        <3>2. /\ Book(c)'.info = outcomes[c].info
              /\ Book(c)'.top = outcomes[c].top
              /\ Book(c)'.bottom = outcomes[c].bottom
              /\ candidateInfo'[c] = outcomes[c].info
            BY <1>2, <2>1 DEF Book
        <3> QED
            BY <2>1, <3>1, <3>2, WellKeptRecord
    <2>2. CASE c \notin DOMAIN outcomes
        <3>1. Book(c)' = Book(c) /\ candidateInfo'[c] = candidateInfo[c]
            BY <1>2, <2>2 DEF Book
        <3> QED
            BY <1>1, <2>2, <3>1 DEF BooksOK, SameCandidate
    <2> QED
        BY <2>1, <2>2
<1>4. BooksOK'
    BY <1>1, <1>2, <1>3 DEF BooksOK
<1>5. BondsCovered'
    BY <1>1, <1>2, <1>3, SameCandidateCovered DEF BondsCovered
<1>6. PoolOK' /\ (NoStrays => NoStrays')
    <2> DEFINE infos == [c \in DOMAIN outcomes |-> outcomes[c].info]
               moved == { c \in DOMAIN infos :
                            /\ IsActive(infos[c])
                            /\ infos[c].total_counted
                                 # candidateInfo[c].total_counted }
    <2>1. /\ DOMAIN candidateInfo' = DOMAIN candidateInfo
          /\ \A c \in DOMAIN candidateInfo :
                IsActive(candidateInfo'[c]) <=> IsActive(candidateInfo[c])
        BY <1>2, <1>3 DEF SameCandidate, IsActive
    <2>2. \A c \in DOMAIN outcomes : infos[c] = candidateInfo'[c]
        BY <1>3
    <2>3. /\ moved \subseteq DOMAIN candidateInfo
          /\ \A c \in moved : /\ infos[c] = candidateInfo'[c]
                              /\ IsActive(candidateInfo'[c])
          /\ \A c \in DOMAIN candidateInfo :
               IsActive(candidateInfo'[c]) /\ c \notin moved =>
                 candidateInfo'[c].total_counted = candidateInfo[c].total_counted
        BY <1>3, <2>2
    <2>4. candidatePool' = [ c \in DOMAIN candidatePool \union moved |->
            IF c \in moved THEN infos[c].total_counted ELSE candidatePool[c] ]
        BY <1>2 DEF PoolWith
    <2> HIDE DEF infos, moved
    <2>5. ActiveAreInPool'
        BY <1>1, <2>1, <2>3, <2>4 DEF PoolOK, ActiveAreInPool
    <2>6. \A c \in moved : c \in Accounts /\ infos[c].total_counted \in Nat
        <3>1. \A c \in DOMAIN candidateInfo : candidateInfo'[c].total_counted \in Nat
            BY <1>3 DEF WellKept, Book, CandidateMetadata
        <3> QED
            BY <1>1, <2>3, <3>1 DEF BooksOK
    <2>7. IsMap(candidatePool, Accounts, Nat)'
        BY <1>1, <2>4, <2>6 DEF PoolOK, IsMap
    <2>8. NoStrays => NoStrays'
        BY <2>1, <2>3, <2>4 DEF NoStrays
    <2> QED
        BY <2>5, <2>7, <2>8 DEF PoolOK
<1> QED
    BY <1>2, <1>3, <1>4, <1>5, <1>6
       DEF CandidatesOK, CandidatesStay, SameCandidate, BondsKept

LEMMA SaveBookKeeps ==
    ASSUME CandidatesOK, NEW c \in DOMAIN candidateInfo, NEW outcome,
           Keeps(outcome, Book(c)), SaveBook(c, outcome)
    PROVE  CandidatesStay /\ DOMAIN candidateInfo' = DOMAIN candidateInfo /\ BondsKept
<1> DEFINE outcomes == [x \in {c} |-> outcome]
<1>1. /\ DOMAIN outcomes = {c}
      /\ \A x \in DOMAIN outcomes : Keeps(outcomes[x], Book(x))
      /\ SaveBooks(outcomes)
    BY DEF SaveBook
<1> HIDE DEF outcomes
<1> QED
    BY <1>1, SaveBooksKeeps

\* SaveInfo leaves the lists alone: what it writes must still summarise them.
LEMMA SaveInfoKeeps ==
    ASSUME CandidatesOK, NEW c \in DOMAIN candidateInfo, NEW info,
           SaveInfo(c, info),
           WellKept([ info |-> info, top |-> topDelegations[c],
                      bottom |-> bottomDelegations[c] ]),
           Covered(info),
           \/ /\ IsActive(info)
              /\ candidatePool' = Put(candidatePool, c, info.total_counted)
           \/ /\ ~IsActive(info)
              /\ candidatePool' = Drop(candidatePool, c)
           \/ /\ IsActive(info) <=> IsActive(candidateInfo[c])
              /\ IsActive(info) =>
                   info.total_counted = candidateInfo[c].total_counted
              /\ UNCHANGED candidatePool
    PROVE  CandidatesStay /\ DOMAIN candidateInfo' = DOMAIN candidateInfo
<1>1. /\ BooksOK /\ BondsCovered /\ PoolOK
    BY DEF CandidatesOK
<1>2. /\ candidateInfo' = [candidateInfo EXCEPT ![c] = info]
      /\ DOMAIN candidateInfo' = DOMAIN candidateInfo
      /\ candidateInfo'[c] = info
      /\ \A x \in DOMAIN candidateInfo : x # c => candidateInfo'[x] = candidateInfo[x]
      /\ candidateInfo' = [x \in DOMAIN candidateInfo' |-> candidateInfo'[x]]
      /\ UNCHANGED <<topDelegations, bottomDelegations>>
    BY <1>1 DEF SaveInfo, BooksOK
<1>3. \A x \in DOMAIN candidateInfo : WellKept(Book(x)')
    <2>1. Book(c)' = [ info |-> info, top |-> topDelegations[c],
                       bottom |-> bottomDelegations[c] ]
        BY <1>2 DEF Book
    <2>2. \A x \in DOMAIN candidateInfo : x # c => Book(x)' = Book(x)
        BY <1>2 DEF Book
    <2> QED
        BY <1>1, <2>1, <2>2 DEF BooksOK
<1>4. BooksOK'
    BY <1>1, <1>2, <1>3 DEF BooksOK
<1>5. BondsCovered'
    BY <1>1, <1>2 DEF BondsCovered
<1>6. PoolOK' /\ (NoStrays => NoStrays')
    <2>1. info.total_counted \in Nat /\ c \in Accounts
        BY <1>1 DEF WellKept, CandidateMetadata, BooksOK
    <2>2. CASE /\ IsActive(info)
               /\ candidatePool' = Put(candidatePool, c, info.total_counted)
        BY <1>1, <1>2, <2>1, <2>2
           DEF Put, PoolOK, ActiveAreInPool, NoStrays, IsMap
    <2>3. CASE /\ ~IsActive(info)
               /\ candidatePool' = Drop(candidatePool, c)
        BY <1>1, <1>2, <2>3
           DEF Drop, PoolOK, ActiveAreInPool, NoStrays, IsMap
    <2>4. CASE /\ IsActive(info) <=> IsActive(candidateInfo[c])
               /\ IsActive(info) =>
                    info.total_counted = candidateInfo[c].total_counted
               /\ UNCHANGED candidatePool
        BY <1>1, <1>2, <2>4 DEF PoolOK, ActiveAreInPool, NoStrays, IsMap
    <2> QED
        BY <2>2, <2>3, <2>4
<1> QED
    BY <1>2, <1>4, <1>5, <1>6 DEF CandidatesOK, CandidatesStay

-----------------------------------------------------------------------------
(* What a step does to the candidates.                                     *)

\* A candidate as the extrinsics find it.
LEMMA CandidateParts ==
    ASSUME CandidatesOK, NEW c \in DOMAIN candidateInfo
    PROVE  LET info == candidateInfo[c]
           IN  /\ WellKept(Book(c))
               /\ info \in CandidateMetadata
               /\ topDelegations[c] \in Delegations
               /\ topDelegations[c].total \in Nat
               /\ info.bond \in Nat
               /\ info.total_counted = info.bond + topDelegations[c].total
               /\ info.total_counted \in Nat
               /\ info.request \subseteq CandidateBondLessRequest
               /\ Covered(info)
<1>1. WellKept(Book(c)) /\ Covered(candidateInfo[c])
    BY DEF CandidatesOK, BooksOK, BondsCovered
<1>2. /\ Book(c).info = candidateInfo[c]
      /\ Book(c).top = topDelegations[c]
    BY DEF Book
<1>3. /\ candidateInfo[c] \in CandidateMetadata
      /\ topDelegations[c] \in Delegations
      /\ candidateInfo[c].total_counted
           = candidateInfo[c].bond + topDelegations[c].total
    BY <1>1, <1>2 DEF WellKept, Mirrors
<1> QED
    BY <1>1, <1>3, ListParts DEF CandidateMetadata

\* Own bond, request and status may change as long as the bond counts.
LEMMA ChangedInfo ==
    ASSUME CandidatesOK, NEW c \in DOMAIN candidateInfo, NEW info,
           info \in CandidateMetadata,
           info.total_counted = info.bond + topDelegations[c].total,
           info.delegation_count = candidateInfo[c].delegation_count,
           info.lowest_top = candidateInfo[c].lowest_top,
           info.highest_bottom = candidateInfo[c].highest_bottom,
           info.lowest_bottom = candidateInfo[c].lowest_bottom,
           info.top_capacity = candidateInfo[c].top_capacity,
           info.bottom_capacity = candidateInfo[c].bottom_capacity
    PROVE  WellKept([ info |-> info, top |-> topDelegations[c],
                      bottom |-> bottomDelegations[c] ])
BY CandidateParts
   DEF WellKept, Book, Mirrors, FillsFromTheTop

\* Calls that change the status, and with it membership of the pool.
LEMMA StatusKeepsCandidates ==
    ASSUME CandidatesOK, NEW c \in DOMAIN candidateInfo, NEW status \in Status,
           SaveInfo(c, [candidateInfo[c] EXCEPT !.status = status]),
           \/ /\ status = Active
              /\ candidatePool' = Put(candidatePool, c, candidateInfo[c].total_counted)
           \/ /\ status.kind # "Active"
              /\ candidatePool' = Drop(candidatePool, c)
    PROVE  CandidatesStay /\ DOMAIN candidateInfo' = DOMAIN candidateInfo
<1> DEFINE old == candidateInfo[c]
           info == [old EXCEPT !.status = status]
<1>1. /\ old \in CandidateMetadata
      /\ old.total_counted = old.bond + topDelegations[c].total
      /\ Covered(old)
    BY CandidateParts
<1> HIDE DEF old
<1>2. /\ info \in CandidateMetadata
      /\ info.status = status
      /\ info.bond = old.bond
      /\ info.request = old.request
      /\ info.total_counted = old.total_counted
      /\ info.delegation_count = old.delegation_count
      /\ info.lowest_top = old.lowest_top
      /\ info.highest_bottom = old.highest_bottom
      /\ info.lowest_bottom = old.lowest_bottom
      /\ info.top_capacity = old.top_capacity
      /\ info.bottom_capacity = old.bottom_capacity
    BY <1>1 DEF CandidateMetadata
<1>3. SaveInfo(c, info)
    BY DEF old
<1> HIDE DEF info
<1>4. /\ WellKept([ info |-> info, top |-> topDelegations[c],
                    bottom |-> bottomDelegations[c] ])
      /\ Covered(info)
    BY <1>1, <1>2, ChangedInfo DEF old, Covered
<1>5. \/ /\ IsActive(info)
         /\ candidatePool' = Put(candidatePool, c, info.total_counted)
      \/ /\ ~IsActive(info)
         /\ candidatePool' = Drop(candidatePool, c)
    BY <1>2 DEF IsActive, Active, old
<1> QED
    BY <1>3, <1>4, <1>5, SaveInfoKeeps

\* Calls that change the own bond, by the same amount the counted stake, or
\* the pending request.
LEMMA BondKeepsCandidates ==
    ASSUME CandidatesOK, NEW c \in DOMAIN candidateInfo,
           NEW bond \in Nat, NEW counted \in Nat,
           NEW request \in SUBSET CandidateBondLessRequest, NEW info,
           info = [ candidateInfo[c] EXCEPT !.bond = bond,
                                            !.total_counted = counted,
                                            !.request = request ],
           counted = bond + topDelegations[c].total,
           bond >= MinCandidateStk,
           \A r \in request : bond >= r.amount + MinCandidateStk,
           SaveInfo(c, info),
           \/ counted = candidateInfo[c].total_counted /\ UNCHANGED candidatePool
           \/ ~IsActive(info) /\ UNCHANGED candidatePool
           \/ /\ IsActive(info)
              /\ candidatePool' = Put(candidatePool, c, info.total_counted)
    PROVE  CandidatesStay /\ DOMAIN candidateInfo' = DOMAIN candidateInfo
<1> DEFINE old == candidateInfo[c]
<1>1. old \in CandidateMetadata
    BY CandidateParts
<1> HIDE DEF old
<1>2. /\ info \in CandidateMetadata
      /\ info.status = old.status
      /\ info.bond = bond
      /\ info.request = request
      /\ info.total_counted = counted
      /\ info.delegation_count = old.delegation_count
      /\ info.lowest_top = old.lowest_top
      /\ info.highest_bottom = old.highest_bottom
      /\ info.lowest_bottom = old.lowest_bottom
      /\ info.top_capacity = old.top_capacity
      /\ info.bottom_capacity = old.bottom_capacity
    <2>1. info = [ old EXCEPT !.bond = bond, !.total_counted = counted,
                              !.request = request ]
        BY DEF old
    <2> QED
        BY <1>1, <2>1 DEF CandidateMetadata
<1>3. WellKept([ info |-> info, top |-> topDelegations[c],
                 bottom |-> bottomDelegations[c] ])
    BY <1>2, ChangedInfo DEF old
<1>4. Covered(info)
    BY <1>2 DEF Covered
<1>5. \/ /\ IsActive(info)
         /\ candidatePool' = Put(candidatePool, c, info.total_counted)
      \/ /\ IsActive(info) <=> IsActive(candidateInfo[c])
         /\ IsActive(info) => info.total_counted = candidateInfo[c].total_counted
         /\ UNCHANGED candidatePool
    BY <1>2 DEF IsActive, old
<1> QED
    BY <1>3, <1>4, <1>5, SaveInfoKeeps

LEMMA JoinKeepsCandidates ==
    ASSUME CandidatesOK, NEW acc \in Accounts, NEW bond \in Nat,
           JoinCandidates(acc, bond)
    PROVE  CandidatesStay /\ DOMAIN candidateInfo' = DOMAIN candidateInfo \union {acc}
<1>1. /\ BooksOK /\ BondsCovered /\ PoolOK
      /\ acc \notin DOMAIN candidateInfo
    BY DEF CandidatesOK, JoinCandidates, IsCandidate
<1>2. /\ candidateInfo' = [ x \in DOMAIN candidateInfo \union {acc} |->
                              IF x = acc THEN NewCandidate(bond)
                              ELSE candidateInfo[x] ]
      /\ topDelegations' = [ x \in DOMAIN candidateInfo \union {acc} |->
                               IF x = acc THEN NoDelegations
                               ELSE topDelegations[x] ]
      /\ bottomDelegations' = [ x \in DOMAIN candidateInfo \union {acc} |->
                                  IF x = acc THEN NoDelegations
                                  ELSE bottomDelegations[x] ]
      /\ candidatePool' = [ x \in DOMAIN candidatePool \union {acc} |->
                              IF x = acc THEN bond ELSE candidatePool[x] ]
    <2>1. /\ DOMAIN topDelegations = DOMAIN candidateInfo
          /\ DOMAIN bottomDelegations = DOMAIN candidateInfo
        BY <1>1 DEF BooksOK
    <2> QED
        BY <2>1 DEF JoinCandidates, Put
<1>3. WellKept(Book(acc)')
    <2>1. Book(acc)' = [ info |-> NewCandidate(bond), top |-> NoDelegations,
                         bottom |-> NoDelegations ]
        BY <1>2 DEF Book
    <2> QED
        BY <2>1, NewBookWellKept
<1>4. \A x \in DOMAIN candidateInfo : Book(x)' = Book(x)
    BY <1>1, <1>2 DEF Book
<1>5. BooksOK'
    BY <1>1, <1>2, <1>3, <1>4 DEF BooksOK
<1>6. BondsCovered'
    <2>1. Covered(NewCandidate(bond))
        BY DEF Covered, NewCandidate, JoinCandidates
    <2>2. /\ DOMAIN candidateInfo' = DOMAIN candidateInfo \union {acc}
          /\ \A x \in DOMAIN candidateInfo' :
               candidateInfo'[x] = IF x = acc THEN NewCandidate(bond)
                                              ELSE candidateInfo[x]
        BY <1>2
    <2> QED
        BY <1>1, <2>1, <2>2 DEF BondsCovered
<1>7. PoolOK' /\ (NoStrays => NoStrays')
    <2> DEFINE new == NewCandidate(bond)
    <2>1. IsActive(new) /\ new.total_counted = bond
        BY DEF NewCandidate, IsActive, Active
    <2> HIDE DEF new
    <2>2. /\ candidateInfo'[acc] = new
          /\ DOMAIN candidateInfo' = DOMAIN candidateInfo \union {acc}
          /\ \A x \in DOMAIN candidateInfo : candidateInfo'[x] = candidateInfo[x]
        BY <1>1, <1>2 DEF new
    <2> QED
        BY <1>1, <1>2, <2>1, <2>2 DEF PoolOK, ActiveAreInPool, NoStrays, IsMap
<1> QED
    BY <1>2, <1>5, <1>6, <1>7 DEF CandidatesOK, CandidatesStay

LEMMA ExitKeepsCandidates ==
    ASSUME CandidatesOK, NEW c, ExecuteLeaveCandidates(c)
    PROVE  CandidatesStay /\ DOMAIN candidateInfo' \subseteq DOMAIN candidateInfo
<1>1. /\ BooksOK /\ BondsCovered /\ PoolOK
      /\ ~IsActive(candidateInfo[c])
    BY DEF CandidatesOK, ExecuteLeaveCandidates, IsLeaving, IsActive
<1>2. /\ candidateInfo' = [x \in DOMAIN candidateInfo \ {c} |-> candidateInfo[x]]
      /\ topDelegations' = [x \in DOMAIN candidateInfo \ {c} |-> topDelegations[x]]
      /\ bottomDelegations'
           = [x \in DOMAIN candidateInfo \ {c} |-> bottomDelegations[x]]
      /\ UNCHANGED candidatePool
    <2>1. /\ DOMAIN topDelegations = DOMAIN candidateInfo
          /\ DOMAIN bottomDelegations = DOMAIN candidateInfo
        BY <1>1 DEF BooksOK
    <2> QED
        BY <2>1 DEF ExecuteLeaveCandidates, RemoveCandidate, Drop
<1>3. \A x \in DOMAIN candidateInfo' : Book(x)' = Book(x)
    BY <1>2 DEF Book
<1>4. BooksOK'
    BY <1>1, <1>2, <1>3 DEF BooksOK
<1>5. BondsCovered'
    BY <1>1, <1>2 DEF BondsCovered
<1>6. PoolOK' /\ (NoStrays => NoStrays')
    BY <1>1, <1>2 DEF PoolOK, ActiveAreInPool, NoStrays
<1> QED
    BY <1>2, <1>4, <1>5, <1>6 DEF CandidatesOK, CandidatesStay

\* Every status change of a candidate is one that the pool follows.
LEMMA StatusCallsKeepCandidates ==
    ASSUME StakingInv, NEW c,
           \/ ScheduleLeaveCandidates(c)
           \/ CancelLeaveCandidates(c)
           \/ GoOffline(c)
           \/ GoOnline(c)
    PROVE  CandidatesStay /\ DOMAIN candidateInfo' = DOMAIN candidateInfo
<1>1. CandidatesOK /\ c \in DOMAIN candidateInfo
    BY DEF StakingInv, CandidatesOK, IsCandidate, ScheduleLeaveCandidates,
           CancelLeaveCandidates, GoOffline, GoOnline
<1>2. CASE ScheduleLeaveCandidates(c)
    <2> DEFINE when == round + LeaveCandidatesDelay
    <2>1. when \in Nat
        BY ConstantsType DEF StakingInv, NumbersOK
    <2>2. /\ SaveInfo(c, [candidateInfo[c] EXCEPT !.status = Leaving(when)])
          /\ candidatePool' = Drop(candidatePool, c)
        BY <1>2 DEF ScheduleLeaveCandidates
    <2> HIDE DEF when
    <2>3. Leaving(when) \in Status /\ Leaving(when).kind # "Active"
        BY <2>1 DEF Leaving, Status
    <2> QED
        BY <1>1, <2>2, <2>3, StatusKeepsCandidates
<1>3. CASE CancelLeaveCandidates(c)
    BY <1>1, <1>3, StatusType, StatusKeepsCandidates DEF CancelLeaveCandidates
<1>4. CASE GoOffline(c)
    <2>1. Idle \in Status /\ Idle.kind # "Active"
        BY StatusType DEF Idle
    <2> QED
        BY <1>1, <1>4, <2>1, StatusKeepsCandidates DEF GoOffline
<1>5. CASE GoOnline(c)
    BY <1>1, <1>5, StatusType, StatusKeepsCandidates DEF GoOnline
<1> QED
    BY <1>2, <1>3, <1>4, <1>5

LEMMA BondMoreKeepsCandidates ==
    ASSUME StakingInv, NEW c, NEW more \in Nat, CandidateBondMore(c, more)
    PROVE  CandidatesStay /\ DOMAIN candidateInfo' = DOMAIN candidateInfo
<1> DEFINE old == candidateInfo[c]
           bond == old.bond + more
           counted == old.total_counted + more
           info == [old EXCEPT !.bond = bond, !.total_counted = counted]
<1>1. CandidatesOK /\ c \in DOMAIN candidateInfo
    BY DEF StakingInv, CandidatesOK, IsCandidate, CandidateBondMore
<1>2. /\ SaveInfo(c, info)
      /\ \/ ~IsActive(info) /\ UNCHANGED candidatePool
         \/ /\ IsActive(info)
            /\ candidatePool' = Put(candidatePool, c, info.total_counted)
    BY DEF CandidateBondMore
<1>3. /\ old \in CandidateMetadata
      /\ old.bond \in Nat
      /\ old.total_counted \in Nat
      /\ old.total_counted = old.bond + topDelegations[c].total
      /\ topDelegations[c].total \in Nat
      /\ Covered(old)
      /\ old.request \subseteq CandidateBondLessRequest
    BY <1>1, CandidateParts
<1>4. /\ bond \in Nat
      /\ counted \in Nat
      /\ counted = bond + topDelegations[c].total
      /\ bond >= old.bond
    BY <1>3
<1>5. /\ bond >= MinCandidateStk
      /\ \A r \in old.request : bond >= r.amount + MinCandidateStk
    <2> HIDE DEF bond, old
    <2>1. /\ MinCandidateStk \in Nat
          /\ \A r \in old.request : r.amount + MinCandidateStk \in Nat
        BY <1>3, ConstantsType DEF CandidateBondLessRequest
    <2> QED
        BY <1>3, <1>4, <2>1 DEF Covered
<1>6. info = [ old EXCEPT !.bond = bond, !.total_counted = counted,
                          !.request = old.request ]
    <2> HIDE DEF bond, counted, old
    <2> QED
        BY <1>3 DEF CandidateMetadata
<1> HIDE DEF bond, counted, info
<1> QED
    BY <1>1, <1>2, <1>3, <1>4, <1>5, <1>6, BondKeepsCandidates

\* A request that schedule_candidate_bond_less accepts is covered by the bond.
LEMMA ScheduleBondLessKeepsCandidates ==
    ASSUME StakingInv, NEW c, NEW less \in Nat, ScheduleCandidateBondLess(c, less)
    PROVE  CandidatesStay /\ DOMAIN candidateInfo' = DOMAIN candidateInfo
<1> DEFINE old == candidateInfo[c]
           when == round + CandidateBondLessDelay
           request == [amount |-> less, when_executable |-> when]
           info == [old EXCEPT !.request = {request}]
<1>1. CandidatesOK /\ c \in DOMAIN candidateInfo
    BY DEF StakingInv, CandidatesOK, IsCandidate, ScheduleCandidateBondLess
<1>2. /\ SaveInfo(c, info)
      /\ UNCHANGED candidatePool
      /\ old.bond - less >= MinCandidateStk
    BY DEF ScheduleCandidateBondLess, MayBondLess
<1>3. /\ old \in CandidateMetadata
      /\ old.bond \in Nat
      /\ old.total_counted \in Nat
      /\ old.total_counted = old.bond + topDelegations[c].total
      /\ Covered(old)
    BY <1>1, CandidateParts
<1>4. request \in CandidateBondLessRequest /\ request.amount = less
    BY ConstantsType DEF CandidateBondLessRequest, StakingInv, NumbersOK
<1>5. /\ old.bond >= MinCandidateStk
      /\ old.bond >= less + MinCandidateStk
    BY <1>2, <1>3, ConstantsType DEF Covered
<1>6. info = [ old EXCEPT !.bond = old.bond, !.total_counted = old.total_counted,
                          !.request = {request} ]
    <2> HIDE DEF request, old
    <2> QED
        BY <1>3 DEF CandidateMetadata
<1> HIDE DEF info, request
<1>7. /\ {request} \in SUBSET CandidateBondLessRequest
      /\ \A r \in {request} : old.bond >= r.amount + MinCandidateStk
    BY <1>4, <1>5
<1> QED
    BY <1>1, <1>2, <1>3, <1>5, <1>6, <1>7, BondKeepsCandidates

\* Executing the request leaves the minimum: the subtractions are exact.
LEMMA ExecuteBondLessKeepsCandidates ==
    ASSUME StakingInv, NEW c, ExecuteCandidateBondLess(c)
    PROVE  CandidatesStay /\ DOMAIN candidateInfo' = DOMAIN candidateInfo
<1> DEFINE old == candidateInfo[c]
<1>1. CandidatesOK /\ c \in DOMAIN candidateInfo
    BY DEF StakingInv, CandidatesOK, IsCandidate, ExecuteCandidateBondLess
<1>2. PICK request \in old.request :
        LET info == [ old EXCEPT
                        !.bond = SaturatingSub(@, request.amount),
                        !.total_counted = SaturatingSub(@, request.amount),
                        !.request = {} ]
        IN  /\ SaveInfo(c, info)
            /\ candidatePool' = IF IsActive(info)
                                THEN Put(candidatePool, c, info.total_counted)
                                ELSE candidatePool
    BY DEF ExecuteCandidateBondLess
<1> DEFINE less == request.amount
           bond == SaturatingSub(old.bond, less)
           counted == SaturatingSub(old.total_counted, less)
           info == [ old EXCEPT !.bond = bond, !.total_counted = counted,
                                !.request = {} ]
<1>3. /\ old \in CandidateMetadata
      /\ old.bond \in Nat
      /\ old.total_counted \in Nat
      /\ old.total_counted = old.bond + topDelegations[c].total
      /\ topDelegations[c].total \in Nat
      /\ Covered(old)
      /\ old.request \subseteq CandidateBondLessRequest
    BY <1>1, CandidateParts
<1>4. /\ less \in Nat
      /\ old.bond >= less + MinCandidateStk
      /\ MinCandidateStk \in Nat
    BY <1>2, <1>3, ConstantsType DEF Covered, CandidateBondLessRequest
<1>5. /\ SaveInfo(c, info)
      /\ \/ ~IsActive(info) /\ UNCHANGED candidatePool
         \/ /\ IsActive(info)
            /\ candidatePool' = Put(candidatePool, c, info.total_counted)
    BY <1>2
<1>6. bond = old.bond - less /\ counted = old.total_counted - less
    <2> HIDE DEF old, less
    <2>1. less \in 0 .. old.bond /\ less \in 0 .. old.total_counted
        BY <1>3, <1>4
    <2> QED
        BY <2>1 DEF SaturatingSub
<1>7. /\ bond \in Nat
      /\ counted \in Nat
      /\ counted = bond + topDelegations[c].total
      /\ bond >= MinCandidateStk
    <2> HIDE DEF old, less, bond, counted
    <2> QED
        BY <1>3, <1>4, <1>6
<1> HIDE DEF bond, counted, less
<1> DEFINE none == {}
<1>8. /\ none \in SUBSET CandidateBondLessRequest
      /\ \A r \in none : bond >= r.amount + MinCandidateStk
      /\ info = [ old EXCEPT !.bond = bond, !.total_counted = counted,
                             !.request = none ]
    OBVIOUS
<1> HIDE DEF none, info
<1> QED
    BY <1>1, <1>5, <1>7, <1>8, BondKeepsCandidates

LEMMA CancelBondLessKeepsCandidates ==
    ASSUME StakingInv, NEW c, CancelCandidateBondLess(c)
    PROVE  CandidatesStay /\ DOMAIN candidateInfo' = DOMAIN candidateInfo
<1> DEFINE old == candidateInfo[c]
           info == [old EXCEPT !.request = {}]
           none == {}
<1>1. /\ CandidatesOK
      /\ c \in DOMAIN candidateInfo
      /\ SaveInfo(c, info)
      /\ UNCHANGED candidatePool
    BY DEF StakingInv, CandidatesOK, IsCandidate, CancelCandidateBondLess
<1>2. /\ old \in CandidateMetadata
      /\ old.bond \in Nat
      /\ old.total_counted \in Nat
      /\ old.total_counted = old.bond + topDelegations[c].total
      /\ Covered(old)
    BY <1>1, CandidateParts
<1>3. /\ none \in SUBSET CandidateBondLessRequest
      /\ \A r \in none : old.bond >= r.amount + MinCandidateStk
      /\ old.bond >= MinCandidateStk
    BY <1>2 DEF Covered
<1>4. info = [ old EXCEPT !.bond = old.bond, !.total_counted = old.total_counted,
                          !.request = none ]
    <2> HIDE DEF old
    <2> QED
        BY <1>2 DEF CandidateMetadata
<1> HIDE DEF none, info
<1> QED
    BY <1>1, <1>2, <1>3, <1>4, BondKeepsCandidates

\* The calls of delegators that write a book go through one of the methods
\* that keep it.
LEMMA DelegateKeepsCandidates ==
    ASSUME StakingInv, NEW d \in Accounts, NEW c, NEW amount \in Nat,
           Delegate(d, c, amount)
    PROVE  CandidatesStay /\ DOMAIN candidateInfo' = DOMAIN candidateInfo /\ BondsKept
<1> DEFINE bond == [owner |-> d, amount |-> amount]
           outcome == AddDelegation(Book(c), bond)
<1>1. CandidatesOK /\ c \in DOMAIN candidateInfo /\ SaveBook(c, outcome)
    BY DEF StakingInv, CandidatesOK, IsCandidate, Delegate
<1>2. WellKept(Book(c)) /\ bond \in Bond
    BY <1>1, CandidateParts DEF Bond
<1> HIDE DEF bond
<1>3. Keeps(outcome, Book(c))
    BY <1>2, AddDelegationKeeps DEF Keeps
<1> HIDE DEF outcome
<1> QED
    BY <1>1, <1>3, SaveBookKeeps

LEMMA DelegatorBondMoreKeepsCandidates ==
    ASSUME StakingInv, NEW d, NEW c, NEW more \in Nat, DelegatorBondMore(d, c, more)
    PROVE  CandidatesStay /\ DOMAIN candidateInfo' = DOMAIN candidateInfo /\ BondsKept
<1> DEFINE held == delegatorState[d].delegations[c]
           list == Lookup(Book(c), d, held, FALSE)
           outcome == IncreaseDelegation(Book(c), d, held, more, list)
<1>1. CandidatesOK /\ c \in DOMAIN candidateInfo /\ WellKept(Book(c))
    BY CandidateParts DEF StakingInv, CandidatesOK, IsCandidate, DelegatorBondMore
<1>2. CASE list = "missing"
    BY <1>1, <1>2, UnchangedCandidates DEF DelegatorBondMore
<1>3. CASE list # "missing"
    <2>1. SaveBook(c, outcome)
        BY <1>3 DEF DelegatorBondMore
    <2> HIDE DEF held
    <2>2. Keeps(outcome, Book(c))
        BY <1>1, <1>3, IncreaseDelegationKeeps
    <2> HIDE DEF outcome
    <2> QED
        BY <1>1, <2>1, <2>2, SaveBookKeeps
<1> QED
    BY <1>2, <1>3

LEMMA RevokeKeepsCandidates ==
    ASSUME StakingInv, NEW d, NEW c, ExecuteRevokeDelegation(d, c)
    PROVE  CandidatesStay /\ DOMAIN candidateInfo' = DOMAIN candidateInfo /\ BondsKept
<1> DEFINE amount == delegatorState[d].requests[c].amount
           list == Lookup(Book(c), d, amount, TopHasRoom(c))
           outcome == RemoveDelegation(Book(c), d, list)
<1>1. /\ CandidatesOK
      /\ c \in DOMAIN candidateInfo
      /\ list # "missing"
      /\ SaveBook(c, outcome)
    BY DEF StakingInv, CandidatesOK, IsCandidate, ExecuteRevokeDelegation
<1>2. WellKept(Book(c))
    BY <1>1, CandidateParts
<1> HIDE DEF amount
<1>3. Keeps(outcome, Book(c))
    BY <1>1, <1>2, RemoveDelegationKeeps
<1> HIDE DEF outcome
<1> QED
    BY <1>1, <1>3, SaveBookKeeps

LEMMA DelegatorBondLessKeepsCandidates ==
    ASSUME StakingInv, NEW d, NEW c, ExecuteDelegationBondLess(d, c)
    PROVE  CandidatesStay /\ DOMAIN candidateInfo' = DOMAIN candidateInfo /\ BondsKept
<1> DEFINE held == delegatorState[d].delegations[c]
           less == delegatorState[d].requests[c].amount
           list == Lookup(Book(c), d, held, FALSE)
           outcome == DecreaseDelegation(Book(c), d, held, less, list)
<1>1. CandidatesOK /\ c \in DOMAIN candidateInfo /\ WellKept(Book(c))
    BY CandidateParts
       DEF StakingInv, CandidatesOK, IsCandidate, ExecuteDelegationBondLess
<1>2. CASE list = "missing"
    BY <1>1, <1>2, UnchangedCandidates DEF ExecuteDelegationBondLess
<1>3. CASE list # "missing"
    <2>1. SaveBook(c, outcome)
        BY <1>3 DEF ExecuteDelegationBondLess
    <2> HIDE DEF held, less
    <2>2. Keeps(outcome, Book(c))
        BY <1>1, <1>3, DecreaseDelegationKeeps
    <2> HIDE DEF outcome
    <2> QED
        BY <1>1, <2>1, <2>2, SaveBookKeeps
<1> QED
    BY <1>2, <1>3

\* A delegator that leaves is taken out of several books at once.
LEMMA DelegatorExitKeepsCandidates ==
    ASSUME StakingInv, NEW d, ExecuteLeaveDelegators(d)
    PROVE  CandidatesStay /\ DOMAIN candidateInfo' = DOMAIN candidateInfo /\ BondsKept
<1> DEFINE ListOf(c) == Lookup(Book(c), d, delegatorState[d].delegations[c],
                               TopHasRoom(c))
           outcomes == [c \in Removable(d) |-> RemoveDelegation(Book(c), d, ListOf(c))]
<1>1. CandidatesOK /\ SaveBooks(outcomes)
    BY DEF StakingInv, CandidatesOK, ExecuteLeaveDelegators
<1>2. ASSUME NEW c \in Removable(d)
      PROVE  c \in DOMAIN candidateInfo /\ ListOf(c) # "missing"
    BY DEF Removable, IsCandidate
<1>3. ASSUME NEW c \in Removable(d)
      PROVE  Keeps(RemoveDelegation(Book(c), d, ListOf(c)), Book(c))
    <2>1. WellKept(Book(c))
        BY <1>1, <1>2, CandidateParts
    <2> QED
        BY <1>2, <2>1, RemoveDelegationKeeps
<1>4. /\ DOMAIN outcomes \subseteq DOMAIN candidateInfo
      /\ \A c \in DOMAIN outcomes : Keeps(outcomes[c], Book(c))
    BY <1>2, <1>3
<1> HIDE DEF outcomes
<1> QED
    BY <1>1, <1>4, SaveBooksKeeps

\* Candidates appear only with JoinCandidates.
CandidatesKept ==
    /\ CandidatesStay
    /\ \/ DOMAIN candidateInfo' \subseteq DOMAIN candidateInfo
       \/ \E acc, bond :
            /\ JoinCandidates(acc, bond)
            /\ DOMAIN candidateInfo' \subseteq DOMAIN candidateInfo \union {acc}

LEMMA StepKeepsCandidates ==
    ASSUME StakingInv, Next
    PROVE  CandidatesKept
<1>1. CandidatesOK
    BY DEF StakingInv, CandidatesOK
<1>2. ASSUME UNCHANGED books PROVE CandidatesKept
    BY <1>1, <1>2, UnchangedCandidates DEF CandidatesKept
<1>3. CASE StartRound
    BY <1>2, <1>3 DEF StartRound
<1>4. CASE CandidateCall
    <2>1. ASSUME NEW acc \in Accounts, NEW bond \in Nat, JoinCandidates(acc, bond)
          PROVE  CandidatesKept
        BY <1>1, <2>1, JoinKeepsCandidates DEF CandidatesKept
    <2>2. ASSUME NEW c, ExecuteLeaveCandidates(c) PROVE CandidatesKept
        BY <1>1, <2>2, ExitKeepsCandidates DEF CandidatesKept
    <2>3. ASSUME NEW c,
                 \/ ScheduleLeaveCandidates(c)
                 \/ CancelLeaveCandidates(c)
                 \/ GoOffline(c)
                 \/ GoOnline(c)
          PROVE  CandidatesKept
        BY <2>3, StatusCallsKeepCandidates DEF CandidatesKept
    <2>4. ASSUME NEW c, ExecuteCandidateBondLess(c) \/ CancelCandidateBondLess(c)
          PROVE  CandidatesKept
        BY <2>4, ExecuteBondLessKeepsCandidates, CancelBondLessKeepsCandidates
           DEF CandidatesKept
    <2>5. ASSUME NEW c, NEW amount \in Nat,
                 CandidateBondMore(c, amount) \/ ScheduleCandidateBondLess(c, amount)
          PROVE  CandidatesKept
        BY <2>5, BondMoreKeepsCandidates, ScheduleBondLessKeepsCandidates
           DEF CandidatesKept
    <2> QED
        BY <1>4, <2>1, <2>2, <2>3, <2>4, <2>5, ConstantsType DEF CandidateCall
<1>5. CASE DelegatorCall
    <2>1. ASSUME NEW d, NEW c, NEW amount,
                 \/ ScheduleLeaveDelegators(d)
                 \/ CancelLeaveDelegators(d)
                 \/ ScheduleRevokeDelegation(d, c)
                 \/ CancelDelegationRequest(d, c)
                 \/ ScheduleDelegatorBondLess(d, c, amount)
          PROVE  CandidatesKept
        BY <1>2, <2>1
           DEF ScheduleLeaveDelegators, CancelLeaveDelegators, ScheduleRevokeDelegation,
               CancelDelegationRequest, ScheduleDelegatorBondLess
    <2>2. ASSUME NEW d, ExecuteLeaveDelegators(d) PROVE CandidatesKept
        BY <2>2, DelegatorExitKeepsCandidates DEF CandidatesKept
    <2>3. ASSUME NEW d, NEW c, ExecuteDelegationRequest(d, c) PROVE CandidatesKept
        BY <2>3, RevokeKeepsCandidates, DelegatorBondLessKeepsCandidates
           DEF CandidatesKept, ExecuteDelegationRequest
    <2>4. ASSUME NEW d \in Accounts, NEW c, NEW amount \in Nat,
                 Delegate(d, c, amount) \/ DelegatorBondMore(d, c, amount)
          PROVE  CandidatesKept
        BY <2>4, DelegateKeepsCandidates, DelegatorBondMoreKeepsCandidates
           DEF CandidatesKept
    <2> QED
        BY <1>5, <2>1, <2>2, <2>3, <2>4, ConstantsType DEF DelegatorCall
<1> QED
    BY <1>3, <1>4, <1>5 DEF Next

-----------------------------------------------------------------------------
(* Both roles.                                                             *)

\* A new candidate is no delegator and a new delegator no candidate.
LEMMA StepKeepsRoles ==
    ASSUME StakingInv, Next
    PROVE  RolesDisjoint'
<1>1. DOMAIN candidateInfo \intersect DOMAIN delegatorState = {}
    BY DEF StakingInv, RolesDisjoint
<1>2. \/ DOMAIN candidateInfo' \subseteq DOMAIN candidateInfo
      \/ \E acc, bond :
           /\ JoinCandidates(acc, bond)
           /\ DOMAIN candidateInfo' \subseteq DOMAIN candidateInfo \union {acc}
    BY StepKeepsCandidates DEF CandidatesKept
<1>3. \/ DOMAIN delegatorState' \subseteq DOMAIN delegatorState
      \/ \E d, c, amount :
           /\ Delegate(d, c, amount)
           /\ DOMAIN delegatorState' \subseteq DOMAIN delegatorState \union {d}
    BY StepKeepsDelegators DEF DelegatorsKept
<1>4. ASSUME NEW acc, NEW bond, JoinCandidates(acc, bond),
             DOMAIN candidateInfo' \subseteq DOMAIN candidateInfo \union {acc}
      PROVE  RolesDisjoint'
    BY <1>1, <1>4 DEF RolesDisjoint, JoinCandidates, IsDelegator
<1>5. ASSUME NEW d, NEW c, NEW amount, Delegate(d, c, amount),
             DOMAIN delegatorState' \subseteq DOMAIN delegatorState \union {d},
             DOMAIN candidateInfo' \subseteq DOMAIN candidateInfo
      PROVE  RolesDisjoint'
    <2>1. d \in DOMAIN delegatorState \/ d \notin DOMAIN candidateInfo
        BY <1>5 DEF Delegate, MayDelegate, IsDelegator, IsCandidate
    <2> QED
        BY <1>1, <1>5, <2>1 DEF RolesDisjoint
<1>6. ASSUME DOMAIN delegatorState' \subseteq DOMAIN delegatorState,
             DOMAIN candidateInfo' \subseteq DOMAIN candidateInfo
      PROVE  RolesDisjoint'
    BY <1>1, <1>6 DEF RolesDisjoint
<1> QED
    BY <1>2, <1>3, <1>4, <1>5, <1>6

-----------------------------------------------------------------------------
(* The theorems.                                                           *)

LEMMA StepKeepsInv ==
    StakingInv /\ [Next]_vars => StakingInv'
<1> SUFFICES ASSUME StakingInv, [Next]_vars
             PROVE  StakingInv'
    OBVIOUS
<1>1. CASE Next
    BY <1>1, StepKeepsCandidates, StepKeepsDelegators, StepKeepsNumbers, StepKeepsRoles
       DEF StakingInv, CandidatesKept, CandidatesStay, CandidatesOK, DelegatorsKept
<1>2. CASE UNCHANGED vars
    <2>1. /\ UNCHANGED books
          /\ UNCHANGED <<round, delegatorState, total, reserved, candidateInfo>>
        BY <1>2 DEF vars, books
    <2>2. CandidatesOK'
        BY <2>1, UnchangedCandidates DEF StakingInv, CandidatesOK, CandidatesStay
    <2> QED
        BY <2>1, <2>2 DEF StakingInv, CandidatesOK, DelegatorsOK, RolesDisjoint, NumbersOK
<1> QED
    BY <1>1, <1>2

\* Without root, nothing but active candidates gets into the pool.
LEMMA StepKeepsStrays ==
    StakingInv /\ NoStrays /\ [Next]_vars => NoStrays'
<1> SUFFICES ASSUME StakingInv, NoStrays, [Next]_vars
             PROVE  NoStrays'
    OBVIOUS
<1>1. CASE Next
    BY <1>1, StepKeepsCandidates DEF CandidatesKept, CandidatesStay
<1>2. CASE UNCHANGED vars
    BY <1>2 DEF vars, NoStrays
<1> QED
    BY <1>1, <1>2

\* Every reachable state satisfies the inductive invariant.
THEOREM StakingInvariant ==
    Spec => []StakingInv
<1>1. Init => StakingInv
    BY InitEstablishes
<1>2. StakingInv /\ [Next]_vars => StakingInv'
    BY StepKeepsInv
<1> QED
    BY <1>1, <1>2, PTL DEF Spec

\* Storage items always have their types; in particular the three maps of the
\* candidates never lose each other's keys.
THEOREM TypeCorrect ==
    Spec => []TypeOK
BY StakingInvariant, InvImpliesTypes, PTL

\* The metadata that the delegation calls decide by always mirrors the lists.
THEOREM MetadataCorrect ==
    Spec => []MetadataMirrorsBooks
<1>1. StakingInv => MetadataMirrorsBooks
    BY InvImpliesSummaries
<1> QED
    BY <1>1, StakingInvariant, PTL

\* No list outgrows its limit, and the bottom is used only behind a full top.
THEOREM ListsCorrect ==
    Spec => []ListsFillFromTheTop
<1>1. StakingInv => ListsFillFromTheTop
    BY InvImpliesSummaries
<1> QED
    BY <1>1, StakingInvariant, PTL

\* Without root, the invariant includes that the pool has no strays.
PalletInv == StakingInv /\ NoStrays

LEMMA PalletInvariant ==
    Spec => []PalletInv
<1>1. Init => PalletInv
    BY InitEstablishes DEF Init, PalletInv, NoStrays, EmptyMap
<1>2. PalletInv /\ [Next]_vars => PalletInv'
    BY StepKeepsInv, StepKeepsStrays DEF PalletInv
<1> QED
    BY <1>1, <1>2, PTL DEF Spec

\* Selection always sees exactly the active candidates with their stake.
THEOREM PoolCorrect ==
    Spec => []PoolMatchesActive
<1>1. PalletInv => PoolMatchesActive
    <2> SUFFICES ASSUME StakingInv, NoStrays PROVE PoolMatchesActive
        BY DEF PalletInv
    <2> DEFINE active == { x \in DOMAIN candidateInfo : IsActive(candidateInfo[x]) }
    <2>1. /\ candidatePool = [c \in DOMAIN candidatePool |-> candidatePool[c]]
          /\ DOMAIN candidatePool = active
          /\ \A c \in active : candidatePool[c] = candidateInfo[c].total_counted
        BY DEF StakingInv, PoolOK, ActiveAreInPool, NoStrays, IsMap
    <2> HIDE DEF active
    <2>2. candidatePool = [c \in active |-> candidateInfo[c].total_counted]
        BY <2>1
    <2> QED
        BY <2>2 DEF PoolMatchesActive, active
<1> QED
    BY <1>1, PalletInvariant, PTL

\* No account is ever a candidate and a delegator.
THEOREM RolesCorrect ==
    Spec => []RolesDisjoint
<1>1. StakingInv => RolesDisjoint
    BY DEF StakingInv
<1> QED
    BY <1>1, StakingInvariant, PTL

-----------------------------------------------------------------------------
(* Decreases that were accepted stay covered.                              *)

\* Requests are for delegations that exist, and a decrease leaves at least the
\* minimum.
RecordCovered(del) ==
    \A c \in DOMAIN del.requests :
      /\ c \in DOMAIN del.delegations
      /\ del.requests[c].action = "Decrease" =>
           del.delegations[c] >= del.requests[c].amount + MinDelegation

RequestsCovered == \A d \in DOMAIN delegatorState : RecordCovered(delegatorState[d])

\* A record is covered when its requests are requests of a covered record and
\* their delegations have not become smaller.
LEMMA StillCovered ==
    ASSUME NEW del, DelegatorOK(del), RecordCovered(del), NEW new,
           DOMAIN new.requests \subseteq DOMAIN del.requests,
           \A c \in DOMAIN new.requests :
             /\ new.requests[c] = del.requests[c]
             /\ c \in DOMAIN new.delegations
             /\ new.delegations[c] \in Nat
             /\ new.delegations[c] >= del.delegations[c]
    PROVE  RecordCovered(new)
<1> SUFFICES ASSUME NEW c \in DOMAIN new.requests,
                    new.requests[c].action = "Decrease"
             PROVE  new.delegations[c] >= new.requests[c].amount + MinDelegation
    BY DEF RecordCovered
<1> DEFINE held == del.delegations[c]
           kept == new.delegations[c]
           least == del.requests[c].amount + MinDelegation
<1>1. /\ held \in Nat
      /\ kept \in Nat
      /\ least \in Nat
    BY DelegatorParts, StakingAssumption DEF RecordCovered, DelegationRequest
<1>2. held >= least /\ kept >= held
    BY DEF RecordCovered
<1>3. kept >= least
    <2> HIDE DEF held, kept, least
    <2> QED
        BY <1>1, <1>2
<1> QED
    BY <1>3

\* The effect of WithoutRequest on the two maps of a record.
LEMMA WithoutRequestFields ==
    ASSUME NEW del, DelegatorOK(del), NEW c
    PROVE  LET new == WithoutRequest(del, c)
           IN  /\ new.delegations = del.delegations
               /\ DOMAIN new.requests = DOMAIN del.requests \ {c}
               /\ \A x \in DOMAIN new.requests : new.requests[x] = del.requests[x]
BY DEF WithoutRequest, DelegatorOK, Drop

\* The effect of WithoutDelegation.
LEMMA WithoutDelegationFields ==
    ASSUME NEW del, DelegatorOK(del), NEW c
    PROVE  LET new == WithoutDelegation(del, c)
           IN  /\ new.requests = del.requests
               /\ DOMAIN new.delegations = DOMAIN del.delegations \ {c}
               /\ \A x \in DOMAIN new.delegations :
                    new.delegations[x] = del.delegations[x]
BY DEF WithoutDelegation, DelegatorOK, Drop

LEMMA WithoutRequestCovered ==
    ASSUME NEW del, DelegatorOK(del), RecordCovered(del), NEW c
    PROVE  RecordCovered(WithoutRequest(del, c))
BY WithoutRequestFields DEF RecordCovered

\* A delegation that goes takes its request along, in whichever order.
LEMMA RemovedCovered ==
    ASSUME NEW del, DelegatorOK(del), RecordCovered(del), NEW c
    PROVE  /\ RecordCovered(WithoutRequest(WithoutDelegation(del, c), c))
           /\ RecordCovered(WithoutDelegation(WithoutRequest(del, c), c))
<1> DEFINE less == WithoutDelegation(del, c)
           free == WithoutRequest(del, c)
<1>1. DelegatorOK(less) /\ DelegatorOK(free)
    BY WithoutDelegationOK, WithoutRequestOK
<1>2. /\ less.requests = del.requests
      /\ DOMAIN less.delegations = DOMAIN del.delegations \ {c}
      /\ \A x \in DOMAIN less.delegations : less.delegations[x] = del.delegations[x]
    BY WithoutDelegationFields
<1>3. /\ free.delegations = del.delegations
      /\ DOMAIN free.requests = DOMAIN del.requests \ {c}
      /\ \A x \in DOMAIN free.requests : free.requests[x] = del.requests[x]
    BY WithoutRequestFields
<1> HIDE DEF less, free
<1>4. RecordCovered(WithoutRequest(less, c))
    BY <1>1, <1>2, WithoutRequestFields DEF RecordCovered
<1>5. RecordCovered(WithoutDelegation(free, c))
    BY <1>1, <1>3, WithoutDelegationFields DEF RecordCovered
<1> QED
    BY <1>4, <1>5 DEF less, free

\* Saving covered records keeps all covered.
LEMMA SaveCovered ==
    ASSUME StakingInv, RequestsCovered, NEW d,
           \/ UNCHANGED delegatorState
           \/ delegatorState' = Drop(delegatorState, d)
           \/ \E del : RecordCovered(del) /\ SaveDelegator(d, del)
    PROVE  RequestsCovered'
<1>1. CASE UNCHANGED delegatorState
    BY <1>1 DEF RequestsCovered
<1>2. CASE delegatorState' = Drop(delegatorState, d)
    BY <1>2 DEF RequestsCovered, Drop
<1>3. CASE \E del : RecordCovered(del) /\ SaveDelegator(d, del)
    BY <1>3 DEF RequestsCovered, SaveDelegator, StakingInv, DelegatorsOK
<1> QED
    BY <1>1, <1>2, <1>3

LEMMA ExitKeepsCovered ==
    ASSUME StakingInv, RequestsCovered, NEW c, ExecuteLeaveCandidates(c)
    PROVE  RequestsCovered'
<1>1. \A d \in DOMAIN delegatorState : RecordCovered(AfterCandidateLeft(d, c))
    BY RemovedCovered
       DEF AfterCandidateLeft, StakingInv, DelegatorsOK, RequestsCovered
<1>2. PICK owners, gone :
        delegatorState' = [ d \in DOMAIN delegatorState \ gone |->
               IF d \in owners THEN AfterCandidateLeft(d, c)
                               ELSE delegatorState[d] ]
    BY DEF ExecuteLeaveCandidates
<1> QED
    BY <1>1, <1>2 DEF RequestsCovered

\* A new delegation has no request, and those kicked lose theirs.
LEMMA DelegateKeepsCovered ==
    ASSUME StakingInv, RequestsCovered, NEW d, NEW c, NEW amount,
           Delegate(d, c, amount)
    PROVE  RequestsCovered'
<1> DEFINE del == WithDelegation(d, c, amount)
<1>1. PICK kicked : delegatorState' = Put(AfterKick(c, kicked), d, del)
    BY DEF Delegate
<1> DEFINE kept == AfterKick(c, kicked)
<1>2. \A e \in DOMAIN kept : RecordCovered(kept[e])
    BY RemovedCovered DEF AfterKick, StakingInv, DelegatorsOK, RequestsCovered
<1>3. RecordCovered(del)
    <2>1. CASE IsDelegator(d)
        <3> DEFINE old == delegatorState[d]
        <3>1. /\ DelegatorOK(old)
              /\ RecordCovered(old)
              /\ c \notin DOMAIN old.delegations
            BY <2>1 DEF IsDelegator, StakingInv, DelegatorsOK, RequestsCovered,
                        Delegate, MayDelegate
        <3>2. /\ del.requests = old.requests
              /\ \A x \in DOMAIN old.delegations :
                    /\ x \in DOMAIN del.delegations
                    /\ del.delegations[x] = old.delegations[x]
            BY <2>1, <3>1 DEF WithDelegation, DelegatorOK, Put
        <3> HIDE DEF del, old
        <3> QED
            BY <3>1, <3>2 DEF RecordCovered
    <2>2. CASE ~IsDelegator(d)
        BY <2>2 DEF WithDelegation, NewDelegator, RecordCovered, EmptyMap
    <2> QED
        BY <2>1, <2>2
<1>4. delegatorState' = Put(kept, d, del)
    BY <1>1
<1> HIDE DEF kept, del
<1> QED
    BY <1>2, <1>3, <1>4 DEF RequestsCovered, Put

\* A decrease within the limits of schedule_decrease_delegation is covered; a
\* revocation may be of any amount.
LEMMA ScheduleKeepsCovered ==
    ASSUME StakingInv, RequestsCovered, NEW d, NEW c, NEW less \in Nat,
           \/ ScheduleRevokeDelegation(d, c)
           \/ ScheduleDelegatorBondLess(d, c, less)
    PROVE  RequestsCovered'
<1> DEFINE del == delegatorState[d]
<1>1. /\ DelegatorOK(del)
      /\ RecordCovered(del)
      /\ c \in DOMAIN del.delegations
      /\ del.delegations[c] \in Nat
    BY DelegatorParts
       DEF ScheduleRevokeDelegation, ScheduleDelegatorBondLess, IsDelegator,
           StakingInv, DelegatorsOK, RequestsCovered
<1>2. PICK amount, when, action :
        /\ SaveDelegator(d, WithRequest(del, c, amount, when, action))
        /\ \/ action = "Revoke"
           \/ amount = less /\ del.delegations[c] - less >= MinDelegation
    BY DEF ScheduleRevokeDelegation, ScheduleDelegatorBondLess
<1> DEFINE new == WithRequest(del, c, amount, when, action)
<1> HIDE DEF del
<1>3. /\ new.delegations = del.delegations
      /\ DOMAIN new.requests = DOMAIN del.requests \union {c}
      /\ new.requests[c].amount = amount
      /\ new.requests[c].action = action
      /\ \A x \in DOMAIN del.requests : x # c => new.requests[x] = del.requests[x]
    BY <1>1 DEF WithRequest, DelegatorOK, Put
<1>4. action = "Decrease" => del.delegations[c] >= amount + MinDelegation
    <2>1. MinDelegation \in Nat
        BY StakingAssumption
    <2> QED
        BY <1>1, <1>2, <2>1
<1> HIDE DEF new
<1>5. RecordCovered(new)
    BY <1>1, <1>3, <1>4 DEF RecordCovered
<1> QED
    BY <1>2, <1>5, SaveCovered DEF new

\* More stake covers what less stake covered.
LEMMA BondMoreKeepsCovered ==
    ASSUME StakingInv, RequestsCovered, NEW d, NEW c, NEW more \in Nat,
           DelegatorBondMore(d, c, more)
    PROVE  RequestsCovered'
<1> DEFINE del == delegatorState[d]
           new == [del EXCEPT !.delegations[c] = @ + more, !.total = @ + more]
<1>1. /\ DelegatorOK(del)
      /\ RecordCovered(del)
      /\ c \in DOMAIN del.delegations
      /\ UNCHANGED delegatorState \/ SaveDelegator(d, new)
    BY DEF DelegatorBondMore, IsDelegator, StakingInv, DelegatorsOK, RequestsCovered
<1>2. /\ new.requests = del.requests
      /\ new.delegations = [del.delegations EXCEPT ![c] = del.delegations[c] + more]
    <2> HIDE DEF del
    <2> QED
        BY <1>1 DEF DelegatorOK
<1>3. \A x \in DOMAIN del.delegations :
        /\ x \in DOMAIN new.delegations
        /\ new.delegations[x] \in Nat
        /\ new.delegations[x] >= del.delegations[x]
    <2> HIDE DEF new, del
    <2> QED
        BY <1>1, <1>2, DelegatorParts
<1> HIDE DEF new
<1>4. RecordCovered(new)
    <2> HIDE DEF del
    <2>1. \A x \in DOMAIN del.requests : x \in DOMAIN del.delegations
        BY <1>1 DEF RecordCovered
    <2> QED
        BY <1>1, <1>2, <1>3, <2>1, StillCovered
<1> QED
    BY <1>1, <1>4, SaveCovered

\* An executed decrease takes its request along and touches no other
\* delegation.
LEMMA BondLessKeepsCovered ==
    ASSUME StakingInv, RequestsCovered, NEW d, NEW c,
           ExecuteDelegationBondLess(d, c)
    PROVE  RequestsCovered'
<1> DEFINE del == delegatorState[d]
           free == WithoutRequest(del, c)
<1>1. /\ DelegatorOK(del)
      /\ RecordCovered(del)
      /\ DelegatorOK(free)
      /\ RecordCovered(free)
      /\ DOMAIN free.requests = DOMAIN del.requests \ {c}
    BY WithoutRequestOK, WithoutRequestCovered, WithoutRequestFields
       DEF ExecuteDelegationBondLess, IsDelegator, StakingInv, DelegatorsOK,
           RequestsCovered
<1>2. PICK left, new_total :
        \/ UNCHANGED delegatorState
        \/ SaveDelegator(d, [free EXCEPT !.delegations[c] = left, !.total = new_total])
    BY DEF ExecuteDelegationBondLess
<1> DEFINE new == [free EXCEPT !.delegations[c] = left, !.total = new_total]
<1> HIDE DEF free
<1>3. /\ new.requests = free.requests
      /\ DOMAIN new.delegations = DOMAIN free.delegations
      /\ \A x \in DOMAIN free.delegations :
            x # c => new.delegations[x] = free.delegations[x]
    BY <1>1 DEF DelegatorOK
<1> HIDE DEF new, del
<1>4. RecordCovered(new)
    BY <1>1, <1>3 DEF RecordCovered
<1> QED
    BY <1>2, <1>4, SaveCovered DEF new

LEMMA StepKeepsCovered ==
    ASSUME StakingInv, RequestsCovered, Next
    PROVE  RequestsCovered'
<1>1. ASSUME UNCHANGED delegatorState PROVE RequestsCovered'
    BY <1>1 DEF RequestsCovered
<1>2. CASE StartRound
    BY <1>1, <1>2 DEF StartRound
<1>3. CASE CandidateCall
    <2>1. ASSUME NEW c, NEW amount,
                 \/ JoinCandidates(c, amount)
                 \/ ScheduleLeaveCandidates(c)
                 \/ CancelLeaveCandidates(c)
                 \/ GoOffline(c)
                 \/ GoOnline(c)
                 \/ ExecuteCandidateBondLess(c)
                 \/ CancelCandidateBondLess(c)
                 \/ CandidateBondMore(c, amount)
                 \/ ScheduleCandidateBondLess(c, amount)
          PROVE  RequestsCovered'
        BY <1>1, <2>1
           DEF JoinCandidates, ScheduleLeaveCandidates, CancelLeaveCandidates,
               GoOffline, GoOnline, ExecuteCandidateBondLess,
               CancelCandidateBondLess, CandidateBondMore, ScheduleCandidateBondLess
    <2>2. ASSUME NEW c, ExecuteLeaveCandidates(c) PROVE RequestsCovered'
        BY <2>2, ExitKeepsCovered
    <2> QED
        BY <1>3, <2>1, <2>2 DEF CandidateCall
<1>4. CASE DelegatorCall
    <2>1. ASSUME NEW d, ScheduleLeaveDelegators(d) \/ CancelLeaveDelegators(d)
          PROVE  RequestsCovered'
        <3> DEFINE del == delegatorState[d]
        <3>1. /\ DelegatorOK(del)
              /\ RecordCovered(del)
            BY <2>1 DEF ScheduleLeaveDelegators, CancelLeaveDelegators, IsDelegator,
                        StakingInv, DelegatorsOK, RequestsCovered
        <3>2. PICK status : SaveDelegator(d, [del EXCEPT !.status = status])
            BY <2>1 DEF ScheduleLeaveDelegators, CancelLeaveDelegators
        <3> HIDE DEF del
        <3>3. RecordCovered([del EXCEPT !.status = status])
            BY <3>1 DEF RecordCovered, DelegatorOK
        <3> QED
            BY <3>2, <3>3, SaveCovered
    <2>2. ASSUME NEW d, ExecuteLeaveDelegators(d) PROVE RequestsCovered'
        BY <2>2, SaveCovered DEF ExecuteLeaveDelegators
    <2>3. ASSUME NEW d, NEW c, ExecuteRevokeDelegation(d, c) PROVE RequestsCovered'
        <3> DEFINE less == WithoutDelegation(WithoutRequest(delegatorState[d], c), c)
        <3>1. RecordCovered(less)
            BY <2>3, RemovedCovered
               DEF ExecuteRevokeDelegation, IsDelegator, StakingInv, DelegatorsOK,
                   RequestsCovered
        <3>2. delegatorState' = Drop(delegatorState, d) \/ SaveDelegator(d, less)
            BY <2>3 DEF ExecuteRevokeDelegation
        <3> HIDE DEF less
        <3> QED
            BY <3>1, <3>2, SaveCovered
    <2>4. ASSUME NEW d, NEW c, CancelDelegationRequest(d, c) PROVE RequestsCovered'
        <3>1. RecordCovered(WithoutRequest(delegatorState[d], c))
            BY <2>4, WithoutRequestCovered
               DEF CancelDelegationRequest, IsDelegator, StakingInv, DelegatorsOK,
                   RequestsCovered
        <3> QED
            BY <2>4, <3>1, SaveCovered DEF CancelDelegationRequest
    <2>5. ASSUME NEW d, NEW c, NEW amount \in Nat,
                 \/ ScheduleRevokeDelegation(d, c)
                 \/ ScheduleDelegatorBondLess(d, c, amount)
                 \/ ExecuteDelegationBondLess(d, c)
                 \/ Delegate(d, c, amount)
                 \/ DelegatorBondMore(d, c, amount)
          PROVE  RequestsCovered'
        BY <2>5, ScheduleKeepsCovered, BondLessKeepsCovered, DelegateKeepsCovered,
           BondMoreKeepsCovered
    <2>6. PICK d \in Backers :
             \/ ScheduleLeaveDelegators(d)
             \/ CancelLeaveDelegators(d)
             \/ ExecuteLeaveDelegators(d)
             \/ \E c \in Joiners :
                  \/ ScheduleRevokeDelegation(d, c)
                  \/ ExecuteRevokeDelegation(d, c)
                  \/ ExecuteDelegationBondLess(d, c)
                  \/ CancelDelegationRequest(d, c)
                  \/ \E amount \in Amounts :
                       \/ Delegate(d, c, amount)
                       \/ DelegatorBondMore(d, c, amount)
                       \/ ScheduleDelegatorBondLess(d, c, amount)
        BY <1>4 DEF DelegatorCall, ExecuteDelegationRequest
    <2>7. 0 \in Nat /\ \A amount \in Amounts : amount \in Nat
        BY ConstantsType
    <2> QED
        BY <2>1, <2>2, <2>3, <2>4, <2>5, <2>6, <2>7
<1> QED
    BY <1>2, <1>3, <1>4 DEF Next

\* Whatever happens between the acceptance of a decrease and its execution,
\* candidates and delegations keep their minimum.
THEOREM DecreasesCorrect ==
    Spec => []PendingDecreasesLeaveMinimum
<1>1. Init => RequestsCovered
    BY DEF Init, RequestsCovered, EmptyMap
<1>2. StakingInv /\ RequestsCovered /\ [Next]_vars => RequestsCovered'
    <2>1. CASE Next
        BY <2>1, StepKeepsCovered
    <2>2. CASE UNCHANGED vars
        BY <2>2 DEF vars, RequestsCovered
    <2> QED
        BY <2>1, <2>2
<1>3. StakingInv /\ RequestsCovered => PendingDecreasesLeaveMinimum
    BY DEF StakingInv, BondsCovered, Covered, RequestsCovered, RecordCovered,
           PendingDecreasesLeaveMinimum
<1> QED
    BY <1>1, <1>2, <1>3, StakingInvariant, PTL DEF Spec

-----------------------------------------------------------------------------
(* The hotfixes of root.                                                   *)

\* hotfix_remove_delegation_requests drops requests without a delegation;
\* hotfix_update_candidate_pool_value sets a candidate's entry in the pool.
LEMMA RootKeepsInv ==
    ASSUME StakingInv, RequestsCovered, RootCall
    PROVE  StakingInv' /\ RequestsCovered'
<1>1. CASE \E d \in Backers : HotfixRemoveDelegationRequests(d)
    <2>1. PICK d \in Backers : HotfixRemoveDelegationRequests(d)
        BY <1>1
    <2> DEFINE del == delegatorState[d]
               orphans == DOMAIN del.requests \ DOMAIN del.delegations
               revokes == { c \in orphans : del.requests[c].action = "Revoke" }
               amounts == [c \in orphans |-> del.requests[c].amount]
               requests == [c \in DOMAIN del.requests \ orphans |-> del.requests[c]]
               less == SaturatingSub(del.less_total, SumFunction(amounts))
               count == SaturatingSub(del.revocations_count, Cardinality(revokes))
               new == [ del EXCEPT !.requests = requests, !.less_total = less,
                                   !.revocations_count = count ]
    <2>2. /\ d \in DOMAIN delegatorState /\ SaveDelegator(d, new)
          /\ UNCHANGED books /\ UNCHANGED <<round, total, reserved>>
        BY <2>1 DEF HotfixRemoveDelegationRequests, IsDelegator
    <2>3. d \in Accounts /\ DelegatorOK(del) /\ RecordCovered(del)
        BY <2>2 DEF StakingInv, DelegatorsOK, RequestsCovered
    <2>4. del.less_total \in Nat /\ del.revocations_count \in Nat
        BY <2>3, DelegatorParts
    <2>5. less \in Nat /\ count \in Nat
        BY <2>4, SubNat
    <2>6. requests = [c \in DOMAIN requests |-> del.requests[c]]
          /\ DOMAIN requests \subseteq DOMAIN del.requests
        OBVIOUS
    <2> HIDE DEF del, less, count, requests
    <2>7. DelegatorOK(new)
        BY <2>3, <2>5, <2>6 DEF DelegatorOK, IsMap
    <2>8. RecordCovered(new)
        BY <2>3, <2>6 DEF RecordCovered, DelegatorOK
    <2> HIDE DEF new
    <2>9. /\ DOMAIN delegatorState' = DOMAIN delegatorState
          /\ delegatorState' = [delegatorState EXCEPT ![d] = new]
        BY <2>2 DEF SaveDelegator
    <2>10. DelegatorsOK' /\ RequestsCovered'
        BY <2>2, <2>7, <2>8, <2>9 DEF StakingInv, DelegatorsOK, RequestsCovered
    <2>11. CandidatesOK' /\ DOMAIN candidateInfo' = DOMAIN candidateInfo
        BY <2>2, UnchangedCandidates DEF StakingInv, CandidatesOK, CandidatesStay
    <2> QED
        BY <2>2, <2>9, <2>10, <2>11
           DEF StakingInv, CandidatesOK, RolesDisjoint, NumbersOK
<1>2. CASE \E c \in Joiners : HotfixUpdateCandidatePoolValue(c)
    <2>1. PICK c \in Joiners : HotfixUpdateCandidatePoolValue(c)
        BY <1>2
    <2>2. /\ c \in DOMAIN candidateInfo
          /\ candidatePool' = Put(candidatePool, c, candidateInfo[c].total_counted)
          /\ UNCHANGED <<round, candidateInfo, topDelegations, bottomDelegations,
                         delegatorState, total, reserved>>
        BY <2>1 DEF HotfixUpdateCandidatePoolValue, IsCandidate
    <2>3. candidateInfo[c].total_counted \in Nat /\ c \in Accounts
        BY <2>2, CandidateParts DEF StakingInv, CandidatesOK, BooksOK
    <2>4. PoolOK'
        BY <2>2, <2>3 DEF StakingInv, PoolOK, ActiveAreInPool, IsMap, Put
    <2>5. BooksOK' /\ BondsCovered'
        BY <2>2 DEF StakingInv, BooksOK, BondsCovered, Book
    <2> QED
        BY <2>2, <2>4, <2>5
           DEF StakingInv, DelegatorsOK, RolesDisjoint, NumbersOK, RequestsCovered
<1> QED
    BY <1>1, <1>2 DEF RootCall

\* What holds of the pallet without root holds with it: the types, the roles,
\* the minimum that pending decreases leave, and an entry of the right value
\* in the pool for every active candidate.
THEOREM RootKeepsThePallet ==
    RootSpec => [](/\ TypeOK /\ RolesDisjoint /\ PendingDecreasesLeaveMinimum
                   /\ ActiveAreInPool)
<1>1. Init => StakingInv /\ RequestsCovered
    BY InitEstablishes DEF Init, RequestsCovered, EmptyMap
<1>2. StakingInv /\ RequestsCovered /\ [Next \/ RootCall]_vars
        => StakingInv' /\ RequestsCovered'
    <2>1. CASE Next
        BY <2>1, StepKeepsCovered, StepKeepsInv
    <2>2. CASE RootCall
        BY <2>2, RootKeepsInv
    <2>3. CASE UNCHANGED vars
        BY <2>3, StepKeepsInv DEF vars, RequestsCovered
    <2> QED
        BY <2>1, <2>2, <2>3
<1>3. StakingInv /\ RequestsCovered
        => /\ TypeOK /\ RolesDisjoint /\ PendingDecreasesLeaveMinimum /\ ActiveAreInPool
    BY InvImpliesTypes
       DEF StakingInv, BondsCovered, Covered, RequestsCovered, RecordCovered,
           PendingDecreasesLeaveMinimum, PoolOK
<1> QED
    BY <1>1, <1>2, <1>3, PTL DEF RootSpec

==============================================================================
