----------------------------- MODULE StakingRounds -----------------------------
(***************************************************************************)
(* The other half of the allychain-staking pallet: rounds, the selection   *)
(* of collators, the snapshots of their stake, the points of those who     *)
(* author blocks and the payouts for them, RewardPaymentDelay rounds       *)
(* later, one collator per block.                                          *)
(*                                                                         *)
(* It composes with AllychainStaking: a block runs on_initialize           *)
(* (OnInitialize), then the author inherent (NoteAuthor), then extrinsics, *)
(* which are the actions of AllychainStaking and the two root calls that   *)
(* shape the rounds.                                                       *)
(*                                                                         *)
(* Abstractions: ValueQuery maps have the stored keys as domain and read 0 *)
(* elsewhere; a delayed payout is known by the stake its issuance is       *)
(* computed from (StakingRewards divides that issuance).  Equal stakes are *)
(* selected in any order (the code breaks ties by account).                *)
(***************************************************************************)
EXTENDS AllychainStaking

CONSTANTS
    RewardPaymentDelay,
    MinBlocksPerRound, DefaultBlocksPerRound,
    MinSelectedCandidates,
    MinCollatorStk,
    \* bounds of the model
    Lengths,          \* round lengths root may set
    SelectedCounts,   \* numbers of collators root may set
    MaxExtrinsics     \* extrinsics explored after genesis

\* A round is paid after it ended: the runtimes set a delay of 2.
ASSUME RoundsAssumption ==
    /\ RewardPaymentDelay \in Nat \ {0}
    /\ {MinBlocksPerRound, DefaultBlocksPerRound} \subseteq Nat \ {0}
    /\ MinSelectedCandidates \in 1..DefaultBlocksPerRound
    /\ MinCollatorStk \in Nat
    /\ Lengths \subseteq Nat /\ SelectedCounts \subseteq Nat
    /\ MaxExtrinsics \in Nat

VARIABLES
    age,                  \* block number, less Round.first
    phase,                \* "genesis", "sealed" (block 0), "author" or "calls"
    extrinsics,           \* dispatched since genesis
    length,               \* Round.length
    totalSelected,        \* TotalSelected
    selectedCandidates,   \* SelectedCandidates
    atStake,              \* AtStake: <<round, collator>> -> snapshot
    points,               \* Points: round -> points
    awardedPts,           \* AwardedPts: <<round, collator>> -> points
    staked,               \* Staked: round -> Total at its start
    delayedPayouts        \* DelayedPayouts: round -> stake it is issued on

progress == <<age, phase, extrinsics>>
config == <<length, totalSelected>>
ledger == <<atStake, points, awardedPts, staked, delayedPayouts>>
roundVars == <<progress, config, selectedCandidates, ledger>>
allVars == <<vars, roundVars>>

CollatorSnapshot == [bond : Nat, delegations : Seq(Bond), total : Nat]

RoundsInit ==
    /\ Init
    /\ age = 0 /\ phase = "genesis" /\ extrinsics = 0
    /\ length = DefaultBlocksPerRound
    /\ totalSelected = MinSelectedCandidates
    /\ selectedCandidates = {}
    /\ atStake = EmptyMap /\ points = EmptyMap /\ awardedPts = EmptyMap
    /\ staked = EmptyMap /\ delayedPayouts = EmptyMap

\* A ValueQuery read of a map of numbers.
ValueOf(f, k) == IF k \in DOMAIN f THEN f[k] ELSE 0

-----------------------------------------------------------------------------
(* Selection.                                                              *)

\* compute_top_candidates: the TotalSelected largest of the pool, of which
\* those below MinCollatorStk are then left out.
TopCandidates ==
    { {c \in best : candidatePool[c] >= MinCollatorStk} :
        best \in { S \in SUBSET DOMAIN candidatePool :
                     /\ \/ Cardinality(S) = totalSelected
                        \/ /\ Cardinality(S) < totalSelected
                           /\ S = DOMAIN candidatePool
                     /\ \A c \in S, d \in DOMAIN candidatePool \ S :
                          candidatePool[c] >= candidatePool[d] } }

\* A faulty snapshot whose total leaves the delegations out.
Snapshot_BondOnly(c) == [ bond |-> candidateInfo[c].bond,
                          delegations |-> topDelegations[c].delegations,
                          total |-> candidateInfo[c].bond ]

Snapshot(c) == [ bond |-> candidateInfo[c].bond,
                 delegations |-> topDelegations[c].delegations,
                 total |-> candidateInfo[c].total_counted ]

\* A faulty fallback that leaves the new round without snapshots.
AtStakeWith_NoneCopied(collators, now) ==
    [ k \in DOMAIN atStake \union ({now} \X collators) |->
        IF k[1] = now THEN Snapshot(k[2]) ELSE atStake[k] ]

\* The collators with a snapshot in round r.
SnapshotsIn(r) == { c \in Accounts : <<r, c>> \in DOMAIN atStake }

\* A faulty selection that renews the snapshots of earlier rounds as well.
AtStakeWith_Renewed(collators, now) ==
    [ k \in DOMAIN atStake \union ({now} \X (collators \union SnapshotsIn(now - 1))) |->
        IF k[2] \in collators THEN Snapshot(k[2])
        ELSE IF k[1] = now THEN atStake[<<now - 1, k[2]>>] ELSE atStake[k] ]

\* AtStake once round `now` has its snapshots: of the collators selected or,
\* when there is none, those of the round before.
AtStakeWith(collators, now) ==
    IF collators = {}
    THEN [ k \in DOMAIN atStake \union ({now} \X SnapshotsIn(now - 1)) |->
             IF k[1] = now THEN atStake[<<now - 1, k[2]>>] ELSE atStake[k] ]
    ELSE [ k \in DOMAIN atStake \union ({now} \X collators) |->
             IF k[1] = now THEN Snapshot(k[2]) ELSE atStake[k] ]

\* The genesis build once its candidates and delegations are in: selects the
\* first collators and starts round 1 at block 0.
GenesisBuild ==
    /\ phase = "genesis"
    /\ \E collators \in TopCandidates :
         /\ atStake' = AtStakeWith(collators, 1)
         /\ selectedCandidates' = collators
    /\ staked' = Put(staked, 1, total)
    /\ phase' = "sealed"
    /\ UNCHANGED <<vars, age, extrinsics, config, points, awardedPts,
                   delayedPayouts>>

-----------------------------------------------------------------------------
(* Rounds and payouts.                                                     *)

\* The round that is paid during round `now`.
PaidRound(now) == now - RewardPaymentDelay

\* prepare_staking_payouts: is there anything to pay?
PayoutIsDue(now) ==
    /\ now > RewardPaymentDelay
    /\ ValueOf(points, PaidRound(now)) > 0

AwardedIn(r) == { c \in Accounts : <<r, c>> \in DOMAIN awardedPts }

\* A faulty clean-up after the first payment.
PayOne_OnlyOne(r, c, stake, delayed) ==
    /\ awardedPts' = Drop(awardedPts, <<r, c>>)
    /\ atStake' = Drop(stake, <<r, c>>)
    /\ delayedPayouts' = Drop(delayed, r)
    /\ points' = Drop(points, r)

\* pay_one_collator_reward: the points and the snapshot of a collator are
\* taken (minting is modelled in StakingRewards).
PayOne(r, c, stake, delayed) ==
    /\ awardedPts' = Drop(awardedPts, <<r, c>>)
    /\ atStake' = Drop(stake, <<r, c>>)
    /\ delayedPayouts' = delayed
    /\ UNCHANGED points

\* A faulty schedule that makes no payment in the first block of a round.
HandleDelayedPayouts_SkipsFirst(now, stake, delayed) ==
    LET r == PaidRound(now)
    IN  IF r \notin DOMAIN delayed \/ now # round
        THEN /\ atStake' = stake /\ delayedPayouts' = delayed
             /\ UNCHANGED <<points, awardedPts>>
        ELSE IF ValueOf(points, r) = 0 \/ AwardedIn(r) = {}
        THEN /\ atStake' = stake
             /\ delayedPayouts' = Drop(delayed, r)
             /\ points' = Drop(points, r)
             /\ UNCHANGED awardedPts
        ELSE \E c \in AwardedIn(r) : PayOne(r, c, stake, delayed)

\* handle_delayed_payouts, with AtStake and DelayedPayouts as the transition
\* to a new round left them: nothing to do, the last clean-up, or a payment to
\* whichever collator the storage map yields first.
HandleDelayedPayouts(now, stake, delayed) ==
    LET r == PaidRound(now)
    IN  IF r \notin DOMAIN delayed
        THEN /\ atStake' = stake /\ delayedPayouts' = delayed
             /\ UNCHANGED <<points, awardedPts>>
        ELSE IF ValueOf(points, r) = 0 \/ AwardedIn(r) = {}
        THEN /\ atStake' = stake
             /\ delayedPayouts' = Drop(delayed, r)
             /\ points' = Drop(points, r)
             /\ UNCHANGED awardedPts
        ELSE \E c \in AwardedIn(r) : PayOne(r, c, stake, delayed)

\* RoundInfo::should_update, for the block that begins
ShouldUpdate == age + 1 >= length

\* on_initialize within a round
ContinueRound ==
    /\ ~ShouldUpdate
    /\ age' = age + 1
    /\ HandleDelayedPayouts(round, atStake, delayedPayouts)
    /\ UNCHANGED <<vars, selectedCandidates, staked>>

\* on_initialize with a new round: payouts are prepared, collators selected
\* and Total recorded, then the first payment is made.
NextRound ==
    LET now == round + 1
        r == PaidRound(now)
    IN  /\ ShouldUpdate
        /\ StartRound
        /\ age' = 0
        /\ \E collators \in TopCandidates :
             /\ selectedCandidates' = IF collators = {} THEN selectedCandidates
                                                        ELSE collators
             /\ HandleDelayedPayouts(now, AtStakeWith(collators, now),
                  IF PayoutIsDue(now)
                  THEN Put(delayedPayouts, r, ValueOf(staked, r))
                  ELSE delayedPayouts)
        /\ staked' = Put(IF PayoutIsDue(now) THEN Drop(staked, r) ELSE staked,
                         now, total)

OnInitialize ==
    /\ phase \in {"sealed", "calls"}
    /\ ContinueRound \/ NextRound
    /\ phase' = "author"
    /\ UNCHANGED <<extrinsics, config>>

\* note_author, called for a collator that can_author accepts.
NoteAuthor(author) ==
    /\ phase = "author"
    /\ author \in selectedCandidates
    /\ LET k == <<round, author>>
       IN  awardedPts' = Put(awardedPts, k, ValueOf(awardedPts, k) + 20)
    /\ points' = Put(points, round, ValueOf(points, round) + 20)
    /\ phase' = "calls"
    /\ UNCHANGED <<vars, age, extrinsics, config, selectedCandidates,
                   atStake, staked, delayedPayouts>>

-----------------------------------------------------------------------------
(* Extrinsics.                                                             *)

SetTotalSelected(new) ==
    /\ new >= MinSelectedCandidates
    /\ new # totalSelected
    /\ new <= length
    /\ totalSelected' = new
    /\ UNCHANGED length

SetBlocksPerRound(new) ==
    /\ new >= MinBlocksPerRound
    /\ new # length
    /\ new >= totalSelected
    /\ length' = new
    /\ UNCHANGED totalSelected

RoundsRootCall ==
    /\ \/ \E new \in SelectedCounts : SetTotalSelected(new)
       \/ \E new \in Lengths : SetBlocksPerRound(new)
    /\ UNCHANGED vars

StakingCall == (CandidateCall \/ DelegatorCall) /\ UNCHANGED config

Extrinsic ==
    /\ phase = "calls" /\ extrinsics < MaxExtrinsics
    /\ RoundsRootCall \/ StakingCall
    /\ extrinsics' = extrinsics + 1
    /\ UNCHANGED <<age, phase, selectedCandidates, ledger>>

\* The candidates and delegations of the genesis configuration.
GenesisCall ==
    /\ phase = "genesis"
    /\ \/ \E acc \in Joiners, bond \in BondAmounts : JoinCandidates(acc, bond)
       \/ \E d \in Backers, c \in Joiners, amount \in Amounts :
            Delegate(d, c, amount)
    /\ UNCHANGED roundVars

RoundsNext ==
    \/ GenesisCall
    \/ GenesisBuild
    \/ OnInitialize
    \/ \E author \in Accounts : NoteAuthor(author)
    \/ Extrinsic

RoundsSpec == RoundsInit /\ [][RoundsNext]_allVars

\* The chain grows: the next block is begun, and somebody who may author it
\* does.
ChainGrows ==
    /\ WF_allVars(OnInitialize)
    /\ WF_allVars(\E author \in Accounts : NoteAuthor(author))

FairRoundsSpec == RoundsSpec /\ ChainGrows

================================================================================
