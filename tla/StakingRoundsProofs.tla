-------------------------- MODULE StakingRoundsProofs --------------------------
(***************************************************************************)
(* Proofs about StakingRounds: it implements AllychainStaking, so what is  *)
(* proved there holds with rounds and payouts; snapshots are never missing *)
(* when they are read and add up to what they record; points last until    *)
(* they are paid; payouts end in time; and it implements Payroll.          *)
(***************************************************************************)
EXTENDS RoundsProperties, LedgerProofs

-----------------------------------------------------------------------------
(* Rounds leave the staking ledgers to AllychainStaking.                   *)

LEMMA StepsOfStaking ==
    [RoundsNext]_allVars => [Next]_vars
<1> SUFFICES ASSUME [RoundsNext]_allVars
             PROVE  [Next]_vars
    OBVIOUS
<1>1. CASE GenesisCall
    BY <1>1 DEF GenesisCall, Next, CandidateCall, DelegatorCall
<1>2. CASE GenesisBuild
    BY <1>2 DEF GenesisBuild
<1>3. CASE OnInitialize
    BY <1>3 DEF OnInitialize, ContinueRound, NextRound, Next
<1>4. ASSUME NEW author \in Accounts, NoteAuthor(author)
      PROVE  [Next]_vars
    BY <1>4 DEF NoteAuthor
<1>5. CASE Extrinsic
    BY <1>5 DEF Extrinsic, RoundsRootCall, StakingCall, Next
<1>6. CASE UNCHANGED allVars
    BY <1>6 DEF allVars
<1> QED
    BY <1>1, <1>2, <1>3, <1>4, <1>5, <1>6 DEF RoundsNext

\* Rounds, selection and payouts change the staking ledgers only in the ways
\* of AllychainStaking.
THEOREM RoundsImplementStaking ==
    RoundsSpec => Spec
<1>1. RoundsInit => Init
    BY DEF RoundsInit
<1> QED
    BY <1>1, StepsOfStaking, PTL DEF RoundsSpec, Spec

-----------------------------------------------------------------------------
(* The inductive invariant.                                                *)

SnapshotsOK ==
    /\ selectedCandidates \subseteq Accounts
    /\ \A k \in DOMAIN atStake :
         /\ \E r \in Nat, c \in Accounts : r <= round /\ k = <<r, c>>
         /\ atStake[k] \in CollatorSnapshot
    /\ atStake = [k \in DOMAIN atStake |-> atStake[k]]
    /\ awardedPts = [k \in DOMAIN awardedPts |-> awardedPts[k]]
    /\ phase = "genesis" => atStake = EmptyMap

RoundsInv ==
    /\ PalletInv
    /\ SnapshotsOK
    /\ SnapshotsOnHand
    /\ phase = "genesis" => selectedCandidates = {} /\ round = 1

LEMMA DelayType == RewardPaymentDelay \in Nat /\ RewardPaymentDelay > 0
BY RoundsAssumption

LEMMA SnapshotType ==
    ASSUME PalletInv, NEW c \in DOMAIN candidatePool
    PROVE  c \in Accounts /\ Snapshot(c) \in CollatorSnapshot
<1>1. c \in DOMAIN candidateInfo
    BY DEF PalletInv, NoStrays
<1>2. c \in Accounts /\ WellKept(Book(c))
    BY <1>1 DEF PalletInv, StakingInv, BooksOK
<1>3. candidateInfo[c] \in CandidateMetadata /\ topDelegations[c] \in Delegations
    BY <1>2 DEF WellKept, Book
<1>4. /\ candidateInfo[c].bond \in Nat
      /\ candidateInfo[c].total_counted \in Nat
      /\ topDelegations[c].delegations \in Seq(Bond)
    BY <1>3 DEF CandidateMetadata, Delegations
<1> QED
    BY <1>2, <1>4 DEF Snapshot, CollatorSnapshot

LEMMA TopCandidatesInPool ==
    ASSUME NEW collators \in TopCandidates
    PROVE  collators \subseteq DOMAIN candidatePool
BY DEF TopCandidates

\* What AtStake must be with snapshots up to round `now`.
StakeOK(stake, now) ==
    /\ \A k \in DOMAIN stake :
         /\ \E r \in Nat, c \in Accounts : r <= now /\ k = <<r, c>>
         /\ stake[k] \in CollatorSnapshot
    /\ stake = [k \in DOMAIN stake |-> stake[k]]

\* Selection adds the snapshots of round `now` and leaves all others alone;
\* without a selection whoever had one gets it again.
LEMMA AtStakeWithOK ==
    ASSUME PalletInv, StakeOK(atStake, round),
           NEW collators, collators \subseteq DOMAIN candidatePool,
           NEW now \in Nat, round <= now,
           \A k \in DOMAIN atStake : k[1] < now
    PROVE  LET new == AtStakeWith(collators, now)
           IN  /\ StakeOK(new, now)
               /\ \A k \in DOMAIN atStake : k \in DOMAIN new /\ new[k] = atStake[k]
               /\ \A c \in collators : <<now, c>> \in DOMAIN new
               /\ collators = {} =>
                    \A c \in Accounts : <<now - 1, c>> \in DOMAIN atStake =>
                                          <<now, c>> \in DOMAIN new
<1> DEFINE new == AtStakeWith(collators, now)
<1>1. round \in Nat
    BY DEF PalletInv, StakingInv, NumbersOK
<1>2. ASSUME NEW k \in DOMAIN atStake
      PROVE  /\ k[1] # now
             /\ \E r \in Nat, c \in Accounts : r <= now /\ k = <<r, c>>
             /\ atStake[k] \in CollatorSnapshot
    BY <1>1, <1>2 DEF StakeOK
<1>3. CASE collators = {}
    <2>1. new = [ k \in DOMAIN atStake \union ({now} \X SnapshotsIn(now - 1)) |->
                    IF k[1] = now THEN atStake[<<now - 1, k[2]>>] ELSE atStake[k] ]
        BY <1>3 DEF AtStakeWith
    <2>2. \A c \in SnapshotsIn(now - 1) : c \in Accounts /\ <<now - 1, c>> \in DOMAIN atStake
        BY DEF SnapshotsIn
    <2>3. \A c \in Accounts : <<now - 1, c>> \in DOMAIN atStake => c \in SnapshotsIn(now - 1)
        BY DEF SnapshotsIn
    <2> HIDE DEF new
    <2>4. DOMAIN new = DOMAIN atStake \union ({now} \X SnapshotsIn(now - 1))
        BY <2>1
    <2>5. \A k \in DOMAIN atStake : k \in DOMAIN new /\ new[k] = atStake[k]
        BY <1>2, <2>1, <2>4
    <2>6. ASSUME NEW c \in SnapshotsIn(now - 1)
          PROVE  /\ <<now, c>> \in DOMAIN new
                 /\ new[<<now, c>>] \in CollatorSnapshot
        <3>1. <<now, c>> \in DOMAIN new /\ <<now - 1, c>> \in DOMAIN atStake
            BY <2>2, <2>4
        <3>2. new[<<now, c>>] = atStake[<<now - 1, c>>]
            BY <2>1, <2>4, <3>1
        <3>3. atStake[<<now - 1, c>>] \in CollatorSnapshot
            BY <3>1 DEF StakeOK
        <3> QED
            BY <3>1, <3>2, <3>3
    <2>7. StakeOK(new, now)
        <3>1. new = [k \in DOMAIN new |-> new[k]]
            BY <2>1
        <3>2. ASSUME NEW k \in DOMAIN new
              PROVE  /\ \E r \in Nat, c \in Accounts : r <= now /\ k = <<r, c>>
                     /\ new[k] \in CollatorSnapshot
            <4>1. CASE k \in DOMAIN atStake
                BY <4>1, <1>2, <2>5
            <4>2. CASE k \in {now} \X SnapshotsIn(now - 1)
                <5>1. PICK c \in SnapshotsIn(now - 1) : k = <<now, c>>
                    BY <4>2
                <5>2. new[k] \in CollatorSnapshot
                    BY <5>1, <2>6
                <5>3. c \in Accounts
                    BY <5>1 DEF SnapshotsIn
                <5>4. now <= now
                    OBVIOUS
                <5> QED
                    BY <5>1, <5>2, <5>3, <5>4
            <4> QED
                BY <2>4, <4>1, <4>2
        <3> QED
            BY <3>1, <3>2 DEF StakeOK
    <2> QED
        BY <1>3, <2>3, <2>5, <2>6, <2>7 DEF new
<1>4. CASE collators # {}
    <2>1. new = [ k \in DOMAIN atStake \union ({now} \X collators) |->
                    IF k[1] = now THEN Snapshot(k[2]) ELSE atStake[k] ]
        BY <1>4 DEF AtStakeWith
    <2> HIDE DEF new
    <2>4. DOMAIN new = DOMAIN atStake \union ({now} \X collators)
        BY <2>1
    <2>5. \A k \in DOMAIN atStake : k \in DOMAIN new /\ new[k] = atStake[k]
        BY <1>2, <2>1, <2>4
    <2>6. ASSUME NEW c \in collators
          PROVE  /\ <<now, c>> \in DOMAIN new
                 /\ c \in Accounts
                 /\ new[<<now, c>>] \in CollatorSnapshot
        BY <2>1, <2>4, SnapshotType
    <2>7. StakeOK(new, now)
        <3>1. new = [k \in DOMAIN new |-> new[k]]
            BY <2>1
        <3>2. ASSUME NEW k \in DOMAIN new
              PROVE  /\ \E r \in Nat, c \in Accounts : r <= now /\ k = <<r, c>>
                     /\ new[k] \in CollatorSnapshot
            <4>1. CASE k \in DOMAIN atStake
                BY <4>1, <1>2, <2>5
            <4>2. CASE k \in {now} \X collators
                BY <4>2, <2>6
            <4> QED
                BY <2>4, <4>1, <4>2
        <3> QED
            BY <3>1, <3>2 DEF StakeOK
    <2> QED
        BY <1>4, <2>5, <2>6, <2>7 DEF new
<1> QED
    BY <1>3, <1>4

Restricted(f, keys) == [k \in DOMAIN f \ keys |-> f[k]]

Takeable(now, gone) ==
    \/ gone = {}
    \/ \E c \in Accounts : /\ <<now - RewardPaymentDelay, c>> \in DOMAIN awardedPts
                           /\ gone = {<<now - RewardPaymentDelay, c>>}

TakesOne(now, stake) ==
    \E gone : /\ Takeable(now, gone)
              /\ awardedPts' = Restricted(awardedPts, gone)
              /\ atStake' = Restricted(stake, gone)

\* A payout takes the points and the snapshot of one collator of the round it
\* is for, or of none.
LEMMA PayoutTakesOne ==
    ASSUME NEW now, NEW stake, NEW delayed,
           HandleDelayedPayouts(now, stake, delayed),
           stake = [k \in DOMAIN stake |-> stake[k]],
           awardedPts = [k \in DOMAIN awardedPts |-> awardedPts[k]]
    PROVE  TakesOne(now, stake)
<1>1. CASE atStake' = stake /\ UNCHANGED awardedPts
    <2>1. awardedPts' = Restricted(awardedPts, {}) /\ atStake' = Restricted(stake, {})
        BY <1>1 DEF Restricted
    <2> QED
        BY <2>1 DEF TakesOne, Takeable
<1>2. ASSUME NEW c \in AwardedIn(PaidRound(now)), PayOne(PaidRound(now), c, stake, delayed)
      PROVE  TakesOne(now, stake)
    <2> DEFINE gone == {<<now - RewardPaymentDelay, c>>}
    <2>1. c \in Accounts /\ <<now - RewardPaymentDelay, c>> \in DOMAIN awardedPts
        BY <1>2 DEF AwardedIn, PaidRound
    <2>2. awardedPts' = Restricted(awardedPts, gone) /\ atStake' = Restricted(stake, gone)
        BY <1>2 DEF PayOne, Drop, Restricted, PaidRound
    <2>3. Takeable(now, gone)
        BY <2>1 DEF Takeable
    <2> QED
        BY <2>2, <2>3 DEF TakesOne
<1> QED
    BY <1>1, <1>2 DEF HandleDelayedPayouts

-----------------------------------------------------------------------------
(* Every step keeps the invariant, and is a step of Payroll.               *)

LEMMA InitEstablishesRounds ==
    RoundsInit => RoundsInv
<1> SUFFICES ASSUME RoundsInit
             PROVE  RoundsInv
    OBVIOUS
<1>1. PalletInv
    BY InitEstablishes DEF RoundsInit, Init, PalletInv, NoStrays, EmptyMap
<1>2. atStake = EmptyMap /\ awardedPts = EmptyMap /\ selectedCandidates = {}
      /\ phase = "genesis" /\ round = 1
    BY DEF RoundsInit, Init
<1>3. SnapshotsOK /\ SnapshotsOnHand
    BY <1>2 DEF SnapshotsOK, SnapshotsOnHand, EmptyMap, Started
<1> QED
    BY <1>1, <1>2, <1>3 DEF RoundsInv

\* A step that leaves the ledger of snapshots and awards alone.
LEMMA QuietStepKeeps ==
    ASSUME RoundsInv, PalletInv',
           UNCHANGED <<round, phase, selectedCandidates, atStake, awardedPts>>
    PROVE  RoundsInv' /\ UNCHANGED <<round, OnDuty, Owed>>
BY DEF RoundsInv, SnapshotsOK, SnapshotsOnHand, Started, OnDuty, Owed

LEMMA RoundOfCalls ==
    (CandidateCall \/ DelegatorCall) => UNCHANGED round
<1>1. ASSUME NEW d, NEW c, NEW amount
      PROVE  /\ Delegate(d, c, amount) => UNCHANGED round
             /\ DelegatorBondMore(d, c, amount) => UNCHANGED round
             /\ ScheduleDelegatorBondLess(d, c, amount) => UNCHANGED round
    <2>1. Delegate(d, c, amount) => UNCHANGED round
        BY Zenon DEF Delegate
    <2>2. DelegatorBondMore(d, c, amount) => UNCHANGED round
        BY Zenon DEF DelegatorBondMore
    <2>3. ScheduleDelegatorBondLess(d, c, amount) => UNCHANGED round
        BY Zenon DEF ScheduleDelegatorBondLess
    <2> QED
        BY <2>1, <2>2, <2>3
<1>2. ASSUME NEW d, NEW c
      PROVE  /\ ScheduleRevokeDelegation(d, c) => UNCHANGED round
             /\ ExecuteDelegationRequest(d, c) => UNCHANGED round
             /\ CancelDelegationRequest(d, c) => UNCHANGED round
    <2>1. ExecuteDelegationRequest(d, c) => UNCHANGED round
        BY Zenon DEF ExecuteDelegationRequest, ExecuteRevokeDelegation,
                     ExecuteDelegationBondLess
    <2> QED
        BY <2>1 DEF ScheduleRevokeDelegation, CancelDelegationRequest
<1>3. ASSUME NEW d
      PROVE  /\ ScheduleLeaveDelegators(d) => UNCHANGED round
             /\ CancelLeaveDelegators(d) => UNCHANGED round
             /\ ExecuteLeaveDelegators(d) => UNCHANGED round
    <2>1. ExecuteLeaveDelegators(d) => UNCHANGED round
        BY Zenon DEF ExecuteLeaveDelegators
    <2> QED
        BY <2>1 DEF ScheduleLeaveDelegators, CancelLeaveDelegators
<1>4. ASSUME NEW c, NEW amount
      PROVE  /\ JoinCandidates(c, amount) => UNCHANGED round
             /\ CandidateBondMore(c, amount) => UNCHANGED round
             /\ ScheduleCandidateBondLess(c, amount) => UNCHANGED round
    BY DEF JoinCandidates, CandidateBondMore, ScheduleCandidateBondLess
<1>5. ASSUME NEW c
      PROVE  /\ ScheduleLeaveCandidates(c) => UNCHANGED round
             /\ ExecuteLeaveCandidates(c) => UNCHANGED round
             /\ CancelLeaveCandidates(c) => UNCHANGED round
             /\ GoOffline(c) => UNCHANGED round
             /\ GoOnline(c) => UNCHANGED round
             /\ ExecuteCandidateBondLess(c) => UNCHANGED round
             /\ CancelCandidateBondLess(c) => UNCHANGED round
    <2>1. ExecuteLeaveCandidates(c) => UNCHANGED round
        BY Zenon DEF ExecuteLeaveCandidates
    <2> QED
        BY <2>1 DEF ScheduleLeaveCandidates, CancelLeaveCandidates, GoOffline, GoOnline,
                    ExecuteCandidateBondLess, CancelCandidateBondLess
<1>6. CandidateCall => UNCHANGED round
    BY <1>4, <1>5 DEF CandidateCall
<1>7. DelegatorCall => UNCHANGED round
    BY <1>1, <1>2, <1>3 DEF DelegatorCall
<1> QED
    BY <1>6, <1>7

LEMMA ShiftType ==
    ASSUME NEW collators, collators \subseteq Accounts, NEW stake, NEW r,
           \A k \in DOMAIN stake : stake[k] \in CollatorSnapshot
    PROVE  \E shift \in SUBSET Accounts :
             Shift(collators, stake, r) \in [shift -> CollatorSnapshot]
<1> DEFINE shift == {x \in collators : <<r, x>> \in DOMAIN stake}
<1>1. Shift(collators, stake, r) \in [shift -> CollatorSnapshot]
    BY DEF Shift
<1>2. shift \in SUBSET Accounts
    OBVIOUS
<1> QED
    BY <1>1, <1>2

LEMMA GenesisKeeps ==
    ASSUME RoundsInv, PalletInv', GenesisBuild
    PROVE  RoundsInv' /\ PayrollOf!FirstShift
<1>1. PICK collators \in TopCandidates :
        /\ atStake' = AtStakeWith(collators, 1)
        /\ selectedCandidates' = collators
    BY DEF GenesisBuild
<1>2. UNCHANGED <<round, awardedPts>> /\ phase = "genesis" /\ phase' = "sealed"
    BY DEF GenesisBuild, vars
<1>3. /\ PalletInv /\ SnapshotsOK /\ selectedCandidates = {}
      /\ atStake = EmptyMap
      /\ DOMAIN awardedPts \subseteq DOMAIN atStake
    BY <1>2 DEF RoundsInv, SnapshotsOK, SnapshotsOnHand
<1>4. /\ StakeOK(atStake, round)
      /\ \A k \in DOMAIN atStake : k[1] < 1
      /\ round \in Nat
    BY <1>3 DEF StakeOK, EmptyMap, PalletInv, StakingInv, NumbersOK
<1>5. round = 1
    BY <1>2, <1>3 DEF RoundsInv
<1>6. /\ collators \subseteq DOMAIN candidatePool
      /\ collators \subseteq Accounts
    BY TopCandidatesInPool, SnapshotType, <1>3
<1>7. /\ StakeOK(atStake', 1)
      /\ \A c \in collators : <<1, c>> \in DOMAIN atStake'
    <2>1. 1 \in Nat /\ round <= 1
        BY <1>5
    <2>2. /\ StakeOK(AtStakeWith(collators, 1), 1)
          /\ \A c \in collators : <<1, c>> \in DOMAIN AtStakeWith(collators, 1)
        BY <1>3, <1>4, <1>6, <2>1, AtStakeWithOK
    <2> QED
        BY <1>1, <2>2
<1>8. awardedPts = EmptyMap /\ awardedPts' = EmptyMap
    BY <1>2, <1>3 DEF SnapshotsOK, EmptyMap
<1>9. RoundsInv'
    <2>1. SnapshotsOK'
        BY <1>1, <1>2, <1>5, <1>6, <1>7, <1>8 DEF SnapshotsOK, StakeOK, EmptyMap
    <2>2. SnapshotsOnHand'
        BY <1>1, <1>2, <1>5, <1>7, <1>8 DEF SnapshotsOnHand, EmptyMap
    <2> QED
        BY <1>2, <2>1, <2>2 DEF RoundsInv
<1>10. OnDuty = PayrollOf!NoDuty
    BY <1>3 DEF OnDuty, Shift, PayrollOf!NoDuty
<1>11. \E shift \in SUBSET Accounts : OnDuty' \in [shift -> CollatorSnapshot]
    <2>1. \A k \in DOMAIN atStake' : atStake'[k] \in CollatorSnapshot
        BY <1>7 DEF StakeOK
    <2>2. OnDuty' = Shift(collators, atStake', 1)
        BY <1>1, <1>2, <1>5 DEF OnDuty
    <2> QED
        BY <1>6, <2>1, <2>2, ShiftType
<1>12. Owed' = Owed
    BY <1>8 DEF Owed, Dues, EmptyMap
<1> QED
    BY <1>2, <1>9, <1>10, <1>11, <1>12 DEF PayrollOf!FirstShift

LEMMA NoteAuthorKeeps ==
    ASSUME RoundsInv, PalletInv', NEW author \in Accounts, NoteAuthor(author)
    PROVE  RoundsInv' /\ PayrollOf!Work(author)
<1> DEFINE k == <<round, author>>
<1>1. /\ UNCHANGED <<round, selectedCandidates, atStake>>
      /\ phase = "author" /\ phase' = "calls"
      /\ author \in selectedCandidates
      /\ awardedPts' = Put(awardedPts, k, ValueOf(awardedPts, k) + 20)
    BY DEF NoteAuthor, vars
<1>2. k \in DOMAIN atStake
    BY <1>1 DEF RoundsInv, SnapshotsOnHand, Started
<1>3. /\ DOMAIN awardedPts' = DOMAIN awardedPts \union {k}
      /\ \A x \in DOMAIN awardedPts' :
           awardedPts'[x] = IF x = k THEN ValueOf(awardedPts, k) + 20 ELSE awardedPts[x]
      /\ awardedPts' = [x \in DOMAIN awardedPts' |-> awardedPts'[x]]
    BY <1>1 DEF Put
<1> HIDE DEF k
<1>4. RoundsInv'
    <2>1. SnapshotsOK'
        BY <1>1, <1>3 DEF RoundsInv, SnapshotsOK
    <2>2. SnapshotsOnHand'
        BY <1>1, <1>2, <1>3 DEF RoundsInv, SnapshotsOnHand, Started
    <2> QED
        BY <1>1, <2>1, <2>2 DEF RoundsInv
<1>5. author \in DOMAIN OnDuty /\ OnDuty[author] = atStake[k] /\ OnDuty' = OnDuty
    BY <1>1, <1>2 DEF OnDuty, Shift, k
<1>6. Owed' = [ x \in DOMAIN Owed \union {k} |->
                IF x = k
                THEN [ points |-> (IF x \in DOMAIN Owed THEN Owed[x].points ELSE 0) + 20,
                       exposure |-> OnDuty[author] ]
                ELSE Owed[x] ]
    <2>1. DOMAIN Owed = DOMAIN awardedPts /\ DOMAIN Owed' = DOMAIN awardedPts'
        BY DEF Owed, Dues
    <2>2. ASSUME NEW x \in DOMAIN Owed
          PROVE  Owed[x] = [points |-> awardedPts[x], exposure |-> atStake[x]]
        BY <2>1 DEF Owed, Dues
    <2>3. Owed' = [ x \in DOMAIN awardedPts' |->
                    [points |-> awardedPts'[x], exposure |-> atStake[x]] ]
        BY <1>1 DEF Owed, Dues
    <2>4. ValueOf(awardedPts, k) = IF k \in DOMAIN Owed THEN Owed[k].points ELSE 0
        BY <2>1, <2>2 DEF ValueOf
    <2>5. ASSUME NEW x \in DOMAIN awardedPts'
          PROVE  [points |-> awardedPts'[x], exposure |-> atStake[x]]
                 = IF x = k
                   THEN [ points |-> (IF x \in DOMAIN Owed THEN Owed[x].points ELSE 0) + 20,
                          exposure |-> OnDuty[author] ]
                   ELSE Owed[x]
        BY <1>3, <1>5, <2>1, <2>2, <2>4
    <2> QED
        BY <1>3, <2>1, <2>3, <2>5
<1> QED
    BY <1>1, <1>4, <1>5, <1>6 DEF PayrollOf!Work, k

\* Whatever the payout at the start of a block takes, all else stays.
LEMMA PayoutKeeps ==
    ASSUME NEW now \in Nat, NEW stake, StakeOK(stake, now),
           awardedPts = [k \in DOMAIN awardedPts |-> awardedPts[k]],
           \A k \in DOMAIN awardedPts : k \in DOMAIN stake /\ stake[k] = atStake[k],
           NEW delayed, HandleDelayedPayouts(now, stake, delayed)
    PROVE  /\ StakeOK(atStake', now)
           /\ awardedPts' = [k \in DOMAIN awardedPts' |-> awardedPts'[k]]
           /\ DOMAIN awardedPts' \subseteq DOMAIN atStake'
           /\ \A c : <<now, c>> \in DOMAIN stake =>
                /\ <<now, c>> \in DOMAIN atStake'
                /\ atStake'[<<now, c>>] = stake[<<now, c>>]
           /\ \/ Owed' = Owed
              \/ \E c \in Accounts :
                   /\ <<now - RewardPaymentDelay, c>> \in DOMAIN Owed
                   /\ Owed' = PayrollOf!Without(Owed, {<<now - RewardPaymentDelay, c>>})
<1>1. PICK gone : /\ Takeable(now, gone)
                  /\ awardedPts' = Restricted(awardedPts, gone)
                  /\ atStake' = Restricted(stake, gone)
    <2>1. stake = [k \in DOMAIN stake |-> stake[k]]
        BY DEF StakeOK
    <2>2. TakesOne(now, stake)
        BY <2>1, PayoutTakesOne
    <2> QED
        BY <2>2 DEF TakesOne
<1>2. /\ DOMAIN awardedPts' = DOMAIN awardedPts \ gone
      /\ \A k \in DOMAIN awardedPts' : awardedPts'[k] = awardedPts[k]
      /\ DOMAIN atStake' = DOMAIN stake \ gone
      /\ \A k \in DOMAIN atStake' : atStake'[k] = stake[k]
      /\ awardedPts' = [k \in DOMAIN awardedPts' |-> awardedPts'[k]]
      /\ atStake' = [k \in DOMAIN atStake' |-> atStake'[k]]
    BY <1>1 DEF Restricted
<1>3. StakeOK(atStake', now)
    <2>1. ASSUME NEW k \in DOMAIN atStake'
          PROVE  /\ \E r \in Nat, c \in Accounts : r <= now /\ k = <<r, c>>
                 /\ atStake'[k] \in CollatorSnapshot
        BY <1>2 DEF StakeOK
    <2> QED
        BY <1>2, <2>1 DEF StakeOK
<1>4. DOMAIN awardedPts' \subseteq DOMAIN atStake'
    BY <1>2
<1>5. ASSUME NEW c, <<now, c>> \in DOMAIN stake
      PROVE  /\ <<now, c>> \in DOMAIN atStake'
             /\ atStake'[<<now, c>>] = stake[<<now, c>>]
    <2>1. now - RewardPaymentDelay # now
        BY DelayType
    <2>2. ASSUME NEW e
          PROVE  <<now, c>> # <<now - RewardPaymentDelay, e>>
        BY <2>1
    <2>3. <<now, c>> \notin gone
        <3>1. CASE gone = {}
            BY <3>1
        <3>2. ASSUME NEW e, gone = {<<now - RewardPaymentDelay, e>>}
              PROVE  <<now, c>> \notin gone
            BY <2>2, <3>2
        <3> QED
            BY <1>1, <3>1, <3>2 DEF Takeable
    <2> QED
        BY <1>2, <1>5, <2>3
<1>6. Owed' = PayrollOf!Without(Owed, gone)
    <2>1. DOMAIN Owed = DOMAIN awardedPts
        BY DEF Owed, Dues
    <2>2. Owed' = [k \in DOMAIN awardedPts' |->
                     [points |-> awardedPts'[k], exposure |-> atStake'[k]]]
        BY DEF Owed, Dues
    <2>3. ASSUME NEW k \in DOMAIN awardedPts'
          PROVE  [points |-> awardedPts'[k], exposure |-> atStake'[k]] = Owed[k]
        <3>1. awardedPts'[k] = awardedPts[k] /\ atStake'[k] = atStake[k]
            BY <1>2, <1>4
        <3>2. Owed[k] = [points |-> awardedPts[k], exposure |-> atStake[k]]
            BY <1>2 DEF Owed, Dues
        <3> QED
            BY <3>1, <3>2
    <2> QED
        BY <1>2, <2>1, <2>2, <2>3 DEF PayrollOf!Without
<1>7. CASE gone = {}
    <2>1. Owed = [k \in DOMAIN Owed |-> Owed[k]]
        BY DEF Owed, Dues
    <2>2. Owed' = Owed
        BY <1>6, <1>7, <2>1 DEF PayrollOf!Without
    <2> QED
        BY <1>2, <1>3, <1>4, <1>5, <2>2
<1>8. ASSUME NEW c \in Accounts,
             <<now - RewardPaymentDelay, c>> \in DOMAIN awardedPts,
             gone = {<<now - RewardPaymentDelay, c>>}
      PROVE  \E e \in Accounts :
               /\ <<now - RewardPaymentDelay, e>> \in DOMAIN Owed
               /\ Owed' = PayrollOf!Without(Owed, {<<now - RewardPaymentDelay, e>>})
    <2>1. <<now - RewardPaymentDelay, c>> \in DOMAIN Owed
        BY <1>8 DEF Owed, Dues
    <2> QED
        BY <1>6, <1>8, <2>1
<1> QED
    BY <1>1, <1>2, <1>3, <1>4, <1>5, <1>7, <1>8 DEF Takeable

\* Within a round.
LEMMA ContinueKeeps ==
    ASSUME RoundsInv, PalletInv', OnInitialize, ContinueRound
    PROVE  RoundsInv' /\ PayrollOf!StartBlock
<1>1. /\ UNCHANGED <<round, selectedCandidates>>
      /\ phase # "genesis" /\ phase' = "author"
      /\ HandleDelayedPayouts(round, atStake, delayedPayouts)
    BY DEF OnInitialize, ContinueRound, vars
<1>2. /\ SnapshotsOK /\ SnapshotsOnHand /\ round \in Nat
      /\ StakeOK(atStake, round)
      /\ awardedPts = [k \in DOMAIN awardedPts |-> awardedPts[k]]
      /\ DOMAIN awardedPts \subseteq DOMAIN atStake
    BY DEF RoundsInv, SnapshotsOK, SnapshotsOnHand, StakeOK, PalletInv, StakingInv, NumbersOK
<1>3. /\ StakeOK(atStake', round)
      /\ awardedPts' = [k \in DOMAIN awardedPts' |-> awardedPts'[k]]
      /\ DOMAIN awardedPts' \subseteq DOMAIN atStake'
      /\ \A c : <<round, c>> \in DOMAIN atStake =>
           /\ <<round, c>> \in DOMAIN atStake'
           /\ atStake'[<<round, c>>] = atStake[<<round, c>>]
      /\ \/ Owed' = Owed
         \/ \E c \in Accounts :
              /\ <<round - RewardPaymentDelay, c>> \in DOMAIN Owed
              /\ Owed' = PayrollOf!Without(Owed, {<<round - RewardPaymentDelay, c>>})
    <2>1. \A k \in DOMAIN awardedPts : k \in DOMAIN atStake /\ atStake[k] = atStake[k]
        BY <1>2
    <2> QED
        BY <1>1, <1>2, <2>1, PayoutKeeps
<1>4. \A c \in selectedCandidates : <<round, c>> \in DOMAIN atStake
    BY <1>1, <1>2 DEF SnapshotsOnHand, Started
<1>5. RoundsInv'
    <2>1. SnapshotsOK'
        BY <1>1, <1>2, <1>3 DEF SnapshotsOK, StakeOK
    <2>2. SnapshotsOnHand'
        BY <1>1, <1>3, <1>4 DEF SnapshotsOnHand
    <2> QED
        BY <1>1, <2>1, <2>2 DEF RoundsInv
<1>6. OnDuty' = OnDuty
    <2>1. OnDuty = [c \in selectedCandidates |-> atStake[<<round, c>>]]
        <3>1. {x \in selectedCandidates : <<round, x>> \in DOMAIN atStake} = selectedCandidates
            BY <1>4
        <3> QED
            BY <3>1 DEF OnDuty, Shift
    <2>2. OnDuty' = [c \in selectedCandidates |-> atStake'[<<round, c>>]]
        <3>1. {x \in selectedCandidates : <<round, x>> \in DOMAIN atStake'} = selectedCandidates
            BY <1>3, <1>4
        <3>2. OnDuty' = [c \in {x \in selectedCandidates : <<round, x>> \in DOMAIN atStake'}
                           |-> atStake'[<<round, c>>]]
            BY <1>1 DEF OnDuty, Shift
        <3> QED
            BY <3>1, <3>2
    <2>3. \A c \in selectedCandidates : atStake'[<<round, c>>] = atStake[<<round, c>>]
        BY <1>3, <1>4
    <2> QED
        BY <2>1, <2>2, <2>3
<1> QED
    BY <1>1, <1>3, <1>5, <1>6 DEF PayrollOf!StartBlock

\* The transition to a new round.
LEMMA NextRoundKeeps ==
    ASSUME RoundsInv, PalletInv', OnInitialize, NextRound
    PROVE  RoundsInv' /\ PayrollOf!StartBlock
<1> DEFINE now == round + 1
<1>1. PICK collators \in TopCandidates :
        /\ selectedCandidates' = IF collators = {} THEN selectedCandidates ELSE collators
        /\ \E delayed : HandleDelayedPayouts(now, AtStakeWith(collators, now), delayed)
    BY DEF NextRound
<1>2. round' = now /\ phase # "genesis" /\ phase' = "author"
    BY DEF NextRound, StartRound, OnInitialize
<1>3. /\ PalletInv /\ round \in Nat
      /\ StakeOK(atStake, round)
      /\ awardedPts = [k \in DOMAIN awardedPts |-> awardedPts[k]]
      /\ DOMAIN awardedPts \subseteq DOMAIN atStake
      /\ selectedCandidates \subseteq Accounts
      /\ \A c \in selectedCandidates : <<round, c>> \in DOMAIN atStake
    BY <1>2 DEF RoundsInv, SnapshotsOK, SnapshotsOnHand, StakeOK, PalletInv, StakingInv, NumbersOK, Started
<1>4. /\ now \in Nat /\ round <= now /\ now - 1 = round
      /\ \A k \in DOMAIN atStake : k[1] < now
    <2>1. ASSUME NEW k \in DOMAIN atStake
          PROVE  k[1] < now
        <3>1. PICK r \in Nat, c \in Accounts : r <= round /\ k = <<r, c>>
            BY <1>3 DEF StakeOK
        <3> QED
            BY <1>3, <3>1
    <2> QED
        BY <1>3, <2>1
<1>5. collators \subseteq DOMAIN candidatePool /\ collators \subseteq Accounts
    BY <1>3, TopCandidatesInPool, SnapshotType
<1> DEFINE stake == AtStakeWith(collators, now)
<1>6. /\ StakeOK(stake, now)
      /\ \A k \in DOMAIN atStake : k \in DOMAIN stake /\ stake[k] = atStake[k]
      /\ \A c \in collators : <<now, c>> \in DOMAIN stake
      /\ collators = {} => \A c \in Accounts : <<now - 1, c>> \in DOMAIN atStake =>
                                                 <<now, c>> \in DOMAIN stake
    <2> HIDE DEF now
    <2> QED
        BY <1>3, <1>4, <1>5, AtStakeWithOK
<1> HIDE DEF stake, now
<1>7. \A c \in selectedCandidates' : c \in Accounts /\ <<now, c>> \in DOMAIN stake
    BY <1>1, <1>3, <1>4, <1>5, <1>6
<1>8. PICK delayed : HandleDelayedPayouts(now, stake, delayed)
    BY <1>1 DEF stake
<1>9. /\ StakeOK(atStake', now)
      /\ awardedPts' = [k \in DOMAIN awardedPts' |-> awardedPts'[k]]
      /\ DOMAIN awardedPts' \subseteq DOMAIN atStake'
      /\ \A c : <<now, c>> \in DOMAIN stake => <<now, c>> \in DOMAIN atStake'
      /\ \/ Owed' = Owed
         \/ \E c \in Accounts :
              /\ <<now - RewardPaymentDelay, c>> \in DOMAIN Owed
              /\ Owed' = PayrollOf!Without(Owed, {<<now - RewardPaymentDelay, c>>})
    <2>1. \A k \in DOMAIN awardedPts : k \in DOMAIN stake /\ stake[k] = atStake[k]
        BY <1>3, <1>6
    <2> QED
        BY <1>3, <1>4, <1>6, <1>8, <2>1, PayoutKeeps
<1>10. RoundsInv'
    <2>1. SnapshotsOK'
        BY <1>2, <1>7, <1>9 DEF SnapshotsOK, StakeOK
    <2>2. SnapshotsOnHand'
        BY <1>2, <1>7, <1>9 DEF SnapshotsOnHand
    <2> QED
        BY <1>2, <2>1, <2>2 DEF RoundsInv
<1>11. \E shift \in SUBSET Accounts : OnDuty' \in [shift -> CollatorSnapshot]
    <2>1. \A k \in DOMAIN atStake' : atStake'[k] \in CollatorSnapshot
        BY <1>9 DEF StakeOK
    <2>2. selectedCandidates' \subseteq Accounts
        BY <1>7
    <2>3. OnDuty' = Shift(selectedCandidates', atStake', now)
        BY <1>2 DEF OnDuty
    <2> QED
        BY <2>1, <2>2, <2>3, ShiftType
<1> QED
    BY <1>2, <1>9, <1>10, <1>11 DEF PayrollOf!StartBlock, now

LEMMA RoundsStepKeeps ==
    ASSUME RoundsInv, PalletInv', [RoundsNext]_allVars
    PROVE  RoundsInv' /\ [PayrollOf!Next]_(PayrollOf!vars)
<1>1. CASE GenesisBuild
    BY <1>1, GenesisKeeps DEF PayrollOf!Next
<1>2. CASE OnInitialize
    <2>1. ContinueRound \/ NextRound
        BY <1>2 DEF OnInitialize
    <2> QED
        BY <1>2, <2>1, ContinueKeeps, NextRoundKeeps DEF PayrollOf!Next
<1>3. ASSUME NEW author \in Accounts, NoteAuthor(author)
      PROVE  RoundsInv' /\ PayrollOf!Next
    BY <1>3, NoteAuthorKeeps DEF PayrollOf!Next
<1>4. ASSUME UNCHANGED <<round, phase, selectedCandidates, atStake, awardedPts>>
      PROVE  RoundsInv' /\ UNCHANGED PayrollOf!vars
    BY <1>4, QuietStepKeeps DEF PayrollOf!vars
<1>5. CASE GenesisCall
    <2>1. CandidateCall \/ DelegatorCall
        BY <1>5 DEF GenesisCall, CandidateCall, DelegatorCall
    <2> QED
        BY <1>4, <1>5, <2>1, RoundOfCalls DEF GenesisCall, roundVars, progress, ledger
<1>6. CASE Extrinsic
    <2>1. UNCHANGED round
        BY <1>6, RoundOfCalls DEF Extrinsic, RoundsRootCall, StakingCall, vars
    <2> QED
        BY <1>4, <1>6, <2>1 DEF Extrinsic, ledger
<1>7. CASE UNCHANGED allVars
    BY <1>4, <1>7 DEF allVars, vars, roundVars, progress, ledger
<1> QED
    BY <1>1, <1>2, <1>3, <1>5, <1>6, <1>7 DEF RoundsNext

\* In every reachable state whoever may author has a snapshot, and whoever
\* has authored has one until paid.
THEOREM SnapshotsAlwaysOnHand ==
    RoundsSpec => []SnapshotsOnHand
<1>1. RoundsInit => RoundsInv
    BY InitEstablishesRounds
<1>2. RoundsInv /\ PalletInv' /\ [RoundsNext]_allVars => RoundsInv'
    BY RoundsStepKeeps
<1>3. RoundsInv => SnapshotsOnHand
    BY DEF RoundsInv
<1> QED
    BY <1>1, <1>2, <1>3, RoundsImplementStaking, PalletInvariant, PTL DEF RoundsSpec

\* The pallet implements Payroll: exposures are fixed when a round begins,
\* and a collator is paid at most once for it, at the right time.
THEOREM RoundsImplementPayroll ==
    RoundsSpec => KeepsPayroll
<1>1. RoundsInit => RoundsInv /\ PayrollOf!Init
    <2>1. RoundsInit => PayrollOf!Init
        BY DEF RoundsInit, Init, PayrollOf!Init, PayrollOf!NoDuty, OnDuty, Owed, Shift, Dues,
               EmptyMap
    <2> QED
        BY <2>1, InitEstablishesRounds
<1>2. RoundsInv /\ PalletInv' /\ [RoundsNext]_allVars
        => RoundsInv' /\ [PayrollOf!Next]_(PayrollOf!vars)
    BY RoundsStepKeeps
<1> QED
    BY <1>1, <1>2, RoundsImplementStaking, PalletInvariant, PTL
       DEF RoundsSpec, KeepsPayroll, PayrollOf!Spec

-----------------------------------------------------------------------------
(* Points and payouts.                                                     *)

AwardsOf(awards, r) == { c \in Accounts : <<r, c>> \in DOMAIN awards }

PointsSum(awards, r) == SumFunction([c \in AwardsOf(awards, r) |-> awards[<<r, c>>]])

AwardsOK(awards, now) ==
    \A k \in DOMAIN awards :
      /\ \E r \in Nat \ {0}, c \in Accounts : r <= now /\ k = <<r, c>>
      /\ awards[k] \in Nat \ {0}

PointsCover(awards, pts, now) ==
    \A r \in 1 .. now : /\ ValueOf(pts, r) >= PointsSum(awards, r)
                        /\ now < r + RewardPaymentDelay => ValueOf(pts, r) = PointsSum(awards, r)

PointsOK(pts, now) == \A r \in DOMAIN pts : r \in 1 .. now /\ pts[r] \in Nat

\* What is prepared is for rounds far enough back that have points, and is
\* there for the round set to be paid if anyone is owed for it.
PayoutsOK(delayed, pts, awards, now) ==
    /\ \A r \in DOMAIN delayed : /\ r \in Nat /\ r + RewardPaymentDelay <= now
                                 /\ ValueOf(pts, r) > 0
    /\ AwardsOf(awards, now - RewardPaymentDelay) # {}
         => now - RewardPaymentDelay \in DOMAIN delayed

LEMMA AwardsFinite ==
    ASSUME NEW awards, NEW now, AwardsOK(awards, now), NEW r
    PROVE  /\ IsFiniteSet(AwardsOf(awards, r))
           /\ PointsSum(awards, r) \in Nat
           /\ PointsSum(awards, r) = 0 <=> AwardsOf(awards, r) = {}
<1> DEFINE f == [c \in AwardsOf(awards, r) |-> awards[<<r, c>>]]
<1>1. IsFiniteSet(AwardsOf(awards, r))
    <2>1. IsFiniteSet(Accounts) /\ AwardsOf(awards, r) \in SUBSET Accounts
        BY StakingAssumption DEF AwardsOf
    <2> QED
        BY <2>1, FS_Subset
<1>2. DOMAIN f = AwardsOf(awards, r) /\ \A c \in DOMAIN f : f[c] \in Nat /\ f[c] > 0
    <2>1. DOMAIN f = AwardsOf(awards, r)
        OBVIOUS
    <2>2. ASSUME NEW c \in AwardsOf(awards, r) PROVE f[c] \in Nat /\ f[c] > 0
        <3>1. awards[<<r, c>>] \in Nat \ {0} /\ f[c] = awards[<<r, c>>]
            BY DEF AwardsOf, AwardsOK
        <3> QED
            BY <3>1
    <2> QED
        BY <2>1, <2>2
<1>3. PointsSum(awards, r) = SumFunctionOnSet(f, DOMAIN f)
    BY DEF PointsSum, SumFunction
<1> HIDE DEF f
<1>4. PointsSum(awards, r) \in Nat
    BY <1>1, <1>2, <1>3, SumType
<1>5. ASSUME AwardsOf(awards, r) = {} PROVE PointsSum(awards, r) = 0
    BY <1>2, <1>3, <1>5, SumOfNothing
<1>6. ASSUME NEW c \in AwardsOf(awards, r) PROVE PointsSum(awards, r) # 0
    <2>1. f[c] <= SumFunctionOnSet(f, DOMAIN f)
        BY <1>1, <1>2, <1>6, SumAtLeast
    <2>2. f[c] \in Nat /\ f[c] > 0
        BY <1>2, <1>6
    <2> QED
        BY <1>3, <1>4, <2>1, <2>2
<1> QED
    BY <1>1, <1>4, <1>5, <1>6

\* The awards of other rounds are not touched.
LEMMA OtherRounds ==
    ASSUME NEW awards, NEW new, NEW q,
           \A c : <<q, c>> \in DOMAIN new <=> <<q, c>> \in DOMAIN awards,
           \A c : <<q, c>> \in DOMAIN awards => new[<<q, c>>] = awards[<<q, c>>]
    PROVE  PointsSum(new, q) = PointsSum(awards, q) /\ AwardsOf(new, q) = AwardsOf(awards, q)
<1>1. AwardsOf(new, q) = AwardsOf(awards, q)
    BY DEF AwardsOf
<1>2. [c \in AwardsOf(new, q) |-> new[<<q, c>>]] = [c \in AwardsOf(awards, q) |-> awards[<<q, c>>]]
    BY <1>1 DEF AwardsOf
<1> QED
    BY <1>1, <1>2 DEF PointsSum

LEMMA AwardTaken ==
    ASSUME NEW awards, NEW now, AwardsOK(awards, now), NEW r, NEW c \in AwardsOf(awards, r),
           NEW new, new = Drop(awards, <<r, c>>)
    PROVE  /\ AwardsOK(new, now)
           /\ PointsSum(new, r) <= PointsSum(awards, r) /\ PointsSum(new, r) \in Nat
           /\ AwardsOf(new, r) = AwardsOf(awards, r) \ {c}
           /\ \A q : q # r => /\ PointsSum(new, q) = PointsSum(awards, q)
                              /\ AwardsOf(new, q) = AwardsOf(awards, q)
<1>1. /\ DOMAIN new = DOMAIN awards \ {<<r, c>>}
      /\ \A k \in DOMAIN new : new[k] = awards[k]
    BY DEF Drop
<1>2. AwardsOK(new, now)
    BY <1>1 DEF AwardsOK
<1>3. AwardsOf(new, r) = AwardsOf(awards, r) \ {c}
    BY <1>1 DEF AwardsOf
<1>4. ASSUME NEW q, q # r
      PROVE  /\ PointsSum(new, q) = PointsSum(awards, q)
             /\ AwardsOf(new, q) = AwardsOf(awards, q)
    <2>1. \A e : <<q, e>> # <<r, c>>
        BY <1>4
    <2>2. /\ \A e : <<q, e>> \in DOMAIN new <=> <<q, e>> \in DOMAIN awards
          /\ \A e : <<q, e>> \in DOMAIN awards => new[<<q, e>>] = awards[<<q, e>>]
        BY <1>1, <2>1
    <2> QED
        BY <2>2, OtherRounds
<1>5. PointsSum(new, r) <= PointsSum(awards, r) /\ PointsSum(new, r) \in Nat
    <2> DEFINE f == [e \in AwardsOf(awards, r) |-> awards[<<r, e>>]]
               g == [e \in AwardsOf(new, r) |-> new[<<r, e>>]]
    <2>1. IsFiniteSet(DOMAIN f) /\ PointsSum(awards, r) = SumFunction(f)
        BY AwardsFinite DEF PointsSum
    <2>2. \A e \in DOMAIN f : f[e] \in Nat
        BY DEF AwardsOf, AwardsOK
    <2>3. c \in DOMAIN f
        OBVIOUS
    <2>4. g = [e \in DOMAIN f \ {c} |-> f[e]]
        <3>1. \A e \in AwardsOf(new, r) : new[<<r, e>>] = awards[<<r, e>>]
            BY <1>1 DEF AwardsOf
        <3> QED
            BY <1>3, <3>1
    <2>5. PointsSum(new, r) = SumFunction(g)
        BY DEF PointsSum
    <2> HIDE DEF f, g
    <2>6. SumFunction(f) = f[c] + SumFunction(g) /\ SumFunction(g) \in Nat
        BY <2>1, <2>2, <2>3, <2>4, SumDrop
    <2> QED
        BY <2>1, <2>2, <2>3, <2>5, <2>6
<1> QED
    BY <1>2, <1>3, <1>4, <1>5

LEMMA AwardGiven ==
    ASSUME NEW now \in Nat \ {0}, NEW awards, AwardsOK(awards, now), NEW c \in Accounts,
           NEW new, new = Put(awards, <<now, c>>, ValueOf(awards, <<now, c>>) + 20)
    PROVE  /\ AwardsOK(new, now)
           /\ PointsSum(new, now) = PointsSum(awards, now) + 20
           /\ \A q : q # now => /\ PointsSum(new, q) = PointsSum(awards, q)
                                /\ AwardsOf(new, q) = AwardsOf(awards, q)
<1> DEFINE k == <<now, c>>
<1>1. /\ DOMAIN new = DOMAIN awards \union {k}
      /\ \A x \in DOMAIN awards \ {k} : new[x] = awards[x]
      /\ new[k] = ValueOf(awards, k) + 20
    BY DEF Put
<1>2. ValueOf(awards, k) \in Nat /\ (k \notin DOMAIN awards => ValueOf(awards, k) = 0)
      /\ (k \in DOMAIN awards => ValueOf(awards, k) = awards[k])
    BY DEF ValueOf, AwardsOK
<1>3. AwardsOK(new, now)
    <2>1. new[k] \in Nat \ {0} /\ now <= now
        <3>1. PICK v \in Nat : v = ValueOf(awards, k)
            BY <1>2
        <3>2. new[k] = v + 20
            BY <1>1, <3>1
        <3> QED
            BY <3>2
    <2>2. ASSUME NEW x \in DOMAIN new
          PROVE  /\ \E r \in Nat \ {0}, e \in Accounts : r <= now /\ x = <<r, e>>
                 /\ new[x] \in Nat \ {0}
        <3>1. CASE x = k
            BY <2>1, <3>1
        <3>2. CASE x # k
            BY <1>1, <3>2 DEF AwardsOK
        <3> QED
            BY <3>1, <3>2
    <2> QED
        BY <2>2 DEF AwardsOK
<1>4. ASSUME NEW q, q # now
      PROVE  /\ PointsSum(new, q) = PointsSum(awards, q)
             /\ AwardsOf(new, q) = AwardsOf(awards, q)
    <2>1. \A e : <<q, e>> # k
        BY <1>4
    <2>2. /\ \A e : <<q, e>> \in DOMAIN new <=> <<q, e>> \in DOMAIN awards
          /\ \A e : <<q, e>> \in DOMAIN awards => new[<<q, e>>] = awards[<<q, e>>]
        BY <1>1, <2>1
    <2> QED
        BY <2>2, OtherRounds
<1>5. PointsSum(new, now) = PointsSum(awards, now) + 20
    <2> DEFINE f == [e \in AwardsOf(awards, now) |-> awards[<<now, e>>]]
               g == [e \in AwardsOf(new, now) |-> new[<<now, e>>]]
    <2>1. IsFiniteSet(DOMAIN f) /\ PointsSum(awards, now) = SumFunction(f)
        BY AwardsFinite DEF PointsSum
    <2>2. \A e \in DOMAIN f : f[e] \in Nat
        BY DEF AwardsOf, AwardsOK
    <2>3. AwardsOf(new, now) = AwardsOf(awards, now) \union {c}
        BY <1>1 DEF AwardsOf
    <2>4. /\ \A e \in AwardsOf(awards, now) \ {c} : g[e] = f[e]
          /\ DOMAIN g = AwardsOf(awards, now) \union {c}
          /\ g[c] = ValueOf(awards, k) + 20
        <3>1. DOMAIN g = AwardsOf(awards, now) \union {c}
            BY <2>3
        <3>2. g[c] = new[k]
            BY <2>3
        <3>3. ASSUME NEW e \in AwardsOf(awards, now) \ {c} PROVE g[e] = f[e]
            <4>1. <<now, e>> \in DOMAIN awards \ {k}
                BY DEF AwardsOf
            <4> QED
                BY <1>1, <2>3, <4>1
        <3> QED
            BY <1>1, <3>1, <3>2, <3>3
    <2>5. PointsSum(new, now) = SumFunction(g) /\ DOMAIN f = AwardsOf(awards, now)
          /\ g = [e \in DOMAIN g |-> g[e]]
        BY DEF PointsSum
    <2>6. c \in AwardsOf(awards, now) <=> k \in DOMAIN awards
        BY DEF AwardsOf
    <2>7. c \in DOMAIN f => f[c] = awards[k]
        OBVIOUS
    <2> HIDE DEF f, g, k
    <2>8. CASE c \in DOMAIN f
        <3>1. f[c] = ValueOf(awards, k) /\ DOMAIN g = DOMAIN f
            BY <1>2, <2>4, <2>5, <2>6, <2>7, <2>8
        <3>2. PICK v \in Nat : v = ValueOf(awards, k) + 20
            BY <1>2
        <3>3. g[c] = v /\ \A e \in DOMAIN f \ {c} : g[e] = f[e]
            BY <2>4, <2>5, <3>2
        <3>4. /\ SumFunction(g) + f[c] = SumFunction(f) + v
              /\ SumFunction(g) \in Nat /\ SumFunction(f) \in Nat
            BY <2>1, <2>2, <2>8, <3>1, <3>3, SumExcept
        <3> QED
            BY <1>2, <2>1, <2>5, <3>1, <3>2, <3>4
    <2>9. CASE c \notin DOMAIN f
        <3>1. g[c] = 20 /\ 20 \in Nat
            BY <1>2, <2>4, <2>5, <2>6, <2>9
        <3>2. g = [x \in DOMAIN f \union {c} |-> IF x = c THEN 20 ELSE f[x]]
            BY <2>4, <2>5, <2>9, <3>1
        <3>3. SumFunction(g) = SumFunction(f) + 20
            BY <2>1, <2>2, <2>9, <3>1, <3>2, SumPut
        <3> QED
            BY <2>1, <2>5, <3>3
    <2> QED
        BY <2>8, <2>9
<1> QED
    BY <1>3, <1>4, <1>5

\* Where payouts stand.
PayrollOK(awards, pts, delayed, now) ==
    /\ AwardsOK(awards, now)
    /\ PointsOK(pts, now)
    /\ PointsCover(awards, pts, now)
    /\ PayoutsOK(delayed, pts, awards, now)

\* The clean-up of a round that is settled, or a payment.
LEMMA PayoutKeepsPoints ==
    ASSUME NEW now \in Nat, NEW stake, NEW delayed,
           PayrollOK(awardedPts, points, delayed, now),
           HandleDelayedPayouts(now, stake, delayed)
    PROVE  PayrollOK(awardedPts', points', delayedPayouts', now)
<1>1. PICK r : r = now - RewardPaymentDelay
    OBVIOUS
<1>2. r \in Int /\ r < now /\ now = r + RewardPaymentDelay /\ RewardPaymentDelay \in Nat
    BY <1>1, DelayType
<1>3. PaidRound(now) = r /\ AwardedIn(r) = AwardsOf(awardedPts, r)
    BY <1>1 DEF PaidRound, AwardedIn, AwardsOf
<1>4. CASE r \notin DOMAIN delayed
    BY <1>3, <1>4 DEF HandleDelayedPayouts
<1>5. CASE r \in DOMAIN delayed /\ (ValueOf(points, r) = 0 \/ AwardedIn(r) = {})
    <2>1. /\ delayedPayouts' = Drop(delayed, r) /\ points' = Drop(points, r)
          /\ awardedPts' = awardedPts
        BY <1>3, <1>5 DEF HandleDelayedPayouts
    <2>2. ValueOf(points, r) > 0
        BY <1>5 DEF PayrollOK, PayoutsOK
    <2>3. AwardsOf(awardedPts, r) = {}
        BY <1>3, <1>5, <2>2
    <2>4. PointsSum(awardedPts, r) = 0
        BY <2>3, AwardsFinite DEF PayrollOK
    <2>5. /\ ValueOf(points', r) = 0
          /\ \A q : q # r => ValueOf(points', q) = ValueOf(points, q)
        BY <2>1 DEF ValueOf, Drop
    <2>6. PointsOK(points', now)
        BY <2>1 DEF PayrollOK, PointsOK, Drop
    <2>7. PointsCover(awardedPts', points', now)
        <3> SUFFICES ASSUME NEW q \in 1 .. now
                     PROVE  /\ ValueOf(points', q) >= PointsSum(awardedPts, q)
                            /\ now < q + RewardPaymentDelay
                                 => ValueOf(points', q) = PointsSum(awardedPts, q)
            BY <2>1 DEF PointsCover
        <3>1. CASE q = r
            BY <1>2, <2>4, <2>5, <3>1
        <3>2. CASE q # r
            BY <2>5, <3>2 DEF PayrollOK, PointsCover
        <3> QED
            BY <3>1, <3>2
    <2>8. PayoutsOK(delayedPayouts', points', awardedPts', now)
        <3>1. DOMAIN delayedPayouts' = DOMAIN delayed \ {r}
            BY <2>1 DEF Drop
        <3> QED
            BY <1>1, <2>1, <2>3, <2>5, <3>1 DEF PayrollOK, PayoutsOK
    <2> QED
        BY <2>1, <2>6, <2>7, <2>8 DEF PayrollOK
<1>6. ASSUME r \in DOMAIN delayed, NEW c \in AwardedIn(r), PayOne(r, c, stake, delayed)
      PROVE  PayrollOK(awardedPts', points', delayedPayouts', now)
    <2>1. /\ awardedPts' = Drop(awardedPts, <<r, c>>) /\ points' = points
          /\ delayedPayouts' = delayed
        BY <1>6 DEF PayOne
    <2>2. AwardsOK(awardedPts, now) /\ c \in AwardsOf(awardedPts, r)
        BY <1>3, <1>6 DEF PayrollOK
    <2>3. /\ AwardsOK(awardedPts', now)
          /\ PointsSum(awardedPts', r) <= PointsSum(awardedPts, r)
          /\ PointsSum(awardedPts', r) \in Nat
          /\ \A q : q # r => PointsSum(awardedPts', q) = PointsSum(awardedPts, q)
        BY <2>1, <2>2, AwardTaken
    <2>4. PointsSum(awardedPts, r) \in Nat
        BY <2>2, AwardsFinite
    <2>5. PointsCover(awardedPts', points', now)
        <3> SUFFICES ASSUME NEW q \in 1 .. now
                     PROVE  /\ ValueOf(points, q) >= PointsSum(awardedPts', q)
                            /\ now < q + RewardPaymentDelay
                                 => ValueOf(points, q) = PointsSum(awardedPts', q)
            BY <2>1 DEF PointsCover
        <3>1. CASE q = r
            <4>1. ValueOf(points, r) >= PointsSum(awardedPts, r)
                BY <3>1 DEF PayrollOK, PointsCover
            <4>2. ValueOf(points, r) \in Nat
                BY DEF ValueOf, PayrollOK, PointsOK
            <4> QED
                BY <1>2, <2>3, <2>4, <3>1, <4>1, <4>2
        <3>2. CASE q # r
            BY <2>3, <3>2 DEF PayrollOK, PointsCover
        <3> QED
            BY <3>1, <3>2
    <2>6. PayoutsOK(delayedPayouts', points', awardedPts', now)
        BY <1>1, <1>6, <2>1 DEF PayrollOK, PayoutsOK
    <2> QED
        BY <2>1, <2>3, <2>5, <2>6 DEF PayrollOK
<1> QED
    BY <1>3, <1>4, <1>5, <1>6 DEF HandleDelayedPayouts

\* A new round: what was awarded in the round that is now to be paid is covered
\* by its points, so that the payout is prepared if anyone is owed.
LEMMA PayoutIsPrepared ==
    ASSUME NEW now \in Nat, now > 0, PayrollOK(awardedPts, points, delayedPayouts, now),
           NEW next, next = now + 1,
           NEW delayed, delayed = IF PayoutIsDue(next)
                                  THEN Put(delayedPayouts, PaidRound(next),
                                           ValueOf(staked, PaidRound(next)))
                                  ELSE delayedPayouts
    PROVE  PayrollOK(awardedPts, points, delayed, next)
<1>1. PICK r : r = next - RewardPaymentDelay
    OBVIOUS
<1>2. r \in Int /\ r <= now /\ next = r + RewardPaymentDelay /\ RewardPaymentDelay \in Nat
      /\ RewardPaymentDelay > 0
    BY <1>1, DelayType
<1>3. PaidRound(next) = r
    BY <1>1 DEF PaidRound
<1>4. AwardsOK(awardedPts, next) /\ PointsOK(points, next)
    BY DEF PayrollOK, AwardsOK, PointsOK
<1>5. PointsCover(awardedPts, points, next)
    <2> SUFFICES ASSUME NEW q \in 1 .. next
                 PROVE  /\ ValueOf(points, q) >= PointsSum(awardedPts, q)
                        /\ next < q + RewardPaymentDelay
                             => ValueOf(points, q) = PointsSum(awardedPts, q)
        BY DEF PointsCover
    <2>1. CASE q \in 1 .. now
        <3>1. next < q + RewardPaymentDelay => now < q + RewardPaymentDelay
            BY <1>2
        <3> QED
            BY <2>1, <3>1 DEF PayrollOK, PointsCover
    <2>2. CASE q = next
        <3>1. ValueOf(points, next) = 0
            <4>1. next \notin DOMAIN points
                BY DEF PayrollOK, PointsOK
            <4> QED
                BY <4>1 DEF ValueOf
        <3>2. AwardsOf(awardedPts, next) = {}
            <4> SUFFICES ASSUME NEW c \in AwardsOf(awardedPts, next) PROVE FALSE
                OBVIOUS
            <4>1. <<next, c>> \in DOMAIN awardedPts
                BY DEF AwardsOf
            <4>2. PICK p \in Nat, e \in Accounts : p <= now /\ <<next, c>> = <<p, e>>
                BY <4>1 DEF PayrollOK, AwardsOK
            <4>3. p = next
                BY <4>2
            <4> QED
                BY <4>2, <4>3
        <3>3. PointsSum(awardedPts, next) = 0
            BY <1>4, <3>2, AwardsFinite
        <3> QED
            BY <2>2, <3>1, <3>3
    <2> QED
        BY <2>1, <2>2
<1>6. PayoutsOK(delayed, points, awardedPts, next)
    <2>1. ASSUME NEW q \in DOMAIN delayedPayouts
          PROVE  q \in Nat /\ q + RewardPaymentDelay <= next /\ ValueOf(points, q) > 0
        <3>1. q \in Nat /\ q + RewardPaymentDelay <= now /\ ValueOf(points, q) > 0
            BY DEF PayrollOK, PayoutsOK
        <3> QED
            BY <1>2, <3>1
    <2>2. CASE PayoutIsDue(next)
        <3>1. DOMAIN delayed = DOMAIN delayedPayouts \union {r}
            BY <1>3, <2>2 DEF Put
        <3>2. r > 0 /\ ValueOf(points, r) > 0
            BY <1>2, <1>3, <2>2 DEF PayoutIsDue
        <3>3. ASSUME NEW q \in DOMAIN delayed
              PROVE  q \in Nat /\ q + RewardPaymentDelay <= next /\ ValueOf(points, q) > 0
            <4>1. CASE q \in DOMAIN delayedPayouts
                BY <2>1, <4>1
            <4>2. CASE q = r
                BY <1>2, <3>2, <4>2
            <4> QED
                BY <3>1, <4>1, <4>2
        <3> QED
            BY <1>1, <3>1, <3>3 DEF PayoutsOK
    <2>3. CASE ~ PayoutIsDue(next)
        <3>1. delayed = delayedPayouts
            BY <2>3
        <3>2. ASSUME NEW c \in AwardsOf(awardedPts, r) PROVE FALSE
            <4>1. <<r, c>> \in DOMAIN awardedPts
                BY DEF AwardsOf
            <4>2. PICK p \in Nat \ {0}, e \in Accounts : p <= now /\ <<r, c>> = <<p, e>>
                BY <4>1 DEF PayrollOK, AwardsOK
            <4>3. r \in 1 .. now
                BY <4>2
            <4>4. now < r + RewardPaymentDelay
                BY <1>2
            <4>5. ValueOf(points, r) = PointsSum(awardedPts, r)
                BY <4>3, <4>4 DEF PayrollOK, PointsCover
            <4>6. AwardsOf(awardedPts, r) # {}
                BY <3>2
            <4>7. PointsSum(awardedPts, r) \in Nat /\ PointsSum(awardedPts, r) # 0
                BY <1>4, <4>6, AwardsFinite
            <4>8. next > RewardPaymentDelay
                BY <1>2, <4>3
            <4> QED
                BY <1>3, <2>3, <4>5, <4>7, <4>8 DEF PayoutIsDue
        <3>3. AwardsOf(awardedPts, r) = {}
            BY <3>2
        <3> QED
            BY <1>1, <2>1, <3>1, <3>3 DEF PayoutsOK
    <2> QED
        BY <2>2, <2>3
<1> QED
    BY <1>4, <1>5, <1>6 DEF PayrollOK

\* Inductive.
PointsInv ==
    /\ round > 0
    /\ PayrollOK(awardedPts, points, delayedPayouts, round)

LEMMA NoteAuthorKeepsPoints ==
    ASSUME RoundsInv, PointsInv, NEW author \in Accounts, NoteAuthor(author)
    PROVE  PointsInv'
<1>1. /\ round' = round /\ delayedPayouts' = delayedPayouts
      /\ awardedPts' = Put(awardedPts, <<round, author>>,
                           ValueOf(awardedPts, <<round, author>>) + 20)
      /\ points' = Put(points, round, ValueOf(points, round) + 20)
    BY DEF NoteAuthor, vars
<1>2. round \in Nat \ {0} /\ RewardPaymentDelay \in Nat /\ RewardPaymentDelay > 0
    BY DelayType DEF RoundsInv, PalletInv, StakingInv, NumbersOK, PointsInv
<1>3. /\ AwardsOK(awardedPts, round) /\ PointsOK(points, round)
      /\ PointsCover(awardedPts, points, round)
      /\ PayoutsOK(delayedPayouts, points, awardedPts, round)
    BY DEF PointsInv, PayrollOK
<1>4. /\ AwardsOK(awardedPts', round)
      /\ PointsSum(awardedPts', round) = PointsSum(awardedPts, round) + 20
      /\ \A q : q # round => /\ PointsSum(awardedPts', q) = PointsSum(awardedPts, q)
                             /\ AwardsOf(awardedPts', q) = AwardsOf(awardedPts, q)
    BY <1>1, <1>2, <1>3, AwardGiven
<1>5. PICK n \in Nat : n = ValueOf(points, round)
    BY <1>3 DEF ValueOf, PointsOK
<1>6. /\ points' = Put(points, round, n + 20)
      /\ ValueOf(points', round) = n + 20
      /\ \A q : q # round => ValueOf(points', q) = ValueOf(points, q)
    BY <1>1, <1>5 DEF ValueOf, Put
<1>7. PointsOK(points', round)
    BY <1>2, <1>3, <1>6 DEF PointsOK, Put
<1>8. PointsSum(awardedPts, round) \in Nat
    BY <1>3, AwardsFinite
<1>9. PointsCover(awardedPts', points', round)
    <2> SUFFICES ASSUME NEW q \in 1 .. round
                 PROVE  /\ ValueOf(points', q) >= PointsSum(awardedPts', q)
                        /\ round < q + RewardPaymentDelay
                             => ValueOf(points', q) = PointsSum(awardedPts', q)
        BY DEF PointsCover
    <2>1. CASE q = round
        <3>1. n = PointsSum(awardedPts, round)
            BY <1>2, <1>3, <1>5, <2>1 DEF PointsCover
        <3> QED
            BY <1>4, <1>6, <1>8, <2>1, <3>1
    <2>2. CASE q # round
        BY <1>3, <1>4, <1>6, <2>2 DEF PointsCover
    <2> QED
        BY <2>1, <2>2
<1>10. PayoutsOK(delayedPayouts', points', awardedPts', round)
    <2>1. round - RewardPaymentDelay # round
        BY <1>2
    <2>2. \A q \in DOMAIN delayedPayouts : q # round
        BY <1>2, <1>3 DEF PayoutsOK
    <2> QED
        BY <1>1, <1>3, <1>4, <1>6, <2>1, <2>2 DEF PayoutsOK
<1> QED
    BY <1>1, <1>2, <1>4, <1>7, <1>9, <1>10 DEF PointsInv, PayrollOK

LEMMA OnInitializeKeepsPoints ==
    ASSUME RoundsInv, PointsInv, OnInitialize
    PROVE  PointsInv'
<1>1. round \in Nat /\ round > 0 /\ PayrollOK(awardedPts, points, delayedPayouts, round)
    BY DEF RoundsInv, PalletInv, StakingInv, NumbersOK, PointsInv
<1>2. CASE ContinueRound
    <2>1. HandleDelayedPayouts(round, atStake, delayedPayouts) /\ round' = round
        BY <1>2 DEF ContinueRound, vars
    <2>2. PayrollOK(awardedPts', points', delayedPayouts', round)
        BY <1>1, <2>1, PayoutKeepsPoints
    <2> QED
        BY <1>1, <2>1, <2>2 DEF PointsInv
<1>3. CASE NextRound
    <2>1. PICK next : next = round + 1
        OBVIOUS
    <2>2. PICK delayed : delayed = IF PayoutIsDue(next)
                                   THEN Put(delayedPayouts, PaidRound(next),
                                            ValueOf(staked, PaidRound(next)))
                                   ELSE delayedPayouts
        OBVIOUS
    <2>3. PICK stake : HandleDelayedPayouts(next, stake, delayed)
        BY <1>3, <2>1, <2>2 DEF NextRound
    <2>4. round' = next /\ next \in Nat /\ next > 0
        BY <1>1, <1>3, <2>1 DEF NextRound, StartRound
    <2>5. PayrollOK(awardedPts, points, delayed, next)
        BY <1>1, <2>1, <2>2, PayoutIsPrepared
    <2>6. PayrollOK(awardedPts', points', delayedPayouts', next)
        BY <2>3, <2>4, <2>5, PayoutKeepsPoints
    <2> QED
        BY <2>4, <2>6 DEF PointsInv
<1> QED
    BY <1>2, <1>3 DEF OnInitialize

LEMMA RoundsStepKeepsPoints ==
    ASSUME RoundsInv, PointsInv, [RoundsNext]_allVars
    PROVE  PointsInv'
<1>1. CASE UNCHANGED <<round, awardedPts, points, delayedPayouts>>
    BY <1>1 DEF PointsInv
<1>2. CASE GenesisBuild
    BY <1>1, <1>2 DEF GenesisBuild, vars
<1>3. CASE OnInitialize
    BY <1>3, OnInitializeKeepsPoints
<1>4. ASSUME NEW author \in Accounts, NoteAuthor(author)
      PROVE  PointsInv'
    BY <1>4, NoteAuthorKeepsPoints
<1>5. CASE GenesisCall
    <2>1. CandidateCall \/ DelegatorCall
        BY <1>5 DEF GenesisCall, CandidateCall, DelegatorCall
    <2> QED
        BY <1>1, <1>5, <2>1, RoundOfCalls DEF GenesisCall, roundVars, ledger
<1>6. CASE Extrinsic
    <2>1. UNCHANGED round
        BY <1>6, RoundOfCalls DEF Extrinsic, RoundsRootCall, StakingCall, vars
    <2> QED
        BY <1>1, <1>6, <2>1 DEF Extrinsic, ledger
<1>7. CASE UNCHANGED allVars
    BY <1>1, <1>7 DEF allVars, vars, roundVars, ledger
<1> QED
    BY <1>2, <1>3, <1>4, <1>5, <1>6, <1>7 DEF RoundsNext

\* The invariant behind them, in every reachable state.
THEOREM RoundsInvariant ==
    RoundsSpec => [](RoundsInv /\ PointsInv)
<1>1. RoundsInit => RoundsInv
    BY InitEstablishesRounds
<1>2. RoundsInit => PointsInv
    <2> SUFFICES ASSUME RoundsInit PROVE PointsInv
        OBVIOUS
    <2>1. awardedPts = EmptyMap /\ points = EmptyMap /\ delayedPayouts = EmptyMap /\ round = 1
        BY DEF RoundsInit, Init
    <2>2. AwardsOK(awardedPts, round) /\ PointsOK(points, round)
        BY <2>1 DEF AwardsOK, PointsOK, EmptyMap
    <2>3. \A r : AwardsOf(awardedPts, r) = {}
        BY <2>1 DEF AwardsOf, EmptyMap
    <2>4. \A r : PointsSum(awardedPts, r) = 0
        BY <2>2, <2>3, AwardsFinite
    <2>5. PointsCover(awardedPts, points, round)
        BY <2>1, <2>4 DEF PointsCover, ValueOf, EmptyMap
    <2>6. PayoutsOK(delayedPayouts, points, awardedPts, round)
        BY <2>1, <2>3 DEF PayoutsOK, EmptyMap
    <2> QED
        BY <2>1, <2>2, <2>5, <2>6 DEF PointsInv, PayrollOK
<1>3. RoundsInv /\ PalletInv' /\ [RoundsNext]_allVars => RoundsInv'
    BY RoundsStepKeeps
<1>4. RoundsInv /\ PointsInv /\ [RoundsNext]_allVars => PointsInv'
    BY RoundsStepKeepsPoints
<1> QED
    BY <1>1, <1>2, <1>3, <1>4, RoundsImplementStaking, PalletInvariant, PTL DEF RoundsSpec

\* The points of a round cover what its collators have yet to be paid for, and
\* are equal to it until the first payment.
THEOREM PointsAlwaysCover ==
    RoundsSpec => []PointsCoverAwards
<1>1. PointsInv => PointsCoverAwards
    BY DEF PointsInv, PayrollOK, PointsCover, PointsCoverAwards, PointsSum, AwardsOf, AwardedIn
<1> QED
    BY <1>1, RoundsInvariant, PTL

\* A payout is prepared whenever somebody is owed for the round set to be
\* paid, and never without points to divide it by.
THEOREM PayoutsAlwaysHavePoints ==
    RoundsSpec => []PayoutsHavePoints
<1>1. PointsInv => PayoutsHavePoints
    BY DEF PointsInv, PayrollOK, PayoutsOK, PayoutsHavePoints, AwardsOf, AwardedIn
<1> QED
    BY <1>1, RoundsInvariant, PTL

-----------------------------------------------------------------------------
(* Snapshots.                                                              *)

SharesAddUp(snapshot) ==
    snapshot.total = snapshot.bond + SumFunction([ i \in DOMAIN snapshot.delegations |->
                                                     snapshot.delegations[i].amount ])

AllAddUp(stake) == \A k \in DOMAIN stake : SharesAddUp(stake[k])

\* The counted stake of a candidate is its bond and the recorded total of its
\* top list, which is the sum of that list.
LEMMA SnapshotAddsUp ==
    ASSUME PalletInv, TopTotalsAreSums, NEW c \in DOMAIN candidatePool
    PROVE  SharesAddUp(Snapshot(c))
<1>1. c \in DOMAIN candidateInfo
    BY DEF PalletInv, NoStrays
<1>2. Mirrors(Book(c))
    BY <1>1 DEF PalletInv, StakingInv, BooksOK, WellKept
<1>3. candidateInfo[c].total_counted = candidateInfo[c].bond + topDelegations[c].total
    BY <1>2 DEF Mirrors, Book
<1>4. topDelegations[c].total = SumOfList(topDelegations[c])
    BY <1>1 DEF TopTotalsAreSums
<1>5. /\ Snapshot(c).total = candidateInfo[c].total_counted
      /\ Snapshot(c).bond = candidateInfo[c].bond
      /\ Snapshot(c).delegations = topDelegations[c].delegations
    BY DEF Snapshot
<1> QED
    BY <1>3, <1>4, <1>5 DEF SharesAddUp, SumOfList

LEMMA SelectionAddsUp ==
    ASSUME PalletInv, TopTotalsAreSums, AllAddUp(atStake),
           NEW collators, collators \subseteq DOMAIN candidatePool,
           NEW now, \A k \in DOMAIN atStake : k[1] # now
    PROVE  AllAddUp(AtStakeWith(collators, now))
<1>1. PICK new : new = AtStakeWith(collators, now)
    OBVIOUS
<1>2. CASE collators = {}
    <2>1. new = [ k \in DOMAIN atStake \union ({now} \X SnapshotsIn(now - 1)) |->
                    IF k[1] = now THEN atStake[<<now - 1, k[2]>>] ELSE atStake[k] ]
        BY <1>1, <1>2 DEF AtStakeWith
    <2>2. ASSUME NEW k \in DOMAIN new
          PROVE  SharesAddUp(new[k])
        <3>1. CASE k \in DOMAIN atStake
            <4>1. new[k] = atStake[k]
                BY <2>1, <3>1
            <4> QED
                BY <3>1, <4>1 DEF AllAddUp
        <3>2. CASE k \in {now} \X SnapshotsIn(now - 1)
            <4>1. PICK c \in SnapshotsIn(now - 1) : k = <<now, c>>
                BY <3>2
            <4>2. <<now - 1, c>> \in DOMAIN atStake /\ new[k] = atStake[<<now - 1, c>>]
                BY <2>1, <2>2, <4>1 DEF SnapshotsIn
            <4> QED
                BY <4>2 DEF AllAddUp
        <3> QED
            BY <2>1, <2>2, <3>1, <3>2
    <2> QED
        BY <1>1, <2>2 DEF AllAddUp
<1>3. CASE collators # {}
    <2>1. new = [ k \in DOMAIN atStake \union ({now} \X collators) |->
                    IF k[1] = now THEN Snapshot(k[2]) ELSE atStake[k] ]
        BY <1>1, <1>3 DEF AtStakeWith
    <2>2. ASSUME NEW k \in DOMAIN new
          PROVE  SharesAddUp(new[k])
        <3>1. CASE k \in DOMAIN atStake
            <4>1. new[k] = atStake[k]
                BY <2>1, <3>1
            <4> QED
                BY <3>1, <4>1 DEF AllAddUp
        <3>2. CASE k \in {now} \X collators
            <4>1. PICK c \in collators : k = <<now, c>>
                BY <3>2
            <4>2. new[k] = Snapshot(c)
                BY <2>1, <2>2, <4>1
            <4> QED
                BY <4>2, SnapshotAddsUp
        <3> QED
            BY <2>1, <2>2, <3>1, <3>2
    <2> QED
        BY <1>1, <2>2 DEF AllAddUp
<1> QED
    BY <1>2, <1>3

LEMMA PayoutAddsUp ==
    ASSUME NEW now, NEW stake, NEW delayed, AllAddUp(stake),
           HandleDelayedPayouts(now, stake, delayed)
    PROVE  AllAddUp(atStake')
<1>1. CASE atStake' = stake
    BY <1>1
<1>2. ASSUME NEW c, PayOne(PaidRound(now), c, stake, delayed)
      PROVE  AllAddUp(atStake')
    BY <1>2 DEF PayOne, Drop, AllAddUp
<1> QED
    BY <1>1, <1>2 DEF HandleDelayedPayouts

LEMMA RoundsStepAddsUp ==
    ASSUME RoundsInv, TopTotalsAreSums, AllAddUp(atStake), [RoundsNext]_allVars
    PROVE  AllAddUp(atStake')
<1>1. CASE UNCHANGED atStake
    BY <1>1
<1>2. CASE GenesisBuild
    <2>1. PICK collators \in TopCandidates : atStake' = AtStakeWith(collators, 1)
        BY <1>2 DEF GenesisBuild
    <2>2. \A k \in DOMAIN atStake : k[1] # 1
        BY <1>2 DEF GenesisBuild, RoundsInv, SnapshotsOK, EmptyMap
    <2> QED
        BY <2>1, <2>2, TopCandidatesInPool, SelectionAddsUp DEF RoundsInv
<1>3. CASE OnInitialize /\ ContinueRound
    <2>1. HandleDelayedPayouts(round, atStake, delayedPayouts)
        BY <1>3 DEF ContinueRound
    <2> QED
        BY <2>1, PayoutAddsUp
<1>4. CASE OnInitialize /\ NextRound
    <2>1. PICK now : now = round + 1
        OBVIOUS
    <2>2. PICK collators \in TopCandidates :
            \E delayed : HandleDelayedPayouts(now, AtStakeWith(collators, now), delayed)
        BY <1>4, <2>1 DEF NextRound
    <2>3. ASSUME NEW k \in DOMAIN atStake PROVE k[1] # now
        <3>1. round \in Nat
            BY DEF RoundsInv, PalletInv, StakingInv, NumbersOK
        <3>2. PICK r \in Nat, c \in Accounts : r <= round /\ k = <<r, c>>
            BY DEF RoundsInv, SnapshotsOK
        <3> QED
            BY <2>1, <3>1, <3>2
    <2>4. AllAddUp(AtStakeWith(collators, now))
        BY <2>3, TopCandidatesInPool, SelectionAddsUp DEF RoundsInv
    <2> QED
        BY <2>2, <2>4, PayoutAddsUp
<1>5. ASSUME NEW author, NoteAuthor(author)
      PROVE  UNCHANGED atStake
    BY <1>5 DEF NoteAuthor
<1>6. GenesisCall \/ Extrinsic \/ UNCHANGED allVars => UNCHANGED atStake
    BY DEF GenesisCall, Extrinsic, allVars, roundVars, ledger
<1> QED
    BY <1>1, <1>2, <1>3, <1>4, <1>5, <1>6 DEF RoundsNext, OnInitialize

\* The bond and the delegations of every snapshot add up to the total by which
\* they are divided: the counted stake from which it was taken was the sum of
\* the candidate's top delegations and its bond.
THEOREM SnapshotsAlwaysAddUp ==
    RoundsSpec => []SnapshotSharesAddUp
<1>1. RoundsInit => AllAddUp(atStake)
    BY DEF RoundsInit, AllAddUp, EmptyMap
<1>2. RoundsInv /\ TopTotalsAreSums /\ AllAddUp(atStake) /\ [RoundsNext]_allVars
        => AllAddUp(atStake')
    BY RoundsStepAddsUp
<1>3. AllAddUp(atStake) => SnapshotSharesAddUp
    BY DEF AllAddUp, SharesAddUp, SnapshotSharesAddUp
<1>4. RoundsSpec => []RoundsInv
    BY RoundsInvariant, PTL
<1>5. RoundsSpec => []TopTotalsAreSums
    BY RoundsImplementStaking, TopTotalsCorrect, PTL
<1> DEFINE Adds == AllAddUp(atStake)
<1>6. RoundsInit => Adds
    BY <1>1
<1>7. RoundsInv /\ TopTotalsAreSums /\ Adds /\ [RoundsNext]_allVars => Adds'
    BY <1>2
<1>8. Adds => SnapshotSharesAddUp
    BY <1>3
<1> HIDE DEF Adds
<1> QED
    BY <1>4, <1>5, <1>6, <1>7, <1>8, PTL DEF RoundsSpec

-----------------------------------------------------------------------------
(* Payouts are complete before their round ends, if rounds do not get      *)
(* shorter: no more collators author in a round than it has blocks, and    *)
(* each block of the round set for their payment pays one of them.         *)

\* Those owed for the round to be paid fit into the blocks that are left.
InTime(awards, now, blocks, len) ==
    LET owing == AwardsOf(awards, now - RewardPaymentDelay)
    IN  owing = {} \/ Cardinality(owing) + blocks + 1 <= len

FewAwards(awards, len) == \A r : Cardinality(AwardsOf(awards, r)) <= len

NoneOverdue(awards, now) == \A k \in DOMAIN awards : now <= k[1] + RewardPaymentDelay

ConfigOK ==
    /\ length \in Nat \ {0} /\ totalSelected \in Nat
    /\ totalSelected <= length

\* Inductive as long as rounds are not shortened.
TimeInv ==
    /\ ConfigOK /\ age \in Nat
    /\ selectedCandidates \subseteq Accounts
    /\ Cardinality(selectedCandidates) <= length
    /\ AwardsOf(awardedPts, round) \subseteq selectedCandidates
    /\ FewAwards(awardedPts, length)
    /\ NoneOverdue(awardedPts, round)
    /\ InTime(awardedPts, round, age, length)

LEMMA CountOfSubset ==
    ASSUME NEW S, S \subseteq Accounts, NEW R, R \subseteq S
    PROVE  /\ IsFiniteSet(S) /\ IsFiniteSet(R)
           /\ Cardinality(R) \in Nat /\ Cardinality(S) \in Nat
           /\ Cardinality(R) <= Cardinality(S)
<1>1. IsFiniteSet(S)
    <2>1. IsFiniteSet(Accounts)
        BY StakingAssumption
    <2> QED
        BY <2>1, FS_Subset
<1>2. IsFiniteSet(R) /\ Cardinality(R) <= Cardinality(S)
    BY <1>1, FS_Subset
<1> QED
    BY <1>1, <1>2, FS_CardinalityType

\* A selection has at most TotalSelected collators.
LEMMA SelectionIsSmall ==
    ASSUME PalletInv, totalSelected \in Nat, NEW collators \in TopCandidates
    PROVE  collators \subseteq Accounts /\ Cardinality(collators) <= totalSelected
<1>1. PICK best \in SUBSET DOMAIN candidatePool :
        /\ Cardinality(best) = totalSelected \/ Cardinality(best) < totalSelected
        /\ collators = {c \in best : candidatePool[c] >= MinCollatorStk}
    BY DEF TopCandidates
<1>2. best \subseteq Accounts /\ collators \subseteq best
    BY <1>1, SnapshotType
<1>3. Cardinality(collators) \in Nat /\ Cardinality(best) \in Nat
      /\ Cardinality(collators) <= Cardinality(best)
    BY <1>2, CountOfSubset
<1> QED
    BY <1>1, <1>2, <1>3

\* A payout is made whenever somebody is owed for its round.
LEMMA PayoutPaysOne ==
    ASSUME NEW now \in Nat, NEW stake, NEW delayed,
           PayrollOK(awardedPts, points, delayed, now),
           HandleDelayedPayouts(now, stake, delayed)
    PROVE  LET owing == AwardsOf(awardedPts, now - RewardPaymentDelay)
               left == AwardsOf(awardedPts', now - RewardPaymentDelay)
           IN  /\ DOMAIN awardedPts' \subseteq DOMAIN awardedPts
               /\ left = {} \/ \E c \in owing : left = owing \ {c}
<1>1. PICK r : r = now - RewardPaymentDelay
    OBVIOUS
<1>2. PaidRound(now) = r /\ AwardedIn(r) = AwardsOf(awardedPts, r)
    BY <1>1 DEF PaidRound, AwardedIn, AwardsOf
<1>3. AwardsOf(awardedPts, r) # {} => r \in DOMAIN delayed
    BY <1>1 DEF PayrollOK, PayoutsOK
<1>4. r \in DOMAIN delayed => ValueOf(points, r) > 0
    BY DEF PayrollOK, PayoutsOK
<1>5. CASE AwardsOf(awardedPts, r) = {}
    <2>1. awardedPts' = awardedPts
        BY <1>2, <1>5 DEF HandleDelayedPayouts
    <2> QED
        BY <1>1, <1>5, <2>1
<1>6. CASE AwardsOf(awardedPts, r) # {}
    <2>1. ~ (ValueOf(points, r) = 0)
        BY <1>3, <1>4, <1>6
    <2>2. PICK c \in AwardsOf(awardedPts, r) : PayOne(r, c, stake, delayed)
        BY <1>2, <1>3, <1>6, <2>1 DEF HandleDelayedPayouts
    <2>3. awardedPts' = Drop(awardedPts, <<r, c>>)
        BY <2>2 DEF PayOne
    <2>4. DOMAIN awardedPts' = DOMAIN awardedPts \ {<<r, c>>}
        BY <2>3 DEF Drop
    <2>5. AwardsOf(awardedPts', r) = AwardsOf(awardedPts, r) \ {c}
        BY <2>4 DEF AwardsOf
    <2> QED
        BY <1>1, <2>4, <2>5
<1> QED
    BY <1>5, <1>6

LEMMA FewerAwards ==
    ASSUME NEW awards, NEW fewer, DOMAIN fewer \subseteq DOMAIN awards, NEW len \in Nat,
           NEW now
    PROVE  /\ FewAwards(awards, len) => FewAwards(fewer, len)
           /\ NoneOverdue(awards, now) => NoneOverdue(fewer, now)
           /\ \A r : AwardsOf(fewer, r) \subseteq AwardsOf(awards, r)
<1>1. \A r : AwardsOf(fewer, r) \subseteq AwardsOf(awards, r)
    BY DEF AwardsOf
<1>2. ASSUME NEW r, Cardinality(AwardsOf(awards, r)) <= len
      PROVE  Cardinality(AwardsOf(fewer, r)) <= len
    <2>1. AwardsOf(awards, r) \subseteq Accounts
        BY DEF AwardsOf
    <2>2. /\ Cardinality(AwardsOf(fewer, r)) \in Nat /\ Cardinality(AwardsOf(awards, r)) \in Nat
          /\ Cardinality(AwardsOf(fewer, r)) <= Cardinality(AwardsOf(awards, r))
        BY <1>1, <2>1, CountOfSubset
    <2> QED
        BY <1>2, <2>2
<1> QED
    BY <1>1, <1>2 DEF FewAwards, NoneOverdue

\* The blocks of a round are counted down with those who are owed.
LEMMA PayoutInTime ==
    ASSUME NEW now \in Nat, NEW stake, NEW delayed, NEW blocks \in Nat, NEW len \in Nat,
           PayrollOK(awardedPts, points, delayed, now),
           HandleDelayedPayouts(now, stake, delayed),
           LET owing == AwardsOf(awardedPts, now - RewardPaymentDelay)
           IN  owing = {} \/ Cardinality(owing) + blocks <= len
    PROVE  InTime(awardedPts', now, blocks, len)
<1>1. PICK owing, left : /\ owing = AwardsOf(awardedPts, now - RewardPaymentDelay)
                         /\ left = AwardsOf(awardedPts', now - RewardPaymentDelay)
    OBVIOUS
<1>2. left = {} \/ \E c \in owing : left = owing \ {c}
    BY <1>1, PayoutPaysOne
<1>3. ASSUME NEW c \in owing, left = owing \ {c}
      PROVE  Cardinality(left) + blocks + 1 <= len
    <2>1. owing \subseteq Accounts
        BY <1>1 DEF AwardsOf
    <2>2. IsFiniteSet(owing) /\ Cardinality(owing) \in Nat
        BY <2>1, CountOfSubset
    <2>3. Cardinality(left) = Cardinality(owing) - 1
        BY <1>3, <2>2, FS_RemoveElement
    <2>4. Cardinality(owing) + blocks <= len
        BY <1>1, <1>3
    <2> QED
        BY <2>2, <2>3, <2>4
<1> QED
    BY <1>1, <1>2, <1>3 DEF InTime

LEMMA NoteAuthorInTime ==
    ASSUME RoundsInv, PointsInv, TimeInv, NEW author \in Accounts, NoteAuthor(author)
    PROVE  TimeInv'
<1>1. /\ round' = round /\ age' = age /\ length' = length /\ totalSelected' = totalSelected
      /\ selectedCandidates' = selectedCandidates /\ author \in selectedCandidates
      /\ awardedPts' = Put(awardedPts, <<round, author>>,
                           ValueOf(awardedPts, <<round, author>>) + 20)
    BY DEF NoteAuthor, vars, config
<1>2. round \in Nat /\ RewardPaymentDelay \in Nat /\ RewardPaymentDelay > 0
    BY DelayType DEF RoundsInv, PalletInv, StakingInv, NumbersOK
<1>3. DOMAIN awardedPts' = DOMAIN awardedPts \union {<<round, author>>}
    BY <1>1 DEF Put
<1>4. AwardsOf(awardedPts', round) = AwardsOf(awardedPts, round) \union {author}
    BY <1>3 DEF AwardsOf
<1>5. ASSUME NEW r, r # round
      PROVE  AwardsOf(awardedPts', r) = AwardsOf(awardedPts, r)
    <2>1. \A c : <<r, c>> # <<round, author>>
        BY <1>5
    <2> QED
        BY <1>3, <2>1 DEF AwardsOf
<1>6. AwardsOf(awardedPts', round) \subseteq selectedCandidates
    BY <1>1, <1>4 DEF TimeInv
<1>7. FewAwards(awardedPts', length)
    <2>1. Cardinality(AwardsOf(awardedPts', round)) <= length
        <3>1. selectedCandidates \subseteq Accounts /\ Cardinality(selectedCandidates) <= length
              /\ length \in Nat
            BY DEF TimeInv, ConfigOK
        <3>2. /\ Cardinality(AwardsOf(awardedPts', round)) \in Nat
              /\ Cardinality(selectedCandidates) \in Nat
              /\ Cardinality(AwardsOf(awardedPts', round)) <= Cardinality(selectedCandidates)
            BY <1>6, <3>1, CountOfSubset
        <3> QED
            BY <3>1, <3>2
    <2>2. \A r : r # round => Cardinality(AwardsOf(awardedPts', r)) <= length
        BY <1>5 DEF TimeInv, FewAwards
    <2> QED
        BY <2>1, <2>2 DEF FewAwards
<1>8. NoneOverdue(awardedPts', round)
    <2>1. <<round, author>>[1] = round /\ round <= round + RewardPaymentDelay
        BY <1>2
    <2> QED
        BY <1>3, <2>1 DEF TimeInv, NoneOverdue
<1>9. InTime(awardedPts', round, age, length)
    <2>1. round - RewardPaymentDelay # round
        BY <1>2
    <2>2. AwardsOf(awardedPts', round - RewardPaymentDelay)
            = AwardsOf(awardedPts, round - RewardPaymentDelay)
        BY <1>5, <2>1
    <2> QED
        BY <2>2 DEF TimeInv, InTime
<1> QED
    BY <1>1, <1>6, <1>7, <1>8, <1>9 DEF TimeInv, ConfigOK

LEMMA ContinueInTime ==
    ASSUME RoundsInv, PointsInv, TimeInv, OnInitialize, ContinueRound
    PROVE  TimeInv'
<1>1. /\ round' = round /\ age' = age + 1 /\ length' = length
      /\ totalSelected' = totalSelected /\ selectedCandidates' = selectedCandidates
      /\ HandleDelayedPayouts(round, atStake, delayedPayouts)
      /\ ~ (age + 1 >= length)
    BY DEF OnInitialize, ContinueRound, ShouldUpdate, vars, config
<1>2. /\ round \in Nat /\ age \in Nat /\ length \in Nat
      /\ PayrollOK(awardedPts, points, delayedPayouts, round)
    BY DEF RoundsInv, PalletInv, StakingInv, NumbersOK, PointsInv, TimeInv, ConfigOK
<1>3. PICK blocks \in Nat : blocks = age + 1
    BY <1>2
<1>4. LET owing == AwardsOf(awardedPts, round - RewardPaymentDelay)
      IN  owing = {} \/ Cardinality(owing) + blocks <= length
    <2>1. PICK owing : owing = AwardsOf(awardedPts, round - RewardPaymentDelay)
        OBVIOUS
    <2>2. owing = {} \/ Cardinality(owing) + age + 1 <= length
        BY <2>1 DEF TimeInv, InTime
    <2>3. Cardinality(owing) \in Nat
        <3>1. owing \subseteq Accounts
            BY <2>1 DEF AwardsOf
        <3> QED
            BY <3>1, CountOfSubset
    <2> QED
        BY <1>2, <1>3, <2>1, <2>2, <2>3
<1>5. InTime(awardedPts', round, blocks, length)
    BY <1>1, <1>2, <1>3, <1>4, PayoutInTime
<1>6. DOMAIN awardedPts' \subseteq DOMAIN awardedPts
    BY <1>1, <1>2, PayoutPaysOne
<1>7. /\ FewAwards(awardedPts', length) /\ NoneOverdue(awardedPts', round)
      /\ AwardsOf(awardedPts', round) \subseteq AwardsOf(awardedPts, round)
    BY <1>2, <1>6, FewerAwards DEF TimeInv
<1> QED
    BY <1>1, <1>2, <1>3, <1>5, <1>7 DEF TimeInv, ConfigOK

LEMMA NextRoundInTime ==
    ASSUME RoundsInv, PointsInv, TimeInv, OnInitialize, NextRound
    PROVE  TimeInv'
<1>1. PICK next : next = round + 1
    OBVIOUS
<1>2. PICK delayed : delayed = IF PayoutIsDue(next)
                               THEN Put(delayedPayouts, PaidRound(next),
                                        ValueOf(staked, PaidRound(next)))
                               ELSE delayedPayouts
    OBVIOUS
<1>3. PICK collators \in TopCandidates :
        /\ selectedCandidates' = IF collators = {} THEN selectedCandidates ELSE collators
        /\ \E stake : HandleDelayedPayouts(next, stake, delayed)
    BY <1>1, <1>2 DEF NextRound
<1>4. PICK stake : HandleDelayedPayouts(next, stake, delayed)
    BY <1>3
<1>5. /\ round' = next /\ age' = 0 /\ length' = length /\ totalSelected' = totalSelected
      /\ age + 1 >= length
    BY <1>1 DEF OnInitialize, NextRound, StartRound, ShouldUpdate, config
<1>6. /\ round \in Nat /\ round > 0 /\ age \in Nat /\ length \in Nat /\ totalSelected \in Nat
      /\ totalSelected <= length
      /\ PayrollOK(awardedPts, points, delayedPayouts, round) /\ PalletInv
      /\ RewardPaymentDelay \in Nat /\ RewardPaymentDelay > 0
    BY DelayType DEF RoundsInv, PalletInv, StakingInv, NumbersOK, PointsInv, TimeInv, ConfigOK
<1>7. PayrollOK(awardedPts, points, delayed, next) /\ next \in Nat
    BY <1>1, <1>2, <1>6, PayoutIsPrepared
<1>8. /\ selectedCandidates' \subseteq Accounts
      /\ Cardinality(selectedCandidates') <= length
    <2>1. collators \subseteq Accounts /\ Cardinality(collators) <= totalSelected
        BY <1>6, SelectionIsSmall
    <2>2. Cardinality(collators) \in Nat
        BY <2>1, CountOfSubset
    <2>3. Cardinality(collators) <= length
        BY <1>6, <2>1, <2>2
    <2> QED
        BY <1>3, <2>1, <2>3 DEF TimeInv
\* Nobody is left who should have been paid in the round that ends.
<1>9. AwardsOf(awardedPts, round - RewardPaymentDelay) = {}
    <2>1. PICK owing : owing = AwardsOf(awardedPts, round - RewardPaymentDelay)
        OBVIOUS
    <2>2. owing = {} \/ Cardinality(owing) + age + 1 <= length
        BY <2>1 DEF TimeInv, InTime
    <2>3. IsFiniteSet(owing) /\ Cardinality(owing) \in Nat
        <3>1. owing \subseteq Accounts
            BY <2>1 DEF AwardsOf
        <3> QED
            BY <3>1, CountOfSubset
    <2>4. Cardinality(owing) = 0 => owing = {}
        BY <2>3, FS_EmptySet
    <2> QED
        BY <1>5, <1>6, <2>1, <2>2, <2>3, <2>4
<1>10. NoneOverdue(awardedPts, next)
    <2> SUFFICES ASSUME NEW k \in DOMAIN awardedPts
                 PROVE  next <= k[1] + RewardPaymentDelay
        BY DEF NoneOverdue
    <2>1. PICK r \in Nat, c \in Accounts : k = <<r, c>>
        BY <1>6 DEF PayrollOK, AwardsOK
    <2>2. round <= r + RewardPaymentDelay
        BY <2>1 DEF TimeInv, NoneOverdue
    <2>3. r # round - RewardPaymentDelay
        BY <1>9, <2>1 DEF AwardsOf
    <2>4. next <= r + RewardPaymentDelay
        BY <1>1, <1>6, <2>2, <2>3
    <2> QED
        BY <2>1, <2>4
<1>11. InTime(awardedPts', next, 0, length)
    <2>1. LET owing == AwardsOf(awardedPts, next - RewardPaymentDelay)
          IN  owing = {} \/ Cardinality(owing) + 0 <= length
        <3>1. Cardinality(AwardsOf(awardedPts, next - RewardPaymentDelay)) <= length
            BY DEF TimeInv, FewAwards
        <3>2. Cardinality(AwardsOf(awardedPts, next - RewardPaymentDelay)) \in Nat
            <4>1. AwardsOf(awardedPts, next - RewardPaymentDelay) \subseteq Accounts
                BY DEF AwardsOf
            <4> QED
                BY <4>1, CountOfSubset
        <3> QED
            BY <3>1, <3>2
    <2>2. 0 \in Nat
        OBVIOUS
    <2> QED
        BY <1>4, <1>6, <1>7, <2>1, <2>2, PayoutInTime
<1>12. DOMAIN awardedPts' \subseteq DOMAIN awardedPts
    BY <1>4, <1>7, PayoutPaysOne
<1>13. /\ FewAwards(awardedPts', length) /\ NoneOverdue(awardedPts', next)
       /\ AwardsOf(awardedPts', next) \subseteq AwardsOf(awardedPts, next)
    BY <1>6, <1>10, <1>12, FewerAwards DEF TimeInv
<1>14. AwardsOf(awardedPts, next) = {}
    <2> SUFFICES ASSUME NEW c \in AwardsOf(awardedPts, next) PROVE FALSE
        OBVIOUS
    <2>1. <<next, c>> \in DOMAIN awardedPts
        BY DEF AwardsOf
    <2>2. PICK p \in Nat, e \in Accounts : p <= round /\ <<next, c>> = <<p, e>>
        BY <1>6, <2>1 DEF PayrollOK, AwardsOK
    <2> QED
        BY <1>1, <1>6, <2>2
<1>15. AwardsOf(awardedPts', next) \subseteq selectedCandidates'
    BY <1>13, <1>14
<1>16. ConfigOK'
    BY <1>5 DEF TimeInv, ConfigOK
<1>17. 0 \in Nat
    OBVIOUS
<1> QED
    BY <1>5, <1>8, <1>11, <1>13, <1>15, <1>16, <1>17 DEF TimeInv

LEMMA GenesisInTime ==
    ASSUME RoundsInv, TimeInv, GenesisBuild
    PROVE  TimeInv'
<1>1. PICK collators \in TopCandidates : selectedCandidates' = collators
    BY DEF GenesisBuild
<1>2. /\ round' = round /\ age' = age /\ length' = length /\ totalSelected' = totalSelected
      /\ awardedPts' = awardedPts /\ phase = "genesis"
    BY DEF GenesisBuild, vars, config
<1>3. AwardsOf(awardedPts, round) = {}
    BY <1>2 DEF RoundsInv, SnapshotsOK, SnapshotsOnHand, EmptyMap, AwardsOf
<1>4. /\ length \in Nat /\ totalSelected \in Nat /\ totalSelected <= length /\ PalletInv
    BY DEF TimeInv, ConfigOK, RoundsInv
<1>5. collators \subseteq Accounts /\ Cardinality(collators) <= totalSelected
    BY <1>4, SelectionIsSmall
<1>6. Cardinality(collators) \in Nat
    BY <1>5, CountOfSubset
<1>7. Cardinality(collators) <= length
    BY <1>4, <1>5, <1>6
<1> QED
    BY <1>1, <1>2, <1>3, <1>5, <1>7 DEF TimeInv, ConfigOK

\* Root changes the shape of the rounds, but does not shorten them.
LEMMA RootCallInTime ==
    ASSUME TimeInv, RoundsRootCall, length' >= length,
           UNCHANGED <<age, selectedCandidates, awardedPts>>
    PROVE  TimeInv'
<1>1. round' = round
    BY DEF RoundsRootCall, vars
<1>2. /\ length \in Nat /\ length > 0 /\ totalSelected \in Nat /\ totalSelected <= length
    BY DEF TimeInv, ConfigOK
<1>3. /\ length' \in Nat /\ totalSelected' \in Nat /\ totalSelected' <= length'
    <2>1. CASE \E new \in SelectedCounts : SetTotalSelected(new)
        <3>1. PICK new \in SelectedCounts : SetTotalSelected(new)
            BY <2>1
        <3> QED
            BY <1>2, <3>1, RoundsAssumption DEF SetTotalSelected
    <2>2. CASE \E new \in Lengths : SetBlocksPerRound(new)
        <3>1. PICK new \in Lengths : SetBlocksPerRound(new)
            BY <2>2
        <3> QED
            BY <1>2, <3>1, RoundsAssumption DEF SetBlocksPerRound
    <2> QED
        BY <2>1, <2>2 DEF RoundsRootCall
<1>4. ConfigOK'
    BY <1>2, <1>3 DEF ConfigOK
<1>5. Cardinality(selectedCandidates') <= length'
    <2>1. Cardinality(selectedCandidates) <= length /\ Cardinality(selectedCandidates) \in Nat
        BY CountOfSubset DEF TimeInv
    <2> QED
        BY <1>2, <1>3, <2>1
<1>6. FewAwards(awardedPts', length')
    <2> SUFFICES ASSUME NEW r PROVE Cardinality(AwardsOf(awardedPts, r)) <= length'
        BY DEF FewAwards
    <2>1. Cardinality(AwardsOf(awardedPts, r)) <= length
        BY DEF TimeInv, FewAwards
    <2>2. Cardinality(AwardsOf(awardedPts, r)) \in Nat
        <3>1. AwardsOf(awardedPts, r) \subseteq Accounts
            BY DEF AwardsOf
        <3> QED
            BY <3>1, CountOfSubset
    <2> QED
        BY <1>2, <1>3, <2>1, <2>2
<1>7. InTime(awardedPts', round', age', length')
    <2>1. PICK owing : owing = AwardsOf(awardedPts, round - RewardPaymentDelay)
        OBVIOUS
    <2>2. owing = {} \/ Cardinality(owing) + age + 1 <= length
        BY <2>1 DEF TimeInv, InTime
    <2>3. Cardinality(owing) \in Nat /\ age \in Nat
        <3>1. owing \subseteq Accounts
            BY <2>1 DEF AwardsOf
        <3> QED
            BY <3>1, CountOfSubset DEF TimeInv
    <2>4. owing = {} \/ Cardinality(owing) + age + 1 <= length'
        BY <1>2, <1>3, <2>2, <2>3
    <2> QED
        BY <1>1, <2>1, <2>4 DEF InTime
<1> QED
    BY <1>1, <1>4, <1>5, <1>6, <1>7 DEF TimeInv

LEMMA RoundsStepInTime ==
    ASSUME RoundsInv, PointsInv, TimeInv, [RoundsNext]_allVars, [length' >= length]_length
    PROVE  TimeInv'
<1>1. CASE UNCHANGED <<round, age, length, totalSelected, selectedCandidates, awardedPts>>
    BY <1>1 DEF TimeInv, ConfigOK
<1>2. CASE GenesisBuild
    BY <1>2, GenesisInTime
<1>3. CASE OnInitialize
    <2>1. ContinueRound \/ NextRound
        BY <1>3 DEF OnInitialize
    <2> QED
        BY <1>3, <2>1, ContinueInTime, NextRoundInTime
<1>4. ASSUME NEW author \in Accounts, NoteAuthor(author)
      PROVE  TimeInv'
    BY <1>4, NoteAuthorInTime
<1>5. CASE GenesisCall
    <2>1. CandidateCall \/ DelegatorCall
        BY <1>5 DEF GenesisCall, CandidateCall, DelegatorCall
    <2> QED
        BY <1>1, <1>5, <2>1, RoundOfCalls DEF GenesisCall, roundVars, ledger, progress, config
<1>6. CASE Extrinsic
    <2>1. UNCHANGED <<age, selectedCandidates, awardedPts>>
        BY <1>6 DEF Extrinsic, ledger
    <2>2. CASE RoundsRootCall
        <3>1. length' >= length
            BY DEF TimeInv, ConfigOK
        <3> QED
            BY <2>1, <2>2, <3>1, RootCallInTime
    <2>3. CASE StakingCall
        BY <1>1, <2>1, <2>3, RoundOfCalls DEF StakingCall, config
    <2> QED
        BY <1>6, <2>2, <2>3 DEF Extrinsic
<1>7. CASE UNCHANGED allVars
    BY <1>1, <1>7 DEF allVars, vars, roundVars, ledger, progress, config
<1> QED
    BY <1>2, <1>3, <1>4, <1>5, <1>6, <1>7 DEF RoundsNext

\* As long as rounds are not shortened, every collator of a round has been
\* paid when the round set for its payment ends: whatever the delay, the
\* number of collators and the lengths that root sets.
THEOREM PayoutsEndInTime ==
    RoundsSpec /\ [][length' >= length]_length => []PayoutsInTime
<1>1. RoundsInit => TimeInv
    <2> SUFFICES ASSUME RoundsInit PROVE TimeInv
        OBVIOUS
    <2>1. /\ length = DefaultBlocksPerRound /\ totalSelected = MinSelectedCandidates
          /\ selectedCandidates = {} /\ awardedPts = EmptyMap /\ age = 0 /\ round = 1
        BY DEF RoundsInit, Init
    <2>2. \A r : AwardsOf(awardedPts, r) = {}
        BY <2>1 DEF AwardsOf, EmptyMap
    <2>3. Cardinality({}) = 0
        BY FS_EmptySet
    <2>4. ConfigOK
        BY <2>1, RoundsAssumption DEF ConfigOK
    <2>5. length \in Nat
        BY <2>4 DEF ConfigOK
    <2>6. FewAwards(awardedPts, length) /\ Cardinality(selectedCandidates) <= length
        BY <2>1, <2>2, <2>3, <2>5 DEF FewAwards
    <2>7. NoneOverdue(awardedPts, round) /\ InTime(awardedPts, round, age, length)
        BY <2>1, <2>2 DEF NoneOverdue, InTime, EmptyMap
    <2> QED
        BY <2>1, <2>2, <2>4, <2>6, <2>7 DEF TimeInv
<1>2. RoundsInv /\ PointsInv /\ TimeInv /\ [RoundsNext]_allVars /\ [length' >= length]_length
        => TimeInv'
    BY RoundsStepInTime
<1>3. TimeInv => PayoutsInTime
    BY DEF TimeInv, NoneOverdue, PayoutsInTime
<1> QED
    BY <1>1, <1>2, <1>3, RoundsInvariant, PTL DEF RoundsSpec

==============================================================================
