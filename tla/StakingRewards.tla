----------------------------- MODULE StakingRewards -----------------------------
(***************************************************************************)
(* How the issuance of one round is divided: the reserve for the allychain *)
(* bond, then, one collator at a time, its part of what is left by points, *)
(* its commission on the whole issuance, and the rest among its bond and   *)
(* the delegations of its snapshot.  StakingRounds says who is paid when;  *)
(* this module says how much.                                              *)
(*                                                                         *)
(* A Perbill is a number of parts of Accuracy (1,000,000,000 in the code). *)
(* External: Perbill's arithmetic, from_rational rounding down and the     *)
(* product with a balance rounding to the nearest; minting to an account   *)
(* that does not exist any more, which fails.                              *)
(***************************************************************************)
EXTENDS Naturals, FiniteSets, Functions

CONSTANTS
    Accuracy, RewardCollators,
    \* inputs
    Issuances, Percents, AwardPoints, Bonds, Backings

\* A block awards its author points, never none, and a candidate's own bond is
\* never zero; the percentages are Perbills.
ASSUME RewardsAssumption ==
    /\ Accuracy \in Nat \ {0} /\ IsFiniteSet(RewardCollators)
    /\ Issuances \subseteq Nat /\ Percents \subseteq 0..Accuracy
    /\ AwardPoints \subseteq Nat \ {0} /\ Bonds \subseteq Nat \ {0}
    /\ \A b \in Backings : IsFiniteSet(DOMAIN b) /\ b \in [DOMAIN b -> Nat]

VARIABLES
    issuance,    \* DelayedPayout.round_issuance
    reward,      \* DelayedPayout.total_staking_reward
    commission,  \* DelayedPayout.collator_commission
    exposure,    \* AtStake of the round: collator -> [bond, delegations]
    awarded,     \* AwardedPts of the round that are left
    totalPoints, \* Points of the round
    minted       \* to collators and delegators, so far

rewardVars == <<issuance, reward, commission, exposure, awarded, totalPoints, minted>>

PercentOf(part, x) == (2 * part * x + Accuracy - 1) \div (2 * Accuracy)
FromRational(p, q) == IF p >= q THEN Accuracy ELSE (p * Accuracy) \div q

\* prepare_staking_payouts: the reserve is set aside if it can be minted.
LeftAfterReserve(total, percent, exists) ==
    IF exists THEN total - PercentOf(percent, total) ELSE total

RewardsInit ==
    /\ issuance \in Issuances
    /\ \E percent \in Percents, exists \in BOOLEAN :
         reward = LeftAfterReserve(issuance, percent, exists)
    /\ commission \in Percents
    /\ exposure \in [RewardCollators -> [bond : Bonds, delegations : Backings]]
    /\ awarded \in [RewardCollators -> AwardPoints]
    /\ totalPoints = SumFunction(awarded)
    /\ minted = 0

-----------------------------------------------------------------------------
CollatorIssuance == PercentOf(commission, issuance)

TotalStake(c) == exposure[c].bond + SumFunction(exposure[c].delegations)

\* Fault: the commission is paid on top.
AfterCommission_Kept(paid, fee) == paid

\* What is left to divide by stake once the commission is taken, saturating.
AfterCommission(paid, fee) == IF fee > paid THEN 0 ELSE paid - fee

ShareOf(stake, c, amount) == PercentOf(FromRational(stake, TotalStake(c)), amount)

\* What the collator and its delegators are due.
Dues(c) ==
    LET due == FromRational(awarded[c], totalPoints)
        paid == PercentOf(due, reward)
        fee == PercentOf(due, CollatorIssuance)
        rest == AfterCommission(paid, fee)
        backers == exposure[c].delegations
    IN  IF DOMAIN backers = {} THEN [collator |-> paid, delegators |-> <<>>]
        ELSE [collator |-> ShareOf(exposure[c].bond, c, rest) + fee,
              delegators |-> [d \in DOMAIN backers |-> ShareOf(backers[d], c, rest)]]

\* pay_one_collator_reward: an entry is drained, whoever is gone gets nothing.
PayOneCollator(c) ==
    /\ c \in DOMAIN awarded
    /\ awarded' = Restrict(awarded, DOMAIN awarded \ {c})
    /\ \E gone \in SUBSET DOMAIN exposure[c].delegations :
         minted' = minted + (Dues(c).collator
                             + SumFunctionOnSet(Dues(c).delegators,
                                                DOMAIN Dues(c).delegators \ gone))
    /\ UNCHANGED <<issuance, reward, commission, exposure, totalPoints>>

RewardsNext == \E c \in RewardCollators : PayOneCollator(c)

RewardsSpec == RewardsInit /\ [][RewardsNext]_rewardVars

-----------------------------------------------------------------------------
Larger(x, y) == IF x < y THEN y ELSE x

\* Twice the amounts that rounding to the nearest may have added: one half for
\* the part of each paid collator and for each share of it.
Roundings ==
    SumFunctionOnSet(
        [c \in RewardCollators |-> 2 + Cardinality(DOMAIN exposure[c].delegations)],
        RewardCollators \ DOMAIN awarded)

\* A round mints no more than its reward or, where commission is set so high
\* that it exceeds what the reserve leaves, than the commission on the whole
\* issuance, but for the rounding of each share: whatever the percentages, the
\* points, the stakes and the order of payment.
RewardsWithinReward ==
    2 * minted <= 2 * Larger(reward, CollatorIssuance) + Roundings

================================================================================
