---------------------------- MODULE RoundsProperties ----------------------------
(***************************************************************************)
(* What should be true of StakingRounds.                                   *)
(***************************************************************************)
EXTENDS StakingRounds

Started == phase # "genesis"

-----------------------------------------------------------------------------
(* Safety.                                                                 *)

\* Everyone who may author has a snapshot of its stake in this round, and who
\* has authored has it until paid: the `.expect("all selected candidates have
\* snapshots")` of a round without selection and the `take` of a payout never
\* miss, even when the collator has left the candidates in the meantime.
SnapshotsOnHand ==
    /\ Started => \A c \in selectedCandidates : <<round, c>> \in DOMAIN atStake
    /\ DOMAIN awardedPts \subseteq DOMAIN atStake

\* The points of a round cover those of its collators still to be paid, so
\* that their shares never exceed the round's reward; until the first payout
\* they are equal.
PointsCoverAwards ==
    \A r \in 1..round :
      LET awarded == SumFunction([c \in AwardedIn(r) |-> awardedPts[<<r, c>>]])
      IN  /\ ValueOf(points, r) >= awarded
          /\ round < r + RewardPaymentDelay => ValueOf(points, r) = awarded

\* A payout is never prepared for, or left with, a round without points: the
\* warning of pay_one_collator_reward is never logged.  And while collators
\* wait to be paid in the round set for it, the payout is there.
PayoutsHavePoints ==
    /\ \A r \in DOMAIN delayedPayouts : ValueOf(points, r) > 0
    /\ AwardedIn(round - RewardPaymentDelay) # {} =>
         (round - RewardPaymentDelay) \in DOMAIN delayedPayouts

\* The bond and the delegations of a snapshot add up to its total, by which
\* both are divided when the reward is shared.
SnapshotSharesAddUp ==
    \A k \in DOMAIN atStake :
      LET held == atStake[k].delegations
      IN  atStake[k].total =
            atStake[k].bond + SumFunction([i \in DOMAIN held |-> held[i].amount])

\* As long as rounds are not shortened, every collator of a round has been
\* paid when the round set for its payment ends.
PayoutsInTime ==
    \A k \in DOMAIN awardedPts : round <= k[1] + RewardPaymentDelay

-----------------------------------------------------------------------------
(* The abstract specification.                                             *)

\* Who may author in round r, with the snapshot of its stake.
Shift(collators, stake, r) ==
    [c \in {x \in collators : <<r, x>> \in DOMAIN stake} |-> stake[<<r, c>>]]

\* Who is owed for blocks, with the snapshot the payment will be weighed by.
Dues(awarded, stake) ==
    [k \in DOMAIN awarded |-> [points |-> awarded[k], exposure |-> stake[k]]]

OnDuty == Shift(selectedCandidates, atStake, round)
Owed == Dues(awardedPts, atStake)

PayrollOf == INSTANCE Payroll WITH
    Workers <- Accounts, Exposures <- CollatorSnapshot,
    Delay <- RewardPaymentDelay, Award <- 20,
    now <- round, onDuty <- OnDuty, owed <- Owed

\* The pallet keeps the promise of Payroll: through every change of stake,
\* exit and re-selection, a collator is owed its points with the stake as it
\* was when the round began, and is paid once, in the round set for it.
KeepsPayroll == PayrollOf!Spec

-----------------------------------------------------------------------------
(* Liveness.                                                               *)

\* "Immediately following a round change, payments are made once-per-block
\* until all payments have been made": while the chain grows, who authored in
\* a round whose payment round ends within the bound is paid in the end.
AwardedArePaid ==
    \A r \in 1..(MaxRound - RewardPaymentDelay - 1) :
      (AwardedIn(r) # {}) ~> (AwardedIn(r) = {})

================================================================================
