-------------------------------- MODULE Payroll --------------------------------
(***************************************************************************)
(* What the staking pallet promises those who author blocks, with none of  *)
(* its storage: who authored in a round is owed a payment that is weighed  *)
(* by the stake behind it when that round began, whatever happens to that  *)
(* stake later; it is owed once, for as long as it has not been paid, and  *)
(* is paid only when the round is `delay` rounds back.                     *)
(***************************************************************************)
EXTENDS Integers

CONSTANTS
    Workers,     \* accounts that may be on duty
    Exposures,   \* what may stand behind one of them
    Delay,       \* rounds between the work and the payment
    Award        \* points for one block

VARIABLES
    now,         \* the round
    onDuty,      \* who may author in this round, with its exposure
    owed         \* <<round, worker>> -> points and exposure

vars == <<now, onDuty, owed>>

Without(f, keys) == [k \in DOMAIN f \ keys |-> f[k]]

NoDuty == [c \in {} |-> c]

Init == now = 1 /\ onDuty = NoDuty /\ owed = [k \in {} |-> k]

\* Before the first block: the first shift.
FirstShift ==
    /\ onDuty = NoDuty
    /\ \E shift \in SUBSET Workers : onDuty' \in [shift -> Exposures]
    /\ UNCHANGED <<now, owed>>

\* A block is authored by somebody on duty.
Work(c) ==
    /\ c \in DOMAIN onDuty
    /\ owed' = [ k \in DOMAIN owed \union {<<now, c>>} |->
                 IF k = <<now, c>>
                 THEN [ points |-> (IF k \in DOMAIN owed
                                    THEN owed[k].points ELSE 0) + Award,
                        exposure |-> onDuty[c] ]
                 ELSE owed[k] ]
    /\ UNCHANGED <<now, onDuty>>

\* At the start of a block: perhaps a new round, perhaps one payment.
StartBlock ==
    /\ \/ UNCHANGED <<now, onDuty>>
       \/ /\ now' = now + 1
          /\ \E shift \in SUBSET Workers : onDuty' \in [shift -> Exposures]
    /\ \/ UNCHANGED owed
       \/ \E c \in Workers :
            /\ <<now' - Delay, c>> \in DOMAIN owed
            /\ owed' = Without(owed, {<<now' - Delay, c>>})

Next == FirstShift \/ StartBlock \/ \E c \in Workers : Work(c)

Spec == Init /\ [][Next]_vars

================================================================================
