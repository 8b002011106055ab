------------------------------ MODULE AuthorMapping ------------------------------
(***************************************************************************)
(* The author-mapping pallet: which account the blocks of a NimbusId are   *)
(* credited to, and the deposit that is reserved for every entry.  The     *)
(* deposit is a constant of the runtime, so that an upgrade may change it  *)
(* while entries made at another price exist.                              *)
(*                                                                         *)
(* External: the reserve of pallet_balances, which fails for want of free  *)
(* balance, and a runtime upgrade that changes DepositAmount.              *)
(***************************************************************************)
EXTENDS Naturals, FiniteSets, Functions

CONSTANTS AuthorIds, AuthorAccounts, Deposits, Funds

ASSUME DepositsAssumption == Deposits \subseteq Nat

VARIABLES
    mapping,         \* MappingWithDeposit: NimbusId -> [account, deposit]
    held,            \* reserved for this pallet: account -> amount
    depositAmount,   \* DepositAmount of the runtime in force
    built,           \* the genesis build is over
    overwritten      \* history: account -> deposits of entries that a later
                     \* pair of the genesis configuration replaced

mappingVars == <<mapping, held, depositAmount, built, overwritten>>

MappingInit ==
    /\ mapping = <<>>
    /\ held = [a \in AuthorAccounts |-> 0]
    /\ overwritten = held
    /\ depositAmount \in Deposits
    /\ built = FALSE

Mapped(id) == id \in DOMAIN mapping
IsOwner(account, id) == Mapped(id) /\ mapping[id].account = account

\* enact_registration, which leaves the check for an existing entry to its
\* caller.
EnactRegistration(id, account) ==
    /\ held[account] + depositAmount <= Funds
    /\ held' = [held EXCEPT ![account] = @ + depositAmount]
    /\ mapping' = [x \in DOMAIN mapping \cup {id} |->
                     IF x = id THEN [account |-> account, deposit |-> depositAmount]
                     ELSE mapping[x]]

\* One pair of the genesis configuration.  Nothing checks for an entry: a
\* repeated id reserves once more, and its first entry is replaced.  A pair
\* whose account can not afford the deposit is passed over.
GenesisMapping(id, account) ==
    /\ ~built
    /\ EnactRegistration(id, account)
    /\ overwritten' =
         IF Mapped(id)
         THEN [overwritten EXCEPT ![mapping[id].account] = @ + mapping[id].deposit]
         ELSE overwritten
    /\ UNCHANGED <<depositAmount, built>>

GenesisBuilt ==
    /\ ~built /\ built' = TRUE
    /\ UNCHANGED <<mapping, held, depositAmount, overwritten>>

AddAssociation(account, id) ==
    /\ built /\ ~Mapped(id)
    /\ EnactRegistration(id, account)
    /\ UNCHANGED <<depositAmount, built, overwritten>>

\* The record moves, with the deposit it was made with.
Rotated(old, new) ==
    [x \in (DOMAIN mapping \ {old}) \cup {new} |->
       IF x = new THEN mapping[old] ELSE mapping[x]]

UpdateAssociation(account, old, new) ==
    /\ built /\ IsOwner(account, old)
    /\ ~Mapped(new)
    /\ mapping' = Rotated(old, new)
    /\ UNCHANGED <<held, depositAmount, built, overwritten>>

\* Fault: the deposit in force is given back.
Refund_AtTodaysPrice(id) == depositAmount

\* What is given back for an entry.
Refund(id) == mapping[id].deposit

ClearAssociation(account, id) ==
    /\ built /\ IsOwner(account, id)
    /\ mapping' = Restrict(mapping, DOMAIN mapping \ {id})
    /\ held' = [held EXCEPT ![account] = IF Refund(id) > @ THEN 0 ELSE @ - Refund(id)]
    /\ UNCHANGED <<depositAmount, built, overwritten>>

\* External: a runtime upgrade.
ChangeDeposit ==
    /\ built /\ depositAmount' \in Deposits
    /\ UNCHANGED <<mapping, held, built, overwritten>>

MappingNext ==
    \/ GenesisBuilt
    \/ \E a \in AuthorAccounts, id \in AuthorIds :
         \/ GenesisMapping(id, a)
         \/ AddAssociation(a, id) \/ ClearAssociation(a, id)
         \/ \E new \in AuthorIds : UpdateAssociation(a, id, new)
    \/ ChangeDeposit

MappingSpec == MappingInit /\ [][MappingNext]_mappingVars

-----------------------------------------------------------------------------
EntriesOf(account) == {id \in DOMAIN mapping : mapping[id].account = account}

\* What is reserved of an account is what its entries say was taken for them,
\* and what genesis took for entries that it then replaced: through rotations
\* and changes of the deposit, an account that clears its entries gets back
\* exactly what it paid for them, and nothing but a repeated id of genesis
\* leaves a reserve that no call gives back.
DepositsAreHeld ==
    \A a \in AuthorAccounts :
      held[a] = SumFunctionOnSet([id \in DOMAIN mapping |-> mapping[id].deposit],
                                 EntriesOf(a)) + overwritten[a]

================================================================================
