-------------------------- MODULE MCAllychainStaking --------------------------
(***************************************************************************)
(* Small instances of AllychainStaking for TLC.                            *)
(***************************************************************************)
EXTENDS StakingProperties

CONSTANTS
    c1, c2, d1, d2, d3, d4,
    MaxPending,       \* requests and exits of delegators pending at once
    MaxBond           \* bond of a candidate

\* Accounts that play the same parts are interchangeable.
Symmetry == Permutations(Backers) \union Permutations(Joiners)

Pending == { d \in DOMAIN delegatorState : IsLeaving(delegatorState[d]) }
           \union UNION { {d} \X DOMAIN delegatorState[d].requests :
                            d \in DOMAIN delegatorState }

\* TLC explores the states within these bounds.
WithinBounds ==
    /\ Cardinality(Pending) <= MaxPending
    /\ \A c \in DOMAIN candidateInfo : candidateInfo[c].bond <= MaxBond

=============================================================================
