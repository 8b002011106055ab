------------------------------- MODULE PartsProofs -------------------------------
(***************************************************************************)
(* Proofs about the parts of the system that share no state (MCParts), for *)
(* any values of their constants: the reverse map and the fee list of      *)
(* AssetManager, the deposits of AuthorMapping, the migrations and the     *)
(* messages of RuntimeUpgrade, what a round mints (StakingRewards), the    *)
(* sorting of DelegationOrder, and that the faucet begins one transfer per *)
(* request.                                                                *)
(***************************************************************************)
EXTENDS AssetManager, AuthorMapping, RuntimeUpgrade, StakingRewards, FaucetBot,
        DelegationOrder, BookOrderProofs, SequenceTheorems

-----------------------------------------------------------------------------
(* The calls that change the two maps.                                     *)

\* A new asset: nothing refers to its id yet.
LEMMA RegisterKeepsReverse ==
    ASSUME ReverseEntriesAreRight, NEW type, RegisterAsset(type)
    PROVE  ReverseEntriesAreRight'
<1>1. PICK id : /\ id \notin DOMAIN assetIdType
                /\ assetIdType' = With(assetIdType, id, type)
                /\ assetTypeId' = With(assetTypeId, type, id)
  BY DEF RegisterAsset
<1>2. /\ DOMAIN assetIdType' = DOMAIN assetIdType \cup {id}
      /\ assetIdType'[id] = type
      /\ \A x \in DOMAIN assetIdType \ {id} : assetIdType'[x] = assetIdType[x]
  BY <1>1 DEF With
<1>3. /\ DOMAIN assetTypeId' = DOMAIN assetTypeId \cup {type}
      /\ assetTypeId'[type] = id
      /\ \A x \in DOMAIN assetTypeId \ {type} : assetTypeId'[x] = assetTypeId[x]
  BY <1>1 DEF With
<1>4. ASSUME NEW t \in DOMAIN assetTypeId'
      PROVE  /\ assetTypeId'[t] \in DOMAIN assetIdType'
             /\ assetIdType'[assetTypeId'[t]] = t
  <2>1. CASE t = type
    BY <1>2, <1>3, <2>1
  <2>2. CASE t # type
    <3>1. t \in DOMAIN assetTypeId /\ assetTypeId'[t] = assetTypeId[t]
      BY <1>3, <2>2
    <3>2. assetTypeId[t] \in DOMAIN assetIdType \ {id}
      BY <1>1, <3>1 DEF ReverseEntriesAreRight
    <3> QED
      BY <1>2, <3>1, <3>2 DEF ReverseEntriesAreRight
  <2> QED
    BY <2>1, <2>2
<1> QED
  BY <1>4 DEF ReverseEntriesAreRight

\* An asset leaves its old type, of which it takes the entry with it, and
\* takes over the entry of the new one.
LEMMA ChangeKeepsReverse ==
    ASSUME ReverseEntriesAreRight, NEW id, NEW new, NEW hint,
           ChangeExistingAssetType(id, new, hint)
    PROVE  ReverseEntriesAreRight'
<1>1. PICK old, moved :
        /\ old = assetIdType[id]
        /\ moved = With(assetTypeId, new, id)
        /\ assetIdType' = With(assetIdType, id, new)
        /\ assetTypeId' = Less(moved, old)
  BY DEF ChangeExistingAssetType, Remapped
<1>2. /\ DOMAIN assetIdType' = DOMAIN assetIdType \cup {id}
      /\ assetIdType'[id] = new
      /\ \A x \in DOMAIN assetIdType \ {id} : assetIdType'[x] = assetIdType[x]
  BY <1>1 DEF With
<1>3. /\ DOMAIN moved = DOMAIN assetTypeId \cup {new}
      /\ moved[new] = id
      /\ \A x \in DOMAIN assetTypeId \ {new} : moved[x] = assetTypeId[x]
  BY <1>1 DEF With
<1>4. /\ DOMAIN assetTypeId' = DOMAIN moved \ {old}
      /\ \A x \in DOMAIN moved \ {old} : assetTypeId'[x] = moved[x]
  BY <1>1 DEF Less, Restrict
<1>5. ASSUME NEW t \in DOMAIN assetTypeId, assetTypeId[t] = id
      PROVE  t = old
  BY <1>1, <1>5 DEF ReverseEntriesAreRight
<1>6. ASSUME NEW t \in DOMAIN assetTypeId'
      PROVE  /\ assetTypeId'[t] \in DOMAIN assetIdType'
             /\ assetIdType'[assetTypeId'[t]] = t
  <2>1. CASE t = new
    BY <1>2, <1>3, <1>4, <2>1
  <2>2. CASE t # new
    <3>1. t \in DOMAIN assetTypeId \ {old} /\ assetTypeId'[t] = assetTypeId[t]
      BY <1>3, <1>4, <2>2
    <3>2. assetTypeId[t] \in DOMAIN assetIdType \ {id}
      BY <1>5, <3>1 DEF ReverseEntriesAreRight
    <3> QED
      BY <1>2, <3>1, <3>2 DEF ReverseEntriesAreRight
  <2> QED
    BY <2>1, <2>2
<1> QED
  BY <1>6 DEF ReverseEntriesAreRight

\* An asset is forgotten, with the entry of its type: the only one that may
\* refer to it.
LEMMA RemoveKeepsReverse ==
    ASSUME ReverseEntriesAreRight, NEW id, NEW hint,
           RemoveExistingAssetType(id, hint)
    PROVE  ReverseEntriesAreRight'
<1>1. PICK type : /\ type = assetIdType[id]
                  /\ assetIdType' = Less(assetIdType, id)
                  /\ assetTypeId' = Less(assetTypeId, type)
  BY DEF RemoveExistingAssetType
<1>2. /\ DOMAIN assetIdType' = DOMAIN assetIdType \ {id}
      /\ \A x \in DOMAIN assetIdType \ {id} : assetIdType'[x] = assetIdType[x]
  BY <1>1 DEF Less, Restrict
<1>3. /\ DOMAIN assetTypeId' = DOMAIN assetTypeId \ {type}
      /\ \A x \in DOMAIN assetTypeId \ {type} : assetTypeId'[x] = assetTypeId[x]
  BY <1>1 DEF Less, Restrict
<1>4. ASSUME NEW t \in DOMAIN assetTypeId, assetTypeId[t] = id
      PROVE  t = type
  BY <1>1, <1>4 DEF ReverseEntriesAreRight
<1>5. ASSUME NEW t \in DOMAIN assetTypeId'
      PROVE  /\ assetTypeId'[t] \in DOMAIN assetIdType'
             /\ assetIdType'[assetTypeId'[t]] = t
  <2>1. t \in DOMAIN assetTypeId \ {type} /\ assetTypeId'[t] = assetTypeId[t]
    BY <1>3
  <2>2. assetTypeId[t] \in DOMAIN assetIdType \ {id}
    BY <1>4, <2>1 DEF ReverseEntriesAreRight
  <2> QED
    BY <1>2, <2>1, <2>2 DEF ReverseEntriesAreRight
<1> QED
  BY <1>5 DEF ReverseEntriesAreRight

-----------------------------------------------------------------------------
\* Tokens of a type are minted only as an asset that stands for that type,
\* whatever calls are made, in whatever order: the invariant is inductive,
\* because a reverse entry of an asset is always the one of its present type.
THEOREM ReverseEntriesStayRight ==
    AssetsSpec => []ReverseEntriesAreRight
<1>1. AssetsInit => ReverseEntriesAreRight
  BY DEF AssetsInit, ReverseEntriesAreRight
<1>2. ReverseEntriesAreRight /\ [AssetsNext]_assetVars => ReverseEntriesAreRight'
  <2> SUFFICES ASSUME ReverseEntriesAreRight, [AssetsNext]_assetVars
               PROVE  ReverseEntriesAreRight'
    OBVIOUS
  <2>1. ASSUME NEW type \in AssetTypes, RegisterAsset(type)
        PROVE  ReverseEntriesAreRight'
    BY <2>1, RegisterKeepsReverse
  <2>2. ASSUME NEW type \in AssetTypes, NEW units \in Units, NEW hint \in Hints,
               SetAssetUnitsPerSecond(type, units, hint)
        PROVE  ReverseEntriesAreRight'
    BY <2>2 DEF SetAssetUnitsPerSecond, ReverseEntriesAreRight
  <2>3. ASSUME NEW type \in AssetTypes, NEW hint \in Hints,
               RemoveSupportedAsset(type, hint)
        PROVE  ReverseEntriesAreRight'
    BY <2>3 DEF RemoveSupportedAsset, ReverseEntriesAreRight
  <2>4. ASSUME NEW type \in AssetTypes, NEW hint \in Hints,
               RemoveExistingAssetType(IdOf(type), hint)
        PROVE  ReverseEntriesAreRight'
    BY <2>4, RemoveKeepsReverse
  <2>5. ASSUME NEW type \in AssetTypes, NEW new \in AssetTypes, NEW hint \in Hints,
               ChangeExistingAssetType(IdOf(type), new, hint)
        PROVE  ReverseEntriesAreRight'
    BY <2>5, ChangeKeepsReverse
  <2>6. CASE UNCHANGED assetVars
    BY <2>6 DEF assetVars, ReverseEntriesAreRight
  <2> QED
    BY <2>1, <2>2, <2>3, <2>4, <2>5, <2>6 DEF AssetsNext
<1> QED
  BY <1>1, <1>2, PTL DEF AssetsSpec

-----------------------------------------------------------------------------
(* The deposits of author-mapping.                                         *)

\* A map of finitely many entries, each with an account and a deposit.
EntriesOK(m) ==
    /\ IsFiniteSet(DOMAIN m)
    /\ \A id \in DOMAIN m : m[id].deposit \in Nat

OwnedBy(m, a) == {id \in DOMAIN m : m[id].account = a}

DepositSum(m, a) ==
    SumFunctionOnSet([id \in DOMAIN m |-> m[id].deposit], OwnedBy(m, a))

\* A new entry adds its deposit to those of its account.
LEMMA EntryAdds ==
    ASSUME NEW m, EntriesOK(m), NEW id, id \notin DOMAIN m,
           NEW e, e.deposit \in Nat,
           NEW n, n = [x \in DOMAIN m \cup {id} |-> IF x = id THEN e ELSE m[x]],
           NEW a
    PROVE  /\ EntriesOK(n)
           /\ DepositSum(m, a) \in Nat
           /\ DepositSum(n, a)
                = DepositSum(m, a) + (IF a = e.account THEN e.deposit ELSE 0)
<1>1. PICK f, g, S, T :
        /\ f = [x \in DOMAIN m |-> m[x].deposit]
        /\ g = [x \in DOMAIN n |-> n[x].deposit]
        /\ S = OwnedBy(m, a) /\ T = OwnedBy(n, a)
    OBVIOUS
<1>2. /\ DOMAIN n = DOMAIN m \cup {id} /\ n[id] = e
      /\ \A x \in DOMAIN m : n[x] = m[x]
    OBVIOUS
<1>3. EntriesOK(n)
    <2>1. IsFiniteSet(DOMAIN n)
        BY <1>2, FS_AddElement DEF EntriesOK
    <2> QED
        BY <1>2, <2>1 DEF EntriesOK
<1>4. /\ S \subseteq DOMAIN m /\ IsFiniteSet(S) /\ id \notin S
      /\ \A x \in S : f[x] \in Nat /\ g[x] = f[x]
      /\ g[id] = e.deposit
    BY <1>1, <1>2, FS_Subset DEF OwnedBy, EntriesOK
<1>5. DepositSum(m, a) = SumFunctionOnSet(f, S) /\ DepositSum(n, a) = SumFunctionOnSet(g, T)
    BY <1>1 DEF DepositSum
<1>6. /\ SumFunctionOnSet(f, S) \in Nat
      /\ SumFunctionOnSet(g, S) = SumFunctionOnSet(f, S)
    BY <1>4, SumType, SumSame
<1>7. CASE a = e.account
    <2>1. T = S \cup {id}
        BY <1>1, <1>2, <1>7 DEF OwnedBy
    <2>2. \A x \in S \cup {id} : g[x] \in Nat
        BY <1>4
    <2>3. SumFunctionOnSet(g, S \cup {id}) = g[id] + SumFunctionOnSet(g, S)
        BY <1>4, <2>2, SumAdd
    <2> QED
        BY <1>3, <1>4, <1>5, <1>6, <1>7, <2>1, <2>3
<1>8. CASE a # e.account
    <2>1. T = S
        BY <1>1, <1>2, <1>8 DEF OwnedBy
    <2> QED
        BY <1>3, <1>5, <1>6, <1>8, <2>1
<1> QED
    BY <1>7, <1>8

\* An entry that goes takes its deposit off those of its account.
LEMMA EntryTakes ==
    ASSUME NEW m, EntriesOK(m), NEW id \in DOMAIN m,
           NEW n, n = [x \in DOMAIN m \ {id} |-> m[x]],
           NEW a
    PROVE  /\ EntriesOK(n)
           /\ DepositSum(n, a) \in Nat
           /\ DepositSum(m, a)
                = DepositSum(n, a) + (IF a = m[id].account THEN m[id].deposit ELSE 0)
<1>1. PICK f, g, S, T :
        /\ f = [x \in DOMAIN m |-> m[x].deposit]
        /\ g = [x \in DOMAIN n |-> n[x].deposit]
        /\ S = OwnedBy(m, a) /\ T = OwnedBy(n, a)
    OBVIOUS
<1>2. /\ DOMAIN n = DOMAIN m \ {id}
      /\ \A x \in DOMAIN n : n[x] = m[x]
    OBVIOUS
<1>3. EntriesOK(n)
    BY <1>2, FS_Subset DEF EntriesOK
<1>4. /\ S \subseteq DOMAIN m /\ IsFiniteSet(S) /\ T = S \ {id} /\ IsFiniteSet(T)
      /\ \A x \in S : f[x] \in Nat
      /\ \A x \in T : f[x] \in Nat /\ g[x] = f[x]
      /\ f[id] = m[id].deposit
      /\ id \in S <=> a = m[id].account
    BY <1>1, <1>2, FS_Subset DEF OwnedBy, EntriesOK
<1>5. DepositSum(m, a) = SumFunctionOnSet(f, S) /\ DepositSum(n, a) = SumFunctionOnSet(g, T)
    BY <1>1 DEF DepositSum
<1>6. /\ SumFunctionOnSet(f, T) \in Nat
      /\ SumFunctionOnSet(g, T) = SumFunctionOnSet(f, T)
    BY <1>4, SumType, SumSame
<1>7. CASE a = m[id].account
    <2>1. SumFunctionOnSet(f, S) = f[id] + SumFunctionOnSet(f, S \ {id})
        BY <1>4, <1>7, SumRemove
    <2>2. f[id] \in Nat
        BY <1>4, <1>7
    <2> QED
        BY <1>3, <1>4, <1>5, <1>6, <1>7, <2>1, <2>2
<1>8. CASE a # m[id].account
    <2>1. T = S
        BY <1>4, <1>8
    <2> QED
        BY <1>3, <1>5, <1>6, <1>8, <2>1
<1> QED
    BY <1>7, <1>8

\* Inductive.
DepositsInv ==
    /\ EntriesOK(mapping)
    /\ depositAmount \in Nat
    /\ held \in [AuthorAccounts -> Nat]
    /\ overwritten \in [AuthorAccounts -> Nat]
    /\ \A a \in AuthorAccounts : held[a] = DepositSum(mapping, a) + overwritten[a]

\* A registration under an id that has no entry.
LEMMA EnactKeepsDeposits ==
    ASSUME DepositsInv, NEW account \in AuthorAccounts, NEW id,
           id \notin DOMAIN mapping, EnactRegistration(id, account),
           UNCHANGED <<depositAmount, overwritten>>
    PROVE  DepositsInv'
<1>1. PICK e : e = [account |-> account, deposit |-> depositAmount]
    OBVIOUS
<1>2. /\ id \notin DOMAIN mapping
      /\ mapping' = [x \in DOMAIN mapping \cup {id} |-> IF x = id THEN e ELSE mapping[x]]
      /\ held' = [held EXCEPT ![account] = @ + depositAmount]
      /\ depositAmount' = depositAmount /\ overwritten' = overwritten
    BY <1>1 DEF EnactRegistration
<1>3. e.account = account /\ e.deposit = depositAmount /\ e.deposit \in Nat
    BY <1>1 DEF DepositsInv
<1>4. \A a : /\ EntriesOK(mapping')
             /\ DepositSum(mapping', a) = DepositSum(mapping, a)
                  + (IF a = account THEN depositAmount ELSE 0)
             /\ DepositSum(mapping, a) \in Nat
    BY <1>2, <1>3, EntryAdds DEF DepositsInv
<1>5. \A a \in AuthorAccounts :
        /\ held'[a] \in Nat
        /\ held'[a] = DepositSum(mapping', a) + overwritten'[a]
    BY <1>2, <1>4 DEF DepositsInv
<1>6. held' \in [AuthorAccounts -> Nat]
    BY <1>2 DEF DepositsInv
<1> QED
    BY <1>2, <1>4, <1>5, <1>6 DEF DepositsInv

\* A pair of genesis: a repeated id is an entry that goes, without a refund,
\* and one that comes.
LEMMA GenesisKeepsDeposits ==
    ASSUME DepositsInv, NEW account \in AuthorAccounts, NEW id,
           GenesisMapping(id, account)
    PROVE  DepositsInv'
<1>1. EnactRegistration(id, account) /\ depositAmount' = depositAmount
    BY DEF GenesisMapping
<1>2. CASE id \notin DOMAIN mapping
    <2>1. overwritten' = overwritten
        BY <1>2 DEF GenesisMapping, Mapped
    <2> QED
        BY <1>1, <1>2, <2>1, EnactKeepsDeposits
<1>3. CASE id \in DOMAIN mapping
    <2>1. PICK e, old, less :
            /\ e = [account |-> account, deposit |-> depositAmount]
            /\ old = mapping[id]
            /\ less = [x \in DOMAIN mapping \ {id} |-> mapping[x]]
        OBVIOUS
    <2>2. /\ id \notin DOMAIN less
          /\ mapping' = [x \in DOMAIN less \cup {id} |-> IF x = id THEN e ELSE less[x]]
          /\ held' = [held EXCEPT ![account] = @ + depositAmount]
          /\ overwritten' = [overwritten EXCEPT ![old.account] = @ + old.deposit]
        BY <1>1, <1>3, <2>1 DEF GenesisMapping, EnactRegistration, Mapped
    <2>3. /\ EntriesOK(mapping) /\ old.deposit \in Nat
          /\ e.account = account /\ e.deposit = depositAmount /\ e.deposit \in Nat
        BY <1>3, <2>1 DEF DepositsInv, EntriesOK
    <2>4. \A a : /\ EntriesOK(less) /\ DepositSum(less, a) \in Nat
                 /\ DepositSum(mapping, a) = DepositSum(less, a)
                      + (IF a = old.account THEN old.deposit ELSE 0)
        BY <1>3, <2>1, <2>3, EntryTakes
    <2>5. \A a : /\ EntriesOK(mapping')
                 /\ DepositSum(mapping', a) = DepositSum(less, a)
                      + (IF a = account THEN depositAmount ELSE 0)
        BY <2>2, <2>3, <2>4, EntryAdds
    <2>6. ASSUME NEW a \in AuthorAccounts
          PROVE  /\ held'[a] \in Nat /\ overwritten'[a] \in Nat
                 /\ held'[a] = DepositSum(mapping', a) + overwritten'[a]
        <3>1. /\ held[a] \in Nat /\ overwritten[a] \in Nat /\ depositAmount \in Nat
              /\ held[a] = DepositSum(mapping, a) + overwritten[a]
            BY DEF DepositsInv
        <3>2. held'[a] = held[a] + (IF a = account THEN depositAmount ELSE 0)
            BY <2>2, <3>1 DEF DepositsInv
        <3>3. overwritten'[a]
                = overwritten[a] + (IF a = old.account THEN old.deposit ELSE 0)
            BY <2>2, <3>1 DEF DepositsInv
        <3> QED
            BY <2>3, <2>4, <2>5, <3>1, <3>2, <3>3
    <2>7. held' \in [AuthorAccounts -> Nat] /\ overwritten' \in [AuthorAccounts -> Nat]
        BY <2>2, <2>6 DEF DepositsInv
    <2> QED
        BY <1>1, <2>5, <2>6, <2>7 DEF DepositsInv
<1> QED
    BY <1>2, <1>3

\* A rotation is an entry that goes and one that comes, of the same account
\* and with the same deposit.
LEMMA UpdateKeepsDeposits ==
    ASSUME DepositsInv, NEW account, NEW old, NEW new,
           UpdateAssociation(account, old, new)
    PROVE  DepositsInv'
<1>1. /\ old \in DOMAIN mapping /\ new \notin DOMAIN mapping
      /\ mapping' = Rotated(old, new) /\ UNCHANGED <<held, depositAmount, overwritten>>
    BY DEF UpdateAssociation, IsOwner, Mapped
<1>2. PICK less, e : /\ less = [x \in DOMAIN mapping \ {old} |-> mapping[x]]
                     /\ e = mapping[old]
    OBVIOUS
<1>3. /\ new \notin DOMAIN less
      /\ mapping' = [x \in DOMAIN less \cup {new} |-> IF x = new THEN e ELSE less[x]]
    BY <1>1, <1>2 DEF Rotated
<1>4. e.deposit \in Nat /\ EntriesOK(mapping)
    BY <1>1, <1>2 DEF DepositsInv, EntriesOK
<1>5. \A a : /\ EntriesOK(less) /\ DepositSum(less, a) \in Nat
             /\ DepositSum(mapping, a) = DepositSum(less, a)
                  + (IF a = e.account THEN e.deposit ELSE 0)
    <2> SUFFICES ASSUME NEW a
                 PROVE  /\ EntriesOK(less) /\ DepositSum(less, a) \in Nat
                        /\ DepositSum(mapping, a) = DepositSum(less, a)
                             + (IF a = e.account THEN e.deposit ELSE 0)
        OBVIOUS
    <2>1. old \in DOMAIN mapping /\ EntriesOK(mapping)
          /\ less = [x \in DOMAIN mapping \ {old} |-> mapping[x]]
        BY <1>1, <1>2, <1>4
    <2>2. /\ EntriesOK(less) /\ DepositSum(less, a) \in Nat
          /\ DepositSum(mapping, a) = DepositSum(less, a)
               + (IF a = mapping[old].account THEN mapping[old].deposit ELSE 0)
        BY <2>1, EntryTakes
    <2> QED
        BY <1>2, <2>2
<1>6. \A a : /\ EntriesOK(mapping')
             /\ DepositSum(mapping', a) = DepositSum(less, a)
                  + (IF a = e.account THEN e.deposit ELSE 0)
    BY <1>3, <1>4, <1>5, EntryAdds
<1> QED
    BY <1>1, <1>5, <1>6 DEF DepositsInv

LEMMA ClearKeepsDeposits ==
    ASSUME DepositsInv, NEW account \in AuthorAccounts, NEW id,
           ClearAssociation(account, id)
    PROVE  DepositsInv'
<1>1. /\ id \in DOMAIN mapping /\ mapping[id].account = account
      /\ mapping' = [x \in DOMAIN mapping \ {id} |-> mapping[x]]
      /\ depositAmount' = depositAmount /\ overwritten' = overwritten
    BY DEF ClearAssociation, IsOwner, Mapped, Restrict
<1>2. PICK n \in Nat : n = mapping[id].deposit
    BY <1>1 DEF DepositsInv, EntriesOK
<1>3. held' = [held EXCEPT ![account] = IF n > @ THEN 0 ELSE @ - n]
    BY <1>2 DEF ClearAssociation, Refund
<1>4. \A a : /\ EntriesOK(mapping') /\ DepositSum(mapping', a) \in Nat
             /\ DepositSum(mapping, a) = DepositSum(mapping', a)
                  + (IF a = account THEN n ELSE 0)
    <2> SUFFICES ASSUME NEW a
                 PROVE  /\ EntriesOK(mapping') /\ DepositSum(mapping', a) \in Nat
                        /\ DepositSum(mapping, a) = DepositSum(mapping', a)
                             + (IF a = account THEN n ELSE 0)
        OBVIOUS
    <2>1. EntriesOK(mapping)
        BY DEF DepositsInv
    <2>2. /\ EntriesOK(mapping') /\ DepositSum(mapping', a) \in Nat
          /\ DepositSum(mapping, a) = DepositSum(mapping', a)
               + (IF a = mapping[id].account THEN mapping[id].deposit ELSE 0)
        BY <1>1, <2>1, EntryTakes
    <2> QED
        BY <1>1, <1>2, <2>2
<1>5. \A a \in AuthorAccounts :
        /\ held'[a] \in Nat
        /\ held'[a] = DepositSum(mapping', a) + overwritten[a]
    <2> SUFFICES ASSUME NEW a \in AuthorAccounts
                 PROVE  /\ held'[a] \in Nat
                        /\ held'[a] = DepositSum(mapping', a) + overwritten[a]
        OBVIOUS
    <2>1. /\ held[a] \in Nat /\ overwritten[a] \in Nat
          /\ held[a] = DepositSum(mapping, a) + overwritten[a]
        BY DEF DepositsInv
    <2>2. held'[a] = IF a = account THEN (IF n > held[a] THEN 0 ELSE held[a] - n)
                     ELSE held[a]
        BY <1>3 DEF DepositsInv
    <2> QED
        BY <1>2, <1>4, <2>1, <2>2
<1>6. held' \in [AuthorAccounts -> Nat]
    BY <1>3, <1>5 DEF DepositsInv
<1> QED
    BY <1>1, <1>4, <1>5, <1>6 DEF DepositsInv

\* What author-mapping holds of an account is what its entries say was taken
\* for them, through rotations and changes of the deposit, and what a genesis
\* that repeats ids took for entries it then replaced.
THEOREM DepositsStayHeld ==
    MappingSpec => []DepositsAreHeld
<1>1. MappingInit => DepositsInv
    <2> SUFFICES ASSUME MappingInit PROVE DepositsInv
        OBVIOUS
    <2>1. DOMAIN mapping = {}
        BY DEF MappingInit
    <2>2. EntriesOK(mapping)
        BY <2>1, FS_EmptySet DEF EntriesOK
    <2>3. \A a : DepositSum(mapping, a) = 0
        BY <2>1, SumOfNothing DEF DepositSum, OwnedBy
    <2> QED
        BY <2>2, <2>3, DepositsAssumption DEF MappingInit, DepositsInv
<1>2. DepositsInv /\ [MappingNext]_mappingVars => DepositsInv'
    <2> SUFFICES ASSUME DepositsInv, [MappingNext]_mappingVars PROVE DepositsInv'
        OBVIOUS
    <2>1. CASE UNCHANGED mappingVars
        BY <2>1 DEF DepositsInv, mappingVars
    <2>2. CASE ChangeDeposit
        BY <2>2, DepositsAssumption DEF DepositsInv, ChangeDeposit
    <2>3. CASE GenesisBuilt
        BY <2>3 DEF DepositsInv, GenesisBuilt
    <2>4. ASSUME NEW a \in AuthorAccounts, NEW id \in AuthorIds, AddAssociation(a, id)
          PROVE  DepositsInv'
        BY <2>4, EnactKeepsDeposits DEF AddAssociation, Mapped
    <2>5. CASE \E a \in AuthorAccounts, id \in AuthorIds :
                 \/ GenesisMapping(id, a) \/ ClearAssociation(a, id)
                 \/ \E new \in AuthorIds : UpdateAssociation(a, id, new)
        BY <2>5, GenesisKeepsDeposits, UpdateKeepsDeposits, ClearKeepsDeposits
    <2> QED
        BY <2>1, <2>2, <2>3, <2>4, <2>5 DEF MappingNext
<1>3. DepositsInv => DepositsAreHeld
    BY DEF DepositsInv, DepositsAreHeld, DepositSum, OwnedBy, EntriesOf
<1> QED
    BY <1>1, <1>2, <1>3, PTL DEF MappingSpec

-----------------------------------------------------------------------------
(* Queues.                                                                 *)

\* A request is put at the end.
LEMMA AppendFacts ==
    ASSUME NEW S, NEW s \in Seq(S), NEW e \in S
    PROVE  /\ Append(s, e) \in Seq(S)
           /\ Len(Append(s, e)) = Len(s) + 1
           /\ DOMAIN Append(s, e) = DOMAIN s \cup {Len(s) + 1}
           /\ Append(s, e)[Len(s) + 1] = e
           /\ \A i \in DOMAIN s : i \in 1..Len(s) /\ Append(s, e)[i] = s[i]
           /\ Range(Append(s, e)) = Range(s) \cup {e}
<1>1. /\ Append(s, e) \in Seq(S)
      /\ Len(Append(s, e)) = Len(s) + 1
      /\ DOMAIN s = 1..Len(s)
      /\ DOMAIN Append(s, e) = 1..(Len(s) + 1)
      /\ Append(s, e)[Len(s) + 1] = e
      /\ \A i \in 1..Len(s) : Append(s, e)[i] = s[i]
      /\ Len(s) \in Nat
  OBVIOUS
<1>2. 1..(Len(s) + 1) = 1..Len(s) \cup {Len(s) + 1}
  BY <1>1
<1> QED
  BY <1>1, <1>2 DEF Range

\* The newest request is taken off a queue without repetitions.
LEMMA PopFacts ==
    ASSUME NEW S, NEW s \in Seq(S), s # <<>>, IsInjective(s)
    PROVE  /\ SubSeq(s, 1, Len(s) - 1) \in Seq(S)
           /\ IsInjective(SubSeq(s, 1, Len(s) - 1))
           /\ Range(SubSeq(s, 1, Len(s) - 1)) = Range(s) \ {Last(s)}
           /\ Last(s) \in Range(s)
<1> DEFINE p == SubSeq(s, 1, Len(s) - 1)
<1>1. /\ Len(s) \in Nat \ {0} /\ DOMAIN s = 1..Len(s)
      /\ p \in Seq(S) /\ DOMAIN p = 1..(Len(s) - 1)
      /\ \A i \in 1..(Len(s) - 1) : p[i] = s[i]
  OBVIOUS
<1>2. Last(s) = s[Len(s)]
  BY DEF Last
<1>3. 1..Len(s) = 1..(Len(s) - 1) \cup {Len(s)} /\ Len(s) \notin 1..(Len(s) - 1)
  BY <1>1
<1>4. \A i, j \in 1..Len(s) : s[i] = s[j] => i = j
  BY <1>1 DEF IsInjective
<1> HIDE DEF p
<1>5. IsInjective(p)
  BY <1>1, <1>3, <1>4 DEF IsInjective
<1>6. Range(p) = {p[i] : i \in 1..(Len(s) - 1)} /\ Range(s) = {s[i] : i \in 1..Len(s)}
  BY <1>1 DEF Range
<1>7. Range(p) = Range(s) \ {s[Len(s)]} /\ s[Len(s)] \in Range(s)
  BY <1>1, <1>3, <1>4, <1>6
<1> QED
  BY <1>1, <1>2, <1>5, <1>7 DEF p

-----------------------------------------------------------------------------
(* The inductive invariant.                                                *)

FundRequest == [user : Users, address : Addresses, at : Nat, start : Nat,
                prevTimestampUser : Nat, prevTimestampAddress : Nat]

Places == {"worker", "asleep", "receipt", "balance"}

FaucetTypeOK ==
    /\ now \in Nat /\ starts \in Nat
    /\ discordUserReceivers \in [UserKeys -> Nat]
    /\ addressReceivers \in [Addresses -> Nat]
    /\ requests \in Seq(FundRequest)
    /\ pendingQueue \in Seq(Nat)
    /\ transferReceipts \in Seq(Nat)
    /\ Range(pendingQueue) \subseteq DOMAIN requests
    /\ Range(transferReceipts) \subseteq DOMAIN requests
    /\ DOMAIN transfers \subseteq DOMAIN requests
    /\ resolver \in [at : Places, n : Nat]
    /\ resolver.at \in {"receipt", "balance"} => resolver.n \in DOMAIN transferReceipts

\* No user's time goes back behind a request of this process.
TimesAreKept ==
    \A i \in DOMAIN requests :
      /\ requests[i].at <= now /\ requests[i].start <= starts
      /\ requests[i].start = starts =>
           requests[i].at <= discordUserReceivers[Id(requests[i].user)]

FaucetInv == FaucetTypeOK /\ TimesAreKept /\ RequestsAreTakenOnce /\ UsersWaitTheirTurn

\* The steps that accept no request and take none from the queue.
QuietStep ==
    \/ WorkerIsIdle \/ WorkerUnknown \/ ReceiptArrives \/ ReportTransfer
    \/ RollBack \/ WakeUp \/ Tick
    \/ \E r \in DOMAIN transfers :
         \/ \E outcome \in {"sent", "unsigned"} : SigningEnds(r, outcome)
         \/ \E outcome \in {"confirmed", "rejected"} : TransferEnds(r, outcome)

LEMMA FaucetInitInv == FaucetInit => FaucetInv
<1> SUFFICES ASSUME FaucetInit PROVE FaucetInv
  OBVIOUS
<1>1. /\ DOMAIN requests = {} /\ DOMAIN pendingQueue = {} /\ DOMAIN transfers = {}
      /\ Range(pendingQueue) = {} /\ Range(transferReceipts) = {}
      /\ requests \in Seq(FundRequest) /\ pendingQueue \in Seq(Nat)
      /\ transferReceipts \in Seq(Nat)
  BY DEF FaucetInit, Range
<1>2. FaucetTypeOK
  BY <1>1, FaucetAssumption DEF FaucetInit, FaucetTypeOK, Turn, Places
<1>3. TimesAreKept /\ UsersWaitTheirTurn
  BY <1>1 DEF TimesAreKept, UsersWaitTheirTurn
<1>4. ReceiptsInOrder
  <2>1. DOMAIN transferReceipts = {}
    BY DEF FaucetInit
  <2> QED
    BY <1>1, <2>1 DEF ReceiptsInOrder, Arrived, IsInjective
<1>5. RequestsAreTakenOnce
  BY <1>1, <1>4 DEF RequestsAreTakenOnce, IsInjective
<1> QED
  BY <1>2, <1>3, <1>5 DEF FaucetInv

-----------------------------------------------------------------------------
(* The steps.                                                              *)

\* The keys of ids and those of names are different.
LEMMA KeysDiffer ==
    ASSUME NEW u \in Users, NEW v \in Users
    PROVE  /\ Id(u) \in UserKeys /\ Name(u) \in UserKeys
           /\ Id(u) # Name(v) /\ (Id(u) = Id(v) => u = v)
BY DEF Id, Name, UserKeys

\* Steps that accept no request and take none from the queue, and leave the
\* times of ids alone.
LEMMA QuietStepKeepsInv ==
    ASSUME FaucetInv, FaucetTypeOK', ReceiptsInOrder',
           UNCHANGED <<starts, requests, pendingQueue>>,
           DOMAIN transfers' = DOMAIN transfers,
           now <= now',
           \A u \in Users : discordUserReceivers'[Id(u)] = discordUserReceivers[Id(u)]
    PROVE  FaucetInv'
<1>1. TimesAreKept'
  <2>1. ASSUME NEW i \in DOMAIN requests
        PROVE  requests[i].user \in Users /\ requests[i].at \in Nat
    <3>1. requests \in Seq(FundRequest)
      BY DEF FaucetInv, FaucetTypeOK
    <3>2. requests[i] \in FundRequest
      BY <3>1
    <3> QED
      BY <3>2 DEF FundRequest
  <2>2. now \in Nat /\ now' \in Nat
    BY DEF FaucetInv, FaucetTypeOK
  <2> QED
    BY <2>1, <2>2 DEF FaucetInv, TimesAreKept
<1>2. RequestsAreTakenOnce'
  BY DEF FaucetInv, RequestsAreTakenOnce
<1>3. UsersWaitTheirTurn'
  BY DEF FaucetInv, UsersWaitTheirTurn
<1> QED
  BY <1>1, <1>2, <1>3 DEF FaucetInv

\* A request is accepted: it is new to the queue, and its user's time shows
\* that no request of its own is within the interval.
LEMMA SendKeepsInv ==
    ASSUME FaucetInv, NEW u \in Users, NEW a \in Addresses, BotActionFaucetSend(u, a)
    PROVE  FaucetInv'
<1>1. PICK r : /\ r = [user |-> u, address |-> a, at |-> now, start |-> starts,
                       prevTimestampUser |-> discordUserReceivers[Id(u)],
                       prevTimestampAddress |-> addressReceivers[a]]
               /\ requests' = Append(requests, r)
  BY DEF BotActionFaucetSend
<1>2. /\ pendingQueue' = Append(pendingQueue, Len(requests) + 1)
      /\ discordUserReceivers' = [discordUserReceivers EXCEPT ![Id(u)] = now]
      /\ addressReceivers' = [addressReceivers EXCEPT ![a] = now]
      /\ now' = now /\ starts' = starts /\ resolver' = resolver
      /\ transferReceipts' = transferReceipts /\ transfers' = transfers
      /\ MayReceive(u, a)
  BY DEF BotActionFaucetSend
<1>3. /\ now \in Nat /\ starts \in Nat /\ Interval \in Nat
      /\ discordUserReceivers \in [UserKeys -> Nat]
      /\ addressReceivers \in [Addresses -> Nat]
      /\ requests \in Seq(FundRequest) /\ pendingQueue \in Seq(Nat)
      /\ Id(u) \in UserKeys
  BY FaucetAssumption, KeysDiffer DEF FaucetInv, FaucetTypeOK
<1> DEFINE n == Len(requests) + 1
<1>4. /\ r \in FundRequest /\ n \in Nat
      /\ r.user = u /\ r.at = now /\ r.start = starts
  BY <1>1, <1>3 DEF FundRequest
<1>5. /\ requests' \in Seq(FundRequest)
      /\ DOMAIN requests' = DOMAIN requests \cup {n}
      /\ requests'[n] = r
      /\ \A i \in DOMAIN requests : i \in 1..Len(requests) /\ requests'[i] = requests[i]
  BY <1>1, <1>3, <1>4, AppendFacts
<1>6. /\ pendingQueue' \in Seq(Nat)
      /\ DOMAIN pendingQueue' = DOMAIN pendingQueue \cup {Len(pendingQueue) + 1}
      /\ pendingQueue'[Len(pendingQueue) + 1] = n
      /\ \A i \in DOMAIN pendingQueue :
           i \in 1..Len(pendingQueue) /\ pendingQueue'[i] = pendingQueue[i]
      /\ Range(pendingQueue') = Range(pendingQueue) \cup {n}
  <2>1. pendingQueue' = Append(pendingQueue, n) /\ n \in Nat /\ pendingQueue \in Seq(Nat)
    BY <1>2, <1>3, <1>4
  <2> HIDE DEF n
  <2> QED
    BY <2>1, AppendFacts
<1>7. n \notin DOMAIN requests
  BY <1>3
<1>8. /\ discordUserReceivers' \in [UserKeys -> Nat]
      /\ addressReceivers' \in [Addresses -> Nat]
      /\ discordUserReceivers'[Id(u)] = now
      /\ \A v \in Users \ {u} : discordUserReceivers'[Id(v)] = discordUserReceivers[Id(v)]
  BY <1>2, <1>3, KeysDiffer
<1>9. \A i \in DOMAIN requests : requests[i] \in FundRequest
  BY <1>3
<1> HIDE DEF n
<1>10. FaucetTypeOK'
  BY <1>2, <1>5, <1>6, <1>8 DEF FaucetInv, FaucetTypeOK
<1>11. TimesAreKept'
  <2>1. ASSUME NEW i \in DOMAIN requests
        PROVE  /\ requests[i].at <= now /\ requests[i].start <= starts
               /\ requests[i].start = starts =>
                    requests[i].at <= discordUserReceivers'[Id(requests[i].user)]
    <3>1. /\ requests[i].at <= now /\ requests[i].start <= starts
          /\ requests[i].start = starts =>
               requests[i].at <= discordUserReceivers[Id(requests[i].user)]
      BY DEF FaucetInv, TimesAreKept
    <3>2. requests[i].user \in Users
      BY <1>9 DEF FundRequest
    <3> QED
      BY <1>8, <3>1, <3>2
  <2>2. /\ r.at <= now /\ r.start <= starts
        /\ r.at <= discordUserReceivers'[Id(r.user)]
    BY <1>3, <1>4, <1>8
  <2> QED
    BY <1>2, <1>5, <2>1, <2>2 DEF TimesAreKept
<1>12. RequestsAreTakenOnce'
  <2>1. n \notin Range(pendingQueue) /\ n \notin DOMAIN transfers
    BY <1>7 DEF FaucetInv, FaucetTypeOK
  <2>2. IsInjective(pendingQueue')
    <3>1. \A i, j \in DOMAIN pendingQueue :
            pendingQueue[i] = pendingQueue[j] => i = j
      BY DEF FaucetInv, RequestsAreTakenOnce, IsInjective
    <3>2. \A i \in DOMAIN pendingQueue : pendingQueue[i] # n
      BY <2>1 DEF Range
    <3> QED
      BY <1>6, <3>1, <3>2 DEF IsInjective
  <2>3. Range(pendingQueue') \cap DOMAIN transfers' = {}
    BY <1>2, <1>6, <2>1 DEF FaucetInv, RequestsAreTakenOnce
  <2>4. {x \in DOMAIN requests' : requests'[x].start = starts'}
          \subseteq Range(pendingQueue') \cup DOMAIN transfers'
    BY <1>2, <1>5, <1>6 DEF FaucetInv, RequestsAreTakenOnce
  <2>5. ReceiptsInOrder'
    BY <1>2 DEF FaucetInv, RequestsAreTakenOnce, ReceiptsInOrder, Arrived
  <2> QED
    BY <2>2, <2>3, <2>4, <2>5 DEF RequestsAreTakenOnce
<1>13. UsersWaitTheirTurn'
  <2>1. ASSUME NEW i \in DOMAIN requests, requests[i].user = u, u \notin NotLimited,
               requests[i].start = starts
        PROVE  now >= requests[i].at + Interval
    <3>1. requests[i].at <= discordUserReceivers[Id(u)]
      BY <2>1 DEF FaucetInv, TimesAreKept
    <3>2. discordUserReceivers[Id(u)] <= now - Interval
      BY <1>2, <2>1 DEF MayReceive
    <3>3. requests[i].at \in Nat /\ discordUserReceivers[Id(u)] \in Nat
      BY <1>3, <1>9 DEF FundRequest
    <3> QED
      BY <1>3, <3>1, <3>2, <3>3
  <2>2. ASSUME NEW i \in DOMAIN requests', NEW j \in DOMAIN requests', i < j,
               requests'[j].user = requests'[i].user,
               requests'[j].user \notin NotLimited,
               requests'[j].start = requests'[i].start
        PROVE  requests'[j].at >= requests'[i].at + Interval
    <3>1. i \in DOMAIN requests
      BY <1>3, <1>5, <1>7, <2>2 DEF n
    <3>2. CASE j = n
      BY <1>4, <1>5, <2>1, <2>2, <3>1, <3>2
    <3>3. CASE j \in DOMAIN requests
      BY <1>5, <2>2, <3>1, <3>3 DEF FaucetInv, UsersWaitTheirTurn
    <3> QED
      BY <1>5, <3>2, <3>3
  <2> QED
    BY <2>2 DEF UsersWaitTheirTurn
<1> QED
  BY <1>10, <1>11, <1>12, <1>13 DEF FaucetInv

\* After a worker comes the next one, sleep, or the first receipt.
LEMMA AfterWorkerFacts ==
    ASSUME NEW receipts \in Seq(Nat), resolver \in [at : Places, n : Nat],
           resolver.at = "worker"
    PROVE  /\ AfterWorker(receipts) \in [at : Places, n : Nat]
           /\ AfterWorker(receipts).at # "balance"
           /\ AfterWorker(receipts).at = "receipt" => AfterWorker(receipts).n = 1
           /\ AfterWorker(receipts).at \in {"receipt", "balance"} =>
                AfterWorker(receipts).n \in DOMAIN receipts
BY DEF AfterWorker, Places, Asleep

\* After a receipt comes the next one, or sleep.
LEMMA AfterReceiptFacts ==
    ASSUME transferReceipts \in Seq(Nat), resolver \in [at : Places, n : Nat]
    PROVE  /\ AfterReceipt \in [at : Places, n : Nat]
           /\ AfterReceipt.at \in {"receipt", "balance"} =>
                AfterReceipt.n \in DOMAIN transferReceipts
           /\ AfterReceipt.at # "balance"
           /\ AfterReceipt.at = "receipt" => AfterReceipt.n = resolver.n + 1
BY DEF AfterReceipt, Places, Asleep

\* A worker takes the newest request and begins its transfer.
LEMMA FundedKeepsInv ==
    ASSUME FaucetInv, WorkerIsFunded
    PROVE  FaucetInv'
<1>1. PICK r :
        /\ r = Last(pendingQueue) /\ pendingQueue # <<>>
        /\ transfers' = [x \in DOMAIN transfers \cup {r} |->
                           IF x = r THEN "signing" ELSE transfers[x]]
        /\ transferReceipts' = Append(transferReceipts, r)
        /\ resolver' = AfterWorker(transferReceipts')
        /\ pendingQueue' = SubSeq(pendingQueue, 1, Len(pendingQueue) - 1)
  BY DEF WorkerIsFunded, Popped
<1>2. /\ now' = now /\ starts' = starts /\ requests' = requests
      /\ discordUserReceivers' = discordUserReceivers
      /\ addressReceivers' = addressReceivers
  BY DEF WorkerIsFunded
<1>3. /\ pendingQueue \in Seq(Nat) /\ IsInjective(pendingQueue)
      /\ transferReceipts \in Seq(Nat)
      /\ Range(pendingQueue) \subseteq DOMAIN requests
      /\ requests \in Seq(FundRequest)
  BY DEF FaucetInv, FaucetTypeOK, RequestsAreTakenOnce
<1>4. /\ pendingQueue' \in Seq(Nat) /\ IsInjective(pendingQueue')
      /\ Range(pendingQueue') = Range(pendingQueue) \ {r}
      /\ r \in Range(pendingQueue)
  BY <1>1, <1>3, PopFacts
<1>5. r \in DOMAIN requests /\ r \in Nat
  BY <1>3, <1>4
<1>6. /\ transferReceipts' \in Seq(Nat)
      /\ DOMAIN transferReceipts' = DOMAIN transferReceipts \cup {Len(transferReceipts) + 1}
      /\ Range(transferReceipts') = Range(transferReceipts) \cup {r}
  <2>1. /\ transferReceipts \in Seq(Nat) /\ r \in Nat
        /\ transferReceipts' = Append(transferReceipts, r)
    BY <1>1, <1>3, <1>5
  <2> QED
    BY <2>1, AppendFacts
<1>7. DOMAIN transfers' = DOMAIN transfers \cup {r}
  BY <1>1
<1>8. resolver' \in [at : Places, n : Nat]
      /\ (resolver'.at \in {"receipt", "balance"} => resolver'.n \in DOMAIN transferReceipts')
  BY <1>1, <1>6, AfterWorkerFacts DEF FaucetInv, FaucetTypeOK, WorkerIsFunded
<1>9. FaucetTypeOK'
  BY <1>2, <1>4, <1>5, <1>6, <1>7, <1>8 DEF FaucetInv, FaucetTypeOK
<1>10. TimesAreKept' /\ UsersWaitTheirTurn'
  BY <1>2 DEF FaucetInv, TimesAreKept, UsersWaitTheirTurn
<1>11. ReceiptsInOrder'
  <2>1. /\ IsInjective(transferReceipts) /\ Range(transferReceipts) \subseteq DOMAIN transfers
        /\ r \notin DOMAIN transfers
    BY <1>4 DEF FaucetInv, RequestsAreTakenOnce, ReceiptsInOrder
  <2>2. r \notin Range(transferReceipts)
    BY <2>1
  <2>3. IsInjective(transferReceipts')
    <3>1. \A i, j \in DOMAIN transferReceipts :
            transferReceipts[i] = transferReceipts[j] => i = j
      BY <2>1 DEF IsInjective
    <3>2. \A i \in DOMAIN transferReceipts :
            /\ i \in 1..Len(transferReceipts)
            /\ transferReceipts'[i] = transferReceipts[i] /\ transferReceipts[i] # r
      BY <1>1, <1>3, <2>2 DEF Range
    <3>3. transferReceipts'[Len(transferReceipts) + 1] = r
      BY <1>1, <1>3
    <3> QED
      BY <1>6, <3>1, <3>2, <3>3 DEF IsInjective
  <2>4. Arrived' = {}
    <3>1. resolver'.at # "balance" /\ (resolver'.at = "receipt" => resolver'.n = 1)
      BY <1>1, <1>6, AfterWorkerFacts DEF FaucetInv, FaucetTypeOK, WorkerIsFunded
    <3>2. \A i \in DOMAIN transferReceipts' : i \in Nat /\ ~(i < 1)
      BY <1>6
    <3> QED
      BY <3>1, <3>2 DEF Arrived
  <2> QED
    BY <1>6, <1>7, <2>1, <2>3, <2>4 DEF ReceiptsInOrder
<1>12. RequestsAreTakenOnce'
  BY <1>2, <1>4, <1>7, <1>11 DEF FaucetInv, RequestsAreTakenOnce
<1> QED
  BY <1>9, <1>10, <1>12 DEF FaucetInv

\* The process starts anew: no request is its own yet.
LEMMA RestartKeepsInv ==
    ASSUME FaucetInv, Restart
    PROVE  FaucetInv'
<1>1. /\ starts \in Nat /\ starts' = starts + 1
      /\ now' = now /\ DOMAIN transfers' = DOMAIN transfers /\ requests' = requests
      /\ requests \in Seq(FundRequest)
  BY DEF FaucetInv, FaucetTypeOK, Restart
<1>2. /\ DOMAIN pendingQueue' = {} /\ Range(pendingQueue') = {}
      /\ DOMAIN transferReceipts' = {}
      /\ Range(transferReceipts') = {}
      /\ pendingQueue' \in Seq(Nat) /\ transferReceipts' \in Seq(Nat)
  BY DEF Restart, Range
<1>3. FaucetTypeOK'
  BY <1>1, <1>2 DEF FaucetInv, FaucetTypeOK, Restart, Turn, Places
<1>4. \A i \in DOMAIN requests : requests[i].start \in Nat /\ requests[i].start <= starts
  <2>1. \A i \in DOMAIN requests : requests[i] \in FundRequest
    BY <1>1
  <2> QED
    BY <2>1 DEF FaucetInv, TimesAreKept, FundRequest
<1>5. \A i \in DOMAIN requests : requests[i].start <= starts' /\ requests[i].start # starts'
  BY <1>1, <1>4
<1>6. TimesAreKept'
  BY <1>1, <1>5 DEF FaucetInv, TimesAreKept
<1>7. RequestsAreTakenOnce'
  <2>1. ReceiptsInOrder'
    BY <1>2 DEF ReceiptsInOrder, Arrived, IsInjective
  <2> QED
    BY <1>1, <1>2, <1>5, <2>1 DEF RequestsAreTakenOnce, IsInjective
<1>8. UsersWaitTheirTurn'
  BY <1>1 DEF FaucetInv, UsersWaitTheirTurn
<1> QED
  BY <1>3, <1>6, <1>7, <1>8 DEF FaucetInv

\* The steps of the resolver that send nothing, the node and the clock keep
\* the types.
LEMMA QuietStepKeepsTypes ==
    ASSUME FaucetInv, QuietStep
    PROVE  /\ FaucetTypeOK'
           /\ UNCHANGED <<starts, requests, pendingQueue>>
           /\ DOMAIN transfers' = DOMAIN transfers
           /\ now <= now'
           /\ \A u \in Users : discordUserReceivers'[Id(u)] = discordUserReceivers[Id(u)]
<1> USE DEF FaucetInv
<1>0. now \in Nat /\ now <= now
  BY DEF FaucetTypeOK
<1>1. CASE WorkerIsIdle
  BY <1>0, <1>1, AfterWorkerFacts DEF FaucetTypeOK, WorkerIsIdle
<1>2. CASE WorkerUnknown
  BY <1>0, <1>2 DEF FaucetTypeOK, WorkerUnknown, Asleep, Places
<1>3. CASE ReceiptArrives
  BY <1>0, <1>3 DEF FaucetTypeOK, ReceiptArrives, Places
<1>4. CASE ReportTransfer
  BY <1>0, <1>4, AfterReceiptFacts DEF FaucetTypeOK, ReportTransfer
<1>5. CASE RollBack
  <2>1. Awaited \in DOMAIN requests
    BY <1>5 DEF FaucetTypeOK, RollBack, Awaited, Range
  <2>2. requests[Awaited] \in FundRequest
    BY <2>1 DEF FaucetTypeOK
  <2>3. PICK r \in FundRequest :
          /\ discordUserReceivers' =
               [discordUserReceivers EXCEPT ![Name(r.user)] = r.prevTimestampUser]
          /\ addressReceivers' =
               [addressReceivers EXCEPT ![r.address] = r.prevTimestampAddress]
    BY <1>5, <2>2 DEF RollBack
  <2>4. /\ discordUserReceivers' \in [UserKeys -> Nat]
        /\ addressReceivers' \in [Addresses -> Nat]
        /\ \A u \in Users : discordUserReceivers'[Id(u)] = discordUserReceivers[Id(u)]
    BY <2>3, KeysDiffer DEF FaucetTypeOK, FundRequest
  <2> QED
    BY <1>0, <1>5, <2>4, AfterReceiptFacts DEF FaucetTypeOK, RollBack
<1>6. CASE WakeUp
  <2>1. Range(<<>>) = {}
    BY DEF Range
  <2> QED
    BY <1>0, <1>6, <2>1 DEF FaucetTypeOK, WakeUp, Turn, Places
<1>7. CASE Tick
  BY <1>0, <1>7 DEF FaucetTypeOK, Tick
<1>8. CASE \E r \in DOMAIN transfers :
             \/ \E outcome \in {"sent", "unsigned"} : SigningEnds(r, outcome)
             \/ \E outcome \in {"confirmed", "rejected"} : TransferEnds(r, outcome)
  BY <1>0, <1>8 DEF FaucetTypeOK, SigningEnds, TransferEnds
<1> QED
  BY <1>1, <1>2, <1>3, <1>4, <1>5, <1>6, <1>7, <1>8 DEF QuietStep

\* A turn only gets past receipts that arrived, and a confirmed transfer stays
\* confirmed.
LEMMA QuietStepKeepsReceipts ==
    ASSUME FaucetInv, QuietStep
    PROVE  ReceiptsInOrder'
<1>0. /\ ReceiptsInOrder
      /\ transferReceipts \in Seq(Nat) /\ resolver \in [at : Places, n : Nat]
      /\ \A i \in DOMAIN transferReceipts :
           i \in Nat /\ i >= 1 /\ transferReceipts[i] \in DOMAIN transfers
  BY DEF FaucetInv, FaucetTypeOK, RequestsAreTakenOnce, ReceiptsInOrder, Range
<1> DEFINE Kept == /\ transferReceipts' = transferReceipts
                   /\ DOMAIN transfers' = DOMAIN transfers
                   /\ \A i \in Arrived' :
                        transfers'[transferReceipts[i]] = "confirmed"
<1>1. Kept => ReceiptsInOrder'
  BY <1>0 DEF ReceiptsInOrder
<1>2. ASSUME UNCHANGED <<transferReceipts, transfers>>, Arrived' \subseteq Arrived
      PROVE  Kept
  BY <1>0, <1>2 DEF ReceiptsInOrder
<1>3. CASE WorkerIsIdle
  <2>1. resolver'.at # "balance" /\ (resolver'.at = "receipt" => resolver'.n = 1)
    BY <1>0, <1>3, AfterWorkerFacts DEF WorkerIsIdle
  <2>2. UNCHANGED <<transferReceipts, transfers>>
    BY <1>3 DEF WorkerIsIdle
  <2>3. \A i \in DOMAIN transferReceipts : ~(i < 1)
    BY <1>0
  <2>4. Arrived' \subseteq Arrived
    BY <2>1, <2>2, <2>3 DEF Arrived
  <2> QED
    BY <1>1, <1>2, <2>2, <2>4
<1>4. CASE WorkerUnknown
  <2>1. UNCHANGED <<transferReceipts, transfers>> /\ Arrived' \subseteq Arrived
    BY <1>4 DEF WorkerUnknown, Asleep, Arrived
  <2> QED
    BY <1>1, <1>2, <2>1
<1>5. CASE ReceiptArrives
  <2>1. /\ UNCHANGED <<transferReceipts, transfers>>
        /\ resolver.at = "receipt" /\ resolver'.at = "balance" /\ resolver'.n = resolver.n
        /\ transfers[transferReceipts[resolver.n]] = "confirmed"
    BY <1>0, <1>5 DEF ReceiptArrives, Awaited
  <2>2. \A i \in Arrived' : i \in Arrived \/ i = resolver.n
    <3>1. \A i \in DOMAIN transferReceipts, n \in Nat : i <= n => i < n \/ i = n
      BY <1>0
    <3> QED
      BY <1>0, <2>1, <3>1 DEF Arrived
  <2>3. Kept
    BY <1>0, <2>1, <2>2 DEF ReceiptsInOrder
  <2> QED
    BY <1>1, <2>3
<1>6. CASE ReportTransfer \/ RollBack
  <2>1. /\ UNCHANGED <<transferReceipts, transfers>>
        /\ resolver.at = "balance" /\ resolver' = AfterReceipt
    BY <1>6 DEF ReportTransfer, RollBack
  <2>2. resolver'.at # "balance" /\ (resolver'.at = "receipt" => resolver'.n = resolver.n + 1)
    BY <1>0, <2>1, AfterReceiptFacts
  <2>3. \A i \in DOMAIN transferReceipts, n \in Nat : i < n + 1 => i <= n
    BY <1>0
  <2>4. Arrived' \subseteq Arrived
    BY <1>0, <2>1, <2>2, <2>3 DEF Arrived
  <2> QED
    BY <1>1, <1>2, <2>1, <2>4
<1>7. CASE WakeUp
  <2>1. transferReceipts' = <<>> /\ DOMAIN transferReceipts' = {}
    BY <1>7 DEF WakeUp
  <2> QED
    BY <2>1 DEF ReceiptsInOrder, Arrived, IsInjective, Range
<1>8. CASE Tick
  <2>1. UNCHANGED <<transferReceipts, transfers>> /\ Arrived' \subseteq Arrived
    BY <1>8 DEF Tick, Arrived
  <2> QED
    BY <1>1, <1>2, <2>1
<1>9. ASSUME NEW r \in DOMAIN transfers, NEW outcome,
             SigningEnds(r, outcome) \/ TransferEnds(r, outcome)
      PROVE  ReceiptsInOrder'
  <2>1. /\ transferReceipts' = transferReceipts /\ resolver' = resolver
        /\ transfers' = [transfers EXCEPT ![r] = outcome]
        /\ transfers[r] # "confirmed"
    BY <1>9 DEF SigningEnds, TransferEnds
  <2>2. Arrived' = Arrived
    BY <2>1 DEF Arrived
  <2>3. ASSUME NEW i \in Arrived
        PROVE  transfers'[transferReceipts[i]] = "confirmed"
    <3>1. /\ transfers[transferReceipts[i]] = "confirmed"
          /\ transferReceipts[i] \in DOMAIN transfers
      BY <1>0 DEF ReceiptsInOrder, Arrived
    <3> QED
      BY <2>1, <3>1
  <2> QED
    BY <1>1, <2>1, <2>2, <2>3
<1> QED
  BY <1>3, <1>4, <1>5, <1>6, <1>7, <1>8, <1>9 DEF QuietStep

-----------------------------------------------------------------------------
LEMMA FaucetInvariant == FaucetSpec => []FaucetInv
<1>1. FaucetInv /\ [FaucetNext]_faucetVars => FaucetInv'
  <2> SUFFICES ASSUME FaucetInv, [FaucetNext]_faucetVars PROVE FaucetInv'
    OBVIOUS
  <2>1. ASSUME NEW u \in Users, NEW a \in Addresses, BotActionFaucetSend(u, a)
        PROVE  FaucetInv'
    BY <2>1, SendKeepsInv
  <2>2. CASE WorkerIsFunded
    BY <2>2, FundedKeepsInv
  <2>3. CASE Restart
    BY <2>3, RestartKeepsInv
  <2>4. CASE QuietStep
    BY <2>4, QuietStepKeepsTypes, QuietStepKeepsReceipts, QuietStepKeepsInv
  <2>5. CASE UNCHANGED faucetVars
    <3>1. FaucetTypeOK' /\ ReceiptsInOrder' /\ now \in Nat /\ now <= now'
      BY <2>5 DEF FaucetInv, FaucetTypeOK, RequestsAreTakenOnce, ReceiptsInOrder, Arrived,
                  faucetVars
    <3> QED
      BY <2>5, <3>1, QuietStepKeepsInv DEF faucetVars
  <2> QED
    BY <2>1, <2>2, <2>3, <2>4, <2>5 DEF FaucetNext, QuietStep
<1> QED
  BY <1>1, FaucetInitInv, PTL DEF FaucetSpec

\* A request the bot accepted waits in the queue until one worker takes it, for
\* one transfer, in whatever order messages, failures and the answers of the
\* node come; the resolver only gets past transfers that were confirmed.
THEOREM RequestsAlwaysTakenOnce == FaucetSpec => []RequestsAreTakenOnce
<1>1. FaucetInv => RequestsAreTakenOnce
  BY DEF FaucetInv
<1> QED
  BY <1>1, FaucetInvariant, PTL

\* No user is served twice within the interval, rollbacks included.
THEOREM UsersAlwaysWait == FaucetSpec => []UsersWaitTheirTurn
<1>1. FaucetInv => UsersWaitTheirTurn
  BY DEF FaucetInv
<1> QED
  BY <1>1, FaucetInvariant, PTL

-----------------------------------------------------------------------------
(* The messages of the relay chain, in and out of maintenance.             *)

LEMMA JoinedNumbers ==
    ASSUME NEW s \in Seq(Nat), NEW t \in Seq(Nat)
    PROVE  /\ s \o t \in Seq(Nat) /\ Len(s \o t) = Len(s) + Len(t)
           /\ \A i \in 1..(Len(s) + Len(t)) :
                (s \o t)[i] = IF i <= Len(s) THEN s[i] ELSE t[i - Len(s)]
           /\ \A u \in Seq(Nat) : (s \o t) \o u = s \o (t \o u)
<1>1. /\ s \o t \in Seq(Nat) /\ Len(s \o t) = Len(s) + Len(t)
      /\ \A i \in 1..(Len(s) + Len(t)) :
           (s \o t)[i] = IF i <= Len(s) THEN s[i] ELSE t[i - Len(s)]
    BY ConcatProperties
<1>2. ASSUME NEW u \in Seq(Nat) PROVE (s \o t) \o u = s \o (t \o u)
    BY ConcatAssociative
<1> QED
    BY <1>1, <1>2

\* A sequence cut in two, and put together again.
LEMMA CutInTwo ==
    ASSUME NEW all \in Seq(Nat), NEW k \in 0..Len(all),
           NEW done, done = SubSeq(all, 1, k),
           NEW left, left = SubSeq(all, Len(done) + 1, Len(all))
    PROVE  /\ done \in Seq(Nat) /\ left \in Seq(Nat)
           /\ done \o left = all
<1>1. Len(all) \in Nat
    BY LenProperties
<1>2. k \in Int /\ 0 <= k /\ k <= Len(all)
    BY <1>1
<1>3. \A i \in 1..Len(all) : all[i] \in Nat
    BY ElementOfSeq
<1>4. SubSeq(all, 1, k) \in Seq(Nat) /\ Len(SubSeq(all, 1, k)) = IF 1 <= k THEN k - 1 + 1 ELSE 0
    <2>1. \A i \in 1..k : all[i] \in Nat
        BY <1>1, <1>2, <1>3
    <2>2. 1 \in Int
        OBVIOUS
    <2> QED
        BY <1>2, <2>1, <2>2, SubSeqProperties
<1>5. Len(done) = k /\ done \in Seq(Nat)
    BY <1>2, <1>4
<1>6. left = SubSeq(all, k + 1, Len(all))
    BY <1>5
<1>7. SubSeq(all, k + 1, Len(all)) \in Seq(Nat)
    <2>1. \A i \in (k + 1)..Len(all) : all[i] \in Nat
        BY <1>1, <1>2, <1>3
    <2>2. k + 1 \in Int /\ Len(all) \in Int
        BY <1>1, <1>2
    <2> QED
        BY <2>1, <2>2, SubSeqProperties
<1>8. SubSeq(all, 1, k) \o SubSeq(all, k + 1, Len(all)) = SubSeq(all, 1, Len(all))
    <2>1. /\ 1 \in 1..(Len(all) + 1) /\ k \in (1 - 1)..Len(all)
          /\ Len(all) \in k..Len(all)
        BY <1>1, <1>2
    <2> QED
        BY <2>1, ConcatAdjacentSubSeq
<1>9. SubSeq(all, 1, Len(all)) = all
    BY SubSeqFull
<1> QED
    BY <1>5, <1>6, <1>7, <1>8, <1>9

\* Inductive: the messages executed and those in the queue are, in this order,
\* all that were sent.
MessagesInv ==
    /\ sent \in Nat /\ queue \in Seq(Nat) /\ executed \in Seq(Nat)
    /\ executed \o queue = [i \in 1..sent |-> i]

\* A call of the handlers, whatever the block can spend and whether or not
\* maintenance mode lets it.
LEMMA HandlersKeepMessages ==
    ASSUME MessagesInv, NEW n \in Nat, NEW weight \in Nat, HandleMessages(n, weight)
    PROVE  /\ MessagesInv'
           /\ maintenanceMode => executed' = executed
<1>1. PICK arrived : arrived = [i \in 1..n |-> sent + i]
    OBVIOUS
<1>2. PICK all : all = queue \o arrived
    OBVIOUS
<1>3. PICK k : k = HandlerLimit(weight)
    OBVIOUS
<1>4. PICK done : done = SubSeq(all, 1, k)
    OBVIOUS
<1>5. /\ weight <= Len(all) /\ sent' = sent + n
      /\ executed' = executed \o done
      /\ queue' = SubSeq(all, Len(done) + 1, Len(all))
    BY <1>1, <1>2, <1>3, <1>4 DEF HandleMessages
<1>6. sent \in Nat /\ queue \in Seq(Nat) /\ executed \in Seq(Nat)
    BY DEF MessagesInv
<1>7. arrived \in Seq(Nat) /\ Len(arrived) = n /\ all \in Seq(Nat)
    <2>1. \A i \in 1..n : sent + i \in Nat
        BY <1>6
    <2>2. arrived \in Seq(Nat) /\ Len(arrived) = n
        BY <1>1, <2>1
    <2> QED
        BY <1>2, <1>6, <2>2, JoinedNumbers
<1>8. k \in 0..Len(all) /\ (maintenanceMode => k = 0)
    <2>1. Len(all) \in Nat
        BY <1>7, LenProperties
    <2> QED
        BY <1>3, <1>5, <2>1 DEF HandlerLimit
<1>9. /\ done \in Seq(Nat) /\ queue' \in Seq(Nat)
      /\ done \o queue' = all
    BY <1>4, <1>5, <1>7, <1>8, CutInTwo
<1>10. executed' \in Seq(Nat) /\ executed' \o queue' = (executed \o queue) \o arrived
    <2>1. executed' \in Seq(Nat)
        BY <1>5, <1>6, <1>9, JoinedNumbers
    <2>2. executed' \o queue' = executed \o (done \o queue')
        <3>1. (executed \o done) \o queue' = executed \o (done \o queue')
            BY <1>6, <1>9, JoinedNumbers
        <3> QED
            BY <1>5, <3>1
    <2>3. executed \o all = (executed \o queue) \o arrived
        BY <1>2, <1>6, <1>7, JoinedNumbers
    <2> QED
        BY <1>9, <2>1, <2>2, <2>3
<1>11. [i \in 1..sent |-> i] \o arrived = [i \in 1..(sent + n) |-> i]
    <2>1. PICK old, new : old = [i \in 1..sent |-> i] /\ new = [i \in 1..(sent + n) |-> i]
        OBVIOUS
    <2>2. /\ old \in Seq(Nat) /\ Len(old) = sent /\ \A i \in 1..sent : old[i] = i
          /\ new \in Seq(Nat) /\ Len(new) = sent + n /\ \A i \in 1..(sent + n) : new[i] = i
        <3>1. sent + n \in Nat
            BY <1>6
        <3> QED
            BY <1>6, <2>1, <3>1
    <2>3. old \o arrived \in Seq(Nat) /\ Len(old \o arrived) = sent + n
        BY <1>7, <2>2, JoinedNumbers
    <2>4. ASSUME NEW i \in 1..(sent + n)
          PROVE  (old \o arrived)[i] = new[i]
        <3>1. (old \o arrived)[i] = IF i <= sent THEN old[i] ELSE arrived[i - sent]
            BY <1>7, <2>2, JoinedNumbers
        <3>2. i > sent => i - sent \in 1..n /\ sent + (i - sent) = i
            BY <1>6
        <3> QED
            BY <1>1, <1>6, <2>2, <3>1, <3>2
    <2>5. old \o arrived = new
        BY <2>2, <2>3, <2>4, SeqEqual
    <2> QED
        BY <2>1, <2>5
<1>12. MessagesInv'
    <2>1. sent' \in Nat
        BY <1>5, <1>6
    <2>2. executed \o queue = [i \in 1..sent |-> i]
        BY DEF MessagesInv
    <2>3. executed' \o queue' = [i \in 1..(sent + n) |-> i]
        BY <1>10, <1>11, <2>2
    <2> QED
        BY <1>5, <1>9, <1>10, <2>1, <2>3 DEF MessagesInv
<1>13. ASSUME maintenanceMode PROVE executed' = executed
    <2>1. done = <<>>
        BY <1>4, <1>8, <1>13
    <2> QED
        BY <1>5, <1>6, <2>1, ConcatEmptySeq
<1> QED
    BY <1>12, <1>13

LEMMA IdleKeepsMessages ==
    ASSUME MessagesInv, OnIdle
    PROVE  /\ MessagesInv'
           /\ ~maintenanceMode
<1>1. /\ sent \in Nat /\ queue \in Seq(Nat) /\ executed \in Seq(Nat)
      /\ queue # <<>> /\ sent' = sent /\ ~maintenanceMode
      /\ executed' = Append(executed, Head(queue)) /\ queue' = Tail(queue)
    BY DEF MessagesInv, OnIdle
<1>2. /\ Head(queue) \in Nat /\ Tail(queue) \in Seq(Nat)
      /\ <<Head(queue)>> \in Seq(Nat)
      /\ queue = <<Head(queue)>> \o Tail(queue)
    <2>1. Head(queue) \in Nat /\ Tail(queue) \in Seq(Nat)
        BY <1>1, HeadTailProperties
    <2>2. Len(queue) \in Nat \ {0}
        BY <1>1, EmptySeq
    <2>3. 1 \in 1..Len(queue) /\ Len(queue) \in 1..Len(queue)
        BY <2>2
    <2>4. SubSeq(queue, 1, Len(queue)) = <<queue[1]>> \o SubSeq(queue, 1 + 1, Len(queue))
        BY <1>1, <2>3, SubSeqRecursiveFirst
    <2>5. SubSeq(queue, 1, Len(queue)) = queue
        BY <1>1, SubSeqFull
    <2>6. Tail(queue) = SubSeq(queue, 2, Len(queue)) /\ Head(queue) = queue[1]
        BY <1>1, TailIsSubSeq
    <2> QED
        BY <2>1, <2>4, <2>5, <2>6
<1>3. executed' = executed \o <<Head(queue)>>
    BY <1>1, <1>2, AppendIsConcat
<1>4. executed' \in Seq(Nat)
    BY <1>1, <1>2, <1>3, JoinedNumbers
<1>5. executed' \o queue' = executed \o queue
    <2>1. (executed \o <<Head(queue)>>) \o Tail(queue)
            = executed \o (<<Head(queue)>> \o Tail(queue))
        BY <1>1, <1>2, JoinedNumbers
    <2> QED
        BY <1>1, <1>2, <1>3, <2>1
<1> QED
    BY <1>1, <1>2, <1>4, <1>5 DEF MessagesInv

\* No step in maintenance mode executes a message, and none is lost or
\* overtaken by it, whatever number of messages arrives and whatever weight
\* the blocks leave for them.
THEOREM MaintenanceHoldsMessages == UpgradeSpec => MessagesWaitForMaintenance
<1> DEFINE Kept == /\ maintenanceMode => executed' = executed
                   /\ executed' \o queue' = [i \in 1..sent' |-> i]
<1>1. UpgradeInit => MessagesInv
    BY DEF UpgradeInit, MessagesInv
<1>2. MessagesInv /\ [UpgradeNext]_runtimeVars => MessagesInv' /\ [Kept]_runtimeVars
    <2> SUFFICES ASSUME MessagesInv, [UpgradeNext]_runtimeVars
                 PROVE  MessagesInv' /\ Kept
        OBVIOUS
    <2>1. CASE UNCHANGED messageVars
        BY <2>1 DEF MessagesInv, messageVars
    <2>2. CASE \E n \in 0..MaxMessages, weight \in 0..MaxMessages : HandleMessages(n, weight)
        <3>1. PICK n \in Nat, weight \in Nat : HandleMessages(n, weight)
            BY <2>2, MessagesAssumption
        <3>2. MessagesInv' /\ (maintenanceMode => executed' = executed)
            BY <3>1, HandlersKeepMessages
        <3> QED
            BY <3>2 DEF MessagesInv
    <2>3. CASE OnIdle
        <3>1. MessagesInv' /\ ~maintenanceMode
            BY <2>3, IdleKeepsMessages
        <3> QED
            BY <3>1 DEF MessagesInv
    <2> QED
        BY <2>1, <2>2, <2>3 DEF UpgradeNext, OnRuntimeUpgrade, BuildGenesis,
           EnterMaintenanceMode, ResumeNormalOperation, runtimeVars
<1> QED
    BY <1>1, <1>2, PTL DEF UpgradeSpec, MessagesWaitForMaintenance

-----------------------------------------------------------------------------
(* The list of the assets in which fees may be paid.                       *)

Rising(s) == \A i, j \in DOMAIN s : i < j => s[i] < s[j]

\* One element more than a rising list, or one less.
LEMMA OneMoreRising ==
    ASSUME NEW s \in Seq(Nat), NEW t \in Seq(Nat), NEW p, OneMore(t, p, s)
    PROVE  /\ Range(t) = Range(s) \cup {t[p]}
           /\ Rising(t) => Rising(s) /\ Range(s) = Range(t) \ {t[p]}
           /\ /\ Rising(s)
              /\ \A j \in 1..Len(s) : IF j < p THEN s[j] < t[p] ELSE t[p] < s[j]
              => Rising(t)
<1>1. /\ DOMAIN s = 1..Len(s) /\ DOMAIN t = 1..(Len(s) + 1) /\ Len(s) \in Nat
      /\ p \in 1..(Len(s) + 1)
      /\ \A j \in 1..Len(s) : s[j] = t[Past(p, j)]
    BY LenProperties DEF OneMore
<1>2. /\ \A j \in 1..Len(s) : Past(p, j) \in (1..(Len(s) + 1)) \ {p}
      /\ \A i, j \in 1..Len(s) : i < j <=> Past(p, i) < Past(p, j)
      /\ \A k \in (1..(Len(s) + 1)) \ {p} : \E j \in 1..Len(s) : k = Past(p, j)
    BY <1>1, PastProperties
<1>3. /\ \A i \in 1..Len(s) : s[i] \in Nat
      /\ \A i \in 1..(Len(s) + 1) : t[i] \in Nat
    <2>1. \A i \in 1..Len(s) : s[i] \in Nat
        BY ElementOfSeq
    <2>2. \A i \in 1..Len(t) : t[i] \in Nat
        BY ElementOfSeq
    <2> QED
        BY <2>1, <2>2 DEF OneMore
<1>4. Range(t) = Range(s) \cup {t[p]}
    BY OneMoreRange
<1>5. ASSUME Rising(t)
      PROVE  Rising(s) /\ Range(s) = Range(t) \ {t[p]}
    <2>1. Rising(s)
        BY <1>1, <1>2, <1>5 DEF Rising
    <2>2. ASSUME NEW i \in 1..(Len(s) + 1), NEW j \in 1..(Len(s) + 1), i # j
          PROVE  t[i] # t[j]
        <3>1. t[i] \in Nat /\ t[j] \in Nat /\ i \in DOMAIN t /\ j \in DOMAIN t
            BY <1>1, <1>3
        <3>2. i < j \/ j < i
            BY <1>1, <2>2
        <3>3. (i < j => t[i] < t[j]) /\ (j < i => t[j] < t[i])
            BY <1>5, <3>1 DEF Rising
        <3> QED
            BY <3>1, <3>2, <3>3
    <2>3. t[p] \notin Range(s)
        BY <1>1, <1>2, <2>2 DEF Range
    <2> QED
        BY <1>4, <2>1, <2>3
<1>6. ASSUME Rising(s),
             \A j \in 1..Len(s) : IF j < p THEN s[j] < t[p] ELSE t[p] < s[j],
             NEW k \in 1..(Len(s) + 1), NEW l \in 1..(Len(s) + 1), k < l
      PROVE  t[k] < t[l]
    <2>1. CASE k # p /\ l # p
        <3>1. PICK i \in 1..Len(s) : k = Past(p, i)
            BY <1>2, <2>1
        <3>2. PICK j \in 1..Len(s) : l = Past(p, j)
            BY <1>2, <2>1
        <3>3. i < j
            BY <1>2, <1>6, <3>1, <3>2
        <3> QED
            BY <1>1, <1>6, <3>1, <3>2, <3>3 DEF Rising
    <2>2. CASE k = p
        <3>1. PICK j \in 1..Len(s) : l = Past(p, j)
            BY <1>2, <1>6, <2>2
        <3>2. ~ (j < p)
            BY <1>1, <1>6, <2>2, <3>1 DEF Past
        <3> QED
            BY <1>1, <1>6, <2>2, <3>1, <3>2
    <2>3. CASE l = p
        <3>1. PICK i \in 1..Len(s) : k = Past(p, i)
            BY <1>2, <1>6, <2>3
        <3>2. i < p
            BY <1>1, <1>6, <2>3, <3>1 DEF Past
        <3> QED
            BY <1>1, <1>6, <2>3, <3>1, <3>2
    <2> QED
        BY <2>1, <2>2, <2>3
<1>7. ASSUME Rising(s),
             \A j \in 1..Len(s) : IF j < p THEN s[j] < t[p] ELSE t[p] < s[j]
      PROVE  Rising(t)
    BY <1>1, <1>6, <1>7 DEF Rising
<1> QED
    BY <1>4, <1>5, <1>7

\* In a rising list the binary search finds what is there, and otherwise the
\* place between the smaller and the larger ones.
LEMMA SearchFinds ==
    ASSUME NEW s \in Seq(Nat), Rising(s), NEW type \in Nat
    PROVE  /\ Place(s, type) \in 1..(Len(s) + 1)
           /\ \A j \in 1..Len(s) : s[j] < type <=> j < Place(s, type)
           /\ Found(s, type) <=> type \in Range(s)
<1>1. PICK n \in Nat : n = Len(s)
    BY LenProperties
<1>2. /\ DOMAIN s = 1..n /\ \A i \in 1..n : s[i] \in Nat
    BY <1>1, ElementOfSeq, LenProperties
<1>3. PICK A : A = {i \in DOMAIN s : s[i] < type}
    OBVIOUS
<1>4. /\ A \in SUBSET ((1..(n + 1)) \ {n + 1}) /\ A \in SUBSET (1..n)
      /\ n + 1 \in 1..(n + 1)
      /\ \A i \in A, j \in (1..(n + 1)) \ {n + 1} : j < i => j \in A
    BY <1>2, <1>3 DEF Rising
<1>5. \A j \in 1..n : Past(n + 1, j) \in A <=> j <= Cardinality(A)
    BY <1>4, InitialPart
<1>6. \A j \in 1..n : j \in A <=> j <= Cardinality(A)
    BY <1>5 DEF Past
<1>7. Cardinality(A) \in Nat /\ Cardinality(A) <= n
    <2>1. Cardinality(A) \in Nat
        BY <1>4, CountType
    <2>2. IsFiniteSet(1..n) /\ Cardinality(1..n) = n
        BY PositionsCounted
    <2>3. Cardinality(A) <= Cardinality(1..n)
        BY <1>4, <2>2, FS_Subset
    <2> QED
        BY <2>1, <2>2, <2>3
<1>8. Place(s, type) = Cardinality(A) + 1
    BY <1>3 DEF Place
<1>9. PICK p \in 1..(n + 1) : p = Place(s, type)
    BY <1>7, <1>8
<1>10. \A j \in 1..n : s[j] < type <=> j < p
    BY <1>2, <1>3, <1>6, <1>7, <1>8, <1>9
<1>11. ASSUME type \in Range(s) PROVE p <= n /\ s[p] = type
    <2>1. PICK k \in 1..n : s[k] = type
        BY <1>2, <1>11 DEF Range
    <2>2. ~ (k < p)
        BY <1>10, <2>1
    <2>3. p <= n /\ p \in 1..n
        BY <2>2
    <2>4. ~ (s[p] < type)
        BY <1>10, <2>3
    <2>5. ~ (p < k)
        <3>1. p < k => s[p] < s[k]
            BY <1>2, <2>3 DEF Rising
        <3> QED
            BY <2>1, <2>4, <3>1
    <2>6. p = k
        BY <2>2, <2>5
    <2> QED
        BY <2>1, <2>3, <2>6
<1>12. ASSUME p <= n, s[p] = type PROVE type \in Range(s)
    BY <1>2, <1>12 DEF Range
<1>13. Found(s, type) <=> p <= n /\ s[p] = type
    BY <1>1, <1>9 DEF Found
<1> QED
    BY <1>1, <1>9, <1>10, <1>11, <1>12, <1>13

LEMMA IncludeAdds ==
    ASSUME NEW s \in Seq(Nat), Rising(s), NEW type \in Nat
    PROVE  /\ Include(s, type) \in Seq(Nat) /\ Rising(Include(s, type))
           /\ Range(Include(s, type)) = Range(s) \cup {type}
<1>1. PICK p : p = Place(s, type)
    OBVIOUS
<1>2. /\ p \in 1..(Len(s) + 1)
      /\ \A j \in 1..Len(s) : s[j] < type <=> j < p
      /\ Found(s, type) <=> type \in Range(s)
    BY <1>1, SearchFinds
<1>3. CASE Found(s, type)
    BY <1>2, <1>3 DEF Include
<1>4. CASE ~ Found(s, type)
    <2>1. PICK t : t = InsertAt(s, p, type)
        OBVIOUS
    <2>2. t \in Seq(Nat)
        BY <1>2, <2>1, InsertAtType
    <2>3. OneMore(t, p, s) /\ t[p] = type
        BY <1>2, <2>1, InsertAtOneMore
    <2>4. ASSUME NEW j \in 1..Len(s)
          PROVE  IF j < p THEN s[j] < t[p] ELSE t[p] < s[j]
        <3>1. s[j] \in Nat
            BY ElementOfSeq
        <3>2. s[j] # type
            <4>1. j \in DOMAIN s
                BY LenProperties
            <4> QED
                BY <1>2, <1>4, <4>1 DEF Range
        <3>3. s[j] < type <=> j < p
            BY <1>2
        <3> QED
            BY <2>3, <3>1, <3>2, <3>3
    <2>5. Rising(t) /\ Range(t) = Range(s) \cup {t[p]}
        BY <2>2, <2>3, <2>4, OneMoreRising
    <2>6. Include(s, type) = t
        BY <1>1, <1>4, <2>1 DEF Include
    <2> QED
        BY <2>2, <2>3, <2>5, <2>6
<1> QED
    BY <1>3, <1>4

LEMMA ExcludeTakes ==
    ASSUME NEW s \in Seq(Nat), Rising(s), NEW type \in Nat
    PROVE  /\ Exclude(s, type) \in Seq(Nat) /\ Rising(Exclude(s, type))
           /\ Range(Exclude(s, type)) = Range(s) \ {type}
<1>1. PICK p : p = Place(s, type)
    OBVIOUS
<1>2. /\ p \in 1..(Len(s) + 1)
      /\ Found(s, type) <=> type \in Range(s)
    BY <1>1, SearchFinds
<1>3. CASE ~ Found(s, type)
    BY <1>2, <1>3 DEF Exclude
<1>4. CASE Found(s, type)
    <2>1. PICK t : t = RemoveAt(s, p)
        OBVIOUS
    <2>2. p \in 1..Len(s) /\ s[p] = type /\ DOMAIN s = 1..Len(s)
        <3>1. p <= Len(s) /\ s[p] = type
            BY <1>1, <1>4 DEF Found
        <3>2. Len(s) \in Nat /\ DOMAIN s = 1..Len(s)
            BY LenProperties
        <3> QED
            BY <1>2, <3>1, <3>2
    <2>3. t \in Seq(Nat)
        BY <2>1, <2>2, RemoveAtType
    <2>4. OneMore(s, p, t)
        BY <2>1, <2>2, RemoveAtOneMore
    <2>5. Rising(t) /\ Range(t) = Range(s) \ {s[p]}
        BY <2>3, <2>4, OneMoreRising
    <2>6. Exclude(s, type) = t
        BY <1>1, <1>4, <2>1 DEF Exclude
    <2> QED
        BY <2>2, <2>3, <2>5, <2>6
<1> QED
    BY <1>3, <1>4

FeesOK ==
    /\ supported \in Seq(Nat) /\ Rising(supported)
    /\ Range(supported) = DOMAIN unitsPerSecond
    /\ DOMAIN unitsPerSecond \subseteq Range(assetIdType)
    /\ \A id \in DOMAIN assetIdType : assetIdType[id] \in Nat

\* Inductive: a price is only set for a type with a reverse entry, which is
\* right.
FeeInv == ReverseEntriesAreRight /\ FeesOK

LEMMA WithAndLess ==
    ASSUME NEW f, NEW k, NEW v
    PROVE  /\ DOMAIN With(f, k, v) = DOMAIN f \cup {k}
           /\ With(f, k, v)[k] = v
           /\ \A x \in DOMAIN f \ {k} : With(f, k, v)[x] = f[x]
           /\ DOMAIN Less(f, k) = DOMAIN f \ {k}
           /\ \A x \in DOMAIN f \ {k} : Less(f, k)[x] = f[x]
    BY DEF With, Less, Restrict

LEMMA RegisterKeepsFees ==
    ASSUME FeeInv, NEW type \in Nat, RegisterAsset(type)
    PROVE  FeesOK'
<1>1. PICK id : /\ id \notin DOMAIN assetIdType
                /\ assetIdType' = With(assetIdType, id, type)
                /\ unitsPerSecond' = unitsPerSecond /\ supported' = supported
    BY DEF RegisterAsset
<1>2. /\ DOMAIN assetIdType' = DOMAIN assetIdType \cup {id}
      /\ assetIdType'[id] = type
      /\ \A x \in DOMAIN assetIdType : assetIdType'[x] = assetIdType[x]
    BY <1>1 DEF With
<1>3. Range(assetIdType) \subseteq Range(assetIdType')
    BY <1>2 DEF Range
<1>4. \A x \in DOMAIN assetIdType' : assetIdType'[x] \in Nat
    BY <1>2 DEF FeeInv, FeesOK
<1> QED
    BY <1>1, <1>3, <1>4 DEF FeeInv, FeesOK

LEMMA SetUnitsKeepsFees ==
    ASSUME FeeInv, NEW type \in Nat, NEW units, NEW hint,
           SetAssetUnitsPerSecond(type, units, hint)
    PROVE  FeesOK'
<1>1. /\ type \in DOMAIN assetTypeId /\ assetIdType' = assetIdType
      /\ supported' = Include(supported, type)
      /\ unitsPerSecond' = With(unitsPerSecond, type, units)
    BY DEF SetAssetUnitsPerSecond
<1>2. /\ supported' \in Seq(Nat) /\ Rising(supported')
      /\ Range(supported') = Range(supported) \cup {type}
    BY <1>1, IncludeAdds DEF FeeInv, FeesOK
<1>3. DOMAIN unitsPerSecond' = DOMAIN unitsPerSecond \cup {type}
    BY <1>1, WithAndLess
<1>4. type \in Range(assetIdType)
    BY <1>1 DEF FeeInv, FeesOK, ReverseEntriesAreRight, Range
<1> QED
    BY <1>1, <1>2, <1>3, <1>4 DEF FeeInv, FeesOK

LEMMA RemoveSupportedKeepsFees ==
    ASSUME FeeInv, NEW type \in Nat, NEW hint, RemoveSupportedAsset(type, hint)
    PROVE  FeesOK'
<1>1. /\ assetIdType' = assetIdType
      /\ supported' = Exclude(supported, type)
      /\ unitsPerSecond' = Less(unitsPerSecond, type)
    BY DEF RemoveSupportedAsset
<1>2. /\ supported' \in Seq(Nat) /\ Rising(supported')
      /\ Range(supported') = Range(supported) \ {type}
    BY <1>1, ExcludeTakes DEF FeeInv, FeesOK
<1>3. DOMAIN unitsPerSecond' = DOMAIN unitsPerSecond \ {type}
    BY <1>1, WithAndLess
<1> QED
    BY <1>1, <1>2, <1>3 DEF FeeInv, FeesOK

\* What is priced besides the type that goes stands for another asset.
LEMMA OtherTypesStay ==
    ASSUME NEW f, NEW id \in DOMAIN f, NEW g, DOMAIN f \ {id} \subseteq DOMAIN g,
           \A x \in DOMAIN f \ {id} : g[x] = f[x]
    PROVE  Range(f) \ {f[id]} \subseteq Range(g)
    BY DEF Range

LEMMA RemoveExistingKeepsFees ==
    ASSUME FeeInv, NEW id, NEW hint, RemoveExistingAssetType(id, hint)
    PROVE  FeesOK'
<1>1. PICK type : type = assetIdType[id]
    OBVIOUS
<1>2. /\ id \in DOMAIN assetIdType
      /\ assetIdType' = Less(assetIdType, id)
      /\ supported' = Exclude(supported, type)
      /\ unitsPerSecond' = Less(unitsPerSecond, type)
    BY <1>1 DEF RemoveExistingAssetType
<1>3. /\ DOMAIN assetIdType' = DOMAIN assetIdType \ {id}
      /\ \A x \in DOMAIN assetIdType \ {id} : assetIdType'[x] = assetIdType[x]
    BY <1>2 DEF With, Less, Restrict
<1>4. Range(assetIdType) \ {type} \subseteq Range(assetIdType')
    <2>1. DOMAIN assetIdType \ {id} \subseteq DOMAIN assetIdType'
        BY <1>3
    <2> QED
        BY <1>1, <1>2, <1>3, <2>1, OtherTypesStay
<1>5. DOMAIN unitsPerSecond' = DOMAIN unitsPerSecond \ {type}
    BY <1>2, WithAndLess
<1>6. /\ supported' \in Seq(Nat) /\ Rising(supported')
      /\ Range(supported') = Range(supported) \ {type}
    <2>1. type \in Nat
        BY <1>1, <1>2 DEF FeeInv, FeesOK
    <2> QED
        BY <1>2, <2>1, ExcludeTakes DEF FeeInv, FeesOK
<1> QED
    BY <1>2, <1>4, <1>5, <1>3, <1>6 DEF FeeInv, FeesOK

\* The price moves with the asset, from the list entry of the old type to that
\* of the new one, which may be the same.
LEMMA ChangeKeepsFees ==
    ASSUME FeeInv, NEW id, NEW new \in Nat, NEW hint,
           ChangeExistingAssetType(id, new, hint)
    PROVE  FeesOK'
<1>1. PICK old : old = assetIdType[id]
    OBVIOUS
<1>2. /\ id \in DOMAIN assetIdType
      /\ assetIdType' = With(assetIdType, id, new)
      /\ IF old \in DOMAIN unitsPerSecond
         THEN /\ supported' = Include(Exclude(supported, old), new)
              /\ unitsPerSecond' =
                   With(Less(unitsPerSecond, old), new, unitsPerSecond[old])
         ELSE UNCHANGED <<supported, unitsPerSecond>>
    BY <1>1 DEF ChangeExistingAssetType
<1>3. /\ DOMAIN assetIdType' = DOMAIN assetIdType
      /\ assetIdType'[id] = new
      /\ \A x \in DOMAIN assetIdType \ {id} : assetIdType'[x] = assetIdType[x]
    BY <1>2 DEF With, Less, Restrict
<1>4. old \in Nat
    BY <1>1, <1>2 DEF FeeInv, FeesOK
<1>5. \A x \in DOMAIN assetIdType' : assetIdType'[x] \in Nat
    BY <1>3 DEF FeeInv, FeesOK
<1>6. Range(assetIdType) \ {old} \subseteq Range(assetIdType') /\ new \in Range(assetIdType')
    <2>1. DOMAIN assetIdType \ {id} \subseteq DOMAIN assetIdType'
        BY <1>3
    <2>2. Range(assetIdType) \ {old} \subseteq Range(assetIdType')
        BY <1>1, <1>2, <1>3, <2>1, OtherTypesStay
    <2>3. new \in Range(assetIdType')
        BY <1>2, <1>3 DEF Range
    <2> QED
        BY <2>2, <2>3
<1>7. CASE old \in DOMAIN unitsPerSecond
    <2>1. PICK less : less = Exclude(supported, old)
        OBVIOUS
    <2>2. less \in Seq(Nat) /\ Rising(less) /\ Range(less) = Range(supported) \ {old}
        BY <1>4, <2>1, ExcludeTakes DEF FeeInv, FeesOK
    <2>3. supported' = Include(less, new)
        BY <1>2, <1>7, <2>1
    <2>4. /\ supported' \in Seq(Nat) /\ Rising(supported')
          /\ Range(supported') = Range(less) \cup {new}
        BY <2>2, <2>3, IncludeAdds
    <2>5. DOMAIN unitsPerSecond' = (DOMAIN unitsPerSecond \ {old}) \cup {new}
        <3>1. DOMAIN Less(unitsPerSecond, old) = DOMAIN unitsPerSecond \ {old}
            BY WithAndLess
        <3>2. unitsPerSecond' = With(Less(unitsPerSecond, old), new, unitsPerSecond[old])
            BY <1>2, <1>7
        <3>3. DOMAIN unitsPerSecond' = DOMAIN Less(unitsPerSecond, old) \cup {new}
            BY <3>2, WithAndLess
        <3> QED
            BY <3>1, <3>3
    <2>6. DOMAIN unitsPerSecond' \subseteq Range(assetIdType')
        BY <1>6, <2>5 DEF FeeInv, FeesOK
    <2> QED
        BY <1>5, <2>2, <2>4, <2>5, <2>6 DEF FeeInv, FeesOK
<1>8. CASE old \notin DOMAIN unitsPerSecond
    <2>1. supported' = supported /\ unitsPerSecond' = unitsPerSecond
        BY <1>2, <1>8
    <2>2. DOMAIN unitsPerSecond \subseteq Range(assetIdType')
        BY <1>6, <1>8 DEF FeeInv, FeesOK
    <2> QED
        BY <1>5, <2>1, <2>2 DEF FeeInv, FeesOK
<1> QED
    BY <1>7, <1>8

\* Fees are accepted in exactly the types that have a price, all of which stand
\* for some asset, and the list that the calls search stays strictly sorted,
\* whatever the types and the order of the calls.
THEOREM FeeTypesStayPriced == AssetsSpec => []FeeTypesArePriced
<1>1. AssetsInit => FeeInv
    <2> SUFFICES ASSUME AssetsInit PROVE FeeInv
        OBVIOUS
    <2>1. /\ assetIdType = <<>> /\ assetTypeId = <<>> /\ unitsPerSecond = <<>>
          /\ supported = <<>>
        BY DEF AssetsInit
    <2>2. DOMAIN <<>> = {} /\ Range(<<>>) = {}
        BY DEF Range
    <2>3. ReverseEntriesAreRight
        BY <2>1, <2>2 DEF ReverseEntriesAreRight
    <2>4. FeesOK
        BY <2>1, <2>2 DEF FeesOK, Rising
    <2> QED
        BY <2>3, <2>4 DEF FeeInv
<1>2. FeeInv /\ [AssetsNext]_assetVars => FeeInv'
    <2> SUFFICES ASSUME FeeInv, [AssetsNext]_assetVars PROVE FeeInv'
        OBVIOUS
    <2>1. CASE UNCHANGED assetVars
        BY <2>1 DEF FeeInv, FeesOK, ReverseEntriesAreRight, assetVars
    <2>2. CASE AssetsNext
        <3>1. AssetTypes \subseteq Nat /\ ReverseEntriesAreRight
            BY AssetsAssumption DEF FeeInv
        <3>2. CASE \E type \in AssetTypes : RegisterAsset(type)
            BY <3>1, <3>2, RegisterKeepsFees, RegisterKeepsReverse DEF FeeInv
        <3>3. CASE \E type \in AssetTypes, units \in Units, hint \in Hints :
                     SetAssetUnitsPerSecond(type, units, hint)
            <4>1. FeesOK'
                BY <3>1, <3>3, SetUnitsKeepsFees
            <4>2. ReverseEntriesAreRight'
                BY <3>1, <3>3 DEF SetAssetUnitsPerSecond, ReverseEntriesAreRight
            <4> QED
                BY <4>1, <4>2 DEF FeeInv
        <3>4. CASE \E type \in AssetTypes, hint \in Hints : RemoveSupportedAsset(type, hint)
            <4>1. FeesOK'
                BY <3>1, <3>4, RemoveSupportedKeepsFees
            <4>2. ReverseEntriesAreRight'
                BY <3>1, <3>4 DEF RemoveSupportedAsset, ReverseEntriesAreRight
            <4> QED
                BY <4>1, <4>2 DEF FeeInv
        <3>5. CASE \E type \in AssetTypes, hint \in Hints :
                     RemoveExistingAssetType(IdOf(type), hint)
            BY <3>1, <3>5, RemoveExistingKeepsFees, RemoveKeepsReverse DEF FeeInv
        <3>6. CASE \E type \in AssetTypes, hint \in Hints, new \in AssetTypes :
                     ChangeExistingAssetType(IdOf(type), new, hint)
            BY <3>1, <3>6, ChangeKeepsFees, ChangeKeepsReverse DEF FeeInv
        <3> QED
            BY <2>2, <3>2, <3>3, <3>4, <3>5, <3>6 DEF AssetsNext
    <2> QED
        BY <2>1, <2>2
<1>3. FeeInv => FeeTypesArePriced
    BY DEF FeeInv, FeesOK, FeeTypesArePriced, Rising
<1> QED
    BY <1>1, <1>2, <1>3, PTL DEF AssetsSpec

-----------------------------------------------------------------------------
(* The order algorithms of a delegation list.                              *)

\* Entry j belongs ahead of entry i in the stable sort.
SortsAhead(s, j, i) ==
    \/ Amount(s, j) > Amount(s, i)
    \/ Amount(s, j) = Amount(s, i) /\ j < i

\* When every entry of s stands at place h[i] of t, and those places are in
\* the order of the sort, then t is the sorted list.
LEMMA SortedByPlaces ==
    ASSUME NEW s \in Seq(Bond), NEW t \in Seq(Bond), NEW n \in Nat,
           Len(s) = n, Len(t) = n, NEW h \in [1 .. n -> 1 .. n],
           \A i, j \in 1 .. n : h[i] = h[j] => i = j,
           \A k \in 1 .. n : \E i \in 1 .. n : h[i] = k,
           \A i \in 1 .. n : t[h[i]] = s[i],
           \A i, j \in 1 .. n : SortsAhead(s, j, i) <=> h[j] < h[i]
    PROVE  StableSort(s) = t
<1>1. DOMAIN s = 1 .. n /\ DOMAIN t = 1 .. n
    BY LenProperties
<1>2. ASSUME NEW i \in 1 .. n
      PROVE  RankInSort(s, i) = h[i]
    <2> DEFINE B == { j \in 1 .. n : SortsAhead(s, j, i) }
               g == [j \in B |-> h[j]]
    <2>1. h[i] - 1 \in Nat /\ h[i] \in 1 .. n
        OBVIOUS
    <2>0. \A a \in 1 .. n, b \in 1 .. n : b \in 1 .. a - 1 <=> b < a
        OBVIOUS
    <2>2. g \in Bijection(B, 1 .. h[i] - 1)
        <3>1. \A j \in B : h[j] \in 1 .. h[i] - 1
            <4>1. \A j \in B : h[j] \in 1 .. n /\ h[j] < h[i]
                OBVIOUS
            <4> HIDE DEF B
            <4> QED
                BY <2>0, <2>1, <4>1
        <3>2. g \in [B -> 1 .. h[i] - 1]
            BY <3>1
        <3>3. ASSUME NEW k \in 1 .. h[i] - 1
              PROVE  \E j \in B : g[j] = k
            <4>1. k \in 1 .. n /\ k < h[i]
                <5>1. \A a \in 1 .. n : \A b \in 1 .. a - 1 : b \in 1 .. n /\ b < a
                    OBVIOUS
                <5> QED
                    BY <2>1, <5>1
            <4>2. PICK j \in 1 .. n : h[j] = k
                BY <4>1
            <4> QED
                BY <4>1, <4>2
        <3>4. \A a, b \in B : g[a] = g[b] => a = b
            OBVIOUS
        <3> HIDE DEF g, B
        <3>5. g \in Injection(B, 1 .. h[i] - 1)
            BY <3>2, <3>4 DEF Injection, IsInjective
        <3>6. g \in Surjection(B, 1 .. h[i] - 1)
            BY <3>2, <3>3 DEF Surjection
        <3> QED
            BY <3>5, <3>6 DEF Bijection
    <2>3. IsFiniteSet(B)
        <3>1. IsFiniteSet(1 .. n)
            BY PositionsCounted
        <3> QED
            BY <3>1, FS_Subset
    <2>4. ExistsBijection(B, 1 .. h[i] - 1)
        <3> HIDE DEF g, B
        <3> QED
            BY <2>2 DEF ExistsBijection
    <2>5. Cardinality(B) = h[i] - 1
        <3>1. Cardinality(1 .. h[i] - 1) = h[i] - 1
            <4> DEFINE m == h[i] - 1
            <4>1. m \in Nat
                BY <2>1
            <4> HIDE DEF m
            <4>2. Cardinality(1 .. m) = m
                BY <4>1, PositionsCounted
            <4> QED
                BY <4>2 DEF m
        <3> HIDE DEF g, B
        <3>2. Cardinality(1 .. h[i] - 1) = Cardinality(B)
            BY <2>3, <2>4, FS_Bijection
        <3> QED
            BY <3>1, <3>2
    <2>6. RankInSort(s, i) = 1 + Cardinality(B)
        BY <1>1 DEF RankInSort, SortsAhead
    <2> HIDE DEF B
    <2> QED
        BY <2>1, <2>5, <2>6
<1>3. ASSUME NEW k \in 1 .. n
      PROVE  s[CHOOSE i \in DOMAIN s : RankInSort(s, i) = k] = t[k]
    <2> DEFINE c == CHOOSE i \in 1 .. n : RankInSort(s, i) = k
    <2>1. \E i \in 1 .. n : RankInSort(s, i) = k
        BY <1>2
    <2>2. c \in 1 .. n /\ RankInSort(s, c) = k
        BY <2>1
    <2> HIDE DEF c
    <2>3. h[c] = k
        BY <1>2, <2>2
    <2>4. s[c] = t[k]
        BY <2>2, <2>3
    <2> QED
        BY <1>1, <2>4 DEF c
<1>4. StableSort(s) = [k \in 1 .. n |-> t[k]]
    BY <1>1, <1>3 DEF StableSort
<1>5. t = [k \in 1 .. n |-> t[k]]
    BY <1>1, SeqDef
<1> QED
    BY <1>4, <1>5

\* Changing one amount and sorting the whole list is what Resorted does.
LEMMA ResortingAgrees ==
    ASSUME ListInOrder(list), NEW d \in Owners(list), NEW amount \in Nat
    PROVE  ResortInCode(d, amount) = Resorted(list, d, amount)
<1> DEFINE old == list.delegations
           m == Len(old)
           p == PositionOf(list, d)
           e == [owner |-> d, amount |-> amount]
           s == [i \in DOMAIN old |-> IF old[i].owner = d THEN e ELSE old[i]]
           t == Resorted(list, d, amount)
<1>1. /\ old \in Seq(Bond) /\ m \in Nat /\ DOMAIN old = 1 .. m /\ Orderly(old)
      /\ p \in 1 .. m /\ old[p].owner = d /\ e \in Bond
    BY ListParts, PositionType DEF ListInOrder, Bond
<1>2. PICK r \in Seq(Bond), k \in Nat :
        /\ r = RemoveAt(old, p) /\ Len(r) = m - 1
        /\ OneMore(old, p, r)
        /\ OneMore(t, k + 1, r) /\ t \in Seq(Bond)
        /\ t[k + 1] = e
        /\ \A j \in 1 .. Len(r) :
             j <= k <=> \/ r[j].amount > amount
                        \/ r[j].amount = amount /\ j < p
    BY ResortedPlaces
<1>3. /\ k + 1 \in 1 .. m /\ Len(t) = m
      /\ \A j \in 1 .. m - 1 : r[j] = old[Past(p, j)] /\ r[j] = t[Past(k + 1, j)]
    <2> HIDE DEF old, m, p, t
    <2>1. Len(t) = m
        BY <1>1, <1>2 DEF OneMore
    <2> QED
        BY <1>1, <1>2, <2>1 DEF OneMore
<1>4. /\ \A j \in 1 .. m - 1 : r[j].amount \in Nat
      /\ \A i, j \in 1 .. m - 1 : i < j => r[i].amount >= r[j].amount
    <2> HIDE DEF old, m, p, t
    <2>1. Orderly(r)
        BY <1>1, <1>2, OneLessOrderly
    <2>2. DOMAIN r = 1 .. m - 1
        BY <1>2, LenProperties
    <2>3. \A j \in 1 .. m - 1 : r[j] \in Bond
        BY <1>2, ElementOfSeq
    <2> QED
        BY <2>1, <2>2, <2>3 DEF Orderly, Bond
<1>5. /\ \A j \in 1 .. m - 1 : Past(p, j) \in 1 .. m /\ Past(p, j) # p
      /\ \A j \in 1 .. m - 1 : Past(p, j) < p <=> j < p
      /\ \A j \in 1 .. m - 1 : p < Past(p, j) <=> ~ (j < p)
      /\ \A i, j \in 1 .. m - 1 : Past(p, i) < Past(p, j) <=> i < j
      /\ \A i \in 1 .. m : i = p \/ \E j \in 1 .. m - 1 : i = Past(p, j)
    <2> DEFINE w == m - 1
    <2>1. w \in Nat /\ p \in 1 .. w + 1 /\ 1 .. w + 1 = 1 .. m
        BY <1>1
    <2>2. \A j \in 1 .. m - 1 : (Past(p, j) < p <=> j < p) /\ (p < Past(p, j) <=> ~ (j < p))
        BY <1>1 DEF Past
    <2> HIDE DEF m, p, old, t, s, w
    <2>3. /\ \A j \in 1 .. w : Past(p, j) \in (1 .. w + 1) \ {p}
          /\ \A i, j \in 1 .. w : i < j <=> Past(p, i) < Past(p, j)
          /\ \A i \in (1 .. w + 1) \ {p} : \E j \in 1 .. w : i = Past(p, j)
        BY <2>1, PastProperties
    <2>4. m - 1 = w
        BY DEF w
    <2> QED
        BY <2>1, <2>2, <2>3, <2>4
<1>6. /\ \A j \in 1 .. m - 1 : Past(k + 1, j) \in 1 .. m /\ Past(k + 1, j) # k + 1
      /\ \A j \in 1 .. m - 1 : Past(k + 1, j) < k + 1 <=> j <= k
      /\ \A j \in 1 .. m - 1 : k + 1 < Past(k + 1, j) <=> ~ (j <= k)
      /\ \A i, j \in 1 .. m - 1 : Past(k + 1, i) < Past(k + 1, j) <=> i < j
      /\ \A i, j \in 1 .. m - 1 : Past(k + 1, i) = Past(k + 1, j) => i = j
      /\ \A i \in 1 .. m : i = k + 1 \/ \E j \in 1 .. m - 1 : i = Past(k + 1, j)
    <2> DEFINE w == m - 1
    <2>1. w \in Nat /\ k + 1 \in 1 .. w + 1 /\ 1 .. w + 1 = 1 .. m
        BY <1>1, <1>3
    <2>2. \A j \in 1 .. m - 1 : /\ Past(k + 1, j) < k + 1 <=> j <= k
                                /\ k + 1 < Past(k + 1, j) <=> ~ (j <= k)
        BY <1>1 DEF Past
    <2> DEFINE q == k + 1
    <2> HIDE DEF m, p, old, t, s, w, q
    <2>3. q \in 1 .. w + 1
        BY <2>1 DEF q
    <2>4. /\ \A j \in 1 .. w : Past(q, j) \in (1 .. w + 1) \ {q}
          /\ \A i, j \in 1 .. w : i < j <=> Past(q, i) < Past(q, j)
          /\ \A i, j \in 1 .. w : Past(q, i) = Past(q, j) => i = j
          /\ \A i \in (1 .. w + 1) \ {q} : \E j \in 1 .. w : i = Past(q, j)
        BY <2>1, <2>3, PastProperties
    <2>5. m - 1 = w /\ k + 1 = q
        BY DEF w, q
    <2>6. /\ \A j \in 1 .. w : Past(q, j) \in 1 .. m /\ Past(q, j) # q
          /\ \A i \in 1 .. m : i = q \/ \E j \in 1 .. w : i = Past(q, j)
        BY <2>1, <2>4
    <2> QED
        BY <2>2, <2>4, <2>5, <2>6
<1>7. /\ s \in Seq(Bond) /\ Len(s) = m /\ s[p] = e
      /\ \A j \in 1 .. m - 1 : s[Past(p, j)] = r[j]
    <2> HIDE DEF m, p, e, t, old
    <2>1. \A i \in 1 .. m : old[i] \in Bond
        BY <1>1, ElementOfSeq DEF m
    <2>2. s \in [1 .. m -> Bond]
        BY <1>1, <2>1
    <2>3. \A i \in (1 .. m) \ {p} : old[i].owner # d
        BY <1>1 DEF Orderly
    <2>4. s[p] = e /\ \A i \in (1 .. m) \ {p} : s[i] = old[i]
        BY <1>1, <2>3
    <2> HIDE DEF s
    <2>5. s \in Seq(Bond) /\ Len(s) = m
        BY <1>1, <2>2, SeqDef, LenProperties
    <2> QED
        BY <1>3, <1>5, <2>4, <2>5
<1>8. PICK h \in [1 .. m -> 1 .. m] :
        /\ h[p] = k + 1
        /\ \A j \in 1 .. m - 1 : h[Past(p, j)] = Past(k + 1, j)
    <2> DEFINE g == [i \in 1 .. m |-> IF i = p THEN k + 1
                                      ELSE Past(k + 1, IF i < p THEN i ELSE i - 1)]
    <2>1. \A j \in 1 .. m - 1 :
            (IF Past(p, j) < p THEN Past(p, j) ELSE Past(p, j) - 1) = j
        BY <1>1 DEF Past
    <2> HIDE DEF m, p, t, s, old, e
    <2>2. g[p] = k + 1 /\ \A j \in 1 .. m - 1 : g[Past(p, j)] = Past(k + 1, j)
        BY <1>1, <1>5, <2>1
    <2>3. DOMAIN g = 1 .. m /\ g = [i \in 1 .. m |-> g[i]]
        OBVIOUS
    <2> HIDE DEF g
    <2>4. \A i \in 1 .. m : g[i] \in 1 .. m
        BY <1>3, <1>5, <1>6, <2>2
    <2>5. g \in [1 .. m -> 1 .. m]
        BY <2>3, <2>4
    <2> QED
        BY <2>2, <2>5
<1> HIDE DEF m, p, t, s, old
<1>9. \A i, j \in 1 .. m : h[i] = h[j] => i = j
    BY <1>5, <1>6, <1>8
<1>10. ASSUME NEW i \in 1 .. m
       PROVE  \E j \in 1 .. m : h[j] = i
    <2>1. CASE i = k + 1
        BY <1>1, <1>8, <2>1
    <2>2. ASSUME NEW j \in 1 .. m - 1, i = Past(k + 1, j)
          PROVE  \E l \in 1 .. m : h[l] = i
        BY <1>5, <1>8, <2>2
    <2> QED
        BY <1>6, <2>1, <2>2
<1>11. \A i \in 1 .. m : t[h[i]] = s[i]
    BY <1>2, <1>3, <1>5, <1>7, <1>8
<1>12. ASSUME NEW i \in 1 .. m, NEW j \in 1 .. m
       PROVE  SortsAhead(s, j, i) <=> h[j] < h[i]
    <2>1. CASE i = p /\ j = p
        <3>1. s[p].amount = amount /\ p \in Nat /\ k + 1 \in Nat
            BY <1>1, <1>7
        <3> HIDE DEF e
        <3> QED
            BY <1>8, <2>1, <3>1 DEF SortsAhead, Amount
    <2>2. ASSUME NEW a \in 1 .. m - 1, i = p, j = Past(p, a)
          PROVE  SortsAhead(s, j, i) <=> h[j] < h[i]
        <3>1. Amount(s, i) = amount /\ Amount(s, j) = r[a].amount
            BY <1>7, <2>2 DEF Amount
        <3>2. h[j] < h[i] <=> a <= k
            BY <1>6, <1>8, <2>2
        <3>3. j < i <=> a < p
            BY <1>5, <2>2
        <3>4. a <= k <=> r[a].amount > amount \/ (r[a].amount = amount /\ a < p)
            BY <1>2
        <3> QED
            BY <3>1, <3>2, <3>3, <3>4 DEF SortsAhead
    <2>3. ASSUME NEW b \in 1 .. m - 1, i = Past(p, b), j = p
          PROVE  SortsAhead(s, j, i) <=> h[j] < h[i]
        <3>1. Amount(s, j) = amount /\ Amount(s, i) = r[b].amount
            BY <1>7, <2>3 DEF Amount
        <3>2. h[j] < h[i] <=> ~ (b <= k)
            BY <1>6, <1>8, <2>3
        <3>3. j < i <=> ~ (b < p)
            BY <1>5, <2>3
        <3>4. b <= k <=> r[b].amount > amount \/ (r[b].amount = amount /\ b < p)
            BY <1>2
        <3>5. r[b].amount \in Nat
            BY <1>4
        <3> QED
            BY <3>1, <3>2, <3>3, <3>4, <3>5 DEF SortsAhead
    <2>4. ASSUME NEW a \in 1 .. m - 1, NEW b \in 1 .. m - 1,
                 i = Past(p, b), j = Past(p, a)
          PROVE  SortsAhead(s, j, i) <=> h[j] < h[i]
        <3>1. Amount(s, j) = r[a].amount /\ Amount(s, i) = r[b].amount
            BY <1>7, <2>4 DEF Amount
        <3>2. (h[j] < h[i] <=> a < b) /\ (j < i <=> a < b)
            BY <1>5, <1>6, <1>8, <2>4
        <3>3. r[a].amount \in Nat /\ r[b].amount \in Nat
            BY <1>4
        <3>4. /\ a < b => r[a].amount >= r[b].amount
              /\ b < a => r[b].amount >= r[a].amount
            BY <1>4
        <3>5. ~ (a < b) => a = b \/ b < a
            BY <1>1
        <3> QED
            BY <3>1, <3>2, <3>3, <3>4, <3>5 DEF SortsAhead
    <2> QED
        BY <1>5, <2>1, <2>2, <2>3, <2>4
<1>13. StableSort(s) = t
    <2> HIDE DEF e
    <2>1. /\ s \in Seq(Bond) /\ t \in Seq(Bond) /\ m \in Nat
          /\ Len(s) = m /\ Len(t) = m /\ h \in [1 .. m -> 1 .. m]
        BY <1>1, <1>2, <1>3, <1>7
    <2>2. /\ \A i, j \in 1 .. m : h[i] = h[j] => i = j
          /\ \A i \in 1 .. m : \E j \in 1 .. m : h[j] = i
          /\ \A i \in 1 .. m : t[h[i]] = s[i]
          /\ \A i, j \in 1 .. m : SortsAhead(s, j, i) <=> h[j] < h[i]
        BY <1>9, <1>10, <1>11, <1>12
    <2> QED
        BY <2>1, <2>2, SortedByPlaces
<1> QED
    BY <1>13 DEF ResortInCode, s, t, old

\* Whichever match the search finds, the code arrives at the place behind all
\* entries that are at least as large.
LEMMA InsertingAgrees ==
    ASSUME ListInOrder(list), NEW bond \in Bond
    PROVE  InsertInCode(bond) = { Insert(list, bond) }
<1> DEFINE s == list.delegations
           n == Len(s)
           x == bond.amount
           ahead == { i \in DOMAIN s : s[i].amount >= x }
           k == Cardinality(ahead)
<1>1. /\ s \in Seq(Bond) /\ n \in Nat /\ DOMAIN s = 1 .. n /\ Orderly(s)
      /\ \A i \in 1 .. n : s[i].amount \in Nat
      /\ x \in Nat /\ (s # <<>> <=> n > 0)
    BY ListParts DEF ListInOrder, Bond
<1>2. /\ k \in 0 .. n
      /\ \A j \in 1 .. n : s[j].amount >= x <=> j <= k
    <2>1. /\ n + 1 \in 1 .. n + 1
          /\ ahead \in SUBSET ((1 .. n + 1) \ {n + 1})
          /\ \A i \in ahead, j \in (1 .. n + 1) \ {n + 1} : j < i => j \in ahead
        BY <1>1 DEF Orderly
    <2>2. \A j \in 1 .. n : Past(n + 1, j) = j
        BY <1>1 DEF Past
    <2>3. \A j \in 1 .. n : j \in ahead <=> s[j].amount >= x
        BY <1>1
    <2>4. ahead \in SUBSET (1 .. n)
        BY <1>1
    <2> HIDE DEF ahead, s, n, x
    <2>5. \A j \in 1 .. n : Past(n + 1, j) \in ahead <=> j <= k
        BY <1>1, <2>1, InitialPart
    <2>6. k \in Nat /\ k <= n
        <3>1. IsFiniteSet(1 .. n) /\ Cardinality(1 .. n) = n
            BY <1>1, PositionsCounted
        <3> QED
            BY <1>1, <2>4, <3>1, FS_Subset, FS_CardinalityType
    <2> HIDE DEF k
    <2> QED
        BY <1>1, <2>2, <2>3, <2>5, <2>6
<1> SUFFICES PlacesInCode(s, x) = { k + 1 }
    BY DEF InsertInCode, Insert
<1> HIDE DEF s, n, x, ahead, k
<1>3. \A i, j \in 1 .. n : i < j => s[i].amount >= s[j].amount
    BY <1>1 DEF Orderly
<1>4. CASE s # <<>> /\ Amount(s, Len(s)) = x
    <2>1. n \in 1 .. n /\ s[n].amount = x
        BY <1>1, <1>4 DEF Amount, n
    <2>2. n <= k
        BY <1>1, <1>2, <2>1
    <2>3. n = k
        BY <1>1, <1>2, <2>2
    <2> QED
        BY <1>4, <2>3 DEF PlacesInCode, n
<1>5. CASE ~ (s # <<>> /\ Amount(s, Len(s)) = x) /\ Matches(s, x) = {}
    <2>1. \A i \in 1 .. n : s[i].amount # x
        BY <1>1, <1>5 DEF Matches, Amount
    <2>2. { i \in DOMAIN s : Amount(s, i) > x } = ahead
        BY <1>1, <2>1 DEF Amount, ahead
    <2>3. GapFor(s, x) = k + 1
        BY <2>2 DEF GapFor, k
    <2> QED
        BY <1>5, <2>3 DEF PlacesInCode
<1>6. CASE ~ (s # <<>> /\ Amount(s, Len(s)) = x) /\ Matches(s, x) # {}
    <2>1. ASSUME NEW i \in Matches(s, x)
          PROVE  PlaceAfterMatch(s, i, x) = k + 1
        <3> DEFINE later == { j \in i + 1 .. Len(s) : Amount(s, j) # x }
        <3>1. i \in 1 .. n /\ s[i].amount = x
            BY <1>1, <2>1 DEF Matches, Amount
        <3>2. i <= k
            BY <1>1, <1>2, <3>1
        <3>3. \A j \in i + 1 .. n : j \in 1 .. n /\ i < j
            BY <1>1, <3>1
        <3>4. \A j \in i + 1 .. n : s[j].amount # x <=> ~ (j <= k)
            <4>1. \A j \in i + 1 .. n : s[j].amount # x <=> ~ (s[j].amount >= x)
                BY <1>1, <1>3, <3>1, <3>3
            <4> QED
                BY <1>2, <3>3, <4>1
        <3>5. later = k + 1 .. n
            <4>1. later = { j \in i + 1 .. n : ~ (j <= k) }
                BY <3>4 DEF Amount, n
            <4> HIDE DEF later
            <4>2. { j \in i + 1 .. n : ~ (j <= k) } = k + 1 .. n
                BY <1>1, <1>2, <3>1, <3>2
            <4> QED
                BY <4>1, <4>2
        <3>6. PlaceAfterMatch(s, i, x) = IF later = {} THEN n + 1 ELSE Min(later)
            BY DEF PlaceAfterMatch, n
        <3> HIDE DEF later
        <3>7. CASE k = n
            <4>1. later = {}
                BY <1>1, <3>5, <3>7
            <4> QED
                BY <3>6, <3>7, <4>1
        <3>8. CASE k # n
            <4>1. k + 1 \in later /\ \A y \in later : k + 1 <= y
                BY <1>1, <1>2, <3>5, <3>8
            <4>2. /\ Min(later) \in later
                  /\ \A y \in later : Min(later) <= y
                BY <4>1 DEF Min
            <4>3. Min(later) <= k + 1 /\ k + 1 <= Min(later)
                BY <4>1, <4>2
            <4>4. Min(later) \in Nat
                BY <1>2, <3>5, <4>2
            <4>5. Min(later) = k + 1
                BY <1>2, <4>3, <4>4
            <4> QED
                BY <3>6, <4>1, <4>5
        <3> QED
            BY <3>7, <3>8
    <2>2. { PlaceAfterMatch(s, i, x) : i \in Matches(s, x) } = { k + 1 }
        BY <1>6, <2>1
    <2> QED
        BY <1>6, <2>2 DEF PlacesInCode
<1> QED
    BY <1>4, <1>5, <1>6

\* From the empty list, the code's own steps keep the list in order.
LEMMA OrderStepsKeepOrder ==
    ASSUME ListInOrder(list), [Next]_list
    PROVE  ListInOrder(list')
<1>1. list \in Delegations /\ list.total \in Nat
    BY ListParts DEF ListInOrder
<1>2. ASSUME NEW d \in Owners(list)
      PROVE  \E y \in Entries(list) : y.owner = d /\ y.amount = AmountOf(list, d)
    BY EntryOf
<1>3. ASSUME NEW d \in Accounts, RemoveStep(d)
      PROVE  ListInOrder(list')
    <2>1. PICK y \in Entries(list) : y.owner = d /\ y.amount = AmountOf(list, d)
        BY <1>2, <1>3 DEF RemoveStep
    <2>2. list' = Without(list, y.owner, y.amount)
        BY <1>3, <2>1 DEF RemoveStep
    <2>3. ListInOrder(Without(list, y.owner, y.amount))
        BY WithoutTakes
    <2> QED
        BY <2>2, <2>3
<1>4. ASSUME NEW d \in Accounts, NEW amount \in Nat, InsertStep(d, amount)
      PROVE  ListInOrder(list')
    <2> DEFINE bond == [owner |-> d, amount |-> amount]
    <2>1. bond \in Bond /\ bond.owner = d
        BY DEF Bond
    <2>2. list' \in InsertInCode(bond) /\ d \notin Owners(list)
        BY <1>4 DEF InsertStep
    <2> HIDE DEF bond
    <2>3. list' = Insert(list, bond)
        BY <2>1, <2>2, InsertingAgrees
    <2>4. ListInOrder(Insert(list, bond))
        BY <2>1, <2>2, InsertInOrder
    <2> QED
        BY <2>3, <2>4
<1>5. ASSUME NEW d \in Accounts, NEW amount \in Nat, ChangeStep(d, amount)
      PROVE  ListInOrder(list')
    <2>1. /\ d \in Owners(list)
          /\ list' = [list EXCEPT !.delegations = ResortInCode(d, amount)]
        BY <1>5 DEF ChangeStep
    <2>2. ResortInCode(d, amount) = Resorted(list, d, amount)
        BY <2>1, ResortingAgrees
    <2>3. list' = [delegations |-> Resorted(list, d, amount), total |-> list.total]
        BY <1>1, <2>1, <2>2 DEF Delegations
    <2>4. ListInOrder([delegations |-> Resorted(list, d, amount), total |-> list.total])
        BY <1>1, <2>1, ResortedInOrder
    <2> QED
        BY <2>3, <2>4
<1>6. CASE UNCHANGED list
    BY <1>6 DEF ListInOrder
<1>7. OrderAmounts \subseteq Nat
    BY OrderAssumption
<1> QED
    BY <1>3, <1>4, <1>5, <1>6, <1>7 DEF Next

\* The lists of DelegationBook are the lists of the code: whichever match the
\* binary search returns, insert_sorted_greatest_to_least arrives at the place
\* that Insert describes, and changing one amount and sorting the whole list
\* is what Resorted describes - in every list that insertions, changes and
\* removals can lead to.
THEOREM TheCodeOrdersAsDescribed == Spec => []OrderAgrees
<1>1. Init => ListInOrder(list)
    <2> SUFFICES ASSUME Init PROVE ListInOrder(list)
        OBVIOUS
    <2>1. list = [delegations |-> <<>>, total |-> 0]
        BY DEF Init, NoDelegations
    <2>2. list \in Delegations /\ DOMAIN list.delegations = {}
        BY <2>1 DEF Delegations
    <2> QED
        BY <2>2 DEF ListInOrder, Orderly
<1>2. ListInOrder(list) /\ [Next]_list => ListInOrder(list')
    BY OrderStepsKeepOrder
<1>3. ListInOrder(list) => OrderAgrees
    <2> SUFFICES ASSUME ListInOrder(list) PROVE OrderAgrees
        OBVIOUS
    <2>1. OrderAmounts \subseteq Nat
        BY OrderAssumption
    <2>2. ASSUME NEW d \in Accounts \ Owners(list), NEW amount \in OrderAmounts
          PROVE  InsertInCode([owner |-> d, amount |-> amount])
                   = { Insert(list, [owner |-> d, amount |-> amount]) }
        <3>1. [owner |-> d, amount |-> amount] \in Bond
            BY <2>1 DEF Bond
        <3> QED
            BY <3>1, InsertingAgrees
    <2>3. ASSUME NEW d \in Owners(list), NEW amount \in OrderAmounts
          PROVE  ResortInCode(d, amount) = Resorted(list, d, amount)
        BY <2>1, ResortingAgrees
    <2> QED
        BY <2>2, <2>3 DEF OrderAgrees, InsertAgrees, ResortAgrees
<1>4. ListInOrder(list)' <=> ListInOrder(list')
    BY DEF ListInOrder
<1> QED
    BY <1>1, <1>2, <1>3, <1>4, PTL DEF Spec

-----------------------------------------------------------------------------
(* How much a round mints.                                                 *)

\* Products of naturals.
LEMMA Products ==
    /\ \A a, b \in Nat : a * b \in Nat
    /\ \A a, b, c \in Nat : a <= b => a * c <= b * c /\ c * a <= c * b
    /\ \A a, b \in Nat, c \in Nat \ {0} : c * a <= c * b => a <= b
    /\ \A a, b, c \in Nat : a * (b + c) = a * b + a * c /\ (b + c) * a = b * a + c * a
<1>1. \A a, b \in Nat : a * b \in Nat
    OBVIOUS
<1>2. \A a, b, c \in Nat : a * (b + c) = a * b + a * c /\ (b + c) * a = b * a + c * a
    OBVIOUS
<1>3. ASSUME NEW a \in Nat, NEW b \in Nat, NEW c \in Nat, a <= b
      PROVE  a * c <= b * c /\ c * a <= c * b
    <2>1. PICK k \in Nat : b = a + k
        <3>1. b - a \in Nat /\ b = a + (b - a)
            BY <1>3
        <3> QED
            BY <3>1
    <2>2. b * c = a * c + k * c /\ c * b = c * a + c * k
        BY <1>2, <2>1
    <2>3. k * c \in Nat /\ c * k \in Nat /\ a * c \in Nat /\ c * a \in Nat
        BY <1>1
    <2> QED
        BY <2>2, <2>3
<1>4. ASSUME NEW a \in Nat, NEW b \in Nat, NEW c \in Nat \ {0}, c * a <= c * b
      PROVE  a <= b
    <2>1. SUFFICES ASSUME b + 1 <= a PROVE FALSE
        OBVIOUS
    <2>2. c * (b + 1) <= c * a
        BY <1>3, <2>1
    <2>3. c * (b + 1) = c * b + c
        OBVIOUS
    <2>4. c * b \in Nat /\ c * a \in Nat
        BY <1>1
    <2> QED
        BY <1>4, <2>2, <2>3, <2>4
<1> QED
    BY <1>1, <1>2, <1>3, <1>4

LEMMA Quotients ==
    ASSUME NEW n \in Nat, NEW m \in Nat \ {0}
    PROVE  /\ n \div m \in Nat
           /\ m * (n \div m) <= n
           /\ n < m * (n \div m) + m
OBVIOUS

\* A larger dividend has no smaller quotient.
LEMMA QuotientsGrow ==
    ASSUME NEW n \in Nat, NEW k \in Nat, n <= k, NEW m \in Nat \ {0}
    PROVE  n \div m <= k \div m
<1> DEFINE p == n \div m
           q == k \div m
<1>1. p \in Nat /\ q \in Nat /\ m * p <= n /\ k < m * q + m
    BY Quotients
<1> HIDE DEF p, q
<1>2. SUFFICES ASSUME q + 1 <= p PROVE FALSE
    BY <1>1 DEF p, q
<1>3. m * (q + 1) <= m * p /\ m * (q + 1) = m * q + m
    BY <1>1, <1>2, Products
<1>4. m * p \in Nat /\ m * q \in Nat
    BY <1>1, Products
<1> QED
    BY <1>1, <1>3, <1>4

\* A part of an amount, rounded to the nearest.
LEMMA PercentBounds ==
    ASSUME NEW p \in Nat, NEW x \in Nat
    PROVE  /\ PercentOf(p, x) \in Nat
           /\ 2 * (Accuracy * PercentOf(p, x)) <= 2 * (p * x) + Accuracy
           /\ p <= Accuracy => PercentOf(p, x) <= x
<1> DEFINE a == Accuracy
           n == 2 * p * x + a - 1
           m == 2 * a
           q == n \div m
           px == p * x
<1>1. a \in Nat \ {0} /\ px \in Nat
    BY Products, RewardsAssumption
<1>2. n = 2 * px + a - 1 /\ n \in Nat /\ m \in Nat \ {0}
    <2>1. 2 * p * x = 2 * px
        OBVIOUS
    <2> HIDE DEF px, a
    <2> QED
        BY <1>1, <2>1
<1>3. q \in Nat /\ m * q <= n
    <2> HIDE DEF n, m
    <2> QED
        BY <1>2, Quotients
<1>4. m * q = 2 * (a * q) /\ a * q \in Nat
    <2> HIDE DEF q, a
    <2>1. a * q \in Nat
        BY <1>1, <1>3, Products
    <2> QED
        BY <1>1, <1>3, <2>1
<1>5. 2 * (a * q) <= 2 * px + a
    <2> HIDE DEF n, m, q, a, px
    <2> DEFINE aq == a * q
    <2>1. aq \in Nat /\ 2 * aq <= n
        BY <1>3, <1>4
    <2> HIDE DEF aq
    <2>2. 2 * aq <= 2 * px + a
        BY <1>1, <1>2, <2>1
    <2> QED
        BY <2>2 DEF aq
<1>6. ASSUME p <= a, x + 1 <= q
      PROVE  FALSE
    <2>1. px <= a * x /\ a * x \in Nat
        <3> HIDE DEF a, q
        <3> QED
            BY <1>1, <1>6, Products
    <2>2. a * (x + 1) <= a * q /\ a * (x + 1) = a * x + a
        <3> HIDE DEF a, q
        <3> QED
            BY <1>1, <1>3, <1>6, Products
    <2> DEFINE ax == a * x
               aq == a * q
    <2>3. ax \in Nat /\ px <= ax /\ ax + a <= aq /\ aq \in Nat /\ 2 * aq <= 2 * px + a - 1
        <3> HIDE DEF a, q, px, n, m
        <3> QED
            BY <1>2, <1>3, <1>4, <2>1, <2>2
    <2> HIDE DEF ax, aq, px, a, n, m, q
    <2> QED
        BY <1>1, <2>3
<1>7. PercentOf(p, x) = q
    BY DEF PercentOf
<1>8. p <= a => q <= x
    <2> HIDE DEF a, q
    <2> QED
        BY <1>3, <1>6
<1> HIDE DEF q, px
<1> QED
    BY <1>3, <1>5, <1>7, <1>8 DEF px

\* The same part of a larger amount.
LEMMA PercentGrows ==
    ASSUME NEW p \in Nat, NEW x \in Nat, NEW y \in Nat, x <= y
    PROVE  PercentOf(p, x) <= PercentOf(p, y)
<1> DEFINE a == Accuracy
           n == 2 * p * x + a - 1
           k == 2 * p * y + a - 1
           m == 2 * a
<1>1. a \in Nat \ {0} /\ 2 * p \in Nat
    BY RewardsAssumption
<1>2. 2 * p * x <= 2 * p * y /\ 2 * p * x \in Nat /\ 2 * p * y \in Nat
    BY <1>1, Products
<1>3. n \in Nat /\ k \in Nat /\ n <= k /\ m \in Nat \ {0}
    <2> DEFINE u == 2 * p * x
               v == 2 * p * y
    <2>1. u \in Nat /\ v \in Nat /\ u <= v
        BY <1>2
    <2> HIDE DEF u, v, a
    <2>2. u + a - 1 \in Nat /\ v + a - 1 \in Nat /\ u + a - 1 <= v + a - 1
        BY <1>1, <2>1
    <2> QED
        BY <1>1, <2>2 DEF u, v
<1> HIDE DEF n, k, m
<1>4. n \div m <= k \div m
    BY <1>3, QuotientsGrow
<1> QED
    BY <1>4 DEF PercentOf, n, k, m

\* A ratio, rounded down.
LEMMA RationalBounds ==
    ASSUME NEW q \in Nat \ {0}, NEW p \in 0 .. q
    PROVE  /\ FromRational(p, q) \in Nat
           /\ q * FromRational(p, q) <= p * Accuracy
<1>1. Accuracy \in Nat /\ p \in Nat
    BY RewardsAssumption
<1>2. CASE p >= q
    <2>1. p = q /\ FromRational(p, q) = Accuracy
        BY <1>1, <1>2 DEF FromRational
    <2>2. q * Accuracy \in Nat
        BY <1>1, Products
    <2> QED
        BY <1>1, <2>1, <2>2
<1>3. CASE ~ (p >= q)
    <2> DEFINE n == p * Accuracy
    <2>1. n \in Nat
        BY <1>1, Products
    <2>2. FromRational(p, q) = n \div q
        BY <1>3 DEF FromRational
    <2> HIDE DEF n
    <2>3. n \div q \in Nat /\ q * (n \div q) <= n
        BY <2>1, Quotients
    <2> QED
        BY <2>2, <2>3 DEF n
<1> QED
    BY <1>2, <1>3

\* Shares of one amount: their parts of it make up a part that their stakes
\* account for, and each adds one half to it at most.
LEMMA SharesAddUp ==
    ASSUME NEW S, IsFiniteSet(S), NEW f, NEW r, NEW s,
           NEW whole \in Nat, NEW rest \in Nat,
           \A x \in S : /\ f[x] \in Nat /\ r[x] \in Nat /\ s[x] \in Nat
                        /\ whole * r[x] <= s[x] * Accuracy
                        /\ 2 * (Accuracy * f[x]) <= 2 * (r[x] * rest) + Accuracy
    PROVE  \E X \in Nat :
             /\ whole * X <= Accuracy * SumFunctionOnSet(s, S)
             /\ 2 * (Accuracy * SumFunctionOnSet(f, S))
                  <= 2 * (X * rest) + Accuracy * Cardinality(S)
<1> DEFINE a == Accuracy
           Holds(V) == \E X \in Nat :
                         /\ whole * X <= a * SumFunctionOnSet(s, V)
                         /\ 2 * (a * SumFunctionOnSet(f, V))
                              <= 2 * (X * rest) + a * Cardinality(V)
           Good == { V \in SUBSET S : Holds(V) }
<1>1. a \in Nat
    BY RewardsAssumption
<1> HIDE DEF a
<1>2. {} \in Good
    <2>1. SumFunctionOnSet(s, {}) = 0 /\ SumFunctionOnSet(f, {}) = 0
        BY SumOfNothing
    <2>2. Cardinality({}) = 0
        BY FS_EmptySet
    <2>3. whole * 0 <= a * 0 /\ 2 * (a * 0) <= 2 * (0 * rest) + a * 0
        BY <1>1
    <2> QED
        BY <2>1, <2>2, <2>3
<1>3. ASSUME NEW V \in SUBSET S, NEW e \in V, V \ {e} \in Good
      PROVE  V \in Good
    <2> DEFINE W == V \ {e}
               sv == SumFunctionOnSet(s, V)
               sw == SumFunctionOnSet(s, W)
               fv == SumFunctionOnSet(f, V)
               fw == SumFunctionOnSet(f, W)
               n == Cardinality(W)
    <2>1. PICK X \in Nat : whole * X <= a * sw /\ 2 * (a * fw) <= 2 * (X * rest) + a * n
        BY <1>3
    <2>2. IsFiniteSet(V) /\ IsFiniteSet(W)
        BY FS_Subset
    <2>3. sv = s[e] + sw /\ fv = f[e] + fw /\ sw \in Nat /\ fw \in Nat
        <3>1. \A x \in V : s[x] \in Nat /\ f[x] \in Nat
            OBVIOUS
        <3>2. sv = s[e] + sw /\ fv = f[e] + fw
            BY <2>2, <3>1, SumRemove
        <3>3. sw \in Nat /\ fw \in Nat
            <4>1. \A x \in W : s[x] \in Nat /\ f[x] \in Nat
                OBVIOUS
            <4> HIDE DEF W
            <4> QED
                BY <2>2, <4>1, SumType
        <3> QED
            BY <3>2, <3>3
    <2>4. Cardinality(V) = n + 1 /\ n \in Nat
        <3>1. Cardinality(W) = Cardinality(V) - 1 /\ Cardinality(V) \in Nat
            BY <2>2, FS_RemoveElement, FS_CardinalityType
        <3>2. Cardinality(W) \in Nat
            <4> HIDE DEF W
            <4> QED
                BY <2>2, FS_CardinalityType
        <3> QED
            BY <3>1, <3>2
    <2>5. /\ f[e] \in Nat /\ r[e] \in Nat /\ s[e] \in Nat
          /\ whole * r[e] <= s[e] * a
          /\ 2 * (a * f[e]) <= 2 * (r[e] * rest) + a
        BY DEF a
    <2> HIDE DEF W, sv, sw, fv, fw, n
    <2>6. X + r[e] \in Nat
        BY <2>5
    <2>7. whole * (X + r[e]) <= a * sv
        <3>1. /\ whole * (X + r[e]) = whole * X + whole * r[e]
              /\ a * sv = a * s[e] + a * sw /\ a * s[e] = s[e] * a
            BY <1>1, <2>3, <2>5, Products
        <3>2. whole * X \in Nat /\ whole * r[e] \in Nat /\ s[e] * a \in Nat /\ a * sw \in Nat
            BY <1>1, <2>3, <2>5, Products
        <3> QED
            BY <2>1, <2>5, <3>1, <3>2
    <2>8. 2 * (a * fv) <= 2 * ((X + r[e]) * rest) + a * (n + 1)
        <3>1. /\ a * fv = a * f[e] + a * fw
              /\ (X + r[e]) * rest = X * rest + r[e] * rest
              /\ a * (n + 1) = a * n + a
            BY <1>1, <2>3, <2>4, <2>5, Products
        <3>2. /\ a * f[e] \in Nat /\ a * fw \in Nat /\ X * rest \in Nat
              /\ r[e] * rest \in Nat /\ a * n \in Nat
            BY <1>1, <2>3, <2>4, <2>5, Products
        <3> QED
            BY <1>1, <2>1, <2>5, <3>1, <3>2
    <2>9. Holds(V)
        BY <2>4, <2>6, <2>7, <2>8 DEF sv, fv
    <2> QED
        BY <2>9
<1>4. S \in Good
    <2> HIDE DEF Good
    <2> QED
        BY <1>2, <1>3, SubsetInduction
<1> QED
    BY <1>4 DEF a

\* What a round may mint: the reward, or the commission on the whole issuance.
Limit == Larger(reward, CollatorIssuance)

\* What a collator and those of its delegators that are still there receive is
\* its part of the limit, and one half more for each of them: commission is
\* taken off its part of the reward, or exceeds it and leaves nothing.
LEMMA DuesFit ==
    ASSUME NEW c, exposure[c].bond \in Nat \ {0},
           NEW backers, backers = exposure[c].delegations,
           IsFiniteSet(DOMAIN backers), backers \in [DOMAIN backers -> Nat],
           NEW due, due = FromRational(awarded[c], totalPoints), due \in Nat,
           NEW most, most = PercentOf(due, Limit),
           reward \in Nat, CollatorIssuance \in Nat,
           NEW gone,
           NEW more,
           more = Dues(c).collator
                  + SumFunctionOnSet(Dues(c).delegators, DOMAIN Dues(c).delegators \ gone)
    PROVE  /\ more \in Nat /\ most \in Nat
           /\ 2 * more <= 2 * most + 1 + Cardinality(DOMAIN backers)
<1> DEFINE D == DOMAIN backers
           n == Cardinality(D)
           paid == PercentOf(due, reward)
           fee == PercentOf(due, CollatorIssuance)
           rest == AfterCommission(paid, fee)
           bond == exposure[c].bond
           whole == bond + SumFunction(backers)
           a == Accuracy
<1>1. /\ paid \in Nat /\ fee \in Nat /\ most \in Nat /\ a \in Nat \ {0}
      /\ fee <= most /\ paid <= most
      /\ n \in Nat /\ bond \in Nat \ {0}
    <2>1. Limit \in Nat /\ reward <= Limit /\ CollatorIssuance <= Limit
        BY DEF Limit, Larger
    <2> QED
        BY <2>1, PercentBounds, PercentGrows, FS_CardinalityType, RewardsAssumption
<1>2. rest \in Nat /\ rest + fee <= most
    <2> HIDE DEF fee, paid
    <2> QED
        BY <1>1 DEF AfterCommission
<1>3. CASE D = {}
    <2>1. Dues(c) = [collator |-> paid, delegators |-> <<>>]
        BY <1>3 DEF Dues
    <2>2. DOMAIN Dues(c).delegators \ gone = {}
        BY <2>1
    <2>3. more = paid + 0
        BY <2>1, <2>2, SumOfNothing
    <2> HIDE DEF n, paid
    <2> QED
        BY <1>1, <2>3 DEF n
<1>4. CASE D # {}
    <2> DEFINE f == [d \in D |-> ShareOf(backers[d], c, rest)]
               r == [d \in D |-> FromRational(backers[d], whole)]
               stakes == SumFunctionOnSet(backers, D)
               own == FromRational(bond, whole)
               share == PercentOf(own, rest)
    <2>1. Dues(c) = [collator |-> share + fee, delegators |-> f]
        BY <1>4 DEF Dues, ShareOf, TotalStake
    <2>2. /\ stakes \in Nat /\ whole = bond + stakes /\ whole \in Nat \ {0}
          /\ \A d \in D : backers[d] \in 0 .. whole
          /\ bond \in 0 .. whole
        <3>1. \A d \in D : backers[d] \in Nat
            OBVIOUS
        <3>2. stakes \in Nat
            <4> HIDE DEF D
            <4> QED
                BY <3>1, SumType DEF D
        <3>3. \A d \in D : backers[d] <= stakes
            BY <3>1, SumAtLeast
        <3>4. whole = bond + stakes
            BY DEF SumFunction
        <3> HIDE DEF stakes, whole, bond, D
        <3> QED
            BY <1>1, <3>1, <3>2, <3>3, <3>4
    <2>3. /\ own \in Nat /\ whole * own <= bond * a
          /\ share \in Nat /\ 2 * (a * share) <= 2 * (own * rest) + a
        <3>1. own \in Nat /\ whole * own <= bond * a
            <4> HIDE DEF whole, bond
            <4> QED
                BY <2>2, RationalBounds
        <3> HIDE DEF own, rest
        <3> QED
            BY <1>2, <3>1, PercentBounds
    <2>4. ASSUME NEW d \in D
          PROVE  /\ f[d] \in Nat /\ r[d] \in Nat /\ backers[d] \in Nat
                 /\ whole * r[d] <= backers[d] * a
                 /\ 2 * (a * f[d]) <= 2 * (r[d] * rest) + a
        <3>1. f[d] = PercentOf(r[d], rest)
            BY DEF ShareOf, TotalStake
        <3>2. r[d] \in Nat /\ whole * r[d] <= backers[d] * a
            <4>1. r[d] = FromRational(backers[d], whole)
                OBVIOUS
            <4> HIDE DEF whole, r
            <4> QED
                BY <2>2, <4>1, RationalBounds
        <3> HIDE DEF f, r, rest
        <3> QED
            BY <1>2, <3>1, <3>2, PercentBounds
    <2> HIDE DEF f, r, whole, rest, bond, share, own
    <2>5. PICK X \in Nat :
            /\ whole * X <= a * stakes
            /\ 2 * (a * SumFunctionOnSet(f, D)) <= 2 * (X * rest) + a * n
        BY <1>2, <2>2, <2>4, SharesAddUp
    <2>6. /\ SumFunctionOnSet(f, D) \in Nat
          /\ SumFunctionOnSet(f, D \ gone) \in Nat
          /\ SumFunctionOnSet(f, D \ gone) <= SumFunctionOnSet(f, D)
        <3> DEFINE stay == D \ gone
                   left == D \intersect gone
        <3>1. /\ IsFiniteSet(stay) /\ IsFiniteSet(left) /\ stay \intersect left = {}
              /\ D = stay \union left
            BY FS_Subset
        <3>2. \A d \in stay \union left : f[d] \in Nat
            BY <2>4
        <3> HIDE DEF stay, left, D
        <3>3. SumFunctionOnSet(f, stay \union left)
                = SumFunctionOnSet(f, stay) + SumFunctionOnSet(f, left)
            BY <3>1, <3>2, SumUnion
        <3>4. SumFunctionOnSet(f, stay) \in Nat /\ SumFunctionOnSet(f, left) \in Nat
            BY <3>1, <3>2, SumType
        <3>5. /\ SumFunctionOnSet(f, D) \in Nat /\ SumFunctionOnSet(f, stay) \in Nat
              /\ SumFunctionOnSet(f, stay) <= SumFunctionOnSet(f, D)
            BY <3>1, <3>3, <3>4
        <3> QED
            BY <3>5 DEF stay
    <2> DEFINE all == SumFunctionOnSet(f, D)
               kept == SumFunctionOnSet(f, D \ gone)
    <2>7. X + own <= a
        <3>1. whole * (X + own) <= whole * a
            <4>1. /\ whole * (X + own) = whole * X + whole * own
                  /\ whole * a = bond * a + stakes * a
                  /\ stakes * a = a * stakes
                  /\ whole * X \in Nat /\ whole * own \in Nat
                  /\ bond * a \in Nat /\ stakes * a \in Nat
                BY <1>1, <2>2, <2>3, Products
            <4> QED
                BY <2>3, <2>5, <4>1
        <3> QED
            BY <1>1, <2>2, <2>3, <3>1, Products
    <2>8. 2 * (share + all) <= 2 * rest + (n + 1)
        <3>1. all \in Nat
            BY <2>6
        <3> HIDE DEF all, a, n, stakes
        <3>2. (X + own) * rest <= a * rest /\ (X + own) * rest = X * rest + own * rest
            BY <1>1, <1>2, <2>3, <2>7, Products
        <3>3. /\ X * rest \in Nat /\ own * rest \in Nat /\ a * rest \in Nat
              /\ a * share \in Nat /\ a * all \in Nat /\ a * n \in Nat
            BY <1>1, <1>2, <2>3, <3>1, Products
        <3>4. 2 * (a * share + a * all) <= 2 * (a * rest) + (a * n + a)
            <4>1. 2 * (a * all) <= 2 * (X * rest) + a * n
                BY <2>5 DEF all
            <4> QED
                BY <1>1, <2>3, <3>2, <3>3, <4>1
        <3>5. /\ a * (2 * (share + all)) = 2 * (a * share + a * all)
              /\ a * (2 * rest + (n + 1)) = 2 * (a * rest) + (a * n + a)
            BY <1>1, <1>2, <2>3, <3>1, Products
        <3>6. a * (2 * (share + all)) <= a * (2 * rest + (n + 1))
            BY <3>4, <3>5
        <3>7. 2 * (share + all) \in Nat /\ 2 * rest + (n + 1) \in Nat
            BY <1>1, <1>2, <2>3, <3>1
        <3> QED
            BY <1>1, <3>6, <3>7, Products
    <2>9. more = (share + fee) + kept
        BY <2>1 DEF f
    <2>10. all \in Nat /\ kept \in Nat /\ kept <= all
        BY <2>6
    <2> HIDE DEF all, kept, n, fee, paid, a
    <2> QED
        BY <1>1, <1>2, <2>3, <2>8, <2>9, <2>10 DEF n
<1> QED
    BY <1>3, <1>4

\* The state of a payment: what was awarded and is left is within the points of
\* the round, and what was minted is at most a part X of the limit that the
\* points of those already paid account for, but for the rounding.
RewardsTyped ==
    /\ issuance \in Nat /\ reward \in Nat /\ commission \in 0 .. Accuracy
    /\ exposure \in [RewardCollators -> [bond : Bonds, delegations : Backings]]
    /\ DOMAIN awarded \subseteq RewardCollators
    /\ awarded \in [DOMAIN awarded -> Nat \ {0}]
    /\ totalPoints \in Nat /\ SumFunction(awarded) <= totalPoints

MintedFits ==
    /\ minted \in Nat
    /\ totalPoints = 0 => minted = 0
    /\ \E X \in Nat :
         /\ totalPoints * X + Accuracy * SumFunction(awarded)
              <= Accuracy * totalPoints
         /\ 2 * (Accuracy * minted) <= 2 * (X * Limit) + Accuracy * Roundings

RewardsInv == RewardsTyped /\ MintedFits

\* The types of what is summed up.
LEMMA RewardsTypes ==
    ASSUME RewardsTyped
    PROVE  /\ Accuracy \in Nat \ {0} /\ IsFiniteSet(RewardCollators)
           /\ IsFiniteSet(DOMAIN awarded) /\ SumFunction(awarded) \in Nat
           /\ \A c \in RewardCollators :
                /\ exposure[c].bond \in Nat \ {0}
                /\ IsFiniteSet(DOMAIN exposure[c].delegations)
                /\ exposure[c].delegations \in [DOMAIN exposure[c].delegations -> Nat]
                /\ Cardinality(DOMAIN exposure[c].delegations) \in Nat
           /\ CollatorIssuance \in Nat /\ Limit \in Nat
           /\ Roundings \in Nat
<1>1. Accuracy \in Nat \ {0} /\ IsFiniteSet(RewardCollators)
    BY RewardsAssumption
<1>2. IsFiniteSet(DOMAIN awarded)
    BY <1>1, FS_Subset DEF RewardsTyped
<1>3. SumFunction(awarded) \in Nat
    <2>1. \A x \in DOMAIN awarded : awarded[x] \in Nat
        BY DEF RewardsTyped
    <2> QED
        BY <1>2, <2>1, SumType DEF SumFunction
<1>4. ASSUME NEW c \in RewardCollators
      PROVE  /\ exposure[c].bond \in Nat \ {0}
             /\ IsFiniteSet(DOMAIN exposure[c].delegations)
             /\ exposure[c].delegations \in [DOMAIN exposure[c].delegations -> Nat]
             /\ Cardinality(DOMAIN exposure[c].delegations) \in Nat
    <2>1. exposure[c] \in [bond : Bonds, delegations : Backings]
        BY DEF RewardsTyped
    <2>2. exposure[c].bond \in Bonds /\ exposure[c].delegations \in Backings
        BY <2>1
    <2> QED
        BY <2>2, RewardsAssumption, FS_CardinalityType
<1>5. CollatorIssuance \in Nat
    BY <1>1, PercentBounds DEF CollatorIssuance, RewardsTyped
<1>7. Limit \in Nat
    BY <1>5 DEF Limit, Larger, RewardsTyped
<1>6. Roundings \in Nat
    <2> DEFINE g == [c \in RewardCollators |->
                       2 + Cardinality(DOMAIN exposure[c].delegations)]
               P == RewardCollators \ DOMAIN awarded
    <2>1. IsFiniteSet(P) /\ \A c \in P : g[c] \in Nat
        BY <1>1, <1>4, FS_Subset
    <2> HIDE DEF g, P
    <2>2. SumFunctionOnSet(g, P) \in Nat
        BY <2>1, SumType
    <2> QED
        BY <2>2 DEF Roundings, g, P
<1> QED
    BY <1>1, <1>2, <1>3, <1>4, <1>5, <1>6, <1>7

LEMMA PayOneKeepsRewards ==
    ASSUME RewardsInv, NEW c \in RewardCollators, PayOneCollator(c)
    PROVE  RewardsInv'
<1>1. /\ RewardsTyped /\ c \in DOMAIN awarded
      /\ awarded' = Restrict(awarded, DOMAIN awarded \ {c})
      /\ UNCHANGED <<issuance, reward, commission, exposure, totalPoints>>
    BY DEF RewardsInv, PayOneCollator
<1>2. PICK gone :
        minted' = minted
                  + (Dues(c).collator
                     + SumFunctionOnSet(Dues(c).delegators,
                                        DOMAIN Dues(c).delegators \ gone))
    BY DEF PayOneCollator
<1> DEFINE a == Accuracy
           points == awarded[c]
           old == SumFunction(awarded)
           new == SumFunction(awarded')
           due == FromRational(points, totalPoints)
           limit == Limit
           most == PercentOf(due, limit)
           backers == exposure[c].delegations
           n == Cardinality(DOMAIN backers)
           more == Dues(c).collator
                   + SumFunctionOnSet(Dues(c).delegators, DOMAIN Dues(c).delegators \ gone)
<1>3. /\ a \in Nat \ {0} /\ reward \in Nat /\ limit \in Nat /\ totalPoints \in Nat /\ old \in Nat
      /\ points \in Nat \ {0} /\ n \in Nat /\ CollatorIssuance \in Nat
      /\ old <= totalPoints
    BY <1>1, RewardsTypes DEF RewardsTyped
<1>4. /\ DOMAIN awarded' = DOMAIN awarded \ {c}
      /\ awarded' = [x \in DOMAIN awarded \ {c} |-> awarded[x]]
    BY <1>1 DEF Restrict
<1>5. old = points + new /\ new \in Nat
    <2>1. IsFiniteSet(DOMAIN awarded) /\ \A x \in DOMAIN awarded : awarded[x] \in Nat
        BY <1>1, RewardsTypes DEF RewardsTyped
    <2> QED
        BY <1>1, <1>4, <2>1, SumDrop
<1>6. RewardsTyped'
    <2>1. awarded' \in [DOMAIN awarded' -> Nat \ {0}]
        BY <1>1, <1>4 DEF RewardsTyped
    <2>2. new <= totalPoints
        BY <1>3, <1>5
    <2> QED
        BY <1>1, <1>4, <2>1, <2>2 DEF RewardsTyped
<1>7. /\ minted' \in Nat
      /\ totalPoints # 0
      /\ \E X \in Nat :
           /\ totalPoints * X + a * new <= a * totalPoints
           /\ 2 * (a * minted') <= 2 * (X * limit) + a * Roundings'
    <2>1. PICK X \in Nat :
            /\ totalPoints * X + a * old <= a * totalPoints
            /\ 2 * (a * minted) <= 2 * (X * limit) + a * Roundings
        BY DEF RewardsInv, MintedFits
    <2>2. minted \in Nat /\ Roundings \in Nat
        BY <1>1, RewardsTypes DEF RewardsInv, MintedFits
    <2>3. totalPoints \in Nat \ {0} /\ points \in 0 .. totalPoints
        BY <1>3, <1>5
    <2>4. due \in Nat /\ totalPoints * due <= points * a
        <3> HIDE DEF points, due
        <3> QED
            BY <2>3, RationalBounds DEF due
    <2>5. most \in Nat /\ 2 * (a * most) <= 2 * (due * limit) + a
        <3> HIDE DEF due, limit
        <3> QED
            BY <1>3, <2>4, PercentBounds
    <2>6. more \in Nat /\ 2 * more <= 2 * most + 1 + n
        <3>1. /\ exposure[c].bond \in Nat \ {0}
              /\ IsFiniteSet(DOMAIN backers) /\ backers \in [DOMAIN backers -> Nat]
            BY <1>1, RewardsTypes
        <3> QED
            BY <1>3, <2>4, <3>1, DuesFit
    <2>7. Roundings' = Roundings + (2 + n)
        <3> DEFINE g == [x \in RewardCollators |->
                           2 + Cardinality(DOMAIN exposure[x].delegations)]
                   P == RewardCollators \ DOMAIN awarded
        <3>1. /\ IsFiniteSet(P) /\ c \notin P /\ \A x \in P \union {c} : g[x] \in Nat
            BY <1>1, RewardsTypes, FS_Subset
        <3>2. RewardCollators \ DOMAIN awarded' = P \union {c}
            BY <1>1, <1>4
        <3>3. g[c] = 2 + n
            OBVIOUS
        <3> HIDE DEF g, P, n
        <3>4. SumFunctionOnSet(g, P \union {c}) = g[c] + SumFunctionOnSet(g, P)
            BY <3>1, SumAdd
        <3>5. Roundings = SumFunctionOnSet(g, P)
            BY DEF Roundings, g, P
        <3>6. Roundings' = SumFunctionOnSet(g, P \union {c})
            BY <1>1, <3>2 DEF Roundings, g
        <3> QED
            BY <1>3, <2>2, <3>3, <3>4, <3>5, <3>6
    <2>8. minted' = minted + more
        BY <1>2
    <2> DEFINE R == Roundings
               R2 == Roundings'
               m2 == minted'
    <2> HIDE DEF a, points, old, new, due, limit, most, backers, n, more, R, R2, m2
    <2>9. X + due \in Nat /\ m2 \in Nat /\ m2 = minted + more /\ R2 = R + (2 + n) /\ R \in Nat
        BY <2>2, <2>4, <2>6, <2>7, <2>8 DEF R, R2, m2
    <2>10. totalPoints * (X + due) + a * new <= a * totalPoints
        <3>1. /\ totalPoints * (X + due) = totalPoints * X + totalPoints * due
              /\ a * old = a * points + a * new /\ a * points = points * a
              /\ totalPoints * X \in Nat /\ totalPoints * due \in Nat
              /\ a * points \in Nat /\ a * new \in Nat /\ a * totalPoints \in Nat
            BY <1>3, <1>5, <2>4, Products
        <3> QED
            BY <2>1, <2>4, <3>1
    <2>11. 2 * (a * m2) <= 2 * ((X + due) * limit) + a * R2
        <3>1. /\ a * m2 = a * minted + a * more
              /\ (X + due) * limit = X * limit + due * limit
              /\ a * R2 = a * R + a * (2 + n)
            BY <1>3, <2>2, <2>4, <2>6, <2>9, Products
        <3>2. a * (2 * more) <= a * (2 * most + (1 + n))
            <4>1. 2 * more \in Nat /\ 2 * most + (1 + n) \in Nat /\ 2 * more <= 2 * most + (1 + n)
                BY <1>3, <2>5, <2>6
            <4> QED
                BY <1>3, <4>1, Products
        <3>3. /\ a * (2 * more) = 2 * (a * more)
              /\ a * (2 * most + (1 + n)) = 2 * (a * most) + (a + a * n)
              /\ a * (2 + n) = 2 * a + a * n
            BY <1>3, <2>5, <2>6
        <3>4. /\ a * more \in Nat /\ a * minted \in Nat /\ a * most \in Nat /\ a * n \in Nat
              /\ X * limit \in Nat /\ due * limit \in Nat /\ a * R \in Nat
            BY <1>3, <2>2, <2>4, <2>5, <2>6, <2>9, Products
        <3>5. 2 * (a * minted) <= 2 * (X * limit) + a * R
            BY <2>1 DEF R
        <3> QED
            BY <1>3, <2>5, <3>1, <3>2, <3>3, <3>4, <3>5
    <2> QED
        BY <2>3, <2>9, <2>10, <2>11 DEF m2, R2
<1>8. MintedFits'
    <2>1. Limit' = limit
        BY <1>1 DEF CollatorIssuance, Limit, Larger
    <2> HIDE DEF new, a, limit
    <2> QED
        BY <1>1, <1>7, <2>1 DEF MintedFits, new, a
<1> QED
    BY <1>6, <1>8 DEF RewardsInv

LEMMA RewardsStart ==
    ASSUME RewardsInit
    PROVE  RewardsInv
<1>1. /\ issuance \in Nat /\ commission \in 0 .. Accuracy
      /\ exposure \in [RewardCollators -> [bond : Bonds, delegations : Backings]]
      /\ awarded \in [RewardCollators -> Nat \ {0}] /\ DOMAIN awarded = RewardCollators
      /\ totalPoints = SumFunction(awarded) /\ minted = 0
    BY RewardsAssumption DEF RewardsInit
<1>2. reward \in Nat
    <2>1. PICK percent \in Percents, exists \in BOOLEAN :
            reward = LeftAfterReserve(issuance, percent, exists)
        BY DEF RewardsInit
    <2>2. percent \in Nat /\ percent <= Accuracy
        BY RewardsAssumption
    <2>3. PercentOf(percent, issuance) \in Nat /\ PercentOf(percent, issuance) <= issuance
        BY <1>1, <2>2, PercentBounds
    <2> QED
        BY <1>1, <2>1, <2>3 DEF LeftAfterReserve
<1>3. SumFunction(awarded) \in Nat
    <2>1. IsFiniteSet(DOMAIN awarded) /\ \A x \in DOMAIN awarded : awarded[x] \in Nat
        BY <1>1, RewardsAssumption
    <2> QED
        BY <2>1, SumType DEF SumFunction
<1>4. RewardsTyped
    BY <1>1, <1>2, <1>3 DEF RewardsTyped
<1>5. Accuracy \in Nat /\ Roundings \in Nat /\ Limit \in Nat
    BY <1>4, RewardsTypes
<1>6. /\ totalPoints * 0 + Accuracy * SumFunction(awarded) <= Accuracy * totalPoints
      /\ 2 * (Accuracy * minted) <= 2 * (0 * Limit) + Accuracy * Roundings
    <2>1. Accuracy * totalPoints \in Nat /\ Accuracy * Roundings \in Nat
        BY <1>1, <1>3, <1>5, Products
    <2>2. totalPoints * 0 = 0 /\ Accuracy * 0 = 0 /\ 0 * Limit = 0
        BY <1>1, <1>2, <1>3, <1>5
    <2> QED
        BY <1>1, <2>1, <2>2
<1>7. MintedFits
    BY <1>1, <1>6 DEF MintedFits
<1> QED
    BY <1>4, <1>7 DEF RewardsInv

\* A round mints no more than the larger of its reward and the commission on the
\* whole issuance, but for half a unit for each amount that was rounded: whatever
\* the percentages, the accuracy, the points, the stakes, the order in which
\* collators are paid and the delegators that are gone by then.
THEOREM RewardsStayWithinReward == RewardsSpec => []RewardsWithinReward
<1>1. RewardsInit => RewardsInv
    BY RewardsStart
<1>2. RewardsInv /\ [RewardsNext]_rewardVars => RewardsInv'
    <2> SUFFICES ASSUME RewardsInv, [RewardsNext]_rewardVars PROVE RewardsInv'
        OBVIOUS
    <2>1. CASE UNCHANGED rewardVars
        BY <2>1 DEF RewardsInv, RewardsTyped, MintedFits, rewardVars, CollatorIssuance,
                    Limit, Larger, Roundings
    <2>2. CASE RewardsNext
        BY <2>2, PayOneKeepsRewards DEF RewardsNext
    <2> QED
        BY <2>1, <2>2
<1>3. RewardsInv => RewardsWithinReward
    <2> DEFINE limit == Limit
    <2> SUFFICES ASSUME RewardsInv
                 PROVE  2 * minted <= 2 * limit + Roundings
        BY DEF RewardsWithinReward, Limit
    <2> DEFINE a == Accuracy
               R == Roundings
               s == SumFunction(awarded)
    <2>1. /\ a \in Nat \ {0} /\ R \in Nat /\ s \in Nat
          /\ limit \in Nat /\ totalPoints \in Nat
          /\ minted \in Nat
          /\ totalPoints = 0 => minted = 0
        BY RewardsTypes DEF RewardsInv, RewardsTyped, MintedFits
    <2>2. PICK X \in Nat : /\ totalPoints * X + a * s <= a * totalPoints
                           /\ 2 * (a * minted) <= 2 * (X * limit) + a * R
        BY DEF RewardsInv, MintedFits
    <2> HIDE DEF a, R, s, limit
    <2>3. CASE totalPoints = 0
        BY <2>1, <2>3 DEF R
    <2>4. CASE totalPoints # 0
        <3>1. X <= a
            <4>1. /\ totalPoints * X \in Nat /\ a * s \in Nat
                  /\ a * totalPoints = totalPoints * a /\ totalPoints * a \in Nat
                BY <2>1, Products
            <4>2. totalPoints * X <= totalPoints * a
                BY <2>2, <4>1
            <4> QED
                BY <2>1, <2>4, <4>2, Products
        <3>2. X * limit <= a * limit
            BY <2>1, <3>1, Products
        <3>3. /\ X * limit \in Nat /\ a * limit \in Nat /\ a * R \in Nat
              /\ a * minted \in Nat
            BY <2>1, Products
        <3>4. 2 * (a * minted) <= 2 * (a * limit) + a * R
            BY <2>2, <3>2, <3>3
        <3>5. /\ a * (2 * minted) = 2 * (a * minted)
              /\ a * (2 * limit + R) = 2 * (a * limit) + a * R
            BY <2>1
        <3>6. 2 * minted \in Nat /\ 2 * limit + R \in Nat
              /\ a * (2 * minted) <= a * (2 * limit + R)
            BY <2>1, <3>4, <3>5
        <3>7. 2 * minted <= 2 * limit + R
            BY <2>1, <3>6, Products
        <3> QED
            BY <3>7 DEF R
    <2> QED
        BY <2>3, <2>4
<1> QED
    BY <1>1, <1>2, <1>3, PTL DEF RewardsSpec

-----------------------------------------------------------------------------
(* The migrations of a chain.                                              *)

\* Counting up from 0 reaches every number up to n.
LEMMA CountingUp ==
    ASSUME NEW n \in Nat, NEW Good, 0 \in Good,
           \A i \in 1 .. n : i - 1 \in Good => i \in Good
    PROVE  \A i \in 0 .. n : i \in Good
<1> DEFINE Bad == { S \in SUBSET (1 .. n) : \E i \in 0 .. n : i \notin Good /\ S = 1 .. i }
<1> SUFFICES ASSUME NEW k \in 0 .. n, k \notin Good
             PROVE  FALSE
    OBVIOUS
<1>1. IsFiniteSet(1 .. n)
    BY PositionsCounted
<1>2. Bad \in SUBSET SUBSET (1 .. n) /\ Bad # {}
    <2>1. 1 .. k \in Bad
        <3>1. 1 .. k \in SUBSET (1 .. n)
            OBVIOUS
        <3>2. \E i \in 0 .. n : i \notin Good /\ 1 .. k = 1 .. i
            OBVIOUS
        <3> QED
            BY <3>1, <3>2
    <2>2. Bad \subseteq SUBSET (1 .. n)
        OBVIOUS
    <2> HIDE DEF Bad
    <2> QED
        BY <2>1, <2>2
<1>3. PICK S \in Bad : \A U \in Bad : ~ (U \subseteq S /\ U # S)
    <2> DEFINE W == 1 .. n
    <2>1. IsFiniteSet(W) /\ Bad \in SUBSET SUBSET W /\ Bad # {}
        BY <1>1, <1>2
    <2> HIDE DEF Bad, W
    <2> QED
        BY <2>1, MinimalSubset
<1>4. PICK i \in 0 .. n : i \notin Good /\ S = 1 .. i
    BY <1>3
<1>5. i \in 1 .. n /\ i - 1 \in 0 .. n /\ i - 1 \notin Good
    BY <1>4
<1>6. 1 .. i - 1 \in Bad
    BY <1>5
<1>7. 1 .. i - 1 \subseteq 1 .. i /\ i \in 1 .. i /\ i \notin 1 .. i - 1
    BY <1>5
<1> HIDE DEF Bad
<1> QED
    BY <1>3, <1>4, <1>6, <1>7

\* The states of the loop over the first n migrations.
Loop(g, migrations, n) ==
    g = [i \in 0 .. n |-> IF i = 0 THEN [ran |-> ran, done |-> migrationState]
                          ELSE Migrate(g[i - 1], migrations[i])]

LEMMA PerformedIsLoop ==
    ASSUME NEW migrations
    PROVE  Performed(migrations)
             = (CHOOSE g : Loop(g, migrations, Len(migrations)))[Len(migrations)]
BY DEF Performed, Loop

LEMMA LoopRuns ==
    ASSUME NEW migrations, NEW n \in Nat
    PROVE  \E g : Loop(g, migrations, n)
<1> DEFINE Good == { i \in 0 .. n : \E g : Loop(g, migrations, i) }
<1>1. 0 \in Good
    <2> DEFINE h == [i \in 0 .. 0 |-> [ran |-> ran, done |-> migrationState]]
    <2>1. \A i \in 0 .. 0 : i = 0
        OBVIOUS
    <2>2. h = [i \in 0 .. 0 |-> IF i = 0 THEN [ran |-> ran, done |-> migrationState]
                                ELSE Migrate(h[i - 1], migrations[i])]
        BY <2>1
    <2> HIDE DEF h
    <2> QED
        BY <2>2 DEF Loop
<1>2. ASSUME NEW k \in 1 .. n, k - 1 \in Good
      PROVE  k \in Good
    <2>1. PICK g : Loop(g, migrations, k - 1)
        BY <1>2
    <2> DEFINE Next1(i) == Migrate(g[i - 1], migrations[i])
               h == [i \in 0 .. k |-> IF i = 0 THEN [ran |-> ran, done |-> migrationState]
                                      ELSE Next1(i)]
    <2>2. DOMAIN h = 0 .. k
        OBVIOUS
    <2>3. \A i \in 0 .. k - 1 : h[i] = g[i]
        <3>1. \A i \in 0 .. k - 1 : i \in 0 .. k
            OBVIOUS
        <3>2. \A i \in 0 .. k - 1 :
                g[i] = IF i = 0 THEN [ran |-> ran, done |-> migrationState]
                       ELSE Migrate(g[i - 1], migrations[i])
            BY <2>1 DEF Loop
        <3> QED
            BY <3>1, <3>2
    <2>4. \A i \in 0 .. k : i # 0 => i - 1 \in 0 .. k - 1
        OBVIOUS
    <2>5. \A i \in 0 .. k :
            h[i] = IF i = 0 THEN [ran |-> ran, done |-> migrationState]
                   ELSE Migrate(h[i - 1], migrations[i])
        BY <2>3, <2>4
    <2>6. h = [i \in 0 .. k |-> h[i]]
        OBVIOUS
    <2> HIDE DEF h
    <2>7. Loop(h, migrations, k)
        BY <2>5, <2>6 DEF Loop
    <2> QED
        BY <2>7
<1> HIDE DEF Good
<1>3. \A i \in 0 .. n : i \in Good
    BY <1>1, <1>2, CountingUp
<1>4. n \in Good
    BY <1>3
<1> QED
    BY <1>4 DEF Good

\* What the state of the loop satisfies: no migration ran twice, those that ran
\* are done, and what was done stays done.
LoopOK(state, before) ==
    /\ state.ran \in Seq(Migrations) /\ IsInjective(state.ran)
    /\ Range(state.ran) \subseteq state.done
    /\ before \subseteq state.done

LEMMA MigrateKeeps ==
    ASSUME NEW state, NEW before, LoopOK(state, before), NEW m \in Migrations
    PROVE  LoopOK(Migrate(state, m), before \union {m})
<1>1. CASE m \in state.done
    BY <1>1 DEF Migrate, LoopOK
<1>2. CASE m \notin state.done
    <2> DEFINE s == state.ran
               t == Append(s, m)
               after == [ran |-> t, done |-> state.done \union {m}]
    <2>1. s \in Seq(Migrations) /\ IsInjective(s) /\ m \notin Range(s)
        BY <1>2 DEF LoopOK
    <2>2. /\ t \in Seq(Migrations) /\ Len(t) = Len(s) + 1 /\ Len(s) \in Nat
          /\ \A i \in 1 .. Len(s) : t[i] = s[i]
          /\ t[Len(s) + 1] = m
          /\ DOMAIN s = 1 .. Len(s) /\ DOMAIN t = 1 .. Len(s) + 1
        BY <2>1, AppendProperties, LenProperties
    <2> HIDE DEF s, t
    <2>3. \A i \in 1 .. Len(s) + 1 : i \in 1 .. Len(s) \/ i = Len(s) + 1
        BY <2>2
    <2>4. \A i \in 1 .. Len(s) : s[i] \in Range(s)
        BY <2>2 DEF Range
    <2>5. IsInjective(t)
        BY <2>1, <2>2, <2>3, <2>4 DEF IsInjective
    <2>6. Range(t) \subseteq Range(s) \union {m}
        BY <2>2, <2>3, <2>4 DEF Range
    <2>7. Range(s) \subseteq state.done /\ before \subseteq state.done
        BY DEF LoopOK, s
    <2>8. Migrate(state, m) = after
        BY <1>2 DEF Migrate, t, s
    <2>9. LoopOK(after, before \union {m})
        BY <2>2, <2>5, <2>6, <2>7 DEF LoopOK
    <2> QED
        BY <2>8, <2>9
<1> QED
    BY <1>1, <1>2

\* The whole loop.
LEMMA PerformedKeeps ==
    ASSUME NEW migrations \in Seq(Migrations), ran \in Seq(Migrations),
           IsInjective(ran), Range(ran) \subseteq migrationState
    PROVE  LoopOK(Performed(migrations), migrationState \union Range(migrations))
<1> DEFINE n == Len(migrations)
           Seen(i) == migrationState \union { migrations[j] : j \in 1 .. i }
<1>1. n \in Nat /\ DOMAIN migrations = 1 .. n /\ \A i \in 1 .. n : migrations[i] \in Migrations
    BY LenProperties, ElementOfSeq
<1>2. PICK g : Loop(g, migrations, n) /\ Performed(migrations) = g[n]
    <2>1. \E g : Loop(g, migrations, n)
        BY <1>1, LoopRuns
    <2> QED
        BY <2>1, PerformedIsLoop
<1> HIDE DEF n
<1>3. \A i \in 0 .. n : g[i] = IF i = 0 THEN [ran |-> ran, done |-> migrationState]
                               ELSE Migrate(g[i - 1], migrations[i])
    BY <1>2 DEF Loop
<1> DEFINE Good == { i \in 0 .. n : LoopOK(g[i], Seen(i)) }
<1>4. 0 \in Good
    <2>1. 0 \in 0 .. n /\ g[0] = [ran |-> ran, done |-> migrationState]
        BY <1>1, <1>3
    <2>2. Seen(0) = migrationState
        OBVIOUS
    <2> HIDE DEF Seen
    <2> QED
        BY <2>1, <2>2 DEF LoopOK
<1>5. ASSUME NEW i \in 1 .. n, i - 1 \in Good
      PROVE  i \in Good
    <2>1. i \in 0 .. n /\ i # 0 /\ migrations[i] \in Migrations
        BY <1>1
    <2>2. g[i] = Migrate(g[i - 1], migrations[i])
        BY <1>3, <2>1
    <2>3. Seen(i) = Seen(i - 1) \union { migrations[i] }
        <3>1. 1 .. i = (1 .. i - 1) \union {i}
            BY <1>1
        <3> QED
            BY <3>1
    <2> HIDE DEF Seen
    <2>4. LoopOK(g[i - 1], Seen(i - 1))
        BY <1>5
    <2>5. LoopOK(Migrate(g[i - 1], migrations[i]), Seen(i - 1) \union { migrations[i] })
        BY <2>1, <2>4, MigrateKeeps
    <2> QED
        BY <2>1, <2>2, <2>3, <2>5
<1>6. n \in Good
    <2> HIDE DEF Good
    <2>1. \A i \in 0 .. n : i \in Good
        BY <1>1, <1>4, <1>5, CountingUp
    <2> QED
        BY <1>1, <2>1
<1>7. Seen(n) = migrationState \union Range(migrations)
    BY <1>1 DEF Range
<1> QED
    BY <1>2, <1>6, <1>7

\* No migration ran twice, those that ran are done, and the release in force has
\* had all of its migrations; before genesis nothing has run.
MigrationsInv ==
    /\ release \in Nat
    /\ release > 0 => /\ release \in DOMAIN Releases
                      /\ Range(Releases[release]) \subseteq migrationState
    /\ release = 0 => ran = <<>>
    /\ ran \in Seq(Migrations) /\ IsInjective(ran)
    /\ Range(ran) \subseteq migrationState

\* Whatever releases a chain has been through, and whichever it skipped, no
\* migration ran twice, and all that the present release lists have been
\* applied: perform_runtime_upgrades and the genesis of the migrations pallet.
THEOREM MigrationsRunOnce == UpgradeSpec => []MigratedOnce
<1>1. UpgradeInit => MigrationsInv
    <2> SUFFICES ASSUME UpgradeInit PROVE MigrationsInv
        OBVIOUS
    <2>1. release = 0 /\ ran = <<>> /\ migrationState = {}
        BY DEF UpgradeInit
    <2>2. ran \in Seq(Migrations) /\ DOMAIN ran = {}
        BY <2>1
    <2> QED
        BY <2>1, <2>2 DEF MigrationsInv, IsInjective, Range
<1>2. MigrationsInv /\ [UpgradeNext]_runtimeVars => MigrationsInv'
    <2> SUFFICES ASSUME MigrationsInv, [UpgradeNext]_runtimeVars PROVE MigrationsInv'
        OBVIOUS
    <2>1. \A r \in DOMAIN Releases : r \in Nat /\ r > 0 /\ Releases[r] \in Seq(Migrations)
        BY ReleasesAssumption, LenProperties, ElementOfSeq
    <2>2. CASE UNCHANGED upgradeVars
        BY <2>2 DEF MigrationsInv, upgradeVars, IsInjective, Range
    <2>3. ASSUME NEW r \in DOMAIN Releases, NEW m \in BOOLEAN, BuildGenesis(r, m)
          PROVE  MigrationsInv'
        <3>1. /\ release = 0 /\ release' = r /\ migrationState' = Range(Releases[r])
              /\ ran' = ran
            BY <2>3 DEF BuildGenesis
        <3>2. ran' = <<>> /\ ran' \in Seq(Migrations) /\ DOMAIN ran' = {}
            BY <3>1 DEF MigrationsInv
        <3> QED
            BY <2>1, <3>1, <3>2 DEF MigrationsInv, IsInjective, Range
    <2>4. ASSUME NEW r \in DOMAIN Releases, OnRuntimeUpgrade(r)
          PROVE  MigrationsInv'
        <3> DEFINE after == Performed(Releases[r])
        <3>1. /\ release' = r /\ ran' = after.ran /\ migrationState' = after.done
            BY <2>4 DEF OnRuntimeUpgrade
        <3>2. LoopOK(after, migrationState \union Range(Releases[r]))
            BY <2>1, PerformedKeeps DEF MigrationsInv
        <3> HIDE DEF after
        <3>3. /\ ran' \in Seq(Migrations) /\ IsInjective(ran')
              /\ Range(ran') \subseteq migrationState'
              /\ Range(Releases[r]) \subseteq migrationState'
            BY <3>1, <3>2 DEF LoopOK
        <3> QED
            BY <2>1, <3>1, <3>3 DEF MigrationsInv
    <2>5. CASE EnterMaintenanceMode \/ ResumeNormalOperation \/ OnIdle
        BY <2>2, <2>5 DEF EnterMaintenanceMode, ResumeNormalOperation, OnIdle
    <2>6. ASSUME NEW n \in 0 .. MaxMessages, NEW weight \in 0 .. MaxMessages,
                 HandleMessages(n, weight)
          PROVE  MigrationsInv'
        BY <2>2, <2>6 DEF HandleMessages
    <2>7. CASE UNCHANGED runtimeVars
        BY <2>2, <2>7 DEF runtimeVars
    <2> QED
        BY <2>3, <2>4, <2>5, <2>6, <2>7 DEF UpgradeNext
<1>3. MigrationsInv => MigratedOnce
    BY DEF MigrationsInv, MigratedOnce
<1> QED
    BY <1>1, <1>2, <1>3, PTL DEF UpgradeSpec

==============================================================================
