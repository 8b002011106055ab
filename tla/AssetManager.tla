------------------------------ MODULE AssetManager ------------------------------
(***************************************************************************)
(* The asset-manager pallet: which foreign asset type an asset id stands   *)
(* for, and back, what execution costs in it and whether fees may be paid  *)
(* in it.  All its calls are those of AssetModifierOrigin.                 *)
(*                                                                         *)
(* Abstractions: types are numbers, in the order of SupportedFeePayment-   *)
(* Assets; the id of an asset is that of the type it was registered with   *)
(* (the hash AssetType::into), whatever type it is given later.  Metadata  *)
(* and minimum balances are left out.  External: pallet_assets refuses to  *)
(* create an id a second time, and nothing here destroys one.              *)
(***************************************************************************)
EXTENDS Naturals, Sequences, FiniteSets, Functions, SequencesExt

CONSTANTS AssetTypes, Units

ASSUME AssetsAssumption == AssetTypes \subseteq Nat /\ IsFiniteSet(AssetTypes)

VARIABLES
    assetIdType,        \* id -> type
    assetTypeId,        \* type -> id, its reverse
    unitsPerSecond,     \* AssetTypeUnitsPerSecond: type -> units
    supported,          \* SupportedFeePaymentAssets, sorted
    created             \* ids of pallet_assets

assetVars == <<assetIdType, assetTypeId, unitsPerSecond, supported, created>>

IdOf(type) == type
With(f, k, v) == [x \in DOMAIN f \cup {k} |-> IF x = k THEN v ELSE f[x]]
Less(f, k) == Restrict(f, DOMAIN f \ {k})

AssetsInit ==
    /\ assetIdType = <<>> /\ assetTypeId = <<>> /\ unitsPerSecond = <<>>
    /\ supported = <<>> /\ created = {}

-----------------------------------------------------------------------------
\* binary_search, then insert where it failed or remove where it succeeded.
Place(s, type) == Cardinality({i \in DOMAIN s : s[i] < type}) + 1
Found(s, type) == Place(s, type) <= Len(s) /\ s[Place(s, type)] = type

\* Fault: the type is pushed instead of inserted.
Include_AtTheEnd(s, type) == IF Found(s, type) THEN s ELSE Append(s, type)

Include(s, type) == IF Found(s, type) THEN s ELSE InsertAt(s, Place(s, type), type)

Exclude(s, type) == IF Found(s, type) THEN RemoveAt(s, Place(s, type)) ELSE s

\* The caller's hint of the number of supported assets.
HintFits(hint) == hint >= Len(supported)
Hints == 0..Cardinality(AssetTypes)

RegisterAsset(type) ==
    LET id == IdOf(type)
    IN  /\ id \notin DOMAIN assetIdType
        /\ id \notin created
        /\ created' = created \cup {id}
        /\ assetIdType' = With(assetIdType, id, type)
        /\ assetTypeId' = With(assetTypeId, type, id)
        /\ UNCHANGED <<unitsPerSecond, supported>>

SetAssetUnitsPerSecond(type, units, hint) ==
    /\ type \in DOMAIN assetTypeId
    /\ HintFits(hint)
    /\ supported' = Include(supported, type)
    /\ unitsPerSecond' = With(unitsPerSecond, type, units)
    /\ UNCHANGED <<assetIdType, assetTypeId, created>>

\* Fault: the entry of the old type is forgotten.
Remapped_OldStays(old, new, id) == With(assetTypeId, new, id)

\* The reverse map after id's type changed from old to new: the new entry is
\* written before the old one is removed.
Remapped(old, new, id) == Less(With(assetTypeId, new, id), old)

\* The price moves with the asset; a price the new type had is overwritten.
ChangeExistingAssetType(id, new, hint) ==
    /\ HintFits(hint)
    /\ id \in DOMAIN assetIdType
    /\ LET old == assetIdType[id]
       IN  /\ assetIdType' = With(assetIdType, id, new)
           /\ assetTypeId' = Remapped(old, new, id)
           /\ IF old \in DOMAIN unitsPerSecond
              THEN /\ supported' = Include(Exclude(supported, old), new)
                   /\ unitsPerSecond' =
                        With(Less(unitsPerSecond, old), new, unitsPerSecond[old])
              ELSE UNCHANGED <<supported, unitsPerSecond>>
    /\ UNCHANGED created

RemoveSupportedAsset(type, hint) ==
    /\ HintFits(hint)
    /\ supported' = Exclude(supported, type)
    /\ unitsPerSecond' = Less(unitsPerSecond, type)
    /\ UNCHANGED <<assetIdType, assetTypeId, created>>

RemoveExistingAssetType(id, hint) ==
    /\ HintFits(hint)
    /\ id \in DOMAIN assetIdType
    /\ LET type == assetIdType[id]
       IN  /\ assetIdType' = Less(assetIdType, id)
           /\ assetTypeId' = Less(assetTypeId, type)
           /\ unitsPerSecond' = Less(unitsPerSecond, type)
           /\ supported' = Exclude(supported, type)
    /\ UNCHANGED created

AssetsNext ==
    \E type \in AssetTypes, hint \in Hints :
      \/ RegisterAsset(type)
      \/ \E units \in Units : SetAssetUnitsPerSecond(type, units, hint)
      \/ RemoveSupportedAsset(type, hint)
      \/ RemoveExistingAssetType(IdOf(type), hint)
      \/ \E new \in AssetTypes : ChangeExistingAssetType(IdOf(type), new, hint)

AssetsSpec == AssetsInit /\ [][AssetsNext]_assetVars

-----------------------------------------------------------------------------
\* Tokens of a type are minted only as an asset that stands for that type: the
\* reverse map has no stale and no dangling entry, whatever types are given to
\* whom.  (The converse fails: an asset that is given the type of another, and
\* then a third one, leaves the other without a reverse entry.)
ReverseEntriesAreRight ==
    \A type \in DOMAIN assetTypeId :
      /\ assetTypeId[type] \in DOMAIN assetIdType
      /\ assetIdType[assetTypeId[type]] = type

\* Fees are accepted in exactly the types that have a price, and only in types
\* some asset stands for; the list stays strictly sorted, so that the binary
\* searches of every call find what is there.
FeeTypesArePriced ==
    /\ Range(supported) = DOMAIN unitsPerSecond
    /\ DOMAIN unitsPerSecond \subseteq Range(assetIdType)
    /\ \A i, j \in DOMAIN supported : i < j => supported[i] < supported[j]

================================================================================
