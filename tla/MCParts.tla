--------------------------------- MODULE MCParts ---------------------------------
(***************************************************************************)
(* Small instances, for TLC, of the parts of the system that share no      *)
(* state: each behaviour exercises one of them, the others stand still at  *)
(* one initial state.                                                      *)
(***************************************************************************)
EXTENDS AssetManager, AuthorMapping, RuntimeUpgrade, StakingRewards, FaucetBot,
        DelegationOrder

CONSTANTS a1, a2, u1, u2, x1, x2

VARIABLE part    \* the part this behaviour is about

partsVars == <<part, assetVars, mappingVars, runtimeVars, rewardVars, faucetVars, list>>

MCReleases == << <<"m1">>, <<"m1", "m2">>, <<"m3", "m2", "m4">>, <<"m4">> >>
MCBackings == {<<>>, <<1>>, <<3>>, <<1, 2>>}

PartsInit ==
    /\ part \in {"assets", "mapping", "upgrade", "rewards", "faucet", "order"}
    /\ AssetsInit /\ UpgradeInit /\ FaucetInit /\ Init
    /\ MappingInit /\ (part # "mapping" => depositAmount = 1)
    /\ IF part = "rewards" THEN RewardsInit
       ELSE /\ issuance = 0 /\ reward = 0 /\ commission = 0
            /\ exposure = [c \in RewardCollators |-> [bond |-> 1, delegations |-> <<>>]]
            /\ awarded = [c \in RewardCollators |-> 0] /\ totalPoints = 0 /\ minted = 0

PartsNext ==
    /\ UNCHANGED part
    /\ \/ /\ part = "assets" /\ AssetsNext
          /\ UNCHANGED <<mappingVars, runtimeVars, rewardVars, faucetVars, list>>
       \/ /\ part = "mapping" /\ MappingNext
          /\ UNCHANGED <<assetVars, runtimeVars, rewardVars, faucetVars, list>>
       \/ /\ part = "upgrade" /\ UpgradeNext
          /\ UNCHANGED <<assetVars, mappingVars, rewardVars, faucetVars, list>>
       \/ /\ part = "rewards" /\ RewardsNext
          /\ UNCHANGED <<assetVars, mappingVars, runtimeVars, faucetVars, list>>
       \/ /\ part = "faucet" /\ FaucetNext
          /\ UNCHANGED <<assetVars, mappingVars, runtimeVars, rewardVars, list>>
       \/ /\ part = "order" /\ Next
          /\ UNCHANGED <<assetVars, mappingVars, runtimeVars, rewardVars, faucetVars>>

\* The totals of the lists are not compared and would grow without bound.
PartsView ==
    <<part, assetVars, mappingVars, runtimeVars, rewardVars, faucetVars, ListView>>

PartsSpec == PartsInit /\ [][PartsNext]_partsVars

================================================================================
