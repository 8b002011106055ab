----------------------------- MODULE RuntimeUpgrade -----------------------------
(***************************************************************************)
(* What happens to the state of a chain when it is upgraded, and what      *)
(* maintenance mode holds back: the migrations pallet, which runs every    *)
(* listed migration that the chain has not run, and the maintenance-mode   *)
(* pallet, which chooses the call filter, the handlers of incoming         *)
(* messages and the hooks.                                                 *)
(*                                                                         *)
(* Abstractions: a release of the runtime is its list of migrations; a     *)
(* chain starts with any release and skips releases; weights are left out  *)
(* (a migration that exceeds its weight is logged and runs to its end).    *)
(* External: the queues of DMP and XCMP messages, which keep the messages  *)
(* a block has no weight for and serve them in later blocks, in order.     *)
(***************************************************************************)
EXTENDS Naturals, Sequences, SequencesExt

CONSTANTS
    Migrations,       \* names, which are the keys of MigrationState
    Releases,         \* sequence of lists of migrations
    MaxMessages       \* bound: messages a behaviour receives

ASSUME MessagesAssumption == MaxMessages \in Nat
ASSUME ReleasesAssumption == Releases \in Seq(Seq(Migrations))

VARIABLES
    release,          \* index of the runtime in force, 0 before genesis
    migrationState,   \* MigrationState: the migrations that are done
    fullyUpgraded,    \* FullyUpgraded
    ran,              \* migrations that changed the state, in order
    maintenanceMode,  \* MaintenanceMode
    sent,             \* number of messages the relay chain has sent
    queue,            \* those that wait in the queues
    executed          \* those that were executed, in order

upgradeVars == <<release, migrationState, fullyUpgraded, ran>>
messageVars == <<sent, queue, executed>>
runtimeVars == <<upgradeVars, maintenanceMode, messageVars>>

UpgradeInit ==
    /\ release = 0 /\ migrationState = {} /\ fullyUpgraded = FALSE /\ ran = <<>>
    /\ maintenanceMode = FALSE
    /\ sent = 0 /\ queue = <<>> /\ executed = <<>>

\* Genesis takes all listed migrations as applied; FullyUpgraded is not set.
BuildGenesis(first, startInMaintenance) ==
    /\ release = 0
    /\ release' = first
    /\ migrationState' = Range(Releases[first])
    /\ maintenanceMode' = startInMaintenance
    /\ UNCHANGED <<fullyUpgraded, ran, messageVars>>

\* Fault: a migration that is done runs again.
Migrate_Again(state, m) ==
    [ran |-> Append(state.ran, m), done |-> state.done \cup {m}]

\* One round of the loop: a migration that is done is passed over.
Migrate(state, m) ==
    IF m \in state.done THEN state
    ELSE [ran |-> Append(state.ran, m), done |-> state.done \cup {m}]

\* perform_runtime_upgrades: through the list, in its order.
Performed(migrations) ==
    LET state[i \in 0..Len(migrations)] ==
          IF i = 0 THEN [ran |-> ran, done |-> migrationState]
          ELSE Migrate(state[i - 1], migrations[i])
    IN  state[Len(migrations)]

\* The first block of a later release, in or out of maintenance: both sets of
\* hooks run on_runtime_upgrade.
OnRuntimeUpgrade(to) ==
    /\ 0 < release /\ release < to
    /\ release' = to
    /\ ran' = Performed(Releases[to]).ran
    /\ migrationState' = Performed(Releases[to]).done
    /\ fullyUpgraded' = TRUE
    /\ UNCHANGED <<maintenanceMode, messageVars>>

EnterMaintenanceMode ==
    /\ release > 0 /\ ~maintenanceMode
    /\ maintenanceMode' = TRUE
    /\ UNCHANGED <<upgradeVars, messageVars>>

ResumeNormalOperation ==
    /\ release > 0 /\ maintenanceMode
    /\ maintenanceMode' = FALSE
    /\ UNCHANGED <<upgradeVars, messageVars>>

\* Fault: maintenance mode keeps the handlers of normal operation.
HandlerLimit_Normal(weight) == weight

\* The weight of a block, in messages, that a handler may spend on them.
HandlerLimit(weight) == IF maintenanceMode THEN 0 ELSE weight

\* handle_dmp_messages and handle_xcmp_messages: n messages arrive, and what
\* the limit allows is executed, oldest first.
HandleMessages(n, weight) ==
    LET arrived == [i \in 1..n |-> sent + i]
        all == queue \o arrived
        done == SubSeq(all, 1, HandlerLimit(weight))
    IN  /\ release > 0 /\ sent + n <= MaxMessages /\ weight <= Len(all)
        /\ sent' = sent + n
        /\ executed' = executed \o done
        /\ queue' = SubSeq(all, Len(done) + 1, Len(all))
        /\ UNCHANGED <<upgradeVars, maintenanceMode>>

\* on_idle, which the hooks of maintenance mode leave out.
OnIdle ==
    /\ release > 0 /\ ~maintenanceMode /\ queue # <<>>
    /\ executed' = Append(executed, Head(queue))
    /\ queue' = Tail(queue)
    /\ UNCHANGED <<upgradeVars, maintenanceMode, sent>>

UpgradeNext ==
    \/ \E r \in DOMAIN Releases :
         OnRuntimeUpgrade(r) \/ \E m \in BOOLEAN : BuildGenesis(r, m)
    \/ EnterMaintenanceMode \/ ResumeNormalOperation
    \/ \E n \in 0..MaxMessages, weight \in 0..MaxMessages : HandleMessages(n, weight)
    \/ OnIdle

UpgradeSpec == UpgradeInit /\ [][UpgradeNext]_runtimeVars

-----------------------------------------------------------------------------
\* Whatever releases a chain has been through, and whichever it skipped, every
\* migration the present one lists has been applied: once, or never when the
\* chain was born with it.
MigratedOnce ==
    /\ IsInjective(ran)
    /\ release > 0 => Range(Releases[release]) \subseteq migrationState
    /\ Range(ran) \subseteq migrationState

\* No step in maintenance mode executes a message, and none is lost or
\* overtaken by it: the messages executed and those in the queue are, in this
\* order, all that were sent.
MessagesWaitForMaintenance ==
    [][/\ maintenanceMode => executed' = executed
       /\ executed' \o queue' = [i \in 1..sent' |-> i]]_runtimeVars

================================================================================
