-------------------------------- MODULE FaucetBot --------------------------------
(***************************************************************************)
(* The faucet of the mission-control bot: requests that come in as Discord *)
(* messages, the queue they wait in, and the resolver that sends the funds *)
(* with a series of workers, one transfer per worker and turn.             *)
(*                                                                         *)
(* The program is one process of asynchronous functions: what runs between *)
(* two awaits is one action.  Every await is a step of its own, after      *)
(* which messages, ticks of the clock and transfers may have come first.   *)
(*                                                                         *)
(* The executor of a transfer's promise is one of these functions: it      *)
(* awaits the signature, then the send, and a failure of either is an      *)
(* unhandled rejection that no other function sees.                        *)
(*                                                                         *)
(* Abstractions: balances are enough or not; a request is its number, its  *)
(* contents are kept in `requests`, which the code does not have.          *)
(* External: Discord, the node, and whoever starts the process again.      *)
(***************************************************************************)
EXTENDS Naturals, Sequences, FiniteSets, Functions, SequencesExt

CONSTANTS
    Users, NotLimited,    \* Discord users, and NOT_LIMITED_USERS
    Addresses,
    Workers,              \* their number
    Interval,             \* FAUCET_SEND_INTERVAL, in ticks
    \* bounds of the model
    MaxNow, MaxRequests, MaxStarts

ASSUME FaucetAssumption == Interval \in Nat /\ Workers \in Nat

VARIABLES
    now,
    starts,                \* times the process was started
    discordUserReceivers,  \* last request by user; 0 when there is none
    addressReceivers,      \* last request by address
    pendingQueue,          \* requests not yet taken by a worker
    resolver,              \* where fundRequestsResolver is
    transferReceipts,      \* requests that workers took in this turn
    transfers,             \* taken request -> what became of its transfer: one
                           \* of "signing", "unsigned", "sent", "confirmed",
                           \* "rejected"
    requests               \* all requests that were accepted

faucetVars == <<now, starts, discordUserReceivers, addressReceivers, pendingQueue,
                resolver, transferReceipts, transfers, requests>>

\* The map of users is written under ids and under names.
UserKeys == {"id", "name"} \X Users
Id(u) == <<"id", u>>
Name(u) == <<"name", u>>

\* Turns begin with the first worker.
Turn == [at |-> "worker", n |-> 1]
Asleep == [at |-> "asleep", n |-> 0]

FaucetInit ==
    /\ now = Interval /\ starts = 1
    /\ discordUserReceivers = [k \in UserKeys |-> 0]
    /\ addressReceivers = [a \in Addresses |-> 0]
    /\ pendingQueue = <<>> /\ transferReceipts = <<>>
    /\ resolver = Turn
    /\ transfers = <<>> /\ requests = <<>>

-----------------------------------------------------------------------------
\* Fault: the user's last request is not looked at.
MayReceive_AnyUser(u, a) == addressReceivers[a] <= now - Interval

MayReceive(u, a) ==
    \/ u \in NotLimited
    \/ /\ discordUserReceivers[Id(u)] <= now - Interval
       /\ addressReceivers[a] <= now - Interval

\* botActionFaucetSend with a valid address; otherwise it only answers.
BotActionFaucetSend(u, a) ==
    /\ Len(requests) < MaxRequests
    /\ MayReceive(u, a)
    /\ requests' = Append(requests,
         [user |-> u, address |-> a, at |-> now, start |-> starts,
          prevTimestampUser |-> discordUserReceivers[Id(u)],
          prevTimestampAddress |-> addressReceivers[a]])
    /\ addressReceivers' = [addressReceivers EXCEPT ![a] = now]
    /\ discordUserReceivers' = [discordUserReceivers EXCEPT ![Id(u)] = now]
    /\ pendingQueue' = Append(pendingQueue, Len(requests) + 1)
    /\ UNCHANGED <<now, starts, resolver, transferReceipts, transfers>>

-----------------------------------------------------------------------------
(* resolveFundsRequests, and the loop around it.                           *)

AfterWorker(taken) ==
    IF resolver.n < Workers THEN [resolver EXCEPT !.n = @ + 1]
    ELSE IF taken = <<>> THEN Asleep
    ELSE [at |-> "receipt", n |-> 1]

\* Fault: the request stays in the queue.
Popped_Peeked(queue) == queue

\* What a worker with enough balance leaves in the queue: it takes the newest.
Popped(queue) == SubSeq(queue, 1, Len(queue) - 1)

\* The worker's balance arrives: if it can afford a transfer and there is a
\* request, the request is taken and its transfer goes off to be signed.  The
\* resolver goes on with the next worker.
WorkerIsFunded ==
    /\ resolver.at = "worker" /\ pendingQueue # <<>>
    /\ LET r == Last(pendingQueue)
           taken == Append(transferReceipts, r)
       IN  /\ transfers' = [x \in DOMAIN transfers \cup {r} |->
                              IF x = r THEN "signing" ELSE transfers[x]]
           /\ transferReceipts' = taken
           /\ resolver' = AfterWorker(taken)
    /\ pendingQueue' = Popped(pendingQueue)
    /\ UNCHANGED <<now, starts, discordUserReceivers, addressReceivers, requests>>

\* Its balance is too low, or the queue is empty.
WorkerIsIdle ==
    /\ resolver.at = "worker"
    /\ resolver' = AfterWorker(transferReceipts)
    /\ UNCHANGED <<now, starts, discordUserReceivers, addressReceivers, pendingQueue,
                   transferReceipts, transfers, requests>>

\* Its balance can not be read: the turn ends with ERROR_2_0, and nobody waits
\* for the transfers it has sent.
WorkerUnknown ==
    /\ resolver.at = "worker"
    /\ resolver' = Asleep
    /\ UNCHANGED <<now, starts, discordUserReceivers, addressReceivers, pendingQueue,
                   transferReceipts, transfers, requests>>

\* The executor's await of the signature ends: the transfer is sent, or the
\* executor is over and its promise never settles.
SigningEnds(r, outcome) ==
    /\ transfers[r] = "signing"
    /\ transfers' = [transfers EXCEPT ![r] = outcome]
    /\ UNCHANGED <<now, starts, discordUserReceivers, addressReceivers, pendingQueue,
                   resolver, transferReceipts, requests>>

Awaited == transferReceipts[resolver.n]

ReceiptArrives ==
    /\ resolver.at = "receipt" /\ transfers[Awaited] = "confirmed"
    /\ resolver' = [resolver EXCEPT !.at = "balance"]
    /\ UNCHANGED <<now, starts, discordUserReceivers, addressReceivers, pendingQueue,
                   transferReceipts, transfers, requests>>

AfterReceipt ==
    IF resolver.n < Len(transferReceipts) THEN [at |-> "receipt", n |-> resolver.n + 1]
    ELSE Asleep

ReportTransfer ==
    /\ resolver.at = "balance"
    /\ resolver' = AfterReceipt
    /\ UNCHANGED <<now, starts, discordUserReceivers, addressReceivers, pendingQueue,
                   transferReceipts, transfers, requests>>

\* The balance to report can not be read: the request is rolled back, under
\* the name of the user, and the user told to try again.
RollBack ==
    LET r == requests[Awaited]
    IN  /\ resolver.at = "balance"
        /\ discordUserReceivers' =
             [discordUserReceivers EXCEPT ![Name(r.user)] = r.prevTimestampUser]
        /\ addressReceivers' =
             [addressReceivers EXCEPT ![r.address] = r.prevTimestampAddress]
        /\ resolver' = AfterReceipt
        /\ UNCHANGED <<now, starts, pendingQueue, transferReceipts, transfers, requests>>

WakeUp ==
    /\ resolver = Asleep
    /\ resolver' = Turn
    /\ transferReceipts' = <<>>
    /\ UNCHANGED <<now, starts, discordUserReceivers, addressReceivers, pendingQueue,
                   transfers, requests>>

-----------------------------------------------------------------------------
\* External: the node includes a transfer, or refuses it or can not be reached.
\* The promise of a refused transfer never settles: its executor fails outside
\* of it.
TransferEnds(r, outcome) ==
    /\ transfers[r] = "sent"
    /\ transfers' = [transfers EXCEPT ![r] = outcome]
    /\ UNCHANGED <<now, starts, discordUserReceivers, addressReceivers, pendingQueue,
                   resolver, transferReceipts, requests>>

Tick ==
    /\ now < MaxNow
    /\ now' = now + 1
    /\ UNCHANGED <<starts, discordUserReceivers, addressReceivers, pendingQueue,
                   resolver, transferReceipts, transfers, requests>>

\* The process ends, as an unhandled rejection may make it, and is started
\* again; transfers that were sent go on, signatures do not.
Restart ==
    /\ starts < MaxStarts
    /\ starts' = starts + 1
    /\ discordUserReceivers' = [k \in UserKeys |-> 0]
    /\ addressReceivers' = [a \in Addresses |-> 0]
    /\ pendingQueue' = <<>> /\ transferReceipts' = <<>>
    /\ resolver' = Turn
    /\ transfers' = [r \in DOMAIN transfers |->
                       IF transfers[r] = "signing" THEN "unsigned" ELSE transfers[r]]
    /\ UNCHANGED <<now, requests>>

FaucetNext ==
    \/ \E u \in Users, a \in Addresses : BotActionFaucetSend(u, a)
    \/ WorkerIsFunded \/ WorkerIsIdle \/ WorkerUnknown
    \/ ReceiptArrives \/ ReportTransfer \/ RollBack \/ WakeUp
    \/ \E r \in DOMAIN transfers :
         \/ \E outcome \in {"sent", "unsigned"} : SigningEnds(r, outcome)
         \/ \E outcome \in {"confirmed", "rejected"} : TransferEnds(r, outcome)
    \/ Tick \/ Restart

FaucetSpec == FaucetInit /\ [][FaucetNext]_faucetVars

-----------------------------------------------------------------------------
\* The receipts of this turn that the resolver has awaited.
Arrived ==
    {i \in DOMAIN transferReceipts :
       \/ resolver.at = "receipt" /\ i < resolver.n
       \/ resolver.at = "balance" /\ i <= resolver.n}

\* The receipts of a turn are of different requests, each of which was taken,
\* and what was reported or rolled back so far had been confirmed.
ReceiptsInOrder ==
    /\ IsInjective(transferReceipts)
    /\ Range(transferReceipts) \subseteq DOMAIN transfers
    /\ \A i \in Arrived : transfers[transferReceipts[i]] = "confirmed"

\* A request the bot accepted waits in the queue, once, until a worker takes it,
\* and never comes back: through turns that fail between two awaits, signatures
\* and transfers that fail, and restarts, the faucet starts one transfer per
\* request at most.  What fails after that is not made up for: the request is
\* neither queued again nor rolled back, because a turn only gets past the
\* transfers that were confirmed.
RequestsAreTakenOnce ==
    LET queued == Range(pendingQueue)
        ours == {r \in DOMAIN requests : requests[r].start = starts}
    IN  /\ IsInjective(pendingQueue)
        /\ queued \cap DOMAIN transfers = {}
        /\ ours \subseteq queued \cup DOMAIN transfers
        /\ ReceiptsInOrder

\* "Funds transactions are limited to once every FAUCET_SEND_INTERVAL": as long
\* as the process runs, no user has two requests accepted within the interval,
\* through whichever channel, address and failure.
UsersWaitTheirTurn ==
    \A i, j \in DOMAIN requests :
      LET earlier == requests[i]
          later == requests[j]
      IN  (i < j /\ later.user = earlier.user /\ later.user \notin NotLimited
                /\ later.start = earlier.start)
            => later.at >= earlier.at + Interval

\* "rollback the update of user/address last funds request": who is asked to
\* try again is no longer held back by the request that failed.
RollbackIsComplete ==
    [][RollBack =>
         LET r == requests[Awaited]
         IN  discordUserReceivers'[Id(r.user)] = r.prevTimestampUser]_faucetVars

================================================================================
