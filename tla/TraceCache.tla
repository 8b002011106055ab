------------------------------- MODULE TraceCache -------------------------------
(***************************************************************************)
(* The cache behind the trace_filter RPC: calls of `filter`, the one cache *)
(* task that serves them, the tasks it spawns to trace blocks, and the two *)
(* channels between them.                                                  *)
(*                                                                         *)
(* A call starts a batch of consecutive blocks, fetches them in order and  *)
(* stops the batch when it has them all, when its count is reached or when *)
(* a fetch fails.  The cache task handles one request, one message of a    *)
(* tracing task or one expired batch at a time, in any order.              *)
(*                                                                         *)
(* Abstractions: a block is its height; the traces of a block are not      *)
(* told apart from each other, only from the error of a replay that        *)
(* failed; a oneshot channel is the state of the call that awaits it       *)
(* (dropping its sender fails the call);                                   *)
(* a tracing task is known by the batch and the block it was spawned for,  *)
(* and its unqueue channel is open while the entry it was spawned with is. *)
(***************************************************************************)
EXTENDS Integers, Sequences, FiniteSets, FiniteSetsExt, Functions

CONSTANTS
    Calls,     \* calls of `filter`, each of which is made at most once
    Blocks,    \* heights of the chain
    Permits    \* of the semaphore of the tracing tasks

ASSUME TraceAssumption ==
    /\ Blocks \subseteq Nat \ {0} /\ IsFiniteSet(Blocks)
    /\ Permits \in Nat \ {0}

VARIABLES
    call,               \* progress of each call
    requests,           \* channel of CacheRequest, unbounded
    cached_blocks,
    batches,
    next_batch_id,
    batch_expirations,  \* stopped batches whose timer runs
    tasks,              \* <<batch, block>> -> what its tracing task is doing
    messages            \* channel of BlockingTaskMessage, bounded

cache == <<cached_blocks, batches, next_batch_id, batch_expirations>>
vars == <<call, requests, cache, tasks, messages>>

Call == [pc : {"idle", "starting", "fetching", "waiting", "done"},
         blocks : SUBSET Blocks,   \* it asks for
         todo : SUBSET Blocks,     \* it has not fetched yet
         batch : Nat,              \* its batch, once started
         limited : BOOLEAN,        \* its count may be reached early
         error : {"none", "replay", "cache"}]   \* of its last fetch

Request == [kind : {"StartBatch", "GetTraces", "StopBatch"}, call : Calls]

\* Cached results are traces ("Traced") or an error ("Failed").
Results == {"Traced", "Failed"}

\* `task` is the batch whose tracing task holds the other end of
\* unqueue_sender.
CacheBlock == [active_batch_count : Nat,
               state : {"Pooled"} \cup Results,
               started : BOOLEAN,
               waiting_requests : SUBSET Calls,
               task : Nat]

Message == [kind : {"Started"} \cup Results, block : Blocks]

NoBlocks == [b \in {} |-> {}]

Init ==
    /\ call = [c \in Calls |->
                 [pc |-> "idle", blocks |-> {}, todo |-> {}, batch |-> 0,
                  limited |-> FALSE, error |-> "none"]]
    /\ requests = <<>> /\ messages = <<>>
    /\ cached_blocks = NoBlocks /\ batches = NoBlocks /\ tasks = NoBlocks
    /\ next_batch_id = 0
    /\ batch_expirations = {}

-----------------------------------------------------------------------------
(* A call of `filter`.                                                     *)

Send(kind, c) == requests' = Append(requests, [kind |-> kind, call |-> c])

\* The blocks exist: `filter` has looked up their headers.  Genesis is left
\* out of the range, so a call may ask for no block at all.
Filter(c) ==
    /\ call[c].pc = "idle"
    /\ \E from, to \in Blocks \cup {0}, limited \in BOOLEAN :
         /\ from <= to
         /\ LET blocks == {b \in Blocks : from <= b /\ b <= to}
            IN  call' = [call EXCEPT ![c] =
                  [@ EXCEPT !.pc = "starting", !.blocks = blocks, !.todo = blocks,
                            !.limited = limited]]
    /\ Send("StartBatch", c)
    /\ UNCHANGED <<cache, tasks, messages>>

\* Whether the call asks for another block, or leaves fetch_traces.
MayFetch(c) == call[c].todo # {} /\ call[c].error = "none"
MayLeave(c) ==
    \/ call[c].todo = {} \/ call[c].error # "none"
    \/ call[c].limited /\ call[c].todo # call[c].blocks

GetTraces(c) ==
    /\ call[c].pc = "fetching" /\ MayFetch(c)
    /\ call' = [call EXCEPT ![c].pc = "waiting"]
    /\ Send("GetTraces", c)
    /\ UNCHANGED <<cache, tasks, messages>>

StopBatch(c) ==
    /\ call[c].pc = "fetching" /\ MayLeave(c)
    /\ call' = [call EXCEPT ![c].pc = "done"]
    /\ Send("StopBatch", c)
    /\ UNCHANGED <<cache, tasks, messages>>

\* The block a call waits for: it fetches them in order.
Awaited(c) == Min(call[c].todo)

\* The calls of cs receive the result of the block they wait for.
Received(cs, result) ==
    [c \in Calls |->
       IF c \notin cs THEN call[c]
       ELSE IF result = "Traced"
       THEN [call[c] EXCEPT !.pc = "fetching", !.todo = @ \ {Awaited(c)}]
       ELSE [call[c] EXCEPT !.pc = "fetching", !.error = "replay"]]

\* Their block is not batched, or their channel is closed.
Refused(cs) ==
    [c \in Calls |-> IF c \in cs
                     THEN [call[c] EXCEPT !.pc = "fetching", !.error = "cache"]
                     ELSE call[c]]

-----------------------------------------------------------------------------
(* The cache task.                                                         *)

Handles(kind, c) ==
    /\ requests # <<>>
    /\ Head(requests) = [kind |-> kind, call |-> c]
    /\ requests' = Tail(requests)

IsPooled(b) == b \in DOMAIN cached_blocks /\ cached_blocks[b].state = "Pooled"

Pooled(id) == [active_batch_count |-> 1, state |-> "Pooled", started |-> FALSE,
               waiting_requests |-> {}, task |-> id]

\* One more batch uses the blocks; those that are missing are pooled, each
\* with a task of its own.
CacheWith(blocks, id) ==
    [b \in DOMAIN cached_blocks \cup blocks |->
       IF b \notin DOMAIN cached_blocks THEN Pooled(id)
       ELSE IF b \in blocks THEN [cached_blocks[b] EXCEPT !.active_batch_count = @ + 1]
       ELSE cached_blocks[b]]

RequestStartBatch(c) ==
    LET id == next_batch_id
        blocks == call[c].blocks
        missing == blocks \ DOMAIN cached_blocks
    IN  /\ Handles("StartBatch", c)
        /\ batches' = [i \in DOMAIN batches \cup {id} |-> IF i = id THEN blocks ELSE batches[i]]
        /\ cached_blocks' = CacheWith(blocks, id)
        /\ tasks' = [t \in DOMAIN tasks \cup ({id} \X missing) |->
                       IF t \in DOMAIN tasks THEN tasks[t] ELSE "queued"]
        /\ call' = [call EXCEPT ![c].pc = "fetching", ![c].batch = id]
        /\ next_batch_id' = id + 1
        /\ UNCHANGED <<batch_expirations, messages>>

\* Waits with the block, gets what is cached, or is refused: the block was
\* not batched.
RequestGetTraces(c) ==
    LET b == Awaited(c)
    IN  /\ Handles("GetTraces", c)
        /\ \/ /\ IsPooled(b)
              /\ cached_blocks' = [cached_blocks EXCEPT ![b].waiting_requests = @ \cup {c}]
              /\ UNCHANGED call
           \/ /\ b \in DOMAIN cached_blocks /\ ~IsPooled(b)
              /\ call' = Received({c}, cached_blocks[b].state)
              /\ UNCHANGED cached_blocks
           \/ /\ b \notin DOMAIN cached_blocks
              /\ call' = Refused({c})
              /\ UNCHANGED cached_blocks
        /\ UNCHANGED <<batches, next_batch_id, batch_expirations, tasks, messages>>

\* Removing an entry drops the channels it holds: the calls that wait with it
\* fail and its task, if still queued, is cancelled.
RemoveBlocks(bs) == Restrict(cached_blocks, DOMAIN cached_blocks \ bs)

\* Fault: the channels of the calls outlive the entry.
WaitingWith_Forgotten(bs) == {}

WaitingWith(bs) == UNION {cached_blocks[b].waiting_requests : b \in bs}

\* Fault: cached blocks go with the batch, too.
NoLongerRequested_AnyState(blocks) ==
    {b \in blocks \cap DOMAIN cached_blocks : cached_blocks[b].active_batch_count = 1}

\* Blocks that only this batch pools and that are not started.
NoLongerRequested(blocks) ==
    {b \in blocks : /\ IsPooled(b)
                    /\ cached_blocks[b].active_batch_count = 1
                    /\ ~cached_blocks[b].started}

\* The batch itself stays until its timer, which starts now, expires.
RequestStopBatch(c) ==
    LET id == call[c].batch
        dropped == IF id \in DOMAIN batches THEN NoLongerRequested(batches[id]) ELSE {}
    IN  /\ Handles("StopBatch", c)
        /\ batch_expirations' = batch_expirations \cup {id}
        /\ cached_blocks' = RemoveBlocks(dropped)
        /\ call' = Refused(WaitingWith(dropped))
        /\ UNCHANGED <<batches, next_batch_id, tasks, messages>>

Reads(kind, b) ==
    /\ messages # <<>>
    /\ Head(messages) = [kind |-> kind, block |-> b]
    /\ messages' = Tail(messages)

BlockingStarted(b) ==
    /\ Reads("Started", b)
    /\ cached_blocks' = IF IsPooled(b) THEN [cached_blocks EXCEPT ![b].started = TRUE]
                        ELSE cached_blocks
    /\ UNCHANGED <<call, requests, batches, next_batch_id, batch_expirations, tasks>>

\* Traces of a block that has left the cache, or is cached already, are
\* ignored.
BlockingFinished(b, result) ==
    /\ Reads(result, b)
    /\ IF IsPooled(b)
       THEN /\ call' = Received(cached_blocks[b].waiting_requests, result)
            /\ cached_blocks' = [cached_blocks EXCEPT ![b].state = result,
                                                      ![b].waiting_requests = {}]
       ELSE UNCHANGED <<call, cached_blocks>>
    /\ UNCHANGED <<requests, batches, next_batch_id, batch_expirations, tasks>>

\* Fault: the last batch leaves an entry with a count of zero.
CacheWithout_KeptAtZero(blocks) ==
    [b \in DOMAIN cached_blocks |->
       IF b \in blocks THEN [cached_blocks[b] EXCEPT !.active_batch_count = @ - 1]
       ELSE cached_blocks[b]]

\* Fault: only the last batch is counted off.
CacheWithout_NotCounted(blocks) ==
    [b \in {x \in DOMAIN cached_blocks :
              x \in blocks => cached_blocks[x].active_batch_count # 1} |->
       cached_blocks[b]]

\* What is left of the cache when a batch of these blocks has expired.
CacheWithout(blocks) ==
    [b \in {x \in DOMAIN cached_blocks :
              x \in blocks => cached_blocks[x].active_batch_count # 1} |->
       IF b \in blocks THEN [cached_blocks[b] EXCEPT !.active_batch_count = @ - 1]
       ELSE cached_blocks[b]]

ExpiredBatch(id) ==
    /\ id \in batch_expirations
    /\ batch_expirations' = batch_expirations \ {id}
    /\ IF id \in DOMAIN batches
       THEN LET left == CacheWithout(batches[id])
            IN  /\ batches' = Restrict(batches, DOMAIN batches \ {id})
                /\ cached_blocks' = left
                /\ call' = Refused(WaitingWith(DOMAIN cached_blocks \ DOMAIN left))
       ELSE UNCHANGED <<batches, cached_blocks, call>>
    /\ UNCHANGED <<requests, next_batch_id, tasks, messages>>

-----------------------------------------------------------------------------
(* The tracing tasks.                                                      *)

\* The entry the task was spawned with still waits for it: its unqueue
\* channel is open.
Wanted(t) == IsPooled(t[2]) /\ cached_blocks[t[2]].task = t[1]

Holding == {t \in DOMAIN tasks : tasks[t] # "queued"}
HasRoom == Len(messages) < 2 * Permits

EndTask(t) == tasks' = Restrict(tasks, DOMAIN tasks \ {t})

\* The task may be cancelled or take a permit when both are possible.
TaskCancelled(t) ==
    /\ tasks[t] = "queued" /\ ~Wanted(t)
    /\ EndTask(t)
    /\ UNCHANGED <<call, requests, cache, messages>>

TaskAcquires(t) ==
    /\ tasks[t] = "queued" /\ Cardinality(Holding) < Permits
    /\ tasks' = [tasks EXCEPT ![t] = "starting"]
    /\ UNCHANGED <<call, requests, cache, messages>>

TaskStarts(t) ==
    /\ tasks[t] = "starting" /\ HasRoom
    /\ messages' = Append(messages, [kind |-> "Started", block |-> t[2]])
    /\ tasks' = [tasks EXCEPT ![t] = "tracing"]
    /\ UNCHANGED <<call, requests, cache>>

\* Fault: the result is dropped when the channel is full.
TaskFinishes_TrySend(t, result) ==
    /\ tasks[t] = "tracing"
    /\ messages' = IF HasRoom THEN Append(messages, [kind |-> result, block |-> t[2]])
                   ELSE messages
    /\ EndTask(t)
    /\ UNCHANGED <<call, requests, cache>>

\* Sends its result, and releases its permit; a replay that panics is an
\* error like any other.
TaskFinishes(t, result) ==
    /\ tasks[t] = "tracing" /\ HasRoom
    /\ messages' = Append(messages, [kind |-> result, block |-> t[2]])
    /\ EndTask(t)
    /\ UNCHANGED <<call, requests, cache>>

-----------------------------------------------------------------------------
CallSteps(c) == GetTraces(c) \/ StopBatch(c)
CacheHandles(c) == RequestStartBatch(c) \/ RequestGetTraces(c) \/ RequestStopBatch(c)
CacheReads(b) == BlockingStarted(b) \/ \E result \in Results : BlockingFinished(b, result)
TaskSteps(t) ==
    \/ TaskCancelled(t) \/ TaskAcquires(t) \/ TaskStarts(t)
    \/ \E result \in Results : TaskFinishes(t, result)

Next ==
    \/ \E c \in Calls : Filter(c) \/ CallSteps(c) \/ CacheHandles(c)
    \/ \E b \in Blocks : CacheReads(b)
    \/ \E id \in batch_expirations : ExpiredBatch(id)
    \/ \E t \in DOMAIN tasks : TaskSteps(t)

Spec == Init /\ [][Next]_vars

\* The executor runs every task, the cache task serves every channel that has
\* something for it, tracing a block ends and timers expire.
BatchIds == 0..(Cardinality(Calls) - 1)

Fairness ==
    /\ \A c \in Calls : WF_vars(CallSteps(c)) /\ WF_vars(CacheHandles(c))
    /\ \A b \in Blocks : WF_vars(CacheReads(b))
    /\ \A id \in BatchIds : WF_vars(ExpiredBatch(id))
    /\ \A t \in BatchIds \X Blocks : WF_vars(t \in DOMAIN tasks /\ TaskSteps(t))

FairSpec == Spec /\ Fairness

================================================================================
