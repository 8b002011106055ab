----------------------------- MODULE TraceProperties -----------------------------
(***************************************************************************)
(* What should be true of TraceCache.                                      *)
(***************************************************************************)
EXTENDS TraceCache

\* Type correctness of the channels, the calls, the cache and the tasks.
TraceTypeOK ==
    /\ call \in [Calls -> Call]
    /\ requests \in Seq(Request) /\ messages \in Seq(Message)
    /\ DOMAIN cached_blocks \subseteq Blocks
    /\ \A b \in DOMAIN cached_blocks :
         cached_blocks[b] \in CacheBlock /\ cached_blocks[b].active_batch_count > 0
    /\ next_batch_id \in Nat
    /\ DOMAIN batches \subseteq 0..(next_batch_id - 1)
    /\ \A id \in DOMAIN batches : batches[id] \subseteq Blocks
    /\ batch_expirations \subseteq DOMAIN batches
    /\ DOMAIN tasks \subseteq (0..(next_batch_id - 1)) \X Blocks
    /\ \A t \in DOMAIN tasks : tasks[t] \in {"queued", "starting", "tracing"}

UsersOf(b) == {id \in DOMAIN batches : b \in batches[id]}

\* A block is never kept for more batches than there are to expire: as every
\* expiry takes one off its count, no block stays in the cache for ever and no
\* count goes below zero.
CountsWithinBatches ==
    \A b \in DOMAIN cached_blocks :
      cached_blocks[b].active_batch_count <= Cardinality(UsersOf(b))

\* A pooled block is being taken care of: its own task is at work on it, or
\* traces of it, from this or an earlier task, are on their way.
PooledIsTraced ==
    \A b \in DOMAIN cached_blocks :
      IsPooled(b) =>
        \/ <<cached_blocks[b].task, b>> \in DOMAIN tasks
        \/ \E result \in Results : [kind |-> result, block |-> b] \in Range(messages)

\* A call that waits is known to someone who will answer: its request is on
\* its way, or it is on the list of exactly the block it wants.
WaitersAreKnown ==
    /\ \A c \in Calls : call[c].pc = "waiting" =>
         \/ [kind |-> "GetTraces", call |-> c] \in Range(requests)
         \/ /\ IsPooled(Awaited(c))
            /\ c \in cached_blocks[Awaited(c)].waiting_requests
    /\ \A b \in DOMAIN cached_blocks : \A c \in cached_blocks[b].waiting_requests :
         /\ call[c].pc = "waiting" /\ Awaited(c) = b
         /\ [kind |-> "GetTraces", call |-> c] \notin Range(requests)

\* While every call fetches all it asked for and replays succeed, the batches
\* are what the counts say, no call is refused by the cache, and blocks stay as
\* long as a batch that holds them has not expired: pages of the same range
\* trace each block once.
PatientCallsShare ==
    (\A c \in Calls : ~call[c].limited /\ call[c].error # "replay") =>
      /\ \A c \in Calls : call[c].error = "none"
      /\ \A id \in DOMAIN batches : \A b \in batches[id] :
           /\ b \in DOMAIN cached_blocks
           /\ cached_blocks[b].active_batch_count = Cardinality(UsersOf(b))

\* "If this block is missing from the cache, it means no batch asked for it":
\* the blocks of a batch that has not been stopped are in the cache.
MissingMeansNotBatched ==
    \A id \in DOMAIN batches :
      (\E c \in Calls : call[c].pc \in {"fetching", "waiting"} /\ call[c].batch = id)
        => batches[id] \subseteq DOMAIN cached_blocks

-----------------------------------------------------------------------------
\* Every call of `filter` is answered, in the end, whatever the other calls,
\* the tracing tasks and the timers do.
CallsEnd == \A c \in Calls : (call[c].pc = "starting") ~> (call[c].pc = "done")

\* The cache empties itself: what no call asks for any more is forgotten, and
\* the tasks that traced it end.
CacheDrains ==
    \A b \in Blocks :
      (b \in DOMAIN cached_blocks) ~> (b \notin DOMAIN cached_blocks /\ tasks = NoBlocks)

================================================================================
