------------------------------- MODULE TraceProofs -------------------------------
(***************************************************************************)
(* Proofs, for any number of calls, blocks and permits, of the safety      *)
(* invariants of TraceProperties.                                          *)
(***************************************************************************)
EXTENDS TraceProperties, SumProofs

-----------------------------------------------------------------------------
(* The inductive invariant.  The properties rest on two facts about the    *)
(* protocol between calls and cache: a call has one request on its way at  *)
(* most, and it is the only one to use its batch, until it stops it.       *)

PcOf(kind) == CASE kind = "StartBatch" -> "starting"
                [] kind = "GetTraces" -> "waiting"
                [] kind = "StopBatch" -> "done"

Asks(kind, c) == [kind |-> kind, call |-> c]

OneRequestEach ==
    /\ \A r \in Range(requests) : call[r.call].pc = PcOf(r.kind)
    /\ \A i, j \in DOMAIN requests : requests[i].call = requests[j].call => i = j

UsesBatch(c) ==
    call[c].pc \in {"fetching", "waiting"} \/ Asks("StopBatch", c) \in Range(requests)

BatchesAreOwned ==
    /\ \A c \in Calls : UsesBatch(c) => call[c].batch \in DOMAIN batches \ batch_expirations
    /\ \A c, d \in Calls :
         UsesBatch(c) /\ UsesBatch(d) /\ call[c].batch = call[d].batch => c = d

TraceInv ==
    /\ TraceTypeOK /\ OneRequestEach /\ BatchesAreOwned
    /\ CountsWithinBatches /\ PooledIsTraced /\ WaitersAreKnown

-----------------------------------------------------------------------------
(* Sequences as channels.                                                  *)

\* Appending adds one element at the end.
LEMMA AppendFacts ==
    ASSUME NEW S, NEW s \in Seq(S), NEW e \in S
    PROVE  /\ Append(s, e) \in Seq(S)
           /\ DOMAIN Append(s, e) = 1..(Len(s) + 1)
           /\ Append(s, e)[Len(s) + 1] = e
           /\ \A i \in 1..Len(s) : Append(s, e)[i] = s[i]
           /\ Range(Append(s, e)) = Range(s) \cup {e}
<1>1. /\ Append(s, e) \in Seq(S) /\ DOMAIN Append(s, e) = 1..(Len(s) + 1)
      /\ Append(s, e)[Len(s) + 1] = e
      /\ \A i \in 1..Len(s) : Append(s, e)[i] = s[i]
      /\ Len(s) \in Nat /\ DOMAIN s = 1..Len(s)
  OBVIOUS
<1>2. Range(Append(s, e)) \subseteq Range(s) \cup {e}
  BY <1>1 DEF Range
<1>3. Range(s) \cup {e} \subseteq Range(Append(s, e))
  <2>1. ASSUME NEW x \in Range(s) PROVE x \in Range(Append(s, e))
    <3>1. PICK i \in DOMAIN s : s[i] = x BY DEF Range
    <3>2. i \in 1..Len(s) /\ i \in 1..(Len(s) + 1) BY <1>1, <3>1
    <3> QED BY <1>1, <3>1, <3>2 DEF Range
  <2>2. e \in Range(Append(s, e))
    <3>1. Len(s) + 1 \in 1..(Len(s) + 1) BY <1>1
    <3> QED BY <1>1, <3>1 DEF Range
  <2> QED BY <2>1, <2>2
<1> QED BY <1>1, <1>2, <1>3

\* Reading takes the first element off.
LEMMA TailFacts ==
    ASSUME NEW S, NEW s \in Seq(S), s # <<>>
    PROVE  /\ Tail(s) \in Seq(S) /\ Head(s) \in S /\ Head(s) = s[1]
           /\ DOMAIN Tail(s) = 1..(Len(s) - 1)
           /\ DOMAIN s = 1..Len(s) /\ 1 \in DOMAIN s
           /\ \A i \in DOMAIN Tail(s) : i + 1 \in DOMAIN s /\ Tail(s)[i] = s[i + 1]
           /\ Range(s) = Range(Tail(s)) \cup {Head(s)}
<1>1. /\ Tail(s) \in Seq(S) /\ Head(s) \in S /\ Head(s) = s[1]
      /\ DOMAIN Tail(s) = 1..(Len(s) - 1)
      /\ DOMAIN s = 1..Len(s) /\ Len(s) \in Nat \ {0}
  OBVIOUS
<1>2. 1 \in DOMAIN s BY <1>1
<1>3. \A i \in DOMAIN Tail(s) : i + 1 \in DOMAIN s /\ Tail(s)[i] = s[i + 1]
  BY <1>1
<1>4. ASSUME NEW x \in Range(Tail(s)) \cup {Head(s)} PROVE x \in Range(s)
  BY <1>1, <1>2, <1>3 DEF Range
<1>5. ASSUME NEW x \in Range(s), x # Head(s) PROVE x \in Range(Tail(s))
  <2>1. PICK i \in DOMAIN s : s[i] = x BY DEF Range
  <2>2. i \in 2..Len(s) /\ i - 1 \in DOMAIN Tail(s) /\ (i - 1) + 1 = i
    BY <1>1, <1>5, <2>1
  <2>3. Tail(s)[i - 1] = x BY <1>3, <2>1, <2>2
  <2> QED BY <2>2, <2>3 DEF Range
<1> QED BY <1>1, <1>2, <1>3, <1>4, <1>5

\* A call that has no request on its way may send one.
LEMMA SendFacts ==
    ASSUME requests \in Seq(Request), OneRequestEach,
           NEW c \in Calls, NEW kind \in {"StartBatch", "GetTraces", "StopBatch"},
           \A k \in {"StartBatch", "GetTraces", "StopBatch"} : call[c].pc # PcOf(k),
           Send(kind, c)
    PROVE  /\ requests' \in Seq(Request)
           /\ Range(requests') = Range(requests) \cup {Asks(kind, c)}
           /\ \A r \in Range(requests) : r \in Request /\ r.call # c
           /\ \A i, j \in DOMAIN requests' : requests'[i].call = requests'[j].call => i = j
<1> DEFINE e == Asks(kind, c)
<1>1. e \in Request /\ e.call = c /\ requests' = Append(requests, e)
  BY DEF Send, Asks, Request
<1>2. Range(requests) \subseteq Request
  BY DEF Range
<1>3. ASSUME NEW r \in Range(requests) PROVE r \in Request /\ r.call # c
  <2>1. r \in Request /\ r.kind \in {"StartBatch", "GetTraces", "StopBatch"}
    BY <1>2 DEF Request
  <2>2. call[r.call].pc = PcOf(r.kind) BY DEF OneRequestEach
  <2> QED BY <2>1, <2>2
<1> HIDE DEF e
<1>4. /\ requests' \in Seq(Request) /\ Range(requests') = Range(requests) \cup {e}
      /\ DOMAIN requests' = 1..(Len(requests) + 1) /\ requests'[Len(requests) + 1] = e
      /\ \A i \in 1..Len(requests) : requests'[i] = requests[i]
  BY <1>1, AppendFacts
<1>5. DOMAIN requests = 1..Len(requests) /\ Len(requests) \in Nat OBVIOUS
<1>6. \A i \in 1..Len(requests) : requests[i].call # c
  BY <1>3, <1>5 DEF Range
<1>7. \A i, j \in 1..Len(requests) : requests[i].call = requests[j].call => i = j
  BY <1>5 DEF OneRequestEach
<1>8. \A i, j \in DOMAIN requests' : requests'[i].call = requests'[j].call => i = j
  <2> SUFFICES ASSUME NEW i \in DOMAIN requests', NEW j \in DOMAIN requests',
                      requests'[i].call = requests'[j].call
               PROVE  i = j
    OBVIOUS
  <2>1. /\ i \in 1..Len(requests) \/ i = Len(requests) + 1
        /\ j \in 1..Len(requests) \/ j = Len(requests) + 1
    BY <1>4, <1>5
  <2> QED BY <1>1, <1>4, <1>6, <1>7, <2>1
<1> QED BY <1>3, <1>4, <1>8 DEF e

\* The request that is handled was the only one of its call.
LEMMA HandleFacts ==
    ASSUME requests \in Seq(Request), OneRequestEach,
           NEW c \in Calls, NEW kind \in {"StartBatch", "GetTraces", "StopBatch"},
           Handles(kind, c)
    PROVE  /\ requests' \in Seq(Request)
           /\ Range(requests) = Range(requests') \cup {Asks(kind, c)}
           /\ \A r \in Range(requests') : r \in Request /\ r.call # c
           /\ call[c].pc = PcOf(kind)
           /\ \A i, j \in DOMAIN requests' : requests'[i].call = requests'[j].call => i = j
<1> DEFINE e == Asks(kind, c)
<1>1. requests # <<>> /\ Head(requests) = e /\ requests' = Tail(requests)
  BY DEF Handles, Asks
<1>2. e.call = c /\ e.kind = kind BY DEF Asks
<1> HIDE DEF e
<1>3. /\ requests' \in Seq(Request) /\ requests[1] = e
      /\ 1 \in DOMAIN requests
      /\ \A i \in DOMAIN requests' : i + 1 \in DOMAIN requests /\ requests'[i] = requests[i + 1]
      /\ Range(requests) = Range(requests') \cup {e}
      /\ DOMAIN requests' = 1..(Len(requests) - 1) /\ Len(requests) \in Nat
  BY <1>1, TailFacts
<1>4. \A i, j \in DOMAIN requests : requests[i].call = requests[j].call => i = j
  BY DEF OneRequestEach
<1>5. \A i \in DOMAIN requests' : requests'[i].call # c
  <2> SUFFICES ASSUME NEW i \in DOMAIN requests', requests'[i].call = c PROVE FALSE
    OBVIOUS
  <2>1. i + 1 \in DOMAIN requests /\ requests[i + 1].call = requests[1].call
    BY <1>2, <1>3
  <2>2. i + 1 = 1 BY <1>3, <1>4, <2>1
  <2> QED BY <1>3, <2>2
<1>6. \A r \in Range(requests') : r \in Request /\ r.call # c
  BY <1>3, <1>5 DEF Range
<1>7. \A i, j \in DOMAIN requests' : requests'[i].call = requests'[j].call => i = j
  <2> SUFFICES ASSUME NEW i \in DOMAIN requests', NEW j \in DOMAIN requests',
                      requests'[i].call = requests'[j].call
               PROVE  i = j
    OBVIOUS
  <2>1. i + 1 = j + 1 BY <1>3, <1>4
  <2> QED BY <1>3, <2>1
<1>8. call[c].pc = PcOf(kind)
  BY <1>2, <1>3 DEF OneRequestEach, Range
<1> QED BY <1>3, <1>6, <1>7, <1>8 DEF e

-----------------------------------------------------------------------------
(* Steps of the tracing tasks.                                             *)

LEMMA InitInv == TraceAssumption /\ Init => TraceInv
<1> SUFFICES ASSUME TraceAssumption, Init PROVE TraceInv
  OBVIOUS
<1>1. /\ requests = <<>> /\ messages = <<>> /\ DOMAIN cached_blocks = {}
      /\ DOMAIN batches = {} /\ DOMAIN tasks = {}
      /\ next_batch_id = 0 /\ batch_expirations = {}
      /\ \A c \in Calls : call[c].pc = "idle"
  BY DEF Init, NoBlocks
<1>2. call \in [Calls -> Call]
  BY DEF Init, Call
<1>3. Range(requests) = {} /\ DOMAIN requests = {} /\ requests \in Seq(Request)
      /\ messages \in Seq(Message)
  BY <1>1 DEF Range
<1>4. TraceTypeOK
  BY <1>1, <1>2, <1>3 DEF TraceTypeOK
<1>5. OneRequestEach /\ BatchesAreOwned /\ WaitersAreKnown
  BY <1>1, <1>3 DEF OneRequestEach, BatchesAreOwned, UsesBatch, WaitersAreKnown
<1>6. CountsWithinBatches /\ PooledIsTraced
  BY <1>1 DEF CountsWithinBatches, PooledIsTraced
<1> QED BY <1>4, <1>5, <1>6 DEF TraceInv

\* What concerns neither tasks nor messages.
LEMMA CacheFrame ==
    ASSUME TraceInv, UNCHANGED <<call, requests, cache>>
    PROVE  OneRequestEach' /\ BatchesAreOwned' /\ CountsWithinBatches' /\ WaitersAreKnown'
<1>1. /\ call' = call /\ requests' = requests /\ cached_blocks' = cached_blocks
      /\ batches' = batches /\ batch_expirations' = batch_expirations
  BY DEF cache
<1>2. OneRequestEach' BY <1>1 DEF TraceInv, OneRequestEach
<1>3. BatchesAreOwned' BY <1>1 DEF TraceInv, BatchesAreOwned, UsesBatch
<1>4. CountsWithinBatches' BY <1>1 DEF TraceInv, CountsWithinBatches, UsersOf
<1>5. WaitersAreKnown' BY <1>1 DEF TraceInv, WaitersAreKnown, Awaited, IsPooled
<1> QED BY <1>2, <1>3, <1>4, <1>5

\* A task either goes on with its block, or ends when its entry does not want
\* it any more or with its result on the way.
LEMMA TaskStep ==
    ASSUME TraceInv, NEW t \in DOMAIN tasks, TaskSteps(t)
    PROVE  TraceInv'
<1>1. UNCHANGED <<call, requests, cache>>
  BY DEF TaskSteps, TaskCancelled, TaskAcquires, TaskStarts, TaskFinishes
<1>2. /\ call' = call /\ requests' = requests /\ cached_blocks' = cached_blocks
      /\ batches' = batches /\ batch_expirations' = batch_expirations
      /\ next_batch_id' = next_batch_id
  BY <1>1 DEF cache
<1>3. t[2] \in Blocks /\ t = <<t[1], t[2]>> /\ messages \in Seq(Message)
  BY DEF TraceInv, TraceTypeOK
<1>4. ASSUME NEW kind \in {"Started"} \cup Results,
             messages' = Append(messages, [kind |-> kind, block |-> t[2]])
      PROVE  /\ messages' \in Seq(Message)
             /\ Range(messages') = Range(messages) \cup {[kind |-> kind, block |-> t[2]]}
  <2>1. [kind |-> kind, block |-> t[2]] \in Message BY <1>3 DEF Message
  <2> QED BY <1>3, <1>4, <2>1, AppendFacts
<1>5. CASE TaskCancelled(t)
  <2>1. messages' = messages /\ DOMAIN tasks' = DOMAIN tasks \ {t}
        /\ \A x \in DOMAIN tasks' : tasks'[x] = tasks[x]
    BY <1>5 DEF TaskCancelled, EndTask, Restrict
  <2>2. TraceTypeOK' BY <1>2, <2>1 DEF TraceInv, TraceTypeOK
  <2>3. PooledIsTraced'
    <3> SUFFICES ASSUME NEW b \in DOMAIN cached_blocks, IsPooled(b)
                 PROVE  \/ <<cached_blocks[b].task, b>> \in DOMAIN tasks'
                        \/ \E result \in Results : [kind |-> result, block |-> b] \in Range(messages)
      BY <1>2, <2>1 DEF PooledIsTraced, IsPooled
    <3>1. ~Wanted(t) BY <1>5 DEF TaskCancelled
    <3>2. <<cached_blocks[b].task, b>> # t
      BY <1>3, <3>1 DEF Wanted
    <3> QED BY <2>1, <3>2 DEF TraceInv, PooledIsTraced
  <2> QED BY <1>1, <2>2, <2>3, CacheFrame DEF TraceInv
<1>6. CASE TaskAcquires(t)
  <2>1. messages' = messages /\ tasks' = [tasks EXCEPT ![t] = "starting"]
    BY <1>6 DEF TaskAcquires
  <2>2. TraceTypeOK' BY <1>2, <2>1 DEF TraceInv, TraceTypeOK
  <2>3. PooledIsTraced' BY <1>2, <2>1 DEF TraceInv, PooledIsTraced, IsPooled
  <2> QED BY <1>1, <2>2, <2>3, CacheFrame DEF TraceInv
<1>7. CASE TaskStarts(t)
  <2>1. /\ messages' = Append(messages, [kind |-> "Started", block |-> t[2]])
        /\ tasks' = [tasks EXCEPT ![t] = "tracing"]
    BY <1>7 DEF TaskStarts
  <2>2. messages' \in Seq(Message) /\ Range(messages) \subseteq Range(messages')
    BY <1>4, <2>1
  <2>3. TraceTypeOK' BY <1>2, <2>1, <2>2 DEF TraceInv, TraceTypeOK
  <2>4. PooledIsTraced' BY <1>2, <2>1, <2>2 DEF TraceInv, PooledIsTraced, IsPooled
  <2> QED BY <1>1, <2>3, <2>4, CacheFrame DEF TraceInv
<1>8. ASSUME NEW result \in Results, TaskFinishes(t, result) PROVE TraceInv'
  <2>1. /\ messages' = Append(messages, [kind |-> result, block |-> t[2]])
        /\ DOMAIN tasks' = DOMAIN tasks \ {t}
        /\ \A x \in DOMAIN tasks' : tasks'[x] = tasks[x]
    BY <1>8 DEF TaskFinishes, EndTask, Restrict
  <2>2. /\ messages' \in Seq(Message) /\ Range(messages) \subseteq Range(messages')
        /\ [kind |-> result, block |-> t[2]] \in Range(messages')
    BY <1>4, <2>1
  <2>3. TraceTypeOK' BY <1>2, <2>1, <2>2 DEF TraceInv, TraceTypeOK
  <2>4. PooledIsTraced'
    <3> SUFFICES ASSUME NEW b \in DOMAIN cached_blocks, IsPooled(b)
                 PROVE  \/ <<cached_blocks[b].task, b>> \in DOMAIN tasks'
                        \/ \E r \in Results : [kind |-> r, block |-> b] \in Range(messages')
      BY <1>2 DEF PooledIsTraced, IsPooled
    <3>1. CASE t = <<cached_blocks[b].task, b>>
      <4>1. t[2] = b BY <3>1
      <4> QED BY <2>2, <4>1
    <3>2. CASE t # <<cached_blocks[b].task, b>>
      BY <2>1, <2>2, <3>2 DEF TraceInv, PooledIsTraced
    <3> QED BY <3>1, <3>2
  <2> QED BY <1>1, <2>3, <2>4, CacheFrame DEF TraceInv
<1> QED BY <1>5, <1>6, <1>7, <1>8 DEF TaskSteps

-----------------------------------------------------------------------------
(* Steps of the calls.                                                     *)

\* A call sends its next request.
LEMMA AskingKeepsInv ==
    ASSUME TraceInv, NEW c \in Calls,
           NEW kind \in {"StartBatch", "GetTraces", "StopBatch"},
           call[c].pc = IF kind = "StartBatch" THEN "idle" ELSE "fetching",
           call' \in [Calls -> Call],
           call'[c].pc = PcOf(kind), call'[c].batch = call[c].batch,
           \A d \in Calls \ {c} : call'[d] = call[d],
           Send(kind, c), UNCHANGED <<cache, tasks, messages>>
    PROVE  TraceInv'
<1>1. /\ cached_blocks' = cached_blocks /\ batches' = batches /\ tasks' = tasks
      /\ batch_expirations' = batch_expirations /\ messages' = messages
      /\ next_batch_id' = next_batch_id
  BY DEF cache
<1>2. /\ requests' \in Seq(Request)
      /\ Range(requests') = Range(requests) \cup {Asks(kind, c)}
      /\ \A r \in Range(requests) : r \in Request /\ r.call # c
      /\ \A i, j \in DOMAIN requests' : requests'[i].call = requests'[j].call => i = j
  BY SendFacts DEF TraceInv, TraceTypeOK, PcOf
<1>3. TraceTypeOK' BY <1>1, <1>2 DEF TraceInv, TraceTypeOK
<1>4. CountsWithinBatches' /\ PooledIsTraced'
  BY <1>1 DEF TraceInv, CountsWithinBatches, UsersOf, PooledIsTraced, IsPooled
<1>5. \A r \in Range(requests') : call'[r.call].pc = PcOf(r.kind)
  <2> SUFFICES ASSUME NEW r \in Range(requests') PROVE call'[r.call].pc = PcOf(r.kind)
    OBVIOUS
  <2>1. CASE r = Asks(kind, c) BY <2>1 DEF Asks
  <2>2. CASE r \in Range(requests)
    <3>1. r.call \in Calls \ {c} BY <1>2, <2>2 DEF Request
    <3> QED BY <2>2, <3>1 DEF TraceInv, OneRequestEach
  <2> QED BY <1>2, <2>1, <2>2
<1>6. OneRequestEach' BY <1>2, <1>5 DEF OneRequestEach
<1>7. ASSUME NEW d \in Calls, UsesBatch(d)'
      PROVE  UsesBatch(d) /\ call'[d].batch = call[d].batch
  <2>1. CASE d = c
    <3>1. Asks("StopBatch", c) \in Range(requests') => kind = "StopBatch"
      BY <1>2 DEF Asks
    <3>2. kind # "StartBatch"
      BY <1>7, <2>1, <3>1 DEF UsesBatch, PcOf
    <3> QED BY <2>1, <3>2 DEF UsesBatch
  <2>2. CASE d # c
    <3>1. Asks("StopBatch", d) # Asks(kind, c) BY <2>2 DEF Asks
    <3> QED BY <1>2, <1>7, <2>2, <3>1 DEF UsesBatch
  <2> QED BY <2>1, <2>2
<1>8. BatchesAreOwned' BY <1>1, <1>7 DEF TraceInv, BatchesAreOwned
<1>9. \A d \in Calls \ {c} : Awaited(d)' = Awaited(d) BY DEF Awaited
<1>10. ASSUME NEW d \in Calls, call'[d].pc = "waiting"
       PROVE  \/ Asks("GetTraces", d) \in Range(requests')
              \/ IsPooled(Awaited(d)') /\ d \in cached_blocks[Awaited(d)'].waiting_requests
  <2>1. CASE d = c
    <3>1. kind = "GetTraces" BY <1>10, <2>1 DEF PcOf
    <3> QED BY <1>2, <2>1, <3>1
  <2>2. CASE d # c
    BY <1>2, <1>9, <1>10, <2>2 DEF TraceInv, WaitersAreKnown, Asks
  <2> QED BY <2>1, <2>2
<1>11. ASSUME NEW b \in DOMAIN cached_blocks, NEW d \in cached_blocks[b].waiting_requests
       PROVE  /\ call'[d].pc = "waiting" /\ Awaited(d)' = b
              /\ Asks("GetTraces", d) \notin Range(requests')
  <2>1. d \in Calls BY DEF TraceInv, TraceTypeOK, CacheBlock
  <2>2. call[d].pc = "waiting" /\ Awaited(d) = b /\ Asks("GetTraces", d) \notin Range(requests)
    BY DEF TraceInv, WaitersAreKnown, Asks
  <2>3. d # c BY <2>2
  <2>4. Asks("GetTraces", d) # Asks(kind, c) BY <2>3 DEF Asks
  <2> QED BY <1>2, <1>9, <2>1, <2>2, <2>3, <2>4
<1>12. WaitersAreKnown'
  BY <1>1, <1>10, <1>11 DEF WaitersAreKnown, Asks, IsPooled
<1> QED BY <1>3, <1>4, <1>6, <1>8, <1>12 DEF TraceInv

LEMMA CallStep ==
    ASSUME TraceInv, NEW c \in Calls, Filter(c) \/ CallSteps(c)
    PROVE  TraceInv'
<1>1. call \in [Calls -> Call] /\ call[c] \in Call BY DEF TraceInv, TraceTypeOK
<1>2. CASE Filter(c)
  <2>1. \E from, to \in Blocks \cup {0}, limited \in BOOLEAN :
          /\ from <= to
          /\ LET blocks == {b \in Blocks : from <= b /\ b <= to}
             IN  call' = [call EXCEPT ![c] =
                   [@ EXCEPT !.pc = "starting", !.blocks = blocks, !.todo = blocks,
                             !.limited = limited]]
    BY <1>2, Zenon DEF Filter
  <2>2. PICK blocks \in SUBSET Blocks, limited \in BOOLEAN :
          call' = [call EXCEPT ![c] =
                [call[c] EXCEPT !.pc = "starting", !.blocks = blocks, !.todo = blocks,
                                !.limited = limited]]
    BY <2>1
  <2>4. call' \in [Calls -> Call] BY <1>1, <2>2 DEF Call
  <2>5. call'[c].pc = "starting" /\ call'[c].batch = call[c].batch
    BY <1>1, <2>2 DEF Call
  <2>6. \A d \in Calls \ {c} : call'[d] = call[d] BY <1>1, <2>2
  <2>7. call[c].pc = "idle" /\ Send("StartBatch", c) /\ UNCHANGED <<cache, tasks, messages>>
    BY <1>2 DEF Filter
  <2> QED BY <2>4, <2>5, <2>6, <2>7, AskingKeepsInv DEF PcOf
<1>3. ASSUME NEW kind \in {"GetTraces", "StopBatch"}, call[c].pc = "fetching",
             call' = [call EXCEPT ![c].pc = PcOf(kind)],
             Send(kind, c), UNCHANGED <<cache, tasks, messages>>
      PROVE  TraceInv'
  <2>1. PcOf(kind) \in {"waiting", "done"} BY DEF PcOf
  <2>2. call' \in [Calls -> Call] BY <1>1, <1>3, <2>1 DEF Call
  <2>3. call'[c].pc = PcOf(kind) /\ call'[c].batch = call[c].batch
    BY <1>1, <1>3 DEF Call
  <2>4. \A d \in Calls \ {c} : call'[d] = call[d] BY <1>1, <1>3
  <2> QED BY <1>3, <2>2, <2>3, <2>4, AskingKeepsInv
<1>4. CASE GetTraces(c) BY <1>3, <1>4 DEF GetTraces, PcOf
<1>5. CASE StopBatch(c) BY <1>3, <1>5 DEF StopBatch, PcOf
<1> QED BY <1>2, <1>4, <1>5 DEF CallSteps

-----------------------------------------------------------------------------
(* Answers.                                                                *)

\* The calls of cs, which waited, are answered.
Answered(cs) ==
    /\ cs \subseteq Calls
    /\ call' \in [Calls -> Call]
    /\ \A c \in cs : call[c].pc = "waiting" /\ call'[c].pc = "fetching"
                     /\ call'[c].batch = call[c].batch
    /\ \A c \in Calls \ cs : call'[c] = call[c]

LEMMA AnswerFacts ==
    ASSUME call \in [Calls -> Call], NEW cs \in SUBSET Calls,
           \A c \in cs : call[c].pc = "waiting",
           call' = Refused(cs) \/ \E result \in Results : call' = Received(cs, result)
    PROVE  Answered(cs)
<1>1. \A c \in Calls : call[c] \in Call OBVIOUS
<1>2. CASE call' = Refused(cs)
  <2>1. call' \in [Calls -> Call] BY <1>1, <1>2 DEF Refused, Call
  <2>2. \A c \in cs : call'[c].pc = "fetching" /\ call'[c].batch = call[c].batch
    BY <1>1, <1>2 DEF Refused, Call
  <2>3. \A c \in Calls \ cs : call'[c] = call[c] BY <1>2 DEF Refused
  <2> QED BY <2>1, <2>2, <2>3 DEF Answered
<1>3. ASSUME NEW result \in Results, call' = Received(cs, result) PROVE Answered(cs)
  <2> DEFINE After(c) == IF result = "Traced"
                THEN [call[c] EXCEPT !.pc = "fetching", !.todo = @ \ {Awaited(c)}]
                ELSE [call[c] EXCEPT !.pc = "fetching", !.error = "replay"]
  <2>1. ASSUME NEW c \in Calls
        PROVE  After(c) \in Call /\ After(c).pc = "fetching" /\ After(c).batch = call[c].batch
    <3> DEFINE todo == call[c].todo \ {Awaited(c)}
    <3>1. todo \in SUBSET Blocks BY <1>1 DEF Call
    <3>2. After(c) = IF result = "Traced"
                     THEN [call[c] EXCEPT !.pc = "fetching", !.todo = todo]
                     ELSE [call[c] EXCEPT !.pc = "fetching", !.error = "replay"]
      BY <1>1 DEF Call
    <3> HIDE DEF todo, After
    <3> QED BY <1>1, <3>1, <3>2 DEF Call
  <2>2. call' = [c \in Calls |-> IF c \notin cs THEN call[c] ELSE After(c)]
    BY <1>3 DEF Received
  <2> HIDE DEF After
  <2> QED BY <1>1, <2>1, <2>2 DEF Answered
<1> QED BY <1>2, <1>3

\* The calls on the lists of some entries wait, for one of these, and have no
\* request on its way.
LEMMA WaitersOf ==
    ASSUME TraceInv, NEW bs \in SUBSET DOMAIN cached_blocks
    PROVE  /\ WaitingWith(bs) \in SUBSET Calls
           /\ \A c \in WaitingWith(bs) :
                /\ call[c].pc = "waiting" /\ Awaited(c) \in bs
                /\ \A r \in Range(requests) : r.call # c
<1>1. ASSUME NEW c \in WaitingWith(bs)
      PROVE  /\ c \in Calls /\ call[c].pc = "waiting" /\ Awaited(c) \in bs
             /\ \A r \in Range(requests) : r.call # c
  <2>1. PICK b \in bs : c \in cached_blocks[b].waiting_requests BY DEF WaitingWith
  <2>2. c \in Calls BY <2>1 DEF TraceInv, TraceTypeOK, CacheBlock
  <2>3. /\ call[c].pc = "waiting" /\ Awaited(c) = b
        /\ Asks("GetTraces", c) \notin Range(requests)
    BY <2>1 DEF TraceInv, WaitersAreKnown, Asks
  <2>4. ASSUME NEW r \in Range(requests), r.call = c PROVE FALSE
    <3>1. r \in Request BY DEF Range, TraceInv, TraceTypeOK
    <3>2. call[c].pc = PcOf(r.kind) BY <2>4 DEF TraceInv, OneRequestEach
    <3>3. r.kind = "GetTraces" BY <2>3, <3>1, <3>2 DEF PcOf, Request
    <3>4. r = Asks("GetTraces", c) BY <2>4, <3>1, <3>3 DEF Asks, Request
    <3> QED BY <2>3, <3>4
  <2> QED BY <2>1, <2>2, <2>3, <2>4
<1> QED BY <1>1

\* Answers, with at most a request less on its way, keep requests and batches
\* as they should be.
LEMMA AnswersKeepQueue ==
    ASSUME TraceInv, NEW cs, Answered(cs), requests' \in Seq(Request),
           Range(requests') \subseteq Range(requests),
           \A i, j \in DOMAIN requests' : requests'[i].call = requests'[j].call => i = j,
           \A r \in Range(requests') : r.call \notin cs
    PROVE  /\ OneRequestEach'
           /\ \A c \in Calls : UsesBatch(c)' => UsesBatch(c)
           /\ \A c \in Calls : call'[c].batch = call[c].batch
<1>1. ASSUME NEW r \in Range(requests') PROVE call'[r.call].pc = PcOf(r.kind)
  <2>1. r \in Request BY DEF Range
  <2>2. r.call \in Calls \ cs /\ r \in Range(requests) BY <2>1 DEF Request
  <2> QED BY <2>2 DEF Answered, TraceInv, OneRequestEach
<1>2. OneRequestEach' BY <1>1 DEF OneRequestEach
<1>3. \A c \in Calls : call'[c].batch = call[c].batch BY DEF Answered
<1>4. \A c \in Calls : UsesBatch(c)' => UsesBatch(c)
  BY DEF UsesBatch, Answered
<1> QED BY <1>2, <1>3, <1>4

\* ... and who still waits is on the same list as before.
LEMMA AnswersKeepWaiters ==
    ASSUME TraceInv, NEW cs, Answered(cs),
           Range(requests') \subseteq Range(requests),
           \A c \in Calls \ cs : Asks("GetTraces", c) \in Range(requests)
                                   => Asks("GetTraces", c) \in Range(requests'),
           \A b \in DOMAIN cached_blocks' :
             \/ /\ b \in DOMAIN cached_blocks
                /\ cached_blocks'[b].waiting_requests \subseteq
                     cached_blocks[b].waiting_requests \ cs
             \/ cached_blocks'[b].waiting_requests = {},
           \A c \in Calls \ cs, b \in DOMAIN cached_blocks :
             IsPooled(b) /\ c \in cached_blocks[b].waiting_requests
               => IsPooled(b)' /\ c \in cached_blocks'[b].waiting_requests
    PROVE  WaitersAreKnown'
<1>1. \A c \in Calls \ cs : Awaited(c)' = Awaited(c) /\ call'[c] = call[c]
  BY DEF Awaited, Answered
<1>2. ASSUME NEW c \in Calls, call'[c].pc = "waiting"
      PROVE  \/ Asks("GetTraces", c) \in Range(requests')
             \/ IsPooled(Awaited(c))' /\ c \in cached_blocks'[Awaited(c)'].waiting_requests
  <2>1. c \in Calls \ cs /\ call[c].pc = "waiting" BY <1>1, <1>2 DEF Answered
  <2>2. CASE Asks("GetTraces", c) \in Range(requests) BY <2>1, <2>2
  <2>3. CASE IsPooled(Awaited(c)) /\ c \in cached_blocks[Awaited(c)].waiting_requests
    <3>1. PICK b \in DOMAIN cached_blocks : b = Awaited(c)
      BY <2>3 DEF IsPooled
    <3>2. Awaited(c)' = b BY <1>1, <2>1, <3>1
    <3>3. IsPooled(b)' /\ c \in cached_blocks'[b].waiting_requests
      BY <2>1, <2>3, <3>1 DEF IsPooled
    <3> QED BY <3>2, <3>3 DEF IsPooled
  <2> QED BY <2>1, <2>2, <2>3 DEF TraceInv, WaitersAreKnown, Asks
<1>3. ASSUME NEW b \in DOMAIN cached_blocks', NEW c \in cached_blocks'[b].waiting_requests
      PROVE  /\ call'[c].pc = "waiting" /\ Awaited(c)' = b
             /\ Asks("GetTraces", c) \notin Range(requests')
  <2>1. b \in DOMAIN cached_blocks /\ c \in cached_blocks[b].waiting_requests /\ c \notin cs
    BY <1>3
  <2>2. c \in Calls BY <2>1 DEF TraceInv, TraceTypeOK, CacheBlock
  <2>3. /\ call[c].pc = "waiting" /\ Awaited(c) = b
        /\ Asks("GetTraces", c) \notin Range(requests)
    BY <2>1 DEF TraceInv, WaitersAreKnown, Asks
  <2> QED BY <1>1, <2>1, <2>2, <2>3
<1> QED BY <1>2, <1>3 DEF WaitersAreKnown, Asks

-----------------------------------------------------------------------------
(* Steps of the cache task.                                                *)

\* The batches of a block are finitely many.
LEMMA UsersAreFinite ==
    ASSUME TraceTypeOK, NEW b
    PROVE  IsFiniteSet(UsersOf(b)) /\ Cardinality(UsersOf(b)) \in Nat
<1>1. IsFiniteSet(0..(next_batch_id - 1))
  BY FS_Interval DEF TraceTypeOK
<1>2. UsersOf(b) \subseteq 0..(next_batch_id - 1)
  BY DEF UsersOf, TraceTypeOK
<1> QED BY <1>1, <1>2, FS_Subset, FS_CardinalityType

LEMMA StartBatchStep ==
    ASSUME TraceInv, NEW c \in Calls, RequestStartBatch(c)
    PROVE  TraceInv'
<1> DEFINE id == next_batch_id
           blocks == call[c].blocks
           missing == blocks \ DOMAIN cached_blocks
<1>1. /\ batches' = [i \in DOMAIN batches \cup {id} |-> IF i = id THEN blocks ELSE batches[i]]
      /\ cached_blocks' = CacheWith(blocks, id)
      /\ tasks' = [t \in DOMAIN tasks \cup ({id} \X missing) |->
                     IF t \in DOMAIN tasks THEN tasks[t] ELSE "queued"]
      /\ call' = [call EXCEPT ![c].pc = "fetching", ![c].batch = id]
      /\ next_batch_id' = id + 1
      /\ batch_expirations' = batch_expirations /\ messages' = messages
      /\ Handles("StartBatch", c)
  BY DEF RequestStartBatch
<1>2. /\ requests' \in Seq(Request)
      /\ Range(requests) = Range(requests') \cup {Asks("StartBatch", c)}
      /\ \A r \in Range(requests') : r \in Request /\ r.call # c
      /\ call[c].pc = "starting"
      /\ \A i, j \in DOMAIN requests' : requests'[i].call = requests'[j].call => i = j
  BY <1>1, HandleFacts DEF TraceInv, TraceTypeOK, PcOf
<1>3. /\ call \in [Calls -> Call] /\ id \in Nat /\ blocks \in SUBSET Blocks
      /\ DOMAIN batches \subseteq 0..(id - 1) /\ id \notin DOMAIN batches
  BY DEF TraceInv, TraceTypeOK, Call
<1> HIDE DEF id, blocks
<1>4. /\ call' \in [Calls -> Call]
      /\ call'[c].pc = "fetching" /\ call'[c].batch = id
      /\ \A d \in Calls \ {c} : call'[d] = call[d]
  <2>1. call[c] \in Call BY <1>3
  <2>2. call'[c] = [call[c] EXCEPT !.pc = "fetching", !.batch = id] BY <1>1, <1>3
  <2>3. call'[c] \in Call /\ call'[c].pc = "fetching" /\ call'[c].batch = id
    BY <1>3, <2>1, <2>2 DEF Call
  <2>4. \A d \in Calls \ {c} : call'[d] = call[d] BY <1>1, <1>3
  <2>5. DOMAIN call' = Calls BY <1>1, <1>3
  <2>6. call' = [d \in Calls |-> call'[d]] BY <1>1, <1>3, <2>5
  <2> QED BY <1>3, <2>3, <2>4, <2>6
<1>5. DOMAIN cached_blocks' = DOMAIN cached_blocks \cup blocks
  BY <1>1 DEF CacheWith
<1>6. ASSUME NEW b \in DOMAIN cached_blocks
      PROVE  /\ cached_blocks'[b] \in CacheBlock
             /\ cached_blocks'[b].active_batch_count =
                  cached_blocks[b].active_batch_count + IF b \in blocks THEN 1 ELSE 0
             /\ cached_blocks'[b].state = cached_blocks[b].state
             /\ cached_blocks'[b].task = cached_blocks[b].task
             /\ cached_blocks'[b].waiting_requests = cached_blocks[b].waiting_requests
  <2>1. cached_blocks[b] \in CacheBlock BY DEF TraceInv, TraceTypeOK
  <2>2. cached_blocks'[b] = IF b \in blocks
                            THEN [cached_blocks[b] EXCEPT !.active_batch_count = @ + 1]
                            ELSE cached_blocks[b]
    BY <1>1 DEF CacheWith
  <2>3. CASE b \in blocks BY <2>1, <2>2, <2>3 DEF CacheBlock
  <2>4. CASE b \notin blocks BY <2>1, <2>2, <2>4 DEF CacheBlock
  <2> QED BY <2>3, <2>4
<1>7. ASSUME NEW b \in blocks \ DOMAIN cached_blocks
      PROVE  /\ cached_blocks'[b] \in CacheBlock /\ cached_blocks'[b].task = id
             /\ cached_blocks'[b].active_batch_count = 1
             /\ cached_blocks'[b].waiting_requests = {}
  <2>1. cached_blocks'[b] = Pooled(id) BY <1>1 DEF CacheWith
  <2> QED BY <1>3, <2>1 DEF Pooled, CacheBlock
<1>8. TraceTypeOK'
  <2>1. \A b \in DOMAIN cached_blocks' :
          cached_blocks'[b] \in CacheBlock /\ cached_blocks'[b].active_batch_count > 0
    <3> SUFFICES ASSUME NEW b \in DOMAIN cached_blocks'
                 PROVE  cached_blocks'[b] \in CacheBlock
                        /\ cached_blocks'[b].active_batch_count > 0
      OBVIOUS
    <3>1. CASE b \in DOMAIN cached_blocks
      <4>1. cached_blocks[b].active_batch_count \in Nat \ {0}
        BY <3>1 DEF TraceInv, TraceTypeOK, CacheBlock
      <4> QED BY <1>6, <3>1, <4>1
    <3>2. CASE b \notin DOMAIN cached_blocks BY <1>5, <1>7, <3>2
    <3> QED BY <3>1, <3>2
  <2>2. DOMAIN cached_blocks' \subseteq Blocks
    BY <1>3, <1>5 DEF TraceInv, TraceTypeOK
  <2>3. /\ DOMAIN batches' \subseteq 0..(next_batch_id' - 1)
        /\ \A i \in DOMAIN batches' : batches'[i] \subseteq Blocks
        /\ batch_expirations' \subseteq DOMAIN batches'
    BY <1>1, <1>3 DEF TraceInv, TraceTypeOK
  <2>4. /\ DOMAIN tasks' \subseteq (0..(next_batch_id' - 1)) \X Blocks
        /\ \A t \in DOMAIN tasks' : tasks'[t] \in {"queued", "starting", "tracing"}
    <3>1. DOMAIN tasks \subseteq (0..(id - 1)) \X Blocks
      BY DEF TraceInv, TraceTypeOK, id
    <3>2. DOMAIN tasks \subseteq (0..id) \X Blocks /\ {id} \X missing \subseteq (0..id) \X Blocks
      BY <1>3, <3>1
    <3>3. DOMAIN tasks' \subseteq (0..id) \X Blocks BY <1>1, <3>2
    <3>4. next_batch_id' - 1 = id BY <1>1, <1>3
    <3> QED BY <1>1, <3>3, <3>4 DEF TraceInv, TraceTypeOK
  <2>5. next_batch_id' \in Nat BY <1>1, <1>3
  <2> QED BY <1>1, <1>2, <1>4, <2>1, <2>2, <2>3, <2>4, <2>5 DEF TraceInv, TraceTypeOK
<1>9. OneRequestEach'
  <2>1. ASSUME NEW r \in Range(requests') PROVE call'[r.call].pc = PcOf(r.kind)
    <3>1. r.call \in Calls \ {c} /\ r \in Range(requests) BY <1>2 DEF Request
    <3> QED BY <1>4, <3>1 DEF TraceInv, OneRequestEach
  <2> QED BY <1>2, <2>1 DEF OneRequestEach
<1>10. BatchesAreOwned'
  <2>1. ASSUME NEW d \in Calls \ {c}, UsesBatch(d)'
        PROVE  /\ UsesBatch(d) /\ call'[d].batch = call[d].batch
               /\ call[d].batch \in DOMAIN batches \ batch_expirations
    <3>1. UsesBatch(d) BY <1>2, <1>4, <2>1 DEF UsesBatch
    <3> QED BY <1>4, <3>1 DEF TraceInv, BatchesAreOwned
  <2>2. id \notin batch_expirations BY <1>3 DEF TraceInv, TraceTypeOK
  <2>3. DOMAIN batches' = DOMAIN batches \cup {id} BY <1>1
  <2>4. \A d, e \in Calls : UsesBatch(d)' /\ UsesBatch(e)' /\ call'[d].batch = call'[e].batch
                              => d = e
    <3> SUFFICES ASSUME NEW d \in Calls, NEW e \in Calls, UsesBatch(d)', UsesBatch(e)',
                        call'[d].batch = call'[e].batch
                 PROVE  d = e
      OBVIOUS
    <3>1. CASE d # c /\ e # c BY <2>1, <3>1 DEF TraceInv, BatchesAreOwned
    <3>2. CASE d = c \/ e = c BY <1>3, <1>4, <2>1, <3>2
    <3> QED BY <3>1, <3>2
  <2>5. \A d \in Calls : UsesBatch(d)' =>
          call'[d].batch \in DOMAIN batches' \ batch_expirations'
    BY <1>1, <1>4, <2>1, <2>2, <2>3
  <2> QED BY <2>4, <2>5 DEF BatchesAreOwned
<1>11. CountsWithinBatches'
  <2> SUFFICES ASSUME NEW b \in DOMAIN cached_blocks'
               PROVE  cached_blocks'[b].active_batch_count <= Cardinality(UsersOf(b)')
    BY DEF CountsWithinBatches
  <2>1. UsersOf(b)' = IF b \in blocks THEN UsersOf(b) \cup {id} ELSE UsersOf(b)
    BY <1>1, <1>3 DEF UsersOf
  <2>2. id \notin UsersOf(b) BY <1>3 DEF UsersOf
  <2>3. /\ Cardinality(UsersOf(b)) \in Nat
        /\ Cardinality(UsersOf(b)') =
             IF b \in blocks THEN Cardinality(UsersOf(b)) + 1 ELSE Cardinality(UsersOf(b))
    <3>1. IsFiniteSet(UsersOf(b)) /\ Cardinality(UsersOf(b)) \in Nat
      BY UsersAreFinite DEF TraceInv
    <3>2. Cardinality(UsersOf(b) \cup {id}) = Cardinality(UsersOf(b)) + 1
      BY <2>2, <3>1, FS_AddElement
    <3> QED BY <2>1, <3>1, <3>2
  <2>4. CASE b \in DOMAIN cached_blocks
    <3>1. cached_blocks[b].active_batch_count \in Nat
          /\ cached_blocks[b].active_batch_count <= Cardinality(UsersOf(b))
      BY <2>4 DEF TraceInv, TraceTypeOK, CacheBlock, CountsWithinBatches
    <3> QED BY <1>6, <2>3, <2>4, <3>1
  <2>5. CASE b \notin DOMAIN cached_blocks BY <1>5, <1>7, <2>3, <2>5
  <2> QED BY <2>4, <2>5
<1>12. PooledIsTraced'
  <2> SUFFICES ASSUME NEW b \in DOMAIN cached_blocks', cached_blocks'[b].state = "Pooled"
               PROVE  \/ <<cached_blocks'[b].task, b>> \in DOMAIN tasks'
                      \/ \E result \in Results : [kind |-> result, block |-> b] \in Range(messages)
    BY <1>1 DEF PooledIsTraced, IsPooled
  <2>1. CASE b \in DOMAIN cached_blocks
    BY <1>1, <1>6, <2>1 DEF TraceInv, PooledIsTraced, IsPooled
  <2>2. CASE b \notin DOMAIN cached_blocks
    <3>1. b \in blocks /\ b \in missing BY <1>5, <2>2
    <3> QED BY <1>1, <1>7, <2>2, <3>1
  <2> QED BY <2>1, <2>2
<1>13. WaitersAreKnown'
  <2>1. \A d \in Calls \ {c} : Awaited(d)' = Awaited(d) /\ call'[d] = call[d]
    BY <1>4 DEF Awaited
  <2>2. ASSUME NEW d \in Calls, call'[d].pc = "waiting"
        PROVE  \/ Asks("GetTraces", d) \in Range(requests')
               \/ IsPooled(Awaited(d))' /\ d \in cached_blocks'[Awaited(d)'].waiting_requests
    <3>1. d \in Calls \ {c} /\ call[d].pc = "waiting" BY <1>4, <2>2
    <3>2. CASE Asks("GetTraces", d) \in Range(requests)
      BY <1>2, <3>1, <3>2 DEF Asks
    <3>3. CASE IsPooled(Awaited(d)) /\ d \in cached_blocks[Awaited(d)].waiting_requests
      <4>1. PICK b \in DOMAIN cached_blocks : b = Awaited(d) BY <3>3 DEF IsPooled
      <4>2. Awaited(d)' = b BY <2>1, <3>1, <4>1
      <4> QED BY <1>5, <1>6, <3>3, <4>1, <4>2 DEF IsPooled
    <3> QED BY <3>1, <3>2, <3>3 DEF TraceInv, WaitersAreKnown, Asks
  <2>3. ASSUME NEW b \in DOMAIN cached_blocks', NEW d \in cached_blocks'[b].waiting_requests
        PROVE  /\ call'[d].pc = "waiting" /\ Awaited(d)' = b
               /\ Asks("GetTraces", d) \notin Range(requests')
    <3>1. b \in DOMAIN cached_blocks /\ d \in cached_blocks[b].waiting_requests
      BY <1>5, <1>6, <1>7, <2>3
    <3>2. d \in Calls BY <3>1 DEF TraceInv, TraceTypeOK, CacheBlock
    <3>3. /\ call[d].pc = "waiting" /\ Awaited(d) = b
          /\ Asks("GetTraces", d) \notin Range(requests)
      BY <3>1 DEF TraceInv, WaitersAreKnown, Asks
    <3>4. d # c BY <1>2, <3>3
    <3> QED BY <1>2, <2>1, <3>2, <3>3, <3>4
  <2> QED BY <2>2, <2>3 DEF WaitersAreKnown, Asks
<1> QED BY <1>8, <1>9, <1>10, <1>11, <1>12, <1>13 DEF TraceInv

LEMMA GetTracesStep ==
    ASSUME TraceInv, NEW c \in Calls, RequestGetTraces(c)
    PROVE  TraceInv'
<1>1. /\ batches' = batches /\ next_batch_id' = next_batch_id /\ tasks' = tasks
      /\ batch_expirations' = batch_expirations /\ messages' = messages
      /\ Handles("GetTraces", c)
  BY DEF RequestGetTraces
<1>2. /\ requests' \in Seq(Request)
      /\ Range(requests) = Range(requests') \cup {Asks("GetTraces", c)}
      /\ \A r \in Range(requests') : r \in Request /\ r.call # c
      /\ call[c].pc = "waiting"
      /\ \A i, j \in DOMAIN requests' : requests'[i].call = requests'[j].call => i = j
  BY <1>1, HandleFacts DEF TraceInv, TraceTypeOK, PcOf
<1>3. call \in [Calls -> Call] /\ Asks("GetTraces", c) \in Range(requests)
  BY <1>2 DEF TraceInv, TraceTypeOK
<1>4. CASE call' = call /\ IsPooled(Awaited(c))
           /\ cached_blocks' = [cached_blocks EXCEPT ![Awaited(c)].waiting_requests = @ \cup {c}]
  <2>1. PICK a \in DOMAIN cached_blocks : a = Awaited(c) /\ cached_blocks[a].state = "Pooled"
    BY <1>4 DEF IsPooled
  <2>2. cached_blocks' = [cached_blocks EXCEPT ![a].waiting_requests = @ \cup {c}]
    BY <1>4, <2>1
  <2>3. \A b \in DOMAIN cached_blocks :
          /\ b \in DOMAIN cached_blocks'
          /\ cached_blocks[b] \in CacheBlock
          /\ cached_blocks'[b] = IF b = a
               THEN [cached_blocks[b] EXCEPT !.waiting_requests = @ \cup {c}]
               ELSE cached_blocks[b]
    BY <2>2 DEF TraceInv, TraceTypeOK
  <2>4. \A b \in DOMAIN cached_blocks :
          /\ cached_blocks'[b] \in CacheBlock
          /\ cached_blocks'[b].active_batch_count = cached_blocks[b].active_batch_count
          /\ cached_blocks'[b].state = cached_blocks[b].state
          /\ cached_blocks'[b].task = cached_blocks[b].task
          /\ cached_blocks'[b].waiting_requests =
               IF b = a THEN cached_blocks[b].waiting_requests \cup {c}
               ELSE cached_blocks[b].waiting_requests
    <3> SUFFICES ASSUME NEW b \in DOMAIN cached_blocks
                 PROVE  /\ cached_blocks'[b] \in CacheBlock
                        /\ cached_blocks'[b].active_batch_count =
                             cached_blocks[b].active_batch_count
                        /\ cached_blocks'[b].state = cached_blocks[b].state
                        /\ cached_blocks'[b].task = cached_blocks[b].task
                        /\ cached_blocks'[b].waiting_requests =
                             IF b = a THEN cached_blocks[b].waiting_requests \cup {c}
                             ELSE cached_blocks[b].waiting_requests
      OBVIOUS
    <3> DEFINE w == cached_blocks[b].waiting_requests \cup {c}
    <3>1. cached_blocks[b] \in CacheBlock /\ w \in SUBSET Calls
      BY <2>3 DEF CacheBlock
    <3>2. CASE b = a
      <4>1. cached_blocks'[b] = [cached_blocks[b] EXCEPT !.waiting_requests = w]
        BY <2>3, <3>2
      <4> HIDE DEF w
      <4>2. /\ cached_blocks'[b] \in CacheBlock
            /\ cached_blocks'[b].active_batch_count = cached_blocks[b].active_batch_count
            /\ cached_blocks'[b].state = cached_blocks[b].state
            /\ cached_blocks'[b].task = cached_blocks[b].task
            /\ cached_blocks'[b].waiting_requests = w
        BY <3>1, <4>1 DEF CacheBlock
      <4> QED BY <3>2, <4>2 DEF w
    <3>3. CASE b # a BY <2>3, <3>3
    <3> QED BY <3>2, <3>3
  <2>5. DOMAIN cached_blocks' = DOMAIN cached_blocks BY <2>2
  <2>6. TraceTypeOK' BY <1>1, <1>2, <1>4, <2>4, <2>5 DEF TraceInv, TraceTypeOK
  <2>7. CountsWithinBatches'
    BY <1>1, <2>4, <2>5 DEF TraceInv, CountsWithinBatches, UsersOf
  <2>8. PooledIsTraced'
    BY <1>1, <2>4, <2>5 DEF TraceInv, PooledIsTraced, IsPooled
  <2>9. OneRequestEach' BY <1>2, <1>4 DEF TraceInv, OneRequestEach
  <2>10. BatchesAreOwned'
    BY <1>1, <1>2, <1>4 DEF TraceInv, BatchesAreOwned, UsesBatch
  <2>11. \A d \in Calls : Awaited(d)' = Awaited(d) BY <1>4 DEF Awaited
  <2>12. ASSUME NEW d \in Calls, call'[d].pc = "waiting"
         PROVE  \/ Asks("GetTraces", d) \in Range(requests')
                \/ IsPooled(Awaited(d))' /\ d \in cached_blocks'[Awaited(d)'].waiting_requests
    <3>1. CASE d = c BY <2>1, <2>4, <2>5, <2>11, <3>1 DEF IsPooled
    <3>2. CASE d # c /\ Asks("GetTraces", d) \in Range(requests)
      BY <1>2, <3>2 DEF Asks
    <3>3. CASE d # c /\ IsPooled(Awaited(d)) /\ d \in cached_blocks[Awaited(d)].waiting_requests
      <4>1. PICK b \in DOMAIN cached_blocks : b = Awaited(d) BY <3>3 DEF IsPooled
      <4> QED BY <2>4, <2>5, <2>11, <3>3, <4>1 DEF IsPooled
    <3> QED BY <1>4, <2>12, <3>1, <3>2, <3>3 DEF TraceInv, WaitersAreKnown, Asks
  <2>13. ASSUME NEW b \in DOMAIN cached_blocks', NEW d \in cached_blocks'[b].waiting_requests
         PROVE  /\ call'[d].pc = "waiting" /\ Awaited(d)' = b
                /\ Asks("GetTraces", d) \notin Range(requests')
    <3>1. CASE d = c /\ b = a
      <4>1. Asks("GetTraces", c) \notin Range(requests') BY <1>2 DEF Asks
      <4> QED BY <1>2, <1>4, <2>1, <2>11, <3>1, <4>1
    <3>2. CASE d \in cached_blocks[b].waiting_requests
      <4>1. d \in Calls BY <2>5, <3>2 DEF TraceInv, TraceTypeOK, CacheBlock
      <4>2. /\ call[d].pc = "waiting" /\ Awaited(d) = b
            /\ Asks("GetTraces", d) \notin Range(requests)
        BY <2>5, <3>2 DEF TraceInv, WaitersAreKnown, Asks
      <4> QED BY <1>2, <1>4, <2>11, <4>1, <4>2
    <3> QED BY <2>4, <2>5, <2>13, <3>1, <3>2
  <2>14. WaitersAreKnown' BY <2>12, <2>13 DEF WaitersAreKnown, Asks
  <2> QED BY <2>6, <2>7, <2>8, <2>9, <2>10, <2>14 DEF TraceInv
<1>5. CASE cached_blocks' = cached_blocks
           /\ \/ call' = Refused({c})
              \/ \E result \in Results : call' = Received({c}, result)
  <2>1. Answered({c}) BY <1>2, <1>3, <1>5, AnswerFacts
  <2>2. call' \in [Calls -> Call] BY <2>1 DEF Answered
  <2>3. TraceTypeOK' BY <1>1, <1>2, <1>5, <2>2 DEF TraceInv, TraceTypeOK
  <2>4. CountsWithinBatches' /\ PooledIsTraced'
    BY <1>1, <1>5 DEF TraceInv, CountsWithinBatches, UsersOf, PooledIsTraced, IsPooled
  <2>5. /\ OneRequestEach'
        /\ \A d \in Calls : UsesBatch(d)' => UsesBatch(d)
        /\ \A d \in Calls : call'[d].batch = call[d].batch
    BY <1>2, <2>1, AnswersKeepQueue
  <2>6. BatchesAreOwned' BY <1>1, <2>5 DEF TraceInv, BatchesAreOwned
  <2>7. \A d \in Calls \ {c} : Asks("GetTraces", d) \in Range(requests)
                                 => Asks("GetTraces", d) \in Range(requests')
    BY <1>2 DEF Asks
  <2>8. \A b \in DOMAIN cached_blocks : c \notin cached_blocks[b].waiting_requests
    BY <1>3 DEF TraceInv, WaitersAreKnown, Asks
  <2>9. \A b \in DOMAIN cached_blocks' :
          b \in DOMAIN cached_blocks
          /\ cached_blocks'[b].waiting_requests \subseteq
               cached_blocks[b].waiting_requests \ {c}
    BY <1>5, <2>8
  <2>10. \A d \in Calls \ {c}, b \in DOMAIN cached_blocks :
          IsPooled(b) /\ d \in cached_blocks[b].waiting_requests
            => IsPooled(b)' /\ d \in cached_blocks'[b].waiting_requests
    BY <1>5 DEF IsPooled
  <2>11. WaitersAreKnown'
    BY <1>2, <2>1, <2>7, <2>9, <2>10, AnswersKeepWaiters
  <2> QED BY <2>3, <2>4, <2>5, <2>6, <2>11 DEF TraceInv
<1>6. ASSUME Awaited(c) \in DOMAIN cached_blocks, ~IsPooled(Awaited(c))
      PROVE  cached_blocks[Awaited(c)].state \in Results
  BY <1>6 DEF TraceInv, TraceTypeOK, CacheBlock, IsPooled
<1> QED BY <1>4, <1>5, <1>6, Zenon DEF RequestGetTraces

\* Entries leave the cache together with the calls that wait with them.
LEMMA RemovalKeepsWaiters ==
    ASSUME TraceInv, NEW bs \in SUBSET DOMAIN cached_blocks,
           call' = Refused(WaitingWith(bs)),
           requests' \in Seq(Request), Range(requests') \subseteq Range(requests),
           \A i, j \in DOMAIN requests' : requests'[i].call = requests'[j].call => i = j,
           \A d \in Calls : Asks("GetTraces", d) \in Range(requests)
                              => Asks("GetTraces", d) \in Range(requests'),
           DOMAIN cached_blocks' = DOMAIN cached_blocks \ bs,
           \A b \in DOMAIN cached_blocks' :
             /\ cached_blocks'[b].waiting_requests = cached_blocks[b].waiting_requests
             /\ cached_blocks'[b].state = cached_blocks[b].state
    PROVE  /\ call' \in [Calls -> Call]
           /\ OneRequestEach' /\ WaitersAreKnown'
           /\ \A c \in Calls : UsesBatch(c)' => UsesBatch(c)
           /\ \A c \in Calls : call'[c].batch = call[c].batch
<1> DEFINE cs == WaitingWith(bs)
<1>1. /\ cs \in SUBSET Calls
      /\ \A c \in cs : /\ call[c].pc = "waiting" /\ Awaited(c) \in bs
                       /\ \A r \in Range(requests) : r.call # c
  BY WaitersOf
<1>2. \A b \in bs : cached_blocks[b].waiting_requests \subseteq cs BY DEF WaitingWith
<1>3. call' = Refused(cs) OBVIOUS
<1> HIDE DEF cs
<1>4. Answered(cs) BY <1>1, <1>3, AnswerFacts DEF TraceInv, TraceTypeOK
<1>5. /\ OneRequestEach'
      /\ \A c \in Calls : UsesBatch(c)' => UsesBatch(c)
      /\ \A c \in Calls : call'[c].batch = call[c].batch
  BY <1>1, <1>4, AnswersKeepQueue
<1>6. ASSUME NEW b \in DOMAIN cached_blocks'
      PROVE  /\ b \in DOMAIN cached_blocks
             /\ cached_blocks'[b].waiting_requests \subseteq
                  cached_blocks[b].waiting_requests \ cs
  <2>1. b \in DOMAIN cached_blocks /\ b \notin bs OBVIOUS
  <2>2. \A c \in cached_blocks[b].waiting_requests : Awaited(c) = b
    BY <2>1 DEF TraceInv, WaitersAreKnown
  <2> QED BY <1>1, <2>1, <2>2
<1>7. \A c \in Calls \ cs, b \in DOMAIN cached_blocks :
        IsPooled(b) /\ c \in cached_blocks[b].waiting_requests
          => IsPooled(b)' /\ c \in cached_blocks'[b].waiting_requests
  BY <1>2 DEF IsPooled
<1>8. WaitersAreKnown' BY <1>4, <1>6, <1>7, AnswersKeepWaiters
<1> QED BY <1>4, <1>5, <1>8 DEF Answered

LEMMA StopBatchStep ==
    ASSUME TraceInv, NEW c \in Calls, RequestStopBatch(c)
    PROVE  TraceInv'
<1> DEFINE id == call[c].batch
           dropped == IF id \in DOMAIN batches THEN NoLongerRequested(batches[id]) ELSE {}
<1>1. /\ batches' = batches /\ next_batch_id' = next_batch_id /\ tasks' = tasks
      /\ messages' = messages
      /\ batch_expirations' = batch_expirations \cup {id}
      /\ cached_blocks' = RemoveBlocks(dropped)
      /\ call' = Refused(WaitingWith(dropped))
      /\ Handles("StopBatch", c)
  BY DEF RequestStopBatch
<1>2. /\ requests' \in Seq(Request)
      /\ Range(requests) = Range(requests') \cup {Asks("StopBatch", c)}
      /\ \A r \in Range(requests') : r \in Request /\ r.call # c
      /\ call[c].pc = "done"
      /\ \A i, j \in DOMAIN requests' : requests'[i].call = requests'[j].call => i = j
  BY <1>1, HandleFacts DEF TraceInv, TraceTypeOK, PcOf
<1>3. id \in DOMAIN batches \ batch_expirations /\ UsesBatch(c)
  BY <1>2 DEF TraceInv, BatchesAreOwned, UsesBatch
<1>4. dropped \in SUBSET DOMAIN cached_blocks BY DEF NoLongerRequested, IsPooled
<1> HIDE DEF id, dropped
<1>5. /\ DOMAIN cached_blocks' = DOMAIN cached_blocks \ dropped
      /\ \A b \in DOMAIN cached_blocks' : cached_blocks'[b] = cached_blocks[b]
  BY <1>1 DEF RemoveBlocks, Restrict
<1>6. \A d \in Calls : Asks("GetTraces", d) \in Range(requests)
                         => Asks("GetTraces", d) \in Range(requests')
  BY <1>2 DEF Asks
<1>7. /\ call' \in [Calls -> Call]
      /\ OneRequestEach' /\ WaitersAreKnown'
      /\ \A d \in Calls : UsesBatch(d)' => UsesBatch(d)
      /\ \A d \in Calls : call'[d].batch = call[d].batch
  BY <1>1, <1>2, <1>4, <1>5, <1>6, RemovalKeepsWaiters
<1>8. TraceTypeOK'
  BY <1>1, <1>2, <1>3, <1>5, <1>7 DEF TraceInv, TraceTypeOK
<1>9. ~UsesBatch(c)'
  <2>1. c \notin WaitingWith(dropped) BY <1>2, <1>4, WaitersOf
  <2>2. call'[c].pc = "done" BY <1>1, <1>2, <2>1 DEF Refused
  <2>3. Asks("StopBatch", c) \notin Range(requests') BY <1>2 DEF Asks
  <2> QED BY <2>2, <2>3 DEF UsesBatch
<1>10. BatchesAreOwned'
  <2>1. ASSUME NEW d \in Calls, UsesBatch(d)'
        PROVE  call'[d].batch \in DOMAIN batches' \ batch_expirations'
    <3>1. d # c /\ UsesBatch(d) BY <1>7, <1>9, <2>1
    <3>2. call[d].batch # id /\ call[d].batch \in DOMAIN batches \ batch_expirations
      BY <1>3, <3>1 DEF TraceInv, BatchesAreOwned, id
    <3> QED BY <1>1, <1>7, <3>2
  <2>2. \A d, e \in Calls : UsesBatch(d)' /\ UsesBatch(e)' /\ call'[d].batch = call'[e].batch
                              => d = e
    BY <1>7 DEF TraceInv, BatchesAreOwned
  <2> QED BY <2>1, <2>2 DEF BatchesAreOwned
<1>11. CountsWithinBatches' BY <1>1, <1>5 DEF TraceInv, CountsWithinBatches, UsersOf
<1>12. PooledIsTraced' BY <1>1, <1>5 DEF TraceInv, PooledIsTraced, IsPooled
<1> QED BY <1>7, <1>8, <1>10, <1>11, <1>12 DEF TraceInv

\* The message that is read is the first, and the others stay.
LEMMA ReadFacts ==
    ASSUME TraceInv, NEW kind, NEW b, Reads(kind, b)
    PROVE  /\ messages' \in Seq(Message)
           /\ b \in Blocks
           /\ Range(messages) = Range(messages') \cup {[kind |-> kind, block |-> b]}
<1>1. /\ messages # <<>> /\ Head(messages) = [kind |-> kind, block |-> b]
      /\ messages' = Tail(messages) /\ messages \in Seq(Message)
  BY DEF Reads, TraceInv, TraceTypeOK
<1>2. /\ messages' \in Seq(Message) /\ Head(messages) \in Message
      /\ Range(messages) = Range(messages') \cup {Head(messages)}
  BY <1>1, TailFacts
<1>3. [kind |-> kind, block |-> b].block \in Blocks BY <1>1, <1>2 DEF Message
<1> QED BY <1>1, <1>2, <1>3

LEMMA StartedStep ==
    ASSUME TraceInv, NEW b \in Blocks, BlockingStarted(b)
    PROVE  TraceInv'
<1>1. /\ call' = call /\ requests' = requests /\ batches' = batches /\ tasks' = tasks
      /\ next_batch_id' = next_batch_id /\ batch_expirations' = batch_expirations
      /\ cached_blocks' = IF IsPooled(b) THEN [cached_blocks EXCEPT ![b].started = TRUE]
                          ELSE cached_blocks
      /\ Reads("Started", b)
  BY DEF BlockingStarted
<1>2. /\ messages' \in Seq(Message)
      /\ Range(messages) = Range(messages') \cup {[kind |-> "Started", block |-> b]}
  BY <1>1, ReadFacts
<1>3. DOMAIN cached_blocks' = DOMAIN cached_blocks BY <1>1
<1>4. ASSUME NEW a \in DOMAIN cached_blocks
      PROVE  /\ cached_blocks'[a] \in CacheBlock
             /\ cached_blocks'[a].active_batch_count = cached_blocks[a].active_batch_count
             /\ cached_blocks'[a].state = cached_blocks[a].state
             /\ cached_blocks'[a].task = cached_blocks[a].task
             /\ cached_blocks'[a].waiting_requests = cached_blocks[a].waiting_requests
  <2>1. cached_blocks[a] \in CacheBlock BY DEF TraceInv, TraceTypeOK
  <2>2. cached_blocks'[a] = cached_blocks[a]
        \/ cached_blocks'[a] = [cached_blocks[a] EXCEPT !.started = TRUE]
    BY <1>1 DEF IsPooled
  <2>3. CASE cached_blocks'[a] = cached_blocks[a] BY <2>1, <2>3
  <2>4. CASE cached_blocks'[a] = [cached_blocks[a] EXCEPT !.started = TRUE]
    BY <2>1, <2>4 DEF CacheBlock
  <2> QED BY <2>2, <2>3, <2>4
<1>5. TraceTypeOK' BY <1>1, <1>2, <1>3, <1>4 DEF TraceInv, TraceTypeOK
<1>6. OneRequestEach' BY <1>1 DEF TraceInv, OneRequestEach
<1>7. BatchesAreOwned' BY <1>1 DEF TraceInv, BatchesAreOwned, UsesBatch
<1>8. CountsWithinBatches' BY <1>1, <1>3, <1>4 DEF TraceInv, CountsWithinBatches, UsersOf
<1>9. PooledIsTraced'
  <2>1. \A a \in Blocks, result \in Results :
          [kind |-> result, block |-> a] # [kind |-> "Started", block |-> b]
    BY DEF Results
  <2>2. DOMAIN cached_blocks \subseteq Blocks BY DEF TraceInv, TraceTypeOK
  <2> QED BY <1>1, <1>2, <1>3, <1>4, <2>1, <2>2 DEF TraceInv, PooledIsTraced, IsPooled
<1>10. WaitersAreKnown'
  <2>1. \A c \in Calls : Awaited(c)' = Awaited(c) BY <1>1 DEF Awaited
  <2>2. \A a \in DOMAIN cached_blocks : \A c \in cached_blocks[a].waiting_requests : c \in Calls
    BY DEF TraceInv, TraceTypeOK, CacheBlock
  <2>3. ASSUME NEW c \in Calls, call[c].pc = "waiting"
        PROVE  \/ Asks("GetTraces", c) \in Range(requests)
               \/ IsPooled(Awaited(c))' /\ c \in cached_blocks'[Awaited(c)'].waiting_requests
    <3>1. CASE IsPooled(Awaited(c)) /\ c \in cached_blocks[Awaited(c)].waiting_requests
      <4>1. PICK a \in DOMAIN cached_blocks : a = Awaited(c) BY <3>1 DEF IsPooled
      <4> QED BY <1>3, <1>4, <2>1, <3>1, <4>1 DEF IsPooled
    <3> QED BY <2>3, <3>1 DEF TraceInv, WaitersAreKnown, Asks
  <2>4. ASSUME NEW a \in DOMAIN cached_blocks', NEW c \in cached_blocks'[a].waiting_requests
        PROVE  /\ call[c].pc = "waiting" /\ Awaited(c)' = a
               /\ Asks("GetTraces", c) \notin Range(requests)
    <3>1. a \in DOMAIN cached_blocks /\ c \in cached_blocks[a].waiting_requests
      BY <1>3, <1>4
    <3>2. c \in Calls BY <2>2, <3>1
    <3> QED BY <2>1, <3>1, <3>2 DEF TraceInv, WaitersAreKnown, Asks
  <2> QED BY <1>1, <2>3, <2>4 DEF WaitersAreKnown, Asks
<1> QED BY <1>5, <1>6, <1>7, <1>8, <1>9, <1>10 DEF TraceInv

LEMMA FinishedStep ==
    ASSUME TraceInv, NEW b \in Blocks, NEW result \in Results, BlockingFinished(b, result)
    PROVE  TraceInv'
<1>1. /\ requests' = requests /\ batches' = batches /\ tasks' = tasks
      /\ next_batch_id' = next_batch_id /\ batch_expirations' = batch_expirations
      /\ Reads(result, b)
  BY DEF BlockingFinished
<1>2. /\ messages' \in Seq(Message)
      /\ Range(messages) = Range(messages') \cup {[kind |-> result, block |-> b]}
  BY <1>1, ReadFacts
<1>3. \A a \in Blocks \ {b}, r \in Results :
        [kind |-> r, block |-> a] \in Range(messages)
          => [kind |-> r, block |-> a] \in Range(messages')
  BY <1>2
<1>4. requests \in Seq(Request) /\ call \in [Calls -> Call]
      /\ \A i, j \in DOMAIN requests : requests[i].call = requests[j].call => i = j
  BY DEF TraceInv, TraceTypeOK, OneRequestEach
<1>5. CASE ~IsPooled(b)
  <2>1. call' = call /\ cached_blocks' = cached_blocks BY <1>5 DEF BlockingFinished
  <2>2. TraceTypeOK' BY <1>1, <1>2, <2>1 DEF TraceInv, TraceTypeOK
  <2>3. OneRequestEach' BY <1>1, <2>1 DEF TraceInv, OneRequestEach
  <2>4. BatchesAreOwned' BY <1>1, <2>1 DEF TraceInv, BatchesAreOwned, UsesBatch
  <2>5. CountsWithinBatches' BY <1>1, <2>1 DEF TraceInv, CountsWithinBatches, UsersOf
  <2>6. PooledIsTraced'
    <3>1. DOMAIN cached_blocks \subseteq Blocks BY DEF TraceInv, TraceTypeOK
    <3> QED BY <1>1, <1>3, <1>5, <2>1, <3>1 DEF TraceInv, PooledIsTraced, IsPooled
  <2>7. WaitersAreKnown'
    BY <1>1, <2>1 DEF TraceInv, WaitersAreKnown, Awaited, IsPooled
  <2> QED BY <2>2, <2>3, <2>4, <2>5, <2>6, <2>7 DEF TraceInv
<1>6. CASE IsPooled(b)
  <2> DEFINE cs == WaitingWith({b})
  <2>1. b \in DOMAIN cached_blocks BY <1>6 DEF IsPooled
  <2>2. cs = cached_blocks[b].waiting_requests BY DEF WaitingWith
  <2>3. /\ call' = Received(cs, result)
        /\ cached_blocks' = [cached_blocks EXCEPT ![b].state = result,
                                                  ![b].waiting_requests = {}]
    BY <1>6, <2>2 DEF BlockingFinished
  <2>4. /\ cs \in SUBSET Calls
        /\ \A c \in cs : /\ call[c].pc = "waiting" /\ Awaited(c) \in {b}
                         /\ \A r \in Range(requests) : r.call # c
    BY <2>1, WaitersOf
  <2> HIDE DEF cs
  <2>5. Answered(cs) BY <1>4, <2>3, <2>4, AnswerFacts
  <2>6. /\ OneRequestEach'
        /\ \A c \in Calls : UsesBatch(c)' => UsesBatch(c)
        /\ \A c \in Calls : call'[c].batch = call[c].batch
    BY <1>1, <1>4, <2>4, <2>5, AnswersKeepQueue
  <2>7. DOMAIN cached_blocks' = DOMAIN cached_blocks
        /\ \A a \in DOMAIN cached_blocks \ {b} : cached_blocks'[a] = cached_blocks[a]
    BY <2>1, <2>3
  <2>8. /\ cached_blocks'[b] \in CacheBlock
        /\ cached_blocks'[b].active_batch_count = cached_blocks[b].active_batch_count
        /\ cached_blocks'[b].state = result
        /\ cached_blocks'[b].waiting_requests = {}
    <3>1. cached_blocks[b] \in CacheBlock BY <2>1 DEF TraceInv, TraceTypeOK
    <3>2. cached_blocks'[b] = [cached_blocks[b] EXCEPT !.state = result,
                                                       !.waiting_requests = {}]
      BY <2>1, <2>3
    <3> QED BY <3>1, <3>2 DEF CacheBlock
  <2>9. TraceTypeOK'
    <3>1. call' \in [Calls -> Call] BY <2>5 DEF Answered
    <3>2. \A a \in DOMAIN cached_blocks' :
            cached_blocks'[a] \in CacheBlock /\ cached_blocks'[a].active_batch_count > 0
      BY <2>1, <2>7, <2>8 DEF TraceInv, TraceTypeOK
    <3> QED BY <1>1, <1>2, <2>7, <3>1, <3>2 DEF TraceInv, TraceTypeOK
  <2>10. BatchesAreOwned' BY <1>1, <2>6 DEF TraceInv, BatchesAreOwned
  <2>11. CountsWithinBatches'
    BY <1>1, <2>1, <2>7, <2>8 DEF TraceInv, CountsWithinBatches, UsersOf
  <2>12. PooledIsTraced'
    <3> SUFFICES ASSUME NEW a \in DOMAIN cached_blocks', cached_blocks'[a].state = "Pooled"
                 PROVE  \/ <<cached_blocks'[a].task, a>> \in DOMAIN tasks
                        \/ \E r \in Results : [kind |-> r, block |-> a] \in Range(messages')
      BY <1>1 DEF PooledIsTraced, IsPooled
    <3>1. a # b BY <2>8 DEF Results
    <3>2. a \in Blocks \ {b} /\ a \in DOMAIN cached_blocks
          /\ cached_blocks'[a] = cached_blocks[a]
      BY <2>7, <3>1 DEF TraceInv, TraceTypeOK
    <3> QED BY <1>3, <3>2 DEF TraceInv, PooledIsTraced, IsPooled
  <2>13. WaitersAreKnown'
    <3>1. ASSUME NEW a \in DOMAIN cached_blocks'
          PROVE  \/ /\ a \in DOMAIN cached_blocks
                    /\ cached_blocks'[a].waiting_requests \subseteq
                         cached_blocks[a].waiting_requests \ cs
                 \/ cached_blocks'[a].waiting_requests = {}
      <4>1. CASE a = b BY <2>8, <4>1
      <4>2. CASE a # b
        <5>1. a \in DOMAIN cached_blocks /\ cached_blocks'[a] = cached_blocks[a]
          BY <2>7, <4>2
        <5>2. \A c \in cached_blocks[a].waiting_requests : Awaited(c) = a
          BY <5>1 DEF TraceInv, WaitersAreKnown
        <5> QED BY <2>4, <4>2, <5>1, <5>2
      <4> QED BY <4>1, <4>2
    <3>2. \A c \in Calls \ cs, a \in DOMAIN cached_blocks :
            IsPooled(a) /\ c \in cached_blocks[a].waiting_requests
              => IsPooled(a)' /\ c \in cached_blocks'[a].waiting_requests
      BY <2>2, <2>7 DEF IsPooled, cs, WaitingWith
    <3> QED BY <1>1, <2>5, <3>1, <3>2, AnswersKeepWaiters
  <2> QED BY <2>6, <2>9, <2>10, <2>11, <2>12, <2>13 DEF TraceInv
<1> QED BY <1>5, <1>6

LEMMA ExpiredStep ==
    ASSUME TraceInv, NEW id \in batch_expirations, ExpiredBatch(id)
    PROVE  TraceInv'
<1> DEFINE blocks == batches[id]
           left == CacheWithout(blocks)
           gone == DOMAIN cached_blocks \ DOMAIN left
<1>1. id \in DOMAIN batches BY DEF TraceInv, TraceTypeOK
<1>2. /\ requests' = requests /\ next_batch_id' = next_batch_id /\ tasks' = tasks
      /\ messages' = messages
      /\ batch_expirations' = batch_expirations \ {id}
      /\ batches' = Restrict(batches, DOMAIN batches \ {id})
      /\ cached_blocks' = left
      /\ call' = Refused(WaitingWith(gone))
  BY <1>1 DEF ExpiredBatch
<1>3. /\ requests \in Seq(Request) /\ id \in 0..(next_batch_id - 1)
      /\ \A i, j \in DOMAIN requests : requests[i].call = requests[j].call => i = j
  BY <1>1 DEF TraceInv, TraceTypeOK, OneRequestEach
<1>4. /\ DOMAIN batches' = DOMAIN batches \ {id}
      /\ \A i \in DOMAIN batches' : batches'[i] = batches[i]
  BY <1>2 DEF Restrict
<1> HIDE DEF blocks
<1>5. ASSUME NEW b \in DOMAIN left
      PROVE  /\ b \in DOMAIN cached_blocks
             /\ b \in blocks => cached_blocks[b].active_batch_count # 1
             /\ left[b] \in CacheBlock
             /\ left[b].active_batch_count =
                  cached_blocks[b].active_batch_count - IF b \in blocks THEN 1 ELSE 0
             /\ left[b].active_batch_count > 0
             /\ left[b].state = cached_blocks[b].state
             /\ left[b].task = cached_blocks[b].task
             /\ left[b].waiting_requests = cached_blocks[b].waiting_requests
  <2>1. b \in DOMAIN cached_blocks /\ (b \in blocks => cached_blocks[b].active_batch_count # 1)
    BY DEF CacheWithout
  <2>2. cached_blocks[b] \in CacheBlock /\ cached_blocks[b].active_batch_count \in Nat \ {0}
    BY <2>1 DEF TraceInv, TraceTypeOK, CacheBlock
  <2>3. CASE b \in blocks
    <3>1. left[b] = [cached_blocks[b] EXCEPT
                       !.active_batch_count = cached_blocks[b].active_batch_count - 1]
      BY <2>1, <2>3 DEF CacheWithout
    <3>2. cached_blocks[b].active_batch_count - 1 \in Nat \ {0} BY <2>1, <2>2, <2>3
    <3> HIDE DEF left
    <3>3. /\ left[b] \in CacheBlock
          /\ left[b].active_batch_count = cached_blocks[b].active_batch_count - 1
          /\ left[b].state = cached_blocks[b].state
          /\ left[b].task = cached_blocks[b].task
          /\ left[b].waiting_requests = cached_blocks[b].waiting_requests
      BY <2>2, <3>1, <3>2 DEF CacheBlock
    <3>4. left[b].active_batch_count > 0
      <4>1. \A n \in Nat \ {0} : n > 0 OBVIOUS
      <4>2. left[b].active_batch_count \in Nat \ {0} BY <3>2, <3>3, Zenon
      <4> QED BY <4>1, <4>2, Zenon
    <3>5. (IF b \in blocks THEN 1 ELSE 0) = 1 BY <2>3
    <3> QED BY <2>1, <3>3, <3>4, <3>5
  <2>4. CASE b \notin blocks
    <3>1. left[b] = cached_blocks[b] BY <2>4 DEF CacheWithout
    <3> HIDE DEF left
    <3> QED BY <2>1, <2>2, <2>4, <3>1
  <2> QED BY <2>3, <2>4
<1>6. gone \in SUBSET DOMAIN cached_blocks /\ DOMAIN left = DOMAIN cached_blocks \ gone
  BY <1>5
<1> HIDE DEF left, gone
<1>7. /\ DOMAIN cached_blocks' = DOMAIN cached_blocks \ gone
      /\ \A b \in DOMAIN cached_blocks' :
           /\ cached_blocks'[b].waiting_requests = cached_blocks[b].waiting_requests
           /\ cached_blocks'[b].state = cached_blocks[b].state
  BY <1>2, <1>5, <1>6
<1>8. requests' \in Seq(Request) /\ Range(requests') = Range(requests) BY <1>2, <1>3
<1>9. /\ call' \in [Calls -> Call]
      /\ OneRequestEach' /\ WaitersAreKnown'
      /\ \A c \in Calls : UsesBatch(c)' => UsesBatch(c)
      /\ \A c \in Calls : call'[c].batch = call[c].batch
  BY <1>2, <1>3, <1>6, <1>7, <1>8, RemovalKeepsWaiters
<1>10. TraceTypeOK'
  <2>1. \A b \in DOMAIN cached_blocks' :
          cached_blocks'[b] \in CacheBlock /\ cached_blocks'[b].active_batch_count > 0
    BY <1>2, <1>5
  <2>2. DOMAIN cached_blocks' \subseteq Blocks BY <1>7 DEF TraceInv, TraceTypeOK
  <2>3. /\ DOMAIN batches' \subseteq 0..(next_batch_id' - 1)
        /\ \A i \in DOMAIN batches' : batches'[i] \subseteq Blocks
        /\ batch_expirations' \subseteq DOMAIN batches'
    BY <1>2, <1>4 DEF TraceInv, TraceTypeOK
  <2> QED BY <1>2, <1>8, <1>9, <2>1, <2>2, <2>3 DEF TraceInv, TraceTypeOK
<1>11. BatchesAreOwned'
  <2>1. ASSUME NEW c \in Calls, UsesBatch(c)'
        PROVE  call'[c].batch \in DOMAIN batches' \ batch_expirations'
    <3>1. call[c].batch \in DOMAIN batches \ batch_expirations
      BY <1>9, <2>1 DEF TraceInv, BatchesAreOwned
    <3> QED BY <1>2, <1>4, <1>9, <3>1
  <2>2. \A c, d \in Calls : UsesBatch(c)' /\ UsesBatch(d)' /\ call'[c].batch = call'[d].batch
                              => c = d
    BY <1>9 DEF TraceInv, BatchesAreOwned
  <2> QED BY <2>1, <2>2 DEF BatchesAreOwned
<1>12. CountsWithinBatches'
  <2> SUFFICES ASSUME NEW b \in DOMAIN cached_blocks'
               PROVE  cached_blocks'[b].active_batch_count <= Cardinality(UsersOf(b)')
    BY DEF CountsWithinBatches, UsersOf
  <2>1. /\ b \in DOMAIN cached_blocks
        /\ cached_blocks'[b].active_batch_count =
             cached_blocks[b].active_batch_count - IF b \in blocks THEN 1 ELSE 0
    BY <1>2, <1>5
  <2>2. /\ cached_blocks[b].active_batch_count \in Nat
        /\ cached_blocks[b].active_batch_count <= Cardinality(UsersOf(b))
    BY <2>1 DEF TraceInv, TraceTypeOK, CacheBlock, CountsWithinBatches
  <2>3. IsFiniteSet(UsersOf(b)) /\ Cardinality(UsersOf(b)) \in Nat
    BY UsersAreFinite DEF TraceInv
  <2>4. UsersOf(b)' = UsersOf(b) \ {id} BY <1>4 DEF UsersOf
  <2>5. id \in UsersOf(b) <=> b \in blocks BY <1>1 DEF UsersOf, blocks
  <2>6. Cardinality(UsersOf(b) \ {id}) =
          Cardinality(UsersOf(b)) - IF b \in blocks THEN 1 ELSE 0
    <3>1. CASE b \in blocks BY <2>3, <2>5, <3>1, FS_RemoveElement
    <3>2. CASE b \notin blocks
      <4>1. UsersOf(b) \ {id} = UsersOf(b) BY <2>5, <3>2
      <4> QED BY <2>3, <3>2, <4>1
    <3> QED BY <3>1, <3>2
  <2> QED BY <2>1, <2>2, <2>3, <2>4, <2>6
<1>13. PooledIsTraced'
  <2>1. \A b \in DOMAIN cached_blocks' : cached_blocks'[b].task = cached_blocks[b].task
    BY <1>2, <1>5
  <2> QED BY <1>2, <1>7, <2>1 DEF TraceInv, PooledIsTraced, IsPooled
<1> QED BY <1>9, <1>10, <1>11, <1>12, <1>13 DEF TraceInv

-----------------------------------------------------------------------------
LEMMA NextStep == TraceInv /\ [Next]_vars => TraceInv'
<1> SUFFICES ASSUME TraceInv, [Next]_vars PROVE TraceInv'
  OBVIOUS
<1>1. ASSUME NEW c \in Calls, Filter(c) \/ CallSteps(c) PROVE TraceInv'
  BY <1>1, CallStep
<1>2. ASSUME NEW c \in Calls, CacheHandles(c) PROVE TraceInv'
  BY <1>2, StartBatchStep, GetTracesStep, StopBatchStep DEF CacheHandles
<1>3. ASSUME NEW b \in Blocks, CacheReads(b) PROVE TraceInv'
  BY <1>3, StartedStep, FinishedStep DEF CacheReads
<1>4. ASSUME NEW id \in batch_expirations, ExpiredBatch(id) PROVE TraceInv'
  BY <1>4, ExpiredStep
<1>5. ASSUME NEW t \in DOMAIN tasks, TaskSteps(t) PROVE TraceInv'
  BY <1>5, TaskStep
<1>6. CASE UNCHANGED vars
  <2>1. UNCHANGED <<call, requests, cache>> /\ tasks' = tasks /\ messages' = messages
    BY <1>6 DEF vars
  <2>2. OneRequestEach' /\ BatchesAreOwned' /\ CountsWithinBatches' /\ WaitersAreKnown'
    BY <2>1, CacheFrame
  <2>3. TraceTypeOK' BY <2>1 DEF TraceInv, TraceTypeOK, cache
  <2>4. PooledIsTraced' BY <2>1 DEF TraceInv, PooledIsTraced, IsPooled, cache
  <2> QED BY <2>2, <2>3, <2>4 DEF TraceInv
<1> QED BY <1>1, <1>2, <1>3, <1>4, <1>5, <1>6 DEF Next

LEMMA InvariantHolds == Spec => []TraceInv
<1>1. Init => TraceInv BY InitInv, TraceAssumption
<1> QED BY <1>1, NextStep, PTL DEF Spec

\* The calls, channels, cache entries and tasks of trace_filter keep their
\* types; no entry has a count of zero, and only batches that exist expire.
THEOREM TraceTypesAreOK == Spec => []TraceTypeOK
<1>1. TraceInv => TraceTypeOK BY DEF TraceInv
<1> QED BY <1>1, InvariantHolds, PTL

\* An entry counts no more batches than are left to expire, whatever order
\* batches start, stop and expire in: expired_batch never takes a count below
\* zero and no entry outlives the last batch of its block.
THEOREM CountsStayWithinBatches == Spec => []CountsWithinBatches
<1>1. TraceInv => CountsWithinBatches BY DEF TraceInv
<1> QED BY <1>1, InvariantHolds, PTL

\* A pooled entry always has its tracing task or a result on the way, however
\* its entry was dropped and pooled anew in the meantime.
THEOREM PooledBlocksAreTraced == Spec => []PooledIsTraced
<1>1. TraceInv => PooledIsTraced BY DEF TraceInv
<1> QED BY <1>1, InvariantHolds, PTL

\* A call that awaits a block has its request on the way or is on the list of
\* that block, and of no other: no answer of the cache task goes missing.
THEOREM WaitersStayKnown == Spec => []WaitersAreKnown
<1>1. TraceInv => WaitersAreKnown BY DEF TraceInv
<1> QED BY <1>1, InvariantHolds, PTL

-----------------------------------------------------------------------------
(* While every call is patient, the counts are exact.  What a call asks    *)
(* for and has fetched is tied to the state of the blocks: those it has    *)
(* fetched are not pooled any more, so that stopping its batch drops none. *)

\* What holds of every call, patient or not.
InStep(c) ==
    /\ call[c].todo \subseteq call[c].blocks
    /\ call[c].pc \in {"idle", "starting", "waiting"} => call[c].error = "none"
    /\ call[c].pc = "idle" => ~call[c].limited
    /\ call[c].pc = "starting" => call[c].todo = call[c].blocks
    /\ call[c].pc = "waiting" => call[c].todo # {}
    /\ UsesBatch(c) => batches[call[c].batch] = call[c].blocks

AllInStep == \A c \in Calls : InStep(c)

Patient == \A c \in Calls : ~call[c].limited /\ call[c].error # "replay"

Served(c) ==
    /\ call[c].error = "none"
    /\ call[c].pc = "done" => call[c].todo = {}
    /\ UsesBatch(c) => \A b \in call[c].blocks \ call[c].todo : ~IsPooled(b)

BatchesCached ==
    \A id \in DOMAIN batches : \A b \in batches[id] :
      /\ b \in DOMAIN cached_blocks
      /\ cached_blocks[b].active_batch_count = Cardinality(UsersOf(b))

PatientOK == BatchesCached /\ \A c \in Calls : Served(c)

ShareInv == AllInStep /\ (Patient => PatientOK)

\* The block a call waits for is one it asks for.
LEMMA AwaitedIsWanted ==
    ASSUME TraceTypeOK, TraceAssumption, NEW c \in Calls, call[c].todo # {}
    PROVE  Awaited(c) \in call[c].todo
<1> DEFINE todo == call[c].todo
           UpTo(x) == {y \in todo : y <= x}
           Parts == {UpTo(x) : x \in todo}
<1>1. todo \subseteq Nat BY DEF TraceTypeOK, Call, TraceAssumption
<1>2. IsFiniteSet(todo)
  <2>1. todo \subseteq Blocks /\ IsFiniteSet(Blocks)
    BY DEF TraceTypeOK, Call, TraceAssumption
  <2> QED BY <2>1, FS_Subset
<1>3. Parts \in SUBSET SUBSET todo /\ Parts # {} OBVIOUS
<1> HIDE DEF todo, Parts
<1>4. PICK T \in Parts : \A U \in Parts : ~ (U \subseteq T /\ U # T)
  BY <1>2, <1>3, MinimalSubset
<1>5. PICK x \in todo : T = UpTo(x) BY DEF Parts
<1>6. ASSUME NEW y \in todo, ~(x <= y) PROVE FALSE
  <2>1. UpTo(y) \in Parts BY DEF Parts
  <2>2. UpTo(y) \subseteq UpTo(x) BY <1>1, <1>6
  <2>3. x \in UpTo(x) /\ x \notin UpTo(y) BY <1>1, <1>6
  <2> QED BY <1>4, <1>5, <2>1, <2>2, <2>3
<1>7. \A y \in todo : x <= y BY <1>6
<1>8. (CHOOSE m \in todo : \A y \in todo : m <= y) \in todo BY <1>7
<1> QED BY <1>8 DEF Awaited, Min, todo

\* What an answer does to a call that waits.
LEMMA AnswerEffects ==
    ASSUME call \in [Calls -> Call], NEW cs \in SUBSET Calls, NEW c \in cs
    PROVE  /\ call' = Refused(cs) =>
                /\ call'[c].blocks = call[c].blocks /\ call'[c].limited = call[c].limited
                /\ call'[c].todo = call[c].todo /\ call'[c].error = "cache"
           /\ call' = Received(cs, "Traced") =>
                /\ call'[c].blocks = call[c].blocks /\ call'[c].limited = call[c].limited
                /\ call'[c].todo = call[c].todo \ {Awaited(c)}
                /\ call'[c].error = call[c].error
           /\ call' = Received(cs, "Failed") =>
                /\ call'[c].blocks = call[c].blocks /\ call'[c].limited = call[c].limited
                /\ call'[c].todo = call[c].todo /\ call'[c].error = "replay"
<1>1. call[c] \in Call /\ c \in Calls OBVIOUS
<1>2. ASSUME call' = Refused(cs)
      PROVE  /\ call'[c].blocks = call[c].blocks /\ call'[c].limited = call[c].limited
             /\ call'[c].todo = call[c].todo /\ call'[c].error = "cache"
  BY <1>1, <1>2 DEF Refused, Call
<1>3. ASSUME call' = Received(cs, "Traced")
      PROVE  /\ call'[c].blocks = call[c].blocks /\ call'[c].limited = call[c].limited
             /\ call'[c].todo = call[c].todo \ {Awaited(c)}
             /\ call'[c].error = call[c].error
  <2> DEFINE todo == call[c].todo \ {Awaited(c)}
  <2>1. call'[c] = [call[c] EXCEPT !.pc = "fetching", !.todo = todo]
    BY <1>1, <1>3 DEF Received, Call
  <2> HIDE DEF todo
  <2>2. /\ call'[c].blocks = call[c].blocks /\ call'[c].limited = call[c].limited
        /\ call'[c].todo = todo /\ call'[c].error = call[c].error
    BY <1>1, <2>1 DEF Call
  <2> QED BY <2>2 DEF todo
<1>4. ASSUME call' = Received(cs, "Failed")
      PROVE  /\ call'[c].blocks = call[c].blocks /\ call'[c].limited = call[c].limited
             /\ call'[c].todo = call[c].todo /\ call'[c].error = "replay"
  <2>1. call'[c] = [call[c] EXCEPT !.pc = "fetching", !.error = "replay"]
    BY <1>1, <1>4 DEF Received
  <2> QED BY <1>1, <2>1 DEF Call
<1> QED BY <1>2, <1>3, <1>4

\* Answers leave the calls in step, and make none patient.
LEMMA AnswersKeepInStep ==
    ASSUME TraceInv, AllInStep, NEW cs \in SUBSET Calls,
           \A c \in cs : call[c].pc = "waiting",
           call' = Refused(cs) \/ \E result \in Results : call' = Received(cs, result),
           \A c \in Calls : UsesBatch(c)' => UsesBatch(c),
           \A id \in DOMAIN batches \ batch_expirations :
             id \in DOMAIN batches' /\ batches'[id] = batches[id]
    PROVE  AllInStep' /\ (Patient' => Patient)
<1>1. call \in [Calls -> Call] BY DEF TraceInv, TraceTypeOK
<1>2. Answered(cs) BY <1>1, AnswerFacts
<1>3. \A c \in cs : /\ call'[c].blocks = call[c].blocks
                    /\ call'[c].limited = call[c].limited
                    /\ call'[c].todo \subseteq call[c].todo
                    /\ call'[c].batch = call[c].batch /\ call'[c].pc = "fetching"
  BY <1>1, <1>2, AnswerEffects DEF Answered, Results
<1>4. \A c \in Calls : UsesBatch(c) => call[c].batch \in DOMAIN batches \ batch_expirations
  BY DEF TraceInv, BatchesAreOwned
<1>5. AllInStep'
  <2> SUFFICES ASSUME NEW c \in Calls PROVE InStep(c)'
    BY DEF AllInStep
  <2>1. InStep(c) BY DEF AllInStep
  <2>2. CASE c \in cs
    <3>1. UsesBatch(c) BY <2>2 DEF UsesBatch
    <3> QED BY <1>3, <1>4, <2>1, <2>2, <3>1 DEF InStep
  <2>3. CASE c \notin cs
    <3>1. call'[c] = call[c] BY <1>2, <2>3 DEF Answered
    <3> QED BY <1>4, <2>1, <3>1 DEF InStep
  <2> QED BY <2>2, <2>3
<1>6. ASSUME Patient', NEW c \in Calls PROVE ~call[c].limited /\ call[c].error # "replay"
  <2>1. CASE c \in cs BY <1>3, <1>6, <2>1 DEF Patient, AllInStep, InStep
  <2>2. CASE c \notin cs BY <1>2, <1>6, <2>2 DEF Patient, Answered
  <2> QED BY <2>1, <2>2
<1> QED BY <1>5, <1>6 DEF Patient

\* Calls that keep their record and entries that keep their count and do not
\* become pooled stay as they should be.
LEMMA ServedStays ==
    ASSUME NEW c, Served(c), call'[c] = call[c], UsesBatch(c)' => UsesBatch(c),
           \A b \in call[c].blocks : IsPooled(b)' => IsPooled(b)
    PROVE  Served(c)'
BY DEF Served

LEMMA CountsStay ==
    ASSUME BatchesCached, UNCHANGED batches, DOMAIN cached_blocks' = DOMAIN cached_blocks,
           \A b \in DOMAIN cached_blocks :
             cached_blocks'[b].active_batch_count = cached_blocks[b].active_batch_count
    PROVE  BatchesCached'
<1>1. \A b : UsersOf(b)' = UsersOf(b) BY DEF UsersOf
<1> QED BY <1>1 DEF BatchesCached

-----------------------------------------------------------------------------
(* Each step keeps the counts exact for patient calls.                     *)

\* A step of the tasks, or one that only reads a message or marks entries.
LEMMA MarkingKeepsShare ==
    ASSUME ShareInv, UNCHANGED <<call, requests, batches>>,
           DOMAIN cached_blocks' = DOMAIN cached_blocks,
           \A b \in DOMAIN cached_blocks :
             /\ cached_blocks'[b].active_batch_count = cached_blocks[b].active_batch_count
             /\ cached_blocks'[b].state = cached_blocks[b].state
    PROVE  ShareInv'
<1>1. \A c \in Calls : UsesBatch(c)' <=> UsesBatch(c) BY DEF UsesBatch
<1>2. AllInStep' BY <1>1 DEF ShareInv, AllInStep, InStep
<1>3. Patient' => Patient BY DEF Patient
<1>4. \A b : IsPooled(b)' <=> IsPooled(b) BY DEF IsPooled
<1>5. ASSUME Patient PROVE PatientOK'
  <2>1. BatchesCached' BY <1>5, CountsStay DEF ShareInv, PatientOK
  <2>2. ASSUME NEW c \in Calls PROVE Served(c)'
    BY <1>1, <1>4, <1>5, ServedStays DEF ShareInv, PatientOK
  <2> QED BY <2>1, <2>2 DEF PatientOK
<1> QED BY <1>2, <1>3, <1>5 DEF ShareInv

LEMMA TaskShares ==
    ASSUME ShareInv, NEW t, TaskSteps(t)
    PROVE  ShareInv'
<1>1. UNCHANGED <<call, requests, batches, cached_blocks>>
  BY DEF TaskSteps, TaskCancelled, TaskAcquires, TaskStarts, TaskFinishes, cache
<1> QED BY <1>1, MarkingKeepsShare

\* A call that asks: Filter takes up its blocks, GetTraces wants one of them,
\* StopBatch has them all if the call is patient.
LEMMA CallShares ==
    ASSUME TraceInv, ShareInv, NEW c \in Calls, Filter(c) \/ CallSteps(c)
    PROVE  ShareInv'
<1>1. /\ UNCHANGED <<cached_blocks, batches, batch_expirations>>
      /\ call \in [Calls -> Call] /\ call[c] \in Call /\ InStep(c)
  BY DEF Filter, CallSteps, GetTraces, StopBatch, cache, TraceInv, TraceTypeOK,
         ShareInv, AllInStep
<1>2. /\ \A d \in Calls \ {c} : call'[d] = call[d]
      /\ call[c].pc \in {"idle", "fetching"}
  BY <1>1 DEF Filter, CallSteps, GetTraces, StopBatch
<1>3. ASSUME NEW d \in Calls \ {c}, UsesBatch(d)' PROVE UsesBatch(d)
  <2>1. Asks("StopBatch", d) \in Range(requests') => Asks("StopBatch", d) \in Range(requests)
    <3>1. PICK kind \in {"StartBatch", "GetTraces", "StopBatch"} : Send(kind, c)
      BY DEF Filter, CallSteps, GetTraces, StopBatch
    <3>2. \A k \in {"StartBatch", "GetTraces", "StopBatch"} : call[c].pc # PcOf(k)
      BY <1>2 DEF PcOf
    <3>3. requests \in Seq(Request) /\ OneRequestEach BY DEF TraceInv, TraceTypeOK
    <3>4. Range(requests') = Range(requests) \cup {Asks(kind, c)}
      BY <3>1, <3>2, <3>3, SendFacts
    <3> QED BY <3>4 DEF Asks
  <2> QED BY <1>2, <1>3, <2>1 DEF UsesBatch
<1>4. ASSUME InStep(c)' PROVE AllInStep'
  <2>1. ASSUME NEW d \in Calls \ {c} PROVE InStep(d)'
    BY <1>1, <1>2, <1>3 DEF ShareInv, AllInStep, InStep
  <2> QED BY <1>4, <2>1 DEF AllInStep
<1>5. ASSUME Patient, Served(c)' PROVE PatientOK'
  <2>1. BatchesCached'
    BY <1>1, <1>5, CountsStay DEF ShareInv, PatientOK
  <2>2. ASSUME NEW d \in Calls \ {c} PROVE Served(d)'
    <3>1. Served(d) /\ call'[d] = call[d] /\ (UsesBatch(d)' => UsesBatch(d))
      BY <1>2, <1>3, <1>5 DEF ShareInv, PatientOK
    <3>2. \A b : IsPooled(b)' => IsPooled(b) BY <1>1 DEF IsPooled
    <3> QED BY <3>1, <3>2, ServedStays
  <2> QED BY <1>5, <2>1, <2>2 DEF PatientOK
<1>6. CASE Filter(c)
  <2>1. PICK blocks \in SUBSET Blocks, limited \in BOOLEAN :
          call' = [call EXCEPT ![c] =
                    [@ EXCEPT !.pc = "starting", !.blocks = blocks, !.todo = blocks,
                              !.limited = limited]]
    BY <1>6 DEF Filter
  <2>2. /\ call'[c].pc = "starting" /\ call'[c].blocks = blocks
        /\ call'[c].todo = blocks /\ call'[c].error = call[c].error
        /\ call'[c].limited = limited
    BY <1>1, <2>1 DEF Call
  <2>3. call[c].pc = "idle" /\ call[c].error = "none" BY <1>1, <1>6 DEF Filter, InStep
  <2>4. ~UsesBatch(c)'
    <3>1. requests' = Append(requests, Asks("StartBatch", c))
      BY <1>6 DEF Filter, Send, Asks
    <3>2. requests \in Seq(Request) /\ Asks("StartBatch", c) \in Request
      BY DEF TraceInv, TraceTypeOK, Request, Asks
    <3>3. Range(requests') = Range(requests) \cup {Asks("StartBatch", c)}
      BY <3>1, <3>2, AppendFacts
    <3>4. Asks("StopBatch", c) \notin Range(requests)
      <4>1. SUFFICES ASSUME Asks("StopBatch", c) \in Range(requests) PROVE FALSE
        OBVIOUS
      <4>2. call[c].pc = PcOf("StopBatch") BY <4>1 DEF TraceInv, OneRequestEach, Asks
      <4> QED BY <2>3, <4>2 DEF PcOf
    <3> QED BY <2>2, <3>3, <3>4 DEF UsesBatch, Asks
  <2>5. InStep(c)' BY <2>2, <2>3, <2>4 DEF InStep
  <2>6. Served(c)' BY <2>2, <2>3, <2>4 DEF Served
  <2>7. ASSUME Patient', NEW d \in Calls PROVE ~call[d].limited /\ call[d].error # "replay"
    <3>1. CASE d = c
      <4>1. ~call[c].limited BY <1>1, <1>6 DEF Filter, InStep
      <4> QED BY <2>3, <3>1, <4>1
    <3>2. CASE d # c BY <1>2, <2>7, <3>2 DEF Patient
    <3> QED BY <3>1, <3>2
  <2> QED BY <1>4, <1>5, <2>5, <2>6, <2>7 DEF ShareInv, Patient
<1>7. ASSUME call[c].pc = "fetching", NEW pc \in {"waiting", "done"},
             call' = [call EXCEPT ![c].pc = pc],
             pc = "waiting" => MayFetch(c), pc = "done" => MayLeave(c)
      PROVE  ShareInv'
  <2>1. /\ call'[c].pc = pc /\ call'[c].blocks = call[c].blocks
        /\ call'[c].todo = call[c].todo /\ call'[c].error = call[c].error
        /\ call'[c].limited = call[c].limited /\ call'[c].batch = call[c].batch
    BY <1>1, <1>7 DEF Call
  <2>2. UsesBatch(c) BY <1>7 DEF UsesBatch
  <2>3. InStep(c)' BY <1>1, <1>7, <2>1, <2>2 DEF InStep, MayFetch
  <2>4. Patient' => Patient
    <3>1. ASSUME Patient', NEW d \in Calls PROVE ~call[d].limited /\ call[d].error # "replay"
      BY <1>2, <2>1, <3>1 DEF Patient
    <3> QED BY <3>1 DEF Patient
  <2>5. ASSUME Patient PROVE Served(c)'
    <3>1. Served(c) /\ ~call[c].limited BY <2>5 DEF Patient, ShareInv, PatientOK
    <3>2. pc = "done" => call[c].todo = {} BY <1>7, <3>1 DEF MayLeave, Served
    <3>3. \A b : IsPooled(b)' => IsPooled(b) BY <1>1 DEF IsPooled
    <3> QED BY <2>1, <2>2, <3>1, <3>2, <3>3 DEF Served
  <2> QED BY <1>4, <1>5, <2>3, <2>4, <2>5 DEF ShareInv
<1>8. CASE GetTraces(c)
  <2>1. /\ call[c].pc = "fetching" /\ MayFetch(c)
        /\ call' = [call EXCEPT ![c].pc = "waiting"]
    BY <1>8 DEF GetTraces
  <2> QED BY <1>7, <2>1
<1>9. CASE StopBatch(c)
  <2>1. /\ call[c].pc = "fetching" /\ MayLeave(c)
        /\ call' = [call EXCEPT ![c].pc = "done"]
    BY <1>9 DEF StopBatch
  <2> QED BY <1>7, <2>1
<1> QED BY <1>6, <1>8, <1>9 DEF CallSteps

\* A batch that starts is counted with every block of it.
LEMMA StartBatchShares ==
    ASSUME TraceInv, ShareInv, NEW c \in Calls, RequestStartBatch(c)
    PROVE  ShareInv'
<1> DEFINE id == next_batch_id
           blocks == call[c].blocks
<1>1. /\ batches' = [i \in DOMAIN batches \cup {id} |-> IF i = id THEN blocks ELSE batches[i]]
      /\ cached_blocks' = CacheWith(blocks, id)
      /\ call' = [call EXCEPT ![c].pc = "fetching", ![c].batch = id]
      /\ Handles("StartBatch", c)
  BY DEF RequestStartBatch
<1>2. /\ Range(requests) = Range(requests') \cup {Asks("StartBatch", c)}
      /\ call[c].pc = "starting"
  BY <1>1, HandleFacts DEF TraceInv, TraceTypeOK, PcOf
<1>3. /\ call \in [Calls -> Call] /\ call[c] \in Call
      /\ DOMAIN batches \subseteq 0..(id - 1) /\ id \in Nat /\ id \notin DOMAIN batches
  BY DEF TraceInv, TraceTypeOK
<1> HIDE DEF id
<1>4. /\ call'[c].pc = "fetching" /\ call'[c].batch = id
      /\ call'[c].blocks = blocks /\ call'[c].todo = blocks /\ call'[c].error = "none"
      /\ call'[c].limited = call[c].limited
      /\ \A d \in Calls \ {c} : call'[d] = call[d]
  <2>1. call'[c] = [call[c] EXCEPT !.pc = "fetching", !.batch = id] BY <1>1, <1>3
  <2>2. InStep(c) BY DEF ShareInv, AllInStep
  <2>3. call[c].todo = blocks /\ call[c].error = "none" BY <1>2, <2>2 DEF InStep
  <2> QED BY <1>1, <1>3, <2>1, <2>3 DEF Call
<1> HIDE DEF blocks
<1>5. \A d \in Calls \ {c} : UsesBatch(d)' => UsesBatch(d)
  BY <1>2, <1>4 DEF UsesBatch
<1>6. AllInStep'
  <2>1. InStep(c)' BY <1>1, <1>4 DEF InStep
  <2>2. ASSUME NEW d \in Calls \ {c} PROVE InStep(d)'
    <3>1. InStep(d) BY DEF ShareInv, AllInStep
    <3>2. UsesBatch(d) => batches'[call[d].batch] = batches[call[d].batch]
      BY <1>1, <1>3 DEF TraceInv, BatchesAreOwned
    <3> QED BY <1>4, <1>5, <3>1, <3>2 DEF InStep
  <2> QED BY <2>1, <2>2 DEF AllInStep
<1>7. Patient' => Patient
  <2>1. call[c].error = "none" BY <1>2 DEF ShareInv, AllInStep, InStep
  <2>2. ASSUME Patient', NEW d \in Calls PROVE ~call[d].limited /\ call[d].error # "replay"
    BY <1>4, <2>1, <2>2 DEF Patient
  <2> QED BY <2>2 DEF Patient
<1>8. ASSUME Patient PROVE BatchesCached'
  <2>1. BatchesCached BY <1>8 DEF ShareInv, PatientOK
  <2> SUFFICES ASSUME NEW i \in DOMAIN batches', NEW b \in batches'[i]
               PROVE  /\ b \in DOMAIN cached_blocks'
                      /\ cached_blocks'[b].active_batch_count = Cardinality(UsersOf(b)')
    BY DEF BatchesCached
  <2>2. UsersOf(b)' = IF b \in blocks THEN UsersOf(b) \cup {id} ELSE UsersOf(b)
    BY <1>1, <1>3 DEF UsersOf
  <2>3. id \notin UsersOf(b) BY <1>3 DEF UsersOf
  <2>4. IsFiniteSet(UsersOf(b)) /\ Cardinality(UsersOf(b)) \in Nat
    BY UsersAreFinite DEF TraceInv
  <2>5. Cardinality(UsersOf(b) \cup {id}) = Cardinality(UsersOf(b)) + 1
    BY <2>3, <2>4, FS_AddElement
  <2>6. UsersOf(b) # {} => /\ b \in DOMAIN cached_blocks
                           /\ cached_blocks[b].active_batch_count = Cardinality(UsersOf(b))
    BY <2>1 DEF BatchesCached, UsersOf
  <2>7. b \in blocks \/ UsersOf(b) # {}
    BY <1>1 DEF UsersOf
  <2>8. b \in DOMAIN cached_blocks' BY <1>1, <2>6, <2>7 DEF CacheWith
  <2>9. CASE b \in DOMAIN cached_blocks
    <3>1. UsersOf(b) # {}
      <4>1. cached_blocks[b].active_batch_count \in Nat \ {0}
            /\ cached_blocks[b].active_batch_count <= Cardinality(UsersOf(b))
        BY <2>9 DEF TraceInv, TraceTypeOK, CacheBlock, CountsWithinBatches
      <4>2. Cardinality(UsersOf(b)) # 0 BY <4>1, <2>4
      <4> QED BY <4>2, FS_EmptySet
    <3>2. cached_blocks[b] \in CacheBlock BY <2>9 DEF TraceInv, TraceTypeOK
    <3>3. cached_blocks'[b] = IF b \in blocks
                              THEN [cached_blocks[b] EXCEPT !.active_batch_count = @ + 1]
                              ELSE cached_blocks[b]
      BY <1>1, <2>9 DEF CacheWith
    <3>4. cached_blocks'[b].active_batch_count =
            cached_blocks[b].active_batch_count + IF b \in blocks THEN 1 ELSE 0
      <4>1. CASE b \in blocks BY <3>2, <3>3, <4>1 DEF CacheBlock
      <4>2. CASE b \notin blocks BY <3>2, <3>3, <4>2 DEF CacheBlock
      <4> QED BY <4>1, <4>2
    <3>5. CASE b \in blocks BY <2>2, <2>4, <2>5, <2>6, <2>8, <3>1, <3>4, <3>5
    <3>6. CASE b \notin blocks BY <2>2, <2>4, <2>6, <2>8, <3>1, <3>4, <3>6
    <3> QED BY <3>5, <3>6
  <2>10. CASE b \notin DOMAIN cached_blocks
    <3>1. b \in blocks /\ UsersOf(b) = {} BY <2>6, <2>7, <2>10
    <3>2. cached_blocks'[b] = Pooled(id) BY <1>1, <2>10, <3>1 DEF CacheWith
    <3>3. Cardinality(UsersOf(b)) = 0 BY <3>1, FS_EmptySet
    <3> QED BY <2>2, <2>5, <2>8, <3>1, <3>2, <3>3 DEF Pooled
  <2> QED BY <2>9, <2>10
<1>9. ASSUME Patient, NEW d \in Calls PROVE Served(d)'
  <2>1. CASE d = c BY <1>4, <2>1 DEF Served
  <2>2. CASE d # c
    <3>1. Served(d) /\ InStep(d) /\ BatchesCached
      BY <1>9 DEF ShareInv, PatientOK, AllInStep
    <3>2. ASSUME UsesBatch(d)', NEW b \in call[d].blocks \ call[d].todo
          PROVE  ~IsPooled(b)'
      <4>1. UsesBatch(d) BY <1>5, <2>2, <3>2
      <4>2. call[d].batch \in DOMAIN batches /\ batches[call[d].batch] = call[d].blocks
        BY <3>1, <4>1 DEF TraceInv, BatchesAreOwned, InStep
      <4>3. b \in DOMAIN cached_blocks BY <3>1, <4>2 DEF BatchesCached
      <4>4. cached_blocks[b].state # "Pooled"
        BY <3>1, <4>1, <4>3 DEF Served, IsPooled
      <4>5. cached_blocks[b] \in CacheBlock BY <4>3 DEF TraceInv, TraceTypeOK
      <4>6. cached_blocks'[b] = IF b \in blocks
                                THEN [cached_blocks[b] EXCEPT !.active_batch_count = @ + 1]
                                ELSE cached_blocks[b]
        BY <1>1, <4>3 DEF CacheWith
      <4>7. cached_blocks'[b].state = cached_blocks[b].state
        <5>1. CASE b \in blocks BY <4>5, <4>6, <5>1 DEF CacheBlock
        <5>2. CASE b \notin blocks BY <4>6, <5>2
        <5> QED BY <5>1, <5>2
      <4> QED BY <4>4, <4>7 DEF IsPooled
    <3> QED BY <1>4, <2>2, <3>1, <3>2 DEF Served
  <2> QED BY <2>1, <2>2
<1> QED BY <1>6, <1>7, <1>8, <1>9 DEF ShareInv, PatientOK

\* The block a patient call waits for is in the cache.
LEMMA AwaitedIsCached ==
    ASSUME TraceAssumption, TraceInv, AllInStep, PatientOK,
           NEW c \in Calls, call[c].pc = "waiting"
    PROVE  /\ call[c].batch \in DOMAIN batches \ batch_expirations
           /\ Awaited(c) \in batches[call[c].batch]
           /\ Awaited(c) \in DOMAIN cached_blocks
<1>1. InStep(c) /\ UsesBatch(c) BY DEF AllInStep, UsesBatch
<1>2. call[c].batch \in DOMAIN batches \ batch_expirations
  BY <1>1 DEF TraceInv, BatchesAreOwned
<1>3. Awaited(c) \in call[c].todo
  BY <1>1, AwaitedIsWanted DEF TraceInv, InStep
<1>4. Awaited(c) \in batches[call[c].batch] BY <1>1, <1>3 DEF InStep
<1> QED BY <1>2, <1>4 DEF PatientOK, BatchesCached

\* A patient call is answered with traces, or finds its place on a list.
LEMMA GetTracesShares ==
    ASSUME TraceAssumption, TraceInv, ShareInv, NEW c \in Calls, RequestGetTraces(c)
    PROVE  ShareInv'
<1> DEFINE b == Awaited(c)
<1>1. /\ batches' = batches /\ batch_expirations' = batch_expirations
      /\ Handles("GetTraces", c)
  BY DEF RequestGetTraces
<1>2. /\ Range(requests) = Range(requests') \cup {Asks("GetTraces", c)}
      /\ call[c].pc = "waiting"
      /\ requests' \in Seq(Request)
      /\ \A r \in Range(requests') : r \in Request /\ r.call # c
      /\ \A i, j \in DOMAIN requests' : requests'[i].call = requests'[j].call => i = j
  BY <1>1, HandleFacts DEF TraceInv, TraceTypeOK, PcOf
<1>3. call \in [Calls -> Call] BY DEF TraceInv, TraceTypeOK
<1> HIDE DEF b
<1>4. CASE IsPooled(b) /\ call' = call
           /\ cached_blocks' = [cached_blocks EXCEPT ![b].waiting_requests = @ \cup {c}]
  <2>1. \A d \in Calls : UsesBatch(d)' <=> UsesBatch(d)
    BY <1>2, <1>4 DEF UsesBatch, Asks
  <2>2. AllInStep' /\ (Patient' => Patient)
    BY <1>1, <1>4, <2>1 DEF ShareInv, AllInStep, InStep, Patient
  <2>3. DOMAIN cached_blocks' = DOMAIN cached_blocks
        /\ \A a \in DOMAIN cached_blocks :
             /\ cached_blocks'[a].active_batch_count = cached_blocks[a].active_batch_count
             /\ cached_blocks'[a].state = cached_blocks[a].state
    <3>1. ASSUME NEW a \in DOMAIN cached_blocks
          PROVE  /\ cached_blocks'[a].active_batch_count = cached_blocks[a].active_batch_count
                 /\ cached_blocks'[a].state = cached_blocks[a].state
      <4>1. cached_blocks[a] \in CacheBlock BY DEF TraceInv, TraceTypeOK
      <4>2. CASE a = b
        <5>1. cached_blocks'[a] = [cached_blocks[a] EXCEPT
                !.waiting_requests = cached_blocks[a].waiting_requests \cup {c}]
          BY <1>4, <4>2
        <5> QED BY <4>1, <5>1 DEF CacheBlock
      <4>3. CASE a # b BY <1>4, <4>3
      <4> QED BY <4>2, <4>3
    <3> QED BY <1>4, <3>1
  <2>4. \A a : IsPooled(a)' => IsPooled(a) BY <2>3 DEF IsPooled
  <2>5. ASSUME Patient PROVE PatientOK'
    <3>1. BatchesCached' BY <1>1, <2>3, <2>5, CountsStay DEF ShareInv, PatientOK
    <3>2. ASSUME NEW d \in Calls PROVE Served(d)'
      BY <1>4, <2>1, <2>4, <2>5, ServedStays DEF ShareInv, PatientOK
    <3> QED BY <3>1, <3>2 DEF PatientOK
  <2> QED BY <2>2, <2>5 DEF ShareInv
<1>5. CASE cached_blocks' = cached_blocks
           /\ \/ call' = Refused({c}) /\ b \notin DOMAIN cached_blocks
              \/ \E result \in Results :
                   call' = Received({c}, result) /\ ~IsPooled(b)
  <2>1. /\ {c} \in SUBSET Calls /\ \A d \in {c} : call[d].pc = "waiting"
        /\ call' = Refused({c}) \/ \E result \in Results : call' = Received({c}, result)
    BY <1>2, <1>5
  <2>2. Answered({c}) BY <1>3, <2>1, AnswerFacts
  <2>3. \A d \in Calls : UsesBatch(d)' => UsesBatch(d)
    BY <1>2, <2>2, AnswersKeepQueue
  <2>4. AllInStep' /\ (Patient' => Patient)
    BY <1>1, <2>1, <2>3, AnswersKeepInStep DEF ShareInv
  <2>5. ASSUME Patient, Patient' PROVE PatientOK'
    <3>1. PatientOK /\ AllInStep BY <2>5 DEF ShareInv
    <3>2. BatchesCached' BY <1>1, <1>5, <3>1, CountsStay DEF PatientOK
    <3>3. b \in DOMAIN cached_blocks BY <1>2, <3>1, AwaitedIsCached DEF b
    <3>4. call' = Received({c}, "Traced") /\ ~IsPooled(b)
      <4>1. PICK result \in Results : call' = Received({c}, result) /\ ~IsPooled(b)
        BY <1>5, <3>3
      <4>2. result # "Failed"
        <5>1. SUFFICES ASSUME call' = Received({c}, "Failed") PROVE FALSE BY <4>1
        <5>2. call'[c].error = "replay" BY <1>3, <5>1, AnswerEffects
        <5> QED BY <2>5, <5>2 DEF Patient
      <4> QED BY <4>1, <4>2 DEF Results
    <3>5. /\ call'[c].blocks = call[c].blocks
          /\ call'[c].todo = call[c].todo \ {b} /\ call'[c].error = call[c].error
      BY <1>3, <3>4, AnswerEffects DEF b
    <3>6. Served(c)'
      <4>1. Served(c) /\ UsesBatch(c) BY <1>2, <3>1 DEF PatientOK, UsesBatch
      <4>2. call'[c].pc = "fetching" BY <2>2 DEF Answered
      <4>3. \A a : IsPooled(a)' => IsPooled(a) BY <1>5 DEF IsPooled
      <4> QED BY <3>4, <3>5, <4>1, <4>2, <4>3 DEF Served
    <3>7. ASSUME NEW d \in Calls \ {c} PROVE Served(d)'
      <4>1. Served(d) /\ call'[d] = call[d] /\ (UsesBatch(d)' => UsesBatch(d))
        BY <2>2, <2>3, <3>1 DEF PatientOK, Answered
      <4>2. \A a : IsPooled(a)' => IsPooled(a) BY <1>5 DEF IsPooled
      <4> QED BY <4>1, <4>2, ServedStays
    <3> QED BY <3>2, <3>6, <3>7 DEF PatientOK
  <2> QED BY <2>4, <2>5 DEF ShareInv
<1>6. b \in DOMAIN cached_blocks /\ ~IsPooled(b) => cached_blocks[b].state \in Results
  BY DEF IsPooled, TraceInv, TraceTypeOK, CacheBlock
<1> QED BY <1>4, <1>5, <1>6 DEF RequestGetTraces, b

\* A patient call that stops its batch has fetched all its blocks, so that
\* none of them is dropped.
LEMMA StopBatchShares ==
    ASSUME TraceInv, ShareInv, NEW c \in Calls, RequestStopBatch(c)
    PROVE  ShareInv'
<1> DEFINE id == call[c].batch
           dropped == IF id \in DOMAIN batches THEN NoLongerRequested(batches[id]) ELSE {}
<1>1. /\ batches' = batches
      /\ batch_expirations' = batch_expirations \cup {id}
      /\ cached_blocks' = RemoveBlocks(dropped)
      /\ call' = Refused(WaitingWith(dropped))
      /\ Handles("StopBatch", c)
  BY DEF RequestStopBatch
<1>2. /\ Range(requests) = Range(requests') \cup {Asks("StopBatch", c)}
      /\ call[c].pc = "done"
      /\ requests' \in Seq(Request)
      /\ \A r \in Range(requests') : r \in Request /\ r.call # c
      /\ \A i, j \in DOMAIN requests' : requests'[i].call = requests'[j].call => i = j
  BY <1>1, HandleFacts DEF TraceInv, TraceTypeOK, PcOf
<1>3. id \in DOMAIN batches \ batch_expirations /\ UsesBatch(c)
  BY <1>2 DEF TraceInv, BatchesAreOwned, UsesBatch
<1>4. dropped \in SUBSET DOMAIN cached_blocks BY DEF NoLongerRequested, IsPooled
<1>5. call \in [Calls -> Call] BY DEF TraceInv, TraceTypeOK
<1> HIDE DEF id, dropped
<1>6. /\ WaitingWith(dropped) \in SUBSET Calls
      /\ \A d \in WaitingWith(dropped) : /\ call[d].pc = "waiting"
                                         /\ \A r \in Range(requests) : r.call # d
  BY <1>4, WaitersOf
<1>7. Answered(WaitingWith(dropped)) BY <1>1, <1>5, <1>6, AnswerFacts
<1>8. \A d \in Calls : UsesBatch(d)' => UsesBatch(d)
  BY <1>2, <1>6, <1>7, AnswersKeepQueue
<1>9. AllInStep' /\ (Patient' => Patient)
  BY <1>1, <1>6, <1>8, AnswersKeepInStep DEF ShareInv
<1>10. ASSUME Patient PROVE PatientOK'
  <2>1. PatientOK /\ Served(c) /\ InStep(c)
    BY <1>10 DEF ShareInv, PatientOK, AllInStep
  <2>2. batches[id] = call[c].blocks /\ call[c].todo = {}
    BY <1>2, <1>3, <2>1 DEF InStep, Served, id
  <2>3. \A b \in batches[id] : ~IsPooled(b) BY <1>3, <2>1, <2>2 DEF Served
  <2>4. dropped = {} BY <2>3 DEF dropped, NoLongerRequested
  <2>5. WaitingWith(dropped) = {} BY <2>4 DEF WaitingWith
  <2>6. cached_blocks' = [b \in DOMAIN cached_blocks |-> cached_blocks[b]]
    BY <1>1, <2>4 DEF RemoveBlocks, Restrict
  <2>7. \A d \in Calls : call'[d] = call[d] BY <1>7, <2>5 DEF Answered
  <2>8. BatchesCached' BY <1>1, <2>1, <2>6, CountsStay DEF PatientOK
  <2>9. \A b : IsPooled(b)' => IsPooled(b) BY <2>6 DEF IsPooled
  <2>10. ASSUME NEW d \in Calls PROVE Served(d)'
    BY <1>8, <2>1, <2>7, <2>9, ServedStays DEF PatientOK
  <2> QED BY <2>8, <2>10 DEF PatientOK
<1> QED BY <1>9, <1>10 DEF ShareInv

LEMMA StartedShares ==
    ASSUME TraceInv, ShareInv, NEW b, BlockingStarted(b)
    PROVE  ShareInv'
<1>1. UNCHANGED <<call, requests, batches>>
      /\ cached_blocks' = IF IsPooled(b) THEN [cached_blocks EXCEPT ![b].started = TRUE]
                          ELSE cached_blocks
  BY DEF BlockingStarted
<1>2. ASSUME NEW a \in DOMAIN cached_blocks
      PROVE  /\ cached_blocks'[a].active_batch_count = cached_blocks[a].active_batch_count
             /\ cached_blocks'[a].state = cached_blocks[a].state
  <2>1. cached_blocks[a] \in CacheBlock BY DEF TraceInv, TraceTypeOK
  <2>2. CASE IsPooled(b) /\ a = b
    <3>1. cached_blocks'[a] = [cached_blocks[a] EXCEPT !.started = TRUE]
      BY <1>1, <2>2
    <3> QED BY <2>1, <3>1 DEF CacheBlock
  <2>3. CASE ~(IsPooled(b) /\ a = b) BY <1>1, <2>3
  <2> QED BY <2>2, <2>3
<1>3. DOMAIN cached_blocks' = DOMAIN cached_blocks BY <1>1
<1> QED BY <1>1, <1>2, <1>3, MarkingKeepsShare

\* Everyone on the list of a block that has been traced has fetched it.
LEMMA FinishedShares ==
    ASSUME TraceInv, ShareInv,
           NEW b \in Blocks, NEW result \in Results, BlockingFinished(b, result)
    PROVE  ShareInv'
<1>1. requests' = requests /\ batches' = batches /\ batch_expirations' = batch_expirations
  BY DEF BlockingFinished
<1>2. CASE ~IsPooled(b)
  <2>1. call' = call /\ cached_blocks' = cached_blocks BY <1>2 DEF BlockingFinished
  <2> QED BY <1>1, <2>1, MarkingKeepsShare
<1>3. CASE IsPooled(b)
  <2> DEFINE cs == WaitingWith({b})
  <2>1. b \in DOMAIN cached_blocks BY <1>3 DEF IsPooled
  <2>2. cs = cached_blocks[b].waiting_requests BY DEF WaitingWith
  <2>3. /\ call' = Received(cs, result)
        /\ cached_blocks' = [cached_blocks EXCEPT ![b].state = result,
                                                  ![b].waiting_requests = {}]
    BY <1>3, <2>2 DEF BlockingFinished
  <2>4. /\ cs \in SUBSET Calls
        /\ \A c \in cs : /\ call[c].pc = "waiting" /\ Awaited(c) \in {b}
                         /\ \A r \in Range(requests) : r.call # c
    BY <2>1, WaitersOf
  <2> HIDE DEF cs
  <2>5. call \in [Calls -> Call] /\ requests' \in Seq(Request)
        /\ \A i, j \in DOMAIN requests' : requests'[i].call = requests'[j].call => i = j
    BY <1>1 DEF TraceInv, TraceTypeOK, OneRequestEach
  <2>6. Answered(cs) BY <2>3, <2>4, <2>5, AnswerFacts
  <2>7. \A c \in Calls : UsesBatch(c)' => UsesBatch(c)
    BY <1>1, <2>4, <2>5, <2>6, AnswersKeepQueue
  <2>8. AllInStep' /\ (Patient' => Patient)
    BY <1>1, <2>3, <2>4, <2>7, AnswersKeepInStep DEF ShareInv
  <2>9. cached_blocks[b] \in CacheBlock
        /\ cached_blocks'[b] = [cached_blocks[b] EXCEPT !.state = result,
                                                        !.waiting_requests = {}]
    BY <2>1, <2>3 DEF TraceInv, TraceTypeOK
  <2>10. /\ DOMAIN cached_blocks' = DOMAIN cached_blocks
         /\ \A a \in DOMAIN cached_blocks \ {b} : cached_blocks'[a] = cached_blocks[a]
         /\ cached_blocks'[b].active_batch_count = cached_blocks[b].active_batch_count
         /\ cached_blocks'[b].state = result
    BY <2>1, <2>3, <2>9 DEF CacheBlock
  <2>11. \A a \in DOMAIN cached_blocks :
           cached_blocks'[a].active_batch_count = cached_blocks[a].active_batch_count
    BY <2>10
  <2>12. ~IsPooled(b)' /\ \A a : IsPooled(a)' => IsPooled(a)
    BY <2>10 DEF IsPooled, Results
  <2>13. ASSUME Patient, Patient' PROVE PatientOK'
    <3>1. PatientOK BY <2>13 DEF ShareInv
    <3>2. BatchesCached' BY <1>1, <2>10, <2>11, <3>1, CountsStay DEF PatientOK
    <3>3. ASSUME NEW c \in cs PROVE Served(c)'
      <4>1. Served(c) /\ UsesBatch(c) /\ Awaited(c) = b /\ c \in Calls
        BY <2>4, <3>1 DEF PatientOK, UsesBatch
      <4>2. result = "Traced"
        <5>1. SUFFICES ASSUME result = "Failed" PROVE FALSE BY DEF Results
        <5>2. call'[c].error = "replay" BY <2>3, <2>4, <2>5, <5>1, AnswerEffects
        <5> QED BY <2>13, <4>1, <5>2 DEF Patient
      <4>3. /\ call'[c].blocks = call[c].blocks
            /\ call'[c].todo = call[c].todo \ {b} /\ call'[c].error = call[c].error
        BY <2>3, <2>4, <2>5, <4>1, <4>2, AnswerEffects
      <4>4. call'[c].pc = "fetching" BY <2>6 DEF Answered
      <4> QED BY <2>12, <4>1, <4>3, <4>4 DEF Served
    <3>4. ASSUME NEW c \in Calls \ cs PROVE Served(c)'
      <4>1. Served(c) /\ call'[c] = call[c] /\ (UsesBatch(c)' => UsesBatch(c))
        BY <2>6, <2>7, <3>1 DEF PatientOK, Answered
      <4> QED BY <2>12, <4>1, ServedStays
    <3> QED BY <3>2, <3>3, <3>4 DEF PatientOK
  <2> QED BY <2>8, <2>13 DEF ShareInv
<1> QED BY <1>2, <1>3

\* An expired batch takes along the blocks that no other batch holds, and so
\* none that a patient call waits for.
LEMMA ExpiredShares ==
    ASSUME TraceAssumption, TraceInv, ShareInv, NEW id \in batch_expirations, ExpiredBatch(id)
    PROVE  ShareInv'
<1> DEFINE blocks == batches[id]
           left == CacheWithout(blocks)
           gone == DOMAIN cached_blocks \ DOMAIN left
<1>1. id \in DOMAIN batches BY DEF TraceInv, TraceTypeOK
<1>2. /\ requests' = requests
      /\ batches' = Restrict(batches, DOMAIN batches \ {id})
      /\ cached_blocks' = left
      /\ call' = Refused(WaitingWith(gone))
  BY <1>1 DEF ExpiredBatch
<1>3. /\ DOMAIN batches' = DOMAIN batches \ {id}
      /\ \A i \in DOMAIN batches' : batches'[i] = batches[i]
  BY <1>2 DEF Restrict
<1>4. /\ call \in [Calls -> Call] /\ requests' \in Seq(Request)
      /\ \A i, j \in DOMAIN requests' : requests'[i].call = requests'[j].call => i = j
  BY <1>2 DEF TraceInv, TraceTypeOK, OneRequestEach
<1>5. gone = {b \in DOMAIN cached_blocks :
                b \in blocks /\ cached_blocks[b].active_batch_count = 1}
  BY DEF CacheWithout
<1>6. DOMAIN left = DOMAIN cached_blocks \ gone
      /\ \A b \in DOMAIN left :
           left[b] = IF b \in blocks
                     THEN [cached_blocks[b] EXCEPT !.active_batch_count = @ - 1]
                     ELSE cached_blocks[b]
  BY DEF CacheWithout
<1> HIDE DEF blocks, left, gone
<1>7. \A b \in DOMAIN left :
        /\ left[b].active_batch_count =
             cached_blocks[b].active_batch_count - IF b \in blocks THEN 1 ELSE 0
        /\ left[b].state = cached_blocks[b].state
  <2> SUFFICES ASSUME NEW b \in DOMAIN left
               PROVE  /\ left[b].active_batch_count =
                           cached_blocks[b].active_batch_count - IF b \in blocks THEN 1 ELSE 0
                      /\ left[b].state = cached_blocks[b].state
    OBVIOUS
  <2>1. cached_blocks[b] \in CacheBlock BY <1>6 DEF TraceInv, TraceTypeOK
  <2>2. cached_blocks[b].active_batch_count \in Nat BY <2>1 DEF CacheBlock
  <2>3. CASE b \in blocks
    <3>1. left[b] = [cached_blocks[b] EXCEPT
                       !.active_batch_count = cached_blocks[b].active_batch_count - 1]
      BY <1>6, <2>3
    <3> QED BY <2>1, <2>2, <2>3, <3>1 DEF CacheBlock
  <2>4. CASE b \notin blocks BY <1>6, <2>2, <2>4
  <2> QED BY <2>3, <2>4
<1>8. gone \in SUBSET DOMAIN cached_blocks BY <1>5
<1>9. /\ WaitingWith(gone) \in SUBSET Calls
      /\ \A d \in WaitingWith(gone) : /\ call[d].pc = "waiting" /\ Awaited(d) \in gone
                                      /\ \A r \in Range(requests) : r.call # d
  BY <1>8, WaitersOf
<1>10. Answered(WaitingWith(gone)) BY <1>2, <1>4, <1>9, AnswerFacts
<1>11. \A d \in Calls : UsesBatch(d)' => UsesBatch(d)
  BY <1>2, <1>4, <1>9, <1>10, AnswersKeepQueue
<1>12. \A i \in DOMAIN batches \ batch_expirations :
         i \in DOMAIN batches' /\ batches'[i] = batches[i]
  BY <1>3
<1>13. AllInStep' /\ (Patient' => Patient)
  BY <1>2, <1>9, <1>11, <1>12, AnswersKeepInStep DEF ShareInv
<1>14. ASSUME Patient PROVE PatientOK'
  <2>1. PatientOK /\ AllInStep BY <1>14 DEF ShareInv
  <2>2. ASSUME NEW b \in gone PROVE UsersOf(b) = {id}
    <3>1. id \in UsersOf(b) BY <1>1, <1>5 DEF UsersOf, blocks
    <3>2. Cardinality(UsersOf(b)) = 1
      BY <1>5, <3>1, <2>1 DEF PatientOK, BatchesCached, UsersOf
    <3>3. IsFiniteSet(UsersOf(b)) BY UsersAreFinite DEF TraceInv
    <3>4. Cardinality(UsersOf(b) \ {id}) = 0
      <4>1. Cardinality(UsersOf(b) \ {id}) = Cardinality(UsersOf(b)) - 1
        BY <3>1, <3>3, FS_RemoveElement
      <4> QED BY <3>2, <4>1
    <3>5. IsFiniteSet(UsersOf(b) \ {id}) BY <3>3, FS_RemoveElement
    <3>6. UsersOf(b) \ {id} = {} BY <3>4, <3>5, FS_EmptySet
    <3> QED BY <3>1, <3>6
  <2>3. WaitingWith(gone) = {}
    <3>1. ASSUME NEW d \in WaitingWith(gone) PROVE FALSE
      <4>1. /\ d \in Calls /\ call[d].pc = "waiting" /\ Awaited(d) \in gone
        BY <1>9
      <4>2. /\ call[d].batch \in DOMAIN batches \ batch_expirations
            /\ Awaited(d) \in batches[call[d].batch]
        BY <2>1, <4>1, AwaitedIsCached
      <4>3. call[d].batch \in UsersOf(Awaited(d)) BY <4>2 DEF UsersOf
      <4> QED BY <2>2, <4>1, <4>2, <4>3
    <3> QED BY <3>1
  <2>4. \A d \in Calls : call'[d] = call[d] BY <1>10, <2>3 DEF Answered
  <2>5. \A b : IsPooled(b)' => IsPooled(b) BY <1>2, <1>6, <1>7 DEF IsPooled
  <2>6. ASSUME NEW d \in Calls PROVE Served(d)'
    BY <1>11, <2>1, <2>4, <2>5, ServedStays DEF PatientOK
  <2>7. BatchesCached'
    <3> SUFFICES ASSUME NEW i \in DOMAIN batches', NEW b \in batches'[i]
                 PROVE  /\ b \in DOMAIN cached_blocks'
                        /\ cached_blocks'[b].active_batch_count = Cardinality(UsersOf(b)')
      BY DEF BatchesCached
    <3>1. i \in UsersOf(b) /\ i # id BY <1>3 DEF UsersOf
    <3>2. b \notin gone BY <2>2, <3>1
    <3>3. /\ b \in DOMAIN cached_blocks
          /\ cached_blocks[b].active_batch_count = Cardinality(UsersOf(b))
      BY <1>3, <2>1 DEF PatientOK, BatchesCached
    <3>4. b \in DOMAIN left BY <1>6, <3>2, <3>3
    <3>5. UsersOf(b)' = UsersOf(b) \ {id} BY <1>3 DEF UsersOf
    <3>6. IsFiniteSet(UsersOf(b)) /\ Cardinality(UsersOf(b)) \in Nat
      BY UsersAreFinite DEF TraceInv
    <3>7. id \in UsersOf(b) <=> b \in blocks BY <1>1 DEF UsersOf, blocks
    <3>8. Cardinality(UsersOf(b) \ {id}) =
            Cardinality(UsersOf(b)) - IF b \in blocks THEN 1 ELSE 0
      <4>1. CASE b \in blocks BY <3>6, <3>7, <4>1, FS_RemoveElement
      <4>2. CASE b \notin blocks
        <5>1. UsersOf(b) \ {id} = UsersOf(b) BY <3>7, <4>2
        <5>2. Cardinality(UsersOf(b) \ {id}) = Cardinality(UsersOf(b)) BY <5>1
        <5>3. (IF b \in blocks THEN 1 ELSE 0) = 0 BY <4>2
        <5>4. \A n \in Nat : n - 0 = n OBVIOUS
        <5> QED BY <3>6, <5>2, <5>3, <5>4
      <4> QED BY <4>1, <4>2
    <3> QED BY <1>2, <1>7, <3>3, <3>4, <3>5, <3>8
  <2> QED BY <2>6, <2>7 DEF PatientOK
<1> QED BY <1>13, <1>14 DEF ShareInv

-----------------------------------------------------------------------------
\* Calls of trace_filter that fetch all they ask for share the blocks of their
\* range: however their batches, traces and timers interleave, each batch that
\* has not expired finds every block of it in the cache, counted once for
\* every such batch, and the cache task refuses none of these calls.
THEOREM PatientCallsAlwaysShare == Spec => []PatientCallsShare
<1>1. Init => TraceInv BY InitInv, TraceAssumption
<1>2. Init => ShareInv
  <2> SUFFICES ASSUME Init PROVE ShareInv
    OBVIOUS
  <2>1. \A c \in Calls : /\ call[c].pc = "idle" /\ call[c].blocks = {} /\ call[c].todo = {}
                         /\ ~call[c].limited /\ call[c].error = "none"
    BY DEF Init
  <2>2. \A c : Asks("StopBatch", c) \notin Range(requests)
    BY DEF Init, Range
  <2>3. DOMAIN batches = {} BY DEF Init, NoBlocks
  <2> QED BY <2>1, <2>2, <2>3 DEF ShareInv, AllInStep, InStep, PatientOK, BatchesCached,
                                  Served, UsesBatch
<1>3. TraceInv /\ ShareInv /\ [Next]_vars => ShareInv'
  <2> SUFFICES ASSUME TraceInv, ShareInv, [Next]_vars PROVE ShareInv'
    OBVIOUS
  <2>1. ASSUME NEW c \in Calls, Filter(c) \/ CallSteps(c) PROVE ShareInv'
    BY <2>1, CallShares
  <2>2. ASSUME NEW c \in Calls, CacheHandles(c) PROVE ShareInv'
    BY <2>2, StartBatchShares, GetTracesShares, StopBatchShares, TraceAssumption
       DEF CacheHandles
  <2>3. ASSUME NEW b \in Blocks, CacheReads(b) PROVE ShareInv'
    BY <2>3, StartedShares, FinishedShares DEF CacheReads
  <2>4. ASSUME NEW id \in batch_expirations, ExpiredBatch(id) PROVE ShareInv'
    BY <2>4, ExpiredShares, TraceAssumption
  <2>5. ASSUME NEW t \in DOMAIN tasks, TaskSteps(t) PROVE ShareInv'
    BY <2>5, TaskShares
  <2>6. CASE UNCHANGED vars
    <3>1. UNCHANGED <<call, requests, batches>> /\ cached_blocks' = cached_blocks
      BY <2>6 DEF vars, cache
    <3> QED BY <3>1, MarkingKeepsShare
  <2> QED BY <2>1, <2>2, <2>3, <2>4, <2>5, <2>6 DEF Next
<1>4. ShareInv => PatientCallsShare
  BY DEF ShareInv, Patient, PatientOK, PatientCallsShare, BatchesCached, Served
<1>5. TraceInv /\ [Next]_vars => TraceInv' BY NextStep
<1> QED BY <1>1, <1>2, <1>3, <1>4, <1>5, PTL DEF Spec

==============================================================================
