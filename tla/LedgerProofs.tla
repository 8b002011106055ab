----------------------------- MODULE LedgerProofs -----------------------------
(***************************************************************************)
(* The ledgers of AllychainStaking agree, for every number of accounts and *)
(* candidates and every capacity of the lists: the books of the candidates *)
(* and the records of the delegators tell the same story, what is promised *)
(* is reserved, and Total is never more than what is reserved - and just   *)
(* what is promised as long as steps are prudent.                          *)
(*                                                                         *)
(* The invariant ties three things together.  Every book is in order       *)
(* (BookOrderProofs), its entries are exactly what the delegators' records *)
(* say of its candidate (BooksAgree), and every record is consistent with  *)
(* itself (RecordsAgree).  None of the three is inductive alone: a lookup  *)
(* in a book finds the delegation only because the record names the amount *)
(* the book has, and a record whose total is zero is empty only because    *)
(* totals are sums.                                                        *)
(***************************************************************************)
EXTENDS AllychainStakingProofs, BookOrderProofs

-----------------------------------------------------------------------------
(* The records of the delegators.                                          *)

\* The delegations f of a record and their total n.
DelegationsSum(f, n) ==
    /\ DOMAIN f # {}
    /\ Cardinality(DOMAIN f) <= MaxDelegationsPerDelegator
    /\ \A c \in DOMAIN f : f[c] > 0
    /\ n = SumFunction(f)

AmountsAsked(r) == [c \in DOMAIN r |-> r[c].amount]
Revoked(r) == { c \in DOMAIN r : r[c].action = "Revoke" }

\* The requests r of a record, the sum of their amounts and the number of
\* revocations among them.
RequestsSum(r, n, k) ==
    /\ n = SumFunction(AmountsAsked(r))
    /\ k = Cardinality(Revoked(r))

\* No request asks for more than its delegation has.
RequestsFit(r, f) ==
    \A c \in DOMAIN r : c \in DOMAIN f /\ r[c].amount <= f[c]

RecordAgrees(del) ==
    /\ DelegationsSum(del.delegations, del.total)
    /\ RequestsSum(del.requests, del.less_total, del.revocations_count)
    /\ RequestsFit(del.requests, del.delegations)

LEMMA FiniteMap ==
    ASSUME NEW f, NEW T, IsMap(f, Accounts, T)
    PROVE  IsFiniteSet(DOMAIN f) /\ \A c \in DOMAIN f : f[c] \in T
<1>1. IsFiniteSet(Accounts)
    BY StakingAssumption
<1> QED
    BY <1>1, FS_Subset DEF IsMap

\* A delegation goes, and another one stays.
LEMMA DropDelegation ==
    ASSUME NEW f, IsMap(f, Accounts, Nat), NEW n, DelegationsSum(f, n),
           NEW c \in DOMAIN f, DOMAIN f \ {c} # {},
           NEW g, g = Drop(f, c), NEW m, m = SaturatingSub(n, f[c])
    PROVE  DelegationsSum(g, m)
<1>1. IsFiniteSet(DOMAIN f) /\ \A x \in DOMAIN f : f[x] \in Nat
    BY FiniteMap
<1>2. g = [x \in DOMAIN f \ {c} |-> f[x]]
    BY DEF Drop
<1>3. SumFunction(f) = f[c] + SumFunction(g) /\ SumFunction(g) \in Nat
    BY <1>1, <1>2, SumDrop
<1>4. m = SumFunction(g)
    <2>1. PICK s : s = SumFunction(g) /\ s \in Nat
        BY <1>3
    <2>2. n = f[c] + s /\ f[c] \in Nat
        BY <1>1, <1>3, <2>1 DEF DelegationsSum
    <2> QED
        BY <2>1, <2>2 DEF SaturatingSub
<1>5. Cardinality(DOMAIN g) <= MaxDelegationsPerDelegator
    <2>1. DOMAIN g \subseteq DOMAIN f
        BY <1>2
    <2>2. /\ Cardinality(DOMAIN g) <= Cardinality(DOMAIN f)
          /\ Cardinality(DOMAIN g) \in Nat /\ Cardinality(DOMAIN f) \in Nat
        BY <1>1, <2>1, FS_Subset, FS_CardinalityType
    <2>3. Cardinality(DOMAIN f) <= MaxDelegationsPerDelegator
        BY DEF DelegationsSum
    <2>4. MaxDelegationsPerDelegator \in Nat
        BY StakingAssumption
    <2> QED
        BY <2>2, <2>3, <2>4
<1> QED
    BY <1>2, <1>4, <1>5 DEF DelegationsSum

\* A delegation comes.
LEMMA PutDelegation ==
    ASSUME NEW f, IsMap(f, Accounts, Nat), NEW n, DelegationsSum(f, n),
           NEW c, c \notin DOMAIN f, NEW amount \in Nat \ {0},
           Cardinality(DOMAIN f) < MaxDelegationsPerDelegator,
           NEW g, g = Put(f, c, amount)
    PROVE  DelegationsSum(g, n + amount)
<1>1. IsFiniteSet(DOMAIN f) /\ \A x \in DOMAIN f : f[x] \in Nat
    BY FiniteMap
<1>2. g = [x \in DOMAIN f \union {c} |-> IF x = c THEN amount ELSE f[x]]
    BY DEF Put
<1>3. SumFunction(g) = SumFunction(f) + amount
    BY <1>1, <1>2, SumPut
<1>4. Cardinality(DOMAIN g) <= MaxDelegationsPerDelegator
    <2>1. DOMAIN g = DOMAIN f \union {c}
        BY <1>2
    <2>2. /\ Cardinality(DOMAIN g) = Cardinality(DOMAIN f) + 1
          /\ Cardinality(DOMAIN f) \in Nat
        BY <1>1, <2>1, FS_AddElement, FS_CardinalityType
    <2>3. MaxDelegationsPerDelegator \in Nat
        BY StakingAssumption
    <2> QED
        BY <2>2, <2>3
<1>5. \A x \in DOMAIN g : g[x] > 0
    BY <1>2 DEF DelegationsSum
<1> QED
    BY <1>2, <1>3, <1>4, <1>5 DEF DelegationsSum

\* A first delegation.
LEMMA OnlyDelegation ==
    ASSUME NEW c, NEW amount \in Nat \ {0}, NEW g, g = [x \in {c} |-> amount]
    PROVE  DelegationsSum(g, amount)
<1>1. IsFiniteSet({c}) /\ Cardinality({c}) = 1 /\ {c} \ {c} = {}
    BY FS_Singleton
<1>2. DOMAIN g = {c} /\ g[c] = amount /\ \A x \in {c} : g[x] \in Nat
    OBVIOUS
<1>3. SumFunctionOnSet(g, {c}) = g[c] + SumFunctionOnSet(g, {c} \ {c})
    BY <1>1, <1>2, SumRemove
<1>4. SumFunction(g) = amount
    BY <1>1, <1>2, <1>3, SumOfNothing DEF SumFunction
<1>5. MaxDelegationsPerDelegator \in Nat /\ MaxDelegationsPerDelegator > 0
    BY StakingAssumption
<1>6. \A x \in DOMAIN g : g[x] > 0
    OBVIOUS
<1> QED
    BY <1>1, <1>2, <1>4, <1>5, <1>6 DEF DelegationsSum

\* A delegation becomes v.
LEMMA ChangeDelegation ==
    ASSUME NEW f, IsMap(f, Accounts, Nat), NEW n, DelegationsSum(f, n),
           NEW c \in DOMAIN f, NEW v \in Nat \ {0},
           NEW g, DOMAIN g = DOMAIN f, g[c] = v,
           \A x \in DOMAIN f \ {c} : g[x] = f[x],
           NEW m \in Nat, m + f[c] = n + v
    PROVE  DelegationsSum(g, m)
<1>1. IsFiniteSet(DOMAIN f) /\ \A x \in DOMAIN f : f[x] \in Nat
    BY FiniteMap
<1>3. /\ SumFunction(g) + f[c] = SumFunction(f) + v
      /\ SumFunction(g) \in Nat /\ SumFunction(f) \in Nat
    <2>1. v \in Nat
        OBVIOUS
    <2> QED
        BY <1>1, <2>1, SumExcept
<1>4. m = SumFunction(g)
    <2>1. PICK s, t : s = SumFunction(g) /\ t = SumFunction(f)
        OBVIOUS
    <2>2. s + f[c] = t + v /\ s \in Nat /\ t \in Nat /\ n = t /\ f[c] \in Nat
        BY <1>1, <1>3, <2>1 DEF DelegationsSum
    <2> QED
        BY <2>1, <2>2
<1>5. \A x \in DOMAIN g : g[x] > 0
    BY DEF DelegationsSum
<1>6. Cardinality(DOMAIN g) <= MaxDelegationsPerDelegator /\ DOMAIN g # {}
    BY DEF DelegationsSum
<1> QED
    BY <1>4, <1>5, <1>6 DEF DelegationsSum

\* Requests.
LEMMA RequestParts ==
    ASSUME NEW r, IsMap(r, Accounts, DelegationRequest)
    PROVE  /\ IsFiniteSet(DOMAIN r)
           /\ IsFiniteSet(DOMAIN AmountsAsked(r)) /\ DOMAIN AmountsAsked(r) = DOMAIN r
           /\ \A c \in DOMAIN r : /\ r[c].amount \in Nat
                                  /\ AmountsAsked(r)[c] = r[c].amount
           /\ \A c \in DOMAIN AmountsAsked(r) : AmountsAsked(r)[c] \in Nat
           /\ IsFiniteSet(Revoked(r)) /\ Cardinality(Revoked(r)) \in Nat
<1>1. IsFiniteSet(DOMAIN r) /\ \A c \in DOMAIN r : r[c] \in DelegationRequest
    BY FiniteMap
<1>2. \A c \in DOMAIN r : r[c].amount \in Nat
    BY <1>1 DEF DelegationRequest
<1>3. /\ DOMAIN AmountsAsked(r) = DOMAIN r
      /\ \A c \in DOMAIN r : AmountsAsked(r)[c] = r[c].amount
    BY DEF AmountsAsked
<1>4. Revoked(r) \subseteq DOMAIN r
    BY DEF Revoked
<1> QED
    BY <1>1, <1>2, <1>3, <1>4, FS_Subset, FS_CardinalityType

LEMMA NoRequests ==
    RequestsSum(EmptyMap, 0, 0)
<1>1. DOMAIN EmptyMap = {}
    BY DEF EmptyMap
<1>2. DOMAIN AmountsAsked(EmptyMap) = {} /\ Revoked(EmptyMap) = {}
    BY <1>1 DEF AmountsAsked, Revoked
<1> QED
    BY <1>2, SumOfNothing, FS_EmptySet DEF RequestsSum, SumFunction

\* A request goes.
LEMMA DropRequest ==
    ASSUME NEW r, IsMap(r, Accounts, DelegationRequest), NEW n, NEW k,
           RequestsSum(r, n, k), NEW c \in DOMAIN r, NEW g, g = Drop(r, c),
           NEW m, m = SaturatingSub(n, r[c].amount),
           NEW j, j = IF r[c].action = "Revoke" THEN SaturatingSub(k, 1) ELSE k
    PROVE  RequestsSum(g, m, j)
<1>1. g = [x \in DOMAIN r \ {c} |-> r[x]]
    BY DEF Drop
<1>2. m = SumFunction(AmountsAsked(g))
    <2>1. AmountsAsked(g) = [x \in DOMAIN AmountsAsked(r) \ {c} |-> AmountsAsked(r)[x]]
        BY <1>1, RequestParts DEF AmountsAsked
    <2>2. /\ IsFiniteSet(DOMAIN AmountsAsked(r)) /\ c \in DOMAIN AmountsAsked(r)
          /\ \A x \in DOMAIN AmountsAsked(r) : AmountsAsked(r)[x] \in Nat
        BY RequestParts
    <2>3. PICK a, b : a = AmountsAsked(r) /\ b = AmountsAsked(g)
        OBVIOUS
    <2>4. SumFunction(a) = a[c] + SumFunction(b) /\ SumFunction(b) \in Nat
        BY <2>1, <2>2, <2>3, SumDrop
    <2>5. PICK s : s = SumFunction(b) /\ s \in Nat
        BY <2>4
    <2>6. n = r[c].amount + s /\ r[c].amount \in Nat
        BY <2>3, <2>4, <2>5, RequestParts DEF RequestsSum
    <2>7. m = s
        BY <2>5, <2>6 DEF SaturatingSub
    <2> QED
        BY <2>3, <2>5, <2>7
<1>3. j = Cardinality(Revoked(g))
    <2>1. Revoked(g) = Revoked(r) \ {c}
        BY <1>1 DEF Revoked
    <2>2. IsFiniteSet(Revoked(r)) /\ Cardinality(Revoked(r)) \in Nat
        BY RequestParts
    <2>3. k = Cardinality(Revoked(r))
        BY DEF RequestsSum
    <2>4. CASE r[c].action = "Revoke"
        <3>1. c \in Revoked(r)
            BY <2>4 DEF Revoked
        <3>2. Cardinality(Revoked(g)) = k - 1 /\ Cardinality(Revoked(g)) \in Nat
            BY <2>1, <2>2, <2>3, <3>1, FS_RemoveElement, FS_CardinalityType
        <3> QED
            BY <2>2, <2>3, <2>4, <3>2 DEF SaturatingSub
    <2>5. CASE r[c].action # "Revoke"
        <3>1. Revoked(g) = Revoked(r)
            BY <2>1, <2>5 DEF Revoked
        <3> QED
            BY <2>3, <2>5, <3>1
    <2> QED
        BY <2>4, <2>5
<1> QED
    BY <1>2, <1>3 DEF RequestsSum

\* A request comes.
LEMMA PutRequest ==
    ASSUME NEW r, IsMap(r, Accounts, DelegationRequest), NEW n, NEW k,
           RequestsSum(r, n, k), NEW c, c \notin DOMAIN r,
           NEW request, NEW amount \in Nat, request.amount = amount,
           NEW g, g = Put(r, c, request),
           NEW j, j = IF request.action = "Revoke" THEN k + 1 ELSE k
    PROVE  RequestsSum(g, n + amount, j)
<1>1. g = [x \in DOMAIN r \union {c} |-> IF x = c THEN request ELSE r[x]]
    BY DEF Put
<1>2. n + amount = SumFunction(AmountsAsked(g))
    <2>1. AmountsAsked(g) = [ x \in DOMAIN AmountsAsked(r) \union {c} |->
                                IF x = c THEN amount ELSE AmountsAsked(r)[x] ]
        BY <1>1, RequestParts DEF AmountsAsked
    <2>2. /\ IsFiniteSet(DOMAIN AmountsAsked(r)) /\ c \notin DOMAIN AmountsAsked(r)
          /\ \A x \in DOMAIN AmountsAsked(r) : AmountsAsked(r)[x] \in Nat
        BY RequestParts
    <2>3. PICK a, b : a = AmountsAsked(r) /\ b = AmountsAsked(g)
        OBVIOUS
    <2>4. SumFunction(b) = SumFunction(a) + amount
        BY <2>1, <2>2, <2>3, SumPut
    <2> QED
        BY <2>3, <2>4 DEF RequestsSum
<1>3. j = Cardinality(Revoked(g))
    <2>1. IsFiniteSet(Revoked(r)) /\ Cardinality(Revoked(r)) \in Nat
        BY RequestParts
    <2>2. k = Cardinality(Revoked(r)) /\ c \notin Revoked(r)
        BY DEF RequestsSum, Revoked
    <2>3. CASE request.action = "Revoke"
        <3>1. Revoked(g) = Revoked(r) \union {c}
            BY <1>1, <2>3 DEF Revoked
        <3> QED
            BY <2>1, <2>2, <2>3, <3>1, FS_AddElement
    <2>4. CASE request.action # "Revoke"
        <3>1. Revoked(g) = Revoked(r)
            BY <1>1, <2>4 DEF Revoked
        <3> QED
            BY <2>2, <2>4, <3>1
    <2> QED
        BY <2>3, <2>4
<1> QED
    BY <1>2, <1>3 DEF RequestsSum

-----------------------------------------------------------------------------
(* The methods of Delegator.                                               *)

LEMMA RecordParts ==
    ASSUME NEW del, DelegatorOK(del), RecordAgrees(del)
    PROVE  /\ IsMap(del.delegations, Accounts, Nat)
           /\ IsMap(del.requests, Accounts, DelegationRequest)
           /\ del.total \in Nat /\ del.less_total \in Nat
           /\ del.revocations_count \in Nat
           /\ DelegationsSum(del.delegations, del.total)
           /\ RequestsSum(del.requests, del.less_total, del.revocations_count)
           /\ RequestsFit(del.requests, del.delegations)
BY DEF DelegatorOK, RecordAgrees

\* Only these five fields matter.
LEMMA SameRecord ==
    ASSUME NEW del, RecordAgrees(del), NEW new,
           new.delegations = del.delegations, new.total = del.total,
           new.requests = del.requests, new.less_total = del.less_total,
           new.revocations_count = del.revocations_count
    PROVE  RecordAgrees(new)
BY DEF RecordAgrees

LEMMA NewDelegatorAgrees ==
    ASSUME NEW c, NEW amount \in Nat \ {0}
    PROVE  RecordAgrees(NewDelegator(c, amount))
<1>1. DelegationsSum([x \in {c} |-> amount], amount)
    BY OnlyDelegation
<1>2. RequestsFit(EmptyMap, [x \in {c} |-> amount])
    BY DEF RequestsFit, EmptyMap
<1> QED
    BY <1>1, <1>2, NoRequests DEF RecordAgrees, NewDelegator

LEMMA StatusAgrees ==
    ASSUME NEW del, DelegatorOK(del), RecordAgrees(del), NEW status
    PROVE  RecordAgrees([del EXCEPT !.status = status])
BY SameRecord DEF DelegatorOK

LEMMA WithoutRequestAgrees ==
    ASSUME NEW del, DelegatorOK(del), RecordAgrees(del), NEW c,
           NEW new, new = WithoutRequest(del, c)
    PROVE  RecordAgrees(new)
<1>1. CASE c \in DOMAIN del.requests
    <2>1. /\ new.delegations = del.delegations /\ new.total = del.total
          /\ new.requests = Drop(del.requests, c)
          /\ new.less_total = SaturatingSub(del.less_total, del.requests[c].amount)
          /\ new.revocations_count = IF del.requests[c].action = "Revoke"
                                     THEN SaturatingSub(del.revocations_count, 1)
                                     ELSE del.revocations_count
        BY <1>1 DEF WithoutRequest, DelegatorOK
    <2>2. RequestsSum(new.requests, new.less_total, new.revocations_count)
        BY <1>1, <2>1, RecordParts, DropRequest
    <2>3. RequestsFit(new.requests, new.delegations)
        BY <2>1, RecordParts DEF RequestsFit, Drop
    <2> QED
        BY <2>1, <2>2, <2>3, RecordParts DEF RecordAgrees
<1>2. CASE c \notin DOMAIN del.requests
    BY <1>2 DEF WithoutRequest
<1> QED
    BY <1>1, <1>2

LEMMA WithRequestAgrees ==
    ASSUME NEW del, DelegatorOK(del), RecordAgrees(del),
           NEW c \in DOMAIN del.delegations, c \notin DOMAIN del.requests,
           NEW amount \in 0 .. del.delegations[c], NEW when, NEW action,
           NEW new, new = WithRequest(del, c, amount, when, action)
    PROVE  RecordAgrees(new)
<1> DEFINE request == [ amount |-> amount, when_executable |-> when,
                        action |-> action ]
<1>1. /\ new.delegations = del.delegations /\ new.total = del.total
      /\ new.requests = Put(del.requests, c, request)
      /\ new.less_total = del.less_total + amount
      /\ new.revocations_count = IF action = "Revoke" THEN del.revocations_count + 1
                                                      ELSE del.revocations_count
    BY DEF WithRequest, DelegatorOK
<1>2. del.delegations[c] \in Nat /\ amount \in Nat /\ amount <= del.delegations[c]
    BY RecordParts, FiniteMap
<1>3. request.amount = amount /\ request.action = action
    OBVIOUS
<1> HIDE DEF request
<1>4. RequestsSum(new.requests, new.less_total, new.revocations_count)
    BY <1>1, <1>2, <1>3, RecordParts, PutRequest
<1>5. RequestsFit(new.requests, new.delegations)
    BY <1>1, <1>2, <1>3, RecordParts DEF RequestsFit, Put
<1> QED
    BY <1>1, <1>4, <1>5, RecordParts DEF RecordAgrees

\* A delegation goes together with its request; another delegation stays.
LEMMA RemovedAgrees ==
    ASSUME NEW del, DelegatorOK(del), RecordAgrees(del),
           NEW c \in DOMAIN del.delegations, DOMAIN del.delegations \ {c} # {},
           NEW new, \/ new = WithoutRequest(WithoutDelegation(del, c), c)
                    \/ new = WithoutDelegation(WithoutRequest(del, c), c)
    PROVE  RecordAgrees(new)
<1> DEFINE less == WithoutRequest(del, c)
<1>1. /\ new.delegations = Drop(del.delegations, c)
      /\ new.total = SaturatingSub(del.total, del.delegations[c])
      /\ new.requests = less.requests
      /\ new.less_total = less.less_total
      /\ new.revocations_count = less.revocations_count
    BY DEF WithoutDelegation, WithoutRequest, DelegatorOK
<1>2. /\ RecordAgrees(less) /\ DOMAIN less.requests = DOMAIN del.requests \ {c}
      /\ \A x \in DOMAIN less.requests : less.requests[x] = del.requests[x]
    BY WithoutRequestAgrees, WithoutRequestFields
<1> HIDE DEF less
<1>3. DelegationsSum(new.delegations, new.total)
    BY <1>1, RecordParts, DropDelegation
<1>4. RequestsFit(new.requests, new.delegations)
    BY <1>1, <1>2, RecordParts DEF RequestsFit, Drop
<1>5. RequestsSum(new.requests, new.less_total, new.revocations_count)
    BY <1>1, <1>2 DEF RecordAgrees
<1> QED
    BY <1>3, <1>4, <1>5 DEF RecordAgrees

\* A new delegation of who has others.
LEMMA WithDelegationAgrees ==
    ASSUME NEW del, DelegatorOK(del), RecordAgrees(del),
           NEW c, c \notin DOMAIN del.delegations, NEW amount \in Nat \ {0},
           Cardinality(DOMAIN del.delegations) < MaxDelegationsPerDelegator,
           NEW new, new = [ del EXCEPT !.delegations = Put(@, c, amount),
                                       !.total = @ + amount ]
    PROVE  RecordAgrees(new)
<1>1. /\ new.delegations = Put(del.delegations, c, amount)
      /\ new.total = del.total + amount
      /\ new.requests = del.requests /\ new.less_total = del.less_total
      /\ new.revocations_count = del.revocations_count
    BY DEF DelegatorOK
<1>2. DelegationsSum(new.delegations, new.total)
    BY <1>1, RecordParts, PutDelegation
<1>3. RequestsFit(new.requests, new.delegations)
    BY <1>1, RecordParts DEF RequestsFit, Put
<1> QED
    BY <1>1, <1>2, <1>3, RecordParts DEF RecordAgrees

\* new is the record del with `more` on its delegation to c.
IncreasedBy(new, del, c, more) ==
    /\ DOMAIN new.delegations = DOMAIN del.delegations
    /\ new.delegations[c] = del.delegations[c] + more
    /\ \A x \in DOMAIN del.delegations \ {c} :
         new.delegations[x] = del.delegations[x]
    /\ new.total = del.total + more
    /\ new.requests = del.requests /\ new.less_total = del.less_total
    /\ new.revocations_count = del.revocations_count

\* Delegator::increase_delegation
LEMMA BondMoreAgrees ==
    ASSUME NEW del, DelegatorOK(del), RecordAgrees(del),
           NEW c \in DOMAIN del.delegations, NEW more \in Nat,
           NEW new, IncreasedBy(new, del, c, more)
    PROVE  /\ RecordAgrees(new)
           /\ new.delegations[c] = del.delegations[c] + more
<1>1. /\ DOMAIN new.delegations = DOMAIN del.delegations
      /\ new.delegations[c] = del.delegations[c] + more
      /\ \A x \in DOMAIN del.delegations \ {c} :
           new.delegations[x] = del.delegations[x]
      /\ new.total = del.total + more
      /\ new.requests = del.requests /\ new.less_total = del.less_total
      /\ new.revocations_count = del.revocations_count
    BY DEF IncreasedBy
<1>2. /\ del.delegations[c] \in Nat \ {0} /\ del.total \in Nat
      /\ \A x \in DOMAIN del.delegations : del.delegations[x] \in Nat
    BY RecordParts, FiniteMap DEF DelegationsSum
<1>3. DelegationsSum(new.delegations, new.total)
    <2>1. /\ new.delegations[c] \in Nat \ {0} /\ new.total \in Nat
          /\ new.total + del.delegations[c] = del.total + new.delegations[c]
        BY <1>1, <1>2
    <2> QED
        BY <1>1, <2>1, RecordParts, ChangeDelegation
<1>4. RequestsFit(new.requests, new.delegations)
    <2> SUFFICES ASSUME NEW x \in DOMAIN new.requests
                 PROVE  /\ x \in DOMAIN new.delegations
                        /\ new.requests[x].amount <= new.delegations[x]
        BY DEF RequestsFit
    <2>1. /\ x \in DOMAIN del.delegations /\ del.requests[x].amount \in Nat
          /\ del.requests[x].amount <= del.delegations[x]
          /\ new.requests[x] = del.requests[x]
        BY <1>1, RecordParts, RequestParts DEF RequestsFit
    <2>2. new.delegations[x] >= del.delegations[x] /\ new.delegations[x] \in Nat
          /\ del.delegations[x] \in Nat
        BY <1>1, <1>2, <2>1
    <2> QED
        BY <1>1, <2>1, <2>2
<1> QED
    BY <1>1, <1>3, <1>4, RecordParts DEF RecordAgrees

\* new is the record del without its request for c and `less` off the delegation.
DecreasedBy(new, del, c, less) ==
    /\ DOMAIN new.delegations = DOMAIN del.delegations
    /\ new.delegations[c] = SaturatingSub(del.delegations[c], less)
    /\ \A x \in DOMAIN del.delegations \ {c} :
         new.delegations[x] = del.delegations[x]
    /\ new.total = SaturatingSub(del.total, less)
    /\ new.requests = WithoutRequest(del, c).requests
    /\ new.less_total = WithoutRequest(del, c).less_total
    /\ new.revocations_count = WithoutRequest(del, c).revocations_count

LEMMA DecreasedRecord ==
    ASSUME NEW del, DelegatorOK(del), NEW c \in DOMAIN del.delegations, NEW less,
           NEW new, new = [ WithoutRequest(del, c) EXCEPT
                              !.delegations[c] = SaturatingSub(@, less),
                              !.total = SaturatingSub(del.total, less) ]
    PROVE  DecreasedBy(new, del, c, less)
<1> DEFINE rest == WithoutRequest(del, c)
<1>1. DelegatorOK(rest) /\ rest.delegations = del.delegations
    BY WithoutRequestOK, WithoutRequestFields
<1>2. PICK v, w : /\ v = SaturatingSub(del.delegations[c], less)
                  /\ w = SaturatingSub(del.total, less)
    OBVIOUS
<1>3. new = [rest EXCEPT !.delegations[c] = v, !.total = w]
    BY <1>1, <1>2
<1> HIDE DEF rest
<1>4. /\ rest \in [ delegations : { rest.delegations }, total : Nat,
                   requests : { rest.requests }, less_total : Nat,
                   revocations_count : Nat, status : Status ]
      /\ c \in DOMAIN rest.delegations
    BY <1>1 DEF DelegatorOK
<1>5. /\ new.delegations = [rest.delegations EXCEPT ![c] = v]
      /\ new.total = w
      /\ new.requests = rest.requests /\ new.less_total = rest.less_total
      /\ new.revocations_count = rest.revocations_count
    BY <1>3, <1>4
<1>6. /\ DOMAIN new.delegations = DOMAIN del.delegations
      /\ new.delegations[c] = v
      /\ \A x \in DOMAIN del.delegations \ {c} :
           new.delegations[x] = del.delegations[x]
    BY <1>1, <1>5
<1> QED
    BY <1>2, <1>5, <1>6 DEF DecreasedBy, rest

\* The record once a decrease was executed.
LEMMA BondLessAgrees ==
    ASSUME NEW del, DelegatorOK(del), RecordAgrees(del),
           NEW c \in DOMAIN del.delegations, NEW less \in Nat,
           del.delegations[c] > less,
           NEW new, DecreasedBy(new, del, c, less)
    PROVE  /\ RecordAgrees(new)
           /\ new.delegations[c] = del.delegations[c] - less
           /\ new.total = del.total - less
           /\ less <= del.total
<1> DEFINE rest == WithoutRequest(del, c)
<1>1. /\ RecordAgrees(rest) /\ DelegatorOK(rest)
      /\ rest.delegations = del.delegations
      /\ DOMAIN rest.requests = DOMAIN del.requests \ {c}
      /\ \A x \in DOMAIN rest.requests : rest.requests[x] = del.requests[x]
    BY WithoutRequestAgrees, WithoutRequestOK, WithoutRequestFields
<1>2. /\ DOMAIN new.delegations = DOMAIN del.delegations
      /\ new.delegations[c] = SaturatingSub(del.delegations[c], less)
      /\ \A x \in DOMAIN del.delegations \ {c} :
           new.delegations[x] = del.delegations[x]
      /\ new.total = SaturatingSub(del.total, less)
      /\ new.requests = rest.requests /\ new.less_total = rest.less_total
      /\ new.revocations_count = rest.revocations_count
    BY DEF DecreasedBy
<1> HIDE DEF rest
<1>3. /\ del.delegations[c] \in Nat /\ del.total \in Nat
      /\ \A x \in DOMAIN del.delegations : del.delegations[x] \in Nat
      /\ IsFiniteSet(DOMAIN del.delegations)
    BY RecordParts, FiniteMap
<1>4. del.delegations[c] <= del.total
    BY <1>3, RecordParts, SumAtLeast DEF DelegationsSum, SumFunction
<1>5. /\ new.delegations[c] = del.delegations[c] - less
      /\ new.total = del.total - less
      /\ new.delegations[c] \in Nat \ {0} /\ new.total \in Nat
    BY <1>2, <1>3, <1>4 DEF SaturatingSub
<1>6. DelegationsSum(new.delegations, new.total)
    <2>1. new.total + del.delegations[c] = del.total + new.delegations[c]
        BY <1>3, <1>5
    <2> QED
        BY <1>2, <1>5, <2>1, RecordParts, ChangeDelegation
<1>7. RequestsFit(new.requests, new.delegations)
    BY <1>1, <1>2, RecordParts DEF RequestsFit
<1>8. RequestsSum(new.requests, new.less_total, new.revocations_count)
    BY <1>1, <1>2 DEF RecordAgrees
<1>9. less <= del.total
    BY <1>3, <1>4
<1> QED
    BY <1>5, <1>6, <1>7, <1>8, <1>9 DEF RecordAgrees

\* execute_leave_candidates tells who has nothing else by a total of zero.
LEMMA NothingElse ==
    ASSUME NEW del, DelegatorOK(del), RecordAgrees(del),
           NEW c \in DOMAIN del.delegations
    PROVE  WithoutDelegation(del, c).total = 0 <=> DOMAIN del.delegations = {c}
<1> DEFINE f == del.delegations
           g == [x \in DOMAIN f \ {c} |-> f[x]]
<1>1. /\ IsFiniteSet(DOMAIN f) /\ \A x \in DOMAIN f : f[x] \in Nat /\ f[x] > 0
      /\ del.total = SumFunction(f)
    BY RecordParts, FiniteMap DEF DelegationsSum
<1>2. WithoutDelegation(del, c).total = SaturatingSub(del.total, f[c])
    BY DEF WithoutDelegation, DelegatorOK
<1>3. /\ DOMAIN g = DOMAIN f \ {c} /\ IsFiniteSet(DOMAIN g)
      /\ \A x \in DOMAIN g : g[x] \in Nat /\ g[x] > 0
    BY <1>1, FS_Subset
<1>4. SumFunction(f) = f[c] + SumFunction(g) /\ SumFunction(g) \in Nat
    <2>1. PICK h : h = g
        OBVIOUS
    <2>2. h = [x \in DOMAIN f \ {c} |-> f[x]]
        BY <2>1
    <2>3. c \in DOMAIN f
        OBVIOUS
    <2> HIDE DEF g, f
    <2>4. SumFunction(f) = f[c] + SumFunction(h) /\ SumFunction(h) \in Nat
        BY <1>1, <2>2, <2>3, SumDrop
    <2> QED
        BY <2>1, <2>4
<1>5. WithoutDelegation(del, c).total = SumFunction(g)
    <2>1. PICK s : s = SumFunction(g) /\ s \in Nat
        BY <1>4
    <2>2. PICK t : t = SumFunction(f) /\ t = f[c] + s
        BY <1>4, <2>1
    <2>3. f[c] \in Nat /\ SaturatingSub(t, f[c]) = s
        BY <1>1, <2>1, <2>2 DEF SaturatingSub
    <2> QED
        BY <1>1, <1>2, <2>1, <2>2, <2>3
<1>6. DOMAIN g = {} => SumFunction(g) = 0
    BY SumOfNothing DEF SumFunction
<1>7. ASSUME NEW x \in DOMAIN g PROVE SumFunction(g) # 0
    <2> HIDE DEF g
    <2>1. g[x] <= SumFunctionOnSet(g, DOMAIN g)
        BY <1>3, SumAtLeast
    <2>2. g[x] \in Nat /\ g[x] > 0
        BY <1>3
    <2>3. PICK s : s = SumFunction(g) /\ s \in Nat
        BY <1>4
    <2> QED
        BY <2>1, <2>2, <2>3 DEF SumFunction
<1>8. DOMAIN g = {} <=> DOMAIN f = {c}
    BY <1>3
<1> HIDE DEF g
<1> QED
    BY <1>5, <1>6, <1>7, <1>8

\* A kick tells it by the number of delegations.
LEMMA OneDelegation ==
    ASSUME NEW del, DelegatorOK(del), NEW c \in DOMAIN del.delegations
    PROVE  Cardinality(DOMAIN del.delegations) = 1 <=> DOMAIN del.delegations = {c}
<1> DEFINE D == DOMAIN del.delegations
<1>1. IsFiniteSet(D) /\ c \in D
    BY FiniteMap DEF DelegatorOK
<1> HIDE DEF D
<1>2. Cardinality(D) = 1 => \E x : D = {x}
    BY <1>1, FS_Singleton
<1>3. Cardinality({c}) = 1
    BY FS_Singleton
<1> QED
    BY <1>1, <1>2, <1>3 DEF D

-----------------------------------------------------------------------------
(* Books and records together.                                             *)

\* The amount that d has delegated to c according to the records ds, an
\* Option.
Holds(ds, d, c) ==
    IF d \in DOMAIN ds /\ c \in DOMAIN ds[d].delegations
    THEN { ds[d].delegations[c] } ELSE {}

\* What the book of c has to contain.
HeldIn(ds, c) == { x \in Bond : x.amount \in Holds(ds, x.owner, c) }

BooksAgree ==
    \A c \in DOMAIN candidateInfo :
      InOrder(Book(c)) /\ BookEntries(Book(c)) = HeldIn(delegatorState, c)

RecordsAgree ==
    \A d \in DOMAIN delegatorState :
      /\ RecordAgrees(delegatorState[d])
      /\ DOMAIN delegatorState[d].delegations \subseteq DOMAIN candidateInfo

LedgerInv == StakingInv /\ BooksAgree /\ RecordsAgree

\* Only the two lists of a book matter.
LEMMA SameLists ==
    ASSUME NEW book, InOrder(book), NEW other,
           other.top = book.top, other.bottom = book.bottom
    PROVE  InOrder(other) /\ BookEntries(other) = BookEntries(book)
BY DEF InOrder, BookEntries

LEMMA SameHolds ==
    ASSUME NEW ds, NEW new, NEW c, \A d : Holds(new, d, c) = Holds(ds, d, c)
    PROVE  HeldIn(new, c) = HeldIn(ds, c)
BY DEF HeldIn

\* d's delegation to c is set to n, comes as n, or goes.
LEMMA HeldOnceSet ==
    ASSUME NEW ds, NEW new, NEW c, NEW d \in Accounts,
           \A e : e # d => Holds(new, e, c) = Holds(ds, e, c),
           NEW n \in Nat, Holds(new, d, c) = {n}
    PROVE  HeldIn(new, c) = Others(HeldIn(ds, c), d)
                            \union { [owner |-> d, amount |-> n] }
BY DEF HeldIn, Others, Bond

LEMMA HeldOnceGone ==
    ASSUME NEW ds, NEW new, NEW c, NEW d,
           \A e : e # d => Holds(new, e, c) = Holds(ds, e, c),
           Holds(new, d, c) = {}
    PROVE  HeldIn(new, c) = Others(HeldIn(ds, c), d)
BY DEF HeldIn, Others

\* The entry of a delegation in the book of its candidate.
EntryIn(d, c) == [owner |-> d, amount |-> delegatorState[d].delegations[c]]

LEMMA EntryInBook ==
    ASSUME LedgerInv, NEW d \in DOMAIN delegatorState,
           NEW c \in DOMAIN delegatorState[d].delegations
    PROVE  /\ c \in DOMAIN candidateInfo /\ d \in Accounts
           /\ delegatorState[d].delegations[c] \in Nat \ {0}
           /\ WellKept(Book(c)) /\ InOrder(Book(c))
           /\ EntryIn(d, c) \in BookEntries(Book(c))
           /\ EntryIn(d, c).owner = d
           /\ EntryIn(d, c).amount = delegatorState[d].delegations[c]
           /\ Others(BookEntries(Book(c)), d) = BookEntries(Book(c)) \ {EntryIn(d, c)}
           /\ BookEntries(Book(c)) = HeldIn(delegatorState, c)
<1>1. c \in DOMAIN candidateInfo
    BY DEF LedgerInv, RecordsAgree
<1>2. d \in Accounts /\ DelegatorOK(delegatorState[d]) /\ RecordAgrees(delegatorState[d])
    BY DEF LedgerInv, StakingInv, DelegatorsOK, RecordsAgree
<1>3. delegatorState[d].delegations[c] \in Nat \ {0}
    BY <1>2, RecordParts, FiniteMap DEF DelegationsSum
<1>4. /\ WellKept(Book(c)) /\ InOrder(Book(c))
      /\ BookEntries(Book(c)) = HeldIn(delegatorState, c)
    BY <1>1 DEF LedgerInv, StakingInv, BooksOK, BooksAgree
<1>5. /\ EntryIn(d, c).owner = d
      /\ EntryIn(d, c).amount = delegatorState[d].delegations[c]
      /\ EntryIn(d, c) \in Bond
    BY <1>2, <1>3 DEF EntryIn, Bond
<1>6. delegatorState[d].delegations[c] \in Holds(delegatorState, d, c)
    BY DEF Holds
<1>7. EntryIn(d, c) \in BookEntries(Book(c))
    BY <1>4, <1>5, <1>6 DEF HeldIn
<1>8. Others(BookEntries(Book(c)), EntryIn(d, c).owner)
        = BookEntries(Book(c)) \ {EntryIn(d, c)}
    BY <1>4, <1>7, OneEntryEach
<1> QED
    BY <1>1, <1>2, <1>3, <1>4, <1>5, <1>7, <1>8

\* And back: an entry is a delegation of its owner.
LEMMA EntryIsHeld ==
    ASSUME LedgerInv, NEW c \in DOMAIN candidateInfo,
           NEW x \in BookEntries(Book(c))
    PROVE  /\ x.owner \in DOMAIN delegatorState
           /\ c \in DOMAIN delegatorState[x.owner].delegations
           /\ delegatorState[x.owner].delegations[c] = x.amount
           /\ x = EntryIn(x.owner, c)
<1>1. x \in HeldIn(delegatorState, c)
    BY DEF LedgerInv, BooksAgree
<1>2. x \in Bond /\ x.amount \in Holds(delegatorState, x.owner, c)
    BY <1>1 DEF HeldIn
<1> QED
    BY <1>2 DEF Holds, Bond, EntryIn

\* The owners in a book are the delegators of its candidate.
LEMMA OwnersHold ==
    ASSUME LedgerInv, NEW c \in DOMAIN candidateInfo, NEW d
    PROVE  d \in Owners(topDelegations[c]) \union Owners(bottomDelegations[c])
             <=> d \in DOMAIN delegatorState
                 /\ c \in DOMAIN delegatorState[d].delegations
<1>1. WellKept(Book(c)) /\ InOrder(Book(c))
    BY DEF LedgerInv, StakingInv, BooksOK, BooksAgree
<1>2. Book(c).top = topDelegations[c] /\ Book(c).bottom = bottomDelegations[c]
    BY DEF Book
<1>3. d \in Owners(topDelegations[c]) \union Owners(bottomDelegations[c])
        <=> \E x \in BookEntries(Book(c)) : x.owner = d
    BY <1>1, <1>2, InOrderParts DEF BookEntries
<1>4. (\E x \in BookEntries(Book(c)) : x.owner = d)
        => d \in DOMAIN delegatorState /\ c \in DOMAIN delegatorState[d].delegations
    BY EntryIsHeld
<1>5. d \in DOMAIN delegatorState /\ c \in DOMAIN delegatorState[d].delegations
        => \E x \in BookEntries(Book(c)) : x.owner = d
    BY EntryInBook
<1> QED
    BY <1>3, <1>4, <1>5

\* Books that nothing happens to.
LEMMA BooksUntouched ==
    ASSUME BooksAgree,
           \A c \in DOMAIN candidateInfo' :
             /\ c \in DOMAIN candidateInfo
             /\ topDelegations'[c] = topDelegations[c]
             /\ bottomDelegations'[c] = bottomDelegations[c]
             /\ \A d : Holds(delegatorState', d, c) = Holds(delegatorState, d, c)
    PROVE  BooksAgree'
<1> SUFFICES ASSUME NEW c \in DOMAIN candidateInfo'
             PROVE  /\ InOrder(Book(c)')
                    /\ BookEntries(Book(c)') = HeldIn(delegatorState', c)
    BY DEF BooksAgree
<1>1. InOrder(Book(c)) /\ BookEntries(Book(c)) = HeldIn(delegatorState, c)
    BY DEF BooksAgree
<1>2. Book(c)'.top = Book(c).top /\ Book(c)'.bottom = Book(c).bottom
    BY DEF Book
<1>3. InOrder(Book(c)') /\ BookEntries(Book(c)') = BookEntries(Book(c))
    BY <1>1, <1>2, SameLists
<1>4. HeldIn(delegatorState', c) = HeldIn(delegatorState, c)
    BY SameHolds
<1> QED
    BY <1>1, <1>3, <1>4

\* Books that a call writes.
LEMMA BooksWritten ==
    ASSUME BooksOK, BooksAgree, NEW outcomes, SaveBooks(outcomes),
           \A c \in DOMAIN candidateInfo :
             IF c \in DOMAIN outcomes
             THEN /\ InOrder(outcomes[c])
                  /\ BookEntries(outcomes[c]) = HeldIn(delegatorState', c)
             ELSE \A d : Holds(delegatorState', d, c) = Holds(delegatorState, d, c)
    PROVE  BooksAgree' /\ DOMAIN candidateInfo' = DOMAIN candidateInfo
<1>1. DOMAIN candidateInfo' = DOMAIN candidateInfo
    BY DEF SaveBooks
<1> SUFFICES ASSUME NEW c \in DOMAIN candidateInfo
             PROVE  /\ InOrder(Book(c)')
                    /\ BookEntries(Book(c)') = HeldIn(delegatorState', c)
    BY <1>1 DEF BooksAgree
<1>2. c \in DOMAIN topDelegations /\ c \in DOMAIN bottomDelegations
    BY DEF BooksOK
<1>3. CASE c \in DOMAIN outcomes
    <2>1. Book(c)'.top = outcomes[c].top /\ Book(c)'.bottom = outcomes[c].bottom
        BY <1>2, <1>3 DEF SaveBooks, Book
    <2> QED
        BY <1>3, <2>1, SameLists
<1>4. CASE c \notin DOMAIN outcomes
    <2>1. Book(c)'.top = Book(c).top /\ Book(c)'.bottom = Book(c).bottom
        BY <1>2, <1>4 DEF SaveBooks, Book
    <2>2. InOrder(Book(c)) /\ BookEntries(Book(c)) = HeldIn(delegatorState, c)
        BY DEF BooksAgree
    <2>3. HeldIn(delegatorState', c) = HeldIn(delegatorState, c)
        BY <1>4, SameHolds
    <2> QED
        BY <2>1, <2>2, <2>3, SameLists
<1> QED
    BY <1>3, <1>4

\* One book.
LEMMA BookWritten ==
    ASSUME BooksOK, BooksAgree, NEW c, NEW outcome, SaveBook(c, outcome),
           InOrder(outcome), BookEntries(outcome) = HeldIn(delegatorState', c),
           \A x \in DOMAIN candidateInfo \ {c} :
             \A d : Holds(delegatorState', d, x) = Holds(delegatorState, d, x)
    PROVE  BooksAgree' /\ DOMAIN candidateInfo' = DOMAIN candidateInfo
<1> DEFINE outcomes == [x \in {c} |-> outcome]
<1>1. SaveBooks(outcomes)
    BY DEF SaveBook
<1>2. DOMAIN outcomes = {c} /\ outcomes[c] = outcome
    OBVIOUS
<1> HIDE DEF outcomes
<1> QED
    BY <1>1, <1>2, BooksWritten

-----------------------------------------------------------------------------
(* What the calls keep.                                                    *)

Agreement == BooksAgree /\ RecordsAgree

\* Calls that touch neither a list nor a record.
LEMMA QuietAgrees ==
    ASSUME LedgerInv,
           UNCHANGED <<topDelegations, bottomDelegations, delegatorState>>,
           DOMAIN candidateInfo' = DOMAIN candidateInfo
    PROVE  Agreement'
<1>1. BooksAgree'
    BY BooksUntouched DEF LedgerInv
<1>2. RecordsAgree'
    BY DEF LedgerInv, RecordsAgree
<1> QED
    BY <1>1, <1>2 DEF Agreement

LEMMA SaveInfoAgrees ==
    ASSUME LedgerInv, NEW c, NEW info, SaveInfo(c, info), UNCHANGED delegatorState
    PROVE  Agreement'
<1>1. DOMAIN candidateInfo' = DOMAIN candidateInfo
    BY DEF SaveInfo, LedgerInv, StakingInv, BooksOK
<1> QED
    BY <1>1, QuietAgrees DEF SaveInfo

\* A new candidate has an empty book, and nobody's record knows it.
LEMMA JoinAgrees ==
    ASSUME LedgerInv, NEW acc, NEW bond, JoinCandidates(acc, bond)
    PROVE  Agreement'
<1>1. /\ DOMAIN candidateInfo' = DOMAIN candidateInfo \union {acc}
      /\ acc \notin DOMAIN candidateInfo
      /\ topDelegations' = Put(topDelegations, acc, NoDelegations)
      /\ bottomDelegations' = Put(bottomDelegations, acc, NoDelegations)
      /\ delegatorState' = delegatorState
    BY DEF JoinCandidates, IsCandidate, Put
<1>2. RecordsAgree'
    BY <1>1 DEF LedgerInv, RecordsAgree
<1>3. BooksAgree'
    <2> SUFFICES ASSUME NEW c \in DOMAIN candidateInfo'
                 PROVE  /\ InOrder(Book(c)')
                        /\ BookEntries(Book(c)') = HeldIn(delegatorState, c)
        BY <1>1 DEF BooksAgree
    <2>1. CASE c = acc
        <3>1. Book(c)'.top = NoDelegations /\ Book(c)'.bottom = NoDelegations
            BY <1>1, <2>1 DEF Book, Put
        <3>2. InOrder(Book(c)') /\ BookEntries(Book(c)') = {}
            BY <3>1, NewBookInOrder
        <3>3. \A d : Holds(delegatorState, d, c) = {}
            BY <1>1, <2>1 DEF LedgerInv, RecordsAgree, Holds
        <3>4. HeldIn(delegatorState, c) = {}
            BY <3>3 DEF HeldIn
        <3> QED
            BY <3>2, <3>4
    <2>2. CASE c # acc
        <3>1. /\ c \in DOMAIN candidateInfo /\ c \in DOMAIN topDelegations
              /\ c \in DOMAIN bottomDelegations
            BY <1>1, <2>2 DEF LedgerInv, StakingInv, BooksOK
        <3>2. Book(c)'.top = Book(c).top /\ Book(c)'.bottom = Book(c).bottom
            BY <1>1, <2>2, <3>1 DEF Book, Put
        <3>3. InOrder(Book(c)) /\ BookEntries(Book(c)) = HeldIn(delegatorState, c)
            BY <3>1 DEF LedgerInv, BooksAgree
        <3> QED
            BY <3>2, <3>3, SameLists
    <2> QED
        BY <2>1, <2>2
<1> QED
    BY <1>2, <1>3 DEF Agreement

\* Calls that change only the requests or the status of one record.
LEMMA RecordAloneAgrees ==
    ASSUME LedgerInv, NEW d \in DOMAIN delegatorState, NEW del,
           RecordAgrees(del), del.delegations = delegatorState[d].delegations,
           SaveDelegator(d, del), UNCHANGED books
    PROVE  Agreement'
<1>1. /\ DOMAIN delegatorState' = DOMAIN delegatorState
      /\ delegatorState'[d] = del
      /\ \A e \in DOMAIN delegatorState \ {d} : delegatorState'[e] = delegatorState[e]
    BY DEF SaveDelegator, LedgerInv, StakingInv, DelegatorsOK
<1>2. UNCHANGED <<candidateInfo, topDelegations, bottomDelegations>>
    BY DEF books
<1>3. RecordsAgree'
    BY <1>1, <1>2 DEF LedgerInv, RecordsAgree
<1>4. \A e, c : Holds(delegatorState', e, c) = Holds(delegatorState, e, c)
    BY <1>1 DEF Holds
<1>5. BooksAgree'
    BY <1>2, <1>4, BooksUntouched DEF LedgerInv
<1> QED
    BY <1>3, <1>5 DEF Agreement

\* The calls about requests and exits of d write d's record and keep its
\* delegations and its total.
LEMMA RequestCallsSave ==
    ASSUME LedgerInv, NEW d, NEW c, NEW less,
           \/ ScheduleLeaveDelegators(d)
           \/ CancelLeaveDelegators(d)
           \/ ScheduleRevokeDelegation(d, c)
           \/ ScheduleDelegatorBondLess(d, c, less) /\ less \in Nat
           \/ CancelDelegationRequest(d, c)
    PROVE  /\ d \in DOMAIN delegatorState /\ UNCHANGED <<books, total, reserved>>
           /\ \E new : /\ SaveDelegator(d, new) /\ RecordAgrees(new)
                       /\ new.delegations = delegatorState[d].delegations
                       /\ new.total = delegatorState[d].total
<1>1. d \in DOMAIN delegatorState /\ UNCHANGED <<books, total, reserved>>
    BY DEF ScheduleLeaveDelegators, CancelLeaveDelegators,
           ScheduleRevokeDelegation, ScheduleDelegatorBondLess,
           CancelDelegationRequest, IsDelegator
<1> DEFINE del == delegatorState[d]
           Saves == \E new : /\ SaveDelegator(d, new) /\ RecordAgrees(new)
                             /\ new.delegations = del.delegations
                             /\ new.total = del.total
<1>2. DelegatorOK(del) /\ RecordAgrees(del)
    BY <1>1 DEF LedgerInv, StakingInv, DelegatorsOK, RecordsAgree
<1>3. \A x \in DOMAIN del.delegations : del.delegations[x] \in Nat
    BY <1>2, DelegatorParts
<1>4. ASSUME NEW status, SaveDelegator(d, [del EXCEPT !.status = status])
      PROVE  Saves
    <2>1. /\ [del EXCEPT !.status = status].delegations = del.delegations
          /\ [del EXCEPT !.status = status].total = del.total
        BY <1>2 DEF DelegatorOK
    <2> QED
        BY <1>2, <1>4, <2>1, StatusAgrees
<1>5. ASSUME NEW amount, NEW when, NEW action, c \in DOMAIN del.delegations,
             c \notin DOMAIN del.requests, amount \in 0 .. del.delegations[c],
             SaveDelegator(d, WithRequest(del, c, amount, when, action))
      PROVE  Saves
    <2>1. /\ WithRequest(del, c, amount, when, action).delegations = del.delegations
          /\ WithRequest(del, c, amount, when, action).total = del.total
        BY <1>2 DEF WithRequest, DelegatorOK
    <2>2. RecordAgrees(WithRequest(del, c, amount, when, action))
        <3> HIDE DEF del
        <3> QED
            BY <1>2, <1>5, WithRequestAgrees
    <2> QED
        BY <1>5, <2>1, <2>2
<1>6. CASE ScheduleLeaveDelegators(d)
    BY <1>1, <1>4, <1>6 DEF ScheduleLeaveDelegators
<1>7. CASE CancelLeaveDelegators(d)
    BY <1>1, <1>4, <1>7 DEF CancelLeaveDelegators
<1>8. CASE ScheduleRevokeDelegation(d, c)
    <2>1. /\ c \in DOMAIN del.delegations /\ c \notin DOMAIN del.requests
          /\ SaveDelegator(d, WithRequest(del, c, del.delegations[c],
                                round + RevokeDelegationDelay, "Revoke"))
        BY <1>8 DEF ScheduleRevokeDelegation
    <2>2. del.delegations[c] \in 0 .. del.delegations[c]
        BY <1>3, <2>1
    <2> QED
        BY <1>1, <1>5, <2>1, <2>2
<1>9. CASE ScheduleDelegatorBondLess(d, c, less) /\ less \in Nat
    <2>1. /\ c \in DOMAIN del.delegations /\ c \notin DOMAIN del.requests
          /\ del.delegations[c] > less
          /\ SaveDelegator(d, WithRequest(del, c, less,
                                round + DelegationBondLessDelay, "Decrease"))
        BY <1>9 DEF ScheduleDelegatorBondLess
    <2>2. less \in 0 .. del.delegations[c]
        BY <1>3, <1>9, <2>1
    <2> QED
        BY <1>1, <1>5, <2>1, <2>2
<1>10. CASE CancelDelegationRequest(d, c)
    <2>1. SaveDelegator(d, WithoutRequest(del, c))
        BY <1>10 DEF CancelDelegationRequest
    <2>2. /\ WithoutRequest(del, c).delegations = del.delegations
          /\ WithoutRequest(del, c).total = del.total
        BY <1>2 DEF WithoutRequest, DelegatorOK
    <2> QED
        BY <1>1, <1>2, <2>1, <2>2, WithoutRequestAgrees
<1> QED
    BY <1>6, <1>7, <1>8, <1>9, <1>10

LEMMA RequestCallsAgree ==
    ASSUME LedgerInv, NEW d, NEW c, NEW less,
           \/ ScheduleLeaveDelegators(d)
           \/ CancelLeaveDelegators(d)
           \/ ScheduleRevokeDelegation(d, c)
           \/ ScheduleDelegatorBondLess(d, c, less) /\ less \in Nat
           \/ CancelDelegationRequest(d, c)
    PROVE  Agreement'
BY RequestCallsSave, RecordAloneAgrees

\* What a record is without one delegation and its request.
LEMMA RemovedParts ==
    ASSUME NEW del, DelegatorOK(del), RecordAgrees(del),
           NEW c \in DOMAIN del.delegations,
           NEW new, \/ new = WithoutRequest(WithoutDelegation(del, c), c)
                    \/ new = WithoutDelegation(WithoutRequest(del, c), c)
    PROVE  /\ new.delegations = Drop(del.delegations, c)
           /\ DOMAIN new.delegations = DOMAIN del.delegations \ {c}
           /\ \A x \in DOMAIN new.delegations : new.delegations[x] = del.delegations[x]
           /\ new.total = del.total - del.delegations[c]
           /\ del.delegations[c] \in Nat /\ del.delegations[c] <= del.total
<1>1. /\ new.delegations = Drop(del.delegations, c)
      /\ new.total = SaturatingSub(del.total, del.delegations[c])
    BY DEF WithoutDelegation, WithoutRequest, DelegatorOK
<1>2. /\ del.delegations[c] \in Nat /\ del.total \in Nat
      /\ \A x \in DOMAIN del.delegations : del.delegations[x] \in Nat
      /\ IsFiniteSet(DOMAIN del.delegations)
    BY RecordParts, FiniteMap
<1>3. del.delegations[c] <= del.total
    BY <1>2, RecordParts, SumAtLeast DEF DelegationsSum, SumFunction
<1>4. new.total = del.total - del.delegations[c]
    BY <1>1, <1>2, <1>3 DEF SaturatingSub
<1>5. /\ DOMAIN new.delegations = DOMAIN del.delegations \ {c}
      /\ \A x \in DOMAIN new.delegations : new.delegations[x] = del.delegations[x]
    BY <1>1 DEF Drop
<1> QED
    BY <1>1, <1>2, <1>3, <1>4, <1>5

LEMMA RecordOK ==
    ASSUME LedgerInv, NEW d \in DOMAIN delegatorState
    PROVE  /\ d \in Accounts
           /\ DelegatorOK(delegatorState[d]) /\ RecordAgrees(delegatorState[d])
           /\ DOMAIN delegatorState[d].delegations \subseteq DOMAIN candidateInfo
           /\ DOMAIN delegatorState[d].delegations # {}
BY DEF LedgerInv, StakingInv, DelegatorsOK, RecordsAgree, RecordAgrees, DelegationsSum

\* Which records a candidate's exit writes, and which it removes.
ExitWrites(c) ==
    /\ \A d \in DOMAIN delegatorState :
         d \in DOMAIN delegatorState'
           <=> DOMAIN delegatorState[d].delegations # {c}
    /\ \A d \in DOMAIN delegatorState' :
         /\ d \in DOMAIN delegatorState
         /\ delegatorState'[d] = IF c \in DOMAIN delegatorState[d].delegations
                                 THEN AfterCandidateLeft(d, c)
                                 ELSE delegatorState[d]

LEMMA ExitWritesRecords ==
    ASSUME LedgerInv, NEW c, ExecuteLeaveCandidates(c)
    PROVE  ExitWrites(c) /\ c \in DOMAIN candidateInfo
<1> DEFINE owners == Owners(topDelegations[c]) \union Owners(bottomDelegations[c])
           gone == { d \in owners : WithoutDelegation(delegatorState[d], c).total = 0 }
<1>1. /\ delegatorState' = [ d \in DOMAIN delegatorState \ gone |->
             IF d \in owners THEN AfterCandidateLeft(d, c) ELSE delegatorState[d] ]
      /\ c \in DOMAIN candidateInfo
    BY DEF ExecuteLeaveCandidates, IsCandidate
<1>2. \A d : d \in owners <=> d \in DOMAIN delegatorState
                              /\ c \in DOMAIN delegatorState[d].delegations
    BY <1>1, OwnersHold
<1>3. ASSUME NEW d \in DOMAIN delegatorState
      PROVE  d \in gone <=> DOMAIN delegatorState[d].delegations = {c}
    <2>1. CASE c \in DOMAIN delegatorState[d].delegations
        BY <1>2, <2>1, RecordOK, NothingElse
    <2>2. CASE c \notin DOMAIN delegatorState[d].delegations
        BY <1>2, <2>2
    <2> QED
        BY <2>1, <2>2
<1> HIDE DEF owners, gone
<1> QED
    BY <1>1, <1>2, <1>3 DEF ExitWrites

LEMMA ExitAgrees ==
    ASSUME LedgerInv, NEW c, ExecuteLeaveCandidates(c)
    PROVE  Agreement'
<1>1. ExitWrites(c) /\ c \in DOMAIN candidateInfo
    BY ExitWritesRecords
<1>2. /\ DOMAIN candidateInfo' = DOMAIN candidateInfo \ {c}
      /\ topDelegations' = Drop(topDelegations, c)
      /\ bottomDelegations' = Drop(bottomDelegations, c)
    BY DEF ExecuteLeaveCandidates, RemoveCandidate, Drop
<1>3. ASSUME NEW d \in DOMAIN delegatorState',
             c \in DOMAIN delegatorState[d].delegations
      PROVE  /\ RecordAgrees(delegatorState'[d])
             /\ DOMAIN delegatorState'[d].delegations
                  = DOMAIN delegatorState[d].delegations \ {c}
             /\ \A x \in DOMAIN delegatorState'[d].delegations :
                  delegatorState'[d].delegations[x] = delegatorState[d].delegations[x]
    <2> DEFINE del == delegatorState[d]
               new == delegatorState'[d]
    <2>1. /\ d \in DOMAIN delegatorState
          /\ new = WithoutRequest(WithoutDelegation(del, c), c)
          /\ DOMAIN del.delegations # {c}
        BY <1>1, <1>3 DEF ExitWrites, AfterCandidateLeft
    <2>2. /\ DelegatorOK(del) /\ RecordAgrees(del) /\ c \in DOMAIN del.delegations
          /\ DOMAIN del.delegations \ {c} # {}
        BY <1>3, <2>1, RecordOK
    <2> HIDE DEF del, new
    <2>3. RecordAgrees(new)
        BY <2>1, <2>2, RemovedAgrees
    <2>4. /\ DOMAIN new.delegations = DOMAIN del.delegations \ {c}
          /\ \A x \in DOMAIN new.delegations : new.delegations[x] = del.delegations[x]
        BY <2>1, <2>2, RemovedParts
    <2> QED
        BY <2>3, <2>4 DEF del, new
<1>4. ASSUME NEW d \in DOMAIN delegatorState',
             c \notin DOMAIN delegatorState[d].delegations
      PROVE  d \in DOMAIN delegatorState /\ delegatorState'[d] = delegatorState[d]
    BY <1>1, <1>4 DEF ExitWrites
<1>5. RecordsAgree'
    <2> SUFFICES ASSUME NEW d \in DOMAIN delegatorState'
                 PROVE  /\ RecordAgrees(delegatorState'[d])
                        /\ DOMAIN delegatorState'[d].delegations
                             \subseteq DOMAIN candidateInfo'
        BY DEF RecordsAgree
    <2>1. d \in DOMAIN delegatorState
        BY <1>1 DEF ExitWrites
    <2>2. /\ RecordAgrees(delegatorState[d])
          /\ DOMAIN delegatorState[d].delegations \subseteq DOMAIN candidateInfo
        BY <2>1, RecordOK
    <2> QED
        BY <1>2, <1>3, <1>4, <2>2
<1>6. ASSUME NEW x \in DOMAIN candidateInfo', NEW d
      PROVE  Holds(delegatorState', d, x) = Holds(delegatorState, d, x)
    <2>1. x # c
        BY <1>2
    <2>2. CASE d \in DOMAIN delegatorState'
        <3>1. d \in DOMAIN delegatorState
            BY <1>1, <2>2 DEF ExitWrites
        <3> QED
            BY <1>3, <1>4, <2>1, <2>2, <3>1 DEF Holds
    <2>3. CASE d \notin DOMAIN delegatorState'
        <3>1. d \in DOMAIN delegatorState => x \notin DOMAIN delegatorState[d].delegations
            BY <1>1, <2>1, <2>3 DEF ExitWrites
        <3> QED
            BY <2>3, <3>1 DEF Holds
    <2> QED
        BY <2>2, <2>3
<1>7. BooksAgree'
    <2>1. ASSUME NEW x \in DOMAIN candidateInfo'
          PROVE  /\ x \in DOMAIN candidateInfo
                 /\ topDelegations'[x] = topDelegations[x]
                 /\ bottomDelegations'[x] = bottomDelegations[x]
        <3>1. x \in DOMAIN topDelegations /\ x \in DOMAIN bottomDelegations /\ x # c
              /\ x \in DOMAIN candidateInfo
            BY <1>2 DEF LedgerInv, StakingInv, BooksOK
        <3> QED
            BY <1>2, <3>1 DEF Drop
    <2> QED
        BY <1>6, <2>1, BooksUntouched DEF LedgerInv
<1> QED
    BY <1>5, <1>7 DEF Agreement

\* What a new delegation finds: d has none with c, and brings a positive amount.
LEMMA DelegateFinds ==
    ASSUME LedgerInv, NEW d \in Accounts, NEW c, NEW amount \in Nat,
           Delegate(d, c, amount)
    PROVE  LET bond == [owner |-> d, amount |-> amount]
               outcome == AddDelegation(Book(c), bond)
           IN  /\ c \in DOMAIN candidateInfo
               /\ amount \in Nat \ {0} /\ bond \in Bond
               /\ WellKept(Book(c)) /\ InOrder(Book(c))
               /\ BookEntries(Book(c)) = HeldIn(delegatorState, c)
               /\ \A x \in BookEntries(Book(c)) : x.owner # d
               /\ InOrder(outcome)
               /\ outcome.kicked \subseteq BookEntries(Book(c))
               /\ BookEntries(outcome)
                    = (BookEntries(Book(c)) \ outcome.kicked) \union {bond}
               /\ KickedFor(outcome.kicked, Book(c), bond)
               /\ outcome.less = { x.amount : x \in outcome.kicked }
               /\ \A x \in outcome.kicked :
                    /\ x.owner \in DOMAIN delegatorState /\ x.owner # d
                    /\ c \in DOMAIN delegatorState[x.owner].delegations
                    /\ delegatorState[x.owner].delegations[c] = x.amount
<1> DEFINE bond == [owner |-> d, amount |-> amount]
           book == Book(c)
           outcome == AddDelegation(book, bond)
<1>1. c \in DOMAIN candidateInfo
    BY DEF Delegate, IsCandidate
<1>2. /\ WellKept(book) /\ InOrder(book)
      /\ BookEntries(book) = HeldIn(delegatorState, c)
      /\ book.info = candidateInfo[c]
    BY <1>1 DEF LedgerInv, StakingInv, BooksOK, BooksAgree, Book
<1>3. amount \in Nat \ {0} /\ bond \in Bond
    <2>1. amount >= MinDelegation \/ amount >= MinDelegatorStk
        BY DEF Delegate, MayDelegate
    <2>2. MinDelegation \in Nat \ {0} /\ MinDelegatorStk \in Nat \ {0}
        BY StakingAssumption
    <2> QED
        BY <2>1, <2>2 DEF Bond
<1>4. \A x \in BookEntries(book) : x.owner # d
    <2> SUFFICES ASSUME NEW x \in BookEntries(book), x.owner = d PROVE FALSE
        OBVIOUS
    <2>1. d \in DOMAIN delegatorState /\ c \in DOMAIN delegatorState[d].delegations
        BY <1>1, EntryIsHeld
    <2> QED
        BY <2>1 DEF Delegate, MayDelegate, IsDelegator
<1>5. CanAdd(book.info, bond.amount) /\ bond.owner = d
    BY <1>2 DEF Delegate
<1> HIDE DEF bond, book
<1>6. /\ InOrder(outcome)
      /\ outcome.kicked \subseteq BookEntries(book)
      /\ BookEntries(outcome) = (BookEntries(book) \ outcome.kicked) \union {bond}
      /\ KickedFor(outcome.kicked, book, bond)
      /\ outcome.less = { x.amount : x \in outcome.kicked }
    <2>1. \A x \in BookEntries(book) : x.owner # bond.owner
        BY <1>4, <1>5
    <2> QED
        BY <1>2, <1>3, <1>5, <2>1, AddDelegationInOrder
<1> HIDE DEF outcome
<1>7. ASSUME NEW x \in outcome.kicked
      PROVE  /\ x.owner \in DOMAIN delegatorState /\ x.owner # d
             /\ c \in DOMAIN delegatorState[x.owner].delegations
             /\ delegatorState[x.owner].delegations[c] = x.amount
    BY <1>1, <1>4, <1>6, EntryIsHeld DEF book
<1> QED
    BY <1>1, <1>2, <1>3, <1>4, <1>6, <1>7 DEF bond, book, outcome

\* Which records a new delegation writes, and which it removes.
DelegateWrites(d, c, amount, kicked) ==
    /\ d \in DOMAIN delegatorState'
    /\ delegatorState'[d] = WithDelegation(d, c, amount)
    /\ \A e \in DOMAIN delegatorState' \ {d} :
         /\ e \in DOMAIN delegatorState
         /\ delegatorState'[e] =
              IF \E x \in kicked : x.owner = e
              THEN WithoutRequest(WithoutDelegation(delegatorState[e], c), c)
              ELSE delegatorState[e]
    /\ \A e \in DOMAIN delegatorState \ {d} :
         e \in DOMAIN delegatorState'
           <=> ~ ( /\ \E x \in kicked : x.owner = e
                   /\ DOMAIN delegatorState[e].delegations = {c} )

LEMMA DelegateWritesRecords ==
    ASSUME LedgerInv, NEW d \in Accounts, NEW c, NEW amount \in Nat,
           Delegate(d, c, amount),
           NEW kicked, kicked = AddDelegation(Book(c),
                                     [owner |-> d, amount |-> amount]).kicked
    PROVE  DelegateWrites(d, c, amount, kicked)
<1> DEFINE owners == { x.owner : x \in kicked }
           leaving == { e \in owners :
                          Cardinality(DOMAIN delegatorState[e].delegations) = 1 }
           after == [ e \in DOMAIN delegatorState \ leaving |->
                        IF e \in owners
                        THEN WithoutRequest(WithoutDelegation(delegatorState[e], c), c)
                        ELSE delegatorState[e] ]
<1>1. delegatorState' = Put(after, d, WithDelegation(d, c, amount))
    BY DEF Delegate, AfterKick
<1>2. \A x \in kicked : /\ x.owner \in DOMAIN delegatorState /\ x.owner # d
                        /\ c \in DOMAIN delegatorState[x.owner].delegations
    BY DelegateFinds
<1>3. \A e : e \in owners <=> \E x \in kicked : x.owner = e
    OBVIOUS
<1>4. ASSUME NEW e \in owners
      PROVE  e \in leaving <=> DOMAIN delegatorState[e].delegations = {c}
    <2>1. /\ e \in DOMAIN delegatorState
          /\ c \in DOMAIN delegatorState[e].delegations
        BY <1>2
    <2>2. DelegatorOK(delegatorState[e])
        BY <2>1, RecordOK
    <2> QED
        BY <2>1, <2>2, OneDelegation
<1>5. leaving \subseteq owners
    OBVIOUS
<1> HIDE DEF owners, leaving
<1>6. /\ DOMAIN delegatorState' = (DOMAIN delegatorState \ leaving) \union {d}
      /\ delegatorState'[d] = WithDelegation(d, c, amount)
      /\ \A e \in DOMAIN delegatorState \ leaving : e # d =>
           delegatorState'[e] =
             IF e \in owners
             THEN WithoutRequest(WithoutDelegation(delegatorState[e], c), c)
             ELSE delegatorState[e]
    BY <1>1 DEF Put
<1> QED
    BY <1>3, <1>4, <1>5, <1>6 DEF DelegateWrites

\* The record of who delegates.
LEMMA DelegatingRecord ==
    ASSUME LedgerInv, NEW d \in Accounts, NEW c, NEW amount \in Nat,
           Delegate(d, c, amount)
    PROVE  LET new == WithDelegation(d, c, amount)
           IN  /\ RecordAgrees(new)
               /\ DOMAIN new.delegations \subseteq DOMAIN candidateInfo
               /\ c \in DOMAIN new.delegations /\ new.delegations[c] = amount
               /\ \A x : x # c =>
                    /\ x \in DOMAIN new.delegations
                         <=> IsDelegator(d) /\ x \in DOMAIN delegatorState[d].delegations
                    /\ x \in DOMAIN new.delegations =>
                         new.delegations[x] = delegatorState[d].delegations[x]
               /\ new.total = IF IsDelegator(d) THEN delegatorState[d].total + amount
                                                ELSE amount
<1> DEFINE new == WithDelegation(d, c, amount)
           del == delegatorState[d]
<1>1. c \in DOMAIN candidateInfo /\ amount \in Nat \ {0}
    BY DelegateFinds
<1>2. CASE IsDelegator(d)
    <2>1. new = [del EXCEPT !.delegations = Put(@, c, amount), !.total = @ + amount]
        BY <1>2 DEF WithDelegation
    <2>2. DelegatorOK(del) /\ RecordAgrees(del) /\ DOMAIN del.delegations \subseteq DOMAIN candidateInfo
        BY <1>2, RecordOK DEF IsDelegator
    <2>3. /\ c \notin DOMAIN del.delegations
          /\ Cardinality(DOMAIN del.delegations) < MaxDelegationsPerDelegator
        BY <1>2 DEF Delegate, MayDelegate
    <2> HIDE DEF new, del
    <2>4. RecordAgrees(new)
        BY <1>1, <2>1, <2>2, <2>3, WithDelegationAgrees
    <2>5. new.delegations = Put(del.delegations, c, amount) /\ new.total = del.total + amount
        BY <2>1, <2>2 DEF DelegatorOK
    <2> QED
        BY <1>1, <1>2, <2>2, <2>4, <2>5 DEF Put, new, del
<1>3. CASE ~ IsDelegator(d)
    <2>1. new = NewDelegator(c, amount)
        BY <1>3 DEF WithDelegation
    <2>2. RecordAgrees(new)
        BY <1>1, <2>1, NewDelegatorAgrees
    <2>3. new.delegations = [x \in {c} |-> amount] /\ new.total = amount
        BY <2>1 DEF NewDelegator
    <2> HIDE DEF new
    <2> QED
        BY <1>1, <1>3, <2>2, <2>3 DEF new
<1> QED
    BY <1>2, <1>3

LEMMA DelegateAgrees ==
    ASSUME LedgerInv, NEW d \in Accounts, NEW c, NEW amount \in Nat,
           Delegate(d, c, amount)
    PROVE  Agreement'
<1> DEFINE bond == [owner |-> d, amount |-> amount]
           outcome == AddDelegation(Book(c), bond)
           new == WithDelegation(d, c, amount)
<1>1. SaveBook(c, outcome)
    BY DEF Delegate
<1>2. /\ c \in DOMAIN candidateInfo /\ bond \in Bond
      /\ InOrder(outcome)
      /\ BookEntries(Book(c)) = HeldIn(delegatorState, c)
      /\ InOrder(Book(c))
      /\ outcome.kicked \subseteq BookEntries(Book(c))
      /\ BookEntries(outcome) = (BookEntries(Book(c)) \ outcome.kicked) \union {bond}
      /\ \A x \in BookEntries(Book(c)) : x.owner # d
    BY DelegateFinds
<1>3. \A x \in outcome.kicked : /\ x.owner \in DOMAIN delegatorState /\ x.owner # d
                                /\ c \in DOMAIN delegatorState[x.owner].delegations
    BY DelegateFinds
<1>4. DelegateWrites(d, c, amount, outcome.kicked)
    BY DelegateWritesRecords
<1>5. /\ RecordAgrees(new)
      /\ DOMAIN new.delegations \subseteq DOMAIN candidateInfo
      /\ c \in DOMAIN new.delegations /\ new.delegations[c] = amount
      /\ \A x : x # c =>
           /\ x \in DOMAIN new.delegations
                <=> IsDelegator(d) /\ x \in DOMAIN delegatorState[d].delegations
           /\ x \in DOMAIN new.delegations =>
                new.delegations[x] = delegatorState[d].delegations[x]
    BY DelegatingRecord
<1>6. bond.owner = d /\ bond.amount = amount
    OBVIOUS
<1>7. d \in DOMAIN delegatorState' /\ delegatorState'[d] = new
    BY <1>4 DEF DelegateWrites
<1> HIDE DEF outcome, new
<1>8. ASSUME NEW e \in DOMAIN delegatorState', e # d,
             \E x \in outcome.kicked : x.owner = e
      PROVE  /\ e \in DOMAIN delegatorState
             /\ RecordAgrees(delegatorState'[e])
             /\ DOMAIN delegatorState'[e].delegations
                  = DOMAIN delegatorState[e].delegations \ {c}
             /\ \A x \in DOMAIN delegatorState'[e].delegations :
                  delegatorState'[e].delegations[x] = delegatorState[e].delegations[x]
    <2> DEFINE del == delegatorState[e]
               rest == delegatorState'[e]
    <2>1. /\ e \in DOMAIN delegatorState /\ c \in DOMAIN del.delegations
          /\ rest = WithoutRequest(WithoutDelegation(del, c), c)
          /\ DOMAIN del.delegations # {c}
        BY <1>3, <1>4, <1>8 DEF DelegateWrites
    <2>2. DelegatorOK(del) /\ RecordAgrees(del) /\ DOMAIN del.delegations \ {c} # {}
        BY <2>1, RecordOK
    <2> HIDE DEF del, rest
    <2>3. RecordAgrees(rest)
        BY <2>1, <2>2, RemovedAgrees
    <2>4. /\ DOMAIN rest.delegations = DOMAIN del.delegations \ {c}
          /\ \A x \in DOMAIN rest.delegations : rest.delegations[x] = del.delegations[x]
        BY <2>1, <2>2, RemovedParts
    <2> QED
        BY <2>1, <2>3, <2>4 DEF del, rest
<1>9. ASSUME NEW e \in DOMAIN delegatorState', e # d,
             ~ \E x \in outcome.kicked : x.owner = e
      PROVE  e \in DOMAIN delegatorState /\ delegatorState'[e] = delegatorState[e]
    BY <1>4, <1>9 DEF DelegateWrites
<1>10. DOMAIN candidateInfo' = DOMAIN candidateInfo
    BY <1>1 DEF SaveBook, SaveBooks
<1>11. RecordsAgree'
    <2> SUFFICES ASSUME NEW e \in DOMAIN delegatorState'
                 PROVE  /\ RecordAgrees(delegatorState'[e])
                        /\ DOMAIN delegatorState'[e].delegations
                             \subseteq DOMAIN candidateInfo
        BY <1>10 DEF RecordsAgree
    <2>1. CASE e = d
        BY <1>5, <1>7, <2>1
    <2>2. CASE e # d
        BY <1>8, <1>9, <2>2, RecordOK
    <2> QED
        BY <2>1, <2>2
<1>12. ASSUME NEW e, e # d, NEW x,
              x # c \/ ~ \E y \in outcome.kicked : y.owner = e
       PROVE  Holds(delegatorState', e, x) = Holds(delegatorState, e, x)
    <2>1. CASE e \in DOMAIN delegatorState'
        BY <1>8, <1>9, <1>12, <2>1 DEF Holds
    <2>2. CASE e \notin DOMAIN delegatorState'
        <3>1. e \in DOMAIN delegatorState => x \notin DOMAIN delegatorState[e].delegations
            BY <1>4, <1>12, <2>2 DEF DelegateWrites
        <3> QED
            BY <2>2, <3>1 DEF Holds
    <2> QED
        BY <2>1, <2>2
<1>13. ASSUME NEW x, x # c
       PROVE  Holds(delegatorState', d, x) = Holds(delegatorState, d, x)
    BY <1>5, <1>7, <1>13 DEF Holds, IsDelegator
<1>14. ASSUME NEW e, e # d, \E y \in outcome.kicked : y.owner = e
       PROVE  Holds(delegatorState', e, c) = {}
    BY <1>8, <1>14 DEF Holds
<1>15. Holds(delegatorState', d, c) = {amount}
    BY <1>5, <1>7 DEF Holds
<1>16. BookEntries(outcome) = HeldIn(delegatorState', c)
    <2>1. ASSUME NEW y \in Bond
          PROVE  y \in BookEntries(outcome)
                   <=> y.amount \in Holds(delegatorState', y.owner, c)
        <3>1. CASE y.owner = d
            <4>1. y \notin BookEntries(Book(c))
                BY <1>2, <3>1
            <4>2. y = bond <=> y.amount = amount
                BY <3>1 DEF Bond
            <4> HIDE DEF bond
            <4> QED
                BY <1>2, <1>15, <3>1, <4>1, <4>2
        <3>2. CASE y.owner # d /\ \E x \in outcome.kicked : x.owner = y.owner
            <4>1. PICK x \in outcome.kicked : x.owner = y.owner
                BY <3>2
            <4>2. y \in BookEntries(Book(c)) => y = x
                BY <1>2, <4>1, OneEntryEach
            <4>3. y # bond
                BY <3>2
            <4>4. y \notin BookEntries(outcome)
                BY <1>2, <4>1, <4>2, <4>3
            <4> QED
                BY <1>14, <3>2, <4>4
        <3>3. CASE y.owner # d /\ ~ \E x \in outcome.kicked : x.owner = y.owner
            <4>1. y \notin outcome.kicked /\ y # bond
                BY <3>3
            <4>2. y \in BookEntries(outcome) <=> y \in BookEntries(Book(c))
                BY <1>2, <4>1
            <4>3. y \in BookEntries(Book(c))
                    <=> y.amount \in Holds(delegatorState, y.owner, c)
                BY <1>2 DEF HeldIn
            <4> QED
                BY <1>12, <3>3, <4>2, <4>3
        <3> QED
            BY <3>1, <3>2, <3>3
    <2>2. BookEntries(outcome) \subseteq Bond
        BY <1>2, OneEntryEach
    <2> QED
        BY <2>1, <2>2 DEF HeldIn
<1>17. \A x \in DOMAIN candidateInfo \ {c} : \A e :
         Holds(delegatorState', e, x) = Holds(delegatorState, e, x)
    BY <1>12, <1>13
<1>18. BooksAgree'
    BY <1>1, <1>2, <1>16, <1>17, BookWritten DEF LedgerInv, StakingInv
<1> QED
    BY <1>11, <1>18 DEF Agreement

\* The lookup with the amount of the record finds the delegation.
LEMMA RecordLeads ==
    ASSUME LedgerInv, NEW d \in DOMAIN delegatorState,
           NEW c \in DOMAIN delegatorState[d].delegations,
           NEW room, room = FALSE \/ room = TopHasRoom(c),
           NEW list,
           list = Lookup(Book(c), d, delegatorState[d].delegations[c], room)
    PROVE  /\ list = IF d \in Owners(topDelegations[c]) THEN "top" ELSE "bottom"
           /\ list # "missing"
           /\ StandsIn(Book(c), EntryIn(d, c), list)
<1> DEFINE book == Book(c)
           x == EntryIn(d, c)
<1>1. /\ WellKept(book) /\ InOrder(book) /\ x \in BookEntries(book)
      /\ x.owner = d /\ x.amount = delegatorState[d].delegations[c]
    BY EntryInBook
<1>2. room \in BOOLEAN /\ (room => book.info.top_capacity # "Full")
    BY DEF TopHasRoom, Book
<1>3. Owners(book.top) = Owners(topDelegations[c])
    BY DEF Book
<1>4. list = Lookup(book, x.owner, x.amount, room)
    BY <1>1
<1> HIDE DEF book, x
<1>5. list = IF x.owner \in Owners(book.top) THEN "top" ELSE "bottom"
    BY <1>1, <1>2, <1>4, LookupLeads
<1>6. list # "missing"
    BY <1>5
<1>7. StandsIn(book, x, list)
    BY <1>1, <1>4, <1>6, FoundStandsIn
<1> QED
    BY <1>1, <1>3, <1>5, <1>6, <1>7 DEF book, x

\* So an exiting delegator gets all of its delegations back.
LEMMA AllRemovable ==
    ASSUME LedgerInv, NEW d \in DOMAIN delegatorState
    PROVE  Removable(d) = DOMAIN delegatorState[d].delegations
<1>1. ASSUME NEW c \in DOMAIN delegatorState[d].delegations
      PROVE  /\ IsCandidate(c)
             /\ Lookup(Book(c), d, delegatorState[d].delegations[c], TopHasRoom(c))
                  # "missing"
    BY EntryInBook, RecordLeads DEF IsCandidate
<1> QED
    BY <1>1 DEF Removable

\* A book from which d's delegation was removed.
LEMMA BookWithout ==
    ASSUME LedgerInv, NEW d \in DOMAIN delegatorState,
           NEW c \in DOMAIN delegatorState[d].delegations,
           NEW list, StandsIn(Book(c), EntryIn(d, c), list),
           NEW outcome, outcome = RemoveDelegation(Book(c), d, list),
           NEW new, Holds(new, d, c) = {},
           \A e : e # d => Holds(new, e, c) = Holds(delegatorState, e, c)
    PROVE  InOrder(outcome) /\ BookEntries(outcome) = HeldIn(new, c)
<1> DEFINE book == Book(c)
           x == EntryIn(d, c)
<1>1. /\ WellKept(book) /\ InOrder(book) /\ x.owner = d
      /\ Others(BookEntries(book), d) = BookEntries(book) \ {x}
      /\ BookEntries(book) = HeldIn(delegatorState, c)
    BY EntryInBook
<1>2. outcome = RemoveDelegation(book, x.owner, list) /\ StandsIn(book, x, list)
    BY <1>1
<1> HIDE DEF book, x
<1>3. TakesOut(outcome, book, x)
    BY <1>1, <1>2, RemoveDelegationInOrder
<1>4. HeldIn(new, c) = Others(HeldIn(delegatorState, c), d)
    BY HeldOnceGone
<1> QED
    BY <1>1, <1>3, <1>4 DEF TakesOut

\* A book in which d's delegation has changed to n.
LEMMA BookWith ==
    ASSUME LedgerInv, NEW d \in DOMAIN delegatorState,
           NEW c \in DOMAIN delegatorState[d].delegations, NEW n \in Nat,
           NEW outcome, Changes(outcome, Book(c), EntryIn(d, c), n),
           NEW new, Holds(new, d, c) = {n},
           \A e : e # d => Holds(new, e, c) = Holds(delegatorState, e, c)
    PROVE  InOrder(outcome) /\ BookEntries(outcome) = HeldIn(new, c)
<1>1. /\ EntryIn(d, c).owner = d /\ d \in Accounts
      /\ Others(BookEntries(Book(c)), d) = BookEntries(Book(c)) \ {EntryIn(d, c)}
      /\ BookEntries(Book(c)) = HeldIn(delegatorState, c)
    BY EntryInBook
<1>2. HeldIn(new, c) = Others(HeldIn(delegatorState, c), d)
                       \union { [owner |-> d, amount |-> n] }
    BY <1>1, HeldOnceSet
<1>3. /\ InOrder(outcome)
      /\ BookEntries(outcome) = (BookEntries(Book(c)) \ {EntryIn(d, c)})
           \union { [owner |-> EntryIn(d, c).owner, amount |-> n] }
    BY DEF Changes
<1> QED
    BY <1>1, <1>2, <1>3

LEMMA DelegatorExitAgrees ==
    ASSUME LedgerInv, NEW d, ExecuteLeaveDelegators(d)
    PROVE  Agreement'
<1> DEFINE held == delegatorState[d].delegations
           outcomes == [ c \in Removable(d) |->
                           RemoveDelegation(Book(c), d,
                             Lookup(Book(c), d, held[c], TopHasRoom(c))) ]
<1>1. /\ d \in DOMAIN delegatorState
      /\ SaveBooks(outcomes)
      /\ delegatorState' = Drop(delegatorState, d)
    BY DEF ExecuteLeaveDelegators, IsDelegator
<1>2. DOMAIN outcomes = DOMAIN held
    BY <1>1, AllRemovable
<1>3. /\ \A c : Holds(delegatorState', d, c) = {}
      /\ \A e, c : e # d =>
           Holds(delegatorState', e, c) = Holds(delegatorState, e, c)
    BY <1>1 DEF Holds, Drop
<1>4. ASSUME NEW c \in DOMAIN outcomes
      PROVE  /\ InOrder(outcomes[c])
             /\ BookEntries(outcomes[c]) = HeldIn(delegatorState', c)
    <2>1. c \in DOMAIN delegatorState[d].delegations /\ c \in Removable(d)
        BY <1>2
    <2>2. PICK list : list = Lookup(Book(c), d, held[c], TopHasRoom(c))
        OBVIOUS
    <2>3. StandsIn(Book(c), EntryIn(d, c), list)
        BY <1>1, <2>1, <2>2, RecordLeads
    <2>4. PICK outcome : outcome = RemoveDelegation(Book(c), d, list)
        OBVIOUS
    <2>5. outcomes[c] = outcome
        BY <2>1, <2>2, <2>4
    <2>6. PICK new : new = delegatorState'
        OBVIOUS
    <2> HIDE DEF outcomes, held
    <2>7. /\ Holds(new, d, c) = {}
          /\ \A e : e # d => Holds(new, e, c) = Holds(delegatorState, e, c)
        BY <1>3, <2>6
    <2>8. InOrder(outcome) /\ BookEntries(outcome) = HeldIn(new, c)
        BY <1>1, <2>1, <2>3, <2>4, <2>7, BookWithout
    <2> QED
        BY <2>5, <2>6, <2>8
<1> HIDE DEF outcomes
<1>5. ASSUME NEW c \in DOMAIN candidateInfo, c \notin DOMAIN outcomes, NEW e
      PROVE  Holds(delegatorState', e, c) = Holds(delegatorState, e, c)
    BY <1>2, <1>3, <1>5 DEF Holds
<1>6. BooksAgree' /\ DOMAIN candidateInfo' = DOMAIN candidateInfo
    BY <1>1, <1>4, <1>5, BooksWritten DEF LedgerInv, StakingInv
<1>7. RecordsAgree'
    BY <1>1, <1>6 DEF LedgerInv, RecordsAgree, Drop
<1> QED
    BY <1>6, <1>7 DEF Agreement

\* What saving d's record does to what everybody holds.
LEMMA HoldsOnceSaved ==
    ASSUME LedgerInv, NEW d \in DOMAIN delegatorState, NEW del,
           SaveDelegator(d, del)
    PROVE  /\ DOMAIN delegatorState' = DOMAIN delegatorState
           /\ delegatorState'[d] = del
           /\ \A e \in DOMAIN delegatorState \ {d} :
                delegatorState'[e] = delegatorState[e]
           /\ \A e, c : e # d =>
                Holds(delegatorState', e, c) = Holds(delegatorState, e, c)
           /\ \A c : Holds(delegatorState', d, c)
                       = IF c \in DOMAIN del.delegations THEN { del.delegations[c] }
                                                         ELSE {}
BY DEF SaveDelegator, LedgerInv, StakingInv, DelegatorsOK, Holds

\* d's record and the book of c are written together.
LEMMA RecordAndBookAgree ==
    ASSUME LedgerInv, NEW d \in DOMAIN delegatorState,
           NEW c \in DOMAIN delegatorState[d].delegations,
           NEW del, SaveDelegator(d, del), RecordAgrees(del),
           \A x : x # c =>
             /\ x \in DOMAIN del.delegations
                  <=> x \in DOMAIN delegatorState[d].delegations
             /\ x \in DOMAIN del.delegations =>
                  del.delegations[x] = delegatorState[d].delegations[x],
           NEW outcome, SaveBook(c, outcome),
           InOrder(outcome), BookEntries(outcome) = HeldIn(delegatorState', c)
    PROVE  Agreement'
<1>1. /\ DOMAIN delegatorState' = DOMAIN delegatorState
      /\ delegatorState'[d] = del
      /\ \A e \in DOMAIN delegatorState \ {d} : delegatorState'[e] = delegatorState[e]
      /\ \A e, x : e # d => Holds(delegatorState', e, x) = Holds(delegatorState, e, x)
      /\ \A x : Holds(delegatorState', d, x)
                  = IF x \in DOMAIN del.delegations THEN { del.delegations[x] } ELSE {}
    BY HoldsOnceSaved
<1>2. ASSUME NEW x, x # c, NEW e
      PROVE  Holds(delegatorState', e, x) = Holds(delegatorState, e, x)
    <2>1. CASE e = d
        BY <1>1, <1>2, <2>1 DEF Holds
    <2>2. CASE e # d
        BY <1>1, <2>2
    <2> QED
        BY <2>1, <2>2
<1>3. BooksAgree' /\ DOMAIN candidateInfo' = DOMAIN candidateInfo
    BY <1>2, BookWritten DEF LedgerInv, StakingInv
<1>4. DOMAIN del.delegations \subseteq DOMAIN candidateInfo
    <2>1. DOMAIN delegatorState[d].delegations \subseteq DOMAIN candidateInfo
        BY RecordOK
    <2> QED
        BY <2>1
<1>5. RecordsAgree'
    <2> SUFFICES ASSUME NEW e \in DOMAIN delegatorState
                 PROVE  /\ RecordAgrees(delegatorState'[e])
                        /\ DOMAIN delegatorState'[e].delegations
                             \subseteq DOMAIN candidateInfo
        BY <1>1, <1>3 DEF RecordsAgree
    <2>1. CASE e = d
        BY <1>1, <1>4, <2>1
    <2>2. CASE e # d
        BY <1>1, <2>2, RecordOK
    <2> QED
        BY <2>1, <2>2
<1> QED
    BY <1>3, <1>5 DEF Agreement

\* delegator_bond_more never fails half-way: the lookup succeeds.
LEMMA DelegatorBondMoreDoes ==
    ASSUME LedgerInv, NEW d, NEW c, NEW more \in Nat, DelegatorBondMore(d, c, more)
    PROVE  /\ d \in DOMAIN delegatorState
           /\ c \in DOMAIN delegatorState[d].delegations
           /\ Reserve(d, more) /\ total' = total + more
           /\ SaveDelegator(d, [ delegatorState[d] EXCEPT
                                   !.delegations[c] = @ + more, !.total = @ + more ])
           /\ \E outcome : /\ SaveBook(c, outcome)
                           /\ Changes(outcome, Book(c), EntryIn(d, c),
                                delegatorState[d].delegations[c] + more)
<1> DEFINE held == delegatorState[d].delegations[c]
           list == Lookup(Book(c), d, held, FALSE)
           outcome == IncreaseDelegation(Book(c), d, held, more, list)
           x == EntryIn(d, c)
           book == Book(c)
<1>1. /\ d \in DOMAIN delegatorState /\ c \in DOMAIN delegatorState[d].delegations
      /\ Reserve(d, more)
    BY DEF DelegatorBondMore, IsDelegator
<1>2. list # "missing" /\ StandsIn(book, x, list)
    <2>1. PICK room : room = FALSE
        OBVIOUS
    <2>2. list = Lookup(Book(c), d, delegatorState[d].delegations[c], room)
        BY <2>1
    <2> HIDE DEF list
    <2> QED
        BY <1>1, <2>1, <2>2, RecordLeads
<1>3. /\ SaveBook(c, outcome) /\ total' = total + more
      /\ SaveDelegator(d, [ delegatorState[d] EXCEPT
                              !.delegations[c] = @ + more, !.total = @ + more ])
    BY <1>2 DEF DelegatorBondMore
<1>4. /\ WellKept(book) /\ InOrder(book) /\ x.owner = d /\ x.amount = held
      /\ held \in Nat
    BY <1>1, EntryInBook
<1>5. PICK n : n = held + more
    OBVIOUS
<1>6. outcome = IncreaseDelegation(book, x.owner, x.amount, more, list)
    BY <1>4
<1> HIDE DEF outcome, list, held, x, book
<1>7. Changes(outcome, book, x, n)
    BY <1>2, <1>4, <1>5, <1>6, IncreaseDelegationInOrder
<1> QED
    BY <1>1, <1>3, <1>5, <1>7 DEF held, x, book

LEMMA DelegatorBondMoreAgrees ==
    ASSUME LedgerInv, NEW d, NEW c, NEW more \in Nat, DelegatorBondMore(d, c, more)
    PROVE  Agreement'
<1> DEFINE del == delegatorState[d]
<1>1. /\ d \in DOMAIN delegatorState /\ c \in DOMAIN del.delegations
      /\ DelegatorOK(del) /\ RecordAgrees(del)
    BY DelegatorBondMoreDoes, RecordOK
<1>2. PICK new : new = [ del EXCEPT !.delegations[c] = @ + more, !.total = @ + more ]
    OBVIOUS
<1>3. SaveDelegator(d, new)
    BY <1>2, DelegatorBondMoreDoes
<1>4. PICK n : n = del.delegations[c] + more
    OBVIOUS
<1>5. PICK outcome : SaveBook(c, outcome) /\ Changes(outcome, Book(c), EntryIn(d, c), n)
    BY <1>4, DelegatorBondMoreDoes
<1>6. n \in Nat
    BY <1>1, <1>4, DelegatorParts
<1>7. \A x : x # c => /\ x \in DOMAIN new.delegations <=> x \in DOMAIN del.delegations
                      /\ x \in DOMAIN new.delegations =>
                           new.delegations[x] = del.delegations[x]
    BY <1>1, <1>2 DEF DelegatorOK
<1>8. c \in DOMAIN new.delegations
    BY <1>1, <1>2 DEF DelegatorOK
<1> HIDE DEF del
<1>9. RecordAgrees(new) /\ new.delegations[c] = n
    <2>1. IncreasedBy(new, del, c, more)
        BY <1>1, <1>2 DEF DelegatorOK, IncreasedBy
    <2> QED
        BY <1>1, <1>4, <2>1, BondMoreAgrees
<1>10. /\ Holds(delegatorState', d, c) = {n}
       /\ \A e : e # d => Holds(delegatorState', e, c) = Holds(delegatorState, e, c)
    BY <1>1, <1>3, <1>8, <1>9, HoldsOnceSaved
<1>11. InOrder(outcome) /\ BookEntries(outcome) = HeldIn(delegatorState', c)
    <2>1. PICK ds : ds = delegatorState'
        OBVIOUS
    <2>2. /\ Holds(ds, d, c) = {n}
          /\ \A e : e # d => Holds(ds, e, c) = Holds(delegatorState, e, c)
        BY <1>10, <2>1
    <2>3. c \in DOMAIN delegatorState[d].delegations
        BY <1>1 DEF del
    <2> QED
        BY <1>1, <1>5, <1>6, <2>1, <2>2, <2>3, BookWith
<1> QED
    BY <1>1, <1>3, <1>5, <1>7, <1>9, <1>11, RecordAndBookAgree DEF del

\* A due revocation takes the delegation out of the record and the book.
LEMMA RevokeDoes ==
    ASSUME LedgerInv, NEW d, NEW c, ExecuteRevokeDelegation(d, c)
    PROVE  /\ d \in DOMAIN delegatorState
           /\ c \in DOMAIN delegatorState[d].delegations
           /\ c \in DOMAIN delegatorState[d].requests
           /\ delegatorState[d].requests[c].amount \in Nat
           /\ delegatorState[d].requests[c].amount <= delegatorState[d].delegations[c]
           /\ \/ /\ DOMAIN delegatorState[d].delegations = {c}
                 /\ delegatorState' = Drop(delegatorState, d)
              \/ /\ DOMAIN delegatorState[d].delegations \ {c} # {}
                 /\ SaveDelegator(d, WithoutDelegation(
                                       WithoutRequest(delegatorState[d], c), c))
           /\ \E list : /\ StandsIn(Book(c), EntryIn(d, c), list)
                        /\ SaveBook(c, RemoveDelegation(Book(c), d, list))
<1> DEFINE del == delegatorState[d]
           request == del.requests[c]
           list == Lookup(Book(c), d, request.amount, TopHasRoom(c))
<1>1. /\ d \in DOMAIN delegatorState /\ c \in DOMAIN del.requests
      /\ list # "missing" /\ SaveBook(c, RemoveDelegation(Book(c), d, list))
      /\ IF Cardinality(DOMAIN del.delegations) = 1
         THEN delegatorState' = Drop(delegatorState, d)
         ELSE SaveDelegator(d, WithoutDelegation(WithoutRequest(del, c), c))
    BY DEF ExecuteRevokeDelegation, IsDelegator
<1>2. DelegatorOK(del) /\ RecordAgrees(del)
    BY <1>1, RecordOK
<1>3. /\ c \in DOMAIN del.delegations /\ request.amount <= del.delegations[c]
      /\ request.amount \in Nat
    BY <1>1, <1>2, RecordParts, RequestParts DEF RequestsFit
<1>4. StandsIn(Book(c), EntryIn(d, c), list)
    <2> DEFINE book == Book(c)
               x == EntryIn(d, c)
    <2>1. /\ WellKept(book) /\ InOrder(book) /\ x \in BookEntries(book)
          /\ x.owner = d
        BY <1>1, <1>3, EntryInBook
    <2>2. PICK amount, room : amount = request.amount /\ room = TopHasRoom(c)
        OBVIOUS
    <2>3. list = Lookup(book, x.owner, amount, room)
        BY <2>1, <2>2
    <2> HIDE DEF book, x, list
    <2>4. StandsIn(book, x, list)
        BY <1>1, <2>1, <2>3, FoundStandsIn
    <2> QED
        BY <2>4 DEF book, x
<1>5. Cardinality(DOMAIN del.delegations) = 1 <=> DOMAIN del.delegations = {c}
    <2> HIDE DEF del
    <2> QED
        BY <1>2, <1>3, OneDelegation
<1> QED
    BY <1>1, <1>3, <1>4, <1>5

LEMMA RevokeAgrees ==
    ASSUME LedgerInv, NEW d, NEW c, ExecuteRevokeDelegation(d, c)
    PROVE  Agreement'
<1> DEFINE del == delegatorState[d]
           new == WithoutDelegation(WithoutRequest(del, c), c)
<1>1. d \in DOMAIN delegatorState /\ c \in DOMAIN delegatorState[d].delegations
    BY RevokeDoes
<1>2. PICK list : /\ StandsIn(Book(c), EntryIn(d, c), list)
                  /\ SaveBook(c, RemoveDelegation(Book(c), d, list))
    BY RevokeDoes
<1>3. PICK outcome : outcome = RemoveDelegation(Book(c), d, list)
    OBVIOUS
<1>4. ASSUME Holds(delegatorState', d, c) = {},
             \A e : e # d => Holds(delegatorState', e, c) = Holds(delegatorState, e, c)
      PROVE  InOrder(outcome) /\ BookEntries(outcome) = HeldIn(delegatorState', c)
    <2>1. PICK ds : ds = delegatorState'
        OBVIOUS
    <2>2. /\ Holds(ds, d, c) = {}
          /\ \A e : e # d => Holds(ds, e, c) = Holds(delegatorState, e, c)
        BY <1>4, <2>1
    <2> QED
        BY <1>1, <1>2, <1>3, <2>1, <2>2, BookWithout
<1>5. CASE /\ DOMAIN del.delegations = {c}
           /\ delegatorState' = Drop(delegatorState, d)
    <2>1. \A e, x : e # d => Holds(delegatorState', e, x) = Holds(delegatorState, e, x)
        BY <1>5 DEF Holds, Drop
    <2>2. \A x : Holds(delegatorState', d, x) = {}
        BY <1>5 DEF Holds, Drop
    <2>3. InOrder(outcome) /\ BookEntries(outcome) = HeldIn(delegatorState', c)
        BY <1>4, <2>1, <2>2
    <2>4. \A x \in DOMAIN candidateInfo \ {c} : \A e :
            Holds(delegatorState', e, x) = Holds(delegatorState, e, x)
        BY <1>5, <2>1, <2>2 DEF Holds
    <2>5. BooksAgree' /\ DOMAIN candidateInfo' = DOMAIN candidateInfo
        BY <1>2, <1>3, <2>3, <2>4, BookWritten DEF LedgerInv, StakingInv
    <2>6. RecordsAgree'
        BY <1>5, <2>5 DEF LedgerInv, RecordsAgree, Drop
    <2> QED
        BY <2>5, <2>6 DEF Agreement
<1>6. CASE /\ DOMAIN del.delegations \ {c} # {}
           /\ SaveDelegator(d, new)
    <2>1. DelegatorOK(del) /\ RecordAgrees(del) /\ c \in DOMAIN del.delegations
        BY <1>1, RecordOK
    <2>2. PICK rest : rest = new
        OBVIOUS
    <2>3. rest = WithoutDelegation(WithoutRequest(del, c), c)
        BY <2>2
    <2>4. SaveDelegator(d, rest) /\ DOMAIN del.delegations \ {c} # {}
        BY <1>6, <2>2
    <2> HIDE DEF new, del
    <2>5. RecordAgrees(rest)
        BY <2>1, <2>3, <2>4, RemovedAgrees
    <2>6. /\ DOMAIN rest.delegations = DOMAIN del.delegations \ {c}
          /\ \A x \in DOMAIN rest.delegations : rest.delegations[x] = del.delegations[x]
        BY <2>1, <2>3, RemovedParts
    <2>7. /\ Holds(delegatorState', d, c) = {}
          /\ \A e : e # d => Holds(delegatorState', e, c) = Holds(delegatorState, e, c)
        BY <1>1, <2>4, <2>6, HoldsOnceSaved
    <2>8. InOrder(outcome) /\ BookEntries(outcome) = HeldIn(delegatorState', c)
        BY <1>4, <2>7
    <2> QED
        BY <1>1, <1>2, <1>3, <2>4, <2>5, <2>6, <2>8, RecordAndBookAgree DEF del
<1> QED
    BY <1>5, <1>6, RevokeDoes

\* A due decrease never fails half-way either.
LEMMA BondLessDoes ==
    ASSUME LedgerInv, NEW d, NEW c, ExecuteDelegationBondLess(d, c)
    PROVE  /\ d \in DOMAIN delegatorState
           /\ c \in DOMAIN delegatorState[d].delegations
           /\ c \in DOMAIN delegatorState[d].requests
           /\ \E less \in Nat : \E new :
                /\ less = delegatorState[d].requests[c].amount
                /\ less < delegatorState[d].delegations[c]
                /\ Unreserve(d, less) /\ total' = SaturatingSub(total, less)
                /\ SaveDelegator(d, new)
                /\ DecreasedBy(new, delegatorState[d], c, less)
                /\ \E outcome, list :
                     /\ StandsIn(Book(c), EntryIn(d, c), list)
                     /\ outcome = DecreaseDelegation(Book(c), d,
                                    delegatorState[d].delegations[c], less, list)
                     /\ SaveBook(c, outcome)
                     /\ Changes(outcome, Book(c), EntryIn(d, c),
                                delegatorState[d].delegations[c] - less)
<1> DEFINE del == delegatorState[d]
           held == del.delegations[c]
           list == Lookup(Book(c), d, held, FALSE)
           x == EntryIn(d, c)
           book == Book(c)
<1>1. PICK less : less = del.requests[c].amount
    OBVIOUS
<1>2. /\ d \in DOMAIN delegatorState /\ c \in DOMAIN del.requests
      /\ c \in DOMAIN del.delegations /\ held > less /\ Unreserve(d, less)
    BY <1>1 DEF ExecuteDelegationBondLess, IsDelegator
<1>3. DelegatorOK(del) /\ RecordAgrees(del)
    BY <1>2, RecordOK
<1>4. less \in Nat
    BY <1>1, <1>2, <1>3, RecordParts, RequestParts
<1>5. list # "missing" /\ StandsIn(book, x, list)
    <2>1. PICK room : room = FALSE
        OBVIOUS
    <2>2. list = Lookup(Book(c), d, delegatorState[d].delegations[c], room)
        BY <2>1
    <2> HIDE DEF list
    <2> QED
        BY <1>2, <2>1, <2>2, RecordLeads
<1>6. PICK new : new = [ WithoutRequest(del, c) EXCEPT
                           !.delegations[c] = SaturatingSub(@, less),
                           !.total = SaturatingSub(del.total, less) ]
    OBVIOUS
<1>7. PICK outcome : outcome = DecreaseDelegation(Book(c), d, held, less, list)
    OBVIOUS
<1>8. /\ SaveBook(c, outcome) /\ total' = SaturatingSub(total, less)
      /\ SaveDelegator(d, new)
    BY <1>1, <1>5, <1>6, <1>7 DEF ExecuteDelegationBondLess
<1>9. DecreasedBy(new, del, c, less)
    <2> HIDE DEF del
    <2> QED
        BY <1>2, <1>3, <1>6, DecreasedRecord
<1>10. /\ WellKept(book) /\ InOrder(book) /\ x.owner = d /\ x.amount = held
       /\ held \in Nat
    BY <1>2, EntryInBook
<1>11. PICK n : n = held - less
    OBVIOUS
<1>12. outcome = DecreaseDelegation(book, x.owner, x.amount, less, list)
    BY <1>7, <1>10
<1>13. less \in 0 .. x.amount /\ n = x.amount - less
    BY <1>2, <1>4, <1>10, <1>11
<1>14. Changes(outcome, book, x, n)
    <2> HIDE DEF list, held, x, book
    <2> QED
        BY <1>5, <1>10, <1>12, <1>13, DecreaseDelegationInOrder
<1> HIDE DEF list
<1> QED
    BY <1>1, <1>2, <1>4, <1>5, <1>7, <1>8, <1>9, <1>11, <1>14

LEMMA BondLessKeepsAgreement ==
    ASSUME LedgerInv, NEW d, NEW c, ExecuteDelegationBondLess(d, c)
    PROVE  Agreement'
<1> DEFINE del == delegatorState[d]
<1>1. /\ d \in DOMAIN delegatorState /\ c \in DOMAIN del.delegations
      /\ DelegatorOK(del) /\ RecordAgrees(del)
    BY BondLessDoes, RecordOK
<1>2. PICK less, new, outcome :
        /\ less \in Nat
        /\ less < del.delegations[c]
        /\ SaveDelegator(d, new)
        /\ DecreasedBy(new, del, c, less)
        /\ SaveBook(c, outcome)
        /\ Changes(outcome, Book(c), EntryIn(d, c), del.delegations[c] - less)
    BY BondLessDoes
<1>3. PICK n : n = del.delegations[c] - less
    OBVIOUS
<1>4. n \in Nat /\ Changes(outcome, Book(c), EntryIn(d, c), n) /\ del.delegations[c] > less
    BY <1>1, <1>2, <1>3, DelegatorParts
<1> HIDE DEF del
<1>5. RecordAgrees(new) /\ new.delegations[c] = n
    BY <1>1, <1>2, <1>3, <1>4, BondLessAgrees
<1>6. /\ DOMAIN new.delegations = DOMAIN del.delegations
      /\ \A x \in DOMAIN del.delegations \ {c} :
           new.delegations[x] = del.delegations[x]
    BY <1>2 DEF DecreasedBy
<1>7. /\ Holds(delegatorState', d, c) = {n}
      /\ \A e : e # d => Holds(delegatorState', e, c) = Holds(delegatorState, e, c)
    BY <1>1, <1>2, <1>5, <1>6, HoldsOnceSaved
<1>8. InOrder(outcome) /\ BookEntries(outcome) = HeldIn(delegatorState', c)
    <2>1. PICK ds : ds = delegatorState'
        OBVIOUS
    <2>2. /\ Holds(ds, d, c) = {n}
          /\ \A e : e # d => Holds(ds, e, c) = Holds(delegatorState, e, c)
        BY <1>7, <2>1
    <2>3. c \in DOMAIN delegatorState[d].delegations
        BY <1>1 DEF del
    <2> QED
        BY <1>1, <1>4, <2>1, <2>2, <2>3, BookWith
<1> QED
    BY <1>1, <1>2, <1>5, <1>6, <1>8, RecordAndBookAgree DEF del

-----------------------------------------------------------------------------
LEMMA CandidateCallAgrees ==
    ASSUME LedgerInv, CandidateCall
    PROVE  Agreement'
<1>1. ASSUME NEW c, NEW amount,
             \/ ScheduleLeaveCandidates(c)
             \/ CancelLeaveCandidates(c)
             \/ GoOffline(c)
             \/ GoOnline(c)
             \/ ExecuteCandidateBondLess(c)
             \/ CancelCandidateBondLess(c)
             \/ CandidateBondMore(c, amount)
             \/ ScheduleCandidateBondLess(c, amount)
      PROVE  Agreement'
    <2>1. \E info : SaveInfo(c, info) /\ UNCHANGED delegatorState
        BY <1>1
           DEF ScheduleLeaveCandidates, CancelLeaveCandidates, GoOffline, GoOnline,
               ExecuteCandidateBondLess, CancelCandidateBondLess, CandidateBondMore,
               ScheduleCandidateBondLess
    <2> QED
        BY <2>1, SaveInfoAgrees
<1>2. ASSUME NEW c, NEW amount, JoinCandidates(c, amount) \/ ExecuteLeaveCandidates(c)
      PROVE  Agreement'
    BY <1>2, JoinAgrees, ExitAgrees
<1> QED
    BY <1>1, <1>2 DEF CandidateCall

LEMMA DelegatorCallAgrees ==
    ASSUME LedgerInv, DelegatorCall
    PROVE  Agreement'
<1>1. ASSUME NEW d, NEW c, NEW amount \in Nat,
             \/ ScheduleLeaveDelegators(d)
             \/ CancelLeaveDelegators(d)
             \/ ScheduleRevokeDelegation(d, c)
             \/ ScheduleDelegatorBondLess(d, c, amount)
             \/ CancelDelegationRequest(d, c)
      PROVE  Agreement'
    BY <1>1, RequestCallsAgree
<1>2. ASSUME NEW d, NEW c, NEW amount \in Nat,
             \/ ExecuteLeaveDelegators(d)
             \/ ExecuteRevokeDelegation(d, c)
             \/ ExecuteDelegationBondLess(d, c)
             \/ DelegatorBondMore(d, c, amount)
      PROVE  Agreement'
    BY <1>2, DelegatorExitAgrees, RevokeAgrees, BondLessKeepsAgreement,
       DelegatorBondMoreAgrees
<1>3. ASSUME NEW d \in Accounts, NEW c, NEW amount \in Nat, Delegate(d, c, amount)
      PROVE  Agreement'
    BY <1>3, DelegateAgrees
<1>4. /\ \A d \in Backers : d \in Accounts
      /\ 0 \in Nat /\ \A amount \in Amounts : amount \in Nat
    BY ConstantsType, StakingAssumption
<1>5. PICK d \in Backers :
         \/ ScheduleLeaveDelegators(d)
         \/ CancelLeaveDelegators(d)
         \/ ExecuteLeaveDelegators(d)
         \/ \E c \in Joiners :
              \/ ScheduleRevokeDelegation(d, c)
              \/ ExecuteRevokeDelegation(d, c)
              \/ ExecuteDelegationBondLess(d, c)
              \/ CancelDelegationRequest(d, c)
              \/ \E amount \in Amounts :
                   \/ Delegate(d, c, amount)
                   \/ DelegatorBondMore(d, c, amount)
                   \/ ScheduleDelegatorBondLess(d, c, amount)
    BY DEF DelegatorCall, ExecuteDelegationRequest
<1> QED
    BY <1>1, <1>2, <1>3, <1>4, <1>5

LEMMA StepKeepsLedger ==
    ASSUME LedgerInv, [Next]_vars
    PROVE  LedgerInv'
<1>1. StakingInv'
    BY StepKeepsInv DEF LedgerInv
<1>2. CASE StartRound \/ UNCHANGED vars
    <2>1. Agreement'
        BY <1>2, QuietAgrees DEF StartRound, vars, books
    <2> QED
        BY <1>1, <2>1 DEF Agreement, LedgerInv
<1>3. CASE CandidateCall \/ DelegatorCall
    BY <1>1, <1>3, CandidateCallAgrees, DelegatorCallAgrees DEF Agreement, LedgerInv
<1> QED
    BY <1>2, <1>3 DEF Next

\* The books and the records agree in every reachable state.
THEOREM LedgerInvariant ==
    Spec => []LedgerInv
<1>1. Init => LedgerInv
    <2>1. Init => BooksAgree /\ RecordsAgree
        BY DEF Init, BooksAgree, RecordsAgree, EmptyMap
    <2> QED
        BY <2>1, InitEstablishes DEF LedgerInv
<1>2. LedgerInv /\ [Next]_vars => LedgerInv'
    BY StepKeepsLedger
<1> QED
    BY <1>1, <1>2, PTL DEF Spec

-----------------------------------------------------------------------------
(* What follows for every reachable state.                                 *)

\* The book of a candidate, as BooksAgree has it.
LEMMA LedgerBook ==
    ASSUME LedgerInv, NEW c \in DOMAIN candidateInfo
    PROVE  /\ WellKept(Book(c)) /\ InOrder(Book(c))
           /\ Book(c).top = topDelegations[c] /\ Book(c).bottom = bottomDelegations[c]
           /\ Book(c).info = candidateInfo[c]
           /\ ListInOrder(topDelegations[c]) /\ ListInOrder(bottomDelegations[c])
<1>1. WellKept(Book(c)) /\ InOrder(Book(c))
    BY DEF LedgerInv, StakingInv, BooksOK, BooksAgree
<1>2. /\ Book(c).top = topDelegations[c] /\ Book(c).bottom = bottomDelegations[c]
      /\ Book(c).info = candidateInfo[c]
    BY DEF Book
<1> QED
    BY <1>1, <1>2 DEF InOrder

\* The counted stake of a candidate is the sum of its top delegations.
THEOREM TopTotalsCorrect ==
    Spec => []TopTotalsAreSums
<1>1. LedgerInv => TopTotalsAreSums
    <2> SUFFICES ASSUME LedgerInv, NEW c \in DOMAIN candidateInfo
                 PROVE  topDelegations[c].total = SumOfList(topDelegations[c])
        BY DEF TopTotalsAreSums
    <2>1. Exact(topDelegations[c])
        BY LedgerBook DEF InOrder
    <2> QED
        BY <2>1 DEF Exact, AmountSum, SumOfList
<1> QED
    BY <1>1, LedgerInvariant, PTL

\* Both lists are sorted and the top list holds the largest delegations,
\* through every kick, swap and refill.
THEOREM TopHoldsTheLargestCorrect ==
    Spec => []TopHoldsTheLargest
<1>1. LedgerInv => TopHoldsTheLargest
    <2> SUFFICES ASSUME LedgerInv, NEW c \in DOMAIN candidateInfo
                 PROVE  /\ SortedList(topDelegations[c])
                        /\ SortedList(bottomDelegations[c])
                        /\ bottomDelegations[c].delegations # <<>> =>
                             LowestAmount(topDelegations[c])
                               >= HighestAmount(bottomDelegations[c])
        BY DEF TopHoldsTheLargest
    <2> DEFINE top == topDelegations[c]
               bottom == bottomDelegations[c]
    <2>1. SortedList(top) /\ SortedList(bottom)
        BY LedgerBook, InOrderSorted
    <2>2. ASSUME bottom.delegations # <<>>
          PROVE  LowestAmount(top) >= HighestAmount(bottom)
        <3>1. top.delegations # <<>>
            BY <2>2, LedgerBook, FillParts
        <3>2. Last(top.delegations) \in Entries(top)
            BY <3>1, LedgerBook, WithoutLastTakes
        <3>3. Head(bottom.delegations) \in Entries(bottom)
            BY <2>2, LedgerBook, WithoutFirstTakes
        <3>4. Last(top.delegations).amount >= Head(bottom.delegations).amount
            BY <3>2, <3>3, LedgerBook DEF InOrder
        <3> QED
            BY <2>2, <3>1, <3>4 DEF LowestAmount, HighestAmount
    <2> QED
        BY <2>1, <2>2
<1> QED
    BY <1>1, LedgerInvariant, PTL

\* The boundary amounts lead every lookup to the list the delegation is in.
THEOREM LookupsCorrect ==
    Spec => []LookupsFindTheirList
<1>1. LedgerInv => LookupsFindTheirList
    <2> SUFFICES ASSUME LedgerInv, NEW d \in DOMAIN delegatorState,
                        NEW c \in DOMAIN delegatorState[d].delegations
                 PROVE  LET held == delegatorState[d].delegations[c]
                            list == IF d \in Owners(topDelegations[c])
                                    THEN "top" ELSE "bottom"
                        IN  /\ Lookup(Book(c), d, held, FALSE) = list
                            /\ Lookup(Book(c), d, held, TopHasRoom(c)) = list
        BY DEF LookupsFindTheirList
    <2>1. ASSUME NEW room, room = FALSE \/ room = TopHasRoom(c)
          PROVE  Lookup(Book(c), d, delegatorState[d].delegations[c], room)
                   = IF d \in Owners(topDelegations[c]) THEN "top" ELSE "bottom"
        BY <2>1, RecordLeads
    <2> QED
        BY <2>1
<1> QED
    BY <1>1, LedgerInvariant, PTL

\* Pending requests are for delegations that exist, and less_total and
\* revocations_count are their sum and number.
THEOREM RequestsCorrect ==
    Spec => []RequestsAccounted
<1>1. LedgerInv => RequestsAccounted
    <2> SUFFICES ASSUME LedgerInv, NEW d \in DOMAIN delegatorState
                 PROVE  LET del == delegatorState[d]
                            revokes == { c \in DOMAIN del.requests :
                                           del.requests[c].action = "Revoke" }
                        IN  /\ DOMAIN del.requests \subseteq DOMAIN del.delegations
                            /\ del.less_total
                                 = SumFunction([ c \in DOMAIN del.requests |->
                                                   del.requests[c].amount ])
                            /\ del.revocations_count = Cardinality(revokes)
        BY DEF RequestsAccounted
    <2>1. RecordAgrees(delegatorState[d])
        BY DEF LedgerInv, RecordsAgree
    <2> QED
        BY <2>1 DEF RecordAgrees, RequestsSum, RequestsFit, AmountsAsked, Revoked
<1> QED
    BY <1>1, LedgerInvariant, PTL

LEMMA ListPositions ==
    ASSUME NEW list, ListInOrder(list)
    PROVE  /\ list.delegations \in Seq(Bond)
           /\ \A i \in 1 .. Len(list.delegations) : list.delegations[i] \in Entries(list)
           /\ \A i, j \in 1 .. Len(list.delegations) :
                list.delegations[i].owner = list.delegations[j].owner => i = j
<1>1. /\ list.delegations \in Seq(Bond)
      /\ DOMAIN list.delegations = 1 .. Len(list.delegations)
      /\ Len(list.delegations) \in Nat
    BY ListParts, LenProperties DEF ListInOrder
<1>2. ASSUME NEW i \in 1 .. Len(list.delegations), NEW j \in 1 .. Len(list.delegations),
             i # j
      PROVE  list.delegations[i].owner # list.delegations[j].owner
    <2>1. i < j \/ j < i
        BY <1>1, <1>2
    <2> QED
        BY <1>1, <2>1 DEF ListInOrder, Orderly
<1> QED
    BY <1>1, <1>2 DEF Entries, Range

\* The two lists of a candidate one after the other.
LEMMA BothLists ==
    ASSUME LedgerInv, NEW c \in DOMAIN candidateInfo,
           NEW entries, entries = topDelegations[c].delegations
                                    \o bottomDelegations[c].delegations
    PROVE  /\ \A i \in DOMAIN entries : entries[i] \in BookEntries(Book(c))
           /\ \A i, j \in DOMAIN entries :
                entries[i].owner = entries[j].owner => i = j
<1> DEFINE s == topDelegations[c].delegations
           t == bottomDelegations[c].delegations
<1>1. /\ s \in Seq(Bond) /\ t \in Seq(Bond)
      /\ \A i \in 1 .. Len(s) : s[i] \in Entries(topDelegations[c])
      /\ \A i, j \in 1 .. Len(s) : s[i].owner = s[j].owner => i = j
      /\ \A i \in 1 .. Len(t) : t[i] \in Entries(bottomDelegations[c])
      /\ \A i, j \in 1 .. Len(t) : t[i].owner = t[j].owner => i = j
    BY LedgerBook, ListPositions
<1>2. /\ \A x \in Entries(topDelegations[c]), y \in Entries(bottomDelegations[c]) :
           x.owner # y.owner
      /\ BookEntries(Book(c))
           = Entries(topDelegations[c]) \union Entries(bottomDelegations[c])
    BY LedgerBook DEF InOrder, BookEntries
<1>3. entries = s \o t
    OBVIOUS
<1> HIDE DEF s, t
<1>4. /\ Len(s) \in Nat /\ Len(t) \in Nat
      /\ DOMAIN entries = 1 .. Len(s) + Len(t)
      /\ \A i \in 1 .. Len(s) + Len(t) :
           entries[i] = IF i <= Len(s) THEN s[i] ELSE t[i - Len(s)]
    BY <1>1, <1>3, ConcatProperties, LenProperties
<1>5. ASSUME NEW i \in DOMAIN entries
      PROVE  \/ i \in 1 .. Len(s) /\ entries[i] = s[i]
             \/ i - Len(s) \in 1 .. Len(t) /\ entries[i] = t[i - Len(s)]
                /\ i \in Nat
    <2>1. i \in 1 .. Len(s) + Len(t) /\ i \in Nat
        BY <1>4
    <2>2. CASE i <= Len(s)
        <3>1. i \in 1 .. Len(s)
            BY <1>4, <2>1, <2>2
        <3> QED
            BY <1>4, <2>1, <2>2, <3>1
    <2>3. CASE ~ (i <= Len(s))
        <3>1. i - Len(s) \in 1 .. Len(t)
            BY <1>4, <2>1, <2>3
        <3> QED
            BY <1>4, <2>1, <2>3, <3>1
    <2> QED
        BY <2>2, <2>3
<1>6. \A i \in DOMAIN entries : entries[i] \in BookEntries(Book(c))
    BY <1>1, <1>2, <1>5
<1>7. ASSUME NEW i \in DOMAIN entries, NEW j \in DOMAIN entries,
             entries[i].owner = entries[j].owner
      PROVE  i = j
    <2>1. CASE i \in 1 .. Len(s) /\ entries[i] = s[i]
        <3>1. CASE j \in 1 .. Len(s) /\ entries[j] = s[j]
            BY <1>1, <1>7, <2>1, <3>1
        <3>2. CASE j - Len(s) \in 1 .. Len(t) /\ entries[j] = t[j - Len(s)]
            BY <1>1, <1>2, <1>7, <2>1, <3>2
        <3> QED
            BY <1>5, <3>1, <3>2
    <2>2. CASE i - Len(s) \in 1 .. Len(t) /\ entries[i] = t[i - Len(s)] /\ i \in Nat
        <3>1. CASE j \in 1 .. Len(s) /\ entries[j] = s[j]
            BY <1>1, <1>2, <1>7, <2>2, <3>1
        <3>2. CASE j - Len(s) \in 1 .. Len(t) /\ entries[j] = t[j - Len(s)] /\ j \in Nat
            <4>1. i - Len(s) = j - Len(s)
                BY <1>1, <1>7, <2>2, <3>2
            <4> QED
                BY <1>4, <2>2, <3>2, <4>1
        <3> QED
            BY <1>5, <3>1, <3>2
    <2> QED
        BY <1>5, <2>1, <2>2
<1> QED
    BY <1>6, <1>7

\* The candidates' books and the delegators' records tell the same story, to
\* the unit: every delegation stands exactly once in the two lists of its
\* candidate, with the amount its owner's record has, and the total of a
\* record is the sum of its delegations.
THEOREM BooksAndRecordsCorrect ==
    Spec => []BooksMatchDelegators
<1>1. ASSUME LedgerInv, NEW c \in DOMAIN candidateInfo
      PROVE  LET entries == topDelegations[c].delegations
                            \o bottomDelegations[c].delegations
             IN  /\ \A i, j \in DOMAIN entries :
                      entries[i].owner = entries[j].owner => i = j
                 /\ \A i \in DOMAIN entries :
                      /\ IsDelegator(entries[i].owner)
                      /\ LET held == delegatorState[entries[i].owner].delegations
                         IN  c \in DOMAIN held /\ held[c] = entries[i].amount
    <2>1. PICK entries : entries = topDelegations[c].delegations
                                     \o bottomDelegations[c].delegations
        OBVIOUS
    <2>2. /\ \A i \in DOMAIN entries : entries[i] \in BookEntries(Book(c))
          /\ \A i, j \in DOMAIN entries :
               entries[i].owner = entries[j].owner => i = j
        BY <1>1, <2>1, BothLists
    <2>3. ASSUME NEW i \in DOMAIN entries
          PROVE  /\ IsDelegator(entries[i].owner)
                 /\ c \in DOMAIN delegatorState[entries[i].owner].delegations
                 /\ delegatorState[entries[i].owner].delegations[c]
                      = entries[i].amount
        BY <1>1, <2>2, EntryIsHeld DEF IsDelegator
    <2> QED
        BY <2>1, <2>2, <2>3
<1>2. ASSUME LedgerInv, NEW d \in DOMAIN delegatorState
      PROVE  LET del == delegatorState[d]
             IN  /\ del.delegations # EmptyMap
                 /\ Cardinality(DOMAIN del.delegations) <= MaxDelegationsPerDelegator
                 /\ del.total = SumFunction(del.delegations)
                 /\ \A c \in DOMAIN del.delegations :
                      /\ IsCandidate(c)
                      /\ d \in Owners(topDelegations[c])
                               \union Owners(bottomDelegations[c])
    <2>1. /\ DelegationsSum(delegatorState[d].delegations, delegatorState[d].total)
          /\ DOMAIN delegatorState[d].delegations \subseteq DOMAIN candidateInfo
        BY <1>2 DEF LedgerInv, RecordsAgree, RecordAgrees
    <2>2. \A c \in DOMAIN delegatorState[d].delegations :
            /\ c \in DOMAIN candidateInfo
            /\ d \in Owners(topDelegations[c]) \union Owners(bottomDelegations[c])
        BY <1>2, <2>1, OwnersHold
    <2>3. delegatorState[d].delegations # EmptyMap
        BY <2>1 DEF DelegationsSum, EmptyMap
    <2> QED
        BY <2>1, <2>2, <2>3 DEF DelegationsSum, IsCandidate
<1>3. LedgerInv => BooksMatchDelegators
    BY <1>1, <1>2 DEF BooksMatchDelegators
<1> QED
    BY <1>3, LedgerInvariant, PTL

-----------------------------------------------------------------------------
(* What ends a delegation.                                                 *)

\* The delegation of d to c ends with this step.
Ends(d, c) ==
    /\ d \in DOMAIN delegatorState
    /\ c \in DOMAIN delegatorState[d].delegations
    /\ d \in DOMAIN delegatorState' => c \notin DOMAIN delegatorState'[d].delegations

HasCause(d, c) ==
    CandidateExits(c) \/ DelegatorExits(d) \/ RevokeIsDue(d, c) \/ Outbid(d, c)

EndsWithCause == \A d, c : Ends(d, c) => HasCause(d, c)

\* A call that writes d's record and keeps its delegations ends none.
LEMMA SameDelegations ==
    ASSUME LedgerInv, NEW d \in DOMAIN delegatorState, NEW new,
           SaveDelegator(d, new),
           DOMAIN delegatorState[d].delegations \subseteq DOMAIN new.delegations
    PROVE  EndsWithCause
BY HoldsOnceSaved DEF EndsWithCause, Ends

LEMMA CandidateExitIsCause ==
    ASSUME LedgerInv, NEW c, ExecuteLeaveCandidates(c)
    PROVE  EndsWithCause
<1>1. ExitWrites(c) /\ c \in DOMAIN candidateInfo
    BY ExitWritesRecords
<1>2. CandidateExits(c)
    BY DEF ExecuteLeaveCandidates, RemoveCandidate, Drop, CandidateExits, Due
<1> SUFFICES ASSUME NEW d, NEW x, Ends(d, x), x # c
             PROVE  FALSE
    BY <1>2 DEF EndsWithCause, HasCause
<1>3. d \in DOMAIN delegatorState /\ x \in DOMAIN delegatorState[d].delegations
    BY DEF Ends
<1>4. d \in DOMAIN delegatorState'
    BY <1>1, <1>3 DEF ExitWrites
<1>5. x \in DOMAIN delegatorState'[d].delegations
    <2>1. CASE c \in DOMAIN delegatorState[d].delegations
        <3>1. delegatorState'[d] = AfterCandidateLeft(d, c)
            BY <1>1, <1>4, <2>1 DEF ExitWrites
        <3> QED
            BY <1>3, <2>1, <3>1, RecordOK, RemovedParts DEF AfterCandidateLeft
    <2>2. CASE c \notin DOMAIN delegatorState[d].delegations
        BY <1>1, <1>3, <1>4, <2>2 DEF ExitWrites
    <2> QED
        BY <2>1, <2>2
<1> QED
    BY <1>4, <1>5 DEF Ends

LEMMA DelegatorExitIsCause ==
    ASSUME LedgerInv, NEW d, ExecuteLeaveDelegators(d)
    PROVE  EndsWithCause
BY DEF ExecuteLeaveDelegators, IsDelegator, Drop, EndsWithCause, Ends, HasCause,
       DelegatorExits, Due

LEMMA RevokeIsCause ==
    ASSUME LedgerInv, NEW d, NEW c, ExecuteRevokeDelegation(d, c)
    PROVE  EndsWithCause
<1>1. RevokeIsDue(d, c)
    BY DEF ExecuteRevokeDelegation, RevokeIsDue, Due
<1>2. /\ d \in DOMAIN delegatorState
      /\ c \in DOMAIN delegatorState[d].delegations
      /\ \/ /\ DOMAIN delegatorState[d].delegations = {c}
            /\ delegatorState' = Drop(delegatorState, d)
         \/ /\ DOMAIN delegatorState[d].delegations \ {c} # {}
            /\ SaveDelegator(d, WithoutDelegation(
                                  WithoutRequest(delegatorState[d], c), c))
    BY RevokeDoes
<1>3. CASE delegatorState' = Drop(delegatorState, d)
           /\ DOMAIN delegatorState[d].delegations = {c}
    BY <1>1, <1>3 DEF EndsWithCause, Ends, HasCause, Drop
<1>4. ASSUME NEW new, SaveDelegator(d, new),
             new = WithoutDelegation(WithoutRequest(delegatorState[d], c), c)
      PROVE  EndsWithCause
    <2>1. DOMAIN new.delegations = DOMAIN delegatorState[d].delegations \ {c}
        BY <1>2, <1>4, RecordOK, RemovedParts
    <2> QED
        BY <1>1, <1>2, <1>4, <2>1, HoldsOnceSaved DEF EndsWithCause, Ends, HasCause
<1> QED
    BY <1>2, <1>3, <1>4

LEMMA OutbidIsCause ==
    ASSUME LedgerInv, NEW d \in Accounts, NEW c, NEW amount \in Nat,
           Delegate(d, c, amount)
    PROVE  EndsWithCause
<1>1. PICK bond : bond = [owner |-> d, amount |-> amount]
    OBVIOUS
<1>2. PICK kicked : kicked = AddDelegation(Book(c), bond).kicked
    OBVIOUS
<1>3. /\ c \in DOMAIN candidateInfo
      /\ \A x \in BookEntries(Book(c)) : x.owner # d
      /\ kicked \subseteq BookEntries(Book(c))
      /\ KickedFor(kicked, Book(c), bond)
      /\ \A x \in kicked : /\ x.owner \in DOMAIN delegatorState
                           /\ c \in DOMAIN delegatorState[x.owner].delegations
                           /\ delegatorState[x.owner].delegations[c] = x.amount
    BY <1>1, <1>2, DelegateFinds
<1>4. DelegateWrites(d, c, amount, kicked)
    BY <1>1, <1>2, DelegateWritesRecords
<1>5. PICK new : new = WithDelegation(d, c, amount)
    OBVIOUS
<1>6. /\ c \in DOMAIN new.delegations /\ new.delegations[c] = amount
      /\ \A x : x # c => ( x \in DOMAIN new.delegations
           <=> IsDelegator(d) /\ x \in DOMAIN delegatorState[d].delegations )
    BY <1>5, DelegatingRecord
<1>7. d \in DOMAIN delegatorState' /\ delegatorState'[d] = new
    BY <1>4, <1>5 DEF DelegateWrites
<1>8. IsDelegator(d) => c \notin DOMAIN delegatorState[d].delegations
    BY DEF Delegate, MayDelegate
<1> SUFFICES ASSUME NEW e, NEW x, Ends(e, x)
             PROVE  Outbid(e, x)
    BY DEF EndsWithCause, HasCause
<1>9. e \in DOMAIN delegatorState /\ x \in DOMAIN delegatorState[e].delegations
    BY DEF Ends
<1>10. e # d
    BY <1>6, <1>7, <1>9 DEF Ends, IsDelegator
<1>11. \E y \in kicked : y.owner = e
    BY <1>4, <1>9, <1>10 DEF Ends, DelegateWrites
<1>12. x = c
    <2>1. CASE e \in DOMAIN delegatorState'
        <3>1. delegatorState'[e]
                = WithoutRequest(WithoutDelegation(delegatorState[e], c), c)
            BY <1>4, <1>10, <1>11, <2>1 DEF DelegateWrites
        <3>2. c \in DOMAIN delegatorState[e].delegations
            BY <1>3, <1>11
        <3>3. DOMAIN delegatorState'[e].delegations
                = DOMAIN delegatorState[e].delegations \ {c}
            BY <1>9, <3>1, <3>2, RecordOK, RemovedParts
        <3> QED
            BY <1>9, <2>1, <3>3 DEF Ends
    <2>2. CASE e \notin DOMAIN delegatorState'
        BY <1>4, <1>9, <1>10, <2>2 DEF DelegateWrites
    <2> QED
        BY <2>1, <2>2
<1>13. PICK y \in kicked : y.owner = e
    BY <1>11
<1>14. /\ Len(topDelegations[c].delegations) = MaxTopDelegationsPerCandidate
       /\ Len(bottomDelegations[c].delegations) = MaxBottomDelegationsPerCandidate
       /\ y = Last(bottomDelegations[c].delegations)
       /\ amount > y.amount
    BY <1>1, <1>3, <1>13, LedgerBook DEF KickedFor
<1>15. delegatorState[e].delegations[c] = y.amount
    BY <1>3, <1>13
<1> QED
    BY <1>6, <1>7, <1>8, <1>12, <1>13, <1>14, <1>15 DEF Outbid

LEMMA StepEndsWithCause ==
    ASSUME LedgerInv, [Next]_vars
    PROVE  EndsWithCause
<1>1. ASSUME UNCHANGED delegatorState PROVE EndsWithCause
    BY <1>1 DEF EndsWithCause, Ends
<1>2. CASE StartRound \/ UNCHANGED vars
    BY <1>1, <1>2 DEF StartRound, vars
<1>3. CASE CandidateCall
    <2>1. ASSUME NEW c, ExecuteLeaveCandidates(c) PROVE EndsWithCause
        BY <2>1, CandidateExitIsCause
    <2>2. ASSUME NEW c, NEW amount,
                 \/ JoinCandidates(c, amount)
                 \/ ScheduleLeaveCandidates(c)
                 \/ CancelLeaveCandidates(c)
                 \/ GoOffline(c)
                 \/ GoOnline(c)
                 \/ ExecuteCandidateBondLess(c)
                 \/ CancelCandidateBondLess(c)
                 \/ CandidateBondMore(c, amount)
                 \/ ScheduleCandidateBondLess(c, amount)
          PROVE  EndsWithCause
        BY <1>1, <2>2
           DEF JoinCandidates, ScheduleLeaveCandidates, CancelLeaveCandidates,
               GoOffline, GoOnline, ExecuteCandidateBondLess,
               CancelCandidateBondLess, CandidateBondMore, ScheduleCandidateBondLess
    <2> QED
        BY <1>3, <2>1, <2>2 DEF CandidateCall
<1>4. CASE DelegatorCall
    <2>1. ASSUME NEW d, NEW c, NEW amount \in Nat,
                 \/ ScheduleLeaveDelegators(d)
                 \/ CancelLeaveDelegators(d)
                 \/ ScheduleRevokeDelegation(d, c)
                 \/ ScheduleDelegatorBondLess(d, c, amount)
                 \/ CancelDelegationRequest(d, c)
          PROVE  EndsWithCause
        BY <2>1, RequestCallsSave, SameDelegations
    <2>2. ASSUME NEW d, NEW c,
                 ExecuteLeaveDelegators(d) \/ ExecuteRevokeDelegation(d, c)
          PROVE  EndsWithCause
        BY <2>2, DelegatorExitIsCause, RevokeIsCause
    <2>3. ASSUME NEW d, NEW c, ExecuteDelegationBondLess(d, c) PROVE EndsWithCause
        BY <2>3, BondLessDoes, SameDelegations DEF DecreasedBy
    <2>4. ASSUME NEW d, NEW c, NEW amount \in Nat, DelegatorBondMore(d, c, amount)
          PROVE  EndsWithCause
        <3>1. /\ d \in DOMAIN delegatorState
              /\ SaveDelegator(d, [ delegatorState[d] EXCEPT
                      !.delegations[c] = @ + amount, !.total = @ + amount ])
            BY <2>4, DelegatorBondMoreDoes
        <3>2. DelegatorOK(delegatorState[d])
            BY <3>1, RecordOK
        <3>3. DOMAIN [ delegatorState[d] EXCEPT !.delegations[c] = @ + amount,
                                                !.total = @ + amount ].delegations
                = DOMAIN delegatorState[d].delegations
            BY <3>2 DEF DelegatorOK
        <3> QED
            BY <3>1, <3>3, SameDelegations
    <2>5. ASSUME NEW d \in Accounts, NEW c, NEW amount \in Nat, Delegate(d, c, amount)
          PROVE  EndsWithCause
        BY <2>5, OutbidIsCause
    <2>6. /\ \A d \in Backers : d \in Accounts
          /\ 0 \in Nat /\ \A amount \in Amounts : amount \in Nat
        BY ConstantsType, StakingAssumption
    <2>7. PICK d \in Backers :
             \/ ScheduleLeaveDelegators(d)
             \/ CancelLeaveDelegators(d)
             \/ ExecuteLeaveDelegators(d)
             \/ \E c \in Joiners :
                  \/ ScheduleRevokeDelegation(d, c)
                  \/ ExecuteRevokeDelegation(d, c)
                  \/ ExecuteDelegationBondLess(d, c)
                  \/ CancelDelegationRequest(d, c)
                  \/ \E amount \in Amounts :
                       \/ Delegate(d, c, amount)
                       \/ DelegatorBondMore(d, c, amount)
                       \/ ScheduleDelegatorBondLess(d, c, amount)
        BY <1>4 DEF DelegatorCall, ExecuteDelegationRequest
    <2> QED
        BY <2>1, <2>2, <2>3, <2>4, <2>5, <2>6, <2>7
<1> QED
    BY <1>2, <1>3, <1>4 DEF Next

\* A delegation ends only by a due exit of its candidate, by a due exit or
\* revocation of its owner, or because it was the very lowest of two full
\* lists and somebody new brought more.
THEOREM DelegationsEndCorrect ==
    Spec => DelegationsEndOnlyWithCause
<1>1. LedgerInv /\ [Next]_vars =>
        [ \A d \in DOMAIN delegatorState :
            \A c \in DOMAIN delegatorState[d].delegations :
              (d \in DOMAIN delegatorState' =>
                 c \notin DOMAIN delegatorState'[d].delegations)
              => \/ CandidateExits(c)
                 \/ DelegatorExits(d)
                 \/ RevokeIsDue(d, c)
                 \/ Outbid(d, c) ]_vars
    BY StepEndsWithCause DEF EndsWithCause, Ends, HasCause
<1> QED
    BY <1>1, LedgerInvariant, PTL DEF Spec, DelegationsEndOnlyWithCause

-----------------------------------------------------------------------------
(* What is promised, what is reserved and Total.                           *)

\* The stake of account a: a bond or the total of a record.
Promise(infos, ds, a) ==
    IF a \in DOMAIN infos THEN infos[a].bond
    ELSE IF a \in DOMAIN ds THEN ds[a].total ELSE 0

\* n at a, nothing elsewhere.
OnlyAt(a, n) == [x \in Accounts |-> IF x = a THEN n ELSE 0]

\* `gain` was reserved and `loss` unreserved, and no stake moved without it.
\* Total went up by the gain and down by at least the loss.
Moves(gain, loss) ==
    /\ gain \in [Accounts -> Nat] /\ loss \in [Accounts -> Nat]
    /\ \A a \in Accounts :
         /\ reserved'[a] = SaturatingSub(reserved[a] + gain[a], loss[a])
         /\ Promise(candidateInfo', delegatorState', a) + loss[a]
              <= Promise(candidateInfo, delegatorState, a) + gain[a]
    /\ \E n \in Nat :
         /\ n >= SumFunctionOnSet(loss, Accounts)
         /\ total' = SaturatingSub(total + SumFunctionOnSet(gain, Accounts), n)

\* Stake moved by exactly the difference, and so did Total.
Precise(gain, loss) ==
    /\ \A a \in Accounts :
         Promise(candidateInfo', delegatorState', a) + loss[a]
           = Promise(candidateInfo, delegatorState, a) + gain[a]
    /\ total' = SaturatingSub(total + SumFunctionOnSet(gain, Accounts),
                              SumFunctionOnSet(loss, Accounts))

LEMMA SumOnlyAt ==
    ASSUME NEW a \in Accounts, NEW n \in Nat
    PROVE  /\ OnlyAt(a, n) \in [Accounts -> Nat]
           /\ OnlyAt(a, n)[a] = n
           /\ \A x \in Accounts : x # a => OnlyAt(a, n)[x] = 0
           /\ SumFunctionOnSet(OnlyAt(a, n), Accounts) = n
<1> DEFINE f == OnlyAt(a, n)
<1>1. /\ f \in [Accounts -> Nat] /\ f[a] = n
      /\ \A x \in Accounts : x # a => f[x] = 0
    BY DEF OnlyAt
<1>2. IsFiniteSet(Accounts) /\ IsFiniteSet(Accounts \ {a})
    BY StakingAssumption, FS_Subset
<1> HIDE DEF f
<1>3. /\ \A x \in Accounts : f[x] \in Nat
      /\ \A x \in Accounts \ {a} : f[x] = 0
    BY <1>1
<1>4. SumFunctionOnSet(f, Accounts) = f[a] + SumFunctionOnSet(f, Accounts \ {a})
    BY <1>2, <1>3, SumRemove
<1>5. SumFunctionOnSet(f, Accounts \ {a}) = 0
    BY <1>2, <1>3, SumOfZeros
<1>6. SumFunctionOnSet(f, Accounts) = n
    BY <1>1, <1>4, <1>5
<1> QED
    BY <1>1, <1>6 DEF f

LEMMA SumsOfAccounts ==
    ASSUME NEW f \in [Accounts -> Nat]
    PROVE  /\ SumFunctionOnSet(f, Accounts) \in Nat
           /\ SumFunction(f) = SumFunctionOnSet(f, Accounts)
BY StakingAssumption, SumType DEF SumFunction

LEMMA PromiseType ==
    ASSUME LedgerInv, NEW a \in Accounts
    PROVE  Promise(candidateInfo, delegatorState, a) \in Nat
<1>1. CASE a \in DOMAIN candidateInfo
    BY <1>1, CandidateParts DEF Promise, LedgerInv, StakingInv, CandidatesOK
<1>2. CASE a \notin DOMAIN candidateInfo
    BY <1>2, RecordOK DEF Promise, DelegatorOK
<1> QED
    BY <1>1, <1>2

LEMMA PromisePrimeType ==
    ASSUME LedgerInv', NEW a \in Accounts
    PROVE  Promise(candidateInfo', delegatorState', a) \in Nat
<1>1. CASE a \in DOMAIN candidateInfo'
    <2>1. WellKept(Book(a)')
        BY <1>1 DEF LedgerInv, StakingInv, BooksOK
    <2>2. Book(a)'.info = candidateInfo'[a]
        BY DEF Book
    <2> QED
        BY <1>1, <2>1, <2>2 DEF Promise, WellKept, CandidateMetadata
<1>2. CASE a \notin DOMAIN candidateInfo'
    <2>1. \A d \in DOMAIN delegatorState' : DelegatorOK(delegatorState'[d])
        BY DEF LedgerInv, StakingInv, DelegatorsOK
    <2> QED
        BY <1>2, <2>1 DEF Promise, DelegatorOK
<1> QED
    BY <1>1, <1>2

\* Whatever is promised is reserved.
AllBacked ==
    \A a \in Accounts : reserved[a] >= Promise(candidateInfo, delegatorState, a)

LEMMA BackedIsReserved ==
    ASSUME LedgerInv, AllBacked
    PROVE  StakeIsReserved
<1>1. /\ DOMAIN candidateInfo \subseteq Accounts
      /\ DOMAIN delegatorState \subseteq Accounts
      /\ DOMAIN candidateInfo \intersect DOMAIN delegatorState = {}
    BY DEF LedgerInv, StakingInv, BooksOK, DelegatorsOK, RolesDisjoint
<1> QED
    BY <1>1 DEF AllBacked, Promise, StakeIsReserved

KeptBacked(gain, loss) ==
    /\ AllBacked'
    /\ TotalWithinReserved => TotalWithinReserved'
    /\ \A a \in Accounts : reserved'[a] + loss[a] = reserved[a] + gain[a]

\* Moving stake this way, promises stay backed and Total stays within what is
\* reserved.
LEMMA PromisesKept ==
    ASSUME LedgerInv, LedgerInv', AllBacked, NEW gain, NEW loss, Moves(gain, loss)
    PROVE  KeptBacked(gain, loss)
<1>1. /\ gain \in [Accounts -> Nat] /\ loss \in [Accounts -> Nat]
      /\ reserved \in [Accounts -> Nat] /\ reserved' \in [Accounts -> Nat]
      /\ total \in Nat
    BY DEF Moves, LedgerInv, StakingInv, NumbersOK
<1>2. ASSUME NEW a \in Accounts
      PROVE  /\ reserved'[a] >= Promise(candidateInfo', delegatorState', a)
             /\ reserved'[a] + loss[a] = reserved[a] + gain[a]
    <2>1. PICK p, q : /\ p = Promise(candidateInfo, delegatorState, a)
                      /\ q = Promise(candidateInfo', delegatorState', a)
        OBVIOUS
    <2>2. p \in Nat /\ q \in Nat
        BY <2>1, PromiseType, PromisePrimeType
    <2>3. /\ reserved[a] >= p /\ q + loss[a] <= p + gain[a]
          /\ reserved'[a] = SaturatingSub(reserved[a] + gain[a], loss[a])
        BY <2>1 DEF AllBacked, Moves
    <2>4. loss[a] \in 0 .. reserved[a] + gain[a]
        BY <1>1, <2>2, <2>3
    <2>5. reserved'[a] = reserved[a] + gain[a] - loss[a]
        <3>1. PICK x, y \in Nat : x = reserved[a] + gain[a] /\ y = loss[a]
            BY <1>1
        <3>2. SaturatingSub(x, y) = x - y
            BY <2>4, <3>1 DEF SaturatingSub
        <3>3. reserved'[a] = SaturatingSub(x, y)
            BY <2>3, <3>1, Zenon
        <3>4. PICK z : z = reserved'[a]
            OBVIOUS
        <3>5. z = x - y
            BY <3>2, <3>3, <3>4, Zenon
        <3>6. z = reserved[a] + gain[a] - loss[a]
            BY <1>1, <3>1, <3>5
        <3> QED
            BY <3>4, <3>6, Zenon
    <2> QED
        BY <1>1, <2>1, <2>2, <2>3, <2>5
<1>3. AllBacked'
    BY <1>2 DEF AllBacked
<1>4. ASSUME TotalWithinReserved PROVE TotalWithinReserved'
    <2> DEFINE f == [x \in Accounts |-> reserved[x] + gain[x]]
    <2>1. \A x \in Accounts : /\ reserved[x] \in Nat /\ gain[x] \in Nat
                              /\ f[x] = reserved[x] + gain[x]
                              /\ f[x] = reserved'[x] + loss[x]
                              /\ reserved'[x] \in Nat /\ loss[x] \in Nat
        BY <1>1, <1>2
    <2>2. IsFiniteSet(Accounts)
        BY StakingAssumption
    <2> HIDE DEF f
    <2>3. SumFunctionOnSet(f, Accounts)
            = SumFunctionOnSet(reserved, Accounts) + SumFunctionOnSet(gain, Accounts)
        BY <2>1, <2>2, SumPlus
    <2>4. PICK after : after = reserved'
        OBVIOUS
    <2>5. SumFunctionOnSet(f, Accounts)
            = SumFunctionOnSet(after, Accounts) + SumFunctionOnSet(loss, Accounts)
        <3>1. \A x \in Accounts : /\ after[x] \in Nat /\ loss[x] \in Nat
                                  /\ f[x] = after[x] + loss[x]
            BY <2>1, <2>4
        <3> QED
            BY <2>2, <3>1, SumPlus
    <2>6. PICK r, s, g, l \in Nat :
            /\ r = SumFunctionOnSet(reserved, Accounts)
            /\ s = SumFunctionOnSet(after, Accounts)
            /\ g = SumFunctionOnSet(gain, Accounts)
            /\ l = SumFunctionOnSet(loss, Accounts)
        BY <1>1, <2>4, SumsOfAccounts
    <2>7. r + g = s + l
        BY <2>3, <2>5, <2>6
    <2>8. total <= r
        BY <1>1, <1>4, <2>6, SumsOfAccounts DEF TotalWithinReserved
    <2>9. PICK n \in Nat : n >= l /\ total' = SaturatingSub(total + g, n)
        BY <2>6 DEF Moves
    <2>10. total' <= s
        <3>1. total + g \in Nat
            BY <1>1, <2>6
        <3>2. CASE n <= total + g
            BY <1>1, <2>6, <2>7, <2>8, <2>9, <3>1, <3>2, SubBehaves
        <3>3. CASE ~ (n <= total + g)
            BY <2>6, <2>9, <3>1, <3>3, SubBehaves
        <3> QED
            BY <3>2, <3>3
    <2>11. SumFunction(after) = s
        BY <1>1, <2>4, <2>6, SumsOfAccounts
    <2> QED
        BY <2>4, <2>10, <2>11 DEF TotalWithinReserved
<1>5. \A a \in Accounts : reserved'[a] + loss[a] = reserved[a] + gain[a]
    BY <1>2
<1>6. TotalWithinReserved => TotalWithinReserved'
    BY <1>4
<1> QED
    BY <1>3, <1>5, <1>6, Zenon DEF KeptBacked

\* Stake moved, by exactly what was reserved and unreserved.
MovedExactly == \E gain, loss : Moves(gain, loss) /\ Precise(gain, loss)

\* The promise of nobody but `some` changes.
PromisesKeptBut(some) ==
    \A x \in Accounts \ some : Promise(candidateInfo', delegatorState', x)
                                 = Promise(candidateInfo, delegatorState, x)

LEMMA NothingOff ==
    ASSUME NEW r \in Nat
    PROVE  SaturatingSub(r, 0) = r /\ SaturatingSub(r + 0, 0) = r
BY DEF SaturatingSub

LEMMA QuietMoves ==
    ASSUME LedgerInv, UNCHANGED <<reserved, total>>, PromisesKeptBut({})
    PROVE  MovedExactly
<1> DEFINE none == [x \in Accounts |-> 0]
<1>1. none \in [Accounts -> Nat] /\ \A x \in Accounts : none[x] = 0
    OBVIOUS
<1> HIDE DEF none
<1>2. SumFunctionOnSet(none, Accounts) = 0
    BY <1>1, StakingAssumption, SumOfZeros
<1>3. ASSUME NEW a \in Accounts
      PROVE  /\ reserved'[a] = SaturatingSub(reserved[a] + none[a], none[a])
             /\ Promise(candidateInfo', delegatorState', a) + none[a]
                  = Promise(candidateInfo, delegatorState, a) + none[a]
             /\ Promise(candidateInfo', delegatorState', a) + none[a]
                  <= Promise(candidateInfo, delegatorState, a) + none[a]
    <2>1. PICK r \in Nat : r = reserved[a]
        BY DEF LedgerInv, StakingInv, NumbersOK
    <2>2. SaturatingSub(r + 0, 0) = r
        BY <2>1, NothingOff
    <2>3. PICK p \in Nat : p = Promise(candidateInfo, delegatorState, a)
        BY PromiseType
    <2> QED
        BY <1>1, <2>1, <2>2, <2>3 DEF PromisesKeptBut
<1>4. total' = SaturatingSub(total + 0, 0)
    <2>1. PICK t \in Nat : t = total
        BY DEF LedgerInv, StakingInv, NumbersOK
    <2> QED
        BY <2>1, NothingOff
<1>5. Moves(none, none)
    BY <1>1, <1>2, <1>3, <1>4 DEF Moves
<1>6. Precise(none, none)
    BY <1>2, <1>3, <1>4 DEF Precise
<1> QED
    BY <1>5, <1>6 DEF MovedExactly

\* At account a, n are reserved and m unreserved.
LEMMA OneMoves ==
    ASSUME LedgerInv, NEW a \in Accounts, NEW n \in Nat, NEW m \in Nat,
           reserved' = [reserved EXCEPT ![a] = SaturatingSub(reserved[a] + n, m)],
           Promise(candidateInfo', delegatorState', a) + m
             <= Promise(candidateInfo, delegatorState, a) + n,
           PromisesKeptBut({a}),
           total' = SaturatingSub(total + n, m)
    PROVE  /\ Moves(OnlyAt(a, n), OnlyAt(a, m))
           /\ Promise(candidateInfo', delegatorState', a) + m
                = Promise(candidateInfo, delegatorState, a) + n
              => Precise(OnlyAt(a, n), OnlyAt(a, m))
<1> DEFINE gain == OnlyAt(a, n)
           loss == OnlyAt(a, m)
<1>1. /\ gain \in [Accounts -> Nat] /\ loss \in [Accounts -> Nat]
      /\ gain[a] = n /\ loss[a] = m
      /\ \A x \in Accounts \ {a} : gain[x] = 0 /\ loss[x] = 0
      /\ SumFunctionOnSet(gain, Accounts) = n
      /\ SumFunctionOnSet(loss, Accounts) = m
    BY SumOnlyAt
<1> HIDE DEF gain, loss
<1>2. ASSUME NEW x \in Accounts \ {a}
      PROVE  /\ reserved'[x] = SaturatingSub(reserved[x] + gain[x], loss[x])
             /\ Promise(candidateInfo', delegatorState', x) + loss[x]
                  = Promise(candidateInfo, delegatorState, x) + gain[x]
             /\ Promise(candidateInfo', delegatorState', x) + loss[x]
                  <= Promise(candidateInfo, delegatorState, x) + gain[x]
    <2>1. PICK r \in Nat : r = reserved[x] /\ r = reserved'[x]
        BY DEF LedgerInv, StakingInv, NumbersOK
    <2>2. SaturatingSub(r + 0, 0) = r
        BY <2>1, NothingOff
    <2>3. PICK p \in Nat : p = Promise(candidateInfo, delegatorState, x)
        BY PromiseType
    <2> QED
        BY <1>1, <2>1, <2>2, <2>3 DEF PromisesKeptBut
<1>3. reserved'[a] = SaturatingSub(reserved[a] + n, m)
    BY DEF LedgerInv, StakingInv, NumbersOK
<1>4. Moves(gain, loss)
    <2>1. ASSUME NEW x \in Accounts
          PROVE  /\ reserved'[x] = SaturatingSub(reserved[x] + gain[x], loss[x])
                 /\ Promise(candidateInfo', delegatorState', x) + loss[x]
                      <= Promise(candidateInfo, delegatorState, x) + gain[x]
        <3>1. CASE x = a
            BY <1>1, <1>3, <3>1
        <3>2. CASE x # a
            BY <1>2, <3>2
        <3> QED
            BY <3>1, <3>2
    <2>2. m \in Nat /\ m >= SumFunctionOnSet(loss, Accounts)
        BY <1>1
    <2>3. total' = SaturatingSub(total + SumFunctionOnSet(gain, Accounts), m)
        BY <1>1
    <2> QED
        BY <1>1, <2>1, <2>2, <2>3 DEF Moves
<1>5. ASSUME Promise(candidateInfo', delegatorState', a) + m
               = Promise(candidateInfo, delegatorState, a) + n
      PROVE  Precise(gain, loss)
    <2>1. ASSUME NEW x \in Accounts
          PROVE  Promise(candidateInfo', delegatorState', x) + loss[x]
                   = Promise(candidateInfo, delegatorState, x) + gain[x]
        <3>1. CASE x = a
            BY <1>1, <1>5, <3>1
        <3>2. CASE x # a
            BY <1>2, <3>2
        <3> QED
            BY <3>1, <3>2
    <2> QED
        BY <1>1, <2>1 DEF Precise
<1> QED
    BY <1>4, <1>5 DEF gain, loss

\* A call that reserves n for its account.
LEMMA Gains ==
    ASSUME LedgerInv, NEW a \in Accounts, NEW n \in Nat,
           Reserve(a, n), total' = total + n,
           Promise(candidateInfo', delegatorState', a)
             = Promise(candidateInfo, delegatorState, a) + n,
           PromisesKeptBut({a})
    PROVE  MovedExactly
<1>1. PICK r, t, p \in Nat :
        /\ r = reserved[a] /\ t = total
        /\ p = Promise(candidateInfo, delegatorState, a)
    BY PromiseType DEF LedgerInv, StakingInv, NumbersOK
<1>2. SaturatingSub(r + n, 0) = r + n /\ SaturatingSub(t + n, 0) = t + n
    <2>1. PICK x, y \in Nat : x = r + n /\ y = t + n
        BY <1>1
    <2> QED
        BY <2>1, NothingOff
<1>3. reserved' = [reserved EXCEPT ![a] = SaturatingSub(reserved[a] + n, 0)]
    BY <1>1, <1>2 DEF Reserve
<1>4. total' = SaturatingSub(total + n, 0)
    BY <1>1, <1>2
<1>5. /\ Promise(candidateInfo', delegatorState', a) + 0
           = Promise(candidateInfo, delegatorState, a) + n
      /\ Promise(candidateInfo', delegatorState', a) + 0
           <= Promise(candidateInfo, delegatorState, a) + n
    BY <1>1
<1>6. Moves(OnlyAt(a, n), OnlyAt(a, 0)) /\ Precise(OnlyAt(a, n), OnlyAt(a, 0))
    BY <1>3, <1>4, <1>5, OneMoves
<1> QED
    BY <1>6 DEF MovedExactly

\* A call that unreserves m of its account.
LEMMA Loses ==
    ASSUME LedgerInv, NEW a \in Accounts, NEW m \in Nat,
           Unreserve(a, m), total' = SaturatingSub(total, m),
           Promise(candidateInfo', delegatorState', a) + m
             <= Promise(candidateInfo, delegatorState, a),
           PromisesKeptBut({a})
    PROVE  /\ \E gain, loss : Moves(gain, loss)
           /\ Promise(candidateInfo', delegatorState', a) + m
                = Promise(candidateInfo, delegatorState, a) => MovedExactly
<1>1. PICK r, t, p \in Nat :
        /\ r = reserved[a] /\ t = total
        /\ p = Promise(candidateInfo, delegatorState, a)
    BY PromiseType DEF LedgerInv, StakingInv, NumbersOK
<1>2. r + 0 = r /\ t + 0 = t /\ p + 0 = p
    BY <1>1
<1>3. reserved' = [reserved EXCEPT ![a] = SaturatingSub(reserved[a] + 0, m)]
    BY <1>1, <1>2 DEF Unreserve
<1>4. total' = SaturatingSub(total + 0, m)
    BY <1>1, <1>2
<1>5. Promise(candidateInfo', delegatorState', a) + m
        <= Promise(candidateInfo, delegatorState, a) + 0
    BY <1>1, <1>2
<1>6. Moves(OnlyAt(a, 0), OnlyAt(a, m))
    BY <1>3, <1>4, <1>5, OneMoves
<1>7. ASSUME Promise(candidateInfo', delegatorState', a) + m
               = Promise(candidateInfo, delegatorState, a)
      PROVE  Precise(OnlyAt(a, 0), OnlyAt(a, m))
    <2>1. Promise(candidateInfo', delegatorState', a) + m
            = Promise(candidateInfo, delegatorState, a) + 0
        BY <1>1, <1>2, <1>7
    <2> QED
        BY <1>3, <1>4, <1>5, <2>1, OneMoves
<1> QED
    BY <1>6, <1>7 DEF MovedExactly

(* Calls of candidates.                                                    *)

LEMMA CandidateFields ==
    ASSUME LedgerInv, NEW c \in DOMAIN candidateInfo
    PROVE  /\ c \in Accounts /\ c \notin DOMAIN delegatorState
           /\ candidateInfo[c] \in CandidateMetadata
           /\ candidateInfo[c].bond \in Nat
           /\ Promise(candidateInfo, delegatorState, c) = candidateInfo[c].bond
           /\ \A request \in candidateInfo[c].request :
                request.amount \in Nat /\ request.amount <= candidateInfo[c].bond
<1>1. CandidatesOK /\ BooksOK /\ BondsCovered /\ RolesDisjoint
    BY DEF LedgerInv, StakingInv, CandidatesOK
<1>2. /\ candidateInfo[c] \in CandidateMetadata /\ candidateInfo[c].bond \in Nat
      /\ candidateInfo[c].request \subseteq CandidateBondLessRequest
      /\ Covered(candidateInfo[c])
    BY <1>1, CandidateParts
<1>3. \A request \in candidateInfo[c].request :
        request.amount \in Nat /\ request.amount <= candidateInfo[c].bond
    BY <1>2, ConstantsType DEF Covered, CandidateBondLessRequest
<1>4. c \in Accounts /\ c \notin DOMAIN delegatorState
    BY <1>1 DEF BooksOK, RolesDisjoint
<1> QED
    BY <1>2, <1>3, <1>4 DEF Promise

\* The promises once the metadata of c is written.
LEMMA PromisesOnceInfoSaved ==
    ASSUME LedgerInv, NEW c \in DOMAIN candidateInfo, NEW info,
           candidateInfo' = [candidateInfo EXCEPT ![c] = info],
           UNCHANGED delegatorState
    PROVE  /\ Promise(candidateInfo', delegatorState', c) = info.bond
           /\ PromisesKeptBut({c})
<1>1. candidateInfo = [x \in DOMAIN candidateInfo |-> candidateInfo[x]]
    BY DEF LedgerInv, StakingInv, BooksOK
<1>2. /\ DOMAIN candidateInfo' = DOMAIN candidateInfo
      /\ candidateInfo'[c] = info
      /\ \A x \in DOMAIN candidateInfo \ {c} : candidateInfo'[x] = candidateInfo[x]
    BY <1>1
<1> QED
    BY <1>2 DEF Promise, PromisesKeptBut

LEMMA SameBondMoves ==
    ASSUME LedgerInv, NEW c \in DOMAIN candidateInfo, NEW info,
           info.bond = candidateInfo[c].bond,
           SaveInfo(c, info), UNCHANGED <<delegatorState, total, reserved>>
    PROVE  MovedExactly
<1>1. /\ Promise(candidateInfo', delegatorState', c) = info.bond
      /\ PromisesKeptBut({c})
    BY PromisesOnceInfoSaved DEF SaveInfo
<1>2. PromisesKeptBut({})
    BY <1>1, CandidateFields DEF PromisesKeptBut
<1> QED
    BY <1>2, QuietMoves

LEMMA QuietCandidateMoves ==
    ASSUME LedgerInv, NEW c, NEW less,
           \/ ScheduleLeaveCandidates(c)
           \/ CancelLeaveCandidates(c)
           \/ GoOffline(c)
           \/ GoOnline(c)
           \/ ScheduleCandidateBondLess(c, less)
           \/ CancelCandidateBondLess(c)
    PROVE  MovedExactly
<1>1. c \in DOMAIN candidateInfo
    BY DEF ScheduleLeaveCandidates, CancelLeaveCandidates, GoOffline, GoOnline,
           ScheduleCandidateBondLess, CancelCandidateBondLess, IsCandidate
<1>2. candidateInfo[c] \in CandidateMetadata
    BY <1>1, CandidateFields
<1>3. \A status : [candidateInfo[c] EXCEPT !.status = status].bond
                    = candidateInfo[c].bond
    BY <1>2 DEF CandidateMetadata
<1>4. \A request : [candidateInfo[c] EXCEPT !.request = request].bond
                     = candidateInfo[c].bond
    BY <1>2 DEF CandidateMetadata
<1>5. UNCHANGED <<delegatorState, total, reserved>>
    BY DEF ScheduleLeaveCandidates, CancelLeaveCandidates, GoOffline, GoOnline,
           ScheduleCandidateBondLess, CancelCandidateBondLess
<1>6. \E info : info.bond = candidateInfo[c].bond /\ SaveInfo(c, info)
    <2>1. CASE \E status : SaveInfo(c, [candidateInfo[c] EXCEPT !.status = status])
        BY <1>3, <2>1
    <2>2. CASE \E request : SaveInfo(c, [candidateInfo[c] EXCEPT !.request = request])
        BY <1>4, <2>2
    <2>3. \/ \E status : SaveInfo(c, [candidateInfo[c] EXCEPT !.status = status])
          \/ \E request : SaveInfo(c, [candidateInfo[c] EXCEPT !.request = request])
        BY Zenon DEF ScheduleLeaveCandidates, CancelLeaveCandidates, GoOffline,
               GoOnline, ScheduleCandidateBondLess, CancelCandidateBondLess
    <2> QED
        BY <2>1, <2>2, <2>3
<1> QED
    BY <1>1, <1>5, <1>6, SameBondMoves

LEMMA JoinMoves ==
    ASSUME LedgerInv, NEW acc \in Accounts, NEW bond \in Nat, JoinCandidates(acc, bond)
    PROVE  MovedExactly
<1>1. /\ acc \notin DOMAIN candidateInfo /\ acc \notin DOMAIN delegatorState
      /\ Reserve(acc, bond) /\ total' = total + bond /\ UNCHANGED delegatorState
      /\ candidateInfo' = Put(candidateInfo, acc, NewCandidate(bond))
    BY DEF JoinCandidates, IsCandidate, IsDelegator
<1>2. /\ DOMAIN candidateInfo' = DOMAIN candidateInfo \union {acc}
      /\ candidateInfo'[acc].bond = bond
      /\ \A x \in DOMAIN candidateInfo : candidateInfo'[x] = candidateInfo[x]
    BY <1>1 DEF Put, NewCandidate
<1>3. /\ Promise(candidateInfo', delegatorState', acc) = bond
      /\ Promise(candidateInfo, delegatorState, acc) = 0
      /\ PromisesKeptBut({acc})
    BY <1>1, <1>2 DEF Promise, PromisesKeptBut
<1> QED
    BY <1>1, <1>3, Gains

LEMMA CandidateBondMoreMoves ==
    ASSUME LedgerInv, NEW c, NEW more \in Nat, CandidateBondMore(c, more)
    PROVE  MovedExactly
<1>1. /\ c \in DOMAIN candidateInfo
      /\ Reserve(c, more) /\ total' = total + more /\ UNCHANGED delegatorState
    BY DEF CandidateBondMore, IsCandidate
<1>2. PICK info : /\ info = [ candidateInfo[c] EXCEPT !.bond = @ + more,
                                                      !.total_counted = @ + more ]
                  /\ SaveInfo(c, info)
    BY DEF CandidateBondMore
<1>3. info.bond = candidateInfo[c].bond + more
    BY <1>1, <1>2, CandidateFields DEF CandidateMetadata
<1>4. /\ Promise(candidateInfo', delegatorState', c) = info.bond
      /\ PromisesKeptBut({c})
    BY <1>1, <1>2, PromisesOnceInfoSaved DEF SaveInfo
<1> QED
    BY <1>1, <1>3, <1>4, CandidateFields, Gains

LEMMA CandidateBondLessMoves ==
    ASSUME LedgerInv, NEW c, ExecuteCandidateBondLess(c)
    PROVE  MovedExactly
<1>1. c \in DOMAIN candidateInfo /\ UNCHANGED delegatorState
    BY DEF ExecuteCandidateBondLess, IsCandidate
<1>2. PICK request \in candidateInfo[c].request : \E info :
        /\ Unreserve(c, request.amount)
        /\ total' = SaturatingSub(total, request.amount)
        /\ info = [ candidateInfo[c] EXCEPT
                      !.bond = SaturatingSub(@, request.amount),
                      !.total_counted = SaturatingSub(@, request.amount),
                      !.request = {} ]
        /\ SaveInfo(c, info)
    BY DEF ExecuteCandidateBondLess
<1>3. PICK info :
        /\ info = [ candidateInfo[c] EXCEPT
                      !.bond = SaturatingSub(@, request.amount),
                      !.total_counted = SaturatingSub(@, request.amount),
                      !.request = {} ]
        /\ SaveInfo(c, info)
    BY <1>2
<1>4. PICK bond, less \in Nat :
        bond = candidateInfo[c].bond /\ less = request.amount /\ less <= bond
    BY <1>1, CandidateFields
<1>5. info.bond = SaturatingSub(bond, less)
    BY <1>1, <1>3, <1>4, CandidateFields DEF CandidateMetadata
<1>6. SaturatingSub(bond, less) = bond - less
    BY <1>4, SubBehaves
<1>7. /\ Promise(candidateInfo', delegatorState', c) = info.bond
      /\ PromisesKeptBut({c})
    BY <1>1, <1>3, PromisesOnceInfoSaved DEF SaveInfo
<1>8. /\ Promise(candidateInfo', delegatorState', c) + less
           = Promise(candidateInfo, delegatorState, c)
      /\ Promise(candidateInfo', delegatorState', c) + less
           <= Promise(candidateInfo, delegatorState, c)
    BY <1>1, <1>4, <1>5, <1>6, <1>7, CandidateFields
<1>9. Unreserve(c, less) /\ total' = SaturatingSub(total, less) /\ c \in Accounts
    BY <1>1, <1>2, <1>4, CandidateFields
<1> QED
    BY <1>4, <1>7, <1>8, <1>9, Loses

\* A list owes every owner its amount.
LEMMA OwnersSum ==
    ASSUME NEW list, ListInOrder(list), NEW f, \A x \in Entries(list) : f[x.owner] = x.amount
    PROVE  /\ IsFiniteSet(Owners(list))
           /\ \A d \in Owners(list) : f[d] \in Nat
           /\ SumFunctionOnSet(f, Owners(list)) = AmountSum(list.delegations)
<1> DEFINE s == list.delegations
           g == [i \in DOMAIN s |-> s[i].amount]
           h == [i \in DOMAIN s |-> s[i].owner]
<1>1. /\ DOMAIN s = 1 .. Len(s) /\ Len(s) \in Nat
      /\ \A i \in DOMAIN s : s[i] \in Entries(list)
      /\ \A i, j \in DOMAIN s : s[i].owner = s[j].owner => i = j
    BY ListPositions, LenProperties
<1>2. IsFiniteSet(DOMAIN s)
    BY <1>1, PositionsCounted
<1>3. /\ \A x \in Entries(list) : x.amount \in Nat
      /\ Owners(list) = { h[i] : i \in DOMAIN s }
    BY TotalsTypes DEF Owners
<1>4. \A d \in Owners(list) : \E i \in DOMAIN s : d = s[i].owner
    BY DEF Owners
<1>5. ASSUME NEW d \in Owners(list) PROVE f[d] \in Nat
    <2>1. PICK i \in DOMAIN s : d = s[i].owner
        BY <1>4
    <2>2. s[i] \in Entries(list)
        BY <1>1
    <2> QED
        BY <1>3, <2>1, <2>2
<1>6. IsFiniteSet(Owners(list))
    BY StakingAssumption, FS_Subset, TotalsTypes
<1>7. /\ \A i \in DOMAIN s : g[i] \in Nat /\ h[i] \in Owners(list) /\ f[h[i]] = g[i]
      /\ \A i, j \in DOMAIN s : h[i] = h[j] => i = j
    BY <1>1, <1>3
<1>8. h \in [DOMAIN s -> Owners(list)]
    BY <1>3
<1>9. PICK S : S = DOMAIN s
    OBVIOUS
<1>10. AmountSum(s) = SumFunctionOnSet(g, S)
    BY <1>9 DEF AmountSum, SumFunction
<1> HIDE DEF g, h
<1>11. SumFunctionOnSet(g, S) = SumFunctionOnSet(f, { h[i] : i \in S })
    <2> HIDE DEF s
    <2> QED
        BY <1>2, <1>5, <1>6, <1>7, <1>8, <1>9, SumRenamed
<1> QED
    BY <1>3, <1>5, <1>6, <1>9, <1>10, <1>11

\* What execute_leave_candidates returns to whom.
LEMMA ReturnedTo ==
    ASSUME LedgerInv, NEW c \in DOMAIN candidateInfo
    PROVE  /\ StakeReturned(c, c) = candidateInfo[c].bond
           /\ \A d \in DOMAIN delegatorState :
                StakeReturned(c, d) = IF c \in DOMAIN delegatorState[d].delegations
                                      THEN delegatorState[d].delegations[c] ELSE 0
           /\ \A a : a # c /\ a \notin DOMAIN delegatorState => StakeReturned(c, a) = 0
           /\ \A x \in BookEntries(Book(c)) :
                x.owner # c /\ StakeReturned(c, x.owner) = x.amount
<1> DEFINE top == topDelegations[c]
           bottom == bottomDelegations[c]
<1>1. /\ InOrder(Book(c)) /\ BookEntries(Book(c)) = Entries(top) \union Entries(bottom)
      /\ ListInOrder(top) /\ ListInOrder(bottom)
    BY LedgerBook DEF BookEntries
<1>2. ASSUME NEW x \in Entries(top)
      PROVE  /\ x.owner \in Owners(top) /\ AmountOf(top, x.owner) = x.amount
             /\ x.owner \notin Owners(bottom) /\ x.amount \in Nat
    <2>1. \A y \in Entries(bottom) : y.owner # x.owner
        BY <1>1, LedgerBook DEF InOrder
    <2> QED
        BY <1>1, <1>2, <2>1, AmountOfEntry, TotalsTypes
<1>3. ASSUME NEW x \in Entries(bottom)
      PROVE  /\ x.owner \in Owners(bottom) /\ AmountOf(bottom, x.owner) = x.amount
             /\ x.owner \notin Owners(top) /\ x.amount \in Nat
    <2>1. \A y \in Entries(top) : y.owner # x.owner
        BY <1>1, LedgerBook DEF InOrder
    <2> QED
        BY <1>1, <1>3, <2>1, AmountOfEntry, TotalsTypes
<1>4. c \notin DOMAIN delegatorState
    BY CandidateFields
<1>5. ASSUME NEW x \in BookEntries(Book(c))
      PROVE  x.owner # c /\ StakeReturned(c, x.owner) = x.amount
    <2>1. x.owner # c
        BY <1>4, EntryIsHeld
    <2>2. CASE x \in Entries(top)
        BY <1>2, <2>1, <2>2 DEF StakeReturned
    <2>3. CASE x \in Entries(bottom)
        BY <1>3, <2>1, <2>3 DEF StakeReturned
    <2> QED
        BY <1>1, <2>1, <2>2, <2>3
<1>6. ASSUME NEW a, a # c, a \notin Owners(top) \union Owners(bottom)
      PROVE  StakeReturned(c, a) = 0
    BY <1>6 DEF StakeReturned
<1>7. ASSUME NEW d \in DOMAIN delegatorState
      PROVE  StakeReturned(c, d) = IF c \in DOMAIN delegatorState[d].delegations
                                   THEN delegatorState[d].delegations[c] ELSE 0
    <2>1. CASE c \in DOMAIN delegatorState[d].delegations
        <3>1. /\ EntryIn(d, c) \in BookEntries(Book(c)) /\ EntryIn(d, c).owner = d
              /\ EntryIn(d, c).amount = delegatorState[d].delegations[c]
            BY <2>1, EntryInBook
        <3> QED
            BY <1>5, <2>1, <3>1
    <2>2. CASE c \notin DOMAIN delegatorState[d].delegations
        <3>1. d \notin Owners(top) \union Owners(bottom)
            BY <2>2, OwnersHold
        <3> QED
            BY <1>4, <1>6, <2>2, <3>1
    <2> QED
        BY <2>1, <2>2
<1>8. \A a : a # c /\ a \notin DOMAIN delegatorState => StakeReturned(c, a) = 0
    BY <1>6, OwnersHold
<1> QED
    BY <1>5, <1>7, <1>8 DEF StakeReturned

\* What is returned adds up to the bond and the delegations of the two lists,
\* and that is what BackingOf takes off Total, as far as the recorded total of
\* the bottom list is true.
LEMMA ReturnedSum ==
    ASSUME LedgerInv, NEW c \in DOMAIN candidateInfo,
           NEW loss, loss = [a \in Accounts |-> StakeReturned(c, a)]
    PROVE  /\ loss \in [Accounts -> Nat]
           /\ BackingOf(c) \in Nat
           /\ BackingOf(c) >= SumFunctionOnSet(loss, Accounts)
           /\ Exact(bottomDelegations[c]) =>
                BackingOf(c) = SumFunctionOnSet(loss, Accounts)
<1> DEFINE top == topDelegations[c]
           bottom == bottomDelegations[c]
           OT == Owners(top)
           OB == Owners(bottom)
           rest == Accounts \ ({c} \union OT \union OB)
<1>1. /\ ListInOrder(top) /\ ListInOrder(bottom) /\ InOrder(Book(c))
      /\ Exact(top) /\ Covers(bottom)
      /\ BookEntries(Book(c)) = Entries(top) \union Entries(bottom)
    BY LedgerBook DEF BookEntries, InOrder
<1>2. c \in Accounts /\ c \notin DOMAIN delegatorState /\ candidateInfo[c].bond \in Nat
    BY CandidateFields
<1>3. loss \in [Accounts -> Nat]
    <2>1. ASSUME NEW a \in Accounts PROVE StakeReturned(c, a) \in Nat
        <3>1. CASE a = c
            BY <1>2, <3>1, ReturnedTo
        <3>2. CASE a \in DOMAIN delegatorState
            BY <3>2, ReturnedTo, RecordOK, DelegatorParts
        <3>3. CASE a # c /\ a \notin DOMAIN delegatorState
            BY <3>3, ReturnedTo
        <3> QED
            BY <3>1, <3>2, <3>3
    <2> QED
        BY <2>1
<1>4. /\ OT \subseteq Accounts /\ OB \subseteq Accounts /\ OT \intersect OB = {}
      /\ c \notin OT \union OB
    <2>1. OT \subseteq Accounts /\ OB \subseteq Accounts
        BY <1>1, TotalsTypes
    <2>2. c \notin OT \union OB
        BY <1>2, OwnersHold
    <2>3. ASSUME NEW d \in OT, d \in OB PROVE FALSE
        <3>1. PICK x \in Entries(top) : x.owner = d
            BY <1>1, <2>3, TotalsTypes
        <3>2. PICK y \in Entries(bottom) : y.owner = d
            BY <1>1, <2>3, TotalsTypes
        <3> QED
            BY <1>1, <3>1, <3>2, LedgerBook DEF InOrder
    <2> QED
        BY <2>1, <2>2, <2>3
<1>5. \A x \in BookEntries(Book(c)) : loss[x.owner] = x.amount
    <2>1. \A x \in BookEntries(Book(c)) : x.owner \in Accounts
        BY <1>1, TotalsTypes
    <2> QED
        BY <2>1, ReturnedTo
<1>6. /\ IsFiniteSet(OT) /\ SumFunctionOnSet(loss, OT) = AmountSum(top.delegations)
      /\ IsFiniteSet(OB) /\ SumFunctionOnSet(loss, OB) = AmountSum(bottom.delegations)
    BY <1>1, <1>5, OwnersSum
<1>7. \A a \in rest : loss[a] = 0
    <2>1. ASSUME NEW a \in rest PROVE StakeReturned(c, a) = 0
        BY <2>1 DEF StakeReturned
    <2> QED
        BY <2>1
<1>8. loss[c] = candidateInfo[c].bond
    BY <1>2, ReturnedTo
<1>9. /\ IsFiniteSet(rest) /\ IsFiniteSet(OT \union OB)
      /\ IsFiniteSet((OT \union OB) \union rest)
      /\ Accounts \ {c} = (OT \union OB) \union rest
      /\ (OT \union OB) \intersect rest = {}
      /\ (OT \union OB) \union rest \subseteq Accounts
    <2>1. IsFiniteSet(Accounts)
        BY StakingAssumption
    <2>2. /\ (OT \union OB) \union rest \subseteq Accounts
          /\ rest \subseteq Accounts /\ OT \union OB \subseteq Accounts
        BY <1>4
    <2>3. /\ Accounts \ {c} = (OT \union OB) \union rest
          /\ (OT \union OB) \intersect rest = {}
        BY <1>4
    <2> HIDE DEF rest, OT, OB
    <2> QED
        BY <2>1, <2>2, <2>3, FS_Subset
<1> HIDE DEF rest, OT, OB
<1>10. SumFunctionOnSet(loss, rest) = 0
    BY <1>7, <1>9, SumOfZeros
<1>11. SumFunctionOnSet(loss, OT \union OB)
         = SumFunctionOnSet(loss, OT) + SumFunctionOnSet(loss, OB)
    <2>1. \A a \in OT \union OB : loss[a] \in Nat
        BY <1>3, <1>4
    <2> QED
        BY <1>4, <1>6, <2>1, SumUnion
<1>12. SumFunctionOnSet(loss, (OT \union OB) \union rest)
         = SumFunctionOnSet(loss, OT \union OB) + SumFunctionOnSet(loss, rest)
    <2>1. \A a \in (OT \union OB) \union rest : loss[a] \in Nat
        BY <1>3, <1>9
    <2> QED
        BY <1>9, <2>1, SumUnion
<1>13. SumFunctionOnSet(loss, Accounts)
         = loss[c] + SumFunctionOnSet(loss, Accounts \ {c})
    BY <1>2, <1>3, StakingAssumption, SumRemove
<1>14. PICK b, t, u, n, m \in Nat :
         /\ b = candidateInfo[c].bond
         /\ t = top.total /\ t = AmountSum(top.delegations)
         /\ u = AmountSum(bottom.delegations)
         /\ n = bottom.total /\ n >= u
         /\ m = BackingOf(c) /\ m = b + t + n
    BY <1>1, <1>2, TotalsTypes DEF Exact, Covers, BackingOf
<1>15. SumFunctionOnSet(loss, Accounts) = b + (t + u + 0)
    BY <1>6, <1>8, <1>9, <1>10, <1>11, <1>12, <1>13, <1>14
<1>16. m >= b + (t + u + 0)
    BY <1>14
<1>17. Exact(bottom) => m = b + (t + u + 0)
    BY <1>14 DEF Exact
<1> QED
    BY <1>3, <1>14, <1>15, <1>16, <1>17

\* A record with one delegation has its amount as total.
LEMMA OnlyHeld ==
    ASSUME NEW del, DelegatorOK(del), RecordAgrees(del), NEW c,
           DOMAIN del.delegations = {c}
    PROVE  del.total = del.delegations[c]
<1>1. c \in DOMAIN del.delegations
    OBVIOUS
<1>2. WithoutDelegation(del, c).total = 0
    BY <1>1, NothingElse
<1>3. WithoutDelegation(del, c).total = SaturatingSub(del.total, del.delegations[c])
    BY <1>1 DEF WithoutDelegation, DelegatorOK
<1>4. /\ del.total \in Nat /\ del.delegations[c] \in Nat
      /\ del.delegations[c] <= del.total
    <2>1. PICK new : new = WithoutRequest(WithoutDelegation(del, c), c)
        OBVIOUS
    <2> QED
        BY <1>1, <2>1, RemovedParts, DelegatorParts
<1>5. PICK n, t \in Nat : n = del.delegations[c] /\ t = del.total /\ n <= t
    BY <1>4
<1>6. SaturatingSub(t, n) = t - n
    BY <1>5, SubBehaves
<1> QED
    BY <1>2, <1>3, <1>5, <1>6

\* execute_leave_candidates: stake moves exactly when the recorded total of the
\* bottom list is the sum of its delegations.
LEMMA ExitMoves ==
    ASSUME LedgerInv, NEW c, ExecuteLeaveCandidates(c)
    PROVE  \E gain, loss :
             /\ Moves(gain, loss)
             /\ Exact(bottomDelegations[c]) => Precise(gain, loss)
<1>1. ExitWrites(c) /\ c \in DOMAIN candidateInfo
    BY ExitWritesRecords
<1>2. /\ reserved' = [ a \in Accounts |->
                         SaturatingSub(reserved[a], StakeReturned(c, a)) ]
      /\ total' = SaturatingSub(total, BackingOf(c))
      /\ candidateInfo' = Drop(candidateInfo, c)
    BY DEF ExecuteLeaveCandidates, RemoveCandidate
<1>3. PICK gain, loss :
        gain = [a \in Accounts |-> 0] /\ loss = [a \in Accounts |-> StakeReturned(c, a)]
    OBVIOUS
<1>4. /\ loss \in [Accounts -> Nat] /\ BackingOf(c) \in Nat
      /\ BackingOf(c) >= SumFunctionOnSet(loss, Accounts)
      /\ Exact(bottomDelegations[c]) =>
           BackingOf(c) = SumFunctionOnSet(loss, Accounts)
    BY <1>1, <1>3, ReturnedSum
<1>5. gain \in [Accounts -> Nat] /\ SumFunctionOnSet(gain, Accounts) = 0
    BY <1>3, StakingAssumption, SumOfZeros
<1>6. \A a \in Accounts : gain[a] = 0 /\ loss[a] = StakeReturned(c, a)
    BY <1>3
<1>7. ASSUME NEW a \in Accounts
      PROVE  Promise(candidateInfo', delegatorState', a) + loss[a]
               = Promise(candidateInfo, delegatorState, a)
    <2>1. /\ DOMAIN candidateInfo' = DOMAIN candidateInfo \ {c}
          /\ \A x \in DOMAIN candidateInfo' : candidateInfo'[x] = candidateInfo[x]
        BY <1>2 DEF Drop
    <2>2. CASE a = c
        <3>1. c \notin DOMAIN candidateInfo' /\ c \notin DOMAIN delegatorState'
            BY <1>1, <2>1, CandidateFields DEF ExitWrites
        <3>2. Promise(candidateInfo', delegatorState', c) = 0
            BY <3>1 DEF Promise
        <3> QED
            BY <1>1, <1>6, <2>2, <3>2, CandidateFields, ReturnedTo
    <2>3. CASE a # c /\ a \in DOMAIN candidateInfo
        <3>1. a \notin DOMAIN delegatorState /\ candidateInfo[a].bond \in Nat
            BY <2>3, CandidateFields
        <3>2. loss[a] = 0
            BY <1>1, <1>6, <2>3, <3>1, ReturnedTo
        <3> QED
            BY <2>1, <2>3, <3>1, <3>2 DEF Promise
    <2>4. CASE a \notin DOMAIN candidateInfo /\ a \notin DOMAIN delegatorState
        <3>1. a # c /\ loss[a] = 0
            BY <1>1, <1>6, <2>4, ReturnedTo
        <3>2. a \notin DOMAIN candidateInfo' /\ a \notin DOMAIN delegatorState'
            BY <1>1, <2>1, <2>4 DEF ExitWrites
        <3> QED
            BY <2>4, <3>1, <3>2 DEF Promise
    <2>5. CASE a \notin DOMAIN candidateInfo /\ a \in DOMAIN delegatorState
        <3>1. PICK del : del = delegatorState[a]
            OBVIOUS
        <3>2. /\ DelegatorOK(del) /\ RecordAgrees(del) /\ del.total \in Nat
            BY <2>5, <3>1, RecordOK, DelegatorParts
        <3>3. loss[a] = IF c \in DOMAIN del.delegations THEN del.delegations[c] ELSE 0
            BY <1>1, <1>6, <2>5, <3>1, ReturnedTo
        <3>4. Promise(candidateInfo, delegatorState, a) = del.total
            BY <2>5, <3>1 DEF Promise
        <3>5. a \notin DOMAIN candidateInfo'
            BY <2>1, <2>5
        <3>6. CASE c \notin DOMAIN del.delegations
            <4>1. a \in DOMAIN delegatorState' /\ delegatorState'[a] = del
                BY <1>1, <2>5, <3>1, <3>6 DEF ExitWrites
            <4> QED
                BY <3>2, <3>3, <3>4, <3>5, <3>6, <4>1 DEF Promise
        <3>7. CASE c \in DOMAIN del.delegations
            <4>1. PICK new : new = WithoutRequest(WithoutDelegation(del, c), c)
                OBVIOUS
            <4>2. PICK held \in Nat : held = del.delegations[c]
                BY <3>2, <3>7, DelegatorParts
            <4>3. new.total = del.total - held /\ held <= del.total
                BY <3>2, <3>7, <4>1, <4>2, RemovedParts
            <4>4. CASE DOMAIN del.delegations = {c}
                <5>3. held = del.total
                    BY <3>2, <4>2, <4>4, OnlyHeld
                <5>4. a \notin DOMAIN delegatorState'
                    BY <1>1, <2>5, <3>1, <4>4 DEF ExitWrites
                <5>5. Promise(candidateInfo', delegatorState', a) = 0
                    BY <3>5, <5>4 DEF Promise
                <5> QED
                    BY <3>3, <3>4, <3>7, <4>2, <5>3, <5>5
            <4>5. CASE DOMAIN del.delegations # {c}
                <5>1. a \in DOMAIN delegatorState' /\ delegatorState'[a] = new
                    BY <1>1, <2>5, <3>1, <3>7, <4>1, <4>5
                    DEF ExitWrites, AfterCandidateLeft
                <5>2. Promise(candidateInfo', delegatorState', a) = new.total
                    BY <3>5, <5>1 DEF Promise
                <5> QED
                    BY <3>2, <3>3, <3>4, <3>7, <4>2, <4>3, <5>2
            <4> QED
                BY <4>4, <4>5
        <3> QED
            BY <3>6, <3>7
    <2> QED
        BY <2>2, <2>3, <2>4, <2>5
<1>8. ASSUME NEW a \in Accounts
      PROVE  /\ reserved'[a] = SaturatingSub(reserved[a] + gain[a], loss[a])
             /\ Promise(candidateInfo', delegatorState', a) + loss[a]
                  = Promise(candidateInfo, delegatorState, a) + gain[a]
             /\ Promise(candidateInfo', delegatorState', a) + loss[a]
                  <= Promise(candidateInfo, delegatorState, a) + gain[a]
    <2>1. PICK r, p \in Nat :
            r = reserved[a] /\ p = Promise(candidateInfo, delegatorState, a)
        BY PromiseType DEF LedgerInv, StakingInv, NumbersOK
    <2>2. r + 0 = r /\ p + 0 = p
        BY <2>1
    <2>3. reserved'[a] = SaturatingSub(r, loss[a])
        BY <1>2, <1>6, <2>1
    <2> QED
        BY <1>6, <1>7, <2>1, <2>2, <2>3
<1>9. PICK t \in Nat : t = total /\ t + 0 = t
    BY DEF LedgerInv, StakingInv, NumbersOK
<1>10. total' = SaturatingSub(total + SumFunctionOnSet(gain, Accounts), BackingOf(c))
    BY <1>2, <1>5, <1>9
<1>11. Moves(gain, loss)
    BY <1>4, <1>5, <1>8, <1>10 DEF Moves
<1>12. ASSUME Exact(bottomDelegations[c]) PROVE Precise(gain, loss)
    BY <1>4, <1>8, <1>10, <1>12 DEF Precise
<1> QED
    BY <1>11, <1>12

-----------------------------------------------------------------------------
(* Calls of delegators.                                                    *)

\* The promises after a call that writes no bond and no record but those of
\* `some`.
LEMMA PromisesOfOthers ==
    ASSUME LedgerInv, DOMAIN candidateInfo' = DOMAIN candidateInfo, BondsKept,
           NEW some,
           \A x \in Accounts \ some :
             /\ x \in DOMAIN delegatorState' <=> x \in DOMAIN delegatorState
             /\ x \in DOMAIN delegatorState =>
                  delegatorState'[x].total = delegatorState[x].total
    PROVE  PromisesKeptBut(some)
BY DEF PromisesKeptBut, Promise, BondsKept

LEMMA RequestCallMoves ==
    ASSUME LedgerInv, NEW d, NEW c, NEW less,
           \/ ScheduleLeaveDelegators(d)
           \/ CancelLeaveDelegators(d)
           \/ ScheduleRevokeDelegation(d, c)
           \/ ScheduleDelegatorBondLess(d, c, less) /\ less \in Nat
           \/ CancelDelegationRequest(d, c)
    PROVE  MovedExactly
<1>1. /\ d \in DOMAIN delegatorState /\ UNCHANGED <<books, total, reserved>>
      /\ \E new : /\ SaveDelegator(d, new)
                  /\ new.total = delegatorState[d].total
    BY RequestCallsSave
<1>2. PICK new : SaveDelegator(d, new) /\ new.total = delegatorState[d].total
    BY <1>1
<1>3. /\ DOMAIN delegatorState' = DOMAIN delegatorState
      /\ delegatorState'[d] = new
      /\ \A e \in DOMAIN delegatorState \ {d} : delegatorState'[e] = delegatorState[e]
    BY <1>1, <1>2, HoldsOnceSaved
<1>4. UNCHANGED candidateInfo
    BY <1>1 DEF books
<1>5. PromisesKeptBut({})
    BY <1>2, <1>3, <1>4 DEF PromisesKeptBut, Promise
<1> QED
    BY <1>1, <1>5, QuietMoves

\* A delegator's own promise, before and after a call that keeps it one.
LEMMA DelegatorPromise ==
    ASSUME LedgerInv, NEW d \in DOMAIN delegatorState,
           DOMAIN candidateInfo' = DOMAIN candidateInfo
    PROVE  /\ d \in Accounts
           /\ Promise(candidateInfo, delegatorState, d) = delegatorState[d].total
           /\ d \in DOMAIN delegatorState' =>
                Promise(candidateInfo', delegatorState', d) = delegatorState'[d].total
           /\ d \notin DOMAIN delegatorState' =>
                Promise(candidateInfo', delegatorState', d) = 0
<1>1. d \in Accounts /\ d \notin DOMAIN candidateInfo
    BY DEF LedgerInv, StakingInv, DelegatorsOK, RolesDisjoint
<1> QED
    BY <1>1 DEF Promise

LEMMA DelegatorBondMoreMoves ==
    ASSUME LedgerInv, NEW d, NEW c, NEW more \in Nat, DelegatorBondMore(d, c, more)
    PROVE  MovedExactly
<1>1. /\ d \in DOMAIN delegatorState
      /\ c \in DOMAIN delegatorState[d].delegations
      /\ Reserve(d, more) /\ total' = total + more
      /\ SaveDelegator(d, [ delegatorState[d] EXCEPT
                              !.delegations[c] = @ + more, !.total = @ + more ])
    BY DelegatorBondMoreDoes
<1>2. PICK new : new = [ delegatorState[d] EXCEPT
                           !.delegations[c] = @ + more, !.total = @ + more ]
    OBVIOUS
<1>3. new.total = delegatorState[d].total + more
    BY <1>1, <1>2, RecordOK DEF DelegatorOK
<1>4. /\ DOMAIN delegatorState' = DOMAIN delegatorState
      /\ delegatorState'[d] = new
      /\ \A e \in DOMAIN delegatorState \ {d} : delegatorState'[e] = delegatorState[e]
    BY <1>1, <1>2, HoldsOnceSaved
<1>5. DOMAIN candidateInfo' = DOMAIN candidateInfo /\ BondsKept
    BY DelegatorBondMoreKeepsCandidates DEF LedgerInv
<1>6. PromisesKeptBut({d})
    BY <1>4, <1>5, PromisesOfOthers
<1>7. /\ d \in Accounts
      /\ Promise(candidateInfo', delegatorState', d)
           = Promise(candidateInfo, delegatorState, d) + more
    BY <1>1, <1>3, <1>4, <1>5, DelegatorPromise
<1> QED
    BY <1>1, <1>6, <1>7, Gains

LEMMA BondLessMoves ==
    ASSUME LedgerInv, NEW d, NEW c, ExecuteDelegationBondLess(d, c)
    PROVE  MovedExactly
<1>1. d \in DOMAIN delegatorState /\ c \in DOMAIN delegatorState[d].delegations
    BY BondLessDoes
<1>2. PICK less, new :
        /\ less \in Nat
        /\ less < delegatorState[d].delegations[c]
        /\ Unreserve(d, less) /\ total' = SaturatingSub(total, less)
        /\ SaveDelegator(d, new)
        /\ DecreasedBy(new, delegatorState[d], c, less)
    BY BondLessDoes
<1>3. PICK del : del = delegatorState[d]
    OBVIOUS
<1>4. /\ DelegatorOK(del) /\ RecordAgrees(del) /\ c \in DOMAIN del.delegations
      /\ del.delegations[c] \in Nat /\ del.total \in Nat
    BY <1>1, <1>3, RecordOK, DelegatorParts
<1>5. new.total = del.total - less /\ less <= del.total
    <2>1. del.delegations[c] > less
        BY <1>2, <1>3, <1>4
    <2> QED
        BY <1>2, <1>3, <1>4, <2>1, BondLessAgrees
<1>6. /\ DOMAIN delegatorState' = DOMAIN delegatorState
      /\ delegatorState'[d] = new
      /\ \A e \in DOMAIN delegatorState \ {d} : delegatorState'[e] = delegatorState[e]
    BY <1>1, <1>2, HoldsOnceSaved
<1>7. DOMAIN candidateInfo' = DOMAIN candidateInfo /\ BondsKept
    BY DelegatorBondLessKeepsCandidates DEF LedgerInv
<1>8. PromisesKeptBut({d})
    BY <1>6, <1>7, PromisesOfOthers
<1>9. /\ d \in Accounts
      /\ Promise(candidateInfo', delegatorState', d) + less
           = Promise(candidateInfo, delegatorState, d)
      /\ Promise(candidateInfo', delegatorState', d) + less
           <= Promise(candidateInfo, delegatorState, d)
    BY <1>1, <1>2, <1>3, <1>4, <1>5, <1>6, <1>7, DelegatorPromise
<1> QED
    BY <1>2, <1>8, <1>9, Loses

LEMMA RevokeMoves ==
    ASSUME LedgerInv, NEW d, NEW c, ExecuteRevokeDelegation(d, c)
    PROVE  /\ \E gain, loss : Moves(gain, loss)
           /\ delegatorState[d].requests[c].amount = delegatorState[d].delegations[c]
              => MovedExactly
<1>1. /\ d \in DOMAIN delegatorState /\ c \in DOMAIN delegatorState[d].delegations
      /\ delegatorState[d].requests[c].amount \in Nat
      /\ delegatorState[d].requests[c].amount <= delegatorState[d].delegations[c]
      /\ \/ /\ DOMAIN delegatorState[d].delegations = {c}
            /\ delegatorState' = Drop(delegatorState, d)
         \/ /\ DOMAIN delegatorState[d].delegations \ {c} # {}
            /\ SaveDelegator(d, WithoutDelegation(
                                  WithoutRequest(delegatorState[d], c), c))
    BY RevokeDoes
<1>2. PICK del : del = delegatorState[d]
    OBVIOUS
<1>3. /\ DelegatorOK(del) /\ RecordAgrees(del) /\ c \in DOMAIN del.delegations
      /\ del.total \in Nat
    BY <1>1, <1>2, RecordOK, DelegatorParts
<1>4. PICK n, held \in Nat :
        /\ n = delegatorState[d].requests[c].amount
        /\ held = del.delegations[c] /\ n <= held
    BY <1>1, <1>2, <1>3, DelegatorParts
<1>5. Unreserve(d, n) /\ total' = SaturatingSub(total, n)
    BY <1>4, Zenon DEF ExecuteRevokeDelegation
<1>6. DOMAIN candidateInfo' = DOMAIN candidateInfo /\ BondsKept
    BY RevokeKeepsCandidates DEF LedgerInv
<1>7. PICK p, q :
        /\ p = Promise(candidateInfo, delegatorState, d)
        /\ q = Promise(candidateInfo', delegatorState', d)
    OBVIOUS
<1>8. p \in Nat /\ q \in Nat /\ q + held = p /\ PromisesKeptBut({d})
    <2>1. CASE /\ DOMAIN del.delegations = {c}
               /\ delegatorState' = Drop(delegatorState, d)
        <3>1. /\ DOMAIN delegatorState' = DOMAIN delegatorState \ {d}
              /\ \A e \in DOMAIN delegatorState \ {d} :
                   delegatorState'[e] = delegatorState[e]
            BY <2>1 DEF Drop
        <3>2. del.total = held
            BY <1>3, <1>4, <2>1, OnlyHeld
        <3>3. PromisesKeptBut({d})
            BY <1>6, <3>1, PromisesOfOthers
        <3>4. p = del.total /\ q = 0
            BY <1>1, <1>2, <1>6, <1>7, <3>1, DelegatorPromise
        <3> QED
            BY <3>2, <3>3, <3>4
    <2>2. CASE SaveDelegator(d, WithoutDelegation(WithoutRequest(del, c), c))
        <3>1. PICK new : new = WithoutDelegation(WithoutRequest(del, c), c)
            OBVIOUS
        <3>2. new.total = del.total - held /\ held <= del.total
            BY <1>3, <1>4, <3>1, RemovedParts
        <3>3. /\ DOMAIN delegatorState' = DOMAIN delegatorState
              /\ delegatorState'[d] = new
              /\ \A e \in DOMAIN delegatorState \ {d} :
                   delegatorState'[e] = delegatorState[e]
            BY <1>1, <2>2, <3>1, HoldsOnceSaved
        <3>4. PromisesKeptBut({d})
            BY <1>6, <3>3, PromisesOfOthers
        <3>5. p = del.total /\ q = new.total
            BY <1>1, <1>2, <1>6, <1>7, <3>3, DelegatorPromise
        <3> QED
            BY <1>3, <3>2, <3>4, <3>5
    <2> QED
        BY <1>1, <1>2, <2>1, <2>2
<1>9. q + n <= p /\ (n = held => q + n = p)
    BY <1>4, <1>8
<1>10. d \in Accounts
    BY <1>1, RecordOK
<1>11. /\ Promise(candidateInfo', delegatorState', d) + n
            <= Promise(candidateInfo, delegatorState, d)
       /\ n = held => Promise(candidateInfo', delegatorState', d) + n
                        = Promise(candidateInfo, delegatorState, d)
    BY <1>7, <1>9
<1>12. /\ \E gain, loss : Moves(gain, loss)
       /\ Promise(candidateInfo', delegatorState', d) + n
            = Promise(candidateInfo, delegatorState, d) => MovedExactly
    BY <1>4, <1>5, <1>8, <1>10, <1>11, Loses
<1> QED
    BY <1>2, <1>4, <1>11, <1>12

LEMMA DelegatorExitMoves ==
    ASSUME LedgerInv, NEW d, ExecuteLeaveDelegators(d)
    PROVE  MovedExactly
<1>1. d \in DOMAIN delegatorState
    BY DEF ExecuteLeaveDelegators, IsDelegator
<1>2. PICK del : del = delegatorState[d]
    OBVIOUS
<1>3. /\ DelegatorOK(del) /\ RecordAgrees(del) /\ del.total \in Nat
    BY <1>1, <1>2, RecordOK, DelegatorParts
<1>4. /\ Unreserve(d, SumFunctionOnSet(del.delegations, Removable(d)))
      /\ total' = SaturatingSub(total, SumFunctionOnSet(del.delegations, Removable(d)))
      /\ delegatorState' = Drop(delegatorState, d)
    BY <1>2, Zenon DEF ExecuteLeaveDelegators
<1>5. SumFunctionOnSet(del.delegations, Removable(d)) = del.total
    <2>1. Removable(d) = DOMAIN del.delegations
        BY <1>1, <1>2, AllRemovable
    <2>2. del.total = SumFunction(del.delegations)
        BY <1>3, RecordParts DEF DelegationsSum
    <2> QED
        BY <2>1, <2>2 DEF SumFunction
<1>6. DOMAIN candidateInfo' = DOMAIN candidateInfo /\ BondsKept
    BY DelegatorExitKeepsCandidates DEF LedgerInv
<1>7. /\ DOMAIN delegatorState' = DOMAIN delegatorState \ {d}
      /\ \A e \in DOMAIN delegatorState \ {d} : delegatorState'[e] = delegatorState[e]
    BY <1>4 DEF Drop
<1>8. PromisesKeptBut({d})
    BY <1>6, <1>7, PromisesOfOthers
<1>9. PICK t \in Nat : t = del.total
    BY <1>3
<1>10. /\ d \in Accounts
       /\ Promise(candidateInfo', delegatorState', d) + t
            = Promise(candidateInfo, delegatorState, d)
       /\ Promise(candidateInfo', delegatorState', d) + t
            <= Promise(candidateInfo, delegatorState, d)
    BY <1>1, <1>2, <1>6, <1>7, <1>9, DelegatorPromise
<1>11. Unreserve(d, t) /\ total' = SaturatingSub(total, t)
    BY <1>4, <1>5, <1>9
<1> QED
    BY <1>8, <1>9, <1>10, <1>11, Loses

\* The promise of an account that delegates.
LEMMA DelegatingPromise ==
    ASSUME LedgerInv, NEW d \in Accounts, NEW c, NEW amount \in Nat,
           Delegate(d, c, amount)
    PROVE  /\ d \notin DOMAIN candidateInfo
           /\ Promise(candidateInfo', delegatorState', d)
                = Promise(candidateInfo, delegatorState, d) + amount
<1>1. d \notin DOMAIN candidateInfo
    <2>1. CASE IsDelegator(d)
        BY <2>1 DEF LedgerInv, StakingInv, RolesDisjoint, IsDelegator
    <2>2. CASE ~IsDelegator(d)
        BY <2>2 DEF Delegate, MayDelegate, IsCandidate
    <2> QED
        BY <2>1, <2>2
<1>2. DOMAIN candidateInfo' = DOMAIN candidateInfo
    BY DelegateKeepsCandidates DEF LedgerInv
<1>3. PICK kicked : kicked = AddDelegation(Book(c),
                                 [owner |-> d, amount |-> amount]).kicked
    OBVIOUS
<1>4. d \in DOMAIN delegatorState' /\ delegatorState'[d] = WithDelegation(d, c, amount)
    BY <1>3, DelegateWritesRecords DEF DelegateWrites
<1>5. WithDelegation(d, c, amount).total
        = IF IsDelegator(d) THEN delegatorState[d].total + amount ELSE amount
    BY DelegatingRecord
<1> QED
    BY <1>1, <1>2, <1>4, <1>5 DEF Promise, IsDelegator

LEMMA DelegateMoves ==
    ASSUME LedgerInv, NEW d \in Accounts, NEW c, NEW amount \in Nat,
           Delegate(d, c, amount)
    PROVE  MovedExactly
<1> DEFINE outcome == AddDelegation(Book(c), [owner |-> d, amount |-> amount])
<1>1. PICK kicked, less : kicked = outcome.kicked /\ less = outcome.less
    OBVIOUS
<1>2. /\ c \in DOMAIN candidateInfo
      /\ kicked # {} => \E x : kicked = {x} /\ amount > x.amount
      /\ less = { x.amount : x \in kicked }
      /\ \A x \in kicked :
           /\ x.owner \in DOMAIN delegatorState /\ x.owner # d
           /\ c \in DOMAIN delegatorState[x.owner].delegations
           /\ delegatorState[x.owner].delegations[c] = x.amount
    BY <1>1, DelegateFinds DEF KickedFor
<1>3. DelegateWrites(d, c, amount, kicked)
    BY <1>1, DelegateWritesRecords
<1>4. /\ reserved' = [ a \in Accounts |->
           IF a = d THEN reserved[a] + amount
           ELSE IF \E x \in kicked : x.owner = a
           THEN SaturatingSub(reserved[a],
                  (CHOOSE x \in kicked : x.owner = a).amount)
           ELSE reserved[a] ]
      /\ total' = total + (IF less = {} THEN amount
                           ELSE SaturatingSub(amount, CHOOSE l \in less : TRUE))
    BY <1>1 DEF Delegate
<1> HIDE DEF outcome
<1>5. DOMAIN candidateInfo' = DOMAIN candidateInfo /\ BondsKept
    BY DelegateKeepsCandidates DEF LedgerInv
<1>6. reserved = [a \in Accounts |-> reserved[a]]
    BY DEF LedgerInv, StakingInv, NumbersOK
<1>7. CASE kicked = {}
    <2>1. total' = total + amount
        BY <1>2, <1>4, <1>7
    <2>2. reserved' = [reserved EXCEPT ![d] = @ + amount]
        BY <1>4, <1>6, <1>7
    <2>3. \A x \in Accounts \ {d} :
            /\ x \in DOMAIN delegatorState' <=> x \in DOMAIN delegatorState
            /\ x \in DOMAIN delegatorState =>
                 delegatorState'[x].total = delegatorState[x].total
        BY <1>3, <1>7 DEF DelegateWrites
    <2>4. PromisesKeptBut({d})
        BY <1>5, <2>3, PromisesOfOthers
    <2>5. Promise(candidateInfo', delegatorState', d)
            = Promise(candidateInfo, delegatorState, d) + amount
        BY DelegatingPromise
    <2> QED
        BY <2>1, <2>2, <2>4, <2>5, Gains DEF Reserve
<1>8. CASE kicked # {}
    <2>1. PICK x : kicked = {x} /\ amount > x.amount
        BY <1>2, <1>8
    <2>2. PICK k, m : k = x.owner /\ m = x.amount
        OBVIOUS
    <2>3. /\ k \in DOMAIN delegatorState /\ k # d /\ amount > m
          /\ c \in DOMAIN delegatorState[k].delegations
          /\ delegatorState[k].delegations[c] = m
        BY <1>2, <2>1, <2>2
    <2>4. PICK del : del = delegatorState[k]
        OBVIOUS
    <2>5. /\ DelegatorOK(del) /\ RecordAgrees(del) /\ c \in DOMAIN del.delegations
          /\ del.total \in Nat /\ m \in Nat /\ k \in Accounts
        BY <2>3, <2>4, RecordOK, DelegatorParts
    <2>6. \A a : (\E y \in kicked : y.owner = a) <=> a = k
        BY <2>1, <2>2
    <2>7. (CHOOSE y \in kicked : y.owner = k) = x
        BY <2>1, <2>2
    <2>8. /\ reserved'[k] = SaturatingSub(reserved[k], m)
          /\ reserved'[d] = reserved[d] + amount
          /\ \A a \in Accounts \ {d, k} : reserved'[a] = reserved[a]
        BY <1>4, <2>2, <2>3, <2>5, <2>6, <2>7
    <2>9. total' = total + (amount - m)
        <3>1. less = {m} /\ (CHOOSE l \in less : TRUE) = m
            BY <1>2, <2>1, <2>2
        <3>2. SaturatingSub(amount, m) = amount - m
            BY <2>3, <2>5, SubBehaves
        <3> QED
            BY <1>4, <3>1, <3>2
    <2>10. /\ Promise(candidateInfo', delegatorState', k) + m
                = Promise(candidateInfo, delegatorState, k)
           /\ Promise(candidateInfo, delegatorState, k) \in Nat
        <3>1. PICK new : new = WithoutRequest(WithoutDelegation(del, c), c)
            OBVIOUS
        <3>2. new.total = del.total - m /\ m <= del.total
            BY <2>3, <2>4, <2>5, <3>1, RemovedParts
        <3>3. CASE DOMAIN del.delegations = {c}
            <4>1. k \notin DOMAIN delegatorState'
                BY <1>3, <2>3, <2>4, <2>6, <3>3 DEF DelegateWrites
            <4>2. del.total = m
                BY <2>3, <2>4, <2>5, <3>3, OnlyHeld
            <4> QED
                BY <1>5, <2>3, <2>4, <2>5, <4>1, <4>2, DelegatorPromise
        <3>4. CASE DOMAIN del.delegations # {c}
            <4>1. k \in DOMAIN delegatorState' /\ delegatorState'[k] = new
                BY <1>3, <2>3, <2>4, <2>6, <3>1, <3>4 DEF DelegateWrites
            <4> QED
                BY <1>5, <2>3, <2>4, <2>5, <3>2, <4>1, DelegatorPromise
        <3> QED
            BY <3>3, <3>4
    <2>11. PromisesKeptBut({d, k})
        <3>1. \A a \in Accounts \ {d, k} :
                /\ a \in DOMAIN delegatorState' <=> a \in DOMAIN delegatorState
                /\ a \in DOMAIN delegatorState =>
                     delegatorState'[a].total = delegatorState[a].total
            BY <1>3, <2>6 DEF DelegateWrites
        <3> QED
            BY <1>5, <3>1, PromisesOfOthers
    <2>12. Promise(candidateInfo', delegatorState', d)
             = Promise(candidateInfo, delegatorState, d) + amount
        BY DelegatingPromise
    <2> DEFINE gain == OnlyAt(d, amount)
               loss == OnlyAt(k, m)
    <2>13. /\ gain \in [Accounts -> Nat] /\ loss \in [Accounts -> Nat]
           /\ gain[d] = amount /\ loss[k] = m
           /\ \A a \in Accounts : (a # d => gain[a] = 0) /\ (a # k => loss[a] = 0)
           /\ SumFunctionOnSet(gain, Accounts) = amount
           /\ SumFunctionOnSet(loss, Accounts) = m
        <3>1. /\ gain \in [Accounts -> Nat] /\ gain[d] = amount
              /\ \A a \in Accounts : a # d => gain[a] = 0
              /\ SumFunctionOnSet(gain, Accounts) = amount
            BY SumOnlyAt
        <3>2. /\ loss \in [Accounts -> Nat] /\ loss[k] = m
              /\ \A a \in Accounts : a # k => loss[a] = 0
              /\ SumFunctionOnSet(loss, Accounts) = m
            BY <2>5, SumOnlyAt
        <3> QED
            BY <3>1, <3>2
    <2> HIDE DEF gain, loss
    <2>14. ASSUME NEW a \in Accounts
           PROVE  /\ reserved'[a] = SaturatingSub(reserved[a] + gain[a], loss[a])
                  /\ Promise(candidateInfo', delegatorState', a) + loss[a]
                       = Promise(candidateInfo, delegatorState, a) + gain[a]
                  /\ Promise(candidateInfo', delegatorState', a) + loss[a]
                       <= Promise(candidateInfo, delegatorState, a) + gain[a]
        <3>1. PICK r, p \in Nat :
                r = reserved[a] /\ p = Promise(candidateInfo, delegatorState, a)
            BY PromiseType DEF LedgerInv, StakingInv, NumbersOK
        <3>2. CASE a = d
            <4>1. PICK z \in Nat : z = r + amount
                BY <3>1
            <4>2. SaturatingSub(z, 0) = z
                BY NothingOff
            <4>3. reserved'[a] = z /\ loss[a] = 0 /\ gain[a] = amount
                BY <2>3, <2>8, <2>13, <3>1, <3>2, <4>1
            <4>4. Promise(candidateInfo', delegatorState', a) = p + amount
                BY <2>12, <3>1, <3>2
            <4> QED
                BY <3>1, <4>1, <4>2, <4>3, <4>4
        <3>3. CASE a = k
            <4>1. r + 0 = r /\ p + 0 = p
                BY <3>1
            <4>2. reserved'[a] = SaturatingSub(r, m) /\ loss[a] = m /\ gain[a] = 0
                BY <2>3, <2>8, <2>13, <3>1, <3>3
            <4>3. Promise(candidateInfo', delegatorState', a) + m = p
                BY <2>10, <3>1, <3>3
            <4> QED
                BY <3>1, <4>1, <4>2, <4>3
        <3>4. CASE a # d /\ a # k
            <4>1. SaturatingSub(r + 0, 0) = r
                BY <3>1, NothingOff
            <4>2. reserved'[a] = r /\ loss[a] = 0 /\ gain[a] = 0
                BY <2>8, <2>13, <3>1, <3>4
            <4>3. Promise(candidateInfo', delegatorState', a) = p
                BY <2>11, <3>1, <3>4 DEF PromisesKeptBut
            <4> QED
                BY <3>1, <4>1, <4>2, <4>3
        <3> QED
            BY <3>2, <3>3, <3>4
    <2>15. total' = SaturatingSub(total + SumFunctionOnSet(gain, Accounts),
                                  SumFunctionOnSet(loss, Accounts))
        <3>1. PICK t \in Nat : t = total
            BY DEF LedgerInv, StakingInv, NumbersOK
        <3>2. PICK z \in Nat : z = t + amount
            BY <3>1
        <3>3. SaturatingSub(z, m) = z - m
            BY <2>3, <2>5, <3>1, <3>2, SubBehaves
        <3>4. total' = z - m
            BY <2>5, <2>9, <3>1, <3>2
        <3> QED
            BY <2>13, <3>1, <3>2, <3>3, <3>4
    <2>16. Moves(gain, loss)
        <3>1. m \in Nat /\ m >= SumFunctionOnSet(loss, Accounts)
            BY <2>5, <2>13
        <3>2. total' = SaturatingSub(total + SumFunctionOnSet(gain, Accounts), m)
            BY <2>13, <2>15
        <3> QED
            BY <2>13, <2>14, <3>1, <3>2 DEF Moves
    <2>17. Precise(gain, loss)
        BY <2>14, <2>15 DEF Precise
    <2> QED
        BY <2>16, <2>17 DEF MovedExactly
<1> QED
    BY <1>7, <1>8

-----------------------------------------------------------------------------
(* Every step moves stake one of these ways.                               *)

\* By less than it might: a candidate leaves with what its bottom list
\* recorded, a revocation gives back what was there when it was scheduled.
MovedByExit(c) ==
    \E gain, loss : /\ Moves(gain, loss)
                    /\ Exact(bottomDelegations[c]) => Precise(gain, loss)

MovedByRevoke(d, c) ==
    /\ c \in DOMAIN delegatorState[d].requests
    /\ \E gain, loss : Moves(gain, loss)
    /\ delegatorState[d].requests[c].amount = delegatorState[d].delegations[c]
         => MovedExactly

StakeMoved ==
    \/ MovedExactly
    \/ \E c \in DOMAIN candidateInfo : MovedByExit(c)
    \/ \E d \in DOMAIN delegatorState : \E c \in DOMAIN delegatorState[d].delegations :
         delegatorState[d].requests[c].action = "Revoke" /\ MovedByRevoke(d, c)

LEMMA CandidateCallMoves ==
    ASSUME LedgerInv, CandidateCall
    PROVE  StakeMoved
<1>1. ASSUME NEW c, NEW less,
             \/ ScheduleLeaveCandidates(c)
             \/ CancelLeaveCandidates(c)
             \/ GoOffline(c)
             \/ GoOnline(c)
             \/ ScheduleCandidateBondLess(c, less)
             \/ CancelCandidateBondLess(c)
      PROVE  StakeMoved
    BY <1>1, QuietCandidateMoves DEF StakeMoved
<1>2. ASSUME NEW c \in Accounts, NEW amount \in Nat,
             \/ JoinCandidates(c, amount)
             \/ CandidateBondMore(c, amount)
             \/ ExecuteCandidateBondLess(c)
      PROVE  StakeMoved
    BY <1>2, JoinMoves, CandidateBondMoreMoves, CandidateBondLessMoves DEF StakeMoved
<1>3. ASSUME NEW c, ExecuteLeaveCandidates(c)
      PROVE  StakeMoved
    <2>1. c \in DOMAIN candidateInfo
        BY <1>3 DEF ExecuteLeaveCandidates, IsCandidate
    <2>2. MovedByExit(c)
        BY <1>3, ExitMoves DEF MovedByExit
    <2> QED
        BY <2>1, <2>2 DEF StakeMoved
<1>4. /\ \A c \in Joiners : c \in Accounts
      /\ \A bond \in BondAmounts : bond \in Nat
      /\ \A amount \in Amounts : amount \in Nat
      /\ 0 \in Nat
    BY ConstantsType
<1>5. \/ \E c \in Joiners, bond \in BondAmounts : JoinCandidates(c, bond)
      \/ \E c \in Joiners :
           \/ ScheduleLeaveCandidates(c)
           \/ ExecuteLeaveCandidates(c)
           \/ CancelLeaveCandidates(c)
           \/ GoOffline(c)
           \/ GoOnline(c)
           \/ ExecuteCandidateBondLess(c)
           \/ CancelCandidateBondLess(c)
           \/ \E more \in Amounts : CandidateBondMore(c, more)
           \/ \E less \in Amounts : ScheduleCandidateBondLess(c, less)
    BY DEF CandidateCall
<1> QED
    BY <1>1, <1>2, <1>3, <1>4, <1>5

LEMMA DelegatorCallMoves ==
    ASSUME LedgerInv, DelegatorCall
    PROVE  StakeMoved
<1>1. ASSUME NEW d, NEW c, NEW amount \in Nat,
             \/ ScheduleLeaveDelegators(d)
             \/ CancelLeaveDelegators(d)
             \/ ScheduleRevokeDelegation(d, c)
             \/ ScheduleDelegatorBondLess(d, c, amount)
             \/ CancelDelegationRequest(d, c)
      PROVE  StakeMoved
    BY <1>1, RequestCallMoves DEF StakeMoved
<1>2. ASSUME NEW d, NEW c, NEW amount \in Nat,
             \/ ExecuteLeaveDelegators(d)
             \/ ExecuteDelegationBondLess(d, c)
             \/ DelegatorBondMore(d, c, amount)
      PROVE  StakeMoved
    BY <1>2, DelegatorExitMoves, BondLessMoves, DelegatorBondMoreMoves DEF StakeMoved
<1>3. ASSUME NEW d \in Accounts, NEW c, NEW amount \in Nat, Delegate(d, c, amount)
      PROVE  StakeMoved
    BY <1>3, DelegateMoves DEF StakeMoved
<1>4. ASSUME NEW d, NEW c, ExecuteRevokeDelegation(d, c)
      PROVE  StakeMoved
    <2>1. /\ d \in DOMAIN delegatorState
          /\ c \in DOMAIN delegatorState[d].delegations
          /\ c \in DOMAIN delegatorState[d].requests
        BY <1>4, RevokeDoes
    <2>2. delegatorState[d].requests[c].action = "Revoke"
        BY <1>4, Zenon DEF ExecuteRevokeDelegation
    <2>3. MovedByRevoke(d, c)
        BY <1>4, <2>1, RevokeMoves DEF MovedByRevoke
    <2> QED
        BY <2>1, <2>2, <2>3 DEF StakeMoved
<1>5. /\ \A d \in Backers : d \in Accounts
      /\ 0 \in Nat /\ \A amount \in Amounts : amount \in Nat
    BY ConstantsType
<1>6. PICK d \in Backers :
         \/ ScheduleLeaveDelegators(d)
         \/ CancelLeaveDelegators(d)
         \/ ExecuteLeaveDelegators(d)
         \/ \E c \in Joiners :
              \/ ScheduleRevokeDelegation(d, c)
              \/ ExecuteRevokeDelegation(d, c)
              \/ ExecuteDelegationBondLess(d, c)
              \/ CancelDelegationRequest(d, c)
              \/ \E amount \in Amounts :
                   \/ Delegate(d, c, amount)
                   \/ DelegatorBondMore(d, c, amount)
                   \/ ScheduleDelegatorBondLess(d, c, amount)
    BY DEF DelegatorCall, ExecuteDelegationRequest
<1> QED
    BY <1>1, <1>2, <1>3, <1>4, <1>5, <1>6

LEMMA StepMoves ==
    ASSUME LedgerInv, [Next]_vars
    PROVE  StakeMoved
<1>1. CASE StartRound \/ UNCHANGED vars
    <2>1. UNCHANGED <<candidateInfo, delegatorState, total, reserved>>
        BY <1>1 DEF StartRound, vars, books
    <2>2. PromisesKeptBut({})
        BY <2>1 DEF PromisesKeptBut
    <2> QED
        BY <2>1, <2>2, QuietMoves DEF StakeMoved
<1>2. CASE CandidateCall \/ DelegatorCall
    BY <1>2, CandidateCallMoves, DelegatorCallMoves
<1> QED
    BY <1>1, <1>2 DEF Next

\* Inductive: what is promised is reserved, and so is Total.
StakeInv == LedgerInv /\ AllBacked /\ TotalWithinReserved

LEMMA InitBacked ==
    ASSUME Init
    PROVE  StakeInv
<1>1. LedgerInv
    <2>1. BooksAgree /\ RecordsAgree
        BY DEF Init, BooksAgree, RecordsAgree, EmptyMap
    <2> QED
        BY <2>1, InitEstablishes DEF LedgerInv
<1>2. AllBacked
    BY DEF Init, AllBacked, Promise, EmptyMap
<1>3. reserved \in [Accounts -> Nat]
    BY DEF Init
<1>4. TotalWithinReserved
    <2>1. SumFunctionOnSet(reserved, Accounts) \in Nat
        BY <1>3, SumsOfAccounts
    <2>2. SumFunction(reserved) = SumFunctionOnSet(reserved, Accounts)
        BY <1>3, SumsOfAccounts
    <2> QED
        BY <2>1, <2>2 DEF Init, TotalWithinReserved
<1> QED
    BY <1>1, <1>2, <1>4 DEF StakeInv

LEMMA StepKeepsStake ==
    ASSUME StakeInv, [Next]_vars
    PROVE  StakeInv'
<1>1. LedgerInv /\ AllBacked /\ TotalWithinReserved
    BY DEF StakeInv
<1>2. LedgerInv'
    BY <1>1, StepKeepsLedger
<1>3. StakeMoved
    BY <1>1, StepMoves
<1>4. PICK gain, loss : Moves(gain, loss)
    BY <1>3 DEF StakeMoved, MovedExactly, MovedByExit, MovedByRevoke
<1>5. KeptBacked(gain, loss)
    BY <1>1, <1>2, <1>4, PromisesKept
<1> QED
    BY <1>1, <1>2, <1>5 DEF StakeInv, KeptBacked

\* In every reachable state what a candidate has bonded and a delegator has
\* delegated is reserved in the currency pallet, so no unreserve comes up short.
THEOREM StakeReservedCorrect ==
    Spec => []StakeIsReserved
<1>1. Init => StakeInv
    BY InitBacked
<1>2. StakeInv /\ [Next]_vars => StakeInv'
    BY StepKeepsStake
<1>3. StakeInv => StakeIsReserved
    BY BackedIsReserved DEF StakeInv
<1> QED
    BY <1>1, <1>2, <1>3, PTL DEF Spec

\* In every reachable state Total, which sets the issuance, is no more than
\* what is reserved.
THEOREM TotalCorrect ==
    Spec => []TotalWithinReserved
<1>1. Init => StakeInv
    BY InitBacked
<1>2. StakeInv /\ [Next]_vars => StakeInv'
    BY StepKeepsStake
<1>3. StakeInv => TotalWithinReserved
    BY DEF StakeInv
<1> QED
    BY <1>1, <1>2, <1>3, PTL DEF Spec

-----------------------------------------------------------------------------
(* Prudent steps: the three ledgers agree to the last unit.                *)

\* The recorded totals of the bottom lists are those of the lists, too.
BottomsExact == \A c \in DOMAIN candidateInfo : Exact(bottomDelegations[c])

LEMMA ExactKept ==
    ASSUME BottomsExact,
           \A c \in DOMAIN candidateInfo' :
             /\ c \in DOMAIN candidateInfo
             /\ bottomDelegations'[c] = bottomDelegations[c]
    PROVE  BottomsExact'
<1>1. ASSUME NEW c \in DOMAIN candidateInfo'
      PROVE  Exact(bottomDelegations'[c])
    <2>1. Exact(bottomDelegations[c])
        BY DEF BottomsExact
    <2> QED
        BY <2>1 DEF Exact
<1> QED
    BY <1>1 DEF BottomsExact, Exact

LEMMA ExactWritten ==
    ASSUME BooksOK, BottomsExact, NEW outcomes, SaveBooks(outcomes),
           \A c \in DOMAIN outcomes : Exact(outcomes[c].bottom)
    PROVE  BottomsExact'
<1>1. DOMAIN candidateInfo' = DOMAIN candidateInfo
    BY DEF SaveBooks
<1>2. ASSUME NEW c \in DOMAIN candidateInfo
      PROVE  Exact(bottomDelegations'[c])
    <2>1. c \in DOMAIN bottomDelegations
        BY DEF BooksOK
    <2>2. bottomDelegations'[c] = IF c \in DOMAIN outcomes THEN outcomes[c].bottom
                                                           ELSE bottomDelegations[c]
        BY <2>1 DEF SaveBooks
    <2>3. Exact(bottomDelegations[c])
        BY DEF BottomsExact
    <2> QED
        BY <2>2, <2>3 DEF Exact
<1> QED
    BY <1>1, <1>2 DEF BottomsExact, Exact

LEMMA OneExactWritten ==
    ASSUME BooksOK, BottomsExact, NEW c, NEW outcome, SaveBook(c, outcome),
           Exact(outcome.bottom)
    PROVE  BottomsExact'
<1> DEFINE outcomes == [x \in {c} |-> outcome]
<1>1. SaveBooks(outcomes)
    BY DEF SaveBook
<1>2. DOMAIN outcomes = {c} /\ outcomes[c] = outcome
    OBVIOUS
<1> HIDE DEF outcomes
<1>3. \A x \in DOMAIN outcomes : Exact(outcomes[x].bottom)
    BY <1>2
<1> QED
    BY <1>1, <1>3, ExactWritten

\* The book of a candidate when its bottom total is exact.
LEMMA ExactBook ==
    ASSUME LedgerInv, BottomsExact, NEW c \in DOMAIN candidateInfo
    PROVE  Exact(Book(c).bottom) /\ BooksOK
BY LedgerBook DEF BottomsExact, LedgerInv, StakingInv

\* A candidate joins with empty lists and leaves with its lists; its other
\* calls leave the lists alone.
LEMMA JoinExact ==
    ASSUME LedgerInv, BottomsExact, NEW acc, NEW bond, JoinCandidates(acc, bond)
    PROVE  BottomsExact'
<1>1. /\ DOMAIN candidateInfo' = DOMAIN candidateInfo \union {acc}
      /\ bottomDelegations' = Put(bottomDelegations, acc, NoDelegations)
    BY DEF JoinCandidates, Put
<1>2. Exact(NoDelegations)
    <2>1. PICK book : book = [top |-> NoDelegations, bottom |-> NoDelegations]
        OBVIOUS
    <2>2. book.top = NoDelegations /\ book.bottom = NoDelegations
        BY <2>1
    <2>3. InOrder(book)
        BY <2>2, NewBookInOrder
    <2> QED
        BY <2>2, <2>3 DEF InOrder
<1>3. ASSUME NEW c \in DOMAIN candidateInfo'
      PROVE  Exact(bottomDelegations'[c])
    <2>1. CASE c = acc
        <3>1. bottomDelegations'[c] = NoDelegations
            BY <1>1, <2>1 DEF Put
        <3> QED
            BY <1>2, <3>1 DEF Exact
    <2>2. CASE c # acc
        <3>1. c \in DOMAIN candidateInfo /\ c \in DOMAIN bottomDelegations
            BY <1>1, <2>2 DEF LedgerInv, StakingInv, BooksOK
        <3>2. bottomDelegations'[c] = bottomDelegations[c]
            BY <1>1, <2>2, <3>1 DEF Put
        <3>3. Exact(bottomDelegations[c])
            BY <3>1 DEF BottomsExact
        <3> QED
            BY <3>2, <3>3 DEF Exact
    <2> QED
        BY <2>1, <2>2
<1> QED
    BY <1>3 DEF BottomsExact, Exact

LEMMA CandidateCallExact ==
    ASSUME LedgerInv, BottomsExact, CandidateCall
    PROVE  BottomsExact'
<1>1. ASSUME NEW c, NEW amount,
             \/ ScheduleLeaveCandidates(c)
             \/ CancelLeaveCandidates(c)
             \/ GoOffline(c)
             \/ GoOnline(c)
             \/ ScheduleCandidateBondLess(c, amount)
             \/ CancelCandidateBondLess(c)
             \/ ExecuteCandidateBondLess(c)
             \/ CandidateBondMore(c, amount)
      PROVE  BottomsExact'
    <2>1. \E info : SaveInfo(c, info)
        BY <1>1 DEF ScheduleLeaveCandidates, CancelLeaveCandidates, GoOffline,
                    GoOnline, ScheduleCandidateBondLess, CancelCandidateBondLess,
                    ExecuteCandidateBondLess, CandidateBondMore
    <2>2. /\ DOMAIN candidateInfo' = DOMAIN candidateInfo
          /\ bottomDelegations' = bottomDelegations
        BY <2>1 DEF SaveInfo
    <2> QED
        BY <2>2, ExactKept
<1>2. ASSUME NEW c, ExecuteLeaveCandidates(c)
      PROVE  BottomsExact'
    <2>1. /\ candidateInfo' = Drop(candidateInfo, c)
          /\ bottomDelegations' = Drop(bottomDelegations, c)
        BY <1>2 DEF ExecuteLeaveCandidates, RemoveCandidate
    <2>2. DOMAIN bottomDelegations = DOMAIN candidateInfo
        BY DEF LedgerInv, StakingInv, BooksOK
    <2>3. ASSUME NEW x \in DOMAIN candidateInfo'
          PROVE  /\ x \in DOMAIN candidateInfo
                 /\ bottomDelegations'[x] = bottomDelegations[x]
        BY <2>1, <2>2 DEF Drop
    <2> QED
        BY <2>3, ExactKept
<1> QED
    BY <1>1, <1>2, JoinExact DEF CandidateCall

\* Removing d's delegation from its book keeps the bottom total exact.
LEMMA RemovedExact ==
    ASSUME LedgerInv, BottomsExact, NEW d \in DOMAIN delegatorState,
           NEW c \in DOMAIN delegatorState[d].delegations,
           NEW list, StandsIn(Book(c), EntryIn(d, c), list)
    PROVE  Exact(RemoveDelegation(Book(c), d, list).bottom)
<1>1. PICK book, x : book = Book(c) /\ x = EntryIn(d, c)
    OBVIOUS
<1>2. /\ WellKept(book) /\ InOrder(book) /\ x.owner = d
      /\ Exact(book.bottom) /\ StandsIn(book, x, list)
    BY <1>1, EntryInBook, ExactBook
<1>3. Exact(RemoveDelegation(book, x.owner, list).bottom)
    BY <1>2, RemoveDelegationExact
<1> QED
    BY <1>1, <1>2, <1>3

LEMMA DelegatorExitExact ==
    ASSUME LedgerInv, BottomsExact, NEW d, ExecuteLeaveDelegators(d)
    PROVE  BottomsExact'
<1> DEFINE held == delegatorState[d].delegations
           outcomes == [ c \in Removable(d) |->
                           RemoveDelegation(Book(c), d,
                             Lookup(Book(c), d, held[c], TopHasRoom(c))) ]
<1>1. d \in DOMAIN delegatorState /\ SaveBooks(outcomes)
    BY DEF ExecuteLeaveDelegators, IsDelegator
<1>2. ASSUME NEW c \in DOMAIN outcomes
      PROVE  Exact(outcomes[c].bottom)
    <2>1. c \in DOMAIN delegatorState[d].delegations /\ c \in Removable(d)
        BY <1>1, AllRemovable
    <2>2. PICK list : list = Lookup(Book(c), d, held[c], TopHasRoom(c))
        OBVIOUS
    <2>3. StandsIn(Book(c), EntryIn(d, c), list)
        BY <1>1, <2>1, <2>2, RecordLeads
    <2>4. Exact(RemoveDelegation(Book(c), d, list).bottom)
        BY <1>1, <2>1, <2>3, RemovedExact
    <2> QED
        BY <2>1, <2>2, <2>4
<1> HIDE DEF outcomes
<1>3. BooksOK
    BY DEF LedgerInv, StakingInv
<1> QED
    BY <1>1, <1>2, <1>3, ExactWritten

LEMMA RevokeExact ==
    ASSUME LedgerInv, BottomsExact, NEW d, NEW c, ExecuteRevokeDelegation(d, c)
    PROVE  BottomsExact'
<1>1. d \in DOMAIN delegatorState /\ c \in DOMAIN delegatorState[d].delegations
    BY RevokeDoes
<1>2. PICK list : /\ StandsIn(Book(c), EntryIn(d, c), list)
                  /\ SaveBook(c, RemoveDelegation(Book(c), d, list))
    BY RevokeDoes
<1>3. PICK outcome : outcome = RemoveDelegation(Book(c), d, list)
    OBVIOUS
<1>4. SaveBook(c, outcome) /\ Exact(outcome.bottom)
    BY <1>1, <1>2, <1>3, RemovedExact
<1>5. BooksOK
    BY DEF LedgerInv, StakingInv
<1> QED
    BY <1>4, <1>5, OneExactWritten

LEMMA DelegateExact ==
    ASSUME LedgerInv, BottomsExact, NEW d \in Accounts, NEW c, NEW amount \in Nat,
           Delegate(d, c, amount)
    PROVE  BottomsExact'
<1>1. PICK book, bond : book = Book(c) /\ bond = [owner |-> d, amount |-> amount]
    OBVIOUS
<1>2. PICK outcome : outcome = AddDelegation(book, bond)
    OBVIOUS
<1>3. SaveBook(c, outcome)
    BY <1>1, <1>2 DEF Delegate
<1>4. /\ c \in DOMAIN candidateInfo /\ bond \in Bond /\ bond.owner = d
      /\ WellKept(book) /\ InOrder(book) /\ \A x \in BookEntries(book) : x.owner # d
    BY <1>1, DelegateFinds
<1>5. Exact(book.bottom) /\ BooksOK
    BY <1>1, <1>4, ExactBook
<1>6. Exact(outcome.bottom)
    BY <1>2, <1>4, <1>5, AddDelegationExact
<1> QED
    BY <1>3, <1>5, <1>6, OneExactWritten

LEMMA DelegatorBondMoreExact ==
    ASSUME LedgerInv, BottomsExact, NEW d, NEW c, NEW more \in Nat,
           DelegatorBondMore(d, c, more)
    PROVE  BottomsExact'
<1>1. d \in DOMAIN delegatorState /\ c \in DOMAIN delegatorState[d].delegations
    BY DelegatorBondMoreDoes
<1>2. PICK held, room : held = delegatorState[d].delegations[c] /\ room = FALSE
    OBVIOUS
<1>3. PICK list : list = Lookup(Book(c), d, held, room)
    OBVIOUS
<1>4. list # "missing" /\ StandsIn(Book(c), EntryIn(d, c), list)
    BY <1>1, <1>2, <1>3, RecordLeads
<1>5. PICK book, x : book = Book(c) /\ x = EntryIn(d, c)
    OBVIOUS
<1>6. /\ WellKept(book) /\ InOrder(book) /\ x.owner = d /\ x.amount = held
      /\ StandsIn(book, x, list) /\ Exact(book.bottom) /\ BooksOK
    BY <1>1, <1>2, <1>4, <1>5, EntryInBook, ExactBook
<1>7. PICK outcome : outcome = IncreaseDelegation(book, d, held, more, list)
    OBVIOUS
<1>8. SaveBook(c, outcome)
    BY <1>2, <1>3, <1>4, <1>5, <1>7 DEF DelegatorBondMore
<1>9. Exact(IncreaseDelegation(book, x.owner, x.amount, more, list).bottom)
    BY <1>6, IncreaseDelegationExact
<1> QED
    BY <1>6, <1>7, <1>8, <1>9, OneExactWritten

\* Where a decrease of a bottom delegation would leave it.
LEMMA StaysAtBottom ==
    ASSUME NEW book, WellKept(book), InOrder(book),
           NEW x \in Entries(book.bottom), NEW n \in Nat,
           NEW outcome, Changes(outcome, book, x, n), outcome.top = book.top
    PROVE  /\ x.owner \in Owners(book.bottom)
           /\ x.owner \in Owners(outcome.bottom)
           /\ AmountOf(book.bottom, x.owner) = x.amount
           /\ AmountOf(outcome.bottom, x.owner) = n
<1>1. PICK y : y = [owner |-> x.owner, amount |-> n]
    OBVIOUS
<1>2. /\ InOrder(outcome) /\ y \in BookEntries(outcome)
      /\ y.owner = x.owner /\ y.amount = n
    BY <1>1 DEF Changes
<1>3. y \notin Entries(outcome.top)
    <2> SUFFICES ASSUME y \in Entries(book.top) PROVE FALSE
        OBVIOUS
    <2> QED
        BY <1>2 DEF InOrder
<1>4. y \in Entries(outcome.bottom)
    BY <1>2, <1>3 DEF BookEntries
<1>5. ListInOrder(book.bottom) /\ ListInOrder(outcome.bottom)
    BY <1>2 DEF InOrder
<1>6. x.owner \in Owners(book.bottom) /\ AmountOf(book.bottom, x.owner) = x.amount
    BY <1>5, AmountOfEntry
<1>7. y.owner \in Owners(outcome.bottom) /\ AmountOf(outcome.bottom, y.owner) = y.amount
    BY <1>4, <1>5, AmountOfEntry
<1> QED
    BY <1>2, <1>6, <1>7

\* A decrease that takes something off a bottom delegation is not prudent.
LEMMA BondLessExact ==
    ASSUME LedgerInv, BottomsExact, PrudentStep, NEW d, NEW c,
           ExecuteDelegationBondLess(d, c)
    PROVE  BottomsExact'
<1>1. d \in DOMAIN delegatorState /\ c \in DOMAIN delegatorState[d].delegations
    BY BondLessDoes
<1>2. PICK less \in Nat : \E held, outcome, list :
         /\ held = delegatorState[d].delegations[c] /\ less < held
         /\ StandsIn(Book(c), EntryIn(d, c), list)
         /\ outcome = DecreaseDelegation(Book(c), d, held, less, list)
         /\ SaveBook(c, outcome)
         /\ Changes(outcome, Book(c), EntryIn(d, c), held - less)
    BY BondLessDoes
<1>3. PICK held, outcome, list :
         /\ held = delegatorState[d].delegations[c] /\ less < held
         /\ StandsIn(Book(c), EntryIn(d, c), list)
         /\ outcome = DecreaseDelegation(Book(c), d, held, less, list)
         /\ SaveBook(c, outcome)
         /\ Changes(outcome, Book(c), EntryIn(d, c), held - less)
    BY <1>2
<1>4. PICK book, x : book = Book(c) /\ x = EntryIn(d, c)
    OBVIOUS
<1>5. /\ c \in DOMAIN candidateInfo
      /\ WellKept(book) /\ InOrder(book) /\ x.owner = d /\ x.amount = held
      /\ held \in Nat
    BY <1>1, <1>3, <1>4, EntryInBook
<1>6. /\ Exact(book.bottom) /\ BooksOK /\ StandsIn(book, x, list)
      /\ book.bottom = bottomDelegations[c]
    BY <1>3, <1>4, <1>5, ExactBook DEF Book
<1>7. list = "bottom" => less = 0
    <2> SUFFICES ASSUME list = "bottom" PROVE less = 0
        OBVIOUS
    <2>1. x \in Entries(book.bottom) /\ outcome.top = book.top
        <3>1. outcome = DecreaseBottom(book, d, less)
            BY <1>3, <1>4 DEF DecreaseDelegation
        <3> QED
            BY <1>6, <3>1 DEF StandsIn, DecreaseBottom
    <2>2. PICK n \in Nat : n = held - less
        BY <1>3, <1>5
    <2>3. Changes(outcome, book, x, n)
        BY <1>3, <1>4, <2>2
    <2>4. /\ d \in Owners(book.bottom) /\ d \in Owners(outcome.bottom)
          /\ AmountOf(book.bottom, d) = held /\ AmountOf(outcome.bottom, d) = n
        <3>1. /\ x.owner \in Owners(book.bottom)
              /\ x.owner \in Owners(outcome.bottom)
              /\ AmountOf(book.bottom, x.owner) = x.amount
              /\ AmountOf(outcome.bottom, x.owner) = n
            BY <1>5, <2>1, <2>3, StaysAtBottom
        <3> QED
            BY <1>5, <3>1
    <2>5. /\ c \in DOMAIN bottomDelegations /\ c \in DOMAIN bottomDelegations'
          /\ bottomDelegations'[c] = outcome.bottom
        BY <1>3, <1>5 DEF SaveBook, SaveBooks, LedgerInv, StakingInv, BooksOK
    <2>6. PICK after : after = bottomDelegations'
        OBVIOUS
    <2>7. AmountOf(after[c], d) >= AmountOf(bottomDelegations[c], d)
        <3>1. \A e \in Owners(bottomDelegations[c]) \intersect Owners(after[c]) :
                AmountOf(after[c], e) >= AmountOf(bottomDelegations[c], e)
            BY <2>5, <2>6 DEF PrudentStep
        <3> QED
            BY <1>6, <2>4, <2>5, <2>6, <3>1
    <2>8. n >= held
        BY <1>6, <2>4, <2>5, <2>6, <2>7
    <2> QED
        BY <1>5, <2>2, <2>8
<1>8. less \in 0 .. x.amount
    BY <1>3, <1>5
<1>9. Exact(DecreaseDelegation(book, x.owner, x.amount, less, list).bottom)
    BY <1>5, <1>6, <1>7, <1>8, DecreaseDelegationExact
<1>10. Exact(outcome.bottom)
    BY <1>3, <1>4, <1>5, <1>9
<1> QED
    BY <1>3, <1>6, <1>10, OneExactWritten

LEMMA DelegatorCallExact ==
    ASSUME LedgerInv, BottomsExact, PrudentStep, DelegatorCall
    PROVE  BottomsExact'
<1>1. ASSUME NEW d, NEW c, NEW amount \in Nat,
             \/ ScheduleLeaveDelegators(d)
             \/ CancelLeaveDelegators(d)
             \/ ScheduleRevokeDelegation(d, c)
             \/ ScheduleDelegatorBondLess(d, c, amount)
             \/ CancelDelegationRequest(d, c)
      PROVE  BottomsExact'
    <2>1. UNCHANGED books
        BY <1>1 DEF ScheduleLeaveDelegators, CancelLeaveDelegators,
                    ScheduleRevokeDelegation, ScheduleDelegatorBondLess,
                    CancelDelegationRequest
    <2> QED
        BY <2>1, ExactKept DEF books
<1>2. ASSUME NEW d, NEW c, NEW amount \in Nat,
             \/ ExecuteLeaveDelegators(d)
             \/ ExecuteRevokeDelegation(d, c)
             \/ ExecuteDelegationBondLess(d, c)
             \/ DelegatorBondMore(d, c, amount)
      PROVE  BottomsExact'
    BY <1>2, DelegatorExitExact, RevokeExact, BondLessExact, DelegatorBondMoreExact
<1>3. ASSUME NEW d \in Accounts, NEW c, NEW amount \in Nat, Delegate(d, c, amount)
      PROVE  BottomsExact'
    BY <1>3, DelegateExact
<1>4. /\ \A d \in Backers : d \in Accounts
      /\ 0 \in Nat /\ \A amount \in Amounts : amount \in Nat
    BY ConstantsType
<1>5. PICK d \in Backers :
         \/ ScheduleLeaveDelegators(d)
         \/ CancelLeaveDelegators(d)
         \/ ExecuteLeaveDelegators(d)
         \/ \E c \in Joiners :
              \/ ScheduleRevokeDelegation(d, c)
              \/ ExecuteRevokeDelegation(d, c)
              \/ ExecuteDelegationBondLess(d, c)
              \/ CancelDelegationRequest(d, c)
              \/ \E amount \in Amounts :
                   \/ Delegate(d, c, amount)
                   \/ DelegatorBondMore(d, c, amount)
                   \/ ScheduleDelegatorBondLess(d, c, amount)
    BY DEF DelegatorCall, ExecuteDelegationRequest
<1> QED
    BY <1>1, <1>2, <1>3, <1>4, <1>5

LEMMA StepKeepsExact ==
    ASSUME LedgerInv, BottomsExact, PrudentStep, [Next]_vars
    PROVE  BottomsExact'
<1>1. CASE StartRound \/ UNCHANGED vars
    <2>1. UNCHANGED <<candidateInfo, bottomDelegations>>
        BY <1>1 DEF StartRound, vars, books
    <2> QED
        BY <2>1, ExactKept
<1>2. CASE CandidateCall \/ DelegatorCall
    BY <1>2, CandidateCallExact, DelegatorCallExact
<1> QED
    BY <1>1, <1>2 DEF Next

\* A pending revocation is for the whole of its delegation.
RevokesFull ==
    \A d \in DOMAIN delegatorState : \A c \in DOMAIN delegatorState[d].requests :
      delegatorState[d].requests[c].action = "Revoke" =>
        delegatorState[d].requests[c].amount = delegatorState[d].delegations[c]

\* The requests of `new` are among those of del.
FewerRequests(new, del) ==
    \A c \in DOMAIN new.requests :
      c \in DOMAIN del.requests /\ new.requests[c] = del.requests[c]

\* A revocation in the record `new` of d is for all of its delegation, or was
\* there before.
RevokesOf(new, d) ==
    \A c \in DOMAIN new.requests :
      new.requests[c].action = "Revoke" =>
        \/ new.requests[c].amount = new.delegations[c]
        \/ /\ d \in DOMAIN delegatorState
           /\ c \in DOMAIN delegatorState[d].requests
           /\ new.requests[c] = delegatorState[d].requests[c]

RevokesKept == \A d \in DOMAIN delegatorState' : RevokesOf(delegatorState'[d], d)

\* What is kept and not topped up stays full.
LEMMA RevokesStayFull ==
    ASSUME LedgerInv, LedgerInv', PrudentStep, RevokesFull, RevokesKept
    PROVE  RevokesFull'
<1>1. PICK after : after = delegatorState'
    OBVIOUS
<1> SUFFICES ASSUME NEW d \in DOMAIN after, NEW c \in DOMAIN after[d].requests,
                    after[d].requests[c].action = "Revoke"
             PROVE  after[d].requests[c].amount = after[d].delegations[c]
    BY <1>1 DEF RevokesFull
<1>2. \/ after[d].requests[c].amount = after[d].delegations[c]
      \/ /\ d \in DOMAIN delegatorState
         /\ c \in DOMAIN delegatorState[d].requests
         /\ after[d].requests[c] = delegatorState[d].requests[c]
    BY <1>1 DEF RevokesKept, RevokesOf
<1>3. ASSUME d \in DOMAIN delegatorState, c \in DOMAIN delegatorState[d].requests,
             after[d].requests[c] = delegatorState[d].requests[c]
      PROVE  after[d].requests[c].amount = after[d].delegations[c]
    <2>1. PICK n : n = delegatorState[d].requests[c].amount
        OBVIOUS
    <2>2. n = delegatorState[d].delegations[c]
        BY <1>3, <2>1 DEF RevokesFull
    <2>3. /\ c \in DOMAIN delegatorState[d].delegations /\ n \in Nat
        BY <1>3, <2>1, RecordOK, RecordParts, RequestParts DEF RequestsFit
    <2>4. \A e \in DOMAIN after : RecordAgrees(after[e]) /\ DelegatorOK(after[e])
        BY <1>1 DEF LedgerInv, RecordsAgree, StakingInv, DelegatorsOK
    <2>5. /\ c \in DOMAIN after[d].delegations /\ n <= after[d].delegations[c]
          /\ after[d].delegations[c] \in Nat
        <3>1. PICK new : new = after[d]
            OBVIOUS
        <3>2. RecordAgrees(new) /\ DelegatorOK(new) /\ c \in DOMAIN new.requests
            BY <2>4, <3>1
        <3>3. c \in DOMAIN new.delegations /\ new.requests[c].amount <= new.delegations[c]
            BY <3>2 DEF RecordAgrees, RequestsFit
        <3>4. new.delegations[c] \in Nat
            BY <3>2, <3>3, DelegatorParts
        <3> QED
            BY <1>3, <2>1, <3>1, <3>3, <3>4
    <2>6. after[d].delegations[c] <= delegatorState[d].delegations[c]
        BY <1>1, <1>3, <2>5 DEF PrudentStep
    <2> QED
        BY <1>3, <2>1, <2>2, <2>3, <2>5, <2>6
<1> QED
    BY <1>2, <1>3

\* Records that lose requests, if anything, keep their revocations.
LEMMA FewerKept ==
    ASSUME NEW d \in DOMAIN delegatorState, NEW new,
           FewerRequests(new, delegatorState[d])
    PROVE  RevokesOf(new, d)
BY DEF FewerRequests, RevokesOf

LEMMA SameKept ==
    ASSUME NEW d \in DOMAIN delegatorState
    PROVE  RevokesOf(delegatorState[d], d)
BY DEF RevokesOf

LEMMA WithoutFewer ==
    ASSUME NEW del, DelegatorOK(del), NEW c
    PROVE  /\ FewerRequests(WithoutRequest(del, c), del)
           /\ FewerRequests(WithoutRequest(WithoutDelegation(del, c), c), del)
           /\ FewerRequests(WithoutDelegation(WithoutRequest(del, c), c), del)
<1>1. FewerRequests(WithoutRequest(del, c), del)
    BY WithoutRequestFields DEF FewerRequests
<1>2. FewerRequests(WithoutRequest(WithoutDelegation(del, c), c), del)
    <2>1. PICK rest : rest = WithoutDelegation(del, c)
        OBVIOUS
    <2>2. DelegatorOK(rest) /\ rest.requests = del.requests
        BY <2>1, WithoutDelegationOK, WithoutDelegationFields
    <2>3. FewerRequests(WithoutRequest(rest, c), rest)
        BY <2>2, WithoutRequestFields DEF FewerRequests
    <2> QED
        BY <2>1, <2>2, <2>3 DEF FewerRequests
<1>3. FewerRequests(WithoutDelegation(WithoutRequest(del, c), c), del)
    <2>1. PICK rest : rest = WithoutRequest(del, c)
        OBVIOUS
    <2>2. DelegatorOK(rest) /\ FewerRequests(rest, del)
        BY <1>1, <2>1, WithoutRequestOK
    <2>3. WithoutDelegation(rest, c).requests = rest.requests
        BY <2>2, WithoutDelegationFields
    <2> QED
        BY <2>1, <2>2, <2>3 DEF FewerRequests
<1> QED
    BY <1>1, <1>2, <1>3

\* One record is written, or removed, or none.
LEMMA SavedKept ==
    ASSUME LedgerInv, NEW d,
           \/ UNCHANGED delegatorState
           \/ delegatorState' = Drop(delegatorState, d)
           \/ /\ d \in DOMAIN delegatorState
              /\ \E new : SaveDelegator(d, new) /\ RevokesOf(new, d)
    PROVE  RevokesKept
<1>1. CASE UNCHANGED delegatorState
    BY <1>1, SameKept DEF RevokesKept
<1>2. CASE delegatorState' = Drop(delegatorState, d)
    BY <1>2, SameKept DEF RevokesKept, Drop
<1>3. CASE /\ d \in DOMAIN delegatorState
           /\ \E new : SaveDelegator(d, new) /\ RevokesOf(new, d)
    <2>1. PICK new : SaveDelegator(d, new) /\ RevokesOf(new, d)
        BY <1>3
    <2>2. /\ DOMAIN delegatorState' = DOMAIN delegatorState
          /\ delegatorState'[d] = new
          /\ \A e \in DOMAIN delegatorState \ {d} :
               delegatorState'[e] = delegatorState[e]
        BY <1>3, <2>1, HoldsOnceSaved
    <2>3. ASSUME NEW e \in DOMAIN delegatorState
          PROVE  RevokesOf(delegatorState'[e], e)
        <3>1. CASE e = d
            BY <2>1, <2>2, <3>1
        <3>2. CASE e # d
            <4>1. delegatorState'[e] = delegatorState[e]
                BY <2>2, <3>2
            <4>2. RevokesOf(delegatorState[e], e)
                BY SameKept
            <4> QED
                BY <4>1, <4>2
        <3> QED
            BY <3>1, <3>2
    <2> QED
        BY <2>2, <2>3 DEF RevokesKept
<1> QED
    BY <1>1, <1>2, <1>3

LEMMA RequestCallKeepsRevokes ==
    ASSUME LedgerInv, NEW d, NEW c, NEW less,
           \/ ScheduleLeaveDelegators(d)
           \/ CancelLeaveDelegators(d)
           \/ ScheduleRevokeDelegation(d, c)
           \/ ScheduleDelegatorBondLess(d, c, less)
           \/ CancelDelegationRequest(d, c)
    PROVE  RevokesKept
<1>1. d \in DOMAIN delegatorState
    BY DEF ScheduleLeaveDelegators, CancelLeaveDelegators,
           ScheduleRevokeDelegation, ScheduleDelegatorBondLess,
           CancelDelegationRequest, IsDelegator
<1>2. PICK del : del = delegatorState[d]
    OBVIOUS
<1>3. DelegatorOK(del)
    BY <1>1, <1>2, RecordOK
<1>4. ASSUME NEW new, SaveDelegator(d, new), FewerRequests(new, del)
      PROVE  RevokesKept
    <2>1. RevokesOf(new, d)
        BY <1>1, <1>2, <1>4, FewerKept
    <2> QED
        BY <1>1, <1>4, <2>1, SavedKept
<1>5. ASSUME NEW status, SaveDelegator(d, [del EXCEPT !.status = status])
      PROVE  RevokesKept
    <2>1. [del EXCEPT !.status = status].requests = del.requests
        BY <1>3 DEF DelegatorOK
    <2> QED
        BY <1>4, <1>5, <2>1 DEF FewerRequests
<1>6. ASSUME NEW amount, NEW when, NEW action,
             action = "Revoke" => amount = del.delegations[c],
             SaveDelegator(d, WithRequest(del, c, amount, when, action))
      PROVE  RevokesKept
    <2>1. PICK new : new = WithRequest(del, c, amount, when, action)
        OBVIOUS
    <2>2. /\ new.delegations = del.delegations
          /\ DOMAIN new.requests = DOMAIN del.requests \union {c}
          /\ new.requests[c].amount = amount /\ new.requests[c].action = action
          /\ \A x \in DOMAIN new.requests : x # c =>
               x \in DOMAIN del.requests /\ new.requests[x] = del.requests[x]
        BY <1>3, <2>1 DEF WithRequest, DelegatorOK, Put
    <2>3. RevokesOf(new, d)
        BY <1>1, <1>2, <1>6, <2>2 DEF RevokesOf
    <2> QED
        BY <1>1, <1>6, <2>1, <2>3, SavedKept
<1>7. CASE ScheduleLeaveDelegators(d) \/ CancelLeaveDelegators(d)
    BY <1>2, <1>5, <1>7 DEF ScheduleLeaveDelegators, CancelLeaveDelegators
<1>8. CASE ScheduleRevokeDelegation(d, c)
    BY <1>2, <1>6, <1>8 DEF ScheduleRevokeDelegation
<1>9. CASE ScheduleDelegatorBondLess(d, c, less)
    <2>1. SaveDelegator(d, WithRequest(del, c, less,
                                       round + DelegationBondLessDelay, "Decrease"))
        BY <1>2, <1>9 DEF ScheduleDelegatorBondLess
    <2> QED
        BY <1>6, <2>1
<1>10. CASE CancelDelegationRequest(d, c)
    <2>1. SaveDelegator(d, WithoutRequest(del, c))
        BY <1>2, <1>10 DEF CancelDelegationRequest
    <2> QED
        BY <1>3, <1>4, <2>1, WithoutFewer
<1> QED
    BY <1>7, <1>8, <1>9, <1>10

LEMMA CandidateExitKeepsRevokes ==
    ASSUME LedgerInv, NEW c, ExecuteLeaveCandidates(c)
    PROVE  RevokesKept
<1>1. PICK after : after = delegatorState'
    OBVIOUS
<1>2. \A d \in DOMAIN after :
        /\ d \in DOMAIN delegatorState
        /\ after[d] = IF c \in DOMAIN delegatorState[d].delegations
                      THEN AfterCandidateLeft(d, c) ELSE delegatorState[d]
    BY <1>1, ExitWritesRecords DEF ExitWrites
<1>3. ASSUME NEW d \in DOMAIN after
      PROVE  RevokesOf(after[d], d)
    <2>1. d \in DOMAIN delegatorState /\ DelegatorOK(delegatorState[d])
        BY <1>2, RecordOK
    <2>2. CASE c \in DOMAIN delegatorState[d].delegations
        <3>1. after[d] = WithoutRequest(WithoutDelegation(delegatorState[d], c), c)
            BY <1>2, <2>2 DEF AfterCandidateLeft
        <3>2. FewerRequests(after[d], delegatorState[d])
            BY <2>1, <3>1, WithoutFewer
        <3> QED
            BY <2>1, <3>2, FewerKept
    <2>3. CASE c \notin DOMAIN delegatorState[d].delegations
        BY <1>2, <2>1, <2>3, SameKept
    <2> QED
        BY <2>2, <2>3
<1> QED
    BY <1>1, <1>3 DEF RevokesKept

LEMMA DelegateKeepsRevokes ==
    ASSUME LedgerInv, NEW d \in Accounts, NEW c, NEW amount \in Nat,
           Delegate(d, c, amount)
    PROVE  RevokesKept
<1>1. PICK kicked : kicked = AddDelegation(Book(c), [owner |-> d, amount |-> amount]).kicked
    OBVIOUS
<1>2. DelegateWrites(d, c, amount, kicked)
    BY <1>1, DelegateWritesRecords
<1>3. PICK after : after = delegatorState'
    OBVIOUS
<1>4. RevokesOf(after[d], d)
    <2>1. after[d] = WithDelegation(d, c, amount)
        BY <1>2, <1>3 DEF DelegateWrites
    <2>2. CASE IsDelegator(d)
        <3>1. d \in DOMAIN delegatorState /\ DelegatorOK(delegatorState[d])
            BY <2>2, RecordOK DEF IsDelegator
        <3>2. after[d].requests = delegatorState[d].requests
            BY <2>1, <2>2, <3>1 DEF WithDelegation, DelegatorOK
        <3> QED
            BY <3>1, <3>2 DEF RevokesOf
    <2>3. CASE ~IsDelegator(d)
        <3>1. after[d].requests = EmptyMap
            BY <2>1, <2>3 DEF WithDelegation, NewDelegator
        <3> QED
            BY <3>1 DEF RevokesOf, EmptyMap
    <2> QED
        BY <2>2, <2>3
<1>5. ASSUME NEW e \in DOMAIN after, e # d
      PROVE  RevokesOf(after[e], e)
    <2>1. /\ e \in DOMAIN delegatorState
          /\ \/ after[e] = delegatorState[e]
             \/ after[e] = WithoutRequest(WithoutDelegation(delegatorState[e], c), c)
        BY <1>2, <1>3, <1>5 DEF DelegateWrites
    <2>2. DelegatorOK(delegatorState[e])
        BY <2>1, RecordOK
    <2>3. CASE after[e] = delegatorState[e]
        BY <2>1, <2>3, SameKept
    <2>4. CASE after[e] = WithoutRequest(WithoutDelegation(delegatorState[e], c), c)
        <3>1. FewerRequests(after[e], delegatorState[e])
            BY <2>2, <2>4, WithoutFewer
        <3> QED
            BY <2>1, <3>1, FewerKept
    <2> QED
        BY <2>1, <2>3, <2>4
<1> QED
    BY <1>3, <1>4, <1>5 DEF RevokesKept

LEMMA RecordCallKeepsRevokes ==
    ASSUME LedgerInv, NEW d, NEW c, NEW more \in Nat,
           \/ ExecuteLeaveDelegators(d)
           \/ ExecuteRevokeDelegation(d, c)
           \/ ExecuteDelegationBondLess(d, c)
           \/ DelegatorBondMore(d, c, more)
    PROVE  RevokesKept
<1>1. CASE ExecuteLeaveDelegators(d)
    BY <1>1, SavedKept DEF ExecuteLeaveDelegators
<1>2. CASE ExecuteRevokeDelegation(d, c)
    <2>1. d \in DOMAIN delegatorState /\ DelegatorOK(delegatorState[d])
        BY <1>2, RevokeDoes, RecordOK
    <2>2. CASE delegatorState' = Drop(delegatorState, d)
        BY <2>2, SavedKept
    <2>3. CASE SaveDelegator(d, WithoutDelegation(
                                  WithoutRequest(delegatorState[d], c), c))
        <3>1. PICK new : new = WithoutDelegation(WithoutRequest(delegatorState[d], c), c)
            OBVIOUS
        <3>2. FewerRequests(new, delegatorState[d])
            BY <2>1, <3>1, WithoutFewer
        <3>3. RevokesOf(new, d)
            BY <2>1, <3>2, FewerKept
        <3> QED
            BY <2>1, <2>3, <3>1, <3>3, SavedKept
    <2> QED
        BY <1>2, <2>2, <2>3, RevokeDoes
<1>3. CASE ExecuteDelegationBondLess(d, c)
    <2>1. d \in DOMAIN delegatorState /\ DelegatorOK(delegatorState[d])
        BY <1>3, BondLessDoes, RecordOK
    <2>2. PICK new, less : /\ SaveDelegator(d, new)
                           /\ DecreasedBy(new, delegatorState[d], c, less)
        BY <1>3, BondLessDoes
    <2>3. FewerRequests(new, delegatorState[d])
        BY <2>1, <2>2, WithoutFewer DEF DecreasedBy, FewerRequests
    <2> QED
        BY <2>1, <2>2, <2>3, FewerKept, SavedKept
<1>4. CASE DelegatorBondMore(d, c, more)
    <2>1. d \in DOMAIN delegatorState /\ DelegatorOK(delegatorState[d])
        BY <1>4, DelegatorBondMoreDoes, RecordOK
    <2>2. PICK new : new = [ delegatorState[d] EXCEPT
                               !.delegations[c] = @ + more, !.total = @ + more ]
        OBVIOUS
    <2>3. SaveDelegator(d, new)
        BY <1>4, <2>2, DelegatorBondMoreDoes
    <2>4. new.requests = delegatorState[d].requests
        BY <2>1, <2>2 DEF DelegatorOK
    <2>5. FewerRequests(new, delegatorState[d])
        BY <2>4 DEF FewerRequests
    <2> QED
        BY <2>1, <2>3, <2>5, FewerKept, SavedKept
<1> QED
    BY <1>1, <1>2, <1>3, <1>4

LEMMA StepKeepsRevokes ==
    ASSUME LedgerInv, [Next]_vars
    PROVE  RevokesKept
<1>1. CASE UNCHANGED delegatorState
    BY <1>1, SavedKept
<1>2. CASE CandidateCall
    <2>1. ASSUME NEW c, ExecuteLeaveCandidates(c)
          PROVE  RevokesKept
        BY <2>1, CandidateExitKeepsRevokes
    <2>2. UNCHANGED delegatorState \/ \E c : ExecuteLeaveCandidates(c)
        BY <1>2 DEF CandidateCall, JoinCandidates, ScheduleLeaveCandidates,
                    CancelLeaveCandidates, GoOffline, GoOnline,
                    ExecuteCandidateBondLess, CancelCandidateBondLess,
                    CandidateBondMore, ScheduleCandidateBondLess
    <2> QED
        BY <1>1, <2>1, <2>2
<1>3. CASE DelegatorCall
    <2>1. /\ \A d \in Backers : d \in Accounts
          /\ 0 \in Nat /\ \A amount \in Amounts : amount \in Nat
        BY ConstantsType
    <2>2. PICK d \in Backers :
             \/ ScheduleLeaveDelegators(d)
             \/ CancelLeaveDelegators(d)
             \/ ExecuteLeaveDelegators(d)
             \/ \E c \in Joiners :
                  \/ ScheduleRevokeDelegation(d, c)
                  \/ ExecuteRevokeDelegation(d, c)
                  \/ ExecuteDelegationBondLess(d, c)
                  \/ CancelDelegationRequest(d, c)
                  \/ \E amount \in Amounts :
                       \/ Delegate(d, c, amount)
                       \/ DelegatorBondMore(d, c, amount)
                       \/ ScheduleDelegatorBondLess(d, c, amount)
        BY <1>3 DEF DelegatorCall, ExecuteDelegationRequest
    <2> QED
        BY <2>1, <2>2, RequestCallKeepsRevokes, RecordCallKeepsRevokes,
           DelegateKeepsRevokes
<1> QED
    BY <1>1, <1>2, <1>3 DEF Next, StartRound, vars

\* Then the two calls that might take off less do not.
LEMMA PrudentMoves ==
    ASSUME LedgerInv, BottomsExact, RevokesFull, StakeMoved
    PROVE  MovedExactly
<1>1. ASSUME NEW c \in DOMAIN candidateInfo, MovedByExit(c)
      PROVE  MovedExactly
    BY <1>1 DEF MovedByExit, MovedExactly, BottomsExact
<1>2. ASSUME NEW d \in DOMAIN delegatorState,
             NEW c \in DOMAIN delegatorState[d].delegations,
             delegatorState[d].requests[c].action = "Revoke", MovedByRevoke(d, c)
      PROVE  MovedExactly
    BY <1>2 DEF MovedByRevoke, RevokesFull
<1> QED
    BY <1>1, <1>2 DEF StakeMoved

\* Every account has reserved what it promised, and Total is the sum of it.
LedgersExact ==
    /\ \A a \in Accounts : reserved[a] = Promise(candidateInfo, delegatorState, a)
    /\ total = SumFunctionOnSet(reserved, Accounts)

LEMMA MovesKeepExact ==
    ASSUME LedgerInv, LedgerInv', LedgersExact, MovedExactly
    PROVE  LedgersExact'
<1>1. PICK gain, loss : Moves(gain, loss) /\ Precise(gain, loss)
    BY DEF MovedExactly
<1>2. /\ gain \in [Accounts -> Nat] /\ loss \in [Accounts -> Nat]
      /\ reserved \in [Accounts -> Nat] /\ reserved' \in [Accounts -> Nat]
      /\ total \in Nat
    BY <1>1 DEF Moves, LedgerInv, StakingInv, NumbersOK
<1>3. PICK after : after = reserved'
    OBVIOUS
<1>4. \A a \in Accounts : after[a] + loss[a] = reserved[a] + gain[a]
    <2>1. AllBacked
        BY <1>2, PromiseType DEF AllBacked, LedgersExact
    <2> QED
        BY <1>1, <1>3, <2>1, PromisesKept DEF KeptBacked
<1>5. ASSUME NEW a \in Accounts
      PROVE  after[a] = Promise(candidateInfo', delegatorState', a)
    <2>1. PICK p, q : /\ p = Promise(candidateInfo, delegatorState, a)
                      /\ q = Promise(candidateInfo', delegatorState', a)
        OBVIOUS
    <2>2. p \in Nat /\ q \in Nat
        BY <2>1, PromiseType, PromisePrimeType
    <2>3. p = reserved[a] /\ q + loss[a] = p + gain[a]
        BY <1>1, <2>1 DEF LedgersExact, Precise
    <2>4. after[a] + loss[a] = reserved[a] + gain[a]
        BY <1>4
    <2>5. /\ after[a] \in Nat /\ loss[a] \in Nat /\ gain[a] \in Nat
          /\ reserved[a] \in Nat
        BY <1>2, <1>3
    <2>6. after[a] = q
        BY <2>2, <2>3, <2>4, <2>5
    <2> QED
        BY <2>1, <2>6
<1>6. total' = SumFunctionOnSet(after, Accounts)
    <2> DEFINE f == [x \in Accounts |-> reserved[x] + gain[x]]
    <2>1. \A x \in Accounts : /\ reserved[x] \in Nat /\ gain[x] \in Nat
                              /\ f[x] = reserved[x] + gain[x]
                              /\ f[x] = after[x] + loss[x]
                              /\ after[x] \in Nat /\ loss[x] \in Nat
        BY <1>2, <1>3, <1>4
    <2>2. IsFiniteSet(Accounts)
        BY StakingAssumption
    <2> HIDE DEF f
    <2>3. SumFunctionOnSet(f, Accounts)
            = SumFunctionOnSet(reserved, Accounts) + SumFunctionOnSet(gain, Accounts)
        BY <2>1, <2>2, SumPlus
    <2>4. SumFunctionOnSet(f, Accounts)
            = SumFunctionOnSet(after, Accounts) + SumFunctionOnSet(loss, Accounts)
        BY <2>1, <2>2, SumPlus
    <2>5. PICK r, s, g, l \in Nat :
            /\ r = SumFunctionOnSet(reserved, Accounts)
            /\ s = SumFunctionOnSet(after, Accounts)
            /\ g = SumFunctionOnSet(gain, Accounts)
            /\ l = SumFunctionOnSet(loss, Accounts)
        BY <1>2, <1>3, SumsOfAccounts
    <2>6. total = r /\ r + g = s + l
        BY <2>3, <2>4, <2>5 DEF LedgersExact
    <2>7. total' = SaturatingSub(r + g, l)
        BY <1>1, <2>5, <2>6 DEF Precise
    <2>8. PICK n \in Nat : n = r + g
        BY <2>5
    <2>9. SaturatingSub(n, l) = n - l
        BY <2>5, <2>6, <2>8, SubBehaves
    <2>10. SaturatingSub(n, l) = s
        BY <2>5, <2>6, <2>8, <2>9
    <2> QED
        BY <2>5, <2>7, <2>8, <2>10
<1> QED
    BY <1>3, <1>5, <1>6 DEF LedgersExact

\* The sum over all accounts is that over the candidates and the delegators.
LEMMA ExactAgrees ==
    ASSUME LedgerInv, LedgersExact
    PROVE  LedgersAgree
<1> DEFINE C == DOMAIN candidateInfo
           D == DOMAIN delegatorState
           others == Accounts \ (C \union D)
           bonds == [c \in C |-> candidateInfo[c].bond]
           totals == [d \in D |-> delegatorState[d].total]
<1>1. /\ C \subseteq Accounts /\ D \subseteq Accounts /\ C \intersect D = {}
      /\ reserved \in [Accounts -> Nat]
    BY DEF LedgerInv, StakingInv, BooksOK, DelegatorsOK, RolesDisjoint, NumbersOK
<1>2. /\ \A a \in Accounts : reserved[a] \in Nat
      /\ \A c \in C : bonds[c] = reserved[c] /\ reserved[c] \in Nat
      /\ \A d \in D : totals[d] = reserved[d] /\ reserved[d] \in Nat
      /\ \A a \in others : reserved[a] = 0
    BY <1>1 DEF LedgersExact, Promise
<1>3. /\ IsFiniteSet(C) /\ IsFiniteSet(D) /\ IsFiniteSet(others)
      /\ IsFiniteSet(C \union D) /\ DOMAIN bonds = C /\ DOMAIN totals = D
    BY <1>1, StakingAssumption, FS_Subset
<1>4. /\ \A a \in Accounts :
           reserved[a] = IF IsCandidate(a) THEN candidateInfo[a].bond
                         ELSE IF IsDelegator(a) THEN delegatorState[a].total ELSE 0
      /\ total = SumFunctionOnSet(reserved, Accounts)
    BY DEF LedgersExact, Promise, IsCandidate, IsDelegator
<1>5. BondedStake = SumFunction(bonds) + SumFunction(totals)
    BY DEF BondedStake
<1>6. /\ Accounts = (C \union D) \union others
      /\ (C \union D) \intersect others = {}
    BY <1>1
<1> HIDE DEF C, D, others, bonds, totals
<1>7. /\ SumFunctionOnSet(bonds, C) = SumFunctionOnSet(reserved, C)
      /\ SumFunctionOnSet(totals, D) = SumFunctionOnSet(reserved, D)
    BY <1>2, <1>3, SumSame
<1>8. SumFunctionOnSet(reserved, others) = 0
    BY <1>2, <1>3, SumOfZeros
<1>9. SumFunctionOnSet(reserved, C \union D)
        = SumFunctionOnSet(reserved, C) + SumFunctionOnSet(reserved, D)
    <2>1. \A a \in C \union D : reserved[a] \in Nat
        BY <1>2
    <2> QED
        BY <1>1, <1>3, <2>1, SumUnion
<1>10. SumFunctionOnSet(reserved, Accounts)
         = SumFunctionOnSet(reserved, C \union D) + SumFunctionOnSet(reserved, others)
    <2>1. PICK S, R : S = C \union D /\ R = others
        OBVIOUS
    <2>2. /\ IsFiniteSet(S) /\ IsFiniteSet(R) /\ S \intersect R = {}
          /\ Accounts = S \union R /\ \A a \in S \union R : reserved[a] \in Nat
        BY <1>2, <1>3, <1>6, <2>1
    <2>3. SumFunctionOnSet(reserved, S \union R)
            = SumFunctionOnSet(reserved, S) + SumFunctionOnSet(reserved, R)
        BY <2>2, SumUnion
    <2> QED
        BY <2>1, <2>2, <2>3
<1>11. /\ SumFunctionOnSet(reserved, C) \in Nat
       /\ SumFunctionOnSet(reserved, D) \in Nat
    BY <1>2, <1>3, SumType
<1>12. total = BondedStake
    BY <1>3, <1>4, <1>5, <1>7, <1>8, <1>9, <1>10, <1>11 DEF SumFunction
<1> QED
    BY <1>4, <1>12 DEF LedgersAgree

\* Inductive for prudent steps.
ExactInv == LedgerInv /\ BottomsExact /\ RevokesFull /\ LedgersExact

LEMMA InitExact ==
    ASSUME Init
    PROVE  ExactInv
<1>1. LedgerInv
    BY InitBacked DEF StakeInv
<1>2. BottomsExact /\ RevokesFull
    BY DEF Init, BottomsExact, RevokesFull, EmptyMap
<1>3. \A a \in Accounts : reserved[a] = Promise(candidateInfo, delegatorState, a)
    BY DEF Init, Promise, EmptyMap
<1>4. SumFunctionOnSet(reserved, Accounts) = 0
    <2>1. \A a \in Accounts : reserved[a] = 0
        BY DEF Init
    <2> QED
        BY <2>1, StakingAssumption, SumOfZeros
<1> QED
    BY <1>1, <1>2, <1>3, <1>4 DEF ExactInv, LedgersExact, Init

LEMMA PrudentStepKeepsExact ==
    ASSUME ExactInv, Next /\ PrudentStep
    PROVE  ExactInv'
<1>1. LedgerInv /\ BottomsExact /\ RevokesFull /\ LedgersExact
    BY DEF ExactInv
<1>2. LedgerInv' /\ BottomsExact' /\ RevokesKept
    BY <1>1, StepKeepsLedger, StepKeepsExact, StepKeepsRevokes
<1>3. RevokesFull'
    BY <1>1, <1>2, RevokesStayFull
<1>4. MovedExactly
    BY <1>1, StepMoves, PrudentMoves
<1>5. LedgersExact'
    BY <1>1, <1>2, <1>4, MovesKeepExact
<1> QED
    BY <1>2, <1>3, <1>5 DEF ExactInv

\* As long as nobody tops up a delegation that is being revoked and nobody
\* takes stake off a bottom delegation, Total is what candidates and delegators
\* have bonded and every account has reserved just its part of it.
THEOREM PrudentLedgersAgree ==
    PrudentSpec => []LedgersAgree
<1>1. Init => ExactInv
    BY InitExact
<1>2. ExactInv /\ [Next /\ PrudentStep]_vars => ExactInv'
    <2>1. ASSUME ExactInv, UNCHANGED vars PROVE ExactInv'
        <3>1. /\ LedgerInv /\ BottomsExact /\ RevokesFull /\ LedgersExact
              /\ [Next]_vars
            BY <2>1 DEF ExactInv
        <3>2. LedgerInv'
            BY <3>1, StepKeepsLedger
        <3>3. BottomsExact'
            BY <2>1, <3>1, ExactKept DEF vars
        <3>4. RevokesFull'
            BY <2>1, <3>1 DEF vars, RevokesFull
        <3>5. LedgersExact'
            BY <2>1, <3>1 DEF vars, LedgersExact, Promise
        <3> QED
            BY <3>2, <3>3, <3>4, <3>5 DEF ExactInv
    <2> QED
        BY <2>1, PrudentStepKeepsExact
<1>3. ExactInv => LedgersAgree
    BY ExactAgrees DEF ExactInv
<1> QED
    BY <1>1, <1>2, <1>3, PTL DEF PrudentSpec

==============================================================================
