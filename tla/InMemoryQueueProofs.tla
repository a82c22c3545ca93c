------------------------- MODULE InMemoryQueueProofs -------------------------
(***************************************************************************)
(* What InMemoryQueue guarantees for every set of UUIDs, every number of   *)
(* threads that write, read and delete, and every interleaving of their    *)
(* accesses: the theorems at the end of the module.                        *)
(***************************************************************************)
EXTENDS InMemoryQueue, TLAPS, FiniteSetTheorems, SequenceTheorems

-----------------------------------------------------------------------------
(* The inductive invariant                                                 *)

Calling == {"writeAdd", "swapHead", "polled", "added", "removeHead", "removeTail"}

\* A thread has a reference exactly while it is to call the queue it loaded.
CallInv ==
    /\ \A t \in Threads :
          IF pc[t] \in Calling THEN ref[t] \in Queues ELSE ref[t] = NoQueue
    /\ \A t \in Writers : pc[t] \in WriterPC /\ id[t] = IdOf[t]
    /\ \A t \in Readers : pc[t] \in ReaderPC

NoDup(s) == \A m, n \in 1 .. Len(s) : s[m] = s[n] => m = n

Has(q, i) == Contains(items[q], i)

Holding == {"write", "writeAdd", "add", "added"}

\* Thread t is to add i, which is in no queue until it does.
Holds(t, i) == pc[t] \in Holding /\ id[t] = i

\* A message is once in one queue object, or in the hands of one thread, the
\* objects that are neither head nor tail any more included: a late add puts
\* messages there too.
OnceInv ==
    /\ \A q \in Queues : NoDup(items[q])
    /\ \A i \in Ids, p, q \in Queues : Has(p, i) /\ Has(q, i) => p = q
    /\ \A i \in Ids, t, u \in Threads : Holds(t, i) /\ Holds(u, i) => t = u
    /\ \A i \in Ids, t \in Threads, q \in Queues : Holds(t, i) => ~Has(q, i)

\* What a thread loaded for an add or a swap is still current when it calls.
SwapInv ==
    ~raced => \A t \in Threads :
        /\ pc[t] = "swapHead" => ref[t] = tail
        /\ pc[t] = "swapTail" => head = tail
        /\ pc[t] \in {"writeAdd", "added"} => ref[t] \in {head, tail}

Present(i) == Has(head, i) \/ Has(tail, i) \/ \E t \in Threads : Holds(t, i)

\* A message, from the start of its write on, is somewhere until it is deleted.
KeptInv ==
    ~raced => \A i \in {IdOf[w] : w \in Writers} \ deleted : Present(i)

QInv == TypeOK /\ CallInv /\ OnceInv /\ SwapInv /\ KeptInv

-----------------------------------------------------------------------------
(* Lemmas about sequences                                                  *)

LEMMA NatMin ==
    ASSUME NEW T \in SUBSET Nat, T # {}
    PROVE  Min(T) \in T
<1> DEFINE U == {1 .. n : n \in T}
<1>1. U \subseteq FiniteSubsetsOf(Nat) /\ U # {}
    <2>1. \A n \in T : IsFiniteSet(1 .. n) /\ 1 .. n \subseteq Nat
        BY FS_Interval
    <2> QED BY <2>1 DEF FiniteSubsetsOf
<1>2. PICK x \in U : \A y \in U : ~ (<<y, x>> \in StrictSubsetOrdering(Nat))
    <2> HIDE DEF U
    <2> QED BY <1>1, FS_StrictSubsetOrderingWellFounded, WFMin
<1>3. PICK m \in T : x = 1 .. m
    BY <1>2
<1>4. ASSUME NEW n \in T, n < m PROVE FALSE
    <2>1. 1 .. n \in U /\ 1 .. n \subseteq 1 .. m /\ 1 .. n # 1 .. m
        <3>1. m \in 1 .. m /\ m \notin 1 .. n
            BY <1>4
        <3> QED BY <1>4, <3>1
    <2>2. <<1 .. n, x>> \in StrictSubsetOrdering(Nat)
        BY <1>3, <2>1 DEF StrictSubsetOrdering
    <2> QED BY <1>2, <2>1, <2>2
<1>5. \A n \in T : m <= n
    BY <1>4
<1> QED BY <1>3, <1>5 DEF Min

LEMMA RemoveFirstIsRemoveAt ==
    ASSUME NEW S, NEW s \in Seq(S), NEW e, Contains(s, e)
    PROVE  \E k \in 1 .. Len(s) : s[k] = e /\ RemoveFirst(s, e) = RemoveAt(s, k)
<1> DEFINE I == {i \in 1 .. Len(s) : s[i] = e}
<1>1. I # {} /\ I \in SUBSET Nat
    BY DEF Contains
<1>2. Min(I) \in I
    BY <1>1, NatMin
<1>3. RemoveFirst(s, e) = RemoveAt(s, Min(I))
    BY <1>1 DEF RemoveFirst, SelectInSeq
<1> QED BY <1>2, <1>3

LEMMA RemoveAtElements ==
    ASSUME NEW S, NEW s \in Seq(S), NEW k \in 1 .. Len(s)
    PROVE  /\ RemoveAt(s, k) \in Seq(S)
           /\ Len(RemoveAt(s, k)) = Len(s) - 1
           /\ \A n \in 1 .. Len(s) - 1 :
                 RemoveAt(s, k)[n] = IF n < k THEN s[n] ELSE s[n + 1]
<1> DEFINE a == SubSeq(s, 1, k - 1)
           b == SubSeq(s, k + 1, Len(s))
<1>1. Len(s) \in Nat /\ \A i \in 1 .. Len(s) : s[i] \in S
    BY LenProperties, ElementOfSeq
<1>2. /\ a \in Seq(S) /\ Len(a) = k - 1
      /\ \A n \in 1 .. k - 1 : a[n] = s[n]
    BY <1>1, SubSeqProperties
<1>3. /\ b \in Seq(S) /\ Len(b) = Len(s) - k
      /\ \A n \in 1 .. Len(s) - k : b[n] = s[n + k]
    BY <1>1, SubSeqProperties
<1>4. RemoveAt(s, k) = a \o b
    BY DEF RemoveAt
<1> HIDE DEF a, b
<1>5. /\ a \o b \in Seq(S) /\ Len(a \o b) = Len(s) - 1
      /\ \A n \in 1 .. Len(s) - 1 :
            (a \o b)[n] = IF n <= k - 1 THEN a[n] ELSE b[n - (k - 1)]
    <2>1. /\ a \o b \in Seq(S) /\ Len(a \o b) = Len(a) + Len(b)
          /\ \A n \in 1 .. Len(a) + Len(b) :
                (a \o b)[n] = IF n <= Len(a) THEN a[n] ELSE b[n - Len(a)]
        BY <1>2, <1>3, ConcatProperties
    <2>2. Len(a) + Len(b) = Len(s) - 1
        BY <1>1, <1>2, <1>3
    <2> QED BY <1>2, <2>1, <2>2
<1>6. ASSUME NEW n \in 1 .. Len(s) - 1
      PROVE  (a \o b)[n] = IF n < k THEN s[n] ELSE s[n + 1]
    <2>1. CASE n < k
        BY <1>1, <1>2, <1>5, <2>1
    <2>2. CASE ~(n < k)
        <3>1. /\ n - (k - 1) \in 1 .. Len(s) - k /\ (n - (k - 1)) + k = n + 1
              /\ ~(n <= k - 1)
            BY <1>1, <2>2
        <3> QED BY <1>3, <1>5, <2>2, <3>1
    <2> QED BY <2>1, <2>2
<1> QED BY <1>4, <1>5, <1>6

LEMMA AppendElements ==
    ASSUME NEW S, NEW s \in Seq(S), NEW e \in S
    PROVE  /\ Append(s, e) \in Seq(S)
           /\ \A i : Contains(Append(s, e), i) <=> Contains(s, i) \/ i = e
           /\ NoDup(s) /\ ~Contains(s, e) => NoDup(Append(s, e))
<1>1. Len(s) \in Nat /\ Append(s, e) \in Seq(S)
    BY LenProperties, AppendProperties
<1>2. /\ Len(Append(s, e)) = Len(s) + 1
      /\ \A i \in 1 .. Len(s) : Append(s, e)[i] = s[i]
      /\ Append(s, e)[Len(s) + 1] = e
    BY AppendProperties
<1>3. 1 .. Len(s) + 1 = 1 .. Len(s) \cup {Len(s) + 1}
    BY <1>1
<1> QED BY <1>1, <1>2, <1>3 DEF Contains, NoDup

LEMMA TailElements ==
    ASSUME NEW S, NEW s \in Seq(S), s # <<>>
    PROVE  /\ Tail(s) \in Seq(S) /\ Head(s) \in S
           /\ Contains(s, Head(s))
           /\ \A i : Contains(s, i) <=> Contains(Tail(s), i) \/ i = Head(s)
           /\ NoDup(s) => NoDup(Tail(s)) /\ ~Contains(Tail(s), Head(s))
<1>1. /\ Tail(s) \in Seq(S) /\ Head(s) \in S /\ Len(s) \in Nat
      /\ Len(s) >= 1 /\ Len(Tail(s)) = Len(s) - 1 /\ Head(s) = s[1]
      /\ \A i \in 1 .. Len(s) - 1 : Tail(s)[i] = s[i + 1]
    BY HeadTailProperties, LenProperties, EmptySeq
<1>2. \A i \in 2 .. Len(s) : i - 1 \in 1 .. Len(s) - 1 /\ Tail(s)[i - 1] = s[i]
    BY <1>1
<1>3. 1 .. Len(s) = {1} \cup 2 .. Len(s)
    BY <1>1
<1>4. \A i \in 1 .. Len(s) - 1 : i + 1 \in 2 .. Len(s)
    BY <1>1
<1>5. \A i : Contains(s, i) <=> Contains(Tail(s), i) \/ i = Head(s)
    BY <1>1, <1>2, <1>3, <1>4 DEF Contains
<1>6. ASSUME NoDup(s)
      PROVE  NoDup(Tail(s)) /\ ~Contains(Tail(s), Head(s))
    <2>1. NoDup(Tail(s))
        BY <1>1, <1>6 DEF NoDup
    <2>2. ~Contains(Tail(s), Head(s))
        BY <1>1, <1>6 DEF NoDup, Contains
    <2> QED BY <2>1, <2>2
<1> QED BY <1>1, <1>5, <1>6

LEMMA RemoveFirstElements ==
    ASSUME NEW S, NEW s \in Seq(S), NEW e, Contains(s, e)
    PROVE  /\ RemoveFirst(s, e) \in Seq(S)
           /\ \A i : Contains(RemoveFirst(s, e), i) => Contains(s, i)
           /\ \A i : Contains(s, i) /\ i # e => Contains(RemoveFirst(s, e), i)
           /\ NoDup(s) => NoDup(RemoveFirst(s, e))
<1>1. PICK k \in 1 .. Len(s) : s[k] = e /\ RemoveFirst(s, e) = RemoveAt(s, k)
    BY RemoveFirstIsRemoveAt
<1> DEFINE r == RemoveAt(s, k)
<1>2. /\ r \in Seq(S) /\ Len(r) = Len(s) - 1 /\ Len(s) \in Nat
      /\ \A n \in 1 .. Len(s) - 1 : r[n] = IF n < k THEN s[n] ELSE s[n + 1]
    BY RemoveAtElements, LenProperties
<1> HIDE DEF r
<1>3. ASSUME NEW i, Contains(r, i) PROVE Contains(s, i)
    BY <1>2, <1>3 DEF Contains
<1>4. ASSUME NEW i, Contains(s, i), i # e PROVE Contains(r, i)
    <2>1. PICK n \in 1 .. Len(s) : s[n] = i
        BY <1>4 DEF Contains
    <2>2. n # k
        BY <1>1, <1>4, <2>1
    <2>3. CASE n < k
        BY <1>2, <2>1, <2>3 DEF Contains
    <2>4. CASE n > k
        <3>1. n - 1 \in 1 .. Len(s) - 1 /\ ~(n - 1 < k) /\ (n - 1) + 1 = n
            BY <1>2, <2>4
        <3>2. r[n - 1] = i
            BY <1>2, <2>1, <3>1
        <3> QED BY <1>2, <3>1, <3>2 DEF Contains
    <2> QED BY <1>2, <2>2, <2>3, <2>4
<1>5. ASSUME NoDup(s) PROVE NoDup(r)
    <2> DEFINE at(n) == IF n < k THEN n ELSE n + 1
    <2>1. \A n \in 1 .. Len(r) : at(n) \in 1 .. Len(s) /\ r[n] = s[at(n)]
        BY <1>2
    <2>2. \A m, n \in 1 .. Len(r) : at(m) = at(n) => m = n
        BY <1>2
    <2> HIDE DEF at
    <2> QED BY <1>5, <2>1, <2>2 DEF NoDup
<1> QED BY <1>1, <1>2, <1>3, <1>4, <1>5 DEF r
-----------------------------------------------------------------------------
(* Queue objects                                                           *)

\* SwapTail finds an object that is neither head nor tail: there is one more
\* than the head, the tail and the other threads can refer to.
LEMMA FreshExists ==
    ASSUME TypeOK, CallInv, NEW t \in Threads, pc[t] = "swapTail"
    PROVE  Fresh \in Queues \ {head, tail}
<1> DEFINE Q == Queues \ {head, tail}
           others == Threads \ {t}
<1>1. \E q \in Q : \A u \in Threads : ref[u] # q
    <2> SUFFICES ASSUME \A q \in Q : \E u \in Threads : ref[u] = q
                 PROVE  FALSE
        OBVIOUS
    <2>1. ref[t] = NoQueue
        BY DEF CallInv, Calling
    <2>2. \A q \in Q : \E u \in others : ref[u] = q
        BY <2>1, InMemoryQueueAssumption
    <2> DEFINE f == [q \in Q |-> CHOOSE u \in others : ref[u] = q]
    <2>3. \A q \in Q : f[q] \in others /\ ref[f[q]] = q
        BY <2>2
    <2>4. f \in Injection(Q, others)
        BY <2>3 DEF Injection, IsInjective
    <2>5. /\ IsFiniteSet(others) /\ Cardinality(others) = Cardinality(Threads) - 1
          /\ Cardinality(Threads) \in Nat
        BY FS_RemoveElement, FS_CardinalityType, InMemoryQueueAssumption
    <2>6. IsFiniteSet(Q) /\ Cardinality(Q) <= Cardinality(others)
        <3>1. IsFiniteSet(Q)
            BY FS_Subset, InMemoryQueueAssumption
        <3> HIDE DEF Q, others, f
        <3> QED BY <2>4, <2>5, <3>1, FS_Injection
    <2>7. Cardinality(Q) >= Cardinality(Queues) - 2 /\ Cardinality(Q) \in Nat
        <3>1. /\ IsFiniteSet(Queues \ {head})
              /\ Cardinality(Queues \ {head}) = Cardinality(Queues) - 1
            BY FS_RemoveElement, InMemoryQueueAssumption DEF TypeOK
        <3>2. Q = (Queues \ {head}) \ {tail}
            OBVIOUS
        <3>3. Cardinality(Queues \ {head}) \in Nat
            BY <3>1, FS_CardinalityType
        <3>4. \/ Cardinality(Q) = Cardinality(Queues \ {head})
              \/ Cardinality(Q) = Cardinality(Queues \ {head}) - 1
            <4>1. CASE tail \in Queues \ {head}
                BY <3>1, <3>2, <4>1, FS_RemoveElement
            <4>2. CASE tail \notin Queues \ {head}
                <5>1. Q = Queues \ {head}
                    BY <3>2, <4>2
                <5> QED BY <5>1
            <4> QED BY <4>1, <4>2
        <3>5. Cardinality(Queues) \in Nat /\ Cardinality(Q) \in Nat
            BY <2>6, FS_CardinalityType, InMemoryQueueAssumption
        <3> HIDE DEF Q
        <3> QED BY <3>1, <3>3, <3>4, <3>5
    <2> HIDE DEF Q, others, f
    <2>8. Cardinality(Queues) >= 2 + Cardinality(Threads) /\ Cardinality(Queues) \in Nat
        BY FS_CardinalityType, InMemoryQueueAssumption
    <2> QED BY <2>5, <2>6, <2>7, <2>8
<1> QED BY <1>1 DEF Fresh

\* The constructor makes two queue objects.
LEMMA TwoQueues ==
    \E p, q \in Queues : p # q
<1>1. /\ IsFiniteSet(Queues) /\ Cardinality(Queues) \in Nat
      /\ Cardinality(Threads) \in Nat
      /\ Cardinality(Queues) >= 2 + Cardinality(Threads)
    BY FS_CardinalityType, InMemoryQueueAssumption
<1>2. PICK p \in Queues : TRUE
    BY <1>1, FS_EmptySet
<1>3. Queues # {p}
    BY <1>1, FS_Singleton
<1> QED BY <1>2, <1>3

-----------------------------------------------------------------------------
(* What a step leaves as it is                                             *)

\* A thread that has a reference while it is to make a call.
LEMMA CallsKept ==
    ASSUME TypeOK, CallInv, NEW t \in Threads, NEW l, NEW q,
           GoTo(t, l), Load(t, q),
           IF l \in Calling THEN q \in Queues ELSE q = NoQueue,
           t \in Writers => l \in WriterPC /\ id'[t] = id[t],
           t \in Readers => l \in ReaderPC,
           \A u \in Threads \ {t} : id'[u] = id[u]
    PROVE  CallInv'
BY DEF TypeOK, CallInv, GoTo, Load, Threads

\* A step that changes no queue and takes no message.
LEMMA OnceKept ==
    ASSUME TypeOK, OnceInv, NEW t \in Threads, NEW l, GoTo(t, l),
           UNCHANGED items,
           l \in Holding => pc[t] \in Holding /\ id'[t] = id[t],
           \A u \in Threads \ {t} : id'[u] = id[u]
    PROVE  OnceInv'
<1>1. \A u \in Threads, i \in Ids : Holds(u, i)' => Holds(u, i)
    BY DEF TypeOK, GoTo, Holds
<1>2. \A q \in Queues, i \in Ids : Has(q, i)' <=> Has(q, i)
    BY DEF Has
<1>3. \A q \in Queues : NoDup(items[q])'
    BY DEF OnceInv
<1> QED BY <1>1, <1>2, <1>3 DEF OnceInv

\* A step that swaps nothing and loads what is current.
LEMMA SwapKept ==
    ASSUME TypeOK, SwapInv, NEW t \in Threads, NEW l, NEW q,
           GoTo(t, l), Load(t, q), UNCHANGED <<fields, raced>>,
           l # "swapTail",
           l = "swapHead" => q = tail,
           l \in {"writeAdd", "added"} => q \in {head, tail}
    PROVE  SwapInv'
BY DEF TypeOK, SwapInv, GoTo, Load, fields

\* A step after which every message is present that was, or is deleted.
LEMMA PresentKept ==
    ASSUME KeptInv, UNCHANGED raced, deleted \subseteq deleted',
           \A i \in Ids \ deleted' : Present(i) => Present(i)'
    PROVE  KeptInv'
BY InMemoryQueueAssumption DEF KeptInv

\* A step that changes no queue and lets go of no message.
LEMMA QuietKept ==
    ASSUME TypeOK, KeptInv, NEW t \in Threads, NEW l, GoTo(t, l),
           UNCHANGED <<items, fields, deleted, raced>>,
           pc[t] \in Holding => l \in Holding /\ id'[t] = id[t],
           \A u \in Threads \ {t} : id'[u] = id[u]
    PROVE  KeptInv'
<1>1. \A u \in Threads, i \in Ids : Holds(u, i) => Holds(u, i)'
    BY DEF TypeOK, GoTo, Holds
<1>2. \A i \in Ids : (Has(head, i) <=> Has(head, i)') /\ (Has(tail, i) <=> Has(tail, i)')
    BY DEF Has, fields
<1>3. \A i \in Ids : Present(i) => Present(i)'
    BY <1>1, <1>2 DEF Present
<1> QED BY <1>3, PresentKept

-----------------------------------------------------------------------------
(* A step that changes no queue                                            *)

\* Thread t goes on to l, with the reference q.
Quiet(t, l, q) ==
    /\ GoTo(t, l) /\ Load(t, q)
    /\ UNCHANGED <<items, fields, deleted, raced>>
    /\ l \in Holding <=> pc[t] \in Holding
    /\ l \in Holding => id'[t] = id[t]
    /\ IF l \in Calling THEN q \in Queues ELSE q = NoQueue
    /\ l # "swapTail"
    /\ l = "swapHead" => q = tail
    /\ l \in {"writeAdd", "added"} => q \in {head, tail}
    /\ t \in Writers => l \in WriterPC /\ id'[t] = id[t]
    /\ t \in Readers => l \in ReaderPC
    /\ \A u \in Threads \ {t} : id'[u] = id[u]

\* Such a step keeps the invariant.
LEMMA QuietKeepsQInv ==
    ASSUME QInv, TypeOK', NEW t \in Threads, NEW l, NEW q, Quiet(t, l, q)
    PROVE  QInv'
<1>1. CallInv'
    BY CallsKept DEF QInv, Quiet
<1>2. OnceInv'
    BY OnceKept DEF QInv, Quiet
<1>3. SwapInv'
    BY SwapKept DEF QInv, Quiet
<1>4. KeptInv'
    BY QuietKept DEF QInv, Quiet
<1> QED BY <1>1, <1>2, <1>3, <1>4 DEF QInv

-----------------------------------------------------------------------------
(* Steps that change no queue                                              *)

\* A remove that does not find the message.
Misses(t) == (RemoveHead(t) \/ RemoveTail(t)) /\ ~Has(ref[t], id[t])

\* The steps that only load a field, look at a queue or end a job.
QuietAction(t) ==
    \/ WriteLoad(t) \/ ReadHead(t) \/ ReadTail(t) \/ SwapLoad(t) \/ PollLoad(t)
    \/ PollNothing(t) \/ AddLoad(t) \/ Skip(t) \/ Leave(t) \/ End(t)
    \/ OrTailLoad(t) \/ Misses(t)

\* The thread of an action is a writer or a reader, as its label says.
LEMMA ByLabel ==
    ASSUME CallInv, NEW t \in Threads
    PROVE  /\ t \in Writers <=> t \notin Readers
           /\ pc[t] \in WriterPC <=> t \in Writers
           /\ pc[t] \in ReaderPC <=> t \in Readers
BY InMemoryQueueAssumption DEF CallInv, WriterPC, ReaderPC, Threads

LEMMA MissedTyped ==
    ASSUME TypeOK, NEW t \in Threads, Misses(t)
    PROVE  missed' \in BOOLEAN
<1>1. missed \in BOOLEAN
    BY DEF TypeOK
<1>2. CASE RemoveHead(t)
    BY <1>1, <1>2 DEF RemoveHead
<1>3. CASE RemoveTail(t)
    <2>1. missed' = (missed \/ job[id[t]] = "error")
        BY <1>3 DEF Misses, RemoveTail, Has
    <2> QED BY <2>1, Zenon
<1> QED BY <1>2, <1>3 DEF Misses

\* The types after a quiet action: a UUID is in hand where the labels say so.
LEMMA QuietTyped ==
    ASSUME TypeOK, CallInv, NEW t \in Threads, QuietAction(t)
    PROVE  TypeOK'
<1> USE ByLabel, InMemoryQueueAssumption
        DEF TypeOK, CallInv, Calling, GoTo, Load, Called, WriterPC, ReaderPC,
            fields, jobs, history
<1>1. CASE WriteLoad(t)
    BY <1>1 DEF WriteLoad
<1>2. CASE ReadHead(t)
    BY <1>2 DEF ReadHead
<1>3. CASE ReadTail(t)
    BY <1>3 DEF ReadTail
<1>4. CASE SwapLoad(t)
    BY <1>4 DEF SwapLoad
<1>5. CASE PollLoad(t)
    BY <1>5 DEF PollLoad
<1>6. CASE PollNothing(t)
    BY <1>6 DEF PollNothing, Returns
<1>7. CASE AddLoad(t)
    BY <1>7 DEF AddLoad
<1>8. CASE Skip(t)
    BY <1>8 DEF Skip, Drop
<1>9. CASE Leave(t)
    BY <1>9 DEF Leave, Drop, Returns
<1>10. CASE End(t)
    BY <1>10 DEF End, Returns
<1>11. CASE OrTailLoad(t)
    BY <1>11 DEF OrTailLoad
<1>12. CASE Misses(t)
    <2>1. /\ UNCHANGED <<items, fields, job, popping, deleted, raced>>
          /\ t \in Readers /\ pc[t] \in {"removeHead", "removeTail"}
          /\ ref' = [ref EXCEPT ![t] = NoQueue]
        BY <1>12 DEF Misses, Has, RemoveHead, RemoveTail
    <2>2. \/ /\ pc' = [pc EXCEPT ![t] = "orTail"]
             /\ UNCHANGED id
          \/ /\ pc' = [pc EXCEPT ![t] = "idle"]
             /\ id' = [id EXCEPT ![t] = NoId]
        BY <1>12 DEF Misses, Has, RemoveHead, RemoveTail, Drop
    <2>3. missed' \in BOOLEAN
        BY <1>12, MissedTyped
    <2>4. /\ pc' \in [Threads -> WriterPC \cup ReaderPC]
          /\ id' \in [Threads -> Ids \cup {NoId}]
          /\ ref' \in [Threads -> Queues \cup {NoQueue}]
        BY <2>1, <2>2
    <2>5. \A u \in Readers :
             pc'[u] \in {"add", "added", "read", "removeHead", "orTail", "removeTail"}
             <=> id'[u] \in Ids
        BY <2>1, <2>2 DEF Threads
    <2> QED BY <2>1, <2>3, <2>4, <2>5
<1> QED BY <1>1, <1>2, <1>3, <1>4, <1>5, <1>6, <1>7, <1>8, <1>9, <1>10, <1>11,
           <1>12
        DEF QuietAction

\* What such a step loads is current, and fits the call it is to make.
LEMMA QuietActionIsQuiet ==
    ASSUME TypeOK, CallInv, NEW t \in Threads, QuietAction(t)
    PROVE  Quiet(t, pc'[t], ref'[t])
<1> USE ByLabel, InMemoryQueueAssumption
        DEF TypeOK, CallInv, Calling, Holding, GoTo, Load, Called, WriterPC,
            ReaderPC, fields, jobs, history, Quiet
<1>1. CASE WriteLoad(t)
    BY <1>1 DEF WriteLoad
<1>2. CASE ReadHead(t)
    BY <1>2 DEF ReadHead
<1>3. CASE ReadTail(t)
    BY <1>3 DEF ReadTail
<1>4. CASE SwapLoad(t)
    BY <1>4 DEF SwapLoad
<1>5. CASE PollLoad(t)
    BY <1>5 DEF PollLoad
<1>6. CASE PollNothing(t)
    BY <1>6 DEF PollNothing, Returns
<1>7. CASE AddLoad(t)
    BY <1>7 DEF AddLoad
<1>8. CASE Skip(t)
    BY <1>8 DEF Skip, Drop
<1>9. CASE Leave(t)
    BY <1>9 DEF Leave, Drop, Returns
<1>10. CASE End(t)
    BY <1>10 DEF End, Returns
<1>11. CASE OrTailLoad(t)
    BY <1>11 DEF OrTailLoad
<1>12. CASE Misses(t)
    BY <1>12 DEF Misses, Has, RemoveHead, RemoveTail, Drop
<1> QED BY <1>1, <1>2, <1>3, <1>4, <1>5, <1>6, <1>7, <1>8, <1>9, <1>10, <1>11,
           <1>12
        DEF QuietAction

LEMMA QuietActionKeepsQInv ==
    ASSUME QInv, NEW t \in Threads, QuietAction(t)
    PROVE  QInv'
<1>1. Quiet(t, pc'[t], ref'[t])
    BY QuietActionIsQuiet DEF QInv
<1> QED BY <1>1, QuietTyped, QuietKeepsQInv DEF QInv

-----------------------------------------------------------------------------
(* Adding a message: the call of WriteAdd and of ReadAdd                   *)

AddAction(t) == WriteAdd(t) \/ ReadAdd(t)

\* The message that t holds goes to the end of the queue that t loaded.
LEMMA AddEffect ==
    ASSUME TypeOK, CallInv, NEW t \in Threads, AddAction(t)
    PROVE  /\ TypeOK' /\ CallInv'
           /\ ref[t] \in Queues /\ id[t] \in Ids /\ Holds(t, id[t])
           /\ pc[t] \in {"writeAdd", "added"}
           /\ items' = [items EXCEPT ![ref[t]] = Append(@, id[t])]
           /\ pc' = [pc EXCEPT ![t] = IF t \in Writers THEN "written" ELSE "read"]
           /\ ref' = [ref EXCEPT ![t] = NoQueue]
           /\ UNCHANGED <<fields, id, jobs, history>>
<1>1. /\ ref[t] \in Queues /\ id[t] \in Ids /\ Holds(t, id[t])
      /\ pc[t] \in {"writeAdd", "added"}
    BY InMemoryQueueAssumption DEF TypeOK, CallInv, Calling, Holds, Holding, AddAction,
       WriteAdd, ReadAdd, WriterPC, ReaderPC, Threads
<1>2. /\ items' = [items EXCEPT ![ref[t]] = Append(@, id[t])]
      /\ pc' = [pc EXCEPT ![t] = IF t \in Writers THEN "written" ELSE "read"]
      /\ ref' = [ref EXCEPT ![t] = NoQueue]
      /\ UNCHANGED <<fields, id, jobs, history>>
    BY ByLabel DEF AddAction, WriteAdd, ReadAdd, Add, Called, Load, GoTo,
       WriterPC, ReaderPC
<1>3. items' \in [Queues -> Seq(Ids)]
    <2>1. Append(items[ref[t]], id[t]) \in Seq(Ids)
        BY <1>1, AppendElements DEF TypeOK
    <2> QED BY <1>2, <2>1 DEF TypeOK
<1>4. TypeOK'
    BY <1>1, <1>2, <1>3, ByLabel
       DEF TypeOK, WriterPC, ReaderPC, fields, jobs, history
<1>5. CallInv'
    BY <1>2, ByLabel DEF TypeOK, CallInv, Calling, WriterPC, ReaderPC
<1> QED BY <1>1, <1>2, <1>4, <1>5

\* The queues after the message was added.
LEMMA AddItems ==
    ASSUME TypeOK, NEW p \in Queues, NEW i \in Ids,
           items' = [items EXCEPT ![p] = Append(@, i)]
    PROVE  /\ \A q \in Queues : \A j : Has(q, j)' <=> Has(q, j) \/ (q = p /\ j = i)
           /\ \A q \in Queues : NoDup(items[q]) /\ ~Has(q, i) => NoDup(items[q])'
<1>1. /\ \A j : Contains(Append(items[p], i), j) <=> Contains(items[p], j) \/ j = i
      /\ NoDup(items[p]) /\ ~Contains(items[p], i) => NoDup(Append(items[p], i))
    BY AppendElements DEF TypeOK
<1>2. /\ items'[p] = Append(items[p], i)
      /\ \A q \in Queues \ {p} : items'[q] = items[q]
    BY DEF TypeOK
<1>3. ASSUME NEW q \in Queues, NEW j
      PROVE  Has(q, j)' <=> Has(q, j) \/ (q = p /\ j = i)
    BY <1>1, <1>2 DEF Has
<1>4. ASSUME NEW q \in Queues, NoDup(items[q]), ~Has(q, i)
      PROVE  NoDup(items[q])'
    <2>1. CASE q = p
        <3>1. NoDup(items'[p])
            BY <1>1, <1>2, <1>4, <2>1 DEF Has
        <3> QED BY <2>1, <3>1 DEF NoDup
    <2>2. CASE q # p
        <3>1. items'[q] = items[q]
            BY <1>2, <2>2
        <3> QED BY <1>4, <3>1 DEF NoDup
    <2> QED BY <2>1, <2>2
<1> QED BY <1>3, <1>4

LEMMA AddKeepsQInv ==
    ASSUME QInv, NEW t \in Threads, AddAction(t)
    PROVE  QInv'
<1>1. /\ TypeOK' /\ CallInv'
      /\ ref[t] \in Queues /\ id[t] \in Ids /\ Holds(t, id[t])
      /\ pc[t] \in {"writeAdd", "added"}
      /\ items' = [items EXCEPT ![ref[t]] = Append(@, id[t])]
      /\ pc' = [pc EXCEPT ![t] = IF t \in Writers THEN "written" ELSE "read"]
      /\ ref' = [ref EXCEPT ![t] = NoQueue]
      /\ UNCHANGED <<fields, id, jobs, history>>
    BY AddEffect DEF QInv
<1>2. PICK p \in Queues, i \in Ids : p = ref[t] /\ i = id[t]
    BY <1>1
<1>3. /\ \A q \in Queues : \A j : Has(q, j)' <=> Has(q, j) \/ (q = p /\ j = i)
      /\ \A q \in Queues : NoDup(items[q]) /\ ~Has(q, i) => NoDup(items[q])'
    BY <1>1, <1>2, AddItems DEF QInv
<1>4. \A q \in Queues : ~Has(q, i)
    BY <1>1, <1>2 DEF QInv, OnceInv
<1>5. /\ \A u \in Threads, j \in Ids : Holds(u, j)' <=> Holds(u, j) /\ u # t
      /\ \A j : Holds(t, j) => j = i
    BY <1>1, <1>2 DEF QInv, TypeOK, Holds, Holding
<1>6. OnceInv'
    <2>1. \A q \in Queues : NoDup(items[q])'
        BY <1>3, <1>4 DEF QInv, OnceInv
    <2>2. \A j \in Ids, q, r \in Queues : Has(q, j)' /\ Has(r, j)' => q = r
        BY <1>3, <1>4 DEF QInv, OnceInv
    <2>3. \A j \in Ids, u, v \in Threads : Holds(u, j)' /\ Holds(v, j)' => u = v
        BY <1>5 DEF QInv, OnceInv
    <2>4. \A j \in Ids, u \in Threads, q \in Queues : Holds(u, j)' => ~Has(q, j)'
        <3>1. \A u \in Threads : Holds(u, i) => u = t
            BY <1>1, <1>2 DEF QInv, OnceInv
        <3> QED BY <1>3, <1>5, <3>1 DEF QInv, OnceInv
    <2> QED BY <2>1, <2>2, <2>3, <2>4 DEF OnceInv
<1>7. SwapInv'
    BY <1>1 DEF QInv, TypeOK, SwapInv, fields, history
<1>8. KeptInv'
    <2>1. CASE raced
        BY <1>1, <2>1 DEF KeptInv, history
    <2>2. CASE ~raced
        <3>1. p \in {head, tail}
            BY <1>1, <1>2, <2>2 DEF QInv, SwapInv
        <3>2. \A j \in Ids : Present(j) => Present(j)'
            <4>1. head' = head /\ tail' = tail /\ head \in Queues /\ tail \in Queues
                BY <1>1 DEF QInv, TypeOK, fields
            <4> QED BY <1>3, <1>5, <3>1, <4>1 DEF Present, Has
        <3> QED BY <1>1, <3>2, PresentKept DEF QInv, history
    <2> QED BY <2>1, <2>2
<1> QED BY <1>1, <1>6, <1>7, <1>8 DEF QInv

-----------------------------------------------------------------------------
(* Taking a message out of a queue: the poll of a read, and delete         *)

\* The queues after one message i was taken from p: every other one is where
\* it was.
LEMMA TakeItems ==
    ASSUME TypeOK, OnceInv, NEW p \in Queues, NEW s \in Seq(Ids), NEW i,
           items' = [items EXCEPT ![p] = s],
           \A j : Contains(s, j) => Has(p, j),
           \A j : Has(p, j) /\ j # i => Contains(s, j),
           NoDup(s)
    PROVE  /\ \A q \in Queues : \A j : Has(q, j)' => Has(q, j)
           /\ \A q \in Queues : \A j : Has(q, j) /\ j # i => Has(q, j)'
           /\ \A q \in Queues : NoDup(items[q])'
<1>1. items'[p] = s /\ \A q \in Queues \ {p} : items'[q] = items[q]
    BY DEF TypeOK
<1>2. ASSUME NEW q \in Queues
      PROVE  NoDup(items[q])'
    <2>1. NoDup(items'[q])
        BY <1>1 DEF OnceInv
    <2> QED BY <2>1 DEF NoDup
<1>3. /\ \A q \in Queues : \A j : Has(q, j)' => Has(q, j)
      /\ \A q \in Queues : \A j : Has(q, j) /\ j # i => Has(q, j)'
    BY <1>1 DEF Has
<1> QED BY <1>2, <1>3

\* What Poll(t) takes is in the queue that t loaded.
LEMMA PollEffect ==
    ASSUME TypeOK, CallInv, OnceInv, NEW t \in Threads, Poll(t)
    PROVE  \E p \in Queues, i \in Ids :
              /\ TypeOK' /\ CallInv'
              /\ Has(p, i) /\ ~Has(p, i)'
              /\ \A q \in Queues : \A j : Has(q, j)' => Has(q, j)
              /\ \A q \in Queues : \A j : Has(q, j) /\ j # i => Has(q, j)'
              /\ \A q \in Queues : NoDup(items[q])'
              /\ pc' = [pc EXCEPT ![t] = "add"]
              /\ id' = [id EXCEPT ![t] = i]
              /\ ref' = [ref EXCEPT ![t] = NoQueue]
<1> DEFINE p == ref[t]
           s == Tail(items[p])
           i == Head(items[p])
<1>1. t \in Readers /\ pc[t] = "polled"
    BY ByLabel DEF Poll, ReaderPC
<1>2. p \in Queues /\ items[p] \in Seq(Ids) /\ items[p] # <<>>
    BY <1>1 DEF TypeOK, CallInv, Calling, Poll
<1>3. /\ s \in Seq(Ids) /\ i \in Ids /\ Has(p, i)
      /\ \A j : Contains(s, j) => Has(p, j)
      /\ \A j : Has(p, j) /\ j # i => Contains(s, j)
      /\ NoDup(s) /\ ~Contains(s, i)
    <2>1. NoDup(items[p])
        BY <1>2 DEF OnceInv
    <2> QED BY <1>2, <2>1, TailElements DEF Has
<1>4. /\ items' = [items EXCEPT ![p] = s]
      /\ pc' = [pc EXCEPT ![t] = "add"]
      /\ id' = [id EXCEPT ![t] = i]
      /\ ref' = [ref EXCEPT ![t] = NoQueue]
      /\ UNCHANGED <<fields, jobs, history>>
    BY DEF Poll, GoTo, Called, Load
<1>5. PICK q \in Queues, j \in Ids : q = p /\ j = i
    BY <1>2, <1>3
<1> HIDE DEF p, s, i
<1>6. /\ \A r \in Queues : \A k : Has(r, k)' => Has(r, k)
      /\ \A r \in Queues : \A k : Has(r, k) /\ k # j => Has(r, k)'
      /\ \A r \in Queues : NoDup(items[r])'
    BY <1>2, <1>3, <1>4, <1>5, TakeItems
<1>7. Has(q, j) /\ ~Has(q, j)'
    <2>1. items'[q] = s
        BY <1>2, <1>4, <1>5 DEF TypeOK
    <2> QED BY <1>3, <1>5, <2>1 DEF Has
<1>8. TypeOK'
    <2>1. items' \in [Queues -> Seq(Ids)]
        BY <1>2, <1>3, <1>4 DEF TypeOK
    <2> QED BY <1>1, <1>3, <1>4, <2>1, InMemoryQueueAssumption, ByLabel
            DEF TypeOK, ReaderPC, WriterPC, fields, jobs, history
<1>9. CallInv'
    BY <1>1, <1>4, ByLabel DEF TypeOK, CallInv, Calling, ReaderPC
<1> QED BY <1>4, <1>5, <1>6, <1>7, <1>8, <1>9

LEMMA PollKeepsQInv ==
    ASSUME QInv, NEW t \in Threads, Poll(t)
    PROVE  QInv'
<1>1. PICK p \in Queues, i \in Ids :
              /\ TypeOK' /\ CallInv'
              /\ Has(p, i) /\ ~Has(p, i)'
              /\ \A q \in Queues : \A j : Has(q, j)' => Has(q, j)
              /\ \A q \in Queues : \A j : Has(q, j) /\ j # i => Has(q, j)'
              /\ \A q \in Queues : NoDup(items[q])'
              /\ pc' = [pc EXCEPT ![t] = "add"]
              /\ id' = [id EXCEPT ![t] = i]
              /\ ref' = [ref EXCEPT ![t] = NoQueue]
    BY PollEffect DEF QInv
<1>2. pc[t] = "polled" /\ UNCHANGED <<fields, deleted, raced>>
    BY DEF Poll, history
<1>3. /\ \A u \in Threads : \A j : Holds(u, j)' <=> Holds(u, j) \/ (u = t /\ j = i)
      /\ \A j : ~Holds(t, j)
    BY <1>1, <1>2 DEF QInv, TypeOK, Holds, Holding
<1>4. OnceInv'
    <2>1. \A q \in Queues : ~Has(q, i)'
        BY <1>1 DEF QInv, OnceInv
    <2>2. \A u \in Threads : ~Holds(u, i)
        BY <1>1 DEF QInv, OnceInv
    <2>3. \A j \in Ids, q, r \in Queues : Has(q, j)' /\ Has(r, j)' => q = r
        BY <1>1 DEF QInv, OnceInv
    <2>4. \A j \in Ids, u, v \in Threads : Holds(u, j)' /\ Holds(v, j)' => u = v
        BY <1>3, <2>2 DEF QInv, OnceInv
    <2>5. \A j \in Ids, u \in Threads, q \in Queues : Holds(u, j)' => ~Has(q, j)'
        BY <1>1, <1>3, <2>1 DEF QInv, OnceInv
    <2> QED BY <1>1, <2>3, <2>4, <2>5 DEF OnceInv
<1>5. SwapInv'
    BY <1>1, <1>2 DEF QInv, TypeOK, SwapInv, fields
<1>6. KeptInv'
    <2>1. \A j \in Ids : Present(j) => Present(j)'
        <3>1. head' = head /\ tail' = tail /\ head \in Queues /\ tail \in Queues
            BY <1>2 DEF QInv, TypeOK, fields
        <3>2. \A q \in {head, tail}, j \in Ids \ {i} : Has(q, j) => Has(q, j)'
            BY <1>1, <3>1
        <3>3. ASSUME NEW j \in Ids \ {i}, Present(j) PROVE Present(j)'
            BY <1>3, <3>1, <3>2, <3>3 DEF Present, Has
        <3>4. Present(i)'
            BY <1>3 DEF Present
        <3> QED BY <3>3, <3>4
    <2> QED BY <1>2, <2>1, PresentKept DEF QInv
<1> QED BY <1>1, <1>4, <1>5, <1>6 DEF QInv

\* A delete that finds its message.
Removes(t) == (RemoveHead(t) \/ RemoveTail(t)) /\ Has(ref[t], id[t])

LEMMA RemoveEffect ==
    ASSUME TypeOK, CallInv, OnceInv, NEW t \in Threads, Removes(t)
    PROVE  \E i \in Ids :
              /\ TypeOK' /\ CallInv'
              /\ deleted' = deleted \cup {i}
              /\ \A q \in Queues : \A j : Has(q, j)' => Has(q, j)
              /\ \A q \in Queues : \A j : Has(q, j) /\ j # i => Has(q, j)'
              /\ \A q \in Queues : NoDup(items[q])'
              /\ pc' = [pc EXCEPT ![t] = "idle"]
              /\ id' = [id EXCEPT ![t] = NoId]
              /\ ref' = [ref EXCEPT ![t] = NoQueue]
              /\ UNCHANGED <<fields, raced>>
<1> DEFINE p == ref[t]
           i == id[t]
           s == RemoveFirst(items[p], i)
<1>1. t \in Readers /\ pc[t] \in {"removeHead", "removeTail"}
    BY ByLabel DEF Removes, RemoveHead, RemoveTail, ReaderPC
<1>2. p \in Queues /\ i \in Ids /\ items[p] \in Seq(Ids) /\ Contains(items[p], i)
    BY <1>1 DEF TypeOK, CallInv, Calling, Removes, Has
<1>3. /\ s \in Seq(Ids)
      /\ \A j : Contains(s, j) => Has(p, j)
      /\ \A j : Has(p, j) /\ j # i => Contains(s, j)
      /\ NoDup(s)
    <2>1. NoDup(items[p])
        BY <1>2 DEF OnceInv
    <2> QED BY <1>2, <2>1, RemoveFirstElements DEF Has
<1>4. /\ items' = [items EXCEPT ![p] = s]
      /\ deleted' = deleted \cup {i}
      /\ pc' = [pc EXCEPT ![t] = "idle"]
      /\ id' = [id EXCEPT ![t] = NoId]
      /\ ref' = [ref EXCEPT ![t] = NoQueue]
      /\ UNCHANGED <<fields, jobs, raced, missed>>
    BY <1>2 DEF Removes, RemoveHead, RemoveTail, RemoveFrom, Drop, GoTo, Called,
       Load, Has
<1>5. PICK q \in Queues, j \in Ids : q = p /\ j = i
    BY <1>2
<1> HIDE DEF p, s, i
<1>6. /\ \A r \in Queues : \A k : Has(r, k)' => Has(r, k)
      /\ \A r \in Queues : \A k : Has(r, k) /\ k # j => Has(r, k)'
      /\ \A r \in Queues : NoDup(items[r])'
    BY <1>2, <1>3, <1>4, <1>5, TakeItems
<1>7. TypeOK'
    <2>1. items' \in [Queues -> Seq(Ids)]
        BY <1>2, <1>3, <1>4 DEF TypeOK
    <2> QED BY <1>1, <1>2, <1>4, <2>1, InMemoryQueueAssumption, ByLabel
            DEF TypeOK, ReaderPC, WriterPC, fields, jobs
<1>8. CallInv'
    BY <1>1, <1>4, ByLabel DEF TypeOK, CallInv, Calling, ReaderPC
<1> QED BY <1>4, <1>5, <1>6, <1>7, <1>8

LEMMA RemoveKeepsQInv ==
    ASSUME QInv, NEW t \in Threads, Removes(t)
    PROVE  QInv'
<1>1. PICK i \in Ids :
              /\ TypeOK' /\ CallInv'
              /\ deleted' = deleted \cup {i}
              /\ \A q \in Queues : \A j : Has(q, j)' => Has(q, j)
              /\ \A q \in Queues : \A j : Has(q, j) /\ j # i => Has(q, j)'
              /\ \A q \in Queues : NoDup(items[q])'
              /\ pc' = [pc EXCEPT ![t] = "idle"]
              /\ id' = [id EXCEPT ![t] = NoId]
              /\ ref' = [ref EXCEPT ![t] = NoQueue]
              /\ UNCHANGED <<fields, raced>>
    BY RemoveEffect DEF QInv
<1>2. pc[t] \in {"removeHead", "removeTail"}
    BY DEF Removes, RemoveHead, RemoveTail
<1>3. \A u \in Threads : \A j : Holds(u, j)' <=> Holds(u, j)
    BY <1>1, <1>2 DEF QInv, TypeOK, Holds, Holding
<1>4. OnceInv'
    BY <1>1, <1>3 DEF QInv, OnceInv
<1>5. SwapInv'
    BY <1>1, <1>2 DEF QInv, TypeOK, SwapInv, fields
<1>6. KeptInv'
    <2>1. \A j \in Ids \ deleted' : Present(j) => Present(j)'
        <3>1. head' = head /\ tail' = tail /\ head \in Queues /\ tail \in Queues
            BY <1>1 DEF QInv, TypeOK, fields
        <3>2. \A q \in {head, tail}, j \in Ids \ {i} : Has(q, j) => Has(q, j)'
            BY <1>1, <3>1
        <3> QED BY <1>1, <1>3, <3>1, <3>2 DEF Present, Has
    <2> QED BY <1>1, <2>1, PresentKept DEF QInv
<1> QED BY <1>1, <1>4, <1>5, <1>6 DEF QInv

-----------------------------------------------------------------------------
(* The two assignments of swap                                             *)

\* The assignment to head.  Unless it races, the head that is replaced is
\* empty, and the new one is the tail.
LEMMA SwapHeadKeepsQInv ==
    ASSUME QInv, NEW t \in Threads, SwapHead(t)
    PROVE  QInv'
<1>1. /\ t \in Readers /\ pc[t] = "swapHead" /\ ref[t] \in Queues
      /\ head' = ref[t] /\ pc' = [pc EXCEPT ![t] = "swapTail"]
      /\ ref' = [ref EXCEPT ![t] = NoQueue]
      /\ UNCHANGED <<items, tail, id, job, popping, deleted, missed>>
    BY ByLabel DEF QInv, CallInv, Calling, SwapHead, GoTo, Called, Load, jobs,
       ReaderPC
<1>2. ~raced' =>
         /\ ~raced
         /\ items[head] = <<>>
         /\ \A u \in Threads \ {t} :
               /\ pc[u] \notin {"swapHead", "swapTail"}
               /\ pc[u] \in {"writeAdd", "added"} => ref[u] # head
    BY DEF SwapHead, SwapsToo, AddsToHead
<1>3. TypeOK'
    <2>1. raced' \in BOOLEAN
        <3>1. (SwapsToo(t) \/ AddsToHead(t)) \in BOOLEAN
            OBVIOUS
        <3>2. raced' = (raced \/ SwapsToo(t) \/ AddsToHead(t))
            BY DEF SwapHead
        <3> QED BY <3>1, <3>2, Zenon DEF QInv, TypeOK
    <2>2. \A u \in Readers :
             pc'[u] \in {"add", "added", "read", "removeHead", "orTail", "removeTail"}
             <=> id'[u] \in Ids
        BY <1>1 DEF QInv, TypeOK, Threads
    <2>3. pc' \in [Threads -> WriterPC \cup ReaderPC]
        BY <1>1 DEF QInv, TypeOK, ReaderPC
    <2>4. ref' \in [Threads -> Queues \cup {NoQueue}]
        BY <1>1 DEF QInv, TypeOK
    <2> QED BY <1>1, <2>1, <2>2, <2>3, <2>4 DEF QInv, TypeOK
<1>4. CallInv'
    BY <1>1, ByLabel DEF QInv, TypeOK, CallInv, Calling, ReaderPC
<1>5. OnceInv'
    BY <1>1, OnceKept DEF QInv, GoTo, Holding
<1>6. SwapInv'
    <2> SUFFICES ASSUME ~raced', NEW u \in Threads
                 PROVE  /\ pc'[u] = "swapHead" => ref'[u] = tail'
                        /\ pc'[u] = "swapTail" => head' = tail'
                        /\ pc'[u] \in {"writeAdd", "added"} => ref'[u] \in {head', tail'}
        BY DEF SwapInv
    <2>1. ref[t] = tail
        BY <1>1, <1>2 DEF QInv, SwapInv
    <2>2. CASE u = t
        BY <1>1, <2>1, <2>2 DEF QInv, TypeOK
    <2>3. CASE u # t
        <3>1. pc'[u] = pc[u] /\ ref'[u] = ref[u]
            BY <1>1, <2>3 DEF QInv, TypeOK
        <3>2. pc[u] \in {"writeAdd", "added"} => ref[u] = tail
            BY <1>2, <2>3 DEF QInv, SwapInv
        <3> QED BY <1>1, <1>2, <2>3, <3>1, <3>2
    <2> QED BY <2>2, <2>3
<1>7. KeptInv'
    <2> SUFFICES ASSUME ~raced', NEW i \in {IdOf[w] : w \in Writers} \ deleted,
                        Present(i)
                 PROVE  Present(i)'
        BY <1>1, <1>2 DEF QInv, KeptInv
    <2>1. ~Has(head, i)
        <3>1. Len(items[head]) = 0
            BY <1>2
        <3> QED BY <3>1 DEF Has, Contains
    <2>2. \A u \in Threads : Holds(u, i) => Holds(u, i)'
        BY <1>1 DEF QInv, TypeOK, Holds, Holding
    <2>3. Has(tail, i) => Has(tail, i)'
        BY <1>1 DEF Has
    <2> QED BY <2>1, <2>2, <2>3 DEF Present
<1> QED BY <1>3, <1>4, <1>5, <1>6, <1>7 DEF QInv

\* The assignment to tail.  Unless it races, the tail it replaces is the head.
LEMMA SwapTailKeepsQInv ==
    ASSUME QInv, NEW t \in Threads, SwapTail(t)
    PROVE  QInv'
<1>1. PICK q \in Queues \ {head, tail} : q = Fresh
    BY FreshExists DEF QInv, SwapTail
<1>2. /\ t \in Readers /\ pc[t] = "swapTail" /\ ref[t] = NoQueue
      /\ tail' = q /\ items' = [items EXCEPT ![q] = <<>>]
      /\ pc' = [pc EXCEPT ![t] = "poll"]
      /\ UNCHANGED <<head, ref, id, job, popping, deleted, missed>>
    BY <1>1, ByLabel DEF QInv, CallInv, Calling, SwapTail, GoTo, jobs, ReaderPC
<1>3. ~raced' =>
         /\ ~raced
         /\ \A u \in Threads \ {t} : pc[u] \notin {"swapHead", "swapTail"}
    BY DEF SwapTail, SwapsToo
<1>4. TypeOK'
    <2>1. raced' \in BOOLEAN
        <3>1. SwapsToo(t) \in BOOLEAN
            BY DEF SwapsToo
        <3>2. raced' = (raced \/ SwapsToo(t))
            BY DEF SwapTail
        <3> QED BY <3>1, <3>2, Zenon DEF QInv, TypeOK
    <2>2. \A u \in Readers :
             pc'[u] \in {"add", "added", "read", "removeHead", "orTail", "removeTail"}
             <=> id'[u] \in Ids
        BY <1>2 DEF QInv, TypeOK, Threads
    <2>3. pc' \in [Threads -> WriterPC \cup ReaderPC]
        BY <1>2 DEF QInv, TypeOK, ReaderPC
    <2>4. items' \in [Queues -> Seq(Ids)]
        <3>1. <<>> \in Seq(Ids)
            OBVIOUS
        <3> QED BY <1>2, <3>1 DEF QInv, TypeOK
    <2> QED BY <1>2, <2>1, <2>2, <2>3, <2>4 DEF QInv, TypeOK
<1>5. CallInv'
    BY <1>2, ByLabel DEF QInv, TypeOK, CallInv, Calling, ReaderPC
<1>6. /\ items'[q] = <<>> /\ \A p \in Queues \ {q} : items'[p] = items[p]
    BY <1>2 DEF QInv, TypeOK
<1>7. /\ \A p \in Queues : \A i : Has(p, i)' => Has(p, i)
      /\ \A p \in Queues \ {q} : \A i : Has(p, i)' <=> Has(p, i)
      /\ \A p \in Queues : NoDup(items[p])'
    <2>1. \A i : ~Contains(<<>>, i)
        BY DEF Contains
    <2>2. \A p \in Queues : NoDup(items'[p])
        BY <1>6 DEF QInv, OnceInv, NoDup
    <2>3. \A p \in Queues : NoDup(items[p])'
        BY <2>2 DEF NoDup
    <2> QED BY <1>6, <2>1, <2>3 DEF Has
<1>8. \A u \in Threads : \A i : Holds(u, i)' <=> Holds(u, i)
    BY <1>2 DEF QInv, TypeOK, Holds, Holding
<1>9. OnceInv'
    BY <1>7, <1>8 DEF QInv, OnceInv
<1>10. SwapInv'
    <2> SUFFICES ASSUME ~raced', NEW u \in Threads
                 PROVE  /\ pc'[u] = "swapHead" => ref'[u] = tail'
                        /\ pc'[u] = "swapTail" => head' = tail'
                        /\ pc'[u] \in {"writeAdd", "added"} => ref'[u] \in {head', tail'}
        BY DEF SwapInv
    <2>1. head = tail
        BY <1>2, <1>3 DEF QInv, SwapInv
    <2>2. CASE u = t
        BY <1>2, <2>2 DEF QInv, TypeOK
    <2>3. CASE u # t
        <3>1. pc'[u] = pc[u] /\ ref'[u] = ref[u]
            BY <1>2, <2>3 DEF QInv, TypeOK
        <3> QED BY <1>2, <1>3, <2>1, <2>3, <3>1 DEF QInv, SwapInv
    <2> QED BY <2>2, <2>3
<1>11. KeptInv'
    <2> SUFFICES ASSUME ~raced', NEW i \in {IdOf[w] : w \in Writers} \ deleted,
                        Present(i)
                 PROVE  Present(i)'
        BY <1>2, <1>3 DEF QInv, KeptInv
    <2>1. head = tail
        BY <1>2, <1>3 DEF QInv, SwapInv
    <2>2. Has(head, i) => Contains(items'[head], i)
        BY <1>1, <1>6 DEF QInv, TypeOK, Has
    <2>3. Contains(items'[head], i) => Has(head, i)'
        BY <1>2 DEF Has
    <2> QED BY <1>8, <2>1, <2>2, <2>3 DEF Present
<1> QED BY <1>4, <1>5, <1>9, <1>10, <1>11 DEF QInv

-----------------------------------------------------------------------------
(* The invariant                                                           *)

LEMMA InitQInv ==
    Init => QInv
<1> SUFFICES ASSUME Init PROVE QInv
    OBVIOUS
<1>1. head \in Queues /\ tail \in Queues
    BY TwoQueues DEF Init
<1>2. \A q \in Queues : items[q] = <<>>
    BY DEF Init
<1>3. \A t \in Threads :
         /\ pc[t] = IF t \in Writers THEN "write" ELSE "idle"
         /\ id[t] = IF t \in Writers THEN IdOf[t] ELSE NoId
         /\ ref[t] = NoQueue
    BY DEF Init
<1>4. Writers \subseteq Threads /\ Readers \subseteq Threads /\ Writers \cap Readers = {}
    BY InMemoryQueueAssumption DEF Threads
<1>5. TypeOK
    <2>1. items \in [Queues -> Seq(Ids)]
        <3>1. <<>> \in Seq(Ids)
            OBVIOUS
        <3> QED BY <3>1 DEF Init
    <2>2. /\ pc \in [Threads -> WriterPC \cup ReaderPC]
          /\ id \in [Threads -> Ids \cup {NoId}]
          /\ ref \in [Threads -> Queues \cup {NoQueue}]
        BY InMemoryQueueAssumption DEF Init, WriterPC, ReaderPC
    <2>3. \A t \in Readers : pc[t] = "idle" /\ id[t] = NoId
        BY <1>3, <1>4
    <2> QED BY <1>1, <2>1, <2>2, <2>3, InMemoryQueueAssumption DEF TypeOK, Init
<1>6. CallInv
    BY <1>3, <1>4 DEF CallInv, Calling, WriterPC, ReaderPC
<1>7. \A q \in Queues : NoDup(items[q]) /\ \A i : ~Has(q, i)
    BY <1>2 DEF NoDup, Has, Contains
<1>8. \A t \in Threads, i \in Ids : Holds(t, i) <=> t \in Writers /\ i = IdOf[t]
    BY <1>3, <1>4 DEF Holds, Holding
<1>9. OnceInv
    BY <1>7, <1>8, InMemoryQueueAssumption DEF OnceInv
<1>10. SwapInv
    BY <1>3 DEF SwapInv
<1>11. KeptInv
    BY <1>4, <1>8, InMemoryQueueAssumption DEF KeptInv, Present
<1> QED BY <1>5, <1>6, <1>9, <1>10, <1>11 DEF QInv

LEMMA StutterKeepsQInv ==
    QInv /\ UNCHANGED vars => QInv'
<1> SUFFICES ASSUME QInv, UNCHANGED vars PROVE QInv'
    OBVIOUS
<1> USE DEF vars, fields, jobs, history
<1>1. TypeOK'
    BY DEF QInv, TypeOK
<1>2. CallInv'
    BY DEF QInv, CallInv
<1>3. OnceInv'
    <2>1. /\ \A q \in Queues : \A i : Has(q, i)' <=> Has(q, i)
          /\ \A t \in Threads : \A i : Holds(t, i)' <=> Holds(t, i)
        BY DEF Has, Holds
    <2>2. \A q \in Queues : NoDup(items[q])'
        BY DEF QInv, OnceInv
    <2> QED BY <2>1, <2>2 DEF QInv, OnceInv
<1>4. SwapInv'
    BY DEF QInv, SwapInv
<1>5. KeptInv'
    <2>1. \A i : Present(i)' <=> Present(i)
        BY DEF Present, Has, Holds
    <2> QED BY <2>1 DEF QInv, KeptInv
<1> QED BY <1>1, <1>2, <1>3, <1>4, <1>5 DEF QInv

LEMMA NextKeepsQInv ==
    QInv /\ [Next]_vars => QInv'
<1> SUFFICES ASSUME QInv, NEW t \in Threads, Write(t) \/ ReaderStep(t)
             PROVE  QInv'
    BY StutterKeepsQInv DEF Next, Threads
<1>1. CASE QuietAction(t)
    BY <1>1, QuietActionKeepsQInv
<1>2. CASE AddAction(t)
    BY <1>2, AddKeepsQInv
<1>3. CASE Poll(t)
    BY <1>3, PollKeepsQInv
<1>4. CASE Removes(t)
    BY <1>4, RemoveKeepsQInv
<1>5. CASE SwapHead(t)
    BY <1>5, SwapHeadKeepsQInv
<1>6. CASE SwapTail(t)
    BY <1>6, SwapTailKeepsQInv
<1> QED BY <1>1, <1>2, <1>3, <1>4, <1>5, <1>6
        DEF Write, ReaderStep, Read, Work, Delete, QuietAction, AddAction,
            Removes, Misses

\* However writes, reads, swaps and deletes interleave, the invariant of this
\* module holds.
THEOREM QueueInvariant == Spec => []QInv
<1> QED BY InitQInv, NextKeepsQInv, PTL DEF Spec

-----------------------------------------------------------------------------
(* Theorems                                                                *)

\* The variables keep their types: a reader has a UUID in hand exactly from
\* the poll of read to the end of its work or its delete.
THEOREM QueueTypes == Spec => []TypeOK
<1>1. QInv => TypeOK
    BY DEF QInv
<1> QED BY <1>1, QueueInvariant, PTL

\* The places of a message are at most one, and none while a thread holds it.
LEMMA OnePlace ==
    ASSUME QInv, NEW i \in Ids
    PROVE  /\ \E x : Places(i) \subseteq {x}
           /\ \E t : InHand(i) \subseteq {t}
           /\ Places(i) = {} \/ InHand(i) = {}
<1>1. /\ head \in Queues /\ tail \in Queues
      /\ \A q \in {head, tail} : DOMAIN items[q] = 1 .. Len(items[q])
    BY DEF QInv, TypeOK
<1>2. \A x \in Places(i) :
         \E q \in {head, tail} : \E n \in 1 .. Len(items[q]) :
            x = <<q, n>> /\ items[q][n] = i
    BY <1>1 DEF Places
<1>3. \A x \in Places(i) : \E q \in {head, tail} : Has(q, i)
    BY <1>2 DEF Has, Contains
<1>4. \A x, y \in Places(i) : x = y
    <2> SUFFICES ASSUME NEW p \in {head, tail}, NEW q \in {head, tail},
                        NEW m \in 1 .. Len(items[p]), NEW n \in 1 .. Len(items[q]),
                        items[p][m] = i, items[q][n] = i
                 PROVE  <<p, m>> = <<q, n>>
        BY <1>2
    <2>1. p = q
        BY <1>1 DEF QInv, OnceInv, Has, Contains
    <2>2. m = n
        BY <1>1, <2>1 DEF QInv, OnceInv, NoDup
    <2> QED BY <2>1, <2>2
<1>5. \A t \in InHand(i) : t \in Threads /\ Holds(t, i)
    BY DEF InHand, Holds, Holding, Threads
<1>6. \A t, u \in InHand(i) : t = u
    BY <1>5 DEF QInv, OnceInv
<1>7. Places(i) = {} \/ InHand(i) = {}
    BY <1>1, <1>3, <1>5 DEF QInv, OnceInv
<1> QED BY <1>4, <1>6, <1>7

\* A message is never in the queue twice (InMemoryQueue.read moves it).
THEOREM MessagesAtMostOnce == Spec => []AtMostOnce
<1>1. ASSUME NEW S, \E x : S \subseteq {x}
      PROVE  /\ Cardinality(S) \in {0, 1}
             /\ S = {} => Cardinality(S) = 0
    <2>1. S = {} \/ \E x : S = {x}
        BY <1>1
    <2> QED BY <2>1, FS_EmptySet, FS_Singleton
<1>2. QInv => AtMostOnce
    <2> SUFFICES ASSUME QInv, NEW i \in Ids
                 PROVE  Cardinality(Places(i)) + Cardinality(InHand(i)) <= 1
        BY DEF AtMostOnce
    <2>1. /\ Cardinality(Places(i)) \in {0, 1}
          /\ Places(i) = {} => Cardinality(Places(i)) = 0
          /\ Cardinality(InHand(i)) \in {0, 1}
          /\ InHand(i) = {} => Cardinality(InHand(i)) = 0
        BY <1>1, OnePlace
    <2>2. Places(i) = {} \/ InHand(i) = {}
        BY OnePlace
    <2> QED BY <2>1, <2>2
<1> QED BY <1>2, QueueInvariant, PTL

\* Reading does not delete (Queue.java:208), but for a race of swap: a message
\* that was written is in the queue, or in the hands of a reader that adds it,
\* until it is deleted.
THEOREM MessagesAreKept == Spec => []KeptUnlessRaced
<1>1. QInv => KeptUnlessRaced
    <2> SUFFICES ASSUME QInv, NEW w \in Writers, pc[w] = "written", ~raced,
                        IdOf[w] \notin deleted
                 PROVE  Places(IdOf[w]) \cup InHand(IdOf[w]) # {}
        BY DEF KeptUnlessRaced
    <2> DEFINE i == IdOf[w]
    <2>1. i \in Ids /\ Present(i)
        BY InMemoryQueueAssumption DEF QInv, KeptInv
    <2>2. ASSUME NEW q \in {head, tail}, Has(q, i)
          PROVE  Places(i) # {}
        <3>1. PICK n \in 1 .. Len(items[q]) : items[q][n] = i
            BY <2>2 DEF Has, Contains
        <3>2. DOMAIN items[q] = 1 .. Len(items[q])
            BY DEF QInv, TypeOK
        <3>3. <<q, n>> \in Places(i)
            BY <3>1, <3>2 DEF Places
        <3> QED BY <3>3
    <2>3. ASSUME NEW t \in Threads, Holds(t, i)
          PROVE  InHand(i) # {}
        <3>1. t \in Readers
            <4> SUFFICES ASSUME t \in Writers PROVE FALSE
                BY DEF Threads
            <4>1. IdOf[t] = IdOf[w]
                BY <2>3 DEF QInv, CallInv, Holds
            <4>2. t = w
                BY <4>1, InMemoryQueueAssumption
            <4> QED BY <2>3, <4>2 DEF Holds, Holding
        <3>2. pc[t] \in {"add", "added"}
            BY <2>3, <3>1 DEF QInv, CallInv, ReaderPC, Holds, Holding
        <3>3. t \in InHand(i)
            BY <2>3, <3>1, <3>2 DEF InHand, Holds
        <3> QED BY <3>3
    <2> QED BY <2>1, <2>2, <2>3 DEF Present
<1> QED BY <1>1, QueueInvariant, PTL

=============================================================================
