-------------------------- MODULE TockKernel_proofs --------------------------
(***************************************************************************)
(* Facts about the operators that change the upcall queue, for every queue *)
(* and every slot.                                                         *)
(***************************************************************************)
EXTENDS TockKernel, FiniteSetTheorems, SequenceTheorems, WellFoundedInduction, TLAPS

(* Every nonempty set of naturals has a least element.  The library's      *)
(* well-foundedness of < stands in for induction.                          *)
LEMMA LeastNat ==
  ASSUME NEW M \in SUBSET Nat, M # {}
  PROVE  \E m \in M : \A k \in M : m <= k
<1> DEFINE R == {p \in Nat \X Nat : p[1] < p[2]}
<1>1. R = OpToRel(<, Nat)
  BY DEF OpToRel
<1>2. IsWellFoundedOn(R, Nat)
  BY <1>1, NatLessThanWellFounded
<1>3. PICK m \in M : \A k \in M : ~(<<k, m>> \in R)
  BY <1>2, WFMin
<1>4. ASSUME NEW k \in M PROVE m <= k
  <2>1. k \in Nat /\ m \in Nat /\ <<k, m>> \in Nat \X Nat
    OBVIOUS
  <2>2. k < m => <<k, m>> \in R
    BY <2>1
  <2> QED BY <1>3, <2>1, <2>2
<1> QED BY <1>4

(* Among the members of a finite set of positive naturals there is one     *)
(* with exactly j members up to it, for every j up to the size of the set. *)
LEMMA NthExists ==
  ASSUME NEW n \in Nat, NEW K \in SUBSET (1..n), NEW j \in 1..Cardinality(K)
  PROVE  \E i \in K : Cardinality({k \in K : k <= i}) = j
<1> DEFINE UpTo(m) == {k \in K : k <= m}
           N(m) == Cardinality(UpTo(m))
           M == {m \in 0..n : N(m) >= j}
<1>1. IsFiniteSet(K) /\ Cardinality(K) \in Nat /\ j \in Nat /\ 1 <= j /\ j <= Cardinality(K)
  <2>1. IsFiniteSet(1..n)
    BY FS_Interval
  <2>2. IsFiniteSet(K)
    BY <2>1, FS_Subset
  <2>3. Cardinality(K) \in Nat
    BY <2>2, FS_CardinalityType
  <2> QED BY <2>2, <2>3
<1>2. ASSUME NEW m \in 0..n PROVE IsFiniteSet(UpTo(m)) /\ N(m) \in Nat
  <2>1. UpTo(m) \in SUBSET K
    BY DEF UpTo
  <2>2. IsFiniteSet(UpTo(m))
    <3> HIDE DEF UpTo
    <3> QED BY <1>1, <2>1, FS_Subset
  <2>3. Cardinality(UpTo(m)) \in Nat
    <3> HIDE DEF UpTo
    <3> QED BY <2>2, FS_CardinalityType
  <2> QED BY <2>2, <2>3 DEF N
<1>0. \A k \in K : k \in Nat /\ 1 <= k /\ k <= n
  OBVIOUS
<1>3. UpTo(n) = K /\ UpTo(0) = {}
  <2>1. \A k \in K : k <= n /\ ~(k <= 0)
    BY <1>0
  <2> QED BY <2>1 DEF UpTo
<1>4. n \in M /\ M \in SUBSET Nat
  <2>1. N(n) = Cardinality(K)
    BY <1>3 DEF N
  <2> HIDE DEF N
  <2> QED BY <1>1, <2>1 DEF M
<1>5. PICK m \in M : \A k \in M : m <= k
  <2> HIDE DEF M
  <2> QED BY <1>4, LeastNat
<1>6. m \in 0..n /\ N(m) >= j
  <2> HIDE DEF N
  <2> QED BY DEF M
<1>7. N(0) = 0
  BY <1>3, FS_EmptySet DEF N
<1>8. m \in 1..n /\ m - 1 \in 0..n
  <2>1. m # 0
    <3> HIDE DEF N
    <3> QED BY <1>6, <1>7, <1>1
  <2> QED BY <2>1, <1>6
<1>9. N(m-1) \in Nat /\ N(m) \in Nat
  <2> HIDE DEF N
  <2> QED BY <1>2, <1>6, <1>8
<1>10. N(m-1) < j
  <2>1. m - 1 \notin M
    <3> HIDE DEF M
    <3> QED BY <1>5, <1>8
  <2>2. ~(N(m-1) >= j)
    <3> HIDE DEF N
    <3> QED BY <2>1, <1>8 DEF M
  <2> HIDE DEF N
  <2> QED BY <2>2, <1>9, <1>1
<1>11. m \notin UpTo(m-1)
  BY <1>8 DEF UpTo
<1>12. CASE m \in K
  <2>1. UpTo(m) = UpTo(m-1) \cup {m}
    <3>1. \A k \in K : k <= m <=> k <= m-1 \/ k = m
      BY <1>0, <1>8
    <3> QED BY <3>1, <1>12 DEF UpTo
  <2>2. IsFiniteSet(UpTo(m-1))
    <3> HIDE DEF UpTo
    <3> QED BY <1>2, <1>8
  <2>3. Cardinality(UpTo(m-1) \cup {m}) = Cardinality(UpTo(m-1)) + 1
    <3> HIDE DEF UpTo
    <3> QED BY <2>2, <1>11, FS_AddElement
  <2>4. N(m) = N(m-1) + 1
    BY <2>1, <2>3 DEF N
  <2>5. N(m) = j
    <3> HIDE DEF N
    <3> QED BY <2>4, <1>6, <1>9, <1>10, <1>1
  <2> QED BY <2>5, <1>12 DEF N, UpTo
<1>13. CASE m \notin K
  <2>1. UpTo(m) = UpTo(m-1)
    <3>1. \A k \in K : k <= m <=> k <= m-1
      BY <1>0, <1>8, <1>13
    <3> QED BY <3>1 DEF UpTo
  <2>2. N(m) = N(m-1)
    BY <2>1 DEF N
  <2> HIDE DEF N
  <2> QED BY <2>2, <1>6, <1>9, <1>10, <1>1
<1> QED BY <1>12, <1>13

(* upcall_queue.retain keeps a sequence of entries of the queue, none of    *)
(* which is of the slot that was resubscribed.                             *)
LEMMA PurgeProperties ==
  ASSUME NEW S, NEW q \in Seq(S), NEW s
  PROVE  /\ Purge(q, s) \in Seq(S)
         /\ \A j \in 1..Len(Purge(q, s)) :
               \E i \in 1..Len(q) : Purge(q, s)[j] = q[i] /\ q[i].slot # s
<1> DEFINE K == Kept(q, s)
<1>1. Len(q) \in Nat /\ K \in SUBSET (1..Len(q)) /\ \A i \in K : q[i].slot # s
  BY DEF Kept
<1>2. Cardinality(K) \in Nat
  <2> HIDE DEF K
  <2>1. IsFiniteSet(1..Len(q))
    BY <1>1, FS_Interval
  <2>2. IsFiniteSet(K)
    BY <1>1, <2>1, FS_Subset
  <2> QED BY <2>2, FS_CardinalityType
<1>3. \A j \in 1..Cardinality(K) : Nth(K, j) \in K
  <2> HIDE DEF K
  <2> TAKE j \in 1..Cardinality(K)
  <2>1. \E i \in K : Cardinality({k \in K : k <= i}) = j
    BY <1>1, NthExists
  <2> QED BY <2>1 DEF Nth
<1>4. Purge(q, s) = [j \in 1..Cardinality(K) |-> q[Nth(K, j)]]
  BY DEF Purge
<1> HIDE DEF K
<1>5. \A j \in 1..Cardinality(K) : q[Nth(K, j)] \in S
  <2>1. \A i \in 1..Len(q) : q[i] \in S
    OBVIOUS
  <2> QED BY <1>1, <1>3, <2>1
<1>6. Purge(q, s) \in Seq(S) /\ Len(Purge(q, s)) = Cardinality(K)
  BY <1>2, <1>4, <1>5
<1> QED BY <1>1, <1>3, <1>4, <1>6

(* No entry of another slot is lost by upcall_queue.retain.                *)
LEMMA PurgeKeeps ==
  ASSUME NEW S, NEW q \in Seq(S), NEW s,
         NEW i \in 1..Len(q), q[i].slot # s
  PROVE  \E j \in 1..Len(Purge(q, s)) : Purge(q, s)[j] = q[i]
<1> DEFINE K == Kept(q, s)
           UpTo(m) == {k \in K : k <= m}
           j == Cardinality(UpTo(i))
<1>1. Len(q) \in Nat /\ K \in SUBSET (1..Len(q)) /\ i \in K
  BY DEF Kept
<1>2. IsFiniteSet(K) /\ Cardinality(K) \in Nat
  <2> HIDE DEF K
  <2>1. IsFiniteSet(1..Len(q))
    BY <1>1, FS_Interval
  <2>2. IsFiniteSet(K)
    BY <1>1, <2>1, FS_Subset
  <2> QED BY <2>2, FS_CardinalityType
<1>3. Purge(q, s) = [k \in 1..Cardinality(K) |-> q[Nth(K, k)]]
  BY DEF Purge
<1> HIDE DEF K
<1>4. ASSUME NEW m \in K
      PROVE  /\ UpTo(m) \in SUBSET K /\ m \in UpTo(m) /\ IsFiniteSet(UpTo(m))
             /\ Cardinality(UpTo(m)) \in 1..Cardinality(K)
  <2>1. UpTo(m) \in SUBSET K /\ m \in UpTo(m)
    BY <1>1
  <2> HIDE DEF UpTo
  <2>2. IsFiniteSet(UpTo(m)) /\ Cardinality(UpTo(m)) <= Cardinality(K)
    BY <1>2, <2>1, FS_Subset
  <2>3. Cardinality(UpTo(m)) \in Nat /\ Cardinality(UpTo(m)) # 0
    BY <2>1, <2>2, FS_CardinalityType, FS_EmptySet
  <2> QED BY <1>2, <2>1, <2>2, <2>3
<1>5. ASSUME NEW m \in K, NEW n \in K, m < n
      PROVE  Cardinality(UpTo(m)) # Cardinality(UpTo(n))
  <2>0. m \in Nat /\ n \in Nat /\ \A k \in K : k \in Nat
    BY <1>1
  <2>1. UpTo(m) \in SUBSET UpTo(n) /\ n \notin UpTo(m)
    <3>1. \A k \in K : k <= m => k <= n
      BY <2>0, <1>5
    <3>2. ~(n <= m)
      BY <2>0, <1>5
    <3> QED BY <3>1, <3>2 DEF UpTo
  <2>2. IsFiniteSet(UpTo(n)) /\ n \in UpTo(n)
    BY <1>4
  <2> HIDE DEF UpTo
  <2> QED BY <2>1, <2>2, FS_Subset
<1>6. \A m \in K : Cardinality(UpTo(m)) = j => m = i
  <2> HIDE DEF UpTo
  <2> TAKE m \in K
  <2>1. m \in Nat /\ i \in Nat
    BY <1>1
  <2> QED BY <1>1, <1>5, <2>1
<1>7. Nth(K, j) = i
  <2>1. Nth(K, j) = CHOOSE m \in K : Cardinality(UpTo(m)) = j
    BY DEF Nth
  <2> HIDE DEF UpTo
  <2> QED BY <1>1, <1>6, <2>1
<1>8. j \in 1..Cardinality(K)
  BY <1>1, <1>4
<1> HIDE DEF j, UpTo
<1> QED BY <1>2, <1>3, <1>7, <1>8

(* Two entries that upcall_queue.retain keeps were two before.             *)
LEMMA PurgeApart ==
  ASSUME NEW S, NEW q \in Seq(S), NEW s,
         NEW i \in 1..Len(Purge(q, s)), NEW j \in 1..Len(Purge(q, s)), i # j
  PROVE  \E m, n \in 1..Len(q) :
            m # n /\ Purge(q, s)[i] = q[m] /\ Purge(q, s)[j] = q[n]
<1> DEFINE K == Kept(q, s)
           N(m) == Cardinality({k \in K : k <= m})
<1>1. Len(q) \in Nat /\ K \in SUBSET (1..Len(q))
  BY DEF Kept
<1>2. Cardinality(K) \in Nat
  <2> HIDE DEF K
  <2>1. IsFiniteSet(1..Len(q))
    BY <1>1, FS_Interval
  <2>2. IsFiniteSet(K)
    BY <1>1, <2>1, FS_Subset
  <2> QED BY <2>2, FS_CardinalityType
<1>3. Purge(q, s) = [k \in 1..Cardinality(K) |-> q[Nth(K, k)]]
  BY DEF Purge
<1> HIDE DEF K
<1>4. Len(Purge(q, s)) = Cardinality(K)
  BY <1>2, <1>3, PurgeProperties
<1>5. ASSUME NEW k \in 1..Cardinality(K)
      PROVE  Nth(K, k) \in K /\ N(Nth(K, k)) = k
  <2>1. \E m \in K : N(m) = k
    BY <1>1, NthExists
  <2>2. Nth(K, k) = CHOOSE m \in K : N(m) = k
    BY DEF Nth
  <2> HIDE DEF N
  <2> QED BY <2>1, <2>2
<1>6. Nth(K, i) \in 1..Len(q) /\ Nth(K, j) \in 1..Len(q)
  BY <1>1, <1>4, <1>5
<1>7. Nth(K, i) # Nth(K, j)
  <2>1. N(Nth(K, i)) = i /\ N(Nth(K, j)) = j
    BY <1>4, <1>5
  <2> HIDE DEF N
  <2> QED BY <2>1
<1> QED BY <1>3, <1>4, <1>6, <1>7

(* schedule_upcall leaves the queue as it is, or adds one entry for the    *)
(* target that is registered in the slot.                                  *)
LEMMA ScheduledProperties ==
  ASSUME KernelTypeOK, NEW s \in Slot, NEW op \in Target
  PROVE  /\ Scheduled(s, op) \in Seq(Entry)
         /\ \A i \in 1..Len(Scheduled(s, op)) :
               LET e == Scheduled(s, op)[i]
               IN  \/ i \in 1..Len(queue) /\ e = queue[i]
                   \/ e.slot = s /\ e.op = op /\ e.target = upcall[s]
<1> DEFINE e == [slot |-> s, target |-> upcall[s], op |-> op]
<1>1. CASE upcall[s] = Null
  BY <1>1 DEF Scheduled, KernelTypeOK
<1>2. CASE upcall[s] # Null
  <2>1. e \in Entry
    BY <1>2 DEF KernelTypeOK, Entry
  <2>2. Scheduled(s, op) = Append(queue, e)
    BY <1>2 DEF Scheduled
  <2>3. e.slot = s /\ e.op = op /\ e.target = upcall[s]
    OBVIOUS
  <2> HIDE DEF e
  <2>4. queue \in Seq(Entry)
    BY DEF KernelTypeOK
  <2> QED BY <2>1, <2>2, <2>3, <2>4
<1> QED BY <1>1, <1>2
-----------------------------------------------------------------------------
(***************************************************************************)
(* The order of the queue matters to few properties: these lemmas turn     *)
(* what is done to the queue into what is done to the set of its entries.  *)
(***************************************************************************)
Waiting == {queue[i] : i \in 1..Len(queue)}

(* Of a slot without events there is at most one upcall in the queue.      *)
OneAnswer ==
    \A i, j \in 1..Len(queue) :
        queue[i].slot = queue[j].slot /\ queue[i].slot \notin EventSlot => i = j

(* Queue entries are slots, targets and operations.                        *)
LEMMA WaitingTyped ==
  ASSUME KernelTypeOK
  PROVE  Waiting \subseteq Entry
BY DEF Waiting, KernelTypeOK

(* Subscribe removes the slot's entries and no others.                     *)
LEMMA SubscribeWaiting ==
  ASSUME KernelTypeOK, NEW s \in Slot, NEW t, SetUpcall(s, t)
  PROVE  Waiting' = {e \in Waiting : e.slot # s}
<1>1. queue \in Seq(Entry) /\ queue' = Purge(queue, s)
  BY DEF KernelTypeOK, SetUpcall
<1>2. Waiting' \subseteq {e \in Waiting : e.slot # s}
  BY <1>1, PurgeProperties DEF Waiting
<1>3. {e \in Waiting : e.slot # s} \subseteq Waiting'
  BY <1>1, PurgeKeeps DEF Waiting
<1> QED BY <1>2, <1>3

(* schedule_upcall adds the entry for the registered target, if any.       *)
LEMMA ScheduleWaiting ==
  ASSUME KernelTypeOK, NEW s \in Slot, outstanding[s] # Null,
         queue' = Scheduled(s, outstanding[s])
  PROVE  Waiting' = IF upcall[s] = Null THEN Waiting
                    ELSE Waiting \cup {[slot |-> s, target |-> upcall[s],
                                        op |-> outstanding[s]]}
<1> DEFINE e == [slot |-> s, target |-> upcall[s], op |-> outstanding[s]]
<1>1. CASE upcall[s] = Null
  BY <1>1 DEF Scheduled, Waiting
<1>2. CASE upcall[s] # Null
  <2>1. queue \in Seq(Entry) /\ queue' = Append(queue, e)
    BY <1>2 DEF Scheduled, KernelTypeOK
  <2> HIDE DEF e
  <2>2. /\ Len(queue') = Len(queue) + 1 /\ Len(queue) \in Nat
        /\ queue'[Len(queue) + 1] = e
        /\ \A i \in 1..Len(queue) : queue'[i] = queue[i]
    BY <2>1
  <2>3. Waiting' = Waiting \cup {e}
    BY <2>2 DEF Waiting
  <2> QED BY <1>2, <2>3 DEF e
<1> QED BY <1>1, <1>2

(* Yield removes the entry it delivers, or one like it.                    *)
LEMMA TailWaiting ==
  ASSUME KernelTypeOK, queue # << >>, queue' = Tail(queue)
  PROVE  /\ Head(queue) \in Waiting
         /\ Waiting' \subseteq Waiting
         /\ Waiting \subseteq Waiting' \cup {Head(queue)}
<1>1. queue \in Seq(Entry) /\ queue # << >> /\ queue' = Tail(queue)
  BY DEF KernelTypeOK
<1>2. /\ Len(queue) \in Nat /\ Len(queue) >= 1 /\ Len(queue') = Len(queue) - 1
      /\ Head(queue) = queue[1]
      /\ \A i \in 1..Len(queue') : queue'[i] = queue[i + 1]
  BY <1>1, HeadTailProperties
<1>3. Head(queue) \in Waiting /\ Waiting' \subseteq Waiting
  BY <1>2 DEF Waiting
<1>4. ASSUME NEW i \in 1..Len(queue), i # 1 PROVE queue[i] \in Waiting'
  <2>1. i - 1 \in 1..Len(queue') /\ queue'[i - 1] = queue[i]
    BY <1>2, <1>4
  <2> QED BY <2>1 DEF Waiting
<1> QED BY <1>2, <1>3, <1>4 DEF Waiting

(* Subscribe gives a slot without events no second entry.                  *)
LEMMA SubscribeOne ==
  ASSUME KernelTypeOK, OneAnswer, NEW s \in Slot, NEW t, SetUpcall(s, t)
  PROVE  OneAnswer'
<1>1. queue \in Seq(Entry) /\ queue' = Purge(queue, s)
  BY DEF KernelTypeOK, SetUpcall
<1>2. ASSUME NEW i \in 1..Len(queue'), NEW j \in 1..Len(queue'), i # j,
             queue'[i].slot = queue'[j].slot
      PROVE  queue'[i].slot \in EventSlot
  <2>1. PICK m, n \in 1..Len(queue) :
           m # n /\ queue'[i] = queue[m] /\ queue'[j] = queue[n]
    BY <1>1, <1>2, PurgeApart
  <2> QED BY <1>2, <2>1 DEF OneAnswer
<1> QED BY <1>2 DEF OneAnswer

(* Neither does schedule_upcall, for a slot that has no entry yet.         *)
LEMMA ScheduleOne ==
  ASSUME KernelTypeOK, OneAnswer, NEW s \in Slot, outstanding[s] # Null,
         queue' = Scheduled(s, outstanding[s]),
         s \notin EventSlot => \A e \in Waiting : e.slot # s
  PROVE  OneAnswer'
<1> DEFINE e == [slot |-> s, target |-> upcall[s], op |-> outstanding[s]]
<1>1. CASE upcall[s] = Null
  BY <1>1 DEF Scheduled, OneAnswer
<1>2. CASE upcall[s] # Null
  <2>1. queue \in Seq(Entry) /\ queue' = Append(queue, e) /\ e.slot = s
    BY <1>2 DEF Scheduled, KernelTypeOK
  <2> HIDE DEF e
  <2>2. /\ Len(queue') = Len(queue) + 1 /\ Len(queue) \in Nat
        /\ queue'[Len(queue) + 1] = e
        /\ \A i \in 1..Len(queue) : queue'[i] = queue[i]
    BY <2>1
  <2>3. s \notin EventSlot => \A i \in 1..Len(queue) : queue[i].slot # s
    BY DEF Waiting
  <2> QED BY <2>1, <2>2, <2>3 DEF OneAnswer
<1> QED BY <1>1, <1>2

(* Neither does Yield, and the entry that it delivers is gone.             *)
LEMMA TailOne ==
  ASSUME KernelTypeOK, OneAnswer, queue # << >>, queue' = Tail(queue)
  PROVE  /\ OneAnswer'
         /\ Head(queue).slot \notin EventSlot =>
               \A e \in Waiting' : e.slot # Head(queue).slot
<1>1. queue \in Seq(Entry) /\ queue # << >> /\ queue' = Tail(queue)
  BY DEF KernelTypeOK
<1>2. /\ Len(queue) \in Nat /\ Len(queue) >= 1 /\ Len(queue') = Len(queue) - 1
      /\ Head(queue) = queue[1]
      /\ \A i \in 1..Len(queue') : queue'[i] = queue[i + 1]
  BY <1>1, HeadTailProperties
<1>3. OneAnswer'
  <2> SUFFICES ASSUME NEW i \in 1..Len(queue'), NEW j \in 1..Len(queue'),
                      queue'[i].slot = queue'[j].slot,
                      queue'[i].slot \notin EventSlot
               PROVE  i = j
    BY DEF OneAnswer
  <2>1. i + 1 \in 1..Len(queue) /\ j + 1 \in 1..Len(queue)
    BY <1>2
  <2>2. i + 1 = j + 1
    BY <1>2, <2>1 DEF OneAnswer
  <2> QED BY <1>2, <2>2
<1>4. ASSUME Head(queue).slot \notin EventSlot, NEW i \in 1..Len(queue')
      PROVE  queue'[i].slot # Head(queue).slot
  <2>1. 1 \in 1..Len(queue) /\ i + 1 \in 1..Len(queue) /\ i + 1 # 1
    BY <1>2
  <2> QED BY <1>2, <1>4, <2>1 DEF OneAnswer
<1> QED BY <1>3, <1>4 DEF Waiting
=============================================================================
