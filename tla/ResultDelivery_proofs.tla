------------------------ MODULE ResultDelivery_proofs ------------------------
(***************************************************************************)
(* Proofs about ResultDelivery: no result is lost unaccounted for, none is *)
(* doubled, and a clean Close leaves nothing behind.                       *)
(***************************************************************************)
EXTENDS ResultDelivery, FiniteSetTheorems, FunctionTheorems,
        WellFoundedInduction, TLAPS

-----------------------------------------------------------------------------
(* The queue and the batches as sets of results. *)

\* A flushQueue call.
Calls == [pc : {"idle", "lock", "take", "send", "done"},
          batch : Seq(Item), full : BOOLEAN]

\* The results in a sequence of items, and that none is in it twice.
ResultsIn(q) == {r \in Results : \E i \in DOMAIN q : q[i].res = r}
Distinct(q) == \A i, j \in DOMAIN q : q[i].res = q[j].res => i = j

\* The results at the first k places of the queue.
Gone(k) == {items[i].res : i \in 1..k}

\* Submitted, and neither received nor anywhere on the way.
Lost == {r \in Results : sub[r] = "done"} \ (received \cup Held \cup Queued)

\* A nonempty set of naturals has a least element.
LEMMA Least ==
    ASSUME NEW S \in SUBSET Nat, S # {}
    PROVE  \E x \in S : \A y \in S : x <= y
<1> DEFINE R == {ss \in Nat \X Nat : ss[1] < ss[2]}
<1>1. R = OpToRel(<, Nat)
  BY DEF OpToRel
<1>2. IsWellFoundedOn(OpToRel(<, Nat), Nat)
  BY NatLessThanWellFounded
<1>3. IsWellFoundedOn(R, Nat)
  BY <1>1, <1>2
<1>4. PICK x \in S : \A y \in S : ~(<<y, x>> \in R)
  <2> HIDE DEF R
  <2> QED BY <1>3, WFMin
<1>5. \A y \in S : x <= y
  <2> SUFFICES ASSUME NEW y \in S, ~(x <= y) PROVE FALSE
    OBVIOUS
  <2>1. x \in Nat /\ y \in Nat /\ y < x
    OBVIOUS
  <2>2. <<y, x>> \in R
    BY <2>1
  <2> QED BY <2>2, <1>4
<1> QED BY <1>5

\* cleanupLocked's scan stops within the queue.
LEMMA CleanupStops ==
    ASSUME TypeOK
    PROVE  cleanupCount(items) \in 0..Len(items)
<1> DEFINE S == {m \in 0..Len(items) :
                    m = Len(items) \/ items[m + 1].at > now - TTL}
<1>1. items \in Seq(Item) /\ Len(items) \in Nat /\ now \in Int /\ TTL \in Int
  BY ResultDeliveryAssumption DEF TypeOK
<1>2. S \in SUBSET Nat /\ S # {}
  BY <1>1
<1>3. PICK n \in S : \A y \in S : n <= y
  <2> HIDE DEF S
  <2> QED BY <1>2, Least
<1>4. n \in 0..Len(items)
  OBVIOUS
<1>5. \A i \in 1..n : items[i].at <= now - TTL
  <2> SUFFICES ASSUME NEW i \in 1..n PROVE items[i].at <= now - TTL
    OBVIOUS
  <2>1. i - 1 \in 0..Len(items) /\ i \in 1..Len(items) /\ i - 1 < n
    BY <1>1, <1>4
  <2>2. i - 1 \notin S
    <3> HIDE DEF S
    <3> QED BY <2>1, <1>3, <1>4
  <2>3. ~(items[(i - 1) + 1].at > now - TTL)
    BY <2>1, <2>2
  <2>4. items[i] \in Item
    BY <2>1, <1>1
  <2>5. items[i].at \in Int /\ (i - 1) + 1 = i
    BY <2>4, <2>1, ResultDeliveryAssumption DEF Item
  <2> QED BY <2>3, <2>5, <1>1
<1>6. n < Len(items) => items[n + 1].at > now - TTL
  BY <1>1
<1> HIDE DEF S
<1>7. \E m \in 0..Len(items) :
         /\ \A i \in 1..m : items[i].at <= now - TTL
         /\ m < Len(items) => items[m + 1].at > now - TTL
  BY <1>4, <1>5, <1>6
<1> QED BY <1>7 DEF cleanupCount

\* What Enqueue does to the queue, place by place: the first k items are gone,
\* each counted as dropped or as expired, and the new one is at the end.
LEMMA EnqueueShifts ==
    ASSUME TypeOK, NEW r \in Results, Enqueue(r)
    PROVE  \E k \in 0..Len(items) :
              /\ items' \in Seq(Item) /\ Len(items') <= MaxSize
              /\ dropped' \in Nat /\ expired' \in Nat
              /\ dropped' + expired' = dropped + expired + k
              /\ Len(items') = Len(items) - k + 1
              /\ \A i \in 1..(Len(items) - k) : items'[i] = items[i + k]
              /\ items'[Len(items) - k + 1].res = r
<1> DEFINE q == cleanupLocked(items)
<1> DEFINE over == Len(q) >= MaxSize
<1> DEFINE x == [res |-> r, at |-> now]
<1>1. PICK c \in 0..Len(items) : c = cleanupCount(items)
  BY CleanupStops
<1>2. /\ items \in Seq(Item) /\ Len(items) \in Nat /\ Len(items) <= MaxSize
      /\ MaxSize \in Nat /\ MaxSize >= 1 /\ dropped \in Nat /\ expired \in Nat
  BY ResultDeliveryAssumption DEF TypeOK
<1>3. q = SubSeq(items, c + 1, Len(items))
  BY <1>1 DEF cleanupLocked
<1>4. /\ q \in Seq(Item) /\ Len(q) = Len(items) - c
      /\ \A i \in 1..(Len(items) - c) : q[i] = items[i + c]
  <2> HIDE DEF q
  <2> QED BY <1>2, <1>3
<1>5. x \in Item /\ x.res = r
  BY DEF Item, TypeOK
<1>6. /\ items' = Append(IF over THEN Tail(q) ELSE q, x)
      /\ dropped' = IF over THEN dropped + 1 ELSE dropped
      /\ expired' = expired + c
  BY <1>1 DEF Enqueue
<1> HIDE DEF q, x
<1>7. CASE over
  <2>1. c + 1 \in 0..Len(items)
    BY <1>2, <1>4, <1>7
  <2>2. PICK t \in Seq(Item) : t = Tail(q)
    <3>1. q # <<>>
      BY <1>2, <1>4, <1>7
    <3>2. Tail(q) \in Seq(Item)
      BY <3>1, <1>4
    <3> QED BY <3>2
  <2>3. /\ Len(t) = Len(items) - (c + 1)
        /\ \A i \in 1..(Len(items) - (c + 1)) : t[i] = items[i + (c + 1)]
    BY <2>2, <1>2, <1>4, <1>7
  <2>4. items' = Append(t, x) /\ dropped' = dropped + 1
    BY <1>6, <1>7, <2>2
  <2>5. /\ items' \in Seq(Item) /\ Len(items') = Len(t) + 1
        /\ \A i \in 1..Len(t) : items'[i] = t[i]
        /\ items'[Len(t) + 1] = x
    BY <2>4, <1>5
  <2>6. Len(items') <= MaxSize
    BY <2>3, <2>5, <1>2
  <2> WITNESS c + 1 \in 0..Len(items)
  <2> QED BY <2>3, <2>4, <2>5, <2>6, <1>2, <1>5, <1>6
<1>8. CASE ~over
  <2>1. items' = Append(q, x) /\ dropped' = dropped
    BY <1>6, <1>8
  <2>2. /\ items' \in Seq(Item) /\ Len(items') = Len(q) + 1
        /\ \A i \in 1..Len(q) : items'[i] = q[i]
        /\ items'[Len(q) + 1] = x
    BY <2>1, <1>4, <1>5
  <2>3. Len(items') <= MaxSize
    BY <2>2, <1>8, <1>4, <1>2
  <2> WITNESS c \in 0..Len(items)
  <2> QED BY <2>1, <2>2, <2>3, <1>2, <1>4, <1>5, <1>6
<1> QED BY <1>7, <1>8

\* Enqueue of a result that is not in the queue: it is in the queue afterwards,
\* once, and only the items that are counted have left.
LEMMA EnqueueKeeps ==
    ASSUME TypeOK, Distinct(items), NEW r \in Results, r \notin Queued, Enqueue(r)
    PROVE  \E k \in 0..Len(items) :
              /\ items' \in Seq(Item) /\ Len(items') <= MaxSize
              /\ dropped' \in Nat /\ expired' \in Nat
              /\ dropped' + expired' = dropped + expired + k
              /\ Queued' \subseteq Queued \cup {r}
              /\ r \in Queued'
              /\ Queued \subseteq Queued' \cup Gone(k)
              /\ Distinct(items)'
<1>1. PICK k \in 0..Len(items) :
              /\ items' \in Seq(Item) /\ Len(items') <= MaxSize
              /\ dropped' \in Nat /\ expired' \in Nat
              /\ dropped' + expired' = dropped + expired + k
              /\ Len(items') = Len(items) - k + 1
              /\ \A i \in 1..(Len(items) - k) : items'[i] = items[i + k]
              /\ items'[Len(items) - k + 1].res = r
  BY EnqueueShifts
<1>2. items \in Seq(Item) /\ Len(items) \in Nat /\ DOMAIN items = 1..Len(items)
  BY DEF TypeOK
<1>3. PICK n \in Nat : n = Len(items) - k
  <2>1. Len(items) - k \in Nat
    BY <1>2
  <2> QED BY <2>1
<1>4. /\ DOMAIN items' = 1..(n + 1)
      /\ \A i \in 1..n : i + k \in DOMAIN items /\ items'[i] = items[i + k]
      /\ items'[n + 1].res = r
  BY <1>1, <1>2, <1>3
<1>5. Queued' \subseteq Queued \cup {r}
  <2> SUFFICES ASSUME NEW s \in Queued', s # r PROVE s \in Queued
    OBVIOUS
  <2>1. PICK i \in 1..(n + 1) : items'[i].res = s
    BY <1>4 DEF Queued
  <2>2. i \in 1..n
    BY <2>1, <1>4
  <2> QED BY <2>1, <2>2, <1>4 DEF Queued
<1>6. r \in Queued'
  BY <1>3, <1>4 DEF Queued
<1>7. Queued \subseteq Queued' \cup Gone(k)
  <2> SUFFICES ASSUME NEW s \in Queued, s \notin Gone(k) PROVE s \in Queued'
    OBVIOUS
  <2>1. PICK i \in 1..Len(items) : items[i].res = s
    BY <1>2 DEF Queued
  <2>2. i \notin 1..k
    BY <2>1 DEF Gone
  <2>3. PICK j \in 1..n : j = i - k
    BY <2>2, <1>2, <1>3
  <2>4. items'[j] = items[i] /\ j \in DOMAIN items'
    BY <2>3, <1>4, <1>2, <1>3
  <2> QED BY <2>1, <2>4 DEF Queued
<1>8. \A i \in 1..n : items[i + k].res # r
  BY <1>4 DEF Queued
<1>9. \A i, j \in DOMAIN items' : items'[i].res = items'[j].res => i = j
  <2> SUFFICES ASSUME NEW i \in 1..(n + 1), NEW j \in 1..(n + 1),
                      items'[i].res = items'[j].res
               PROVE  i = j
    BY <1>4
  <2>1. CASE i \in 1..n /\ j \in 1..n
    <3>1. i + k = j + k
      BY <2>1, <1>4 DEF Distinct
    <3> QED BY <3>1
  <2>2. CASE i = n + 1 \/ j = n + 1
    BY <2>2, <1>4, <1>8
  <2> QED BY <2>1, <2>2
<1> QED BY <1>1, <1>5, <1>6, <1>7, <1>9 DEF Distinct

\* DequeueBatch moves results from the queue to the batch.
LEMMA DequeueMoves ==
    ASSUME TypeOK, Distinct(items), items # <<>>, items' = AfterDequeue,
           NEW b, b = DequeueBatch
    PROVE  /\ items' \in Seq(Item) /\ Len(items') <= MaxSize
           /\ b \in Seq(Item) /\ b # <<>>
           /\ BatchLen # BatchSize => items' = <<>>
           /\ Queued' \cap ResultsIn(b) = {}
           /\ Queued = Queued' \cup ResultsIn(b)
           /\ Distinct(items)' /\ Distinct(b)
<1>1. /\ items \in Seq(Item) /\ Len(items) \in Nat /\ DOMAIN items = 1..Len(items)
      /\ Len(items) >= 1 /\ Len(items) <= MaxSize
      /\ MaxSize \in Nat /\ BatchSize \in Nat /\ BatchSize >= 1
  BY ResultDeliveryAssumption DEF TypeOK
<1>2. PICK n \in 1..Len(items) : n = BatchLen /\ (n # BatchSize => n = Len(items))
  <2>1. /\ BatchLen \in 1..Len(items)
        /\ BatchLen # BatchSize => BatchLen = Len(items)
    BY <1>1 DEF BatchLen
  <2> QED BY <2>1
<1>3. /\ b \in Seq(Item) /\ Len(b) = n /\ DOMAIN b = 1..n
      /\ \A i \in 1..n : b[i] = items[i] /\ i \in DOMAIN items
  <2>1. b = SubSeq(items, 1, n)
    BY <1>2 DEF DequeueBatch
  <2>2. n \in Nat /\ n <= Len(items)
    BY <1>1
  <2> QED BY <1>1, <2>1, <2>2
<1>4. PICK m \in Nat : m = Len(items) - n
  <2>1. Len(items) - n \in Nat
    BY <1>1
  <2> QED BY <2>1
<1>5. items' = SubSeq(items, n + 1, Len(items))
  BY <1>2 DEF AfterDequeue
<1>6. /\ items' \in Seq(Item) /\ Len(items') = m /\ DOMAIN items' = 1..m
      /\ \A i \in 1..m : items'[i] = items[i + n] /\ i + n \in DOMAIN items
  <2>1. n \in Nat /\ n + m = Len(items)
    BY <1>1, <1>4
  <2>2. items' \in Seq(Item) /\ Len(items') = m
    BY <2>1, <1>1, <1>5
  <2>3. \A i \in 1..m : items'[i] = items[i + n] /\ i + n \in DOMAIN items
    BY <2>1, <1>1, <1>5
  <2> QED BY <2>2, <2>3
<1>7. Len(items') <= MaxSize
  BY <1>1, <1>4, <1>6
<1>8. b # <<>>
  BY <1>1, <1>3
<1>9. BatchLen # BatchSize => items' = <<>>
  BY <1>1, <1>2, <1>4, <1>6
<1>10. Queued' \cap ResultsIn(b) = {}
  <2> SUFFICES ASSUME NEW r \in Results, r \in Queued', r \in ResultsIn(b) PROVE FALSE
    BY DEF ResultsIn
  <2>1. PICK i \in 1..m : items'[i].res = r
    BY <1>6 DEF Queued
  <2>2. PICK j \in 1..n : b[j].res = r
    BY <1>3 DEF ResultsIn
  <2>3. items[i + n].res = items[j].res /\ i + n \in DOMAIN items /\ j \in DOMAIN items
    BY <2>1, <2>2, <1>3, <1>6
  <2>4. i + n = j
    BY <2>3 DEF Distinct
  <2> QED BY <2>4
<1>11. Queued = Queued' \cup ResultsIn(b)
  <2>1. ASSUME NEW r \in Queued PROVE r \in Queued' \cup ResultsIn(b)
    <3>1. PICK i \in 1..Len(items) : items[i].res = r /\ r \in Results
      BY <1>1 DEF Queued
    <3>2. CASE i \in 1..n
      BY <3>1, <3>2, <1>3 DEF ResultsIn
    <3>3. CASE i \notin 1..n
      <4>1. PICK j \in 1..m : j = i - n
        BY <3>3, <1>1, <1>4
      <4>2. items'[j] = items[i] /\ j \in DOMAIN items'
        BY <4>1, <1>1, <1>6
      <4> QED BY <3>1, <4>2 DEF Queued
    <3> QED BY <3>2, <3>3
  <2>2. ASSUME NEW r \in Queued' PROVE r \in Queued
    BY <1>6 DEF Queued
  <2>3. ASSUME NEW r \in ResultsIn(b) PROVE r \in Queued
    BY <1>1, <1>3 DEF Queued, ResultsIn
  <2> QED BY <2>1, <2>2, <2>3
<1>12. \A i, j \in DOMAIN items' : items'[i].res = items'[j].res => i = j
  <2> SUFFICES ASSUME NEW i \in 1..m, NEW j \in 1..m, items'[i].res = items'[j].res
               PROVE  i = j
    BY <1>6
  <2>1. i + n = j + n
    BY <1>6 DEF Distinct
  <2> QED BY <2>1
<1>13. Distinct(b)
  BY <1>1, <1>3 DEF Distinct
<1> QED BY <1>3, <1>6, <1>7, <1>8, <1>9, <1>10, <1>11, <1>12, <1>13 DEF Distinct

\* Taking the head off a batch.
LEMMA TailOfBatch ==
    ASSUME NEW b \in Seq(Item), b # <<>>, Distinct(b)
    PROVE  /\ Tail(b) \in Seq(Item) /\ Distinct(Tail(b))
           /\ Len(b) = 1 => Tail(b) = <<>>
           /\ Len(b) > 1 => Tail(b) # <<>>
           /\ Head(b).res \in Results
           /\ Head(b).res \notin ResultsIn(Tail(b))
           /\ ResultsIn(b) = ResultsIn(Tail(b)) \cup {Head(b).res}
<1>1. PICK n \in Nat : n = Len(b) - 1
  OBVIOUS
<1>2. /\ DOMAIN b = 1..(n + 1) /\ Head(b) = b[1] /\ Head(b) \in Item
      /\ Tail(b) \in Seq(Item) /\ Len(Tail(b)) = n /\ DOMAIN Tail(b) = 1..n
      /\ \A i \in 1..n : Tail(b)[i] = b[i + 1]
  BY <1>1
<1>3. Head(b).res \in Results
  BY <1>2 DEF Item
<1>4. Distinct(Tail(b))
  <2> SUFFICES ASSUME NEW i \in 1..n, NEW j \in 1..n, Tail(b)[i].res = Tail(b)[j].res
               PROVE  i = j
    BY <1>2 DEF Distinct
  <2>1. i + 1 = j + 1
    BY <1>2 DEF Distinct
  <2> QED BY <2>1
<1>5. Head(b).res \notin ResultsIn(Tail(b))
  <2> SUFFICES ASSUME NEW i \in 1..n, Tail(b)[i].res = Head(b).res PROVE FALSE
    BY <1>2 DEF ResultsIn
  <2>1. i + 1 = 1
    BY <1>2 DEF Distinct
  <2> QED BY <2>1
<1>6. ResultsIn(b) = ResultsIn(Tail(b)) \cup {Head(b).res}
  <2>1. ASSUME NEW r \in ResultsIn(b), r # Head(b).res PROVE r \in ResultsIn(Tail(b))
    <3>1. PICK i \in 1..(n + 1) : b[i].res = r /\ r \in Results
      BY <1>2 DEF ResultsIn
    <3>2. PICK j \in 1..n : j = i - 1
      BY <3>1, <2>1, <1>2
    <3>3. Tail(b)[j] = b[i] /\ j \in DOMAIN Tail(b)
      BY <3>2, <1>2
    <3> QED BY <3>1, <3>3 DEF ResultsIn
  <2>2. ASSUME NEW r \in ResultsIn(Tail(b)) PROVE r \in ResultsIn(b)
    BY <1>2 DEF ResultsIn
  <2>3. Head(b).res \in ResultsIn(b)
    BY <1>2, <1>3 DEF ResultsIn
  <2> QED BY <2>1, <2>2, <2>3
<1>7. (Len(b) = 1 => Tail(b) = <<>>) /\ (Len(b) > 1 => Tail(b) # <<>>)
  BY <1>1, <1>2
<1> QED BY <1>2, <1>3, <1>4, <1>5, <1>6, <1>7

-----------------------------------------------------------------------------
(* The inductive invariant. *)

\* queueFlushMutex is held exactly while a flush has its hands on the queue.
MutexInv ==
    \A p \in Flushers : (mutex = p) <=> (fl[p].pc \in {"take", "send"})

\* A flush has a batch exactly while it is sending it.
BatchInv ==
    \A p \in Flushers : (fl[p].pc = "send") <=> (fl[p].batch # <<>>)

\* A result that is not submitted yet is nowhere, and no flush runs for it.
SubmitInv ==
    \A r \in Results : sub[r] # "done" =>
        r \notin Held \cup Queued /\ fl[r].pc = "idle"

\* Close begins after the last submission; its flush runs in its own phases;
\* and while that flush sends a short batch, its last, the queue is empty.
CloseInv ==
    /\ closing # "open" => ctxDone /\ \A r \in Results : sub[r] # "sending"
    /\ (closing \in {"open", "wait"}) <=> (fl[Final].pc = "idle")
    /\ (closing \in {"closed", "closedDirty"}) <=> (fl[Final].pc = "done")
    /\ closing = "flush" /\ fl[Final].pc = "send" /\ ~fl[Final].full => items = <<>>

DeliveryInv ==
    /\ TypeOK /\ MutexInv /\ BatchInv /\ SubmitInv /\ CloseInv
    /\ HeldOnce /\ CleanClose /\ LossesCounted

-----------------------------------------------------------------------------
(* Counting losses. *)

\* At most k results are at the first k places of the queue.
LEMMA GoneCount ==
    ASSUME NEW k \in Nat
    PROVE  IsFiniteSet(Gone(k)) /\ Cardinality(Gone(k)) <= k
<1> DEFINE f == [i \in 1..k |-> items[i].res]
<1>1. f \in Surjection(1..k, Gone(k))
  BY DEF Surjection, Gone
<1>2. IsFiniteSet(1..k) /\ Cardinality(1..k) = k
  <2>1. /\ IsFiniteSet(1..k)
        /\ Cardinality(1..k) = IF 1 > k THEN 0 ELSE k - 1 + 1
    BY FS_Interval
  <2> QED BY <2>1
<1> HIDE DEF f
<1>3. IsFiniteSet(Gone(k)) /\ Cardinality(Gone(k)) <= Cardinality(1..k)
  BY <1>1, <1>2, FS_Surjection
<1> QED BY <1>2, <1>3

\* A step that counts every result it may lose keeps LossesCounted.
LEMMA LossesStay ==
    ASSUME LossesCounted, NEW k \in Nat, Lost' \subseteq Lost \cup Gone(k),
           dropped \in Nat, expired \in Nat, dropped' \in Nat, expired' \in Nat,
           dropped' + expired' = dropped + expired + k
    PROVE  LossesCounted'
<1>1. PICK L \in SUBSET Results : L = Lost
  BY DEF Lost
<1>2. PICK M \in SUBSET Results : M = Lost'
  BY DEF Lost
<1>3. IsFiniteSet(L) /\ IsFiniteSet(M)
  BY ResultDeliveryAssumption, FS_Subset
<1>4. PICK G : G = Gone(k)
  OBVIOUS
<1>5. IsFiniteSet(G) /\ Cardinality(G) <= k
  BY <1>4, GoneCount
<1>6. /\ IsFiniteSet(L \cup G)
      /\ Cardinality(L \cup G) = Cardinality(L) + Cardinality(G) - Cardinality(L \cap G)
  BY <1>3, <1>5, FS_Union
<1>7. IsFiniteSet(L \cap G)
  <2>1. L \cap G \in SUBSET L
    OBVIOUS
  <2> QED BY <2>1, <1>3, FS_Subset
<1>8. Cardinality(M) <= Cardinality(L \cup G)
  <2>1. M \in SUBSET (L \cup G)
    BY <1>1, <1>2, <1>4
  <2> QED BY <2>1, <1>6, FS_Subset
<1>9. /\ Cardinality(L) \in Nat /\ Cardinality(G) \in Nat /\ Cardinality(M) \in Nat
      /\ Cardinality(L \cap G) \in Nat
  BY <1>3, <1>5, <1>7, FS_CardinalityType
<1>10. Cardinality(L) <= dropped + expired
  BY <1>1 DEF LossesCounted, Lost
<1>11. Cardinality(M) <= dropped' + expired'
  <2>1. PICK cl \in Nat, cm \in Nat, cg \in Nat, ci \in Nat :
           /\ cl = Cardinality(L) /\ cm = Cardinality(M) /\ cg = Cardinality(G)
           /\ ci = Cardinality(L \cap G)
    BY <1>9
  <2>2. PICK d \in Nat, e \in Nat : d = dropped + expired /\ e = dropped' + expired'
    <3>1. dropped + expired \in Nat
      OBVIOUS
    <3>2. dropped + expired + k \in Nat
      BY <3>1
    <3> QED BY <3>1, <3>2
  <2>3. cg <= k /\ cm <= cl + cg - ci /\ cl <= d
    BY <2>1, <2>2, <1>5, <1>6, <1>8, <1>10
  <2>4. e = d + k
    BY <2>2
  <2>5. cm <= e
    BY <2>3, <2>4
  <2> QED BY <2>1, <2>2, <2>5
<1> QED BY <1>2, <1>11 DEF LossesCounted, Lost

\* The same for a step that loses nothing.
LEMMA NothingLost ==
    ASSUME LossesCounted, Lost' \subseteq Lost, UNCHANGED <<dropped, expired>>,
           dropped \in Nat, expired \in Nat
    PROVE  LossesCounted'
<1>1. PICK L \in SUBSET Results : L = Lost
  BY DEF Lost
<1>2. PICK M \in SUBSET Results : M = Lost'
  BY DEF Lost
<1>3. M \in SUBSET L /\ IsFiniteSet(L)
  <2>1. M \in SUBSET L
    BY <1>1, <1>2
  <2> QED BY <2>1, ResultDeliveryAssumption, FS_Subset
<1>4. IsFiniteSet(M) /\ Cardinality(M) <= Cardinality(L)
  BY <1>3, FS_Subset
<1>5. Cardinality(L) \in Nat /\ Cardinality(M) \in Nat
  BY <1>3, <1>4, FS_CardinalityType
<1>6. Cardinality(L) <= dropped + expired
  BY <1>1 DEF LossesCounted, Lost
<1>7. Cardinality(M) <= dropped' + expired'
  <2>1. dropped' = dropped /\ expired' = expired
    OBVIOUS
  <2> QED BY <2>1, <1>4, <1>5, <1>6
<1> QED BY <1>2, <1>7 DEF LossesCounted, Lost

-----------------------------------------------------------------------------
(* A step of one flush. *)

HeldBy(f) == {r \in Results : \E p \in Flushers :
                 \E i \in DOMAIN f[p].batch : f[p].batch[i].res = r}

\* When only p has a batch, its results are the ones held.
LEMMA HeldByOne ==
    ASSUME NEW f, NEW p \in Flushers,
           \A q \in Flushers : q # p => f[q].batch = <<>>
    PROVE  HeldBy(f) = ResultsIn(f[p].batch)
<1>1. \A q \in Flushers : q # p => DOMAIN f[q].batch = {}
  OBVIOUS
<1> QED BY <1>1 DEF HeldBy, ResultsIn

\* The flush p, which has the mutex or finds it free, goes on to x.
Moves(p, x) ==
    /\ fl[p].pc \in {"lock", "take", "send"} /\ mutex \in {None, p}
    /\ fl' = [fl EXCEPT ![p] = x]
    /\ mutex' = IF x.pc \in {"take", "send"} THEN p ELSE None
    /\ x.pc # "lock" /\ (x.pc = "idle" => p = Loop)
    /\ (x.pc = "send") <=> (x.batch # <<>>)
    /\ UNCHANGED <<now, up, ctxDone, sub>>

\* Then the mutex and the batches stay in step with the program counters, and
\* what is held is what p holds.
LEMMA FlushMoves ==
    ASSUME DeliveryInv, NEW p \in Flushers, NEW x \in Calls,
           Moves(p, x)
    PROVE  /\ fl' \in [Flushers -> Calls] /\ fl'[p] = x
           /\ mutex' \in Flushers \cup {None}
           /\ MutexInv' /\ BatchInv'
           /\ Held = ResultsIn(fl[p].batch) /\ Held' = ResultsIn(x.batch)
           /\ \A r \in Results : sub'[r] # "done" => fl'[r].pc = "idle"
           /\ \A q \in Flushers : q # p =>
                 fl'[q] = fl[q] /\ fl[q].batch = <<>> /\ fl[q].pc # "send"
<1>1. fl \in [Flushers -> Calls]
  BY DEF DeliveryInv, TypeOK, Calls
<1>2. fl' \in [Flushers -> Calls] /\ fl'[p] = x
  BY <1>1 DEF Moves
<1>3. None \notin Flushers
  BY ResultDeliveryAssumption DEF Flushers
<1>4. \A q \in Flushers : q # p =>
         /\ fl'[q] = fl[q]
         /\ fl[q].pc \notin {"take", "send"} /\ fl[q].batch = <<>>
  BY <1>1, <1>3 DEF DeliveryInv, MutexInv, BatchInv, Moves
<1>5. MutexInv'
  BY <1>2, <1>3, <1>4 DEF MutexInv, Moves
<1>6. BatchInv'
  BY <1>2, <1>4 DEF BatchInv, DeliveryInv, Moves
<1>7. Held = ResultsIn(fl[p].batch)
  <2>1. Held = HeldBy(fl)
    BY DEF Held, HeldBy
  <2> QED BY <2>1, <1>4, HeldByOne
<1>8. Held' = ResultsIn(x.batch)
  <2>1. PICK g \in [Flushers -> Calls] : g = fl'
    BY <1>2
  <2>2. Held' = HeldBy(g)
    BY <2>1 DEF Held, HeldBy
  <2>3. HeldBy(g) = ResultsIn(g[p].batch)
    BY <2>1, <1>4, HeldByOne
  <2> QED BY <2>1, <2>2, <2>3, <1>2
<1>9. \A r \in Results : sub'[r] # "done" => fl'[r].pc = "idle"
  BY <1>2, <1>4 DEF DeliveryInv, SubmitInv, Flushers, Moves
<1> QED BY <1>2, <1>4, <1>5, <1>6, <1>7, <1>8, <1>9 DEF Moves

\* Closing after such a step: it moves with the final flush, whose short batch
\* leaves an empty queue, and a closed client has no work for a flush.
Closes(p, x) ==
    /\ closing = "closed" => items' = <<>> /\ x.batch = <<>>
    /\ p # Final => closing' = closing
    /\ p = Final =>
          /\ closing' \in IF x.pc = "done" THEN {"closed", "closedDirty"}
                                         ELSE {"flush", "failed"}
          /\ closing' = "flush" /\ x.pc = "send" /\ ~x.full => items' = <<>>
          /\ closing' = "closed" => items' = <<>>

\* The invariant after such a step, from what it does to the queue and the batch.
LEMMA FlushKeeps ==
    ASSUME DeliveryInv, NEW p \in Flushers, NEW x \in Calls, Moves(p, x), Closes(p, x),
           items' \in Seq(Item), Len(items') <= MaxSize,
           dropped' \in Nat, expired' \in Nat,
           received' \subseteq Results, ticket' = ticket, flushed' \in Nat,
           Distinct(items)', Distinct(x.batch),
           Queued' \cap ResultsIn(x.batch) = {},
           Queued' \cup ResultsIn(x.batch) \subseteq Queued \cup ResultsIn(fl[p].batch),
           LossesCounted'
    PROVE  DeliveryInv'
<1>1. /\ fl' \in [Flushers -> Calls] /\ fl'[p] = x
      /\ mutex' \in Flushers \cup {None}
      /\ MutexInv' /\ BatchInv'
      /\ Held = ResultsIn(fl[p].batch) /\ Held' = ResultsIn(x.batch)
      /\ \A r \in Results : sub'[r] # "done" => fl'[r].pc = "idle"
      /\ \A q \in Flushers : q # p =>
            fl'[q] = fl[q] /\ fl[q].batch = <<>> /\ fl[q].pc # "send"
  BY FlushMoves
<1>2. /\ UNCHANGED <<now, up, ctxDone, sub>> /\ x.pc # "lock"
      /\ (x.pc = "idle" => p = Loop) /\ ((x.pc = "send") <=> (x.batch # <<>>))
      /\ fl[p].pc \in {"lock", "take", "send"}
      /\ Final \in Flushers /\ Final # Loop
  BY DEF Moves, Flushers, Final, Loop
<1>3. closing' \in {"open", "wait", "flush", "failed", "closed", "closedDirty"}
  BY DEF Closes, DeliveryInv, TypeOK
<1>4. TypeOK'
  BY <1>1, <1>2, <1>3 DEF DeliveryInv, TypeOK, Calls
<1>5. SubmitInv'
  BY <1>1, <1>2 DEF DeliveryInv, SubmitInv
<1>6. CloseInv'
  <2>1. CASE p = Final
    BY <2>1, <1>1, <1>2 DEF DeliveryInv, CloseInv, Closes
  <2>2. CASE p # Final
    BY <2>2, <1>1, <1>2 DEF DeliveryInv, CloseInv, Closes
  <2> QED BY <2>1, <2>2
<1>7. HeldOnce'
  <2>1. \A q \in Flushers : Distinct(fl'[q].batch)
    BY <1>1 DEF Distinct
  <2> QED BY <2>1, <1>1 DEF HeldOnce, Distinct
<1>8. CleanClose'
  <2>1. ResultsIn(<<>>) = {}
    BY DEF ResultsIn
  <2>2. ASSUME closing' = "closed" PROVE items' = <<>> /\ x.batch = <<>>
    BY <2>2, <1>2 DEF Closes
  <2> QED BY <2>1, <2>2, <1>1 DEF CleanClose
<1> QED BY <1>1, <1>4, <1>5, <1>6, <1>7, <1>8 DEF DeliveryInv

\* FlushReturn is such a step.
LEMMA ReturnMoves ==
    ASSUME DeliveryInv, NEW p \in Flushers, NEW cl, FlushReturn(p, cl)
    PROVE  \E x \in Calls :
              /\ fl' = [fl EXCEPT ![p] = x] /\ x.batch = <<>> /\ mutex' = None
              /\ x.pc = IF p = Loop THEN "idle" ELSE "done"
              /\ closing' = IF p # Final THEN cl
                            ELSE IF cl = "flush" THEN "closed"
                            ELSE IF cl = "failed" THEN "closedDirty" ELSE cl
<1>1. PICK w \in {"idle", "done"} : w = IF p = Loop THEN "idle" ELSE "done"
  OBVIOUS
<1>2. PICK e \in Seq(Item) : e = <<>>
  <2>1. <<>> \in Seq(Item)
    OBVIOUS
  <2> QED BY <2>1
<1>3. PICK x : x = [pc |-> w, batch |-> e, full |-> FALSE]
  OBVIOUS
<1>4. x \in Calls /\ x.pc = w /\ x.batch = e
  BY <1>3 DEF Calls
<1>5. fl' = [fl EXCEPT ![p] = x] /\ mutex' = None
  BY <1>1, <1>2, <1>3 DEF FlushReturn
<1>6. closing' = IF p # Final THEN cl
                 ELSE IF cl = "flush" THEN "closed"
                 ELSE IF cl = "failed" THEN "closedDirty" ELSE cl
  BY DEF FlushReturn
<1> QED BY <1>1, <1>2, <1>4, <1>5, <1>6

\* So is the step to the next item, the next batch or the end.
LEMMA NextItemMoves ==
    ASSUME DeliveryInv, NEW p \in Flushers, NEW cl, NextItem(p, cl),
           fl[p].pc = "send", UNCHANGED <<now, up, ctxDone, sub>>
    PROVE  \E x \in Calls :
              /\ Moves(p, x) /\ x.batch = Tail(fl[p].batch)
              /\ x.pc = "send" => x.full = fl[p].full
              /\ x.pc \in {"idle", "done"} => ~fl[p].full
              /\ closing' = IF p # Final \/ x.pc # "done" THEN cl
                            ELSE IF cl = "flush" THEN "closed"
                            ELSE IF cl = "failed" THEN "closedDirty" ELSE cl
<1>1. fl \in [Flushers -> Calls] /\ mutex = p /\ fl[p] \in Calls
  BY DEF DeliveryInv, TypeOK, Calls, MutexInv
<1>2. PICK b \in Seq(Item) : b = fl[p].batch /\ b # <<>>
  BY <1>1 DEF DeliveryInv, BatchInv, Calls
<1>3. Distinct(b)
  BY <1>2 DEF Distinct, DeliveryInv, HeldOnce
<1>4. PICK t \in Seq(Item) :
         t = Tail(b) /\ (Len(b) = 1 => t = <<>>) /\ (Len(b) > 1 => t # <<>>)
  BY <1>2, <1>3, TailOfBatch
<1>5. CASE /\ Len(b) > 1
           /\ fl' = [fl EXCEPT ![p].batch = Tail(fl[p].batch)]
           /\ closing' = cl
           /\ UNCHANGED mutex
  <2>1. PICK x : x = [fl[p] EXCEPT !.batch = t]
    OBVIOUS
  <2>2. x \in Calls /\ x.pc = "send" /\ x.batch = t /\ x.full = fl[p].full
    BY <2>1, <1>1 DEF Calls
  <2>3. fl' = [fl EXCEPT ![p] = x]
    BY <2>1, <1>1, <1>2, <1>4, <1>5
  <2>4. Moves(p, x)
    BY <2>2, <2>3, <1>1, <1>4, <1>5 DEF Moves
  <2> QED BY <2>2, <2>4, <1>2, <1>4, <1>5
<1>6. CASE /\ Len(b) = 1
           /\ fl' = [fl EXCEPT ![p] = [pc |-> "take", batch |-> <<>>, full |-> FALSE]]
           /\ closing' = cl
           /\ UNCHANGED mutex
  <2>1. PICK x : x = [pc |-> "take", batch |-> t, full |-> FALSE]
    OBVIOUS
  <2>2. x \in Calls /\ x.pc = "take" /\ x.batch = t
    BY <2>1 DEF Calls
  <2>3. fl' = [fl EXCEPT ![p] = x]
    BY <2>1, <1>4, <1>6
  <2>4. Moves(p, x)
    BY <2>2, <2>3, <1>1, <1>4, <1>6 DEF Moves
  <2> QED BY <2>2, <2>4, <1>2, <1>4, <1>6
<1>7. CASE Len(b) = 1 /\ ~fl[p].full /\ FlushReturn(p, cl)
  <2>1. PICK x \in Calls :
           /\ fl' = [fl EXCEPT ![p] = x] /\ x.batch = <<>> /\ mutex' = None
           /\ x.pc = IF p = Loop THEN "idle" ELSE "done"
           /\ closing' = IF p # Final THEN cl
                         ELSE IF cl = "flush" THEN "closed"
                         ELSE IF cl = "failed" THEN "closedDirty" ELSE cl
    BY <1>7, ReturnMoves
  <2>2. Moves(p, x)
    BY <2>1, <1>1 DEF Moves
  <2>3. p = Final => x.pc = "done"
    BY <2>1 DEF Final, Loop
  <2> QED BY <2>1, <2>2, <2>3, <1>2, <1>4, <1>7
<1> QED BY <1>2, <1>5, <1>6, <1>7 DEF NextItem

-----------------------------------------------------------------------------
(* The steps of flushQueue. *)

\* Its types, and what closing says of a final flush that is under way.
LEMMA FlushFacts ==
    ASSUME DeliveryInv, NEW p \in Flushers
    PROVE  /\ fl[p] \in Calls /\ fl[p].batch \in Seq(Item) /\ Distinct(fl[p].batch)
           /\ items \in Seq(Item) /\ Len(items) <= MaxSize /\ Distinct(items)
           /\ dropped \in Nat /\ expired \in Nat /\ received \subseteq Results
           /\ flushed \in Nat
           /\ fl[p].pc \notin {"idle", "done"} /\ p = Final => closing \in {"flush", "failed"}
           /\ fl[p].pc \in {"take", "send"} => mutex = p
           /\ fl[p].pc # "send" => fl[p].batch = <<>>
           /\ fl[p].pc = "send" => fl[p].batch # <<>>
<1>1. fl[p] \in Calls
  BY DEF DeliveryInv, TypeOK, Calls
<1>2. fl[p].batch \in Seq(Item)
  BY <1>1 DEF Calls
<1>3. Distinct(fl[p].batch) /\ Distinct(items)
  BY DEF DeliveryInv, HeldOnce, Distinct
<1>4. fl[p].pc \notin {"idle", "done"} /\ p = Final => closing \in {"flush", "failed"}
  BY DEF DeliveryInv, CloseInv, TypeOK
<1>5. /\ fl[p].pc \in {"take", "send"} => mutex = p
      /\ fl[p].pc # "send" => fl[p].batch = <<>>
      /\ fl[p].pc = "send" => fl[p].batch # <<>>
  BY DEF DeliveryInv, MutexInv, BatchInv
<1> QED BY <1>1, <1>2, <1>3, <1>4, <1>5 DEF DeliveryInv, TypeOK

\* A step of p that moves no item.
LEMMA NothingMoves ==
    ASSUME DeliveryInv, NEW p \in Flushers, NEW x \in Calls, Moves(p, x), Closes(p, x),
           fl[p].pc # "send", x.batch = <<>>,
           UNCHANGED <<items, dropped, expired, received, ticket, flushed>>
    PROVE  DeliveryInv'
<1>1. /\ fl[p].batch = <<>> /\ fl[p].batch \in Seq(Item) /\ Distinct(fl[p].batch)
      /\ items \in Seq(Item) /\ Len(items) <= MaxSize /\ Distinct(items)
      /\ dropped \in Nat /\ expired \in Nat /\ received \subseteq Results
      /\ flushed \in Nat
  BY FlushFacts
<1>2. Queued' = Queued /\ Distinct(items)' /\ sub' = sub
  BY <1>1 DEF Queued, Distinct, Moves
<1>3. ResultsIn(<<>>) = {}
  BY DEF ResultsIn
<1>4. Held = ResultsIn(fl[p].batch) /\ Held' = ResultsIn(x.batch)
  BY FlushMoves
<1>5. Lost' \subseteq Lost
  BY <1>1, <1>2, <1>4 DEF Lost
<1>6. LossesCounted'
  <2>1. LossesCounted
    BY DEF DeliveryInv
  <2> QED BY <2>1, <1>1, <1>5, NothingLost
<1>7. /\ items' \in Seq(Item) /\ Len(items') <= MaxSize
      /\ dropped' \in Nat /\ expired' \in Nat
      /\ received' \subseteq Results /\ ticket' = ticket /\ flushed' \in Nat
      /\ Distinct(items)' /\ Distinct(x.batch)
      /\ Queued' \cap ResultsIn(x.batch) = {}
      /\ Queued' \cup ResultsIn(x.batch) \subseteq Queued \cup ResultsIn(fl[p].batch)
  BY <1>1, <1>2, <1>3
<1> QED BY <1>6, <1>7, FlushKeeps

\* flushQueue takes the mutex, or returns because the queue is empty.
LEMMA LockKeeps ==
    ASSUME DeliveryInv, NEW p \in Flushers, FlushLock(p)
    PROVE  DeliveryInv'
<1>1. /\ fl[p] \in Calls /\ fl[p].pc = "lock" /\ fl[p].batch = <<>> /\ mutex = None
      /\ UNCHANGED <<now, up, ctxDone, sub>>
      /\ UNCHANGED <<items, dropped, expired, received, ticket, flushed>>
      /\ p = Final => closing \in {"flush", "failed"}
      /\ fl \in [Flushers -> Calls]
  BY FlushFacts DEF FlushLock, queueVars, ghostVars, DeliveryInv, TypeOK, Calls
<1>2. CASE items = <<>> /\ FlushReturn(p, closing)
  <2>1. PICK x \in Calls :
           /\ fl' = [fl EXCEPT ![p] = x] /\ x.batch = <<>> /\ mutex' = None
           /\ x.pc = IF p = Loop THEN "idle" ELSE "done"
           /\ closing' = IF p # Final THEN closing
                         ELSE IF closing = "flush" THEN "closed"
                         ELSE IF closing = "failed" THEN "closedDirty" ELSE closing
    BY <1>2, ReturnMoves
  <2>2. Moves(p, x)
    BY <2>1, <1>1 DEF Moves
  <2>3. Closes(p, x)
    BY <2>1, <1>1, <1>2 DEF Closes, Final, Loop
  <2> QED BY <2>1, <2>2, <2>3, <1>1, NothingMoves
<1>3. CASE /\ items # <<>> /\ mutex' = p
           /\ fl' = [fl EXCEPT ![p].pc = "take"] /\ UNCHANGED closing
  <2>1. PICK x : x = [fl[p] EXCEPT !.pc = "take"]
    OBVIOUS
  <2>2. x \in Calls /\ x.pc = "take" /\ x.batch = <<>>
    BY <2>1, <1>1 DEF Calls
  <2>3. fl' = [fl EXCEPT ![p] = x]
    BY <2>1, <1>1, <1>3
  <2>4. Moves(p, x)
    BY <2>2, <2>3, <1>1, <1>3 DEF Moves
  <2>5. Closes(p, x)
    BY <2>2, <1>1, <1>3 DEF Closes, DeliveryInv, CleanClose
  <2> QED BY <2>2, <2>4, <2>5, <1>1, NothingMoves
<1> QED BY <1>2, <1>3 DEF FlushLock

\* flushQueue dequeues a batch, or returns because none is left.
LEMMA TakeKeeps ==
    ASSUME DeliveryInv, NEW p \in Flushers, FlushTake(p)
    PROVE  DeliveryInv'
<1>1. /\ fl[p] \in Calls /\ fl[p].pc = "take" /\ fl[p].batch = <<>> /\ mutex = p
      /\ UNCHANGED <<now, up, ctxDone, sub>>
      /\ UNCHANGED <<dropped, expired, received, ticket, flushed>>
      /\ p = Final => closing \in {"flush", "failed"}
  BY FlushFacts DEF FlushTake, queueVars, ghostVars
<1>2. CASE items = <<>> /\ FlushReturn(p, closing) /\ UNCHANGED items
  <2>1. PICK x \in Calls :
           /\ fl' = [fl EXCEPT ![p] = x] /\ x.batch = <<>> /\ mutex' = None
           /\ x.pc = IF p = Loop THEN "idle" ELSE "done"
           /\ closing' = IF p # Final THEN closing
                         ELSE IF closing = "flush" THEN "closed"
                         ELSE IF closing = "failed" THEN "closedDirty" ELSE closing
    BY <1>2, ReturnMoves
  <2>2. Moves(p, x)
    BY <2>1, <1>1 DEF Moves
  <2>3. Closes(p, x)
    BY <2>1, <1>1, <1>2 DEF Closes, Final, Loop
  <2> QED BY <2>1, <2>2, <2>3, <1>1, <1>2, NothingMoves
<1>3. CASE /\ items # <<>> /\ items' = AfterDequeue
           /\ fl' = [fl EXCEPT ![p] = [pc |-> "send", batch |-> DequeueBatch,
                                       full |-> BatchLen = BatchSize]]
           /\ UNCHANGED <<mutex, closing>>
  <2>1. /\ items \in Seq(Item) /\ Distinct(items) /\ TypeOK
        /\ dropped \in Nat /\ expired \in Nat /\ received \subseteq Results
        /\ flushed \in Nat
    BY FlushFacts DEF DeliveryInv
  <2>2. PICK b : b = DequeueBatch
    OBVIOUS
  <2>3. /\ items' \in Seq(Item) /\ Len(items') <= MaxSize
        /\ b \in Seq(Item) /\ b # <<>>
        /\ BatchLen # BatchSize => items' = <<>>
        /\ Queued' \cap ResultsIn(b) = {}
        /\ Queued = Queued' \cup ResultsIn(b)
        /\ Distinct(items)' /\ Distinct(b)
    BY <2>1, <2>2, <1>3, DequeueMoves
  <2>4. PICK f \in BOOLEAN : f = (BatchLen = BatchSize)
    OBVIOUS
  <2>5. PICK x : x = [pc |-> "send", batch |-> b, full |-> f]
    OBVIOUS
  <2>6. x \in Calls /\ x.pc = "send" /\ x.batch = b /\ x.full = f
    BY <2>3, <2>5 DEF Calls
  <2>7. fl' = [fl EXCEPT ![p] = x]
    BY <2>2, <2>4, <2>5, <1>3
  <2>8. Moves(p, x)
    BY <2>3, <2>6, <2>7, <1>1, <1>3 DEF Moves
  <2>9. Closes(p, x)
    BY <2>3, <2>4, <2>6, <1>1, <1>3 DEF Closes, DeliveryInv, CleanClose
  <2>10. Held = ResultsIn(fl[p].batch) /\ Held' = ResultsIn(x.batch)
    BY <2>6, <2>8, FlushMoves
  <2>11. Lost' \subseteq Lost
    BY <2>3, <2>6, <2>10, <1>1 DEF Lost, ResultsIn
  <2>12. LossesCounted'
    <3>1. LossesCounted
      BY DEF DeliveryInv
    <3> QED BY <3>1, <2>1, <2>11, <1>1, NothingLost
  <2>13. /\ dropped' \in Nat /\ expired' \in Nat /\ received' \subseteq Results
         /\ ticket' = ticket /\ flushed' \in Nat
         /\ Distinct(x.batch) /\ Queued' \cap ResultsIn(x.batch) = {}
         /\ Queued' \cup ResultsIn(x.batch) \subseteq Queued \cup ResultsIn(fl[p].batch)
    BY <2>1, <2>3, <2>6, <1>1
  <2> QED BY <2>3, <2>6, <2>8, <2>9, <2>12, <2>13, FlushKeeps
<1> QED BY <1>2, <1>3 DEF FlushTake

\* flushQueue has sent the item at the head of its batch.
LEMMA SentKeeps ==
    ASSUME DeliveryInv, NEW p \in Flushers, FlushSent(p)
    PROVE  DeliveryInv'
<1>1. /\ fl[p].batch \in Seq(Item) /\ Distinct(fl[p].batch) /\ fl[p].batch # <<>>
      /\ items \in Seq(Item) /\ Len(items) <= MaxSize /\ Distinct(items)
      /\ dropped \in Nat /\ expired \in Nat /\ received \subseteq Results
      /\ flushed \in Nat /\ fl[p].pc = "send"
      /\ p = Final => closing \in {"flush", "failed"}
  BY FlushFacts DEF FlushSent
<1>2. PICK b \in Seq(Item) : b = fl[p].batch /\ b # <<>> /\ Distinct(b)
  BY <1>1
<1>3. PICK r \in Results : r = Head(b).res
  BY <1>2, TailOfBatch
<1>4. PICK t \in Seq(Item) :
         /\ t = Tail(b) /\ Distinct(t) /\ r \notin ResultsIn(t)
         /\ ResultsIn(b) = ResultsIn(t) \cup {r}
  BY <1>2, <1>3, TailOfBatch
<1>5. /\ UNCHANGED <<items, dropped, expired, now, up, ctxDone, sub, ticket>>
      /\ received' = received \cup {r}
      /\ flushed' = IF ticket[r] > flushed THEN ticket[r] ELSE flushed
      /\ NextItem(p, closing)
  BY <1>2, <1>3 DEF FlushSent, SendOk, queueVars
<1>6. flushed' \in Nat
  BY <1>1, <1>5 DEF DeliveryInv, TypeOK
<1>7. PICK x \in Calls :
         /\ Moves(p, x) /\ x.batch = Tail(fl[p].batch)
         /\ x.pc = "send" => x.full = fl[p].full
         /\ x.pc \in {"idle", "done"} => ~fl[p].full
         /\ closing' = IF p # Final \/ x.pc # "done" THEN closing
                       ELSE IF closing = "flush" THEN "closed"
                       ELSE IF closing = "failed" THEN "closedDirty" ELSE closing
  BY <1>1, <1>5, NextItemMoves
<1>8. Held = ResultsIn(b) /\ Held' = ResultsIn(t) /\ x.batch = t
  BY <1>2, <1>4, <1>7, FlushMoves
<1>9. Queued' = Queued /\ Distinct(items)'
  BY <1>1, <1>5 DEF Queued, Distinct
<1>10. Held \cap Queued = {}
  BY DEF DeliveryInv, HeldOnce
<1>11. Closes(p, x)
  <2>1. closing # "closed"
    <3>1. r \in Held
      BY <1>4, <1>8
    <3> QED BY <3>1 DEF DeliveryInv, CleanClose
  <2>2. p = Final /\ closing = "flush" /\ ~fl[p].full => items = <<>>
    BY <1>1 DEF DeliveryInv, CloseInv
  <2>3. x.pc \in {"idle", "done", "take", "send"} /\ (x.pc = "idle" => p # Final)
    BY <1>7 DEF Moves, Calls, Final, Loop
  <2> QED BY <2>1, <2>2, <2>3, <1>1, <1>5, <1>7 DEF Closes
<1>12. Lost' \subseteq Lost
  BY <1>4, <1>5, <1>8, <1>9 DEF Lost
<1>13. LossesCounted'
  <2>1. LossesCounted
    BY DEF DeliveryInv
  <2> QED BY <2>1, <1>1, <1>5, <1>12, NothingLost
<1>14. /\ items' \in Seq(Item) /\ Len(items') <= MaxSize
       /\ dropped' \in Nat /\ expired' \in Nat
       /\ received' \subseteq Results /\ ticket' = ticket
       /\ Distinct(x.batch)
       /\ Queued' \cap ResultsIn(x.batch) = {}
       /\ Queued' \cup ResultsIn(x.batch) \subseteq Queued \cup ResultsIn(fl[p].batch)
  BY <1>1, <1>2, <1>4, <1>5, <1>8, <1>9, <1>10
<1> QED BY <1>6, <1>7, <1>9, <1>11, <1>13, <1>14, FlushKeeps

\* flushQueue puts the item it could not send back into the queue.
LEMMA FailedKeeps ==
    ASSUME DeliveryInv, NEW p \in Flushers, FlushFailed(p)
    PROVE  DeliveryInv'
<1>1. /\ fl[p].batch \in Seq(Item) /\ Distinct(fl[p].batch) /\ fl[p].batch # <<>>
      /\ items \in Seq(Item) /\ Distinct(items) /\ TypeOK
      /\ dropped \in Nat /\ expired \in Nat /\ received \subseteq Results
      /\ flushed \in Nat /\ fl[p].pc = "send"
      /\ p = Final => closing \in {"flush", "failed"}
  BY FlushFacts DEF FlushFailed, DeliveryInv
<1>2. PICK b \in Seq(Item) : b = fl[p].batch /\ b # <<>> /\ Distinct(b)
  BY <1>1
<1>3. PICK r \in Results : r = Head(b).res
  BY <1>2, TailOfBatch
<1>4. PICK t \in Seq(Item) :
         /\ t = Tail(b) /\ Distinct(t) /\ r \notin ResultsIn(t)
         /\ ResultsIn(b) = ResultsIn(t) \cup {r}
  BY <1>2, <1>3, TailOfBatch
<1>5. PICK cl : cl = IF p = Final THEN "failed" ELSE closing
  OBVIOUS
<1>6. /\ UNCHANGED <<now, up, ctxDone, sub, ticket, flushed>>
      /\ received \subseteq received' /\ received' \subseteq Results
      /\ Enqueue(r) /\ NextItem(p, cl)
  BY <1>1, <1>2, <1>3, <1>5 DEF FlushFailed, SendError
<1>7. PICK x \in Calls :
         /\ Moves(p, x) /\ x.batch = Tail(fl[p].batch)
         /\ x.pc = "send" => x.full = fl[p].full
         /\ x.pc \in {"idle", "done"} => ~fl[p].full
         /\ closing' = IF p # Final \/ x.pc # "done" THEN cl
                       ELSE IF cl = "flush" THEN "closed"
                       ELSE IF cl = "failed" THEN "closedDirty" ELSE cl
  BY <1>1, <1>6, NextItemMoves
<1>8. Held = ResultsIn(b) /\ Held' = ResultsIn(t) /\ x.batch = t
  BY <1>2, <1>4, <1>7, FlushMoves
<1>9. Held \cap Queued = {} /\ r \in Held /\ r \notin Queued
  BY <1>4, <1>8 DEF DeliveryInv, HeldOnce
<1>10. PICK k \in 0..Len(items) :
          /\ items' \in Seq(Item) /\ Len(items') <= MaxSize
          /\ dropped' \in Nat /\ expired' \in Nat
          /\ dropped' + expired' = dropped + expired + k
          /\ Queued' \subseteq Queued \cup {r}
          /\ r \in Queued'
          /\ Queued \subseteq Queued' \cup Gone(k)
          /\ Distinct(items)'
  BY <1>1, <1>6, <1>9, EnqueueKeeps
<1>11. Closes(p, x)
  <2>1. closing # "closed"
    BY <1>9 DEF DeliveryInv, CleanClose
  <2>2. x.pc \in {"idle", "done", "take", "send"} /\ (x.pc = "idle" => p # Final)
    BY <1>7 DEF Moves, Calls, Final, Loop
  <2> QED BY <2>1, <2>2, <1>5, <1>7 DEF Closes
<1>12. Lost' \subseteq Lost \cup Gone(k)
  BY <1>4, <1>6, <1>8, <1>10 DEF Lost
<1>13. LossesCounted'
  <2>1. LossesCounted /\ k \in Nat
    BY <1>1 DEF DeliveryInv
  <2> QED BY <2>1, <1>1, <1>10, <1>12, LossesStay
<1>14. /\ received' \subseteq Results /\ ticket' = ticket /\ flushed' \in Nat
       /\ Distinct(x.batch)
       /\ Queued' \cap ResultsIn(x.batch) = {}
       /\ Queued' \cup ResultsIn(x.batch) \subseteq Queued \cup ResultsIn(fl[p].batch)
  BY <1>1, <1>2, <1>4, <1>6, <1>8, <1>9, <1>10
<1> QED BY <1>7, <1>10, <1>11, <1>13, <1>14, FlushKeeps

-----------------------------------------------------------------------------
(* The other steps. *)

\* An idle call is started, or the loop ends.
LEMMA IdleMoves ==
    ASSUME DeliveryInv, NEW p \in Flushers, NEW y \in {"lock", "done"},
           fl[p].pc = "idle", fl' = [fl EXCEPT ![p].pc = y], UNCHANGED mutex
    PROVE  /\ fl' \in [Flushers -> Calls] /\ MutexInv' /\ BatchInv'
           /\ fl'[p].pc = y
           /\ \A q \in Flushers : q # p => fl'[q] = fl[q]
           /\ \A q \in Flushers : fl'[q].batch = fl[q].batch
           /\ Held' = Held
<1>1. fl \in [Flushers -> Calls] /\ fl[p] \in Calls
  BY DEF DeliveryInv, TypeOK, Calls
<1>2. PICK x : x = [fl[p] EXCEPT !.pc = y]
  OBVIOUS
<1>3. x \in Calls /\ x.pc = y /\ x.batch = fl[p].batch
  BY <1>1, <1>2 DEF Calls
<1>4. fl' = [fl EXCEPT ![p] = x]
  BY <1>1, <1>2
<1>5. /\ fl' \in [Flushers -> Calls] /\ fl'[p] = x
      /\ \A q \in Flushers : q # p => fl'[q] = fl[q]
  BY <1>1, <1>3, <1>4
<1>6. MutexInv'
  BY <1>3, <1>5 DEF DeliveryInv, MutexInv
<1>7. \A q \in Flushers : fl'[q].batch = fl[q].batch
  BY <1>3, <1>5
<1>8. BatchInv'
  BY <1>3, <1>5 DEF DeliveryInv, BatchInv
<1>9. Held' = Held
  BY <1>7 DEF Held
<1> QED BY <1>3, <1>5, <1>6, <1>7, <1>8, <1>9

\* HeldOnce and CleanClose speak of the items and the batches only.
LEMMA ItemsStay ==
    ASSUME DeliveryInv, items' = items, \A q \in Flushers : fl'[q].batch = fl[q].batch
    PROVE  Queued' = Queued /\ Held' = Held /\ HeldOnce'
<1>1. Queued' = Queued /\ Held' = Held
  BY DEF Queued, Held
<1> QED BY <1>1 DEF DeliveryInv, HeldOnce

\* A submission begins; nothing is queued or held by it yet.
LEMMA SubmitBeginKeeps ==
    ASSUME DeliveryInv, NEW r \in Results, SubmitBegin(r)
    PROVE  DeliveryInv'
<1>1. /\ sub[r] = "new" /\ ~ctxDone /\ sub' = [sub EXCEPT ![r] = "sending"]
      /\ UNCHANGED <<items, dropped, expired, now, up, ctxDone, mutex, fl, closing,
                     received, ticket, flushed>>
  BY DEF SubmitBegin, queueVars, ghostVars
<1>2. sub \in [Results -> {"new", "sending", "done"}] /\ dropped \in Nat /\ expired \in Nat
  BY DEF DeliveryInv, TypeOK
<1>3. \A s \in Results : (sub'[s] = "done") <=> (sub[s] = "done")
  BY <1>1, <1>2
<1>4. Queued' = Queued /\ Held' = Held /\ HeldOnce'
  BY <1>1, ItemsStay
<1>5. TypeOK'
  BY <1>1, <1>2 DEF DeliveryInv, TypeOK
<1>6. MutexInv' /\ BatchInv'
  BY <1>1 DEF DeliveryInv, MutexInv, BatchInv
<1>7. SubmitInv'
  BY <1>1, <1>3, <1>4 DEF DeliveryInv, SubmitInv
<1>8. CloseInv' /\ CleanClose'
  BY <1>1, <1>4 DEF DeliveryInv, CloseInv, CleanClose
<1>9. LossesCounted'
  <2>1. Lost' \subseteq Lost /\ LossesCounted
    BY <1>1, <1>3, <1>4 DEF Lost, DeliveryInv
  <2> QED BY <2>1, <1>1, <1>2, NothingLost
<1> QED BY <1>4, <1>5, <1>6, <1>7, <1>8, <1>9 DEF DeliveryInv

\* A submission succeeds and starts a flush of its own.
LEMMA SubmitOkKeeps ==
    ASSUME DeliveryInv, NEW r \in Results, SubmitOk(r)
    PROVE  DeliveryInv'
<1>1. /\ sub[r] = "sending" /\ sub' = [sub EXCEPT ![r] = "done"]
      /\ fl' = [fl EXCEPT ![r].pc = "lock"] /\ received' = received \cup {r}
      /\ UNCHANGED <<items, dropped, expired, now, up, ctxDone, mutex, closing,
                     ticket, flushed>>
  BY DEF SubmitOk, SendOk, queueVars
<1>2. /\ sub \in [Results -> {"new", "sending", "done"}] /\ dropped \in Nat /\ expired \in Nat
      /\ r \in Flushers /\ Final \in Flushers /\ r # Final /\ fl[r].pc = "idle"
  BY <1>1, ResultDeliveryAssumption DEF DeliveryInv, TypeOK, SubmitInv, Flushers
<1>3. /\ fl' \in [Flushers -> Calls] /\ MutexInv' /\ BatchInv'
      /\ \A q \in Flushers : q # r => fl'[q] = fl[q]
      /\ \A q \in Flushers : fl'[q].batch = fl[q].batch
  BY <1>1, <1>2, IdleMoves
<1>4. Queued' = Queued /\ Held' = Held /\ HeldOnce'
  BY <1>1, <1>3, ItemsStay
<1>5. /\ sub' \in [Results -> {"new", "sending", "done"}]
      /\ \A s \in Results : s # r => sub'[s] = sub[s]
      /\ sub'[r] = "done"
  BY <1>1, <1>2
<1>6. TypeOK'
  BY <1>1, <1>3, <1>5 DEF DeliveryInv, TypeOK, Calls
<1>7. SubmitInv'
  BY <1>3, <1>4, <1>5 DEF DeliveryInv, SubmitInv, Flushers
<1>8. CloseInv' /\ CleanClose'
  BY <1>1, <1>2, <1>3, <1>4, <1>5 DEF DeliveryInv, CloseInv, CleanClose
<1>9. LossesCounted'
  <2>1. Lost' \subseteq Lost /\ LossesCounted
    BY <1>1, <1>4, <1>5 DEF Lost, DeliveryInv
  <2> QED BY <2>1, <1>1, <1>2, NothingLost
<1> QED BY <1>3, <1>4, <1>6, <1>7, <1>8, <1>9 DEF DeliveryInv

\* A submission fails and its result is queued.
LEMMA SubmitQueueKeeps ==
    ASSUME DeliveryInv, NEW r \in Results, SubmitQueue(r)
    PROVE  DeliveryInv'
<1>1. /\ sub[r] = "sending" /\ sub' = [sub EXCEPT ![r] = "done"]
      /\ Enqueue(r) /\ received \subseteq received' /\ received' \subseteq received \cup {r}
      /\ UNCHANGED <<now, up, ctxDone, mutex, fl, closing, flushed>>
  BY DEF SubmitQueue, SendError
<1>2. /\ sub \in [Results -> {"new", "sending", "done"}] /\ dropped \in Nat /\ expired \in Nat
      /\ TypeOK /\ Distinct(items) /\ r \notin Held \cup Queued /\ closing = "open"
      /\ items \in Seq(Item)
  BY <1>1 DEF DeliveryInv, TypeOK, SubmitInv, CloseInv, HeldOnce, Distinct
<1>3. PICK k \in 0..Len(items) :
         /\ items' \in Seq(Item) /\ Len(items') <= MaxSize
         /\ dropped' \in Nat /\ expired' \in Nat
         /\ dropped' + expired' = dropped + expired + k
         /\ Queued' \subseteq Queued \cup {r}
         /\ r \in Queued'
         /\ Queued \subseteq Queued' \cup Gone(k)
         /\ Distinct(items)'
  BY <1>1, <1>2, EnqueueKeeps
<1>4. /\ sub' \in [Results -> {"new", "sending", "done"}]
      /\ \A s \in Results : s # r => sub'[s] = sub[s]
      /\ sub'[r] = "done"
  BY <1>1, <1>2
<1>5. ticket' \in [Results -> Nat]
  <2>1. PICK S \in SUBSET Results : S = {q \in Results : ticket[q] # 0}
    OBVIOUS
  <2>2. Cardinality(S) \in Nat
    BY ResultDeliveryAssumption, FS_Subset, FS_CardinalityType
  <2>3. PICK n \in Nat : n = 1 + Cardinality(S)
    BY <2>2
  <2>4. ticket' = [ticket EXCEPT ![r] = n] /\ ticket \in [Results -> Nat]
    BY <2>1, <2>3, <1>2 DEF SubmitQueue, TypeOK
  <2> QED BY <2>4
<1>6. TypeOK'
  BY <1>1, <1>2, <1>3, <1>4, <1>5 DEF TypeOK
<1>7. Held' = Held
  BY <1>1 DEF Held
<1>8. MutexInv' /\ BatchInv'
  BY <1>1 DEF DeliveryInv, MutexInv, BatchInv
<1>9. SubmitInv'
  BY <1>1, <1>3, <1>4, <1>7 DEF DeliveryInv, SubmitInv
<1>10. CloseInv' /\ CleanClose'
  BY <1>1, <1>2, <1>4 DEF DeliveryInv, CloseInv, CleanClose
<1>11. HeldOnce'
  BY <1>1, <1>2, <1>3, <1>7 DEF DeliveryInv, HeldOnce, Distinct
<1>12. Lost' \subseteq Lost \cup Gone(k)
  BY <1>1, <1>3, <1>4, <1>7 DEF Lost
<1>13. LossesCounted'
  <2>1. LossesCounted /\ k \in Nat
    BY <1>2 DEF DeliveryInv
  <2> QED BY <2>1, <1>2, <1>3, <1>12, LossesStay
<1> QED BY <1>6, <1>8, <1>9, <1>10, <1>11, <1>13 DEF DeliveryInv

\* The flush loop starts a flush, or ends.
LEMMA LoopKeeps ==
    ASSUME DeliveryInv, LoopStep
    PROVE  DeliveryInv'
<1>1. PICK y \in {"lock", "done"} :
         fl[Loop].pc = "idle" /\ fl' = [fl EXCEPT ![Loop].pc = y]
  BY DEF LoopStep, FlushTick, FlushLoopExit
<1>2. UNCHANGED <<items, dropped, expired, now, up, ctxDone, sub, mutex, closing,
                  received, ticket, flushed>>
  BY DEF LoopStep, FlushTick, FlushLoopExit, queueVars, ghostVars
<1>3. /\ Loop \in Flushers /\ Final \in Flushers /\ Loop # Final
      /\ \A r \in Results : r \in Flushers /\ r # Loop
  BY ResultDeliveryAssumption DEF Flushers, Loop, Final
<1>4. /\ fl' \in [Flushers -> Calls] /\ MutexInv' /\ BatchInv'
      /\ \A q \in Flushers : q # Loop => fl'[q] = fl[q]
      /\ \A q \in Flushers : fl'[q].batch = fl[q].batch
  BY <1>1, <1>2, <1>3, IdleMoves
<1>5. Queued' = Queued /\ Held' = Held /\ HeldOnce'
  BY <1>2, <1>4, ItemsStay
<1>6. TypeOK'
  BY <1>2, <1>4 DEF DeliveryInv, TypeOK, Calls
<1>7. SubmitInv'
  BY <1>2, <1>3, <1>4, <1>5 DEF DeliveryInv, SubmitInv
<1>8. CloseInv' /\ CleanClose'
  BY <1>2, <1>3, <1>4, <1>5 DEF DeliveryInv, CloseInv, CleanClose
<1>9. LossesCounted'
  <2>1. Lost' \subseteq Lost /\ LossesCounted /\ dropped \in Nat /\ expired \in Nat
    BY <1>2, <1>5 DEF Lost, DeliveryInv, TypeOK
  <2> QED BY <2>1, <1>2, NothingLost
<1> QED BY <1>4, <1>5, <1>6, <1>7, <1>8, <1>9 DEF DeliveryInv

\* Close starts its final flush.
LEMMA CloseFlushKeeps ==
    ASSUME DeliveryInv, CloseFlush
    PROVE  DeliveryInv'
<1>1. /\ closing = "wait" /\ closing' = "flush"
      /\ fl' = [fl EXCEPT ![Final].pc = "lock"]
      /\ UNCHANGED <<items, dropped, expired, now, up, ctxDone, sub, mutex,
                     received, ticket, flushed>>
  BY DEF CloseFlush, queueVars, ghostVars
<1>2. /\ Final \in Flushers /\ fl[Final].pc = "idle"
      /\ \A r \in Results : r \in Flushers /\ r # Final
  BY <1>1, ResultDeliveryAssumption DEF Flushers, DeliveryInv, CloseInv
<1>3. /\ fl' \in [Flushers -> Calls] /\ MutexInv' /\ BatchInv' /\ fl'[Final].pc = "lock"
      /\ \A q \in Flushers : q # Final => fl'[q] = fl[q]
      /\ \A q \in Flushers : fl'[q].batch = fl[q].batch
  BY <1>1, <1>2, IdleMoves
<1>4. Queued' = Queued /\ Held' = Held /\ HeldOnce'
  BY <1>1, <1>3, ItemsStay
<1>5. TypeOK'
  BY <1>1, <1>3 DEF DeliveryInv, TypeOK, Calls
<1>6. SubmitInv'
  BY <1>1, <1>2, <1>3, <1>4 DEF DeliveryInv, SubmitInv
<1>7. CloseInv' /\ CleanClose'
  BY <1>1, <1>3 DEF DeliveryInv, CloseInv, CleanClose
<1>8. LossesCounted'
  <2>1. Lost' \subseteq Lost /\ LossesCounted /\ dropped \in Nat /\ expired \in Nat
    BY <1>1, <1>4 DEF Lost, DeliveryInv, TypeOK
  <2> QED BY <2>1, <1>1, NothingLost
<1> QED BY <1>3, <1>4, <1>5, <1>6, <1>7, <1>8 DEF DeliveryInv

\* Cancel, CloseBegin, the clock and the service touch no item and no call.
LEMMA OthersKeep ==
    ASSUME DeliveryInv, Cancel \/ CloseBegin \/ Tick \/ ServiceChanges \/ UNCHANGED vars
    PROVE  DeliveryInv'
<1>1. UNCHANGED <<items, dropped, expired, sub, mutex, fl, received, ticket, flushed>>
  BY DEF Cancel, CloseBegin, Tick, ServiceChanges, vars, queueVars, ghostVars
<1>2. Queued' = Queued /\ Held' = Held /\ HeldOnce'
  BY <1>1, ItemsStay
<1>3. now' \in 0..MaxNow /\ up' \in BOOLEAN /\ ctxDone' \in BOOLEAN
  <2>1. now \in 0..MaxNow /\ up \in BOOLEAN /\ ctxDone \in BOOLEAN /\ MaxNow \in Nat
    BY ResultDeliveryAssumption DEF DeliveryInv, TypeOK
  <2>2. now' \in 0..MaxNow
    BY <2>1 DEF Cancel, CloseBegin, Tick, ServiceChanges, vars
  <2>3. up' \in BOOLEAN
    BY <2>1 DEF Cancel, CloseBegin, Tick, ServiceChanges, vars
  <2>4. ctxDone' \in BOOLEAN
    BY <2>1, Zenon DEF Cancel, CloseBegin, Tick, ServiceChanges, vars
  <2> QED BY <2>2, <2>3, <2>4
<1>4. \/ closing' = closing /\ (ctxDone => ctxDone')
      \/ /\ closing = "open" /\ closing' = "wait" /\ ctxDone' /\ ctxDone
         /\ \A r \in Results : sub[r] # "sending"
  BY DEF Cancel, CloseBegin, Tick, ServiceChanges, vars
<1>5. TypeOK'
  BY <1>1, <1>3, <1>4 DEF DeliveryInv, TypeOK
<1>6. MutexInv' /\ BatchInv'
  BY <1>1 DEF DeliveryInv, MutexInv, BatchInv
<1>7. SubmitInv'
  BY <1>1, <1>2 DEF DeliveryInv, SubmitInv
<1>8. CloseInv' /\ CleanClose'
  BY <1>1, <1>2, <1>4 DEF DeliveryInv, CloseInv, CleanClose
<1>9. LossesCounted'
  <2>1. Lost' \subseteq Lost /\ LossesCounted /\ dropped \in Nat /\ expired \in Nat
    BY <1>1, <1>2 DEF Lost, DeliveryInv, TypeOK
  <2> QED BY <2>1, <1>1, NothingLost
<1> QED BY <1>2, <1>5, <1>6, <1>7, <1>8, <1>9 DEF DeliveryInv

-----------------------------------------------------------------------------
(* The theorems. *)

\* The invariant holds initially,
LEMMA DeliveryInit == Init => DeliveryInv
<1> SUFFICES ASSUME Init PROVE DeliveryInv
  OBVIOUS
<1>1. PICK e \in Seq(Item) : e = <<>>
  <2>1. <<>> \in Seq(Item)
    OBVIOUS
  <2> QED BY <2>1
<1>2. PICK c : c = [pc |-> "idle", batch |-> e, full |-> FALSE]
  OBVIOUS
<1>3. c \in Calls /\ c.pc = "idle" /\ c.batch = e
  BY <1>2 DEF Calls
<1>4. /\ fl \in [Flushers -> Calls]
      /\ \A p \in Flushers : fl[p].pc = "idle" /\ fl[p].batch = <<>>
  BY <1>1, <1>2, <1>3 DEF Init
<1>5. Queued = {} /\ Held = {} /\ items = <<>>
  BY <1>4 DEF Queued, Held, Init
<1>6. /\ None \notin Flushers /\ Final \in Flushers
      /\ \A r \in Results : r \in Flushers
      /\ MaxSize \in Nat /\ MaxNow \in Nat
  BY ResultDeliveryAssumption DEF Flushers
<1>7. TypeOK
  <2>1. Len(items) = 0 /\ items \in Seq(Item) /\ 0 \in 0..MaxNow
    BY <1>5, <1>6
  <2>2. /\ dropped \in Nat /\ expired \in Nat /\ flushed \in Nat
        /\ ticket \in [Results -> Nat] /\ received \subseteq Results
    BY DEF Init
  <2>3. /\ now \in 0..MaxNow /\ up \in BOOLEAN /\ ctxDone \in BOOLEAN
        /\ sub \in [Results -> {"new", "sending", "done"}]
        /\ mutex \in Flushers \cup {None} /\ closing = "open"
    BY <2>1 DEF Init
  <2>4. Len(items) <= MaxSize
    BY <2>1, <1>6
  <2> QED BY <2>1, <2>2, <2>3, <2>4, <1>4 DEF TypeOK, Calls
<1>8. MutexInv /\ BatchInv
  BY <1>4, <1>6 DEF Init, MutexInv, BatchInv
<1>9. SubmitInv
  BY <1>4, <1>5, <1>6 DEF SubmitInv
<1>10. CloseInv /\ CleanClose
  BY <1>4, <1>6 DEF Init, CloseInv, CleanClose
<1>11. HeldOnce
  BY <1>4, <1>5 DEF HeldOnce
<1>12. LossesCounted
  <2>1. {r \in Results : sub[r] = "done"} = {}
    BY DEF Init
  <2>2. {r \in Results : sub[r] = "done"} \ (received \cup Held \cup Queued) = {}
    BY <2>1
  <2>3. dropped + expired = 0
    BY DEF Init
  <2>4. PICK L : L = {r \in Results : sub[r] = "done"} \ (received \cup Held \cup Queued)
    OBVIOUS
  <2>5. Cardinality(L) = 0
    <3>1. L = {}
      BY <2>2, <2>4
    <3> QED BY <3>1, FS_EmptySet
  <2> QED BY <2>3, <2>4, <2>5 DEF LossesCounted
<1> QED BY <1>7, <1>8, <1>9, <1>10, <1>11, <1>12 DEF DeliveryInv

\* every step keeps it,
LEMMA DeliveryStep == DeliveryInv /\ [Next]_vars => DeliveryInv'
<1> SUFFICES ASSUME DeliveryInv, [Next]_vars PROVE DeliveryInv'
  OBVIOUS
<1>1. ASSUME NEW r \in Results, SubmitBegin(r) \/ Submission(r) PROVE DeliveryInv'
  BY <1>1, SubmitBeginKeeps, SubmitOkKeeps, SubmitQueueKeeps DEF Submission
<1>2. ASSUME NEW p \in Flushers, FlushStep(p) PROVE DeliveryInv'
  BY <1>2, LockKeeps, TakeKeeps, SentKeeps, FailedKeeps DEF FlushStep
<1>3. CASE LoopStep
  BY <1>3, LoopKeeps
<1>4. CASE CloseFlush
  BY <1>4, CloseFlushKeeps
<1>5. CASE Cancel \/ CloseBegin \/ Tick \/ ServiceChanges \/ UNCHANGED vars
  BY <1>5, OthersKeep
<1> QED BY <1>1, <1>2, <1>3, <1>4, <1>5 DEF Next, CloseStep

\* and so it always holds.
LEMMA DeliveryInvariant == Spec => []DeliveryInv
<1>1. Init => DeliveryInv
  BY DeliveryInit
<1>2. DeliveryInv /\ [Next]_vars => DeliveryInv'
  BY DeliveryStep
<1> QED BY <1>1, <1>2, PTL DEF Spec

\* No silent loss between SubmitCheckResult, ResultQueue and flushQueue: for any
\* number of results, any queue and batch size and any ttl, no more results are
\* missing than dropped and the TTL account for.
THEOREM NoSilentLoss == Spec => []LossesCounted
<1>1. DeliveryInv => LossesCounted
  BY DEF DeliveryInv
<1> QED BY <1>1, DeliveryInvariant, PTL

\* However submissions, the flush loop, the goroutines that submissions start and
\* Close interleave, no result is queued or held twice.
THEOREM NeverDoubled == Spec => []HeldOnce
<1>1. DeliveryInv => HeldOnce
  BY DEF DeliveryInv
<1> QED BY <1>1, DeliveryInvariant, PTL

\* When Close returns after a final flush none of whose sends failed, the queue is
\* empty and no straggling flushQueue holds a result.
THEOREM CloseLeavesNothing == Spec => []CleanClose
<1>1. DeliveryInv => CleanClose
  BY DEF DeliveryInv
<1> QED BY <1>1, DeliveryInvariant, PTL

=============================================================================
