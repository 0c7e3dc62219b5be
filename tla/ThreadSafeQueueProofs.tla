------------------------ MODULE ThreadSafeQueueProofs ------------------------
(* ThreadSafeQueue is type correct, loses no wakeup and implements           *)
(* BoundedFifo, for every number of threads, capacity and item.              *)
EXTENDS ThreadSafeQueue, SequenceTheorems, FiniteSetTheorems, TLAPS

(* Appending to the second of two concatenated sequences. *)
LEMMA ConcatAppend ==
    ASSUME NEW S, NEW s \in Seq(S), NEW t \in Seq(S), NEW e \in S
    PROVE  Append(s \o t, e) = s \o Append(t, e)
<1>1. Append(s \o t, e) \in Seq(S) /\ s \o Append(t, e) \in Seq(S)
  OBVIOUS
<1>2. Len(Append(s \o t, e)) = Len(s \o Append(t, e))
  OBVIOUS
<1>3. \A i \in 1..Len(Append(s \o t, e)) : Append(s \o t, e)[i] = (s \o Append(t, e))[i]
  OBVIOUS
<1> QED
  BY <1>1, <1>2, <1>3, SeqEqual

(* Moving the head of the second of two concatenated sequences to the first. *)
LEMMA ConcatHeadTail ==
    ASSUME NEW S, NEW s \in Seq(S), NEW t \in Seq(S), t # <<>>
    PROVE  Append(s, Head(t)) \o Tail(t) = s \o t
<1>1. /\ Head(t) \in S /\ Tail(t) \in Seq(S) /\ Len(Tail(t)) = Len(t) - 1
      /\ \A i \in 1..Len(Tail(t)) : Tail(t)[i] = t[i + 1]
  BY HeadTailProperties
<1>2. Append(s, Head(t)) \o Tail(t) \in Seq(S) /\ s \o t \in Seq(S)
  BY <1>1
<1>3. Len(Append(s, Head(t)) \o Tail(t)) = Len(s \o t)
  BY <1>1
<1>4. \A i \in 1..Len(s \o t) : (Append(s, Head(t)) \o Tail(t))[i] = (s \o t)[i]
  BY <1>1
<1> QED
  BY <1>2, <1>3, <1>4, SeqEqual

-----------------------------------------------------------------------------
(* TypeOK: every variable keeps its type and the queue its capacity, which   *)
(* the wait predicate of push and the test of tryPush guard.                 *)
THEOREM TypeCorrect == Spec => []TypeOK
<1> USE QueueAssumption DEF QueueAssumption
<1>1. Init => TypeOK
  <2>1. <<>> \in Seq(Item) /\ Len(<<>>) = 0
    BY EmptySeq
  <2> SUFFICES ASSUME Init PROVE TypeOK
    OBVIOUS
  <2>2. queue \in Seq(Item) /\ Len(queue) <= MaxSize /\ accepted \in Seq(Item) /\ delivered \in Seq(Item)
    BY <2>1 DEF Init
  <2>3. shutdown \in BOOLEAN
    BY DEF Init
  <2>4. pc \in [Threads -> {"idle", "push", "pop", "timed"}] /\ \A p \in Producers : pc[p] # "push"
    BY DEF Init, Threads
  <2>5. pushes \in [Producers -> 0..MaxPush]
    BY DEF Init
  <2>6. notFull \subseteq Producers /\ notEmpty \subseteq Consumers /\ expired \subseteq Consumers
    BY DEF Init
  <2> QED
    BY <2>2, <2>3, <2>4, <2>5, <2>6 DEF TypeOK
<1>2. TypeOK /\ [Next]_vars => TypeOK'
  <2> SUFFICES ASSUME TypeOK, [Next]_vars PROVE TypeOK'
    OBVIOUS
  <2> USE DEF TypeOK, Threads
  <2>1. ASSUME NEW p \in Producers, CallPush(p) PROVE TypeOK'
    BY <2>1 DEF CallPush
  <2>2. ASSUME NEW p \in Producers, PushWaits(p) PROVE TypeOK'
    BY <2>2 DEF PushWaits
  <2>a. ASSUME NEW item \in Item, Enqueue(item), Len(queue) < MaxSize
        PROVE  /\ queue' \in Seq(Item) /\ Len(queue') <= MaxSize
               /\ accepted' \in Seq(Item)
               /\ notEmpty' \subseteq Consumers
    BY <2>a DEF Enqueue, NotifyOne
  <2>3. ASSUME NEW p \in Producers, PushReturns(p) PROVE TypeOK'
    <3>1. <<p, pushes[p]>> \in Item
      BY <2>3 DEF PushReturns, Item
    <3>2. CASE shutdown
      BY <2>3, <3>2 DEF PushReturns, Return
    <3>3. CASE ~shutdown
      BY <2>3, <3>1, <3>3, <2>a DEF PushReturns, Return, MayPush
    <3> QED
      BY <3>2, <3>3
  <2>4. ASSUME NEW p \in Producers, TryPush(p) PROVE TypeOK'
    <3>1. <<p, pushes'[p]>> \in Item
      BY <2>4 DEF TryPush, Item
    <3>2. CASE Len(queue) >= MaxSize \/ shutdown
      BY <2>4, <3>2 DEF TryPush
    <3>3. CASE Len(queue) < MaxSize /\ ~shutdown
      BY <2>4, <3>1, <3>3, <2>a DEF TryPush
    <3> QED
      BY <3>2, <3>3
  <2>5. ASSUME NEW c \in Consumers, NEW kind \in {"pop", "timed"}, CallPop(c, kind) PROVE TypeOK'
    BY <2>5 DEF CallPop
  <2>6. ASSUME NEW c \in Consumers, PopWaits(c) PROVE TypeOK'
    BY <2>6 DEF PopWaits
  <2>7. ASSUME NEW c \in Consumers, PopReturnsItem(c) PROVE TypeOK'
    BY <2>7 DEF PopReturnsItem, Dequeue, NotifyOne, Return
  <2>8. ASSUME NEW c \in Consumers, PopReturnsNothing(c) PROVE TypeOK'
    BY <2>8 DEF PopReturnsNothing, Return
  <2>9. ASSUME NEW c \in Consumers, Deadline(c) PROVE TypeOK'
    BY <2>9 DEF Deadline
  <2>10. ASSUME NEW t \in Threads, SpuriousWakeup(t) PROVE TypeOK'
    BY <2>10 DEF SpuriousWakeup
  <2>11. CASE Shutdown
    BY <2>11 DEF Shutdown
  <2>12. CASE UNCHANGED vars
    BY <2>12 DEF vars
  <2> QED
    BY <2>1, <2>2, <2>3, <2>4, <2>5, <2>6, <2>7, <2>8, <2>9, <2>10, <2>11, <2>12
    DEF Next, Producer, Consumer
<1> QED
  BY <1>1, <1>2, PTL DEF Spec
-----------------------------------------------------------------------------
(* SleepInv: threads sleep only in the matching call, never after shutdown() *)
(* and never past a deadline.                                                *)
LEMMA SleepStep == TypeOK /\ SleepInv /\ [Next]_vars => SleepInv'
<1> USE QueueAssumption DEF QueueAssumption, TypeOK, SleepInv, Threads, Awake
<1> SUFFICES ASSUME TypeOK, SleepInv, [Next]_vars PROVE SleepInv'
  OBVIOUS
<1>a. ASSUME NEW item, Enqueue(item) PROVE notEmpty' \subseteq notEmpty
  BY <1>a DEF Enqueue, NotifyOne
<1>b. ASSUME Dequeue PROVE notFull' \subseteq notFull
  BY <1>b DEF Dequeue, NotifyOne
<1>1. ASSUME NEW p \in Producers, CallPush(p) PROVE SleepInv'
  BY <1>1 DEF CallPush
<1>2. ASSUME NEW p \in Producers, PushWaits(p) PROVE SleepInv'
  BY <1>2 DEF PushWaits, MayPush
<1>3. ASSUME NEW p \in Producers, PushReturns(p) PROVE SleepInv'
  BY <1>3, <1>a DEF PushReturns, Return
<1>4. ASSUME NEW p \in Producers, TryPush(p) PROVE SleepInv'
  BY <1>4, <1>a DEF TryPush
<1>5. ASSUME NEW c \in Consumers, NEW kind \in {"pop", "timed"}, CallPop(c, kind) PROVE SleepInv'
  BY <1>5 DEF CallPop
<1>6. ASSUME NEW c \in Consumers, PopWaits(c) PROVE SleepInv'
  BY <1>6 DEF PopWaits, MayPop
<1>7. ASSUME NEW c \in Consumers, PopReturnsItem(c) PROVE SleepInv'
  BY <1>7, <1>b DEF PopReturnsItem, Return
<1>8. ASSUME NEW c \in Consumers, PopReturnsNothing(c) PROVE SleepInv'
  BY <1>8 DEF PopReturnsNothing, Return
<1>9. ASSUME NEW c \in Consumers, Deadline(c) PROVE SleepInv'
  BY <1>9 DEF Deadline
<1>10. ASSUME NEW t \in Threads, SpuriousWakeup(t) PROVE SleepInv'
  BY <1>10 DEF SpuriousWakeup
<1>11. CASE Shutdown
  BY <1>11 DEF Shutdown
<1>12. CASE UNCHANGED vars
  BY <1>12 DEF vars
<1> QED
  BY <1>1, <1>2, <1>3, <1>4, <1>5, <1>6, <1>7, <1>8, <1>9, <1>10, <1>11, <1>12
  DEF Next, Producer, Consumer

THEOREM SleepCorrect == Spec => []SleepInv
<1>1. Init => SleepInv
  BY DEF Init, SleepInv
<1> QED
  BY <1>1, SleepStep, TypeCorrect, PTL DEF Spec

-----------------------------------------------------------------------------
(* HistoryInv: the queue holds exactly what was accepted and not delivered,  *)
(* in order.                                                                 *)
THEOREM HistoryCorrect == Spec => []HistoryInv
<1>1. Init => HistoryInv
  BY DEF Init, HistoryInv
<1>2. TypeOK /\ HistoryInv /\ [Next]_vars => HistoryInv'
  <2> SUFFICES ASSUME TypeOK, HistoryInv, [Next]_vars PROVE HistoryInv'
    OBVIOUS
  <2> USE DEF HistoryInv
  <2>1. ASSUME NEW item \in Item, Enqueue(item), UNCHANGED delivered PROVE HistoryInv'
    <3>1. /\ queue \in Seq(Item) /\ delivered \in Seq(Item) /\ delivered' = delivered
          /\ queue' = Append(queue, item) /\ accepted' = Append(delivered \o queue, item)
      BY <2>1 DEF Enqueue, TypeOK
    <3>2. delivered \o Append(queue, item) = Append(delivered \o queue, item)
      BY <3>1, ConcatAppend
    <3> QED
      BY <3>1, <3>2
  <2>2. ASSUME queue # <<>>, Dequeue, UNCHANGED accepted PROVE HistoryInv'
    BY <2>2, ConcatHeadTail DEF Dequeue, TypeOK
  <2>3. ASSUME NEW p \in Producers, PushReturns(p) PROVE HistoryInv'
    <3>1. <<p, pushes[p]>> \in Item
      BY <2>3, QueueAssumption DEF PushReturns, Item, TypeOK, QueueAssumption
    <3> QED
      BY <2>3, <2>1, <3>1 DEF PushReturns
  <2>4. ASSUME NEW p \in Producers, TryPush(p) PROVE HistoryInv'
    <3>1. <<p, pushes'[p]>> \in Item
      BY <2>4, QueueAssumption DEF TryPush, Item, TypeOK, QueueAssumption
    <3> QED
      BY <2>4, <2>1, <3>1 DEF TryPush
  <2>5. ASSUME NEW c \in Consumers, PopReturnsItem(c) PROVE HistoryInv'
    BY <2>5, <2>2 DEF PopReturnsItem
  <2>6. ASSUME UNCHANGED <<queue, accepted, delivered>> PROVE HistoryInv'
    BY <2>6
  <2>7. CASE UNCHANGED vars \/ Shutdown
    BY <2>7, <2>6 DEF vars, Shutdown
  <2>8. CASE \E p \in Producers : CallPush(p) \/ PushWaits(p)
    BY <2>8, <2>6 DEF CallPush, PushWaits
  <2>9. CASE \E c \in Consumers : \/ \E kind \in {"pop", "timed"} : CallPop(c, kind)
                                  \/ PopWaits(c) \/ PopReturnsNothing(c) \/ Deadline(c)
    BY <2>9, <2>6 DEF CallPop, PopWaits, PopReturnsNothing, Deadline
  <2>10. CASE \E t \in Threads : SpuriousWakeup(t)
    BY <2>10, <2>6 DEF SpuriousWakeup
  <2> QED
    BY <2>3, <2>4, <2>5, <2>7, <2>8, <2>9, <2>10 DEF Next, Producer, Consumer
<1> QED
  BY <1>1, <1>2, TypeCorrect, PTL DEF Spec

-----------------------------------------------------------------------------
(* ImplementsFifo: every step of the queue accepts an item, delivers the     *)
(* oldest one, closes, or changes nothing a caller can see.                  *)
THEOREM Refinement == Spec => ImplementsFifo
<1>1. Init => Fifo!Init
  BY DEF Init, Fifo!Init
<1>2. TypeOK /\ HistoryInv /\ [Next]_vars => [Fifo!Next]_Fifo!vars
  <2> SUFFICES ASSUME TypeOK, HistoryInv, [Next]_vars PROVE [Fifo!Next]_Fifo!vars
    OBVIOUS
  <2>0. Len(accepted) = Len(delivered) + Len(queue) /\ Len(delivered) \in Nat /\ Len(queue) \in Nat
    BY ConcatProperties DEF TypeOK, HistoryInv
  <2>1. ASSUME NEW item \in Item, Enqueue(item), ~shutdown, Len(queue) < MaxSize,
               UNCHANGED <<delivered, shutdown>>
        PROVE  Fifo!Next
    <3>1. Fifo!Accept(item)
      BY <2>0, <2>1, QueueAssumption DEF Enqueue, Fifo!Accept, QueueAssumption
    <3> QED
      BY <3>1 DEF Fifo!Next
  <2>2. ASSUME queue # <<>>, Dequeue, UNCHANGED <<accepted, shutdown>> PROVE Fifo!Next
    <3>1. Len(queue) > 0 /\ Head(queue) = queue[1]
      BY <2>2 DEF TypeOK
    <3>2. accepted[Len(delivered) + 1] = queue[1]
      BY <2>0, <3>1, ConcatProperties DEF HistoryInv, TypeOK
    <3>3. Fifo!Deliver
      BY <2>0, <2>2, <3>1, <3>2 DEF Dequeue, Fifo!Deliver
    <3> QED
      BY <3>3 DEF Fifo!Next
  <2>3. ASSUME NEW p \in Producers, PushReturns(p) PROVE [Fifo!Next]_Fifo!vars
    <3>1. <<p, pushes[p]>> \in Item
      BY <2>3, QueueAssumption DEF PushReturns, Item, TypeOK, QueueAssumption
    <3>2. CASE shutdown
      BY <2>3, <3>2 DEF PushReturns, Fifo!vars
    <3>3. CASE ~shutdown
      BY <2>3, <2>1, <3>1, <3>3 DEF PushReturns, MayPush
    <3> QED
      BY <3>2, <3>3
  <2>4. ASSUME NEW p \in Producers, TryPush(p) PROVE [Fifo!Next]_Fifo!vars
    <3>1. <<p, pushes'[p]>> \in Item
      BY <2>4, QueueAssumption DEF TryPush, Item, TypeOK, QueueAssumption
    <3>2. CASE UNCHANGED <<queue, accepted, notEmpty>>
      BY <2>4, <3>2 DEF TryPush, Fifo!vars
    <3>3. CASE Enqueue(<<p, pushes'[p]>>) /\ Len(queue) < MaxSize /\ ~shutdown
      BY <2>4, <2>1, <3>1, <3>3 DEF TryPush
    <3> QED
      BY <2>4, <3>2, <3>3 DEF TryPush
  <2>5. ASSUME NEW c \in Consumers, PopReturnsItem(c) PROVE Fifo!Next
    BY <2>5, <2>2 DEF PopReturnsItem
  <2>6. CASE Shutdown
    BY <2>6 DEF Shutdown, Fifo!Next, Fifo!Close
  <2>7. ASSUME UNCHANGED <<shutdown, accepted, delivered>> PROVE UNCHANGED Fifo!vars
    BY <2>7 DEF Fifo!vars
  <2> QED
    BY <2>3, <2>4, <2>5, <2>6, <2>7 DEF Next, Producer, Consumer, CallPush, PushWaits, CallPop,
       PopWaits, PopReturnsNothing, Deadline, SpuriousWakeup, vars
<1> QED
  BY <1>1, <1>2, TypeCorrect, HistoryCorrect, PTL DEF Spec, ImplementsFifo, Fifo!Spec
-----------------------------------------------------------------------------
(* NoLostWakeup.  Sets of awake callers change by at most one thread.        *)
LEMMA Grows ==
    ASSUME NEW S, IsFiniteSet(S), NEW T, IsFiniteSet(T), S \subseteq T
    PROVE  /\ Cardinality(S) \in Nat /\ Cardinality(T) \in Nat
           /\ Cardinality(S) <= Cardinality(T)
           /\ \A x \in T : x \notin S => Cardinality(S) + 1 <= Cardinality(T)
<1>1. Cardinality(S) \in Nat /\ Cardinality(T) \in Nat /\ Cardinality(S) <= Cardinality(T)
  BY FS_Subset, FS_CardinalityType
<1>2. ASSUME NEW x \in T, x \notin S PROVE Cardinality(S) + 1 <= Cardinality(T)
  <2>1. S \in SUBSET (T \ {x})
    BY <1>2
  <2>2. IsFiniteSet(T \ {x}) /\ Cardinality(T \ {x}) = Cardinality(T) - 1
    BY <1>2, FS_RemoveElement
  <2>3. Cardinality(S) <= Cardinality(T \ {x})
    BY <2>1, <2>2, FS_Subset
  <2> QED
    BY <1>1, <2>2, <2>3
<1> QED
  BY <1>1, <1>2

LEMMA Shrinks ==
    ASSUME NEW S, IsFiniteSet(S), NEW T, IsFiniteSet(T), NEW x, S \ {x} \subseteq T
    PROVE  Cardinality(S) - 1 <= Cardinality(T)
<1>1. /\ IsFiniteSet(S \ {x})
      /\ Cardinality(S \ {x}) = IF x \in S THEN Cardinality(S) - 1 ELSE Cardinality(S)
  BY FS_RemoveElement
<1>2. Cardinality(S \ {x}) <= Cardinality(T) /\ Cardinality(S) \in Nat /\ Cardinality(T) \in Nat
  BY <1>1, Grows, FS_CardinalityType
<1> QED
  BY <1>1, <1>2

LEMMA AwakeFinite ==
    /\ IsFiniteSet(Popping) /\ IsFiniteSet(Pushing)
    /\ IsFiniteSet(Popping') /\ IsFiniteSet(Pushing')
<1>1. /\ Popping \in SUBSET Consumers /\ Pushing \in SUBSET Producers
      /\ Popping' \in SUBSET Consumers /\ Pushing' \in SUBSET Producers
  BY DEF Popping, Pushing
<1> QED
  BY <1>1, QueueAssumption, FS_Subset DEF QueueAssumption

(* The two halves of NoLostWakeup. *)
EveryItemClaimed == notEmpty # {} => Len(queue) <= Cardinality(Popping)
EveryPlaceClaimed == notFull # {} => MaxSize - Len(queue) <= Cardinality(Pushing)

(* Enqueue adds an item and, when a consumer sleeps, wakes one. *)
LEMMA EnqueueWakes ==
    ASSUME TypeOK, SleepInv, EveryItemClaimed, NEW item \in Item, Enqueue(item),
           \A c \in Consumers : pc'[c] = pc[c]
    PROVE  EveryItemClaimed'
<1> USE QueueAssumption DEF QueueAssumption
<1>1. SUFFICES ASSUME notEmpty' # {} PROVE Len(queue') <= Cardinality(Popping')
  BY DEF EveryItemClaimed
<1>2. PICK w \in notEmpty : notEmpty' = notEmpty \ {w}
  BY <1>1 DEF Enqueue, NotifyOne
<1>3. w \in Popping' /\ w \notin Popping /\ Popping \subseteq Popping'
  BY <1>2 DEF Popping, SleepInv, TypeOK
<1>4. IsFiniteSet(Popping) /\ IsFiniteSet(Popping')
  BY AwakeFinite
<1>5. Cardinality(Popping) \in Nat /\ Cardinality(Popping') \in Nat /\ Cardinality(Popping) + 1 <= Cardinality(Popping')
  BY <1>3, <1>4, Grows
<1>6. Len(queue) <= Cardinality(Popping)
  BY <1>2 DEF EveryItemClaimed
<1>7. Len(queue') = Len(queue) + 1 /\ Len(queue) \in Nat
  BY DEF Enqueue, TypeOK
<1> QED
  BY <1>5, <1>6, <1>7

(* Dequeue frees a place and, when a producer sleeps, wakes one. *)
LEMMA DequeueWakes ==
    ASSUME TypeOK, SleepInv, EveryPlaceClaimed, queue # <<>>, Dequeue,
           \A p \in Producers : pc'[p] = pc[p]
    PROVE  EveryPlaceClaimed'
<1> USE QueueAssumption DEF QueueAssumption
<1>1. SUFFICES ASSUME notFull' # {} PROVE MaxSize - Len(queue') <= Cardinality(Pushing')
  BY DEF EveryPlaceClaimed
<1>2. PICK w \in notFull : notFull' = notFull \ {w}
  BY <1>1 DEF Dequeue, NotifyOne
<1>3. w \in Pushing' /\ w \notin Pushing /\ Pushing \subseteq Pushing'
  BY <1>2 DEF Pushing, SleepInv, TypeOK
<1>4. IsFiniteSet(Pushing) /\ IsFiniteSet(Pushing')
  BY AwakeFinite
<1>5. Cardinality(Pushing) \in Nat /\ Cardinality(Pushing') \in Nat /\ Cardinality(Pushing) + 1 <= Cardinality(Pushing')
  BY <1>3, <1>4, Grows
<1>6. MaxSize - Len(queue) <= Cardinality(Pushing)
  BY <1>2 DEF EveryPlaceClaimed
<1>7. Len(queue') = Len(queue) - 1 /\ Len(queue) \in Nat
  BY DEF Dequeue, TypeOK
<1> QED
  BY <1>5, <1>6, <1>7

(* Nobody stops being on the way to the queue, and nobody falls asleep. *)
LEMMA NobodyLeaves ==
    ASSUME EveryItemClaimed, EveryPlaceClaimed, UNCHANGED queue,
           notEmpty' \subseteq notEmpty, notFull' \subseteq notFull,
           Popping \subseteq Popping', Pushing \subseteq Pushing',
           Len(queue) \in Nat
    PROVE  EveryItemClaimed' /\ EveryPlaceClaimed'
<1>1. IsFiniteSet(Popping) /\ IsFiniteSet(Popping') /\ IsFiniteSet(Pushing) /\ IsFiniteSet(Pushing')
  BY AwakeFinite
<1>2. /\ Cardinality(Popping) \in Nat /\ Cardinality(Popping') \in Nat
      /\ Cardinality(Popping) <= Cardinality(Popping')
  BY <1>1, Grows
<1>3. /\ Cardinality(Pushing) \in Nat /\ Cardinality(Pushing') \in Nat
      /\ Cardinality(Pushing) <= Cardinality(Pushing')
  BY <1>1, Grows
<1> QED
  BY <1>2, <1>3, QueueAssumption DEF EveryItemClaimed, EveryPlaceClaimed, QueueAssumption

LEMMA WakeupStep ==
    TypeOK /\ SleepInv /\ NoLostWakeup /\ [Next]_vars => NoLostWakeup'
<1> USE QueueAssumption DEF QueueAssumption
<1> SUFFICES ASSUME TypeOK, SleepInv, EveryItemClaimed, EveryPlaceClaimed, [Next]_vars
             PROVE  EveryItemClaimed' /\ EveryPlaceClaimed'
  BY DEF NoLostWakeup, EveryItemClaimed, EveryPlaceClaimed
<1>0. Len(queue) \in Nat /\ (queue = <<>> => Len(queue) = 0)
  BY EmptySeq DEF TypeOK
<1>f. /\ IsFiniteSet(Popping) /\ IsFiniteSet(Popping') /\ IsFiniteSet(Pushing) /\ IsFiniteSet(Pushing')
      /\ Cardinality(Popping) \in Nat /\ Cardinality(Popping') \in Nat
      /\ Cardinality(Pushing) \in Nat /\ Cardinality(Pushing') \in Nat
  <2>1. IsFiniteSet(Popping) /\ IsFiniteSet(Popping') /\ IsFiniteSet(Pushing) /\ IsFiniteSet(Pushing')
    BY AwakeFinite
  <2> QED
    BY <2>1, FS_CardinalityType
<1>1. ASSUME NEW p \in Producers, CallPush(p) PROVE EveryItemClaimed' /\ EveryPlaceClaimed'
  <2>1. Popping \subseteq Popping' /\ Pushing \subseteq Pushing'
    BY <1>1 DEF CallPush, Popping, Pushing, TypeOK, Threads
  <2> QED
    BY <1>0, <1>1, <2>1, NobodyLeaves DEF CallPush
<1>2. ASSUME NEW p \in Producers, PushWaits(p) PROVE EveryItemClaimed' /\ EveryPlaceClaimed'
  <2>1. Len(queue') = MaxSize
    BY <1>0, <1>2 DEF PushWaits, MayPush, TypeOK
  <2>2. Popping' = Popping
    BY <1>2 DEF PushWaits, Popping
  <2>3. EveryItemClaimed'
    BY <1>2, <2>2 DEF EveryItemClaimed, PushWaits
  <2>4. EveryPlaceClaimed'
    BY <1>f, <2>1 DEF EveryPlaceClaimed
  <2> QED
    BY <2>3, <2>4
<1>3. ASSUME NEW p \in Producers, PushReturns(p) PROVE EveryItemClaimed' /\ EveryPlaceClaimed'
  <2>1. CASE shutdown
    <3>1. notEmpty' = {} /\ notFull' = {}
      BY <1>3, <2>1 DEF PushReturns, SleepInv
    <3> QED
      BY <3>1 DEF EveryItemClaimed, EveryPlaceClaimed
  <2>2. CASE ~shutdown
    <3>1. <<p, pushes[p]>> \in Item
      BY <1>3 DEF PushReturns, Item, TypeOK
    <3>2. Enqueue(<<p, pushes[p]>>) /\ \A c \in Consumers : pc'[c] = pc[c]
      BY <1>3, <2>2 DEF PushReturns, Return, TypeOK, Threads
    <3>3. EveryItemClaimed'
      BY <3>1, <3>2, EnqueueWakes
    <3>4. Pushing \ {p} \subseteq Pushing' /\ notFull' = notFull
      BY <1>3 DEF PushReturns, Return, Pushing, TypeOK, Threads
    <3>5. Cardinality(Pushing) - 1 <= Cardinality(Pushing')
      BY <1>f, <3>4, Shrinks
    <3>6. Len(queue') = Len(queue) + 1
      BY <3>2 DEF Enqueue, TypeOK
    <3>7. EveryPlaceClaimed'
      BY <1>0, <1>f, <3>4, <3>5, <3>6 DEF EveryPlaceClaimed
    <3> QED
      BY <3>3, <3>7
  <2> QED
    BY <2>1, <2>2
<1>4. ASSUME NEW p \in Producers, TryPush(p) PROVE EveryItemClaimed' /\ EveryPlaceClaimed'
  <2>0. Pushing' = Pushing
    BY <1>4 DEF TryPush, Pushing
  <2>1. CASE UNCHANGED <<queue, accepted, notEmpty>>
    <3>1. Popping' = Popping
      BY <1>4, <2>1 DEF TryPush, Popping
    <3> QED
      BY <1>0, <1>4, <2>0, <2>1, <3>1, NobodyLeaves DEF TryPush
  <2>2. CASE Enqueue(<<p, pushes'[p]>>)
    <3>1. <<p, pushes'[p]>> \in Item
      BY <1>4 DEF TryPush, Item, TypeOK
    <3>2. EveryItemClaimed'
      BY <1>4, <2>2, <3>1, EnqueueWakes DEF TryPush
    <3>3. Len(queue') = Len(queue) + 1
      BY <2>2 DEF Enqueue, TypeOK
    <3>4. EveryPlaceClaimed'
      BY <1>0, <1>4, <1>f, <2>0, <3>3 DEF EveryPlaceClaimed, TryPush
    <3> QED
      BY <3>2, <3>4
  <2> QED
    BY <1>4, <2>1, <2>2 DEF TryPush
<1>5. ASSUME NEW c \in Consumers, NEW kind \in {"pop", "timed"}, CallPop(c, kind)
      PROVE  EveryItemClaimed' /\ EveryPlaceClaimed'
  <2>1. Popping \subseteq Popping' /\ Pushing \subseteq Pushing'
    BY <1>5 DEF CallPop, Popping, Pushing, TypeOK, Threads
  <2> QED
    BY <1>0, <1>5, <2>1, NobodyLeaves DEF CallPop
<1>6. ASSUME NEW c \in Consumers, PopWaits(c) PROVE EveryItemClaimed' /\ EveryPlaceClaimed'
  <2>1. Len(queue') = 0
    BY <1>0, <1>6 DEF PopWaits, MayPop
  <2>2. Pushing' = Pushing
    BY <1>6 DEF PopWaits, Pushing
  <2>3. EveryPlaceClaimed'
    BY <1>6, <2>2 DEF EveryPlaceClaimed, PopWaits
  <2>4. EveryItemClaimed'
    BY <1>f, <2>1 DEF EveryItemClaimed
  <2> QED
    BY <2>3, <2>4
<1>7. ASSUME NEW c \in Consumers, PopReturnsItem(c) PROVE EveryItemClaimed' /\ EveryPlaceClaimed'
  <2>1. Dequeue /\ queue # <<>> /\ \A p \in Producers : pc'[p] = pc[p]
    BY <1>7 DEF PopReturnsItem, Return, TypeOK, Threads
  <2>2. EveryPlaceClaimed'
    BY <2>1, DequeueWakes
  <2>3. Popping \ {c} \subseteq Popping' /\ notEmpty' = notEmpty
    BY <1>7 DEF PopReturnsItem, Return, Popping, TypeOK, Threads
  <2>4. Cardinality(Popping) - 1 <= Cardinality(Popping')
    BY <1>f, <2>3, Shrinks
  <2>5. Len(queue') = Len(queue) - 1
    BY <2>1 DEF Dequeue, TypeOK
  <2>6. EveryItemClaimed'
    BY <1>0, <1>f, <2>3, <2>4, <2>5 DEF EveryItemClaimed
  <2> QED
    BY <2>2, <2>6
<1>8. ASSUME NEW c \in Consumers, PopReturnsNothing(c) PROVE EveryItemClaimed' /\ EveryPlaceClaimed'
  <2>1. Len(queue') = 0
    BY <1>0, <1>8 DEF PopReturnsNothing
  <2>2. Pushing' = Pushing
    BY <1>8 DEF PopReturnsNothing, Return, Pushing, TypeOK, Threads
  <2>3. EveryPlaceClaimed'
    BY <1>8, <2>2 DEF EveryPlaceClaimed, PopReturnsNothing
  <2>4. EveryItemClaimed'
    BY <1>f, <2>1 DEF EveryItemClaimed
  <2> QED
    BY <2>3, <2>4
<1>9. ASSUME NEW c \in Consumers, Deadline(c) PROVE EveryItemClaimed' /\ EveryPlaceClaimed'
  <2>1. Popping \subseteq Popping' /\ Pushing \subseteq Pushing'
    BY <1>9 DEF Deadline, Popping, Pushing
  <2> QED
    BY <1>0, <1>9, <2>1, NobodyLeaves DEF Deadline
<1>10. ASSUME NEW t \in Threads, SpuriousWakeup(t) PROVE EveryItemClaimed' /\ EveryPlaceClaimed'
  <2>1. Popping \subseteq Popping' /\ Pushing \subseteq Pushing'
    BY <1>10 DEF SpuriousWakeup, Popping, Pushing
  <2> QED
    BY <1>0, <1>10, <2>1, NobodyLeaves DEF SpuriousWakeup
<1>11. CASE Shutdown
  BY <1>11 DEF Shutdown, EveryItemClaimed, EveryPlaceClaimed
<1>12. CASE UNCHANGED vars
  BY <1>12 DEF vars, EveryItemClaimed, EveryPlaceClaimed, Popping, Pushing
<1> QED
  BY <1>1, <1>2, <1>3, <1>4, <1>5, <1>6, <1>7, <1>8, <1>9, <1>10, <1>11, <1>12
  DEF Next, Producer, Consumer

(* A notify_one per item and per freed place is enough for any number of     *)
(* threads, with timeouts, spurious wakeups and shutdown.                    *)
THEOREM NoLostWakeupCorrect == Spec => []NoLostWakeup
<1>1. Init => NoLostWakeup
  BY DEF Init, NoLostWakeup
<1> QED
  BY <1>1, WakeupStep, TypeCorrect, SleepCorrect, PTL DEF Spec
=============================================================================
