--------------------------- MODULE ThreadSafeQueue ---------------------------
(* ThreadSafeQueue<T> of include/thread_safe_queue.h: one mutex, the         *)
(* condition variables not_full_ and not_empty_, a std::queue and a shutdown *)
(* flag.  Every member function holds mutex_ from its first line to its      *)
(* return or to a wait, so the stretch between two waits is one action:      *)
(* a call begins (Call...), and each time its thread owns the mutex it       *)
(* either finishes or goes to sleep on a condition variable.                 *)
EXTENDS Naturals, Sequences, FiniteSets

CONSTANTS Producers,  (* threads that call push and tryPush              *)
          Consumers,  (* threads that call pop and popWithTimeout        *)
          MaxSize,    (* max_size_                                       *)
          MaxPush     (* bound: pushes attempted by each producer        *)

ASSUME QueueAssumption ==
    /\ IsFiniteSet(Producers) /\ IsFiniteSet(Consumers)
    /\ Producers \cap Consumers = {}
    /\ MaxSize \in Nat \ {0}
    /\ MaxPush \in Nat

VARIABLES
    queue,       (* queue_                                                  *)
    shutdown,    (* shutdown_                                               *)
    notFull,     (* threads asleep on not_full_                             *)
    notEmpty,    (* threads asleep on not_empty_                            *)
    pc,          (* the call each thread is in, "idle" when in none         *)
    expired,     (* timed callers whose deadline has passed                 *)
    pushes,      (* pushes each producer has begun; numbers its items       *)
    accepted,    (* history: items that entered queue_                      *)
    delivered    (* history: items returned to a caller                     *)

vars == <<queue, shutdown, notFull, notEmpty, pc, expired, pushes, accepted, delivered>>

Threads == Producers \cup Consumers

(* The n-th item of a producer. *)
Item == Producers \X (1..MaxPush)

TypeOK ==
    /\ queue \in Seq(Item) /\ Len(queue) <= MaxSize
    /\ shutdown \in BOOLEAN
    /\ notFull \subseteq Producers
    /\ notEmpty \subseteq Consumers
    /\ pc \in [Threads -> {"idle", "push", "pop", "timed"}]
    /\ expired \subseteq Consumers
    /\ pushes \in [Producers -> 0..MaxPush]
    /\ \A p \in Producers : pc[p] = "push" => pushes[p] > 0
    /\ accepted \in Seq(Item)
    /\ delivered \in Seq(Item)

Init ==
    /\ queue = <<>>
    /\ shutdown = FALSE
    /\ notFull = {} /\ notEmpty = {}
    /\ pc = [t \in Threads |-> "idle"]
    /\ expired = {}
    /\ pushes = [p \in Producers |-> 0]
    /\ accepted = <<>> /\ delivered = <<>>

-----------------------------------------------------------------------------
(* notify_one wakes any one sleeper, and nobody when there is none. *)
NotifyOne(waiters, waitersNext) ==
    \/ waiters = {} /\ waitersNext = {}
    \/ \E t \in waiters : waitersNext = waiters \ {t}

(* Mutant of MayPush: push waits for nothing. *)
MayPushAlways == TRUE

(* The wait predicates. *)
MayPush == Len(queue) < MaxSize \/ shutdown
MayPop == queue # <<>> \/ shutdown

(* A thread in a call and not asleep is contending for the mutex. *)
Awake(t) == t \notin notFull /\ t \notin notEmpty

(* queue_.push(item); not_empty_.notify_one() *)
Enqueue(item) ==
    /\ queue' = Append(queue, item)
    /\ accepted' = Append(accepted, item)
    /\ NotifyOne(notEmpty, notEmpty')

(* Mutant of Dequeue: notify_one on not_full_ forgotten. *)
DequeueSilently ==
    /\ queue' = Tail(queue)
    /\ delivered' = Append(delivered, Head(queue))
    /\ UNCHANGED notFull

(* item = queue_.front(); queue_.pop(); not_full_.notify_one() *)
Dequeue ==
    /\ queue' = Tail(queue)
    /\ delivered' = Append(delivered, Head(queue))
    /\ NotifyOne(notFull, notFull')

Return(t) == pc' = [pc EXCEPT ![t] = "idle"]

-----------------------------------------------------------------------------
CallPush(p) ==
    /\ pc[p] = "idle" /\ pushes[p] < MaxPush
    /\ pc' = [pc EXCEPT ![p] = "push"]
    /\ pushes' = [pushes EXCEPT ![p] = @ + 1]
    /\ UNCHANGED <<queue, shutdown, notFull, notEmpty, expired, accepted, delivered>>

(* push: not_full_.wait finds its predicate false and releases the mutex. *)
PushWaits(p) ==
    /\ pc[p] = "push" /\ Awake(p) /\ ~MayPush
    /\ notFull' = notFull \cup {p}
    /\ UNCHANGED <<queue, shutdown, notEmpty, pc, expired, pushes, accepted, delivered>>

(* Mutant of PushReturns: "if (shutdown_) return" forgotten. *)
PushReturnsAnyway(p) ==
    /\ pc[p] = "push" /\ Awake(p) /\ MayPush
    /\ Return(p)
    /\ Enqueue(<<p, pushes[p]>>)
    /\ UNCHANGED <<shutdown, notFull, expired, pushes, delivered>>

(* push: the wait is over; an item pushed after shutdown is dropped. *)
PushReturns(p) ==
    /\ pc[p] = "push" /\ Awake(p) /\ MayPush
    /\ Return(p)
    /\ \/ /\ shutdown
          /\ UNCHANGED <<queue, accepted, notEmpty>>
       \/ /\ ~shutdown
          /\ Enqueue(<<p, pushes[p]>>)
    /\ UNCHANGED <<shutdown, notFull, expired, pushes, delivered>>

(* tryPush never waits: it refuses when the queue is full or shut down. *)
TryPush(p) ==
    /\ pc[p] = "idle" /\ pushes[p] < MaxPush
    /\ pushes' = [pushes EXCEPT ![p] = @ + 1]
    /\ \/ /\ Len(queue) >= MaxSize \/ shutdown
          /\ UNCHANGED <<queue, accepted, notEmpty>>
       \/ /\ Len(queue) < MaxSize /\ ~shutdown
          /\ Enqueue(<<p, pushes'[p]>>)
    /\ UNCHANGED <<shutdown, notFull, pc, expired, delivered>>

-----------------------------------------------------------------------------
(* A consumer enters pop ("pop") or popWithTimeout ("timed"). *)
CallPop(c, kind) ==
    /\ pc[c] = "idle"
    /\ pc' = [pc EXCEPT ![c] = kind]
    /\ UNCHANGED <<queue, shutdown, notFull, notEmpty, expired, pushes, accepted, delivered>>

(* Mutant of PopWaits: wait instead of wait_for. *)
PopWaitsForever(c) ==
    /\ pc[c] \in {"pop", "timed"} /\ Awake(c) /\ ~MayPop
    /\ notEmpty' = notEmpty \cup {c}
    /\ UNCHANGED <<queue, shutdown, notFull, pc, expired, pushes, accepted, delivered>>

(* Predicate false: sleep.  A timed caller past its deadline does not. *)
PopWaits(c) ==
    /\ pc[c] \in {"pop", "timed"} /\ Awake(c) /\ ~MayPop
    /\ c \notin expired
    /\ notEmpty' = notEmpty \cup {c}
    /\ UNCHANGED <<queue, shutdown, notFull, pc, expired, pushes, accepted, delivered>>

(* An item is returned as soon as there is one, also after shutdown. *)
PopReturnsItem(c) ==
    /\ pc[c] \in {"pop", "timed"} /\ Awake(c) /\ queue # <<>>
    /\ Dequeue
    /\ Return(c) /\ expired' = expired \ {c}
    /\ UNCHANGED <<shutdown, notEmpty, pushes, accepted>>

(* nullopt: shut down and empty, or the deadline passed and still empty. *)
PopReturnsNothing(c) ==
    /\ pc[c] \in {"pop", "timed"} /\ Awake(c) /\ queue = <<>>
    /\ shutdown \/ c \in expired
    /\ Return(c) /\ expired' = expired \ {c}
    /\ UNCHANGED <<queue, shutdown, notFull, notEmpty, pushes, accepted, delivered>>

(* The deadline of wait_for passes, whether the caller sleeps or not; it     *)
(* evaluates the predicate once more before it gives up.                     *)
Deadline(c) ==
    /\ pc[c] = "timed" /\ c \notin expired
    /\ expired' = expired \cup {c}
    /\ notEmpty' = notEmpty \ {c}
    /\ UNCHANGED <<queue, shutdown, notFull, pc, pushes, accepted, delivered>>

-----------------------------------------------------------------------------
(* Mutants of Shutdown: only one side is woken; only one thread is. *)
ShutdownConsumers ==
    /\ shutdown' = TRUE
    /\ notEmpty' = {}
    /\ UNCHANGED <<queue, notFull, pc, expired, pushes, accepted, delivered>>

ShutdownNotifiesOne ==
    /\ shutdown' = TRUE
    /\ NotifyOne(notFull, notFull') /\ NotifyOne(notEmpty, notEmpty')
    /\ UNCHANGED <<queue, pc, expired, pushes, accepted, delivered>>

(* shutdown: notify_all on both condition variables. *)
Shutdown ==
    /\ shutdown' = TRUE
    /\ notFull' = {} /\ notEmpty' = {}
    /\ UNCHANGED <<queue, pc, expired, pushes, accepted, delivered>>

(* The standard allows a wait to return with nobody having notified. *)
SpuriousWakeup(t) ==
    /\ ~Awake(t)
    /\ notFull' = notFull \ {t}
    /\ notEmpty' = notEmpty \ {t}
    /\ UNCHANGED <<queue, shutdown, pc, expired, pushes, accepted, delivered>>

(* The steps a thread takes inside a call. *)
Producer(p) == PushWaits(p) \/ PushReturns(p)
Consumer(c) == PopWaits(c) \/ PopReturnsItem(c) \/ PopReturnsNothing(c)

Next ==
    \/ \E p \in Producers : CallPush(p) \/ TryPush(p) \/ Producer(p)
    \/ \E c \in Consumers : \/ \E kind \in {"pop", "timed"} : CallPop(c, kind)
                            \/ Consumer(c)
                            \/ Deadline(c)
    \/ \E t \in Threads : SpuriousWakeup(t)
    \/ Shutdown

Spec == Init /\ [][Next]_vars

(* A thread that contends for a free mutex gets it in the end, and time      *)
(* passes.  No fairness on new calls, on shutdown or on spurious wakeups.    *)
Fairness ==
    /\ \A p \in Producers : WF_vars(Producer(p))
    /\ \A c \in Consumers : WF_vars(Consumer(c)) /\ WF_vars(Deadline(c))

FairSpec == Spec /\ Fairness

-----------------------------------------------------------------------------
(* The queue is what was accepted and not handed out: FIFO, nothing lost,    *)
(* nothing twice, whoever sleeps, times out or shuts down meanwhile.         *)
HistoryInv == accepted = delivered \o queue

(* Only a thread in a call sleeps, and only in the call whose condition      *)
(* variable it sleeps on; nobody sleeps in a queue that was shut down, and   *)
(* nobody sleeps past its deadline.                                          *)
SleepInv ==
    /\ \A p \in notFull : pc[p] = "push"
    /\ \A c \in notEmpty : pc[c] \in {"pop", "timed"}
    /\ shutdown => notFull = {} /\ notEmpty = {}
    /\ notEmpty \cap expired = {}

(* Threads awake in a call that will take or leave an item. *)
Pushing == {p \in Producers : pc[p] = "push" /\ p \notin notFull}
Popping == {c \in Consumers : pc[c] \in {"pop", "timed"} /\ c \notin notEmpty}

(* notify_one loses no wakeup: while a consumer sleeps, every item in the    *)
(* queue has an awake consumer on its way to it; while a producer sleeps,    *)
(* every free place has an awake producer on its way to it
   (thread_safe_queue.h:29 and :52).                                         *)
NoLostWakeup ==
    /\ notEmpty # {} => Len(queue) <= Cardinality(Popping)
    /\ notFull # {} => MaxSize - Len(queue) <= Cardinality(Pushing)

(* The queue implements the bounded FIFO. *)
Fifo == INSTANCE BoundedFifo WITH closed <- shutdown
ImplementsFifo == Fifo!Spec

(* shutdown() wakes up all waiting threads: each call under way when it is   *)
(* called returns (thread_safe_queue.h:84).                                  *)
ShutdownReleases ==
    \A t \in Threads : (shutdown /\ pc[t] # "idle") ~> (pc[t] = "idle")

(* popWithTimeout always returns, also when other consumers take every item  *)
(* it was woken for.                                                         *)
TimedPopReturns ==
    \A c \in Consumers : (pc[c] = "timed") ~> (pc[c] = "idle")
=============================================================================
