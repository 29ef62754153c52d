--------------------------- MODULE MpmcBoundedQueue ---------------------------
(***************************************************************************)
(* The blocking bounded queue of common/concurrent/container, which hands  *)
(* frames from the reactor thread to the business thread of the server.    *)
(*                                                                         *)
(* Everything a thread does while it holds m_mutex is one step: no other   *)
(* thread can see the middle of it.  What happens outside the mutex is a   *)
(* step of its own: every notify_one/notify_all that follows an unlock,    *)
(* and the wake-up of a thread, which has to take the mutex again and      *)
(* evaluate its predicate again.  A condition variable is the set of the   *)
(* threads blocked on it; notify_one picks any one of them.                *)
(***************************************************************************)
EXTENDS Naturals, Sequences, FiniteSets

CONSTANTS
  Producers,    \* threads that call push and push(begin, end)
  Consumers,    \* threads that call the pops and front
  Owner,        \* the thread that closes and resizes the queue
  Profiles,     \* the sets of operations a program built on the queue calls
  Sizes,        \* the values m_max_size may take
  Quota,        \* bound: how many items each producer ever offers
  MaxBatch      \* bound: largest range pushed, largest number of items popped

AllOps == {"push", "push_range", "pop", "pop_n", "pop_until", "try_pop",
           "try_pop_n", "front", "close", "set_max_size"}

Threads == Producers \cup Consumers \cup {Owner}

\* The size 0 is a legal argument of the constructor; nothing can be pushed then.
ASSUME QueueAssumption ==
  /\ Sizes \subseteq Nat /\ Sizes # {}
  /\ Quota \in [Producers -> Nat] /\ MaxBatch \in Nat \ {0}
  /\ Profiles \subseteq SUBSET AllOps
  /\ Producers \cap Consumers = {} /\ Owner \notin Producers \cup Consumers
  /\ IsFiniteSet(Producers) /\ IsFiniteSet(Consumers)

\* The k-th item a producer offers.
Item == Producers \X (Nat \ {0})

VARIABLES
  ops,        \* the operations this program calls: fixed, as the template's user is
  queue,      \* m_queue
  running,    \* m_is_running
  maxSize,    \* m_max_size
  pc,         \* where each thread is in its call
  call,       \* the call each thread is in
  offered,    \* how many items each producer has handed to push (history)
  got         \* the items each consumer's calls have returned (history)

vars == <<ops, queue, running, maxSize, pc, call, offered, got>>

(***************************************************************************)
(* A call: its operation, how many items it still wants, the items it      *)
(* holds (those a push has not inserted yet, those a pop has removed but   *)
(* not returned yet) and whether the deadline of a timed pop has passed.   *)
(***************************************************************************)
Call == [op : AllOps \cup {"none"}, want : Nat, items : Seq(Item), expired : BOOLEAN]

NoCall == [op |-> "none", want |-> 0, items |-> <<>>, expired |-> FALSE]

\* "enter": about to take m_mutex; "wait_x": blocked on m_x_cv;
\* "one_x", "all_x": mutex released, notify_one/notify_all of m_x_cv to come.
Places == {"idle", "enter", "wait_empty", "wait_full",
           "one_empty", "one_full", "all_empty", "all_full"}

At(place) == {t \in Threads : pc[t] = place}

InCall(t, kinds) == pc[t] = "enter" /\ call[t].op \in kinds

Init ==
  /\ ops \in Profiles
  /\ queue = <<>>
  /\ running = TRUE
  /\ maxSize \in Sizes
  /\ pc = [t \in Threads |-> "idle"]
  /\ call = [t \in Threads |-> NoCall]
  /\ offered = [p \in Producers |-> 0]
  /\ got = [c \in Consumers |-> <<>>]

-----------------------------------------------------------------------------
(* How a step leaves its thread.                                           *)

Goto(t, place) == pc' = [pc EXCEPT ![t] = place]

Return(t) ==
  /\ Goto(t, "idle")
  /\ call' = [call EXCEPT ![t] = NoCall]

Deliver(c, items) == got' = [got EXCEPT ![c] = @ \o items]

\* Room left, 0 when a resize has left more items than m_max_size.
Room == IF Len(queue) < maxSize THEN maxSize - Len(queue) ELSE 0

AtMost(n, limit) == IF n < limit THEN n ELSE limit

First(s, n) == SubSeq(s, 1, n)
Rest(s, n)  == SubSeq(s, n + 1, Len(s))

-----------------------------------------------------------------------------
(* Calls.                                                                  *)

Begin(t, op, want, items) ==
  /\ op \in ops /\ pc[t] = "idle"
  /\ Goto(t, "enter")
  /\ call' = [call EXCEPT ![t] =
       [op |-> op, want |-> want, items |-> items, expired |-> FALSE]]
  /\ UNCHANGED <<ops, queue, running, maxSize, got>>

Offer(p, op, n) ==
  /\ offered[p] + n <= Quota[p]
  /\ Begin(p, op, 0, [i \in 1..n |-> <<p, offered[p] + i>>])
  /\ offered' = [offered EXCEPT ![p] = @ + n]

BeginPush(p) ==
  \/ Offer(p, "push", 1)
  \/ \E n \in 1..MaxBatch : Offer(p, "push_range", n)

BeginPop(c) ==
  /\ \/ \E op \in {"pop", "pop_until", "try_pop", "front"} : Begin(c, op, 1, <<>>)
     \/ \E op \in {"pop_n", "try_pop_n"}, n \in 1..MaxBatch : Begin(c, op, n, <<>>)
  /\ UNCHANGED offered

BeginClose ==
  /\ Begin(Owner, "close", 0, <<>>)
  /\ UNCHANGED offered

-----------------------------------------------------------------------------
(* Push: the critical sections of push(item) and of push(begin, end).      *)

PushFails(p) ==
  /\ InCall(p, {"push", "push_range"}) /\ ~running
  /\ Return(p)
  /\ UNCHANGED <<ops, queue, running, maxSize, offered, got>>

PushWaits(p) ==
  /\ InCall(p, {"push", "push_range"}) /\ running /\ Room = 0
  /\ Goto(p, "wait_full")
  /\ UNCHANGED <<ops, queue, running, maxSize, call, offered, got>>

\* Slips of push: the room is tested but does not bound what is inserted; the
\* iterator stays behind the items a chunk has inserted.
PushInserts_Unbounded(p) ==
  /\ InCall(p, {"push", "push_range"}) /\ running /\ Room > 0
  /\ queue' = queue \o call[p].items
  /\ call' = [call EXCEPT ![p].items = <<>>]
  /\ Goto(p, IF call[p].op = "push" THEN "one_empty" ELSE "all_empty")
  /\ UNCHANGED <<ops, running, maxSize, offered, got>>

PushInserts_Repeats(p) ==
  /\ InCall(p, {"push", "push_range"}) /\ running /\ Room > 0
  /\ queue' = queue \o First(call[p].items, AtMost(Len(call[p].items), Room))
  /\ Goto(p, IF call[p].op = "push" THEN "one_empty" ELSE "all_empty")
  /\ UNCHANGED <<ops, running, maxSize, call, offered, got>>

\* push(begin, end) inserts what fits, releases the mutex and comes back.
PushInserts(p) ==
  /\ InCall(p, {"push", "push_range"}) /\ running /\ Room > 0
  /\ LET items == call[p].items
         n     == AtMost(Len(items), Room)
     IN  /\ queue' = queue \o First(items, n)
         /\ call' = [call EXCEPT ![p].items = Rest(items, n)]
  /\ Goto(p, IF call[p].op = "push" THEN "one_empty" ELSE "all_empty")
  /\ UNCHANGED <<ops, running, maxSize, offered, got>>

-----------------------------------------------------------------------------
(* Pop: pop(), pop(nums), pop_until/pop_for share their critical section.  *)

BlockingPops == {"pop", "pop_n", "pop_until"}

\* The call takes what it still wants: it returns once it has notified.
PopCompletes(c) ==
  /\ InCall(c, BlockingPops) /\ queue # <<>> /\ call[c].want <= Len(queue)
  /\ queue' = Rest(queue, call[c].want)
  /\ Deliver(c, call[c].items \o First(queue, call[c].want))
  /\ call' = [call EXCEPT ![c].want = 0, ![c].items = <<>>]
  /\ Goto(c, "one_full")
  /\ UNCHANGED <<ops, running, maxSize, offered>>

\* A slip of pop(nums): the whole queue is taken whatever is still wanted.
PopTakesSome_Unbounded(c) ==
  /\ InCall(c, BlockingPops) /\ queue # <<>>
  /\ queue' = <<>>
  /\ \/ /\ running
        /\ call' = [call EXCEPT ![c].want = @ - Len(queue), ![c].items = @ \o queue]
        /\ Goto(c, "wait_empty")
     \/ ~running /\ Return(c)
  /\ UNCHANGED <<ops, running, maxSize, offered, got>>

\* Only pop(nums) wants more than the queue has: it takes everything and loops,
\* to block again or, on a closed queue, to drop what it has taken.
PopTakesSome(c) ==
  /\ InCall(c, BlockingPops) /\ queue # <<>> /\ call[c].want > Len(queue)
  /\ queue' = <<>>
  /\ \/ /\ running
        /\ call' = [call EXCEPT ![c].want = @ - Len(queue), ![c].items = @ \o queue]
        /\ Goto(c, "wait_empty")
     \/ ~running /\ Return(c)
  /\ UNCHANGED <<ops, running, maxSize, offered, got>>

\* An empty queue ends the call when the queue is closed or the deadline passed.
PopFindsNothing(c) ==
  /\ InCall(c, BlockingPops) /\ queue = <<>>
  /\ IF running /\ ~call[c].expired
     THEN Goto(c, "wait_empty") /\ UNCHANGED call
     ELSE Return(c)
  /\ UNCHANGED <<ops, queue, running, maxSize, offered, got>>

Timeout(c) ==
  /\ pc[c] = "wait_empty" /\ call[c].op = "pop_until"
  /\ Goto(c, "enter")
  /\ call' = [call EXCEPT ![c].expired = TRUE]
  /\ UNCHANGED <<ops, queue, running, maxSize, offered, got>>

\* try_pop() and try_pop(nums): an empty queue is left without any notification,
\* also after try_pop(nums) has made room.
TryPop(c) ==
  /\ InCall(c, {"try_pop", "try_pop_n"})
  /\ LET n == AtMost(call[c].want, Len(queue))
     IN  /\ queue' = Rest(queue, n)
         /\ Deliver(c, First(queue, n))
         /\ IF n < call[c].want
            THEN Return(c)
            ELSE /\ Goto(c, IF call[c].op = "try_pop" THEN "one_full" ELSE "all_full")
                 /\ UNCHANGED call
  /\ UNCHANGED <<ops, running, maxSize, offered>>

\* front() waits like pop() and leaves the item where it is.
Front(c) ==
  /\ InCall(c, {"front"})
  /\ IF queue = <<>> /\ running
     THEN Goto(c, "wait_empty") /\ UNCHANGED call
     ELSE Return(c)
  /\ UNCHANGED <<ops, queue, running, maxSize, offered, got>>

-----------------------------------------------------------------------------
(* Close, resize.                                                          *)

\* A slip of close(): only the threads blocked in push are notified.
Close_OneSide ==
  /\ InCall(Owner, {"close"})
  /\ running' = FALSE
  /\ Goto(Owner, "all_full")
  /\ UNCHANGED <<ops, queue, maxSize, call, offered, got>>

Close ==
  /\ InCall(Owner, {"close"})
  /\ running' = FALSE
  /\ Goto(Owner, "all_empty")
  /\ UNCHANGED <<ops, queue, maxSize, call, offered, got>>

\* A slip of set_max_size: the new room is not announced.
SetMaxSize_Silent(size) ==
  /\ "set_max_size" \in ops /\ pc[Owner] = "idle"
  /\ size # maxSize
  /\ maxSize' = size
  /\ UNCHANGED <<ops, queue, running, pc, call, offered, got>>

\* notify_all under the mutex, and only when the queue grows.
SetMaxSize(size) ==
  /\ "set_max_size" \in ops /\ pc[Owner] = "idle"
  /\ size # maxSize
  /\ maxSize' = size
  /\ pc' = IF size > maxSize
           THEN [t \in Threads |-> IF pc[t] = "wait_full" THEN "enter" ELSE pc[t]]
           ELSE pc
  /\ UNCHANGED <<ops, queue, running, call, offered, got>>

-----------------------------------------------------------------------------
(* Notifications, outside the mutex.                                       *)

\* A slip of close(): it returns after the first notify_all.
AfterNotify_Once(t) ==
  IF pc[t] = "all_empty" /\ call[t].op # "close" /\ call[t].items # <<>>
  THEN "enter" ELSE "idle"

\* What a call does after a notification: push(begin, end) goes on with its
\* remaining items, close() notifies the second condition variable.
AfterNotify(t) ==
  IF pc[t] # "all_empty" THEN "idle"
  ELSE IF call[t].op = "close" THEN "all_full"
  ELSE IF call[t].items # <<>> THEN "enter"
  ELSE "idle"

Finish(t) ==
  call' = [call EXCEPT ![t] = IF AfterNotify(t) = "idle" THEN NoCall ELSE @]

\* A slip: the two condition variables are swapped.
WaitersOf_Swapped(place) ==
  IF place \in {"one_empty", "all_empty"} THEN At("wait_full") ELSE At("wait_empty")

WaitersOf(place) ==
  IF place \in {"one_empty", "all_empty"} THEN At("wait_empty") ELSE At("wait_full")

NotifyOne(t) ==
  /\ pc[t] \in {"one_empty", "one_full"}
  /\ \/ /\ WaitersOf(pc[t]) = {}
        /\ Goto(t, AfterNotify(t))
     \/ \E w \in WaitersOf(pc[t]) :
          pc' = [pc EXCEPT ![t] = AfterNotify(t), ![w] = "enter"]
  /\ Finish(t)
  /\ UNCHANGED <<ops, queue, running, maxSize, offered, got>>

NotifyAll(t) ==
  /\ pc[t] \in {"all_empty", "all_full"}
  /\ pc' = [u \in Threads |-> CASE u = t -> AfterNotify(t)
                                [] u \in WaitersOf(pc[t]) -> "enter"
                                [] OTHER -> pc[u]]
  /\ Finish(t)
  /\ UNCHANGED <<ops, queue, running, maxSize, offered, got>>

\* A condition variable may wake a thread for no reason; wait() checks again.
SpuriousWake(t) ==
  /\ pc[t] \in {"wait_empty", "wait_full"}
  /\ Goto(t, "enter")
  /\ UNCHANGED <<ops, queue, running, maxSize, call, offered, got>>

-----------------------------------------------------------------------------
Push(p) == PushFails(p) \/ PushWaits(p) \/ PushInserts(p)
Pop(c)  == PopCompletes(c) \/ PopTakesSome(c) \/ PopFindsNothing(c) \/ TryPop(c) \/ Front(c)

\* What a thread does on its own once it is in a call.
Step(t) ==
  \/ t \in Producers /\ Push(t)
  \/ t \in Consumers /\ Pop(t)
  \/ t = Owner /\ Close
  \/ NotifyOne(t)
  \/ NotifyAll(t)

Next ==
  \/ \E p \in Producers : BeginPush(p)
  \/ \E c \in Consumers : BeginPop(c) \/ Timeout(c)
  \/ BeginClose
  \/ \E size \in Sizes : SetMaxSize(size)
  \/ \E t \in Threads : Step(t) \/ SpuriousWake(t)

Spec == Init /\ [][Next]_vars

\* The scheduler runs every thread that can run and the mutex is granted in the
\* end; consumers call again, as the loop of BusinessRuntime::run does.  Nobody
\* has to push, to close, to resize or to wake up spuriously.
Fairness ==
  /\ \A t \in Threads : WF_vars(Step(t))
  /\ \A c \in Consumers : WF_vars(BeginPop(c)) /\ WF_vars(Timeout(c))

FairSpec == Spec /\ Fairness

-----------------------------------------------------------------------------
(* Properties.                                                             *)

\* Every variable has its type.
TypeOK ==
  /\ ops \in Profiles
  /\ queue \in Seq(Item)
  /\ running \in BOOLEAN
  /\ maxSize \in Sizes
  /\ pc \in [Threads -> Places]
  /\ call \in [Threads -> Call]
  /\ offered \in [Producers -> Nat]
  /\ got \in [Consumers -> Seq(Item)]

\* The class comment (l. 29-33) says when a call blocks: a push on a full queue, a
\* pop on an empty one.  When nobody is between taking the mutex and notifying,
\* nothing else may keep a thread blocked: no wake-up has been lost.
Quiet == \A t \in Threads : pc[t] \in {"idle", "wait_empty", "wait_full"}

BlocksOnlyWhenFullOrEmpty ==
  Quiet /\ running =>
    /\ At("wait_full") # {} => Room = 0
    /\ At("wait_empty") # {} => queue = <<>>

\* The code keeps that promise for programs that use none of the three operations
\* whose notifications do not match what they take: pop(nums), try_pop(nums) and
\* front().  ReactorMailBox is such a program.
OneForOne == ops \cap {"pop_n", "try_pop_n", "front"} = {}

NoLostWakeup == OneForOne => BlocksOnlyWhenFullOrEmpty

\* close() releases everybody: once it has run, a thread can still be blocked on
\* a condition variable only while close() has yet to notify that variable.
CloseReachesEveryWaiter ==
  ~running =>
    /\ At("wait_empty") # {} => pc[Owner] = "all_empty"
    /\ At("wait_full") # {} => pc[Owner] \in {"all_empty", "all_full"}

\* No item is delivered twice, to one consumer or to two, or both delivered and
\* still queued; and a consumer gets what one producer pushed in the order in
\* which it was pushed, whatever others do between the chunks of a range.
ItemsOf(s) == {s[i] : i \in DOMAIN s}

Taken(c) == got[c] \o call[c].items

Ordered(s) ==
  \A i, j \in DOMAIN s : i < j /\ s[i][1] = s[j][1] => s[i][2] < s[j][2]

InOrderExactlyOnce ==
  /\ Ordered(queue)
  /\ \A c \in Consumers :
       /\ Ordered(Taken(c))
       /\ ItemsOf(Taken(c)) \cap ItemsOf(queue) = {}
       /\ \A d \in Consumers \ {c} : ItemsOf(Taken(c)) \cap ItemsOf(Taken(d)) = {}

\* The threads, the mutex and the condition variables implement the channel.
Channel == INSTANCE BoundedFifo WITH
  Values <- Item, Clients <- Consumers, Capacities <- Sizes,
  items <- queue, open <- running, capacity <- maxSize,
  received <- [c \in Consumers |-> Taken(c)]

ImplementsChannel == Channel!Spec

\* An accepted item does not stay in the queue: consumers that keep calling get
\* it, also after close() ("existing elements can still be consumed", l. 33).
Offerable == UNION {{<<p, k>> : k \in 1..Quota[p]} : p \in Producers}

Drains ==
  OneForOne => \A x \in Offerable : x \in ItemsOf(queue) ~> x \notin ItemsOf(queue)

\* After close() nobody stays blocked, whichever operations are used.
CloseReleasesEveryone == ~running ~> At("wait_empty") \cup At("wait_full") = {}
=============================================================================
