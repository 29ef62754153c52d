----------------------- MODULE MpmcBoundedQueue_proofs -----------------------
(***************************************************************************)
(* Proofs about MpmcBoundedQueue, for any threads, capacities, quotas and  *)
(* batch sizes: types, that close() reaches every waiter, that no wake-up  *)
(* is lost by programs that stay clear of the bulk pops and front, that    *)
(* the queue implements the channel of BoundedFifo, and that items come    *)
(* once and in order.                                                      *)
(***************************************************************************)
EXTENDS MpmcBoundedQueue, FiniteSetTheorems, SequenceTheorems, TLAPS

(***************************************************************************)
(* The first n elements of a sequence and the rest.                        *)
(***************************************************************************)
LEMMA FirstRestProperties ==
  ASSUME NEW S, NEW s \in Seq(S), NEW n \in 0..Len(s)
  PROVE  /\ First(s, n) \in Seq(S) /\ Len(First(s, n)) = n
         /\ Rest(s, n) \in Seq(S) /\ Len(Rest(s, n)) = Len(s) - n
<1>1. Len(s) \in Nat
  BY LenProperties
<1>2. \A i \in 1..n : s[i] \in S
  BY <1>1, ElementOfSeq
<1>3. \A i \in (n + 1)..Len(s) : s[i] \in S
  BY <1>1, ElementOfSeq
<1>4. First(s, n) \in Seq(S) /\ Len(First(s, n)) = n
  BY <1>1, <1>2, SubSeqProperties DEF First
<1>5. Rest(s, n) \in Seq(S) /\ Len(Rest(s, n)) = Len(s) - n
  BY <1>1, <1>3, SubSeqProperties DEF Rest
<1>6. QED
  BY <1>4, <1>5

(***************************************************************************)
(* AtMost picks the smaller of two numbers.                                *)
(***************************************************************************)
LEMMA AtMostProperties ==
  ASSUME NEW n \in Nat, NEW limit \in Nat
  PROVE  /\ AtMost(n, limit) \in 0..n
         /\ AtMost(n, limit) \in 0..limit
         /\ n > 0 /\ limit > 0 => AtMost(n, limit) > 0
BY DEF AtMost

(***************************************************************************)
(* The items a producer offers in one call are a sequence of items.        *)
(***************************************************************************)
LEMMA OfferedItems ==
  ASSUME NEW p \in Producers, NEW k \in Nat, NEW n \in Nat
  PROVE  /\ [i \in 1..n |-> <<p, k + i>>] \in Seq(Item)
         /\ Len([i \in 1..n |-> <<p, k + i>>]) = n
<1> DEFINE s == [i \in 1..n |-> <<p, k + i>>]
<1>1. \A i \in 1..n : <<p, k + i>> \in Item
  BY DEF Item
<1>2. s \in [1..n -> Item]
  BY <1>1
<1>3. s \in Seq(Item)
  BY <1>2, SeqDef
<1>4. Len(s) \in Nat /\ DOMAIN s = 1..Len(s)
  BY <1>3, LenProperties
<1>5. Len(s) = n
  BY <1>4
<1>6. QED
  BY <1>3, <1>5

-----------------------------------------------------------------------------
(***************************************************************************)
(* Types.                                                                  *)
(***************************************************************************)
LEMMA TypeInit == Init => TypeOK
<1> SUFFICES ASSUME Init PROVE TypeOK
  OBVIOUS
<1>1. NoCall \in Call
  BY EmptySeq DEF NoCall, Call
<1>2. QED
  BY <1>1, QueueAssumption, EmptySeq DEF Init, TypeOK, Places

LEMMA NoCallType == NoCall \in Call
BY EmptySeq DEF NoCall, Call

(***************************************************************************)
(* The parts of TypeOK a call needs to be begun, returned from or moved.   *)
(***************************************************************************)
LEMMA GotoType ==
  ASSUME TypeOK, NEW t \in Threads, NEW place \in Places, Goto(t, place)
  PROVE  pc' \in [Threads -> Places]
BY DEF TypeOK, Goto

LEMMA ReturnType ==
  ASSUME TypeOK, NEW t \in Threads, Return(t)
  PROVE  pc' \in [Threads -> Places] /\ call' \in [Threads -> Call]
BY NoCallType DEF TypeOK, Return, Goto, Places

LEMMA RoleTypes ==
  Producers \subseteq Threads /\ Consumers \subseteq Threads /\ Owner \in Threads
BY DEF Threads

LEMMA BeginType ==
  ASSUME TypeOK, NEW t \in Threads, NEW op \in AllOps, NEW want \in Nat,
         NEW items \in Seq(Item), Begin(t, op, want, items)
  PROVE  /\ pc' \in [Threads -> Places] /\ call' \in [Threads -> Call]
         /\ UNCHANGED <<ops, queue, running, maxSize, got>>
<1>1. [op |-> op, want |-> want, items |-> items, expired |-> FALSE] \in Call
  BY DEF Call
<1>2. QED
  BY <1>1 DEF Begin, Goto, TypeOK, Places

LEMMA TypePush ==
  ASSUME TypeOK, NEW p \in Producers, Push(p)
  PROVE  TypeOK'
<1> USE RoleTypes
<1>1. CASE PushFails(p)
  BY <1>1, ReturnType DEF PushFails, TypeOK
<1>2. CASE PushWaits(p)
  BY <1>2, GotoType DEF PushWaits, TypeOK, Places
<1>3. CASE PushInserts(p)
  <2> DEFINE items == call[p].items
             n == AtMost(Len(items), Room)
  <2>1. items \in Seq(Item) /\ queue \in Seq(Item)
    BY DEF TypeOK, Call
  <2>2. Room \in Nat
    BY <2>1, LenProperties, QueueAssumption DEF Room, TypeOK
  <2>3. n \in 0..Len(items)
    <3>1. Len(items) \in Nat
      BY <2>1, LenProperties
    <3>2. QED
      BY <2>2, <3>1, AtMostProperties
  <2>4. First(items, n) \in Seq(Item) /\ Rest(items, n) \in Seq(Item)
    BY <2>1, <2>3, FirstRestProperties
  <2>5. queue' \in Seq(Item)
    BY <1>3, <2>1, <2>4, ConcatProperties DEF PushInserts
  <2>6. call' \in [Threads -> Call]
    BY <1>3, <2>4 DEF PushInserts, TypeOK, Call
  <2>7. pc' \in [Threads -> Places]
    BY <1>3, GotoType DEF PushInserts, Places
  <2>8. QED
    BY <1>3, <2>5, <2>6, <2>7 DEF PushInserts, TypeOK
<1>4. QED
  BY <1>1, <1>2, <1>3 DEF Push

LEMMA TypePop ==
  ASSUME TypeOK, NEW c \in Consumers, Pop(c)
  PROVE  TypeOK'
<1> USE RoleTypes
<1>1. /\ queue \in Seq(Item) /\ Len(queue) \in Nat
      /\ call[c] \in Call /\ call[c].items \in Seq(Item) /\ call[c].want \in Nat
      /\ got[c] \in Seq(Item)
  BY LenProperties DEF TypeOK, Call
<1>2. CASE PopCompletes(c)
  <2> DEFINE w == call[c].want
  <2>1. w \in 0..Len(queue)
    BY <1>1, <1>2 DEF PopCompletes
  <2>2. First(queue, w) \in Seq(Item) /\ Rest(queue, w) \in Seq(Item)
    BY <1>1, <2>1, FirstRestProperties
  <2>3. got[c] \o (call[c].items \o First(queue, w)) \in Seq(Item)
    BY <1>1, <2>2, ConcatProperties
  <2>4. got' \in [Consumers -> Seq(Item)]
    BY <1>2, <2>3 DEF PopCompletes, Deliver, TypeOK
  <2>5. call' \in [Threads -> Call]
    BY <1>2, EmptySeq DEF PopCompletes, TypeOK, Call
  <2>6. pc' \in [Threads -> Places]
    BY <1>2, GotoType DEF PopCompletes, Places
  <2>7. QED
    BY <1>2, <2>2, <2>4, <2>5, <2>6 DEF PopCompletes, TypeOK
<1>3. CASE PopTakesSome(c)
  <2>1. call[c].items \o queue \in Seq(Item) /\ call[c].want - Len(queue) \in Nat
    BY <1>1, <1>3, ConcatProperties DEF PopTakesSome
  <2>2. pc' \in [Threads -> Places] /\ call' \in [Threads -> Call]
    <3>1. CASE Return(c)
      BY <3>1, ReturnType
    <3>2. CASE /\ call' = [call EXCEPT ![c].want = @ - Len(queue), ![c].items = @ \o queue]
               /\ Goto(c, "wait_empty")
      <4>1. pc' \in [Threads -> Places]
        BY <3>2, GotoType DEF Places
      <4>2. [call[c] EXCEPT !.want = @ - Len(queue), !.items = @ \o queue] \in Call
        BY <1>1, <2>1 DEF Call
      <4>3. call' \in [Threads -> Call]
        BY <3>2, <4>2 DEF TypeOK
      <4>4. QED
        BY <4>1, <4>3
    <3>3. QED
      BY <1>3, <3>1, <3>2 DEF PopTakesSome
  <2>3. QED
    BY <1>3, <2>2, EmptySeq DEF PopTakesSome, TypeOK
<1>4. CASE PopFindsNothing(c)
  BY <1>4, ReturnType, GotoType DEF PopFindsNothing, TypeOK, Places
<1>5. CASE TryPop(c)
  <2> DEFINE n == AtMost(call[c].want, Len(queue))
  <2>1. n \in 0..Len(queue)
    BY <1>1, AtMostProperties
  <2>2. First(queue, n) \in Seq(Item) /\ Rest(queue, n) \in Seq(Item)
    BY <1>1, <2>1, FirstRestProperties
  <2>3. got' \in [Consumers -> Seq(Item)]
    BY <1>1, <1>5, <2>2, ConcatProperties DEF TryPop, Deliver, TypeOK
  <2>4. pc' \in [Threads -> Places] /\ call' \in [Threads -> Call]
    BY <1>5, ReturnType, GotoType DEF TryPop, TypeOK, Places
  <2>5. QED
    BY <1>5, <2>2, <2>3, <2>4 DEF TryPop, TypeOK
<1>6. CASE Front(c)
  BY <1>6, ReturnType, GotoType DEF Front, TypeOK, Places
<1>7. QED
  BY <1>2, <1>3, <1>4, <1>5, <1>6, Pop(c) DEF Pop

LEMMA TypeBegin ==
  ASSUME TypeOK,
         \/ \E p \in Producers : BeginPush(p)
         \/ \E c \in Consumers : BeginPop(c)
         \/ BeginClose
  PROVE  TypeOK'
<1> USE RoleTypes DEF AllOps
<1>1. CASE \E p \in Producers : BeginPush(p)
  <2>1. PICK p \in Producers, op \in {"push", "push_range"}, n \in Nat : Offer(p, op, n)
    BY <1>1, QueueAssumption DEF BeginPush
  <2>2. offered[p] \in Nat
    BY DEF TypeOK
  <2>3. [i \in 1..n |-> <<p, offered[p] + i>>] \in Seq(Item)
    BY <2>2, OfferedItems
  <2>4. Begin(p, op, 0, [i \in 1..n |-> <<p, offered[p] + i>>])
    BY <2>1 DEF Offer
  <2>5. /\ pc' \in [Threads -> Places] /\ call' \in [Threads -> Call]
        /\ UNCHANGED <<ops, queue, running, maxSize, got>>
    BY <2>3, <2>4, BeginType
  <2>6. QED
    BY <2>1, <2>2, <2>5 DEF Offer, TypeOK
<1>2. CASE \E c \in Consumers : BeginPop(c)
  <2>1. PICK c \in Consumers, op \in AllOps, n \in Nat :
          Begin(c, op, n, <<>>) /\ UNCHANGED offered
    BY <1>2, QueueAssumption DEF BeginPop
  <2>2. /\ pc' \in [Threads -> Places] /\ call' \in [Threads -> Call]
        /\ UNCHANGED <<ops, queue, running, maxSize, got>>
    BY <2>1, EmptySeq, BeginType
  <2>3. QED
    BY <2>1, <2>2 DEF TypeOK
<1>3. CASE BeginClose
  <2>1. /\ pc' \in [Threads -> Places] /\ call' \in [Threads -> Call]
        /\ UNCHANGED <<ops, queue, running, maxSize, got>>
    BY <1>3, EmptySeq, BeginType DEF BeginClose
  <2>2. QED
    BY <1>3, <2>1 DEF BeginClose, TypeOK
<1>4. QED
  BY <1>1, <1>2, <1>3

LEMMA TypeOther ==
  ASSUME TypeOK,
         \/ \E c \in Consumers : Timeout(c)
         \/ \E size \in Sizes : SetMaxSize(size)
         \/ Close
         \/ \E t \in Threads : NotifyOne(t) \/ NotifyAll(t) \/ SpuriousWake(t)
  PROVE  TypeOK'
<1> USE RoleTypes DEF Places
<1>1. \A t \in Threads : AfterNotify(t) \in Places
  BY DEF AfterNotify
<1>2. ASSUME NEW t \in Threads, Finish(t)
      PROVE  call' \in [Threads -> Call]
  BY <1>2, NoCallType DEF Finish, TypeOK
<1>3. CASE \E c \in Consumers : Timeout(c)
  <2>1. PICK c \in Consumers : Timeout(c)
    BY <1>3
  <2>2. [call[c] EXCEPT !.expired = TRUE] \in Call
    BY DEF TypeOK, Call
  <2>3. call' \in [Threads -> Call]
    BY <2>1, <2>2 DEF Timeout, TypeOK
  <2>4. QED
    BY <2>1, <2>3, GotoType DEF Timeout, TypeOK
<1>4. CASE \E size \in Sizes : SetMaxSize(size)
  BY <1>4 DEF SetMaxSize, TypeOK
<1>5. CASE Close
  BY <1>5, GotoType DEF Close, TypeOK
<1>6. ASSUME NEW t \in Threads, NotifyOne(t)
      PROVE  TypeOK'
  <2>1. pc' \in [Threads -> Places]
    BY <1>1, <1>6 DEF NotifyOne, Goto, TypeOK
  <2>2. QED
    BY <1>2, <1>6, <2>1 DEF NotifyOne, TypeOK
<1>7. ASSUME NEW t \in Threads, NotifyAll(t)
      PROVE  TypeOK'
  <2>1. pc' \in [Threads -> Places]
    BY <1>1, <1>7 DEF NotifyAll, TypeOK
  <2>2. QED
    BY <1>2, <1>7, <2>1 DEF NotifyAll, TypeOK
<1>8. ASSUME NEW t \in Threads, SpuriousWake(t)
      PROVE  TypeOK'
  BY <1>8, GotoType DEF SpuriousWake, TypeOK
<1>9. QED
  BY <1>3, <1>4, <1>5, <1>6, <1>7, <1>8

LEMMA TypeNext == TypeOK /\ [Next]_vars => TypeOK'
<1> SUFFICES ASSUME TypeOK, [Next]_vars PROVE TypeOK'
  OBVIOUS
<1>1. CASE UNCHANGED vars
  BY <1>1 DEF vars, TypeOK
<1>2. CASE Next
  BY <1>2, TypePush, TypePop, TypeBegin, TypeOther DEF Next, Step
<1>3. QED
  BY <1>1, <1>2

(***************************************************************************)
(* Every variable always has its type.                                     *)
(***************************************************************************)
THEOREM TypeCorrect == Spec => []TypeOK
BY TypeInit, TypeNext, PTL DEF Spec

-----------------------------------------------------------------------------
(***************************************************************************)
(* What a thread's place in the code says about the call it is in.         *)
(***************************************************************************)
PushOps == {"push", "push_range"}
OneItemOps == {"pop", "pop_until", "try_pop", "front"}
PopOps == OneItemOps \cup {"pop_n", "try_pop_n"}

ProducerCall(p) ==
  /\ pc[p] \in {"idle", "enter", "wait_full", "one_empty", "all_empty"}
  /\ pc[p] # "idle" => call[p].op \in PushOps
  /\ pc[p] = "all_empty" => call[p].op = "push_range"
  /\ pc[p] \in {"enter", "wait_full"} =>
       /\ Len(call[p].items) > 0
       /\ call[p].op = "push" => Len(call[p].items) = 1

ConsumerCall(c) ==
  /\ pc[c] \in {"idle", "enter", "wait_empty", "one_full", "all_full"}
  /\ pc[c] # "idle" => call[c].op \in PopOps \cap ops
  /\ pc[c] \in {"enter", "wait_empty"} /\ call[c].op \in OneItemOps => call[c].want = 1
  /\ pc[c] = "wait_empty" => call[c].op \notin {"try_pop", "try_pop_n"}
  /\ pc[c] = "all_full" => call[c].op = "try_pop_n"

OwnerCall ==
  /\ pc[Owner] \in {"idle", "enter", "all_empty", "all_full"}
  /\ pc[Owner] # "idle" => call[Owner].op = "close"
  /\ pc[Owner] \in {"all_empty", "all_full"} => ~running

CallsWellFormed ==
  /\ \A p \in Producers : ProducerCall(p)
  /\ \A c \in Consumers : ConsumerCall(c)
  /\ OwnerCall

\* The inductive invariant behind CloseReachesEveryWaiter: the types, the shape
\* of the calls, and the property itself.
CloseInv == TypeOK /\ CallsWellFormed /\ CloseReachesEveryWaiter

(***************************************************************************)
(* A step that moves one thread leaves the calls of the others as they are.*)
(***************************************************************************)
LEMMA Disjoint ==
  /\ \A p \in Producers : p \in Threads /\ p \notin Consumers /\ p # Owner
  /\ \A c \in Consumers : c \in Threads /\ c \notin Producers /\ c # Owner
  /\ Owner \in Threads
BY QueueAssumption DEF Threads

LEMMA CallsUnmoved ==
  ASSUME TypeOK, CallsWellFormed, NEW t \in Threads,
         ops' = ops, running' = running,
         \A u \in Threads \ {t} : pc'[u] = pc[u] /\ call'[u] = call[u],
         t \in Producers => ProducerCall(t)',
         t \in Consumers => ConsumerCall(t)',
         t = Owner => OwnerCall'
  PROVE  CallsWellFormed'
<1> USE Disjoint
<1>1. ASSUME NEW p \in Producers PROVE ProducerCall(p)'
  BY <1>1 DEF CallsWellFormed, ProducerCall
<1>2. ASSUME NEW c \in Consumers PROVE ConsumerCall(c)'
  BY <1>2 DEF CallsWellFormed, ConsumerCall
<1>3. OwnerCall'
  BY DEF CallsWellFormed, OwnerCall
<1>4. QED
  BY <1>1, <1>2, <1>3 DEF CallsWellFormed

LEMMA CallsPush ==
  ASSUME TypeOK, CallsWellFormed, NEW p \in Producers, Push(p)
  PROVE  CallsWellFormed'
<1> USE Disjoint
<1>1. ProducerCall(p)
  BY DEF CallsWellFormed
<1>2. /\ ops' = ops /\ running' = running
      /\ \A u \in Threads \ {p} : pc'[u] = pc[u] /\ call'[u] = call[u]
  BY DEF Push, PushFails, PushWaits, PushInserts, Return, Goto, TypeOK
<1>3. ProducerCall(p)'
  <2>1. CASE PushFails(p)
    BY <2>1 DEF PushFails, Return, Goto, TypeOK, ProducerCall
  <2>2. CASE PushWaits(p)
    BY <2>2, <1>1 DEF PushWaits, InCall, Goto, TypeOK, ProducerCall
  <2>3. CASE PushInserts(p)
    BY <2>3, <1>1 DEF PushInserts, InCall, Goto, TypeOK, ProducerCall, PushOps
  <2>4. QED
    BY <2>1, <2>2, <2>3 DEF Push
<1>4. QED
  BY <1>2, <1>3, CallsUnmoved

LEMMA CallsPop ==
  ASSUME TypeOK, CallsWellFormed, NEW c \in Consumers, Pop(c) \/ Timeout(c)
  PROVE  CallsWellFormed'
<1> USE Disjoint
<1>1. ConsumerCall(c)
  BY DEF CallsWellFormed
<1>2. /\ ops' = ops /\ running' = running
      /\ \A u \in Threads \ {c} : pc'[u] = pc[u] /\ call'[u] = call[u]
  BY DEF Pop, PopCompletes, PopTakesSome, PopFindsNothing, TryPop, Front, Timeout,
         Return, Goto, TypeOK
<1>3. ConsumerCall(c)'
  <2> USE <1>1 DEF InCall, Goto, Return, TypeOK, ConsumerCall, PopOps, OneItemOps
  <2>1. CASE PopCompletes(c)
    BY <2>1 DEF PopCompletes, BlockingPops
  <2>2. CASE PopTakesSome(c)
    <3>1. call[c].op = "pop_n" /\ pc[c] = "enter"
      <4>1. Len(queue) > 0
        BY <2>2, EmptySeq DEF PopTakesSome
      <4>2. QED
        BY <2>2, <4>1 DEF PopTakesSome, BlockingPops
    <3>2. CASE Return(c)
      BY <3>2, <2>2 DEF PopTakesSome
    <3>3. CASE /\ call' = [call EXCEPT ![c].want = @ - Len(queue), ![c].items = @ \o queue]
               /\ Goto(c, "wait_empty")
      BY <3>1, <3>3, <2>2 DEF PopTakesSome, Call
    <3>4. QED
      BY <2>2, <3>2, <3>3 DEF PopTakesSome
  <2>3. CASE PopFindsNothing(c)
    BY <2>3 DEF PopFindsNothing, BlockingPops
  <2>4. CASE TryPop(c)
    BY <2>4 DEF TryPop
  <2>5. CASE Front(c)
    BY <2>5 DEF Front
  <2>6. CASE Timeout(c)
    BY <2>6 DEF Timeout, Call
  <2>7. QED
    BY <2>1, <2>2, <2>3, <2>4, <2>5, <2>6 DEF Pop
<1>4. QED
  BY <1>2, <1>3, CallsUnmoved

LEMMA CallsBegin ==
  ASSUME TypeOK, CallsWellFormed,
         \/ \E p \in Producers : BeginPush(p)
         \/ \E c \in Consumers : BeginPop(c)
         \/ BeginClose
  PROVE  CallsWellFormed'
<1> USE Disjoint
<1>1. CASE \E p \in Producers : BeginPush(p)
  <2>1. PICK p \in Producers, op \in PushOps, n \in 1..MaxBatch :
          Offer(p, op, n) /\ (op = "push" => n = 1)
    BY <1>1, QueueAssumption DEF BeginPush, PushOps
  <2>2. Len([i \in 1..n |-> <<p, offered[p] + i>>]) = n
    BY OfferedItems DEF TypeOK
  <2>3. ProducerCall(p)'
    BY <2>1, <2>2 DEF Offer, Begin, Goto, TypeOK, ProducerCall
  <2>4. /\ ops' = ops /\ running' = running
        /\ \A u \in Threads \ {p} : pc'[u] = pc[u] /\ call'[u] = call[u]
    BY <2>1 DEF Offer, Begin, Goto, TypeOK
  <2>5. QED
    BY <2>3, <2>4, CallsUnmoved
<1>2. CASE \E c \in Consumers : BeginPop(c)
  <2>1. PICK c \in Consumers, op \in PopOps, n \in 1..MaxBatch :
          Begin(c, op, n, <<>>) /\ (op \in OneItemOps => n = 1)
    BY <1>2, QueueAssumption DEF BeginPop, PopOps, OneItemOps
  <2>2. ConsumerCall(c)'
    BY <2>1 DEF Begin, Goto, TypeOK, ConsumerCall
  <2>3. /\ ops' = ops /\ running' = running
        /\ \A u \in Threads \ {c} : pc'[u] = pc[u] /\ call'[u] = call[u]
    BY <2>1 DEF Begin, Goto, TypeOK
  <2>4. QED
    BY <2>2, <2>3, CallsUnmoved
<1>3. CASE BeginClose
  <2>1. OwnerCall'
    BY <1>3 DEF BeginClose, Begin, Goto, TypeOK, OwnerCall
  <2>2. /\ ops' = ops /\ running' = running
        /\ \A u \in Threads \ {Owner} : pc'[u] = pc[u] /\ call'[u] = call[u]
    BY <1>3 DEF BeginClose, Begin, Goto, TypeOK
  <2>3. QED
    BY <2>1, <2>2, CallsUnmoved
<1>4. QED
  BY <1>1, <1>2, <1>3

(***************************************************************************)
(* Waking threads keeps every call well formed: what holds of a blocked    *)
(* thread's call is what "enter" asks of it.                               *)
(***************************************************************************)
LEMMA CallsWake ==
  ASSUME TypeOK, CallsWellFormed, ops' = ops, running' = running, call' = call,
         \A u \in Threads : \/ pc'[u] = pc[u]
                            \/ pc[u] \in {"wait_empty", "wait_full"} /\ pc'[u] = "enter"
  PROVE  CallsWellFormed'
<1> USE Disjoint
<1>1. ASSUME NEW p \in Producers PROVE ProducerCall(p)'
  BY <1>1 DEF CallsWellFormed, ProducerCall
<1>2. ASSUME NEW c \in Consumers PROVE ConsumerCall(c)'
  BY <1>2 DEF CallsWellFormed, ConsumerCall
<1>3. OwnerCall'
  BY DEF CallsWellFormed, OwnerCall
<1>4. QED
  BY <1>1, <1>2, <1>3 DEF CallsWellFormed

(***************************************************************************)
(* A notification wakes threads that are blocked on its variable and moves *)
(* its own thread to AfterNotify.                                          *)
(***************************************************************************)
LEMMA NotifyMoves ==
  ASSUME TypeOK, NEW t \in Threads, NotifyOne(t) \/ NotifyAll(t)
  PROVE  /\ pc'[t] = AfterNotify(t) /\ Finish(t)
         /\ UNCHANGED <<ops, queue, running, maxSize, offered, got>>
         /\ \A u \in Threads \ {t} :
              \/ pc'[u] = pc[u]
              \/ pc[u] \in {"wait_empty", "wait_full"} /\ pc'[u] = "enter"
         /\ \A u \in Threads \ {t} : call'[u] = call[u]
         /\ pc[t] \in {"one_empty", "one_full", "all_empty", "all_full"}
<1>1. CASE NotifyOne(t)
  BY <1>1 DEF NotifyOne, Goto, WaitersOf, At, Finish, TypeOK
<1>2. CASE NotifyAll(t)
  BY <1>2 DEF NotifyAll, WaitersOf, At, Finish, TypeOK
<1>3. QED
  BY <1>1, <1>2

LEMMA CallsNotify ==
  ASSUME TypeOK, CallsWellFormed, NEW t \in Threads, NotifyOne(t) \/ NotifyAll(t)
  PROVE  CallsWellFormed'
<1> USE Disjoint
<1>1. /\ pc'[t] = AfterNotify(t)
      /\ call'[t] = IF AfterNotify(t) = "idle" THEN NoCall ELSE call[t]
      /\ ops' = ops /\ running' = running
      /\ \A u \in Threads \ {t} :
           /\ call'[u] = call[u]
           /\ \/ pc'[u] = pc[u]
              \/ pc[u] \in {"wait_empty", "wait_full"} /\ pc'[u] = "enter"
      /\ pc[t] \in {"one_empty", "one_full", "all_empty", "all_full"}
  BY NotifyMoves DEF Finish, TypeOK
<1>2. ASSUME NEW p \in Producers PROVE ProducerCall(p)'
  <2>1. ProducerCall(p) /\ call[p] \in Call
    BY DEF CallsWellFormed, TypeOK
  <2>2. CASE p = t /\ AfterNotify(t) = "enter"
    <3>1. call[p].items # <<>> /\ call[p].op = "push_range" /\ pc[p] = "all_empty"
      BY <1>1, <2>1, <2>2 DEF AfterNotify, ProducerCall, PushOps
    <3>2. Len(call[p].items) > 0
      BY <2>1, <3>1, EmptySeq DEF Call
    <3>3. QED
      BY <1>1, <2>1, <2>2, <3>1, <3>2 DEF ProducerCall, PushOps
  <2>3. CASE p = t /\ AfterNotify(t) # "enter"
    BY <1>1, <2>1, <2>3 DEF AfterNotify, ProducerCall, PushOps
  <2>4. CASE p # t
    BY <1>1, <2>1, <2>4 DEF ProducerCall
  <2>5. QED
    BY <2>2, <2>3, <2>4
<1>3. ASSUME NEW c \in Consumers PROVE ConsumerCall(c)'
  BY <1>1, <1>3 DEF CallsWellFormed, ConsumerCall, AfterNotify, PopOps, OneItemOps
<1>4. OwnerCall'
  BY <1>1 DEF CallsWellFormed, OwnerCall, AfterNotify, TypeOK, Call
<1>5. QED
  BY <1>2, <1>3, <1>4 DEF CallsWellFormed

LEMMA CallsOther ==
  ASSUME TypeOK, CallsWellFormed,
         \/ \E size \in Sizes : SetMaxSize(size)
         \/ \E t \in Threads : SpuriousWake(t)
         \/ Close
  PROVE  CallsWellFormed'
<1> USE Disjoint
<1>1. CASE \E size \in Sizes : SetMaxSize(size)
  BY <1>1, CallsWake DEF SetMaxSize, TypeOK
<1>2. CASE \E t \in Threads : SpuriousWake(t)
  BY <1>2, CallsWake DEF SpuriousWake, Goto, TypeOK
<1>3. CASE Close
  <2>1. ASSUME NEW p \in Producers PROVE ProducerCall(p)'
    BY <1>3 DEF Close, Goto, TypeOK, CallsWellFormed, ProducerCall
  <2>2. ASSUME NEW c \in Consumers PROVE ConsumerCall(c)'
    BY <1>3 DEF Close, Goto, TypeOK, CallsWellFormed, ConsumerCall
  <2>3. OwnerCall'
    BY <1>3 DEF Close, InCall, Goto, TypeOK, OwnerCall
  <2>4. QED
    BY <2>1, <2>2, <2>3 DEF CallsWellFormed
<1>4. QED
  BY <1>1, <1>2, <1>3

LEMMA CallsInit == Init => CallsWellFormed
BY Disjoint DEF Init, CallsWellFormed, ProducerCall, ConsumerCall, OwnerCall

LEMMA CallsNext == TypeOK /\ CallsWellFormed /\ [Next]_vars => CallsWellFormed'
<1> SUFFICES ASSUME TypeOK, CallsWellFormed, [Next]_vars PROVE CallsWellFormed'
  OBVIOUS
<1>1. CASE UNCHANGED vars
  BY <1>1, CallsWake DEF vars
<1>2. CASE Next
  BY <1>2, CallsPush, CallsPop, CallsBegin, CallsNotify, CallsOther DEF Next, Step
<1>3. QED
  BY <1>1, <1>2

-----------------------------------------------------------------------------
(***************************************************************************)
(* close() reaches every waiter.  After close() no thread starts to wait,  *)
(* so the waiters only become fewer until each notify_all empties a set.   *)
(***************************************************************************)
LEMMA WaitersShrink ==
  ASSUME TypeOK, CallsWellFormed, ~running, NEW place \in {"wait_empty", "wait_full"},
         NEW u \in Threads, pc[u] # place, [Next]_vars
  PROVE  pc'[u] # place
<1> USE Disjoint
<1>1. CASE UNCHANGED vars
  BY <1>1 DEF vars
<1>2. ASSUME NEW p \in Producers, Push(p) PROVE pc'[u] # place
  BY <1>2 DEF Push, PushFails, PushWaits, PushInserts, Return, Goto, TypeOK
<1>3. ASSUME NEW c \in Consumers, Pop(c) \/ Timeout(c) PROVE pc'[u] # place
  BY <1>3 DEF Pop, PopCompletes, PopTakesSome, PopFindsNothing, TryPop, Front,
              Timeout, Return, Goto, TypeOK
<1>4. CASE Close
  BY <1>4 DEF Close, Goto, TypeOK
<1>5. ASSUME NEW t \in Threads, NotifyOne(t) \/ NotifyAll(t) PROVE pc'[u] # place
  BY <1>5, NotifyMoves DEF AfterNotify
<1>6. ASSUME NEW t \in Threads, SpuriousWake(t) PROVE pc'[u] # place
  BY <1>6 DEF SpuriousWake, Goto, TypeOK
<1>7. ASSUME NEW size \in Sizes, SetMaxSize(size) PROVE pc'[u] # place
  BY <1>7 DEF SetMaxSize, TypeOK
<1>8. ASSUME NEW p \in Producers, BeginPush(p) PROVE pc'[u] # place
  BY <1>8 DEF BeginPush, Offer, Begin, Goto, TypeOK
<1>9. ASSUME NEW c \in Consumers, BeginPop(c) PROVE pc'[u] # place
  BY <1>9 DEF BeginPop, Begin, Goto, TypeOK
<1>10. CASE BeginClose
  BY <1>10 DEF BeginClose, Begin, Goto, TypeOK
<1>11. QED
  BY <1>1, <1>2, <1>3, <1>4, <1>5, <1>6, <1>7, <1>8, <1>9, <1>10 DEF Next, Step

(***************************************************************************)
(* What the owner's thread does while it is in close().                    *)
(***************************************************************************)
LEMMA OwnerMoves ==
  ASSUME TypeOK, CallsWellFormed, [Next]_vars
  PROVE  /\ ~running /\ pc[Owner] = "all_empty" =>
              \/ pc'[Owner] = "all_empty"
              \/ pc'[Owner] = "all_full" /\ At("wait_empty")' = {}
         /\ ~running /\ pc[Owner] = "all_full" =>
              \/ pc'[Owner] = "all_full"
              \/ At("wait_full")' = {}
         /\ running /\ ~running' => pc'[Owner] = "all_empty"
<1> USE Disjoint
<1>1. pc[Owner] \notin {"wait_empty", "wait_full"} /\ call[Owner] \in Call
  BY DEF CallsWellFormed, OwnerCall, TypeOK
<1>2. CASE UNCHANGED vars
  BY <1>2 DEF vars
<1>3. ASSUME NEW p \in Producers, Push(p) \/ BeginPush(p)
      PROVE  pc'[Owner] = pc[Owner] /\ running' = running
  BY <1>3 DEF Push, PushFails, PushWaits, PushInserts, Return, BeginPush, Offer, Begin,
              Goto, TypeOK
<1>4. ASSUME NEW c \in Consumers, Pop(c) \/ Timeout(c) \/ BeginPop(c)
      PROVE  pc'[Owner] = pc[Owner] /\ running' = running
  BY <1>4 DEF Pop, PopCompletes, PopTakesSome, PopFindsNothing, TryPop, Front, Timeout,
              BeginPop, Begin, Return, Goto, TypeOK
<1>5. CASE Close
  BY <1>5 DEF Close, InCall, Goto, TypeOK
<1>6. CASE BeginClose
  BY <1>6 DEF BeginClose, Begin, Goto, TypeOK
<1>7. ASSUME NEW size \in Sizes, SetMaxSize(size)
      PROVE  pc'[Owner] = pc[Owner] /\ running' = running
  BY <1>1, <1>7 DEF SetMaxSize, TypeOK
<1>8. ASSUME NEW t \in Threads, t # Owner, NotifyOne(t) \/ NotifyAll(t) \/ SpuriousWake(t)
      PROVE  pc'[Owner] = pc[Owner] /\ running' = running
  BY <1>1, <1>8, NotifyMoves DEF SpuriousWake, Goto, TypeOK
<1>9. CASE NotifyAll(Owner)
  <2>1. CASE pc[Owner] = "all_empty"
    <3>1. call[Owner].op = "close" /\ AfterNotify(Owner) = "all_full" /\ ~running
      BY <2>1 DEF CallsWellFormed, OwnerCall, AfterNotify
    <3>2. At("wait_empty")' = {}
      BY <1>9, <2>1, <3>1 DEF NotifyAll, WaitersOf, At
    <3>3. QED
      BY <1>9, <2>1, <3>1, <3>2, NotifyMoves
  <2>2. CASE pc[Owner] = "all_full"
    <3>1. AfterNotify(Owner) = "idle" /\ ~running
      BY <2>2 DEF CallsWellFormed, OwnerCall, AfterNotify
    <3>2. At("wait_full")' = {}
      BY <1>9, <2>2, <3>1 DEF NotifyAll, WaitersOf, At
    <3>3. QED
      BY <1>9, <2>2, <3>1, <3>2, NotifyMoves
  <2>3. QED
    BY <1>9, <2>1, <2>2 DEF NotifyAll
<1>10. ~NotifyOne(Owner) /\ ~SpuriousWake(Owner)
  BY <1>1 DEF NotifyOne, SpuriousWake, CallsWellFormed, OwnerCall
<1>11. QED
  BY <1>2, <1>3, <1>4, <1>5, <1>6, <1>7, <1>8, <1>9, <1>10 DEF Next, Step

LEMMA RunningOnlyFalls ==
  ASSUME [Next]_vars, ~running
  PROVE  ~running'
BY DEF Next, vars, Step, Push, PushFails, PushWaits, PushInserts, Pop, PopCompletes,
       PopTakesSome, PopFindsNothing, TryPop, Front, Timeout, Close, SetMaxSize, BeginPush,
       Offer, BeginPop, BeginClose, Begin, NotifyOne, NotifyAll, SpuriousWake

LEMMA CloseNext == CloseInv /\ [Next]_vars => CloseReachesEveryWaiter'
<1> SUFFICES ASSUME CloseInv, [Next]_vars, ~running'
             PROVE  /\ At("wait_empty")' # {} => pc'[Owner] = "all_empty"
                    /\ At("wait_full")' # {} => pc'[Owner] \in {"all_empty", "all_full"}
  BY DEF CloseReachesEveryWaiter
<1> USE DEF CloseInv
<1>1. CASE running
  BY <1>1, OwnerMoves
<1>2. CASE ~running
  <2>1. ASSUME NEW place \in {"wait_empty", "wait_full"}, At(place) = {}
        PROVE  At(place)' = {}
    BY <1>2, <2>1, WaitersShrink DEF At
  <2>2. QED
    BY <1>2, <2>1, OwnerMoves DEF CloseReachesEveryWaiter
<1>3. QED
  BY <1>1, <1>2

(***************************************************************************)
(* Once close() has run, a blocked thread will still be notified.          *)
(***************************************************************************)
THEOREM CloseReaches == Spec => []CloseReachesEveryWaiter
<1>1. Init => CloseInv
  BY TypeInit, CallsInit DEF Init, CloseInv, CloseReachesEveryWaiter
<1>2. CloseInv /\ [Next]_vars => CloseInv'
  BY TypeNext, CallsNext, CloseNext DEF CloseInv
<1>3. CloseInv => CloseReachesEveryWaiter
  BY DEF CloseInv
<1>4. QED
  BY <1>1, <1>2, <1>3, PTL DEF Spec

-----------------------------------------------------------------------------
(***************************************************************************)
(* No lost wake-up.  Quiet states alone are not inductive: what is, is a   *)
(* count of the threads that will still deal with an item (a notification  *)
(* to come, or a pop about to take the mutex) or with a free place (a      *)
(* notification to come, or a push about to take the mutex).  While anyone *)
(* is blocked there are at least as many of them as items or free places,  *)
(* unless a notify_all is on its way.                                      *)
(***************************************************************************)
ItemHands ==
  {t \in Threads : \/ pc[t] = "one_empty"
                   \/ pc[t] = "enter" /\ call[t].op \in {"pop", "pop_until"}}

RoomHands ==
  {t \in Threads : \/ pc[t] = "one_full"
                   \/ pc[t] = "enter" /\ call[t].op \in PushOps}

ItemsAttended ==
  At("wait_empty") # {} =>
    \/ At("all_empty") # {}
    \/ Len(queue) <= Cardinality(ItemHands)

RoomAttended == At("wait_full") # {} => Room <= Cardinality(RoomHands)

WakeInv == OneForOne /\ running => ItemsAttended /\ RoomAttended

LEMMA ThreadSetsFinite ==
  ASSUME NEW S \in SUBSET Threads
  PROVE  IsFiniteSet(S) /\ Cardinality(S) \in Nat
<1>1. IsFiniteSet(Producers \cup Consumers)
  BY QueueAssumption, FS_Union
<1>2. IsFiniteSet(Threads)
  BY <1>1, FS_AddElement DEF Threads
<1>3. QED
  BY <1>2, FS_Subset, FS_CardinalityType

LEMMA HandsFinite ==
  /\ IsFiniteSet(ItemHands) /\ Cardinality(ItemHands) \in Nat
  /\ IsFiniteSet(ItemHands') /\ Cardinality(ItemHands') \in Nat
  /\ IsFiniteSet(RoomHands) /\ Cardinality(RoomHands) \in Nat
  /\ IsFiniteSet(RoomHands') /\ Cardinality(RoomHands') \in Nat
<1>1. /\ ItemHands \in SUBSET Threads /\ ItemHands' \in SUBSET Threads
      /\ RoomHands \in SUBSET Threads /\ RoomHands' \in SUBSET Threads
  BY DEF ItemHands, RoomHands
<1>2. QED
  BY <1>1, ThreadSetsFinite

(***************************************************************************)
(* How a set of hands may change in a step: it grows, one thread leaves    *)
(* it, one joins it, or one leaves and another joins.                      *)
(***************************************************************************)
LEMMA HandsChange ==
  ASSUME NEW S, NEW T, IsFiniteSet(S), IsFiniteSet(T)
  PROVE  /\ S \subseteq T => Cardinality(S) <= Cardinality(T)
         /\ \A x : x \in S /\ T = S \ {x} => Cardinality(T) = Cardinality(S) - 1
         /\ \A x : x \notin S /\ S \cup {x} \subseteq T =>
              Cardinality(T) >= Cardinality(S) + 1
         /\ \A x, y : x \in S /\ y \notin S /\ T = (S \ {x}) \cup {y} =>
              Cardinality(T) = Cardinality(S)
<1>0. Cardinality(S) \in Nat /\ Cardinality(T) \in Nat
  BY FS_CardinalityType
<1>1. S \subseteq T => Cardinality(S) <= Cardinality(T)
  BY FS_Subset
<1>2. ASSUME NEW x, x \in S, T = S \ {x}
      PROVE  Cardinality(T) = Cardinality(S) - 1
  BY <1>2, FS_RemoveElement
<1>3. ASSUME NEW x, x \notin S, S \cup {x} \subseteq T
      PROVE  Cardinality(T) >= Cardinality(S) + 1
  <2>1. Cardinality(S \cup {x}) = Cardinality(S) + 1
    BY <1>3, FS_AddElement
  <2>2. Cardinality(S \cup {x}) <= Cardinality(T)
    BY <1>3, FS_Subset
  <2>3. QED
    BY <1>0, <2>1, <2>2
<1>4. ASSUME NEW x, NEW y, x \in S, y \notin S, T = (S \ {x}) \cup {y}
      PROVE  Cardinality(T) = Cardinality(S)
  <2>1. IsFiniteSet(S \ {x}) /\ Cardinality(S \ {x}) = Cardinality(S) - 1
    BY <1>4, FS_RemoveElement
  <2>2. Cardinality(T) = Cardinality(S \ {x}) + 1
    BY <1>4, <2>1, FS_AddElement
  <2>3. QED
    BY <1>0, <2>1, <2>2
<1>5. QED
  BY <1>1, <1>2, <1>3, <1>4

(***************************************************************************)
(* In the programs the invariant is about, a call in progress wants one    *)
(* item and no consumer reads the front or takes in bulk.                  *)
(***************************************************************************)
LEMMA OneForOneCalls ==
  ASSUME TypeOK, CallsWellFormed, OneForOne, NEW c \in Consumers, pc[c] # "idle"
  PROVE  /\ call[c].op \in {"pop", "pop_until", "try_pop"}
         /\ pc[c] # "all_full"
         /\ pc[c] = "wait_empty" => call[c].op \in {"pop", "pop_until"}
         /\ pc[c] \in {"enter", "wait_empty"} => call[c].want = 1
BY DEF CallsWellFormed, ConsumerCall, OneForOne, PopOps, OneItemOps

LEMMA RoomType ==
  ASSUME TypeOK
  PROVE  Len(queue) \in Nat /\ maxSize \in Nat /\ Room \in Nat
<1>1. Len(queue) \in Nat
  BY LenProperties DEF TypeOK
<1>2. QED
  BY <1>1, QueueAssumption DEF TypeOK, Room

(***************************************************************************)
(* Steps that take no hand away and make no thread wait keep both counts.  *)
(***************************************************************************)
LEMMA ItemsKept ==
  ASSUME TypeOK, TypeOK', ItemsAttended,
         ItemHands \subseteq ItemHands', Len(queue') <= Len(queue),
         At("wait_empty")' \subseteq At("wait_empty"),
         At("all_empty") \subseteq At("all_empty")'
  PROVE  ItemsAttended'
<1>1. Cardinality(ItemHands) <= Cardinality(ItemHands')
  BY HandsFinite, HandsChange
<1>2. Len(queue) \in Nat /\ Len(queue') \in Nat
  BY LenProperties DEF TypeOK
<1>3. QED
  BY <1>1, <1>2, HandsFinite DEF ItemsAttended

LEMMA RoomKept ==
  ASSUME TypeOK, TypeOK', RoomAttended,
         RoomHands \subseteq RoomHands', Room' <= Room,
         At("wait_full")' \subseteq At("wait_full")
  PROVE  RoomAttended'
<1>1. Cardinality(RoomHands) <= Cardinality(RoomHands')
  BY HandsFinite, HandsChange
<1>2. Room \in Nat /\ Room' \in Nat
  BY RoomType, QueueAssumption, LenProperties DEF TypeOK, Room
<1>3. QED
  BY <1>1, <1>2, HandsFinite DEF RoomAttended

LEMMA WakePush ==
  ASSUME TypeOK, TypeOK', CallsWellFormed, OneForOne, running, ItemsAttended, RoomAttended,
         NEW p \in Producers, Push(p)
  PROVE  ItemsAttended' /\ RoomAttended'
<1> USE Disjoint
<1>1. /\ pc[p] = "enter" /\ call[p].op \in PushOps /\ Len(call[p].items) > 0
      /\ call[p].op = "push" => Len(call[p].items) = 1
      /\ call[p].items \in Seq(Item) /\ Len(call[p].items) \in Nat
  BY LenProperties DEF Push, PushFails, PushWaits, PushInserts, InCall, CallsWellFormed,
     ProducerCall, PushOps, TypeOK, Call
<1>2. CASE PushWaits(p)
  <2>1. /\ Room' = 0 /\ Len(queue') = Len(queue)
        /\ pc' = [pc EXCEPT ![p] = "wait_full"] /\ call' = call
    BY <1>2 DEF PushWaits, Room, Goto
  <2>2. /\ ItemHands \subseteq ItemHands'
        /\ At("wait_empty")' \subseteq At("wait_empty")
        /\ At("all_empty") \subseteq At("all_empty")'
    BY <1>1, <2>1 DEF ItemHands, At, TypeOK, PushOps
  <2>3. ItemsAttended'
    BY <2>1, <2>2, ItemsKept, LenProperties DEF TypeOK
  <2>4. RoomAttended'
    BY <2>1, HandsFinite DEF RoomAttended
  <2>5. QED
    BY <2>3, <2>4
<1>3. CASE PushInserts(p)
  <2> DEFINE n == AtMost(Len(call[p].items), Room)
  <2>1. n \in 0..Room /\ n \in 0..Len(call[p].items) /\ n > 0
    BY <1>1, <1>3, RoomType, AtMostProperties DEF PushInserts
  <2>2. Len(queue') = Len(queue) + n
    <3>1. /\ First(call[p].items, n) \in Seq(Item)
          /\ Len(First(call[p].items, n)) = n
      <4> HIDE DEF n
      <4>1. call[p].items \in Seq(Item) /\ n \in 0..Len(call[p].items)
        BY <1>1, <2>1
      <4>2. QED
        BY <4>1, FirstRestProperties
    <3>2. queue \in Seq(Item) /\ queue' = queue \o First(call[p].items, n)
      BY <1>3 DEF PushInserts, TypeOK
    <3>3. QED
      BY <3>1, <3>2, ConcatProperties
  <2>3. Room' = Room - n
    BY <1>3, <2>1, <2>2, RoomType DEF PushInserts, Room
  <2>4. /\ pc' = [pc EXCEPT ![p] = IF call[p].op = "push" THEN "one_empty" ELSE "all_empty"]
        /\ call' = [call EXCEPT ![p].items = Rest(call[p].items, n)]
        /\ call'[p].op = call[p].op
        /\ \A t \in Threads \ {p} : pc'[t] = pc[t] /\ call'[t] = call[t]
    BY <1>3 DEF PushInserts, Goto, TypeOK, Call
  <2>5. RoomHands' = RoomHands \ {p} /\ p \in RoomHands
    BY <1>1, <2>4 DEF RoomHands, TypeOK
  <2>6. At("wait_full")' = At("wait_full") /\ At("wait_empty")' = At("wait_empty")
    BY <1>1, <2>4 DEF At, TypeOK
  <2>7. RoomAttended'
    <3>1. Cardinality(RoomHands') = Cardinality(RoomHands) - 1
      BY <2>5, HandsFinite, HandsChange
    <3>2. QED
      BY <2>1, <2>3, <2>6, <3>1, RoomType, HandsFinite DEF RoomAttended
  <2>8. ItemsAttended'
    <3>1. CASE call[p].op = "push_range"
      <4>1. p \in At("all_empty")'
        BY <2>4, <3>1 DEF At, TypeOK
      <4>2. QED
        BY <4>1 DEF ItemsAttended
    <3>2. CASE call[p].op = "push"
      <4>1. Len(queue') = Len(queue) + 1
        <5> HIDE DEF n
        <5>1. n \in 0..Len(call[p].items) /\ Len(call[p].items) = 1 /\ n > 0
          BY <1>1, <2>1, <3>2
        <5>2. n \in 0..1
          BY <5>1
        <5>3. n = 1
          BY <5>1, <5>2
        <5>4. QED
          BY <2>2, <5>3
      <4>2. p \notin ItemHands /\ ItemHands \cup {p} \subseteq ItemHands'
        BY <1>1, <2>4, <3>2 DEF ItemHands, TypeOK
      <4>3. Cardinality(ItemHands') >= Cardinality(ItemHands) + 1
        BY <4>2, HandsFinite, HandsChange
      <4>4. At("all_empty") \subseteq At("all_empty")'
        BY <1>1, <2>4 DEF At, TypeOK
      <4>5. QED
        BY <2>6, <4>1, <4>3, <4>4, RoomType, HandsFinite DEF ItemsAttended
    <3>3. QED
      BY <1>1, <3>1, <3>2 DEF PushOps
  <2>9. QED
    BY <2>7, <2>8
<1>4. QED
  BY <1>2, <1>3 DEF Push, PushFails

LEMMA AtMostOne ==
  ASSUME NEW n \in Nat, n > 0
  PROVE  AtMost(1, n) = 1
<1>1. CASE 1 < n
  BY <1>1 DEF AtMost
<1>2. CASE n = 1
  BY <1>2 DEF AtMost
<1>3. QED
  BY <1>1, <1>2

(***************************************************************************)
(* A pop that finds an item, blocking or not, takes one and has a          *)
(* notification of m_full_cv to come.                                      *)
(***************************************************************************)
LEMMA TakesOne ==
  ASSUME TypeOK, NEW c \in Consumers, PopCompletes(c) \/ TryPop(c), queue # <<>>,
         call[c].op \in {"pop", "pop_until", "try_pop"}, call[c].want = 1
  PROVE  /\ queue' = Rest(queue, 1) /\ maxSize' = maxSize
         /\ pc' = [pc EXCEPT ![c] = "one_full"]
         /\ \A t \in Threads \ {c} : call'[t] = call[t]
<1> USE Disjoint
<1>1. Len(queue) \in Nat /\ Len(queue) > 0
  BY LenProperties, EmptySeq DEF TypeOK
<1>2. CASE PopCompletes(c)
  <2>1. queue' = Rest(queue, 1) /\ maxSize' = maxSize
    BY <1>2 DEF PopCompletes
  <2>2. pc' = [pc EXCEPT ![c] = "one_full"]
    BY <1>2 DEF PopCompletes, Goto
  <2>3. \A t \in Threads \ {c} : call'[t] = call[t]
    BY <1>2 DEF PopCompletes, TypeOK
  <2>4. QED
    BY <2>1, <2>2, <2>3
<1>3. CASE TryPop(c)
  <2>1. AtMost(call[c].want, Len(queue)) = 1
    <3>1. AtMost(1, Len(queue)) = 1
      BY <1>1, AtMostOne
    <3>2. QED
      BY <3>1
  <2>2. queue' = Rest(queue, 1) /\ maxSize' = maxSize
    BY <1>3, <2>1 DEF TryPop
  <2>3. call[c].op = "try_pop"
    BY <1>3 DEF TryPop, InCall
  <2>4. ~(AtMost(call[c].want, Len(queue)) < call[c].want)
    BY <2>1
  <2>5. Goto(c, "one_full") /\ call' = call
    BY <1>3, <2>3, <2>4 DEF TryPop
  <2>6. QED
    BY <2>2, <2>5 DEF Goto
<1>4. QED
  BY <1>2, <1>3

LEMMA WakePop ==
  ASSUME TypeOK, TypeOK', CallsWellFormed, OneForOne, running, ItemsAttended, RoomAttended,
         NEW c \in Consumers, Pop(c)
  PROVE  ItemsAttended' /\ RoomAttended'
<1> USE Disjoint
<1>1. /\ pc[c] = "enter" /\ call[c].op \in {"pop", "pop_until", "try_pop"}
      /\ call[c].want = 1
      /\ queue \in Seq(Item) /\ Len(queue) \in Nat
      /\ queue # <<>> => Len(queue) > 0
  <2>1. pc[c] = "enter"
    BY DEF Pop, PopCompletes, PopTakesSome, PopFindsNothing, TryPop, Front, InCall
  <2>2. queue \in Seq(Item)
    BY DEF TypeOK
  <2>3. QED
    BY <2>1, <2>2, OneForOneCalls, LenProperties, EmptySeq
<1>2. CASE PopFindsNothing(c)
  <2>1. queue = <<>> /\ queue' = <<>> /\ Len(queue') = 0
    BY <1>2, EmptySeq DEF PopFindsNothing
  <2>2. /\ RoomHands \subseteq RoomHands' /\ Room' = Room
        /\ At("wait_full")' \subseteq At("wait_full")
    BY <1>1, <1>2 DEF PopFindsNothing, Return, Goto, RoomHands, Room, At, TypeOK, PushOps
  <2>3. RoomAttended'
    BY <2>2, RoomType, RoomKept
  <2>4. QED
    BY <2>1, <2>3, HandsFinite DEF ItemsAttended
<1>3. CASE (PopCompletes(c) \/ TryPop(c)) /\ queue # <<>>
  <2>1. queue # <<>> /\ Len(queue) > 0
    BY <1>1, <1>3
  <2>2. queue' = Rest(queue, 1) /\ maxSize' = maxSize
    BY <1>1, <1>3, <2>1, TakesOne
  <2>3. Len(queue') = Len(queue) - 1
    BY <1>1, <2>1, <2>2, FirstRestProperties
  <2>4. Room' <= Room + 1
    BY <2>2, <2>3, RoomType DEF Room
  <2>5. pc' = [pc EXCEPT ![c] = "one_full"]
    BY <1>1, <1>3, <2>1, TakesOne
  <2>6. \A t \in Threads \ {c} : pc'[t] = pc[t] /\ call'[t] = call[t]
    BY <1>1, <1>3, <2>1, <2>5, TakesOne DEF TypeOK
  <2>7. /\ At("wait_empty")' = At("wait_empty") /\ At("wait_full")' = At("wait_full")
        /\ At("all_empty") = At("all_empty")'
    BY <1>1, <2>5 DEF At, TypeOK
  <2>8. c \notin RoomHands /\ RoomHands \cup {c} \subseteq RoomHands'
    BY <1>1, <2>5, <2>6 DEF RoomHands, PushOps, TypeOK
  <2>9. RoomAttended'
    <3>1. Cardinality(RoomHands') >= Cardinality(RoomHands) + 1
      BY <2>8, HandsFinite, HandsChange
    <3>2. Room' \in Nat
      BY RoomType, QueueAssumption, LenProperties DEF TypeOK, Room
    <3>3. QED
      BY <2>4, <2>7, <3>1, <3>2, RoomType, HandsFinite DEF RoomAttended
  <2>10. ItemHands' = ItemHands \ {c}
    BY <1>1, <2>5, <2>6 DEF ItemHands, TypeOK
  <2>11. Cardinality(ItemHands') >= Cardinality(ItemHands) - 1
    <3>1. CASE c \in ItemHands
      BY <2>10, <3>1, HandsFinite, HandsChange
    <3>2. CASE c \notin ItemHands
      <4>1. ItemHands' = ItemHands
        BY <2>10, <3>2
      <4>2. QED
        BY <4>1, HandsFinite
    <3>3. QED
      BY <3>1, <3>2
  <2>12. ItemsAttended'
    BY <1>1, <2>3, <2>7, <2>11, HandsFinite DEF ItemsAttended
  <2>13. QED
    BY <2>9, <2>12
<1>4. CASE TryPop(c) /\ queue = <<>>
  <2>1. AtMost(1, Len(queue)) = 0 /\ Len(queue) = 0
    BY <1>1, <1>4, EmptySeq DEF AtMost
  <2>2. queue' = Rest(queue, 0) /\ Return(c) /\ maxSize' = maxSize
    BY <1>1, <1>4, <2>1 DEF TryPop
  <2>3. Len(queue') = 0
    <3>1. 0 \in 0..Len(queue)
      BY <2>1
    <3>2. Len(Rest(queue, 0)) = Len(queue) - 0
      BY <1>1, <3>1, FirstRestProperties
    <3>3. QED
      BY <2>1, <2>2, <3>2
  <2>4. /\ RoomHands \subseteq RoomHands' /\ Room' = Room
        /\ At("wait_full")' \subseteq At("wait_full")
    BY <1>1, <2>1, <2>2, <2>3 DEF Return, Goto, RoomHands, Room, At, TypeOK, PushOps
  <2>5. RoomAttended'
    BY <2>4, RoomType, RoomKept
  <2>6. QED
    BY <2>3, <2>5, HandsFinite DEF ItemsAttended
<1>5. ~PopTakesSome(c) /\ ~Front(c)
  <2>1. queue # <<>> => ~(1 > Len(queue))
    BY <1>1
  <2>0. ~PopTakesSome(c)
    BY <1>1, <2>1 DEF PopTakesSome
  <2>2. ~Front(c)
    BY <1>1 DEF Front, InCall
  <2>3. QED
    BY <2>0, <2>2
<1>6. PopCompletes(c) => queue # <<>>
  BY DEF PopCompletes
<1>7. QED
  BY <1>2, <1>3, <1>4, <1>5, <1>6 DEF Pop

(***************************************************************************)
(* Steps that only add hands: a call begins, a deadline passes, a thread   *)
(* wakes for no reason, the queue is resized.                              *)
(***************************************************************************)
LEMMA WakeMoreHands ==
  ASSUME TypeOK, TypeOK', ItemsAttended, RoomAttended, NEW t \in Threads,
         pc[t] \in {"idle", "wait_empty", "wait_full"}, pc'[t] = "enter",
         \A u \in Threads \ {t} : pc'[u] = pc[u] /\ call'[u] = call[u],
         UNCHANGED <<queue, maxSize>>
  PROVE  ItemsAttended' /\ RoomAttended'
<1>1. /\ ItemHands \subseteq ItemHands' /\ RoomHands \subseteq RoomHands'
      /\ At("wait_empty")' \subseteq At("wait_empty")
      /\ At("wait_full")' \subseteq At("wait_full")
      /\ At("all_empty") \subseteq At("all_empty")'
  BY DEF ItemHands, RoomHands, At
<1>2. Len(queue') <= Len(queue) /\ Room' <= Room
  BY RoomType DEF Room
<1>3. QED
  BY <1>1, <1>2, ItemsKept, RoomKept

LEMMA WakeResize ==
  ASSUME TypeOK, TypeOK', ItemsAttended, RoomAttended,
         NEW size \in Sizes, SetMaxSize(size)
  PROVE  ItemsAttended' /\ RoomAttended'
<1>1. /\ ItemHands \subseteq ItemHands' /\ RoomHands \subseteq RoomHands'
      /\ At("wait_empty")' \subseteq At("wait_empty")
      /\ At("wait_full")' \subseteq At("wait_full")
      /\ At("all_empty") \subseteq At("all_empty")'
  BY DEF SetMaxSize, ItemHands, RoomHands, At, TypeOK
<1>2. Len(queue') <= Len(queue)
  BY RoomType DEF SetMaxSize
<1>3. ItemsAttended'
  BY <1>1, <1>2, ItemsKept
<1>4. CASE size > maxSize
  <2>1. At("wait_full")' = {}
    BY <1>4 DEF SetMaxSize, At
  <2>2. QED
    BY <1>3, <2>1 DEF RoomAttended
<1>5. CASE ~(size > maxSize)
  <2>1. /\ queue' = queue /\ maxSize' = size /\ size \in Nat /\ size <= maxSize
        /\ Len(queue) \in Nat /\ maxSize \in Nat
    BY <1>5, RoomType, QueueAssumption DEF SetMaxSize
  <2>2. Room' <= Room
    BY <2>1 DEF Room
  <2>3. QED
    BY <1>1, <1>3, <2>2, RoomKept
<1>6. QED
  BY <1>4, <1>5

(***************************************************************************)
(* A notification hands its item, or its place, to the thread it wakes.    *)
(***************************************************************************)
LEMMA WakeNotifyOne ==
  ASSUME TypeOK, TypeOK', CallsWellFormed, OneForOne, running, ItemsAttended, RoomAttended,
         NEW t \in Threads, NotifyOne(t)
  PROVE  ItemsAttended' /\ RoomAttended'
<1> USE Disjoint
<1>1. /\ pc[t] \in {"one_empty", "one_full"} /\ AfterNotify(t) = "idle"
      /\ queue' = queue /\ maxSize' = maxSize
      /\ \A u \in Threads \ {t} : call'[u] = call[u]
  BY NotifyMoves DEF NotifyOne, AfterNotify
<1>2. Len(queue') <= Len(queue) /\ Room' = Room /\ Room' <= Room
  BY <1>1, RoomType DEF Room
<1>3. /\ \A w \in At("wait_empty") : call[w].op \in {"pop", "pop_until"}
      /\ \A w \in At("wait_full") : call[w].op \in PushOps
  <2>1. ASSUME NEW w \in At("wait_empty") PROVE call[w].op \in {"pop", "pop_until"}
    <3>1. w \in Consumers /\ pc[w] = "wait_empty"
      BY DEF At, Threads, CallsWellFormed, ProducerCall, OwnerCall
    <3>2. QED
      BY <3>1, OneForOneCalls
  <2>2. ASSUME NEW w \in At("wait_full") PROVE call[w].op \in PushOps
    BY DEF At, Threads, CallsWellFormed, ProducerCall, ConsumerCall, OwnerCall
  <2>3. QED
    BY <2>1, <2>2
<1>4. CASE WaitersOf(pc[t]) = {} /\ Goto(t, "idle")
  <2>1. pc' = [pc EXCEPT ![t] = "idle"]
    BY <1>4 DEF Goto
  <2>2. /\ At("wait_empty")' = At("wait_empty") /\ At("wait_full")' = At("wait_full")
        /\ At("all_empty") = At("all_empty")'
    BY <1>1, <2>1 DEF At, TypeOK
  <2>3. CASE pc[t] = "one_empty"
    <3>1. At("wait_empty")' = {}
      BY <1>4, <2>2, <2>3 DEF WaitersOf
    <3>2. RoomHands \subseteq RoomHands'
      BY <1>1, <2>1, <2>3 DEF RoomHands, TypeOK
    <3>3. QED
      BY <1>2, <2>2, <3>1, <3>2, RoomKept DEF ItemsAttended
  <2>4. CASE pc[t] = "one_full"
    <3>1. At("wait_full")' = {}
      BY <1>4, <2>2, <2>4 DEF WaitersOf
    <3>2. ItemHands \subseteq ItemHands'
      BY <1>1, <2>1, <2>4 DEF ItemHands, TypeOK
    <3>3. QED
      BY <1>2, <2>2, <3>1, <3>2, ItemsKept DEF RoomAttended
  <2>5. QED
    BY <1>1, <2>3, <2>4
<1>5. ASSUME NEW w \in WaitersOf(pc[t]), pc' = [pc EXCEPT ![t] = "idle", ![w] = "enter"]
      PROVE  ItemsAttended' /\ RoomAttended'
  <2>1. w \in Threads /\ w # t /\ pc[w] \in {"wait_empty", "wait_full"}
    BY <1>1 DEF WaitersOf, At
  <2>2. /\ At("wait_empty")' \subseteq At("wait_empty")
        /\ At("wait_full")' \subseteq At("wait_full")
        /\ At("all_empty") = At("all_empty")'
    BY <1>1, <1>5, <2>1 DEF At, TypeOK
  <2>3. CASE pc[t] = "one_empty"
    <3>1. w \in At("wait_empty") /\ call[w].op \in {"pop", "pop_until"} /\ pc[w] = "wait_empty"
      BY <1>3, <2>3 DEF WaitersOf, At
    <3>2. RoomHands \subseteq RoomHands'
      BY <1>1, <1>5, <2>1, <2>3, <3>1 DEF RoomHands, TypeOK, PushOps
    <3>3. /\ ItemHands' = (ItemHands \ {t}) \cup {w}
          /\ t \in ItemHands /\ w \notin ItemHands
      BY <1>1, <1>5, <2>1, <2>3, <3>1 DEF ItemHands, TypeOK
    <3>4. Cardinality(ItemHands') = Cardinality(ItemHands)
      BY <3>3, HandsFinite, HandsChange
    <3>5. ItemsAttended'
      BY <1>1, <2>2, <3>4 DEF ItemsAttended
    <3>6. QED
      BY <1>2, <2>2, <3>2, <3>5, RoomKept
  <2>4. CASE pc[t] = "one_full"
    <3>1. w \in At("wait_full") /\ call[w].op \in PushOps /\ pc[w] = "wait_full"
      BY <1>3, <2>4 DEF WaitersOf, At
    <3>2. ItemHands \subseteq ItemHands'
      BY <1>1, <1>5, <2>1, <2>4, <3>1 DEF ItemHands, TypeOK, PushOps
    <3>3. /\ RoomHands' = (RoomHands \ {t}) \cup {w}
          /\ t \in RoomHands /\ w \notin RoomHands
      BY <1>1, <1>5, <2>1, <2>4, <3>1 DEF RoomHands, TypeOK
    <3>4. Cardinality(RoomHands') = Cardinality(RoomHands)
      BY <3>3, HandsFinite, HandsChange
    <3>5. RoomAttended'
      BY <1>2, <2>2, <3>4 DEF RoomAttended
    <3>6. QED
      BY <1>2, <2>2, <3>2, <3>5, ItemsKept
  <2>5. QED
    BY <1>1, <2>3, <2>4
<1>6. QED
  BY <1>1, <1>4, <1>5 DEF NotifyOne

LEMMA WakeNotifyAll ==
  ASSUME TypeOK, TypeOK', CallsWellFormed, OneForOne, running, ItemsAttended, RoomAttended,
         NEW t \in Threads, NotifyAll(t)
  PROVE  ItemsAttended' /\ RoomAttended'
<1> USE Disjoint
<1>1. pc[t] = "all_empty" /\ t \in Producers /\ call[t].op = "push_range"
  <2>1. pc[t] \in {"all_empty", "all_full"}
    BY DEF NotifyAll
  <2>2. t \notin Consumers
    BY <2>1, OneForOneCalls DEF CallsWellFormed, ConsumerCall
  <2>3. t # Owner
    BY <2>1 DEF CallsWellFormed, OwnerCall
  <2>4. QED
    BY <2>1, <2>2, <2>3 DEF Threads, CallsWellFormed, ProducerCall
<1>2. /\ pc'[t] = AfterNotify(t) /\ AfterNotify(t) \in {"enter", "idle"}
      /\ call'[t] = IF AfterNotify(t) = "idle" THEN NoCall ELSE call[t]
      /\ \A u \in Threads \ {t} : call'[u] = call[u]
      /\ queue' = queue /\ maxSize' = maxSize
      /\ \A u \in Threads \ {t} :
           pc'[u] = IF pc[u] = "wait_empty" THEN "enter" ELSE pc[u]
  BY <1>1 DEF NotifyAll, AfterNotify, Finish, WaitersOf, At, TypeOK
<1>3. At("wait_empty")' = {}
  BY <1>2 DEF At
<1>4. At("wait_full")' \subseteq At("wait_full") /\ RoomHands \subseteq RoomHands'
  BY <1>1, <1>2 DEF At, RoomHands
<1>5. Room' <= Room
  BY <1>2, RoomType DEF Room
<1>6. QED
  BY <1>3, <1>4, <1>5, RoomKept DEF ItemsAttended

LEMMA WakeNext ==
  TypeOK /\ CallsWellFormed /\ WakeInv /\ [Next]_vars => WakeInv'
<1> SUFFICES ASSUME TypeOK, CallsWellFormed, WakeInv, [Next]_vars, OneForOne', running'
             PROVE  ItemsAttended' /\ RoomAttended'
  BY DEF WakeInv
<1> USE Disjoint
<1>1. TypeOK'
  BY TypeNext
<1>2. running /\ OneForOne
  <2>1. ops' = ops
    BY DEF Next, vars, Step, Push, PushFails, PushWaits, PushInserts, Pop, PopCompletes,
           PopTakesSome, PopFindsNothing, TryPop, Front, Timeout, Close, SetMaxSize,
           BeginPush, Offer, BeginPop, BeginClose, Begin, NotifyOne, NotifyAll, SpuriousWake
  <2>2. QED
    BY <2>1, RunningOnlyFalls DEF OneForOne
<1>3. ItemsAttended /\ RoomAttended
  BY <1>2 DEF WakeInv
<1>4. CASE UNCHANGED vars
  BY <1>3, <1>4 DEF vars, ItemsAttended, RoomAttended, ItemHands, RoomHands, At, Room
<1>5. ASSUME NEW p \in Producers, Push(p) PROVE ItemsAttended' /\ RoomAttended'
  BY <1>1, <1>2, <1>3, <1>5, WakePush
<1>6. ASSUME NEW c \in Consumers, Pop(c) PROVE ItemsAttended' /\ RoomAttended'
  BY <1>1, <1>2, <1>3, <1>6, WakePop
<1>7. ASSUME NEW t \in Threads, SpuriousWake(t) PROVE ItemsAttended' /\ RoomAttended'
  <2>1. /\ pc[t] \in {"wait_empty", "wait_full"} /\ pc'[t] = "enter"
        /\ \A u \in Threads \ {t} : pc'[u] = pc[u] /\ call'[u] = call[u]
        /\ UNCHANGED <<queue, maxSize>>
    BY <1>7 DEF SpuriousWake, Goto, TypeOK
  <2>2. QED
    BY <1>1, <1>3, <2>1, WakeMoreHands
<1>8. ASSUME NEW c \in Consumers, Timeout(c) \/ BeginPop(c)
      PROVE  ItemsAttended' /\ RoomAttended'
  <2>1. /\ pc[c] \in {"idle", "wait_empty"} /\ pc'[c] = "enter"
        /\ \A u \in Threads \ {c} : pc'[u] = pc[u] /\ call'[u] = call[u]
        /\ UNCHANGED <<queue, maxSize>>
    BY <1>8 DEF Timeout, BeginPop, Begin, Goto, TypeOK
  <2>2. QED
    BY <1>1, <1>3, <2>1, WakeMoreHands
<1>9. ASSUME NEW p \in Producers, BeginPush(p) PROVE ItemsAttended' /\ RoomAttended'
  <2>1. /\ pc[p] = "idle" /\ pc'[p] = "enter"
        /\ \A u \in Threads \ {p} : pc'[u] = pc[u] /\ call'[u] = call[u]
        /\ UNCHANGED <<queue, maxSize>>
    BY <1>9 DEF BeginPush, Offer, Begin, Goto, TypeOK
  <2>2. QED
    BY <1>1, <1>3, <2>1, WakeMoreHands
<1>10. CASE BeginClose
  <2>1. /\ pc[Owner] = "idle" /\ pc'[Owner] = "enter"
        /\ \A u \in Threads \ {Owner} : pc'[u] = pc[u] /\ call'[u] = call[u]
        /\ UNCHANGED <<queue, maxSize>>
    BY <1>10 DEF BeginClose, Begin, Goto, TypeOK
  <2>2. QED
    BY <1>1, <1>3, <2>1, WakeMoreHands
<1>11. ASSUME NEW size \in Sizes, SetMaxSize(size) PROVE ItemsAttended' /\ RoomAttended'
  BY <1>1, <1>3, <1>11, WakeResize
<1>12. ~Close
  BY DEF Close
<1>13. ASSUME NEW t \in Threads, NotifyOne(t) \/ NotifyAll(t)
       PROVE  ItemsAttended' /\ RoomAttended'
  BY <1>1, <1>2, <1>3, <1>13, WakeNotifyOne, WakeNotifyAll
<1>14. QED
  BY <1>4, <1>5, <1>6, <1>7, <1>8, <1>9, <1>10, <1>11, <1>12, <1>13 DEF Next, Step

(***************************************************************************)
(* In a quiet state there are no hands, so nothing may be left to attend.  *)
(***************************************************************************)
LEMMA WakeGivesNoLostWakeup == TypeOK /\ WakeInv => NoLostWakeup
<1> SUFFICES ASSUME TypeOK, WakeInv, OneForOne, Quiet, running
             PROVE  /\ At("wait_full") # {} => Room = 0
                    /\ At("wait_empty") # {} => queue = <<>>
  BY DEF NoLostWakeup, BlocksOnlyWhenFullOrEmpty
<1>1. ItemHands = {} /\ RoomHands = {} /\ At("all_empty") = {}
  BY DEF Quiet, ItemHands, RoomHands, At
<1>2. Cardinality(ItemHands) = 0 /\ Cardinality(RoomHands) = 0
  BY <1>1, FS_EmptySet
<1>3. /\ At("wait_full") # {} => Room <= 0
      /\ At("wait_empty") # {} => Len(queue) <= 0
  BY <1>1, <1>2 DEF WakeInv, ItemsAttended, RoomAttended
<1>4. Room \in Nat /\ Len(queue) \in Nat /\ queue \in Seq(Item)
  BY RoomType DEF TypeOK
<1>5. Len(queue) = 0 => queue = <<>>
  BY <1>4, EmptySeq
<1>6. QED
  BY <1>3, <1>4, <1>5

(***************************************************************************)
(* A program that uses neither pop(nums), try_pop(nums) nor front() never  *)
(* loses a wake-up, whatever it pushes, pops, closes or resizes.           *)
(***************************************************************************)
THEOREM NoWakeupLost == Spec => []NoLostWakeup
<1> DEFINE Inv == TypeOK /\ CallsWellFormed /\ WakeInv
<1>1. Init => Inv
  <2>1. Init => WakeInv
    BY DEF Init, WakeInv, ItemsAttended, RoomAttended, At
  <2>2. QED
    BY <2>1, TypeInit, CallsInit
<1>2. Inv /\ [Next]_vars => Inv'
  BY TypeNext, CallsNext, WakeNext
<1>3. Inv => NoLostWakeup
  BY WakeGivesNoLostWakeup
<1>4. QED
  BY <1>1, <1>2, <1>3, PTL DEF Spec

-----------------------------------------------------------------------------
(***************************************************************************)
(* What the queue of threads, mutex and condition variables is to those    *)
(* who use it, for any threads, sizes, quotas and batches.                 *)
(*                                                                         *)
(* It implements the channel of BoundedFifo: a step of a thread is one     *)
(* step of the channel, or none.  What a client of the channel has         *)
(* received is what its calls have returned and what the call it is in     *)
(* has taken.                                                              *)
(*                                                                         *)
(* Each item is delivered once, and each producer's items in the order in  *)
(* which it pushed them.  The invariant follows a producer's items through *)
(* three places: its call, the queue and what the consumers have taken.    *)
(* Those further on are always the earlier ones.                           *)
(***************************************************************************)
\* Only a pop(nums) holds items, while it looks for more; a pop wants something; and
\* only a pop_until has a deadline.
ConsumerHolds(c) ==
  /\ call[c].items # <<>> => pc[c] \in {"enter", "wait_empty"} /\ call[c].op = "pop_n"
  /\ pc[c] \in {"enter", "wait_empty"} => call[c].want > 0
  /\ call[c].expired => call[c].op = "pop_until"

ChannelInv ==
  /\ TypeOK /\ CallsWellFormed
  /\ \A c \in Consumers : ConsumerHolds(c)

\* What the clients of the channel have received.
Received == [c \in Consumers |-> Taken(c)]

-----------------------------------------------------------------------------
(***************************************************************************)
(* A step of one thread, as the others see it.                             *)
(***************************************************************************)
OnlyMoves(t) == \A u \in Threads \ {t} : pc'[u] = pc[u] /\ call'[u] = call[u]

LEMMA OthersHold ==
  ASSUME ChannelInv, TypeOK', CallsWellFormed', NEW t \in Threads, OnlyMoves(t),
         t \in Consumers => ConsumerHolds(t)'
  PROVE  ChannelInv'
<1>1. ASSUME NEW c \in Consumers, c # t PROVE ConsumerHolds(c)'
  <2>1. pc'[c] = pc[c] /\ call'[c] = call[c] /\ ConsumerHolds(c)
    BY <1>1, Disjoint DEF OnlyMoves, ChannelInv
  <2>2. QED
    BY <2>1 DEF ConsumerHolds
<1> QED  BY <1>1 DEF ChannelInv

\* Nothing moves in the channel while every call keeps what it has taken.
LEMMA NothingMoves ==
  ASSUME UNCHANGED <<queue, running, maxSize, got>>,
         \A c \in Consumers : call'[c].items = call[c].items
  PROVE  UNCHANGED Channel!chan
<1>1. \A c \in Consumers : Taken(c)' = Taken(c)
  BY DEF Taken
<1>2. [c \in Consumers |-> Taken(c)]' = [c \in Consumers |-> Taken(c)]
  BY <1>1
<1> QED  BY <1>2 DEF Channel!chan

\* One consumer's call comes to hold something else.
LEMMA OneReceives ==
  ASSUME NEW c \in Consumers, \A d \in Consumers \ {c} : got'[d] = got[d] /\ call'[d].items = call[d].items
  PROVE  Received' = [Received EXCEPT ![c] = Taken(c)']
<1>1. \A d \in Consumers \ {c} : Taken(d)' = Taken(d)
  BY DEF Taken
<1>2. [d \in Consumers |-> Taken(d)'] = [[d \in Consumers |-> Taken(d)] EXCEPT ![c] = Taken(c)']
  BY <1>1
<1> QED  BY <1>2 DEF Received

LEMMA Joining ==
  /\ \A s, u, w \in Seq(Item) : (s \o u) \o w = s \o (u \o w)
  /\ \A s, u \in Seq(Item) : s \o u \in Seq(Item) /\ Len(s \o u) = Len(s) + Len(u)
  /\ \A s \in Seq(Item) : s \o <<>> = s
BY ConcatAssociative, ConcatProperties, ConcatEmptySeq

LEMMA WholeQueue ==
  ASSUME NEW S, NEW s \in Seq(S)
  PROVE  /\ First(s, Len(s)) = s /\ Rest(s, Len(s)) = <<>>
         /\ First(s, 0) = <<>> /\ Rest(s, 0) = s
<1>1. Len(s) \in Nat
  BY LenProperties
<1>2. First(s, Len(s)) = s /\ Rest(s, 0) = s
  BY SubSeqFull DEF First, Rest
<1>3. Rest(s, Len(s)) = <<>> /\ First(s, 0) = <<>>
  BY <1>1, SubSeqEmpty DEF First, Rest
<1> QED  BY <1>2, <1>3

\* What was taken before is the beginning of what was taken.
LEMMA Beginning ==
  ASSUME NEW S, NEW s \in Seq(S), NEW u \in Seq(S)
  PROVE  SubSeq(s \o u, 1, Len(s)) = s
<1>1. /\ s \o u \in Seq(S) /\ Len(s) \in Nat /\ Len(u) \in Nat
      /\ Len(s \o u) = Len(s) + Len(u)
      /\ \A i \in 1..Len(s) : (s \o u)[i] = s[i]
  BY ConcatProperties, LenProperties
<1>2. \A i \in 1..Len(s) : (s \o u)[i] \in S
  BY <1>1, ElementOfSeq
<1>3. /\ SubSeq(s \o u, 1, Len(s)) \in Seq(S) /\ Len(SubSeq(s \o u, 1, Len(s))) = Len(s)
      /\ \A i \in 1..Len(s) : SubSeq(s \o u, 1, Len(s))[i] = s[i]
  <2> DEFINE w == s \o u
  <2>1. \A i \in 1..Len(s) : w[i] \in S
    BY <1>2
  <2> HIDE DEF w
  <2>2. /\ SubSeq(w, 1, Len(s)) \in Seq(S)
        /\ Len(SubSeq(w, 1, Len(s))) = IF 1 <= Len(s) THEN Len(s) - 1 + 1 ELSE 0
        /\ \A i \in 1..Len(s) - 1 + 1 : SubSeq(w, 1, Len(s))[i] = w[1 + i - 1]
    BY <1>1, <2>1, SubSeqProperties
  <2>3. QED
    BY <1>1, <2>2 DEF w
<1> QED  BY <1>3, SeqEqual

-----------------------------------------------------------------------------
LEMMA HoldsInit == Init => ChannelInv /\ Channel!Init
<1> SUFFICES ASSUME Init PROVE ChannelInv /\ Channel!Init
  OBVIOUS
<1>1. \A c \in Consumers : pc[c] = "idle" /\ call[c] = NoCall /\ got[c] = <<>>
  BY Disjoint DEF Init
<1>2. \A c \in Consumers : ConsumerHolds(c)
  BY <1>1 DEF ConsumerHolds, NoCall
<1>3. \A c \in Consumers : Taken(c) = <<>>
  <2>1. <<>> \o <<>> = <<>>
    BY ConcatEmptySeq, EmptySeq
  <2>2. QED
    BY <1>1, <2>1 DEF Taken, NoCall
<1>4. [c \in Consumers |-> Taken(c)] = [c \in Consumers |-> <<>>]
  BY <1>3
<1> QED  BY <1>2, <1>4, TypeInit, CallsInit DEF ChannelInv, Channel!Init, Init

\* Calls begin: nothing is taken yet.
LEMMA BeginStutters ==
  ASSUME ChannelInv, TypeOK', CallsWellFormed',
         \/ \E p \in Producers : BeginPush(p)
         \/ \E c \in Consumers : BeginPop(c)
         \/ BeginClose
  PROVE  ChannelInv' /\ UNCHANGED Channel!chan
<1> USE Disjoint DEF ChannelInv
<1>1. CASE \E p \in Producers : BeginPush(p)
  <2>1. PICK p \in Producers, op \in PushOps, n \in 1..MaxBatch : Offer(p, op, n)
    BY <1>1, QueueAssumption DEF BeginPush, PushOps
  <2>2. OnlyMoves(p) /\ UNCHANGED <<queue, running, maxSize, got>>
    BY <2>1 DEF Offer, Begin, Goto, TypeOK, OnlyMoves
  <2>3. \A c \in Consumers : call'[c].items = call[c].items
    BY <2>2 DEF OnlyMoves
  <2>4. QED
    BY <2>2, <2>3, OthersHold, NothingMoves
<1>2. CASE \E c \in Consumers : BeginPop(c)
  <2>1. PICK c \in Consumers, op \in PopOps, n \in 1..MaxBatch : Begin(c, op, n, <<>>)
    BY <1>2, QueueAssumption DEF BeginPop, PopOps, OneItemOps
  <2>2. /\ OnlyMoves(c) /\ UNCHANGED <<queue, running, maxSize, got>>
        /\ call'[c] = [op |-> op, want |-> n, items |-> <<>>, expired |-> FALSE]
        /\ pc[c] = "idle"
    BY <2>1 DEF Begin, Goto, TypeOK, OnlyMoves
  <2>3. ConsumerHolds(c)'
    BY <2>2 DEF ConsumerHolds
  <2>4. call[c].items = <<>>
    BY <2>2 DEF ConsumerHolds
  <2>5. \A d \in Consumers : call'[d].items = call[d].items
    BY <2>2, <2>4 DEF OnlyMoves
  <2>6. QED
    BY <2>2, <2>3, <2>5, OthersHold, NothingMoves
<1>3. CASE BeginClose
  <2>1. OnlyMoves(Owner) /\ UNCHANGED <<queue, running, maxSize, got>>
    BY <1>3 DEF BeginClose, Begin, Goto, TypeOK, OnlyMoves
  <2>2. \A c \in Consumers : call'[c].items = call[c].items
    BY <2>1 DEF OnlyMoves
  <2>3. QED
    BY <2>1, <2>2, OthersHold, NothingMoves
<1> QED  BY <1>1, <1>2, <1>3

\* A push puts its items, or as many as there is room for, at the end.
LEMMA PushPuts ==
  ASSUME ChannelInv, TypeOK', CallsWellFormed', NEW p \in Producers, Push(p)
  PROVE  ChannelInv' /\ (Channel!Put \/ UNCHANGED Channel!chan)
<1> USE Disjoint DEF ChannelInv
<1>1. OnlyMoves(p) /\ UNCHANGED <<running, maxSize, got>>
  BY DEF Push, PushFails, PushWaits, PushInserts, Return, Goto, TypeOK, OnlyMoves
<1>2. \A c \in Consumers : call'[c].items = call[c].items
  BY <1>1 DEF OnlyMoves
<1>3. ChannelInv'
  BY <1>1, OthersHold
<1>4. CASE PushFails(p) \/ PushWaits(p)
  BY <1>1, <1>2, <1>3, <1>4, NothingMoves DEF PushFails, PushWaits
<1>5. CASE PushInserts(p)
  <2> DEFINE given == First(call[p].items, AtMost(Len(call[p].items), Room))
  <2>1. /\ queue \in Seq(Item) /\ call[p].items \in Seq(Item)
        /\ Len(call[p].items) \in Nat /\ Len(call[p].items) > 0 /\ pc[p] = "enter"
        /\ Len(queue) \in Nat /\ maxSize \in Nat
    BY <1>5, QueueAssumption DEF PushInserts, InCall, TypeOK, Call, CallsWellFormed, ProducerCall
  <2>2. Room \in Nat /\ Room > 0 /\ Room = maxSize - Len(queue) /\ running /\ queue' = queue \o given
    BY <1>5, <2>1 DEF PushInserts, Room
  <2>3. given \in Seq(Item) /\ Len(given) \in 1..Room
    <3> DEFINE s == call[p].items
               n == AtMost(Len(s), Room)
    <3>1. n \in 0..Len(s) /\ n \in 0..Room /\ n > 0
      BY <2>1, <2>2, AtMostProperties
    <3> HIDE DEF n
    <3>2. First(s, n) \in Seq(Item) /\ Len(First(s, n)) = n
      BY <2>1, <3>1, FirstRestProperties
    <3>3. QED
      BY <3>1, <3>2, <2>2 DEF n
  <2> HIDE DEF given
  <2>4. queue' \in Seq(Item) /\ Len(queue') = Len(queue) + Len(given)
    BY <2>1, <2>2, <2>3, ConcatProperties
  <2>5. queue = SubSeq(queue', 1, Len(queue))
    BY <2>1, <2>2, <2>3, Beginning
  <2>6. [c \in Consumers |-> Taken(c)]' = [c \in Consumers |-> Taken(c)]
    BY <1>1, <1>2 DEF Taken
  <2>7. Len(queue') <= maxSize /\ Len(queue') > Len(queue)
    BY <2>1, <2>2, <2>3, <2>4
  <2>8. Channel!Put
    BY <1>1, <2>2, <2>4, <2>5, <2>6, <2>7 DEF Channel!Put
  <2>9. QED
    BY <1>3, <2>8
<1> QED  BY <1>4, <1>5 DEF Push

\* What a pop takes from the front goes to what its call has taken.
LEMMA PopTakes ==
  ASSUME ChannelInv, NEW c \in Consumers, OnlyMoves(c), NEW n \in 1..Len(queue),
         UNCHANGED <<running, maxSize>>, queue' = Rest(queue, n),
         \A d \in Consumers \ {c} : got'[d] = got[d],
         Taken(c)' = Taken(c) \o First(queue, n)
  PROVE  Channel!Take(c)
<1>1. \A d \in Consumers \ {c} : got'[d] = got[d] /\ call'[d].items = call[d].items
  BY Disjoint DEF OnlyMoves
<1>2. Received' = [Received EXCEPT ![c] = Taken(c)']
  BY <1>1, OneReceives
<1>3. Received' = [Received EXCEPT ![c] = @ \o SubSeq(queue, 1, n)]
  BY <1>2 DEF Received, First
<1> QED  BY <1>3 DEF Channel!Take, Received, Rest

\* Nothing was in the hands of a call that takes from the front only once.
LEMMA HandsEmpty ==
  ASSUME ChannelInv, NEW c \in Consumers, call[c].op # "pop_n" \/ pc[c] \notin {"enter", "wait_empty"}
  PROVE  call[c].items = <<>> /\ got[c] \in Seq(Item) /\ Taken(c) = got[c]
<1>1. call[c].items = <<>> /\ got[c] \in Seq(Item)
  BY DEF ChannelInv, ConsumerHolds, TypeOK
<1> QED  BY <1>1, ConcatEmptySeq DEF Taken

\* On a closed queue a call may give up what it has taken.
LEMMA GivesUp ==
  ASSUME ChannelInv, NEW c \in Consumers, OnlyMoves(c), ~running,
         UNCHANGED <<running, maxSize>>, queue' \in {queue, <<>>},
         \A d \in Consumers \ {c} : got'[d] = got[d],
         Taken(c)' = SubSeq(Taken(c), 1, Len(got[c]))
  PROVE  Channel!Forfeit(c)
<1>1. \A d \in Consumers \ {c} : got'[d] = got[d] /\ call'[d].items = call[d].items
  BY Disjoint DEF OnlyMoves
<1>2. Received' = [Received EXCEPT ![c] = Taken(c)']
  BY <1>1, OneReceives
<1>3. Received' = [Received EXCEPT ![c] = SubSeq(@, 1, Len(got[c]))] /\ Received[c] = Taken(c)
  BY <1>2 DEF Received
<1>4. got[c] \in Seq(Item) /\ call[c].items \in Seq(Item)
  BY Disjoint DEF ChannelInv, TypeOK, Call
<1>5. Len(got[c]) \in 0..Len(Taken(c))
  <2> DEFINE g == got[c]
             h == call[c].items
  <2>1. g \in Seq(Item) /\ h \in Seq(Item) /\ Taken(c) = g \o h
    BY <1>4 DEF Taken
  <2> HIDE DEF g, h
  <2>2. Len(g) \in 0..Len(g \o h)
    BY <2>1, ConcatProperties, LenProperties
  <2>3. QED
    BY <2>1, <2>2 DEF g
<1> QED  BY <1>3, <1>5 DEF Channel!Forfeit, Received

LEMMA PopMoves ==
  ASSUME ChannelInv, NEW c \in Consumers, Pop(c) \/ Timeout(c)
  PROVE  /\ OnlyMoves(c) /\ UNCHANGED <<running, maxSize>>
         /\ \A d \in Consumers \ {c} : got'[d] = got[d]
         /\ queue \in Seq(Item) /\ Len(queue) \in Nat /\ (queue # <<>> => Len(queue) > 0)
         /\ got[c] \in Seq(Item) /\ call[c] \in Call
         /\ call[c].items \in Seq(Item) /\ call[c].want \in Nat
<1>1. OnlyMoves(c) /\ UNCHANGED <<running, maxSize>>
  BY Disjoint DEF Pop, PopCompletes, PopTakesSome, PopFindsNothing, TryPop, Front, Timeout, Return,
     Goto, ChannelInv, TypeOK, OnlyMoves
<1>2. \A d \in Consumers \ {c} : got'[d] = got[d]
  BY DEF Pop, PopCompletes, PopTakesSome, PopFindsNothing, TryPop, Front, Timeout, Deliver,
     ChannelInv, TypeOK
<1>3. queue \in Seq(Item) /\ Len(queue) \in Nat /\ (queue # <<>> => Len(queue) > 0)
  BY EmptySeq, LenProperties DEF ChannelInv, TypeOK
<1>4. /\ got[c] \in Seq(Item) /\ call[c] \in Call
      /\ call[c].items \in Seq(Item) /\ call[c].want \in Nat
  BY Disjoint DEF ChannelInv, TypeOK, Call
<1> QED  BY <1>1, <1>2, <1>3, <1>4

\* A call that returns holds nothing.
LEMMA ReturnedHolds ==
  ASSUME ChannelInv, NEW c \in Consumers, Return(c)
  PROVE  ConsumerHolds(c)' /\ call'[c].items = <<>>
<1>1. pc'[c] = "idle" /\ call'[c] = NoCall
  BY Disjoint DEF Return, Goto, ChannelInv, TypeOK
<1> QED  BY <1>1 DEF ConsumerHolds, NoCall

\* What is left of what a call has taken when it returns without delivering.
LEMMA ReturnForgets ==
  ASSUME ChannelInv, NEW c \in Consumers, Return(c), got'[c] = got[c]
  PROVE  Taken(c)' = SubSeq(Taken(c), 1, Len(got[c]))
<1>1. got[c] \in Seq(Item) /\ call[c].items \in Seq(Item)
  BY Disjoint DEF ChannelInv, TypeOK, Call
<1>2. got[c] \o <<>> = got[c] /\ SubSeq(got[c] \o call[c].items, 1, Len(got[c])) = got[c]
  BY <1>1, ConcatEmptySeq, Beginning
<1> QED  BY <1>2, ReturnedHolds DEF Taken

LEMMA PopCompletesTakes ==
  ASSUME ChannelInv, TypeOK', CallsWellFormed', NEW c \in Consumers, PopCompletes(c)
  PROVE  ChannelInv' /\ Channel!Take(c)
<1>1. /\ OnlyMoves(c) /\ UNCHANGED <<running, maxSize>>
      /\ \A d \in Consumers \ {c} : got'[d] = got[d]
      /\ queue \in Seq(Item) /\ Len(queue) \in Nat
      /\ got[c] \in Seq(Item) /\ call[c].items \in Seq(Item) /\ call[c].want \in Nat
  BY PopMoves DEF Pop
<1> DEFINE n == call[c].want
<1>2. n \in 1..Len(queue) /\ queue' = Rest(queue, n)
  BY <1>1, Disjoint DEF PopCompletes, InCall, ChannelInv, ConsumerHolds
<1>3. /\ got'[c] = got[c] \o (call[c].items \o First(queue, n))
      /\ call'[c].items = <<>> /\ call'[c].expired = call[c].expired /\ call'[c].op = call[c].op
      /\ pc'[c] = "one_full"
  <2>1. got'[c] = got[c] \o (call[c].items \o First(queue, n))
    BY DEF PopCompletes, Deliver, ChannelInv, TypeOK
  <2>2. call'[c].items = <<>> /\ call'[c].expired = call[c].expired /\ call'[c].op = call[c].op
    BY Disjoint DEF PopCompletes, ChannelInv, TypeOK, Call
  <2>3. pc'[c] = "one_full"
    BY Disjoint DEF PopCompletes, Goto, ChannelInv, TypeOK
  <2>4. QED
    BY <2>1, <2>2, <2>3
<1>4. ConsumerHolds(c)'
  BY <1>3 DEF ConsumerHolds, ChannelInv
<1>5. First(queue, n) \in Seq(Item)
  BY <1>1, <1>2, FirstRestProperties
<1>6. Taken(c)' = Taken(c) \o First(queue, n)
  <2> DEFINE g == got[c]
             h == call[c].items
             f == First(queue, n)
  <2>1. /\ g \in Seq(Item) /\ h \in Seq(Item) /\ f \in Seq(Item)
        /\ Taken(c) = g \o h /\ Taken(c)' = (g \o (h \o f)) \o <<>>
    BY <1>1, <1>3, <1>5 DEF Taken
  <2> HIDE DEF g, h, f
  <2>2. (g \o h) \o f = (g \o (h \o f)) \o <<>>
    BY <2>1, Joining
  <2>3. QED
    BY <2>1, <2>2 DEF f
<1>7. Channel!Take(c)
  BY <1>1, <1>2, <1>6, PopTakes
<1> QED  BY <1>1, <1>4, <1>7, Disjoint, OthersHold

LEMMA PopTakesSomeTakes ==
  ASSUME ChannelInv, TypeOK', CallsWellFormed', NEW c \in Consumers, PopTakesSome(c)
  PROVE  ChannelInv' /\ (Channel!Take(c) \/ Channel!Forfeit(c))
<1> DEFINE held == call[c].items
<1>1. /\ OnlyMoves(c) /\ UNCHANGED <<running, maxSize>>
      /\ \A d \in Consumers \ {c} : got'[d] = got[d]
      /\ queue \in Seq(Item) /\ Len(queue) \in Nat /\ Len(queue) > 0
      /\ got[c] \in Seq(Item) /\ held \in Seq(Item) /\ call[c] \in Call /\ call[c].want \in Nat
  BY PopMoves DEF Pop, PopTakesSome
<1>2. queue' = <<>> /\ got'[c] = got[c] /\ call[c].want > Len(queue) /\ pc[c] = "enter"
  BY DEF PopTakesSome, InCall
<1>3. CASE /\ running
           /\ call' = [call EXCEPT ![c].want = @ - Len(queue), ![c].items = @ \o queue]
           /\ Goto(c, "wait_empty")
  <2>1. call[c].op = "pop_n"
    BY <1>1, <1>2, Disjoint DEF PopTakesSome, InCall, BlockingPops, ChannelInv, CallsWellFormed,
       ConsumerCall, OneItemOps
  <2>2. /\ call'[c].items = held \o queue /\ call'[c].want = call[c].want - Len(queue)
        /\ call'[c].op = call[c].op /\ call'[c].expired = call[c].expired /\ pc'[c] = "wait_empty"
    BY <1>3, Disjoint DEF Goto, ChannelInv, TypeOK, Call
  <2>3. call'[c].want > 0
    BY <1>1, <1>2, <2>2
  <2>4. ConsumerHolds(c)'
    BY <2>1, <2>2, <2>3 DEF ConsumerHolds, ChannelInv
  <2>5. First(queue, Len(queue)) = queue /\ queue' = Rest(queue, Len(queue))
    BY <1>1, <1>2, WholeQueue
  <2>6. Taken(c)' = Taken(c) \o queue
    <3> DEFINE g == got[c]
    <3>1. g \in Seq(Item) /\ held \in Seq(Item) /\ queue \in Seq(Item)
      BY <1>1
    <3>2. Taken(c) = g \o held /\ Taken(c)' = g \o (held \o queue)
      BY <1>2, <2>2 DEF Taken
    <3> HIDE DEF g, held
    <3>3. QED
      BY <3>1, <3>2, Joining
  <2>7. Len(queue) \in 1..Len(queue)
    BY <1>1
  <2>8. Channel!Take(c)
    BY <1>1, <2>5, <2>6, <2>7, PopTakes
  <2>9. QED
    BY <1>1, <2>4, <2>8, Disjoint, OthersHold
<1>4. CASE ~running /\ Return(c)
  <2>1. ConsumerHolds(c)' /\ call'[c].items = <<>>
    BY <1>4, ReturnedHolds
  <2>2. Taken(c)' = SubSeq(Taken(c), 1, Len(got[c]))
    BY <1>2, <1>4, ReturnForgets
  <2>3. Channel!Forfeit(c)
    BY <1>1, <1>2, <1>4, <2>2, GivesUp
  <2>4. QED
    BY <1>1, <2>1, <2>3, Disjoint, OthersHold
<1> QED  BY <1>3, <1>4 DEF PopTakesSome

\* Without an item a call blocks, or returns and gives up what it has taken: only a pop(nums)
\* has taken anything, and that returns only from a closed queue.
LEMMA PopFindsNothingGivesUp ==
  ASSUME ChannelInv, TypeOK', CallsWellFormed', NEW c \in Consumers, PopFindsNothing(c)
  PROVE  ChannelInv' /\ (Channel!Forfeit(c) \/ UNCHANGED Channel!chan)
<1>1. /\ OnlyMoves(c) /\ UNCHANGED <<queue, running, maxSize, got>> /\ pc[c] = "enter"
      /\ \A d \in Consumers \ {c} : got'[d] = got[d]
  BY PopMoves DEF Pop, PopFindsNothing, InCall
<1>2. CASE running /\ ~call[c].expired
  <2>1. pc'[c] = "wait_empty" /\ call' = call
    BY <1>2, Disjoint DEF PopFindsNothing, Goto, ChannelInv, TypeOK
  <2>2. ConsumerHolds(c)'
    BY <1>1, <2>1 DEF ConsumerHolds, ChannelInv
  <2>3. \A d \in Consumers : call'[d].items = call[d].items
    BY <2>1
  <2>4. QED
    BY <1>1, <2>2, <2>3, Disjoint, OthersHold, NothingMoves
<1>3. CASE running /\ call[c].expired
  <2>1. Return(c)
    BY <1>3 DEF PopFindsNothing
  <2>2. call[c].items = <<>>
    BY <1>1, <1>3 DEF ConsumerHolds, ChannelInv
  <2>3. ConsumerHolds(c)' /\ \A d \in Consumers : call'[d].items = call[d].items
    BY <1>1, <2>1, <2>2, ReturnedHolds, Disjoint DEF OnlyMoves
  <2>4. QED
    BY <1>1, <2>3, Disjoint, OthersHold, NothingMoves
<1>4. CASE ~running
  <2>1. Return(c)
    BY <1>4 DEF PopFindsNothing
  <2>2. Channel!Forfeit(c)
    BY <1>1, <1>4, <2>1, ReturnForgets, GivesUp
  <2>3. QED
    BY <1>1, <2>1, <2>2, ReturnedHolds, Disjoint, OthersHold
<1> QED  BY <1>2, <1>3, <1>4

\* try_pop takes what it finds, if anything, and delivers it at once.
LEMMA TryPopTakes ==
  ASSUME ChannelInv, TypeOK', CallsWellFormed', NEW c \in Consumers, TryPop(c)
  PROVE  ChannelInv' /\ (Channel!Take(c) \/ UNCHANGED Channel!chan)
<1> DEFINE n == AtMost(call[c].want, Len(queue))
<1>1. /\ OnlyMoves(c) /\ UNCHANGED <<running, maxSize>>
      /\ \A d \in Consumers \ {c} : got'[d] = got[d]
      /\ queue \in Seq(Item) /\ Len(queue) \in Nat
      /\ got[c] \in Seq(Item) /\ call[c] \in Call /\ call[c].want \in Nat
  BY PopMoves DEF Pop
<1>2. /\ queue' = Rest(queue, n) /\ got'[c] = got[c] \o First(queue, n)
      /\ call[c].op \in {"try_pop", "try_pop_n"}
  BY DEF TryPop, Deliver, InCall, ChannelInv, TypeOK
<1>3. call[c].items = <<>>
  BY <1>2 DEF ConsumerHolds, ChannelInv
<1>4. call'[c].items = <<>> /\ ConsumerHolds(c)'
  <2>1. CASE Return(c)
    BY <2>1, ReturnedHolds
  <2>2. CASE call' = call /\ Goto(c, IF call[c].op = "try_pop" THEN "one_full" ELSE "all_full")
    <3>1. call'[c] = call[c] /\ pc'[c] \in {"one_full", "all_full"}
      BY <2>2, Disjoint DEF Goto, ChannelInv, TypeOK
    <3>2. QED
      BY <1>2, <1>3, <3>1 DEF ConsumerHolds, ChannelInv
  <2>3. QED
    BY <2>1, <2>2 DEF TryPop
<1>5. ChannelInv'
  BY <1>1, <1>4, Disjoint, OthersHold
<1>6. n \in 0..Len(queue)
  BY <1>1, AtMostProperties
<1>7. First(queue, n) \in Seq(Item)
  BY <1>1, <1>6, FirstRestProperties
<1>8. CASE n = 0
  <2>1. queue' = queue /\ got'[c] = got[c] \o <<>>
    BY <1>1, <1>2, <1>8, WholeQueue
  <2>2. got' = got
    <3>1. got'[c] = got[c]
      BY <1>1, <2>1, ConcatEmptySeq
    <3>2. got \in [Consumers -> Seq(Item)] /\ got' \in [Consumers -> Seq(Item)]
      BY DEF ChannelInv, TypeOK
    <3>3. QED
      BY <1>1, <3>1, <3>2
  <2>3. \A d \in Consumers : call'[d].items = call[d].items
    BY <1>1, <1>3, <1>4, Disjoint DEF OnlyMoves
  <2>4. QED
    BY <1>1, <1>5, <2>1, <2>2, <2>3, NothingMoves
<1>9. CASE n \in 1..Len(queue)
  <2> DEFINE g == got[c]
             f == First(queue, n)
  <2>1. g \in Seq(Item) /\ f \in Seq(Item) /\ Taken(c) = g \o <<>> /\ Taken(c)' = (g \o f) \o <<>>
    BY <1>1, <1>2, <1>3, <1>4, <1>7 DEF Taken
  <2> HIDE DEF n, g, f
  <2>2. (g \o f) \o <<>> = (g \o <<>>) \o f
    BY <2>1, Joining
  <2>3. Taken(c)' = Taken(c) \o First(queue, n)
    BY <2>1, <2>2 DEF f
  <2>4. Channel!Take(c)
    BY <1>1, <1>2, <1>9, <2>3, PopTakes DEF n
  <2>5. QED
    BY <1>5, <2>4
<1> QED  BY <1>1, <1>6, <1>8, <1>9

\* front() and the deadline of a timed pop leave the queue alone.
LEMMA FrontStutters ==
  ASSUME ChannelInv, TypeOK', CallsWellFormed', NEW c \in Consumers, Front(c) \/ Timeout(c)
  PROVE  ChannelInv' /\ UNCHANGED Channel!chan
<1>1. OnlyMoves(c) /\ UNCHANGED <<queue, running, maxSize, got>>
  BY PopMoves DEF Pop, Front, Timeout
<1>2. call[c].items = <<>>
  BY DEF Front, Timeout, InCall, ConsumerHolds, ChannelInv
<1>3. ConsumerHolds(c)' /\ call'[c].items = <<>>
  <2>1. CASE Return(c)
    BY <2>1, ReturnedHolds
  <2>2. CASE Front(c) /\ call' = call /\ Goto(c, "wait_empty")
    <3>1. pc[c] = "enter" /\ pc'[c] = "wait_empty"
      BY <2>2, Disjoint DEF Front, InCall, Goto, ChannelInv, TypeOK
    <3>2. QED
      BY <1>2, <2>2, <3>1 DEF ConsumerHolds, ChannelInv
  <2>3. CASE Timeout(c)
    <3>1. /\ pc[c] = "wait_empty" /\ pc'[c] = "enter" /\ call[c].op = "pop_until"
          /\ call'[c].op = call[c].op /\ call'[c].want = call[c].want /\ call'[c].items = call[c].items
      BY <2>3, Disjoint DEF Timeout, Goto, ChannelInv, TypeOK, Call
    <3>2. QED
      BY <1>2, <3>1 DEF ConsumerHolds, ChannelInv
  <2>4. QED
    BY <2>1, <2>2, <2>3 DEF Front
<1>4. \A d \in Consumers : call'[d].items = call[d].items
  BY <1>1, <1>2, <1>3, Disjoint DEF OnlyMoves
<1> QED  BY <1>1, <1>3, <1>4, Disjoint, OthersHold, NothingMoves

\* close() and set_max_size().
LEMMA OwnerChanges ==
  ASSUME ChannelInv, TypeOK', CallsWellFormed',
         Close \/ \E size \in Sizes : SetMaxSize(size)
  PROVE  ChannelInv' /\ (Channel!Close \/ Channel!Resize)
<1>1. /\ call' = call /\ UNCHANGED <<queue, got>>
      /\ \A c \in Consumers : pc'[c] = pc[c]
  <2>1. CASE Close
    BY <2>1, Disjoint DEF Close, Goto, ChannelInv, TypeOK
  <2>2. CASE \E size \in Sizes : SetMaxSize(size)
    BY <2>2, Disjoint DEF SetMaxSize, ChannelInv, TypeOK, CallsWellFormed, ConsumerCall
  <2>3. QED
    BY <2>1, <2>2
<1>2. \A c \in Consumers : ConsumerHolds(c)'
  BY <1>1 DEF ConsumerHolds, ChannelInv
<1>3. [c \in Consumers |-> Taken(c)]' = [c \in Consumers |-> Taken(c)]
  BY <1>1 DEF Taken
<1>4. Channel!Close \/ Channel!Resize
  BY <1>1, <1>3 DEF Close, SetMaxSize, Channel!Close, Channel!Resize
<1> QED  BY <1>2, <1>4 DEF ChannelInv

\* A notification wakes threads up, and ends the call that makes it: that of a consumer
\* has delivered what it took.
LEMMA NotifyStutters ==
  ASSUME ChannelInv, TypeOK', CallsWellFormed', NEW t \in Threads, NotifyOne(t) \/ NotifyAll(t)
  PROVE  ChannelInv' /\ UNCHANGED Channel!chan
<1>1. /\ pc'[t] = AfterNotify(t) /\ Finish(t)
      /\ UNCHANGED <<queue, running, maxSize, got>>
      /\ \A u \in Threads \ {t} : /\ call'[u] = call[u]
                                  /\ \/ pc'[u] = pc[u]
                                     \/ pc[u] \in {"wait_empty", "wait_full"} /\ pc'[u] = "enter"
      /\ pc[t] \in {"one_empty", "one_full", "all_empty", "all_full"}
  BY NotifyMoves DEF ChannelInv
<1>2. ASSUME NEW c \in Consumers PROVE ConsumerHolds(c)' /\ call'[c].items = call[c].items
  <2>1. ConsumerHolds(c) /\ ConsumerCall(c) /\ c \in Threads
    BY Disjoint DEF ChannelInv, CallsWellFormed
  <2>2. CASE c # t
    BY <1>1, <2>1, <2>2 DEF ConsumerHolds, ConsumerCall
  <2>3. CASE c = t
    <3>1. AfterNotify(c) = "idle" /\ call[c].items = <<>>
      BY <1>1, <2>1, <2>3 DEF AfterNotify, ConsumerHolds, ConsumerCall
    <3>2. pc'[c] = "idle" /\ call'[c] = NoCall
      BY <1>1, <2>1, <2>3, <3>1 DEF Finish, ChannelInv, TypeOK
    <3>3. QED
      BY <3>1, <3>2 DEF ConsumerHolds, NoCall
  <2>4. QED
    BY <2>2, <2>3
<1> QED  BY <1>1, <1>2, NothingMoves DEF ChannelInv

LEMMA SpuriousStutters ==
  ASSUME ChannelInv, TypeOK', CallsWellFormed', NEW t \in Threads, SpuriousWake(t)
  PROVE  ChannelInv' /\ UNCHANGED Channel!chan
<1>1. /\ UNCHANGED <<queue, running, maxSize, got, call>>
      /\ \A u \in Threads : pc'[u] = pc[u] \/ (u = t /\ pc'[u] = "enter")
      /\ pc[t] \in {"wait_empty", "wait_full"}
  BY DEF SpuriousWake, Goto, ChannelInv, TypeOK
<1>2. ASSUME NEW c \in Consumers PROVE ConsumerHolds(c)'
  <2>1. ConsumerHolds(c) /\ ConsumerCall(c) /\ c \in Threads
    BY Disjoint DEF ChannelInv, CallsWellFormed
  <2>2. QED
    BY <1>1, <2>1 DEF ConsumerHolds, ConsumerCall
<1>3. \A c \in Consumers : call'[c].items = call[c].items
  BY <1>1
<1> QED  BY <1>1, <1>2, <1>3, NothingMoves DEF ChannelInv

-----------------------------------------------------------------------------
(***************************************************************************)
(* Every step of the queue is a step of the channel, or none.              *)
(***************************************************************************)
LEMMA StepImplements ==
  ASSUME ChannelInv, [Next]_vars
  PROVE  ChannelInv' /\ [Channel!Next]_(Channel!chan)
<1>1. TypeOK' /\ CallsWellFormed'
  BY TypeNext, CallsNext DEF ChannelInv
<1>2. CASE UNCHANGED vars
  <2>1. UNCHANGED Channel!chan
    BY <1>2, NothingMoves DEF vars
  <2>2. \A c \in Consumers : ConsumerHolds(c)'
    BY <1>2 DEF vars, ConsumerHolds, ChannelInv
  <2>3. QED
    BY <1>1, <2>1, <2>2 DEF ChannelInv
<1>3. CASE \/ \E p \in Producers : BeginPush(p)
           \/ \E c \in Consumers : BeginPop(c)
           \/ BeginClose
  BY <1>1, <1>3, BeginStutters
<1>4. ASSUME NEW p \in Producers, Push(p)
      PROVE  ChannelInv' /\ [Channel!Next]_(Channel!chan)
  BY <1>1, <1>4, PushPuts DEF Channel!Next
<1>5. ASSUME NEW c \in Consumers, Pop(c) \/ Timeout(c)
      PROVE  ChannelInv' /\ [Channel!Next]_(Channel!chan)
  <2>1. ChannelInv' /\ (Channel!Take(c) \/ Channel!Forfeit(c) \/ UNCHANGED Channel!chan)
    BY <1>1, <1>5, PopCompletesTakes, PopTakesSomeTakes, PopFindsNothingGivesUp, TryPopTakes,
       FrontStutters DEF Pop
  <2>2. QED
    BY <2>1 DEF Channel!Next
<1>6. CASE Close \/ \E size \in Sizes : SetMaxSize(size)
  BY <1>1, <1>6, OwnerChanges DEF Channel!Next
<1>7. ASSUME NEW t \in Threads, NotifyOne(t) \/ NotifyAll(t) \/ SpuriousWake(t)
      PROVE  ChannelInv' /\ [Channel!Next]_(Channel!chan)
  BY <1>1, <1>7, NotifyStutters, SpuriousStutters
<1> QED  BY <1>2, <1>3, <1>4, <1>5, <1>6, <1>7 DEF Next, Step

(***************************************************************************)
(* The queue implements the channel: what its callers see of threads that  *)
(* push, pop, wait, are notified, time out, close and resize is a behaviour*)
(* of BoundedFifo.                                                         *)
(***************************************************************************)
THEOREM QueueIsAChannel == Spec => ImplementsChannel
<1>1. Init => ChannelInv /\ Channel!Init
  BY HoldsInit
<1>2. ChannelInv /\ [Next]_vars => ChannelInv' /\ [Channel!Next]_(Channel!chan)
  BY StepImplements
<1> QED  BY <1>1, <1>2, PTL DEF Spec, ImplementsChannel, Channel!Spec

-----------------------------------------------------------------------------
(* Each item once and in order.                                            *)

\* Of every producer, the items of s come before those of u.
Before(s, u) ==
  \A i \in 1..Len(s), j \in 1..Len(u) : s[i][1] = u[j][1] => s[i][2] < u[j][2]

Apart(s, u) == \A i \in 1..Len(s), j \in 1..Len(u) : s[i] # u[j]

UpTo(s) == \A i \in 1..Len(s) : s[i][2] <= offered[s[i][1]]

\* Items that have left their producer's call: those still in a call come after them.
Past(s) == Ordered(s) /\ UpTo(s) /\ \A p \in Producers : Before(s, call[p].items)

\* What a producer has yet to insert is its own, the last it has offered.
ToInsert(p) ==
  /\ Ordered(call[p].items)
  /\ \A i \in 1..Len(call[p].items) : call[p].items[i][1] = p /\ call[p].items[i][2] <= offered[p]

OrderParts ==
  /\ \A p \in Producers : ToInsert(p)
  /\ Past(queue)
  /\ \A c \in Consumers : Past(Taken(c)) /\ Before(Taken(c), queue)
  /\ \A c, d \in Consumers : c # d => Apart(Taken(c), Taken(d))

OrderInv == ChannelInv /\ OrderParts

-----------------------------------------------------------------------------
(***************************************************************************)
(* What joining and cutting sequences does to the order of their items.    *)
(***************************************************************************)
LEMMA Joined ==
  ASSUME NEW s \in Seq(Item), NEW u \in Seq(Item)
  PROVE  /\ s \o u \in Seq(Item)
         /\ \A k \in 1..Len(s \o u) :
              \/ k \in 1..Len(s) /\ (s \o u)[k] = s[k]
              \/ k - Len(s) \in 1..Len(u) /\ (s \o u)[k] = u[k - Len(s)] /\ k > Len(s)
<1>1. /\ s \o u \in Seq(Item) /\ Len(s \o u) = Len(s) + Len(u)
      /\ Len(s) \in Nat /\ Len(u) \in Nat
      /\ \A k \in 1..Len(s) + Len(u) : (s \o u)[k] = IF k <= Len(s) THEN s[k] ELSE u[k - Len(s)]
  BY ConcatProperties, LenProperties
<1> QED  BY <1>1

LEMMA OrderedByIndex ==
  ASSUME NEW s \in Seq(Item)
  PROVE  Ordered(s) <=> \A i, j \in 1..Len(s) : i < j /\ s[i][1] = s[j][1] => s[i][2] < s[j][2]
<1>1. DOMAIN s = 1..Len(s)
  BY LenProperties
<1> QED  BY <1>1 DEF Ordered

LEMMA JoinedOrder ==
  ASSUME NEW s \in Seq(Item), NEW u \in Seq(Item)
  PROVE  /\ Ordered(s) /\ Ordered(u) /\ Before(s, u) => Ordered(s \o u)
         /\ UpTo(s) /\ UpTo(u) => UpTo(s \o u)
         /\ \A w \in Seq(Item) : /\ Before(s, w) /\ Before(u, w) => Before(s \o u, w)
                                 /\ Before(w, s) /\ Before(w, u) => Before(w, s \o u)
                                 /\ Apart(s, w) /\ Apart(u, w) => Apart(s \o u, w)
<1> DEFINE t == s \o u
<1>1. /\ t \in Seq(Item) /\ Len(s) \in Nat /\ Len(u) \in Nat
      /\ \A k \in 1..Len(t) : \/ k \in 1..Len(s) /\ t[k] = s[k]
                              \/ k - Len(s) \in 1..Len(u) /\ t[k] = u[k - Len(s)] /\ k > Len(s)
  BY Joined, LenProperties
<1> HIDE DEF t
<1>2. ASSUME Ordered(s), Ordered(u), Before(s, u) PROVE Ordered(t)
  <2>1. ASSUME NEW i \in 1..Len(t), NEW j \in 1..Len(t), i < j, t[i][1] = t[j][1]
        PROVE  t[i][2] < t[j][2]
    <3>1. CASE i \in 1..Len(s) /\ t[i] = s[i] /\ j \in 1..Len(s) /\ t[j] = s[j]
      BY <1>2, <2>1, <3>1, OrderedByIndex
    <3>2. CASE i \in 1..Len(s) /\ t[i] = s[i] /\ j - Len(s) \in 1..Len(u) /\ t[j] = u[j - Len(s)]
      BY <1>2, <2>1, <3>2 DEF Before
    <3>3. CASE /\ i - Len(s) \in 1..Len(u) /\ t[i] = u[i - Len(s)]
               /\ j - Len(s) \in 1..Len(u) /\ t[j] = u[j - Len(s)]
      <4>1. i - Len(s) < j - Len(s)
        BY <1>1, <2>1
      <4>2. QED
        BY <1>2, <2>1, <3>3, <4>1, OrderedByIndex
    <3>4. QED
      BY <1>1, <2>1, <3>1, <3>2, <3>3
  <2>2. QED
    BY <1>1, <2>1, OrderedByIndex
<1>3. UpTo(s) /\ UpTo(u) => UpTo(t)
  BY <1>1 DEF UpTo
<1>4. ASSUME NEW w \in Seq(Item)
      PROVE  /\ Before(s, w) /\ Before(u, w) => Before(t, w)
             /\ Before(w, s) /\ Before(w, u) => Before(w, t)
             /\ Apart(s, w) /\ Apart(u, w) => Apart(t, w)
  <2>1. Before(s, w) /\ Before(u, w) => Before(t, w)
    BY <1>1 DEF Before
  <2>2. Before(w, s) /\ Before(w, u) => Before(w, t)
    BY <1>1 DEF Before
  <2>3. Apart(s, w) /\ Apart(u, w) => Apart(t, w)
    BY <1>1 DEF Apart
  <2>4. QED
    BY <2>1, <2>2, <2>3
<1> QED  BY <1>2, <1>3, <1>4 DEF t

\* Where the items of a part were in the whole.
LEMMA Parts ==
  ASSUME NEW s \in Seq(Item), NEW n \in 0..Len(s)
  PROVE  /\ First(s, n) \in Seq(Item) /\ Len(First(s, n)) = n
         /\ Rest(s, n) \in Seq(Item) /\ Len(Rest(s, n)) = Len(s) - n
         /\ \A i \in 1..n : First(s, n)[i] = s[i]
         /\ \A i \in 1..Len(s) - n : Rest(s, n)[i] = s[n + i]
<1>1. Len(s) \in Nat /\ \A i \in 1..Len(s) : s[i] \in Item
  BY LenProperties, ElementOfSeq
<1>2. \A i \in 1..n : First(s, n)[i] = s[i]
  <2>1. \A i \in 1..n : s[i] \in Item
    BY <1>1
  <2>2. \A i \in 1..n - 1 + 1 : SubSeq(s, 1, n)[i] = s[1 + i - 1]
    BY <1>1, <2>1, SubSeqProperties
  <2>3. QED
    BY <1>1, <2>2 DEF First
<1>3. \A i \in 1..Len(s) - n : Rest(s, n)[i] = s[n + i]
  <2>1. \A i \in (n + 1)..Len(s) : s[i] \in Item
    BY <1>1
  <2>2. \A i \in 1..Len(s) - (n + 1) + 1 : SubSeq(s, n + 1, Len(s))[i] = s[(n + 1) + i - 1]
    BY <1>1, <2>1, SubSeqProperties
  <2>3. QED
    BY <1>1, <2>2 DEF Rest
<1> QED  BY <1>2, <1>3, FirstRestProperties

LEMMA CutOrder ==
  ASSUME NEW s \in Seq(Item), NEW n \in 0..Len(s)
  PROVE  /\ First(s, n) \in Seq(Item) /\ Rest(s, n) \in Seq(Item)
         /\ Ordered(s) => Ordered(First(s, n)) /\ Ordered(Rest(s, n)) /\ Before(First(s, n), Rest(s, n))
         /\ UpTo(s) => UpTo(First(s, n)) /\ UpTo(Rest(s, n))
         /\ \A w \in Seq(Item) :
              /\ Before(s, w) => Before(First(s, n), w) /\ Before(Rest(s, n), w)
              /\ Before(w, s) => Before(w, First(s, n)) /\ Before(w, Rest(s, n))
<1> DEFINE f == First(s, n)
           r == Rest(s, n)
<1>1. /\ f \in Seq(Item) /\ Len(f) = n /\ r \in Seq(Item) /\ Len(r) = Len(s) - n
      /\ \A i \in 1..Len(f) : f[i] = s[i] /\ i \in 1..Len(s)
      /\ \A i \in 1..Len(r) : r[i] = s[n + i] /\ n + i \in 1..Len(s)
      /\ n \in Nat /\ Len(s) \in Nat
  <2>1. Len(s) \in Nat /\ n \in Nat
    BY LenProperties
  <2>2. /\ f \in Seq(Item) /\ Len(f) = n /\ r \in Seq(Item) /\ Len(r) = Len(s) - n
        /\ \A i \in 1..n : f[i] = s[i]
        /\ \A i \in 1..Len(s) - n : r[i] = s[n + i]
    BY Parts
  <2> HIDE DEF f, r
  <2>3. \A i \in 1..Len(f) : f[i] = s[i] /\ i \in 1..Len(s)
    BY <2>1, <2>2
  <2>4. \A i \in 1..Len(r) : r[i] = s[n + i] /\ n + i \in 1..Len(s)
    BY <2>1, <2>2
  <2>5. QED
    BY <2>1, <2>2, <2>3, <2>4
<1> HIDE DEF f, r
<1>2. Ordered(s) => Ordered(f) /\ Ordered(r) /\ Before(f, r)
  <2> SUFFICES ASSUME Ordered(s) PROVE Ordered(f) /\ Ordered(r) /\ Before(f, r)
    OBVIOUS
  <2>1. \A i, j \in 1..Len(s) : i < j /\ s[i][1] = s[j][1] => s[i][2] < s[j][2]
    BY OrderedByIndex
  <2>2. Ordered(f)
    <3>1. \A i, j \in 1..Len(f) : i < j /\ f[i][1] = f[j][1] => f[i][2] < f[j][2]
      BY <1>1, <2>1
    <3>2. QED
      BY <1>1, <3>1, OrderedByIndex
  <2>3. Ordered(r)
    <3>1. ASSUME NEW i \in 1..Len(r), NEW j \in 1..Len(r), i < j, r[i][1] = r[j][1]
          PROVE  r[i][2] < r[j][2]
      <4>1. r[i] = s[n + i] /\ n + i \in 1..Len(s) /\ r[j] = s[n + j] /\ n + j \in 1..Len(s)
        BY <1>1
      <4>2. n + i < n + j
        BY <1>1, <3>1
      <4>3. QED
        BY <2>1, <3>1, <4>1, <4>2
    <3>2. QED
      BY <1>1, <3>1, OrderedByIndex
  <2>4. Before(f, r)
    <3>1. ASSUME NEW i \in 1..Len(f), NEW j \in 1..Len(r), f[i][1] = r[j][1]
          PROVE  f[i][2] < r[j][2]
      <4>1. /\ f[i] = s[i] /\ i \in 1..Len(s)
            /\ r[j] = s[n + j] /\ n + j \in 1..Len(s) /\ i < n + j
        BY <1>1
      <4>2. QED
        BY <2>1, <3>1, <4>1
    <3>2. QED
      BY <3>1 DEF Before
  <2>5. QED
    BY <2>2, <2>3, <2>4
<1>3. UpTo(s) => UpTo(f) /\ UpTo(r)
  BY <1>1 DEF UpTo
<1>4. ASSUME NEW w \in Seq(Item)
      PROVE  /\ Before(s, w) => Before(f, w) /\ Before(r, w)
             /\ Before(w, s) => Before(w, f) /\ Before(w, r)
  <2>1. Before(s, w) => Before(f, w)
    BY <1>1 DEF Before
  <2>2. ASSUME Before(s, w) PROVE Before(r, w)
    <3>1. ASSUME NEW i \in 1..Len(r), NEW j \in 1..Len(w), r[i][1] = w[j][1]
          PROVE  r[i][2] < w[j][2]
      <4>1. r[i] = s[n + i] /\ n + i \in 1..Len(s)
        BY <1>1
      <4>2. QED
        BY <2>2, <3>1, <4>1 DEF Before
    <3>2. QED
      BY <3>1 DEF Before
  <2>3. Before(w, s) => Before(w, f)
    BY <1>1 DEF Before
  <2>4. Before(w, s) => Before(w, r)
    BY <1>1 DEF Before
  <2>5. QED
    BY <2>1, <2>2, <2>3, <2>4
<1> QED  BY <1>1, <1>2, <1>3, <1>4 DEF f, r

LEMMA ApartProperties ==
  ASSUME NEW s \in Seq(Item), NEW u \in Seq(Item)
  PROVE  /\ Apart(s, u) => Apart(u, s)
         /\ Before(s, u) => Apart(s, u)
         /\ Apart(s, u) => \A n \in 0..Len(s) : Apart(First(s, n), u)
<1>1. Apart(s, u) => Apart(u, s)
  BY DEF Apart
<1>2. ASSUME Before(s, u), NEW i \in 1..Len(s), NEW j \in 1..Len(u), s[i] = u[j] PROVE FALSE
  <2>1. s[i] \in Producers \X (Nat \ {0})
    BY ElementOfSeq DEF Item
  <2>2. s[i][2] \in Nat /\ s[i][2] < s[i][2]
    BY <1>2, <2>1 DEF Before
  <2>3. QED
    BY <2>2
<1>3. ASSUME Apart(s, u), NEW n \in 0..Len(s) PROVE Apart(First(s, n), u)
  <2>1. Len(s) \in Nat
    BY LenProperties
  <2>2. Len(First(s, n)) = n /\ \A i \in 1..n : First(s, n)[i] = s[i] /\ i \in 1..Len(s)
    <3>1. Len(First(s, n)) = n /\ \A i \in 1..n : First(s, n)[i] = s[i]
      BY Parts
    <3>2. \A i \in 1..n : i \in 1..Len(s)
      BY <2>1
    <3>3. QED
      BY <3>1, <3>2
  <2>3. QED
    BY <1>3, <2>2 DEF Apart
<1> QED  BY <1>1, <1>2, <1>3 DEF Apart

LEMMA EmptyOrder ==
  /\ Ordered(<<>>) /\ UpTo(<<>>)
  /\ \A s \in Seq(Item) : Before(<<>>, s) /\ Before(s, <<>>) /\ Apart(<<>>, s)
<1>1. 1..Len(<<>>) = {} /\ DOMAIN <<>> = {}
  OBVIOUS
<1> QED  BY <1>1 DEF Ordered, UpTo, Before, Apart

-----------------------------------------------------------------------------
(***************************************************************************)
(* Init, and the steps that leave the items where they are.                *)
(***************************************************************************)
LEMMA TakenType ==
  ASSUME TypeOK
  PROVE  /\ \A c \in Consumers : Taken(c) \in Seq(Item)
         /\ \A p \in Producers : call[p].items \in Seq(Item)
         /\ queue \in Seq(Item)
<1>1. /\ \A t \in Threads : call[t].items \in Seq(Item)
      /\ \A c \in Consumers : got[c] \in Seq(Item)
      /\ queue \in Seq(Item)
  BY DEF TypeOK, Call
<1> QED  BY <1>1, Joining, Disjoint DEF Taken

LEMMA OrderInit == Init => OrderParts
<1> SUFFICES ASSUME Init PROVE OrderParts
  OBVIOUS
<1>1. /\ queue = <<>> /\ \A c \in Consumers : got[c] = <<>> /\ call[c].items = <<>>
      /\ \A p \in Producers : call[p].items = <<>>
  BY Disjoint DEF Init, NoCall
<1>2. \A c \in Consumers : Taken(c) = <<>>
  <2>1. <<>> \o <<>> = <<>>
    BY Joining, EmptySeq
  <2>2. QED
    BY <1>1, <2>1 DEF Taken
<1>3. <<>> \in Seq(Item) /\ 1..Len(<<>>) = {}
  BY EmptySeq
<1>4. \A p \in Producers : ToInsert(p)
  BY <1>1, <1>3, EmptyOrder DEF ToInsert
<1>5. Past(<<>>)
  BY <1>1, <1>3, EmptyOrder DEF Past
<1> QED  BY <1>1, <1>2, <1>3, <1>4, <1>5, EmptyOrder DEF OrderParts

\* What a producer has yet to insert may become less: nothing, in the end.
LEMMA ItemsStay ==
  ASSUME OrderInv, UNCHANGED <<queue, offered>>,
         \A c \in Consumers : Taken(c)' = Taken(c),
         \A p \in Producers : call'[p].items \in {call[p].items, <<>>}
  PROVE  OrderParts'
<1>1. /\ \A c \in Consumers : Taken(c) \in Seq(Item)
      /\ \A p \in Producers : call[p].items \in Seq(Item)
      /\ queue \in Seq(Item) /\ 1..Len(<<>>) = {}
  BY TakenType, EmptySeq DEF OrderInv, ChannelInv
<1>2. ASSUME NEW p \in Producers PROVE ToInsert(p)'
  <2>1. CASE call'[p].items = call[p].items
    BY <2>1 DEF ToInsert, Ordered, OrderInv, OrderParts
  <2>2. CASE call'[p].items = <<>>
    BY <1>1, <2>2, EmptyOrder DEF ToInsert, Ordered
  <2>3. QED
    BY <2>1, <2>2
<1>3. ASSUME NEW s \in Seq(Item), Past(s)
      PROVE  Ordered(s) /\ UpTo(s)' /\ \A p \in Producers : Before(s, call'[p].items)
  BY <1>1, <1>3, EmptyOrder DEF Past, UpTo
<1>4. Past(queue)'
  <2>1. Past(queue)
    BY DEF OrderInv, OrderParts
  <2>2. Ordered(queue) /\ UpTo(queue)' /\ \A p \in Producers : Before(queue, call'[p].items)
    BY <1>1, <1>3, <2>1 DEF UpTo
  <2>3. QED
    BY <2>2 DEF Past, Ordered, Before
<1>5. ASSUME NEW c \in Consumers PROVE (Past(Taken(c)) /\ Before(Taken(c), queue))'
  <2>1. PICK s \in Seq(Item) : s = Taken(c) /\ s = Taken(c)'
    BY <1>1
  <2>2. Past(s) /\ Before(s, queue)
    BY <2>1 DEF OrderInv, OrderParts
  <2>3. Ordered(s) /\ UpTo(s)' /\ \A p \in Producers : Before(s, call'[p].items)
    BY <1>3, <2>2
  <2>4. QED
    BY <2>1, <2>2, <2>3 DEF Past, Ordered, Before, UpTo
<1>6. ASSUME NEW c \in Consumers, NEW d \in Consumers, c # d PROVE Apart(Taken(c), Taken(d))'
  BY <1>6 DEF OrderInv, OrderParts, Apart
<1> QED  BY <1>2, <1>4, <1>5, <1>6 DEF OrderParts

-----------------------------------------------------------------------------
(***************************************************************************)
(* The consumers' side: items move from the queue to a call, or are given  *)
(* up.                                                                     *)
(***************************************************************************)
LEMMA PastStays ==
  ASSUME UNCHANGED offered, \A p \in Producers : call'[p].items = call[p].items
  PROVE  /\ \A p \in Producers : ToInsert(p) => ToInsert(p)'
         /\ \A s \in Seq(Item) :
              Past(s) => Ordered(s) /\ UpTo(s)' /\ \A p \in Producers : Before(s, call'[p].items)
<1>1. ASSUME NEW p \in Producers, ToInsert(p) PROVE ToInsert(p)'
  BY <1>1 DEF ToInsert, Ordered
<1> QED  BY <1>1 DEF Past, UpTo

LEMMA PastOf ==
  ASSUME NEW s \in Seq(Item), Ordered(s), UpTo(s)', \A p \in Producers : Before(s, call'[p].items)
  PROVE  /\ queue' = s => Past(queue)'
         /\ \A c \in Consumers : Taken(c)' = s => Past(Taken(c))'
<1>1. ASSUME queue' = s PROVE Past(queue)'
  BY <1>1 DEF Past, Ordered, UpTo, Before
<1>2. ASSUME NEW c \in Consumers, Taken(c)' = s PROVE Past(Taken(c))'
  <2>1. Ordered(Taken(c)') /\ (\A p \in Producers : Before(Taken(c)', call'[p].items)) /\ UpTo(s)'
    BY <1>2
  <2>2. QED
    BY <1>2, <2>1 DEF Past, Ordered, UpTo, Before
<1> QED  BY <1>1, <1>2

LEMMA TakeKeepsOrder ==
  ASSUME OrderInv, NEW c \in Consumers, NEW n \in 1..Len(queue),
         UNCHANGED offered, \A p \in Producers : call'[p].items = call[p].items,
         queue' = Rest(queue, n), Taken(c)' = Taken(c) \o First(queue, n),
         \A d \in Consumers \ {c} : Taken(d)' = Taken(d)
  PROVE  OrderParts'
<1>1. /\ \A d \in Consumers : Taken(d) \in Seq(Item)
      /\ \A p \in Producers : call[p].items \in Seq(Item)
      /\ queue \in Seq(Item) /\ n \in 0..Len(queue)
  BY TakenType DEF OrderInv, ChannelInv
<1>2. PICK q \in Seq(Item), t \in Seq(Item) :
        /\ q = queue /\ t = Taken(c) /\ n \in 0..Len(q)
        /\ queue' = Rest(q, n) /\ Taken(c)' = t \o First(q, n)
  BY <1>1
<1>3. Past(q) /\ Past(t) /\ Before(t, q)
  BY <1>2 DEF OrderInv, OrderParts
<1>4. PICK f \in Seq(Item), r \in Seq(Item), new \in Seq(Item) :
        f = First(q, n) /\ r = Rest(q, n) /\ new = t \o f
  BY <1>2, CutOrder, Joining
<1>5. /\ Ordered(f) /\ Ordered(r) /\ Before(f, r) /\ UpTo(f) /\ UpTo(r)
      /\ Before(t, f) /\ Before(t, r)
      /\ \A w \in Seq(Item) : /\ Before(q, w) => Before(f, w) /\ Before(r, w)
                              /\ Before(w, q) => Before(w, f) /\ Before(w, r)
  BY <1>2, <1>3, <1>4, CutOrder DEF Past
<1>6. Past(r)
  BY <1>1, <1>3, <1>5 DEF Past
<1>7. Past(new)
  <2>1. Ordered(new) /\ UpTo(new)
    BY <1>3, <1>4, <1>5, JoinedOrder DEF Past
  <2>2. ASSUME NEW p \in Producers PROVE Before(new, call[p].items)
    BY <1>1, <1>3, <1>4, <1>5, JoinedOrder DEF Past
  <2>3. QED
    BY <2>1, <2>2 DEF Past
<1>8. Before(new, r)
  BY <1>4, <1>5, JoinedOrder
<1>9. ASSUME NEW d \in Consumers, d # c
      PROVE  /\ Past(Taken(d)) /\ Before(Taken(d), r)
             /\ Apart(new, Taken(d)) /\ Apart(Taken(d), new)
  <2>1. PICK u \in Seq(Item) : u = Taken(d)
    BY <1>1
  <2>2. Past(u) /\ Before(u, q) /\ Apart(t, u)
    BY <1>2, <1>9, <2>1 DEF OrderInv, OrderParts
  <2>3. Before(u, f) /\ Before(u, r)
    BY <1>5, <2>2
  <2>4. Apart(f, u)
    BY <2>3, ApartProperties
  <2>5. Apart(new, u) /\ Apart(u, new)
    BY <1>4, <2>2, <2>4, JoinedOrder, ApartProperties
  <2>6. QED
    BY <2>1, <2>2, <2>3, <2>5
<1>10. queue' = r /\ Taken(c)' = new
  BY <1>2, <1>4
<1>11. \A p \in Producers : ToInsert(p)'
  BY PastStays DEF OrderInv, OrderParts
<1>12. Past(queue)'
  BY <1>6, <1>10, PastStays, PastOf
<1>13. ASSUME NEW d \in Consumers PROVE (Past(Taken(d)) /\ Before(Taken(d), queue))'
  <2>1. PICK u \in Seq(Item) : u = Taken(d)' /\ Past(u) /\ Before(u, r)
    BY <1>1, <1>7, <1>8, <1>9, <1>10
  <2>2. QED
    BY <1>10, <2>1, PastStays, PastOf DEF Before
<1>14. ASSUME NEW d \in Consumers, NEW e \in Consumers, d # e PROVE Apart(Taken(d), Taken(e))'
  <2>1. Apart(Taken(d)', Taken(e)')
    BY <1>9, <1>10, <1>14 DEF OrderInv, OrderParts
  <2>2. QED
    BY <2>1 DEF Apart
<1> QED  BY <1>11, <1>12, <1>13, <1>14 DEF OrderParts

LEMMA ForfeitKeepsOrder ==
  ASSUME OrderInv, NEW c \in Consumers, NEW n \in 0..Len(Taken(c)),
         UNCHANGED offered, \A p \in Producers : call'[p].items = call[p].items,
         queue' \in {queue, <<>>}, Taken(c)' = First(Taken(c), n),
         \A d \in Consumers \ {c} : Taken(d)' = Taken(d)
  PROVE  OrderParts'
<1>1. /\ \A d \in Consumers : Taken(d) \in Seq(Item)
      /\ \A p \in Producers : call[p].items \in Seq(Item)
      /\ queue \in Seq(Item) /\ <<>> \in Seq(Item)
  BY TakenType, EmptySeq DEF OrderInv, ChannelInv
<1>2. PICK q \in Seq(Item) : /\ q = queue'
                             /\ Past(q)
                             /\ \A d \in Consumers : Before(Taken(d), q)
  BY <1>1, EmptyOrder DEF OrderInv, OrderParts, Past
<1>3. PICK t \in Seq(Item), new \in Seq(Item) : t = Taken(c) /\ new = First(t, n) /\ new = Taken(c)'
  BY <1>1, CutOrder
<1>4. Past(t) /\ Before(t, q) /\ n \in 0..Len(t)
  BY <1>2, <1>3 DEF OrderInv, OrderParts
<1>5. Past(new) /\ Before(new, q)
  BY <1>1, <1>3, <1>4, CutOrder DEF Past
<1>6. ASSUME NEW d \in Consumers, d # c PROVE Apart(new, Taken(d)) /\ Apart(Taken(d), new)
  <2>1. PICK u \in Seq(Item) : u = Taken(d)
    BY <1>1
  <2>2. Apart(t, u)
    BY <1>3, <1>6, <2>1 DEF OrderInv, OrderParts
  <2>3. Apart(new, u)
    BY <1>3, <1>4, <2>2, ApartProperties
  <2>4. QED
    BY <2>1, <2>3, ApartProperties
<1>7. \A p \in Producers : ToInsert(p)'
  BY PastStays DEF OrderInv, OrderParts
<1>8. Past(queue)'
  BY <1>2, PastStays, PastOf
<1>9. ASSUME NEW d \in Consumers PROVE (Past(Taken(d)) /\ Before(Taken(d), queue))'
  <2>1. PICK u \in Seq(Item) : u = Taken(d)' /\ Past(u) /\ Before(u, q)
    BY <1>1, <1>2, <1>3, <1>5 DEF OrderInv, OrderParts
  <2>2. QED
    BY <1>2, <2>1, PastStays, PastOf DEF Before
<1>10. ASSUME NEW d \in Consumers, NEW e \in Consumers, d # e PROVE Apart(Taken(d), Taken(e))'
  <2>1. Apart(Taken(d)', Taken(e)')
    BY <1>3, <1>6, <1>10 DEF OrderInv, OrderParts
  <2>2. QED
    BY <2>1 DEF Apart
<1> QED  BY <1>7, <1>8, <1>9, <1>10 DEF OrderParts

-----------------------------------------------------------------------------
(***************************************************************************)
(* The producers' side: items are offered, and enter the queue.            *)
(***************************************************************************)
LEMMA OfferedLast ==
  ASSUME TypeOK, NEW p \in Producers, NEW n \in Nat, NEW u \in Seq(Item),
         u = [i \in 1..n |-> <<p, offered[p] + i>>]
  PROVE  /\ Ordered(u) /\ Len(u) = n
         /\ \A i \in 1..Len(u) : u[i][1] = p /\ u[i][2] <= offered[p] + n
         /\ \A s \in Seq(Item) : UpTo(s) => Before(s, u)
<1>1. /\ Len(u) = n /\ offered[p] \in Nat
      /\ \A i \in 1..n : u[i][1] = p /\ u[i][2] = offered[p] + i
  BY OfferedItems DEF TypeOK
<1>2. Ordered(u)
  <2>1. \A i, j \in 1..Len(u) : i < j => u[i][2] < u[j][2]
    BY <1>1
  <2> QED  BY <2>1, OrderedByIndex
<1>3. \A i \in 1..Len(u) : u[i][1] = p /\ u[i][2] <= offered[p] + n
  BY <1>1
<1>4. ASSUME NEW s \in Seq(Item), UpTo(s) PROVE Before(s, u)
  <2>1. ASSUME NEW i \in 1..Len(s), NEW j \in 1..Len(u), s[i][1] = u[j][1]
        PROVE  s[i][2] < u[j][2]
    <3>1. s[i] \in Producers \X (Nat \ {0})
      BY ElementOfSeq DEF Item
    <3>2. s[i][2] \in Nat /\ s[i][2] <= offered[p] /\ u[j][2] = offered[p] + j /\ j \in 1..n
      BY <1>1, <1>4, <2>1, <3>1 DEF UpTo
    <3>3. QED
      BY <1>1, <3>2
  <2>2. QED
    BY <2>1 DEF Before
<1> QED  BY <1>1, <1>2, <1>3, <1>4

LEMMA OfferKeepsOrder ==
  ASSUME OrderInv, NEW p \in Producers, NEW n \in Nat, UNCHANGED queue,
         \A c \in Consumers : Taken(c)' = Taken(c),
         \A o \in Producers \ {p} : call'[o].items = call[o].items,
         call'[p].items = [i \in 1..n |-> <<p, offered[p] + i>>],
         offered' = [offered EXCEPT ![p] = @ + n]
  PROVE  OrderParts'
<1>1. /\ \A c \in Consumers : Taken(c) \in Seq(Item)
      /\ \A o \in Producers : call[o].items \in Seq(Item)
      /\ queue \in Seq(Item) /\ TypeOK
      /\ offered \in [Producers -> Nat]
  BY TakenType DEF OrderInv, ChannelInv, TypeOK
<1>2. PICK u \in Seq(Item) : u = [i \in 1..n |-> <<p, offered[p] + i>>] /\ u = call'[p].items
  BY <1>1, OfferedItems
<1>3. /\ Ordered(u) /\ \A i \in 1..Len(u) : u[i][1] = p /\ u[i][2] <= offered[p] + n
      /\ \A s \in Seq(Item) : UpTo(s) => Before(s, u)
  BY <1>1, <1>2, OfferedLast
<1>4. /\ \A o \in Producers : offered'[o] \in Nat /\ offered[o] \in Nat /\ offered[o] <= offered'[o]
      /\ offered'[p] = offered[p] + n
      /\ \A o \in Producers \ {p} : offered'[o] = offered[o]
  BY <1>1
<1>5. ASSUME NEW s \in Seq(Item), Past(s)
      PROVE  Ordered(s) /\ UpTo(s)' /\ \A o \in Producers : Before(s, call'[o].items)
  <2>1. Ordered(s) /\ UpTo(s) /\ \A o \in Producers : Before(s, call[o].items)
    BY <1>5 DEF Past
  <2>2. UpTo(s)'
    <3>1. ASSUME NEW i \in 1..Len(s) PROVE s[i][2] <= offered'[s[i][1]]
      <4>1. s[i] \in Producers \X (Nat \ {0})
        BY ElementOfSeq DEF Item
      <4>2. s[i][1] \in Producers /\ s[i][2] \in Nat /\ s[i][2] <= offered[s[i][1]]
        BY <2>1, <4>1 DEF UpTo
      <4>3. QED
        BY <1>4, <4>2
    <3>2. QED
      BY <3>1 DEF UpTo
  <2>3. \A o \in Producers : Before(s, call'[o].items)
    BY <1>2, <1>3, <2>1
  <2>4. QED
    BY <2>1, <2>2, <2>3
<1>6. ASSUME NEW o \in Producers PROVE ToInsert(o)'
  <2>1. CASE o = p
    <3>1. call'[o].items = u /\ offered'[o] = offered[p] + n /\ o = p
      BY <1>2, <1>4, <2>1
    <3>2. Ordered(call'[o].items)
      BY <1>3, <3>1
    <3>3. \A i \in 1..Len(call'[o].items) : call'[o].items[i][1] = o /\ call'[o].items[i][2] <= offered'[o]
      BY <1>3, <3>1
    <3>4. QED
      BY <3>2, <3>3 DEF ToInsert, Ordered
  <2>2. CASE o # p
    BY <1>4, <2>2 DEF ToInsert, Ordered, OrderInv, OrderParts
  <2>3. QED
    BY <2>1, <2>2
<1>7. Past(queue)'
  <2>1. PICK q \in Seq(Item) : q = queue' /\ Past(q)
    BY <1>1 DEF OrderInv, OrderParts
  <2>2. QED
    BY <1>5, <2>1, PastOf
<1>8. ASSUME NEW c \in Consumers PROVE (Past(Taken(c)) /\ Before(Taken(c), queue))'
  <2>1. PICK s \in Seq(Item) : s = Taken(c)' /\ Past(s) /\ Before(s, queue)
    BY <1>1 DEF OrderInv, OrderParts
  <2>2. QED
    BY <1>5, <2>1, PastOf DEF Before
<1>9. ASSUME NEW c \in Consumers, NEW d \in Consumers, c # d PROVE Apart(Taken(c), Taken(d))'
  BY <1>9 DEF OrderInv, OrderParts, Apart
<1> QED  BY <1>6, <1>7, <1>8, <1>9 DEF OrderParts

LEMMA PutKeepsOrder ==
  ASSUME OrderInv, NEW p \in Producers, NEW n \in 0..Len(call[p].items), UNCHANGED offered,
         \A c \in Consumers : Taken(c)' = Taken(c),
         \A o \in Producers \ {p} : call'[o].items = call[o].items,
         call'[p].items = Rest(call[p].items, n),
         queue' = queue \o First(call[p].items, n)
  PROVE  OrderParts'
<1>1. /\ \A c \in Consumers : Taken(c) \in Seq(Item)
      /\ \A o \in Producers : call[o].items \in Seq(Item)
      /\ queue \in Seq(Item)
  BY TakenType DEF OrderInv, ChannelInv
<1>2. PICK h \in Seq(Item), q \in Seq(Item) : h = call[p].items /\ q = queue /\ n \in 0..Len(h)
  BY <1>1
<1>3. PICK f \in Seq(Item), r \in Seq(Item), new \in Seq(Item) :
        /\ f = First(h, n) /\ r = Rest(h, n) /\ new = q \o f
        /\ call'[p].items = r /\ queue' = new
  BY <1>2, CutOrder, Joining
<1>4. /\ Ordered(h) /\ \A i \in 1..Len(h) : h[i][1] = p /\ h[i][2] <= offered[p]
  BY <1>2 DEF OrderInv, OrderParts, ToInsert
<1>5. UpTo(h)
  BY <1>4 DEF UpTo
<1>6. /\ Ordered(f) /\ Ordered(r) /\ Before(f, r) /\ UpTo(f)
      /\ \A w \in Seq(Item) : Before(w, h) => Before(w, f) /\ Before(w, r)
  BY <1>2, <1>3, <1>4, <1>5, CutOrder
<1>7. /\ \A i \in 1..Len(f) : f[i][1] = p
      /\ \A i \in 1..Len(r) : r[i][1] = p /\ r[i][2] <= offered[p]
  <2>1. Len(h) \in Nat /\ n \in Nat
    BY <1>2, LenProperties
  <2>2. /\ Len(f) = n /\ Len(r) = Len(h) - n
        /\ \A i \in 1..n : f[i] = h[i]
        /\ \A i \in 1..Len(h) - n : r[i] = h[n + i]
    <3>1. /\ Len(First(h, n)) = n /\ Len(Rest(h, n)) = Len(h) - n
          /\ \A i \in 1..n : First(h, n)[i] = h[i]
          /\ \A i \in 1..Len(h) - n : Rest(h, n)[i] = h[n + i]
      BY <1>2, Parts
    <3>2. QED
      BY <1>3, <3>1
  <2>3. \A i \in 1..n : i \in 1..Len(h)
    BY <1>2, <2>1
  <2>4. \A i \in 1..Len(h) - n : n + i \in 1..Len(h)
    BY <1>2, <2>1
  <2>5. QED
    BY <1>4, <2>2, <2>3, <2>4
<1>8. ASSUME NEW s \in Seq(Item), Past(s)
      PROVE  /\ Ordered(s) /\ UpTo(s)' /\ \A o \in Producers : Before(s, call'[o].items)
             /\ Before(s, f) /\ Before(s, r)
  <2>1. Before(s, f) /\ Before(s, r)
    BY <1>2, <1>6, <1>8 DEF Past
  <2>2. QED
    BY <1>3, <1>8, <2>1 DEF Past, UpTo
<1>9. Past(q)
  BY <1>2 DEF OrderInv, OrderParts
<1>10. Ordered(new) /\ UpTo(new)'
  <2>1. Ordered(new) /\ UpTo(new)
    BY <1>3, <1>6, <1>8, <1>9, JoinedOrder DEF Past
  <2>2. QED
    BY <2>1 DEF UpTo
<1>11. ASSUME NEW o \in Producers PROVE Before(new, call'[o].items)
  <2>1. PICK w \in Seq(Item) : w = call'[o].items /\ (o # p => w = call[o].items)
    BY <1>1, <1>3
  <2>2. Before(q, w)
    BY <1>8, <1>9, <2>1
  <2>3. Before(f, w)
    <3>1. CASE o = p
      BY <1>3, <1>6, <2>1, <3>1
    <3>2. CASE o # p
      <4>1. \A j \in 1..Len(w) : w[j][1] = o
        BY <2>1, <3>2 DEF OrderInv, OrderParts, ToInsert
      <4>2. QED
        BY <1>7, <3>2, <4>1 DEF Before
    <3>3. QED
      BY <3>1, <3>2
  <2>4. QED
    BY <1>3, <2>1, <2>2, <2>3, JoinedOrder
<1>12. ASSUME NEW o \in Producers PROVE ToInsert(o)'
  <2>1. CASE o = p
    <3>1. call'[o].items = r /\ offered'[o] = offered[p] /\ o = p
      BY <1>3, <2>1
    <3>2. Ordered(call'[o].items)
      BY <1>6, <3>1
    <3>3. \A i \in 1..Len(call'[o].items) : call'[o].items[i][1] = o /\ call'[o].items[i][2] <= offered'[o]
      BY <1>7, <3>1
    <3>4. QED
      BY <3>2, <3>3 DEF ToInsert, Ordered
  <2>2. CASE o # p
    BY <2>2 DEF ToInsert, Ordered, OrderInv, OrderParts
  <2>3. QED
    BY <2>1, <2>2
<1>13. Past(queue)'
  BY <1>3, <1>10, <1>11, PastOf
<1>14. ASSUME NEW c \in Consumers PROVE (Past(Taken(c)) /\ Before(Taken(c), queue))'
  <2>1. PICK s \in Seq(Item) : s = Taken(c)' /\ Past(s) /\ Before(s, q)
    BY <1>1, <1>2 DEF OrderInv, OrderParts
  <2>2. Before(s, new)
    BY <1>3, <1>8, <2>1, JoinedOrder
  <2>3. QED
    BY <1>3, <1>8, <2>1, <2>2, PastOf DEF Before
<1>15. ASSUME NEW c \in Consumers, NEW d \in Consumers, c # d PROVE Apart(Taken(c), Taken(d))'
  BY <1>15 DEF OrderInv, OrderParts, Apart
<1> QED  BY <1>12, <1>13, <1>14, <1>15 DEF OrderParts

-----------------------------------------------------------------------------
(***************************************************************************)
(* The steps of the queue are among those.                                 *)
(***************************************************************************)
LEMMA BeginKeepsOrder ==
  ASSUME OrderInv,
         \/ \E p \in Producers : BeginPush(p)
         \/ \E c \in Consumers : BeginPop(c)
         \/ BeginClose
  PROVE  OrderParts'
<1>1. CASE \E p \in Producers : BeginPush(p)
  <2>1. PICK p \in Producers, op \in PushOps, n \in 1..MaxBatch : Offer(p, op, n)
    BY <1>1, QueueAssumption DEF BeginPush, PushOps
  <2>2. /\ UNCHANGED <<queue, got>> /\ OnlyMoves(p)
        /\ call'[p].items = [i \in 1..n |-> <<p, offered[p] + i>>]
        /\ offered' = [offered EXCEPT ![p] = @ + n]
    BY <2>1, Disjoint DEF Offer, Begin, Goto, OrderInv, ChannelInv, TypeOK, OnlyMoves
  <2>3. \A c \in Consumers : Taken(c)' = Taken(c)
    BY <2>2, Disjoint DEF OnlyMoves, Taken
  <2>4. \A o \in Producers \ {p} : call'[o].items = call[o].items
    BY <2>2, Disjoint DEF OnlyMoves
  <2>5. n \in Nat
    BY QueueAssumption
  <2>6. QED
    BY <2>2, <2>3, <2>4, <2>5, OfferKeepsOrder
<1>2. CASE \E c \in Consumers : BeginPop(c)
  <2>1. PICK c \in Consumers, op \in PopOps, n \in 1..MaxBatch : Begin(c, op, n, <<>>) /\ UNCHANGED offered
    BY <1>2, QueueAssumption DEF BeginPop, PopOps, OneItemOps
  <2>2. /\ UNCHANGED <<queue, got>> /\ OnlyMoves(c) /\ call'[c].items = <<>> /\ pc[c] = "idle"
    BY <2>1, Disjoint DEF Begin, Goto, OrderInv, ChannelInv, TypeOK, OnlyMoves
  <2>3. call[c].items = <<>>
    BY <2>2 DEF OrderInv, ChannelInv, ConsumerHolds
  <2>4. \A d \in Consumers : Taken(d)' = Taken(d)
    BY <2>2, <2>3, Disjoint DEF OnlyMoves, Taken
  <2>5. \A p \in Producers : call'[p].items = call[p].items
    BY <2>2, Disjoint DEF OnlyMoves
  <2>6. QED
    BY <2>1, <2>2, <2>4, <2>5, ItemsStay
<1>3. CASE BeginClose
  <2>1. UNCHANGED <<queue, got, offered>> /\ OnlyMoves(Owner)
    BY <1>3, Disjoint DEF BeginClose, Begin, Goto, OrderInv, ChannelInv, TypeOK, OnlyMoves
  <2>2. \A c \in Consumers : Taken(c)' = Taken(c)
    BY <2>1, Disjoint DEF OnlyMoves, Taken
  <2>3. \A p \in Producers : call'[p].items = call[p].items
    BY <2>1, Disjoint DEF OnlyMoves
  <2>4. QED
    BY <2>1, <2>2, <2>3, ItemsStay
<1> QED  BY <1>1, <1>2, <1>3

LEMMA PushKeepsOrder ==
  ASSUME OrderInv, NEW p \in Producers, Push(p)
  PROVE  OrderParts'
<1>1. OnlyMoves(p) /\ UNCHANGED <<got, offered>>
  BY Disjoint DEF Push, PushFails, PushWaits, PushInserts, Return, Goto, OrderInv, ChannelInv, TypeOK,
     OnlyMoves
<1>2. \A c \in Consumers : Taken(c)' = Taken(c)
  BY <1>1, Disjoint DEF OnlyMoves, Taken
<1>3. \A o \in Producers \ {p} : call'[o].items = call[o].items
  BY <1>1, Disjoint DEF OnlyMoves
<1>4. CASE PushFails(p) \/ PushWaits(p)
  <2>1. queue' = queue /\ call'[p].items \in {call[p].items, <<>>}
    BY <1>4, Disjoint DEF PushFails, PushWaits, Return, NoCall, OrderInv, ChannelInv, TypeOK
  <2>2. QED
    BY <1>1, <1>2, <1>3, <2>1, ItemsStay
<1>5. CASE PushInserts(p)
  <2> DEFINE n == AtMost(Len(call[p].items), Room)
  <2>1. queue' = queue \o First(call[p].items, n) /\ call'[p].items = Rest(call[p].items, n)
    BY <1>5, Disjoint DEF PushInserts, OrderInv, ChannelInv, TypeOK, Call
  <2>2. n \in 0..Len(call[p].items)
    <3>1. Len(call[p].items) \in Nat /\ Room \in Nat
      BY TakenType, LenProperties, RoomType DEF OrderInv, ChannelInv
    <3>2. QED
      BY <3>1, AtMostProperties
  <2> HIDE DEF n
  <2>3. QED
    BY <1>1, <1>2, <1>3, <2>1, <2>2, PutKeepsOrder
<1> QED  BY <1>4, <1>5 DEF Push

\* What a step of the channel says of the items.
LEMMA ChannelKeepsOrder ==
  ASSUME OrderInv, NEW c \in Consumers, OnlyMoves(c), UNCHANGED offered,
         Channel!Take(c) \/ Channel!Forfeit(c) \/ UNCHANGED Channel!chan
  PROVE  OrderParts'
<1>1. \A p \in Producers : call'[p].items = call[p].items
  BY Disjoint DEF OnlyMoves
<1>2. \A d \in Consumers : Received[d] = Taken(d) /\ Received'[d] = Taken(d)'
  BY DEF Received
<1>3. CASE Channel!Take(c)
  <2>1. PICK n \in 1..Len(queue) : /\ queue' = Rest(queue, n)
                                   /\ Received' = [Received EXCEPT ![c] = @ \o First(queue, n)]
    BY <1>3 DEF Channel!Take, Received, First, Rest
  <2>2. Taken(c)' = Taken(c) \o First(queue, n) /\ \A d \in Consumers \ {c} : Taken(d)' = Taken(d)
    BY <1>2, <2>1 DEF Received
  <2>3. QED
    BY <1>1, <2>1, <2>2, TakeKeepsOrder
<1>4. CASE Channel!Forfeit(c)
  <2>1. PICK n \in 0..Len(Taken(c)) : /\ queue' \in {queue, <<>>}
                                      /\ Received' = [Received EXCEPT ![c] = First(@, n)]
    BY <1>4 DEF Channel!Forfeit, Received, First
  <2>2. Taken(c)' = First(Taken(c), n) /\ \A d \in Consumers \ {c} : Taken(d)' = Taken(d)
    BY <1>2, <2>1 DEF Received
  <2>3. QED
    BY <1>1, <2>1, <2>2, ForfeitKeepsOrder
<1>5. CASE UNCHANGED Channel!chan
  <2>1. queue' = queue /\ Received' = Received
    BY <1>5 DEF Channel!chan, Received
  <2>2. QED
    BY <1>1, <1>2, <2>1, ItemsStay
<1> QED  BY <1>3, <1>4, <1>5

LEMMA PopKeepsOrder ==
  ASSUME OrderInv, TypeOK', CallsWellFormed', NEW c \in Consumers, Pop(c) \/ Timeout(c)
  PROVE  OrderParts'
<1>1. OnlyMoves(c) /\ UNCHANGED offered
  BY PopMoves DEF OrderInv, Pop, PopCompletes, PopTakesSome, PopFindsNothing, TryPop, Front, Timeout
<1>2. Channel!Take(c) \/ Channel!Forfeit(c) \/ UNCHANGED Channel!chan
  BY PopCompletesTakes, PopTakesSomeTakes, PopFindsNothingGivesUp, TryPopTakes, FrontStutters
     DEF Pop, OrderInv
<1> QED  BY <1>1, <1>2, ChannelKeepsOrder

\* Closing, resizing and notifying.
LEMMA OthersKeepOrder ==
  ASSUME OrderInv,
         \/ Close
         \/ \E size \in Sizes : SetMaxSize(size)
         \/ \E t \in Threads : NotifyOne(t) \/ NotifyAll(t) \/ SpuriousWake(t)
         \/ UNCHANGED vars
  PROVE  OrderParts'
<1>1. /\ UNCHANGED <<queue, got, offered>>
      /\ \A u \in Threads : \/ call'[u] = call[u]
                            \/ pc[u] \notin {"enter", "wait_empty"} /\ call'[u] = NoCall
  <2>1. CASE UNCHANGED <<queue, got, offered, call>>
    BY <2>1
  <2>2. ASSUME NEW t \in Threads, NotifyOne(t) \/ NotifyAll(t)
        PROVE  /\ UNCHANGED <<queue, got, offered>>
               /\ \A u \in Threads : \/ call'[u] = call[u]
                                     \/ pc[u] \notin {"enter", "wait_empty"} /\ call'[u] = NoCall
    BY <2>2, NotifyMoves DEF Finish, OrderInv, ChannelInv, TypeOK
  <2>3. QED
    BY <2>1, <2>2 DEF Close, SetMaxSize, SpuriousWake, vars
<1>2. ASSUME NEW c \in Consumers PROVE Taken(c)' = Taken(c)
  <2>1. pc[c] \notin {"enter", "wait_empty"} => call[c].items = <<>>
    BY DEF OrderInv, ChannelInv, ConsumerHolds
  <2>2. NoCall.items = <<>>
    BY DEF NoCall
  <2>3. call'[c].items = call[c].items
    BY <1>1, <2>1, <2>2, Disjoint
  <2>4. QED
    BY <1>1, <2>3 DEF Taken
<1>3. \A p \in Producers : call'[p].items \in {call[p].items, <<>>}
  BY <1>1, Disjoint DEF NoCall
<1> QED  BY <1>1, <1>2, <1>3, ItemsStay

LEMMA OrderNext == OrderInv /\ [Next]_vars => OrderInv'
<1> SUFFICES ASSUME OrderInv, [Next]_vars PROVE OrderInv'
  OBVIOUS
<1>1. ChannelInv' /\ TypeOK' /\ CallsWellFormed'
  BY StepImplements DEF OrderInv, ChannelInv
<1>2. OrderParts'
  BY <1>1, BeginKeepsOrder, PushKeepsOrder, PopKeepsOrder, OthersKeepOrder DEF Next, Step
<1> QED  BY <1>1, <1>2 DEF OrderInv

LEMMA OrderEnough == OrderInv => InOrderExactlyOnce
<1> SUFFICES ASSUME OrderInv PROVE InOrderExactlyOnce
  OBVIOUS
<1>1. /\ queue \in Seq(Item) /\ \A c \in Consumers : Taken(c) \in Seq(Item)
  BY TakenType DEF OrderInv, ChannelInv
<1>2. Ordered(queue) /\ \A c \in Consumers : Ordered(Taken(c))
  BY DEF OrderInv, OrderParts, Past
<1>3. ASSUME NEW s \in Seq(Item), NEW u \in Seq(Item), Apart(s, u) PROVE ItemsOf(s) \cap ItemsOf(u) = {}
  <2>1. DOMAIN s = 1..Len(s) /\ DOMAIN u = 1..Len(u)
    BY LenProperties
  <2>2. QED
    BY <1>3, <2>1 DEF Apart, ItemsOf
<1>4. \A c \in Consumers : ItemsOf(Taken(c)) \cap ItemsOf(queue) = {}
  BY <1>1, <1>3, ApartProperties DEF OrderInv, OrderParts
<1>5. \A c \in Consumers : \A d \in Consumers \ {c} : ItemsOf(Taken(c)) \cap ItemsOf(Taken(d)) = {}
  BY <1>1, <1>3 DEF OrderInv, OrderParts
<1> QED  BY <1>2, <1>4, <1>5 DEF InOrderExactlyOnce

(***************************************************************************)
(* No item is delivered twice, or delivered and still queued, and each     *)
(* consumer gets what one producer pushed in the order in which it was     *)
(* pushed, whatever other threads do between the chunks of a range.        *)
(***************************************************************************)
THEOREM EachItemOnceInOrder == Spec => []InOrderExactlyOnce
<1>1. Init => OrderInv
  BY HoldsInit, OrderInit DEF OrderInv
<1>2. OrderInv /\ [Next]_vars => OrderInv'
  BY OrderNext
<1>3. OrderInv => InOrderExactlyOnce
  BY OrderEnough
<1> QED  BY <1>1, <1>2, <1>3, PTL DEF Spec
=============================================================================
