----------------------------- MODULE SpscRingQueue -----------------------------
(***************************************************************************)
(* SpscRingQueue<T>: a ring of `Capacity' places between one producer and  *)
(* one consumer, without a lock.  Every load and store of an index or of   *)
(* the size is a step of its own; so is the access to a place, which is    *)
(* plain memory.  pop() gives the place back before it moves the item out  *)
(* of it, so the producer of a full ring may write the place first.        *)
(***************************************************************************)
EXTENDS Naturals, Sequences, SequencesExt

CONSTANTS
  Capacity,    \* m_capacity
  MaxPushes    \* bound: how many items the producer offers

ASSUME SpscAssumption == Capacity \in Nat \ {0} /\ MaxPushes \in Nat

Items == 1..MaxPushes    \* items are numbered in the order they are offered
Unset == 0               \* what a place holds before an item and once it was moved out

Places == 0..(Capacity - 1)

VARIABLES
  m_data,          \* the places
  m_head_index,    \* where the producer writes next
  m_tail_index,    \* where the consumer reads next
  m_current_size,  \* how many items the ring counts
  producer,        \* where the producer is in push()
  consumer,        \* where the consumer is in pop()
  accepted,        \* items written, in order (history)
  received,        \* what pop() moved out, in order (history)
  everFull         \* whether every place has held an item not yet moved out (history)

spscVars == <<m_data, m_head_index, m_tail_index, m_current_size, producer, consumer,
              accepted, received, everFull>>

\* The producer: idle, or past is_full() with an item to write, or with it written.
\* The consumer: `wanted' items still to take for the call under way, and the place it
\* is about to read.
SpscInit ==
  /\ m_data = [i \in Places |-> Unset]
  /\ m_head_index = 0 /\ m_tail_index = 0 /\ m_current_size = 0
  /\ producer = [at |-> "idle", item |-> 0]
  /\ consumer = [at |-> "idle", place |-> 0, wanted |-> 0]
  /\ accepted = <<>> /\ received = <<>> /\ everFull = FALSE

After(index) == IF index + 1 = Capacity THEN 0 ELSE index + 1

-----------------------------------------------------------------------------
\* push, is_full: a full ring drops the item.
PushChecks ==
  /\ producer.at = "idle" /\ producer.item < MaxPushes
  /\ producer' = [at |-> IF m_current_size = Capacity THEN "idle" ELSE "write",
                  item |-> producer.item + 1]
  /\ UNCHANGED <<m_data, m_head_index, m_tail_index, m_current_size, consumer, accepted,
                 received, everFull>>

PushWrites ==
  /\ producer.at = "write"
  /\ m_data' = [m_data EXCEPT ![m_head_index] = producer.item]
  /\ accepted' = Append(accepted, producer.item)
  /\ everFull' = (everFull \/ Len(accepted') - Len(received) >= Capacity)
  /\ producer' = [producer EXCEPT !.at = "advance"]
  /\ UNCHANGED <<m_head_index, m_tail_index, m_current_size, consumer, received>>

PushAdvances ==
  /\ producer.at = "advance"
  /\ m_head_index' = After(m_head_index)
  /\ producer' = [producer EXCEPT !.at = "count"]
  /\ UNCHANGED <<m_data, m_tail_index, m_current_size, consumer, accepted, received,
                 everFull>>

PushCounts ==
  /\ producer.at = "count"
  /\ m_current_size' = m_current_size + 1
  /\ producer' = [producer EXCEPT !.at = "idle"]
  /\ UNCHANGED <<m_data, m_head_index, m_tail_index, consumer, accepted, received,
                 everFull>>

-----------------------------------------------------------------------------
\* The caller asks for n items: pop() asks for one.
PopBegins(n) ==
  /\ consumer.at = "idle"
  /\ consumer' = [consumer EXCEPT !.at = "check", !.wanted = n]
  /\ UNCHANGED <<m_data, m_head_index, m_tail_index, m_current_size, producer, accepted,
                 received, everFull>>

\* pop, is_empty: an empty ring ends the call, pop(nums) with less than was asked for.
PopChecks ==
  /\ consumer.at = "check"
  /\ consumer' = IF m_current_size = 0
                 THEN [consumer EXCEPT !.at = "idle"]
                 ELSE [consumer EXCEPT !.at = "advance", !.place = m_tail_index]
  /\ UNCHANGED <<m_data, m_head_index, m_tail_index, m_current_size, producer, accepted,
                 received, everFull>>

PopAdvances ==
  /\ consumer.at = "advance"
  /\ m_tail_index' = After(consumer.place)
  /\ consumer' = [consumer EXCEPT !.at = "count"]
  /\ UNCHANGED <<m_data, m_head_index, m_current_size, producer, accepted, received,
                 everFull>>

PopCounts ==
  /\ consumer.at = "count"
  /\ m_current_size' = m_current_size - 1
  /\ consumer' = [consumer EXCEPT !.at = "read"]
  /\ UNCHANGED <<m_data, m_head_index, m_tail_index, producer, accepted, received,
                 everFull>>

\* A slip: the place read is the one the tail has moved on to.
PopReads_AfterTail ==
  /\ consumer.at = "read"
  /\ received' = Append(received, m_data[m_tail_index])
  /\ consumer' = [consumer EXCEPT !.at = IF consumer.wanted = 1 THEN "idle" ELSE "check",
                                  !.wanted = @ - 1]
  /\ m_data' = [m_data EXCEPT ![consumer.place] = Unset]
  /\ UNCHANGED <<m_head_index, m_tail_index, m_current_size, producer, accepted, everFull>>

\* return std::move(m_data[current]); pop(nums) goes on to its next item.
PopReads ==
  /\ consumer.at = "read"
  /\ received' = Append(received, m_data[consumer.place])
  /\ consumer' = [consumer EXCEPT !.at = IF consumer.wanted = 1 THEN "idle" ELSE "check",
                                  !.wanted = @ - 1]
  /\ m_data' = [m_data EXCEPT ![consumer.place] = Unset]
  /\ UNCHANGED <<m_head_index, m_tail_index, m_current_size, producer, accepted, everFull>>

SpscNext ==
  \/ PushChecks \/ PushWrites \/ PushAdvances \/ PushCounts
  \/ \E n \in 1..2 : PopBegins(n)
  \/ PopChecks \/ PopAdvances \/ PopCounts \/ PopReads

SpscSpec == SpscInit /\ [][SpscNext]_spscVars

-----------------------------------------------------------------------------
\* As long as some place is free of items not yet moved out, pop() moves out exactly
\* what push() wrote, in order and once.  Once there was none, l.60 may read what the
\* producer has already written for the next round (spsc_ring_queue.hpp, pop); but the
\* consumer never falls a whole round behind and no item is handed out twice: what is
\* read for the n-th time is the n-th item, or the item of the next round that took its
\* place, or nothing if that happened a round before and the item is gone.
HandsOutInOrder ==
  /\ ~everFull => IsPrefix(received, accepted)
  /\ \A n \in DOMAIN received :
       \/ received[n] \in {accepted[k] : k \in DOMAIN accepted \cap {n, n + Capacity}}
       \/ /\ received[n] = Unset /\ n > Capacity
          /\ received[n - Capacity] = accepted[n]
=============================================================================
