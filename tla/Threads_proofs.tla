---------------------------- MODULE Threads_proofs ----------------------------
(***************************************************************************)
(* The parts that threads share, one after the other, each for every value *)
(* of its constants: the ring hands out what was put into it, the timer    *)
(* runs callbacks in order and as often as asked, the logger's stop leaves *)
(* nothing unwritten that was queued in time.  Each has an inductive       *)
(* invariant of its own; they have no state in common.                     *)
(***************************************************************************)
EXTENDS SpscRingQueue, TimerManager, AsyncLogger, WellFoundedInduction, TLAPS

-----------------------------------------------------------------------------
(* The ring.                                                               *)

Written == Len(accepted)
Moved   == Len(received)

\* The place that is `steps' after another, at most three rounds on.
Wrap(steps) == IF steps < Capacity THEN steps
               ELSE IF steps < 2 * Capacity THEN steps - Capacity ELSE steps - 2 * Capacity

\* The place of the next item to be moved out, and that of the n-th.
NextPlace == IF consumer.at \in {"advance", "count", "read"} THEN consumer.place ELSE m_tail_index
PlaceOf(n) == Wrap(NextPlace + (n - Moved - 1))

RingTypeOK ==
  /\ m_data \in [Places -> Items \cup {Unset}]
  /\ m_head_index \in Places /\ m_tail_index \in Places /\ m_current_size \in 0..Capacity
  /\ producer \in [at : {"idle", "write", "advance", "count"}, item : 0..MaxPushes]
  /\ consumer \in [at : {"idle", "check", "advance", "count", "read"}, place : Places,
                    wanted : Int]
  /\ accepted \in Seq(Items) /\ received \in Seq(Items \cup {Unset})
  /\ everFull \in BOOLEAN

Uncounted == IF producer.at \in {"advance", "count"} THEN 1 ELSE 0
Behind    == IF producer.at = "advance" THEN 1 ELSE 0
GivenBack == IF consumer.at = "read" THEN 1 ELSE 0

\* The size counts what is written and not moved out, each side late by one at most.
SizeCounts ==
  /\ m_current_size = Written - Uncounted - Moved - GivenBack
  /\ producer.at = "write" => producer.item \in Items
  /\ producer.at # "idle" => m_current_size < Capacity
  /\ consumer.at \in {"advance", "count"} => m_current_size > 0

\* The two indices.
IndicesFollow ==
  /\ consumer.at = "advance" => consumer.place = m_tail_index
  /\ consumer.at \in {"count", "read"} => m_tail_index = After(consumer.place)
  /\ m_head_index = Wrap(NextPlace + (Written - Moved - Behind))

\* Items are in their places, but for the first when a round later one was written over
\* it, and one that was moved out a round too early.
PlacesHold ==
  \A n \in (Moved + 1)..Written :
    IF n + Capacity <= Written THEN m_data[PlaceOf(n)] = accepted[n + Capacity]
    ELSE \/ m_data[PlaceOf(n)] = accepted[n]
         \/ /\ m_data[PlaceOf(n)] = Unset /\ n > Capacity
            /\ received[n - Capacity] = accepted[n]

MovedOut ==
  \A n \in 1..Moved :
    \/ received[n] = accepted[n]
    \/ n + Capacity <= Written /\ received[n] = accepted[n + Capacity]
    \/ received[n] = Unset /\ n > Capacity /\ received[n - Capacity] = accepted[n]

\* Nothing of that happens as long as a place is free.
InOrderUntilFull ==
  ~everFull =>
    /\ Written - Moved < Capacity
    /\ \A n \in 1..Moved : received[n] = accepted[n]
    /\ \A n \in (Moved + 1)..Written : m_data[PlaceOf(n)] = accepted[n]

RingInv ==
  /\ RingTypeOK /\ SizeCounts /\ IndicesFollow
  /\ PlacesHold /\ MovedOut /\ InOrderUntilFull

-----------------------------------------------------------------------------
LEMMA Rounds ==
  /\ Capacity \in Nat /\ Capacity > 0
  /\ \A x \in 0..(3 * Capacity - 1) : Wrap(x) \in Places
  /\ \A x \in 0..(3 * Capacity - 2) : Wrap(x + 1) = After(Wrap(x))
  /\ \A x \in 0..(2 * Capacity - 1) : Wrap(x + Capacity) = Wrap(x)
  /\ \A x, y \in 0..(3 * Capacity - 1) : x < y /\ y - x < Capacity => Wrap(x) # Wrap(y)
  /\ \A i \in Places : Wrap(i) = i /\ After(i) \in Places
  /\ \A i \in Places, k \in 0..(2 * Capacity - 1) : Wrap(After(i) + k) = Wrap(i + (k + 1))
BY SpscAssumption DEF Wrap, After, Places

LEMMA RingInit == SpscInit => RingInv
<1>1. SUFFICES ASSUME SpscInit PROVE RingInv
  OBVIOUS
<1>2. Written = 0 /\ Moved = 0 /\ NextPlace = 0 /\ 0 \in Places
  BY <1>1, SpscAssumption DEF SpscInit, Written, Moved, NextPlace, Places
<1>3. RingTypeOK
  BY <1>1, <1>2, SpscAssumption DEF SpscInit, RingTypeOK
<1>4. SizeCounts
  <2>1. Uncounted = 0 /\ GivenBack = 0 /\ producer.at = "idle" /\ consumer.at = "idle"
    BY <1>1 DEF SpscInit, Uncounted, GivenBack
  <2> QED  BY <1>1, <1>2, <2>1 DEF SpscInit, SizeCounts
<1>6. IndicesFollow
  <2>1. Wrap(0) = 0 /\ Behind = 0
    BY <1>1, <1>2, Rounds DEF SpscInit, Behind
  <2> QED  BY <1>1, <1>2, <2>1 DEF SpscInit, IndicesFollow
<1>5. PlacesHold /\ MovedOut /\ InOrderUntilFull
  BY <1>1, <1>2, SpscAssumption DEF SpscInit, PlacesHold, MovedOut, InOrderUntilFull
<1> QED  BY <1>3, <1>4, <1>5, <1>6 DEF RingInv

LEMMA RingLengths ==
  ASSUME RingInv
  PROVE  /\ Written \in Nat /\ Moved \in Nat /\ Capacity \in Nat /\ Capacity > 0
         /\ DOMAIN accepted = 1..Written /\ DOMAIN received = 1..Moved
         /\ NextPlace \in Places /\ Uncounted \in {0, 1} /\ Behind \in {0, 1} /\ GivenBack \in {0, 1}
         /\ m_current_size \in 0..Capacity
<1>1. Written \in Nat /\ Moved \in Nat /\ DOMAIN accepted = 1..Written /\ DOMAIN received = 1..Moved
  BY DEF RingInv, RingTypeOK, Written, Moved
<1> QED  BY <1>1, SpscAssumption DEF RingInv, RingTypeOK, NextPlace, Uncounted, Behind, GivenBack

\* How far each side can be ahead of the other.
LEMMA RingBounds ==
  ASSUME RingInv
  PROVE  /\ Moved + GivenBack + Uncounted <= Written
         /\ Written - Moved <= Capacity + GivenBack
         /\ producer.at = "write" => Written - Moved <= Capacity
         /\ consumer.at = "advance" => Moved < Written
         /\ consumer.at = "read" => Moved < Written
<1>1. /\ Written \in Nat /\ Moved \in Nat /\ Capacity \in Nat /\ Capacity > 0
      /\ Uncounted \in {0, 1} /\ GivenBack \in {0, 1} /\ m_current_size \in 0..Capacity
  BY RingLengths
<1>2. /\ m_current_size = Written - Uncounted - Moved - GivenBack
      /\ producer.at # "idle" => m_current_size < Capacity
      /\ consumer.at \in {"advance", "count"} => m_current_size > 0
  BY DEF RingInv, SizeCounts
<1>3. /\ Uncounted = 1 => producer.at # "idle"
      /\ consumer.at = "read" => GivenBack = 1
      /\ producer.at = "write" => Uncounted = 0
  BY DEF Uncounted, GivenBack
<1> QED  BY <1>1, <1>2, <1>3

\* A step that moves no item and keeps the place of the next.
LEMMA ItemsStay ==
  ASSUME RingInv, UNCHANGED <<m_data, accepted, received, everFull>>, NextPlace' = NextPlace
  PROVE  PlacesHold' /\ MovedOut' /\ InOrderUntilFull' /\ Written' = Written /\ Moved' = Moved
<1>1. Written' = Written /\ Moved' = Moved
  BY DEF Written, Moved
<1>2. \A n : PlaceOf(n)' = PlaceOf(n)
  BY <1>1 DEF PlaceOf
<1>3. PlacesHold'
  BY <1>1, <1>2 DEF RingInv, PlacesHold
<1>4. MovedOut'
  BY <1>1 DEF RingInv, MovedOut
<1>5. InOrderUntilFull'
  BY <1>1, <1>2 DEF RingInv, InOrderUntilFull
<1> QED  BY <1>1, <1>3, <1>4, <1>5

LEMMA PushChecksKeeps ==
  ASSUME RingInv, PushChecks
  PROVE  RingInv'
<1>1. PICK at \in {"idle", "write"} :
        /\ producer' = [at |-> at, item |-> producer.item + 1]
        /\ at = "write" => m_current_size # Capacity
  <2>1. CASE m_current_size = Capacity
    BY <2>1 DEF PushChecks
  <2>2. CASE m_current_size # Capacity
    BY <2>2 DEF PushChecks
  <2> QED  BY <2>1, <2>2
<1>2. /\ producer.at = "idle" /\ producer.item + 1 \in Items /\ producer.item + 1 \in 0..MaxPushes
      /\ UNCHANGED <<m_data, m_head_index, m_tail_index, m_current_size, consumer, accepted,
                     received, everFull>>
  BY SpscAssumption DEF PushChecks, RingInv, RingTypeOK, Items
<1>3. producer'.at = at /\ producer'.item = producer.item + 1
  BY <1>1
<1>4. RingTypeOK'
  BY <1>1, <1>2 DEF RingInv, RingTypeOK
<1>5. NextPlace' = NextPlace /\ GivenBack' = GivenBack /\ Uncounted' = Uncounted /\ Behind' = Behind
  BY <1>2, <1>3 DEF NextPlace, GivenBack, Uncounted, Behind
<1>6. PlacesHold' /\ MovedOut' /\ InOrderUntilFull' /\ Written' = Written /\ Moved' = Moved
  BY <1>2, <1>5, ItemsStay
<1>7. SizeCounts'
  BY <1>1, <1>2, <1>3, <1>5, <1>6, RingLengths DEF RingInv, SizeCounts
<1>8. IndicesFollow'
  BY <1>2, <1>5, <1>6 DEF RingInv, IndicesFollow
<1> QED  BY <1>4, <1>6, <1>7, <1>8 DEF RingInv

LEMMA PushAdvancesKeeps ==
  ASSUME RingInv, PushAdvances
  PROVE  RingInv'
<1>1. /\ producer.at = "advance" /\ producer' = [producer EXCEPT !.at = "count"]
      /\ m_head_index' = After(m_head_index)
      /\ UNCHANGED <<m_data, m_tail_index, m_current_size, consumer, accepted, received, everFull>>
  BY DEF PushAdvances
<1>2. producer'.at = "count" /\ producer'.item = producer.item
      /\ producer' \in [at : {"idle", "write", "advance", "count"}, item : 0..MaxPushes]
  BY <1>1 DEF RingInv, RingTypeOK
<1>3. NextPlace' = NextPlace /\ GivenBack' = GivenBack /\ Uncounted' = Uncounted /\ Behind' = 0 /\ Behind = 1 /\ Uncounted = 1
  BY <1>1, <1>2 DEF NextPlace, GivenBack, Uncounted, Behind
<1>4. PlacesHold' /\ MovedOut' /\ InOrderUntilFull' /\ Written' = Written /\ Moved' = Moved
  BY <1>1, <1>3, ItemsStay
<1>5. m_head_index' = Wrap(NextPlace + (Written - Moved))
  <2>1. /\ m_head_index = Wrap(NextPlace + (Written - Moved - 1))
        /\ NextPlace \in 0..(Capacity - 1) /\ Written - Moved \in 1..(Capacity + 1)
        /\ Capacity \in Nat /\ Capacity > 0
    BY <1>3, RingLengths, RingBounds DEF RingInv, IndicesFollow, Places
  <2>2. PICK x \in 0..(3 * Capacity - 2) : x = NextPlace + (Written - Moved - 1)
    BY <2>1
  <2>3. Wrap(x + 1) = After(Wrap(x)) /\ x + 1 = NextPlace + (Written - Moved)
    BY <2>1, <2>2, Rounds
  <2> QED  BY <1>1, <2>1, <2>2, <2>3
<1>6. IndicesFollow'
  <2>1. Written' - Moved' - Behind' = Written - Moved
    BY <1>3, <1>4, RingLengths
  <2>2. m_head_index' = Wrap(NextPlace' + (Written' - Moved' - Behind'))
    BY <1>3, <1>5, <2>1
  <2> QED  BY <1>1, <2>2 DEF RingInv, IndicesFollow
<1>7. SizeCounts'
  BY <1>1, <1>2, <1>3, <1>4, RingLengths DEF RingInv, SizeCounts
<1>8. RingTypeOK'
  BY <1>1, <1>2, Rounds DEF RingInv, RingTypeOK
<1> QED  BY <1>4, <1>6, <1>7, <1>8 DEF RingInv

LEMMA PushCountsKeeps ==
  ASSUME RingInv, PushCounts
  PROVE  RingInv'
<1>1. /\ producer.at = "count" /\ producer' = [producer EXCEPT !.at = "idle"]
      /\ m_current_size' = m_current_size + 1
      /\ UNCHANGED <<m_data, m_head_index, m_tail_index, consumer, accepted, received, everFull>>
  BY DEF PushCounts
<1>2. producer'.at = "idle" /\ producer'.item = producer.item
      /\ producer' \in [at : {"idle", "write", "advance", "count"}, item : 0..MaxPushes]
  BY <1>1 DEF RingInv, RingTypeOK
<1>3. NextPlace' = NextPlace /\ GivenBack' = GivenBack /\ Uncounted' = 0 /\ Behind' = Behind /\ Uncounted = 1
  BY <1>1, <1>2 DEF NextPlace, GivenBack, Uncounted, Behind
<1>4. PlacesHold' /\ MovedOut' /\ InOrderUntilFull' /\ Written' = Written /\ Moved' = Moved
  BY <1>1, <1>3, ItemsStay
<1>5. m_current_size < Capacity
  BY <1>1 DEF RingInv, SizeCounts
<1>6. SizeCounts' /\ m_current_size' \in 0..Capacity
  BY <1>1, <1>2, <1>3, <1>4, <1>5, RingLengths DEF RingInv, SizeCounts
<1>7. IndicesFollow'
  BY <1>1, <1>3, <1>4 DEF RingInv, IndicesFollow
<1>8. RingTypeOK'
  BY <1>1, <1>2, <1>6 DEF RingInv, RingTypeOK
<1> QED  BY <1>4, <1>6, <1>7, <1>8 DEF RingInv

\* Where the consumer goes.
ConsumerOf == [at : {"idle", "check", "advance", "count", "read"}, place : Places, wanted : Int]

LEMMA PopBeginsKeeps ==
  ASSUME RingInv, NEW n \in 1..2, PopBegins(n)
  PROVE  RingInv'
<1>1. /\ consumer.at = "idle"
      /\ consumer' = [consumer EXCEPT !.at = "check", !.wanted = n]
      /\ UNCHANGED <<m_data, m_head_index, m_tail_index, m_current_size, producer, accepted,
                     received, everFull>>
  BY DEF PopBegins
<1>2. consumer' = [at |-> "check", place |-> consumer.place, wanted |-> n]
  BY <1>1 DEF RingInv, RingTypeOK
<1>3. consumer'.at = "check" /\ consumer' \in ConsumerOf
  BY <1>2 DEF RingInv, RingTypeOK, ConsumerOf
<1>4. NextPlace' = NextPlace /\ GivenBack' = GivenBack /\ Uncounted' = Uncounted /\ Behind' = Behind
  BY <1>1, <1>3 DEF NextPlace, GivenBack, Uncounted, Behind
<1>5. PlacesHold' /\ MovedOut' /\ InOrderUntilFull' /\ Written' = Written /\ Moved' = Moved
  BY <1>1, <1>4, ItemsStay
<1>6. SizeCounts'
  BY <1>1, <1>3, <1>4, <1>5 DEF RingInv, SizeCounts
<1>7. IndicesFollow'
  BY <1>1, <1>3, <1>4, <1>5 DEF RingInv, IndicesFollow
<1>8. RingTypeOK'
  BY <1>1, <1>3 DEF RingInv, RingTypeOK, ConsumerOf
<1> QED  BY <1>5, <1>6, <1>7, <1>8 DEF RingInv

LEMMA PopChecksKeeps ==
  ASSUME RingInv, PopChecks
  PROVE  RingInv'
<1>1. /\ consumer.at = "check"
      /\ UNCHANGED <<m_data, m_head_index, m_tail_index, m_current_size, producer, accepted,
                     received, everFull>>
  BY DEF PopChecks
<1>2. \/ consumer'.at = "idle" /\ consumer' \in ConsumerOf
      \/ /\ consumer'.at = "advance" /\ consumer' \in ConsumerOf /\ consumer'.place = m_tail_index
         /\ m_current_size > 0
  <2>1. CASE m_current_size = 0
    <3>1. consumer' = [consumer EXCEPT !.at = "idle"]
      BY <2>1 DEF PopChecks
    <3> QED  BY <3>1 DEF RingInv, RingTypeOK, ConsumerOf
  <2>2. CASE m_current_size # 0
    <3>1. consumer' = [consumer EXCEPT !.at = "advance", !.place = m_tail_index]
      BY <2>2 DEF PopChecks
    <3>2. consumer' = [at |-> "advance", place |-> m_tail_index, wanted |-> consumer.wanted]
      BY <3>1 DEF RingInv, RingTypeOK
    <3> QED  BY <2>2, <3>2, RingLengths DEF RingInv, RingTypeOK, ConsumerOf
  <2> QED  BY <2>1, <2>2
<1>3. NextPlace' = NextPlace /\ GivenBack' = GivenBack /\ Uncounted' = Uncounted /\ Behind' = Behind
  BY <1>1, <1>2 DEF NextPlace, GivenBack, Uncounted, Behind
<1>4. PlacesHold' /\ MovedOut' /\ InOrderUntilFull' /\ Written' = Written /\ Moved' = Moved
  BY <1>1, <1>3, ItemsStay
<1>5. SizeCounts'
  BY <1>1, <1>2, <1>3, <1>4 DEF RingInv, SizeCounts
<1>6. IndicesFollow'
  BY <1>1, <1>2, <1>3, <1>4 DEF RingInv, IndicesFollow
<1>7. RingTypeOK'
  BY <1>1, <1>2 DEF RingInv, RingTypeOK, ConsumerOf
<1> QED  BY <1>4, <1>5, <1>6, <1>7 DEF RingInv

LEMMA PopAdvancesKeeps ==
  ASSUME RingInv, PopAdvances
  PROVE  RingInv'
<1>1. /\ consumer.at = "advance" /\ consumer' = [consumer EXCEPT !.at = "count"]
      /\ m_tail_index' = After(consumer.place)
      /\ UNCHANGED <<m_data, m_head_index, m_current_size, producer, accepted, received, everFull>>
  BY DEF PopAdvances
<1>2. consumer'.at = "count" /\ consumer' \in ConsumerOf /\ consumer'.place = consumer.place
      /\ consumer.place \in Places
  BY <1>1 DEF RingInv, RingTypeOK, ConsumerOf
<1>3. NextPlace' = NextPlace /\ GivenBack' = GivenBack /\ Uncounted' = Uncounted /\ Behind' = Behind
  BY <1>1, <1>2 DEF NextPlace, GivenBack, Uncounted, Behind
<1>4. PlacesHold' /\ MovedOut' /\ InOrderUntilFull' /\ Written' = Written /\ Moved' = Moved
  BY <1>1, <1>3, ItemsStay
<1>5. SizeCounts'
  BY <1>1, <1>2, <1>3, <1>4 DEF RingInv, SizeCounts
<1>6. IndicesFollow'
  BY <1>1, <1>2, <1>3, <1>4 DEF RingInv, IndicesFollow, After
<1>7. RingTypeOK'
  BY <1>1, <1>2, Rounds DEF RingInv, RingTypeOK, ConsumerOf
<1> QED  BY <1>4, <1>5, <1>6, <1>7 DEF RingInv

LEMMA PopCountsKeeps ==
  ASSUME RingInv, PopCounts
  PROVE  RingInv'
<1>1. /\ consumer.at = "count" /\ consumer' = [consumer EXCEPT !.at = "read"]
      /\ m_current_size' = m_current_size - 1
      /\ UNCHANGED <<m_data, m_head_index, m_tail_index, producer, accepted, received, everFull>>
  BY DEF PopCounts
<1>2. consumer'.at = "read" /\ consumer' \in ConsumerOf /\ consumer'.place = consumer.place
  BY <1>1 DEF RingInv, RingTypeOK, ConsumerOf
<1>3. NextPlace' = NextPlace /\ GivenBack' = 1 /\ GivenBack = 0 /\ Uncounted' = Uncounted /\ Behind' = Behind
  BY <1>1, <1>2 DEF NextPlace, GivenBack, Uncounted, Behind
<1>4. PlacesHold' /\ MovedOut' /\ InOrderUntilFull' /\ Written' = Written /\ Moved' = Moved
  BY <1>1, <1>3, ItemsStay
<1>5. m_current_size > 0 /\ m_current_size \in 0..Capacity /\ Capacity \in Nat
  BY <1>1, RingLengths DEF RingInv, SizeCounts
<1>6. SizeCounts' /\ m_current_size' \in 0..Capacity
  <2>1. m_current_size' \in 0..Capacity /\ m_current_size' < Capacity
    BY <1>1, <1>5
  <2>2. m_current_size' = Written' - Uncounted' - Moved' - GivenBack'
    BY <1>1, <1>3, <1>4, RingLengths DEF RingInv, SizeCounts
  <2> QED  BY <1>1, <1>2, <2>1, <2>2 DEF RingInv, SizeCounts
<1>7. IndicesFollow'
  BY <1>1, <1>2, <1>3, <1>4 DEF RingInv, IndicesFollow, After
<1>8. RingTypeOK'
  BY <1>1, <1>2, <1>6 DEF RingInv, RingTypeOK, ConsumerOf
<1> QED  BY <1>4, <1>6, <1>7, <1>8 DEF RingInv

\* The item written goes behind the others, into the place of the first only if it is
\* on its way out.
LEMMA PushWritesKeeps ==
  ASSUME RingInv, PushWrites
  PROVE  RingInv'
<1> DEFINE h == m_head_index
           i == producer.item
<1>1. /\ producer.at = "write" /\ producer' = [producer EXCEPT !.at = "advance"]
      /\ m_data' = [m_data EXCEPT ![h] = i] /\ accepted' = Append(accepted, i)
      /\ everFull' = (everFull \/ Len(accepted') - Len(received) >= Capacity)
      /\ UNCHANGED <<m_head_index, m_tail_index, m_current_size, consumer, received>>
  BY DEF PushWrites
<1>2. /\ m_data \in [Places -> Items \cup {Unset}] /\ accepted \in Seq(Items) /\ i \in Items
      /\ producer \in [at : {"idle", "write", "advance", "count"}, item : 0..MaxPushes]
      /\ h \in Places /\ received \in Seq(Items \cup {Unset})
  BY <1>1 DEF RingInv, RingTypeOK, SizeCounts
<1>3. /\ producer'.at = "advance" /\ producer'.item = i
      /\ producer' \in [at : {"idle", "write", "advance", "count"}, item : 0..MaxPushes]
  BY <1>1, <1>2
<1>4. /\ NextPlace' = NextPlace /\ GivenBack' = GivenBack /\ Uncounted' = 1 /\ Uncounted = 0
      /\ Behind' = 1 /\ Behind = 0
  BY <1>1, <1>3 DEF NextPlace, GivenBack, Uncounted, Behind
<1>5. /\ Written \in Nat /\ Moved \in Nat /\ Capacity \in Nat /\ Capacity > 0
      /\ DOMAIN accepted = 1..Written /\ DOMAIN received = 1..Moved
      /\ NextPlace \in 0..(Capacity - 1)
      /\ Moved <= Written /\ Written - Moved <= Capacity
  BY <1>1, RingLengths, RingBounds DEF Places
<1>6. /\ Written' = Written + 1 /\ Moved' = Moved
      /\ \A n \in 1..Written : accepted'[n] = accepted[n]
      /\ accepted'[Written + 1] = i /\ accepted' \in Seq(Items)
  BY <1>1, <1>2 DEF Written, Moved
<1>7. \A p \in Places : m_data'[p] = IF p = h THEN i ELSE m_data[p]
  BY <1>1, <1>2
<1>8. \A n : PlaceOf(n)' = PlaceOf(n)
  BY <1>4, <1>6 DEF PlaceOf
<1>9. PlaceOf(Written + 1) = h
  <2>1. h = Wrap(NextPlace + (Written - Moved))
    BY <1>4, <1>5 DEF RingInv, IndicesFollow
  <2>2. PICK n \in Nat : n = Written + 1 /\ n - Moved - 1 = Written - Moved
    BY <1>5
  <2> QED  BY <2>1, <2>2 DEF PlaceOf
<1>10. ASSUME NEW n \in (Moved + 1)..Written
       PROVE  PlaceOf(n) \in Places /\ (PlaceOf(n) = h <=> n + Capacity = Written + 1)
  <2>1. PICK x \in 0..(2 * Capacity - 1) : x = NextPlace + (n - Moved - 1)
    BY <1>5
  <2>2. PICK y \in 0..(3 * Capacity - 1) : y = NextPlace + (Written - Moved) /\ h = Wrap(y)
    <3>1. h = Wrap(NextPlace + (Written - Moved))
      BY <1>4, <1>5 DEF RingInv, IndicesFollow
    <3> QED  BY <1>5, <3>1
  <2>3. PlaceOf(n) = Wrap(x) /\ x \in 0..(3 * Capacity - 1) /\ x < y /\ y - x = Written + 1 - n
    BY <1>5, <2>1, <2>2 DEF PlaceOf
  <2>4. CASE n + Capacity = Written + 1
    <3>1. y = x + Capacity
      BY <1>5, <2>1, <2>2, <2>3, <2>4
    <3> QED  BY <2>2, <2>3, <2>4, <3>1, Rounds
  <2>5. CASE n + Capacity # Written + 1
    <3>1. y - x < Capacity
      BY <1>5, <2>1, <2>2, <2>3, <2>5
    <3> QED  BY <2>1, <2>2, <2>3, <2>5, <3>1, Rounds
  <2> QED  BY <2>4, <2>5
<1>11. PlacesHold'
  <2>1. ASSUME NEW n \in (Moved + 1)..(Written + 1)
        PROVE  IF n + Capacity <= Written + 1 THEN m_data'[PlaceOf(n)] = accepted'[n + Capacity]
               ELSE \/ m_data'[PlaceOf(n)] = accepted'[n]
                    \/ /\ m_data'[PlaceOf(n)] = Unset /\ n > Capacity
                       /\ received[n - Capacity] = accepted'[n]
    <3>1. CASE n = Written + 1
      BY <1>2, <1>5, <1>6, <1>7, <1>9, <3>1
    <3>2. CASE n # Written + 1 /\ n + Capacity = Written + 1
      <4>1. PlaceOf(n) = h
        BY <1>5, <1>10, <3>2
      <4>2. m_data'[h] = accepted'[n + Capacity]
        BY <1>2, <1>6, <1>7, <3>2
      <4> QED  BY <1>5, <3>2, <4>1, <4>2
    <3>3. CASE n # Written + 1 /\ n + Capacity # Written + 1
      <4>1. n \in (Moved + 1)..Written
        BY <1>5, <3>3
      <4>2. m_data'[PlaceOf(n)] = m_data[PlaceOf(n)]
        BY <1>7, <1>10, <3>3, <4>1
      <4>3. accepted'[n] = accepted[n] /\ (n + Capacity <= Written => accepted'[n + Capacity] = accepted[n + Capacity])
        BY <1>5, <1>6, <4>1
      <4>4. n + Capacity <= Written + 1 <=> n + Capacity <= Written
        BY <1>5, <3>3
      <4> QED  BY <4>1, <4>2, <4>3, <4>4 DEF RingInv, PlacesHold
    <3> QED  BY <3>1, <3>2, <3>3
  <2>2. \A n \in (Moved' + 1)..Written' :
          IF n + Capacity <= Written' THEN m_data'[PlaceOf(n)'] = accepted'[n + Capacity]
          ELSE \/ m_data'[PlaceOf(n)'] = accepted'[n]
               \/ /\ m_data'[PlaceOf(n)'] = Unset /\ n > Capacity
                  /\ received'[n - Capacity] = accepted'[n]
    BY <1>1, <1>6, <1>8, <2>1
  <2> QED  BY <2>2 DEF PlacesHold
<1>12. MovedOut'
  BY <1>1, <1>5, <1>6 DEF RingInv, MovedOut
<1>13. InOrderUntilFull'
  <2>1. CASE everFull'
    <3>1. InOrderUntilFull' <=> (~everFull' => InOrderUntilFull')
      BY DEF InOrderUntilFull
    <3> QED  BY <2>1, <3>1, Zenon
  <2>2. CASE ~everFull'
    <3>1. ~everFull /\ Written + 1 - Moved < Capacity
      <4>1. Len(accepted') = Written + 1 /\ Len(received) = Moved
        BY <1>6 DEF Written, Moved
      <4>2. ~everFull /\ ~(Len(accepted') - Len(received) >= Capacity)
        BY <1>1, <2>2, Zenon
      <4> QED  BY <1>5, <4>1, <4>2
    <3>2. \A n \in 1..Moved : received[n] = accepted'[n]
      BY <1>5, <1>6, <3>1 DEF RingInv, InOrderUntilFull
    <3>3. ASSUME NEW n \in (Moved + 1)..(Written + 1) PROVE m_data'[PlaceOf(n)] = accepted'[n]
      <4>1. CASE n = Written + 1
        BY <1>2, <1>6, <1>7, <1>9, <4>1
      <4>2. CASE n # Written + 1
        <5>1. n \in (Moved + 1)..Written /\ n + Capacity # Written + 1
          BY <1>5, <3>1, <4>2
        <5>2. m_data'[PlaceOf(n)] = m_data[PlaceOf(n)] /\ accepted'[n] = accepted[n]
          BY <1>5, <1>6, <1>7, <1>10, <5>1
        <5> QED  BY <3>1, <5>1, <5>2 DEF RingInv, InOrderUntilFull
      <4> QED  BY <4>1, <4>2
    <3>4. /\ Written' - Moved' < Capacity
          /\ \A n \in 1..Moved' : received'[n] = accepted'[n]
          /\ \A n \in (Moved' + 1)..Written' : m_data'[PlaceOf(n)'] = accepted'[n]
      <4>1. received' = received /\ Written' = Written + 1 /\ Moved' = Moved
        BY <1>1, <1>6
      <4>2. \A n \in (Moved' + 1)..Written' : m_data'[PlaceOf(n)'] = accepted'[n]
        BY <1>8, <3>3, <4>1
      <4>3. Written' - Moved' < Capacity
        BY <1>5, <3>1, <4>1
      <4>4. \A n \in 1..Moved' : received'[n] = accepted'[n]
        BY <3>2, <4>1
      <4> QED  BY <4>2, <4>3, <4>4
    <3> QED  BY <3>4 DEF InOrderUntilFull
  <2> QED  BY <2>1, <2>2
<1>14. SizeCounts'
  <2>1. m_current_size' = Written' - Uncounted' - Moved' - GivenBack'
    BY <1>1, <1>4, <1>5, <1>6, RingLengths DEF RingInv, SizeCounts
  <2>2. m_current_size < Capacity /\ (consumer.at \in {"advance", "count"} => m_current_size > 0)
    BY <1>1 DEF RingInv, SizeCounts
  <2> QED  BY <1>1, <1>3, <2>1, <2>2 DEF SizeCounts
<1>15. IndicesFollow'
  <2>1. Written' - Moved' - Behind' = Written - Moved - Behind
    BY <1>4, <1>5, <1>6
  <2> QED  BY <1>1, <1>4, <2>1 DEF RingInv, IndicesFollow
<1>16. RingTypeOK'
  <2>1. m_data' \in [Places -> Items \cup {Unset}]
    BY <1>1, <1>2
  <2>2. everFull' \in BOOLEAN
    BY <1>1 DEF RingInv, RingTypeOK
  <2> QED  BY <1>1, <1>3, <1>6, <2>1, <2>2 DEF RingInv, RingTypeOK
<1> QED  BY <1>11, <1>12, <1>13, <1>14, <1>15, <1>16 DEF RingInv

\* The item moved out leaves nothing behind, also when its place already holds that of
\* the next round.
LEMMA PopReadsKeeps ==
  ASSUME RingInv, PopReads
  PROVE  RingInv'
<1> DEFINE p == consumer.place
           v == m_data[p]
           r == Moved + 1
<1>1. /\ consumer.at = "read" /\ received' = Append(received, v)
      /\ consumer' = [consumer EXCEPT !.at = IF consumer.wanted = 1 THEN "idle" ELSE "check",
                                      !.wanted = @ - 1]
      /\ m_data' = [m_data EXCEPT ![p] = Unset]
      /\ UNCHANGED <<m_head_index, m_tail_index, m_current_size, producer, accepted, everFull>>
  BY DEF PopReads
<1>2. /\ m_data \in [Places -> Items \cup {Unset}] /\ p \in Places /\ v \in Items \cup {Unset}
      /\ received \in Seq(Items \cup {Unset})
  BY DEF RingInv, RingTypeOK
<1>3. consumer' \in ConsumerOf /\ consumer'.at \in {"idle", "check"}
  <2>1. consumer' = [at |-> IF consumer.wanted = 1 THEN "idle" ELSE "check", place |-> consumer.place,
                     wanted |-> consumer.wanted - 1]
    BY <1>1 DEF RingInv, RingTypeOK
  <2> QED  BY <2>1 DEF RingInv, RingTypeOK, ConsumerOf
<1>4. /\ NextPlace = p /\ NextPlace' = After(p) /\ GivenBack' = 0 /\ GivenBack = 1
      /\ Uncounted' = Uncounted /\ Behind' = Behind
  BY <1>1, <1>3 DEF RingInv, IndicesFollow, NextPlace, GivenBack, Uncounted, Behind
<1>5. /\ Written \in Nat /\ Moved \in Nat /\ Capacity \in Nat /\ Capacity > 0
      /\ DOMAIN accepted = 1..Written /\ DOMAIN received = 1..Moved
      /\ p \in 0..(Capacity - 1) /\ Uncounted \in {0, 1} /\ Behind \in {0, 1}
      /\ Moved < Written /\ Written - Moved <= Capacity + 1
  BY <1>1, <1>2, <1>4, RingLengths, RingBounds DEF Places
<1>6. /\ Written' = Written /\ Moved' = Moved + 1
      /\ \A n \in 1..Moved : received'[n] = received[n]
      /\ received'[r] = v /\ received' \in Seq(Items \cup {Unset})
  BY <1>1, <1>2 DEF Written, Moved
<1>7. \A q \in Places : m_data'[q] = IF q = p THEN Unset ELSE m_data[q]
  BY <1>1, <1>2
<1>8. PlaceOf(r) = p
  <2>1. NextPlace + (r - Moved - 1) = p
    BY <1>4, <1>5
  <2> QED  BY <1>2, <2>1, Rounds DEF PlaceOf
<1>9. ASSUME NEW n \in (Moved + 2)..Written
      PROVE  /\ PlaceOf(n)' = PlaceOf(n) /\ PlaceOf(n) \in Places
             /\ PlaceOf(n) = p <=> n = r + Capacity
  <2>1. PICK k \in 0..(2 * Capacity - 1) : k = n - Moved - 2 /\ k < Capacity
    BY <1>5
  <2>2. PlaceOf(n)' = Wrap(After(p) + k) /\ PlaceOf(n) = Wrap(p + (k + 1))
    <3>1. n - Moved' - 1 = k /\ n - Moved - 1 = k + 1
      BY <1>5, <1>6, <2>1
    <3> QED  BY <1>4, <3>1 DEF PlaceOf
  <2>3. PlaceOf(n)' = PlaceOf(n)
    BY <1>2, <2>1, <2>2, Rounds
  <2>4. PICK x \in 0..(3 * Capacity - 1) : x = p + (k + 1) /\ PlaceOf(n) = Wrap(x)
    BY <1>5, <2>1, <2>2
  <2>5. p \in 0..(2 * Capacity - 1) /\ p \in 0..(3 * Capacity - 1) /\ Wrap(p) = p
    <3>1. Wrap(p) = p
      BY <1>2, Rounds
    <3> QED  BY <1>5, <3>1
  <2>6. CASE n = r + Capacity
    <3>1. x = p + Capacity
      BY <1>5, <2>1, <2>4, <2>6
    <3> QED  BY <1>2, <2>3, <2>4, <2>5, <2>6, <3>1, Rounds
  <2>7. CASE n # r + Capacity
    <3>1. p < x /\ x - p < Capacity
      BY <1>5, <2>1, <2>4, <2>7
    <3> QED  BY <2>3, <2>4, <2>5, <2>7, <3>1, Rounds
  <2> QED  BY <2>6, <2>7
<1>10. IF r + Capacity <= Written THEN v = accepted[r + Capacity]
       ELSE \/ v = accepted[r]
            \/ v = Unset /\ r > Capacity /\ received[r - Capacity] = accepted[r]
  <2>1. r \in (Moved + 1)..Written
    BY <1>5
  <2> QED  BY <1>8, <2>1 DEF RingInv, PlacesHold
<1>11. PlacesHold'
  <2>1. ASSUME NEW n \in (Moved + 2)..Written
        PROVE  /\ ~(n + Capacity <= Written)
               /\ \/ m_data'[PlaceOf(n)] = accepted[n]
                  \/ /\ m_data'[PlaceOf(n)] = Unset /\ n > Capacity
                     /\ received'[n - Capacity] = accepted[n]
    <3>1. n + Capacity > Written
      BY <1>5
    <3>2. CASE n = r + Capacity
      <4>1. n - Capacity = r /\ n > Capacity /\ r + Capacity <= Written
        BY <1>5, <3>2
      <4>2. m_data'[PlaceOf(n)] = Unset
        BY <1>2, <1>7, <1>9, <3>2
      <4>3. received'[n - Capacity] = accepted[n]
        BY <1>6, <1>10, <3>2, <4>1
      <4> QED  BY <1>5, <3>1, <4>1, <4>2, <4>3
    <3>3. CASE n # r + Capacity
      <4>1. m_data'[PlaceOf(n)] = m_data[PlaceOf(n)]
        BY <1>7, <1>9, <3>3
      <4>2. n \in (Moved + 1)..Written
        BY <1>5
      <4>3. \/ m_data[PlaceOf(n)] = accepted[n]
            \/ m_data[PlaceOf(n)] = Unset /\ n > Capacity /\ received[n - Capacity] = accepted[n]
        BY <1>5, <3>1, <4>2 DEF RingInv, PlacesHold
      <4>4. n > Capacity => received'[n - Capacity] = received[n - Capacity]
        <5>1. n > Capacity => n - Capacity \in 1..Moved
          BY <1>5, <3>3
        <5> QED  BY <1>6, <5>1
      <4> QED  BY <1>5, <3>1, <4>1, <4>3, <4>4
    <3> QED  BY <3>2, <3>3
  <2>2. \A n \in (Moved' + 1)..Written' :
          IF n + Capacity <= Written' THEN m_data'[PlaceOf(n)'] = accepted'[n + Capacity]
          ELSE \/ m_data'[PlaceOf(n)'] = accepted'[n]
               \/ /\ m_data'[PlaceOf(n)'] = Unset /\ n > Capacity
                  /\ received'[n - Capacity] = accepted'[n]
    <3>1. (Moved' + 1)..Written' = (Moved + 2)..Written
      BY <1>5, <1>6
    <3> QED  BY <1>1, <1>6, <1>9, <2>1, <3>1
  <2> QED  BY <2>2 DEF PlacesHold
<1>12. MovedOut'
  <2>1. ASSUME NEW n \in 1..(Moved + 1)
        PROVE  \/ received'[n] = accepted[n]
               \/ n + Capacity <= Written /\ received'[n] = accepted[n + Capacity]
               \/ received'[n] = Unset /\ n > Capacity /\ received'[n - Capacity] = accepted[n]
    <3>1. n > Capacity => received'[n - Capacity] = received[n - Capacity]
      <4>1. n > Capacity => n - Capacity \in 1..Moved
        BY <1>5
      <4> QED  BY <1>6, <4>1
    <3>2. CASE n = r
      BY <1>6, <1>10, <3>1, <3>2
    <3>3. CASE n # r
      <4>1. n \in 1..Moved
        BY <1>5, <3>3
      <4> QED  BY <1>6, <3>1, <4>1 DEF RingInv, MovedOut
    <3> QED  BY <3>2, <3>3
  <2> QED  BY <1>1, <1>6, <2>1 DEF MovedOut
<1>13. InOrderUntilFull'
  <2>1. SUFFICES ASSUME ~everFull
                 PROVE  /\ Written - (Moved + 1) < Capacity
                        /\ \A n \in 1..(Moved + 1) : received'[n] = accepted[n]
                        /\ \A n \in (Moved + 2)..Written : m_data'[PlaceOf(n)] = accepted[n]
    <3>1. (Moved' + 1)..Written' = (Moved + 2)..Written
      BY <1>5, <1>6
    <3> QED  BY <1>1, <1>6, <1>9, <3>1 DEF InOrderUntilFull
  <2>2. /\ Written - Moved < Capacity
        /\ \A n \in 1..Moved : received[n] = accepted[n]
        /\ \A n \in (Moved + 1)..Written : m_data[PlaceOf(n)] = accepted[n]
    BY <2>1 DEF RingInv, InOrderUntilFull
  <2>3. received'[r] = accepted[r]
    BY <1>5, <1>6, <1>8, <2>2
  <2>4. ASSUME NEW n \in 1..(Moved + 1) PROVE received'[n] = accepted[n]
    BY <1>5, <1>6, <2>2, <2>3
  <2>5. ASSUME NEW n \in (Moved + 2)..Written PROVE m_data'[PlaceOf(n)] = accepted[n]
    <3>1. n # r + Capacity /\ n \in (Moved + 1)..Written
      BY <1>5, <2>2
    <3> QED  BY <1>7, <1>9, <2>2, <3>1
  <2> QED  BY <1>5, <2>2, <2>4, <2>5
<1>14. SizeCounts'
  <2>1. m_current_size' = Written' - Uncounted' - Moved' - GivenBack'
    BY <1>1, <1>4, <1>5, <1>6, RingLengths DEF RingInv, SizeCounts
  <2> QED  BY <1>1, <1>3, <2>1 DEF RingInv, SizeCounts
<1>15. IndicesFollow'
  <2>1. m_head_index = Wrap(p + (Written - Moved - Behind))
    BY <1>4 DEF RingInv, IndicesFollow
  <2>2. PICK k \in 0..(2 * Capacity - 1) : k = Written - Moved - Behind - 1
    <3>1. Behind = 1 => Uncounted = 1
      BY DEF Behind, Uncounted
    <3>2. Moved + GivenBack + Uncounted <= Written
      BY RingBounds
    <3> QED  BY <1>4, <1>5, <3>1, <3>2
  <2>3. Wrap(After(p) + k) = Wrap(p + (k + 1))
    BY <1>2, <2>2, Rounds
  <2>4. Written' - Moved' - Behind' = k /\ Written - Moved - Behind = k + 1
    <3>1. Written \in Nat /\ Moved \in Nat /\ (Behind = 0 \/ Behind = 1)
      BY RingLengths DEF Behind
    <3>2. Written' = Written /\ Moved' = Moved + 1 /\ Behind' = Behind
      BY <1>4, <1>5, <1>6
    <3> QED  BY <2>2, <3>1, <3>2
  <2>5. m_head_index' = Wrap(NextPlace' + (Written' - Moved' - Behind'))
    BY <1>1, <1>4, <2>1, <2>3, <2>4
  <2> QED  BY <1>3, <2>5 DEF IndicesFollow
<1>16. RingTypeOK'
  <2>1. m_data' \in [Places -> Items \cup {Unset}]
    BY <1>1, <1>2
  <2> QED  BY <1>1, <1>3, <1>6, <2>1 DEF RingInv, RingTypeOK, ConsumerOf
<1> QED  BY <1>11, <1>12, <1>13, <1>14, <1>15, <1>16 DEF RingInv

LEMMA RingStep ==
  ASSUME RingInv, [SpscNext]_spscVars
  PROVE  RingInv'
<1>1. CASE UNCHANGED spscVars
  <2>1. /\ UNCHANGED <<m_data, m_head_index, m_tail_index, m_current_size, producer, consumer>>
        /\ UNCHANGED <<accepted, received, everFull>>
    BY <1>1 DEF spscVars
  <2>2. NextPlace' = NextPlace /\ GivenBack' = GivenBack /\ Uncounted' = Uncounted /\ Behind' = Behind
    BY <2>1 DEF NextPlace, GivenBack, Uncounted, Behind
  <2>3. PlacesHold' /\ MovedOut' /\ InOrderUntilFull' /\ Written' = Written /\ Moved' = Moved
    BY <2>1, <2>2, ItemsStay
  <2> QED  BY <2>1, <2>2, <2>3 DEF RingInv, RingTypeOK, SizeCounts, IndicesFollow, After
<1> QED
  BY <1>1, PushChecksKeeps, PushWritesKeeps, PushAdvancesKeeps, PushCountsKeeps, PopBeginsKeeps,
     PopChecksKeeps, PopAdvancesKeeps, PopCountsKeeps, PopReadsKeeps DEF SpscNext

\* spsc_ring_queue.hpp, push and pop: as long as a place is free the consumer gets what
\* the producer wrote, in order and once; after that it may get an item of the next
\* round, or nothing where that item was, but never one twice.
THEOREM RingHandsOutInOrder == SpscSpec => []HandsOutInOrder
<1>1. ASSUME RingInv PROVE HandsOutInOrder
  <2>1. /\ Written \in Nat /\ Moved \in Nat /\ Capacity \in Nat /\ Moved <= Written
        /\ DOMAIN accepted = 1..Written /\ DOMAIN received = 1..Moved
        /\ GivenBack \in {0, 1} /\ Uncounted \in {0, 1}
        /\ accepted \in Seq(Items) /\ received \in Seq(Items \cup {Unset})
    BY <1>1, RingLengths, RingBounds DEF RingInv, RingTypeOK
  <2>2. ~everFull => IsPrefix(received, accepted)
    <3>1. SUFFICES ASSUME ~everFull PROVE IsPrefix(received, accepted)
      OBVIOUS
    <3>2. \A n \in 1..Moved : received[n] = accepted[n]
      BY <1>1, <3>1 DEF RingInv, InOrderUntilFull
    <3>3. Len(received) = Moved /\ Len(accepted) = Written
      BY DEF Written, Moved
    <3>4. SubSeq(received, 1, Moved) = SubSeq(accepted, 1, Moved)
      BY <2>1, <3>2, <3>3
    <3> QED  BY <2>1, <3>3, <3>4 DEF IsPrefix
  <2>3. ASSUME NEW n \in DOMAIN received
        PROVE  \/ received[n] \in {accepted[k] : k \in DOMAIN accepted \cap {n, n + Capacity}}
               \/ /\ received[n] = Unset /\ n > Capacity
                  /\ received[n - Capacity] = accepted[n]
    <3>1. n \in 1..Moved /\ n \in 1..Written
      BY <2>1
    <3>2. \/ received[n] = accepted[n]
          \/ n + Capacity <= Written /\ received[n] = accepted[n + Capacity]
          \/ received[n] = Unset /\ n > Capacity /\ received[n - Capacity] = accepted[n]
      BY <1>1, <3>1 DEF RingInv, MovedOut
    <3>3. n + Capacity <= Written => n + Capacity \in 1..Written
      BY <2>1, <3>1
    <3> QED  BY <2>1, <3>1, <3>2, <3>3
  <2> QED  BY <2>2, <2>3 DEF HandsOutInOrder
<1> QED  BY <1>1, RingInit, RingStep, PTL DEF SpscSpec

-----------------------------------------------------------------------------
(* The timer.                                                              *)

Callbacks == [due : Nat, task : Nat]

\* What is still to run: what has been taken and what waits.
Pending == m_task_queue \o m_timer_callbacks

\* The run that a periodic task has begun and not finished.
Calls(task) == IF timer.at = "calls" /\ Head(m_task_queue).task = task THEN 1 ELSE 0

TimerTypeOK ==
  /\ now \in Nat
  /\ m_timer_callbacks \in Seq(Callbacks) /\ m_task_queue \in Seq(Callbacks)
  /\ timer \in [at : {"runs", "dozing", "asleep", "woken", "calls", "ended"}, until : Nat \cup {Never}]
  /\ tasks \in Seq([periodic : BOOLEAN, times : Int])
  /\ ran \in Seq(Nat) /\ Len(ran) = Len(tasks)
  /\ lastDue \in Nat
  /\ \A i \in DOMAIN Pending : Pending[i].task \in DOMAIN tasks
  /\ m_periodic_tasks = [k \in DOMAIN m_periodic_tasks |-> m_periodic_tasks[k]]
  /\ \A k \in DOMAIN m_periodic_tasks :
       /\ k \in DOMAIN tasks /\ tasks[k].periodic
       /\ m_periodic_tasks[k] \in [time : Nat, remain_times : Int]
  /\ cancelled = [k \in DOMAIN cancelled |-> cancelled[k]]
  /\ \A k \in DOMAIN cancelled :
       /\ k \in DOMAIN tasks /\ tasks[k].periodic /\ cancelled[k] \in Nat
       /\ k \notin DOMAIN m_periodic_tasks

\* Callbacks are taken when nothing is left of what was taken before.
TakenWhenEmpty ==
  /\ timer.at \in {"dozing", "asleep", "woken"} => m_task_queue = <<>>
  /\ timer.at = "calls" => m_task_queue # <<>> /\ tasks[m_task_queue[1].task].periodic

\* What is to run is in order, after what has run, and what has been taken is due.
InOrderOfDeadline ==
  /\ \A i, j \in DOMAIN Pending : i < j => Pending[i].due <= Pending[j].due
  /\ \A i \in DOMAIN Pending : lastDue <= Pending[i].due
  /\ \A i \in DOMAIN m_task_queue : m_task_queue[i].due <= now
  /\ lastDue <= now

\* A one-shot task has one callback, until it has run.
OneShotOnce ==
  /\ \A i, j \in DOMAIN Pending :
       Pending[i].task = Pending[j].task /\ ~tasks[Pending[i].task].periodic => i = j
  /\ \A i \in DOMAIN Pending : ~tasks[Pending[i].task].periodic => ran[Pending[i].task] = 0
  /\ \A k \in DOMAIN tasks : ~tasks[k].periodic => ran[k] <= 1 /\ tasks[k].times = 1

\* What a periodic task has run and what it has left is what it was added for.
PeriodicCounts ==
  /\ \A k \in DOMAIN m_periodic_tasks : tasks[k].times >= 0 =>
       /\ m_periodic_tasks[k].remain_times >= 0
       /\ ran[k] + Calls(k) + m_periodic_tasks[k].remain_times <= tasks[k].times
  /\ \A k \in DOMAIN tasks : tasks[k].periodic /\ tasks[k].times >= 0 =>
       ran[k] + Calls(k) <= tasks[k].times
  /\ \A k \in DOMAIN cancelled : ran[k] + Calls(k) <= cancelled[k] + 1

TimerInv == TimerTypeOK /\ TakenWhenEmpty /\ InOrderOfDeadline /\ OneShotOnce /\ PeriodicCounts

\* What two sequences one after the other hold.
LEMMA Joined ==
  ASSUME NEW q \in Seq(Callbacks), NEW m \in Seq(Callbacks)
  PROVE  /\ q \o m \in Seq(Callbacks) /\ Len(q \o m) = Len(q) + Len(m)
         /\ DOMAIN (q \o m) = 1..(Len(q) + Len(m))
         /\ \A i \in 1..(Len(q) + Len(m)) : (q \o m)[i] = IF i <= Len(q) THEN q[i] ELSE m[i - Len(q)]
OBVIOUS

\* ... and a sequence that is cut in two.
LEMMA Cut ==
  ASSUME NEW m \in Seq(Callbacks), NEW n \in 0..Len(m)
  PROVE  /\ SubSeq(m, 1, n) \in Seq(Callbacks) /\ Len(SubSeq(m, 1, n)) = n
         /\ \A i \in 1..n : SubSeq(m, 1, n)[i] = m[i]
         /\ SubSeq(m, n + 1, Len(m)) \in Seq(Callbacks) /\ Len(SubSeq(m, n + 1, Len(m))) = Len(m) - n
         /\ \A i \in 1..(Len(m) - n) : SubSeq(m, n + 1, Len(m))[i] = m[n + i]
OBVIOUS

\* Some set of numbers has a least one.
LEMMA LeastElement ==
  ASSUME NEW T \in SUBSET Nat, T # {}
  PROVE  \E m \in T : \A k \in T : m <= k
<1> DEFINE R == OpToRel(<, Nat)
<1>1. \A x, y \in Nat : <<x, y>> \in R <=> x < y
  BY DEF OpToRel
<1>2. IsWellFoundedOn(R, Nat)
  BY NatLessThanWellFounded
<1> HIDE DEF R
<1>3. PICK m \in T : \A y \in T : ~(<<y, m>> \in R)
  BY <1>2, WFMin
<1>4. \A y \in T : ~(y < m)
  BY <1>1, <1>3
<1>5. \A y \in T : m <= y
  BY <1>4
<1> QED  BY <1>5

\* How many callbacks are due by some time is well defined.
LEMMA DueByIs ==
  ASSUME m_timer_callbacks \in Seq(Callbacks), NEW time \in Nat
  PROVE  /\ DueBy(time) \in 0..Len(m_timer_callbacks)
         /\ \A i \in 1..DueBy(time) : m_timer_callbacks[i].due <= time
         /\ DueBy(time) < Len(m_timer_callbacks) => m_timer_callbacks[DueBy(time) + 1].due > time
<1> DEFINE m == m_timer_callbacks
           T == {n \in 0..Len(m) : n < Len(m) => m[n + 1].due > time}
<1>1. T \in SUBSET Nat /\ Len(m) \in T /\ Len(m) \in Nat
  OBVIOUS
<1>2. PICK n \in T : \A k \in T : n <= k
  BY <1>1, LeastElement
<1>3. \A i \in 1..Len(m) : m[i].due \in Nat
  <2>1. \A i \in 1..Len(m) : m[i] \in Callbacks
    OBVIOUS
  <2> QED  BY <2>1 DEF Callbacks
<1>4. ASSUME NEW i \in 1..n PROVE m[i].due <= time
  <2>1. i - 1 \in 0..Len(m) /\ i - 1 < n /\ i \in 1..Len(m) /\ (i - 1) + 1 = i
    BY <1>2
  <2>2. i - 1 \notin T
    BY <1>2, <2>1
  <2>3. ~(m[i].due > time)
    BY <2>1, <2>2
  <2> QED  BY <1>3, <2>1, <2>3
<1>5. /\ n \in 0..Len(m)
      /\ \A i \in 1..n : m[i].due <= time
      /\ n < Len(m) => m[n + 1].due > time
  BY <1>2, <1>4
<1> HIDE DEF T, m
<1>6. \E k \in 0..Len(m) :
         /\ \A i \in 1..k : m[i].due <= time
         /\ k < Len(m) => m[k + 1].due > time
  BY <1>5
<1> QED  BY <1>6 DEF DueBy, m

\* A callback that is added comes after those that are due when it is.
LEMMA Insertion ==
  ASSUME TimerTypeOK, InOrderOfDeadline, NEW due \in Nat, NEW task \in Nat, now <= due,
         m_timer_callbacks' = Inserted(due, task), UNCHANGED m_task_queue
  PROVE  /\ m_timer_callbacks' \in Seq(Callbacks)
         /\ DOMAIN Pending = 1..Len(Pending) /\ Len(Pending) \in Nat /\ DOMAIN Pending' = 1..(Len(Pending) + 1)
         /\ \A i \in 1..Len(Pending) : Pending[i] \in Callbacks
         /\ \E p \in 0..Len(Pending) :
              /\ \A i \in 1..(Len(Pending) + 1) :
                   Pending'[i] = IF i <= p THEN Pending[i]
                                 ELSE IF i = p + 1 THEN [due |-> due, task |-> task] ELSE Pending[i - 1]
              /\ \A i \in 1..p : Pending[i].due <= due
              /\ p < Len(Pending) => Pending[p + 1].due > due
<1> DEFINE m == m_timer_callbacks
           q == m_task_queue
           x == [due |-> due, task |-> task]
           n == DueBy(due)
           a == SubSeq(m, 1, n)
           b == SubSeq(m, n + 1, Len(m))
           c == a \o <<x>>
<1>1. m \in Seq(Callbacks) /\ q \in Seq(Callbacks)
  BY DEF TimerTypeOK
<1>2. /\ n \in 0..Len(m) /\ \A i \in 1..n : m[i].due <= due
      /\ n < Len(m) => m[n + 1].due > due
  BY <1>1, DueByIs
<1>3. m' = c \o b
  BY DEF Inserted
<1>4. x \in Callbacks /\ <<x>> \in Seq(Callbacks) /\ Len(<<x>>) = 1 /\ <<x>>[1] = x
  BY DEF Callbacks
<1> HIDE DEF n, x
<1>5. /\ a \in Seq(Callbacks) /\ Len(a) = n /\ \A i \in 1..n : a[i] = m[i]
      /\ b \in Seq(Callbacks) /\ Len(b) = Len(m) - n /\ \A i \in 1..(Len(m) - n) : b[i] = m[n + i]
  BY <1>1, <1>2, Cut
<1> HIDE DEF a, b
<1>6. c \in Seq(Callbacks) /\ Len(c) = n + 1 /\ \A i \in 1..(n + 1) : c[i] = IF i <= n THEN m[i] ELSE x
  <2>1. /\ c \in Seq(Callbacks) /\ Len(c) = Len(a) + Len(<<x>>)
        /\ \A i \in 1..(Len(a) + Len(<<x>>)) : c[i] = IF i <= Len(a) THEN a[i] ELSE <<x>>[i - Len(a)]
    BY <1>4, <1>5, Joined
  <2> QED  BY <1>2, <1>4, <1>5, <2>1
<1> HIDE DEF c
<1>7. /\ m' \in Seq(Callbacks) /\ Len(m') = Len(m) + 1
      /\ \A i \in 1..(Len(m) + 1) :
           m'[i] = IF i <= n THEN m[i] ELSE IF i = n + 1 THEN x ELSE m[i - 1]
  <2> DEFINE z == c \o b
  <2>1. /\ z \in Seq(Callbacks) /\ Len(z) = Len(c) + Len(b)
        /\ \A i \in 1..(Len(c) + Len(b)) : z[i] = IF i <= Len(c) THEN c[i] ELSE b[i - Len(c)]
    BY <1>5, <1>6, Joined
  <2> HIDE DEF z
  <2>2. Len(m) \in Nat /\ Len(c) + Len(b) = Len(m) + 1
    BY <1>1, <1>2, <1>5, <1>6
  <2>3. ASSUME NEW i \in 1..(Len(m) + 1)
        PROVE  z[i] = IF i <= n THEN m[i] ELSE IF i = n + 1 THEN x ELSE m[i - 1]
    <3>1. CASE i <= n + 1
      BY <1>2, <1>6, <2>1, <2>2, <3>1
    <3>2. CASE i > n + 1
      <4>1. i - (n + 1) \in 1..(Len(m) - n) /\ n + (i - (n + 1)) = i - 1
        BY <1>2, <2>2, <3>2
      <4>2. z[i] = b[i - (n + 1)]
        BY <1>2, <1>6, <2>1, <2>2, <3>2
      <4> QED  BY <1>2, <1>5, <3>2, <4>1, <4>2
    <3> QED  BY <1>2, <3>1, <3>2
  <2> QED  BY <1>3, <2>1, <2>2, <2>3 DEF z
<1>8. /\ Pending \in Seq(Callbacks) /\ Len(Pending) = Len(q) + Len(m) /\ DOMAIN Pending = 1..(Len(q) + Len(m))
      /\ \A i \in 1..(Len(q) + Len(m)) : Pending[i] = IF i <= Len(q) THEN q[i] ELSE m[i - Len(q)]
  BY <1>1, Joined DEF Pending
<1>9. /\ DOMAIN Pending' = 1..(Len(q) + Len(m'))
      /\ \A i \in 1..(Len(q) + Len(m')) : Pending'[i] = IF i <= Len(q) THEN q[i] ELSE m'[i - Len(q)]
  <2>1. Pending' = q \o m'
    BY DEF Pending
  <2> QED  BY <1>1, <1>7, <2>1, Joined
<1>10. Len(q) \in Nat /\ Len(m) \in Nat /\ \A i \in 1..Len(q) : q[i].due <= due /\ q[i].due \in Nat
  <2>1. \A i \in 1..Len(q) : q[i].due <= now /\ q[i] \in Callbacks
    BY <1>1 DEF InOrderOfDeadline
  <2> QED  BY <1>1, <2>1 DEF Callbacks, TimerTypeOK
<1> DEFINE p == Len(q) + n
<1>11. p \in 0..Len(Pending)
  BY <1>2, <1>8, <1>10
<1>12. ASSUME NEW i \in 1..(Len(Pending) + 1)
       PROVE  Pending'[i] = IF i <= p THEN Pending[i] ELSE IF i = p + 1 THEN x ELSE Pending[i - 1]
  <2>1. i \in 1..(Len(q) + Len(m'))
    BY <1>7, <1>8, <1>10
  <2>2. CASE i <= Len(q)
    BY <1>2, <1>8, <1>9, <1>10, <2>1, <2>2
  <2>3. CASE i > Len(q)
    <3>1. PICK j \in 1..(Len(m) + 1) : j = i - Len(q) /\ i = Len(q) + j
      <4>1. i \in 1..(Len(q) + Len(m) + 1)
        BY <1>8
      <4>2. i - Len(q) \in 1..(Len(m) + 1) /\ i = Len(q) + (i - Len(q))
        BY <1>10, <2>3, <4>1
      <4> QED  BY <4>2
    <3>2. Pending'[i] = m'[j]
      BY <1>9, <1>10, <2>1, <2>3, <3>1
    <3>3. CASE j <= n
      <4>1. i <= p /\ i \in 1..(Len(q) + Len(m))
        <5>1. n \in Nat /\ Len(q) \in Nat /\ Len(m) \in Nat /\ j \in Nat /\ 1 <= j /\ j <= n /\ n <= Len(m)
          BY <1>2, <1>10, <3>1, <3>3
        <5>2. i = Len(q) + j /\ p = Len(q) + n
          BY <3>1
        <5> HIDE DEF p
        <5> QED  BY <5>1, <5>2
      <4>2. Pending[i] = m[j]
        BY <1>8, <1>10, <2>3, <3>1, <4>1
      <4>3. m'[j] = m[j]
        BY <1>7, <3>3
      <4> QED  BY <3>2, <4>1, <4>2, <4>3
    <3>4. CASE j = n + 1
      <4>1. i = p + 1 /\ ~(i <= p)
        <5>1. n \in Nat /\ Len(q) \in Nat /\ i = Len(q) + (n + 1)
          BY <1>2, <1>10, <3>1, <3>4
        <5> QED  BY <5>1
      <4> QED  BY <1>2, <1>7, <3>2, <3>4, <4>1
    <3>5. CASE j > n + 1
      <4>1. /\ ~(i <= p) /\ i # p + 1 /\ i - 1 \in 1..(Len(q) + Len(m)) /\ ~(i - 1 <= Len(q))
            /\ (i - 1) - Len(q) = j - 1
        <5>1. n \in Nat /\ Len(q) \in Nat /\ Len(m) \in Nat /\ j \in Nat /\ n + 1 < j /\ j <= Len(m) + 1
          BY <1>2, <1>10, <3>1, <3>5
        <5>2. i = Len(q) + j /\ p = Len(q) + n
          BY <3>1
        <5> HIDE DEF p
        <5> QED  BY <5>1, <5>2
      <4>2. Pending[i - 1] = m[j - 1]
        BY <1>8, <4>1
      <4> QED  BY <1>2, <1>7, <3>2, <3>5, <4>1, <4>2
    <3> QED  BY <1>2, <3>3, <3>4, <3>5
  <2> QED  BY <1>10, <2>2, <2>3
<1>13. ASSUME NEW i \in 1..p PROVE Pending[i].due <= due
  <2>1. i \in 1..(Len(q) + Len(m)) /\ (~(i <= Len(q)) => i - Len(q) \in 1..n)
    BY <1>2, <1>10
  <2>2. CASE i <= Len(q)
    <3>1. i \in 1..Len(q) /\ Pending[i] = q[i]
      BY <1>8, <1>10, <2>1, <2>2
    <3> QED  BY <1>10, <3>1
  <2>3. CASE ~(i <= Len(q))
    <3>1. Pending[i] = m[i - Len(q)]
      BY <1>8, <2>1, <2>3
    <3> QED  BY <1>2, <2>1, <2>3, <3>1
  <2> QED  BY <2>2, <2>3
<1>14. p < Len(Pending) => Pending[p + 1].due > due
  <2>1. SUFFICES ASSUME p < Len(Pending) PROVE Pending[p + 1].due > due
    OBVIOUS
  <2>2. p + 1 \in 1..(Len(q) + Len(m)) /\ ~(p + 1 <= Len(q)) /\ (p + 1) - Len(q) = n + 1 /\ n < Len(m)
    BY <1>2, <1>8, <1>10, <2>1
  <2> QED  BY <1>2, <1>8, <2>2
<1>15. /\ DOMAIN Pending = 1..Len(Pending) /\ Len(Pending) \in Nat /\ DOMAIN Pending' = 1..(Len(Pending) + 1)
       /\ \A i \in 1..Len(Pending) : Pending[i] \in Callbacks
  BY <1>7, <1>8, <1>9, <1>10
<1> HIDE DEF p
<1> QED  BY <1>7, <1>11, <1>12, <1>13, <1>14, <1>15 DEF x

LEMMA InsertionKeepsOrder ==
  ASSUME TimerTypeOK, InOrderOfDeadline, NEW due \in Nat, NEW task \in Nat, now <= due,
         m_timer_callbacks' = Inserted(due, task), UNCHANGED <<m_task_queue, now, lastDue>>
  PROVE  /\ InOrderOfDeadline'
         /\ \A i \in DOMAIN Pending' :
              Pending'[i].task = task \/ \E j \in DOMAIN Pending : Pending'[i] = Pending[j]
         /\ \A i, j \in DOMAIN Pending' : i # j =>
              \E k, l \in DOMAIN Pending :
                \/ Pending'[i].task = task /\ Pending'[j] = Pending[l]
                \/ Pending'[j].task = task /\ Pending'[i] = Pending[k]
                \/ k # l /\ Pending'[i] = Pending[k] /\ Pending'[j] = Pending[l]
<1> DEFINE x == [due |-> due, task |-> task]
           N == Len(Pending)
<1>1. /\ m_timer_callbacks' \in Seq(Callbacks)
      /\ DOMAIN Pending = 1..N /\ N \in Nat /\ DOMAIN Pending' = 1..(N + 1)
      /\ \A i \in 1..N : Pending[i] \in Callbacks
  BY Insertion
<1>2. PICK p \in 0..N :
        /\ \A i \in 1..(N + 1) :
             Pending'[i] = IF i <= p THEN Pending[i] ELSE IF i = p + 1 THEN x ELSE Pending[i - 1]
        /\ \A i \in 1..p : Pending[i].due <= due
        /\ p < N => Pending[p + 1].due > due
  BY Insertion
<1>3. x.due = due /\ x.task = task /\ \A i \in 1..N : Pending[i].due \in Nat /\ Pending[i].task \in Nat
  BY <1>1 DEF Callbacks
<1>4. lastDue \in Nat /\ lastDue <= now /\ now \in Nat
  BY DEF InOrderOfDeadline, TimerTypeOK
<1>5. /\ \A i, j \in 1..N : i < j => Pending[i].due <= Pending[j].due
      /\ \A i \in 1..N : lastDue <= Pending[i].due
  BY <1>1 DEF InOrderOfDeadline
<1> HIDE DEF x, N
<1>6. \A i \in 1..N : i > p => Pending[i].due > due
  <2>1. SUFFICES ASSUME NEW i \in 1..N, i > p PROVE Pending[i].due > due
    OBVIOUS
  <2>2. p + 1 \in 1..N /\ p < N /\ (i = p + 1 \/ p + 1 < i)
    BY <1>1, <1>2, <2>1
  <2>3. Pending[p + 1].due > due /\ Pending[p + 1].due <= Pending[i].due
    BY <1>2, <1>3, <1>5, <2>2
  <2> QED  BY <1>3, <2>2, <2>3
<1>7. \A i \in 1..(N + 1) :
        \/ i <= p /\ i \in 1..N /\ Pending'[i] = Pending[i]
        \/ i = p + 1 /\ Pending'[i] = x
        \/ i > p + 1 /\ i - 1 \in 1..N /\ i - 1 > p /\ Pending'[i] = Pending[i - 1]
  BY <1>1, <1>2
<1>8. ASSUME NEW i \in 1..(N + 1), NEW j \in 1..(N + 1), i < j
      PROVE  Pending'[i].due <= Pending'[j].due
  <2>1. CASE j <= p
    BY <1>2, <1>5, <1>7, <1>8, <2>1
  <2>2. CASE j = p + 1
    BY <1>2, <1>3, <1>7, <1>8, <2>2
  <2>3. CASE j > p + 1
    <3>1. j - 1 \in 1..N /\ j - 1 > p /\ Pending'[j] = Pending[j - 1] /\ Pending[j - 1].due > due
      BY <1>2, <1>6, <1>7, <2>3
    <3>2. CASE i <= p
      <4>1. i \in 1..N /\ i < j - 1 /\ Pending'[i] = Pending[i]
        BY <1>2, <1>7, <3>1, <3>2
      <4> QED  BY <1>5, <3>1, <4>1
    <3>3. CASE i = p + 1
      <4>1. Pending'[i] = x
        BY <1>2, <1>7, <3>3
      <4> QED  BY <1>3, <3>1, <4>1
    <3>4. CASE i > p + 1
      <4>1. i - 1 \in 1..N /\ i - 1 < j - 1 /\ Pending'[i] = Pending[i - 1]
        BY <1>2, <1>7, <1>8, <3>4
      <4> QED  BY <1>5, <3>1, <4>1
    <3> QED  BY <1>2, <3>2, <3>3, <3>4
  <2> QED  BY <1>2, <2>1, <2>2, <2>3
<1>9. ASSUME NEW i \in 1..(N + 1) PROVE lastDue <= Pending'[i].due
  BY <1>3, <1>4, <1>5, <1>7
<1>10. ASSUME NEW i \in 1..(N + 1)
       PROVE  Pending'[i].task = task \/ \E j \in 1..N : Pending'[i] = Pending[j]
  BY <1>3, <1>7
<1>11. ASSUME NEW i \in 1..(N + 1), NEW j \in 1..(N + 1), i # j
       PROVE  \E k, l \in 1..N :
                \/ Pending'[i].task = task /\ Pending'[j] = Pending[l]
                \/ Pending'[j].task = task /\ Pending'[i] = Pending[k]
                \/ k # l /\ Pending'[i] = Pending[k] /\ Pending'[j] = Pending[l]
  <2>1. CASE i = p + 1
    <3>1. Pending'[i].task = task /\ j # p + 1
      BY <1>2, <1>3, <1>7, <1>11, <2>1
    <3>2. \E l \in 1..N : Pending'[j] = Pending[l]
      BY <1>7, <3>1
    <3> QED  BY <3>1, <3>2
  <2>2. CASE j = p + 1
    <3>1. Pending'[j].task = task /\ i # p + 1
      BY <1>2, <1>3, <1>7, <1>11, <2>2
    <3>2. \E k \in 1..N : Pending'[i] = Pending[k]
      BY <1>7, <3>1
    <3> QED  BY <3>1, <3>2
  <2>3. CASE i # p + 1 /\ j # p + 1
    <3>1. PICK k \in 1..N : Pending'[i] = Pending[k] /\ ((i <= p /\ k = i) \/ (i > p + 1 /\ k = i - 1))
      BY <1>7, <2>3
    <3>2. PICK l \in 1..N : Pending'[j] = Pending[l] /\ ((j <= p /\ l = j) \/ (j > p + 1 /\ l = j - 1))
      BY <1>7, <2>3
    <3>3. k # l
      BY <1>2, <1>11, <3>1, <3>2
    <3> QED  BY <3>1, <3>2, <3>3
  <2> QED  BY <2>1, <2>2, <2>3
<1>12. InOrderOfDeadline'
  BY <1>1, <1>8, <1>9 DEF InOrderOfDeadline
<1>13. \A i \in DOMAIN Pending' :
         Pending'[i].task = task \/ \E j \in DOMAIN Pending : Pending'[i] = Pending[j]
  BY <1>1, <1>10
<1>14. ASSUME NEW i \in DOMAIN Pending', NEW j \in DOMAIN Pending', i # j
       PROVE  \E k, l \in DOMAIN Pending :
                \/ Pending'[i].task = task /\ Pending'[j] = Pending[l]
                \/ Pending'[j].task = task /\ Pending'[i] = Pending[k]
                \/ k # l /\ Pending'[i] = Pending[k] /\ Pending'[j] = Pending[l]
  <2>1. i \in 1..(N + 1) /\ j \in 1..(N + 1)
    BY <1>1, <1>14
  <2>2. \E k, l \in 1..N :
           \/ Pending'[i].task = task /\ Pending'[j] = Pending[l]
           \/ Pending'[j].task = task /\ Pending'[i] = Pending[k]
           \/ k # l /\ Pending'[i] = Pending[k] /\ Pending'[j] = Pending[l]
    BY <1>11, <1>14, <2>1
  <2> QED  BY <1>1, <2>2
<1> QED  BY <1>12, <1>13, <1>14

\* A callback that has run, or had nothing to do, is taken off the queue.
LEMMA Removal ==
  ASSUME TimerTypeOK, InOrderOfDeadline, m_task_queue # <<>>,
         m_task_queue' = Tail(m_task_queue), UNCHANGED <<m_timer_callbacks, now>>,
         lastDue' \in {lastDue, Head(m_task_queue).due}
  PROVE  /\ InOrderOfDeadline'
         /\ 1 \in DOMAIN Pending /\ Pending[1] = Head(m_task_queue) /\ Pending[1] = m_task_queue[1]
         /\ Pending[1] \in Callbacks
         /\ m_task_queue' \in Seq(Callbacks)
         /\ \A i \in DOMAIN Pending' :
              i \in Nat /\ i + 1 \in DOMAIN Pending /\ Pending'[i] = Pending[i + 1] /\ i + 1 # 1
         /\ lastDue' \in Nat
<1> DEFINE m == m_timer_callbacks
           q == m_task_queue
           t == Tail(q)
<1>1. m \in Seq(Callbacks) /\ q \in Seq(Callbacks)
  BY DEF TimerTypeOK
<1>2. /\ t \in Seq(Callbacks) /\ Len(q) >= 1 /\ Len(t) = Len(q) - 1 /\ \A i \in 1..Len(t) : t[i] = q[i + 1]
      /\ Head(q) = q[1] /\ q[1] \in Callbacks
  BY <1>1
<1> HIDE DEF t
<1>3. /\ DOMAIN Pending = 1..(Len(q) + Len(m))
      /\ \A i \in 1..(Len(q) + Len(m)) : Pending[i] = IF i <= Len(q) THEN q[i] ELSE m[i - Len(q)]
  BY <1>1, Joined DEF Pending
<1>4. /\ DOMAIN Pending' = 1..(Len(t) + Len(m))
      /\ \A i \in 1..(Len(t) + Len(m)) : Pending'[i] = IF i <= Len(t) THEN t[i] ELSE m[i - Len(t)]
  <2>1. Pending' = t \o m
    BY DEF Pending, t
  <2> QED  BY <1>1, <1>2, <2>1, Joined
<1>5. Len(q) \in Nat /\ Len(m) \in Nat /\ Len(t) \in Nat
  BY <1>1, <1>2
<1>6. 1 \in DOMAIN Pending /\ Pending[1] = Head(q)
  BY <1>2, <1>3, <1>5
<1>7. ASSUME NEW i \in DOMAIN Pending'
      PROVE  i \in Nat /\ i + 1 \in DOMAIN Pending /\ Pending'[i] = Pending[i + 1] /\ i + 1 # 1
  <2>1. i \in Nat /\ i >= 1 /\ i + 1 \in DOMAIN Pending /\ (i <= Len(t) <=> i + 1 <= Len(q)) /\ i - Len(t) = (i + 1) - Len(q)
    BY <1>2, <1>3, <1>4, <1>5
  <2>2. CASE i <= Len(t)
    BY <1>2, <1>3, <1>4, <1>5, <2>1, <2>2
  <2>3. CASE ~(i <= Len(t))
    <3>1. Pending'[i] = m[i - Len(t)]
      BY <1>4, <2>3
    <3>2. Pending[i + 1] = m[(i + 1) - Len(q)]
      BY <1>3, <2>1, <2>3
    <3> QED  BY <2>1, <3>1, <3>2
  <2> QED  BY <2>1, <2>2, <2>3
<1>8. lastDue \in Nat /\ now \in Nat /\ lastDue <= now /\ q[1].due <= now /\ q[1].due \in Nat
  <2>1. 1 \in DOMAIN q /\ q[1].due \in Nat
    BY <1>1, <1>2 DEF Callbacks
  <2>2. q[1].due <= now
    BY <2>1 DEF InOrderOfDeadline
  <2> QED  BY <2>1, <2>2 DEF InOrderOfDeadline, TimerTypeOK
<1>9. lastDue' \in Nat /\ lastDue' <= now /\ lastDue' <= Pending[1].due
  BY <1>2, <1>6, <1>8 DEF InOrderOfDeadline
<1>10. ASSUME NEW i \in DOMAIN Pending' PROVE lastDue' <= Pending'[i].due
  <2>1. i + 1 \in DOMAIN Pending /\ 1 < i + 1 /\ Pending'[i] = Pending[i + 1]
    BY <1>7
  <2>2. Pending[1].due <= Pending[i + 1].due /\ lastDue <= Pending[i + 1].due
    BY <1>6, <2>1 DEF InOrderOfDeadline
  <2>3. lastDue' = lastDue \/ lastDue' = Pending[1].due
    BY <1>6
  <2> QED  BY <2>1, <2>2, <2>3
<1>11. ASSUME NEW i \in DOMAIN Pending', NEW j \in DOMAIN Pending', i < j
       PROVE  Pending'[i].due <= Pending'[j].due
  <2>1. /\ i + 1 \in DOMAIN Pending /\ j + 1 \in DOMAIN Pending /\ i + 1 < j + 1
        /\ Pending'[i] = Pending[i + 1] /\ Pending'[j] = Pending[j + 1]
    BY <1>7, <1>11
  <2>2. Pending[i + 1].due <= Pending[j + 1].due
    BY <2>1 DEF InOrderOfDeadline
  <2> QED  BY <2>1, <2>2
<1>12. \A i \in DOMAIN t : t[i].due <= now
  <2>1. SUFFICES ASSUME NEW i \in DOMAIN t PROVE t[i].due <= now
    OBVIOUS
  <2>2. i \in 1..Len(t) /\ i + 1 \in DOMAIN q
    BY <1>1, <1>2
  <2>3. q[i + 1].due <= now
    BY <2>2 DEF InOrderOfDeadline
  <2> QED  BY <1>2, <2>2, <2>3
<1>13. InOrderOfDeadline'
  BY <1>9, <1>10, <1>11, <1>12 DEF InOrderOfDeadline, t
<1> QED  BY <1>2, <1>6, <1>7, <1>9, <1>13 DEF t

TaskInfo == [periodic : BOOLEAN, times : Int]

LEMMA Appended ==
  ASSUME NEW S, NEW s \in Seq(S), NEW x \in S
  PROVE  /\ Append(s, x) \in Seq(S) /\ Len(Append(s, x)) = Len(s) + 1
         /\ DOMAIN s = 1..Len(s) /\ DOMAIN Append(s, x) = 1..(Len(s) + 1) /\ Len(s) \in Nat
         /\ \A i \in 1..Len(s) : Append(s, x)[i] = s[i]
         /\ Append(s, x)[Len(s) + 1] = x
OBVIOUS

\* A task is added, with its first callback.
LEMMA AddKeeps ==
  ASSUME TimerInv, NEW time \in Nat, NEW r \in TaskInfo,
         tasks' = Append(tasks, r), ran' = Append(ran, 0),
         m_timer_callbacks' = Inserted(now + time, Len(tasks')), timer' = Notified(timer),
         UNCHANGED <<now, m_task_queue, lastDue, cancelled>>,
         ~r.periodic => r.times = 1 /\ UNCHANGED m_periodic_tasks,
         r.periodic => m_periodic_tasks' =
           Assign(m_periodic_tasks, Len(tasks'), [time |-> time, remain_times |-> r.times])
  PROVE  TimerInv'
<1> DEFINE k == Len(tasks) + 1
<1>1. /\ tasks' \in Seq(TaskInfo) /\ Len(tasks') = k /\ DOMAIN tasks = 1..Len(tasks)
      /\ DOMAIN tasks' = 1..k /\ Len(tasks) \in Nat
      /\ \A j \in 1..Len(tasks) : tasks'[j] = tasks[j]
      /\ tasks'[k] = r
  BY Appended DEF TimerInv, TimerTypeOK, TaskInfo
<1>2. /\ ran' \in Seq(Nat) /\ Len(ran') = k
      /\ \A j \in 1..Len(tasks) : ran'[j] = ran[j] /\ ran[j] \in Nat
      /\ ran'[k] = 0
  <2>1. ran \in Seq(Nat) /\ Len(ran) = Len(tasks) /\ 0 \in Nat
    BY DEF TimerInv, TimerTypeOK
  <2>2. /\ Append(ran, 0) \in Seq(Nat) /\ Len(Append(ran, 0)) = Len(ran) + 1
        /\ \A i \in 1..Len(ran) : Append(ran, 0)[i] = ran[i]
        /\ Append(ran, 0)[Len(ran) + 1] = 0
    BY <2>1, Appended
  <2> QED  BY <2>1, <2>2
<1>3. now \in Nat /\ now + time \in Nat /\ now <= now + time /\ k \in Nat /\ k \notin 1..Len(tasks) /\ k \in 1..k
      /\ 1..k = 1..Len(tasks) \cup {k}
  BY <1>1 DEF TimerInv, TimerTypeOK
<1>4. m_timer_callbacks' = Inserted(now + time, k)
  BY <1>1
<1> HIDE DEF k
<1>5. /\ InOrderOfDeadline'
      /\ \A i \in DOMAIN Pending' :
           Pending'[i].task = k \/ \E j \in DOMAIN Pending : Pending'[i] = Pending[j]
      /\ \A i, j \in DOMAIN Pending' : i # j =>
           \E a, b \in DOMAIN Pending :
             \/ Pending'[i].task = k /\ Pending'[j] = Pending[b]
             \/ Pending'[j].task = k /\ Pending'[i] = Pending[a]
             \/ a # b /\ Pending'[i] = Pending[a] /\ Pending'[j] = Pending[b]
      /\ m_timer_callbacks' \in Seq(Callbacks)
  <2>1. TimerTypeOK /\ InOrderOfDeadline
    BY DEF TimerInv
  <2>2. m_timer_callbacks' \in Seq(Callbacks)
    BY <1>3, <1>4, <2>1, Insertion
  <2> QED  BY <1>3, <1>4, <2>1, <2>2, InsertionKeepsOrder
<1>6. /\ timer' \in [at : {"runs", "dozing", "asleep", "woken", "calls", "ended"}, until : Nat \cup {Never}]
      /\ timer'.at = "calls" <=> timer.at = "calls"
      /\ timer'.at \in {"dozing", "asleep", "woken"} => timer.at \in {"dozing", "asleep", "woken"}
  BY DEF Notified, TimerInv, TimerTypeOK
<1>7. \A j : Calls(j)' = Calls(j)
  BY <1>6 DEF Calls
<1>8. \A i \in DOMAIN Pending : Pending[i].task \in 1..Len(tasks)
  BY <1>1 DEF TimerInv, TimerTypeOK
<1>9. /\ m_periodic_tasks' = [j \in DOMAIN m_periodic_tasks' |-> m_periodic_tasks'[j]]
      /\ \A j \in DOMAIN m_periodic_tasks' :
           \/ j \in DOMAIN m_periodic_tasks /\ m_periodic_tasks'[j] = m_periodic_tasks[j]
           \/ j = k /\ r.periodic /\ m_periodic_tasks'[j] = [time |-> time, remain_times |-> r.times]
  <2>1. CASE ~r.periodic
    BY <2>1 DEF TimerInv, TimerTypeOK
  <2>2. CASE r.periodic
    <3>1. m_periodic_tasks' = Assign(m_periodic_tasks, k, [time |-> time, remain_times |-> r.times])
      BY <1>1, <2>2
    <3> QED  BY <2>2, <3>1 DEF Assign
  <2> QED  BY <2>1, <2>2 DEF TaskInfo
<1>10. \A j \in DOMAIN m_periodic_tasks' :
         /\ j \in DOMAIN tasks' /\ tasks'[j].periodic
         /\ m_periodic_tasks'[j] \in [time : Nat, remain_times : Int]
  <2>1. SUFFICES ASSUME NEW j \in DOMAIN m_periodic_tasks'
                 PROVE  /\ j \in DOMAIN tasks' /\ tasks'[j].periodic
                        /\ m_periodic_tasks'[j] \in [time : Nat, remain_times : Int]
    OBVIOUS
  <2>2. CASE j \in DOMAIN m_periodic_tasks /\ m_periodic_tasks'[j] = m_periodic_tasks[j]
    BY <1>1, <1>3, <2>2 DEF TimerInv, TimerTypeOK
  <2>3. CASE j = k /\ r.periodic /\ m_periodic_tasks'[j] = [time |-> time, remain_times |-> r.times]
    BY <1>1, <1>3, <2>3 DEF TaskInfo
  <2> QED  BY <1>9, <2>1, <2>2, <2>3
<1>11. \A j \in DOMAIN cancelled :
         j \in 1..Len(tasks) /\ j \in DOMAIN tasks' /\ tasks'[j].periodic /\ j \notin DOMAIN m_periodic_tasks'
  BY <1>1, <1>3, <1>9 DEF TimerInv, TimerTypeOK
<1>12. \A i \in DOMAIN Pending' : Pending'[i].task \in DOMAIN tasks'
  BY <1>1, <1>3, <1>5, <1>8
<1>13. TimerTypeOK'
  BY <1>1, <1>2, <1>5, <1>6, <1>9, <1>10, <1>11, <1>12 DEF TimerInv, TimerTypeOK, TaskInfo
<1>14. TakenWhenEmpty'
  <2>1. timer.at = "calls" => m_task_queue[1].task \in 1..Len(tasks)
    <3>1. SUFFICES ASSUME timer.at = "calls" PROVE m_task_queue[1].task \in 1..Len(tasks)
      OBVIOUS
    <3>2. /\ m_task_queue \in Seq(Callbacks) /\ m_timer_callbacks \in Seq(Callbacks)
          /\ m_task_queue # <<>>
      BY <3>1 DEF TimerInv, TimerTypeOK, TakenWhenEmpty
    <3>3. 1 \in DOMAIN Pending /\ Pending[1] = m_task_queue[1]
      BY <3>2, Joined DEF Pending
    <3> QED  BY <1>8, <3>3
  <2> QED  BY <1>1, <1>6, <2>1 DEF TimerInv, TakenWhenEmpty
<1>15. OneShotOnce'
  <2>1. ASSUME NEW i \in DOMAIN Pending', NEW j \in DOMAIN Pending',
               Pending'[i].task = Pending'[j].task, ~tasks'[Pending'[i].task].periodic, i # j
        PROVE  FALSE
    <3>1. PICK a \in DOMAIN Pending, b \in DOMAIN Pending :
            \/ Pending'[i].task = k /\ Pending'[j] = Pending[b]
            \/ Pending'[j].task = k /\ Pending'[i] = Pending[a]
            \/ a # b /\ Pending'[i] = Pending[a] /\ Pending'[j] = Pending[b]
      BY <1>5, <2>1
    <3>2. a # b /\ Pending'[i] = Pending[a] /\ Pending'[j] = Pending[b]
      BY <1>3, <1>8, <2>1, <3>1
    <3>3. ~tasks[Pending[a].task].periodic /\ Pending[a].task = Pending[b].task
      BY <1>1, <1>8, <2>1, <3>2
    <3> QED  BY <3>2, <3>3 DEF TimerInv, OneShotOnce
  <2>2. ASSUME NEW i \in DOMAIN Pending', ~tasks'[Pending'[i].task].periodic
        PROVE  ran'[Pending'[i].task] = 0
    <3>1. CASE Pending'[i].task = k
      BY <1>2, <3>1
    <3>2. CASE \E j \in DOMAIN Pending : Pending'[i] = Pending[j]
      <4>1. PICK j \in DOMAIN Pending : Pending'[i] = Pending[j]
        BY <3>2
      <4>2. Pending[j].task \in 1..Len(tasks) /\ ~tasks[Pending[j].task].periodic
        BY <1>1, <1>8, <2>2, <4>1
      <4>3. ran[Pending[j].task] = 0
        BY <4>2 DEF TimerInv, OneShotOnce
      <4> QED  BY <1>2, <4>1, <4>2, <4>3
    <3> QED  BY <1>5, <3>1, <3>2
  <2>3. ASSUME NEW j \in DOMAIN tasks', ~tasks'[j].periodic
        PROVE  ran'[j] <= 1 /\ tasks'[j].times = 1
    <3>1. CASE j = k
      BY <1>1, <1>2, <2>3, <3>1
    <3>2. CASE j \in 1..Len(tasks)
      BY <1>1, <1>2, <2>3, <3>2 DEF TimerInv, OneShotOnce
    <3> QED  BY <1>1, <1>3, <3>1, <3>2
  <2> QED  BY <2>1, <2>2, <2>3 DEF OneShotOnce
<1>16. Calls(k) = 0
  <2>1. SUFFICES ASSUME timer.at = "calls" PROVE Head(m_task_queue).task # k
    BY DEF Calls
  <2>2. /\ m_task_queue \in Seq(Callbacks) /\ m_timer_callbacks \in Seq(Callbacks)
        /\ m_task_queue # <<>>
    BY <2>1 DEF TimerInv, TimerTypeOK, TakenWhenEmpty
  <2>3. 1 \in DOMAIN Pending /\ Pending[1] = m_task_queue[1] /\ Head(m_task_queue) = m_task_queue[1]
    BY <2>2, Joined DEF Pending
  <2> QED  BY <1>3, <1>8, <2>3
<1>17. PeriodicCounts'
  <2>1. ASSUME NEW j \in DOMAIN m_periodic_tasks', tasks'[j].times >= 0
        PROVE  /\ m_periodic_tasks'[j].remain_times >= 0
               /\ ran'[j] + Calls(j) + m_periodic_tasks'[j].remain_times <= tasks'[j].times
    <3>1. CASE j \in DOMAIN m_periodic_tasks /\ m_periodic_tasks'[j] = m_periodic_tasks[j]
      <4>1. j \in 1..Len(tasks)
        BY <1>1, <3>1 DEF TimerInv, TimerTypeOK
      <4> QED  BY <1>1, <1>2, <2>1, <3>1, <4>1 DEF TimerInv, PeriodicCounts
    <3>2. CASE j = k /\ r.periodic /\ m_periodic_tasks'[j] = [time |-> time, remain_times |-> r.times]
      BY <1>1, <1>2, <1>16, <2>1, <3>2 DEF TaskInfo
    <3> QED  BY <1>9, <2>1, <3>1, <3>2
  <2>2. ASSUME NEW j \in DOMAIN tasks', tasks'[j].periodic, tasks'[j].times >= 0
        PROVE  ran'[j] + Calls(j) <= tasks'[j].times
    <3>1. CASE j = k
      BY <1>1, <1>2, <1>16, <2>2, <3>1 DEF TaskInfo
    <3>2. CASE j \in 1..Len(tasks)
      BY <1>1, <1>2, <2>2, <3>2 DEF TimerInv, PeriodicCounts
    <3> QED  BY <1>1, <1>3, <3>1, <3>2
  <2>3. ASSUME NEW j \in DOMAIN cancelled PROVE ran'[j] + Calls(j) <= cancelled[j] + 1
    BY <1>2, <1>11 DEF TimerInv, PeriodicCounts
  <2> QED  BY <1>7, <2>1, <2>2, <2>3 DEF PeriodicCounts
<1> QED  BY <1>5, <1>13, <1>14, <1>15, <1>17 DEF TimerInv

\* The callback at work.
LEMMA HeadOfQueue ==
  ASSUME TimerInv, m_task_queue # <<>>
  PROVE  /\ Head(m_task_queue) = m_task_queue[1] /\ Head(m_task_queue) \in Callbacks
         /\ 1 \in DOMAIN Pending /\ Pending[1] = Head(m_task_queue)
         /\ Head(m_task_queue).task \in DOMAIN tasks /\ Head(m_task_queue).task \in DOMAIN ran
         /\ Head(m_task_queue).due \in Nat
<1>1. m_task_queue \in Seq(Callbacks) /\ m_timer_callbacks \in Seq(Callbacks)
  BY DEF TimerInv, TimerTypeOK
<1>2. 1 \in DOMAIN Pending /\ Pending[1] = m_task_queue[1] /\ Head(m_task_queue) = m_task_queue[1]
  BY <1>1, Joined DEF Pending
<1>3. Head(m_task_queue) \in Callbacks
  BY <1>1
<1>4. Pending[1].task \in DOMAIN tasks /\ DOMAIN ran = DOMAIN tasks
  BY <1>2 DEF TimerInv, TimerTypeOK
<1> QED  BY <1>2, <1>3, <1>4 DEF Callbacks

LEMMA HistoryTyped ==
  ASSUME TimerInv
  PROVE  \A j \in DOMAIN tasks : ran[j] \in Nat /\ tasks[j].times \in Int
<1>1. /\ ran \in Seq(Nat) /\ Len(ran) = Len(tasks)
      /\ tasks \in Seq([periodic : BOOLEAN, times : Int])
  BY DEF TimerInv, TimerTypeOK
<1>2. \A j \in DOMAIN tasks : j \in DOMAIN ran
  <2>1. DOMAIN ran = 1..Len(ran)
    BY <1>1
  <2>2. DOMAIN tasks = 1..Len(tasks)
    BY <1>1
  <2> QED  BY <1>1, <2>1, <2>2
<1> DEFINE S == [periodic : BOOLEAN, times : Int]
<1>3. ran \in Seq(Nat) /\ tasks \in Seq(S)
  BY <1>1
<1> HIDE DEF S
<1>4. (\A j \in DOMAIN ran : ran[j] \in Nat) /\ (\A j \in DOMAIN tasks : tasks[j] \in S)
  BY <1>3
<1> QED  BY <1>2, <1>4 DEF S

\* A round of a periodic task: its count goes down by the run it is about to make.
LEMMA RunPeriodicKeeps ==
  ASSUME TimerInv, RunPeriodicTask
  PROVE  TimerInv'
<1> DEFINE task == Head(m_task_queue).task
           info == m_periodic_tasks[task]
           left == info.remain_times
<1>1. /\ timer.at = "runs" /\ m_task_queue # <<>> /\ task \in DOMAIN m_periodic_tasks /\ left # 0
      /\ m_periodic_tasks' =
           IF left > 0 THEN [m_periodic_tasks EXCEPT ![task].remain_times = left - 1] ELSE m_periodic_tasks
      /\ m_timer_callbacks' = Inserted(now + info.time, task)
      /\ timer' = [timer EXCEPT !.at = "calls"]
      /\ UNCHANGED <<now, m_task_queue, tasks, ran, lastDue, cancelled>>
  BY DEF RunPeriodicTask, timerHistory
<1>2. /\ Head(m_task_queue) = m_task_queue[1] /\ task \in DOMAIN tasks /\ tasks[task].periodic
      /\ info \in [time : Nat, remain_times : Int] /\ task \in Nat
  <2>1. Head(m_task_queue) = m_task_queue[1] /\ Head(m_task_queue) \in Callbacks
    BY <1>1, HeadOfQueue
  <2> QED  BY <1>1, <2>1 DEF TimerInv, TimerTypeOK, Callbacks
<1>3. timer' \in [at : {"runs", "dozing", "asleep", "woken", "calls", "ended"}, until : Nat \cup {Never}] /\ timer'.at = "calls"
  BY <1>1 DEF TimerInv, TimerTypeOK
<1>4. /\ DOMAIN m_periodic_tasks' = DOMAIN m_periodic_tasks
      /\ m_periodic_tasks' = [j \in DOMAIN m_periodic_tasks' |-> m_periodic_tasks'[j]]
      /\ \A j \in DOMAIN m_periodic_tasks : m_periodic_tasks'[j] \in [time : Nat, remain_times : Int]
      /\ \A j \in DOMAIN m_periodic_tasks : j # task => m_periodic_tasks'[j] = m_periodic_tasks[j]
      /\ left > 0 => m_periodic_tasks'[task].remain_times = left - 1
  <2>1. CASE left > 0
    <3> DEFINE d == [info EXCEPT !.remain_times = left - 1]
    <3>1. left \in Int /\ left - 1 \in Int
      BY <1>2
    <3>2. d \in [time : Nat, remain_times : Int] /\ d.remain_times = left - 1
      <4> DEFINE n == left - 1
      <4>1. n \in Int
        BY <3>1
      <4> HIDE DEF n
      <4>2. [info EXCEPT !.remain_times = n] \in [time : Nat, remain_times : Int] /\ [info EXCEPT !.remain_times = n].remain_times = n
        BY <1>2, <4>1
      <4> QED  BY <4>2 DEF n
    <3>3. m_periodic_tasks' = [m_periodic_tasks EXCEPT ![task] = d]
      BY <1>1, <2>1
    <3> HIDE DEF d, task
    <3>4. /\ DOMAIN m_periodic_tasks' = DOMAIN m_periodic_tasks
          /\ m_periodic_tasks' = [j \in DOMAIN m_periodic_tasks' |-> m_periodic_tasks'[j]]
          /\ \A j \in DOMAIN m_periodic_tasks : j # task => m_periodic_tasks'[j] = m_periodic_tasks[j]
          /\ m_periodic_tasks'[task] = d
      BY <1>1, <3>3
    <3>5. \A j \in DOMAIN m_periodic_tasks : m_periodic_tasks[j] \in [time : Nat, remain_times : Int]
      BY DEF TimerInv, TimerTypeOK
    <3>6. \A j \in DOMAIN m_periodic_tasks : m_periodic_tasks'[j] \in [time : Nat, remain_times : Int]
      BY <3>2, <3>4, <3>5
    <3> QED  BY <3>2, <3>4, <3>6
  <2>2. CASE ~(left > 0)
    BY <1>1, <2>2 DEF TimerInv, TimerTypeOK
  <2> QED  BY <2>1, <2>2
<1>5. now \in Nat /\ now + info.time \in Nat /\ now <= now + info.time
  <2>1. now \in Nat /\ info.time \in Nat
    BY <1>2 DEF TimerInv, TimerTypeOK
  <2> QED  BY <2>1
<1> HIDE DEF task
<1>6. /\ InOrderOfDeadline'
      /\ \A i \in DOMAIN Pending' :
           Pending'[i].task = task \/ \E j \in DOMAIN Pending : Pending'[i] = Pending[j]
      /\ \A i, j \in DOMAIN Pending' : i # j =>
           \E a, b \in DOMAIN Pending :
             \/ Pending'[i].task = task /\ Pending'[j] = Pending[b]
             \/ Pending'[j].task = task /\ Pending'[i] = Pending[a]
             \/ a # b /\ Pending'[i] = Pending[a] /\ Pending'[j] = Pending[b]
      /\ m_timer_callbacks' \in Seq(Callbacks)
  <2>1. TimerTypeOK /\ InOrderOfDeadline /\ UNCHANGED <<m_task_queue, now, lastDue>>
    BY <1>1 DEF TimerInv
  <2>2. m_timer_callbacks' \in Seq(Callbacks)
    BY <1>1, <1>2, <1>5, <2>1, Insertion
  <2> QED  BY <1>1, <1>2, <1>5, <2>1, <2>2, InsertionKeepsOrder
<1>7. \A i \in DOMAIN Pending : Pending[i].task \in DOMAIN tasks
  BY DEF TimerInv, TimerTypeOK
<1>8. \A i \in DOMAIN Pending' : Pending'[i].task \in DOMAIN tasks
  BY <1>2, <1>6, <1>7
<1>9. TimerTypeOK'
  <2>1. \A j \in DOMAIN m_periodic_tasks' :
          /\ j \in DOMAIN tasks' /\ tasks'[j].periodic
          /\ m_periodic_tasks'[j] \in [time : Nat, remain_times : Int]
    BY <1>1, <1>4 DEF TimerInv, TimerTypeOK
  <2>2. /\ cancelled' = [j \in DOMAIN cancelled' |-> cancelled'[j]]
        /\ \A j \in DOMAIN cancelled' :
             /\ j \in DOMAIN tasks' /\ tasks'[j].periodic /\ cancelled'[j] \in Nat
             /\ j \notin DOMAIN m_periodic_tasks'
    BY <1>1, <1>4 DEF TimerInv, TimerTypeOK
  <2>3. /\ now' \in Nat /\ m_task_queue' \in Seq(Callbacks) /\ lastDue' \in Nat
        /\ tasks' \in Seq([periodic : BOOLEAN, times : Int])
        /\ ran' \in Seq(Nat) /\ Len(ran') = Len(tasks')
    BY <1>1 DEF TimerInv, TimerTypeOK
  <2>4. \A i \in DOMAIN Pending' : Pending'[i].task \in DOMAIN tasks'
    BY <1>1, <1>8
  <2> QED  BY <1>3, <1>4, <1>6, <2>1, <2>2, <2>3, <2>4 DEF TimerTypeOK
<1>10. TakenWhenEmpty'
  BY <1>1, <1>2, <1>3 DEF TakenWhenEmpty, task
<1>11. OneShotOnce'
  <2>1. ASSUME NEW i \in DOMAIN Pending', NEW j \in DOMAIN Pending',
               Pending'[i].task = Pending'[j].task, ~tasks[Pending'[i].task].periodic, i # j
        PROVE  FALSE
    <3>1. PICK a \in DOMAIN Pending, b \in DOMAIN Pending :
            \/ Pending'[i].task = task /\ Pending'[j] = Pending[b]
            \/ Pending'[j].task = task /\ Pending'[i] = Pending[a]
            \/ a # b /\ Pending'[i] = Pending[a] /\ Pending'[j] = Pending[b]
      BY <1>6, <2>1
    <3>2. a # b /\ Pending'[i] = Pending[a] /\ Pending'[j] = Pending[b]
      BY <1>2, <2>1, <3>1
    <3> QED  BY <2>1, <3>2 DEF TimerInv, OneShotOnce
  <2>2. ASSUME NEW i \in DOMAIN Pending', ~tasks[Pending'[i].task].periodic
        PROVE  ran[Pending'[i].task] = 0
    <3>1. PICK j \in DOMAIN Pending : Pending'[i] = Pending[j]
      BY <1>2, <1>6, <2>2
    <3> QED  BY <2>2, <3>1 DEF TimerInv, OneShotOnce
  <2> QED  BY <1>1, <2>1, <2>2 DEF TimerInv, OneShotOnce
<1>12. /\ \A j : Calls(j) = 0 /\ (j # task => Calls(j)' = 0)
       /\ Calls(task)' = 1
  BY <1>1, <1>3 DEF Calls, task
<1>13. \A j \in DOMAIN tasks : ran[j] \in Nat /\ tasks[j].times \in Int
  BY HistoryTyped
<1>14. tasks[task].times >= 0 =>
         /\ left > 0 /\ left \in Int
         /\ ran[task] + left <= tasks[task].times
  BY <1>1, <1>2, <1>12, <1>13 DEF TimerInv, PeriodicCounts
<1>15. PeriodicCounts'
  <2>1. ASSUME NEW j \in DOMAIN m_periodic_tasks, tasks[j].times >= 0
        PROVE  /\ m_periodic_tasks'[j].remain_times >= 0
               /\ ran[j] + Calls(j)' + m_periodic_tasks'[j].remain_times <= tasks[j].times
    <3>1. CASE j = task
      <4>1. m_periodic_tasks'[j].remain_times = left - 1
        BY <1>4, <1>14, <2>1, <3>1
      <4> QED  BY <1>2, <1>12, <1>13, <1>14, <2>1, <3>1, <4>1
    <3>2. CASE j # task
      BY <1>4, <1>12, <2>1, <3>2 DEF TimerInv, PeriodicCounts
    <3> QED  BY <3>1, <3>2
  <2>2. ASSUME NEW j \in DOMAIN tasks, tasks[j].periodic, tasks[j].times >= 0
        PROVE  ran[j] + Calls(j)' <= tasks[j].times
    <3>1. CASE j = task
      BY <1>2, <1>12, <1>13, <1>14, <2>2, <3>1
    <3>2. CASE j # task
      BY <1>12, <2>2, <3>2 DEF TimerInv, PeriodicCounts
    <3> QED  BY <3>1, <3>2
  <2>3. ASSUME NEW j \in DOMAIN cancelled PROVE ran[j] + Calls(j)' <= cancelled[j] + 1
    <3>1. j # task
      BY <1>1 DEF TimerInv, TimerTypeOK
    <3> QED  BY <1>12, <3>1 DEF TimerInv, PeriodicCounts
  <2> QED  BY <1>1, <1>4, <2>1, <2>2, <2>3 DEF PeriodicCounts
<1> QED  BY <1>6, <1>9, <1>10, <1>11, <1>15 DEF TimerInv

\* A callback leaves the queue: run, or with nothing to do.
LEMMA LeavesKeeps ==
  ASSUME TimerInv, m_task_queue # <<>>, m_task_queue' = Tail(m_task_queue),
         UNCHANGED <<now, m_timer_callbacks, tasks, cancelled>>,
         NEW task, task = Head(m_task_queue).task,
         \/ /\ ran' = [ran EXCEPT ![task] = ran[task] + 1] /\ lastDue' = Head(m_task_queue).due
            /\ UNCHANGED m_periodic_tasks
            /\ timer' = [timer EXCEPT !.at = "runs"]
            /\ IF tasks[task].periodic THEN timer.at = "calls" ELSE timer.at = "runs"
         \/ /\ UNCHANGED <<ran, lastDue, timer>> /\ timer.at = "runs"
            /\ m_periodic_tasks' = [t \in DOMAIN m_periodic_tasks \ {task} |-> m_periodic_tasks[t]]
  PROVE  TimerInv'
<1>1. /\ task \in DOMAIN tasks /\ task \in DOMAIN ran /\ Head(m_task_queue).due \in Nat
      /\ 1 \in DOMAIN Pending /\ Pending[1].task = task
  BY HeadOfQueue
<1>2. /\ InOrderOfDeadline'
      /\ m_task_queue' \in Seq(Callbacks)
      /\ \A i \in DOMAIN Pending' :
           i \in Nat /\ i + 1 \in DOMAIN Pending /\ Pending'[i] = Pending[i + 1] /\ i + 1 # 1
      /\ lastDue' \in Nat
  <2>1. TimerTypeOK /\ InOrderOfDeadline /\ lastDue' \in {lastDue, Head(m_task_queue).due}
    BY DEF TimerInv
  <2> QED  BY <2>1, Removal
<1>3. /\ timer' \in [at : {"runs", "dozing", "asleep", "woken", "calls", "ended"}, until : Nat \cup {Never}]
      /\ timer'.at = "runs"
  BY DEF TimerInv, TimerTypeOK
<1>4. /\ m_periodic_tasks' = [k \in DOMAIN m_periodic_tasks' |-> m_periodic_tasks'[k]]
      /\ \A j \in DOMAIN m_periodic_tasks' :
           j \in DOMAIN m_periodic_tasks /\ m_periodic_tasks'[j] = m_periodic_tasks[j]
  BY DEF TimerInv, TimerTypeOK
<1>5. /\ ran' \in Seq(Nat) /\ Len(ran') = Len(tasks)
      /\ \A j \in DOMAIN tasks : j # task => ran'[j] = ran[j]
      /\ \A j \in DOMAIN tasks : ran[j] \in Nat
      /\ ran'[task] = ran[task] + 1 \/ ran'[task] = ran[task]
      /\ ran'[task] = ran[task] + 1 => IF tasks[task].periodic THEN timer.at = "calls" ELSE timer.at = "runs"
  <2>1. ran \in Seq(Nat) /\ Len(ran) = Len(tasks) /\ DOMAIN ran = DOMAIN tasks
    BY DEF TimerInv, TimerTypeOK
  <2>2. ran[task] \in Nat
    BY <1>1, <2>1
  <2>3. CASE ran' = [ran EXCEPT ![task] = ran[task] + 1] /\ (IF tasks[task].periodic THEN timer.at = "calls" ELSE timer.at = "runs")
    <3> DEFINE n == ran[task] + 1
    <3>1. n \in Nat /\ ran' = [ran EXCEPT ![task] = n]
      BY <2>2, <2>3
    <3> HIDE DEF n
    <3>2. ran' \in Seq(Nat) /\ Len(ran') = Len(ran) /\ ran'[task] = n /\ \A j \in DOMAIN ran : j # task => ran'[j] = ran[j]
      BY <1>1, <2>1, <3>1
    <3> QED  BY <2>1, <2>3, <3>2 DEF n
  <2>4. CASE ran' = ran
    BY <2>1, <2>2, <2>4
  <2> QED  BY <2>3, <2>4
<1>6. TimerTypeOK'
  <2>1. \A j \in DOMAIN m_periodic_tasks' :
          /\ j \in DOMAIN tasks' /\ tasks'[j].periodic
          /\ m_periodic_tasks'[j] \in [time : Nat, remain_times : Int]
    BY <1>4 DEF TimerInv, TimerTypeOK
  <2>2. /\ cancelled' = [j \in DOMAIN cancelled' |-> cancelled'[j]]
        /\ \A j \in DOMAIN cancelled' :
             /\ j \in DOMAIN tasks' /\ tasks'[j].periodic /\ cancelled'[j] \in Nat
             /\ j \notin DOMAIN m_periodic_tasks'
    BY <1>4 DEF TimerInv, TimerTypeOK
  <2>3. /\ now' \in Nat /\ m_timer_callbacks' \in Seq(Callbacks) /\ Len(ran') = Len(tasks')
        /\ tasks' \in Seq([periodic : BOOLEAN, times : Int])
    BY <1>5 DEF TimerInv, TimerTypeOK
  <2>4. \A i \in DOMAIN Pending' : Pending'[i].task \in DOMAIN tasks'
    BY <1>2 DEF TimerInv, TimerTypeOK
  <2> QED  BY <1>2, <1>3, <1>4, <1>5, <2>1, <2>2, <2>3, <2>4 DEF TimerTypeOK
<1>7. TakenWhenEmpty'
  BY <1>3 DEF TakenWhenEmpty
<1>8. OneShotOnce'
  <2>1. ASSUME NEW i \in DOMAIN Pending', NEW j \in DOMAIN Pending',
               Pending'[i].task = Pending'[j].task, ~tasks[Pending'[i].task].periodic
        PROVE  i = j
    <3>1. /\ i \in Nat /\ j \in Nat /\ i + 1 \in DOMAIN Pending /\ j + 1 \in DOMAIN Pending
          /\ Pending'[i] = Pending[i + 1] /\ Pending'[j] = Pending[j + 1]
      BY <1>2
    <3>2. i + 1 = j + 1
      BY <2>1, <3>1 DEF TimerInv, OneShotOnce
    <3> QED  BY <3>1, <3>2
  <2>2. ASSUME NEW i \in DOMAIN Pending', ~tasks[Pending'[i].task].periodic
        PROVE  ran'[Pending'[i].task] = 0
    <3>1. i + 1 \in DOMAIN Pending /\ Pending'[i] = Pending[i + 1] /\ i + 1 # 1
      BY <1>2
    <3>2. Pending[i + 1].task # task /\ ran[Pending[i + 1].task] = 0 /\ Pending[i + 1].task \in DOMAIN tasks
      BY <1>1, <2>2, <3>1 DEF TimerInv, OneShotOnce, TimerTypeOK
    <3> QED  BY <1>5, <3>1, <3>2
  <2>3. ASSUME NEW j \in DOMAIN tasks, ~tasks[j].periodic
        PROVE  ran'[j] <= 1 /\ tasks[j].times = 1
    <3>1. ran[j] <= 1 /\ tasks[j].times = 1
      BY <2>3 DEF TimerInv, OneShotOnce
    <3>2. j = task => ran[j] = 0
      BY <1>1, <2>3 DEF TimerInv, OneShotOnce
    <3> QED  BY <1>5, <3>1, <3>2
  <2> QED  BY <2>1, <2>2, <2>3 DEF OneShotOnce
<1>9. /\ \A j : Calls(j)' = 0
      /\ \A j : Calls(j) \in {0, 1}
      /\ timer.at = "calls" => Calls(task) = 1
  BY <1>3 DEF Calls
<1>10. \A j \in DOMAIN tasks : tasks[j].periodic => ran'[j] + Calls(j)' <= ran[j] + Calls(j)
  <2>1. SUFFICES ASSUME NEW j \in DOMAIN tasks, tasks[j].periodic
                 PROVE  ran'[j] <= ran[j] + Calls(j)
    BY <1>5, <1>9
  <2>2. CASE j = task
    BY <1>5, <1>9, <2>1, <2>2
  <2>3. CASE j # task
    <3>1. ran'[j] = ran[j] /\ ran[j] \in Nat
      BY <1>5, <2>1, <2>3
    <3>2. Calls(j) = 0 \/ Calls(j) = 1
      BY <1>9
    <3> QED  BY <3>1, <3>2
  <2> QED  BY <2>2, <2>3
<1>11. /\ \A j \in DOMAIN tasks : ran'[j] \in Nat /\ ran[j] \in Nat /\ tasks[j].times \in Int
       /\ \A j \in DOMAIN tasks : Calls(j)' \in Nat /\ Calls(j) \in Nat
       /\ \A j \in DOMAIN cancelled : j \in DOMAIN tasks /\ tasks[j].periodic /\ cancelled[j] \in Nat
       /\ \A j \in DOMAIN m_periodic_tasks : j \in DOMAIN tasks /\ tasks[j].periodic /\ m_periodic_tasks[j].remain_times \in Int
  <2>1. \A j \in DOMAIN tasks : ran'[j] \in Nat /\ ran[j] \in Nat /\ tasks[j].times \in Int
    BY <1>5, HistoryTyped
  <2>2. \A j : Calls(j)' \in Nat /\ Calls(j) \in Nat
    <3>1. \A j : Calls(j)' = 0 /\ (Calls(j) = 0 \/ Calls(j) = 1)
      BY <1>9
    <3> QED  BY <3>1
  <2>3. \A j \in DOMAIN cancelled : j \in DOMAIN tasks /\ tasks[j].periodic /\ cancelled[j] \in Nat
    BY DEF TimerInv, TimerTypeOK
  <2>4. \A j \in DOMAIN m_periodic_tasks :
          j \in DOMAIN tasks /\ tasks[j].periodic /\ m_periodic_tasks[j].remain_times \in Int
    BY DEF TimerInv, TimerTypeOK
  <2> QED  BY <2>1, <2>2, <2>3, <2>4
<1>12. PeriodicCounts'
  <2>1. ASSUME NEW j \in DOMAIN m_periodic_tasks', tasks[j].times >= 0
        PROVE  /\ m_periodic_tasks'[j].remain_times >= 0
               /\ ran'[j] + Calls(j)' + m_periodic_tasks'[j].remain_times <= tasks[j].times
    <3>1. j \in DOMAIN m_periodic_tasks /\ m_periodic_tasks'[j] = m_periodic_tasks[j]
      BY <1>4
    <3>2. /\ m_periodic_tasks[j].remain_times >= 0
          /\ ran[j] + Calls(j) + m_periodic_tasks[j].remain_times <= tasks[j].times
      BY <2>1, <3>1 DEF TimerInv, PeriodicCounts
    <3>3. /\ j \in DOMAIN tasks /\ ran'[j] + Calls(j)' <= ran[j] + Calls(j)
          /\ ran'[j] + Calls(j)' \in Int /\ ran[j] + Calls(j) \in Int
          /\ tasks[j].times \in Int /\ m_periodic_tasks[j].remain_times \in Int
      BY <1>10, <1>11, <3>1
    <3> QED  BY <3>1, <3>2, <3>3
  <2>2. ASSUME NEW j \in DOMAIN tasks, tasks[j].periodic, tasks[j].times >= 0
        PROVE  ran'[j] + Calls(j)' <= tasks[j].times
    <3>1. ran[j] + Calls(j) <= tasks[j].times
      BY <2>2 DEF TimerInv, PeriodicCounts
    <3> QED  BY <1>10, <1>11, <2>2, <3>1
  <2>3. ASSUME NEW j \in DOMAIN cancelled PROVE ran'[j] + Calls(j)' <= cancelled[j] + 1
    <3>1. ran[j] + Calls(j) <= cancelled[j] + 1
      BY DEF TimerInv, PeriodicCounts
    <3> QED  BY <1>10, <1>11, <3>1
  <2> QED  BY <2>1, <2>2, <2>3 DEF PeriodicCounts
<1> QED  BY <1>2, <1>6, <1>7, <1>8, <1>12 DEF TimerInv

\* Nothing is added, run or counted: what is to run stays as it is.
LEMMA PendingStays ==
  ASSUME TimerInv, Pending' = Pending,
         m_task_queue' \in Seq(Callbacks) /\ m_timer_callbacks' \in Seq(Callbacks),
         \A i \in DOMAIN m_task_queue' : m_task_queue'[i].due <= now',
         now' \in Nat /\ now <= now', UNCHANGED <<m_periodic_tasks, tasks, ran, lastDue, cancelled>>,
         timer' \in [at : {"runs", "dozing", "asleep", "woken", "calls", "ended"}, until : Nat \cup {Never}],
         timer'.at = "calls" <=> timer.at = "calls",
         timer'.at = "calls" => m_task_queue' = m_task_queue,
         timer'.at \in {"dozing", "asleep", "woken"} => m_task_queue' = <<>>
  PROVE  TimerInv'
<1>1. TimerTypeOK'
  <2>1. \A i \in DOMAIN Pending' : Pending'[i].task \in DOMAIN tasks'
    BY DEF TimerInv, TimerTypeOK
  <2> QED  BY <2>1 DEF TimerInv, TimerTypeOK
<1>2. TakenWhenEmpty'
  BY DEF TimerInv, TakenWhenEmpty
<1>3. InOrderOfDeadline'
  <2>1. now \in Nat /\ lastDue \in Nat /\ lastDue <= now'
    BY DEF TimerInv, TimerTypeOK, InOrderOfDeadline
  <2> QED  BY <2>1 DEF TimerInv, InOrderOfDeadline
<1>4. OneShotOnce'
  BY DEF TimerInv, OneShotOnce
<1>5. \A j : Calls(j)' = Calls(j)
  BY DEF Calls
<1>6. PeriodicCounts'
  BY <1>5 DEF TimerInv, PeriodicCounts
<1> QED  BY <1>1, <1>2, <1>3, <1>4, <1>6 DEF TimerInv

LEMMA WakesKeeps ==
  ASSUME TimerInv, TimerWakes
  PROVE  TimerInv'
<1> DEFINE at == IF ~m_is_running THEN "ended"
                 ELSE IF timer.until <= now \/ First < timer.until THEN "runs"
                 ELSE "dozing"
           n == DueBy(now)
           m == m_timer_callbacks
           a == SubSeq(m, 1, n)
           b == SubSeq(m, n + 1, Len(m))
<1>1. /\ timer.at \in {"woken", "asleep"} /\ timer' = [timer EXCEPT !.at = at]
      /\ IF at = "runs" THEN m_task_queue' = a /\ m' = b ELSE UNCHANGED <<m_task_queue, m>>
      /\ UNCHANGED <<now, m_periodic_tasks, tasks, ran, lastDue, cancelled>>
  BY DEF TimerWakes, timerHistory
<1>2. at \in {"ended", "runs", "dozing"}
  OBVIOUS
<1>3. m \in Seq(Callbacks) /\ now \in Nat /\ m_task_queue = <<>>
  BY <1>1 DEF TimerInv, TimerTypeOK, TakenWhenEmpty
<1>4. n \in 0..Len(m) /\ \A i \in 1..n : m[i].due <= now
  BY <1>3, DueByIs
<1> HIDE DEF at, n
<1>5. /\ a \in Seq(Callbacks) /\ Len(a) = n /\ \A i \in 1..n : a[i] = m[i]
      /\ b \in Seq(Callbacks) /\ Len(b) = Len(m) - n /\ \A i \in 1..(Len(m) - n) : b[i] = m[n + i]
  BY <1>3, <1>4, Cut
<1> HIDE DEF a, b
<1>6. a \o b = m
  <2> DEFINE z == a \o b
  <2>1. /\ z \in Seq(Callbacks) /\ Len(z) = Len(a) + Len(b)
        /\ \A i \in 1..(Len(a) + Len(b)) : z[i] = IF i <= Len(a) THEN a[i] ELSE b[i - Len(a)]
    BY <1>5, Joined
  <2> HIDE DEF z
  <2>2. Len(z) = Len(m) /\ Len(m) \in Nat
    BY <1>3, <1>4, <1>5, <2>1
  <2>3. ASSUME NEW i \in 1..Len(m) PROVE z[i] = m[i]
    <3>1. CASE i <= n
      BY <1>4, <1>5, <2>1, <2>2, <3>1
    <3>2. CASE ~(i <= n)
      <4>1. i - n \in 1..(Len(m) - n) /\ n + (i - n) = i
        BY <1>4, <2>2, <3>2
      <4>2. z[i] = b[i - n]
        BY <1>5, <2>1, <2>2, <3>2
      <4> QED  BY <1>5, <4>1, <4>2
    <3> QED  BY <3>1, <3>2
  <2>4. z = m
    BY <1>3, <2>1, <2>2, <2>3
  <2> QED  BY <2>4 DEF z
<1>7. Pending = m
  BY <1>3 DEF Pending
<1>8. /\ timer' \in [at : {"runs", "dozing", "asleep", "woken", "calls", "ended"}, until : Nat \cup {Never}]
      /\ timer'.at = at
  BY <1>1, <1>2 DEF TimerInv, TimerTypeOK
<1>9. CASE at = "runs"
  <2>1. m_task_queue' = a /\ m' = b
    BY <1>1, <1>9
  <2>2. Pending' = Pending
    BY <1>6, <1>7, <2>1 DEF Pending
  <2>3. \A i \in DOMAIN a : a[i].due <= now
    <3>1. DOMAIN a = 1..n
      BY <1>5
    <3> QED  BY <1>4, <1>5, <3>1
  <2>4. timer.at # "calls" /\ timer'.at = "runs"
    BY <1>1, <1>8, <1>9
  <2> QED  BY <1>1, <1>3, <1>5, <1>8, <2>1, <2>2, <2>3, <2>4, PendingStays
<1>10. CASE at # "runs"
  <2>1. UNCHANGED <<m_task_queue, m>> /\ Pending' = Pending
    BY <1>1, <1>10 DEF Pending
  <2>2. m_task_queue' \in Seq(Callbacks) /\ \A i \in DOMAIN m_task_queue' : m_task_queue'[i].due <= now
    BY <2>1 DEF TimerInv, TimerTypeOK, InOrderOfDeadline
  <2>3. timer.at # "calls" /\ timer'.at # "calls"
    BY <1>1, <1>2, <1>8
  <2> QED  BY <1>1, <1>3, <1>8, <2>1, <2>2, <2>3, PendingStays
<1> QED  BY <1>9, <1>10

LEMMA CancelKeeps ==
  ASSUME TimerInv, NEW task \in DOMAIN m_periodic_tasks, CancelPeriodicTask(task)
  PROVE  TimerInv'
<1>1. /\ m_periodic_tasks' = [t \in DOMAIN m_periodic_tasks \ {task} |-> m_periodic_tasks[t]]
      /\ cancelled' = Assign(cancelled, task, ran[task])
      /\ UNCHANGED <<now, m_timer_callbacks, m_task_queue, timer, tasks, ran, lastDue>>
  BY DEF CancelPeriodicTask
<1>2. /\ m_periodic_tasks' = [t \in DOMAIN m_periodic_tasks' |-> m_periodic_tasks'[t]]
      /\ \A j \in DOMAIN m_periodic_tasks' :
           j \in DOMAIN m_periodic_tasks /\ j # task /\ m_periodic_tasks'[j] = m_periodic_tasks[j]
  BY <1>1
<1>3. /\ cancelled' = [k \in DOMAIN cancelled' |-> cancelled'[k]]
      /\ \A k \in DOMAIN cancelled' :
           \/ k = task /\ cancelled'[k] = ran[task]
           \/ k \in DOMAIN cancelled /\ k # task /\ cancelled'[k] = cancelled[k]
  BY <1>1 DEF Assign
<1>4. /\ task \in DOMAIN tasks /\ tasks[task].periodic /\ task \notin DOMAIN cancelled
      /\ ran[task] \in Nat
  BY HistoryTyped DEF TimerInv, TimerTypeOK
<1>5. Pending' = Pending
  BY <1>1 DEF Pending
<1>6. TimerTypeOK'
  <2>1. \A k \in DOMAIN cancelled' :
          /\ k \in DOMAIN tasks /\ tasks[k].periodic /\ cancelled'[k] \in Nat
          /\ k \notin DOMAIN m_periodic_tasks'
    BY <1>2, <1>3, <1>4 DEF TimerInv, TimerTypeOK
  <2>2. \A k \in DOMAIN m_periodic_tasks' :
          /\ k \in DOMAIN tasks /\ tasks[k].periodic
          /\ m_periodic_tasks'[k] \in [time : Nat, remain_times : Int]
    BY <1>2 DEF TimerInv, TimerTypeOK
  <2> QED  BY <1>1, <1>2, <1>3, <1>5, <2>1, <2>2 DEF TimerInv, TimerTypeOK
<1>7. TakenWhenEmpty' /\ InOrderOfDeadline' /\ OneShotOnce'
  BY <1>1, <1>5 DEF TimerInv, TakenWhenEmpty, InOrderOfDeadline, OneShotOnce
<1>8. \A j : Calls(j)' = Calls(j) /\ (Calls(j) = 0 \/ Calls(j) = 1)
  BY <1>1 DEF Calls
<1>9. PeriodicCounts'
  <2>1. \A j \in DOMAIN m_periodic_tasks' : tasks[j].times >= 0 =>
          /\ m_periodic_tasks'[j].remain_times >= 0
          /\ ran[j] + Calls(j) + m_periodic_tasks'[j].remain_times <= tasks[j].times
    BY <1>2 DEF TimerInv, PeriodicCounts
  <2>2. \A j \in DOMAIN cancelled' : ran[j] + Calls(j) <= cancelled'[j] + 1
    <3>1. ran[task] + Calls(task) <= ran[task] + 1
      BY <1>4, <1>8
    <3> QED  BY <1>3, <3>1 DEF TimerInv, PeriodicCounts
  <2> QED  BY <1>1, <1>8, <2>1, <2>2 DEF TimerInv, PeriodicCounts
<1> QED  BY <1>6, <1>7, <1>9 DEF TimerInv

LEMMA TimerStep ==
  ASSUME TimerInv, [TimerNext]_timerVars
  PROVE  TimerInv'
<1>1. ASSUME NEW time \in Periods, AddTask(time) PROVE TimerInv'
  <2> DEFINE r == [periodic |-> FALSE, times |-> 1]
  <2>1. r \in TaskInfo /\ ~r.periodic /\ r.times = 1 /\ time \in Nat
    BY TimerAssumption DEF TaskInfo
  <2>2. /\ tasks' = Append(tasks, r) /\ ran' = Append(ran, 0)
        /\ m_timer_callbacks' = Inserted(now + time, Len(tasks')) /\ timer' = Notified(timer)
        /\ UNCHANGED <<now, m_task_queue, lastDue, cancelled, m_periodic_tasks>>
    BY <1>1 DEF AddTask
  <2> HIDE DEF r
  <2> QED  BY <2>1, <2>2, AddKeeps
<1>2. ASSUME NEW time \in Periods, NEW times \in Repeats, AddPeriodicTask(time, times) PROVE TimerInv'
  <2> DEFINE r == [periodic |-> TRUE, times |-> times]
  <2>1. r \in TaskInfo /\ r.periodic /\ r.times = times /\ time \in Nat
    BY TimerAssumption DEF TaskInfo
  <2>2. /\ tasks' = Append(tasks, r) /\ ran' = Append(ran, 0)
        /\ m_timer_callbacks' = Inserted(now + time, Len(tasks')) /\ timer' = Notified(timer)
        /\ m_periodic_tasks' = Assign(m_periodic_tasks, Len(tasks'), [time |-> time, remain_times |-> times])
        /\ UNCHANGED <<now, m_task_queue, lastDue, cancelled>>
    BY <1>2 DEF AddPeriodicTask
  <2> HIDE DEF r
  <2> QED  BY <2>1, <2>2, AddKeeps
<1>3. ASSUME NEW task \in DOMAIN m_periodic_tasks, CancelPeriodicTask(task) PROVE TimerInv'
  BY <1>3, CancelKeeps
<1>4. CASE RunPeriodicTask
  BY <1>4, RunPeriodicKeeps
<1>5. CASE TimerRunsOnce \/ CallPeriodic
  <2> DEFINE task == Head(m_task_queue).task
  <2>1. m_task_queue # <<>> /\ task \in DOMAIN tasks /\ Head(m_task_queue) = m_task_queue[1]
    BY <1>5, HeadOfQueue DEF TimerRunsOnce, CallPeriodic, TimerInv, TakenWhenEmpty
  <2>2. IF tasks[task].periodic THEN timer.at = "calls" ELSE timer.at = "runs"
    BY <1>5, <2>1 DEF TimerRunsOnce, CallPeriodic, Periodic, TimerInv, TakenWhenEmpty
  <2>3. timer' = [timer EXCEPT !.at = "runs"]
    BY <1>5 DEF TimerRunsOnce, CallPeriodic, TimerInv, TimerTypeOK
  <2>4. /\ m_task_queue' = Tail(m_task_queue)
        /\ ran' = [ran EXCEPT ![task] = ran[task] + 1] /\ lastDue' = Head(m_task_queue).due
        /\ UNCHANGED <<now, m_timer_callbacks, tasks, cancelled, m_periodic_tasks>>
    BY <1>5 DEF TimerRunsOnce, CallPeriodic, Run
  <2> HIDE DEF task
  <2>5. task = Head(m_task_queue).task
    BY DEF task
  <2> QED  BY <2>1, <2>2, <2>3, <2>4, <2>5, LeavesKeeps
<1>6. CASE EndPeriodic
  BY <1>6, LeavesKeeps DEF EndPeriodic, timerHistory
<1>7. CASE TimerWakes
  BY <1>7, WakesKeeps
<1>8. CASE TimerChecks \/ TimerSleeps \/ StopStores \/ StopNotifies \/ StopJoins \/ Tick \/ UNCHANGED timerVars
  <2>1. /\ UNCHANGED <<m_timer_callbacks, m_task_queue, m_periodic_tasks, tasks, ran, lastDue, cancelled>>
        /\ now' = now \/ now' = now + 1
    BY <1>8 DEF TimerChecks, TimerSleeps, StopStores, StopNotifies, StopJoins, Tick, timerVars, timerHistory
  <2>2. /\ now \in Nat /\ m_task_queue \in Seq(Callbacks) /\ m_timer_callbacks \in Seq(Callbacks)
        /\ \A i \in DOMAIN m_task_queue : m_task_queue[i].due <= now /\ m_task_queue[i].due \in Nat
    <3>1. m_task_queue \in Seq(Callbacks)
      BY DEF TimerInv, TimerTypeOK
    <3>2. \A i \in DOMAIN m_task_queue : m_task_queue[i] \in Callbacks
      BY <3>1
    <3> QED  BY <3>2 DEF TimerInv, TimerTypeOK, InOrderOfDeadline, Callbacks
  <2>3. /\ now' \in Nat /\ now <= now' /\ Pending' = Pending
        /\ \A i \in DOMAIN m_task_queue' : m_task_queue'[i].due <= now'
    BY <2>1, <2>2 DEF Pending
  <2>4. First \in Nat \cup {Never}
    <3>1. CASE m_timer_callbacks = <<>>
      BY <3>1 DEF First
    <3>2. CASE m_timer_callbacks # <<>>
      <4>1. Head(m_timer_callbacks) \in Callbacks
        BY <2>2, <3>2
      <4> QED  BY <3>2, <4>1 DEF First, Callbacks
    <3> QED  BY <3>1, <3>2
  <2>5. /\ timer' \in [at : {"runs", "dozing", "asleep", "woken", "calls", "ended"}, until : Nat \cup {Never}]
        /\ timer'.at = "calls" <=> timer.at = "calls"
        /\ timer'.at \in {"dozing", "asleep", "woken"} => m_task_queue = <<>>
    <3>1. CASE TimerChecks
      BY <2>4, <3>1 DEF TimerChecks, TimerInv, TimerTypeOK
    <3>2. CASE TimerSleeps \/ StopNotifies
      BY <3>2 DEF TimerSleeps, StopNotifies, Notified, TimerInv, TimerTypeOK, TakenWhenEmpty
    <3>3. CASE StopStores \/ StopJoins \/ Tick \/ UNCHANGED timerVars
      BY <3>3 DEF StopStores, StopJoins, Tick, timerVars, TimerInv, TimerTypeOK, TakenWhenEmpty
    <3> QED  BY <1>8, <3>1, <3>2, <3>3
  <2> QED  BY <2>1, <2>2, <2>3, <2>5, PendingStays
<1> QED  BY <1>1, <1>2, <1>3, <1>4, <1>5, <1>6, <1>7, <1>8
         DEF TimerNext, CallerStep, StopStep, TimerThread

LEMMA TimerInitInv == TimerInit => TimerInv
<1>1. SUFFICES ASSUME TimerInit PROVE TimerInv
  OBVIOUS
<1>2. /\ m_timer_callbacks = <<>> /\ m_task_queue = <<>> /\ m_periodic_tasks = <<>> /\ tasks = <<>>
      /\ ran = <<>> /\ cancelled = <<>> /\ now = 0 /\ lastDue = 0 /\ timer = [at |-> "runs", until |-> Never]
  BY <1>1 DEF TimerInit
<1>3. /\ \A S : <<>> \in Seq(S)
      /\ DOMAIN <<>> = {} /\ Len(<<>>) = 0 /\ <<>> \o <<>> = <<>>
  OBVIOUS
<1>4. Pending = <<>>
  BY <1>2, <1>3 DEF Pending
<1>5. <<>> = [k \in DOMAIN <<>> |-> <<>>[k]]
  BY <1>3
<1>6. TimerTypeOK
  BY <1>2, <1>3, <1>4, <1>5 DEF TimerTypeOK
<1> QED  BY <1>2, <1>3, <1>4, <1>6
         DEF TimerInv, TakenWhenEmpty, InOrderOfDeadline, OneShotOnce, PeriodicCounts

\* RunsAsOftenAsAsked: a task never runs more often than it was added for, a cancelled
\* one at most once more (execute_periodic_task counts down before it calls).
THEOREM RunsAsAsked == TimerSpec => []RunsAsOftenAsAsked
<1>1. TimerInv => RunsAsOftenAsAsked
  <2>1. SUFFICES ASSUME TimerInv PROVE RunsAsOftenAsAsked
    OBVIOUS
  <2>2. \A j : Calls(j) = 0 \/ Calls(j) = 1
    BY DEF Calls
  <2>3. ASSUME NEW k \in DOMAIN tasks, tasks[k].times >= 0 PROVE ran[k] <= tasks[k].times
    <3>1. CASE tasks[k].periodic
      <4>1. ran[k] + Calls(k) <= tasks[k].times
        BY <2>1, <2>3, <3>1 DEF TimerInv, PeriodicCounts
      <4> QED  BY <2>1, <2>2, <4>1, HistoryTyped
    <3>2. CASE ~tasks[k].periodic
      BY <2>1, <3>2 DEF TimerInv, OneShotOnce
    <3> QED  BY <3>1, <3>2
  <2>4. ASSUME NEW k \in DOMAIN cancelled PROVE ran[k] <= cancelled[k] + 1
    <3>1. ran[k] + Calls(k) <= cancelled[k] + 1 /\ k \in DOMAIN tasks /\ cancelled[k] \in Nat
      BY <2>1 DEF TimerInv, PeriodicCounts, TimerTypeOK
    <3>2. ran[k] \in Nat
      BY <2>1, <3>1, HistoryTyped
    <3> QED  BY <2>2, <3>1, <3>2
  <2> QED  BY <2>3, <2>4 DEF RunsAsOftenAsAsked
<1> QED  BY <1>1, TimerInitInv, TimerStep, PTL DEF TimerSpec

\* RunsInDeadlineOrder: callbacks run in the order of their deadlines and none before its
\* own (the lambda of the timer thread takes them from the front of the multimap).
THEOREM RunsInOrder == TimerSpec => RunsInDeadlineOrder
<1>1. ASSUME TimerInv, [TimerNext]_timerVars
      PROVE  lastDue <= lastDue' /\ lastDue' <= now'
  <2>1. TimerInv'
    BY <1>1, TimerStep
  <2>2. lastDue \in Nat /\ lastDue' <= now'
    BY <1>1, <2>1 DEF TimerInv, TimerTypeOK, InOrderOfDeadline
  <2>3. lastDue' = lastDue \/ (m_task_queue # <<>> /\ lastDue' = Head(m_task_queue).due)
    <3>1. CASE CallerStep
      BY <3>1 DEF CallerStep, AddTask, AddPeriodicTask, CancelPeriodicTask, StopStores, timerHistory
    <3>2. CASE StopStep \/ Tick \/ UNCHANGED timerVars
      BY <3>2 DEF StopStep, StopNotifies, StopJoins, Tick, timerVars, timerHistory
    <3>3. CASE TimerThread
      BY <1>1, <3>3 DEF TimerThread, TimerChecks, TimerSleeps, TimerWakes, TimerRunsOnce, RunPeriodicTask,
                  CallPeriodic, EndPeriodic, Run, timerHistory, TimerInv, TakenWhenEmpty
    <3> QED  BY <1>1, <3>1, <3>2, <3>3 DEF TimerNext
  <2>4. m_task_queue # <<>> => lastDue <= Head(m_task_queue).due
    BY <1>1, HeadOfQueue DEF TimerInv, InOrderOfDeadline
  <2> QED  BY <2>2, <2>3, <2>4
<1> QED  BY <1>1, TimerInitInv, TimerStep, PTL DEF TimerSpec, RunsInDeadlineOrder

-----------------------------------------------------------------------------
(* The logger.                                                             *)

\* The logger by itself.
LoggerSpec == LoggerInit /\ [][LoggerNext]_loggerVars

\* What a queue holds, and that nothing is in it twice.
Held(s) == {s[n] : n \in 1..Len(s)}
Distinct(s) == \A m, n \in 1..Len(s) : s[m] = s[n] => m = n

-----------------------------------------------------------------------------
\* A queue with an element put at its end.
LEMMA AppendHolds ==
  ASSUME NEW S, NEW s \in Seq(S), NEW e \in S
  PROVE  /\ Append(s, e) \in Seq(S)
         /\ Held(Append(s, e)) = Held(s) \cup {e}
         /\ Distinct(s) /\ e \notin Held(s) => Distinct(Append(s, e))
<1>1. /\ Append(s, e) \in Seq(S) /\ Len(Append(s, e)) = Len(s) + 1
      /\ \A n \in 1..Len(s) : Append(s, e)[n] = s[n]
      /\ Append(s, e)[Len(s) + 1] = e
  OBVIOUS
<1>2. Len(s) \in Nat /\ 1..(Len(s) + 1) = 1..Len(s) \cup {Len(s) + 1}
  OBVIOUS
<1> QED  BY <1>1, <1>2 DEF Held, Distinct

\* A queue without its first element.
LEMMA TailHolds ==
  ASSUME NEW S, NEW s \in Seq(S), s # <<>>
  PROVE  /\ Head(s) \in S /\ Tail(s) \in Seq(S)
         /\ Held(s) = Held(Tail(s)) \cup {Head(s)}
         /\ Distinct(s) => Distinct(Tail(s)) /\ Head(s) \notin Held(Tail(s))
<1>1. /\ Len(s) \in Nat /\ Len(s) > 0 /\ Head(s) = s[1] /\ Head(s) \in S
      /\ Tail(s) \in Seq(S) /\ Len(Tail(s)) = Len(s) - 1
      /\ \A n \in 1..Len(Tail(s)) : Tail(s)[n] = s[n + 1] /\ n + 1 \in 1..Len(s)
  OBVIOUS
<1>2. \A n \in 1..Len(s) : n = 1 \/ (n - 1 \in 1..Len(Tail(s)) /\ s[n] = Tail(s)[n - 1])
  BY <1>1
<1>3. ASSUME NEW x \in Held(s) PROVE x \in Held(Tail(s)) \cup {Head(s)}
  <2>1. PICK n \in 1..Len(s) : x = s[n]
    BY DEF Held
  <2>2. QED
    BY <1>1, <1>2, <2>1 DEF Held
<1>4. ASSUME NEW x \in Held(Tail(s)) \cup {Head(s)} PROVE x \in Held(s)
  BY <1>1 DEF Held
<1> QED  BY <1>1, <1>3, <1>4 DEF Held, Distinct

LEMMA EmptyHolds == Held(<<>>) = {} /\ Distinct(<<>>)
<1>1. 1..Len(<<>>) = {}
  OBVIOUS
<1> QED  BY <1>1 DEF Held, Distinct

-----------------------------------------------------------------------------
LoggerTypeOK ==
  /\ flag \in [Sink -> BOOLEAN]
  /\ queue \in [Sink -> Seq(Lines)]
  /\ worker \in [Sink -> [at : {"runs", "asleep", "writes", "exited"}, line : Lines \cup {<<>>}]]
  /\ logging \in [Loggers -> [line : Nat \ {0}, sink : 1..2, at : {"load", "queue", "write"}]]
  /\ stopper \in [at : {"runs", "asleep", "woken", "joins", "done"}, sink : 1..2]
  /\ written \in [Sink -> [Lines -> Nat]]
  /\ queued \in [Sink -> SUBSET Lines]
  /\ late \in [Sink -> SUBSET Lines]

\* The line is still to be handed to the sink by the thread that logs it.
ToCome(k, l) ==
  \/ logging[l[1]].line < l[2]
  \/ logging[l[1]].line = l[2] /\ (logging[l[1]].sink = 1 \/ k = "file")

AtWorker(k, l) == worker[k].at = "writes" /\ worker[k].line = l

\* Where a line is on its way to a sink, and how often it has been written there.
Followed(k, l) ==
  /\ ToCome(k, l) => /\ l \notin Held(queue[k]) /\ ~AtWorker(k, l)
                     /\ l \notin queued[k] /\ written[k][l] = 0
  /\ l \in Held(queue[k]) \/ AtWorker(k, l) => written[k][l] = 0
  /\ l \in Held(queue[k]) => ~AtWorker(k, l)
  /\ l \in queued[k] => l \in Held(queue[k]) \/ AtWorker(k, l) \/ written[k][l] = 1
  /\ written[k][l] <= 1

\* A worker has a line in hand only to write it, and when it has gone there is nothing it
\* should have written.
WorkerInv(k) ==
  /\ worker[k].at = "writes" => worker[k].line \in Lines
  /\ worker[k].at = "exited" => ~flag[k] /\ \A l \in Lines : l \in queued[k] => written[k][l] = 1

SinkInv(k) == Distinct(queue[k]) /\ WorkerInv(k) /\ \A l \in Lines : Followed(k, l)

LoggerInv ==
  /\ LoggerTypeOK
  /\ \A k \in Sink : SinkInv(k)
  /\ stopper.at = "done" => \A k \in Sink : worker[k].at = "exited"

-----------------------------------------------------------------------------
LEMMA LoggerInitInv == LoggerInit => LoggerInv
<1> SUFFICES ASSUME LoggerInit PROVE LoggerInv
  OBVIOUS
<1>1. LoggerTypeOK
  BY DEF LoggerInit, LoggerTypeOK
<1>2. ASSUME NEW k \in Sink, NEW l \in Lines PROVE Followed(k, l)
  BY EmptyHolds DEF LoggerInit, Followed, AtWorker
<1>3. ASSUME NEW k \in Sink PROVE Distinct(queue[k]) /\ WorkerInv(k)
  BY EmptyHolds DEF LoggerInit, WorkerInv
<1> QED  BY <1>1, <1>2, <1>3 DEF LoggerInv, LoggerInit, SinkInv

\* The thread at a call has a line to log, and it is at a sink.
LEMMA CallIs ==
  ASSUME LoggerTypeOK, NEW p \in Loggers, Logs(p)
  PROVE  Line(p) \in Lines /\ At(p) \in Sink /\ ToCome(At(p), Line(p))
<1>1. logging[p].line \in Nat \ {0} /\ logging[p].line <= MaxLines /\ logging[p].sink \in {1, 2}
  BY DEF LoggerTypeOK, Logs
<1>2. Line(p) \in Lines
  BY <1>1, LoggerAssumption DEF Line, Lines
<1>3. Sinks[1] = "console" /\ Sinks[2] = "file"
  BY DEF Sinks
<1>4. At(p) \in Sink /\ (logging[p].sink = 1 \/ At(p) = "file")
  BY <1>1, <1>3 DEF At, Sink
<1> QED  BY <1>2, <1>4 DEF ToCome, Line

\* With a call the line it has handed over is no longer to come, and nothing new is.
LEMMA CallEnds ==
  ASSUME LoggerTypeOK, NEW p \in Loggers, Logs(p),
         logging' = [logging EXCEPT ![p] = NextCall(@)]
  PROVE  /\ logging' \in [Loggers -> [line : Nat \ {0}, sink : 1..2, at : {"load", "queue", "write"}]]
         /\ \A k \in Sink, l \in Lines :
              ToCome(k, l)' => ToCome(k, l) /\ ~(k = At(p) /\ l = Line(p))
<1>1. /\ logging \in [Loggers -> [line : Nat \ {0}, sink : 1..2, at : {"load", "queue", "write"}]]
      /\ logging[p].line \in Nat \ {0} /\ logging[p].sink \in {1, 2}
  BY DEF LoggerTypeOK
<1>2. logging' \in [Loggers -> [line : Nat \ {0}, sink : 1..2, at : {"load", "queue", "write"}]]
  BY <1>1 DEF NextCall
<1>3. Sinks[1] = "console" /\ Sinks[2] = "file"
  BY DEF Sinks
<1>4. ASSUME NEW k \in Sink, NEW l \in Lines, ToCome(k, l)'
      PROVE  ToCome(k, l) /\ ~(k = At(p) /\ l = Line(p))
  <2>1. /\ l[1] \in Loggers /\ l[2] \in Nat
        /\ l = Line(p) => l[1] = p /\ l[2] = logging[p].line
    BY LoggerAssumption DEF Lines, Line
  <2>2. CASE l[1] # p
    BY <1>1, <1>4, <2>1, <2>2 DEF ToCome
  <2>3. CASE l[1] = p /\ logging[p].sink = 1
    <3>1. logging'[p].line = logging[p].line /\ logging'[p].sink = 2 /\ At(p) = "console"
      BY <1>1, <1>3, <2>3 DEF NextCall, At
    <3>2. QED
      BY <1>1, <1>4, <2>1, <2>3, <3>1 DEF ToCome
  <2>4. CASE l[1] = p /\ logging[p].sink = 2
    <3>1. logging'[p].line = logging[p].line + 1 /\ logging'[p].sink = 1 /\ At(p) = "file"
      BY <1>1, <1>3, <2>4 DEF NextCall, At
    <3>2. QED
      BY <1>1, <1>4, <2>1, <2>4, <3>1 DEF ToCome
  <2>5. QED
    BY <1>1, <2>2, <2>3, <2>4
<1> QED  BY <1>2, <1>4

\* What a step does not touch of a sink stays right: a worker may be woken, a flag may
\* come down and a line may be handed over to another sink.
LEMMA SinkKept ==
  ASSUME NEW k \in Sink, SinkInv(k),
         queue'[k] = queue[k], written'[k] = written[k], queued'[k] = queued[k],
         flag'[k] => flag[k],
         worker'[k].line = worker[k].line,
         worker'[k].at = worker[k].at \/ (worker[k].at = "asleep" /\ worker'[k].at = "runs")
                                      \/ (worker[k].at = "runs" /\ worker'[k].at = "asleep"),
         \A l \in Lines : ToCome(k, l)' => ToCome(k, l)
  PROVE  SinkInv(k)'
<1>1. \A l \in Lines : AtWorker(k, l)' <=> AtWorker(k, l)
  BY DEF AtWorker
<1>2. \A l \in Lines : Followed(k, l)'
  BY <1>1 DEF Followed, SinkInv
<1> QED  BY <1>2 DEF SinkInv, WorkerInv

\* Where a worker is changes, and nothing else about it or the other.
LEMMA WorkerMoves ==
  ASSUME LoggerTypeOK, NEW k \in Sink, NEW at \in {"runs", "asleep", "writes", "exited"},
         worker' = [worker EXCEPT ![k].at = at]
  PROVE  /\ worker' \in [Sink -> [at : {"runs", "asleep", "writes", "exited"}, line : Lines \cup {<<>>}]]
         /\ worker'[k].line = worker[k].line /\ worker'[k].at = at
         /\ \A j \in Sink : j # k => worker'[j] = worker[j]
<1>1. /\ worker \in [Sink -> [at : {"runs", "asleep", "writes", "exited"}, line : Lines \cup {<<>>}]]
      /\ \A j \in Sink : j # k => worker'[j] = worker[j]
      /\ worker'[k] = [worker[k] EXCEPT !.at = at]
      /\ worker' = [worker EXCEPT ![k] = [worker[k] EXCEPT !.at = at]]
  BY DEF LoggerTypeOK
<1>2. worker[k] \in [at : {"runs", "asleep", "writes", "exited"}, line : Lines \cup {<<>>}]
  BY <1>1
<1>3. /\ worker'[k] \in [at : {"runs", "asleep", "writes", "exited"}, line : Lines \cup {<<>>}]
      /\ worker'[k].line = worker[k].line /\ worker'[k].at = at
  BY <1>1, <1>2
<1>4. worker' \in [Sink -> [at : {"runs", "asleep", "writes", "exited"}, line : Lines \cup {<<>>}]]
  BY <1>1, <1>3
<1> QED  BY <1>1, <1>3, <1>4

LEMMA WokenIs ==
  ASSUME LoggerTypeOK, NEW k \in Sink, worker' = worker \/ worker' = Woken(k)
  PROVE  /\ worker' \in [Sink -> [at : {"runs", "asleep", "writes", "exited"}, line : Lines \cup {<<>>}]]
         /\ \A j \in Sink : /\ worker'[j].line = worker[j].line
                           /\ \/ worker'[j].at = worker[j].at
                              \/ worker[j].at = "asleep" /\ worker'[j].at = "runs"
<1>1. CASE worker' = worker
  BY <1>1 DEF LoggerTypeOK
<1>2. CASE worker' = [worker EXCEPT ![k].at = "runs"] /\ worker[k].at = "asleep"
  BY <1>2, WorkerMoves
<1> QED  BY <1>1, <1>2 DEF Woken

\* While nobody logs, nothing is handed over.
LEMMA NothingComes ==
  ASSUME UNCHANGED logging
  PROVE  \A k \in Sink, l \in Lines : ToCome(k, l)' => ToCome(k, l)
BY DEF ToCome

-----------------------------------------------------------------------------
LEMMA LoadFlagKeepsInv ==
  ASSUME LoggerInv, NEW p \in Loggers, LoadFlag(p)
  PROVE  LoggerInv'
<1>1. LoggerTypeOK'
  BY DEF LoggerInv, LoggerTypeOK, LoadFlag
<1>2. \A l \in Lines : l[1] \in Loggers
  BY DEF Lines
<1>3. \A q \in Loggers : logging'[q].line = logging[q].line /\ logging'[q].sink = logging[q].sink
  BY DEF LoggerInv, LoggerTypeOK, LoadFlag
<1>4. \A k \in Sink, l \in Lines : ToCome(k, l)' => ToCome(k, l)
  BY <1>2, <1>3 DEF ToCome
<1>5. \A k \in Sink : SinkInv(k)'
  BY <1>4, SinkKept DEF LoggerInv, LoadFlag
<1> QED  BY <1>1, <1>5 DEF LoggerInv, LoadFlag

LEMMA WriteDirectlyKeepsInv ==
  ASSUME LoggerInv, NEW p \in Loggers, WriteDirectly(p)
  PROVE  LoggerInv'
<1>1. LoggerTypeOK /\ Logs(p)
  BY DEF LoggerInv, WriteDirectly
<1>2. PICK k \in Sink, x \in Lines : k = At(p) /\ x = Line(p) /\ ToCome(k, x)
  BY <1>1, CallIs
<1>3. /\ logging' \in [Loggers -> [line : Nat \ {0}, sink : 1..2, at : {"load", "queue", "write"}]]
      /\ \A j \in Sink, l \in Lines : ToCome(j, l)' => ToCome(j, l) /\ ~(j = k /\ l = x)
  BY <1>1, <1>2, CallEnds DEF WriteDirectly
<1>4. /\ written' = [written EXCEPT ![k][x] = @ + 1]
      /\ UNCHANGED <<flag, queue, worker, stopper, queued, late>>
  BY <1>2 DEF WriteDirectly
<1>5. LoggerTypeOK'
  BY <1>1, <1>3, <1>4 DEF LoggerTypeOK
<1>6. ASSUME NEW j \in Sink, j # k PROVE SinkInv(j)'
  <2>1. written'[j] = written[j]
    BY <1>1, <1>4, <1>6 DEF LoggerTypeOK
  <2>2. QED
    BY <1>3, <1>4, <2>1, SinkKept DEF LoggerInv
<1>7. SinkInv(k)'
  <2>1. /\ written'[k][x] = written[k][x] + 1
        /\ \A l \in Lines : l # x => written'[k][l] = written[k][l]
    BY <1>1, <1>4 DEF LoggerTypeOK
  <2>2. SinkInv(k) /\ Followed(k, x) /\ ~ToCome(k, x)'
    BY <1>3 DEF LoggerInv, SinkInv
  <2>3. \A l \in Lines : AtWorker(k, l)' <=> AtWorker(k, l)
    BY <1>4 DEF AtWorker
  <2>4. ASSUME NEW l \in Lines, l # x PROVE Followed(k, l)'
    BY <1>3, <1>4, <2>1, <2>2, <2>3, <2>4 DEF SinkInv, Followed
  <2>5. Followed(k, x)'
    BY <1>2, <1>4, <2>1, <2>2, <2>3 DEF Followed
  <2>6. WorkerInv(k)'
    BY <1>2, <1>4, <2>1, <2>2 DEF SinkInv, WorkerInv, Followed
  <2> QED  BY <1>4, <2>2, <2>4, <2>5, <2>6 DEF SinkInv
<1> QED  BY <1>4, <1>5, <1>6, <1>7 DEF LoggerInv

LEMMA EnqueueKeepsInv ==
  ASSUME LoggerInv, NEW p \in Loggers, Enqueue(p)
  PROVE  LoggerInv'
<1>1. LoggerTypeOK /\ Logs(p)
  BY DEF LoggerInv, Enqueue
<1>2. PICK k \in Sink, x \in Lines : k = At(p) /\ x = Line(p) /\ ToCome(k, x)
  BY <1>1, CallIs
<1>3. /\ logging' \in [Loggers -> [line : Nat \ {0}, sink : 1..2, at : {"load", "queue", "write"}]]
      /\ \A j \in Sink, l \in Lines : ToCome(j, l)' => ToCome(j, l) /\ ~(j = k /\ l = x)
  BY <1>1, <1>2, CallEnds DEF Enqueue
<1>4. /\ queue' = [queue EXCEPT ![k] = Append(@, x)]
      /\ \/ queued' = [queued EXCEPT ![k] = @ \cup {x}] /\ flag[k] /\ late' = late
         \/ queued' = queued /\ late' = [late EXCEPT ![k] = @ \cup {x}]
      /\ flag' = flag /\ written' = written
      /\ worker' = worker \/ worker' = Woken(k)
      /\ stopper' = stopper \/ stopper' = [stopper EXCEPT !.at = "woken"]
  BY <1>2 DEF Enqueue, NotifyOne, StopWoken
<1>5. /\ worker' \in [Sink -> [at : {"runs", "asleep", "writes", "exited"}, line : Lines \cup {<<>>}]]
      /\ \A j \in Sink : /\ worker'[j].line = worker[j].line
                        /\ \/ worker'[j].at = worker[j].at
                           \/ worker[j].at = "asleep" /\ worker'[j].at = "runs"
  BY <1>1, <1>4, WokenIs
<1>6. /\ stopper' \in [at : {"runs", "asleep", "woken", "joins", "done"}, sink : 1..2]
      /\ stopper'.at = "done" => stopper.at = "done"
  BY <1>1, <1>4 DEF LoggerTypeOK
<1>7. queue[k] \in Seq(Lines) /\ Append(queue[k], x) \in Seq(Lines)
  BY <1>1, AppendHolds DEF LoggerTypeOK
<1>8. LoggerTypeOK'
  <2>1. queue' \in [Sink -> Seq(Lines)]
    BY <1>1, <1>4, <1>7 DEF LoggerTypeOK
  <2>2. /\ queued' \in [Sink -> SUBSET Lines] /\ late' \in [Sink -> SUBSET Lines]
    <3>1. queued[k] \cup {x} \in SUBSET Lines /\ late[k] \cup {x} \in SUBSET Lines
      BY <1>1 DEF LoggerTypeOK
    <3>2. queued' \in [Sink -> SUBSET Lines]
      <4>1. CASE queued' = queued
        BY <1>1, <4>1 DEF LoggerTypeOK
      <4>2. CASE queued' = [queued EXCEPT ![k] = @ \cup {x}]
        BY <1>1, <3>1, <4>2 DEF LoggerTypeOK
      <4>3. QED
        BY <1>4, <4>1, <4>2
    <3>3. late' \in [Sink -> SUBSET Lines]
      <4>1. CASE late' = late
        BY <1>1, <4>1 DEF LoggerTypeOK
      <4>2. CASE late' = [late EXCEPT ![k] = @ \cup {x}]
        BY <1>1, <3>1, <4>2 DEF LoggerTypeOK
      <4>3. QED
        BY <1>4, <4>1, <4>2
    <3>4. QED
      BY <3>2, <3>3
  <2>3. QED
    BY <1>1, <1>3, <1>4, <1>5, <1>6, <2>1, <2>2 DEF LoggerTypeOK
<1>9. ASSUME NEW j \in Sink, j # k PROVE SinkInv(j)'
  <2>1. queue'[j] = queue[j] /\ queued'[j] = queued[j]
    BY <1>1, <1>4, <1>9 DEF LoggerTypeOK
  <2>2. QED
    BY <1>3, <1>4, <1>5, <2>1, SinkKept DEF LoggerInv
<1>10. SinkInv(k)'
  <2>1. SinkInv(k) /\ Followed(k, x) /\ ~ToCome(k, x)'
    BY <1>3 DEF LoggerInv, SinkInv
  <2>2. /\ queue'[k] = Append(queue[k], x)
        /\ \/ queued'[k] = queued[k] \cup {x} /\ flag[k]
           \/ queued'[k] = queued[k]
    BY <1>1, <1>4 DEF LoggerTypeOK
  <2>3. Held(queue[k])' = Held(queue[k]) \cup {x} /\ Distinct(queue[k])'
    <3>1. Distinct(queue[k]) /\ x \notin Held(queue[k])
      BY <1>2, <2>1 DEF SinkInv, Followed
    <3>2. QED
      BY <1>7, <2>2, <3>1, AppendHolds
  <2>4. \A l \in Lines : AtWorker(k, l)' <=> AtWorker(k, l)
    BY <1>5 DEF AtWorker
  <2>5. ASSUME NEW l \in Lines, l # x PROVE Followed(k, l)'
    BY <1>3, <1>4, <2>1, <2>2, <2>3, <2>4, <2>5 DEF SinkInv, Followed
  <2>6. Followed(k, x)'
    BY <1>2, <1>4, <2>1, <2>2, <2>3, <2>4 DEF Followed
  <2>7. WorkerInv(k)'
    BY <1>4, <1>5, <2>1, <2>2 DEF SinkInv, WorkerInv
  <2> QED  BY <2>3, <2>5, <2>6, <2>7 DEF SinkInv
<1>11. stopper'.at = "done" => \A j \in Sink : worker'[j].at = "exited"
  BY <1>5, <1>6 DEF LoggerInv
<1> QED  BY <1>8, <1>9, <1>10, <1>11 DEF LoggerInv

-----------------------------------------------------------------------------
LEMMA WorkerTakesKeepsInv ==
  ASSUME LoggerInv, NEW k \in Sink, WorkerTakes(k)
  PROVE  LoggerInv'
<1>1. /\ LoggerTypeOK /\ SinkInv(k) /\ queue[k] \in Seq(Lines) /\ queue[k] # <<>>
      /\ worker[k].at = "runs"
      /\ queue' = [queue EXCEPT ![k] = Tail(@)]
      /\ worker' = [worker EXCEPT ![k] = [at |-> "writes", line |-> Head(queue[k])]]
      /\ UNCHANGED <<flag, logging, written, queued, late>>
  BY DEF LoggerInv, LoggerTypeOK, WorkerTakes
<1>2. /\ Head(queue[k]) \in Lines /\ Tail(queue[k]) \in Seq(Lines)
      /\ Held(queue[k]) = Held(Tail(queue[k])) \cup {Head(queue[k])}
      /\ Distinct(Tail(queue[k])) /\ Head(queue[k]) \notin Held(Tail(queue[k]))
  BY <1>1, TailHolds DEF SinkInv
<1>3. /\ stopper' \in [at : {"runs", "asleep", "woken", "joins", "done"}, sink : 1..2]
      /\ stopper'.at = "done" => stopper.at = "done"
  BY <1>1 DEF LoggerTypeOK, WorkerTakes, StopWoken
<1>4. LoggerTypeOK'
  BY <1>1, <1>2, <1>3 DEF LoggerTypeOK
<1>5. ASSUME NEW j \in Sink, j # k PROVE SinkInv(j)'
  BY <1>1, <1>5, SinkKept, NothingComes DEF LoggerInv, LoggerTypeOK
<1>6. SinkInv(k)'
  <2>1. /\ queue'[k] = Tail(queue[k]) /\ worker'[k].at = "writes"
        /\ worker'[k].line = Head(queue[k])
    BY <1>1 DEF LoggerTypeOK
  <2>2. \A l \in Lines : (AtWorker(k, l)' <=> l = Head(queue[k])) /\ ~AtWorker(k, l)
    BY <1>1, <2>1 DEF AtWorker
  <2>3. \A l \in Lines : ToCome(k, l)' => ToCome(k, l)
    BY <1>1, NothingComes
  <2>4. ASSUME NEW l \in Lines PROVE Followed(k, l)'
    BY <1>1, <1>2, <2>1, <2>2, <2>3 DEF SinkInv, Followed
  <2>5. WorkerInv(k)'
    BY <1>2, <2>1 DEF WorkerInv
  <2> QED  BY <1>2, <2>1, <2>4, <2>5 DEF SinkInv
<1>7. stopper'.at = "done" => \A j \in Sink : worker'[j].at = "exited"
  BY <1>1, <1>3 DEF LoggerInv
<1> QED  BY <1>4, <1>5, <1>6, <1>7 DEF LoggerInv

LEMMA WorkerSleepsKeepsInv ==
  ASSUME LoggerInv, NEW k \in Sink, WorkerSleeps(k)
  PROVE  LoggerInv'
<1>1. /\ LoggerTypeOK /\ worker[k].at = "runs"
      /\ worker' = [worker EXCEPT ![k].at = "asleep"]
      /\ UNCHANGED <<flag, queue, logging, stopper, written, queued, late>>
  BY DEF LoggerInv, WorkerSleeps
<1>2. LoggerTypeOK'
  BY <1>1, WorkerMoves DEF LoggerTypeOK
<1>3. \A j \in Sink : /\ worker'[j].line = worker[j].line
                    /\ \/ worker'[j].at = worker[j].at
                       \/ worker[j].at = "runs" /\ worker'[j].at = "asleep"
  BY <1>1, WorkerMoves
<1>4. \A j \in Sink : SinkInv(j)'
  BY <1>1, <1>3, SinkKept, NothingComes DEF LoggerInv
<1> QED  BY <1>1, <1>2, <1>3, <1>4 DEF LoggerInv

LEMMA WorkerExitsKeepsInv ==
  ASSUME LoggerInv, NEW k \in Sink, WorkerExits(k)
  PROVE  LoggerInv'
<1>1. /\ LoggerTypeOK /\ SinkInv(k) /\ worker[k].at = "runs" /\ queue[k] = <<>> /\ ~flag[k]
      /\ worker' = [worker EXCEPT ![k].at = "exited"]
      /\ UNCHANGED <<flag, queue, logging, written, queued, late>>
  BY DEF LoggerInv, WorkerExits
<1>2. /\ stopper' \in [at : {"runs", "asleep", "woken", "joins", "done"}, sink : 1..2]
      /\ stopper'.at = "done" => stopper.at = "done"
  BY <1>1 DEF LoggerTypeOK, WorkerExits, StopWoken
<1>3. LoggerTypeOK'
  BY <1>1, <1>2, WorkerMoves DEF LoggerTypeOK
<1>4. worker'[k].at = "exited" /\ \A j \in Sink : j # k => worker'[j] = worker[j]
  BY <1>1, WorkerMoves
<1>5. ASSUME NEW j \in Sink, j # k PROVE SinkInv(j)'
  BY <1>1, <1>4, <1>5, SinkKept, NothingComes DEF LoggerInv
<1>6. SinkInv(k)'
  <2>1. \A l \in Lines : l \notin Held(queue[k]) /\ ~AtWorker(k, l) /\ ~AtWorker(k, l)'
    BY <1>1, <1>4, EmptyHolds DEF AtWorker
  <2>2. \A l \in Lines : ToCome(k, l)' => ToCome(k, l)
    BY <1>1, NothingComes
  <2>3. ASSUME NEW l \in Lines PROVE Followed(k, l)'
    BY <1>1, <2>1, <2>2 DEF SinkInv, Followed
  <2>4. WorkerInv(k)'
    BY <1>1, <1>4, <2>1 DEF SinkInv, Followed, WorkerInv
  <2> QED  BY <1>1, <2>3, <2>4 DEF SinkInv
<1>7. stopper'.at = "done" => \A j \in Sink : worker'[j].at = "exited"
  BY <1>2, <1>4 DEF LoggerInv
<1> QED  BY <1>3, <1>5, <1>6, <1>7 DEF LoggerInv

LEMMA WorkerWritesKeepsInv ==
  ASSUME LoggerInv, NEW k \in Sink, WorkerWrites(k)
  PROVE  LoggerInv'
<1>1. LoggerTypeOK /\ SinkInv(k) /\ worker[k].at = "writes"
  BY DEF LoggerInv, WorkerWrites
<1>2. PICK x \in Lines : x = worker[k].line
  BY <1>1 DEF SinkInv, WorkerInv
<1>3. /\ written' = [written EXCEPT ![k][x] = @ + 1]
      /\ worker' = [worker EXCEPT ![k] = [at |-> "runs", line |-> <<>>]]
      /\ UNCHANGED <<flag, queue, logging, stopper, queued, late>>
  BY <1>2 DEF WorkerWrites
<1>4. LoggerTypeOK'
  BY <1>1, <1>3 DEF LoggerTypeOK
<1>5. \A j \in Sink : j # k => worker'[j] = worker[j] /\ written'[j] = written[j]
  BY <1>1, <1>3 DEF LoggerTypeOK
<1>6. ASSUME NEW j \in Sink, j # k PROVE SinkInv(j)'
  BY <1>3, <1>5, <1>6, SinkKept, NothingComes DEF LoggerInv
<1>7. SinkInv(k)'
  <2>1. /\ written'[k][x] = written[k][x] + 1
        /\ \A l \in Lines : l # x => written'[k][l] = written[k][l]
        /\ worker'[k].at = "runs"
    BY <1>1, <1>3 DEF LoggerTypeOK
  <2>2. \A l \in Lines : (AtWorker(k, l) <=> l = x) /\ ~AtWorker(k, l)'
    BY <1>1, <1>2, <2>1 DEF AtWorker
  <2>3. \A l \in Lines : ToCome(k, l)' => ToCome(k, l)
    BY <1>3, NothingComes
  <2>4. ASSUME NEW l \in Lines, l # x PROVE Followed(k, l)'
    BY <1>1, <1>3, <2>1, <2>2, <2>3, <2>4 DEF SinkInv, Followed
  <2>5. Followed(k, x)'
    BY <1>1, <1>3, <2>1, <2>2, <2>3 DEF SinkInv, Followed
  <2>6. WorkerInv(k)'
    BY <2>1 DEF WorkerInv
  <2> QED  BY <1>1, <1>3, <2>4, <2>5, <2>6 DEF SinkInv
<1>8. stopper'.at = "done" => \A j \in Sink : worker'[j].at = "exited"
  BY <1>1, <1>3 DEF LoggerInv
<1> QED  BY <1>4, <1>6, <1>7, <1>8 DEF LoggerInv

-----------------------------------------------------------------------------
\* The stopping thread takes flags down and wakes, and touches nothing else.
LEMMA StopperKeepsInv ==
  ASSUME LoggerInv, StopperStep
  PROVE  LoggerInv'
<1>1. LoggerTypeOK /\ Sinks[stopper.sink] \in Sink
  <2>1. LoggerTypeOK /\ stopper.sink \in {1, 2}
    BY DEF LoggerInv, LoggerTypeOK
  <2>2. QED
    BY <2>1 DEF Sinks, Sink
<1>2. PICK k \in Sink : k = Sinks[stopper.sink]
  BY <1>1
<1>3. /\ flag' = flag \/ flag' = [flag EXCEPT ![k] = FALSE]
      /\ worker' = worker \/ worker' = Woken(k)
      /\ UNCHANGED <<queue, logging, written, queued, late>>
  BY <1>2 DEF StopperStep, StopFlag, StopWakes, LogStopJoins
<1>4. /\ flag' \in [Sink -> BOOLEAN]
      /\ \A j \in Sink : flag'[j] => flag[j]
  BY <1>1, <1>3 DEF LoggerTypeOK
<1>5. /\ worker' \in [Sink -> [at : {"runs", "asleep", "writes", "exited"}, line : Lines \cup {<<>>}]]
      /\ \A j \in Sink : /\ worker'[j].line = worker[j].line
                        /\ \/ worker'[j].at = worker[j].at
                           \/ worker[j].at = "asleep" /\ worker'[j].at = "runs"
  BY <1>1, <1>3, WokenIs
<1>6. /\ stopper' \in [at : {"runs", "asleep", "woken", "joins", "done"}, sink : 1..2]
      /\ stopper'.at = "done" => \A j \in Sink : worker[j].at = "exited"
  BY <1>1 DEF LoggerTypeOK, StopperStep, StopFlag, StopWakes, LogStopJoins, Proceed
<1>7. \A j \in Sink : SinkInv(j)'
  BY <1>3, <1>4, <1>5, SinkKept, NothingComes DEF LoggerInv
<1>8. LoggerTypeOK'
  BY <1>1, <1>3, <1>4, <1>5, <1>6 DEF LoggerTypeOK
<1> QED  BY <1>5, <1>6, <1>7, <1>8 DEF LoggerInv

LEMMA LoggerNextInv ==
  ASSUME LoggerInv, [LoggerNext]_loggerVars
  PROVE  LoggerInv'
<1>1. CASE \E p \in Loggers : LogStep(p)
  BY <1>1, LoadFlagKeepsInv, EnqueueKeepsInv, WriteDirectlyKeepsInv DEF LogStep
<1>2. CASE \E k \in Sink : WorkerStep(k)
  BY <1>2, WorkerTakesKeepsInv, WorkerSleepsKeepsInv, WorkerExitsKeepsInv, WorkerWritesKeepsInv
     DEF WorkerStep
<1>3. CASE StopperStep
  BY <1>3, StopperKeepsInv
<1>4. CASE UNCHANGED loggerVars
  BY <1>4 DEF loggerVars, LoggerInv, LoggerTypeOK, SinkInv, WorkerInv, Followed, ToCome, AtWorker
<1> QED  BY <1>1, <1>2, <1>3, <1>4 DEF LoggerNext

(***************************************************************************)
(* async_logger.cpp: once stop_async_log() has returned, every line that   *)
(* was queued while its sink's flag was up has been written there, once.   *)
(***************************************************************************)
THEOREM StopLeavesNothing == LoggerSpec => []StopWritesWhatWasQueued
<1>1. LoggerInv => StopWritesWhatWasQueued
  BY DEF LoggerInv, SinkInv, WorkerInv, Followed, StopWritesWhatWasQueued
<1>2. QED
  BY LoggerInitInv, LoggerNextInv, <1>1, PTL DEF LoggerSpec
=============================================================================
