------------------------------ MODULE Data_proofs ------------------------------
(***************************************************************************)
(* What the components that compute promise, for inputs of every size: the *)
(* set operations of SingleInterval<T> over the integers, RangeCondition<T>*)
(* made of any number of them, the rules of WildcardText for texts of any  *)
(* length, and FrameAssembler for any number of frames, cut anywhere.      *)
(***************************************************************************)
EXTENDS RangeCondition, WildcardText, FrameAssembler, SequenceTheorems,
        FiniteSetTheorems, WellFoundedInduction, TLAPS

-----------------------------------------------------------------------------
(* Intervals: bounded or not, at either end.                                *)

\* A lower and an upper bound the right way round: at one value they are the point or,
\* both open, nothing.
Facing(left, right) ==
  /\ Wellformed(left) /\ Wellformed(right) /\ left.side = "Left" /\ right.side = "Right"
  /\ left.limited /\ right.limited =>
       \/ left.value < right.value
       \/ left.value = right.value /\ left.open = right.open

\* Bounds that face each other with nothing left out between them.
Meeting(left, right) ==
  /\ Facing(left, right)
  /\ ~(/\ left.limited /\ right.limited /\ left.value = right.value
       /\ left.open /\ right.open)

\* An interval the constructors make of two bounds that face each other.
Proper(i) == i = Interval(i.left, i.right) /\ Facing(i.left, i.right)

\* Two intervals that are not unbounded towards different sides.  Of the others the
\* code takes the infinite ends for adjacent, and what follows does not hold of them.
Comparable(i, j) == \/ i.left.limited /\ j.left.limited
                    \/ i.right.limited /\ j.right.limited

-----------------------------------------------------------------------------
\* A finite or infinite bound, part by part.
LEMMA EndpointParts ==
  ASSUME NEW e, Wellformed(e)
  PROVE  /\ e.limited \in BOOLEAN /\ e.open \in BOOLEAN /\ e.value \in Int
         /\ e.side \in {"Left", "Right"}
         /\ e = [limited |-> e.limited, value |-> e.value, open |-> e.open, side |-> e.side]
         /\ ~e.limited => e.open /\ e.value = 0
BY DEF Wellformed, Endpoints, Sides

\* The comparator of std::set<SingleInterval<T>> rests on this: operator< of two bounds
\* is a strict total order, whatever side each is on.
THEOREM BeforeIsAnOrder ==
  ASSUME NEW a, NEW b, NEW c, Wellformed(a), Wellformed(b), Wellformed(c)
  PROVE  /\ ~Before(a, a)
         /\ Before(a, b) /\ Before(b, c) => Before(a, c)
         /\ Before(a, b) \/ Before(b, a) \/ a = b
<1>1. ~Before(a, a)
  BY DEF Before
<1>2. Before(a, b) /\ Before(b, c) => Before(a, c)
  BY EndpointParts DEF Before
<1>3. Before(a, b) \/ Before(b, a) \/ a = b
  BY EndpointParts DEF Before
<1> QED  BY <1>1, <1>2, <1>3

\* operator< of intervals orders them too, so that a set of intervals has one order.
THEOREM PrecedesIsAnOrder ==
  ASSUME NEW i, NEW j, NEW k, Proper(i), Proper(j), Proper(k)
  PROVE  /\ ~Precedes(i, i)
         /\ Precedes(i, j) /\ Precedes(j, k) => Precedes(i, k)
         /\ Precedes(i, j) \/ Precedes(j, i) \/ i = j
<1>0. /\ Wellformed(i.left) /\ Wellformed(j.left) /\ Wellformed(k.left)
      /\ Wellformed(i.right) /\ Wellformed(j.right) /\ Wellformed(k.right)
  BY DEF Proper, Facing
<1>1. ~Precedes(i, i)
  BY <1>0, BeforeIsAnOrder DEF Precedes
<1>2. Precedes(i, j) /\ Precedes(j, k) => Precedes(i, k)
  <2>1. /\ Before(i.left, j.left) /\ Before(j.left, k.left) => Before(i.left, k.left)
        /\ Before(k.left, i.left) /\ Before(i.left, j.left) => Before(k.left, j.left)
        /\ Before(j.left, k.left) /\ Before(k.left, i.left) => Before(j.left, i.left)
        /\ Before(i.left, k.left) \/ Before(k.left, i.left) \/ i.left = k.left
        /\ Before(i.left, j.left) \/ Before(j.left, i.left) \/ i.left = j.left
        /\ Before(j.left, k.left) \/ Before(k.left, j.left) \/ j.left = k.left
        /\ ~Before(i.left, i.left)
    BY <1>0, BeforeIsAnOrder
  <2>2. Before(i.right, j.right) /\ Before(j.right, k.right) => Before(i.right, k.right)
    BY <1>0, BeforeIsAnOrder
  <2> QED  BY <2>1, <2>2 DEF Precedes
<1>3. Precedes(i, j) \/ Precedes(j, i) \/ i = j
  <2>1. Before(i.left, j.left) \/ Before(j.left, i.left) \/ i.left = j.left
    BY <1>0, BeforeIsAnOrder
  <2>2. Before(i.right, j.right) \/ Before(j.right, i.right) \/ i.right = j.right
    BY <1>0, BeforeIsAnOrder
  <2>3. ~Before(i.left, i.left)
    BY <1>0, BeforeIsAnOrder
  <2>4. i = Interval(i.left, i.right) /\ j = Interval(j.left, j.right)
    BY DEF Proper
  <2> QED  BY <2>1, <2>2, <2>3, <2>4 DEF Precedes
<1> QED  BY <1>1, <1>2, <1>3

-----------------------------------------------------------------------------
\* The constructor leaves bounds the right way round as they are.
LEMMA BetweenFacing ==
  ASSUME NEW l, NEW r, Facing(l, r)
  PROVE  Between(l, r) = Interval(l, r) /\ Proper(Between(l, r))
<1>1. ~(l.limited /\ r.limited /\ l.value > r.value)
  BY EndpointParts DEF Facing
<1>2. [l EXCEPT !.side = "Left"] = l /\ [r EXCEPT !.side = "Right"] = r
  BY EndpointParts DEF Facing
<1>3. Between(l, r) = Interval(l, r)
  BY <1>1, <1>2 DEF Between
<1> QED  BY <1>3 DEF Proper, Interval

\* The neighbour of a bound's neighbour is the bound.
LEMMA AdjacentTwice ==
  ASSUME NEW e, Wellformed(e)
  PROVE  Adjacent(Adjacent(e)) = e
<1> DEFINE other == Opposite(e.side)
<1>1. Opposite(other) = e.side
  BY EndpointParts DEF Opposite
<1>2. CASE e.limited /\ e.open
  <2>1. Adjacent(e) = Limited(e.value, FALSE, other)
    BY <1>2 DEF Adjacent
  <2>2. Adjacent(Limited(e.value, FALSE, other)) = Limited(e.value, TRUE, e.side)
    BY <1>1 DEF Adjacent, Limited
  <2> QED  BY <1>2, <2>1, <2>2, EndpointParts DEF Limited
<1>3. CASE e.limited /\ ~e.open
  <2>1. Adjacent(e) = Limited(e.value, TRUE, other)
    BY <1>3 DEF Adjacent
  <2>2. Adjacent(Limited(e.value, TRUE, other)) = Limited(e.value, FALSE, e.side)
    BY <1>1 DEF Adjacent, Limited
  <2> QED  BY <1>3, <2>1, <2>2, EndpointParts DEF Limited
<1>4. CASE ~e.limited
  BY <1>1, <1>4, EndpointParts DEF Adjacent, Unlimited
<1> QED  BY <1>2, <1>3, <1>4

\* Bounds that do not pass each other and do not touch meet.
LEMMA NotApart ==
  ASSUME NEW l, NEW r, Wellformed(l), Wellformed(r), l.side = "Left", r.side = "Right",
         ~Apart(l, r), Adjacent(l) # r
  PROVE  Meeting(l, r)
BY EndpointParts DEF Meeting, Facing, Apart, Adjacent, Limited, Unlimited, Opposite, Before

\* The later of two lower bounds admits what both admit, the earlier what either does.
LEMMA LowerBounds ==
  ASSUME NEW a, NEW b, NEW v \in Int, Wellformed(a), Wellformed(b),
         a.side = "Left", b.side = "Left"
  PROVE  /\ Admits(Later(a, b), v) <=> Admits(a, v) /\ Admits(b, v)
         /\ Admits(Earlier(a, b), v) <=> Admits(a, v) \/ Admits(b, v)
BY EndpointParts DEF Later, Earlier, BeforeOrAt, Before, Admits

\* And of two upper bounds the other way about.
LEMMA UpperBounds ==
  ASSUME NEW a, NEW b, NEW v \in Int, Wellformed(a), Wellformed(b),
         a.side = "Right", b.side = "Right"
  PROVE  /\ Admits(Earlier(a, b), v) <=> Admits(a, v) /\ Admits(b, v)
         /\ Admits(Later(a, b), v) <=> Admits(a, v) \/ Admits(b, v)
BY EndpointParts DEF Later, Earlier, BeforeOrAt, Before, Admits

-----------------------------------------------------------------------------
\* is_in_range(interval) answers for every value of the interval.
THEOREM CoversItsValues ==
  ASSUME NEW i, NEW j, NEW v \in Int, Proper(i), Proper(j), Covers(i, j), Holds(j, v)
  PROVE  Holds(i, v)
BY EndpointParts DEF Proper, Facing, Covers, BeforeOrAt, Before, Holds, Admits

\* is_intersect says no only of intervals without a common value.
THEOREM DisjointHaveNoCommonValue ==
  ASSUME NEW i, NEW j, NEW v \in Int, Proper(i), Proper(j), Comparable(i, j),
         ~IsIntersect(i, j)
  PROVE  ~(Holds(i, v) /\ Holds(j, v))
BY EndpointParts DEF Proper, Facing, Comparable, IsIntersect, IsDisjoint, IsAdjacent, Apart,
     Adjacent, Limited, Unlimited, Opposite, Before, Holds, Admits

\* The bounds of intersecting intervals meet across them.
LEMMA IntersectingMeet ==
  ASSUME NEW i, NEW j, Proper(i), Proper(j), IsIntersect(i, j)
  PROVE  Meeting(i.left, j.right) /\ Meeting(j.left, i.right)
<1>1. Facing(i.left, i.right) /\ Facing(j.left, j.right)
  BY DEF Proper
<1>2. Adjacent(i.left) # j.right /\ Adjacent(i.right) # j.left
  BY DEF IsIntersect, IsAdjacent
<1>3. Adjacent(j.left) # i.right
  BY <1>1, <1>2, AdjacentTwice DEF Facing
<1>4. CASE Before(j.right, i.left)
  <2>1. ~Apart(i.left, j.right)
    BY <1>4 DEF IsIntersect, IsDisjoint
  <2>2. Meeting(i.left, j.right)
    BY <1>1, <1>2, <2>1, NotApart DEF Facing
  <2> QED  BY <1>1, <1>4, <2>2, EndpointParts DEF Meeting, Facing, Before
<1>5. CASE ~Before(j.right, i.left)
  <2>1. ~Apart(j.left, i.right)
    BY <1>5 DEF IsIntersect, IsDisjoint
  <2>2. Meeting(j.left, i.right)
    BY <1>1, <1>3, <2>1, NotApart DEF Facing
  <2> QED  BY <1>1, <1>5, <2>2, EndpointParts DEF Meeting, Facing, Before
<1> QED  BY <1>4, <1>5

\* Of bounds that meet, every value satisfies one.
LEMMA MeetingAdmit ==
  ASSUME NEW l, NEW r, NEW v \in Int, Meeting(l, r)
  PROVE  Admits(l, v) \/ Admits(r, v)
BY EndpointParts DEF Meeting, Facing, Admits

\* try_get_intersect accepts exactly the common values, and gives a proper interval.
THEOREM IntersectionHoldsTheCommon ==
  ASSUME NEW i, NEW j, NEW v \in Int, Proper(i), Proper(j), IsIntersect(i, j)
  PROVE  /\ Proper(IntersectionWith(i, j))
         /\ IntersectionWith(i, j) = Interval(Later(i.left, j.left), Earlier(i.right, j.right))
         /\ Holds(IntersectionWith(i, j), v) <=> Holds(i, v) /\ Holds(j, v)
<1>1. Facing(i.left, i.right) /\ Facing(j.left, j.right)
  BY DEF Proper
<1>2. Facing(i.left, j.right) /\ Facing(j.left, i.right)
  BY IntersectingMeet DEF Meeting
<1>3. Facing(Later(i.left, j.left), Earlier(i.right, j.right))
  BY <1>1, <1>2 DEF Later, Earlier
<1>4. /\ Proper(IntersectionWith(i, j))
      /\ IntersectionWith(i, j) = Interval(Later(i.left, j.left), Earlier(i.right, j.right))
  BY <1>3, BetweenFacing DEF IntersectionWith
<1>5. /\ Admits(Later(i.left, j.left), v) <=> Admits(i.left, v) /\ Admits(j.left, v)
      /\ Admits(Earlier(i.right, j.right), v) <=> Admits(i.right, v) /\ Admits(j.right, v)
  BY <1>1, LowerBounds, UpperBounds DEF Facing
<1> QED  BY <1>4, <1>5 DEF Interval, Holds

\* try_get_union accepts what either accepts and nothing in between, and gives a proper
\* interval: can_merge says yes only where there is no gap.
THEOREM UnionHoldsEither ==
  ASSUME NEW i, NEW j, NEW v \in Int, Proper(i), Proper(j), Comparable(i, j),
         CanMerge(i, j)
  PROVE  /\ Proper(UnionWith(i, j))
         /\ Holds(UnionWith(i, j), v) <=> Holds(i, v) \/ Holds(j, v)
<1>1. Facing(i.left, i.right) /\ Facing(j.left, j.right)
  BY DEF Proper
<1>2. Facing(Earlier(i.left, j.left), Later(i.right, j.right))
  BY <1>1, EndpointParts DEF Facing, Earlier, Later, BeforeOrAt, Before
<1>3. /\ Proper(UnionWith(i, j))
      /\ UnionWith(i, j) = Interval(Earlier(i.left, j.left), Later(i.right, j.right))
  BY <1>2, BetweenFacing DEF UnionWith
<1>4. /\ Admits(Earlier(i.left, j.left), v) <=> Admits(i.left, v) \/ Admits(j.left, v)
      /\ Admits(Later(i.right, j.right), v) <=> Admits(i.right, v) \/ Admits(j.right, v)
  BY <1>1, LowerBounds, UpperBounds DEF Facing
<1>5. ASSUME Admits(i.left, v), Admits(j.right, v)
      PROVE  Admits(j.left, v) \/ Admits(i.right, v)
  BY <1>1, <1>5, EndpointParts DEF Facing, Comparable, CanMerge, IsDisjoint, IsAdjacent,
     Apart, Adjacent, Limited, Unlimited, Opposite, Before, Admits
<1>6. ASSUME Admits(j.left, v), Admits(i.right, v)
      PROVE  Admits(i.left, v) \/ Admits(j.right, v)
  BY <1>1, <1>6, EndpointParts DEF Facing, Comparable, CanMerge, IsDisjoint, IsAdjacent,
     Apart, Adjacent, Limited, Unlimited, Opposite, Before, Admits
<1> QED  BY <1>3, <1>4, <1>5, <1>6 DEF Interval, Holds

\* The neighbour of a finite bound, part by part.
LEMMA AdjacentParts ==
  ASSUME NEW e, Wellformed(e), e.limited
  PROVE  /\ Wellformed(Adjacent(e)) /\ Adjacent(e).limited
         /\ Adjacent(e).value = e.value
         /\ Adjacent(e).side = Opposite(e.side)
         /\ Adjacent(e).open <=> ~e.open
<1>1. Opposite(e.side) \in Sides
  BY EndpointParts DEF Opposite, Sides
<1>2. CASE e.open
  <2>1. Adjacent(e) = Limited(e.value, FALSE, Opposite(e.side))
    BY <1>2 DEF Adjacent
  <2> QED  BY <1>1, <1>2, <2>1, EndpointParts DEF Limited, Wellformed, Endpoints
<1>3. CASE ~e.open
  <2>1. Adjacent(e) = Limited(e.value, TRUE, Opposite(e.side))
    BY <1>3 DEF Adjacent
  <2> QED  BY <1>1, <1>3, <2>1, EndpointParts DEF Limited, Wellformed, Endpoints
<1> QED  BY <1>2, <1>3

\* The neighbour of a finite bound admits what the bound does not, and what comes before
\* a lower bound, or after an upper one, makes an interval up to the neighbour.
LEMMA AdjacentBounds ==
  ASSUME NEW e, NEW other, NEW v \in Int, Wellformed(e), Wellformed(other),
         e.side = other.side
  PROVE  /\ e.limited => (Admits(Adjacent(e), v) <=> ~Admits(e, v))
         /\ e.side = "Left" /\ Before(other, e) => e.limited /\ Facing(other, Adjacent(e))
         /\ e.side = "Right" /\ Before(e, other) => e.limited /\ Facing(Adjacent(e), other)
<1>1. e.limited => (Admits(Adjacent(e), v) <=> ~Admits(e, v))
  BY AdjacentParts, EndpointParts DEF Opposite, Admits
<1>2. ASSUME e.side = "Left", Before(other, e)
      PROVE  e.limited /\ Facing(other, Adjacent(e))
  <2>1. e.limited
    BY <1>2, EndpointParts DEF Before
  <2>2. /\ Wellformed(Adjacent(e)) /\ Adjacent(e).value = e.value
        /\ Adjacent(e).side = "Right" /\ (Adjacent(e).open <=> ~e.open)
    BY <1>2, <2>1, AdjacentParts DEF Opposite
  <2>3. other.limited => \/ other.value < e.value
                         \/ other.value = e.value /\ ~other.open /\ e.open
    BY <1>2, <2>1, EndpointParts DEF Before
  <2> QED  BY <1>2, <2>1, <2>2, <2>3, EndpointParts DEF Facing
<1>3. ASSUME e.side = "Right", Before(e, other)
      PROVE  e.limited /\ Facing(Adjacent(e), other)
  <2>1. e.limited
    BY <1>3, EndpointParts DEF Before
  <2>2. /\ Wellformed(Adjacent(e)) /\ Adjacent(e).value = e.value
        /\ Adjacent(e).side = "Left" /\ (Adjacent(e).open <=> ~e.open)
    BY <1>3, <2>1, AdjacentParts DEF Opposite
  <2>3. other.limited => \/ e.value < other.value
                         \/ e.value = other.value /\ e.open /\ ~other.open
    BY <1>3, <2>1, EndpointParts DEF Before
  <2> QED  BY <1>3, <2>1, <2>2, <2>3, EndpointParts DEF Facing
<1> QED  BY <1>1, <1>2, <1>3

\* try_get_difference, or get_difference: what is left of an interval accepts exactly the
\* values the other does not, and is made of proper intervals.
THEOREM DifferenceHoldsTheRest ==
  ASSUME NEW i, NEW j, NEW v \in Int, Proper(i), Proper(j), Comparable(i, j)
  PROVE  /\ \A d \in Difference(i, j) : Proper(d)
         /\ (\E d \in Difference(i, j) : Holds(d, v)) <=> Holds(i, v) /\ ~Holds(j, v)
<1> DEFINE cut   == IntersectionWith(i, j)
           lower == Between(i.left, Adjacent(cut.left))
           upper == Between(Adjacent(cut.right), i.right)
<1>1. Facing(i.left, i.right) /\ Facing(j.left, j.right)
  BY DEF Proper
<1>2. CASE ~IsIntersect(i, j)
  <2>1. Difference(i, j) = {i}
    BY <1>2 DEF Difference
  <2>2. ~(Holds(i, v) /\ Holds(j, v))
    BY <1>2, DisjointHaveNoCommonValue
  <2> QED  BY <2>1, <2>2
<1>3. CASE IsIntersect(i, j) /\ Covers(j, i)
  <2>1. Difference(i, j) = {Nothing}
    BY <1>3 DEF Difference
  <2>2. Proper(Nothing) /\ ~Holds(Nothing, v)
    <3>1. Facing(Limited(0, TRUE, "Left"), Limited(0, TRUE, "Right"))
      BY DEF Facing, Limited, Wellformed, Endpoints, Sides
    <3>2. ~(/\ Admits(Limited(0, TRUE, "Left"), v)
            /\ Admits(Limited(0, TRUE, "Right"), v))
      BY DEF Admits, Limited
    <3> QED  BY <3>1, <3>2 DEF Nothing, Proper, Interval, Holds
  <2>3. Holds(i, v) => Holds(j, v)
    BY <1>3, CoversItsValues
  <2> QED  BY <2>1, <2>2, <2>3
<1>4. CASE IsIntersect(i, j) /\ ~Covers(j, i)
  <2>1. /\ cut.left = Later(i.left, j.left) /\ cut.right = Earlier(i.right, j.right)
        /\ Facing(cut.left, cut.right)
        /\ Holds(cut, v) <=> Holds(i, v) /\ Holds(j, v)
    BY <1>4, IntersectionHoldsTheCommon DEF Interval, Proper
  <2>2. Before(i.left, cut.left) \/ i.left = cut.left
    BY <1>1, <2>1, BeforeIsAnOrder DEF Later, BeforeOrAt, Facing
  <2>3. Before(cut.right, i.right) \/ i.right = cut.right
    BY <1>1, <2>1, BeforeIsAnOrder DEF Earlier, BeforeOrAt, Facing
  <2>4. ~(i.left = cut.left /\ i.right = cut.right)
    BY <1>1, <1>4, <2>1, BeforeIsAnOrder DEF Later, Earlier, Covers, BeforeOrAt, Facing
  <2>5. ASSUME Before(i.left, cut.left)
        PROVE  /\ Proper(lower)
               /\ Holds(lower, v) <=> Holds(i, v) /\ ~Admits(j.left, v)
    <3>1. cut.left = j.left
      BY <1>1, <2>1, <2>5, BeforeIsAnOrder DEF Later, Facing
    <3>2. j.left.limited /\ Facing(i.left, Adjacent(j.left))
      BY <1>1, <2>5, <3>1, AdjacentBounds DEF Facing
    <3>3. Proper(lower) /\ lower = Interval(i.left, Adjacent(j.left))
      BY <3>1, <3>2, BetweenFacing
    <3>4. Admits(Adjacent(j.left), v) <=> ~Admits(j.left, v)
      BY <1>1, <3>2, AdjacentBounds DEF Facing
    <3>5. Admits(j.left, v) \/ Admits(i.right, v)
      BY <1>4, IntersectingMeet, MeetingAdmit
    <3> QED  BY <3>3, <3>4, <3>5 DEF Interval, Holds
  <2>6. ASSUME Before(cut.right, i.right)
        PROVE  /\ Proper(upper)
               /\ Holds(upper, v) <=> Holds(i, v) /\ ~Admits(j.right, v)
    <3>1. cut.right = j.right
      BY <1>1, <2>1, <2>6, BeforeIsAnOrder DEF Earlier, Facing
    <3>2. j.right.limited /\ Facing(Adjacent(j.right), i.right)
      BY <1>1, <2>6, <3>1, AdjacentBounds DEF Facing
    <3>3. Proper(upper) /\ upper = Interval(Adjacent(j.right), i.right)
      BY <3>1, <3>2, BetweenFacing
    <3>4. Admits(Adjacent(j.right), v) <=> ~Admits(j.right, v)
      BY <1>1, <3>2, AdjacentBounds DEF Facing
    <3>5. Admits(i.left, v) \/ Admits(j.right, v)
      BY <1>4, IntersectingMeet, MeetingAdmit
    <3> QED  BY <3>3, <3>4, <3>5 DEF Interval, Holds
  <2> HIDE DEF cut, lower, upper
  <2>7. CASE Before(i.left, cut.left) /\ Before(cut.right, i.right)
    <3>1. Difference(i, j) = {lower, upper}
      BY <1>4, <2>7 DEF Difference, cut, lower, upper
    <3> QED  BY <2>5, <2>6, <2>7, <3>1 DEF Holds
  <2>8. CASE cut.left = i.left
    <3>1. Before(cut.right, i.right) /\ ~Before(i.left, cut.left)
      BY <2>3, <2>4, <2>8 DEF Before
    <3>2. Difference(i, j) = {upper}
      BY <1>4, <2>8, <3>1 DEF Difference, cut, lower, upper
    <3>3. Admits(i.left, v) => Admits(j.left, v)
      <4>1. Admits(Later(i.left, j.left), v) <=> Admits(i.left, v) /\ Admits(j.left, v)
        BY <1>1, LowerBounds DEF Facing
      <4> QED  BY <2>1, <2>8, <4>1
    <3> QED  BY <2>6, <3>1, <3>2, <3>3 DEF Holds
  <2>9. CASE cut.left # i.left /\ cut.right = i.right
    <3>1. Before(i.left, cut.left) /\ ~Before(cut.right, i.right)
      BY <2>2, <2>9 DEF Before
    <3>2. Difference(i, j) = {lower}
      BY <1>4, <2>9, <3>1 DEF Difference, cut, lower, upper
    <3>3. Admits(i.right, v) => Admits(j.right, v)
      <4>1. Admits(Earlier(i.right, j.right), v) <=> Admits(i.right, v) /\ Admits(j.right, v)
        BY <1>1, UpperBounds DEF Facing
      <4> QED  BY <2>1, <2>9, <4>1
    <3> QED  BY <2>5, <3>1, <3>2, <3>3 DEF Holds
  <2> QED  BY <2>2, <2>3, <2>7, <2>8, <2>9
<1> QED  BY <1>2, <1>3, <1>4

-----------------------------------------------------------------------------
(* Walking through sets in their order.                                     *)

\* A set of natural numbers that is not empty has a least element.
LEMMA LeastElement ==
  ASSUME NEW T \in SUBSET Nat, T # {}
  PROVE  \E m \in T : \A k \in T : m <= k
<1> DEFINE R == OpToRel(<,Nat)
<1>1. \A x, y \in Nat : <<x, y>> \in R <=> x < y
  BY DEF OpToRel
<1>2. IsWellFoundedOn(R, Nat)
  BY NatLessThanWellFounded
<1> HIDE DEF R
<1>3. PICK m \in T : \A y \in T : ~ (<<y, m>> \in R)
  BY <1>2, WFMin
<1>4. \A y \in T : ~(y < m)
  BY <1>1, <1>3
<1>5. \A y \in T : m <= y
  BY <1>4
<1> QED  BY <1>5

\* What holds at the start and goes on from each step to the next holds at the end.
LEMMA ToTheEnd ==
  ASSUME NEW n \in Nat, NEW P, 0 \in P, \A k \in 0..n - 1 : k \in P => k + 1 \in P
  PROVE  \A k \in 0..n : k \in P
<1> DEFINE T == {k \in 0..n : k \notin P}
<1>1. SUFFICES ASSUME T # {} PROVE FALSE
  OBVIOUS
<1>2. T \in SUBSET Nat
  OBVIOUS
<1>3. PICK m \in T : \A k \in T : m <= k
  <2> HIDE DEF T
  <2> QED  BY <1>1, <1>2, LeastElement
<1>4. m \in 0..n /\ m \notin P /\ m # 0
  OBVIOUS
<1>5. m - 1 \in 0..n - 1 /\ m - 1 \in 0..n /\ ~(m <= m - 1) /\ (m - 1) + 1 = m
  BY <1>4
<1>6. m - 1 \in P
  <2>1. m - 1 \notin T
    BY <1>3, <1>5
  <2> QED  BY <1>5, <2>1
<1> QED  BY <1>4, <1>5, <1>6

\* The courses that start from x and go by F, of n steps.
Courses(X, x, n, F) ==
  {g \in [0..n -> X] : g[0] = x /\ \A k \in 1..n : g[k] = F[k][g[k - 1]]}

Steps(X, n, F) == \A k \in 1..n : \A y \in X : F[k][y] \in X

\* Steps from one value to the next have a course.
LEMMA Course ==
  ASSUME NEW X, NEW x \in X, NEW n \in Nat, NEW F, Steps(X, n, F)
  PROVE  Courses(X, x, n, F) # {}
<1>0. \A k \in 1..n : \A y \in X : F[k][y] \in X
  BY DEF Steps
<1> DEFINE Goes(m) == \E g \in [0..m -> X] : g[0] = x /\ \A k \in 1..m : g[k] = F[k][g[k - 1]]
           P == {m \in 0..n : Goes(m)}
<1>1. 0 \in P
  <2> DEFINE g == [k \in 0..0 |-> x]
  <2>1. g \in [0..0 -> X] /\ g[0] = x /\ \A k \in 1..0 : g[k] = F[k][g[k - 1]]
    OBVIOUS
  <2> HIDE DEF g
  <2> QED  BY <2>1
<1>2. ASSUME NEW m \in 0..n - 1, m \in P
      PROVE  m + 1 \in P
  <2>1. PICK g \in [0..m -> X] : g[0] = x /\ \A k \in 1..m : g[k] = F[k][g[k - 1]]
    BY <1>2
  <2>2. m + 1 \in 1..n /\ m + 1 \in 0..n /\ m \in 0..m /\ m \in Nat
    OBVIOUS
  <2> DEFINE y == F[m + 1][g[m]]
             h == [k \in 0..m + 1 |-> IF k = m + 1 THEN y ELSE g[k]]
  <2>3. y \in X
    <3>1. g[m] \in X
      BY <2>1, <2>2
    <3> QED  BY <1>0, <2>2, <3>1
  <2> HIDE DEF y
  <2>4. h \in [0..m + 1 -> X]
    <3>1. ASSUME NEW k \in 0..m + 1 PROVE (IF k = m + 1 THEN y ELSE g[k]) \in X
      <4>1. k # m + 1 => k \in 0..m
        BY <2>2
      <4> QED  BY <2>1, <2>3, <4>1
    <3> QED  BY <3>1
  <2>5. h[m + 1] = y /\ \A k \in 0..m : h[k] = g[k]
    <3>1. m + 1 \in 0..m + 1 /\ \A k \in 0..m : k \in 0..m + 1 /\ k # m + 1
      BY <2>2
    <3> QED  BY <3>1
  <2> HIDE DEF h
  <2>6. h[0] = x
    BY <2>1, <2>2, <2>5
  <2>7. ASSUME NEW k \in 1..m + 1
        PROVE  h[k] = F[k][h[k - 1]]
    <3>1. CASE k = m + 1
      <4>1. k - 1 = m
        BY <2>2, <3>1
      <4> QED  BY <2>2, <2>5, <3>1, <4>1 DEF y
    <3>2. CASE k # m + 1
      <4>1. k \in 1..m /\ k \in 0..m /\ k - 1 \in 0..m
        BY <2>2, <3>2
      <4> QED  BY <2>1, <2>5, <4>1
    <3> QED  BY <3>1, <3>2
  <2>8. Goes(m + 1)
    BY <2>4, <2>6, <2>7
  <2> QED  BY <2>2, <2>8
<1> HIDE DEF P
<1>3. n \in P
  <2>1. \A k \in 0..n : k \in P
    BY <1>1, <1>2, ToTheEnd
  <2> QED  BY <2>1
<1> QED  BY <1>3 DEF P, Courses

\* A finite set of intervals has an order.
LEMMA Ordered ==
  ASSUME NEW S, IsFiniteSet(S), \A i \in S : Proper(i)
  PROVE  /\ Cardinality(S) \in Nat
         /\ InOrder(S) \in [1..Cardinality(S) -> S]
         /\ \A k, l \in 1..Cardinality(S) : k < l => Precedes(InOrder(S)[k], InOrder(S)[l])
         /\ \A i \in S : \E k \in 1..Cardinality(S) : InOrder(S)[k] = i
<1> DEFINE n == Cardinality(S)
           Below(i) == {j \in S : Precedes(j, i)}
           rank == [i \in S |-> Cardinality(Below(i)) + 1]
<1>1. n \in Nat
  BY FS_CardinalityType
<1>2. \A i, j \in S : /\ ~Precedes(i, i)
                      /\ Precedes(i, j) \/ Precedes(j, i) \/ i = j
  BY PrecedesIsAnOrder
<1>3. \A i, j, k \in S : Precedes(i, j) /\ Precedes(j, k) => Precedes(i, k)
  BY PrecedesIsAnOrder
<1>4. \A i \in S : /\ IsFiniteSet(Below(i)) /\ Cardinality(Below(i)) \in Nat
                   /\ Cardinality(Below(i)) < n
  <2> SUFFICES ASSUME NEW i \in S
               PROVE  /\ IsFiniteSet(Below(i)) /\ Cardinality(Below(i)) \in Nat
                      /\ Cardinality(Below(i)) < n
    OBVIOUS
  <2>1. Below(i) \subseteq S /\ i \in S /\ i \notin Below(i)
    BY <1>2
  <2> HIDE DEF Below
  <2> QED  BY <1>1, <2>1, FS_Subset, FS_CardinalityType
<1>5. \A i, j \in S : Precedes(i, j) => Cardinality(Below(i)) < Cardinality(Below(j))
  <2> SUFFICES ASSUME NEW i \in S, NEW j \in S, Precedes(i, j)
               PROVE  Cardinality(Below(i)) < Cardinality(Below(j))
    OBVIOUS
  <2>1. Below(i) \subseteq Below(j) /\ i \in Below(j) /\ i \notin Below(i)
    BY <1>2, <1>3
  <2> HIDE DEF Below
  <2> QED  BY <1>4, <2>1, FS_Subset
<1>6. rank \in [S -> 1..n]
  <2> HIDE DEF Below, n
  <2> QED  BY <1>1, <1>4
<1>7. \A i, j \in S : rank[i] < rank[j] => Precedes(i, j)
  <2> SUFFICES ASSUME NEW i \in S, NEW j \in S, rank[i] < rank[j] PROVE Precedes(i, j)
    OBVIOUS
  <2> HIDE DEF Below
  <2>1. Cardinality(Below(i)) < Cardinality(Below(j))
    BY <1>4
  <2>2. ~Precedes(j, i) /\ i # j
    BY <1>4, <1>5, <2>1
  <2> QED  BY <1>2, <2>2
<1>8. \A i, j \in S : rank[i] = rank[j] => i = j
  <2> SUFFICES ASSUME NEW i \in S, NEW j \in S, rank[i] = rank[j] PROVE i = j
    OBVIOUS
  <2> HIDE DEF Below
  <2>1. Cardinality(Below(i)) = Cardinality(Below(j))
    BY <1>4
  <2> QED  BY <1>2, <1>4, <1>5, <2>1
<1> HIDE DEF rank
<1>9. IsFiniteSet(1..n) /\ Cardinality(1..n) = n
  BY <1>1, FS_Interval
<1>10. rank \in Surjection(S, 1..n)
  <2>1. rank \in Injection(S, 1..n)
    BY <1>6, <1>8 DEF Injection, IsInjective
  <2> QED  BY <1>9, <2>1, FS_Injection
<1>11. \A k \in 1..n : \E i \in S : rank[i] = k
  BY <1>10 DEF Surjection
<1> DEFINE s == [k \in 1..n |-> CHOOSE i \in S : rank[i] = k]
<1>12. \A k \in 1..n : s[k] \in S /\ rank[s[k]] = k
  BY <1>11
<1>13. s \in [1..n -> S]
  BY <1>12
<1> HIDE DEF s, n
<1>14. \A k, l \in 1..n : k < l => Precedes(s[k], s[l])
  BY <1>7, <1>12
<1> DEFINE t == InOrder(S)
<1>15. t \in [1..n -> S] /\ \A k, l \in 1..n : k < l => Precedes(t[k], t[l])
  <2>1. t = CHOOSE u \in [1..n -> S] : \A k, l \in 1..n : k < l => Precedes(u[k], u[l])
    BY DEF InOrder, n
  <2> HIDE DEF t
  <2> QED  BY <1>13, <1>14, <2>1
<1> HIDE DEF t
<1>16. t \in Surjection(1..n, S)
  <2>1. \A k, l \in 1..n : t[k] = t[l] => k = l
    <3> SUFFICES ASSUME NEW k \in 1..n, NEW l \in 1..n, t[k] = t[l] PROVE k = l
      OBVIOUS
    <3>1. k < l \/ l < k \/ k = l
      BY <1>1 DEF n
    <3> QED  BY <1>2, <1>15, <3>1
  <2>2. t \in Injection(1..n, S)
    BY <1>15, <2>1 DEF Injection, IsInjective
  <2>3. Cardinality(S) = n
    BY DEF n
  <2> QED  BY <1>9, <2>2, <2>3, FS_Injection
<1>17. \A i \in S : \E k \in 1..n : t[k] = i
  BY <1>16 DEF Surjection
<1> QED  BY <1>1, <1>15, <1>17 DEF n, t

-----------------------------------------------------------------------------
(* Merging.                                                                 *)

\* Bounded on the sides that have to be, so that no two intervals of a condition are
\* unbounded towards different sides.
Ends(i) == /\ i.left.limited \/ "Left" \in Unbounded
           /\ i.right.limited \/ "Right" \in Unbounded

Placed(i) == /\ i.left.limited => i.left.value \in Bounds
             /\ i.right.limited => i.right.value \in Bounds

\* Infinite bounds are all on one side: of opposite ones the code takes the ends for
\* neighbours.
OneSideUnbounded == Unbounded \subseteq Sides /\ Unbounded # Sides

\* What And, Or and Not make of a condition's intervals, and what of that stays.
Usable(i) == Proper(i) /\ Ends(i) /\ (IsEmpty(i) \/ Placed(i))
Solid(i)  == Proper(i) /\ Ends(i) /\ Placed(i) /\ ~IsEmpty(i)

\* Between an upper bound and a lower one there is a value that satisfies neither.
Separate(r, l) ==
  /\ r.limited /\ l.limited
  /\ r.value < l.value \/ (r.value = l.value /\ r.open /\ l.open)

\* The one representation of a set of values.
Canonical(S) ==
  /\ IsFiniteSet(S) /\ \A i \in S : Solid(i)
  /\ \A i, j \in S : i # j => Separate(i.right, j.left) \/ Separate(j.right, i.left)

\* Bounded on one side or the other, two intervals can be compared.
LEMMA EndsComparable ==
  ASSUME OneSideUnbounded, NEW i, NEW j, Ends(i), Ends(j)
  PROVE  Comparable(i, j)
BY DEF OneSideUnbounded, Ends, Comparable, Sides

\* The bounds of an interval, in numbers.
LEMMA ProperParts ==
  ASSUME NEW i, Proper(i)
  PROVE  /\ i.left.limited \in BOOLEAN /\ i.left.open \in BOOLEAN /\ i.left.value \in Int
         /\ i.right.limited \in BOOLEAN /\ i.right.open \in BOOLEAN /\ i.right.value \in Int
         /\ Wellformed(i.left) /\ i.left.side = "Left"
         /\ Wellformed(i.right) /\ i.right.side = "Right"
         /\ i.left.limited /\ i.right.limited =>
              \/ i.left.value < i.right.value
              \/ i.left.value = i.right.value /\ (i.left.open <=> i.right.open)
<1>1. Facing(i.left, i.right)
  BY DEF Proper
<1>2. Wellformed(i.left) /\ Wellformed(i.right)
  BY <1>1 DEF Facing
<1> QED  BY <1>1, <1>2, EndpointParts DEF Facing

\* The order of two lower bounds, in numbers.
LEMMA LowerOrder ==
  ASSUME NEW a, NEW b, Wellformed(a), Wellformed(b), a.side = "Left", b.side = "Left"
  PROVE  BeforeOrAt(a, b) <=>
           \/ ~a.limited
           \/ /\ b.limited
              /\ a.value < b.value \/ (a.value = b.value /\ (b.open \/ ~a.open))
<1>1. a = b <=> a.limited = b.limited /\ a.value = b.value /\ a.open = b.open
  BY EndpointParts
<1>2. a.limited \in BOOLEAN /\ b.limited \in BOOLEAN /\ a.open \in BOOLEAN /\ b.open \in BOOLEAN
  BY EndpointParts
<1>3. a.value \in Int /\ b.value \in Int
  BY EndpointParts
<1>4. /\ ~a.limited => a.open /\ a.value = 0
      /\ ~b.limited => b.open /\ b.value = 0
  BY EndpointParts
<1>5. CASE a.limited /\ b.limited
  <2>1. Before(a, b) <=> a # b /\ (a.value < b.value \/ (a.value = b.value /\ ~a.open))
    BY <1>2, <1>5 DEF Before
  <2> QED  BY <1>1, <1>2, <1>3, <1>5, <2>1 DEF BeforeOrAt
<1>6. CASE ~a.limited \/ ~b.limited
  BY <1>1, <1>2, <1>3, <1>4, <1>6 DEF BeforeOrAt, Before
<1> QED  BY <1>5, <1>6

\* Upper bounds the other way about.
LEMMA UpperOrder ==
  ASSUME NEW a, NEW b, Wellformed(a), Wellformed(b), a.side = "Right", b.side = "Right"
  PROVE  BeforeOrAt(a, b) <=>
           \/ ~b.limited
           \/ /\ a.limited
              /\ a.value < b.value \/ (a.value = b.value /\ (a.open \/ ~b.open))
<1>1. a = b <=> a.limited = b.limited /\ a.value = b.value /\ a.open = b.open
  BY EndpointParts
<1>2. a.limited \in BOOLEAN /\ b.limited \in BOOLEAN /\ a.open \in BOOLEAN /\ b.open \in BOOLEAN
  BY EndpointParts
<1>3. a.value \in Int /\ b.value \in Int
  BY EndpointParts
<1>4. /\ ~a.limited => a.open /\ a.value = 0
      /\ ~b.limited => b.open /\ b.value = 0
  BY EndpointParts
<1>5. CASE a.limited /\ b.limited
  <2>1. Before(a, b) <=> a # b /\ (a.value < b.value \/ (a.value = b.value /\ a.open))
    BY <1>2, <1>5 DEF Before
  <2> QED  BY <1>1, <1>2, <1>3, <1>5, <2>1 DEF BeforeOrAt
<1>6. CASE ~a.limited \/ ~b.limited
  BY <1>1, <1>2, <1>3, <1>4, <1>6 DEF BeforeOrAt, Before
<1> QED  BY <1>5, <1>6

\* An upper bound comes before a lower one if its value does not pass it, and adjoins it
\* if one of the two is open.
LEMMA AcrossOrder ==
  ASSUME NEW r, NEW l, Wellformed(r), Wellformed(l), r.side = "Right", l.side = "Left"
  PROVE  /\ Before(r, l) <=> r.limited /\ l.limited /\ r.value <= l.value
         /\ Before(l, r) <=> ~(r.limited /\ l.limited /\ r.value <= l.value)
         /\ Adjacent(r) = l <=> /\ (r.limited <=> l.limited) /\ r.value = l.value
                                /\ r.limited => (r.open <=> ~l.open)
         /\ Adjacent(l) = r <=> /\ (r.limited <=> l.limited) /\ r.value = l.value
                                /\ r.limited => (r.open <=> ~l.open)
<1>1. r # l
  OBVIOUS
<1>2. r.limited \in BOOLEAN /\ l.limited \in BOOLEAN /\ r.value \in Int /\ l.value \in Int
  BY EndpointParts
<1>3. /\ Before(r, l) <=> r.limited /\ l.limited /\ r.value <= l.value
      /\ Before(l, r) <=> ~(r.limited /\ l.limited /\ r.value <= l.value)
  BY <1>1, <1>2 DEF Before
<1>4. Adjacent(r) = l <=> /\ (r.limited <=> l.limited) /\ r.value = l.value
                          /\ r.limited => (r.open <=> ~l.open)
  BY EndpointParts DEF Adjacent, Limited, Unlimited, Opposite
<1>5. Adjacent(l) = r <=> /\ (r.limited <=> l.limited) /\ r.value = l.value
                          /\ r.limited => (r.open <=> ~l.open)
  BY EndpointParts DEF Adjacent, Limited, Unlimited, Opposite
<1> QED  BY <1>3, <1>4, <1>5

\* What is separate from a lower bound is so from a later one.
LEMMA SeparateBefore ==
  ASSUME NEW r, NEW l, NEW m, Wellformed(r), Wellformed(l), Wellformed(m),
         l.side = "Left", m.side = "Left", Separate(r, l), BeforeOrAt(l, m)
  PROVE  Separate(r, m)
<1>1. r.value \in Int /\ l.value \in Int /\ m.value \in Int
  BY EndpointParts
<1>2. \/ ~l.limited
      \/ /\ m.limited
         /\ l.value < m.value \/ (l.value = m.value /\ (m.open \/ ~l.open))
  BY LowerOrder
<1> QED  BY <1>1, <1>2 DEF Separate

\* An interval that cannot be merged with one that starts before it is separate from it.
LEMMA UnmergedSeparate ==
  ASSUME NEW c, NEW n, Proper(c), ~IsEmpty(c), Proper(n), Comparable(c, n),
         BeforeOrAt(c.left, n.left), IsEmpty(n) => c.left # n.left, ~CanMerge(c, n)
  PROVE  Separate(c.right, n.left)
<1>1. Facing(c.left, c.right) /\ Facing(n.left, n.right)
  BY DEF Proper
<1>2. /\ Adjacent(c.right) # n.left
      /\ IF Before(n.right, c.left) THEN Apart(c.left, n.right) ELSE Apart(n.left, c.right)
  BY DEF CanMerge, IsDisjoint, IsAdjacent
<1>3. \/ ~c.left.limited
      \/ /\ n.left.limited
         /\ \/ c.left.value < n.left.value
            \/ c.left.value = n.left.value /\ (n.left.open \/ ~c.left.open)
  BY <1>1, LowerOrder DEF Facing
<1>4. /\ Before(n.right, c.left) <=>
           n.right.limited /\ c.left.limited /\ n.right.value <= c.left.value
      /\ Before(c.right, n.left) <=>
           c.right.limited /\ n.left.limited /\ c.right.value <= n.left.value
      /\ Adjacent(c.right) = n.left <=>
           /\ (c.right.limited <=> n.left.limited) /\ c.right.value = n.left.value
           /\ c.right.limited => (c.right.open <=> ~n.left.open)
  BY <1>1, AcrossOrder DEF Facing
<1>5. /\ c.left.value \in Int /\ n.left.value \in Int
      /\ c.right.value \in Int /\ n.right.value \in Int
      /\ c.left.limited \in BOOLEAN /\ n.left.limited \in BOOLEAN
      /\ c.right.limited \in BOOLEAN /\ n.right.limited \in BOOLEAN
      /\ c.left.open \in BOOLEAN /\ n.left.open \in BOOLEAN
      /\ c.right.open \in BOOLEAN /\ n.right.open \in BOOLEAN
  BY <1>1, EndpointParts DEF Facing
<1>6. CASE Before(n.right, c.left)
  <2>1. /\ n.right.limited /\ c.left.limited /\ n.left.limited
        /\ n.right.value = c.left.value /\ n.left.value = c.left.value
    BY <1>1, <1>3, <1>4, <1>5, <1>6 DEF Facing
  <2>2. n.right.open /\ c.left.open /\ n.left.open
    BY <1>1, <1>2, <1>5, <1>6, <2>1 DEF Facing, Apart
  <2>3. c.left = n.left
    BY <1>1, <2>1, <2>2, EndpointParts DEF Facing
  <2>4. IsEmpty(n)
    BY <2>1, <2>2 DEF IsEmpty
  <2> QED  BY <2>3, <2>4
<1>7. CASE ~Before(n.right, c.left)
  <2>1. Apart(n.left, c.right)
    BY <1>2, <1>7
  <2>2. c.right.limited /\ n.left.limited /\ c.right.value <= n.left.value
    BY <1>4, <2>1 DEF Apart
  <2>3. c.right.value # n.left.value \/ (n.left.open /\ c.right.open)
    BY <2>1, <2>2 DEF Apart
  <2>4. n.left.value \in Int /\ c.right.value \in Int
    BY <1>5
  <2>5. c.right.value < n.left.value \/ c.right.value = n.left.value
    BY <2>2, <2>4
  <2> QED  BY <2>2, <2>3, <2>5 DEF Separate
<1> QED  BY <1>6, <1>7

\* Merging an empty interval changes nothing.
LEMMA EmptyMergesAway ==
  ASSUME NEW c, NEW e, Proper(c), ~IsEmpty(c), Proper(e), IsEmpty(e),
         BeforeOrAt(c.left, e.left), CanMerge(c, e)
  PROVE  UnionWith(c, e) = c
<1>1. Facing(c.left, c.right) /\ Facing(e.left, e.right) /\ c = Interval(c.left, c.right)
  BY DEF Proper
<1>2. Earlier(c.left, e.left) = c.left
  BY DEF Earlier
<1>3. BeforeOrAt(c.right, e.right) => c.right = e.right
  <2> SUFFICES ASSUME BeforeOrAt(c.right, e.right) PROVE c.right = e.right
    OBVIOUS
  <2>1. /\ e.left.limited /\ e.right.limited /\ e.left.value = e.right.value
        /\ e.left.open /\ e.right.open
    BY DEF IsEmpty
  <2>2. /\ c.right.limited
        /\ \/ c.right.value < e.right.value
           \/ c.right.value = e.right.value /\ c.right.open
    BY <1>1, <2>1, UpperOrder, EndpointParts DEF Facing
  <2>3. c.left.value \in Int /\ c.right.value \in Int /\ e.left.value \in Int
    BY <1>1, EndpointParts DEF Facing
  <2>4. /\ Adjacent(c.right) = e.left <=>
             /\ (c.right.limited <=> e.left.limited) /\ c.right.value = e.left.value
             /\ c.right.limited => (c.right.open <=> ~e.left.open)
        /\ Before(c.right, e.left) <=>
             c.right.limited /\ e.left.limited /\ c.right.value <= e.left.value
        /\ Before(e.right, c.left) <=>
             e.right.limited /\ c.left.limited /\ e.right.value <= c.left.value
    BY <1>1, AcrossOrder DEF Facing
  <2>5. Adjacent(c.left) = e.right <=>
             /\ (e.right.limited <=> c.left.limited) /\ e.right.value = c.left.value
             /\ e.right.limited => (e.right.open <=> ~c.left.open)
    BY <1>1, AcrossOrder DEF Facing
  <2>6. ~(c.left.limited /\ e.left.value <= c.left.value)
    <3> SUFFICES ASSUME c.left.limited, e.left.value <= c.left.value PROVE FALSE
      OBVIOUS
    <3>1. c.left.value = c.right.value /\ c.right.open
      BY <1>1, <2>1, <2>2, <2>3 DEF Facing
    <3>2. \/ c.left.value < c.right.value
          \/ c.left.value = c.right.value /\ (c.left.open <=> c.right.open)
      BY <2>2, ProperParts
    <3>3. c.left.open
      BY <2>3, <3>1, <3>2
    <3> QED  BY <2>2, <3>1, <3>3 DEF IsEmpty
  <2>7. ~IsAdjacent(c, e)
    <3>1. Adjacent(c.left) # e.right
      <4>1. c.left.limited \in BOOLEAN
        BY <1>1, EndpointParts DEF Facing
      <4> QED  BY <2>1, <2>3, <2>5, <2>6, <4>1
    <3>2. Adjacent(c.right) # e.left
      BY <2>1, <2>2, <2>3, <2>4
    <3> QED  BY <3>1, <3>2 DEF IsAdjacent
  <2>8. ~Before(e.right, c.left)
    BY <2>1, <2>4, <2>6
  <2>9. Apart(e.left, c.right)
    BY <2>1, <2>2, <2>3, <2>4 DEF Apart
  <2> QED  BY <2>7, <2>8, <2>9 DEF CanMerge, IsDisjoint
<1>4. Later(c.right, e.right) = c.right
  BY <1>3 DEF Later
<1> QED  BY <1>1, <1>2, <1>4, BetweenFacing DEF UnionWith

\* Merging two that are not empty gives one from the first's start.
LEMMA MergedSolid ==
  ASSUME NEW c, NEW n, Solid(c), Solid(n), BeforeOrAt(c.left, n.left)
  PROVE  Solid(UnionWith(c, n)) /\ UnionWith(c, n).left = c.left
<1>1. Facing(c.left, c.right) /\ Facing(n.left, n.right) /\ Proper(c)
  BY DEF Solid, Proper
<1>2. Earlier(c.left, n.left) = c.left
  BY DEF Earlier
<1> DEFINE r == Later(c.right, n.right)
<1>3. r = c.right \/ r = n.right
  BY DEF Later
<1>4. /\ Facing(c.left, r)
      /\ ~(/\ c.left.limited /\ r.limited /\ c.left.value = r.value
           /\ c.left.open /\ r.open)
  BY <1>1, EndpointParts DEF Solid, IsEmpty, Facing, Later, BeforeOrAt, Before
<1>5. UnionWith(c, n) = Interval(c.left, r) /\ Proper(UnionWith(c, n))
  BY <1>2, <1>4, BetweenFacing DEF UnionWith
<1> HIDE DEF r
<1>6. UnionWith(c, n).left = c.left /\ UnionWith(c, n).right = r
  BY <1>5 DEF Interval
<1> QED  BY <1>3, <1>4, <1>5, <1>6 DEF Solid, Ends, Placed, IsEmpty

\* In the set's order an interval does not start before one that comes earlier, and an
\* empty one starts after it.
LEMMA PrecedesStarts ==
  ASSUME NEW a, NEW n, Proper(a), Proper(n), Precedes(a, n)
  PROVE  BeforeOrAt(a.left, n.left) /\ (IsEmpty(n) => a.left # n.left)
<1>1. Facing(a.left, a.right) /\ Facing(n.left, n.right)
  BY DEF Proper
<1>2. BeforeOrAt(a.left, n.left)
  <2>1. Before(a.left, n.left) \/ Before(n.left, a.left) \/ a.left = n.left
    BY <1>1, BeforeIsAnOrder DEF Facing
  <2>2. ~(Before(a.left, n.left) /\ Before(n.left, a.left))
    BY <1>1, BeforeIsAnOrder DEF Facing
  <2> QED  BY <2>1, <2>2 DEF Precedes, BeforeOrAt
<1>3. ASSUME IsEmpty(n), a.left = n.left PROVE FALSE
  <2>1. Before(a.right, n.right)
    <3>1. ~Before(a.left, n.left)
      BY <1>3 DEF Before
    <3> QED  BY <3>1 DEF Precedes
  <2>2. /\ n.left.limited /\ n.right.limited /\ n.left.value = n.right.value
        /\ n.left.open /\ n.right.open
    BY <1>3 DEF IsEmpty
  <2>3. a.right.limited /\ a.right.value <= n.right.value
    BY <1>1, <2>1, <2>2, UpperOrder, EndpointParts DEF Facing, BeforeOrAt
  <2>4. a.right.value = n.right.value /\ a.right.open
    <3>1. a.left.limited /\ a.left.value = n.right.value /\ a.left.open
      BY <1>3, <2>2
    <3>2. a.right.value \in Int /\ n.right.value \in Int /\ a.right.open \in BOOLEAN
      BY <1>1, EndpointParts DEF Facing
    <3>3. \/ a.left.value < a.right.value
          \/ a.left.value = a.right.value /\ (a.left.open <=> a.right.open)
      BY <2>3, <3>1, ProperParts
    <3>4. a.right.value = n.right.value
      BY <2>3, <3>1, <3>2, <3>3
    <3> QED  BY <3>1, <3>2, <3>3, <3>4
  <2>5. a.right = n.right
    BY <1>1, <2>2, <2>3, <2>4, EndpointParts DEF Facing
  <2> QED  BY <2>1, <2>5 DEF Before
<1> QED  BY <1>2, <1>3

\* A bound not after one that is strictly before another is before the other.
LEMMA StartsOnward ==
  ASSUME NEW c, NEW a, NEW n, Wellformed(c), Wellformed(a), Wellformed(n),
         BeforeOrAt(c, a), BeforeOrAt(a, n)
  PROVE  BeforeOrAt(c, n) /\ (a # n => c # n)
<1>1. Before(c, a) /\ Before(a, n) => Before(c, n) /\ c # n
  BY BeforeIsAnOrder DEF Before
<1> QED  BY <1>1 DEF BeforeOrAt

\* No value is in an empty interval.
LEMMA EmptyHoldsNothing ==
  ASSUME NEW e, Proper(e), IsEmpty(e), NEW v \in Int
  PROVE  ~Holds(e, v)
BY EndpointParts DEF Proper, Facing, IsEmpty, Holds, Admits

\* The empty interval of the default constructor.
LEMMA NothingUsable ==
  /\ Proper(Nothing) /\ IsEmpty(Nothing) /\ Usable(Nothing)
  /\ \A v \in Int : ~Holds(Nothing, v)
<1>1. Nothing.left = Limited(0, TRUE, "Left") /\ Nothing.right = Limited(0, TRUE, "Right")
  BY DEF Nothing, Interval
<1>2. Facing(Nothing.left, Nothing.right)
  BY <1>1 DEF Facing, Limited, Wellformed, Endpoints, Sides
<1>3. Proper(Nothing)
  BY <1>2 DEF Proper, Nothing, Interval
<1>4. IsEmpty(Nothing)
  BY <1>1 DEF IsEmpty, Limited
<1>5. Ends(Nothing)
  BY <1>1 DEF Ends, Limited
<1> QED  BY <1>3, <1>4, <1>5, EmptyHoldsNothing DEF Usable

\* What simplify has done so far: what is out is settled, and lies before what is current.
Merging(d) ==
  /\ d = [out |-> d.out, current |-> d.current]
  /\ Canonical(d.out) /\ Usable(d.current)
  /\ \A i \in d.out : Separate(i.right, d.current.left)

\* An interval more in a condition, after the others.
LEMMA CanonicalMore ==
  ASSUME NEW S, Canonical(S), NEW c, Solid(c), \A i \in S : Separate(i.right, c.left)
  PROVE  Canonical(S \cup {c})
<1>1. IsFiniteSet(S \cup {c})
  BY FS_AddElement DEF Canonical
<1>2. \A i \in S \cup {c} : Solid(i)
  BY DEF Canonical
<1>3. \A i, j \in S \cup {c} : i # j => Separate(i.right, j.left) \/ Separate(j.right, i.left)
  BY DEF Canonical
<1> QED  BY <1>1, <1>2, <1>3 DEF Canonical

\* One step of simplify: the current interval takes the next one in, makes way for it, or
\* is put out and followed by it; no value is lost or gained.
LEMMA MergeStep ==
  ASSUME OneSideUnbounded, NEW d, Merging(d), NEW n, Usable(n),
         \/ d.out = {} /\ IsEmpty(d.current)
         \/ BeforeOrAt(d.current.left, n.left) /\ (IsEmpty(n) => d.current.left # n.left)
  PROVE  /\ Merging(MergeNext(d, n))
         /\ BeforeOrAt(MergeNext(d, n).current.left, n.left)
         /\ \A v \in Int : RangeHolds(MergeNext(d, n).out \cup {MergeNext(d, n).current}, v) <=>
                             RangeHolds(d.out \cup {d.current}, v) \/ Holds(n, v)
<1> DEFINE c == d.current
           out == d.out
           m == MergeNext(d, n)
<1>1. d = [out |-> out, current |-> c] /\ Canonical(out) /\ Usable(c) /\ Proper(c) /\ Proper(n)
  BY DEF Merging, Usable
<1>2. \A i \in out : /\ Separate(i.right, c.left)
                     /\ Wellformed(i.right) /\ Wellformed(c.left) /\ Wellformed(n.left)
                     /\ c.left.side = "Left" /\ n.left.side = "Left"
  BY <1>1, ProperParts DEF Merging, Canonical, Solid
<1>3. out = {} \/ BeforeOrAt(c.left, n.left)
  OBVIOUS
<1>4. \A i \in out : Separate(i.right, n.left)
  BY <1>2, <1>3, SeparateBefore
<1>5. CASE IsEmpty(c)
  <2>1. m = [out |-> out, current |-> n]
    BY <1>1, <1>5 DEF MergeNext
  <2>2. Merging(m) /\ BeforeOrAt(m.current.left, n.left)
    BY <1>1, <1>4, <2>1 DEF Merging, BeforeOrAt
  <2>3. ASSUME NEW v \in Int
        PROVE  RangeHolds(m.out \cup {m.current}, v) <=> RangeHolds(out \cup {c}, v) \/ Holds(n, v)
    <3>1. ~Holds(c, v)
      BY <1>1, <1>5, EmptyHoldsNothing
    <3> QED  BY <2>1, <3>1 DEF RangeHolds
  <2> QED  BY <2>2, <2>3
<1>6. CASE ~IsEmpty(c)
  <2>1. Solid(c) /\ BeforeOrAt(c.left, n.left) /\ (IsEmpty(n) => c.left # n.left)
    BY <1>1, <1>6 DEF Usable, Solid
  <2>2. Comparable(c, n)
    BY <1>1, <2>1, EndsComparable DEF Usable, Solid
  <2>3. CASE CanMerge(c, n)
    <3> DEFINE u == UnionWith(c, n)
    <3>1. m = [out |-> out, current |-> u]
      BY <1>1, <1>6, <2>3 DEF MergeNext
    <3>2. Solid(u) /\ u.left = c.left
      <4>1. CASE IsEmpty(n)
        BY <1>1, <2>1, <2>3, <4>1, EmptyMergesAway DEF Solid
      <4>2. CASE ~IsEmpty(n)
        <5>1. Solid(n)
          BY <4>2 DEF Usable, Solid
        <5> QED  BY <2>1, <5>1, MergedSolid
      <4> QED  BY <4>1, <4>2
    <3>3. ASSUME NEW v \in Int
          PROVE  Holds(u, v) <=> Holds(c, v) \/ Holds(n, v)
      BY <1>1, <2>2, <2>3, UnionHoldsEither
    <3> HIDE DEF u, c, out, m
    <3>4. Merging(m)
      BY <1>1, <1>2, <3>1, <3>2 DEF Merging, Solid, Usable
    <3>5. BeforeOrAt(m.current.left, n.left)
      BY <2>1, <3>1, <3>2
    <3>6. \A v \in Int : RangeHolds(m.out \cup {m.current}, v) <=>
                           RangeHolds(out \cup {c}, v) \/ Holds(n, v)
      BY <3>1, <3>3 DEF RangeHolds
    <3> QED  BY <3>4, <3>5, <3>6 DEF c, out, m
  <2>4. CASE ~CanMerge(c, n)
    <3>1. m = [out |-> out \cup {c}, current |-> n]
      BY <1>1, <1>6, <2>4 DEF MergeNext
    <3>2. Separate(c.right, n.left)
      BY <1>1, <1>6, <2>1, <2>2, <2>4, UnmergedSeparate
    <3> HIDE DEF c, out, m
    <3>3. Canonical(out \cup {c})
      BY <1>1, <1>2, <2>1, CanonicalMore
    <3>4. Merging(m)
      BY <1>4, <3>1, <3>2, <3>3 DEF Merging
    <3>5. BeforeOrAt(m.current.left, n.left)
      BY <3>1 DEF BeforeOrAt
    <3>6. \A v \in Int : RangeHolds(m.out \cup {m.current}, v) <=>
                           RangeHolds(out \cup {c}, v) \/ Holds(n, v)
      BY <3>1 DEF RangeHolds
    <3> QED  BY <3>4, <3>5, <3>6 DEF c, out, m
  <2> QED  BY <2>3, <2>4
<1> QED  BY <1>5, <1>6

EndpointPairs == [left : Endpoints, right : Endpoints]

\* Intervals are pairs of bounds, and so is what is merged of them.
LEMMA ProperIsInterval ==
  ASSUME NEW i, Proper(i)
  PROVE  i \in EndpointPairs
BY DEF Proper, Facing, Wellformed, Interval, EndpointPairs

\* try_get_union gives a pair of bounds whatever the bounds.
LEMMA UnionIsInterval ==
  ASSUME NEW i \in EndpointPairs, NEW j \in EndpointPairs
  PROVE  UnionWith(i, j) \in EndpointPairs
<1> DEFINE l == Earlier(i.left, j.left)
           r == Later(i.right, j.right)
<1>1. l \in Endpoints /\ r \in Endpoints
  BY DEF EndpointPairs, Earlier, Later
<1> HIDE DEF l, r
<1>2. Between(l, r) \in EndpointPairs
  <2> DEFINE swap == l.limited /\ r.limited /\ l.value > r.value
             a == IF swap THEN r ELSE l
             b == IF swap THEN l ELSE r
  <2>1. a \in Endpoints /\ b \in Endpoints
    BY <1>1
  <2>2. Between(l, r) = Interval([a EXCEPT !.side = "Left"], [b EXCEPT !.side = "Right"])
    BY DEF Between
  <2> HIDE DEF a, b
  <2>3. [a EXCEPT !.side = "Left"] \in Endpoints /\ [b EXCEPT !.side = "Right"] \in Endpoints
    BY <2>1 DEF Endpoints, Sides
  <2> QED  BY <2>2, <2>3 DEF Interval, EndpointPairs
<1> QED  BY <1>2 DEF UnionWith, l, r

\* The steps of simplify from one interval to the next.
LEMMA MergedCourse ==
  ASSUME NEW n \in Nat, NEW s \in [1..n -> EndpointPairs]
  PROVE  LET start == [out |-> {}, current |-> Nothing]
         IN  \E g : g = [k \in 0..n |-> IF k = 0 THEN start ELSE MergeNext(g[k - 1], s[k])]
<1> DEFINE X == [out : SUBSET EndpointPairs, current : EndpointPairs]
           F == [k \in 1..n |-> [d \in X |-> MergeNext(d, s[k])]]
           start == [out |-> {}, current |-> Nothing]
<1>1. start \in X
  <2>1. Nothing \in EndpointPairs
    BY NothingUsable, ProperIsInterval
  <2> QED  BY <2>1
<1>2. ASSUME NEW d \in X, NEW i \in EndpointPairs PROVE MergeNext(d, i) \in X
  <2>1. UnionWith(d.current, i) \in EndpointPairs
    BY UnionIsInterval
  <2> QED  BY <2>1 DEF MergeNext
<1>3. Steps(X, n, F)
  <2> HIDE DEF X
  <2> QED  BY <1>2 DEF Steps
<1>4. \A k \in 1..n : \A d \in X : F[k][d] = MergeNext(d, s[k])
  <2> HIDE DEF X
  <2> QED  OBVIOUS
<1> HIDE DEF X, F, start
<1>5. PICK g \in Courses(X, start, n, F) : TRUE
  BY <1>1, <1>3, Course
<1>6. ASSUME NEW k \in 0..n
      PROVE  g[k] = IF k = 0 THEN start ELSE MergeNext(g[k - 1], s[k])
  <2>1. k # 0 => k \in 1..n /\ k - 1 \in 0..n
    OBVIOUS
  <2> QED  BY <1>4, <1>5, <2>1 DEF Courses
<1>7. g = [k \in 0..n |-> IF k = 0 THEN start ELSE MergeNext(g[k - 1], s[k])]
  BY <1>5, <1>6 DEF Courses
<1> QED  BY <1>7 DEF start

\* simplify brings the intervals into the one representation of the values they hold
\* (range_condition.hpp:200).
LEMMA SimplifyKeeps ==
  ASSUME OneSideUnbounded, NEW S, IsFiniteSet(S), \A i \in S : Usable(i)
  PROVE  /\ Canonical(Simplify(S))
         /\ \A v \in Int : RangeHolds(Simplify(S), v) <=> RangeHolds(S, v)
<1> DEFINE n == Cardinality(S)
           s == InOrder(S)
           start == [out |-> {}, current |-> Nothing]
           Merged == CHOOSE g : g = [k \in 0..n |-> IF k = 0 THEN start
                                                    ELSE MergeNext(g[k - 1], s[k])]
           last == Merged[n]
<1>1. /\ n \in Nat /\ s \in [1..n -> S]
      /\ \A k, l \in 1..n : k < l => Precedes(s[k], s[l])
      /\ \A i \in S : \E k \in 1..n : s[k] = i
  BY Ordered DEF Usable
<1>2. Simplify(S) = IF IsEmpty(last.current) THEN last.out ELSE last.out \cup {last.current}
  BY DEF Simplify
<1> HIDE DEF n, s
<1>3. Merged = [k \in 0..n |-> IF k = 0 THEN start ELSE MergeNext(Merged[k - 1], s[k])]
  <2>1. s \in [1..n -> EndpointPairs]
    <3>1. \A k \in 1..n : s[k] \in EndpointPairs
      BY <1>1, ProperIsInterval DEF Usable
    <3> QED  BY <1>1, <3>1
  <2>2. \E g : g = [k \in 0..n |-> IF k = 0 THEN start ELSE MergeNext(g[k - 1], s[k])]
    BY <1>1, <2>1, MergedCourse
  <2> HIDE DEF start
  <2> QED  BY <2>2
<1> HIDE DEF Merged
<1>4. Merged[0] = start
  BY <1>1, <1>3, 0 \in 0..n
<1>5. \A k \in 0..n - 1 : Merged[k + 1] = MergeNext(Merged[k], s[k + 1])
  <2> SUFFICES ASSUME NEW k \in 0..n - 1 PROVE Merged[k + 1] = MergeNext(Merged[k], s[k + 1])
    OBVIOUS
  <2>1. k + 1 \in 0..n /\ k + 1 # 0 /\ (k + 1) - 1 = k
    BY <1>1
  <2> HIDE DEF start
  <2> QED  BY <1>3, <2>1
<1> DEFINE So(k) ==
             /\ Merging(Merged[k])
             /\ IF k = 0 THEN Merged[k] = start ELSE BeforeOrAt(Merged[k].current.left, s[k].left)
             /\ \A v \in Int : RangeHolds(Merged[k].out \cup {Merged[k].current}, v) <=>
                                 \E j \in 1..k : Holds(s[j], v)
           P == {k \in 0..n : So(k)}
<1>6. 0 \in P
  <2>1. Merging(start)
    <3>1. Canonical({})
      BY FS_EmptySet DEF Canonical
    <3> QED  BY <3>1, NothingUsable DEF Merging
  <2>2. \A v \in Int : ~RangeHolds(start.out \cup {start.current}, v)
    BY NothingUsable DEF RangeHolds
  <2>3. 1..0 = {} /\ 0 \in 0..n
    BY <1>1
  <2> HIDE DEF start
  <2> QED  BY <1>4, <2>1, <2>2, <2>3
<1>7. ASSUME NEW k \in 0..n - 1, k \in P PROVE k + 1 \in P
  <2> DEFINE d == Merged[k]
             i == s[k + 1]
  <2>1. k + 1 \in 1..n /\ k + 1 \in 0..n /\ k + 1 # 0 /\ Usable(i) /\ i \in S
    BY <1>1
  <2>2. Merged[k + 1] = MergeNext(d, i)
    BY <1>5
  <2>3. So(k)
    BY <1>7
  <2>4. \/ d.out = {} /\ IsEmpty(d.current)
        \/ BeforeOrAt(d.current.left, i.left) /\ (IsEmpty(i) => d.current.left # i.left)
    <3>1. CASE k = 0
      BY <2>3, <3>1, NothingUsable
    <3>2. CASE k # 0
      <4>1. k \in 1..n /\ k < k + 1
        BY <1>1, <3>2
      <4>2. /\ BeforeOrAt(d.current.left, s[k].left) /\ Precedes(s[k], i)
            /\ Usable(s[k]) /\ Usable(d.current)
        BY <1>1, <2>1, <2>3, <3>2, <4>1 DEF Merging
      <4>3. BeforeOrAt(s[k].left, i.left) /\ (IsEmpty(i) => s[k].left # i.left)
        BY <2>1, <4>2, PrecedesStarts DEF Usable
      <4>4. Wellformed(d.current.left) /\ Wellformed(s[k].left) /\ Wellformed(i.left)
        BY <2>1, <4>2, ProperParts DEF Usable
      <4> QED  BY <4>2, <4>3, <4>4, StartsOnward
    <3> QED  BY <3>1, <3>2
  <2> HIDE DEF start
  <2>5. /\ Merging(Merged[k + 1]) /\ BeforeOrAt(Merged[k + 1].current.left, i.left)
        /\ \A v \in Int : RangeHolds(Merged[k + 1].out \cup {Merged[k + 1].current}, v) <=>
                            RangeHolds(d.out \cup {d.current}, v) \/ Holds(i, v)
    BY <2>1, <2>2, <2>3, <2>4, MergeStep
  <2>6. ASSUME NEW v \in Int
        PROVE  RangeHolds(Merged[k + 1].out \cup {Merged[k + 1].current}, v) <=>
                 \E j \in 1..k + 1 : Holds(s[j], v)
    <3>1. 1..k + 1 = 1..k \cup {k + 1}
      BY <1>1
    <3> QED  BY <2>3, <2>5, <3>1
  <2> QED  BY <2>1, <2>5, <2>6
<1>8. So(n)
  <2> HIDE DEF So
  <2>1. \A k \in 0..n : k \in P
    <3> HIDE DEF P
    <3> QED  BY <1>1, <1>6, <1>7, ToTheEnd
  <2> QED  BY <1>1, <2>1
<1>9. /\ Merging(last)
      /\ \A v \in Int : RangeHolds(last.out \cup {last.current}, v) <=> RangeHolds(S, v)
  <2>1. \A v : (\E j \in 1..n : Holds(s[j], v)) <=> RangeHolds(S, v)
    BY <1>1 DEF RangeHolds
  <2> QED  BY <1>8, <2>1
<1> HIDE DEF last
<1>10. CASE IsEmpty(last.current)
  <2>1. \A v \in Int : ~Holds(last.current, v)
    BY <1>9, <1>10, EmptyHoldsNothing DEF Merging, Usable
  <2> QED  BY <1>2, <1>9, <1>10, <2>1 DEF Merging, RangeHolds
<1>11. CASE ~IsEmpty(last.current)
  <2>1. Solid(last.current)
    BY <1>9, <1>11 DEF Merging, Usable, Solid
  <2> QED  BY <1>2, <1>9, <1>11, <2>1, CanonicalMore DEF Merging
<1> QED  BY <1>10, <1>11

-----------------------------------------------------------------------------
(* And, Or and Not.                                                         *)

\* An interval a caller may add: empty or not.
Addable(i) == Proper(i) /\ Ends(i) /\ Placed(i)

\* The intersection of two intervals may be put into a condition.
LEMMA IntersectionUsable ==
  ASSUME NEW i, NEW j, Addable(i), Addable(j), IsIntersect(i, j)
  PROVE  Usable(IntersectionWith(i, j))
<1> DEFINE l == Later(i.left, j.left)
           r == Earlier(i.right, j.right)
           cut == IntersectionWith(i, j)
<1>1. Proper(cut) /\ cut = Interval(l, r)
  BY IntersectionHoldsTheCommon, 0 \in Int DEF Addable
<1>2. (l = i.left \/ l = j.left) /\ (r = i.right \/ r = j.right)
  BY DEF Later, Earlier
<1> HIDE DEF l, r, cut
<1>3. cut.left = l /\ cut.right = r
  BY <1>1 DEF Interval
<1>4. Ends(cut) /\ Placed(cut)
  BY <1>2, <1>3 DEF Addable, Ends, Placed
<1> QED  BY <1>1, <1>4 DEF Usable, cut

\* What get_difference leaves of an interval, bound by bound.
LEMMA DifferencePieces ==
  ASSUME NEW i, NEW j, Proper(i), Proper(j), NEW d \in Difference(i, j)
  PROVE  \/ d = i \/ d = Nothing
         \/ j.left.limited /\ d = Interval(i.left, Adjacent(j.left))
         \/ j.right.limited /\ d = Interval(Adjacent(j.right), i.right)
<1> DEFINE cut   == IntersectionWith(i, j)
           lower == Between(i.left, Adjacent(cut.left))
           upper == Between(Adjacent(cut.right), i.right)
<1>1. Facing(i.left, i.right) /\ Facing(j.left, j.right)
  BY DEF Proper
<1>2. CASE ~IsIntersect(i, j) \/ Covers(j, i)
  BY <1>2 DEF Difference
<1>3. CASE IsIntersect(i, j) /\ ~Covers(j, i)
  <2>1. /\ cut.left = Later(i.left, j.left) /\ cut.right = Earlier(i.right, j.right)
        /\ Facing(cut.left, cut.right)
    BY <1>3, IntersectionHoldsTheCommon, 0 \in Int DEF Interval, Proper
  <2>2. Before(i.left, cut.left) \/ i.left = cut.left
    BY <1>1, <2>1, BeforeIsAnOrder DEF Later, BeforeOrAt, Facing
  <2>3. Before(cut.right, i.right) \/ i.right = cut.right
    BY <1>1, <2>1, BeforeIsAnOrder DEF Earlier, BeforeOrAt, Facing
  <2>4. Before(i.left, cut.left) => j.left.limited /\ lower = Interval(i.left, Adjacent(j.left))
    <3> SUFFICES ASSUME Before(i.left, cut.left)
                 PROVE  j.left.limited /\ lower = Interval(i.left, Adjacent(j.left))
      OBVIOUS
    <3>1. cut.left = j.left
      BY <1>1, <2>1, BeforeIsAnOrder DEF Later, Facing
    <3>2. j.left.limited /\ Facing(i.left, Adjacent(j.left))
      BY <1>1, <3>1, AdjacentBounds, 0 \in Int DEF Facing
    <3> QED  BY <3>1, <3>2, BetweenFacing
  <2>5. Before(cut.right, i.right) =>
          j.right.limited /\ upper = Interval(Adjacent(j.right), i.right)
    <3> SUFFICES ASSUME Before(cut.right, i.right)
                 PROVE  j.right.limited /\ upper = Interval(Adjacent(j.right), i.right)
      OBVIOUS
    <3>1. cut.right = j.right
      BY <1>1, <2>1, BeforeIsAnOrder DEF Earlier, Facing
    <3>2. j.right.limited /\ Facing(Adjacent(j.right), i.right)
      BY <1>1, <3>1, AdjacentBounds, 0 \in Int DEF Facing
    <3> QED  BY <3>1, <3>2, BetweenFacing
  <2>6. ~(i.left = cut.left /\ i.right = cut.right)
    BY <1>1, <1>3, <2>1, BeforeIsAnOrder DEF Later, Earlier, Covers, BeforeOrAt, Facing
  <2>7. \/ d = lower /\ Before(i.left, cut.left)
        \/ d = upper /\ Before(cut.right, i.right)
    <3> HIDE DEF cut, lower, upper
    <3>1. d \in IF Before(i.left, cut.left) /\ Before(cut.right, i.right) THEN {lower, upper}
                ELSE IF cut.left = i.left THEN {upper}
                ELSE IF cut.right = i.right THEN {lower}
                ELSE {}
      BY <1>3 DEF Difference, cut, lower, upper
    <3> QED  BY <2>2, <2>3, <2>6, <3>1
  <2> QED  BY <2>4, <2>5, <2>7
<1> QED  BY <1>2, <1>3

\* And so may the pieces of a difference.
LEMMA DifferenceUsable ==
  ASSUME NEW i, NEW j, Solid(i), Addable(j), Comparable(i, j)
  PROVE  IsFiniteSet(Difference(i, j)) /\ \A d \in Difference(i, j) : Usable(d)
<1>1. Proper(i) /\ Proper(j)
  BY DEF Solid, Addable
<1> DEFINE lower == Interval(i.left, Adjacent(j.left))
           upper == Interval(Adjacent(j.right), i.right)
<1>2. \A d \in Difference(i, j) : \/ d = i \/ d = Nothing
                                  \/ j.left.limited /\ d = lower
                                  \/ j.right.limited /\ d = upper
  BY <1>1, DifferencePieces
<1>3. IsFiniteSet(Difference(i, j))
  <2>1. IsFiniteSet({i, Nothing} \cup {lower, upper})
    <3>1. IsFiniteSet({i}) /\ IsFiniteSet({i} \cup {Nothing})
      BY FS_Singleton, FS_AddElement
    <3>2. IsFiniteSet(({i} \cup {Nothing}) \cup {lower})
      BY <3>1, FS_AddElement
    <3>3. IsFiniteSet((({i} \cup {Nothing}) \cup {lower}) \cup {upper})
      BY <3>2, FS_AddElement
    <3>4. {i, Nothing} \cup {lower, upper} = (({i} \cup {Nothing}) \cup {lower}) \cup {upper}
      OBVIOUS
    <3> QED  BY <3>3, <3>4
  <2>2. Difference(i, j) \subseteq {i, Nothing} \cup {lower, upper}
    BY <1>2
  <2> QED  BY <2>1, <2>2, FS_Subset
<1>4. ASSUME NEW d \in Difference(i, j) PROVE Usable(d)
  <2>1. Proper(d)
    BY <1>1, DifferenceHoldsTheRest, 0 \in Int
  <2>2. Usable(i)
    BY DEF Solid, Usable
  <2>3. ASSUME j.left.limited, d = lower PROVE Usable(d)
    <3>1. d.left = i.left /\ d.right.limited /\ d.right.value = j.left.value
      BY <1>1, <2>3, AdjacentParts, ProperParts DEF Interval
    <3> QED  BY <2>1, <2>3, <3>1 DEF Usable, Solid, Addable, Ends, Placed
  <2>4. ASSUME j.right.limited, d = upper PROVE Usable(d)
    <3>1. d.right = i.right /\ d.left.limited /\ d.left.value = j.right.value
      BY <1>1, <2>4, AdjacentParts, ProperParts DEF Interval
    <3> QED  BY <2>1, <2>4, <3>1 DEF Usable, Solid, Addable, Ends, Placed
  <2> QED  BY <1>2, <2>2, <2>3, <2>4, NothingUsable
<1> QED  BY <1>3, <1>4

\* Images of finite sets, by a function.
LEMMA FiniteImage ==
  ASSUME NEW S, IsFiniteSet(S), NEW f, DOMAIN f = S
  PROVE  IsFiniteSet({f[x] : x \in S})
<1> DEFINE T == {f[x] : x \in S}
           g == [x \in S |-> f[x]]
<1>1. g \in Surjection(S, T)
  BY DEF Surjection
<1> HIDE DEF g, T
<1>2. IsFiniteSet(T)
  BY <1>1, FS_Surjection
<1> QED  BY <1>2 DEF T

\* The values And, Or, Not and the relations that change nothing leave.
Kept(relation, before, new) ==
  CASE relation = "And" -> before /\ new
    [] relation = "Or"  -> before \/ new
    [] relation = "Not" -> before /\ ~new
    [] OTHER            -> before

\* Adding an interval keeps a condition in its representation and does to the set of
\* its values what the relation says.
LEMMA AddKeeps ==
  ASSUME OneSideUnbounded, NEW S, Canonical(S), NEW i, Addable(i), NEW relation
  PROVE  /\ Canonical(AddRange(S, i, relation))
         /\ \A v \in Int : RangeHolds(AddRange(S, i, relation), v) <=>
                             Kept(relation, RangeHolds(S, v), Holds(i, v))
<1>1. /\ IsFiniteSet(S) /\ Proper(i)
      /\ \A k \in S : Solid(k) /\ Proper(k) /\ Usable(k) /\ Addable(k) /\ Comparable(k, i)
  BY EndsComparable DEF Canonical, Solid, Usable, Addable
<1>2. CASE relation = "And"
  <2> DEFINE M == {j \in S : IsIntersect(j, i)}
             f == [k \in M |-> IntersectionWith(k, i)]
             T == {IntersectionWith(k, i) : k \in M}
  <2>1. AddRange(S, i, relation) = Simplify(T)
    BY <1>2 DEF AddRange, AndInterval
  <2>2. IsFiniteSet(T)
    <3>1. IsFiniteSet(M) /\ DOMAIN f = M
      BY <1>1, FS_Subset
    <3>2. T = {f[k] : k \in M}
      OBVIOUS
    <3> HIDE DEF f, M, T
    <3>3. IsFiniteSet({f[k] : k \in M})
      BY <3>1, FiniteImage
    <3> QED  BY <3>2, <3>3
  <2>3. \A t \in T : Usable(t)
    BY <1>1, IntersectionUsable
  <2>4. ASSUME NEW v \in Int PROVE RangeHolds(T, v) <=> RangeHolds(S, v) /\ Holds(i, v)
    <3>1. \A k \in M : Holds(IntersectionWith(k, i), v) <=> Holds(k, v) /\ Holds(i, v)
      BY <1>1, IntersectionHoldsTheCommon
    <3>2. \A k \in S : k \notin M => ~(Holds(k, v) /\ Holds(i, v))
      BY <1>1, DisjointHaveNoCommonValue
    <3> QED  BY <3>1, <3>2 DEF RangeHolds
  <2> HIDE DEF T
  <2>5. /\ Canonical(Simplify(T))
        /\ \A v \in Int : RangeHolds(Simplify(T), v) <=> RangeHolds(T, v)
    BY <2>2, <2>3, SimplifyKeeps
  <2> QED  BY <1>2, <2>1, <2>4, <2>5 DEF Kept
<1>3. CASE relation = "Or"
  <2> DEFINE T == S \cup {i}
  <2>1. AddRange(S, i, relation) = Simplify(T)
    BY <1>3 DEF AddRange, OrInterval
  <2>2. IsFiniteSet(T) /\ \A t \in T : Usable(t)
    <3>1. Usable(i)
      BY DEF Addable, Usable
    <3> QED  BY <1>1, <3>1, FS_AddElement
  <2>3. \A v : RangeHolds(T, v) <=> RangeHolds(S, v) \/ Holds(i, v)
    BY DEF RangeHolds
  <2> HIDE DEF T
  <2>4. /\ Canonical(Simplify(T))
        /\ \A v \in Int : RangeHolds(Simplify(T), v) <=> RangeHolds(T, v)
    BY <2>2, SimplifyKeeps
  <2> QED  BY <1>3, <2>1, <2>3, <2>4 DEF Kept
<1>4. CASE relation = "Not"
  <2> DEFINE f == [k \in S |-> Difference(k, i)]
             D == {Difference(k, i) : k \in S}
             T == UNION D
  <2>1. AddRange(S, i, relation) = Simplify(T)
    BY <1>4 DEF AddRange, NotInterval
  <2>2. \A k \in S : IsFiniteSet(Difference(k, i)) /\ \A d \in Difference(k, i) : Usable(d)
    BY <1>1, DifferenceUsable
  <2>3. IsFiniteSet(T) /\ \A t \in T : Usable(t)
    <3>1. D = {f[k] : k \in S} /\ DOMAIN f = S
      OBVIOUS
    <3>2. \A t \in D : IsFiniteSet(t)
      BY <2>2
    <3>3. \A t \in UNION D : Usable(t)
      BY <2>2
    <3> HIDE DEF f, D
    <3>4. IsFiniteSet({f[k] : k \in S})
      BY <1>1, <3>1, FiniteImage
    <3>5. IsFiniteSet(D)
      BY <3>1, <3>4
    <3> QED  BY <3>2, <3>3, <3>5, FS_UNION
  <2>4. ASSUME NEW v \in Int PROVE RangeHolds(T, v) <=> RangeHolds(S, v) /\ ~Holds(i, v)
    <3>1. \A k \in S : (\E d \in Difference(k, i) : Holds(d, v)) <=> Holds(k, v) /\ ~Holds(i, v)
      BY <1>1, DifferenceHoldsTheRest
    <3>2. RangeHolds(T, v) <=> \E k \in S : \E d \in Difference(k, i) : Holds(d, v)
      BY DEF RangeHolds
    <3> QED  BY <3>1, <3>2 DEF RangeHolds
  <2> HIDE DEF T
  <2>5. /\ Canonical(Simplify(T))
        /\ \A v \in Int : RangeHolds(Simplify(T), v) <=> RangeHolds(T, v)
    BY <2>3, SimplifyKeeps
  <2> QED  BY <1>4, <2>1, <2>4, <2>5 DEF Kept
<1>5. CASE relation \notin {"And", "Or", "Not"}
  <2>1. AddRange(S, i, relation) = Simplify(S)
    BY <1>5 DEF AddRange
  <2>2. /\ Canonical(Simplify(S))
        /\ \A v \in Int : RangeHolds(Simplify(S), v) <=> RangeHolds(S, v)
    BY <1>1, SimplifyKeeps
  <2> QED  BY <1>5, <2>1, <2>2 DEF Kept
<1> QED  BY <1>2, <1>3, <1>4, <1>5

-----------------------------------------------------------------------------
(* Combining conditions.                                                    *)

Canonicals == {S \in SUBSET EndpointPairs : Canonical(S)}

\* The conditions in their representation form a set.
LEMMA CanonicalIn ==
  ASSUME NEW S
  PROVE  S \in Canonicals <=> Canonical(S)
BY ProperIsInterval DEF Canonicals, Canonical, Solid

\* Adding intervals one after the other has a course, and combines the values.
LEMMA AddEachKeeps ==
  ASSUME OneSideUnbounded, NEW S, NEW R, Canonical(S), Canonical(R),
         NEW relation \in {"Or", "Not"}
  PROVE  /\ Canonical(AddEach(S, R, relation))
         /\ \A v \in Int : RangeHolds(AddEach(S, R, relation), v) <=>
                             Kept(relation, RangeHolds(S, v), RangeHolds(R, v))
<1> DEFINE n == Cardinality(R)
           s == InOrder(R)
           Sum == CHOOSE g : g = [k \in 0..n |-> IF k = 0 THEN S
                                                 ELSE AddRange(g[k - 1], s[k], relation)]
           F == [k \in 1..n |-> [T \in Canonicals |-> AddRange(T, s[k], relation)]]
<1>1. /\ n \in Nat /\ s \in [1..n -> R]
      /\ \A i \in R : \E k \in 1..n : s[k] = i
  BY Ordered DEF Canonical, Solid
<1>2. AddEach(S, R, relation) = Sum[n]
  BY DEF AddEach
<1>3. \A i \in R : Addable(i)
  BY DEF Canonical, Solid, Addable
<1> HIDE DEF n, s
<1>4. \A k \in 1..n : \A T \in Canonicals :
        /\ F[k][T] = AddRange(T, s[k], relation) /\ AddRange(T, s[k], relation) \in Canonicals
        /\ \A v \in Int : RangeHolds(AddRange(T, s[k], relation), v) <=>
                            Kept(relation, RangeHolds(T, v), Holds(s[k], v))
  <2> SUFFICES ASSUME NEW k \in 1..n, NEW T \in Canonicals
               PROVE  /\ F[k][T] = AddRange(T, s[k], relation)
                      /\ AddRange(T, s[k], relation) \in Canonicals
                      /\ \A v \in Int : RangeHolds(AddRange(T, s[k], relation), v) <=>
                                          Kept(relation, RangeHolds(T, v), Holds(s[k], v))
    OBVIOUS
  <2>1. Addable(s[k]) /\ Canonical(T)
    BY <1>1, <1>3, CanonicalIn
  <2>2. /\ Canonical(AddRange(T, s[k], relation))
        /\ \A v \in Int : RangeHolds(AddRange(T, s[k], relation), v) <=>
                            Kept(relation, RangeHolds(T, v), Holds(s[k], v))
    BY <2>1, AddKeeps
  <2>3. F[k][T] = AddRange(T, s[k], relation)
    OBVIOUS
  <2> QED  BY <2>2, <2>3, CanonicalIn
<1>5. S \in Canonicals /\ Steps(Canonicals, n, F)
  <2> HIDE DEF F
  <2> QED  BY <1>4, CanonicalIn DEF Steps
<1> HIDE DEF F
<1>6. PICK g \in Courses(Canonicals, S, n, F) : TRUE
  BY <1>1, <1>5, Course
<1>7. ASSUME NEW k \in 0..n
      PROVE  g[k] = IF k = 0 THEN S ELSE AddRange(g[k - 1], s[k], relation)
  <2>1. k # 0 => k \in 1..n /\ k - 1 \in 0..n
    BY <1>1
  <2> QED  BY <1>4, <1>6, <2>1 DEF Courses
<1>8. Sum = [k \in 0..n |-> IF k = 0 THEN S ELSE AddRange(Sum[k - 1], s[k], relation)]
  <2>1. g = [k \in 0..n |-> IF k = 0 THEN S ELSE AddRange(g[k - 1], s[k], relation)]
    BY <1>6, <1>7 DEF Courses
  <2> QED  BY <2>1
<1> HIDE DEF Sum
<1>9. Sum[0] = S /\ \A k \in 0..n - 1 : Sum[k + 1] = AddRange(Sum[k], s[k + 1], relation)
  <2>1. 0 \in 0..n /\ \A k \in 0..n - 1 : k + 1 \in 0..n /\ k + 1 # 0 /\ (k + 1) - 1 = k
    BY <1>1
  <2> QED  BY <1>8, <2>1
<1> DEFINE Sofar(k, v) == \E j \in 1..k : Holds(s[j], v)
           So(k) == /\ Sum[k] \in Canonicals
                    /\ \A v \in Int : RangeHolds(Sum[k], v) <=>
                                        Kept(relation, RangeHolds(S, v), Sofar(k, v))
           P == {k \in 0..n : So(k)}
<1>10. 0 \in P
  <2>1. \A v : ~Sofar(0, v)
    OBVIOUS
  <2>2. 0 \in 0..n
    BY <1>1
  <2> HIDE DEF Sofar
  <2> QED  BY <1>5, <1>9, <2>1, <2>2 DEF Kept
<1>11. ASSUME NEW k \in 0..n - 1, k \in P PROVE k + 1 \in P
  <2>1. k + 1 \in 1..n /\ k + 1 \in 0..n
    BY <1>1
  <2>2. So(k)
    BY <1>11
  <2>3. /\ Sum[k + 1] \in Canonicals
        /\ \A v \in Int : RangeHolds(Sum[k + 1], v) <=>
                            Kept(relation, RangeHolds(Sum[k], v), Holds(s[k + 1], v))
    BY <1>4, <1>9, <2>1, <2>2
  <2>4. \A v : Sofar(k + 1, v) <=> Sofar(k, v) \/ Holds(s[k + 1], v)
    <3>1. 1..k + 1 = 1..k \cup {k + 1}
      BY <1>1
    <3> QED  BY <3>1
  <2> HIDE DEF Sofar
  <2> QED  BY <2>1, <2>2, <2>3, <2>4 DEF Kept
<1>12. So(n)
  <2> HIDE DEF So
  <2>1. \A k \in 0..n : k \in P
    <3> HIDE DEF P
    <3> QED  BY <1>1, <1>10, <1>11, ToTheEnd
  <2> QED  BY <1>1, <2>1
<1>13. \A v : Sofar(n, v) <=> RangeHolds(R, v)
  BY <1>1 DEF RangeHolds
<1> HIDE DEF Sofar
<1> QED  BY <1>2, <1>12, <1>13, CanonicalIn DEF Kept

\* And meeting one interval after the other, too.
LEMMA IntersectKeeps ==
  ASSUME OneSideUnbounded, NEW S, NEW R, Canonical(S), Canonical(R)
  PROVE  /\ Canonical(IntersectRange(S, R))
         /\ \A v \in Int : RangeHolds(IntersectRange(S, R), v) <=>
                             RangeHolds(S, v) /\ RangeHolds(R, v)
<1> DEFINE n == Cardinality(R)
           s == InOrder(R)
           Met == CHOOSE g : g = [k \in 0..n |-> IF k = 0 THEN {}
                                   ELSE AddEach(g[k - 1], AndInterval(S, s[k]), "Or")]
           F == [k \in 1..n |-> [T \in Canonicals |-> AddEach(T, AndInterval(S, s[k]), "Or")]]
<1>1. /\ n \in Nat /\ s \in [1..n -> R]
      /\ \A i \in R : \E k \in 1..n : s[k] = i
  BY Ordered DEF Canonical, Solid
<1>2. IntersectRange(S, R) = Met[n]
  BY DEF IntersectRange
<1>3. \A i \in R : Addable(i)
  BY DEF Canonical, Solid, Addable
<1> HIDE DEF n, s
<1>4. \A k \in 1..n : \A T \in Canonicals :
        /\ F[k][T] = AddEach(T, AndInterval(S, s[k]), "Or")
        /\ AddEach(T, AndInterval(S, s[k]), "Or") \in Canonicals
        /\ \A v \in Int : RangeHolds(AddEach(T, AndInterval(S, s[k]), "Or"), v) <=>
                            RangeHolds(T, v) \/ (RangeHolds(S, v) /\ Holds(s[k], v))
  <2> SUFFICES ASSUME NEW k \in 1..n, NEW T \in Canonicals
               PROVE  /\ F[k][T] = AddEach(T, AndInterval(S, s[k]), "Or")
                      /\ AddEach(T, AndInterval(S, s[k]), "Or") \in Canonicals
                      /\ \A v \in Int : RangeHolds(AddEach(T, AndInterval(S, s[k]), "Or"), v) <=>
                            RangeHolds(T, v) \/ (RangeHolds(S, v) /\ Holds(s[k], v))
    OBVIOUS
  <2> DEFINE A == AndInterval(S, s[k])
  <2>1. Addable(s[k]) /\ Canonical(T)
    BY <1>1, <1>3, CanonicalIn
  <2>2. A = AddRange(S, s[k], "And")
    BY DEF AddRange
  <2>3. F[k][T] = AddEach(T, A, "Or")
    OBVIOUS
  <2> HIDE DEF A
  <2>4. /\ Canonical(A)
        /\ \A v \in Int : RangeHolds(A, v) <=> Kept("And", RangeHolds(S, v), Holds(s[k], v))
    BY <2>1, <2>2, AddKeeps
  <2>5. /\ Canonical(AddEach(T, A, "Or"))
        /\ \A v \in Int : RangeHolds(AddEach(T, A, "Or"), v) <=>
                            Kept("Or", RangeHolds(T, v), RangeHolds(A, v))
    BY <2>1, <2>4, AddEachKeeps
  <2>6. \A v \in Int : RangeHolds(AddEach(T, A, "Or"), v) <=>
                         RangeHolds(T, v) \/ (RangeHolds(S, v) /\ Holds(s[k], v))
    BY <2>4, <2>5 DEF Kept
  <2> QED  BY <2>3, <2>5, <2>6, CanonicalIn DEF A
<1>5. {} \in Canonicals /\ Steps(Canonicals, n, F)
  <2>1. Canonical({})
    BY FS_EmptySet DEF Canonical
  <2> HIDE DEF F
  <2> QED  BY <1>4, <2>1, CanonicalIn DEF Steps
<1> HIDE DEF F
<1>6. PICK g \in Courses(Canonicals, {}, n, F) : TRUE
  BY <1>1, <1>5, Course
<1>7. ASSUME NEW k \in 0..n
      PROVE  g[k] = IF k = 0 THEN {} ELSE AddEach(g[k - 1], AndInterval(S, s[k]), "Or")
  <2>1. k # 0 => k \in 1..n /\ k - 1 \in 0..n
    BY <1>1
  <2> QED  BY <1>4, <1>6, <2>1 DEF Courses
<1>8. Met = [k \in 0..n |-> IF k = 0 THEN {} ELSE AddEach(Met[k - 1], AndInterval(S, s[k]), "Or")]
  <2>1. g = [k \in 0..n |-> IF k = 0 THEN {} ELSE AddEach(g[k - 1], AndInterval(S, s[k]), "Or")]
    BY <1>6, <1>7 DEF Courses
  <2> QED  BY <2>1
<1> HIDE DEF Met
<1>9. /\ Met[0] = {}
      /\ \A k \in 0..n - 1 : Met[k + 1] = AddEach(Met[k], AndInterval(S, s[k + 1]), "Or")
  <2>1. 0 \in 0..n /\ \A k \in 0..n - 1 : k + 1 \in 0..n /\ k + 1 # 0 /\ (k + 1) - 1 = k
    BY <1>1
  <2> QED  BY <1>8, <2>1
<1> DEFINE Sofar(k, v) == \E j \in 1..k : Holds(s[j], v)
           So(k) == /\ Met[k] \in Canonicals
                    /\ \A v \in Int : RangeHolds(Met[k], v) <=> RangeHolds(S, v) /\ Sofar(k, v)
           P == {k \in 0..n : So(k)}
<1>10. 0 \in P
  <2>1. \A v : ~Sofar(0, v) /\ ~RangeHolds({}, v)
    BY DEF RangeHolds
  <2>2. 0 \in 0..n
    BY <1>1
  <2> HIDE DEF Sofar
  <2> QED  BY <1>5, <1>9, <2>1, <2>2
<1>11. ASSUME NEW k \in 0..n - 1, k \in P PROVE k + 1 \in P
  <2>1. k + 1 \in 1..n /\ k + 1 \in 0..n
    BY <1>1
  <2>2. So(k)
    BY <1>11
  <2>3. /\ Met[k + 1] \in Canonicals
        /\ \A v \in Int : RangeHolds(Met[k + 1], v) <=>
                            RangeHolds(Met[k], v) \/ (RangeHolds(S, v) /\ Holds(s[k + 1], v))
    BY <1>4, <1>9, <2>1, <2>2
  <2>4. \A v : Sofar(k + 1, v) <=> Sofar(k, v) \/ Holds(s[k + 1], v)
    <3>1. 1..k + 1 = 1..k \cup {k + 1}
      BY <1>1
    <3> QED  BY <3>1
  <2> HIDE DEF Sofar
  <2> QED  BY <2>1, <2>2, <2>3, <2>4
<1>12. So(n)
  <2> HIDE DEF So
  <2>1. \A k \in 0..n : k \in P
    <3> HIDE DEF P
    <3> QED  BY <1>1, <1>10, <1>11, ToTheEnd
  <2> QED  BY <1>1, <2>1
<1>13. \A v : Sofar(n, v) <=> RangeHolds(R, v)
  BY <1>1 DEF RangeHolds
<1> HIDE DEF Sofar
<1> QED  BY <1>2, <1>12, <1>13, CanonicalIn

-----------------------------------------------------------------------------
(* Comparing conditions.                                                    *)

\* Among the points there is one in every interval that is not empty, which an interval
\* can only hold if it does not start later.
LEMMA LeftPoint ==
  ASSUME RangeAssumption, NEW j, Solid(j)
  PROVE  \E p \in RangePoints :
           /\ Holds(j, p)
           /\ \A i : Solid(i) /\ Holds(i, p) => BeforeOrAt(i.left, j.left)
<1>1. /\ Proper(j) /\ Placed(j) /\ ~IsEmpty(j)
      /\ RangePoints \subseteq Int /\ Bounds \subseteq RangePoints
  BY DEF RangeAssumption, Solid
<1>2. ASSUME NEW i, Solid(i)
      PROVE  /\ Proper(i) /\ (i.left.limited => i.left.value \in Bounds)
             /\ BeforeOrAt(i.left, j.left) <=>
                  \/ ~i.left.limited
                  \/ /\ j.left.limited
                     /\ \/ i.left.value < j.left.value
                        \/ i.left.value = j.left.value /\ (j.left.open \/ ~i.left.open)
  BY <1>1, <1>2, ProperParts, LowerOrder DEF Solid, Placed
<1>3. CASE ~j.left.limited
  <2>1. PICK p \in RangePoints : \A b \in Bounds : p < b
    BY DEF RangeAssumption
  <2>2. Holds(j, p)
    BY <1>1, <1>3, <2>1, ProperParts DEF Holds, Admits, Placed
  <2>3. ASSUME NEW i, Solid(i), Holds(i, p) PROVE BeforeOrAt(i.left, j.left)
    <3>1. ~i.left.limited
      BY <1>1, <1>2, <2>1, <2>3, ProperParts DEF Holds, Admits
    <3> QED  BY <1>2, <2>3, <3>1
  <2> QED  BY <2>2, <2>3
<1>4. CASE j.left.limited /\ ~j.left.open
  <2> DEFINE p == j.left.value
  <2>1. p \in RangePoints /\ p \in Int
    BY <1>1, <1>4 DEF Placed
  <2>2. Holds(j, p)
    BY <1>1, <1>4, ProperParts DEF Holds, Admits
  <2>3. ASSUME NEW i, Solid(i), Holds(i, p) PROVE BeforeOrAt(i.left, j.left)
    <3>1. i.left.limited => i.left.value < p \/ (i.left.value = p /\ ~i.left.open)
      BY <1>2, <2>1, <2>3, ProperParts DEF Holds, Admits
    <3> QED  BY <1>2, <1>4, <2>3, <3>1
  <2> QED  BY <2>1, <2>2, <2>3
<1>5. CASE j.left.limited /\ j.left.open
  <2> DEFINE a == j.left.value
  <2>1. a \in Bounds /\ a \in Int
    BY <1>1, <1>5 DEF Placed
  <2>2. PICK p \in RangePoints : a < p /\ \A b \in Bounds : a < b => p < b
    BY <2>1 DEF RangeAssumption
  <2>3. p \in Int
    BY <1>1
  <2>4. j.right.limited => a < j.right.value /\ j.right.value \in Bounds
    BY <1>1, <1>5, ProperParts DEF IsEmpty, Placed
  <2>5. Holds(j, p)
    <3>1. Admits(j.left, p)
      BY <1>1, <2>2, ProperParts DEF Admits
    <3>2. Admits(j.right, p)
      BY <1>1, <2>2, <2>4, ProperParts DEF Admits
    <3> QED  BY <3>1, <3>2 DEF Holds
  <2>6. ASSUME NEW i, Solid(i), Holds(i, p) PROVE BeforeOrAt(i.left, j.left)
    <3>1. i.left.limited => i.left.value <= p /\ i.left.value \in Bounds /\ i.left.value \in Int
      BY <1>2, <2>3, <2>6, ProperParts DEF Holds, Admits
    <3>2. i.left.limited => i.left.value <= a
      BY <2>1, <2>2, <2>3, <3>1
    <3>3. i.left.limited => i.left.value < a \/ i.left.value = a
      BY <2>1, <3>1, <3>2
    <3> QED  BY <1>2, <1>5, <2>6, <3>3
  <2> QED  BY <2>5, <2>6
<1> QED  BY <1>1, <1>3, <1>4, <1>5, ProperParts

\* Of two intervals that hold a point of the second and of which the first ends earlier,
\* the second goes on to a point that nothing apart from the first holds.
LEMMA NextPoint ==
  ASSUME RangeAssumption, NEW i, NEW j, Solid(i), Solid(j), NEW p \in RangePoints,
         Holds(i, p), Holds(j, p), ~BeforeOrAt(j.right, i.right)
  PROVE  \E q \in RangePoints :
           /\ Holds(j, q) /\ ~Holds(i, q)
           /\ \A k : /\ Solid(k)
                     /\ Separate(i.right, k.left) \/ Separate(k.right, i.left)
                     => ~Holds(k, q)
<1>1. /\ Proper(j) /\ Placed(j) /\ Proper(i) /\ Placed(i)
      /\ RangePoints \subseteq Int /\ Bounds \subseteq RangePoints /\ p \in Int
  BY DEF RangeAssumption, Solid
<1> DEFINE b == i.right.value
<1>2. /\ i.right.limited /\ b \in Bounds /\ b \in Int
      /\ j.right.limited => \/ b < j.right.value
                            \/ b = j.right.value /\ i.right.open /\ ~j.right.open
  <2>1. BeforeOrAt(j.right, i.right) <=>
           \/ ~i.right.limited
           \/ /\ j.right.limited
              /\ \/ j.right.value < b
                 \/ j.right.value = b /\ (j.right.open \/ ~i.right.open)
    BY <1>1, ProperParts, UpperOrder
  <2> QED  BY <1>1, <2>1, ProperParts DEF Placed
<1>3. /\ i.left.limited => i.left.value <= p
      /\ j.left.limited => j.left.value <= p
      /\ p < b \/ (p = b /\ ~i.right.open)
  BY <1>1, <1>2, ProperParts DEF Holds, Admits
<1>4. CASE i.right.open
  <2>1. p < b
    BY <1>3, <1>4
  <2>2. ~Holds(i, b)
    BY <1>1, <1>2, <1>4, ProperParts DEF Holds, Admits
  <2>3. Admits(j.right, b)
    BY <1>1, <1>2, ProperParts DEF Admits
  <2>4. Admits(j.left, b)
    <3>1. j.left.limited => j.left.value < b
      BY <1>1, <1>2, <1>3, <2>1, ProperParts
    <3> QED  BY <1>1, <3>1, ProperParts DEF Admits
  <2>5. ASSUME NEW k, Solid(k), Separate(i.right, k.left) \/ Separate(k.right, i.left)
        PROVE  ~Holds(k, b)
    <3>1. Proper(k)
      BY <2>5 DEF Solid
    <3>2. ASSUME Separate(i.right, k.left) PROVE ~Admits(k.left, b)
      BY <1>2, <3>1, <3>2, ProperParts DEF Separate, Admits
    <3>3. ASSUME Separate(k.right, i.left) PROVE ~Admits(k.right, b)
      <4>1. k.right.limited /\ k.right.value < b
        BY <1>1, <1>2, <1>3, <2>1, <3>1, <3>3, ProperParts DEF Separate
      <4> QED  BY <1>2, <3>1, <4>1, ProperParts DEF Admits
    <3> QED  BY <2>5, <3>2, <3>3 DEF Holds
  <2> QED  BY <1>1, <1>2, <2>2, <2>3, <2>4, <2>5 DEF Holds
<1>5. CASE ~i.right.open
  <2>1. PICK q \in RangePoints : b < q /\ \A a \in Bounds : b < a => q < a
    BY <1>2 DEF RangeAssumption
  <2>2. q \in Int /\ p < q
    BY <1>1, <1>2, <1>3, <2>1
  <2>3. ~Holds(i, q)
    BY <1>1, <1>2, <2>1, <2>2, ProperParts DEF Holds, Admits
  <2>4. Admits(j.right, q)
    BY <1>1, <1>2, <1>5, <2>1, <2>2, ProperParts DEF Placed, Admits
  <2>5. Admits(j.left, q)
    <3>1. j.left.limited => j.left.value < q
      BY <1>1, <1>3, <2>2, ProperParts
    <3> QED  BY <1>1, <3>1, ProperParts DEF Admits
  <2>6. ASSUME NEW k, Solid(k), Separate(i.right, k.left) \/ Separate(k.right, i.left)
        PROVE  ~Holds(k, q)
    <3>1. Proper(k) /\ Placed(k)
      BY <2>6 DEF Solid
    <3>2. ASSUME Separate(i.right, k.left) PROVE ~Admits(k.left, q)
      <4>1. k.left.limited /\ q < k.left.value
        BY <1>2, <1>5, <2>1, <3>1, <3>2 DEF Separate, Placed
      <4> QED  BY <2>2, <3>1, <4>1, ProperParts DEF Admits
    <3>3. ASSUME Separate(k.right, i.left) PROVE ~Admits(k.right, q)
      <4>1. k.right.limited /\ k.right.value < q
        BY <1>1, <1>2, <1>3, <2>2, <3>1, <3>3, ProperParts DEF Separate
      <4> QED  BY <2>2, <3>1, <4>1, ProperParts DEF Admits
    <3> QED  BY <2>6, <3>2, <3>3 DEF Holds
  <2> QED  BY <2>3, <2>4, <2>5, <2>6 DEF Holds
<1> QED  BY <1>4, <1>5

Accepted(S) == {p \in RangePoints : RangeHolds(S, p)}

\* One interval of a condition covers what all of them together hold of an interval.
LEMMA CoversWhatItHolds ==
  ASSUME RangeAssumption, NEW S, Canonical(S), NEW j, Solid(j),
         \A p \in RangePoints : Holds(j, p) => RangeHolds(S, p)
  PROVE  CoversInterval(S, j)
<1>1. PICK p \in RangePoints :
        /\ Holds(j, p)
        /\ \A i : Solid(i) /\ Holds(i, p) => BeforeOrAt(i.left, j.left)
  BY LeftPoint
<1>2. PICK i \in S : Holds(i, p)
  BY <1>1 DEF RangeHolds
<1>3. Solid(i) /\ BeforeOrAt(i.left, j.left)
  BY <1>1, <1>2 DEF Canonical
<1>4. BeforeOrAt(j.right, i.right)
  <2> SUFFICES ASSUME ~BeforeOrAt(j.right, i.right) PROVE FALSE
    OBVIOUS
  <2>1. PICK q \in RangePoints :
          /\ Holds(j, q) /\ ~Holds(i, q)
          /\ \A k : /\ Solid(k)
                    /\ Separate(i.right, k.left) \/ Separate(k.right, i.left)
                    => ~Holds(k, q)
    BY <1>1, <1>2, <1>3, NextPoint
  <2>2. PICK k \in S : Holds(k, q)
    BY <2>1 DEF RangeHolds
  <2>3. k # i /\ Solid(k)
    BY <2>1, <2>2 DEF Canonical
  <2>4. Separate(i.right, k.left) \/ Separate(k.right, i.left)
    BY <2>3 DEF Canonical
  <2> QED  BY <2>1, <2>2, <2>3, <2>4
<1> QED  BY <1>3, <1>4 DEF CoversInterval, Covers

\* EndpointPairs apart from each other have no value in common.
LEMMA SeparateHoldNothing ==
  ASSUME NEW i, NEW j, Proper(i), Proper(j), Separate(i.right, j.left), NEW v \in Int
  PROVE  ~(Holds(i, v) /\ Holds(j, v))
BY ProperParts DEF Separate, Holds, Admits

\* is_in_range of a condition says whether its values are among those of the other.
LEMMA CoversAsSets ==
  ASSUME RangeAssumption, NEW S, NEW R, Canonical(S), Canonical(R)
  PROVE  RangeCovers(S, R) <=> Accepted(R) \subseteq Accepted(S)
<1>1. ASSUME RangeCovers(S, R) PROVE Accepted(R) \subseteq Accepted(S)
  <2> SUFFICES ASSUME NEW p \in RangePoints, NEW j \in R, Holds(j, p) PROVE RangeHolds(S, p)
    BY DEF Accepted, RangeHolds
  <2>1. PICK i \in S : Covers(i, j)
    BY <1>1 DEF RangeCovers, CoversInterval
  <2>2. Proper(i) /\ Proper(j) /\ p \in Int
    BY DEF Canonical, Solid, RangeAssumption
  <2>3. Holds(i, p)
    BY <2>1, <2>2, CoversItsValues
  <2> QED  BY <2>3 DEF RangeHolds
<1>2. ASSUME Accepted(R) \subseteq Accepted(S) PROVE RangeCovers(S, R)
  <2> SUFFICES ASSUME NEW j \in R PROVE CoversInterval(S, j)
    BY DEF RangeCovers
  <2>1. Solid(j) /\ \A p \in RangePoints : Holds(j, p) => RangeHolds(S, p)
    BY <1>2 DEF Accepted, RangeHolds, Canonical
  <2> QED  BY <2>1, CoversWhatItHolds
<1> QED  BY <1>1, <1>2

\* Intervals that cover each other are one.
LEMMA MutualCover ==
  ASSUME NEW i, NEW j, Proper(i), Proper(j), Covers(i, j), Covers(j, i)
  PROVE  i = j
<1>1. /\ Wellformed(i.left) /\ Wellformed(i.right) /\ Wellformed(j.left) /\ Wellformed(j.right)
      /\ i = Interval(i.left, i.right) /\ j = Interval(j.left, j.right)
  BY DEF Proper, Facing
<1>2. i.left = j.left /\ i.right = j.right
  BY <1>1, BeforeIsAnOrder DEF Covers, BeforeOrAt
<1> QED  BY <1>1, <1>2

\* Covering goes on.
LEMMA CoverTransitive ==
  ASSUME NEW i, NEW j, NEW k, Proper(i), Proper(j), Proper(k), Covers(i, j), Covers(j, k)
  PROVE  Covers(i, k)
<1>1. /\ Wellformed(i.left) /\ Wellformed(i.right) /\ Wellformed(j.left) /\ Wellformed(j.right)
      /\ Wellformed(k.left) /\ Wellformed(k.right)
  BY DEF Proper, Facing
<1> QED  BY <1>1, StartsOnward DEF Covers

\* Within each other, a condition's intervals are the other's.
LEMMA WithinEachOther ==
  ASSUME RangeAssumption, NEW S, NEW R, Canonical(S), Canonical(R),
         RangeCovers(S, R), RangeCovers(R, S)
  PROVE  R \subseteq S
<1> SUFFICES ASSUME NEW j \in R PROVE j \in S
  OBVIOUS
<1>1. PICK i \in S : Covers(i, j)
  BY DEF RangeCovers, CoversInterval
<1>2. PICK k \in R : Covers(k, i)
  BY DEF RangeCovers, CoversInterval
<1>3. Solid(i) /\ Solid(j) /\ Solid(k) /\ Proper(i) /\ Proper(j) /\ Proper(k)
  BY DEF Canonical, Solid
<1>4. k = j
  <2> SUFFICES ASSUME k # j PROVE FALSE
    OBVIOUS
  <2>1. PICK p \in RangePoints : Holds(j, p)
    BY <1>3, LeftPoint
  <2>2. Covers(k, j)
    BY <1>1, <1>2, <1>3, CoverTransitive
  <2>3. p \in Int
    BY DEF RangeAssumption
  <2>4. Holds(k, p)
    BY <1>3, <2>1, <2>2, <2>3, CoversItsValues
  <2>5. Separate(j.right, k.left) \/ Separate(k.right, j.left)
    BY DEF Canonical
  <2> QED  BY <1>3, <2>1, <2>3, <2>4, <2>5, SeparateHoldNothing
<1>5. i = j
  BY <1>1, <1>2, <1>3, <1>4, MutualCover
<1> QED  BY <1>5

\* is_equal says whether two conditions accept the same values.
LEMMA EqualAsSets ==
  ASSUME RangeAssumption, NEW S, NEW R, Canonical(S), Canonical(R)
  PROVE  RangeEqual(S, R) <=> Accepted(S) = Accepted(R)
<1>1. ASSUME Accepted(S) = Accepted(R) PROVE S = R
  <2>1. RangeCovers(S, R) /\ RangeCovers(R, S)
    BY <1>1, CoversAsSets
  <2> QED  BY <2>1, WithinEachOther
<1> QED  BY <1>1 DEF RangeEqual

\* An overlap is an overlap in a point.
LEMMA IntersectsAsSets ==
  ASSUME RangeAssumption, OneSideUnbounded, NEW S, NEW R, Canonical(S), Canonical(R)
  PROVE  RangeIntersects(S, R) <=> Accepted(S) \cap Accepted(R) # {}
<1>1. \A i \in S, j \in R : /\ Solid(i) /\ Solid(j) /\ Proper(i) /\ Proper(j)
                            /\ Comparable(j, i)
  BY EndsComparable DEF Canonical, Solid
<1>2. ASSUME NEW i \in S, NEW j \in R, IsIntersect(j, i)
      PROVE  \E p \in RangePoints : Holds(i, p) /\ Holds(j, p)
  <2> DEFINE l == Later(j.left, i.left)
             r == Earlier(j.right, i.right)
             cut == IntersectionWith(j, i)
  <2>1. Proper(cut) /\ cut = Interval(l, r)
    BY <1>1, <1>2, IntersectionHoldsTheCommon, 0 \in Int
  <2>2. (l = i.left \/ l = j.left) /\ (r = i.right \/ r = j.right)
    BY DEF Later, Earlier
  <2> HIDE DEF l, r
  <2>3. cut.left = l /\ cut.right = r
    BY <2>1 DEF Interval
  <2> HIDE DEF cut
  <2>4. Ends(cut) /\ Placed(cut)
    BY <1>1, <2>2, <2>3 DEF Solid, Ends, Placed
  <2>5. ~IsEmpty(cut)
    <3>1. Meeting(j.left, i.right) /\ Meeting(i.left, j.right)
      BY <1>1, <1>2, IntersectingMeet
    <3> QED  BY <1>1, <2>2, <2>3, <3>1 DEF Solid, Meeting, IsEmpty
  <2>6. Solid(cut)
    BY <2>1, <2>4, <2>5 DEF Solid
  <2>7. PICK p \in RangePoints : Holds(cut, p)
    BY <2>6, LeftPoint
  <2>8. p \in Int
    BY DEF RangeAssumption
  <2>9. Holds(i, p) /\ Holds(j, p)
    BY <1>1, <1>2, <2>7, <2>8, IntersectionHoldsTheCommon DEF cut
  <2> QED  BY <2>9
<1>3. ASSUME NEW p \in RangePoints, NEW i \in S, NEW j \in R, Holds(i, p), Holds(j, p)
      PROVE  IsIntersect(j, i)
  <2>1. p \in Int
    BY DEF RangeAssumption
  <2> QED  BY <1>1, <1>3, <2>1, DisjointHaveNoCommonValue
<1> QED  BY <1>2, <1>3 DEF RangeIntersects, Accepted, RangeHolds

-----------------------------------------------------------------------------
(* Lists of values.                                                         *)

\* The points in their order.
LEMMA PointsAreListed ==
  ASSUME RangeAssumption
  PROVE  PointsListed \in Seq(RangePoints) /\ Range(PointsListed) = RangePoints
<1> DEFINE n == Cardinality(RangePoints)
           s == SetToSeq(RangePoints)
<1>1. n \in Nat /\ ExistsBijection(1..n, RangePoints) /\ IsFiniteSet(RangePoints)
  BY FS_CardinalityType DEF RangeAssumption
<1>2. PICK f \in Bijection(1..n, RangePoints) : TRUE
  BY <1>1 DEF ExistsBijection
<1>3. f \in [1..n -> RangePoints] /\ IsInjective(f)
  BY <1>2 DEF Bijection, Injection, IsInjective
<1>4. s \in [1..n -> RangePoints] /\ IsInjective(s)
  <2> HIDE DEF n
  <2>1. s = CHOOSE g \in [1..n -> RangePoints] : IsInjective(g)
    BY DEF SetToSeq, n
  <2> HIDE DEF s
  <2> QED  BY <1>3, <2>1
<1> HIDE DEF s
<1>5. s \in Injection(1..n, RangePoints)
  BY <1>4 DEF Injection, IsInjective
<1>6. s \in Surjection(1..n, RangePoints)
  <2>1. IsFiniteSet(1..n) /\ Cardinality(1..n) = n
    BY <1>1, FS_Interval
  <2> QED  BY <1>1, <1>5, <2>1, FS_Injection
<1> HIDE DEF n
<1>7. s \in Seq(RangePoints) /\ DOMAIN s = 1..n
  BY <1>1, <1>4
<1>8. \A p \in RangePoints : \E k \in 1..n : s[k] = p
  BY <1>6 DEF Surjection
<1>9. Range(s) = RangePoints
  <2>1. Range(s) = {s[k] : k \in 1..n}
    BY <1>7 DEF Range
  <2>2. s \in [1..n -> RangePoints]
    BY <1>4
  <2>3. {s[k] : k \in 1..n} = RangePoints
    BY ONLY <1>8, <2>2
  <2> QED  BY <2>1, <2>3
<1> QED  BY <1>7, <1>9 DEF PointsListed, s

\* Only chosen values are listed.
LEMMA ThoseAreChosen ==
  ASSUME NEW V, NEW values \in Seq(V), NEW chosen
  PROVE  Those(values, chosen) \in Seq(chosen)
<1> DEFINE n == Len(values)
           More(u, k) == IF values[k] \in chosen THEN Append(u, values[k]) ELSE u
           Up == CHOOSE g : g = [k \in 0..n |-> IF k = 0 THEN <<>> ELSE More(g[k - 1], k)]
           X == Seq(chosen)
           F == [k \in 1..n |-> [u \in X |-> More(u, k)]]
<1>1. n \in Nat
  OBVIOUS
<1>2. Those(values, chosen) = Up[n]
  <2>1. Up = CHOOSE g : g = [k \in 0..n |-> IF k = 0 THEN <<>>
                               ELSE IF values[k] \in chosen THEN Append(g[k - 1], values[k])
                               ELSE g[k - 1]]
    OBVIOUS
  <2> QED  BY <2>1 DEF Those
<1>3. \A k \in 1..n : \A u \in X : More(u, k) \in X
  OBVIOUS
<1> HIDE DEF n, More
<1>4. \A k \in 1..n : \A u \in X : F[k][u] = More(u, k)
  OBVIOUS
<1>5. <<>> \in X /\ Steps(X, n, F)
  <2> HIDE DEF F
  <2> QED  BY <1>3, <1>4 DEF Steps
<1> HIDE DEF F, X
<1>6. PICK g \in Courses(X, <<>>, n, F) : TRUE
  BY <1>1, <1>5, Course
<1>7. g \in [0..n -> X] /\ g[0] = <<>> /\ \A k \in 1..n : g[k] = F[k][g[k - 1]]
  BY <1>6 DEF Courses
<1>8. ASSUME NEW k \in 0..n
      PROVE  g[k] = IF k = 0 THEN <<>> ELSE More(g[k - 1], k)
  <2>1. k # 0 => k \in 1..n /\ k - 1 \in 0..n
    BY <1>1
  <2> QED  BY <1>4, <1>7, <2>1
<1>9. Up = [k \in 0..n |-> IF k = 0 THEN <<>> ELSE More(Up[k - 1], k)]
  <2>1. g = [k \in 0..n |-> IF k = 0 THEN <<>> ELSE More(g[k - 1], k)]
    BY <1>7, <1>8
  <2> QED  BY <2>1
<1> HIDE DEF Up
<1>10. Up[0] = <<>> /\ \A k \in 0..n - 1 : Up[k + 1] = More(Up[k], k + 1)
  <2>1. 0 \in 0..n /\ \A k \in 0..n - 1 : k + 1 \in 0..n /\ k + 1 # 0 /\ (k + 1) - 1 = k
    BY <1>1
  <2> QED  BY <1>9, <2>1
<1> DEFINE P == {k \in 0..n : Up[k] \in X}
<1>11. 0 \in P
  BY <1>1, <1>5, <1>10
<1>12. ASSUME NEW k \in 0..n - 1, k \in P PROVE k + 1 \in P
  <2>1. k + 1 \in 1..n /\ k + 1 \in 0..n
    BY <1>1
  <2> QED  BY <1>3, <1>10, <1>12, <2>1
<1>13. Up[n] \in X
  <2>1. \A k \in 0..n : k \in P
    <3> HIDE DEF P
    <3> QED  BY <1>1, <1>11, <1>12, ToTheEnd
  <2> QED  BY <1>1, <2>1
<1> QED  BY <1>2, <1>13 DEF X

\* Asked about all the points, a condition answers for the set of those it accepts.
LEMMA AnswersForItsSet ==
  ASSUME RangeAssumption, asked = Accepted(m_intervals)
  PROVE  AcceptsWhatWasAsked
<1> DEFINE accepted == Those(PointsListed, asked)
<1>1. PointsListed \in Seq(RangePoints) /\ Range(PointsListed) = RangePoints
  BY PointsAreListed
<1>2. {v \in Range(PointsListed) : RangeHolds(m_intervals, v)} = asked
  BY <1>1 DEF Accepted
<1>3. {v \in Range(PointsListed) : ~RangeHolds(m_intervals, v)} = RangePoints \ asked
  BY <1>1 DEF Accepted
<1>4. accepted \in Seq(asked)
  BY <1>1, ThoseAreChosen
<1>5. AllInRange(m_intervals, accepted)
  <2> HIDE DEF accepted
  <2>1. \A k \in DOMAIN accepted : accepted[k] \in asked
    BY <1>4
  <2> QED  BY <2>1 DEF AllInRange, Accepted
<1> QED  BY <1>2, <1>3, <1>5 DEF AcceptsWhatWasAsked, ValuesInRange, ValuesNotInRange

-----------------------------------------------------------------------------
(* The conditions a caller makes.                                           *)

\* A bound put on a side.
LEMMA OtherSide ==
  ASSUME NEW v, NEW open, NEW s, NEW t
  PROVE  [Limited(v, open, s) EXCEPT !.side = t] = Limited(v, open, t)
<1>1. \A l : [[limited |-> l, value |-> v, open |-> open, side |-> s] EXCEPT !.side = t]
               = [limited |-> l, value |-> v, open |-> open, side |-> t]
  OBVIOUS
<1>2. [[limited |-> TRUE, value |-> v, open |-> open, side |-> s] EXCEPT !.side = t]
        = [limited |-> TRUE, value |-> v, open |-> open, side |-> t]
  BY ONLY <1>1
<1> QED  BY <1>2 DEF Limited

\* What a caller adds may be added.
LEMMA AddedAddable ==
  ASSUME RangeAssumption, OneSideUnbounded, NEW i \in Added
  PROVE  Addable(i)
<1>1. Bounds \subseteq Int
  BY DEF RangeAssumption
<1>2. ASSUME NEW a \in Bounds, NEW b \in Bounds, NEW p \in BOOLEAN, NEW q \in BOOLEAN,
             i = Between(Limited(a, p, "Left"), Limited(b, q, "Right")),
             i.left.value = i.right.value => i.left.open = i.right.open
      PROVE  Addable(i)
  <2>1. \E c, d \in Bounds : \E r, s \in BOOLEAN :
          c <= d /\ i = Interval(Limited(c, r, "Left"), Limited(d, s, "Right"))
    <3> DEFINE l == Limited(a, p, "Left")
               u == Limited(b, q, "Right")
    <3>0. /\ l.limited /\ u.limited /\ l.value = a /\ u.value = b
          /\ [l EXCEPT !.side = "Left"] = Limited(a, p, "Left")
          /\ [l EXCEPT !.side = "Right"] = Limited(a, p, "Right")
          /\ [u EXCEPT !.side = "Left"] = Limited(b, q, "Left")
          /\ [u EXCEPT !.side = "Right"] = Limited(b, q, "Right")
      <4>1. l.limited /\ u.limited /\ l.value = a /\ u.value = b
        BY DEF Limited
      <4>2. /\ [l EXCEPT !.side = "Left"] = Limited(a, p, "Left")
            /\ [l EXCEPT !.side = "Right"] = Limited(a, p, "Right")
        BY OtherSide
      <4>3. /\ [u EXCEPT !.side = "Left"] = Limited(b, q, "Left")
            /\ [u EXCEPT !.side = "Right"] = Limited(b, q, "Right")
        BY OtherSide
      <4> QED  BY <4>1, <4>2, <4>3
    <3> HIDE DEF l, u
    <3>1. CASE a > b
      <4>1. i = Interval(Limited(b, q, "Left"), Limited(a, p, "Right"))
        BY <1>2, <3>0, <3>1 DEF Between, l, u
      <4> QED  BY <1>1, <3>1, <4>1
    <3>2. CASE ~(a > b)
      <4>1. i = Interval(Limited(a, p, "Left"), Limited(b, q, "Right"))
        BY <1>2, <3>0, <3>2 DEF Between, l, u
      <4> QED  BY <1>1, <3>2, <4>1
    <3> QED  BY <3>1, <3>2
  <2>2. PICK c \in Bounds, d \in Bounds, r \in BOOLEAN, s \in BOOLEAN :
          c <= d /\ i = Interval(Limited(c, r, "Left"), Limited(d, s, "Right"))
    BY <2>1
  <2>3. i.left = Limited(c, r, "Left") /\ i.right = Limited(d, s, "Right")
    BY <2>2 DEF Interval
  <2>4. Facing(i.left, i.right)
    <3>1. c < d \/ (c = d /\ r = s)
      BY <1>1, <1>2, <2>2, <2>3 DEF Limited
    <3> QED  BY <1>1, <2>3, <3>1 DEF Facing, Limited, Wellformed, Endpoints, Sides
  <2>5. i = Interval(i.left, i.right)
    BY <2>2, <2>3
  <2> QED  BY <2>3, <2>4, <2>5 DEF Addable, Proper, Ends, Placed, Limited
<1>3. ASSUME NEW a \in Bounds, NEW p \in BOOLEAN, NEW s \in Unbounded,
             i = OneSided(Limited(a, p, Opposite(s)))
      PROVE  Addable(i)
  <2>1. s \in {"Left", "Right"}
    BY DEF OneSideUnbounded, Sides
  <2>2. CASE s = "Right"
    <3>1. i = Interval(Limited(a, p, "Left"), Unlimited("Right"))
      BY <1>3, <2>2 DEF OneSided, Limited, Opposite
    <3>2. i.left = Limited(a, p, "Left") /\ i.right = Unlimited("Right")
      BY <3>1 DEF Interval
    <3>3. Facing(i.left, i.right)
      BY <1>1, <3>2 DEF Facing, Limited, Unlimited, Wellformed, Endpoints, Sides
    <3>4. i = Interval(i.left, i.right)
      BY <3>1, <3>2
    <3> QED  BY <2>2, <3>2, <3>3, <3>4 DEF Addable, Proper, Ends, Placed, Limited, Unlimited
  <2>3. CASE s = "Left"
    <3>1. i = Interval(Unlimited("Left"), Limited(a, p, "Right"))
      BY <1>3, <2>3 DEF OneSided, Limited, Opposite
    <3>2. i.left = Unlimited("Left") /\ i.right = Limited(a, p, "Right")
      BY <3>1 DEF Interval
    <3>3. Facing(i.left, i.right)
      BY <1>1, <3>2 DEF Facing, Limited, Unlimited, Wellformed, Endpoints, Sides
    <3>4. i = Interval(i.left, i.right)
      BY <3>1, <3>2
    <3> QED  BY <2>3, <3>2, <3>3, <3>4 DEF Addable, Proper, Ends, Placed, Limited, Unlimited
  <2> QED  BY <2>1, <2>2, <2>3
<1> QED  BY <1>2, <1>3 DEF Added, OneSideUnbounded

\* Both conditions are in the one representation of the sets they were asked for.
RangeInv ==
  /\ Canonical(m_intervals) /\ Canonical(otherRange)
  /\ asked = Accepted(m_intervals) /\ otherAsked = Accepted(otherRange)

\* The invariant holds of the empty condition,
LEMMA RangeInitInv ==
  ASSUME RangeInit
  PROVE  RangeInv
<1>1. Canonical({}) /\ Accepted({}) = {}
  BY FS_EmptySet DEF Canonical, Accepted, RangeHolds
<1> QED  BY <1>1 DEF RangeInit, RangeInv

\* is kept by every operation on it,
LEMMA RangeNextInv ==
  ASSUME RangeAssumption, OneSideUnbounded, RangeInv, [RangeNext]_rangeVars
  PROVE  RangeInv'
<1>0. RangePoints \subseteq Int
  BY DEF RangeAssumption
<1>1. ASSUME NEW i \in Added, NEW relation \in {"And", "Or", "Not", "Xor"},
             AddToRange(i, relation)
      PROVE  RangeInv'
  <2>1. /\ Canonical(AddRange(m_intervals, i, relation))
        /\ \A v \in Int : RangeHolds(AddRange(m_intervals, i, relation), v) <=>
                            Kept(relation, RangeHolds(m_intervals, v), Holds(i, v))
    BY AddedAddable, AddKeeps DEF RangeInv
  <2>2. Asked(relation, i) = Accepted(AddRange(m_intervals, i, relation))
    BY <1>0, <2>1 DEF Asked, Accepted, Kept, PointsOf, RangeInv
  <2> QED  BY <1>1, <2>1, <2>2 DEF AddToRange, RangeInv, Accepted
<1>2. ASSUME CopyRange PROVE RangeInv'
  BY <1>2 DEF CopyRange, RangeInv, Accepted
<1>3. ASSUME CombineRanges PROVE RangeInv'
  <2>1. /\ Canonical(m_intervals) /\ Canonical(otherRange)
        /\ asked = Accepted(m_intervals) /\ otherAsked = Accepted(otherRange)
    BY DEF RangeInv
  <2>2. otherRange' = otherRange /\ otherAsked' = otherAsked
    BY <1>3 DEF CombineRanges
  <2>3. CASE m_intervals' = UnionRange(m_intervals, otherRange) /\ asked' = asked \cup otherAsked
    <3>1. /\ Canonical(m_intervals')
          /\ \A v \in Int : RangeHolds(m_intervals', v) <=>
                              Kept("Or", RangeHolds(m_intervals, v), RangeHolds(otherRange, v))
      BY <2>1, <2>3, AddEachKeeps DEF UnionRange
    <3>2. asked' = Accepted(m_intervals)'
      BY <1>0, <2>1, <2>3, <3>1 DEF Accepted, Kept
    <3> QED  BY <2>1, <2>2, <3>1, <3>2 DEF RangeInv, Accepted
  <2>4. CASE m_intervals' = DifferenceRange(m_intervals, otherRange) /\ asked' = asked \ otherAsked
    <3>1. /\ Canonical(m_intervals')
          /\ \A v \in Int : RangeHolds(m_intervals', v) <=>
                              Kept("Not", RangeHolds(m_intervals, v), RangeHolds(otherRange, v))
      BY <2>1, <2>4, AddEachKeeps DEF DifferenceRange
    <3>2. asked' = Accepted(m_intervals)'
      BY <1>0, <2>1, <2>4, <3>1 DEF Accepted, Kept
    <3> QED  BY <2>1, <2>2, <3>1, <3>2 DEF RangeInv, Accepted
  <2>5. CASE /\ m_intervals' = IntersectRange(m_intervals, otherRange)
             /\ asked' = asked \cap otherAsked
    <3>1. /\ Canonical(m_intervals')
          /\ \A v \in Int : RangeHolds(m_intervals', v) <=>
                              RangeHolds(m_intervals, v) /\ RangeHolds(otherRange, v)
      BY <2>1, <2>5, IntersectKeeps
    <3>2. asked' = Accepted(m_intervals)'
      BY <1>0, <2>1, <2>5, <3>1 DEF Accepted
    <3> QED  BY <2>1, <2>2, <3>1, <3>2 DEF RangeInv, Accepted
  <2> QED  BY <1>3, <2>3, <2>4, <2>5 DEF CombineRanges
<1>4. ASSUME ClearRange PROVE RangeInv'
  <2>1. Canonical({}) /\ Accepted({}) = {}
    BY FS_EmptySet DEF Canonical, Accepted, RangeHolds
  <2> QED  BY <1>4, <2>1 DEF ClearRange, RangeInv, Accepted
<1>5. ASSUME UNCHANGED rangeVars PROVE RangeInv'
  BY <1>5 DEF rangeVars, RangeInv, Accepted
<1> QED  BY <1>1, <1>2, <1>3, <1>4, <1>5 DEF RangeNext

\* and says that the conditions are the sets of their values.
LEMMA RangeInvIs ==
  ASSUME RangeAssumption, OneSideUnbounded, RangeInv
  PROVE  ConditionsAreSets
<1>1. AcceptsWhatWasAsked
  BY AnswersForItsSet DEF RangeInv
<1>2. RangeEqual(m_intervals, otherRange) <=> asked = otherAsked
  BY EqualAsSets DEF RangeInv
<1>3. RangeIntersects(m_intervals, otherRange) <=> asked \cap otherAsked # {}
  BY IntersectsAsSets DEF RangeInv
<1>4. RangeCovers(m_intervals, otherRange) <=> otherAsked \subseteq asked
  BY CoversAsSets DEF RangeInv
<1> QED  BY <1>1, <1>2, <1>3, <1>4 DEF ConditionsAreSets, ComparesAsSets

\* Where no interval is infinite upwards while another is infinite downwards, a
\* RangeCondition made by any number of And, Or, Not, union, difference and
\* intersection accepts exactly the values those say, and its comparisons with another,
\* interval by interval, are those of the two sets of values: simplify keeps a set of
\* values in one representation (range_condition.hpp).
THEOREM ConditionsAreTheirValues ==
  ASSUME Unbounded # Sides
  PROVE  RangeSpec => []ConditionsAreSets
<1>0. RangeAssumption /\ OneSideUnbounded
  BY RangeAssumption DEF RangeAssumption, OneSideUnbounded
<1>1. RangeInit => RangeInv
  BY RangeInitInv
<1>2. RangeInv /\ [RangeNext]_rangeVars => RangeInv'
  BY <1>0, RangeNextInv
<1>3. RangeInv => ConditionsAreSets
  BY <1>0, RangeInvIs
<1> QED  BY <1>1, <1>2, <1>3, PTL DEF RangeSpec

\* Infinite bounds on opposite sides (endpoint_range.hpp:356): a half-line of either
\* direction counts as adjacent to any of the other.  What they have in common is then no
\* intersection to is_intersect, and their union is everything, what lies between included.
THEOREM OppositeEndsCountAsAdjacent ==
  ASSUME NEW a \in Int, NEW b \in Int, NEW p \in BOOLEAN, NEW q \in BOOLEAN
  PROVE  LET up   == OneSided(Limited(a, p, "Left"))
             down == OneSided(Limited(b, q, "Right"))
         IN  /\ IsAdjacent(up, down) /\ ~IsIntersect(up, down)
             /\ CanMerge(up, down)
             /\ UnionWith(up, down) = Interval(Unlimited("Left"), Unlimited("Right"))
             /\ \A v \in Int : a < v /\ v < b => Holds(up, v) /\ Holds(down, v)
<1> DEFINE up   == OneSided(Limited(a, p, "Left"))
           down == OneSided(Limited(b, q, "Right"))
<1>1. /\ up.left = Limited(a, p, "Left") /\ up.right = Unlimited("Right")
      /\ down.left = Unlimited("Left") /\ down.right = Limited(b, q, "Right")
  BY DEF OneSided, Interval, Limited
<1> HIDE DEF up, down
<1>2. Adjacent(up.right) = down.left
  BY <1>1 DEF Adjacent, Unlimited, Opposite
<1>3. IsAdjacent(up, down) /\ ~IsIntersect(up, down) /\ CanMerge(up, down)
  BY <1>2 DEF IsAdjacent, IsIntersect, IsDisjoint, CanMerge
<1>4. Earlier(up.left, down.left) = Unlimited("Left")
  <2>1. /\ up.left.limited = TRUE /\ down.left.limited = FALSE
        /\ up.left.side = "Left" /\ down.left.side = "Left"
    BY <1>1 DEF Limited, Unlimited
  <2>2. ~Before(up.left, down.left)
    BY <2>1 DEF Before
  <2>3. up.left # down.left
    BY <2>1
  <2> QED  BY <1>1, <2>2, <2>3 DEF Earlier, BeforeOrAt
<1>5. Later(up.right, down.right) = Unlimited("Right")
  <2>1. /\ up.right.limited = FALSE /\ down.right.limited = TRUE
        /\ up.right.side = "Right" /\ down.right.side = "Right"
    BY <1>1 DEF Limited, Unlimited
  <2>2. ~Before(up.right, down.right)
    BY <2>1 DEF Before
  <2>3. up.right # down.right
    BY <2>1
  <2> QED  BY <1>1, <2>2, <2>3 DEF Later, BeforeOrAt
<1>6. UnionWith(up, down) = Interval(Unlimited("Left"), Unlimited("Right"))
  BY <1>4, <1>5 DEF UnionWith, Between, Unlimited
<1>7. ASSUME NEW v \in Int, a < v, v < b PROVE Holds(up, v) /\ Holds(down, v)
  BY <1>1, <1>7 DEF Holds, Admits, Limited, Unlimited
<1> QED  BY <1>3, <1>6, <1>7 DEF up, down

-----------------------------------------------------------------------------
(* Text rules.                                                              *)

CasedLetters == Letters \X BOOLEAN

\* What the setters make of a rule, whatever the order they are called in.
RuleTypes ==
  /\ rule = [text |-> rule.text, pattern |-> rule.pattern, min |-> rule.min, max |-> rule.max,
             front |-> rule.front, back |-> rule.back, caseSensitive |-> rule.caseSensitive,
             included |-> rule.included]
  /\ rule.text \in Seq(CasedLetters) /\ rule.pattern \in MatchPattern
  /\ rule.min \subseteq Nat /\ rule.max \subseteq Nat
  /\ rule.front \subseteq Nat /\ rule.back \subseteq Nat
  /\ rule.caseSensitive \in BOOLEAN /\ rule.included \in BOOLEAN

LEMMA TextsAreSequences ==
  ASSUME NEW n \in Nat, NEW text \in Texts(n)
  PROVE  text \in Seq(CasedLetters)
BY DEF Texts, CasedLetters

LEMMA RuleTypesKept == WildcardSpec => []RuleTypes
<1>1. WildcardInit => RuleTypes
  BY DEF WildcardInit, RuleTypes, MatchPattern
<1>2. RuleTypes /\ [WildcardNext]_wildcardVars => RuleTypes'
  <2> SUFFICES ASSUME RuleTypes, [WildcardNext]_wildcardVars PROVE RuleTypes'
    OBVIOUS
  <2>1. \A length \in Optional : length \subseteq Nat
    BY WildcardAssumption DEF Optional
  <2>2. ASSUME NEW text \in Texts(MaxPattern), NEW p \in MatchPattern, SetText(text, p)
        PROVE  RuleTypes'
    <3>1. text \in Seq(CasedLetters)
      BY TextsAreSequences, WildcardAssumption
    <3> QED  BY <2>2, <3>1 DEF RuleTypes, SetText
  <2>3. ASSUME NEW p \in MatchPattern, SetMatchedPattern(p)
        PROVE  RuleTypes'
    BY <2>3 DEF RuleTypes, SetMatchedPattern
  <2>4. ASSUME NEW min \in Optional, NEW max \in Optional, SetMatchedLength(min, max)
        PROVE  RuleTypes'
    BY <2>1, <2>4 DEF RuleTypes, SetMatchedLength
  <2>5. ASSUME NEW length \in Optional, SetFrontContext(length) \/ SetBackContext(length)
        PROVE  RuleTypes'
    BY <2>1, <2>5 DEF RuleTypes, SetFrontContext, SetBackContext
  <2>6. ASSUME NEW is \in BOOLEAN, SetCaseSensitive(is)
        PROVE  RuleTypes'
    BY <2>6 DEF RuleTypes, SetCaseSensitive
  <2>7. CASE UNCHANGED wildcardVars
    BY <2>7 DEF RuleTypes, wildcardVars
  <2> QED  BY <2>2, <2>3, <2>4, <2>5, <2>6, <2>7 DEF WildcardNext
<1> QED  BY <1>1, <1>2, PTL DEF WildcardSpec

\* A text says the same as another: they are as long, and is_equal takes them for one.
LEMMA EqualTexts ==
  ASSUME RuleTypes, NEW s \in Seq(CasedLetters)
  PROVE  IsEqual(s, rule.text) <=>
           s = rule.text \/ (~rule.caseSensitive /\ Lower(s) = Lower(rule.text))
<1>1. Lower(s) = Lower(rule.text) => Len(s) = Len(rule.text)
  BY DEF Lower, RuleTypes
<1>2. s = rule.text => Lower(s) = Lower(rule.text)
  OBVIOUS
<1>3. rule.caseSensitive \in BOOLEAN
  BY DEF RuleTypes
<1> HIDE DEF Lower
<1> QED  BY <1>1, <1>2, <1>3 DEF IsEqual

\* What is compared is as long as the rule's text, so one end of it gives the other.
LEMMA MiddleOfText ==
  ASSUME RuleTypes, NEW text \in Seq(CasedLetters), NEW i \in 0..Len(text), NEW j \in i..Len(text)
  PROVE  /\ SubSeq(text, i + 1, j) \in Seq(CasedLetters)
         /\ Len(SubSeq(text, i + 1, j)) = j - i
         /\ IsEqual(SubSeq(text, i + 1, j), rule.text) => j = i + Len(rule.text)
<1>1. /\ SubSeq(text, i + 1, j) \in Seq(CasedLetters)
      /\ Len(SubSeq(text, i + 1, j)) = j - i
  <2>1. i + 1 \in 1..Len(text) + 1 /\ j \in Nat
    OBVIOUS
  <2>2. CASE i = j
    BY <2>2, SubSeqEmpty
  <2>3. CASE i < j
    BY <2>3, SubSeqProperties
  <2> QED  BY <2>2, <2>3
<1>2. Len(rule.text) \in Nat
  BY DEF RuleTypes
<1> QED  BY <1>1, <1>2 DEF IsEqual

\* Where the rule's text stands in a text, if the pattern allows it to.
StandsAt(text, i, j) ==
  /\ IsEqual(SubSeq(text, i + 1, j), rule.text)
  /\ rule.pattern \notin {"RegexMatch", "Unknown"}
  /\ rule.pattern \in {"ExactMatch", "PrefixMatch"} => i = 0
  /\ rule.pattern \in {"ExactMatch", "SuffixMatch"} => j = Len(text)
  /\ rule.pattern = "PrefixMatch" => \A n \in rule.back : Len(text) - j = n
  /\ rule.pattern = "SuffixMatch" => \A n \in rule.front : i = n

LEMMA MeantIsStanding ==
  ASSUME RuleTypes, NEW text \in Seq(CasedLetters)
  PROVE  Meant(text) <=>
           /\ \A n \in rule.min : Len(text) >= n
           /\ \A n \in rule.max : Len(text) <= n
           /\ \E i \in 0..Len(text) : \E j \in i..Len(text) : StandsAt(text, i, j)
<1>1. ASSUME NEW i \in 0..Len(text), NEW j \in i..Len(text)
      PROVE  IsEqual(SubSeq(text, i + 1, j), rule.text) <=>
               \/ SubSeq(text, i + 1, j) = rule.text
               \/ ~rule.caseSensitive /\ Lower(SubSeq(text, i + 1, j)) = Lower(rule.text)
  BY MiddleOfText, EqualTexts
<1> QED  BY <1>1 DEF Meant, StandsAt

\* The code looks where the reference does, and nowhere beyond the text.
LEMMA MatchIsMeant ==
  ASSUME RuleTypes, NEW text \in Seq(CasedLetters)
  PROVE  IsAllMatch(text) <=> Meant(text)
<1> DEFINE l == Len(text)
           k == Len(rule.text)
           Standing == \E i \in 0..l : \E j \in i..l : StandsAt(text, i, j)
<1>1. l \in Nat /\ k \in Nat
  BY DEF RuleTypes
<1>2. SubSeq(text, 1, l) = text
  BY SubSeqFull
<1>3. ASSUME NEW i \in 0..l, NEW j \in i..l, StandsAt(text, i, j)
      PROVE  j = i + k /\ k <= l
  BY <1>1, <1>3, MiddleOfText DEF StandsAt
<1>4. CASE k <= l /\ rule.pattern = "ExactMatch"
  <2>1. StandsAt(text, 0, l) <=> IsEqual(text, rule.text)
    <3>1. SubSeq(text, 0 + 1, l) = text
      BY <1>1, <1>2
    <3> QED  BY <1>4, <3>1 DEF StandsAt
  <2>2. ASSUME NEW i \in 0..l, NEW j \in i..l, StandsAt(text, i, j)
        PROVE  i = 0 /\ j = l
    BY <1>4, <2>2 DEF StandsAt
  <2>3. IsAllMatch(text) <=> IsLengthMatch(text) /\ IsEqual(text, rule.text)
    BY <1>4 DEF IsAllMatch
  <2>4. 0 \in 0..l /\ l \in 0..l
    BY <1>1
  <2>5. Standing <=> IsEqual(text, rule.text)
    BY <2>1, <2>2, <2>4
  <2> QED  BY <1>1, <1>4, <2>3, <2>5, MeantIsStanding DEF IsLengthMatch
<1>5. CASE k <= l /\ rule.pattern = "PartialMatch"
  <2>1. Standing <=> IsPartialMatch(text)
    <3>1. ASSUME NEW at \in 0..(l - k), IsEqual(SubSeq(text, at + 1, at + k), rule.text)
          PROVE  at \in 0..l /\ at + k \in at..l /\ StandsAt(text, at, at + k)
      BY <1>1, <1>5, <3>1 DEF StandsAt
    <3>2. ASSUME NEW i \in 0..l, NEW j \in i..l, StandsAt(text, i, j)
          PROVE  i \in 0..(l - k) /\ IsEqual(SubSeq(text, i + 1, i + k), rule.text)
      BY <1>1, <1>3, <3>2 DEF StandsAt
    <3> QED  BY <3>1, <3>2 DEF IsPartialMatch
  <2>2. IsAllMatch(text) <=> IsLengthMatch(text) /\ IsPartialMatch(text)
    BY <1>5 DEF IsAllMatch
  <2> QED  BY <1>1, <1>5, <2>1, <2>2, MeantIsStanding DEF IsLengthMatch
<1>6. CASE k <= l /\ rule.pattern = "PrefixMatch"
  <2>0. \A n \in rule.back : n \in Nat
    BY DEF RuleTypes
  <2>1. IsPrefixMatch(text) => k \in 0..l /\ StandsAt(text, 0, k)
    BY <1>1, <1>6, <2>0 DEF StandsAt, IsPrefixMatch
  <2>2. Standing => IsPrefixMatch(text)
    <3>1. ASSUME NEW i \in 0..l, NEW j \in i..l, StandsAt(text, i, j)
          PROVE  IsPrefixMatch(text)
      <4>1. i = 0 /\ j = k /\ \A n \in rule.back : l - j = n
        BY <1>1, <1>3, <1>6, <3>1 DEF StandsAt
      <4>2. IsEqual(SubSeq(text, 1, k), rule.text)
        BY <3>1, <4>1 DEF StandsAt
      <4> QED  BY <1>1, <2>0, <4>1, <4>2 DEF IsPrefixMatch
    <3> QED  BY <3>1
  <2>3. Standing <=> IsPrefixMatch(text)
    BY <1>1, <2>1, <2>2
  <2>4. IsAllMatch(text) <=> IsLengthMatch(text) /\ IsPrefixMatch(text)
    BY <1>6 DEF IsAllMatch
  <2> QED  BY <1>1, <1>6, <2>3, <2>4, MeantIsStanding DEF IsLengthMatch
<1>7. CASE k <= l /\ rule.pattern = "SuffixMatch"
  <2>0. \A n \in rule.front : n \in Nat
    BY DEF RuleTypes
  <2>1. IsSuffixMatch(text) => StandsAt(text, l - k, l)
    <3>1. (\A n \in rule.front : l = k + n) => \A n \in rule.front : l - k = n
      BY <1>1, <2>0
    <3>2. IsSuffixMatch(text) =>
            (\A n \in rule.front : l = k + n) /\ IsEqual(SubSeq(text, l - k + 1, l), rule.text)
      BY DEF IsSuffixMatch
    <3> QED  BY <1>7, <3>1, <3>2 DEF StandsAt
  <2>2. Standing => IsSuffixMatch(text)
    <3>1. ASSUME NEW i \in 0..l, NEW j \in i..l, StandsAt(text, i, j)
          PROVE  IsSuffixMatch(text)
      <4>1. j = l /\ i = l - k /\ \A n \in rule.front : i = n
        BY <1>1, <1>3, <1>7, <3>1 DEF StandsAt
      <4>2. IsEqual(SubSeq(text, l - k + 1, l), rule.text)
        BY <3>1, <4>1 DEF StandsAt
      <4>3. \A n \in rule.front : l = k + n
        BY <1>1, <2>0, <4>1
      <4> QED  BY <4>2, <4>3 DEF IsSuffixMatch
    <3> QED  BY <3>1
  <2>3. Standing <=> IsSuffixMatch(text)
    <3>1. (l - k) \in 0..l /\ l \in (l - k)..l
      BY <1>1, <1>7
    <3> QED  BY <2>1, <2>2, <3>1
  <2>4. IsAllMatch(text) <=> IsLengthMatch(text) /\ IsSuffixMatch(text)
    BY <1>7 DEF IsAllMatch
  <2> QED  BY <1>1, <1>7, <2>3, <2>4, MeantIsStanding DEF IsLengthMatch
<1>8. CASE rule.pattern \in {"RegexMatch", "Unknown"}
  BY <1>8, MeantIsStanding DEF IsAllMatch, StandsAt
<1>9. CASE ~(k <= l)
  BY <1>1, <1>3, <1>9, MeantIsStanding DEF IsAllMatch, IsLengthMatch
<1>10. rule.pattern \in MatchPattern
  BY DEF RuleTypes
<1> QED  BY <1>4, <1>5, <1>6, <1>7, <1>8, <1>9, <1>10 DEF MatchPattern

\* Whatever setters were called before, in any order, a rule matches the texts that have
\* its text where its pattern says, and looks at nothing beyond them (is_all_match).
THEOREM RulesSayWhatTheyMatch == WildcardSpec => []MatchesWhatItSays
<1>1. RuleTypes => MatchesWhatItSays
  <2> SUFFICES ASSUME RuleTypes PROVE MatchesWhatItSays
    OBVIOUS
  <2>1. ASSUME NEW text \in Texts(MaxText)
        PROVE  /\ IsMatch(text) <=> (Meant(text) <=> rule.included)
               /\ IsLengthMatch(text) => Len(text) >= Len(rule.text)
    <3>1. text \in Seq(CasedLetters)
      BY TextsAreSequences, WildcardAssumption
    <3>2. IsAllMatch(text) <=> Meant(text)
      BY <3>1, MatchIsMeant
    <3>3. IsLengthMatch(text) => Len(text) >= Len(rule.text)
      BY DEF IsLengthMatch
    <3>4. rule.included \in BOOLEAN /\ IsAllMatch(text) \in BOOLEAN
      BY DEF RuleTypes, IsAllMatch
    <3> QED  BY <3>2, <3>3, <3>4 DEF IsMatch
  <2> QED  BY <2>1 DEF MatchesWhatItSays, MatchedTexts, UnmatchedTexts
<1> QED  BY <1>1, RuleTypesKept, PTL

-----------------------------------------------------------------------------
(* Frames.                                                                  *)

-----------------------------------------------------------------------------
(* Pieces of sequences, cell by cell.                                       *)

LEMMA Piece ==
  ASSUME NEW S, NEW s \in Seq(S), NEW from \in 1..Len(s) + 1, NEW to \in from - 1..Len(s)
  PROVE  /\ SubSeq(s, from, to) \in Seq(S)
         /\ Len(SubSeq(s, from, to)) = to - from + 1
         /\ \A i \in 1..to - from + 1 : SubSeq(s, from, to)[i] = s[from + i - 1]
<1>1. CASE to = from - 1
  BY <1>1, SubSeqEmpty
<1>2. CASE from <= to
  BY <1>2, SubSeqProperties
<1> QED  BY <1>1, <1>2

LEMMA FirstPart ==
  ASSUME NEW S, NEW s \in Seq(S), NEW n \in Nat, n <= Len(s)
  PROVE  /\ SubSeq(s, 1, n) \in Seq(S) /\ Len(SubSeq(s, 1, n)) = n
         /\ \A i \in 1..n : SubSeq(s, 1, n)[i] = s[i]
<1>1. 1 \in 1..Len(s) + 1 /\ n \in 1 - 1..Len(s)
  OBVIOUS
<1>2. /\ SubSeq(s, 1, n) \in Seq(S) /\ Len(SubSeq(s, 1, n)) = n - 1 + 1
      /\ \A i \in 1..n - 1 + 1 : SubSeq(s, 1, n)[i] = s[1 + i - 1]
  BY <1>1, Piece
<1>3. n - 1 + 1 = n /\ \A i \in 1..n : 1 + i - 1 = i
  OBVIOUS
<1> DEFINE t == SubSeq(s, 1, n)
<1> HIDE DEF t
<1>4. t \in Seq(S) /\ Len(t) = n /\ \A i \in 1..n : t[i] = s[i]
  BY <1>2, <1>3 DEF t
<1> QED  BY <1>4 DEF t

LEMMA LastPart ==
  ASSUME NEW S, NEW s \in Seq(S), NEW n \in Nat, n <= Len(s)
  PROVE  /\ SubSeq(s, n + 1, Len(s)) \in Seq(S)
         /\ Len(SubSeq(s, n + 1, Len(s))) = Len(s) - n
         /\ \A i \in 1..Len(s) - n : SubSeq(s, n + 1, Len(s))[i] = s[n + i]
<1> DEFINE t == SubSeq(s, n + 1, Len(s))
<1>1. n + 1 \in 1..Len(s) + 1 /\ Len(s) \in (n + 1) - 1..Len(s)
  OBVIOUS
<1>2. /\ t \in Seq(S) /\ Len(t) = Len(s) - (n + 1) + 1
      /\ \A i \in 1..Len(s) - (n + 1) + 1 : t[i] = s[(n + 1) + i - 1]
  BY <1>1, Piece
<1>3. Len(s) - (n + 1) + 1 = Len(s) - n /\ \A i \in 1..Len(s) - n : (n + 1) + i - 1 = n + i
  OBVIOUS
<1> HIDE DEF t
<1>4. t \in Seq(S) /\ Len(t) = Len(s) - n /\ \A i \in 1..Len(s) - n : t[i] = s[n + i]
  BY <1>2, <1>3
<1> QED  BY <1>4 DEF t

LEMMA Cut ==
  ASSUME NEW S, NEW s \in Seq(S), NEW n \in 0..Len(s)
  PROVE  SubSeq(s, 1, n) \o SubSeq(s, n + 1, Len(s)) = s
<1>1. /\ SubSeq(s, 1, n) \in Seq(S) /\ Len(SubSeq(s, 1, n)) = n
      /\ \A i \in 1..n : SubSeq(s, 1, n)[i] = s[i]
  BY FirstPart
<1>2. /\ SubSeq(s, n + 1, Len(s)) \in Seq(S) /\ Len(SubSeq(s, n + 1, Len(s))) = Len(s) - n
      /\ \A i \in 1..Len(s) - n : SubSeq(s, n + 1, Len(s))[i] = s[n + i]
  BY LastPart
<1> DEFINE t == SubSeq(s, 1, n) \o SubSeq(s, n + 1, Len(s))
<1> DEFINE u == SubSeq(s, 1, n)
           v == SubSeq(s, n + 1, Len(s))
<1> HIDE DEF u, v
<1>3. /\ t \in Seq(S) /\ Len(t) = Len(s)
      /\ \A i \in 1..Len(s) : t[i] = IF i <= n THEN s[i] ELSE s[n + (i - n)]
  <2>1. /\ u \o v \in Seq(S) /\ Len(u \o v) = Len(u) + Len(v)
        /\ \A i \in 1..Len(u) + Len(v) : (u \o v)[i] = IF i <= Len(u) THEN u[i] ELSE v[i - Len(u)]
    BY <1>1, <1>2, ConcatProperties DEF u, v
  <2>2. /\ Len(u) = n /\ Len(v) = Len(s) - n /\ t = u \o v
        /\ \A i \in 1..n : u[i] = s[i]
        /\ \A i \in 1..Len(s) - n : v[i] = s[n + i]
    BY <1>1, <1>2 DEF u, v
  <2> HIDE DEF t
  <2> QED  BY <2>1, <2>2
<1> HIDE DEF t
<1>4. \A i \in 1..Len(s) : t[i] = s[i]
  BY <1>3
<1>5. t = s
  BY <1>3, <1>4, SeqEqual
<1> QED  BY <1>5 DEF t

-----------------------------------------------------------------------------
(* A stream that is a row of frames.                                        *)

\* The stream consists of the frames after the k-th, end[j] being where the j-th ends.
Framed(stream, frames, k) ==
  \E end \in [k..Len(frames) -> Nat] :
    /\ end[k] = 0 /\ end[Len(frames)] = Len(stream)
    /\ \A i, j \in k..Len(frames) : i <= j => end[i] <= end[j]
    /\ \A j \in k + 1..Len(frames) :
         /\ end[j] = end[j - 1] + Len(frames[j])
         /\ \A i \in 1..Len(frames[j]) : stream[end[j - 1] + i] = frames[j][i]

LEMMA Within ==
  ASSUME NEW from \in Nat, NEW to \in Nat, NEW l \in Nat, NEW all \in Nat, NEW i \in 1..l,
         to = from + l, to <= all
  PROVE  from + i \in 1..all
OBVIOUS

LEMMA FramedSend ==
  ASSUME NEW frames \in Seq(Seq(Nat)), NEW stream \in Seq(Nat), NEW k \in 0..Len(frames),
         NEW f \in Seq(Nat), Framed(stream, frames, k)
  PROVE  Framed(stream \o f, Append(frames, f), k)
<1> DEFINE n == Len(frames)
           more == Append(frames, f)
           longer == stream \o f
<1>1. PICK end \in [k..n -> Nat] :
        /\ end[k] = 0 /\ end[n] = Len(stream)
        /\ \A i, j \in k..n : i <= j => end[i] <= end[j]
        /\ \A j \in k + 1..n :
             /\ end[j] = end[j - 1] + Len(frames[j])
             /\ \A i \in 1..Len(frames[j]) : stream[end[j - 1] + i] = frames[j][i]
  BY DEF Framed
<1>2. n \in Nat /\ Len(f) \in Nat /\ Len(stream) \in Nat /\ n \in k..n /\ k \in k..n
  OBVIOUS
<1>12. ASSUME NEW j \in k..n
       PROVE  end[j] \in Nat /\ end[j] <= Len(stream)
  <2>1. end[j] <= end[n]
    BY <1>1, <1>2
  <2> QED  BY <1>1, <2>1
<1>3. /\ Len(more) = n + 1 /\ more[n + 1] = f /\ \A j \in 1..n : more[j] = frames[j]
  OBVIOUS
<1>4. /\ Len(longer) = Len(stream) + Len(f)
      /\ \A i \in 1..Len(stream) : longer[i] = stream[i]
      /\ \A i \in 1..Len(f) : longer[Len(stream) + i] = f[i]
  BY ConcatProperties
<1> DEFINE e == [j \in k..n + 1 |-> IF j = n + 1 THEN Len(stream) + Len(f) ELSE end[j]]
<1>5. e \in [k..n + 1 -> Nat]
  BY <1>2
<1>6. /\ \A j \in k..n : e[j] = end[j]
      /\ e[n + 1] = Len(stream) + Len(f)
  BY <1>2
<1> HIDE DEF e, more, longer
<1>7. e[k] = 0
  BY <1>1, <1>2, <1>6, k \in k..n
<1>8. \A i, j \in k..n + 1 : i <= j => e[i] <= e[j]
  <2> SUFFICES ASSUME NEW i \in k..n + 1, NEW j \in k..n + 1, i <= j PROVE e[i] <= e[j]
    OBVIOUS
  <2>1. CASE j \in k..n
    <3>1. i \in k..n /\ end[i] <= end[j]
      BY <1>1, <1>2, <2>1
    <3> QED  BY <1>6, <2>1, <3>1
  <2>2. CASE j = n + 1 /\ i \in k..n
    <3>1. e[i] \in Nat /\ e[i] <= Len(stream)
      BY <1>6, <1>12, <2>2
    <3> QED  BY <1>2, <1>6, <2>2, <3>1
  <2>3. CASE j = n + 1 /\ i = n + 1
    BY <1>2, <1>6, <2>3
  <2> QED  BY <1>2, <2>1, <2>2, <2>3
<1>9. ASSUME NEW j \in k + 1..n + 1
      PROVE  /\ e[j] = e[j - 1] + Len(more[j])
             /\ \A i \in 1..Len(more[j]) : longer[e[j - 1] + i] = more[j][i]
  <2>1. CASE j \in k + 1..n
    <3>1. j \in 1..n /\ j \in k..n /\ j - 1 \in k..n
      BY <2>1
    <3>2. more[j] = frames[j] /\ e[j] = end[j] /\ e[j - 1] = end[j - 1]
      BY <1>3, <1>6, <3>1
    <3>3. /\ end[j] <= Len(stream) /\ end[j] \in Nat /\ end[j - 1] \in Nat
          /\ Len(frames[j]) \in Nat
      BY <1>12, <3>1
    <3>4. /\ end[j] = end[j - 1] + Len(frames[j])
          /\ \A i \in 1..Len(frames[j]) : stream[end[j - 1] + i] = frames[j][i]
      BY <1>1, <2>1
    <3>5. ASSUME NEW i \in 1..Len(frames[j])
          PROVE  longer[end[j - 1] + i] = frames[j][i]
      <4>1. end[j - 1] + i \in 1..Len(stream)
        BY <1>2, <3>3, <3>4, Within
      <4> QED  BY <1>4, <3>4, <4>1
    <3> QED  BY <3>2, <3>4, <3>5
  <2>2. CASE j = n + 1
    <3>1. e[j - 1] = Len(stream)
      <4>1. j - 1 = n
        BY <1>2, <2>2
      <4> QED  BY <1>1, <1>2, <1>6, <4>1
    <3> QED  BY <1>2, <1>3, <1>4, <1>6, <2>2, <3>1
  <2> QED  BY <1>2, <2>1, <2>2
<1>10. e[n + 1] = Len(longer)
  BY <1>4, <1>6
<1>11. Framed(longer, more, k)
  <2>1. /\ e \in [k..Len(more) -> Nat]
        /\ e[k] = 0 /\ e[Len(more)] = Len(longer)
        /\ \A i, j \in k..Len(more) : i <= j => e[i] <= e[j]
        /\ \A j \in k + 1..Len(more) :
             /\ e[j] = e[j - 1] + Len(more[j])
             /\ \A i \in 1..Len(more[j]) : longer[e[j - 1] + i] = more[j][i]
    BY <1>3, <1>5, <1>7, <1>8, <1>9, <1>10
  <2> QED  BY <2>1 DEF Framed
<1> QED  BY <1>11 DEF more, longer

LEMMA FramedFirst ==
  ASSUME NEW frames \in Seq(Seq(Nat)), NEW stream \in Seq(Nat), NEW k \in 0..Len(frames) - 1,
         Framed(stream, frames, k)
  PROVE  /\ Len(frames[k + 1]) <= Len(stream)
         /\ \A i \in 1..Len(frames[k + 1]) : stream[i] = frames[k + 1][i]
         /\ Framed(SubSeq(stream, Len(frames[k + 1]) + 1, Len(stream)), frames, k + 1)
<1> DEFINE n == Len(frames)
           l == Len(frames[k + 1])
           rest == SubSeq(stream, l + 1, Len(stream))
<1>1. PICK end \in [k..n -> Nat] :
        /\ end[k] = 0 /\ end[n] = Len(stream)
        /\ \A i, j \in k..n : i <= j => end[i] <= end[j]
        /\ \A j \in k + 1..n :
             /\ end[j] = end[j - 1] + Len(frames[j])
             /\ \A i \in 1..Len(frames[j]) : stream[end[j - 1] + i] = frames[j][i]
  BY DEF Framed
<1>2. /\ n \in Nat /\ Len(stream) \in Nat /\ frames[k + 1] \in Seq(Nat) /\ l \in Nat
      /\ k + 1 \in k + 1..n /\ n \in k + 1..n
  OBVIOUS
<1>3. end[k + 1] = l /\ \A i \in 1..l : stream[i] = frames[k + 1][i]
  <2>1. k + 1 \in k + 1..n /\ (k + 1) - 1 = k
    BY <1>2
  <2>2. /\ end[k + 1] = end[k] + l
        /\ \A i \in 1..l : stream[end[k] + i] = frames[k + 1][i]
    BY <1>1, <2>1
  <2> QED  BY <1>1, <1>2, <2>2
<1>4. l <= Len(stream)
  BY <1>1, <1>2, <1>3
<1>5. /\ Len(rest) = Len(stream) - l
      /\ \A i \in 1..Len(stream) - l : rest[i] = stream[l + i]
  <2> HIDE DEF l
  <2> QED  BY <1>2, <1>4, LastPart
<1> DEFINE e == [j \in k + 1..n |-> end[j] - l]
<1> HIDE DEF rest, l
<1>6. ASSUME NEW j \in k + 1..n
      PROVE  e[j] = end[j] - l /\ e[j] \in Nat /\ end[j] \in Nat
  <2>1. end[k + 1] <= end[j] /\ end[j] \in Nat
    BY <1>1, <1>2
  <2> QED  BY <1>2, <1>3, <2>1
<1>7. e \in [k + 1..n -> Nat]
  BY <1>6
<1> HIDE DEF e
<1>8. e[k + 1] = 0 /\ e[n] = Len(rest)
  <2>1. e[k + 1] = end[k + 1] - l /\ e[n] = end[n] - l
    BY <1>2, <1>6
  <2> QED  BY <1>1, <1>2, <1>3, <1>5, <2>1
<1>9. \A i, j \in k + 1..n : i <= j => e[i] <= e[j]
  <2> SUFFICES ASSUME NEW i \in k + 1..n, NEW j \in k + 1..n, i <= j PROVE e[i] <= e[j]
    OBVIOUS
  <2>1. end[i] <= end[j]
    BY <1>1, <1>2
  <2> QED  BY <1>2, <1>6, <2>1
<1>10. ASSUME NEW j \in (k + 1) + 1..n
       PROVE  /\ e[j] = e[j - 1] + Len(frames[j])
              /\ \A i \in 1..Len(frames[j]) : rest[e[j - 1] + i] = frames[j][i]
  <2>1. j \in k + 1..n /\ j - 1 \in k + 1..n /\ Len(frames[j]) \in Nat
    BY <1>2
  <2>2. /\ end[j] = end[j - 1] + Len(frames[j])
        /\ \A i \in 1..Len(frames[j]) : stream[end[j - 1] + i] = frames[j][i]
    BY <1>1, <2>1
  <2>3. /\ e[j] = end[j] - l /\ e[j - 1] = end[j - 1] - l
        /\ e[j] \in Nat /\ e[j - 1] \in Nat /\ end[j] \in Nat /\ end[j - 1] \in Nat
    BY <1>6, <2>1
  <2>4. end[j] <= Len(stream)
    BY <1>1, <1>2, <2>1
  <2>5. ASSUME NEW i \in 1..Len(frames[j])
        PROVE  rest[e[j - 1] + i] = frames[j][i]
    <3>1. end[j - 1] + i \in 1..Len(stream)
      BY <1>2, <2>1, <2>2, <2>3, <2>4, Within
    <3>2. e[j - 1] + i \in 1..Len(stream) - l /\ l + (e[j - 1] + i) = end[j - 1] + i
      <4>1. i \in Nat /\ i > 0
        BY <2>1
      <4> DEFINE x == end[j - 1]
                 y == e[j - 1]
      <4>2. x \in Nat /\ y \in Nat /\ y = x - l /\ x + i \in 1..Len(stream)
        BY <2>3, <3>1
      <4> HIDE DEF x, y
      <4>3. y + i \in 1..Len(stream) - l /\ l + (y + i) = x + i
        BY <1>2, <4>1, <4>2
      <4> QED  BY <4>3 DEF x, y
    <3> QED  BY <1>5, <2>2, <3>2
  <2>6. e[j] = e[j - 1] + Len(frames[j])
    <3> DEFINE a == end[j - 1]
               b == end[j]
               c == Len(frames[j])
    <3>1. a \in Nat /\ b \in Nat /\ c \in Nat /\ l \in Nat /\ b = a + c
      BY <1>2, <2>1, <2>2, <2>3
    <3>2. e[j] = b - l /\ e[j - 1] = a - l
      BY <2>3
    <3> HIDE DEF a, b, c
    <3>3. e[j] = e[j - 1] + c
      BY <3>1, <3>2
    <3> QED  BY <3>3 DEF c
  <2> QED  BY <2>5, <2>6
<1>11. Framed(rest, frames, k + 1)
  BY <1>7, <1>8, <1>9, <1>10 DEF Framed
<1> QED  BY <1>3, <1>4, <1>11 DEF rest, l

LEMMA FramedNone ==
  ASSUME NEW frames \in Seq(Seq(Nat)), NEW stream \in Seq(Nat),
         Framed(stream, frames, Len(frames))
  PROVE  Len(stream) = 0
BY DEF Framed

-----------------------------------------------------------------------------
(* The header, between hosts of any two byte orders.                        *)

HostsTyped == hosts \in [sender : ByteOrders, receiver : ByteOrders]

\* Every number is on its way as the network has it, high byte first.
LEMMA NetworkOrder ==
  ASSUME NEW host \in ByteOrders, NEW n \in Nat
  PROVE  ToNetworkByteOrder(host, n) = <<n \div 256, n % 256>>
<1>1. CASE host = "BigEndian"
  BY <1>1 DEF ToNetworkByteOrder, ConvertByteOrder, is_network_byte_order, get_local_byte_order,
              InMemory, DANEJOE_NETWORK_BYTE_ORDER
<1>2. CASE host = "LittleEndian"
  <2>1. Reverse(<<n % 256, n \div 256>>) = <<n \div 256, n % 256>>
    BY DEF Reverse
  <2> QED  BY <1>2, <2>1 DEF ToNetworkByteOrder, ConvertByteOrder, is_network_byte_order,
              get_local_byte_order, InMemory, DANEJOE_NETWORK_BYTE_ORDER
<1> QED  BY <1>1, <1>2 DEF ByteOrders

LEMMA LocalOrder ==
  ASSUME NEW host \in ByteOrders, NEW high \in Nat, NEW low \in Nat
  PROVE  ToLocalByteOrder(host, <<high, low>>) = high * 256 + low
<1>1. CASE host = "BigEndian"
  BY <1>1 DEF ToLocalByteOrder, ConvertEach, ReadFromMemory, is_network_byte_order,
              get_local_byte_order, InMemory, DANEJOE_NETWORK_BYTE_ORDER
<1>2. CASE host = "LittleEndian"
  <2>1. Reverse(<<high, low>>) = <<low, high>>
    BY DEF Reverse
  <2> QED  BY <1>2, <2>1 DEF ToLocalByteOrder, ConvertEach, ReadFromMemory, is_network_byte_order,
              get_local_byte_order, InMemory, DANEJOE_NETWORK_BYTE_ORDER
<1> QED  BY <1>1, <1>2 DEF ByteOrders

LEMMA FirstTwo ==
  ASSUME NEW s \in Seq(Nat), Len(s) = 3
  PROVE  s[1] \in Nat /\ s[2] \in Nat /\ SubSeq(s, 1, 2) = <<s[1], s[2]>>
<1> DEFINE t == SubSeq(s, 1, 2)
<1>1. s[1] \in Nat /\ s[2] \in Nat
  BY 1 \in 1..3, 2 \in 1..3, ElementOfSeq
<1>2. t \in Seq(Nat) /\ Len(t) = 2 /\ t[1] = s[1] /\ t[2] = s[2]
  <2>1. t = [i \in 1..2 |-> s[i]]
    OBVIOUS
  <2> QED  BY <1>1, <2>1
<1> HIDE DEF t
<1>3. t = <<t[1], t[2]>>
  BY <1>2
<1> QED  BY <1>1, <1>2, <1>3 DEF t

LEMMA PairAndZero ==
  ASSUME NEW x \in Nat, NEW y \in Nat
  PROVE  <<x, y>> \o <<0>> = <<x, y, 0>>
<1> DEFINE s == <<x, y>>
           t == <<0>>
           u == <<x, y, 0>>
<1>1. /\ s \in Seq(Nat) /\ Len(s) = 2 /\ s[1] = x /\ s[2] = y
      /\ t \in Seq(Nat) /\ Len(t) = 1 /\ t[1] = 0
      /\ u \in Seq(Nat) /\ Len(u) = 3 /\ u[1] = x /\ u[2] = y /\ u[3] = 0
  OBVIOUS
<1> HIDE DEF s, t, u
<1>2. /\ s \o t \in Seq(Nat) /\ Len(s \o t) = 3
      /\ \A i \in 1..3 : (s \o t)[i] = IF i <= 2 THEN s[i] ELSE t[i - 2]
  <2>1. /\ s \o t \in Seq(Nat) /\ Len(s \o t) = Len(s) + Len(t)
        /\ \A i \in 1..Len(s) + Len(t) :
             (s \o t)[i] = IF i <= Len(s) THEN s[i] ELSE t[i - Len(s)]
    BY <1>1, ConcatProperties
  <2> QED  BY <1>1, <2>1
<1>3. \A i \in 1..3 : (s \o t)[i] = u[i]
  <2>1. (s \o t)[1] = x /\ (s \o t)[2] = y /\ (s \o t)[3] = 0
    BY <1>1, <1>2
  <2>2. \A i \in 1..3 : i = 1 \/ i = 2 \/ i = 3
    OBVIOUS
  <2> QED  BY <1>1, <2>1, <2>2
<1>4. s \o t = u
  BY <1>1, <1>2, <1>3, SeqEqual
<1> QED  BY <1>4 DEF s, t, u

\* What a reader takes the length to be from the first cells of a frame.
SaysLength(cells) == cells[1] * 256 + cells[2]

LEMMA HeaderSays ==
  ASSUME HostsTyped, NEW cells \in Seq(Nat), Len(cells) = HEADER_SIZE
  PROVE  /\ HeaderFrom(hosts.receiver, cells)[1] =
              [message_length |-> SaysLength(cells), field_count |-> cells[3]]
         /\ SaysLength(cells) \in Nat
<1>1. hosts.receiver \in ByteOrders
  BY DEF HostsTyped
<1>2. cells[1] \in Nat /\ cells[2] \in Nat /\ SubSeq(cells, 1, 2) = <<cells[1], cells[2]>>
  BY FirstTwo DEF HEADER_SIZE
<1>3. ToLocalByteOrder(hosts.receiver, SubSeq(cells, 1, 2)) = SaysLength(cells)
  <2>1. ToLocalByteOrder(hosts.receiver, <<cells[1], cells[2]>>) = cells[1] * 256 + cells[2]
    BY <1>1, <1>2, LocalOrder
  <2> QED  BY <1>2, <2>1 DEF SaysLength
<1>4. SaysLength(cells) \in Nat
  BY <1>2 DEF SaysLength
<1> QED  BY <1>3, <1>4 DEF HeaderFrom, SomeIf, Some, HEADER_SIZE

\* A frame as it is sent: its first cells say how long the rest is.
Whole(f) == f \in Seq(Nat) /\ Len(f) >= HEADER_SIZE /\ SaysLength(f) = Len(f) - HEADER_SIZE

LEMMA FramesAreWhole ==
  ASSUME HostsTyped, NEW n \in Nat, NEW length \in Nat
  PROVE  Whole(FrameOf(n, length))
<1> DEFINE body == [i \in 1..length |-> 10 * n + i]
           header == <<length \div 256, length % 256, 0>>
<1>1. body \in Seq(Nat) /\ Len(body) = length
  OBVIOUS
<1>2. header \in Seq(Nat) /\ Len(header) = 3 /\ header[1] * 256 + header[2] = length
  <2>1. /\ length \div 256 \in Nat /\ length % 256 \in Nat
        /\ (length \div 256) * 256 + (length % 256) = length
    OBVIOUS
  <2> QED  BY <2>1
<1>3. FrameOf(n, length) = header \o body
  <2>1. ToNetworkByteOrder(hosts.sender, length) = <<length \div 256, length % 256>>
    BY NetworkOrder DEF HostsTyped
  <2>2. <<length \div 256, length % 256>> \o <<0>> = header
    <3>1. length \div 256 \in Nat /\ length % 256 \in Nat
      OBVIOUS
    <3> QED  BY <3>1, PairAndZero
  <2> HIDE DEF body, header
  <2> QED  BY <1>1, <2>1, <2>2 DEF FrameOf, FinalizeMessageHeader, HeaderCells, body
<1> HIDE DEF body, header
<1>4. /\ header \o body \in Seq(Nat) /\ Len(header \o body) = 3 + length
      /\ (header \o body)[1] = header[1] /\ (header \o body)[2] = header[2]
  <2>1. /\ header \o body \in Seq(Nat) /\ Len(header \o body) = Len(header) + Len(body)
        /\ \A i \in 1..Len(header) + Len(body) :
             (header \o body)[i] = IF i <= Len(header) THEN header[i] ELSE body[i - Len(header)]
    BY <1>1, <1>2, ConcatProperties
  <2>2. 1 \in 1..Len(header) + Len(body) /\ 2 \in 1..Len(header) + Len(body)
    BY <1>1, <1>2
  <2> QED  BY <1>1, <1>2, <2>1, <2>2
<1> QED  BY <1>2, <1>3, <1>4 DEF Whole, SaysLength, HEADER_SIZE

-----------------------------------------------------------------------------
(* The assembler.                                                           *)

\* Once the header is taken the frame begins with it, and the place to write is behind it.
InForm(a) ==
  /\ a = [m_buffer |-> a.m_buffer, m_current_frame |-> a.m_current_frame,
          m_current_frame_index |-> a.m_current_frame_index,
          m_current_header |-> a.m_current_header, m_is_got_header |-> a.m_is_got_header]
  /\ a.m_buffer \in Seq(Nat) /\ a.m_current_frame \in Seq(Nat) /\ a.m_is_got_header \in BOOLEAN
  /\ a.m_current_frame_index = IF a.m_is_got_header THEN HEADER_SIZE ELSE 0
  /\ a.m_is_got_header =>
       /\ Len(a.m_current_frame) >= HEADER_SIZE
       /\ a.m_current_header.message_length = SaysLength(a.m_current_frame)
       /\ a.m_current_header.message_length \in Nat

\* What is still to come out: the header taken, what has arrived, what has not.
Pending(a, w) ==
  (IF a.m_is_got_header THEN SubSeq(a.m_current_frame, 1, HEADER_SIZE) ELSE <<>>) \o (a.m_buffer \o w)

\* Writing a part behind what is there.
LEMMA TakeWrites ==
  ASSUME NEW a, InForm(a), NEW n \in 0..Len(a.m_buffer)
  PROVE  LET at == a.m_current_frame_index
             b  == Take(a, n)
         IN  /\ b.m_current_frame_index = at + n /\ b.m_current_frame \in Seq(Nat)
             /\ Len(b.m_current_frame) >= at + n
             /\ \A i \in 1..n : b.m_current_frame[at + i] = a.m_buffer[i]
             /\ at <= Len(a.m_current_frame) =>
                  \A i \in 1..at : b.m_current_frame[i] = a.m_current_frame[i]
             /\ b.m_buffer = SubSeq(a.m_buffer, n + 1, Len(a.m_buffer))
             /\ b.m_current_header = a.m_current_header /\ b.m_is_got_header = a.m_is_got_header
             /\ b = [m_buffer |-> b.m_buffer, m_current_frame |-> b.m_current_frame,
                     m_current_frame_index |-> b.m_current_frame_index,
                     m_current_header |-> b.m_current_header, m_is_got_header |-> b.m_is_got_header]
<1> DEFINE data == SubSeq(a.m_buffer, 1, n)
           at == a.m_current_frame_index
           end == at + n
           old == a.m_current_frame
           size == IF end > Len(old) THEN end ELSE Len(old)
           new == [i \in 1..size |-> IF i \in at + 1 .. end THEN data[i - at] ELSE old[i]]
<1>1. /\ Len(data) = n /\ data \in Seq(Nat) /\ \A i \in 1..n : data[i] = a.m_buffer[i]
      /\ n \in Nat
  BY Piece DEF InForm
<1>2. at \in Nat /\ old \in Seq(Nat) /\ Len(old) \in Nat
  BY DEF InForm, HEADER_SIZE
<1> HIDE DEF data
<1>3. /\ new \in Seq(Nat) /\ Len(new) = size /\ size >= end
      /\ \A i \in 1..n : new[at + i] = a.m_buffer[i]
      /\ at <= Len(old) => \A i \in 1..at : new[i] = old[i]
  <2>1. size \in Nat /\ size >= end /\ size >= Len(old) /\ (size = end \/ size = Len(old))
    BY <1>1, <1>2
  <2>2. \A i \in 1..size : new[i] = IF i \in at + 1 .. end THEN data[i - at] ELSE old[i]
    OBVIOUS
  <2>3. ASSUME NEW i \in 1..size PROVE new[i] \in Nat
    <3>1. CASE i \in at + 1 .. end
      <4>1. i - at \in 1..n
        BY <1>1, <1>2, <3>1
      <4> QED  BY <1>1, <2>2, <3>1, <4>1
    <3>2. CASE i \notin at + 1 .. end
      <4>1. ~(i > at /\ i <= end) /\ (i <= end \/ i <= Len(old)) /\ i \in Nat /\ i > 0
        BY <1>1, <1>2, <2>1, <3>2
      <4>2. at <= Len(old)
        BY DEF InForm, HEADER_SIZE
      <4>3. i \in 1..Len(old)
        BY <1>1, <1>2, <4>1, <4>2
      <4> QED  BY <1>2, <2>2, <3>2, <4>3
    <3> QED  BY <3>1, <3>2
  <2>4. new \in Seq(Nat) /\ Len(new) = size
    <3>1. new \in [1..size -> Nat]
      BY <2>3
    <3> HIDE DEF new, size
    <3> QED  BY <2>1, <3>1
  <2> HIDE DEF new, size
  <2>5. ASSUME NEW i \in 1..n PROVE new[at + i] = a.m_buffer[i]
    <3>1. at + i \in 1..size /\ at + i \in at + 1 .. end /\ (at + i) - at = i
      <4>1. at \in Nat /\ i \in Nat /\ i > 0 /\ i <= n /\ n \in Nat /\ size \in Nat /\ size >= at + n
        BY <1>1, <1>2, <2>1
      <4> HIDE DEF at
      <4>2. at + i \in 1..size /\ at + i \in at + 1 .. at + n /\ (at + i) - at = i
        BY <4>1
      <4> QED  BY <4>2
    <3> QED  BY <1>1, <2>2, <3>1
  <2>6. ASSUME at <= Len(old), NEW i \in 1..at PROVE new[i] = old[i]
    <3>1. i \in 1..size /\ i \notin at + 1 .. end
      BY <1>1, <1>2, <2>1, <2>6
    <3> QED  BY <2>2, <3>1
  <2> QED  BY <2>1, <2>4, <2>5, <2>6
<1>4. Take(a, n) = [m_buffer |-> SubSeq(a.m_buffer, n + 1, Len(a.m_buffer)), m_current_frame |-> new,
                    m_current_frame_index |-> end, m_current_header |-> a.m_current_header,
                    m_is_got_header |-> a.m_is_got_header]
  <2> DEFINE w == [m_buffer |-> a.m_buffer, m_current_frame |-> new,
                   m_current_frame_index |-> end, m_current_header |-> a.m_current_header,
                   m_is_got_header |-> a.m_is_got_header]
  <2>1. Write(a, data) = [[a EXCEPT !.m_current_frame_index = end] EXCEPT !.m_current_frame = new]
    BY <1>1 DEF Write
  <2> HIDE DEF new, end
  <2>2. Write(a, data) = w
    BY <2>1 DEF InForm
  <2>3. Take(a, n) = [w EXCEPT !.m_buffer = SubSeq(a.m_buffer, n + 1, Len(a.m_buffer))]
    BY <2>2 DEF Take, data
  <2> QED  BY <2>3
<1>5. at + n = end
  OBVIOUS
<1> HIDE DEF new, size, end
<1>6. /\ Take(a, n).m_buffer = SubSeq(a.m_buffer, n + 1, Len(a.m_buffer))
      /\ Take(a, n).m_current_frame = new /\ Take(a, n).m_current_frame_index = end
      /\ Take(a, n).m_current_header = a.m_current_header
      /\ Take(a, n).m_is_got_header = a.m_is_got_header
  BY <1>4
<1> QED  BY <1>3, <1>4, <1>5, <1>6

\* No more frames: more has to arrive first.
Stuck(a) == Len(a.m_buffer) < IF a.m_is_got_header THEN a.m_current_header.message_length ELSE HEADER_SIZE

LEMMA HeaderTaken ==
  ASSUME HostsTyped, NEW a, InForm(a), NEW w \in Seq(Nat)
  PROVE  /\ InForm(GetHeader(a)) /\ Pending(GetHeader(a), w) = Pending(a, w)
         /\ ~Poppable(GetHeader(a)) => Stuck(GetHeader(a))
         /\ Stuck(a) => GetHeader(a) = a /\ ~Poppable(a)
<1> DEFINE b == GetHeader(a)
           buffer == a.m_buffer
<1>1. /\ buffer \in Seq(Nat) /\ Len(buffer) \in Nat /\ HEADER_SIZE = 3
      /\ a.m_is_got_header \in BOOLEAN
      /\ a.m_is_got_header => a.m_current_header.message_length \in Nat
  BY DEF InForm, HEADER_SIZE
<1>2. CASE a.m_is_got_header
  <2>1. b = a
    BY <1>2 DEF GetHeader
  <2> QED  BY <1>1, <1>2, <2>1 DEF Poppable, Stuck
<1>3. CASE ~a.m_is_got_header /\ Len(buffer) < 3
  <2>1. b = a
    BY <1>1, <1>3 DEF GetHeader
  <2> QED  BY <1>1, <1>3, <2>1 DEF Poppable, Stuck
<1>4. CASE ~a.m_is_got_header /\ ~(Len(buffer) < 3)
  <2> DEFINE t == Take(a, 3)
             cells == SubSeq(buffer, 1, 3)
             rest == SubSeq(buffer, 4, Len(buffer))
  <2>1. /\ t.m_current_frame_index = 3 /\ t.m_current_frame \in Seq(Nat)
        /\ Len(t.m_current_frame) >= 3 /\ \A i \in 1..3 : t.m_current_frame[i] = buffer[i]
        /\ t.m_buffer = rest
        /\ t = [m_buffer |-> t.m_buffer, m_current_frame |-> t.m_current_frame,
                m_current_frame_index |-> t.m_current_frame_index,
                m_current_header |-> t.m_current_header, m_is_got_header |-> t.m_is_got_header]
    <3>1. 3 \in 0..Len(a.m_buffer) /\ a.m_current_frame_index = 0
      BY <1>1, <1>4 DEF InForm
    <3>2. /\ t.m_current_frame_index = a.m_current_frame_index + 3
          /\ t.m_current_frame \in Seq(Nat)
          /\ Len(t.m_current_frame) >= a.m_current_frame_index + 3
          /\ \A i \in 1..3 : t.m_current_frame[a.m_current_frame_index + i] = buffer[i]
          /\ t.m_buffer = SubSeq(buffer, 3 + 1, Len(buffer))
          /\ t = [m_buffer |-> t.m_buffer, m_current_frame |-> t.m_current_frame,
                  m_current_frame_index |-> t.m_current_frame_index,
                  m_current_header |-> t.m_current_header, m_is_got_header |-> t.m_is_got_header]
      BY <3>1, TakeWrites, Zenon
    <3> HIDE DEF t
    <3> QED  BY <3>1, <3>2
  <2>2. /\ cells \in Seq(Nat) /\ Len(cells) = 3 /\ \A i \in 1..3 : cells[i] = buffer[i]
        /\ rest \in Seq(Nat)
    <3>1. 3 <= Len(buffer)
      BY <1>1, <1>4
    <3>2. cells \in Seq(Nat) /\ Len(cells) = 3 /\ \A i \in 1..3 : cells[i] = buffer[i]
      BY <1>1, <3>1, FirstPart
    <3>3. SubSeq(buffer, 3 + 1, Len(buffer)) \in Seq(Nat) /\ 3 + 1 = 4
      BY <1>1, <3>1, LastPart
    <3> HIDE DEF cells
    <3> QED  BY <3>2, <3>3
  <2>3. /\ HeaderFrom(hosts.receiver, cells)[1] =
             [message_length |-> SaysLength(cells), field_count |-> cells[3]]
        /\ SaysLength(cells) \in Nat
    BY <1>1, <2>2, HeaderSays
  <2>4. b = [t EXCEPT !.m_is_got_header = TRUE,
                      !.m_current_header = HeaderFrom(hosts.receiver, cells)[1]]
    BY <1>1, <1>4 DEF GetHeader
  <2>5. SaysLength(cells) = SaysLength(t.m_current_frame)
    BY <2>1, <2>2, 1 \in 1..3, 2 \in 1..3 DEF SaysLength
  <2>6. SubSeq(t.m_current_frame, 1, 3) = cells
    <3> DEFINE frame == t.m_current_frame
               first == SubSeq(frame, 1, 3)
    <3>2. first \in Seq(Nat) /\ Len(first) = 3 /\ \A i \in 1..3 : first[i] = frame[i]
      BY <2>1, FirstPart
    <3>3. \A i \in 1..3 : frame[i] = cells[i]
      BY <2>1, <2>2
    <3> HIDE DEF frame, first, cells
    <3>4. \A i \in 1..3 : first[i] = cells[i]
      BY <3>2, <3>3
    <3>6. first = cells
      BY <2>2, <3>2, <3>4, SeqEqual
    <3> QED  BY <3>6 DEF first, frame
  <2> HIDE DEF t, b
  <2>7. /\ b.m_buffer = rest /\ b.m_is_got_header = TRUE /\ b.m_current_frame = t.m_current_frame
        /\ b.m_current_frame_index = 3 /\ b.m_current_header.message_length = SaysLength(cells)
        /\ b = [m_buffer |-> b.m_buffer, m_current_frame |-> b.m_current_frame,
                m_current_frame_index |-> b.m_current_frame_index,
                m_current_header |-> b.m_current_header, m_is_got_header |-> b.m_is_got_header]
    <3> DEFINE h == HeaderFrom(hosts.receiver, cells)[1]
    <3>1. b = [m_buffer |-> t.m_buffer, m_current_frame |-> t.m_current_frame,
               m_current_frame_index |-> t.m_current_frame_index,
               m_current_header |-> h, m_is_got_header |-> TRUE]
      <4> HIDE DEF h
      <4>1. b = [t EXCEPT !.m_is_got_header = TRUE, !.m_current_header = h]
        BY <2>4 DEF h
      <4> QED  BY <2>1, <4>1
    <3>2. h.message_length = SaysLength(cells)
      BY <2>3
    <3> HIDE DEF h
    <3> QED  BY <2>1, <3>1, <3>2
  <2>8. InForm(b)
    BY <1>1, <2>1, <2>2, <2>3, <2>5, <2>7 DEF InForm
  <2>9. Pending(b, w) = Pending(a, w)
    <3>1. Pending(b, w) = cells \o (rest \o w)
      BY <1>1, <2>6, <2>7 DEF Pending
    <3>2. cells \o (rest \o w) = (cells \o rest) \o w
      <4>1. cells \in Seq(Nat) /\ rest \in Seq(Nat) /\ w \in Seq(Nat)
        BY <2>2
      <4> HIDE DEF cells, rest
      <4> QED  BY <4>1, ConcatAssociative
    <3>3. cells \o rest = buffer
      <4>1. 3 \in 0..Len(buffer) /\ 3 + 1 = 4
        BY <1>1, <1>4
      <4> QED  BY <1>1, <4>1, Cut
    <3>4. Pending(a, w) = <<>> \o (buffer \o w)
      BY <1>4 DEF Pending
    <3>5. buffer \o w \in Seq(Nat)
      BY <1>1, ConcatProperties
    <3> QED  BY <3>1, <3>2, <3>3, <3>4, <3>5, ConcatEmptySeq
  <2>10. ~Stuck(a)
    BY <1>1, <1>4 DEF Stuck
  <2>11. ~Poppable(b) => Stuck(b)
    BY <1>1, <2>2, <2>3, <2>7 DEF Poppable, Stuck
  <2> QED  BY <2>8, <2>9, <2>10, <2>11 DEF b
<1> QED  BY <1>1, <1>2, <1>3, <1>4

LEMMA PendingCells ==
  ASSUME NEW a, InForm(a), a.m_is_got_header, NEW w \in Seq(Nat)
  PROVE  /\ Pending(a, w) \in Seq(Nat)
         /\ Len(Pending(a, w)) = 3 + Len(a.m_buffer) + Len(w)
         /\ \A i \in 1..3 : Pending(a, w)[i] = a.m_current_frame[i]
         /\ \A i \in 1..Len(a.m_buffer) : Pending(a, w)[3 + i] = a.m_buffer[i]
         /\ \A i \in 1..Len(w) : Pending(a, w)[3 + Len(a.m_buffer) + i] = w[i]
<1> DEFINE head == SubSeq(a.m_current_frame, 1, 3)
           tail == a.m_buffer \o w
           p == head \o tail
<1>1. /\ a.m_buffer \in Seq(Nat) /\ a.m_current_frame \in Seq(Nat)
      /\ Len(a.m_current_frame) >= 3
  BY DEF InForm, HEADER_SIZE
<1>2. Pending(a, w) = p
  BY DEF Pending, HEADER_SIZE
<1>3. /\ head \in Seq(Nat) /\ Len(head) = 3 /\ \A i \in 1..3 : head[i] = a.m_current_frame[i]
  BY <1>1, FirstPart
<1>4. /\ tail \in Seq(Nat) /\ Len(tail) = Len(a.m_buffer) + Len(w)
      /\ \A i \in 1..Len(a.m_buffer) + Len(w) :
           tail[i] = IF i <= Len(a.m_buffer) THEN a.m_buffer[i] ELSE w[i - Len(a.m_buffer)]
  BY <1>1, ConcatProperties
<1> HIDE DEF head, tail
<1>5. /\ p \in Seq(Nat) /\ Len(p) = Len(head) + Len(tail)
      /\ \A i \in 1..Len(head) + Len(tail) : p[i] = IF i <= Len(head) THEN head[i] ELSE tail[i - Len(head)]
  <2>1. head \in Seq(Nat) /\ tail \in Seq(Nat)
    BY <1>3, <1>4
  <2> QED  BY <2>1, ConcatProperties
<1> DEFINE b == Len(a.m_buffer)
           l == Len(w)
<1>6. b \in Nat /\ l \in Nat
  BY <1>1
<1> HIDE DEF p
<1>7. Len(p) = 3 + b + l /\ \A i \in 1..3 + b + l : p[i] = IF i <= 3 THEN head[i] ELSE tail[i - 3]
  BY <1>3, <1>4, <1>5, <1>6
<1>8. ASSUME NEW i \in 1..3 PROVE p[i] = a.m_current_frame[i]
  <2>1. i \in 1..3 + b + l /\ i <= 3
    BY <1>6
  <2> QED  BY <1>3, <1>7, <2>1
<1>9. ASSUME NEW i \in 1..b PROVE p[3 + i] = a.m_buffer[i]
  <2>1. 3 + i \in 1..3 + b + l /\ ~(3 + i <= 3) /\ (3 + i) - 3 = i /\ i \in 1..b + l /\ i <= b
    BY <1>6
  <2> QED  BY <1>4, <1>7, <2>1
<1>10. ASSUME NEW i \in 1..l PROVE p[3 + b + i] = w[i]
  <2>1. /\ 3 + b + i \in 1..3 + b + l /\ ~(3 + b + i <= 3) /\ (3 + b + i) - 3 = b + i
        /\ b + i \in 1..b + l /\ ~(b + i <= b) /\ (b + i) - b = i
    BY <1>6
  <2> QED  BY <1>4, <1>7, <2>1
<1> QED  BY <1>2, <1>5, <1>7, <1>8, <1>9, <1>10

LEMMA BodyTaken ==
  ASSUME HostsTyped, NEW a, InForm(a), Poppable(a), NEW w \in Seq(Nat),
         NEW frames \in Seq(Seq(Nat)), \A i \in 1..Len(frames) : Whole(frames[i]),
         NEW k \in 0..Len(frames), Framed(Pending(a, w), frames, k)
  PROVE  /\ k < Len(frames) /\ GetBody(a).m_current_frame = frames[k + 1]
         /\ InForm(GetBody(a)) /\ Framed(Pending(GetBody(a), w), frames, k + 1)
<1> DEFINE p == Pending(a, w)
           buffer == a.m_buffer
           m == a.m_current_header.message_length
           f == frames[k + 1]
           t == Take(a, m)
           b == GetBody(a)
           rest == SubSeq(buffer, m + 1, Len(buffer))
<1>1. /\ a.m_is_got_header /\ m \in Nat /\ m <= Len(buffer) /\ HEADER_SIZE = 3
      /\ buffer \in Seq(Nat) /\ Len(buffer) \in Nat /\ Len(w) \in Nat
      /\ a.m_current_frame_index = 3 /\ Len(a.m_current_frame) >= 3
      /\ m = SaysLength(a.m_current_frame)
  BY DEF Poppable, InForm, HEADER_SIZE
<1>2. /\ p \in Seq(Nat) /\ Len(p) = 3 + Len(buffer) + Len(w)
      /\ \A i \in 1..3 : p[i] = a.m_current_frame[i]
      /\ \A i \in 1..Len(buffer) : p[3 + i] = buffer[i]
      /\ \A i \in 1..Len(w) : p[3 + Len(buffer) + i] = w[i]
  <2>1. InForm(a) /\ a.m_is_got_header
    BY <1>1
  <2> QED  BY <2>1, PendingCells, Zenon
<1> HIDE DEF p
<1>3. k < Len(frames)
  <2>1. Len(p) # 0
    BY <1>1, <1>2
  <2>2. k # Len(frames)
    BY <1>2, <2>1, FramedNone DEF p
  <2> QED  BY <2>2
<1>4. /\ Len(f) <= Len(p) /\ \A i \in 1..Len(f) : p[i] = f[i]
      /\ Framed(SubSeq(p, Len(f) + 1, Len(p)), frames, k + 1)
  <2>1. k \in 0..Len(frames) - 1
    BY <1>3
  <2> QED  BY <1>2, <2>1, FramedFirst DEF p
<1>5. f \in Seq(Nat) /\ Len(f) = 3 + m
  <2>1. k + 1 \in 1..Len(frames)
    BY <1>3
  <2>2. f \in Seq(Nat) /\ Len(f) >= 3 /\ SaysLength(f) = Len(f) - 3
    BY <1>1, <2>1 DEF Whole
  <2>3. f[1] = a.m_current_frame[1] /\ f[2] = a.m_current_frame[2]
    <3>1. 1 \in 1..Len(f) /\ 2 \in 1..Len(f) /\ 1 \in 1..3 /\ 2 \in 1..3
      BY <2>2
    <3> HIDE DEF f
    <3> QED  BY <1>2, <1>4, <3>1
  <2>4. SaysLength(f) = m
    BY <1>1, <2>3 DEF SaysLength
  <2> HIDE DEF f, m
  <2> QED  BY <1>1, <2>2, <2>4
<1>6. /\ t.m_current_frame \in Seq(Nat) /\ Len(t.m_current_frame) >= 3 + m
      /\ \A i \in 1..m : t.m_current_frame[3 + i] = buffer[i]
      /\ \A i \in 1..3 : t.m_current_frame[i] = a.m_current_frame[i]
      /\ t.m_buffer = rest
      /\ t = [m_buffer |-> t.m_buffer, m_current_frame |-> t.m_current_frame,
              m_current_frame_index |-> t.m_current_frame_index,
              m_current_header |-> t.m_current_header, m_is_got_header |-> t.m_is_got_header]
  <2>1. m \in 0..Len(a.m_buffer)
    BY <1>1
  <2> HIDE DEF m
  <2>2. /\ t.m_current_frame \in Seq(Nat) /\ Len(t.m_current_frame) >= a.m_current_frame_index + m
        /\ \A i \in 1..m : t.m_current_frame[a.m_current_frame_index + i] = buffer[i]
        /\ a.m_current_frame_index <= Len(a.m_current_frame) =>
             \A i \in 1..a.m_current_frame_index : t.m_current_frame[i] = a.m_current_frame[i]
        /\ t.m_buffer = rest
        /\ t = [m_buffer |-> t.m_buffer, m_current_frame |-> t.m_current_frame,
                m_current_frame_index |-> t.m_current_frame_index,
                m_current_header |-> t.m_current_header, m_is_got_header |-> t.m_is_got_header]
    BY <2>1, TakeWrites, Zenon
  <2> HIDE DEF t
  <2> QED  BY <1>1, <2>2
<1>7. SubSeq(t.m_current_frame, 1, 3 + m) = f
  <2> DEFINE frame == t.m_current_frame
             out == SubSeq(frame, 1, 3 + m)
  <2>1. /\ out \in Seq(Nat) /\ Len(out) = 3 + m
        /\ \A i \in 1..3 + m : out[i] = frame[i]
    <3>1. m \in Nat
      BY <1>1
    <3> HIDE DEF t, m
    <3>2. Len(frame) >= 3 + m /\ frame \in Seq(Nat)
      BY <1>6
    <3> HIDE DEF frame
    <3>3. 3 + m \in Nat /\ 3 + m <= Len(frame)
      BY <3>1, <3>2
    <3> QED  BY <3>2, <3>3, FirstPart
  <2> HIDE DEF out, f
  <2>2. ASSUME NEW i \in 1..3 + m PROVE out[i] = f[i]
    <3>1. out[i] = frame[i] /\ f[i] = p[i]
      BY <1>4, <1>5, <2>1
    <3>2. CASE i <= 3
      <4>1. i \in 1..3
        BY <1>1, <3>2
      <4> QED  BY <1>2, <1>6, <3>1, <4>1
    <3>3. CASE i > 3
      <4>1. i - 3 \in 1..m /\ i - 3 \in 1..Len(buffer) /\ 3 + (i - 3) = i
        BY <1>1, <3>3
      <4> HIDE DEF m, buffer
      <4> QED  BY <1>2, <1>6, <3>1, <4>1
    <3> QED  BY <1>1, <3>2, <3>3
  <2>3. out = f
    BY <1>5, <2>1, <2>2, SeqEqual
  <2> QED  BY <2>3 DEF out
<1>8. b = [m_buffer |-> rest, m_current_frame |-> f, m_current_frame_index |-> 0,
           m_current_header |-> t.m_current_header, m_is_got_header |-> FALSE]
  <2>1. b = ClearCurrentFrame([t EXCEPT !.m_current_frame = SubSeq(@, 1, 3 + m)])
    BY <1>1 DEF GetBody
  <2> HIDE DEF t, m, f, rest
  <2>2. [t EXCEPT !.m_current_frame = SubSeq(@, 1, 3 + m)] =
          [m_buffer |-> rest, m_current_frame |-> f,
           m_current_frame_index |-> t.m_current_frame_index,
           m_current_header |-> t.m_current_header, m_is_got_header |-> t.m_is_got_header]
    <3> DEFINE x == t.m_current_frame
               i == t.m_current_frame_index
               h == t.m_current_header
               g == t.m_is_got_header
    <3>1. SubSeq(x, 1, 3 + m) = f
      BY <1>7
    <3>2. t = [m_buffer |-> rest, m_current_frame |-> x, m_current_frame_index |-> i,
               m_current_header |-> h, m_is_got_header |-> g]
      BY <1>6
    <3>3. [t EXCEPT !.m_current_frame = SubSeq(@, 1, 3 + m)] = [t EXCEPT !.m_current_frame = f]
      BY <3>1
    <3> HIDE DEF x, i, h, g
    <3>4. [t EXCEPT !.m_current_frame = f] =
            [m_buffer |-> rest, m_current_frame |-> f,
             m_current_frame_index |-> i, m_current_header |-> h, m_is_got_header |-> g]
      BY <3>2
    <3> QED  BY <3>3, <3>4 DEF x, i, h, g
  <2> QED  BY <2>1, <2>2 DEF ClearCurrentFrame
<1>9. /\ rest \in Seq(Nat) /\ Len(rest) = Len(buffer) - m
      /\ \A i \in 1..Len(buffer) - m : rest[i] = buffer[m + i]
  <2> HIDE DEF m, buffer
  <2> QED  BY <1>1, LastPart
<1>10. InForm(b)
  BY <1>5, <1>8, <1>9 DEF InForm
<1>11. SubSeq(p, Len(f) + 1, Len(p)) = Pending(b, w)
  <2> DEFINE left == SubSeq(p, (3 + m) + 1, Len(p))
             n == Len(buffer)
  <2> HIDE DEF rest, m, buffer, n
  <2>0. n \in Nat /\ m \in Nat /\ m <= n /\ Len(w) \in Nat /\ n = Len(buffer)
    BY <1>1 DEF n
  <2>1. /\ left \in Seq(Nat) /\ Len(left) = (n - m) + Len(w)
        /\ \A i \in 1..(n - m) + Len(w) : left[i] = p[(3 + m) + i]
    <3>1. 3 + m \in Nat /\ 3 + m <= Len(p) /\ Len(p) - (3 + m) = (n - m) + Len(w)
      BY <1>2, <2>0
    <3>2. /\ left \in Seq(Nat) /\ Len(left) = Len(p) - (3 + m)
          /\ \A i \in 1..Len(p) - (3 + m) : left[i] = p[(3 + m) + i]
      BY <1>2, <3>1, LastPart
    <3> HIDE DEF left
    <3> QED  BY <3>1, <3>2
  <2> HIDE DEF left
  <2>2. /\ rest \o w \in Seq(Nat) /\ Len(rest \o w) = (n - m) + Len(w)
        /\ \A i \in 1..(n - m) + Len(w) :
             (rest \o w)[i] = IF i <= n - m THEN rest[i] ELSE w[i - (n - m)]
    <3>1. /\ rest \o w \in Seq(Nat) /\ Len(rest \o w) = Len(rest) + Len(w)
          /\ \A i \in 1..Len(rest) + Len(w) :
               (rest \o w)[i] = IF i <= Len(rest) THEN rest[i] ELSE w[i - Len(rest)]
      BY <1>9, ConcatProperties
    <3> QED  BY <1>9, <2>0, <3>1
  <2>3. ASSUME NEW i \in 1..(n - m) + Len(w) PROVE left[i] = (rest \o w)[i]
    <3>1. CASE i <= n - m
      <4>1. i \in 1..n - m /\ m + i \in 1..n /\ 3 + (m + i) = (3 + m) + i
        BY <2>0, <3>1
      <4>2. p[3 + (m + i)] = buffer[m + i]
        BY <1>2, <2>0, <4>1
      <4>3. rest[i] = buffer[m + i]
        BY <1>9, <2>0, <4>1
      <4>4. left[i] = p[(3 + m) + i] /\ (rest \o w)[i] = rest[i]
        BY <2>1, <2>2, <3>1
      <4> QED  BY <4>1, <4>2, <4>3, <4>4
    <3>2. CASE ~(i <= n - m)
      <4>1. /\ i - (n - m) \in 1..Len(w) /\ 3 + n + (i - (n - m)) = (3 + m) + i
            /\ ~(i <= n - m)
        BY <2>0, <3>2
      <4>2. p[3 + n + (i - (n - m))] = w[i - (n - m)]
        BY <1>2, <2>0, <4>1
      <4>3. left[i] = p[(3 + m) + i] /\ (rest \o w)[i] = w[i - (n - m)]
        BY <2>1, <2>2, <4>1
      <4> QED  BY <4>1, <4>2, <4>3
    <3> QED  BY <3>1, <3>2
  <2>4. left = rest \o w
    BY <2>1, <2>2, <2>3, SeqEqual
  <2>5. Pending(b, w) = <<>> \o (rest \o w)
    BY <1>8 DEF Pending
  <2>6. Pending(b, w) = rest \o w
    BY <2>2, <2>5, ConcatEmptySeq
  <2> QED  BY <1>5, <2>4, <2>6 DEF left
<1>12. b.m_current_frame = f
  BY <1>8
<1>13. Framed(Pending(b, w), frames, k + 1)
  BY <1>4, <1>11
<1> QED  BY <1>3, <1>10, <1>12, <1>13

-----------------------------------------------------------------------------
(* The loop that pops, and the invariant of the connection.                 *)

SentWhole ==
  /\ sent \in Seq(Seq(Nat)) /\ Len(sent) <= MaxFrames
  /\ \A i \in 1..Len(sent) : Whole(sent[i])

PoppedAreSent ==
  /\ popped \in Seq(Seq(Nat)) /\ Len(popped) <= Len(sent)
  /\ \A i \in 1..Len(popped) : popped[i] = sent[i]

\* After i rounds with w still to arrive: i frames more, or all there are.
AfterRounds(s, w, i) ==
  LET k == Len(popped) + Len(s.frames)
  IN  /\ InForm(s.assembler) /\ s.frames \in Seq(Seq(Nat)) /\ k <= Len(sent)
      /\ \A j \in 1..Len(s.frames) : s.frames[j] = sent[Len(popped) + j]
      /\ Framed(Pending(s.assembler, w), sent, k)
      /\ Len(s.frames) >= i \/ Stuck(s.assembler)

LEMMA RoundPops ==
  ASSUME HostsTyped, SentWhole, PoppedAreSent, NEW w \in Seq(Nat), NEW i \in Nat,
         NEW s, AfterRounds(s, w, i)
  PROVE  AfterRounds(PopMore(s), w, i + 1)
<1> DEFINE a == s.assembler
           b == GetHeader(a)
           k == Len(popped) + Len(s.frames)
<1>1. /\ InForm(a) /\ s.frames \in Seq(Seq(Nat)) /\ k \in 0..Len(sent)
      /\ \A j \in 1..Len(s.frames) : s.frames[j] = sent[Len(popped) + j]
      /\ Framed(Pending(a, w), sent, k) /\ (Len(s.frames) >= i \/ Stuck(a))
      /\ sent \in Seq(Seq(Nat)) /\ \A j \in 1..Len(sent) : Whole(sent[j])
      /\ Len(popped) \in Nat /\ Len(s.frames) \in Nat
  BY DEF AfterRounds, SentWhole, PoppedAreSent
<1>2. /\ InForm(b) /\ Pending(b, w) = Pending(a, w)
      /\ ~Poppable(b) => Stuck(b)
      /\ Stuck(a) => b = a /\ ~Poppable(a)
  BY <1>1, HeaderTaken
<1> HIDE DEF a, b
<1>3. CASE ~Poppable(b)
  <2>1. PopMore(s) = [assembler |-> b, frames |-> s.frames \o <<>>]
    BY <1>3 DEF PopMore, PopFrame, a, b
  <2>2. s.frames \o <<>> = s.frames
    BY <1>1, ConcatEmptySeq
  <2>3. PopMore(s).assembler = b /\ PopMore(s).frames = s.frames
    BY <2>1, <2>2
  <2>4. Stuck(b) /\ Framed(Pending(b, w), sent, k)
    BY <1>1, <1>2, <1>3
  <2> QED  BY <1>1, <1>2, <2>3, <2>4 DEF AfterRounds
<1>4. CASE Poppable(b)
  <2> DEFINE c == GetBody(b)
             f == sent[k + 1]
             more == s.frames \o <<f>>
  <2>1. /\ k < Len(sent) /\ c.m_current_frame = f
        /\ InForm(c) /\ Framed(Pending(c, w), sent, k + 1)
    <3>1. Framed(Pending(b, w), sent, k)
      BY <1>1, <1>2
    <3> HIDE DEF k
    <3> QED  BY <1>1, <1>2, <1>4, <3>1, BodyTaken
  <2> HIDE DEF c
  <2>2. PopMore(s) = [assembler |-> c, frames |-> more]
    BY <1>4, <2>1 DEF PopMore, PopFrame, a, b, c
  <2>3. k + 1 \in 1..Len(sent) /\ f \in Seq(Nat) /\ Len(sent) \in Nat
    BY <1>1, <2>1
  <2>4. ~Stuck(a) /\ Len(s.frames) >= i
    BY <1>1, <1>2, <1>4
  <2>5. /\ more \in Seq(Seq(Nat)) /\ Len(more) = Len(s.frames) + 1
        /\ more[Len(s.frames) + 1] = f
        /\ \A j \in 1..Len(s.frames) : more[j] = s.frames[j]
    <3> DEFINE l == Len(s.frames)
    <3>1. <<f>> \in Seq(Seq(Nat)) /\ Len(<<f>>) = 1 /\ <<f>>[1] = f
      BY <2>3
    <3>2. /\ more \in Seq(Seq(Nat)) /\ Len(more) = l + Len(<<f>>)
          /\ \A j \in 1..l + Len(<<f>>) : more[j] = IF j <= l THEN s.frames[j] ELSE <<f>>[j - l]
      BY <1>1, <3>1, ConcatProperties
    <3>3. l \in Nat
      BY <1>1
    <3> HIDE DEF l, more, f
    <3>4. Len(more) = l + 1 /\ more \in Seq(Seq(Nat))
      BY <3>1, <3>2
    <3>5. more[l + 1] = f
      <4>1. l + 1 \in 1..l + 1 /\ ~(l + 1 <= l) /\ (l + 1) - l = 1
        BY <3>3
      <4> QED  BY <3>1, <3>2, <4>1
    <3>6. \A j \in 1..l : j \in 1..l + 1 /\ j <= l
      BY <3>3
    <3>7. \A j \in 1..l : more[j] = s.frames[j]
      BY <3>1, <3>2, <3>6
    <3> QED  BY <3>4, <3>5, <3>7 DEF l
  <2> HIDE DEF more
  <2>6. PopMore(s).assembler = c /\ PopMore(s).frames = more
    BY <2>2
  <2>7. Len(popped) + Len(more) = k + 1 /\ k + 1 <= Len(sent) /\ Len(more) >= i + 1
    BY <1>1, <2>1, <2>4, <2>5
  <2>8. ASSUME NEW j \in 1..Len(more) PROVE more[j] = sent[Len(popped) + j]
    <3>1. CASE j \in 1..Len(s.frames)
      BY <1>1, <2>5, <3>1
    <3>2. CASE j = Len(s.frames) + 1
      <4>1. Len(popped) + j = k + 1
        BY <1>1, <3>2
      <4> QED  BY <2>5, <3>2, <4>1
    <3> QED  BY <1>1, <2>5, <3>1, <3>2
  <2> HIDE DEF f, k
  <2> QED  BY <2>1, <2>5, <2>6, <2>7, <2>8 DEF AfterRounds
<1> QED  BY <1>3, <1>4

\* A loop of n rounds is defined.
LEMMA RoundsDefined ==
  ASSUME NEW start, NEW n \in Nat
  PROVE  \E g : g = [i \in 0..n |-> IF i = 0 THEN start ELSE PopMore(g[i - 1])]
<1> DEFINE Defined(j) == \E g : g = [i \in 0..j |-> IF i = 0 THEN start ELSE PopMore(g[i - 1])]
           T == {j \in Nat : ~Defined(j)}
<1> HIDE DEF Defined
<1>1. SUFFICES ASSUME T # {} PROVE FALSE
  BY DEF Defined
<1>2. PICK m \in T : \A j \in T : m <= j
  <2>1. T \in SUBSET Nat
    OBVIOUS
  <2> HIDE DEF T
  <2> QED  BY <1>1, <2>1, LeastElement
<1>3. CASE m = 0
  <2> DEFINE g == [i \in 0..0 |-> start]
  <2>1. g = [i \in 0..0 |-> IF i = 0 THEN start ELSE PopMore(g[i - 1])]
    <3> HIDE DEF g
    <3>1. \A i \in 0..0 : i = 0
      OBVIOUS
    <3>2. [i \in 0..0 |-> start] = [i \in 0..0 |-> IF i = 0 THEN start ELSE PopMore(g[i - 1])]
      BY <3>1
    <3> QED  BY <3>2 DEF g
  <2>2. Defined(0)
    <3> HIDE DEF g
    <3> QED  BY <2>1 DEF Defined
  <2> QED  BY <1>2, <1>3, <2>2
<1>4. CASE m > 0
  <2>1. m \in Nat /\ m - 1 \in Nat /\ ~(m <= m - 1)
    BY <1>2, <1>4
  <2>2. m - 1 \notin T
    BY <1>2, <2>1
  <2>3. Defined(m - 1)
    BY <2>1, <2>2
  <2>4. PICK g : g = [i \in 0..m - 1 |-> IF i = 0 THEN start ELSE PopMore(g[i - 1])]
    BY <2>3 DEF Defined
  <2> DEFINE h == [i \in 0..m |-> IF i = m THEN PopMore(g[m - 1]) ELSE g[i]]
  <2>5. \A i \in 0..m : h[i] = IF i = 0 THEN start ELSE PopMore(h[i - 1])
    <3> SUFFICES ASSUME NEW i \in 0..m
                 PROVE  h[i] = IF i = 0 THEN start ELSE PopMore(h[i - 1])
      OBVIOUS
    <3>1. \A j \in 0..m - 1 : h[j] = g[j] /\ h[j] = IF j = 0 THEN start ELSE PopMore(g[j - 1])
      <4>1. \A j \in 0..m - 1 : j \in 0..m /\ j # m
        BY <2>1
      <4>2. \A j \in 0..m - 1 : h[j] = g[j]
        BY <4>1
      <4> HIDE DEF h
      <4> QED  BY <2>4, <4>2
    <3>2. h[m] = PopMore(g[m - 1]) /\ m - 1 \in 0..m - 1
      BY <2>1
    <3> HIDE DEF h
    <3>3. CASE i = m
      <4>1. ~(i = 0)
        BY <2>1, <1>4, <3>3
      <4>2. h[i - 1] = g[m - 1]
        BY <3>1, <3>2, <3>3
      <4> QED  BY <3>2, <3>3, <4>1, <4>2
    <3>4. CASE i = 0
      <4>1. i \in 0..m - 1
        BY <2>1, <3>4
      <4> QED  BY <3>1, <3>4, <4>1
    <3>5. CASE ~(i = m) /\ ~(i = 0)
      <4>1. i \in 0..m - 1 /\ i - 1 \in 0..m - 1
        BY <2>1, <3>5
      <4> QED  BY <3>1, <3>5, <4>1
    <3> QED  BY <3>3, <3>4, <3>5
  <2>6. h = [i \in 0..m |-> h[i]]
    OBVIOUS
  <2> HIDE DEF h
  <2>7. h = [i \in 0..m |-> IF i = 0 THEN start ELSE PopMore(h[i - 1])]
    BY <2>5, <2>6
  <2>8. Defined(m)
    BY <2>7 DEF Defined
  <2> QED  BY <1>2, <2>8
<1> QED  BY <1>2, <1>3, <1>4

\* All there is to pop is popped.
LEMMA PopsAll ==
  ASSUME HostsTyped, SentWhole, PoppedAreSent, MaxFrames \in Nat, NEW w \in Seq(Nat),
         NEW a, InForm(a), Framed(Pending(a, w), sent, Len(popped))
  PROVE  AfterRounds(PopFrames(a), w, MaxFrames + 1)
<1> DEFINE start == [assembler |-> a, frames |-> <<>>]
           n == MaxFrames + 1
           After == CHOOSE g : g = [i \in 0..n |-> IF i = 0 THEN start ELSE PopMore(g[i - 1])]
<1>1. n \in Nat
  OBVIOUS
<1>2. PopFrames(a) = After[n]
  BY DEF PopFrames
<1>3. After = [i \in 0..n |-> IF i = 0 THEN start ELSE PopMore(After[i - 1])]
  <2> HIDE DEF n, start
  <2>1. \E g : g = [i \in 0..n |-> IF i = 0 THEN start ELSE PopMore(g[i - 1])]
    BY <1>1, RoundsDefined
  <2> QED  BY <2>1
<1> HIDE DEF After
<1>4. AfterRounds(start, w, 0)
  <2>1. start.assembler = a /\ start.frames = <<>> /\ <<>> \in Seq(Seq(Nat)) /\ Len(<<>>) = 0
    OBVIOUS
  <2>2. Len(popped) \in Nat /\ Len(popped) + 0 = Len(popped) /\ Len(popped) <= Len(sent)
    BY DEF PoppedAreSent
  <2> HIDE DEF start
  <2> QED  BY <2>1, <2>2 DEF AfterRounds
<1> DEFINE T == {i \in 0..n : ~AfterRounds(After[i], w, i)}
<1> HIDE DEF start, n
<1>5. T = {}
  <2>1. SUFFICES ASSUME T # {} PROVE FALSE
    OBVIOUS
  <2>2. PICK m \in T : \A j \in T : m <= j
    <3>1. T \in SUBSET Nat
      OBVIOUS
    <3> HIDE DEF T
    <3> QED  BY <2>1, <3>1, LeastElement
  <2>3. CASE m = 0
    <3>1. After[0] = start
      BY <1>1, <1>3, 0 \in 0..n
    <3> QED  BY <1>4, <2>2, <2>3, <3>1
  <2>4. CASE m # 0
    <3>1. m \in 0..n /\ m - 1 \in 0..n /\ m - 1 \in Nat /\ ~(m <= m - 1) /\ (m - 1) + 1 = m
      BY <1>1, <2>2, <2>4
    <3>2. AfterRounds(After[m - 1], w, m - 1)
      BY <2>2, <3>1
    <3>3. After[m] = PopMore(After[m - 1])
      BY <1>3, <2>4, <3>1
    <3>4. AfterRounds(PopMore(After[m - 1]), w, (m - 1) + 1)
      BY <3>1, <3>2, RoundPops
    <3> QED  BY <2>2, <3>1, <3>3, <3>4
  <2> QED  BY <2>3, <2>4
<1>6. AfterRounds(After[n], w, n)
  BY <1>1, <1>5
<1> QED  BY <1>2, <1>6 DEF n

\* Nothing of the stream is lost or doubled, and whatever has come is popped as far as it goes.
FrameInv ==
  /\ HostsTyped /\ SentWhole /\ PoppedAreSent
  /\ wire \in Seq(Nat) /\ InForm(assembler) /\ Stuck(assembler)
  /\ Framed(Pending(assembler, wire), sent, Len(popped))

LEMMA FrameInitInv ==
  ASSUME FrameAssumption, FrameInit
  PROVE  FrameInv
<1>1. /\ HostsTyped /\ sent = <<>> /\ popped = <<>> /\ wire = <<>> /\ assembler = Assembler
  BY DEF FrameInit, HostsTyped
<1>2. /\ Assembler.m_buffer = <<>> /\ Assembler.m_current_frame = <<>>
      /\ Assembler.m_current_frame_index = 0 /\ Assembler.m_is_got_header = FALSE
  BY DEF Assembler
<1>3. <<>> \in Seq(Nat) /\ <<>> \in Seq(Seq(Nat)) /\ Len(<<>>) = 0 /\ <<>> \o <<>> = <<>>
  OBVIOUS
<1>4. SentWhole /\ PoppedAreSent
  BY <1>1, <1>3 DEF SentWhole, PoppedAreSent, FrameAssumption
<1>5. InForm(assembler)
  BY <1>1, <1>2, <1>3 DEF InForm, Assembler
<1>6. Stuck(assembler)
  BY <1>1, <1>2, <1>3 DEF Stuck, HEADER_SIZE
<1>7. Pending(assembler, wire) = <<>>
  BY <1>1, <1>2, <1>3 DEF Pending
<1>8. Framed(<<>>, <<>>, 0)
  <2> DEFINE end == [j \in 0..0 |-> 0]
  <2>1. end \in [0..0 -> Nat] /\ end[0] = 0 /\ \A j \in 0..0 : j = 0
    OBVIOUS
  <2> HIDE DEF end
  <2>2. \A j \in 0 + 1..0 : FALSE
    OBVIOUS
  <2> QED  BY <1>3, <2>1, <2>2 DEF Framed
<1> QED  BY <1>1, <1>3, <1>4, <1>5, <1>6, <1>7, <1>8 DEF FrameInv

\* What is sent lengthens what is pending; what arrives only moves within it.
LEMMA PendingSent ==
  ASSUME NEW a, InForm(a), NEW w \in Seq(Nat), NEW f \in Seq(Nat)
  PROVE  Pending(a, w \o f) = Pending(a, w) \o f /\ Pending(a, w) \in Seq(Nat)
<1> DEFINE head == IF a.m_is_got_header THEN SubSeq(a.m_current_frame, 1, HEADER_SIZE) ELSE <<>>
           buffer == a.m_buffer
<1>1. buffer \in Seq(Nat)
  BY DEF InForm
<1>2. head \in Seq(Nat)
  <2>1. CASE a.m_is_got_header
    <3>1. a.m_current_frame \in Seq(Nat) /\ 3 <= Len(a.m_current_frame)
      BY <2>1 DEF InForm, HEADER_SIZE
    <3>2. SubSeq(a.m_current_frame, 1, 3) \in Seq(Nat)
      BY <3>1, FirstPart
    <3> QED  BY <2>1, <3>2 DEF HEADER_SIZE
  <2>2. CASE ~a.m_is_got_header
    BY <2>2
  <2> QED  BY <2>1, <2>2
<1>3. Pending(a, w) = head \o (buffer \o w) /\ Pending(a, w \o f) = head \o (buffer \o (w \o f))
  BY DEF Pending
<1> HIDE DEF head, buffer
<1>4. buffer \o w \in Seq(Nat) /\ head \o (buffer \o w) \in Seq(Nat)
  BY <1>1, <1>2, ConcatProperties
<1>5. buffer \o (w \o f) = (buffer \o w) \o f
  BY <1>1, ConcatAssociative
<1>6. head \o ((buffer \o w) \o f) = (head \o (buffer \o w)) \o f
  <2> DEFINE tail == buffer \o w
  <2>1. head \in Seq(Nat) /\ tail \in Seq(Nat) /\ f \in Seq(Nat)
    BY <1>2, <1>4
  <2> HIDE DEF tail
  <2>2. (head \o tail) \o f = head \o (tail \o f)
    BY <2>1, ConcatAssociative
  <2> QED  BY <2>2 DEF tail
<1> QED  BY <1>3, <1>4, <1>5, <1>6

LEMMA Regroup ==
  ASSUME NEW s \in Seq(Nat), NEW t \in Seq(Nat), NEW u \in Seq(Nat)
  PROVE  (s \o t) \o u = s \o (t \o u)
BY ConcatAssociative

LEMMA PendingArrives ==
  ASSUME NEW a, InForm(a), NEW w \in Seq(Nat), NEW n \in 1..Len(w)
  PROVE  LET b == PushData(a, SubSeq(w, 1, n))
         IN  InForm(b) /\ Pending(b, SubSeq(w, n + 1, Len(w))) = Pending(a, w)
<1> DEFINE first == SubSeq(w, 1, n)
           rest == SubSeq(w, n + 1, Len(w))
           b == PushData(a, first)
           buffer == a.m_buffer
<1>1. buffer \in Seq(Nat) /\ n \in 0..Len(w) /\ n \in Nat /\ n <= Len(w)
  BY DEF InForm
<1>2. first \in Seq(Nat) /\ rest \in Seq(Nat) /\ first \o rest = w
  BY <1>1, FirstPart, LastPart, Cut
<1> HIDE DEF first, rest
<1> DEFINE more == buffer \o first
<1>3. more \in Seq(Nat)
  BY <1>1, <1>2, ConcatProperties
<1>4. more \o rest = buffer \o w
  <2>1. buffer \in Seq(Nat) /\ first \in Seq(Nat) /\ rest \in Seq(Nat)
    BY <1>1, <1>2
  <2>2. (buffer \o first) \o rest = buffer \o (first \o rest)
    BY <2>1, Regroup
  <2> QED  BY <1>2, <2>2
<1>5. b = [a EXCEPT !.m_buffer = more]
  BY DEF PushData
<1> HIDE DEF more, b
<1>6. /\ b = [m_buffer |-> more, m_current_frame |-> a.m_current_frame,
              m_current_frame_index |-> a.m_current_frame_index,
              m_current_header |-> a.m_current_header, m_is_got_header |-> a.m_is_got_header]
  BY <1>5 DEF InForm
<1>7. InForm(b)
  BY <1>3, <1>6 DEF InForm
<1>8. Pending(b, rest) = Pending(a, w)
  BY <1>4, <1>6 DEF Pending
<1> QED  BY <1>7, <1>8 DEF b, first, rest

LEMMA SendKeeps ==
  ASSUME FrameAssumption, FrameInv, NEW length \in 0..MaxBody, SendFrame(length)
  PROVE  FrameInv'
<1> DEFINE f == FrameOf(Len(sent) + 1, length)
<1>1. /\ HostsTyped /\ SentWhole /\ PoppedAreSent /\ InForm(assembler) /\ Stuck(assembler)
      /\ wire \in Seq(Nat) /\ Framed(Pending(assembler, wire), sent, Len(popped))
      /\ sent \in Seq(Seq(Nat)) /\ Len(sent) \in Nat /\ length \in Nat
  BY DEF FrameInv, SentWhole, FrameAssumption
<1>2. Whole(f)
  BY <1>1, FramesAreWhole
<1>3. /\ Len(sent) < MaxFrames /\ sent' = Append(sent, f) /\ wire' = wire \o f
      /\ hosts' = hosts /\ assembler' = assembler /\ popped' = popped
  BY DEF SendFrame
<1> HIDE DEF f
<1>4. f \in Seq(Nat)
  BY <1>2 DEF Whole
<1>5. /\ sent' \in Seq(Seq(Nat)) /\ Len(sent') = Len(sent) + 1 /\ sent'[Len(sent) + 1] = f
      /\ \A i \in 1..Len(sent) : sent'[i] = sent[i]
  BY <1>1, <1>3, <1>4
<1>6. SentWhole'
  <2>1. \A i \in 1..Len(sent) : Whole(sent[i])
    BY <1>1 DEF SentWhole
  <2>2. ASSUME NEW i \in 1..Len(sent') PROVE Whole(sent'[i])
    <3>1. i \in 1..Len(sent) \/ i = Len(sent) + 1
      BY <1>1, <1>5
    <3> QED  BY <1>2, <1>5, <2>1, <3>1
  <2>3. Len(sent') <= MaxFrames
    BY <1>1, <1>3, <1>5 DEF FrameAssumption
  <2> QED  BY <1>5, <2>2, <2>3 DEF SentWhole
<1>7. PoppedAreSent'
  <2>1. popped \in Seq(Seq(Nat)) /\ Len(popped) <= Len(sent) /\ Len(popped) \in Nat
    BY <1>1 DEF PoppedAreSent
  <2>2. \A i \in 1..Len(popped) : i \in 1..Len(sent)
    BY <1>1, <2>1
  <2>3. \A i \in 1..Len(popped) : popped[i] = sent'[i]
    BY <1>1, <1>5, <2>2 DEF PoppedAreSent
  <2>4. Len(popped) <= Len(sent')
    BY <1>1, <1>5, <2>1
  <2> QED  BY <1>3, <2>1, <2>3, <2>4 DEF PoppedAreSent
<1>8. wire' \in Seq(Nat)
  BY <1>1, <1>3, <1>4, ConcatProperties
<1>9. Framed(Pending(assembler, wire), sent, Len(popped))'
  <2>1. Pending(assembler, wire \o f) = Pending(assembler, wire) \o f
    BY <1>1, <1>4, PendingSent
  <2>2. Pending(assembler, wire) \in Seq(Nat)
    BY <1>1, <1>4, PendingSent
  <2>3. Len(popped) \in 0..Len(sent)
    BY <1>1 DEF PoppedAreSent
  <2>4. Framed(Pending(assembler, wire) \o f, Append(sent, f), Len(popped))
    BY <1>1, <1>4, <2>2, <2>3, FramedSend
  <2>5. Framed(Pending(assembler, wire)', sent', Len(popped)')
    BY <1>3, <2>1, <2>4 DEF Pending
  <2> QED  BY <2>5 DEF Framed
<1>10. HostsTyped' /\ InForm(assembler)' /\ Stuck(assembler)'
  BY <1>1, <1>3 DEF HostsTyped, InForm, Stuck
<1> QED  BY <1>6, <1>7, <1>8, <1>9, <1>10 DEF FrameInv

LEMMA ReceiveKeeps ==
  ASSUME FrameAssumption, FrameInv, NEW n, ReceiveCells(n)
  PROVE  FrameInv'
<1> DEFINE b == PushData(assembler, SubSeq(wire, 1, n))
           rest == SubSeq(wire, n + 1, Len(wire))
           all == PopFrames(b)
<1>1. /\ HostsTyped /\ SentWhole /\ PoppedAreSent /\ InForm(assembler)
      /\ wire \in Seq(Nat) /\ Framed(Pending(assembler, wire), sent, Len(popped))
      /\ MaxFrames \in Nat
  BY DEF FrameInv, FrameAssumption
<1>2. /\ n \in 1..Len(wire) /\ wire' = rest /\ assembler' = all.assembler
      /\ popped' = popped \o all.frames /\ hosts' = hosts /\ sent' = sent
  BY DEF ReceiveCells
<1>3. InForm(b) /\ Pending(b, rest) = Pending(assembler, wire)
  BY <1>1, <1>2, PendingArrives
<1>4. rest \in Seq(Nat)
  <2>1. n \in Nat /\ n <= Len(wire)
    BY <1>1, <1>2
  <2> QED  BY <1>1, <2>1, LastPart
<1> HIDE DEF b, rest
<1>5. AfterRounds(all, rest, MaxFrames + 1)
  <2>1. Framed(Pending(b, rest), sent, Len(popped))
    BY <1>1, <1>3
  <2> QED  BY <1>1, <1>3, <1>4, <2>1, PopsAll
<1> HIDE DEF all
<1> DEFINE l == Len(popped)
           k == Len(popped) + Len(all.frames)
<1>6. /\ InForm(all.assembler) /\ all.frames \in Seq(Seq(Nat)) /\ k <= Len(sent)
      /\ \A j \in 1..Len(all.frames) : all.frames[j] = sent[l + j]
      /\ Framed(Pending(all.assembler, rest), sent, k)
      /\ Len(all.frames) >= MaxFrames + 1 \/ Stuck(all.assembler)
  BY <1>5 DEF AfterRounds
<1>7. /\ popped \in Seq(Seq(Nat)) /\ l \in Nat /\ Len(all.frames) \in Nat /\ l <= Len(sent)
      /\ \A i \in 1..l : popped[i] = sent[i]
      /\ Len(sent) \in Nat /\ Len(sent) <= MaxFrames
  BY <1>1, <1>6 DEF PoppedAreSent, SentWhole
<1>8. Stuck(all.assembler)
  BY <1>1, <1>6, <1>7
<1>9. /\ popped' \in Seq(Seq(Nat)) /\ Len(popped') = k
      /\ \A i \in 1..k : popped'[i] = IF i <= l THEN popped[i] ELSE all.frames[i - l]
  BY <1>2, <1>6, <1>7, ConcatProperties
<1>10. ASSUME NEW i \in 1..k PROVE popped'[i] = sent[i]
  <2>1. CASE i <= l
    <3>1. i \in 1..l
      BY <1>7, <2>1
    <3> QED  BY <1>7, <1>9, <2>1, <3>1
  <2>2. CASE ~(i <= l)
    <3>1. i - l \in 1..Len(all.frames) /\ l + (i - l) = i
      BY <1>7, <2>2
    <3> QED  BY <1>6, <1>9, <2>2, <3>1
  <2> QED  BY <2>1, <2>2
<1>11. PoppedAreSent'
  BY <1>2, <1>6, <1>9, <1>10 DEF PoppedAreSent
<1>12. HostsTyped' /\ SentWhole' /\ wire' \in Seq(Nat)
  BY <1>1, <1>2, <1>4 DEF HostsTyped, SentWhole
<1>13. InForm(assembler)' /\ Stuck(assembler)'
  BY <1>2, <1>6, <1>8 DEF InForm, Stuck
<1>14. Framed(Pending(assembler, wire), sent, Len(popped))'
  <2>1. Framed(Pending(assembler, wire)', sent', Len(popped)')
    BY <1>2, <1>6, <1>9 DEF Pending
  <2> QED  BY <2>1 DEF Framed
<1> QED  BY <1>11, <1>12, <1>13, <1>14 DEF FrameInv

LEMMA FramesWhole ==
  ASSUME FrameInv
  PROVE  FramesArriveWhole
<1>1. /\ PoppedAreSent /\ SentWhole /\ wire \in Seq(Nat) /\ InForm(assembler) /\ Stuck(assembler)
      /\ Framed(Pending(assembler, wire), sent, Len(popped))
  BY DEF FrameInv
<1> DEFINE l == Len(popped)
<1>2. /\ popped \in Seq(Seq(Nat)) /\ sent \in Seq(Seq(Nat)) /\ l \in Nat /\ l <= Len(sent)
      /\ Len(sent) \in Nat
      /\ \A i \in 1..l : popped[i] = sent[i]
  BY <1>1 DEF PoppedAreSent, SentWhole
<1>3. popped = SubSeq(sent, 1, l)
  <2> DEFINE t == SubSeq(sent, 1, l)
  <2>1. t \in Seq(Seq(Nat)) /\ Len(t) = l /\ \A i \in 1..l : t[i] = sent[i]
    BY <1>2, FirstPart
  <2> HIDE DEF t
  <2>2. \A i \in 1..l : popped[i] = t[i]
    BY <1>2, <2>1
  <2> QED  BY <1>2, <2>1, <2>2, SeqEqual
<1>4. ASSUME wire = <<>>, l # Len(sent)
      PROVE  FALSE
  <2> DEFINE p == Pending(assembler, wire)
             f == sent[l + 1]
             buffer == assembler.m_buffer
  <2>1. buffer \in Seq(Nat) /\ buffer \o <<>> = buffer
    BY <1>1, ConcatEmptySeq DEF InForm
  <2>2. p \in Seq(Nat)
    BY <1>1, PendingSent, <<>> \in Seq(Nat)
  <2>3. /\ Len(f) <= Len(p) /\ \A i \in 1..Len(f) : p[i] = f[i]
    <3>1. l \in 0..Len(sent) - 1
      BY <1>2, <1>4
    <3> QED  BY <1>1, <1>2, <2>2, <3>1, FramedFirst
  <2>4. f \in Seq(Nat) /\ Len(f) >= 3 /\ SaysLength(f) = Len(f) - 3
    <3>1. l + 1 \in 1..Len(sent)
      BY <1>2, <1>4
    <3>2. Whole(f)
      BY <1>1, <3>1 DEF SentWhole
    <3> QED  BY <3>2 DEF Whole, HEADER_SIZE
  <2>5. CASE ~assembler.m_is_got_header
    <3>1. p = buffer
      BY <1>4, <2>1, <2>5, ConcatEmptySeq DEF Pending
    <3>2. Len(buffer) < 3
      BY <1>1, <2>5 DEF Stuck, HEADER_SIZE
    <3> QED  BY <2>1, <2>3, <2>4, <3>1, <3>2
  <2>6. CASE assembler.m_is_got_header
    <3>1. /\ Len(p) = 3 + Len(buffer) + Len(wire)
          /\ \A i \in 1..3 : p[i] = assembler.m_current_frame[i]
      BY <1>1, <2>6, PendingCells
    <3>2. Len(wire) = 0
      BY <1>4
    <3>3. f[1] = assembler.m_current_frame[1] /\ f[2] = assembler.m_current_frame[2]
      <4>1. 1 \in 1..Len(f) /\ 2 \in 1..Len(f) /\ 1 \in 1..3 /\ 2 \in 1..3
        BY <2>4
      <4> HIDE DEF f, p
      <4> QED  BY <2>3, <3>1, <4>1
    <3>4. Len(buffer) < SaysLength(f)
      BY <1>1, <2>6, <3>3 DEF Stuck, InForm, SaysLength
    <3> HIDE DEF f, p, buffer
    <3> QED  BY <2>1, <2>3, <2>4, <3>1, <3>2, <3>4
  <2> QED  BY <2>5, <2>6
<1> QED  BY <1>2, <1>3, <1>4 DEF FramesArriveWhole

\* However the stream of any number of frames of any lengths is cut, and whatever the byte
\* orders of the two hosts, what is popped is what was sent, whole and in order, and nothing
\* that has arrived is held back (FrameAssembler::pop_frame and its owners' loops).
THEOREM FramesComeWhole == FrameSpec => []FramesArriveWhole
<1>1. FrameAssumption
  BY FrameAssumption
<1>2. FrameInit => FrameInv
  BY <1>1, FrameInitInv
<1>3. FrameInv /\ [FrameNext]_frameVars => FrameInv'
  <2> SUFFICES ASSUME FrameInv, [FrameNext]_frameVars PROVE FrameInv'
    OBVIOUS
  <2>1. CASE \E length \in 0..MaxBody : SendFrame(length)
    BY <1>1, <2>1, SendKeeps
  <2>2. CASE \E n \in 1..MaxFrames * (HEADER_SIZE + MaxBody) : ReceiveCells(n)
    BY <1>1, <2>2, ReceiveKeeps
  <2>3. CASE UNCHANGED frameVars
    <3>1. /\ hosts' = hosts /\ sent' = sent /\ wire' = wire
          /\ assembler' = assembler /\ popped' = popped
      BY <2>3 DEF frameVars
    <3>2. HostsTyped' /\ SentWhole' /\ PoppedAreSent' /\ wire' \in Seq(Nat)
      BY <3>1 DEF FrameInv, HostsTyped, SentWhole, PoppedAreSent
    <3>3. InForm(assembler)' /\ Stuck(assembler)'
      BY <3>1 DEF FrameInv, InForm, Stuck
    <3>4. Framed(Pending(assembler, wire)', sent', Len(popped)')
      BY <3>1 DEF FrameInv, Pending
    <3>5. Framed(Pending(assembler, wire), sent, Len(popped))'
      BY <3>4 DEF Framed
    <3> QED  BY <3>2, <3>3, <3>5 DEF FrameInv
  <2> QED  BY <2>1, <2>2, <2>3 DEF FrameNext
<1>4. FrameInv => FramesArriveWhole
  BY FramesWhole
<1> QED  BY <1>2, <1>3, <1>4, PTL DEF FrameSpec
=============================================================================
