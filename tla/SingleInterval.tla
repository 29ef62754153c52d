---------------------------- MODULE SingleInterval ----------------------------
(***************************************************************************)
(* An interval: SingleInterval<T>, a Left and a Right bound, with the set  *)
(* operations RangeCondition is made of.                                   *)
(***************************************************************************)
EXTENDS EndpointRange

Interval(left, right) == [left |-> left, right |-> right]

\* SingleInterval(left, right): finite bounds given the wrong way round are exchanged,
\* each keeping its own openness.
Between(left, right) ==
  LET swap == left.limited /\ right.limited /\ left.value > right.value
      l == IF swap THEN right ELSE left
      r == IF swap THEN left ELSE right
  IN  Interval([l EXCEPT !.side = "Left"], [r EXCEPT !.side = "Right"])

\* SingleInterval(endpoint), SingleInterval(value) and SingleInterval().
OneSided(e) == IF e.side = "Left" THEN Interval(e, Unlimited("Right"))
                                  ELSE Interval(Unlimited("Left"), e)
Point(v) == Interval(Limited(v, FALSE, "Left"), Limited(v, FALSE, "Right"))
Nothing  == Interval(Limited(0, TRUE, "Left"), Limited(0, TRUE, "Right"))

\* init_state: Empty, of Whole, FixedRight, FixedLeft, Empty and FixedBoth.
IsEmpty(i) ==
  /\ i.left.limited /\ i.right.limited /\ i.left.value = i.right.value
  /\ i.left.open /\ i.right.open

\* operator<: by the left bounds, then by the right ones.
Precedes(i, j) ==
  \/ Before(i.left, j.left)
  \/ ~Before(j.left, i.left) /\ Before(i.right, j.right)

\* is_in_range of a value, and of another interval.
Holds(i, v) == Admits(i.left, v) /\ Admits(i.right, v)
Covers(i, j) == BeforeOrAt(i.left, j.left) /\ BeforeOrAt(j.right, i.right)

IsAdjacent(i, j) == Adjacent(i.left) = j.right \/ Adjacent(i.right) = j.left

\* Bounds that pass each other; at one value they still meet unless both are open.
Apart(left, right) ==
  /\ Before(right, left)
  /\ \/ left.limited # right.limited \/ left.value # right.value
     \/ left.open /\ right.open

IsDisjoint(i, j) ==
  /\ ~IsAdjacent(i, j)
  /\ IF Before(j.right, i.left) THEN Apart(i.left, j.right) ELSE Apart(j.left, i.right)

IsIntersect(i, j) == ~IsDisjoint(i, j) /\ ~IsAdjacent(i, j)
CanMerge(i, j)    == ~IsDisjoint(i, j)

Later(a, b)   == IF BeforeOrAt(a, b) THEN b ELSE a
Earlier(a, b) == IF BeforeOrAt(a, b) THEN a ELSE b

\* try_get_intersect and try_get_union, where IsIntersect and CanMerge allow them.
IntersectionWith(i, j) == Between(Later(i.left, j.left), Earlier(i.right, j.right))
UnionWith(i, j)        == Between(Earlier(i.left, j.left), Later(i.right, j.right))

\* get_integer_interval
IntegerInterval(i) == Between(IntegerEndpoint(i.left), IntegerEndpoint(i.right))

\* get_difference: what of i lies outside j, at most two intervals.
Difference(i, j) ==
  LET cut == IntersectionWith(i, j)
      lower == Between(i.left, Adjacent(cut.left))
      upper == Between(Adjacent(cut.right), i.right)
  IN  IF ~IsIntersect(i, j) THEN {i}
      ELSE IF Covers(j, i) THEN {Nothing}
      ELSE IF Before(i.left, cut.left) /\ Before(cut.right, i.right) THEN {lower, upper}
      ELSE IF cut.left = i.left THEN {upper}
      ELSE IF cut.right = i.right THEN {lower}
      ELSE {}
=============================================================================
