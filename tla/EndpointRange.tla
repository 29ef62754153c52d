----------------------------- MODULE EndpointRange -----------------------------
(***************************************************************************)
(* One bound of a range: EndpointRange<T> over the integers.  A bound      *)
(* either has a value or is infinite; a Left bound admits what lies above  *)
(* it, a Right bound what lies below it.  Bounds are ordered along the     *)
(* axis, and that order is the comparator of the std::set that holds a     *)
(* RangeCondition's intervals.                                             *)
(***************************************************************************)
EXTENDS Integers

Sides == {"Left", "Right"}

Endpoints == [limited : BOOLEAN, value : Int, open : BOOLEAN, side : Sides]

\* EndpointRange(value, is_open, side) and, without a value, EndpointRange(side): an
\* infinite bound is open whatever was asked for.
Limited(v, open, side) == [limited |-> TRUE, value |-> v, open |-> open, side |-> side]
Unlimited(side)        == [limited |-> FALSE, value |-> 0, open |-> TRUE, side |-> side]

\* What the constructors can build.
Wellformed(e) == e \in Endpoints /\ (~e.limited => e.open /\ e.value = 0)

\* operator<.  At one value: x < v, x <= v, x >= v, x > v.
Before(a, b) ==
  /\ a # b
  /\ IF a.limited /\ b.limited
     THEN \/ a.value < b.value
          \/ /\ a.value = b.value
             /\ IF a.side = b.side THEN a.open = (a.side = "Right") ELSE a.side = "Right"
     ELSE IF a.side # b.side THEN a.side = "Left"
     ELSE IF a.limited # b.limited THEN b.limited = (a.side = "Left")
     ELSE FALSE

\* operator<=; > and >= are these with the operands exchanged.
BeforeOrAt(a, b) == Before(a, b) \/ a = b

\* is_in_range(value)
Admits(e, v) ==
  \/ ~e.limited
  \/ e.side = "Right" /\ v < e.value
  \/ e.side = "Left" /\ v > e.value
  \/ v = e.value /\ ~e.open

Opposite(side) == IF side = "Left" THEN "Right" ELSE "Left"

\* get_adjacent_endpoint: where what is outside this bound begins.  An infinite bound
\* gives the infinite bound of the other side, for it cannot be closed.
Adjacent(e) == IF e.limited THEN Limited(e.value, ~e.open, Opposite(e.side))
                            ELSE Unlimited(Opposite(e.side))

\* get_integer_endpoint: the same bound, made anew.
IntegerEndpoint(e) == IF e.limited THEN Limited(e.value, e.open, e.side) ELSE Unlimited(e.side)
=============================================================================
