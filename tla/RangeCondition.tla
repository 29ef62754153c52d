---------------------------- MODULE RangeCondition ----------------------------
(***************************************************************************)
(* RangeCondition<T>: a set of intervals, any of which a value may satisfy,*)
(* built up by adding ranges under And, Or and Not.  The intervals are     *)
(* merged after every addition, so that a set of values has one            *)
(* representation: is_equal and is_in_range compare representations.       *)
(*                                                                         *)
(* What a caller may rely on is that the condition accepts the values the  *)
(* And, Or and Not it asked for say, which `asked' computes on plain sets  *)
(* of points.                                                              *)
(***************************************************************************)
EXTENDS SingleInterval, SequencesExt

CONSTANTS
  Bounds,        \* the finite bounds in use
  RangePoints,   \* the values conditions are asked about, some outside all bounds
  Unbounded      \* the sides on which an added interval may be infinite

\* Among the points are the bounds, one just above each and one below all: they tell
\* any two conditions apart.
ASSUME RangeAssumption ==
  /\ Bounds \subseteq RangePoints /\ RangePoints \subseteq Int /\ IsFiniteSet(RangePoints)
  /\ \A a \in Bounds : \E p \in RangePoints : a < p /\ \A b \in Bounds : a < b => p < b
  /\ \E p \in RangePoints : \A b \in Bounds : p < b
  /\ Unbounded \subseteq Sides

VARIABLES
  m_intervals,   \* the intervals
  otherRange,    \* another condition, made earlier in the same way
  asked,         \* the points m_intervals was asked to accept (history)
  otherAsked     \* the points otherRange was asked to accept (history)

rangeVars == <<m_intervals, otherRange, asked, otherAsked>>

\* The intervals a caller adds: bounded ones, those infinite on one side, and, where
\* both sides may be infinite, everything.  [v, v) and (v, v], which are no interval
\* and which the code does not count as empty either, are not made.
Added ==
  {i \in {Between(Limited(a, p, "Left"), Limited(b, q, "Right")) :
            a \in Bounds, b \in Bounds, p \in BOOLEAN, q \in BOOLEAN} :
     i.left.value = i.right.value => i.left.open = i.right.open}
  \cup {OneSided(Limited(a, p, Opposite(s))) : a \in Bounds, p \in BOOLEAN, s \in Unbounded}
  \cup (IF Unbounded = Sides THEN {Interval(Unlimited("Left"), Unlimited("Right"))} ELSE {})

PointsOf(i) == {p \in RangePoints : Holds(i, p)}

-----------------------------------------------------------------------------
\* The order in which the set is walked through.
InOrder(S) ==
  CHOOSE s \in [1..Cardinality(S) -> S] :
    \A k, l \in 1..Cardinality(S) : k < l => Precedes(s[k], s[l])

\* A slip: an interval is only compared with the one before it, not with what the
\* ones before it have been merged to.
Simplify_Pairwise(S) ==
  LET sorted == SelectSeq(InOrder(S), LAMBDA i : ~IsEmpty(i))
      n == Len(sorted)
  IN  {IF k < n /\ CanMerge(sorted[k], sorted[k + 1])
       THEN UnionWith(sorted[k], sorted[k + 1]) ELSE sorted[k] : k \in 1..n}

\* simplify: in the set's order, each interval is merged into the current one or
\* becomes the current one; empty intervals disappear.
MergeNext(done, next) ==
  IF IsEmpty(done.current) THEN [done EXCEPT !.current = next]
  ELSE IF CanMerge(done.current, next)
  THEN [done EXCEPT !.current = UnionWith(done.current, next)]
  ELSE [out |-> done.out \cup {done.current}, current |-> next]

Simplify(S) ==
  LET sorted == InOrder(S)
      Merged[k \in 0..Cardinality(S)] ==
        IF k = 0 THEN [out |-> {}, current |-> Nothing] ELSE MergeNext(Merged[k - 1], sorted[k])
      last == Merged[Cardinality(S)]
  IN  IF IsEmpty(last.current) THEN last.out ELSE last.out \cup {last.current}

\* and_single_interval, or_single_interval, not_single_interval, each then simplified.
AndInterval(S, i) == Simplify({IntersectionWith(k, i) : k \in {j \in S : IsIntersect(j, i)}})
OrInterval(S, i)  == Simplify(S \cup {i})
NotInterval(S, i) == Simplify(UNION {Difference(k, i) : k \in S})

\* add_range(interval, relation); Xor and Unknown change nothing.
AddRange(S, i, relation) ==
  CASE relation = "And" -> AndInterval(S, i)
    [] relation = "Or"  -> OrInterval(S, i)
    [] relation = "Not" -> NotInterval(S, i)
    [] OTHER            -> Simplify(S)

\* add_range(range, relation) adds the range's intervals one by one.
AddEach(S, R, relation) ==
  LET each == InOrder(R)
      Sum[k \in 0..Cardinality(R)] ==
        IF k = 0 THEN S ELSE AddRange(Sum[k - 1], each[k], relation)
  IN  Sum[Cardinality(R)]

\* get_union_range, get_difference_range and get_intersect_range, the last made of one
\* And per interval of the other range.
UnionRange(S, R)      == AddEach(S, R, "Or")
DifferenceRange(S, R) == AddEach(S, R, "Not")
IntersectRange(S, R)  ==
  LET each == InOrder(R)
      Met[k \in 0..Cardinality(R)] ==
        IF k = 0 THEN {} ELSE AddEach(Met[k - 1], AndInterval(S, each[k]), "Or")
  IN  Met[Cardinality(R)]

\* is_in_range of a value, an interval and a range, is_intersect with a range, is_equal.
RangeHolds(S, v)      == \E i \in S : Holds(i, v)
CoversInterval(S, j)  == \E i \in S : Covers(i, j)
RangeCovers(S, R)     == \A j \in R : CoversInterval(S, j)
RangeIntersects(S, R) == \E j \in R, i \in S : IsIntersect(j, i)
RangeEqual(S, R)      == S = R

\* get_values_in_range, get_values_not_in_range, operator() of a list of values.
Those(values, chosen) ==
  LET Up[k \in 0..Len(values)] ==
        IF k = 0 THEN <<>>
        ELSE IF values[k] \in chosen THEN Append(Up[k - 1], values[k]) ELSE Up[k - 1]
  IN  Up[Len(values)]
ValuesInRange(S, values)    == Those(values, {v \in Range(values) : RangeHolds(S, v)})
ValuesNotInRange(S, values) == Those(values, {v \in Range(values) : ~RangeHolds(S, v)})
AllInRange(S, values)       == \A k \in DOMAIN values : RangeHolds(S, values[k])

-----------------------------------------------------------------------------
RangeInit ==
  /\ m_intervals = {} /\ otherRange = {}
  /\ asked = {} /\ otherAsked = {}

Asked(relation, i) ==
  CASE relation = "And" -> asked \cap PointsOf(i)
    [] relation = "Or"  -> asked \cup PointsOf(i)
    [] relation = "Not" -> asked \ PointsOf(i)
    [] OTHER            -> asked

AddToRange(i, relation) ==
  /\ m_intervals' = AddRange(m_intervals, i, relation)
  /\ asked' = Asked(relation, i)
  /\ UNCHANGED <<otherRange, otherAsked>>

\* A copy of the condition is kept, to be combined with it later.
CopyRange ==
  /\ otherRange' = m_intervals /\ otherAsked' = asked
  /\ UNCHANGED <<m_intervals, asked>>

\* The condition becomes its union, difference or intersection with the copy.
CombineRanges ==
  /\ \/ m_intervals' = UnionRange(m_intervals, otherRange) /\ asked' = asked \cup otherAsked
     \/ m_intervals' = DifferenceRange(m_intervals, otherRange) /\ asked' = asked \ otherAsked
     \/ m_intervals' = IntersectRange(m_intervals, otherRange) /\ asked' = asked \cap otherAsked
  /\ UNCHANGED <<otherRange, otherAsked>>

ClearRange ==
  /\ m_intervals' = {} /\ asked' = {}
  /\ UNCHANGED <<otherRange, otherAsked>>

RangeNext ==
  \/ \E i \in Added, relation \in {"And", "Or", "Not", "Xor"} : AddToRange(i, relation)
  \/ CopyRange \/ CombineRanges \/ ClearRange

RangeSpec == RangeInit /\ [][RangeNext]_rangeVars

-----------------------------------------------------------------------------
PointsListed == SetToSeq(RangePoints)

\* A condition accepts exactly the values that the And, Or and Not of the intervals it
\* was given accept: nothing is lost or gained when intervals are cut, split and merged
\* (range_condition.hpp, the class comment of RangeCondition).
AcceptsWhatWasAsked ==
  LET accepted == Those(PointsListed, asked)
  IN  /\ ValuesInRange(m_intervals, PointsListed) = accepted
      /\ ValuesNotInRange(m_intervals, PointsListed) = Those(PointsListed, RangePoints \ asked)
      /\ AllInRange(m_intervals, accepted)

\* Comparing two conditions interval by interval gives what comparing the sets of
\* values they accept would: equal ones are equal, an overlap is an overlap, and a
\* condition within another is within one interval of it after the other.  This is
\* what simplify() has to establish for is_equal, is_intersect and is_in_range.
ComparesAsSets ==
  /\ RangeEqual(m_intervals, otherRange) <=> asked = otherAsked
  /\ RangeIntersects(m_intervals, otherRange) <=> asked \cap otherAsked # {}
  /\ RangeCovers(m_intervals, otherRange) <=> otherAsked \subseteq asked

\* A condition is the set of values it was asked for, to whoever asks about one value or
\* compares it with another condition (range_condition.hpp).  That it is needs infinite
\* bounds to be all on one side (Data_proofs, OppositeEndsCountAsAdjacent).
ConditionsAreSets == AcceptsWhatWasAsked /\ ComparesAsSets
=============================================================================
