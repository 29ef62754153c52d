----------------------------- MODULE SqlConditions -----------------------------
(***************************************************************************)
(* From conditions to a WHERE clause: SqlBuilder and SqliteStringify write *)
(* the clause, with a placeholder per bound, and SqlTableQuery binds the   *)
(* values, each walking through the conditions by itself.  The clause is a *)
(* flat text, so that AND binds before OR wherever they meet.              *)
(*                                                                         *)
(* The conditions are RangeConditions on two integer columns: the one being*)
(* built, m_intervals, and the copy, otherRange.                           *)
(***************************************************************************)
EXTENDS RangeCondition

Columns == 1..2

\* A SqlConditionItem whose is_set may be FALSE; what accepts a column is its range.
Item(column, set) == [column |-> column, isSet |-> set]
RangeOf(item)     == IF item.column = 1 THEN m_intervals ELSE otherRange

\* get_integer_intervals, in the order of the set.
Intervals(item) ==
  LET sorted == InOrder(RangeOf(item))
  IN  [k \in DOMAIN sorted |-> IntegerInterval(sorted[k])]

-----------------------------------------------------------------------------
(* SqliteStringify: a comparison is a column and a sign, its value to come. *)

Comparison(column, sign) == [column |-> column, sign |-> sign]

\* try_format_integer_interval: no comparison, for an interval without bounds, is no text.
FormatInterval(i, column) ==
  (IF i.left.limited THEN <<Comparison(column, IF i.left.open THEN ">" ELSE ">=")>> ELSE <<>>)
  \o (IF i.right.limited THEN <<Comparison(column, IF i.right.open THEN "<" ELSE "<=")>> ELSE <<>>)

\* try_format_range_condition: intervals joined by OR, each in parentheses but not the
\* whole.
FormatRange(item) ==
  LET Format(i) == FormatInterval(i, item.column)
      texts == [k \in DOMAIN Intervals(item) |-> Format(Intervals(item)[k])]
  IN  SelectSeq(texts, LAMBDA text : text # <<>>)

\* build_condition_string: terms joined by OR, each a sequence of comparisons joined by
\* AND.  An item that is not set or whose range is empty is left out; one that is
\* formatted to nothing leaves a dangling AND.
AppendItem(clause, item) ==
  LET terms == FormatRange(item)
      last == Len(clause.terms)
  IN  IF ~item.isSet \/ Intervals(item) = <<>> THEN clause
      ELSE IF clause.terms = <<>> THEN [clause EXCEPT !.terms = terms]
      ELSE IF terms = <<>> THEN [clause EXCEPT !.valid = FALSE]
      ELSE [clause EXCEPT !.terms = SubSeq(@, 1, last - 1) \o <<@[last] \o Head(terms)>>
                                                       \o Tail(terms)]

Clause(items) == FoldLeft(AppendItem, [terms |-> <<>>, valid |-> TRUE], items)

\* build_update_string and build_delete_string without enable_all.
MayUpdate(items) == Clause(items).terms # <<>>

-----------------------------------------------------------------------------
\* A slip: what is not set is bound all the same.
Bindings_Unset(items) ==
  LET Values(i) == (IF i.left.limited THEN <<i.left.value>> ELSE <<>>)
                   \o (IF i.right.limited THEN <<i.right.value>> ELSE <<>>)
      Bind(bound, item) == FoldLeft(LAMBDA b, i : b \o Values(i), bound, Intervals(item))
  IN  FoldLeft(Bind, <<>>, items)

\* The binding loops of update, remove, select and count.
Bindings(items) ==
  LET Values(i) == (IF i.left.limited THEN <<i.left.value>> ELSE <<>>)
                   \o (IF i.right.limited THEN <<i.right.value>> ELSE <<>>)
      Bind(bound, item) ==
        IF item.isSet THEN FoldLeft(LAMBDA b, i : b \o Values(i), bound, Intervals(item)) ELSE bound
  IN  FoldLeft(Bind, <<>>, items)

\* Whether SQLite selects a row: its placeholders take the values from left to right, and
\* what no value was bound to is NULL, which compares with nothing.
Selects(clause, bound, row) ==
  LET Placed(k) == FoldLeft(LAMBDA n, term : n + Len(term), 0, SubSeq(clause.terms, 1, k - 1))
      Compare(c, at) ==
        /\ at \in DOMAIN bound
        /\ CASE c.sign = ">"  -> row[c.column] > bound[at]
             [] c.sign = ">=" -> row[c.column] >= bound[at]
             [] c.sign = "<"  -> row[c.column] < bound[at]
             [] c.sign = "<=" -> row[c.column] <= bound[at]
  IN  /\ clause.valid
      /\ \/ clause.terms = <<>>
         \/ \E k \in DOMAIN clause.terms :
              \A j \in DOMAIN clause.terms[k] : Compare(clause.terms[k][j], Placed(k) + j)

-----------------------------------------------------------------------------
Accepted(item) == IF item.column = 1 THEN asked ELSE otherAsked

\* Rows that stand for all, the second column taking fewer values.
SomeRows == RangePoints \X Bounds

\* A query finds every row its conditions accept, and no other if none of them accepts
\* nothing at all, which leaves it out, and only one has several intervals and is not
\* joined with another, whose AND would bind to one interval of it alone.  The builder
\* and the loop that binds agree on which value goes where (sql_builder.cpp,
\* build_condition_string, and sql_table_query.cpp).
FindsWhatConditionsAccept ==
  \A items \in {<<Item(1, TRUE)>>, <<Item(1, FALSE), Item(2, TRUE)>>,
                <<Item(1, TRUE), Item(2, TRUE)>>} :
    LET used   == {k \in DOMAIN items : items[k].isSet}
        clause == Clause(items)
        bound  == Bindings(items)
        exact  == /\ \A k \in used : RangeOf(items[k]) # {}
                  /\ \/ \A k \in used : Len(Intervals(items[k])) = 1
                     \/ \E k \in used : used = {k}
    IN  \A row \in SomeRows :
          LET met == \A k \in used : row[items[k].column] \in Accepted(items[k])
          IN  /\ met => Selects(clause, bound, row)
              /\ exact /\ Selects(clause, bound, row) => met
=============================================================================
