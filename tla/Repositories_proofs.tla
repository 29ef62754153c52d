-------------------------- MODULE Repositories_proofs --------------------------
(***************************************************************************)
(* What the repositories promise, for any ids and contents of rows: every  *)
(* call answers from the entities its callers may count on, since they are *)
(* at all times the rows of the table, each under its own id.              *)
(***************************************************************************)
EXTENDS Repositories, FiniteSetTheorems, SequenceTheorems, WellFoundedInduction,
        TLAPS

-----------------------------------------------------------------------------
(* Finite sets: the greatest element, and a sequence of the elements.       *)

LEMMA LeastElement ==
  ASSUME NEW T \in SUBSET Nat, T # {}
  PROVE  \E m \in T : \A k \in T : m <= k
<1> DEFINE R == OpToRel(<,Nat)
<1>1. \A x, y \in Nat : <<x, y>> \in R <=> x < y
  BY DEF OpToRel
<1>2. IsWellFoundedOn(R, Nat)
  BY NatLessThanWellFounded
<1> HIDE DEF R
<1>3. PICK m \in T : \A y \in T : ~ (<<y, m>> \in R)
  BY <1>2, WFMin
<1>4. \A y \in T : ~(y < m)
  BY <1>1, <1>3
<1>5. \A y \in T : m <= y
  BY <1>4
<1> QED  BY <1>5

\* By induction over the number of elements, of which a least one would fail.
LEMMA GreatestElement ==
  ASSUME NEW S \in SUBSET Nat, IsFiniteSet(S), S # {}
  PROVE  Max(S) \in S /\ \A y \in S : Max(S) >= y
<1> DEFINE HasMax(U) == \E x \in U : \A y \in U : x >= y
           Fails == {U \in SUBSET Nat : IsFiniteSet(U) /\ U # {} /\ ~HasMax(U)}
           Sizes == {Cardinality(U) : U \in Fails}
<1>1. Fails = {}
  <2> SUFFICES ASSUME Fails # {} PROVE FALSE
    OBVIOUS
  <2>1. Sizes \in SUBSET Nat /\ Sizes # {}
    BY FS_CardinalityType
  <2>2. PICK m \in Sizes : \A k \in Sizes : m <= k
    <3> HIDE DEF Sizes
    <3> QED  BY <2>1, LeastElement
  <2>3. PICK U \in Fails : m = Cardinality(U)
    OBVIOUS
  <2>4. U \in SUBSET Nat /\ IsFiniteSet(U) /\ U # {} /\ ~HasMax(U)
    OBVIOUS
  <2>5. PICK x \in U : TRUE
    BY <2>4
  <2> DEFINE W == U \ {x}
  <2>6. W \in SUBSET Nat /\ IsFiniteSet(W) /\ Cardinality(W) = m - 1 /\ m \in Nat
    BY <2>1, <2>3, <2>4, <2>5, FS_RemoveElement
  <2>7. W \notin Fails
    <3>1. ~(m <= m - 1)
      BY <2>6
    <3> HIDE DEF W, Fails
    <3> QED  BY <2>2, <2>6, <3>1
  <2>8. CASE W = {}
    <3>1. U = {x} /\ x \in Nat
      BY <2>4, <2>5, <2>8
    <3> QED  BY <2>4, <3>1
  <2>9. CASE W # {}
    <3>1. PICK z \in W : \A y \in W : z >= y
      BY <2>6, <2>7, <2>9
    <3>2. z \in U /\ z \in Nat /\ x \in Nat
      BY <2>4, <2>5, <3>1
    <3>3. CASE x >= z
      <4>1. \A y \in U : x >= y
        BY <2>4, <3>1, <3>2, <3>3
      <4> QED  BY <2>4, <2>5, <4>1
    <3>4. CASE ~(x >= z)
      <4>1. \A y \in U : z >= y
        BY <2>4, <3>1, <3>2, <3>4
      <4> QED  BY <2>4, <3>2, <4>1
    <3> QED  BY <3>3, <3>4
  <2> QED  BY <2>8, <2>9
<1>2. HasMax(S)
  BY <1>1
<1> QED  BY <1>2 DEF Max

LEMMA Enumerated ==
  ASSUME NEW S, IsFiniteSet(S)
  PROVE  /\ Cardinality(S) \in Nat
         /\ SetToSeq(S) \in [1..Cardinality(S) -> S]
         /\ \A i, j \in 1..Cardinality(S) : SetToSeq(S)[i] = SetToSeq(S)[j] => i = j
         /\ \A x \in S : \E i \in 1..Cardinality(S) : SetToSeq(S)[i] = x
<1> DEFINE n == Cardinality(S)
           s == SetToSeq(S)
<1>1. n \in Nat /\ ExistsBijection(1..n, S)
  BY FS_CardinalityType
<1>2. PICK f \in Bijection(1..n, S) : TRUE
  BY <1>1 DEF ExistsBijection
<1>3. f \in [1..n -> S] /\ IsInjective(f)
  BY <1>2 DEF Bijection, Injection, IsInjective
<1>4. s \in [1..n -> S] /\ IsInjective(s)
  <2> HIDE DEF n
  <2>1. s = CHOOSE g \in [1..n -> S] : IsInjective(g)
    BY DEF SetToSeq, n
  <2> HIDE DEF s
  <2> QED  BY <1>3, <2>1
<1> HIDE DEF s, n
<1>5. \A i, j \in 1..n : s[i] = s[j] => i = j
  BY <1>4 DEF IsInjective
<1>6. s \in Injection(1..n, S)
  BY <1>4, <1>5 DEF Injection, IsInjective
<1>7. s \in Surjection(1..n, S)
  <2>1. IsFiniteSet(1..n) /\ Cardinality(1..n) = n
    BY <1>1, FS_Interval
  <2>2. Cardinality(S) = n
    BY DEF n
  <2> QED  BY <1>6, <2>1, <2>2, FS_Injection
<1>8. \A x \in S : \E i \in 1..n : s[i] = x
  BY <1>7 DEF Surjection
<1> QED  BY <1>1, <1>4, <1>5, <1>8 DEF s, n

-----------------------------------------------------------------------------
(* The columns of the tables.                                               *)

Columns == Range(TableColumns)

ColumnNames ==
  {"task_id", "file_id", "saved_path", "source_url", "operation", "state", "start_time", "end_time",
   "block_id", "offset", "block_size", "file_name", "file_size", "md5_code", "resource_path"}

\* Of any table: the columns have different names, and the id's is the first.
Distinct(cols) == cols \in Seq(ColumnNames) /\ \A i, j \in 1..Len(cols) : cols[i] = cols[j] => i = j

LEMMA DistinctColumns ==
  /\ Distinct(TaskColumns) /\ Distinct(BlockColumns)
  /\ Distinct(ClientFileColumns) /\ Distinct(ServerFileColumns)
<1>1. Distinct(TaskColumns)
  <2>1. TaskColumns \in Seq(ColumnNames) /\ Len(TaskColumns) = 8
    <3>1. /\ \A i \in 1..8 : TaskColumns[i] \in ColumnNames
          /\ TaskColumns = [i \in 1..8 |-> TaskColumns[i]]
      BY DEF TaskColumns, ColumnNames
    <3> QED  BY <3>1
  <2>2. \A i, j \in 1..8 : TaskColumns[i] = TaskColumns[j] => i = j
    BY DEF TaskColumns
  <2> QED  BY <2>1, <2>2 DEF Distinct
<1>2. Distinct(BlockColumns)
  <2>1. BlockColumns \in Seq(ColumnNames) /\ Len(BlockColumns) = 8
    <3>1. /\ \A i \in 1..8 : BlockColumns[i] \in ColumnNames
          /\ BlockColumns = [i \in 1..8 |-> BlockColumns[i]]
      BY DEF BlockColumns, ColumnNames
    <3> QED  BY <3>1
  <2>2. \A i, j \in 1..8 : BlockColumns[i] = BlockColumns[j] => i = j
    BY DEF BlockColumns
  <2> QED  BY <2>1, <2>2 DEF Distinct
<1>3. Distinct(ClientFileColumns)
  <2>1. ClientFileColumns \in Seq(ColumnNames) /\ Len(ClientFileColumns) = 4
    <3>1. /\ \A i \in 1..4 : ClientFileColumns[i] \in ColumnNames
          /\ ClientFileColumns = [i \in 1..4 |-> ClientFileColumns[i]]
      BY DEF ClientFileColumns, ColumnNames
    <3> QED  BY <3>1
  <2>2. \A i, j \in 1..4 : ClientFileColumns[i] = ClientFileColumns[j] => i = j
    BY DEF ClientFileColumns
  <2> QED  BY <2>1, <2>2 DEF Distinct
<1>4. Distinct(ServerFileColumns)
  <2>1. ServerFileColumns \in Seq(ColumnNames) /\ Len(ServerFileColumns) = 5
    <3>1. /\ \A i \in 1..5 : ServerFileColumns[i] \in ColumnNames
          /\ ServerFileColumns = [i \in 1..5 |-> ServerFileColumns[i]]
      BY DEF ServerFileColumns, ColumnNames
    <3> QED  BY <3>1
  <2>2. \A i, j \in 1..5 : ServerFileColumns[i] = ServerFileColumns[j] => i = j
    BY DEF ServerFileColumns
  <2> QED  BY <2>1, <2>2 DEF Distinct
<1> QED  BY <1>1, <1>2, <1>3, <1>4

LEMMA TailOfColumns ==
  ASSUME NEW cols, Distinct(cols), cols # <<>>
  PROVE  /\ Distinct(Tail(cols)) /\ Head(cols) \in Range(cols)
         /\ Range(Tail(cols)) = Range(cols) \ {Head(cols)}
<1>1. /\ cols \in Seq(ColumnNames) /\ Len(cols) \in Nat /\ Len(cols) > 0
      /\ \A i, j \in 1..Len(cols) : cols[i] = cols[j] => i = j
      /\ Head(cols) = cols[1]
  BY DEF Distinct
<1>2. /\ Tail(cols) \in Seq(ColumnNames) /\ Len(Tail(cols)) = Len(cols) - 1
      /\ \A i \in 1..Len(cols) - 1 : Tail(cols)[i] = cols[i + 1]
  BY <1>1
<1> DEFINE t == Tail(cols)
           n == Len(cols)
<1>3. DOMAIN cols = 1..n /\ DOMAIN t = 1..n - 1
  BY <1>1, <1>2
<1> HIDE DEF t, n
<1>4. ASSUME NEW i \in 1..n - 1, NEW j \in 1..n - 1, t[i] = t[j]
      PROVE  i = j
  <2>1. i + 1 \in 1..n /\ j + 1 \in 1..n /\ n \in Nat
    BY <1>1 DEF n
  <2>2. cols[i + 1] = cols[j + 1]
    BY <1>2, <1>4 DEF t, n
  <2>3. i + 1 = j + 1
    BY <1>1, <2>1, <2>2 DEF n
  <2> QED  BY <2>1, <2>3
<1>5. Distinct(t)
  BY <1>2, <1>4 DEF Distinct, t, n
<1>6. Head(cols) \in Range(cols)
  BY <1>1, <1>3 DEF Range, n
<1>7. Range(t) = Range(cols) \ {Head(cols)}
  <2>1. ASSUME NEW i \in 1..n - 1
        PROVE  t[i] \in Range(cols) /\ t[i] # Head(cols)
    <3>1. i + 1 \in 1..n /\ 1 \in 1..n /\ i + 1 # 1
      BY <1>1 DEF n
    <3>2. t[i] = cols[i + 1]
      BY <1>2 DEF t, n
    <3>3. cols[i + 1] # cols[1]
      BY <1>1, <3>1 DEF n
    <3> QED  BY <1>1, <1>3, <3>1, <3>2, <3>3 DEF Range
  <2>2. ASSUME NEW c \in Range(cols), c # Head(cols)
        PROVE  c \in Range(t)
    <3>1. PICK i \in 1..n : c = cols[i]
      BY <1>3 DEF Range
    <3>2. i # 1 /\ n \in Nat
      BY <1>1, <2>2, <3>1 DEF n
    <3>3. i - 1 \in 1..n - 1 /\ (i - 1) + 1 = i
      BY <3>2
    <3>4. t[i - 1] = c
      BY <1>2, <3>1, <3>3 DEF t, n
    <3> QED  BY <1>3, <3>3, <3>4 DEF Range
  <2> QED  BY <1>3, <2>1, <2>2 DEF Range
<1> QED  BY <1>5, <1>6, <1>7 DEF t

LEMMA ColumnsAre ==
  ASSUME repository \in DOMAIN ColumnsOf
  PROVE  /\ Distinct(TableColumns) /\ Distinct(Tail(TableColumns)) /\ IdColumn \in Columns
         /\ Range(Tail(TableColumns)) = Columns \ {IdColumn}
         /\ repository \in {"task", "block", "client_file", "server_file"}
         /\ repository = "task" => TableColumns = TaskColumns
         /\ repository = "block" => TableColumns = BlockColumns
         /\ repository = "client_file" => TableColumns = ClientFileColumns
         /\ repository = "server_file" => TableColumns = ServerFileColumns
<1>1. /\ repository \in {"task", "block", "client_file", "server_file"}
      /\ repository = "task" => TableColumns = TaskColumns
      /\ repository = "block" => TableColumns = BlockColumns
      /\ repository = "client_file" => TableColumns = ClientFileColumns
      /\ repository = "server_file" => TableColumns = ServerFileColumns
  BY DEF ColumnsOf, TableColumns
<1>2. Distinct(TableColumns)
  BY <1>1, DistinctColumns
<1>3. TableColumns # <<>>
  BY <1>1 DEF TaskColumns, BlockColumns, ClientFileColumns, ServerFileColumns
<1> QED  BY <1>1, <1>2, <1>3, TailOfColumns DEF IdColumn, Columns

\* The value a column is set to.
LEMMA SetToGives ==
  ASSUME NEW q, NEW cols, Distinct(cols), SetColumns(q) = cols, NEW e,
         \A i \in 1..Len(cols) : q.bound[i] = e[cols[i]],
         NEW c \in Range(cols)
  PROVE  SetTo(q, c) = e[c]
<1>1. DOMAIN cols = 1..Len(cols)
  BY DEF Distinct
<1>2. \E i \in 1..Len(cols) : cols[i] = c
  BY <1>1 DEF Range
<1> DEFINE k == CHOOSE i \in 1..Len(cols) : cols[i] = c
<1>3. k \in 1..Len(cols) /\ cols[k] = c
  BY <1>2
<1>4. SetTo(q, c) = q.bound[k]
  BY <1>1 DEF SetTo
<1> HIDE DEF k
<1> QED  BY <1>3, <1>4

-----------------------------------------------------------------------------
(* The rows and the entities.                                               *)

\* The entities the callers count on are the rows, each whole and under its own id.
RowsAre(r, entities) ==
  /\ IsFiniteSet(DOMAIN r)
  /\ \A id \in DOMAIN r :
       /\ \E n \in Nat \ {0} : id = V(IdColumn, n)
       /\ r[id] = [c \in Columns |-> r[id][c]] /\ r[id][IdColumn] = id
  /\ entities = {r[id] : id \in DOMAIN r}

RowsAreEntities == repository \in DOMAIN ColumnsOf /\ RowsAre(rows, kept)

\* An entity made of a whole row is the row.
LEMMA FromWholeRow ==
  ASSUME repository \in DOMAIN ColumnsOf, NEW row, row = [c \in Columns |-> row[c]]
  PROVE  FromRow(row) = row
<1>1. CASE repository = "task"
  <2>1. Columns = {"task_id", "file_id", "saved_path", "source_url", "operation", "state",
                   "start_time", "end_time"}
    <3>1. TableColumns = TaskColumns /\ DOMAIN TaskColumns = 1..8
      BY <1>1, ColumnsAre DEF TaskColumns
    <3> QED  BY <3>1 DEF Columns, Range, TaskColumns
  <2>2. FromRow(row) = TaskFromRow(row)
    BY <1>1 DEF FromRow
  <2> QED  BY <2>1, <2>2 DEF TaskFromRow
<1>2. CASE repository = "block"
  <2>1. Columns = {"block_id", "task_id", "file_id", "offset", "block_size", "state",
                   "start_time", "end_time"}
    <3>1. TableColumns = BlockColumns /\ DOMAIN BlockColumns = 1..8
      BY <1>2, ColumnsAre DEF BlockColumns
    <3> QED  BY <3>1 DEF Columns, Range, BlockColumns
  <2>2. FromRow(row) = BlockFromRow(row)
    BY <1>2 DEF FromRow
  <2> QED  BY <2>1, <2>2 DEF BlockFromRow
<1>3. CASE repository = "client_file"
  <2>1. Columns = {"file_id", "file_name", "file_size", "md5_code"}
    <3>1. TableColumns = ClientFileColumns /\ DOMAIN ClientFileColumns = 1..4
      BY <1>3, ColumnsAre DEF ClientFileColumns
    <3> QED  BY <3>1 DEF Columns, Range, ClientFileColumns
  <2>2. FromRow(row) = ClientFileFromRow(row)
    BY <1>3 DEF FromRow
  <2> QED  BY <2>1, <2>2 DEF ClientFileFromRow
<1>4. CASE repository = "server_file"
  <2>1. Columns = {"file_id", "file_name", "resource_path", "file_size", "md5_code"}
    <3>1. TableColumns = ServerFileColumns /\ DOMAIN ServerFileColumns = 1..5
      BY <1>4, ColumnsAre DEF ServerFileColumns
    <3> QED  BY <3>1 DEF Columns, Range, ServerFileColumns
  <2>2. FromRow(row) = ServerFileFromRow(row)
    BY <1>4 DEF FromRow
  <2> QED  BY <2>1, <2>2 DEF ServerFileFromRow
<1> QED  BY <1>1, <1>2, <1>3, <1>4, ColumnsAre

\* The rows with these values, as the callers put it.
Chosen(sought) == {id \in DOMAIN rows : \A c \in DOMAIN sought : rows[id][c] = sought[c]}

LEMMA ChosenMatch ==
  ASSUME RowsAreEntities, NEW sought
  PROVE  /\ Matching(sought) = {rows[id] : id \in Chosen(sought)}
         /\ IsFiniteSet(Chosen(sought))
         /\ Cardinality(Matching(sought)) = Cardinality(Chosen(sought))
<1> DEFINE W == Chosen(sought)
           M == Matching(sought)
<1>1. W \subseteq DOMAIN rows /\ IsFiniteSet(W)
  BY FS_Subset DEF Chosen, RowsAreEntities, RowsAre
<1>2. M = {rows[id] : id \in W}
  BY DEF Matching, Chosen, RowsAreEntities, RowsAre
<1> DEFINE f == [id \in W |-> rows[id]]
<1> HIDE DEF W, M
<1>3. f \in [W -> M] /\ \A m \in M : \E id \in W : f[id] = m
  BY <1>2
<1>4. \A a, b \in W : f[a] = f[b] => a = b
  BY <1>1 DEF RowsAreEntities, RowsAre
<1> HIDE DEF f
<1>5. f \in Bijection(W, M)
  BY <1>3, <1>4 DEF Bijection, Injection, Surjection, IsInjective
<1>6. ExistsBijection(W, M)
  BY <1>5 DEF ExistsBijection
<1>7. Cardinality(M) = Cardinality(W)
  BY <1>1, <1>6, FS_Bijection
<1> QED  BY <1>1, <1>2, <1>7 DEF W, M

LEMMA ReadGives ==
  ASSUME RowsAreEntities, NEW q, q.text.columns = TableColumns, NEW sought,
         RowsWhere(q) = Chosen(sought)
  PROVE  /\ Range(Found(q)) = Matching(sought)
         /\ Len(Found(q)) = Cardinality(Matching(sought))
         /\ Found(q) = <<>> <=> Matching(sought) = {}
         /\ Found(q) # <<>> => Found(q)[1] \in Matching(sought)
<1> DEFINE W == RowsWhere(q)
           n == Cardinality(W)
           s == SetToSeq(W)
           M == Matching(sought)
           found == [i \in 1..n |-> rows[s[i]]]
<1>1. /\ M = {rows[id] : id \in W} /\ IsFiniteSet(W) /\ Cardinality(M) = n
      /\ W \subseteq DOMAIN rows
  BY ChosenMatch DEF Chosen
<1>2. /\ n \in Nat /\ s \in [1..n -> W] /\ \A x \in W : \E i \in 1..n : s[i] = x
  BY <1>1, Enumerated
<1>3. ExecuteQuery(q) = found
  <2>1. ASSUME NEW i \in 1..n
        PROVE  [c \in Range(q.text.columns) |-> rows[s[i]][c]] = rows[s[i]]
    <3>1. s[i] \in DOMAIN rows
      BY <1>1, <1>2
    <3> HIDE DEF s
    <3> QED  BY <3>1 DEF RowsAreEntities, RowsAre, Columns
  <2> HIDE DEF W, n
  <2>2. ExecuteQuery(q) = [i \in 1..n |-> [c \in Range(q.text.columns) |-> rows[s[i]][c]]]
    BY DEF ExecuteQuery, InSomeOrder, W, n
  <2> QED  BY <2>1, <2>2
<1> HIDE DEF W, n, s, M
<1>4. Found(q) = found
  <2>1. ASSUME NEW i \in 1..n PROVE FromRow(found[i]) = found[i]
    <3>1. s[i] \in DOMAIN rows
      BY <1>1, <1>2
    <3>2. rows[s[i]] = [c \in Columns |-> rows[s[i]][c]]
      BY <3>1 DEF RowsAreEntities, RowsAre
    <3>3. FromRow(rows[s[i]]) = rows[s[i]]
      BY <3>2, FromWholeRow DEF RowsAreEntities
    <3> QED  BY <3>3
  <2>2. Found(q) = [i \in 1..n |-> FromRow(found[i])]
    BY <1>3 DEF Found
  <2> QED  BY <2>1, <2>2
<1>5. Range(found) = M
  BY <1>1, <1>2 DEF Range
<1>6. found \in Seq(M) /\ Len(found) = n
  BY <1>1, <1>2
<1>7. found = <<>> <=> M = {}
  <2>1. n = 0 => M = {}
    BY <1>1, <1>2
  <2> HIDE DEF found
  <2>2. M = {} => n = 0
    <3>1. n # 0 => 1 \in 1..n
      BY <1>2
    <3> QED  BY <1>6, <3>1
  <2>3. found = <<>> <=> n = 0
    BY <1>6, <1>2
  <2> QED  BY <2>1, <2>2, <2>3
<1>8. found # <<>> => found[1] \in M
  <2> HIDE DEF found
  <2> QED  BY <1>6
<1> HIDE DEF found
<1> QED  BY <1>1, <1>4, <1>5, <1>6, <1>7, <1>8 DEF M, n

-----------------------------------------------------------------------------
(* Commands.                                                                *)

LEMMA CommandKeeps ==
  ASSUME RowsAreEntities, NEW q, NEW guard, NEW promised \in BOOLEAN, NEW result,
         Command(q, guard, promised, result),
         Ready /\ guard /\ ~Refused(q) <=> promised,
         promised => RowsAre(AfterCommand(q), result)
  PROVE  RowsAreEntities' /\ RepositoriesKeepTheirWord'
<1> DEFINE does == Ready /\ guard /\ ~Refused(q)
<1>1. /\ rows' = IF does THEN AfterCommand(q) ELSE rows
      /\ kept' = IF promised THEN result ELSE kept
      /\ answered' = [kind |-> "done", given |-> does, promised |-> promised]
      /\ repository' = repository
  BY DEF Command, Answers
<1>2. does \in BOOLEAN
  OBVIOUS
<1>3. does <=> promised
  OBVIOUS
<1> HIDE DEF does
<1>4. does = promised
  BY <1>2, <1>3
<1>5. RepositoriesKeepTheirWord'
  <2>1. answered'.kind = "done" /\ answered'.given = answered'.promised
    BY <1>1, <1>4
  <2> QED  BY <2>1 DEF RepositoriesKeepTheirWord
<1>6. RowsAre(rows', kept')
  BY <1>1, <1>4 DEF RowsAreEntities
<1>7. Columns' = Columns /\ IdColumn' = IdColumn
  BY <1>1 DEF Columns, IdColumn, TableColumns
<1>8. RowsAreEntities'
  BY <1>1, <1>6, <1>7 DEF RowsAreEntities, RowsAre
<1> QED  BY <1>5, <1>8

\* An entity as the rows have it.
WholeEntity(e) ==
  e = [c \in Columns |-> e[c]] /\ \E n \in Nat \ {0} : e[IdColumn] = V(IdColumn, n)

LEMMA TakenIsThere ==
  ASSUME RowsAreEntities, NEW e
  PROVE  Taken(e) <=> e[IdColumn] \in DOMAIN rows
BY DEF Taken, RowsAreEntities, RowsAre

LEMMA InsertAdds ==
  ASSUME RowsAreEntities, NEW q, q.text.verb = "INSERT", NEW e, WholeEntity(e),
         IdOf(q) = e[IdColumn], \A c \in Columns \ {IdColumn} : SetTo(q, c) = e[c]
  PROVE  /\ Refused(q) <=> Taken(e)
         /\ ~Taken(e) => RowsAre(AfterCommand(q), kept \cup {e})
<1>1. Refused(q) <=> Taken(e)
  <2>1. q.text # NoText
    BY DEF NoText
  <2> QED  BY <2>1, TakenIsThere DEF Refused
<1>2. ASSUME ~Taken(e)
      PROVE  RowsAre(AfterCommand(q), kept \cup {e})
  <2> DEFINE new == e[IdColumn]
             r == [id \in DOMAIN rows \cup {new} |-> IF id \in DOMAIN rows THEN rows[id] ELSE e]
  <2>1. new \notin DOMAIN rows
    BY <1>2, TakenIsThere
  <2>2. AfterCommand(q) = r
    <3>1. AfterCommand(q) =
            [id \in DOMAIN rows \cup {new} |->
               IF id \in DOMAIN rows THEN rows[id]
               ELSE [c \in Columns |-> IF c = IdColumn THEN id ELSE SetTo(q, c)]]
      BY DEF AfterCommand, Columns
    <3>2. [c \in Columns |-> IF c = IdColumn THEN new ELSE SetTo(q, c)] = e
      <4>1. \A c \in Columns : (IF c = IdColumn THEN new ELSE SetTo(q, c)) = e[c]
        OBVIOUS
      <4>2. [c \in Columns |-> IF c = IdColumn THEN new ELSE SetTo(q, c)] = [c \in Columns |-> e[c]]
        BY <4>1
      <4> QED  BY <4>2 DEF WholeEntity
    <3> HIDE DEF new
    <3>3. ASSUME NEW id \in DOMAIN rows \cup {new}
          PROVE  (IF id \in DOMAIN rows THEN rows[id]
                  ELSE [c \in Columns |-> IF c = IdColumn THEN id ELSE SetTo(q, c)])
                 = (IF id \in DOMAIN rows THEN rows[id] ELSE e)
      <4>1. CASE id \in DOMAIN rows
        BY <4>1
      <4>2. CASE id \notin DOMAIN rows
        <5>1. id = new
          BY <4>2
        <5> QED  BY <3>2, <4>2, <5>1
      <4> QED  BY <4>1, <4>2
    <3> QED  BY <3>1, <3>3
  <2> HIDE DEF new
  <2>3. DOMAIN r = DOMAIN rows \cup {new} /\ r[new] = e /\ \A id \in DOMAIN rows : r[id] = rows[id]
    BY <2>1
  <2> HIDE DEF r
  <2>4. IsFiniteSet(DOMAIN r)
    BY <2>3, FS_AddElement DEF RowsAreEntities, RowsAre
  <2>5. ASSUME NEW id \in DOMAIN r
        PROVE  /\ \E n \in Nat \ {0} : id = V(IdColumn, n)
               /\ r[id] = [c \in Columns |-> r[id][c]] /\ r[id][IdColumn] = id
    <3>1. CASE id \in DOMAIN rows
      BY <2>3, <3>1 DEF RowsAreEntities, RowsAre
    <3>2. CASE id = new
      BY <2>3, <3>2 DEF WholeEntity, new
    <3> QED  BY <2>3, <3>1, <3>2
  <2>6. kept \cup {e} = {r[id] : id \in DOMAIN r}
    <3>1. kept = {rows[id] : id \in DOMAIN rows}
      BY DEF RowsAreEntities, RowsAre
    <3> QED  BY <2>3, <3>1
  <2> QED  BY <2>2, <2>4, <2>5, <2>6 DEF RowsAre
<1> QED  BY <1>1, <1>2

LEMMA UpdateChanges ==
  ASSUME RowsAreEntities, NEW q, q.text.verb = "UPDATE", NEW e, WholeEntity(e),
         RowsWhere(q) = Chosen([c \in {IdColumn} |-> e[IdColumn]]),
         Range(SetColumns(q)) = Columns \ {IdColumn},
         \A c \in Columns \ {IdColumn} : SetTo(q, c) = e[c]
  PROVE  /\ ~Refused(q)
         /\ RowsAre(AfterCommand(q), IF Taken(e) THEN Keeping(e) ELSE kept)
<1>1. ~Refused(q)
  BY DEF Refused, NoText
<1> DEFINE at == e[IdColumn]
           r == [id \in DOMAIN rows |-> IF id = at THEN e ELSE rows[id]]
<1>2. \A id \in DOMAIN rows : id \in RowsWhere(q) <=> id = at
  BY DEF Chosen, RowsAreEntities, RowsAre
<1>3. AfterCommand(q) = r
  <2>1. AfterCommand(q) =
          [id \in DOMAIN rows |->
             IF id \in RowsWhere(q)
             THEN [c \in Columns |-> IF c \in Range(SetColumns(q)) THEN SetTo(q, c) ELSE rows[id][c]]
             ELSE rows[id]]
    BY DEF AfterCommand, Columns
  <2>2. ASSUME NEW id \in DOMAIN rows
        PROVE  (IF id \in RowsWhere(q)
                THEN [c \in Columns |->
                        IF c \in Range(SetColumns(q)) THEN SetTo(q, c) ELSE rows[id][c]]
                ELSE rows[id]) = (IF id = at THEN e ELSE rows[id])
    <3>1. CASE id = at
      <4>1. rows[id][IdColumn] = e[IdColumn]
        BY <3>1 DEF RowsAreEntities, RowsAre
      <4>2. \A c \in Columns :
              (IF c \in Range(SetColumns(q)) THEN SetTo(q, c) ELSE rows[id][c]) = e[c]
        BY <4>1
      <4>3. [c \in Columns |-> IF c \in Range(SetColumns(q)) THEN SetTo(q, c) ELSE rows[id][c]] =
              [c \in Columns |-> e[c]]
        BY <4>2
      <4> QED  BY <1>2, <3>1, <4>3 DEF WholeEntity
    <3>2. CASE id # at
      BY <1>2, <3>2
    <3> QED  BY <3>1, <3>2
  <2> QED  BY <2>1, <2>2
<1>4. /\ DOMAIN r = DOMAIN rows
      /\ \A id \in DOMAIN rows : r[id] = IF id = at THEN e ELSE rows[id]
  OBVIOUS
<1> HIDE DEF r, at
<1>5. IsFiniteSet(DOMAIN r)
  BY <1>4 DEF RowsAreEntities, RowsAre
<1>6. ASSUME NEW id \in DOMAIN r
      PROVE  /\ \E n \in Nat \ {0} : id = V(IdColumn, n)
             /\ r[id] = [c \in Columns |-> r[id][c]] /\ r[id][IdColumn] = id
  <2>1. CASE id = at
    <3>1. r[id] = e
      BY <1>4, <2>1
    <3> QED  BY <2>1, <3>1 DEF WholeEntity, at
  <2>2. CASE id # at
    BY <1>4, <2>2 DEF RowsAreEntities, RowsAre
  <2> QED  BY <2>1, <2>2
<1>7. (IF Taken(e) THEN Keeping(e) ELSE kept) = {r[id] : id \in DOMAIN r}
  <2>1. kept = {rows[id] : id \in DOMAIN rows}
    BY DEF RowsAreEntities, RowsAre
  <2>2. CASE ~Taken(e)
    <3>1. at \notin DOMAIN rows
      BY <2>2, TakenIsThere DEF at
    <3> QED  BY <1>4, <2>1, <2>2, <3>1
  <2>3. CASE Taken(e)
    <3>1. at \in DOMAIN rows
      BY <2>3, TakenIsThere DEF at
    <3>2. Keeping(e) = {rows[id] : id \in DOMAIN rows \ {at}} \cup {e}
      BY <2>1 DEF Keeping, RowsAreEntities, RowsAre, at
    <3>3. {r[id] : id \in DOMAIN r} = {rows[id] : id \in DOMAIN rows \ {at}} \cup {e}
      BY <1>4, <3>1
    <3> QED  BY <2>3, <3>2, <3>3
  <2> QED  BY <2>2, <2>3
<1> QED  BY <1>1, <1>3, <1>5, <1>6, <1>7 DEF RowsAre

LEMMA DeleteErases ==
  ASSUME RowsAreEntities, NEW q, q.text.verb = "DELETE", NEW sought, RowsWhere(q) = Chosen(sought)
  PROVE  ~Refused(q) /\ RowsAre(AfterCommand(q), kept \ Matching(sought))
<1>1. ~Refused(q)
  BY DEF Refused, NoText
<1> DEFINE left == DOMAIN rows \ Chosen(sought)
           r == [id \in left |-> rows[id]]
<1>2. AfterCommand(q) = r
  BY DEF AfterCommand, Restrict
<1>3. DOMAIN r = left /\ \A id \in left : r[id] = rows[id] /\ id \in DOMAIN rows
  OBVIOUS
<1>4. IsFiniteSet(left)
  BY FS_Difference DEF RowsAreEntities, RowsAre
<1>5. kept \ Matching(sought) = {rows[id] : id \in left}
  <2>1. kept = {rows[id] : id \in DOMAIN rows} /\ \A id \in DOMAIN rows : rows[id][IdColumn] = id
    BY DEF RowsAreEntities, RowsAre
  <2>2. Matching(sought) = {rows[id] : id \in Chosen(sought)} /\ Chosen(sought) \subseteq DOMAIN rows
    BY ChosenMatch DEF Chosen
  <2> QED  BY <2>1, <2>2
<1> HIDE DEF r, left
<1>6. RowsAre(r, kept \ Matching(sought))
  BY <1>3, <1>4, <1>5 DEF RowsAreEntities, RowsAre
<1> QED  BY <1>1, <1>2, <1>6

-----------------------------------------------------------------------------
(* Queries.                                                                 *)

LEMMA ReadKeeps ==
  ASSUME RowsAreEntities, NEW kind \in {"many", "one"}, NEW q, q.text.columns = TableColumns,
         NEW sought, RowsWhere(q) = Chosen(sought), Read(kind, q, sought)
  PROVE  RowsAreEntities' /\ RepositoriesKeepTheirWord'
<1>1. /\ Ready => answered' = [kind |-> kind, given |-> Found(q), promised |-> Matching(sought)]
      /\ ~Ready => answered' = [kind |-> kind, given |-> <<>>, promised |-> {}]
      /\ repository' = repository /\ rows' = rows /\ kept' = kept
  BY DEF Read, Answers
<1>2. /\ Range(Found(q)) = Matching(sought)
      /\ Len(Found(q)) = Cardinality(Matching(sought))
      /\ Found(q) = <<>> <=> Matching(sought) = {}
      /\ Found(q) # <<>> => Found(q)[1] \in Matching(sought)
  BY ReadGives
<1>3. Columns' = Columns /\ IdColumn' = IdColumn
  BY <1>1 DEF Columns, IdColumn, TableColumns
<1>4. RowsAreEntities'
  BY <1>1, <1>3 DEF RowsAreEntities, RowsAre
<1>5. RepositoriesKeepTheirWord'
  <2>1. CASE Ready
    <3>1. /\ answered'.kind = kind /\ answered'.given = Found(q)
          /\ answered'.promised = Matching(sought)
      BY <1>1, <2>1
    <3> QED  BY <1>2, <3>1 DEF RepositoriesKeepTheirWord
  <2>2. CASE ~Ready
    <3>1. answered'.kind = kind /\ answered'.given = <<>> /\ answered'.promised = {}
      BY <1>1, <2>2
    <3>2. Range(<<>>) = {} /\ Len(<<>>) = Cardinality({})
      BY FS_EmptySet DEF Range
    <3> QED  BY <3>1, <3>2 DEF RepositoriesKeepTheirWord
  <2> QED  BY <2>1, <2>2
<1> QED  BY <1>4, <1>5

\* A number given and a number promised.
LEMMA NumberKeeps ==
  ASSUME RowsAreEntities, NEW n, answered'.kind = "count",
         answered'.given = n, answered'.promised = n,
         repository' = repository, rows' = rows, kept' = kept
  PROVE  RowsAreEntities' /\ RepositoriesKeepTheirWord'
<1>1. Columns' = Columns /\ IdColumn' = IdColumn
  BY DEF Columns, IdColumn, TableColumns
<1>2. RowsAreEntities'
  BY <1>1 DEF RowsAreEntities, RowsAre
<1>3. RepositoriesKeepTheirWord'
  BY DEF RepositoriesKeepTheirWord
<1> QED  BY <1>2, <1>3

LEMMA CountKeeps ==
  ASSUME RowsAreEntities, NEW q, NEW sought, RowsWhere(q) = Chosen(sought), Count(q, sought)
  PROVE  RowsAreEntities' /\ RepositoriesKeepTheirWord'
<1> DEFINE n == IF Ready THEN Cardinality(Chosen(sought)) ELSE -1
<1>1. Cardinality(Matching(sought)) = Cardinality(Chosen(sought))
  BY ChosenMatch
<1>2. answered' = [kind |-> "count", given |-> n, promised |-> n]
  <2>1. CASE Ready
    BY <1>1, <2>1 DEF Count, Answers
  <2>2. CASE ~Ready
    BY <2>2 DEF Count, Answers
  <2> QED  BY <2>1, <2>2
<1>3. repository' = repository /\ rows' = rows /\ kept' = kept
  BY DEF Count
<1> HIDE DEF n
<1>4. answered'.kind = "count" /\ answered'.given = n /\ answered'.promised = n
  BY <1>2
<1> QED  BY <1>3, <1>4, NumberKeeps

\* The greatest id and the next one, from the rows or from the entities.
LEMMA IdsAre ==
  ASSUME RowsAreEntities
  PROVE  /\ {e[IdColumn][2] : e \in kept} = Ids
         /\ Max(Ids \cup {0}) = IF Ids = {} THEN 0 ELSE Max(Ids)
         /\ NextId = Max(Ids \cup {0}) + 1 /\ NextId \in Nat \ {0}
         /\ V(IdColumn, NextId) \notin DOMAIN rows
<1>1. /\ IsFiniteSet(DOMAIN rows) /\ kept = {rows[id] : id \in DOMAIN rows}
      /\ \A id \in DOMAIN rows : rows[id][IdColumn] = id /\ id[2] \in Nat
  BY DEF RowsAreEntities, RowsAre, V
<1>2. {e[IdColumn][2] : e \in kept} = Ids
  BY <1>1 DEF Ids
<1>3. Ids \in SUBSET Nat
  BY <1>1 DEF Ids
<1>4. IsFiniteSet(Ids)
  <2> DEFINE f == [id \in DOMAIN rows |-> id[2]]
  <2>1. f \in Surjection(DOMAIN rows, Ids)
    BY DEF Surjection, Ids
  <2> HIDE DEF f
  <2> QED  BY <1>1, <2>1, FS_Surjection
<1> DEFINE more == Ids \cup {0}
<1>5. more \in SUBSET Nat /\ IsFiniteSet(more) /\ more # {} /\ 0 \in more
  BY <1>3, <1>4, FS_AddElement
<1> HIDE DEF more
<1>6. Max(more) \in more /\ \A n \in more : Max(more) >= n
  BY <1>5, GreatestElement
<1>7. Max(more) = IF Ids = {} THEN 0 ELSE Max(Ids)
  <2>1. CASE Ids = {}
    BY <1>6, <2>1 DEF more
  <2>2. CASE Ids # {}
    <3>1. Max(Ids) \in Ids /\ \A n \in Ids : Max(Ids) >= n
      BY <1>3, <1>4, <2>2, GreatestElement
    <3>2. Max(Ids) \in more /\ Max(more) >= Max(Ids)
      BY <1>6, <3>1 DEF more
    <3>3. Max(Ids) \in Nat /\ Max(more) \in Nat
      BY <1>3, <1>5, <1>6, <3>1
    <3>4. Max(Ids) >= Max(more)
      <4>1. CASE Max(more) \in Ids
        BY <3>1, <4>1
      <4>2. CASE Max(more) = 0
        BY <3>3, <4>2
      <4> QED  BY <1>6, <4>1, <4>2 DEF more
    <3> QED  BY <2>2, <3>2, <3>3, <3>4
  <2> QED  BY <2>1, <2>2
<1>8. NextId = Max(more) + 1 /\ Max(more) \in Nat
  <2>1. CASE Ids = {}
    BY <1>7, <2>1 DEF NextId
  <2>2. CASE Ids # {}
    BY <1>5, <1>6, <1>7, <2>2 DEF NextId
  <2> QED  BY <2>1, <2>2
<1>9. V(IdColumn, NextId) \notin DOMAIN rows
  <2>1. SUFFICES ASSUME V(IdColumn, NextId) \in DOMAIN rows PROVE FALSE
    OBVIOUS
  <2>2. NextId \in Ids
    BY <2>1 DEF Ids, V
  <2>3. Max(more) >= NextId
    BY <1>6, <2>2 DEF more
  <2> QED  BY <1>8, <2>3
<1>10. NextId \in Nat \ {0}
  BY <1>8
<1> QED  BY <1>2, <1>7, <1>8, <1>9, <1>10 DEF more

LEMMA MaxKeeps ==
  ASSUME RowsAreEntities, repository = "task", GetMaxTaskId
  PROVE  RowsAreEntities' /\ RepositoriesKeepTheirWord'
<1> DEFINE m == IF Ids = {} THEN 0 ELSE Max(Ids)
           n == IF Ready THEN m ELSE -1
<1>1. Max({e.task_id[2] : e \in kept} \cup {0}) = m
  <2>1. IdColumn = "task_id"
    BY DEF IdColumn, TableColumns, ColumnsOf, TaskColumns
  <2>2. {e.task_id[2] : e \in kept} = {e[IdColumn][2] : e \in kept}
    BY <2>1
  <2> QED  BY <2>2, IdsAre
<1>2. answered' = [kind |-> "count", given |-> n, promised |-> n]
  <2> HIDE DEF m
  <2>1. CASE Ready
    BY <1>1, <2>1 DEF GetMaxTaskId, Answers, m
  <2>2. CASE ~Ready
    BY <2>2 DEF GetMaxTaskId, Answers
  <2> QED  BY <2>1, <2>2
<1>3. repository' = repository /\ rows' = rows /\ kept' = kept
  BY DEF GetMaxTaskId
<1> HIDE DEF n
<1>4. answered'.kind = "count" /\ answered'.given = n /\ answered'.promised = n
  BY <1>2
<1> QED  BY <1>3, <1>4, NumberKeeps

-----------------------------------------------------------------------------
(* The values bound meet the conditions and the columns they are for.       *)

LEMMA WhereAll ==
  ASSUME NEW q, DOMAIN q.text.where = {}
  PROVE  RowsWhere(q) = Chosen(<<>>)
BY DEF RowsWhere, Chosen

LEMMA WhereFirst ==
  ASSUME NEW q, SetColumns(q) = <<>>, NEW c, NEW v,
         DOMAIN q.text.where = {1}, q.text.where[1] = c, q.bound[1] = v,
         NEW sought, DOMAIN sought = {c}, sought[c] = v
  PROVE  RowsWhere(q) = Chosen(sought)
<1>1. Len(SetColumns(q)) + 1 = 1
  OBVIOUS
<1> QED  BY <1>1 DEF RowsWhere, Chosen

\* SELECT, COUNT and DELETE with no condition, with one and with two.
LEMMA AllRows ==
  ASSUME NEW columns
  PROVE  /\ TableSelect(columns, <<>>).text.columns = columns
         /\ RowsWhere(TableSelect(columns, <<>>)) = Chosen(<<>>)
         /\ RowsWhere(TableCount(<<>>)) = Chosen(<<>>)
<1>1. DOMAIN TableSelect(columns, <<>>).text.where = {}
  BY DEF TableSelect, BuildSelectString, Names
<1>2. DOMAIN TableCount(<<>>).text.where = {}
  BY DEF TableCount, BuildCountString, Names
<1>3. TableSelect(columns, <<>>).text.columns = columns
  BY DEF TableSelect, BuildSelectString
<1> QED  BY <1>1, <1>2, <1>3, WhereAll

LEMMA RowsWithOne ==
  ASSUME NEW columns, NEW c, NEW v, NEW sought, DOMAIN sought = {c}, sought[c] = v
  PROVE  /\ TableSelect(columns, <<Is(c, v)>>).text.columns = columns
         /\ RowsWhere(TableSelect(columns, <<Is(c, v)>>)) = Chosen(sought)
         /\ TableRemove(<<Is(c, v)>>).text.verb = "DELETE"
         /\ RowsWhere(TableRemove(<<Is(c, v)>>)) = Chosen(sought)
<1> DEFINE conds == <<Is(c, v)>>
           names == Names(conds)
           values == Values(conds)
<1>1. DOMAIN names = {1} /\ names[1] = c /\ values[1] = v /\ names # <<>>
  BY DEF Names, Values, Is
<1> HIDE DEF conds, names, values
<1>2. /\ TableSelect(columns, conds) =
           [text |-> [verb |-> "SELECT", columns |-> columns, where |-> names], bound |-> values]
      /\ TableRemove(conds) =
           [text |-> [verb |-> "DELETE", columns |-> <<>>, where |-> names], bound |-> values]
  BY <1>1 DEF TableSelect, TableRemove, BuildSelectString, BuildDeleteString, names, values
<1>3. SetColumns(TableSelect(columns, conds)) = <<>> /\ SetColumns(TableRemove(conds)) = <<>>
  BY <1>2 DEF SetColumns
<1>4. RowsWhere(TableSelect(columns, conds)) = Chosen(sought)
  <2> DEFINE q == TableSelect(columns, conds)
  <2>1. /\ SetColumns(q) = <<>> /\ DOMAIN q.text.where = {1} /\ q.text.where[1] = c
        /\ q.bound[1] = v
    BY <1>1, <1>2, <1>3
  <2> HIDE DEF q
  <2>2. RowsWhere(q) = Chosen(sought)
    BY <2>1, WhereFirst
  <2> QED  BY <2>2 DEF q
<1>5. RowsWhere(TableRemove(conds)) = Chosen(sought)
  <2> DEFINE q == TableRemove(conds)
  <2>1. /\ SetColumns(q) = <<>> /\ DOMAIN q.text.where = {1} /\ q.text.where[1] = c
        /\ q.bound[1] = v
    BY <1>1, <1>2, <1>3
  <2> HIDE DEF q
  <2>2. RowsWhere(q) = Chosen(sought)
    BY <2>1, WhereFirst
  <2> QED  BY <2>2 DEF q
<1> QED  BY <1>2, <1>4, <1>5 DEF conds

LEMMA RowsWithTwo ==
  ASSUME NEW columns, NEW c, NEW v, NEW d, NEW x, NEW sought,
         DOMAIN sought = {c, d}, sought[c] = v, sought[d] = x
  PROVE  /\ TableSelect(columns, <<Is(c, v), Is(d, x)>>).text.columns = columns
         /\ RowsWhere(TableSelect(columns, <<Is(c, v), Is(d, x)>>)) = Chosen(sought)
         /\ RowsWhere(TableCount(<<Is(c, v), Is(d, x)>>)) = Chosen(sought)
<1> DEFINE conds == <<Is(c, v), Is(d, x)>>
           names == Names(conds)
           values == Values(conds)
<1>1. /\ DOMAIN names = {1, 2} /\ names[1] = c /\ values[1] = v
      /\ names[2] = d /\ values[2] = x
  BY DEF Names, Values, Is
<1> HIDE DEF conds, names, values
<1>2. /\ TableSelect(columns, conds) =
           [text |-> [verb |-> "SELECT", columns |-> columns, where |-> names], bound |-> values]
      /\ TableCount(conds) =
           [text |-> [verb |-> "COUNT", columns |-> <<>>, where |-> names], bound |-> values]
  BY DEF TableSelect, TableCount, BuildSelectString, BuildCountString, names, values
<1>3. SetColumns(TableSelect(columns, conds)) = <<>> /\ SetColumns(TableCount(conds)) = <<>>
  BY <1>2 DEF SetColumns
<1>4. RowsWhere(TableSelect(columns, conds)) = Chosen(sought)
  <2> DEFINE q == TableSelect(columns, conds)
  <2>1. /\ SetColumns(q) = <<>> /\ DOMAIN q.text.where = {1, 2} /\ q.text.where[1] = c
        /\ q.bound[1] = v /\ q.text.where[2] = d /\ q.bound[2] = x
    BY <1>1, <1>2, <1>3
  <2> HIDE DEF q
  <2>2. RowsWhere(q) = Chosen(sought)
    <3>1. Len(SetColumns(q)) + 1 = 1 /\ Len(SetColumns(q)) + 2 = 2
      BY <2>1
    <3> QED  BY <2>1, <3>1 DEF RowsWhere, Chosen
  <2> QED  BY <2>2 DEF q
<1>5. RowsWhere(TableCount(conds)) = Chosen(sought)
  <2> DEFINE q == TableCount(conds)
  <2>1. /\ SetColumns(q) = <<>> /\ DOMAIN q.text.where = {1, 2} /\ q.text.where[1] = c
        /\ q.bound[1] = v /\ q.text.where[2] = d /\ q.bound[2] = x
    BY <1>1, <1>2, <1>3
  <2> HIDE DEF q
  <2>2. RowsWhere(q) = Chosen(sought)
    <3>1. Len(SetColumns(q)) + 1 = 1 /\ Len(SetColumns(q)) + 2 = 2
      BY <2>1
    <3> QED  BY <2>1, <3>1 DEF RowsWhere, Chosen
  <2> QED  BY <2>2 DEF q
<1> QED  BY <1>2, <1>4, <1>5 DEF conds

LEMMA CellsOf ==
  ASSUME NEW cols, Distinct(cols), NEW e
  PROVE  /\ Names(Cells(cols, e)) = cols
         /\ Values(Cells(cols, e)) = [i \in 1..Len(cols) |-> e[cols[i]]]
<1>1. cols = [i \in 1..Len(cols) |-> cols[i]] /\ DOMAIN cols = 1..Len(cols)
  BY DEF Distinct
<1>2. Cells(cols, e) = [i \in 1..Len(cols) |-> <<cols[i], e[cols[i]]>>]
  BY <1>1 DEF Cells
<1> DEFINE n == Len(cols)
<1> HIDE DEF n
<1>3. Names(Cells(cols, e)) = [i \in 1..n |-> cols[i]]
  BY <1>2 DEF Names, n
<1>4. Values(Cells(cols, e)) = [i \in 1..n |-> e[cols[i]]]
  BY <1>2 DEF Values, n
<1> QED  BY <1>1, <1>3, <1>4 DEF n

LEMMA InsertSets ==
  ASSUME NEW cols, Distinct(cols), NEW e
  PROVE  LET q == TableInsert(Cells(cols, e))
         IN  /\ q.text.verb = "INSERT" /\ SetColumns(q) = cols
             /\ \A c \in Range(cols) : SetTo(q, c) = e[c]
<1> DEFINE q == TableInsert(Cells(cols, e))
<1>1. /\ q.text.verb = "INSERT" /\ SetColumns(q) = cols
      /\ q.bound = [i \in 1..Len(cols) |-> e[cols[i]]]
  BY CellsOf DEF TableInsert, BuildInsertString, SetColumns
<1> HIDE DEF q
<1>2. ASSUME NEW c \in Range(cols) PROVE SetTo(q, c) = e[c]
  <2>1. \A i \in 1..Len(cols) : q.bound[i] = e[cols[i]]
    BY <1>1
  <2> QED  BY <1>1, <2>1, SetToGives
<1> QED  BY <1>1, <1>2 DEF q

LEMMA OneMore ==
  ASSUME NEW S, NEW s \in Seq(S), NEW v \in S
  PROVE  (s \o <<v>>)[Len(s) + 1] = v /\ \A i \in 1..Len(s) : (s \o <<v>>)[i] = s[i]
<1>1. <<v>> \in Seq(S) /\ Len(<<v>>) = 1 /\ <<v>>[1] = v /\ Len(s) \in Nat
  OBVIOUS
<1>2. Len(s) + 1 \in 1..Len(s) + 1 /\ ~(Len(s) + 1 <= Len(s)) /\ (Len(s) + 1) - Len(s) = 1
  BY <1>1
<1>3. \A i \in 1..Len(s) + 1 :
        (s \o <<v>>)[i] = IF i <= Len(s) THEN s[i] ELSE <<v>>[i - Len(s)]
  BY <1>1, ConcatProperties
<1>4. \A i \in 1..Len(s) : i \in 1..Len(s) + 1 /\ i <= Len(s)
  BY <1>1
<1> QED  BY <1>1, <1>2, <1>3, <1>4

\* Of values bound one after the other the first ones are the columns', the next the condition's.
LEMMA BoundInOrder ==
  ASSUME NEW cols, Distinct(cols), NEW e, NEW v, NEW bound,
         bound = [i \in 1..Len(cols) |-> e[cols[i]]] \o <<v>>
  PROVE  /\ \A i \in 1..Len(cols) : bound[i] = e[cols[i]]
         /\ bound[Len(cols) + 1] = v
<1> DEFINE n == Len(cols)
           S == {e[cols[i]] : i \in 1..n} \cup {v}
           first == [i \in 1..n |-> e[cols[i]]]
<1>1. n \in Nat
  BY DEF Distinct
<1>2. first \in Seq(S) /\ Len(first) = n /\ \A i \in 1..n : first[i] = e[cols[i]]
  BY <1>1
<1>3. v \in S
  OBVIOUS
<1>4. bound = first \o <<v>>
  OBVIOUS
<1> HIDE DEF n, S, first
<1>5. \A i \in 1..n : bound[i] = e[cols[i]]
  BY <1>1, <1>2, <1>3, <1>4, OneMore
<1>6. bound[n + 1] = v
  BY <1>1, <1>2, <1>3, <1>4, OneMore
<1> QED  BY <1>5, <1>6 DEF n

\* An update sets every column but the id, by which it finds its row.
LEMMA UpdateSets ==
  ASSUME repository \in DOMAIN ColumnsOf, NEW e
  PROVE  LET q == TableUpdate(Cells(Tail(TableColumns), e), <<Is(IdColumn, e[IdColumn])>>)
         IN  /\ q.text.verb = "UPDATE" /\ SetColumns(q) = Tail(TableColumns)
             /\ RowsWhere(q) = Chosen([c \in {IdColumn} |-> e[IdColumn]])
             /\ \A d \in Range(Tail(TableColumns)) : SetTo(q, d) = e[d]
<1> DEFINE cols == Tail(TableColumns)
           v == e[IdColumn]
           conds == <<Is(IdColumn, v)>>
           names == Names(conds)
           values == Values(conds)
           q == TableUpdate(Cells(cols, e), conds)
<1>1. Distinct(cols)
  BY ColumnsAre
<1>2. DOMAIN names = {1} /\ names[1] = IdColumn /\ values = <<v>> /\ names # <<>>
  BY DEF Names, Values, Is
<1> HIDE DEF cols, v, conds, names, values
<1>3. q = [text |-> [verb |-> "UPDATE", columns |-> cols, where |-> names],
           bound |-> [i \in 1..Len(cols) |-> e[cols[i]]] \o <<v>>]
  BY <1>1, <1>2, CellsOf DEF TableUpdate, BuildUpdateString, names, values
<1> HIDE DEF q
<1>4. /\ q.text.verb = "UPDATE" /\ SetColumns(q) = cols
      /\ DOMAIN q.text.where = {1} /\ q.text.where[1] = IdColumn
      /\ q.bound = [i \in 1..Len(cols) |-> e[cols[i]]] \o <<v>>
  BY <1>2, <1>3 DEF SetColumns
<1>5. \A i \in 1..Len(cols) : q.bound[i] = e[cols[i]]
  BY <1>1, <1>4, BoundInOrder
<1>6. q.bound[Len(cols) + 1] = v
  BY <1>1, <1>4, BoundInOrder
<1>7. RowsWhere(q) = Chosen([c \in {IdColumn} |-> v])
  BY <1>4, <1>6 DEF RowsWhere, Chosen
<1>8. ASSUME NEW d \in Range(cols) PROVE SetTo(q, d) = e[d]
  <2>1. Distinct(cols) /\ SetColumns(q) = cols
    BY <1>1, <1>4
  <2> QED  BY ONLY <2>1, <1>5, SetToGives
<1> QED  BY <1>4, <1>7, <1>8 DEF q, conds, v, cols

-----------------------------------------------------------------------------
(* The calls.                                                               *)

LEMMA AddKeeps ==
  ASSUME RowsAreEntities, NEW q, NEW e, NEW welcome, Add(q, welcome, e, welcome),
         welcome => Refused(q) <=> Taken(e),
         welcome /\ ~Taken(e) => RowsAre(AfterCommand(q), kept \cup {e})
  PROVE  RowsAreEntities' /\ RepositoriesKeepTheirWord'
<1> DEFINE promised == Ready /\ welcome /\ ~Taken(e)
           result == kept \cup {e}
<1>1. promised \in BOOLEAN /\ Command(q, welcome, promised, result)
  BY DEF Add
<1>2. Ready /\ welcome /\ ~Refused(q) <=> promised
  OBVIOUS
<1>3. promised => RowsAre(AfterCommand(q), result)
  OBVIOUS
<1> HIDE DEF promised, result
<1> QED  BY <1>1, <1>2, <1>3, CommandKeeps

LEMMA ChangeKeeps ==
  ASSUME RowsAreEntities, NEW q, NEW e, Change(q, e), ~Refused(q),
         RowsAre(AfterCommand(q), IF Taken(e) THEN Keeping(e) ELSE kept)
  PROVE  RowsAreEntities' /\ RepositoriesKeepTheirWord'
<1> DEFINE result == IF Taken(e) THEN Keeping(e) ELSE kept
<1>1. Ready \in BOOLEAN
  BY DEF Ready
<1>2. Command(q, TRUE, Ready, result)
  BY DEF Change
<1>3. RowsAre(AfterCommand(q), result)
  OBVIOUS
<1> HIDE DEF result
<1>4. Ready /\ TRUE /\ ~Refused(q) <=> Ready
  OBVIOUS
<1> QED  BY <1>1, <1>2, <1>3, <1>4, CommandKeeps

LEMMA EraseKeeps ==
  ASSUME RowsAreEntities, NEW q, NEW sought, q.text.verb = "DELETE", RowsWhere(q) = Chosen(sought),
         Erase(q, sought)
  PROVE  RowsAreEntities' /\ RepositoriesKeepTheirWord'
<1> DEFINE result == kept \ Matching(sought)
<1>1. Ready \in BOOLEAN
  BY DEF Ready
<1>2. Command(q, TRUE, Ready, result)
  BY DEF Erase
<1>3. ~Refused(q) /\ RowsAre(AfterCommand(q), result)
  BY DeleteErases
<1> HIDE DEF result
<1>4. Ready /\ TRUE /\ ~Refused(q) <=> Ready
  BY <1>3
<1> QED  BY <1>1, <1>2, <1>3, <1>4, CommandKeeps

LEMMA EntityIs ==
  ASSUME repository \in DOMAIN ColumnsOf, NEW n, NEW v
  PROVE  /\ Entity(n, v) = [c \in Columns |-> Entity(n, v)[c]]
         /\ Entity(n, v)[IdColumn] = V(IdColumn, n)
         /\ n \in Nat \ {0} => WholeEntity(Entity(n, v))
<1>1. IdColumn \in Columns
  BY ColumnsAre
<1>2. /\ Entity(n, v) = [c \in Columns |-> Entity(n, v)[c]]
      /\ Entity(n, v)[IdColumn] = V(IdColumn, n)
  BY <1>1 DEF Entity, Columns
<1> QED  BY <1>2 DEF WholeEntity

\* A row that is given the next number.
LEMMA NumberedIs ==
  ASSUME RowsAreEntities, NEW v
  PROVE  /\ WholeEntity(Numbered(Entity(0, v)))
         /\ Numbered(Entity(0, v))[IdColumn] = V(IdColumn, NextId)
         /\ \A c \in Columns \ {IdColumn} : Numbered(Entity(0, v))[c] = Entity(0, v)[c]
<1> DEFINE e == Entity(0, v)
           new == V(IdColumn, NextId)
<1>1. IdColumn \in Columns /\ e = [c \in Columns |-> e[c]]
  BY ColumnsAre, EntityIs DEF RowsAreEntities
<1>2. Numbered(e) = [e EXCEPT ![IdColumn] = new]
  BY IdsAre DEF Numbered
<1>3. NextId \in Nat \ {0}
  BY IdsAre
<1>4. new = V(IdColumn, NextId)
  OBVIOUS
<1> HIDE DEF e, new
<1>5. Numbered(e) = [c \in Columns |-> IF c = IdColumn THEN new ELSE e[c]]
  BY <1>1, <1>2
<1>6. /\ Numbered(e) = [c \in Columns |-> Numbered(e)[c]] /\ Numbered(e)[IdColumn] = new
      /\ \A c \in Columns \ {IdColumn} : Numbered(e)[c] = e[c]
  BY <1>1, <1>5
<1>7. WholeEntity(Numbered(e))
  BY <1>3, <1>4, <1>6 DEF WholeEntity
<1> QED  BY <1>4, <1>6, <1>7 DEF e

\* Rows that bring their id, and rows that are given one.
LEMMA AddedWithId ==
  ASSUME RowsAreEntities, NEW n \in Nat \ {0}, NEW v
  PROVE  LET e == Entity(n, v)
             q == TableInsert(Cells(TableColumns, e))
         IN  /\ Refused(q) <=> Taken(e)
             /\ ~Taken(e) => RowsAre(AfterCommand(q), kept \cup {e})
<1> DEFINE e == Entity(n, v)
           q == TableInsert(Cells(TableColumns, e))
<1>1. WholeEntity(e)
  BY EntityIs DEF RowsAreEntities
<1>2. Distinct(TableColumns) /\ IdColumn \in Columns
  BY ColumnsAre DEF RowsAreEntities
<1> HIDE DEF e
<1>3. /\ q.text.verb = "INSERT" /\ SetColumns(q) = TableColumns
      /\ \A c \in Columns : SetTo(q, c) = e[c]
  BY <1>2, InsertSets DEF Columns
<1> HIDE DEF q
<1>4. IdOf(q) = e[IdColumn]
  BY <1>2, <1>3 DEF IdOf, Columns
<1>5. (Refused(q) <=> Taken(e)) /\ (~Taken(e) => RowsAre(AfterCommand(q), kept \cup {e}))
  BY <1>1, <1>3, <1>4, InsertAdds
<1> QED  BY <1>5 DEF q, e

LEMMA AddedWithout ==
  ASSUME RowsAreEntities, NEW v, NEW q, q.text.verb = "INSERT",
         SetColumns(q) = Tail(TableColumns),
         \A c \in Range(Tail(TableColumns)) : SetTo(q, c) = Entity(0, v)[c]
  PROVE  LET e == Numbered(Entity(0, v))
         IN  /\ Refused(q) <=> Taken(e)
             /\ ~Taken(e) => RowsAre(AfterCommand(q), kept \cup {e})
<1> DEFINE e == Numbered(Entity(0, v))
<1>1. /\ WholeEntity(e) /\ e[IdColumn] = V(IdColumn, NextId)
      /\ \A c \in Columns \ {IdColumn} : e[c] = Entity(0, v)[c]
  BY NumberedIs
<1>2. Range(Tail(TableColumns)) = Columns \ {IdColumn}
  BY ColumnsAre DEF RowsAreEntities
<1> HIDE DEF e
<1>3. IdOf(q) = e[IdColumn]
  BY <1>1, <1>2 DEF IdOf
<1>4. \A c \in Columns \ {IdColumn} : SetTo(q, c) = e[c]
  BY <1>1, <1>2
<1>5. (Refused(q) <=> Taken(e)) /\ (~Taken(e) => RowsAre(AfterCommand(q), kept \cup {e}))
  BY <1>1, <1>3, <1>4, InsertAdds
<1> QED  BY <1>5 DEF e

LEMMA ChangedById ==
  ASSUME RowsAreEntities, NEW n \in Nat \ {0}, NEW v, NEW q, q.text.verb = "UPDATE",
         SetColumns(q) = Tail(TableColumns),
         RowsWhere(q) = Chosen([c \in {IdColumn} |-> Entity(n, v)[IdColumn]]),
         \A c \in Range(Tail(TableColumns)) : SetTo(q, c) = Entity(n, v)[c],
         Change(q, Entity(n, v))
  PROVE  RowsAreEntities' /\ RepositoriesKeepTheirWord'
<1> DEFINE e == Entity(n, v)
<1>1. WholeEntity(e)
  BY EntityIs DEF RowsAreEntities
<1>2. Range(Tail(TableColumns)) = Columns \ {IdColumn}
  BY ColumnsAre DEF RowsAreEntities
<1>3. Change(q, e)
  OBVIOUS
<1>4. ~Refused(q) /\ RowsAre(AfterCommand(q), IF Taken(e) THEN Keeping(e) ELSE kept)
  <2> HIDE DEF e
  <2>1. RowsWhere(q) = Chosen([c \in {IdColumn} |-> e[IdColumn]])
    BY DEF e
  <2>2. \A c \in Columns \ {IdColumn} : SetTo(q, c) = e[c]
    BY <1>2 DEF e
  <2> QED  BY <1>1, <1>2, <2>1, <2>2, UpdateChanges
<1> HIDE DEF e
<1> QED  BY <1>3, <1>4, ChangeKeeps

-----------------------------------------------------------------------------
(* The calls that SqlTableQuery words, of any repository.                   *)

LEMMA AllKeeps ==
  ASSUME RowsAreEntities, Read("many", TableSelect(TableColumns, <<>>), <<>>)
  PROVE  RowsAreEntities' /\ RepositoriesKeepTheirWord'
<1> DEFINE q == TableSelect(TableColumns, <<>>)
<1>1. q.text.columns = TableColumns /\ RowsWhere(q) = Chosen(<<>>) /\ Read("many", q, <<>>)
  BY AllRows
<1> HIDE DEF q
<1> QED  BY <1>1, ReadKeeps

LEMMA OneKeeps ==
  ASSUME RowsAreEntities, NEW kind \in {"many", "one"}, NEW c, NEW v,
         NEW sought, DOMAIN sought = {c}, sought[c] = v,
         \/ Read(kind, TableSelect(TableColumns, <<Is(c, v)>>), sought)
         \/ Erase(TableRemove(<<Is(c, v)>>), sought)
  PROVE  RowsAreEntities' /\ RepositoriesKeepTheirWord'
<1> DEFINE q == TableSelect(TableColumns, <<Is(c, v)>>)
           r == TableRemove(<<Is(c, v)>>)
<1>1. /\ q.text.columns = TableColumns /\ RowsWhere(q) = Chosen(sought)
      /\ r.text.verb = "DELETE" /\ RowsWhere(r) = Chosen(sought)
  <2>1. q.text.columns = TableColumns
    BY RowsWithOne
  <2>2. RowsWhere(q) = Chosen(sought)
    BY RowsWithOne
  <2>3. r.text.verb = "DELETE"
    BY RowsWithOne
  <2>4. RowsWhere(r) = Chosen(sought)
    BY RowsWithOne
  <2> QED  BY <2>1, <2>2, <2>3, <2>4
<1>2. Read(kind, q, sought) \/ Erase(r, sought)
  OBVIOUS
<1> HIDE DEF q, r
<1>3. CASE Read(kind, q, sought)
  BY <1>1, <1>3, ReadKeeps
<1>4. CASE Erase(r, sought)
  BY <1>1, <1>4, EraseKeeps
<1> QED  BY <1>2, <1>3, <1>4

LEMMA InsertKeeps ==
  ASSUME RowsAreEntities, NEW n \in Nat, NEW v, NEW welcome \in BOOLEAN, welcome => n # 0,
         Add(TableInsert(Cells(TableColumns, Entity(n, v))), welcome, Entity(n, v), welcome)
  PROVE  RowsAreEntities' /\ RepositoriesKeepTheirWord'
<1> DEFINE e == Entity(n, v)
           q == TableInsert(Cells(TableColumns, e))
<1>1. welcome => (Refused(q) <=> Taken(e))
  BY AddedWithId
<1>2. welcome /\ ~Taken(e) => RowsAre(AfterCommand(q), kept \cup {e})
  BY AddedWithId
<1>3. Add(q, welcome, e, welcome)
  OBVIOUS
<1> HIDE DEF q, e
<1> QED  BY <1>1, <1>2, <1>3, AddKeeps

LEMMA UpdateKeeps ==
  ASSUME RowsAreEntities, NEW n \in Nat \ {0}, NEW v, NEW e, e = Entity(n, v),
         Change(TableUpdate(Cells(Tail(TableColumns), e), <<Is(IdColumn, e[IdColumn])>>), e)
  PROVE  RowsAreEntities' /\ RepositoriesKeepTheirWord'
<1> DEFINE q == TableUpdate(Cells(Tail(TableColumns), e), <<Is(IdColumn, e[IdColumn])>>)
<1>1. Change(q, e)
  OBVIOUS
<1>2. /\ q.text.verb = "UPDATE" /\ SetColumns(q) = Tail(TableColumns)
      /\ RowsWhere(q) = Chosen([c \in {IdColumn} |-> e[IdColumn]])
      /\ \A d \in Range(Tail(TableColumns)) : SetTo(q, d) = e[d]
  BY UpdateSets DEF RowsAreEntities
<1> HIDE DEF q
<1> QED  BY <1>1, <1>2, ChangedById

-----------------------------------------------------------------------------
(* Tasks, blocks and the client's files.                                    *)

LEMMA TaskCallKeeps ==
  ASSUME RowsAreEntities, TaskCall
  PROVE  RowsAreEntities' /\ RepositoriesKeepTheirWord'
<1>1. /\ repository = "task" /\ TableColumns = TaskColumns /\ IdColumn = "task_id"
      /\ repository \in DOMAIN ColumnsOf
  BY ColumnsAre DEF TaskCall, RowsAreEntities, IdColumn, TaskColumns
<1>2. CASE Read("many", GetAllTasks, <<>>)
  BY <1>1, <1>2, AllKeeps DEF GetAllTasks
<1>3. CASE Count(CountTasks, <<>>)
  <2> DEFINE q == TableCount(<<>>)
  <2>1. RowsWhere(q) = Chosen(<<>>) /\ Count(q, <<>>)
    BY <1>3, AllRows DEF CountTasks
  <2> HIDE DEF q
  <2> QED  BY <2>1, CountKeeps
<1>4. CASE GetMaxTaskId
  BY <1>1, <1>4, MaxKeeps
<1>5. ASSUME NEW n \in RowIds, NEW id, id = V("task_id", n),
             Read("one", GetTask(id), [task_id |-> id]) \/ Erase(RemoveTask(id), [task_id |-> id])
      PROVE  RowsAreEntities' /\ RepositoriesKeepTheirWord'
  <2> DEFINE sought == [task_id |-> id]
  <2>1. DOMAIN sought = {"task_id"} /\ sought["task_id"] = id
    OBVIOUS
  <2>2. \/ Read("one", TableSelect(TableColumns, <<Is("task_id", id)>>), sought)
        \/ Erase(TableRemove(<<Is("task_id", id)>>), sought)
    BY <1>1, <1>5 DEF GetTask, RemoveTask
  <2> HIDE DEF sought
  <2> QED  BY <2>1, <2>2, OneKeeps
<1>6. ASSUME NEW n \in {0, 1}, NEW id, id = V("file_id", n),
             Read("many", GetTasksOfFile(id), [file_id |-> id])
      PROVE  RowsAreEntities' /\ RepositoriesKeepTheirWord'
  <2> DEFINE sought == [file_id |-> id]
  <2>1. DOMAIN sought = {"file_id"} /\ sought["file_id"] = id
    OBVIOUS
  <2>2. Read("many", TableSelect(TableColumns, <<Is("file_id", id)>>), sought)
    BY <1>1, <1>6 DEF GetTasksOfFile
  <2> HIDE DEF sought
  <2> QED  BY <2>1, <2>2, OneKeeps
<1>7. ASSUME NEW n \in RowIds \cup {0}, NEW v \in Versions,
             Add(AddTask(Entity(n, v)), n > 0, Entity(n, v), n # 0)
      PROVE  RowsAreEntities' /\ RepositoriesKeepTheirWord'
  <2>1. n \in Nat /\ (n > 0) = (n # 0)
    BY RepositoriesAssumption
  <2> DEFINE welcome == n # 0
  <2>2. Add(TableInsert(Cells(TableColumns, Entity(n, v))), welcome, Entity(n, v), welcome)
    BY <1>1, <1>7, <2>1 DEF AddTask
  <2>3. welcome \in BOOLEAN /\ (welcome => n # 0)
    OBVIOUS
  <2> HIDE DEF welcome
  <2> QED  BY <2>1, <2>2, <2>3, InsertKeeps
<1>8. ASSUME NEW n \in RowIds, NEW v \in Versions,
             Change(UpdateTaskRow(Entity(n, v)), Entity(n, v))
      PROVE  RowsAreEntities' /\ RepositoriesKeepTheirWord'
  <2> DEFINE e == Entity(n, v)
  <2>1. n \in Nat \ {0} /\ e = Entity(n, v)
    BY RepositoriesAssumption
  <2> HIDE DEF e
  <2>2. Change(TableUpdate(Cells(Tail(TableColumns), e), <<Is(IdColumn, e[IdColumn])>>), e)
    BY <1>1, <1>8, <2>1 DEF UpdateTaskRow
  <2> QED  BY <2>1, <2>2, UpdateKeeps
<1> QED  BY <1>2, <1>3, <1>4, <1>5, <1>6, <1>7, <1>8 DEF TaskCall

LEMMA BlockCallKeeps ==
  ASSUME RowsAreEntities, BlockCall
  PROVE  RowsAreEntities' /\ RepositoriesKeepTheirWord'
<1>1. /\ repository = "block" /\ TableColumns = BlockColumns /\ IdColumn = "block_id"
      /\ repository \in DOMAIN ColumnsOf
  BY ColumnsAre DEF BlockCall, RowsAreEntities, IdColumn, BlockColumns
<1>2. CASE Read("many", GetAllBlocks, <<>>)
  BY <1>1, <1>2, AllKeeps DEF GetAllBlocks
<1>3. ASSUME NEW id, NEW state,
             \/ Read("many", GetBlocksOfTask(id), [task_id |-> id])
             \/ Count(CountBlocks(id, state), [task_id |-> id, state |-> state])
             \/ Read("many", GetBlocksInState(id, state), [task_id |-> id, state |-> state])
      PROVE  RowsAreEntities' /\ RepositoriesKeepTheirWord'
  <2> DEFINE sought == [task_id |-> id]
             both == [task_id |-> id, state |-> state]
             q == TableSelect(TableColumns, <<Is("task_id", id), Is("state", state)>>)
             k == TableCount(<<Is("task_id", id), Is("state", state)>>)
  <2>1. /\ DOMAIN sought = {"task_id"} /\ sought["task_id"] = id
        /\ DOMAIN both = {"task_id", "state"} /\ both["task_id"] = id /\ both["state"] = state
    OBVIOUS
  <2>2. \/ Read("many", TableSelect(TableColumns, <<Is("task_id", id)>>), sought)
        \/ Count(k, both)
        \/ Read("many", q, both)
    BY <1>1, <1>3 DEF GetBlocksOfTask, CountBlocks, GetBlocksInState
  <2> HIDE DEF sought, both
  <2>3. q.text.columns = TableColumns /\ RowsWhere(q) = Chosen(both) /\ RowsWhere(k) = Chosen(both)
    BY <2>1, RowsWithTwo
  <2> HIDE DEF q, k
  <2>4. CASE Read("many", TableSelect(TableColumns, <<Is("task_id", id)>>), sought)
    BY <2>1, <2>4, OneKeeps
  <2>5. CASE Count(k, both)
    BY <2>3, <2>5, CountKeeps
  <2>6. CASE Read("many", q, both)
    BY <2>3, <2>6, ReadKeeps
  <2> QED  BY <2>2, <2>4, <2>5, <2>6
<1>4. ASSUME NEW n \in RowIds, NEW id, id = V("block_id", n),
             Read("one", GetBlock(id), [block_id |-> id]) \/ Erase(RemoveBlock(id), [block_id |-> id])
      PROVE  RowsAreEntities' /\ RepositoriesKeepTheirWord'
  <2> DEFINE sought == [block_id |-> id]
  <2>1. DOMAIN sought = {"block_id"} /\ sought["block_id"] = id
    OBVIOUS
  <2>2. \/ Read("one", TableSelect(TableColumns, <<Is("block_id", id)>>), sought)
        \/ Erase(TableRemove(<<Is("block_id", id)>>), sought)
    BY <1>1, <1>4 DEF GetBlock, RemoveBlock
  <2> HIDE DEF sought
  <2> QED  BY <2>1, <2>2, OneKeeps
<1>5. ASSUME NEW v \in Versions,
             Add(AddBlockRow(Entity(0, v)), TRUE, Numbered(Entity(0, v)), TRUE)
      PROVE  RowsAreEntities' /\ RepositoriesKeepTheirWord'
  <2> DEFINE q == TableInsert(Cells(Tail(TableColumns), Entity(0, v)))
             e == Numbered(Entity(0, v))
  <2>1. Distinct(Tail(TableColumns))
    BY <1>1, ColumnsAre
  <2>2. /\ q.text.verb = "INSERT" /\ SetColumns(q) = Tail(TableColumns)
        /\ \A c \in Range(Tail(TableColumns)) : SetTo(q, c) = Entity(0, v)[c]
    BY <2>1, InsertSets
  <2>3. Add(q, TRUE, e, TRUE)
    BY <1>1, <1>5 DEF AddBlockRow
  <2> HIDE DEF q
  <2>4. (Refused(q) <=> Taken(e)) /\ (~Taken(e) => RowsAre(AfterCommand(q), kept \cup {e}))
    BY <2>2, AddedWithout
  <2> HIDE DEF e
  <2> QED  BY <2>3, <2>4, AddKeeps
<1>6. ASSUME NEW n \in RowIds, NEW v \in Versions,
             Change(UpdateBlock(Entity(n, v)), Entity(n, v))
      PROVE  RowsAreEntities' /\ RepositoriesKeepTheirWord'
  <2> DEFINE e == Entity(n, v)
  <2>1. n \in Nat \ {0} /\ e = Entity(n, v)
    BY RepositoriesAssumption
  <2> HIDE DEF e
  <2>2. Change(TableUpdate(Cells(Tail(TableColumns), e), <<Is(IdColumn, e[IdColumn])>>), e)
    BY <1>1, <1>6, <2>1 DEF UpdateBlock
  <2> QED  BY <2>1, <2>2, UpdateKeeps
<1> QED  BY <1>2, <1>3, <1>4, <1>5, <1>6 DEF BlockCall

LEMMA ClientFileCallKeeps ==
  ASSUME RowsAreEntities, ClientFileCall
  PROVE  RowsAreEntities' /\ RepositoriesKeepTheirWord'
<1>1. /\ repository = "client_file" /\ TableColumns = ClientFileColumns /\ IdColumn = "file_id"
      /\ repository \in DOMAIN ColumnsOf
  BY ColumnsAre DEF ClientFileCall, RowsAreEntities, IdColumn, ClientFileColumns
<1>2. CASE Read("many", GetAllClientFiles, <<>>)
  BY <1>1, <1>2, AllKeeps DEF GetAllClientFiles
<1>3. CASE Count(CountClientFiles, <<>>)
  <2> DEFINE q == TableCount(<<>>)
  <2>1. RowsWhere(q) = Chosen(<<>>) /\ Count(q, <<>>)
    BY <1>3, AllRows DEF CountClientFiles
  <2> HIDE DEF q
  <2> QED  BY <2>1, CountKeeps
<1>4. ASSUME NEW n \in RowIds, NEW id, id = V("file_id", n),
             \/ Read("one", GetClientFile(id), [file_id |-> id])
             \/ Erase(RemoveClientFile(id), [file_id |-> id])
      PROVE  RowsAreEntities' /\ RepositoriesKeepTheirWord'
  <2> DEFINE sought == [file_id |-> id]
  <2>1. DOMAIN sought = {"file_id"} /\ sought["file_id"] = id
    OBVIOUS
  <2>2. \/ Read("one", TableSelect(TableColumns, <<Is("file_id", id)>>), sought)
        \/ Erase(TableRemove(<<Is("file_id", id)>>), sought)
    BY <1>1, <1>4 DEF GetClientFile, RemoveClientFile
  <2> HIDE DEF sought
  <2> QED  BY <2>1, <2>2, OneKeeps
<1>5. ASSUME NEW n \in {0, 1}, NEW m, m = V("md5_code", n),
             Read("one", GetClientFileByMd5(m), [md5_code |-> m])
      PROVE  RowsAreEntities' /\ RepositoriesKeepTheirWord'
  <2> DEFINE q == GetClientFileByMd5(m)
             sought == [md5_code |-> m]
  <2>1. /\ SetColumns(q) = <<>> /\ DOMAIN q.text.where = {1} /\ q.text.where[1] = "md5_code"
        /\ q.bound[1] = m /\ q.text.columns = TableColumns
    BY <1>1 DEF GetClientFileByMd5, BuildSelectString, SetColumns
  <2>2. DOMAIN sought = {"md5_code"} /\ sought["md5_code"] = m
    OBVIOUS
  <2>3. Read("one", q, sought)
    BY <1>5
  <2> HIDE DEF q, sought
  <2>4. RowsWhere(q) = Chosen(sought)
    BY <2>1, <2>2, WhereFirst
  <2> QED  BY <2>1, <2>3, <2>4, ReadKeeps
<1>6. ASSUME NEW n \in RowIds, NEW v \in Versions,
             Add(AddClientFile(Entity(n, v)), TRUE, Entity(n, v), TRUE)
      PROVE  RowsAreEntities' /\ RepositoriesKeepTheirWord'
  <2>1. n \in Nat /\ n # 0
    BY RepositoriesAssumption
  <2>2. Add(TableInsert(Cells(TableColumns, Entity(n, v))), TRUE, Entity(n, v), TRUE)
    BY <1>1, <1>6 DEF AddClientFile
  <2> QED  BY <2>1, <2>2, InsertKeeps
<1>7. ASSUME NEW n \in RowIds, NEW v \in Versions,
             Change(UpdateClientFile(Entity(n, v)), Entity(n, v))
      PROVE  RowsAreEntities' /\ RepositoriesKeepTheirWord'
  <2> DEFINE e == Entity(n, v)
  <2>1. n \in Nat \ {0} /\ e = Entity(n, v)
    BY RepositoriesAssumption
  <2> HIDE DEF e
  <2>2. Change(TableUpdate(Cells(Tail(TableColumns), e), <<Is(IdColumn, e[IdColumn])>>), e)
    BY <1>1, <1>7, <2>1 DEF UpdateClientFile
  <2> QED  BY <2>1, <2>2, UpdateKeeps
<1> QED  BY <1>2, <1>3, <1>4, <1>5, <1>6, <1>7 DEF ClientFileCall

-----------------------------------------------------------------------------
(* The server's files, by texts of their own.                               *)

LEMMA ServerColumns ==
  /\ Tail(ServerFileColumns) = <<"file_name", "resource_path", "file_size", "md5_code">>
  /\ Len(Tail(ServerFileColumns)) = 4 /\ DOMAIN Tail(ServerFileColumns) = 1..4
<1>1. Len(ServerFileColumns) = 5
  BY DEF ServerFileColumns
<1> QED  BY <1>1 DEF ServerFileColumns

LEMMA ServerValuesAre ==
  ASSUME NEW e
  PROVE  ServerValues(e) =
           [i \in 1..Len(Tail(ServerFileColumns)) |-> e[Tail(ServerFileColumns)[i]]]
<1> DEFINE cols == Tail(ServerFileColumns)
           values == ServerValues(e)
<1>1. cols = <<"file_name", "resource_path", "file_size", "md5_code">> /\ Len(cols) = 4
  BY ServerColumns
<1>2. values = [i \in 1..4 |-> values[i]]
  BY DEF ServerValues
<1>3. /\ values[1] = e["file_name"] /\ values[2] = e["resource_path"]
      /\ values[3] = e["file_size"] /\ values[4] = e["md5_code"]
  BY DEF ServerValues
<1> HIDE DEF cols, values
<1>4. \A i \in 1..4 : values[i] = e[cols[i]]
  <2>1. /\ cols[1] = "file_name" /\ cols[2] = "resource_path"
        /\ cols[3] = "file_size" /\ cols[4] = "md5_code"
    BY <1>1
  <2> QED  BY <1>3, <2>1
<1> QED  BY <1>1, <1>2, <1>4 DEF cols, values

LEMMA ServerInsertSets ==
  ASSUME repository = "server_file", NEW e
  PROVE  LET q == AddServerFile(e)
         IN  /\ q.text.verb = "INSERT" /\ SetColumns(q) = Tail(TableColumns)
             /\ \A d \in Range(Tail(TableColumns)) : SetTo(q, d) = e[d]
<1> DEFINE q == AddServerFile(e)
           cols == Tail(TableColumns)
<1>1. TableColumns = ServerFileColumns /\ Distinct(cols)
  BY ColumnsAre DEF ColumnsOf
<1>2. q.text.verb = "INSERT" /\ SetColumns(q) = cols /\ q.bound = ServerValues(e)
  BY <1>1 DEF AddServerFile, ServerText, SetColumns
<1>3. ServerValues(e) = [i \in 1..Len(cols) |-> e[cols[i]]]
  BY <1>1, ServerValuesAre
<1> HIDE DEF q, cols
<1>4. \A i \in 1..Len(cols) : q.bound[i] = e[cols[i]]
  BY <1>2, <1>3
<1>5. ASSUME NEW d \in Range(cols) PROVE SetTo(q, d) = e[d]
  <2>1. Distinct(cols) /\ SetColumns(q) = cols
    BY <1>1, <1>2
  <2> QED  BY ONLY <2>1, <1>4, SetToGives
<1> QED  BY <1>2, <1>5 DEF q, cols

LEMMA ServerUpdateSets ==
  ASSUME repository = "server_file", NEW e
  PROVE  LET q == UpdateServerFile(e)
         IN  /\ q.text.verb = "UPDATE" /\ SetColumns(q) = Tail(TableColumns)
             /\ RowsWhere(q) = Chosen([c \in {IdColumn} |-> e[IdColumn]])
             /\ \A d \in Range(Tail(TableColumns)) : SetTo(q, d) = e[d]
<1> DEFINE q == UpdateServerFile(e)
           cols == Tail(TableColumns)
           v == e.file_id
<1>1. TableColumns = ServerFileColumns /\ Distinct(cols) /\ IdColumn = "file_id"
  BY ColumnsAre DEF ColumnsOf, IdColumn, ServerFileColumns
<1>2. /\ q.text.verb = "UPDATE" /\ SetColumns(q) = cols /\ q.bound = ServerValues(e) \o <<v>>
      /\ DOMAIN q.text.where = {1} /\ q.text.where[1] = IdColumn
  BY <1>1 DEF UpdateServerFile, ServerText, SetColumns
<1>3. ServerValues(e) = [i \in 1..Len(cols) |-> e[cols[i]]]
  BY <1>1, ServerValuesAre
<1> HIDE DEF q, cols, v
<1>4. q.bound = [i \in 1..Len(cols) |-> e[cols[i]]] \o <<v>>
  BY <1>2, <1>3
<1>5. \A i \in 1..Len(cols) : q.bound[i] = e[cols[i]]
  BY <1>1, <1>4, BoundInOrder
<1>6. q.bound[Len(cols) + 1] = v
  BY <1>1, <1>4, BoundInOrder
<1>7. ASSUME NEW d \in Range(cols) PROVE SetTo(q, d) = e[d]
  <2>1. Distinct(cols) /\ SetColumns(q) = cols
    BY <1>1, <1>2
  <2> QED  BY ONLY <2>1, <1>5, SetToGives
<1>8. RowsWhere(q) = Chosen([c \in {IdColumn} |-> v])
  BY <1>2, <1>6 DEF RowsWhere, Chosen
<1>9. v = e[IdColumn]
  BY <1>1 DEF v
<1> QED  BY <1>2, <1>7, <1>8, <1>9 DEF q, cols

LEMMA ServerFileCallKeeps ==
  ASSUME RowsAreEntities, ServerFileCall
  PROVE  RowsAreEntities' /\ RepositoriesKeepTheirWord'
<1>1. /\ repository = "server_file" /\ TableColumns = ServerFileColumns /\ IdColumn = "file_id"
      /\ repository \in DOMAIN ColumnsOf
  BY ColumnsAre DEF ServerFileCall, RowsAreEntities, IdColumn, ServerFileColumns
<1>2. CASE Read("many", GetAllServerFiles, <<>>)
  <2> DEFINE q == GetAllServerFiles
  <2>1. q.text.columns = TableColumns /\ DOMAIN q.text.where = {} /\ Read("many", q, <<>>)
    BY <1>1, <1>2 DEF GetAllServerFiles, ServerText
  <2> HIDE DEF q
  <2>2. RowsWhere(q) = Chosen(<<>>)
    BY <2>1, WhereAll
  <2> QED  BY <2>1, <2>2, ReadKeeps
<1>3. CASE Count(CountServerFiles, <<>>)
  <2> DEFINE q == CountServerFiles
  <2>1. DOMAIN q.text.where = {} /\ Count(q, <<>>)
    BY <1>3 DEF CountServerFiles, ServerText
  <2> HIDE DEF q
  <2>2. RowsWhere(q) = Chosen(<<>>)
    BY <2>1, WhereAll
  <2> QED  BY <2>1, <2>2, CountKeeps
<1>4. ASSUME NEW n \in RowIds, NEW id, id = V("file_id", n),
             \/ Read("one", GetServerFile(id), [file_id |-> id])
             \/ Erase(RemoveServerFile(id), [file_id |-> id])
      PROVE  RowsAreEntities' /\ RepositoriesKeepTheirWord'
  <2> DEFINE q == GetServerFile(id)
             r == RemoveServerFile(id)
             sought == [file_id |-> id]
  <2>1. /\ SetColumns(q) = <<>> /\ DOMAIN q.text.where = {1} /\ q.text.where[1] = "file_id"
        /\ q.bound[1] = id /\ q.text.columns = TableColumns
    BY <1>1 DEF GetServerFile, ServerText, SetColumns
  <2>2. /\ SetColumns(r) = <<>> /\ DOMAIN r.text.where = {1} /\ r.text.where[1] = "file_id"
        /\ r.bound[1] = id /\ r.text.verb = "DELETE"
    BY DEF RemoveServerFile, ServerText, SetColumns
  <2>3. DOMAIN sought = {"file_id"} /\ sought["file_id"] = id
    OBVIOUS
  <2>4. Read("one", q, sought) \/ Erase(r, sought)
    BY <1>4
  <2> HIDE DEF q, r, sought
  <2>5. RowsWhere(q) = Chosen(sought)
    BY <2>1, <2>3, WhereFirst
  <2>6. RowsWhere(r) = Chosen(sought)
    BY <2>2, <2>3, WhereFirst
  <2>7. CASE Read("one", q, sought)
    BY <2>1, <2>5, <2>7, ReadKeeps
  <2>8. CASE Erase(r, sought)
    BY <2>2, <2>6, <2>8, EraseKeeps
  <2> QED  BY <2>4, <2>7, <2>8
<1>5. ASSUME NEW m
      PROVE  /\ GetServerFileByMd5(m).text.columns = TableColumns
             /\ RowsWhere(GetServerFileByMd5(m)) = Chosen([md5_code |-> m])
  <2> DEFINE q == GetServerFileByMd5(m)
             sought == [md5_code |-> m]
  <2>1. /\ SetColumns(q) = <<>> /\ DOMAIN q.text.where = {1} /\ q.text.where[1] = "md5_code"
        /\ q.bound[1] = m /\ q.text.columns = TableColumns
    BY <1>1 DEF GetServerFileByMd5, ServerText, SetColumns
  <2>2. DOMAIN sought = {"md5_code"} /\ sought["md5_code"] = m
    OBVIOUS
  <2> HIDE DEF q, sought
  <2>3. RowsWhere(q) = Chosen(sought)
    BY <2>1, <2>2, WhereFirst
  <2> QED  BY <2>1, <2>3 DEF q, sought
<1>6. ASSUME NEW m, Read("one", GetServerFileByMd5(m), [md5_code |-> m])
      PROVE  RowsAreEntities' /\ RepositoriesKeepTheirWord'
  <2> DEFINE q == GetServerFileByMd5(m)
             sought == [md5_code |-> m]
  <2>1. q.text.columns = TableColumns /\ RowsWhere(q) = Chosen(sought) /\ Read("one", q, sought)
    BY <1>5, <1>6
  <2> HIDE DEF q, sought
  <2> QED  BY <2>1, ReadKeeps
<1>7. ASSUME NEW v \in Versions, NEW f, f = Entity(0, v),
             Add(AddServerFile(f), Found(GetServerFileByMd5(f.md5_code)) = <<>>, Numbered(f),
                 Matching([md5_code |-> f.md5_code]) = {})
      PROVE  RowsAreEntities' /\ RepositoriesKeepTheirWord'
  <2> DEFINE q == AddServerFile(f)
             e == Numbered(f)
             same == GetServerFileByMd5(f.md5_code)
             sought == [md5_code |-> f.md5_code]
             guard == Found(same) = <<>>
             welcome == Matching(sought) = {}
  <2>1. /\ q.text.verb = "INSERT" /\ SetColumns(q) = Tail(TableColumns)
        /\ \A c \in Range(Tail(TableColumns)) : SetTo(q, c) = f[c]
    BY <1>1, ServerInsertSets
  <2>2. same.text.columns = TableColumns /\ RowsWhere(same) = Chosen(sought)
    BY <1>5
  <2>3. Add(q, guard, e, welcome)
    BY <1>7
  <2> HIDE DEF q, same, sought
  <2>4. guard <=> welcome
    BY <2>2, ReadGives
  <2>7. Add(q, welcome, e, welcome)
    <3>1. guard = welcome
      BY <2>4
    <3> HIDE DEF guard, welcome, e
    <3> QED  BY <2>3, <3>1
  <2>5. (Refused(q) <=> Taken(e)) /\ (~Taken(e) => RowsAre(AfterCommand(q), kept \cup {e}))
    BY <1>7, <2>1, AddedWithout
  <2> HIDE DEF e, guard, welcome
  <2>6. /\ welcome => (Refused(q) <=> Taken(e))
        /\ welcome /\ ~Taken(e) => RowsAre(AfterCommand(q), kept \cup {e})
    BY <2>5
  <2> QED  BY <2>6, <2>7, AddKeeps
<1>8. ASSUME NEW n \in RowIds, NEW v \in Versions,
             Change(UpdateServerFile(Entity(n, v)), Entity(n, v))
      PROVE  RowsAreEntities' /\ RepositoriesKeepTheirWord'
  <2> DEFINE e == Entity(n, v)
             q == UpdateServerFile(e)
  <2>1. n \in Nat \ {0} /\ e = Entity(n, v) /\ Change(q, e)
    BY <1>8, RepositoriesAssumption
  <2> HIDE DEF e
  <2>2. /\ q.text.verb = "UPDATE" /\ SetColumns(q) = Tail(TableColumns)
        /\ RowsWhere(q) = Chosen([c \in {IdColumn} |-> e[IdColumn]])
        /\ \A d \in Range(Tail(TableColumns)) : SetTo(q, d) = e[d]
    BY <1>1, ServerUpdateSets
  <2> HIDE DEF q
  <2> QED  BY <2>1, <2>2, ChangedById
<1> QED  BY <1>2, <1>3, <1>4, <1>6, <1>7, <1>8 DEF ServerFileCall

-----------------------------------------------------------------------------
(* The repositories keep their word.                                        *)

LEMMA StartKeeps ==
  ASSUME RepositoriesInit
  PROVE  RowsAreEntities /\ RepositoriesKeepTheirWord
<1>1. DOMAIN rows = {} /\ kept = {} /\ repository \in DOMAIN ColumnsOf
  BY DEF RepositoriesInit
<1>2. RowsAreEntities
  BY <1>1, FS_EmptySet DEF RowsAreEntities, RowsAre
<1>3. RepositoriesKeepTheirWord
  BY DEF RepositoriesInit, RepositoriesKeepTheirWord
<1> QED  BY <1>2, <1>3

\* Opening the database and making the table touch no row and answer nobody.
LEMMA OthersKeep ==
  ASSUME RowsAreEntities, RepositoriesKeepTheirWord,
         \/ InitDatabase \/ EnsureTableExists \/ InitRepository
         \/ UNCHANGED repositoryVars
  PROVE  RowsAreEntities' /\ RepositoriesKeepTheirWord'
<1>1. repository' = repository /\ rows' = rows /\ kept' = kept /\ answered' = answered
  BY DEF InitDatabase, EnsureTableExists, InitRepository, repositoryVars
<1>2. Columns' = Columns /\ IdColumn' = IdColumn
  BY <1>1 DEF Columns, IdColumn, TableColumns
<1>3. RowsAreEntities'
  BY <1>1, <1>2 DEF RowsAreEntities, RowsAre
<1>4. RepositoriesKeepTheirWord'
  BY <1>1 DEF RepositoriesKeepTheirWord
<1> QED  BY <1>3, <1>4

\* After any calls in any order, whatever was refused among them, each of the four
\* repositories answers from exactly the entities its callers have added, changed and not
\* removed (RepositoriesKeepTheirWord), for any number of ids and of contents: the texts of
\* SqlBuilder and of ServerFileInfoRepository and the order in which their values are bound.
THEOREM RepositoriesAnswerRight == RepositoriesSpec => []RepositoriesKeepTheirWord
<1> DEFINE Inv == RowsAreEntities /\ RepositoriesKeepTheirWord
<1>1. RepositoriesInit => Inv
  BY StartKeeps
<1>2. Inv /\ [RepositoriesNext]_repositoryVars => Inv'
  <2> SUFFICES ASSUME RowsAreEntities, RepositoriesKeepTheirWord,
                      [RepositoriesNext]_repositoryVars
               PROVE  RowsAreEntities' /\ RepositoriesKeepTheirWord'
    OBVIOUS
  <2>1. CASE TaskCall
    BY <2>1, TaskCallKeeps
  <2>2. CASE BlockCall
    BY <2>2, BlockCallKeeps
  <2>3. CASE ClientFileCall
    BY <2>3, ClientFileCallKeeps
  <2>4. CASE ServerFileCall
    BY <2>4, ServerFileCallKeeps
  <2>5. CASE InitDatabase \/ EnsureTableExists \/ InitRepository \/ UNCHANGED repositoryVars
    BY <2>5, OthersKeep
  <2> QED  BY <2>1, <2>2, <2>3, <2>4, <2>5 DEF RepositoriesNext
<1>3. Inv => RepositoriesKeepTheirWord
  OBVIOUS
<1> QED  BY <1>1, <1>2, <1>3, PTL DEF RepositoriesSpec
=============================================================================
