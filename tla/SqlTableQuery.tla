----------------------------- MODULE SqlTableQuery -----------------------------
(***************************************************************************)
(* TaskRepository's table over SqlTableQuery, SqlQuery, SqliteDriver and   *)
(* SQLite, used by the client's two threads: the UI thread adds and reads  *)
(* tasks, the scheduler reads and updates them.  A call prepares, resets,  *)
(* binds one value after the other and executes.  Nothing is locked across *)
(* these: the SqlQuery remembers one SQL text for whoever speaks next, and *)
(* the driver keeps one statement per text.                                *)
(*                                                                         *)
(* SQLite itself is external and serialises its calls.  The threads race   *)
(* on the std::string m_sql and on the map of statements too; here each    *)
(* access to them is atomic.                                               *)
(***************************************************************************)
EXTENDS Integers, Sequences

CONSTANTS
  Ui, Scheduler,  \* the threads
  TaskIds,        \* the ids of the tasks there are at first
  NewIds,         \* the ids tasks are added under
  InitialState,   \* what is stored in the first rows
  States,         \* what calls store
  MaxSqlCalls     \* bound: how many calls the threads make together

\* 0 stands for a value that is missing.
ASSUME SqlAssumption ==
  /\ TaskIds \cup NewIds \cup States \subseteq Nat \ {0}
  /\ Ui # Scheduler /\ MaxSqlCalls \in Nat

SqlThreads == {Ui, Scheduler}
Texts      == {"select", "update", "insert"}    \* the SQL texts the builder makes
Null       == 0                                 \* an unbound parameter; no id is 0
NoRow      == <<>>

\* Values in the order of their placeholders: a row is found by `id >= ? AND id <= ?'.
Params(op, id, state) ==
  CASE op = "select" -> <<id, id>>
    [] op = "update" -> <<state, id, id>>
    [] op = "insert" -> <<id, state>>

VARIABLES
  rows,      \* the table: task_id -> state
  m_sql,     \* SqlQuery::m_sql
  m_stmts,   \* SqliteDriver::m_stmts: text -> [at, bound, cursor]
  call,      \* thread -> the call it makes, where it is in it and what it has read
  made       \* how many calls have begun

sqlVars == <<rows, m_sql, m_stmts, call, made>>

SqlInit ==
  /\ rows = [id \in TaskIds |-> InitialState]
  /\ m_sql = "" /\ m_stmts = <<>>
  /\ call = [t \in SqlThreads |-> [at |-> "idle"]]
  /\ made = 0

Fresh(text) == [at |-> "ready", bound |-> [i \in DOMAIN Params(text, 0, 0) |-> Null], cursor |-> 0]

Busy(t)    == call[t].at # "idle"
Goes(t, where) == [call EXCEPT ![t].at = where]

-----------------------------------------------------------------------------
\* SqlQuery::prepare, SqliteDriver::prepare
Prepare(t, op, id, state) ==
  /\ m_sql' = op
  /\ m_stmts' = IF op \in DOMAIN m_stmts THEN m_stmts
                ELSE [x \in DOMAIN m_stmts \cup {op} |-> IF x = op THEN Fresh(op) ELSE m_stmts[x]]

\* SqlTableQuery::select, update and insert begin.
BeginSql(t, op, id, state) ==
  /\ ~Busy(t) /\ made < MaxSqlCalls
  /\ op \in (IF t = Ui THEN {"select", "insert"} ELSE {"select", "update"})
  /\ Prepare(t, op, id, state)
  /\ made' = made + 1
  /\ call' = [u \in SqlThreads |->
       IF u = t
       THEN [at |-> "reset", op |-> op, params |-> Params(op, id, state), id |-> id,
             state |-> state, next |-> 1, read |-> NoRow, shared |-> \E v \in SqlThreads \ {t} : Busy(v)]
       ELSE IF Busy(u) THEN [call[u] EXCEPT !.shared = TRUE] ELSE call[u]]
  /\ UNCHANGED rows

\* A slip: the statement is left where the last call left it.
ResetSql_Not(t) ==
  /\ call[t].at = "reset"
  /\ call' = Goes(t, "bind")
  /\ UNCHANGED <<rows, m_sql, m_stmts, made>>

\* SqlQuery::reset: the bound values stay.
ResetSql(t) ==
  /\ call[t].at = "reset"
  /\ m_stmts' = [m_stmts EXCEPT ![m_sql].at = "ready", ![m_sql].cursor = 0]
  /\ call' = Goes(t, "bind")
  /\ UNCHANGED <<rows, m_sql, made>>

\* SqlQuery::bind, its result not looked at.  SQLite refuses to bind to a statement that
\* has been stepped and not reset, and a parameter the statement does not have.
BindSql(t) ==
  LET i == call[t].next
  IN  /\ call[t].at = "bind"
      /\ m_stmts' = IF m_stmts[m_sql].at = "ready" /\ i \in DOMAIN m_stmts[m_sql].bound
                    THEN [m_stmts EXCEPT ![m_sql].bound[i] = call[t].params[i]]
                    ELSE m_stmts
      /\ call' = [call EXCEPT ![t].next = i + 1,
                              ![t].at = IF i = Len(call[t].params) THEN "execute" ELSE "bind"]
      /\ UNCHANGED <<rows, m_sql, made>>

-----------------------------------------------------------------------------
(* sqlite3_step.  A statement that was stepped to its end starts anew.      *)

Bound(i)  == m_stmts[m_sql].bound[i]
Stepped   == [m_stmts EXCEPT ![m_sql].at = "halted", ![m_sql].cursor = 0]
Within(lo, hi, id) == lo # Null /\ hi # Null /\ lo <= id /\ id <= hi

\* The rows a SELECT has still to give, by rowid.
Ahead ==
  {id \in DOMAIN rows : Within(Bound(1), Bound(2), id) /\ id > m_stmts[m_sql].cursor}

StepSelect(t) ==
  /\ m_sql = "select"
  /\ IF Ahead = {} THEN m_stmts' = Stepped /\ call' = Goes(t, "idle")
     ELSE LET next == CHOOSE id \in Ahead : \A other \in Ahead : id <= other
          IN  /\ m_stmts' = [m_stmts EXCEPT ![m_sql].at = "running", ![m_sql].cursor = next]
              /\ call' = IF call[t].op # "select" THEN Goes(t, "idle")
                         ELSE IF call[t].read # NoRow THEN call
                         ELSE [call EXCEPT ![t].read = <<next, rows[next]>>]
  /\ UNCHANGED rows

StepUpdate(t) ==
  /\ m_sql = "update"
  /\ rows' = [id \in DOMAIN rows |->
                IF Bound(1) # Null /\ Within(Bound(2), Bound(3), id) THEN Bound(1) ELSE rows[id]]
  /\ m_stmts' = Stepped /\ call' = Goes(t, "idle")

\* A key that is taken and a value that is missing are refused.
StepInsert(t) ==
  /\ m_sql = "insert"
  /\ rows' = IF Bound(1) \in DOMAIN rows \/ Null \in {Bound(1), Bound(2)} THEN rows
             ELSE [id \in DOMAIN rows \cup {Bound(1)} |->
                     IF id = Bound(1) THEN Bound(2) ELSE rows[id]]
  /\ m_stmts' = Stepped /\ call' = Goes(t, "idle")

\* execute_query steps until there is no row, execute_command once.
ExecuteSql(t) ==
  /\ call[t].at = "execute"
  /\ StepSelect(t) \/ StepUpdate(t) \/ StepInsert(t)
  /\ UNCHANGED <<m_sql, made>>

SqlThread(t) ==
  \/ \E id \in TaskIds, s \in States : BeginSql(t, "select", id, s) \/ BeginSql(t, "update", id, s)
  \/ \E id \in NewIds, s \in States : BeginSql(t, "insert", id, s)
  \/ ResetSql(t) \/ BindSql(t) \/ ExecuteSql(t)

SqlNext == \E t \in SqlThreads : SqlThread(t)

SqlSpec == SqlInit /\ [][SqlNext]_sqlVars

-----------------------------------------------------------------------------
Ends(t) == Busy(t) /\ call'[t].at = "idle"

\* A call that no other call overlaps does what it was asked to, whatever calls came
\* before it, on the same statement or not, and however badly they had been mixed up: a
\* SELECT reads its row or none, UPDATE and INSERT write their row and no other
\* (sql_table_query.cpp, which resets but never clears the bindings).
AloneDoesWhatWasAsked ==
  [][\A t \in SqlThreads : Ends(t) /\ ~call[t].shared =>
       LET c == call[t]
       IN  CASE c.op = "select" ->
                  c.read = IF c.id \in DOMAIN rows THEN <<c.id, rows[c.id]>> ELSE NoRow
             [] c.op = "update" ->
                  rows' = [id \in DOMAIN rows |-> IF id = c.id THEN c.state ELSE rows[id]]
             [] c.op = "insert" ->
                  rows' = [id \in DOMAIN rows \cup {c.id} |->
                             IF id \in DOMAIN rows THEN rows[id] ELSE c.state]]_sqlVars

\* What is documented: get_by_task_id(id) returns the task with that id
\* (task_repository.hpp:51).
SelectsItsTask ==
  [][\A t \in SqlThreads :
       Ends(t) /\ call[t].op = "select" /\ call[t].read # NoRow => call[t].read[1] = call[t].id]_sqlVars
=============================================================================
