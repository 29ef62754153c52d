------------------------------ MODULE Repositories ------------------------------
(***************************************************************************)
(* The repositories of both programs, each over one table: TaskRepository, *)
(* BlockRepository and ClientFileRepository over SqlTableQuery and         *)
(* SqlBuilder, ServerFileInfoRepository over texts of its own.             *)
(*                                                                         *)
(* A call becomes an SQL text, here the record of what it says, and the    *)
(* values bound to its placeholders in their order.  A value is tagged     *)
(* with what it is, so that one put in another's place is seen.  The       *)
(* threads that call, and what a statement keeps from one call to the      *)
(* next, are SqlTableQuery's subject.                                      *)
(***************************************************************************)
EXTENDS Integers, Sequences, SequencesExt, FiniteSets, FiniteSetsExt, Functions

CONSTANTS
  RowIds,     \* bound: the ids rows may have
  Versions    \* the different contents an entity may have

ASSUME RepositoriesAssumption == RowIds \subseteq Nat \ {0} /\ Versions \subseteq Nat

VARIABLES
  repository,    \* the one this behaviour is about
  m_db,          \* the database: "absent", then "null", "broken" or "open"
  m_is_init,     \* whether the repository lets calls through to the database
  table,         \* the columns of its table with their types, {} when there is none
  rows,          \* its table: id -> row, a row being column -> value
  kept,          \* history: the entities the callers may count on
  answered       \* history: the last call, its answer and the one promised

repositoryVars == <<repository, m_db, m_is_init, table, rows, kept, answered>>

V(column, n) == <<column, n>>

-----------------------------------------------------------------------------
(* The tables, as each init() describes them; the id is the first column    *)
(* and SQLite's rowid.                                                      *)

TaskColumns ==
  <<"task_id", "file_id", "saved_path", "source_url", "operation", "state", "start_time", "end_time">>
BlockColumns ==
  <<"block_id", "task_id", "file_id", "offset", "block_size", "state", "start_time", "end_time">>
ClientFileColumns == <<"file_id", "file_name", "file_size", "md5_code">>
ServerFileColumns == <<"file_id", "file_name", "resource_path", "file_size", "md5_code">>

ColumnsOf ==
  [task |-> TaskColumns, block |-> BlockColumns, client_file |-> ClientFileColumns,
   server_file |-> ServerFileColumns]
TableColumns == ColumnsOf[repository]
IdColumn     == Head(TableColumns)

\* The data type each init() gives a column.
DataTypeOfColumn(name) ==
  IF name \in {"saved_path", "source_url", "file_name", "resource_path", "md5_code"}
  THEN "String" ELSE "Int64"

\* A column added under a name that is there takes the place of the one there.
HasColumn(item, name) == \E i \in DOMAIN item : item[i].name = name
AddColumn(item, column) ==
  IF HasColumn(item, column.name)
  THEN [i \in DOMAIN item |-> IF item[i].name = column.name THEN column ELSE item[i]]
  ELSE Append(item, column)

TableItem ==
  FoldLeft(AddColumn, <<>>, [i \in DOMAIN TableColumns |->
             [name |-> TableColumns[i], type |-> DataTypeOfColumn(TableColumns[i])]])

TableIsValid(item) == item # <<>> /\ \A i \in DOMAIN item : item[i].type # "Unknown"

\* try_format_data_type: nothing for a type SQLite has no name for.
FormatDataType(type) ==
  CASE type = "Int64"  -> {"INTEGER"}
    [] type = "Double" -> {"REAL"}
    [] type = "String" -> {"TEXT"}
    [] OTHER           -> {}

-----------------------------------------------------------------------------
(* SqlBuilder: the texts.  None when there is nothing to restrict an        *)
(* UPDATE or a DELETE.                                                      *)

NoText == [verb |-> "none", columns |-> <<>>, where |-> <<>>]

BuildCreateTableString(item) ==
  IF TableIsValid(item) /\ \A i \in DOMAIN item : FormatDataType(item[i].type) # {}
  THEN [verb |-> "CREATE", where |-> <<>>, columns |->
          [i \in DOMAIN item |-> <<item[i].name, CHOOSE t \in FormatDataType(item[i].type) : TRUE>>]]
  ELSE NoText

BuildInsertString(columns)        == [verb |-> "INSERT", columns |-> columns, where |-> <<>>]
BuildSelectString(columns, where) == [verb |-> "SELECT", columns |-> columns, where |-> where]
BuildCountString(where)           == [verb |-> "COUNT", columns |-> <<>>, where |-> where]
BuildUpdateString(columns, where) ==
  IF where = <<>> THEN NoText ELSE [verb |-> "UPDATE", columns |-> columns, where |-> where]
BuildDeleteString(where) ==
  IF where = <<>> THEN NoText ELSE [verb |-> "DELETE", columns |-> <<>>, where |-> where]

-----------------------------------------------------------------------------
(* SqlTableQuery: the text and the values, the cells' before the            *)
(* conditions'.  A condition is a column and the one value it may have.     *)

Names(cells)  == [i \in DOMAIN cells |-> cells[i][1]]
Values(cells) == [i \in DOMAIN cells |-> cells[i][2]]
Is(column, value)   == <<column, value>>
Cells(columns, e)   == [i \in DOMAIN columns |-> <<columns[i], e[columns[i]]>>]

TableInsert(cells) == [text |-> BuildInsertString(Names(cells)), bound |-> Values(cells)]
TableSelect(columns, conditions) ==
  [text |-> BuildSelectString(columns, Names(conditions)), bound |-> Values(conditions)]
TableCount(conditions) ==
  [text |-> BuildCountString(Names(conditions)), bound |-> Values(conditions)]
TableRemove(conditions) ==
  [text |-> BuildDeleteString(Names(conditions)), bound |-> Values(conditions)]

\* A slip: the conditions' values are bound first.
TableUpdate_ConditionsFirst(cells, conditions) ==
  [text |-> BuildUpdateString(Names(cells), Names(conditions)),
   bound |-> Values(conditions) \o Values(cells)]

TableUpdate(cells, conditions) ==
  [text |-> BuildUpdateString(Names(cells), Names(conditions)),
   bound |-> Values(cells) \o Values(conditions)]

-----------------------------------------------------------------------------
(* What each repository asks for.                                           *)

GetAllTasks         == TableSelect(TaskColumns, <<>>)
GetTask(id)         == TableSelect(TaskColumns, <<Is("task_id", id)>>)
GetTasksOfFile(id)  == TableSelect(TaskColumns, <<Is("file_id", id)>>)
AddTask(e)          == TableInsert(Cells(TaskColumns, e))
UpdateTaskRow(e)    == TableUpdate(Cells(Tail(TaskColumns), e), <<Is("task_id", e.task_id)>>)
RemoveTask(id)      == TableRemove(<<Is("task_id", id)>>)
CountTasks          == TableCount(<<>>)

GetAllBlocks        == TableSelect(BlockColumns, <<>>)
GetBlocksOfTask(id) == TableSelect(BlockColumns, <<Is("task_id", id)>>)
CountBlocks(id, state) == TableCount(<<Is("task_id", id), Is("state", state)>>)
GetBlocksInState(id, state) ==
  TableSelect(BlockColumns, <<Is("task_id", id), Is("state", state)>>)
\* The block's own id is left to SQLite.
AddBlockRow(e)      == TableInsert(Cells(Tail(BlockColumns), e))
GetBlock(id)        == TableSelect(BlockColumns, <<Is("block_id", id)>>)
UpdateBlock(e)      == TableUpdate(Cells(Tail(BlockColumns), e), <<Is("block_id", e.block_id)>>)
RemoveBlock(id)     == TableRemove(<<Is("block_id", id)>>)

GetAllClientFiles     == TableSelect(ClientFileColumns, <<>>)
AddClientFile(e)      == TableInsert(Cells(ClientFileColumns, e))
GetClientFile(id)     == TableSelect(ClientFileColumns, <<Is("file_id", id)>>)
GetClientFileByMd5(m) == [text |-> BuildSelectString(ClientFileColumns, <<"md5_code">>), bound |-> <<m>>]
UpdateClientFile(e)   == TableUpdate(Cells(Tail(ClientFileColumns), e), <<Is("file_id", e.file_id)>>)
RemoveClientFile(id)  == TableRemove(<<Is("file_id", id)>>)
CountClientFiles      == TableCount(<<>>)

ServerText(verb, columns, where) == [verb |-> verb, columns |-> columns, where |-> where]
ServerValues(e) == <<e.file_name, e.resource_path, e.file_size, e.md5_code>>

GetAllServerFiles     == [text |-> ServerText("SELECT", ServerFileColumns, <<>>), bound |-> <<>>]
AddServerFile(e) ==
  [text |-> ServerText("INSERT", Tail(ServerFileColumns), <<>>), bound |-> ServerValues(e)]
GetServerFile(id) ==
  [text |-> ServerText("SELECT", ServerFileColumns, <<"file_id">>), bound |-> <<id>>]
UpdateServerFile(e) ==
  [text |-> ServerText("UPDATE", Tail(ServerFileColumns), <<"file_id">>),
   bound |-> ServerValues(e) \o <<e.file_id>>]
RemoveServerFile(id) == [text |-> ServerText("DELETE", <<>>, <<"file_id">>), bound |-> <<id>>]
GetServerFileByMd5(m) ==
  [text |-> ServerText("SELECT", ServerFileColumns, <<"md5_code">>), bound |-> <<m>>]
CountServerFiles      == [text |-> ServerText("COUNT", <<>>, <<>>), bound |-> <<>>]

-----------------------------------------------------------------------------
(* SQLite.  The first values go to the columns that are set, the others to  *)
(* the conditions.                                                          *)

Ids == {id[2] : id \in DOMAIN rows}

SetColumns(q) == IF q.text.verb \in {"INSERT", "UPDATE"} THEN q.text.columns ELSE <<>>
SetTo(q, column) == q.bound[CHOOSE i \in DOMAIN SetColumns(q) : SetColumns(q)[i] = column]

RowsWhere(q) ==
  {id \in DOMAIN rows : \A i \in DOMAIN q.text.where :
     rows[id][q.text.where[i]] = q.bound[Len(SetColumns(q)) + i]}

\* No text says ORDER BY, so SQLite promises none.
InSomeOrder(ids) == SetToSeq(ids)

\* The rows a SELECT gives, its columns alone.
ExecuteQuery(q) ==
  [i \in 1..Cardinality(RowsWhere(q)) |->
     [c \in Range(q.text.columns) |-> rows[InSomeOrder(RowsWhere(q))[i]][c]]]

NextId == IF Ids = {} THEN 1 ELSE Max(Ids) + 1
IdOf(q) == IF IdColumn \in Range(SetColumns(q)) THEN SetTo(q, IdColumn) ELSE V(IdColumn, NextId)

\* The table after an INSERT, UPDATE or DELETE.
AfterCommand(q) ==
  CASE q.text.verb = "INSERT" ->
         [id \in DOMAIN rows \cup {IdOf(q)} |->
            IF id \in DOMAIN rows THEN rows[id]
            ELSE [c \in Range(TableColumns) |-> IF c = IdColumn THEN id ELSE SetTo(q, c)]]
    [] q.text.verb = "UPDATE" ->
         [id \in DOMAIN rows |->
            IF id \in RowsWhere(q)
            THEN [c \in Range(TableColumns) |->
                    IF c \in Range(SetColumns(q)) THEN SetTo(q, c) ELSE rows[id][c]]
            ELSE rows[id]]
    [] q.text.verb = "DELETE" -> Restrict(rows, DOMAIN rows \ RowsWhere(q))

\* Refused: no text, or an id that is taken.
Refused(q) == q.text = NoText \/ (q.text.verb = "INSERT" /\ IdOf(q) \in DOMAIN rows)

-----------------------------------------------------------------------------
(* from_query_data: an entity is made of the cells by their columns' names. *)

TaskFromRow(row) ==
  [task_id |-> row.task_id, file_id |-> row.file_id, saved_path |-> row.saved_path,
   source_url |-> row.source_url, operation |-> row.operation, state |-> row.state,
   start_time |-> row.start_time, end_time |-> row.end_time]

BlockFromRow(row) ==
  [block_id |-> row.block_id, task_id |-> row.task_id, file_id |-> row.file_id,
   offset |-> row.offset, block_size |-> row.block_size, state |-> row.state,
   start_time |-> row.start_time, end_time |-> row.end_time]

ClientFileFromRow(row) ==
  [file_id |-> row.file_id, file_name |-> row.file_name, file_size |-> row.file_size,
   md5_code |-> row.md5_code]

ServerFileFromRow(row) ==
  [file_id |-> row.file_id, file_name |-> row.file_name, resource_path |-> row.resource_path,
   file_size |-> row.file_size, md5_code |-> row.md5_code]

FromRow(row) ==
  CASE repository = "task"        -> TaskFromRow(row)
    [] repository = "block"       -> BlockFromRow(row)
    [] repository = "client_file" -> ClientFileFromRow(row)
    [] repository = "server_file" -> ServerFileFromRow(row)

Found(q) == [i \in DOMAIN ExecuteQuery(q) |-> FromRow(ExecuteQuery(q)[i])]

-----------------------------------------------------------------------------
(* The calls, each beside what its caller may count on: `kept' is changed   *)
(* and looked through by entities alone.                                    *)

Entity(id, v) ==
  [c \in Range(TableColumns) |->
     V(c, IF c = IdColumn THEN id ELSE IF c = "state" THEN v \div 2 ELSE v % 2)]

Matching(sought) == {e \in kept : \A c \in DOMAIN sought : e[c] = sought[c]}
Keeping(e) == {k \in kept : k[IdColumn] # e[IdColumn]} \cup {e}

\* A statement on a table that is not there, or in a database that is not open, is not
\* prepared: it finds nothing and does nothing.
Ready == m_is_init /\ table # {}

Answers(kind, given, promised) ==
  answered' = [kind |-> kind, given |-> given, promised |-> promised]

Read(kind, q, sought) ==
  /\ IF Ready THEN Answers(kind, Found(q), Matching(sought)) ELSE Answers(kind, <<>>, {})
  /\ UNCHANGED <<repository, m_db, m_is_init, table, rows, kept>>

Count(q, sought) ==
  /\ IF Ready THEN Answers("count", Cardinality(RowsWhere(q)), Cardinality(Matching(sought)))
     ELSE Answers("count", -1, -1)
  /\ UNCHANGED <<repository, m_db, m_is_init, table, rows, kept>>

GetMaxTaskId ==
  /\ IF Ready
     THEN Answers("count", IF Ids = {} THEN 0 ELSE Max(Ids),
                 Max({e.task_id[2] : e \in kept} \cup {0}))
     ELSE Answers("count", -1, -1)
  /\ UNCHANGED <<repository, m_db, m_is_init, table, rows, kept>>

\* A command that is run or, by the guard of the repository, is not.
Command(q, guard, promised, result) ==
  LET does == Ready /\ guard /\ ~Refused(q)
  IN  /\ rows' = IF does THEN AfterCommand(q) ELSE rows
      /\ kept' = IF promised THEN result ELSE kept
      /\ Answers("done", does, promised)
      /\ UNCHANGED <<repository, m_db, m_is_init, table>>

Taken(e) == \E k \in kept : k[IdColumn] = e[IdColumn]
Numbered(e) == [e EXCEPT ![IdColumn] = V(IdColumn, Max({k[IdColumn][2] : k \in kept} \cup {0}) + 1)]

Add(q, guard, e, welcome) ==
  Command(q, guard, Ready /\ welcome /\ ~Taken(e), kept \cup {e})
Change(q, e)        == Command(q, TRUE, Ready, IF Taken(e) THEN Keeping(e) ELSE kept)
Erase(q, sought)   == Command(q, TRUE, Ready, kept \ Matching(sought))

\* SqlTableQuery::create, and the server's own text for the same.
CreateTable(q) ==
  IF m_db = "open" /\ q # NoText /\ table = {} THEN Range(q.columns) ELSE table

\* init_database: the driver is added to the manager and opens the file, whose directory
\* it may not be able to make; a handle that failed to open stays with the driver.  The
\* server makes its table at once.
InitDatabase ==
  /\ m_db = "absent"
  /\ m_db' \in {"null", "broken", "open"}
  /\ UNCHANGED <<repository, m_is_init, table, rows, kept, answered>>

EnsureTableExists ==
  /\ m_db # "absent" /\ repository = "server_file"
  /\ table' = CreateTable(BuildCreateTableString(TableItem))
  /\ UNCHANGED <<repository, m_db, m_is_init, rows, kept, answered>>

\* init(): the client's repositories are ready once their table is made, and try again
\* when they are asked again; the server's is as soon as it has a query.
InitRepository ==
  /\ m_db # "absent" /\ ~m_is_init
  /\ IF repository = "server_file" THEN m_is_init' = TRUE /\ UNCHANGED table
     ELSE /\ table' = CreateTable(BuildCreateTableString(TableItem))
          /\ m_is_init' = (m_db = "open" /\ table' # {})
  /\ UNCHANGED <<repository, m_db, rows, kept, answered>>

TaskCall ==
  /\ repository = "task"
  /\ \/ Read("many", GetAllTasks, <<>>)
     \/ Count(CountTasks, <<>>)
     \/ GetMaxTaskId
     \/ \E n \in RowIds :
          LET id == V("task_id", n)
          IN  Read("one", GetTask(id), [task_id |-> id]) \/ Erase(RemoveTask(id), [task_id |-> id])
     \/ \E n \in {0, 1} : LET id == V("file_id", n) IN Read("many", GetTasksOfFile(id), [file_id |-> id])
     \/ \E n \in RowIds \cup {0}, v \in Versions : Add(AddTask(Entity(n, v)), n > 0, Entity(n, v), n # 0)
     \/ \E n \in RowIds, v \in Versions : Change(UpdateTaskRow(Entity(n, v)), Entity(n, v))

BlockCall ==
  /\ repository = "block"
  /\ \/ Read("many", GetAllBlocks, <<>>)
     \/ \E n, s \in {0, 1} :
          LET id    == V("task_id", n)
              state == V("state", s)
              both  == [task_id |-> id, state |-> state]
          IN  \/ Read("many", GetBlocksOfTask(id), [task_id |-> id])
              \/ Count(CountBlocks(id, state), both)
              \/ Read("many", GetBlocksInState(id, state), both)
     \/ \E n \in RowIds :
          LET id == V("block_id", n)
          IN  Read("one", GetBlock(id), [block_id |-> id]) \/ Erase(RemoveBlock(id), [block_id |-> id])
     \/ \E v \in Versions : /\ NextId \in RowIds
                            /\ Add(AddBlockRow(Entity(0, v)), TRUE, Numbered(Entity(0, v)), TRUE)
     \/ \E n \in RowIds, v \in Versions : Change(UpdateBlock(Entity(n, v)), Entity(n, v))

ClientFileCall ==
  /\ repository = "client_file"
  /\ \/ Read("many", GetAllClientFiles, <<>>)
     \/ Count(CountClientFiles, <<>>)
     \/ \E n \in RowIds :
          LET id == V("file_id", n)
          IN  \/ Read("one", GetClientFile(id), [file_id |-> id])
              \/ Erase(RemoveClientFile(id), [file_id |-> id])
     \/ \E n \in {0, 1} : LET m == V("md5_code", n) IN Read("one", GetClientFileByMd5(m), [md5_code |-> m])
     \/ \E n \in RowIds, v \in Versions :
          \/ Add(AddClientFile(Entity(n, v)), TRUE, Entity(n, v), TRUE)
          \/ Change(UpdateClientFile(Entity(n, v)), Entity(n, v))

\* add() looks for the file's MD5 first.
ServerFileCall ==
  /\ repository = "server_file"
  /\ \/ Read("many", GetAllServerFiles, <<>>)
     \/ Count(CountServerFiles, <<>>)
     \/ \E n \in RowIds :
          LET id == V("file_id", n)
          IN  \/ Read("one", GetServerFile(id), [file_id |-> id])
              \/ Erase(RemoveServerFile(id), [file_id |-> id])
     \/ \E n \in {0, 1} : LET m == V("md5_code", n) IN Read("one", GetServerFileByMd5(m), [md5_code |-> m])
     \/ \E v \in Versions :
          LET e == Entity(0, v)
          IN  /\ NextId \in RowIds
              /\ Add(AddServerFile(e), Found(GetServerFileByMd5(e.md5_code)) = <<>>, Numbered(e),
                     Matching([md5_code |-> e.md5_code]) = {})
     \/ \E n \in RowIds, v \in Versions : Change(UpdateServerFile(Entity(n, v)), Entity(n, v))

RepositoriesInit ==
  /\ repository \in DOMAIN ColumnsOf
  /\ m_db = "absent" /\ m_is_init = FALSE /\ table = {} /\ rows = <<>> /\ kept = {}
  /\ answered = [kind |-> "done", given |-> TRUE, promised |-> TRUE]

RepositoriesNext ==
  \/ InitDatabase \/ EnsureTableExists \/ InitRepository
  \/ TaskCall \/ BlockCall \/ ClientFileCall \/ ServerFileCall

RepositoriesSpec == RepositoriesInit /\ [][RepositoriesNext]_repositoryVars

-----------------------------------------------------------------------------
\* After any calls in any order, whatever was refused among them, every call answers from
\* exactly the entities its callers have added, changed and not removed, each whole and
\* under its own id: no column in another's place, no condition met by another value, no
\* row that a call for another one touched (the get_, add, update, remove and count
\* functions of the four repositories).
RepositoriesKeepTheirWord ==
  CASE answered.kind = "many" ->
         Range(answered.given) = answered.promised
         /\ Len(answered.given) = Cardinality(answered.promised)
    [] answered.kind = "one" ->
         IF answered.given = <<>> THEN answered.promised = {} ELSE answered.given[1] \in answered.promised
    [] OTHER -> answered.given = answered.promised
=============================================================================
