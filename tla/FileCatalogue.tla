------------------------------ MODULE FileCatalogue ------------------------------
(***************************************************************************)
(* From a file added on the server to a completed task on the client: the  *)
(* server's table and the list shown of it, the client's tables of tasks,  *)
(* files and blocks and its list of tasks.  Rows may fail to be written,   *)
(* and the server may restart, which empties its table.                    *)
(*                                                                         *)
(* On the client the UI thread and the scheduler write side by side; which *)
(* block the scheduler asks for when is BlockScheduleController's subject, *)
(* here any block's answer may arrive.  That the threads share one prepared*)
(* statement is SqlTableQuery's.                                           *)
(***************************************************************************)
EXTENDS Integers, SequencesExt

CONSTANTS
  Files,         \* what can be added, a file being its MD5
  TrueSizes,     \* the size of each
  SizeLimit,     \* file_size is a uint32_t: sizes are kept modulo this
  BlockBytes,    \* BlockParam::block_bytes
  NoFile,        \* no file at all
  MaxTasks,      \* bound: tasks tried
  MaxFailures,   \* bound: rows not written and answers that do not fit
  MaxRestarts,   \* bound: restarts of the server
  MaxSignals     \* bound: task_completed signals on their way

ASSUME CatalogueAssumption ==
  /\ TrueSizes \in [Files -> Nat] /\ NoFile \notin Files
  /\ {SizeLimit, BlockBytes} \subseteq Nat \ {0}
  /\ {MaxTasks, MaxFailures, MaxRestarts, MaxSignals} \subseteq Nat

VARIABLES
  file_info,         \* the server's table: the file of each file_id
  m_file_info_list,  \* the list the server shows: records of file_id and md5
  requested,         \* tasks whose download request is with the server
  described,         \* download answers on their way
  m_task_counter,    \* TaskService::m_task_counter
  task,              \* the client's table of tasks, by task_id
  m_task_list,       \* the rows TaskTableModel shows
  client_file,       \* the client's table of files, sizes by file_id
  block,             \* the client's table of blocks, by block_id
  adding,            \* where the UI thread is in BlockService::add, or Idle
  completed,         \* task_completed signals on their way to the UI thread
  failures, restarts,
  history            \* of each task: the file picked for it and when, the size it was told,
                     \* and whether BlockService::add gave up

serverVars == <<file_info, m_file_info_list>>
clientVars == <<m_task_counter, task, m_task_list, client_file, block, adding, completed>>
catalogueVars == <<serverVars, requested, described, clientVars, failures, restarts, history>>

Idle == [offset |-> -1]

CatalogueInit ==
  /\ file_info = <<>> /\ m_file_info_list = <<>>
  /\ requested = {} /\ described = <<>>
  /\ m_task_counter = 1 /\ task = <<>> /\ m_task_list = <<>>
  /\ client_file = <<>> /\ block = <<>> /\ adding = Idle /\ completed = <<>>
  /\ failures = 0 /\ restarts = 0 /\ history = <<>>

Fails == failures < MaxFailures /\ failures' = failures + 1

With(f, key, value) == [k \in DOMAIN f \cup {key} |-> IF k = key THEN value ELSE f[k]]

-----------------------------------------------------------------------------
(* The server                                                               *)

\* A slip: the rows are counted before the new one is there.
ShownId_Early(rows) == Len(rows) - 1

\* AddFileDialog shows the number of rows as the new file's id.
ShownId(rows) == Len(rows)

\* ServerFileInfoTableModel::add
ShowFile(list, row) == Append(list, row)

\* on_add_file_button_clicked: a file that is there already is refused.  SQLite numbers rows.
AddFile(file) ==
  /\ ~Contains(file_info, file)
  /\ \/ /\ file_info' = Append(file_info, file)
        /\ m_file_info_list' =
             ShowFile(m_file_info_list, [file_id |-> ShownId(file_info'), md5 |-> file])
        /\ UNCHANGED failures
     \/ Fails /\ UNCHANGED serverVars
  /\ UNCHANGED <<requested, described, clientVars, restarts, history>>

\* clear_database at the start; what was asked of the old server is lost.
RestartServer ==
  /\ restarts < MaxRestarts
  /\ restarts' = restarts + 1
  /\ file_info' = <<>> /\ m_file_info_list' = <<>>
  /\ requested' = {}
  /\ UNCHANGED <<described, clientVars, failures, history>>

\* ServerFileInfo::file_size
SizeOfFile(file) == TrueSizes[file] % SizeLimit

\* handle_download_request: a file that is not there has the size 0.
AnswerDownload(task_id) ==
  LET id == task[task_id].file_id
  IN  /\ task_id \in requested
      /\ requested' = requested \ {task_id}
      /\ described' = Append(described,
           [task_id |-> task_id, file_id |-> id,
            file_size |-> IF id \in DOMAIN file_info THEN SizeOfFile(file_info[id]) ELSE 0])
      /\ UNCHANGED <<serverVars, clientVars, failures, restarts, history>>

-----------------------------------------------------------------------------
(* The client's UI thread                                                   *)

FileShownAs(id) ==
  IF \E row \in ToSet(m_file_info_list) : row.file_id = id
  THEN (CHOOSE row \in ToSet(m_file_info_list) : row.file_id = id).md5 ELSE NoFile

\* TaskTableModel::add: a row of its own, or the one the task has.
ShowTask(list, row) ==
  IF \E r \in DOMAIN list : list[r].task_id = row.task_id
  THEN [r \in DOMAIN list |-> IF list[r].task_id = row.task_id THEN row ELSE list[r]]
  ELSE Append(list, row)

\* on_add_download_push_button_clicked, for a file_id the server may show or not.
AddDownload(id) ==
  LET task_id == m_task_counter
      entity  == [file_id |-> id, state |-> "Waiting"]
  IN  /\ adding = Idle /\ task_id <= MaxTasks
      /\ m_task_counter' = m_task_counter + 1
      /\ \/ /\ task' = With(task, task_id, entity)
            /\ m_task_list' = ShowTask(m_task_list, [task_id |-> task_id, state |-> entity.state])
            /\ requested' = requested \cup {task_id}
            /\ history' = With(history, task_id,
                 [md5 |-> FileShownAs(id), run |-> restarts, size |-> -1, gave_up |-> FALSE])
            /\ UNCHANGED failures
         \/ Fails /\ UNCHANGED <<task, m_task_list, requested, history>>
      /\ UNCHANGED <<serverVars, described, client_file, block, adding, completed, restarts>>

\* The while of BlockService::add.
AddFrom(offset, answer) ==
  IF offset < answer.file_size THEN [answer |-> answer, offset |-> offset] ELSE Idle

\* on_download_response; a row for a file known before is refused.
DownloadResponse ==
  /\ adding = Idle /\ described # <<>>
  /\ LET a == Head(described)
     IN  /\ client_file' = IF a.file_id \in DOMAIN client_file THEN client_file
                           ELSE With(client_file, a.file_id, a.file_size)
         /\ adding' = AddFrom(0, a)
         /\ history' = [history EXCEPT ![a.task_id].size = a.file_size]
  /\ described' = Tail(described)
  /\ UNCHANGED <<serverVars, requested, m_task_counter, task, m_task_list, block, completed,
                 failures, restarts>>

\* A slip: the last block is what is left over of whole blocks.
SizeOfBlock_Remainder(offset, file_size) ==
  IF file_size - offset > BlockBytes THEN BlockBytes ELSE file_size % BlockBytes

SizeOfBlock(offset, file_size) ==
  IF file_size - offset >= BlockBytes THEN BlockBytes ELSE file_size - offset

\* One round of BlockService::add.  It gives up at a row that cannot be written.
AddBlock ==
  LET a    == adding.answer
      size == SizeOfBlock(adding.offset, a.file_size)
  IN  /\ adding # Idle
      /\ \/ /\ block' = Append(block,
                 [task_id |-> a.task_id, file_id |-> a.file_id, offset |-> adding.offset,
                  block_size |-> size, state |-> "Waiting", data_of |-> NoFile])
            /\ adding' = AddFrom(adding.offset + size, a)
            /\ UNCHANGED <<failures, history>>
         \/ /\ Fails /\ UNCHANGED block
            /\ adding' = Idle
            /\ history' = [history EXCEPT ![a.task_id].gave_up = TRUE]
      /\ UNCHANGED <<serverVars, requested, described, m_task_counter, task, m_task_list, client_file,
                     completed, restarts>>

RowOf(task_id) == {r \in DOMAIN m_task_list : m_task_list[r].task_id = task_id}

\* on_task_completed and TaskTableModel::update
UpdateTask ==
  /\ adding = Idle /\ completed # <<>>
  /\ m_task_list' = [r \in DOMAIN m_task_list |->
       IF r \in RowOf(Head(completed))
       THEN [task_id |-> Head(completed), state |-> task[Head(completed)].state] ELSE m_task_list[r]]
  /\ completed' = Tail(completed)
  /\ UNCHANGED <<serverVars, requested, described, m_task_counter, task, client_file, block, adding,
                 failures, restarts, history>>

-----------------------------------------------------------------------------
(* The client's scheduler                                                   *)

BlocksOf(task_id) == {i \in DOMAIN block : block[i].task_id = task_id}

\* on_block_response, with data of the file the id names on the server now.  The task is
\* completed when no block of it is waiting.
BlockArrives(i) ==
  LET t == block[i].task_id
      done == \A j \in BlocksOf(t) \ {i} : block[j].state # "Waiting"
  IN  /\ block[i].file_id \in DOMAIN file_info
      /\ block[i].block_size > 1
      /\ Len(completed) < MaxSignals
      /\ block' = [block EXCEPT ![i].state = "Completed",
                                ![i].data_of = file_info[block[i].file_id]]
      /\ task' = IF done THEN [task EXCEPT ![t].state = "Completed"] ELSE task
      /\ completed' = IF done THEN Append(completed, t) ELSE completed
      /\ UNCHANGED <<serverVars, requested, described, m_task_counter, m_task_list, client_file, adding,
                     failures, restarts, history>>

\* An answer that does not fit, as that of a block of one byte always.
BlockFails(i) ==
  /\ block[i].block_size > 1 => Fails
  /\ block[i].block_size = 1 => UNCHANGED failures
  /\ block' = [block EXCEPT ![i].state = "Failed"]
  /\ UNCHANGED <<serverVars, requested, described, m_task_counter, task, m_task_list, client_file,
                 adding, completed, restarts, history>>

CatalogueNext ==
  \/ \E file \in Files : AddFile(file)
  \/ RestartServer
  \/ \E task_id \in DOMAIN task : AnswerDownload(task_id)
  \/ \E id \in 1..Cardinality(Files) : AddDownload(id)
  \/ DownloadResponse \/ AddBlock \/ UpdateTask
  \/ \E i \in DOMAIN block : BlockArrives(i) \/ BlockFails(i)

CatalogueSpec == CatalogueInit /\ [][CatalogueNext]_catalogueVars

-----------------------------------------------------------------------------
Extent(i) == block[i].offset .. block[i].offset + block[i].block_size - 1

\* Each byte below size is in one of the blocks S, in no other, and none beyond is.
Tiles(S, size) ==
  /\ UNION {Extent(i) : i \in S} = 0..size - 1
  /\ \A i, j \in S : i # j => Extent(i) \cap Extent(j) = {}
  /\ \A i \in S : block[i].block_size \in 1..BlockBytes

\* Once the answer of a task has been dealt with, its blocks are the file it was told of, each
\* byte in one of them, whatever was added or answered between them; if BlockService::add gave
\* up, they are its beginning (new_download_dialog.cpp on_download_response).
TasksTileTheirFile ==
  \A t \in DOMAIN history :
    LET told   == history[t].size
        blocks == BlocksOf(t)
    IN  IF told >= 0 /\ ~history[t].gave_up /\ (adding # Idle => adding.answer.task_id # t)
        THEN Tiles(blocks, told)
        ELSE \E n \in 0..(IF told > 0 THEN told - 1 ELSE 0) : Tiles(blocks, n)

\* A completed task is the file the user picked from the server's list, byte for byte: its
\* blocks cover that file and hold that file's data.  Excepted are the ways the code has to
\* lose a file: a block failed or is still to be inserted, the rows were given up, the server
\* restarted and numbers its files anew, or the file is too large for file_size
\* (add_file_dialog.cpp, block_schedule_controller.cpp on_block_response).
CompletedIsThePickedFile ==
  \A t \in DOMAIN task :
    LET h == history[t]
    IN  /\ task[t].state = "Completed"
        /\ \A i \in BlocksOf(t) : block[i].state = "Completed"
        /\ ~h.gave_up /\ (adding # Idle => adding.answer.task_id # t)
        /\ h.run = restarts
        /\ h.md5 # NoFile /\ TrueSizes[h.md5] < SizeLimit
        => /\ Tiles(BlocksOf(t), TrueSizes[h.md5])
           /\ \A i \in BlocksOf(t) : block[i].data_of = h.md5

\* When every signal has been dealt with, the list shows the tasks as they are in the table
\* (TaskTableModel::add and update).
ListShowsTasks ==
  completed = <<>> =>
    /\ Len(m_task_list) = Cardinality(DOMAIN task)
    /\ \A t \in DOMAIN task : Contains(m_task_list, [task_id |-> t, state |-> task[t].state])

\* What the user is shown of a task is true: what its row says is what the table says, and a
\* completed one is the file that was picked (task_table_model.cpp, add_file_dialog.cpp).
TasksAreWhatTheySay == CompletedIsThePickedFile /\ ListShowsTasks
=============================================================================
