-------------------------- MODULE FileCatalogue_proofs --------------------------
(***************************************************************************)
(* Proofs about FileCatalogue, for any files, sizes, block sizes, tasks,   *)
(* failures and restarts: a task's blocks are the file it was told of, and *)
(* what the user is shown of a task is true.                               *)
(***************************************************************************)
EXTENDS FileCatalogue, FiniteSetTheorems, TLAPS

-----------------------------------------------------------------------------
(* The invariant.                                                          *)

Ids        == 1..Cardinality(Files)
TaskStates == {"Waiting", "Completed"}
Answers    == [task_id : Nat, file_id : Ids, file_size : Nat]
Blocks     == [task_id : Nat, file_id : Ids, offset : Nat, block_size : 1..BlockBytes,
               state : {"Waiting", "Completed", "Failed"}, data_of : Files \cup {NoFile}]
FileRows   == [file_id : Nat, md5 : Files]
TaskRows   == [file_id : Ids, state : TaskStates]
ListRows   == [task_id : Nat, state : TaskStates]
Histories  == [md5 : Files \cup {NoFile}, run : Nat, size : Nat \cup {-1}, gave_up : BOOLEAN]
Known      == DOMAIN task

\* What the blocks b of a task cover, as BlocksOf and Tiles say it of the table.
Bytes(r)  == r.offset .. (r.offset + r.block_size - 1)
Of(b, t)  == {i \in DOMAIN b : b[i].task_id = t}

Covers(b, t, n) ==
  /\ UNION {Bytes(b[i]) : i \in Of(b, t)} = 0..(n - 1)
  /\ \A i, j \in Of(b, t) : i # j => Bytes(b[i]) \cap Bytes(b[j]) = {}
  /\ \A i \in Of(b, t) : b[i].block_size \in 1..BlockBytes

CatalogueTypeOK ==
  /\ file_info \in Seq(Files) /\ m_file_info_list \in Seq(FileRows)
  /\ requested \subseteq Known /\ described \in Seq(Answers)
  /\ m_task_counter \in Nat \ {0} /\ Known \subseteq 1..(m_task_counter - 1)
  /\ task \in [Known -> TaskRows]
  /\ m_task_list \in Seq(ListRows)
  /\ block \in Seq(Blocks)
  /\ \/ adding = Idle
     \/ adding \in [answer : Answers, offset : Nat] /\ adding.offset < adding.answer.file_size
  /\ completed \in Seq(Nat) /\ restarts \in Nat
  /\ history \in [Known -> Histories]

\* A task is told of its file once: until then its request or its answer is under way, or lost.
ToldOnce ==
  /\ \A t \in requested : history[t].size = -1
  /\ \A i \in DOMAIN described :
       LET t == described[i].task_id
       IN  t \in Known /\ t \notin requested /\ history[t].size = -1
  /\ \A i, j \in DOMAIN described : described[i].task_id = described[j].task_id => i = j

Adds(t) == adding # Idle /\ adding.answer.task_id = t

\* What has been cut into blocks is the file's beginning; the next block follows it.
CutSoFar ==
  /\ adding # Idle => adding.answer.task_id \in Known
  /\ \A t \in Known :
       /\ history[t].size = -1 => Of(block, t) = {} /\ ~history[t].gave_up
       /\ Adds(t) => /\ history[t].size = adding.answer.file_size /\ ~history[t].gave_up
                     /\ Covers(block, t, adding.offset)
       /\ history[t].size >= 0 /\ ~Adds(t) =>
            IF history[t].gave_up THEN \E n \in 0..(history[t].size - 1) : Covers(block, t, n)
            ELSE Covers(block, t, history[t].size)

\* The server shows each file under the number its row has.
ShownAsTheyAre ==
  /\ Len(m_file_info_list) = Len(file_info)
  /\ \A k \in DOMAIN file_info : m_file_info_list[k] = [file_id |-> k, md5 |-> file_info[k]]

\* A file was picked that the server still knows by that number.
Picked(t) == history[t].run = restarts /\ history[t].md5 # NoFile

\* Until the server restarts, the answers and the data are of the file that was picked.
OfThePickedFile ==
  /\ \A t \in Known :
       /\ history[t].run <= restarts
       /\ Picked(t) => /\ task[t].file_id \in DOMAIN file_info
                       /\ file_info[task[t].file_id] = history[t].md5
       /\ Picked(t) /\ history[t].size >= 0 => history[t].size = SizeOfFile(history[t].md5)
       /\ task[t].state = "Completed" => Of(block, t) # {}
  /\ \A i \in DOMAIN described :
       LET t == described[i].task_id
       IN  /\ described[i].file_id = task[t].file_id
           /\ Picked(t) => described[i].file_size = SizeOfFile(history[t].md5)
  /\ adding # Idle => adding.answer.file_id = task[adding.answer.task_id].file_id
  /\ \A i \in DOMAIN block :
       LET t == block[i].task_id
       IN  /\ t \in Known /\ block[i].file_id = task[t].file_id
           /\ block[i].state = "Completed" /\ Picked(t) => block[i].data_of = history[t].md5

\* Each task has a row, and one that is out of date has its signal under way.
ListFollows ==
  /\ IsFiniteSet(Known) /\ Len(m_task_list) = Cardinality(Known)
  /\ \A k \in DOMAIN completed : completed[k] \in Known
  /\ \A t \in Known : \E r \in DOMAIN m_task_list : m_task_list[r].task_id = t
  /\ \A r \in DOMAIN m_task_list :
       /\ m_task_list[r].task_id \in Known
       /\ \/ m_task_list[r].state = task[m_task_list[r].task_id].state
          \/ \E k \in DOMAIN completed : completed[k] = m_task_list[r].task_id

CatalogueInv ==
  CatalogueTypeOK /\ ToldOnce /\ CutSoFar /\ ShownAsTheyAre /\ OfThePickedFile /\ ListFollows

-----------------------------------------------------------------------------
(* Sequences, and what the blocks cover.                                   *)

LEMMA Appended ==
  ASSUME NEW S, NEW s \in Seq(S), NEW x \in S
  PROVE  /\ Append(s, x) \in Seq(S) /\ Len(Append(s, x)) = Len(s) + 1 /\ Len(s) \in Nat
         /\ DOMAIN s = 1..Len(s) /\ DOMAIN Append(s, x) = 1..(Len(s) + 1)
         /\ \A i \in 1..Len(s) : Append(s, x)[i] = s[i] /\ s[i] \in S
         /\ Append(s, x)[Len(s) + 1] = x
OBVIOUS

LEMMA Shortened ==
  ASSUME NEW S, NEW s \in Seq(S), s # <<>>
  PROVE  /\ Tail(s) \in Seq(S) /\ Head(s) \in S /\ Head(s) = s[1] /\ 1 \in DOMAIN s
         /\ \A i \in DOMAIN Tail(s) : i \in Nat /\ i + 1 \in DOMAIN s /\ i + 1 # 1 /\ Tail(s)[i] = s[i + 1]
         /\ \A i \in DOMAIN s : i = 1 \/ (i - 1 \in DOMAIN Tail(s) /\ Tail(s)[i - 1] = s[i])
OBVIOUS

LEMMA Elements ==
  ASSUME NEW S, NEW s \in Seq(S)
  PROVE  /\ DOMAIN s = 1..Len(s) /\ Len(s) \in Nat
         /\ \A i \in DOMAIN s : s[i] \in S /\ i \in Nat
OBVIOUS

LEMMA TilesOrCovers ==
  \A t, n : Of(block, t) = BlocksOf(t) /\ (Tiles(BlocksOf(t), n) <=> Covers(block, t, n))
BY DEF Of, BlocksOf, Tiles, Covers, Extent, Bytes

LEMMA NothingCovers ==
  ASSUME NEW b, NEW t, Of(b, t) = {}
  PROVE  Covers(b, t, 0)
<1>1. 0..(0 - 1) = {} /\ UNION {Bytes(b[i]) : i \in {}} = {}
  OBVIOUS
<1> QED  BY <1>1 DEF Covers

\* The state of a block and its data are not part of what it covers.
LEMMA CoversKept ==
  ASSUME NEW b, NEW c, DOMAIN c = DOMAIN b,
         \A i \in DOMAIN b : /\ c[i].task_id = b[i].task_id /\ c[i].offset = b[i].offset
                             /\ c[i].block_size = b[i].block_size,
         NEW t
  PROVE  Of(c, t) = Of(b, t) /\ \A n : Covers(b, t, n) => Covers(c, t, n)
<1>1. Of(c, t) = Of(b, t) /\ Of(b, t) \subseteq DOMAIN b
  BY DEF Of
<1>2. \A i \in Of(b, t) : Bytes(c[i]) = Bytes(b[i]) /\ c[i].block_size = b[i].block_size
  BY <1>1 DEF Bytes
<1>3. {Bytes(c[i]) : i \in Of(c, t)} = {Bytes(b[i]) : i \in Of(b, t)}
  BY <1>1, <1>2
<1> QED  BY <1>1, <1>2, <1>3 DEF Covers

LEMMA UnionWith == \A A, x : UNION (A \cup {x}) = (UNION A) \cup x
OBVIOUS

\* A block put behind those of its task covers what follows.
LEMMA CoversGrow ==
  ASSUME NEW b \in Seq(Blocks), NEW r \in Blocks
  PROVE  /\ \A t : t # r.task_id => /\ Of(Append(b, r), t) = Of(b, t)
                                    /\ \A n : Covers(b, t, n) => Covers(Append(b, r), t, n)
         /\ Covers(b, r.task_id, r.offset) => Covers(Append(b, r), r.task_id, r.offset + r.block_size)
<1> DEFINE c == Append(b, r)
           e == Len(b) + 1
           u == r.task_id
           m == r.offset
           z == r.block_size
<1>1. /\ Len(b) \in Nat /\ DOMAIN b = 1..Len(b) /\ DOMAIN c = 1..e
      /\ \A i \in 1..Len(b) : c[i] = b[i] /\ b[i] \in Blocks
      /\ c[e] = r
  BY Appended
<1>2. e \notin DOMAIN b /\ DOMAIN c = DOMAIN b \cup {e} /\ \A i \in DOMAIN b : c[i] = b[i]
  BY <1>1
<1>2a. m \in Nat /\ z \in 1..BlockBytes /\ BlockBytes \in Nat
  BY CatalogueAssumption DEF Blocks
<1> HIDE DEF e, c
<1>3. /\ \A t : t # u => Of(c, t) = Of(b, t)
      /\ Of(c, u) = Of(b, u) \cup {e}
      /\ \A t : Of(b, t) \subseteq DOMAIN b
  BY <1>1, <1>2 DEF Of
<1>4. ASSUME NEW t, t # u, NEW n, Covers(b, t, n) PROVE Covers(c, t, n)
  <2>1. \A i \in Of(b, t) : c[i] = b[i]
    BY <1>2, <1>3
  <2>2. {Bytes(c[i]) : i \in Of(c, t)} = {Bytes(b[i]) : i \in Of(b, t)}
    BY <1>3, <1>4, <2>1
  <2> QED  BY <1>3, <1>4, <2>1, <2>2 DEF Covers
<1>5. ASSUME Covers(b, u, m) PROVE Covers(c, u, m + z)
  <2>1. \A i \in Of(b, u) : c[i] = b[i]
    BY <1>2, <1>3
  <2>2. Bytes(c[e]) = m .. (m + z - 1)
    BY <1>1 DEF Bytes
  <2> HIDE DEF m, z
  <2>3. UNION {Bytes(c[i]) : i \in Of(c, u)} = (UNION {Bytes(b[i]) : i \in Of(b, u)}) \cup Bytes(c[e])
    <3>1. {Bytes(c[i]) : i \in Of(c, u)} = {Bytes(b[i]) : i \in Of(b, u)} \cup {Bytes(c[e])}
      BY <1>3, <2>1
    <3>2. \A A, x : UNION (A \cup {x}) = (UNION A) \cup x
      BY UnionWith
    <3> QED  BY <3>1, <3>2
  <2>4. UNION {Bytes(b[i]) : i \in Of(b, u)} = 0..(m - 1)
    BY <1>5 DEF Covers
  <2>5. (0..(m - 1)) \cup (m .. (m + z - 1)) = 0..(m + z - 1)
    BY <1>2a
  <2>6. \A i \in Of(b, u) : Bytes(c[i]) \cap Bytes(c[e]) = {} /\ Bytes(c[e]) \cap Bytes(c[i]) = {}
    <3>1. SUFFICES ASSUME NEW i \in Of(b, u) PROVE Bytes(c[i]) \cap Bytes(c[e]) = {}
      OBVIOUS
    <3>2. Bytes(c[i]) \subseteq 0..(m - 1)
      BY <2>1, <2>4
    <3> QED  BY <1>2a, <2>2, <3>2
  <2>7. \A i, j \in Of(b, u) : i # j => Bytes(c[i]) \cap Bytes(c[j]) = {}
    BY <1>5, <2>1 DEF Covers
  <2>8. \A i, j \in Of(c, u) : i # j => Bytes(c[i]) \cap Bytes(c[j]) = {}
    BY <1>3, <2>6, <2>7
  <2>9. \A i \in Of(c, u) : c[i].block_size \in 1..BlockBytes
    BY <1>1, <1>2a, <1>3, <1>5, <2>1 DEF Covers, z
  <2>10. UNION {Bytes(c[i]) : i \in Of(c, u)} = 0..(m + z - 1)
    BY <2>2, <2>3, <2>4, <2>5
  <2>11. ASSUME NEW n, n = m + z PROVE Covers(c, u, n)
    <3>1. UNION {Bytes(c[i]) : i \in Of(c, u)} = 0..(n - 1)
      <4>1. 0..(m + z - 1) = 0..(n - 1)
        BY <1>2a, <2>11
      <4> QED  BY <2>10, <4>1
    <3> QED  BY <2>8, <2>9, <3>1 DEF Covers
  <2> QED  BY <2>11
<1> QED  BY <1>3, <1>4, <1>5 DEF c
-----------------------------------------------------------------------------
(* Records of the tables changed in a field.                               *)

LEMMA SizeIsNatural == \A file \in Files : SizeOfFile(file) \in Nat
BY CatalogueAssumption DEF SizeOfFile

LEMMA HistoryTold ==
  ASSUME NEW D, NEW h \in [D -> Histories], NEW k \in D, NEW v \in Nat, NEW g,
         g = [h EXCEPT ![k].size = v]
  PROVE  /\ g \in [D -> Histories] /\ \A t \in D \ {k} : g[t] = h[t]
         /\ g[k].size = v /\ g[k].md5 = h[k].md5 /\ g[k].run = h[k].run /\ g[k].gave_up = h[k].gave_up
<1> DEFINE q == [h[k] EXCEPT !.size = v]
<1>1. h[k] \in Histories
  OBVIOUS
<1>2. q = [md5 |-> h[k].md5, run |-> h[k].run, size |-> v, gave_up |-> h[k].gave_up]
  BY <1>1 DEF Histories
<1>3. q \in Histories /\ q.size = v /\ q.md5 = h[k].md5 /\ q.run = h[k].run /\ q.gave_up = h[k].gave_up
  BY <1>1, <1>2 DEF Histories
<1>4. g = [h EXCEPT ![k] = q]
  OBVIOUS
<1> HIDE DEF q
<1> QED  BY <1>3, <1>4

LEMMA GiveUpIs ==
  ASSUME NEW r \in Histories, NEW v
  PROVE  [r EXCEPT !.gave_up = v] = [md5 |-> r.md5, run |-> r.run, size |-> r.size, gave_up |-> v]
BY DEF Histories

\* A block whose answer has come: what it covers stays.
LEMMA BlockAnswered ==
  ASSUME NEW b \in Seq(Blocks), NEW i \in DOMAIN b, NEW q \in Blocks, NEW c,
         q.task_id = b[i].task_id, q.file_id = b[i].file_id, q.offset = b[i].offset,
         q.block_size = b[i].block_size,
         c = [b EXCEPT ![i] = q]
  PROVE  /\ c \in Seq(Blocks) /\ DOMAIN c = DOMAIN b /\ c[i] = q /\ \A j \in DOMAIN b \ {i} : c[j] = b[j]
         /\ \A j \in DOMAIN b : /\ c[j].task_id = b[j].task_id /\ c[j].file_id = b[j].file_id
                                /\ c[j].offset = b[j].offset /\ c[j].block_size = b[j].block_size
<1>1. DOMAIN c = DOMAIN b /\ c[i] = q /\ \A j \in DOMAIN b \ {i} : c[j] = b[j]
  OBVIOUS
<1>2. c \in Seq(Blocks)
  <2> HIDE DEF Blocks
  <2> QED  OBVIOUS
<1> QED  BY <1>1, <1>2

\* What the server shows under an id is in its row of that number.
LEMMA ShownIsThere ==
  ASSUME CatalogueTypeOK, ShownAsTheyAre, NEW id
  PROVE  /\ FileShownAs(id) \in Files \cup {NoFile}
         /\ FileShownAs(id) # NoFile => id \in DOMAIN file_info /\ file_info[id] = FileShownAs(id)
<1> DEFINE R == ToSet(m_file_info_list)
           P(row) == row \in R /\ row.file_id = id
<1>1. /\ DOMAIN m_file_info_list = 1..Len(m_file_info_list) /\ DOMAIN file_info = 1..Len(file_info)
      /\ \A k \in DOMAIN file_info : file_info[k] \in Files
  BY Elements DEF CatalogueTypeOK
<1>2. \A row \in R : row.file_id \in DOMAIN file_info /\ row.md5 = file_info[row.file_id]
  <2>1. SUFFICES ASSUME NEW k \in DOMAIN m_file_info_list
                 PROVE  /\ m_file_info_list[k].file_id \in DOMAIN file_info
                        /\ m_file_info_list[k].md5 = file_info[m_file_info_list[k].file_id]
    BY DEF ToSet
  <2>2. k \in DOMAIN file_info /\ m_file_info_list[k] = [file_id |-> k, md5 |-> file_info[k]]
    BY <1>1 DEF ShownAsTheyAre
  <2> QED  BY <2>2
<1>3. CASE \E row \in R : row.file_id = id
  <2>1. PICK row : row = (CHOOSE x \in ToSet(m_file_info_list) : x.file_id = id)
    OBVIOUS
  <2>2. row \in R /\ row.file_id = id
    BY <1>3, <2>1
  <2>3. FileShownAs(id) = row.md5
    BY <1>3, <2>1 DEF FileShownAs
  <2> QED  BY <1>1, <1>2, <2>2, <2>3
<1>4. CASE ~\E row \in R : row.file_id = id
  BY <1>4 DEF FileShownAs
<1> QED  BY <1>3, <1>4

-----------------------------------------------------------------------------
(* The server's steps.                                                     *)

LEMMA AddFileKeeps ==
  ASSUME CatalogueInv, NEW file \in Files, AddFile(file)
  PROVE  CatalogueInv'
<1>1. /\ CatalogueTypeOK /\ ToldOnce /\ CutSoFar /\ ShownAsTheyAre /\ OfThePickedFile /\ ListFollows
      /\ UNCHANGED <<requested, described, clientVars, restarts, history>>
  BY DEF CatalogueInv, AddFile
<1>2. CASE UNCHANGED serverVars
  BY <1>1, <1>2 DEF CatalogueInv, CatalogueTypeOK, ToldOnce, CutSoFar, ShownAsTheyAre, OfThePickedFile,
       ListFollows, Known, Adds, Picked, serverVars, clientVars
<1>3. CASE /\ file_info' = Append(file_info, file)
           /\ m_file_info_list' =
                ShowFile(m_file_info_list, [file_id |-> ShownId(file_info'), md5 |-> file])
  <2>1. /\ file_info' \in Seq(Files) /\ Len(file_info') = Len(file_info) + 1 /\ Len(file_info) \in Nat
        /\ DOMAIN file_info = 1..Len(file_info) /\ DOMAIN file_info' = 1..(Len(file_info) + 1)
        /\ \A i \in 1..Len(file_info) : file_info'[i] = file_info[i]
        /\ file_info'[Len(file_info) + 1] = file
    BY <1>1, <1>3, Appended DEF CatalogueTypeOK
  <2> DEFINE row == [file_id |-> Len(file_info) + 1, md5 |-> file]
  <2>2. m_file_info_list' = Append(m_file_info_list, row) /\ row \in FileRows
    BY <1>3, <2>1 DEF ShowFile, ShownId, FileRows
  <2>3. /\ m_file_info_list' \in Seq(FileRows) /\ Len(m_file_info_list') = Len(m_file_info_list) + 1
        /\ \A i \in 1..Len(m_file_info_list) : m_file_info_list'[i] = m_file_info_list[i]
        /\ m_file_info_list'[Len(m_file_info_list) + 1] = row
    <3> HIDE DEF row, FileRows
    <3> QED  BY <1>1, <2>2, Appended DEF CatalogueTypeOK
  <2>4. CatalogueTypeOK'
    BY <1>1, <2>1, <2>3 DEF CatalogueTypeOK, Known, clientVars
  <2>5. ToldOnce' /\ CutSoFar' /\ ListFollows'
    BY <1>1 DEF ToldOnce, CutSoFar, ListFollows, Known, Adds, clientVars
  <2>6. ShownAsTheyAre'
    <3>1. Len(m_file_info_list) = Len(file_info) /\ Len(m_file_info_list') = Len(file_info')
      BY <1>1, <2>1, <2>3 DEF ShownAsTheyAre
    <3>2. \A k \in 1..Len(file_info) : m_file_info_list'[k] = [file_id |-> k, md5 |-> file_info'[k]]
      BY <1>1, <2>1, <2>3, <3>1 DEF ShownAsTheyAre
    <3>3. m_file_info_list'[Len(file_info) + 1] = [file_id |-> Len(file_info) + 1, md5 |-> file_info'[Len(file_info) + 1]]
      BY <2>1, <2>3, <3>1
    <3>4. \A k \in DOMAIN file_info' : k \in 1..Len(file_info) \/ k = Len(file_info) + 1
      BY <2>1
    <3> QED  BY <3>1, <3>2, <3>3, <3>4 DEF ShownAsTheyAre
  <2>7. OfThePickedFile'
    <3>1. \A k \in DOMAIN file_info : k \in DOMAIN file_info' /\ file_info'[k] = file_info[k]
      BY <2>1
    <3> QED  BY <1>1, <3>1 DEF OfThePickedFile, Known, Picked, clientVars
  <2> QED  BY <2>4, <2>5, <2>6, <2>7 DEF CatalogueInv
<1> QED  BY <1>2, <1>3 DEF AddFile

LEMMA RestartServerKeeps ==
  ASSUME CatalogueInv, RestartServer
  PROVE  CatalogueInv'
<1>1. /\ CatalogueTypeOK /\ ToldOnce /\ CutSoFar /\ OfThePickedFile /\ ListFollows
      /\ restarts' = restarts + 1 /\ file_info' = <<>> /\ m_file_info_list' = <<>> /\ requested' = {}
      /\ UNCHANGED <<described, clientVars, failures, history>>
  BY DEF CatalogueInv, RestartServer
<1>2. CatalogueTypeOK'
  BY <1>1 DEF CatalogueTypeOK, Known, clientVars
<1>3. ToldOnce' /\ CutSoFar' /\ ListFollows'
  BY <1>1 DEF ToldOnce, CutSoFar, ListFollows, Known, Adds, clientVars
<1>4. ShownAsTheyAre'
  BY <1>1 DEF ShownAsTheyAre
<1>5. OfThePickedFile'
  <2>1. \A t \in Known : history[t].run \in Nat /\ restarts \in Nat /\ history[t].run <= restarts
    BY <1>1 DEF CatalogueTypeOK, OfThePickedFile, Histories
  <2>2. \A t \in Known : history[t].run <= restarts' /\ history[t].run # restarts'
    BY <1>1, <2>1
  <2>3. \A i \in DOMAIN described : described[i].task_id \in Known
    BY <1>1 DEF ToldOnce
  <2> QED  BY <1>1, <2>2, <2>3 DEF OfThePickedFile, Known, Picked, clientVars
<1> QED  BY <1>2, <1>3, <1>4, <1>5 DEF CatalogueInv

LEMMA AnswerDownloadKeeps ==
  ASSUME CatalogueInv, NEW u \in DOMAIN task, AnswerDownload(u)
  PROVE  CatalogueInv'
<1> DEFINE id == task[u].file_id
           a  == [task_id |-> u, file_id |-> id,
                  file_size |-> IF id \in DOMAIN file_info THEN SizeOfFile(file_info[id]) ELSE 0]
<1>1. /\ CatalogueTypeOK /\ ToldOnce /\ CutSoFar /\ ShownAsTheyAre /\ OfThePickedFile /\ ListFollows
      /\ u \in requested /\ requested' = requested \ {u} /\ described' = Append(described, a)
      /\ UNCHANGED <<serverVars, clientVars, failures, restarts, history>> /\ u \in Known
  BY DEF CatalogueInv, AnswerDownload, Known
<1>2. a \in Answers /\ a.task_id = u /\ a.file_id = task[u].file_id
  <2>1. \A k \in DOMAIN file_info : file_info[k] \in Files
    BY <1>1, Elements DEF CatalogueTypeOK
  <2>2. u \in Nat /\ id \in Ids
    BY <1>1 DEF CatalogueTypeOK, TaskRows
  <2> QED  BY <2>1, <2>2, SizeIsNatural DEF Answers
<1>3. Picked(u) => a.file_size = SizeOfFile(history[u].md5)
  BY <1>1 DEF OfThePickedFile
<1> HIDE DEF a
<1>4. /\ described' \in Seq(Answers) /\ Len(described) \in Nat
      /\ DOMAIN described = 1..Len(described) /\ DOMAIN described' = 1..(Len(described) + 1)
      /\ \A i \in 1..Len(described) : described'[i] = described[i]
      /\ described'[Len(described) + 1] = a
  <2> HIDE DEF Answers
  <2> QED  BY <1>1, <1>2, Appended DEF CatalogueTypeOK
<1>5. \A i \in DOMAIN described' : \/ i \in DOMAIN described /\ described'[i] = described[i]
                                   \/ i = Len(described) + 1 /\ described'[i] = a
  BY <1>4
<1>6. CatalogueTypeOK'
  BY <1>1, <1>4 DEF CatalogueTypeOK, Known, clientVars, serverVars
<1>7. ToldOnce'
  <2>1. history[u].size = -1 /\ \A i \in DOMAIN described : described[i].task_id # u
    BY <1>1 DEF ToldOnce
  <2>2. \A t \in requested' : history'[t].size = -1
    BY <1>1 DEF ToldOnce
  <2>3. \A i \in DOMAIN described' :
           /\ described'[i].task_id \in Known' /\ described'[i].task_id \notin requested'
           /\ history'[described'[i].task_id].size = -1
    BY <1>1, <1>2, <1>5, <2>1 DEF ToldOnce, Known, clientVars
  <2>4. \A i, j \in DOMAIN described' : described'[i].task_id = described'[j].task_id => i = j
    BY <1>1, <1>2, <1>5, <2>1 DEF ToldOnce
  <2> QED  BY <2>2, <2>3, <2>4 DEF ToldOnce
<1>8. CutSoFar' /\ ShownAsTheyAre' /\ ListFollows'
  BY <1>1 DEF CutSoFar, ShownAsTheyAre, ListFollows, Known, Adds, clientVars, serverVars
<1>9. OfThePickedFile'
  <2>1. \A i \in DOMAIN described' :
           /\ described'[i].file_id = task'[described'[i].task_id].file_id
           /\ history'[described'[i].task_id].run = restarts' /\ history'[described'[i].task_id].md5 # NoFile =>
                described'[i].file_size = SizeOfFile(history'[described'[i].task_id].md5)
    BY <1>1, <1>2, <1>3, <1>5 DEF OfThePickedFile, Picked, clientVars
  <2> QED  BY <1>1, <2>1 DEF OfThePickedFile, Known, Picked, clientVars, serverVars
<1> QED  BY <1>6, <1>7, <1>8, <1>9 DEF CatalogueInv
-----------------------------------------------------------------------------
(* The client's UI thread.                                                 *)

LEMMA AddDownloadKeeps ==
  ASSUME CatalogueInv, NEW id \in Ids, AddDownload(id)
  PROVE  CatalogueInv'
<1> DEFINE u   == m_task_counter
           md5 == FileShownAs(id)
           ent == [file_id |-> id, state |-> "Waiting"]
           row == [task_id |-> u, state |-> "Waiting"]
           h   == [md5 |-> md5, run |-> restarts, size |-> -1, gave_up |-> FALSE]
<1>1. /\ CatalogueTypeOK /\ ToldOnce /\ CutSoFar /\ ShownAsTheyAre /\ OfThePickedFile /\ ListFollows
      /\ adding = Idle /\ m_task_counter' = m_task_counter + 1
      /\ UNCHANGED <<serverVars, described, client_file, block, adding, completed, restarts>>
  BY DEF CatalogueInv, AddDownload
<1>2. m_task_counter \in Nat \ {0} /\ Known \subseteq 1..(m_task_counter - 1) /\ u \in Nat /\ u \notin Known
      /\ restarts \in Nat
  BY <1>1 DEF CatalogueTypeOK
<1>3. CASE UNCHANGED <<task, m_task_list, requested, history>>
  <2>1. CatalogueTypeOK'
    <3>1. 1..(m_task_counter - 1) \subseteq 1..(m_task_counter' - 1) /\ m_task_counter' \in Nat \ {0}
      BY <1>1, <1>2
    <3> QED  BY <1>1, <1>2, <1>3, <3>1 DEF CatalogueTypeOK, Known, serverVars
  <2>2. ToldOnce' /\ CutSoFar' /\ ShownAsTheyAre' /\ OfThePickedFile' /\ ListFollows'
    BY <1>1, <1>3 DEF ToldOnce, CutSoFar, ShownAsTheyAre, OfThePickedFile,
         ListFollows, Known, Adds, Picked, serverVars
  <2> QED  BY <2>1, <2>2 DEF CatalogueInv
<1>4. CASE /\ task' = With(task, u, ent)
           /\ m_task_list' = ShowTask(m_task_list, [task_id |-> u, state |-> ent.state])
           /\ requested' = requested \cup {u}
           /\ history' = With(history, u, h)
  <2>1. /\ md5 \in Files \cup {NoFile}
        /\ md5 # NoFile => id \in DOMAIN file_info /\ file_info[id] = md5
    BY <1>1, ShownIsThere
  <2>2. /\ ent \in TaskRows /\ ent.file_id = id /\ ent.state = "Waiting"
        /\ row \in ListRows /\ row.task_id = u /\ row.state = "Waiting"
    BY <1>2 DEF TaskRows, ListRows, TaskStates
  <2>3. h \in Histories /\ h.md5 = md5 /\ h.run = restarts /\ h.size = -1 /\ ~h.gave_up
    BY <1>2, <2>1 DEF Histories
  <2>4. m_task_list' = Append(m_task_list, row)
    <3>1. \A r \in DOMAIN m_task_list : m_task_list[r].task_id # u
      BY <1>1, <1>2 DEF ListFollows
    <3>2. m_task_list' = ShowTask(m_task_list, row)
      BY <1>4
    <3> QED  BY <2>2, <3>1, <3>2 DEF ShowTask
  <2> HIDE DEF row, h, ent, md5
  <2>5. task \in [Known -> TaskRows] /\ history \in [Known -> Histories] /\ DOMAIN history = Known
    BY <1>1 DEF CatalogueTypeOK
  <2>6. /\ Known' = Known \cup {u} /\ task'[u] = ent /\ \A t \in Known : task'[t] = task[t] /\ t # u
        /\ task' \in [Known' -> TaskRows]
    BY <1>2, <1>4, <2>2, <2>5 DEF With, Known
  <2>7. /\ history'[u] = h /\ \A t \in Known : history'[t] = history[t]
        /\ history' \in [Known' -> Histories]
    BY <1>2, <1>4, <2>3, <2>5, <2>6 DEF With
  <2>8. /\ m_task_list' \in Seq(ListRows) /\ Len(m_task_list) \in Nat /\ Len(m_task_list') = Len(m_task_list) + 1
        /\ DOMAIN m_task_list = 1..Len(m_task_list) /\ DOMAIN m_task_list' = 1..(Len(m_task_list) + 1)
        /\ \A r \in 1..Len(m_task_list) : m_task_list'[r] = m_task_list[r]
        /\ m_task_list'[Len(m_task_list) + 1] = row
    <3> HIDE DEF ListRows
    <3> QED  BY <1>1, <2>2, <2>4, Appended DEF CatalogueTypeOK
  <2>9. CatalogueTypeOK'
    <3>1. Known' \subseteq 1..(m_task_counter' - 1) /\ m_task_counter' \in Nat \ {0}
      BY <1>1, <1>2, <2>6
    <3>2. requested' \subseteq Known'
      BY <1>1, <1>4, <2>6 DEF CatalogueTypeOK
    <3> QED  BY <1>1, <2>6, <2>7, <2>8, <3>1, <3>2 DEF CatalogueTypeOK, serverVars
  <2>10. ToldOnce'
    <3>1. \A t \in requested' : history'[t].size = -1
      BY <1>1, <1>4, <2>3, <2>7 DEF ToldOnce, CatalogueTypeOK
    <3>2. \A i \in DOMAIN described :
             /\ described[i].task_id \in Known' /\ described[i].task_id \notin requested'
             /\ history'[described[i].task_id].size = -1
      BY <1>1, <1>2, <1>4, <2>6, <2>7 DEF ToldOnce
    <3> QED  BY <1>1, <3>1, <3>2 DEF ToldOnce
  <2>11. CutSoFar'
    <3>1. Of(block, u) = {}
      BY <1>1, <1>2 DEF OfThePickedFile, Of
    <3>2. \A t \in Known : history'[t] = history[t] /\ ~Adds(t)
      BY <1>1, <2>7 DEF Adds
    <3>3. ASSUME NEW t \in Known'
          PROVE  /\ history'[t].size = -1 => Of(block, t) = {} /\ ~history'[t].gave_up
                 /\ history'[t].size >= 0 =>
                      IF history'[t].gave_up THEN \E n \in 0..(history'[t].size - 1) : Covers(block, t, n)
                      ELSE Covers(block, t, history'[t].size)
      BY <1>1, <2>3, <2>6, <2>7, <3>1, <3>2 DEF CutSoFar
    <3> QED  BY <1>1, <3>3 DEF CutSoFar, Adds
  <2>12. ShownAsTheyAre'
    BY <1>1 DEF ShownAsTheyAre, serverVars
  <2>13. OfThePickedFile'
    <3>1. ASSUME NEW t \in Known'
          PROVE  /\ history'[t].run <= restarts
                 /\ history'[t].run = restarts /\ history'[t].md5 # NoFile =>
                      /\ task'[t].file_id \in DOMAIN file_info
                      /\ file_info[task'[t].file_id] = history'[t].md5
                      /\ history'[t].size >= 0 => history'[t].size = SizeOfFile(history'[t].md5)
                 /\ task'[t].state = "Completed" => Of(block, t) # {}
      <4>1. CASE t = u
        BY <1>2, <2>1, <2>2, <2>3, <2>6, <2>7, <4>1
      <4>2. CASE t \in Known
        BY <1>1, <2>6, <2>7, <4>2 DEF OfThePickedFile, Picked
      <4> QED  BY <2>6, <4>1, <4>2
    <3>2. \A i \in DOMAIN described :
            /\ described[i].file_id = task'[described[i].task_id].file_id
            /\ history'[described[i].task_id].run = restarts /\ history'[described[i].task_id].md5 # NoFile =>
                 described[i].file_size = SizeOfFile(history'[described[i].task_id].md5)
      BY <1>1, <2>6, <2>7 DEF OfThePickedFile, Picked, ToldOnce
    <3>3. \A i \in DOMAIN block :
            /\ block[i].task_id \in Known' /\ block[i].file_id = task'[block[i].task_id].file_id
            /\ block[i].state = "Completed" /\ history'[block[i].task_id].run = restarts
                 /\ history'[block[i].task_id].md5 # NoFile
                 => block[i].data_of = history'[block[i].task_id].md5
      BY <1>1, <2>6, <2>7 DEF OfThePickedFile, Picked
    <3> QED  BY <1>1, <3>1, <3>2, <3>3 DEF OfThePickedFile, Picked, serverVars
  <2>14. ListFollows'
    <3>1. IsFiniteSet(Known') /\ Len(m_task_list') = Cardinality(Known')
      <4>1. IsFiniteSet(Known) /\ Len(m_task_list) = Cardinality(Known)
        BY <1>1 DEF ListFollows
      <4>2. IsFiniteSet(Known \cup {u}) /\ Cardinality(Known \cup {u}) = Cardinality(Known) + 1
        BY <1>2, <4>1, FS_AddElement
      <4> QED  BY <2>6, <2>8, <4>1, <4>2
    <3>2. \A t \in Known' : \E r \in DOMAIN m_task_list' : m_task_list'[r].task_id = t
      <4>1. \A t \in Known : \E r \in DOMAIN m_task_list : m_task_list[r].task_id = t
        BY <1>1 DEF ListFollows
      <4>2. \A t \in Known : \E r \in DOMAIN m_task_list' : m_task_list'[r].task_id = t
        BY <2>8, <4>1
      <4>3. \E r \in DOMAIN m_task_list' : m_task_list'[r].task_id = u
        BY <2>2, <2>8
      <4> QED  BY <2>6, <4>2, <4>3
    <3>3. \A r \in DOMAIN m_task_list' :
            /\ m_task_list'[r].task_id \in Known'
            /\ \/ m_task_list'[r].state = task'[m_task_list'[r].task_id].state
               \/ \E k \in DOMAIN completed : completed[k] = m_task_list'[r].task_id
      <4>1. \A r \in 1..Len(m_task_list) : m_task_list'[r] = m_task_list[r] /\ m_task_list[r].task_id \in Known
        BY <1>1, <2>8 DEF ListFollows
      <4>2. \A r \in DOMAIN m_task_list' : r \in 1..Len(m_task_list) \/ r = Len(m_task_list) + 1
        BY <2>8
      <4>3. \A r \in 1..Len(m_task_list) :
              \/ m_task_list'[r].state = task'[m_task_list'[r].task_id].state
              \/ \E k \in DOMAIN completed : completed[k] = m_task_list'[r].task_id
        BY <1>1, <2>6, <2>8, <4>1 DEF ListFollows
      <4> QED  BY <2>2, <2>6, <2>8, <4>1, <4>2, <4>3
    <3>4. \A k \in DOMAIN completed : completed[k] \in Known'
      BY <1>1, <2>6 DEF ListFollows
    <3> QED  BY <1>1, <3>1, <3>2, <3>3, <3>4 DEF ListFollows
  <2> QED  BY <2>9, <2>10, <2>11, <2>12, <2>13, <2>14 DEF CatalogueInv
<1> QED  BY <1>3, <1>4 DEF AddDownload

LEMMA DownloadResponseKeeps ==
  ASSUME CatalogueInv, DownloadResponse
  PROVE  CatalogueInv'
<1>1. /\ CatalogueTypeOK /\ ToldOnce /\ CutSoFar /\ ShownAsTheyAre /\ OfThePickedFile /\ ListFollows
      /\ adding = Idle /\ described # <<>> /\ described' = Tail(described)
      /\ UNCHANGED <<serverVars, requested, m_task_counter, task, m_task_list, block, completed,
                     failures, restarts>>
  BY DEF CatalogueInv, DownloadResponse
<1>2. PICK a : /\ a = Head(described) /\ adding' = AddFrom(0, a)
               /\ history' = [history EXCEPT ![a.task_id].size = a.file_size]
  BY DEF DownloadResponse
<1>3. /\ described' \in Seq(Answers) /\ a \in Answers /\ a = described[1] /\ 1 \in DOMAIN described
      /\ \A i \in DOMAIN described' : i \in Nat /\ i + 1 \in DOMAIN described /\ i + 1 # 1
                                      /\ described'[i] = described[i + 1]
  <2> HIDE DEF Answers
  <2> QED  BY <1>1, <1>2, Shortened DEF CatalogueTypeOK
<1>4. PICK u : u = a.task_id
  OBVIOUS
<1>5. PICK v : v = a.file_size
  OBVIOUS
<1>6. u \in Nat /\ v \in Nat /\ a.file_id \in Ids
  BY <1>3, <1>4, <1>5 DEF Answers
<1>7. /\ u \in Known /\ u \notin requested /\ history[u].size = -1
      /\ \A i \in DOMAIN described' : described'[i].task_id # u
  BY <1>1, <1>3, <1>4 DEF ToldOnce
<1>8. history \in [Known -> Histories] /\ history' = [history EXCEPT ![u].size = v]
  BY <1>1, <1>2, <1>4, <1>5 DEF CatalogueTypeOK
<1>9. /\ history' \in [Known -> Histories] /\ \A t \in Known \ {u} : history'[t] = history[t]
      /\ history'[u].size = v /\ history'[u].md5 = history[u].md5 /\ history'[u].run = history[u].run
      /\ history'[u].gave_up = history[u].gave_up
  BY <1>6, <1>7, <1>8, HistoryTold
<1>10. /\ v = 0 => adding' = Idle
       /\ v # 0 => /\ adding' = [answer |-> a, offset |-> 0] /\ adding' # Idle
                   /\ adding'.answer = a /\ adding'.offset = 0
                   /\ adding' \in [answer : Answers, offset : Nat] /\ adding'.offset < adding'.answer.file_size
  <2>1. v = 0 => adding' = Idle
    BY <1>2, <1>5 DEF AddFrom
  <2>2. ASSUME v # 0
        PROVE  /\ adding' = [answer |-> a, offset |-> 0] /\ adding' # Idle
               /\ adding'.answer = a /\ adding'.offset = 0
               /\ adding' \in [answer : Answers, offset : Nat] /\ adding'.offset < adding'.answer.file_size
    <3>1. 0 < a.file_size
      BY <1>5, <1>6, <2>2
    <3>2. adding' = [answer |-> a, offset |-> 0]
      BY <1>2, <3>1 DEF AddFrom
    <3>3. adding'.answer = a /\ adding'.offset = 0
      BY <3>2
    <3>4. adding' # Idle
      BY <3>3 DEF Idle
    <3> HIDE DEF Answers
    <3> QED  BY <1>3, <3>1, <3>2, <3>3, <3>4
  <2> QED  BY <2>1, <2>2
<1>11. Known' = Known /\ block' = block
  BY <1>1 DEF Known
<1>12. CatalogueTypeOK'
  BY <1>1, <1>3, <1>9, <1>10, <1>11 DEF CatalogueTypeOK, serverVars
<1>13. ToldOnce'
  <2>1. \A t \in requested' : history'[t].size = -1
    BY <1>1, <1>7, <1>9 DEF ToldOnce, CatalogueTypeOK
  <2>2. \A i \in DOMAIN described' :
           /\ described'[i].task_id \in Known' /\ described'[i].task_id \notin requested'
           /\ history'[described'[i].task_id].size = -1
    BY <1>1, <1>3, <1>7, <1>9, <1>11 DEF ToldOnce
  <2>3. \A i, j \in DOMAIN described' : described'[i].task_id = described'[j].task_id => i = j
    <3>1. SUFFICES ASSUME NEW i \in DOMAIN described', NEW j \in DOMAIN described',
                          described'[i].task_id = described'[j].task_id
                   PROVE  i = j
      OBVIOUS
    <3>2. i + 1 = j + 1
      BY <1>1, <1>3, <3>1 DEF ToldOnce
    <3> QED  BY <1>3, <3>2
  <2> QED  BY <2>1, <2>2, <2>3 DEF ToldOnce
<1>14. CutSoFar'
  <2>1. adding' # Idle => adding'.answer.task_id = u /\ v # 0 /\ adding'.offset = 0 /\ adding'.answer.file_size = v
    BY <1>4, <1>5, <1>10
  <2>2. ASSUME NEW t \in Known', t # u
        PROVE  /\ history'[t] = history[t] /\ ~Adds(t)
               /\ ~(adding' # Idle /\ adding'.answer.task_id = t)
    BY <1>1, <1>9, <1>11, <2>1, <2>2 DEF Adds
  <2>3. /\ Of(block, u) = {} /\ ~history'[u].gave_up /\ Covers(block, u, 0)
    BY <1>1, <1>7, <1>9, NothingCovers DEF CutSoFar
  <2>4. v = 0 => adding' = Idle
    BY <1>10
  <2>5. v # 0 => adding' # Idle
    BY <1>10
  <2>6. ASSUME NEW t \in Known', t # u
        PROVE  /\ history'[t].size = -1 => Of(block', t) = {} /\ ~history'[t].gave_up
               /\ history'[t].size >= 0 =>
                   IF history'[t].gave_up THEN \E n \in 0..(history'[t].size - 1) : Covers(block', t, n)
                   ELSE Covers(block', t, history'[t].size)
    BY <1>1, <1>11, <2>2, <2>6 DEF CutSoFar
  <2>7. /\ history'[u].size # -1
        /\ v = 0 => Covers(block', u, history'[u].size) /\ adding' = Idle
        /\ v # 0 => Covers(block', u, adding'.offset) /\ adding' # Idle /\ adding'.answer.task_id = u
                    /\ history'[u].size = adding'.answer.file_size
    BY <1>6, <1>9, <1>11, <2>1, <2>3, <2>4, <2>5
  <2>8. (adding' # Idle => adding'.answer.task_id \in Known')
    BY <1>7, <1>11, <2>1
  <2>9. ~history'[u].gave_up
    BY <2>3
  <2>10. \A t \in Known' :
          /\ history'[t].size = -1 => Of(block', t) = {} /\ ~history'[t].gave_up
          /\ adding' # Idle /\ adding'.answer.task_id = t =>
               /\ history'[t].size = adding'.answer.file_size /\ ~history'[t].gave_up
               /\ Covers(block', t, adding'.offset)
          /\ history'[t].size >= 0 /\ ~(adding' # Idle /\ adding'.answer.task_id = t) =>
               IF history'[t].gave_up THEN \E n \in 0..(history'[t].size - 1) : Covers(block', t, n)
               ELSE Covers(block', t, history'[t].size)
    BY <2>2, <2>6, <2>7, <2>9
  <2> QED  BY <2>8, <2>10 DEF CutSoFar, Adds
<1>15. ShownAsTheyAre' /\ ListFollows'
  BY <1>1 DEF ShownAsTheyAre, ListFollows, Known, serverVars
<1>16. OfThePickedFile'
  <2>1. \A t \in Known : history'[t].md5 = history[t].md5 /\ history'[t].run = history[t].run
    BY <1>9
  <2>2. a.file_id = task[u].file_id /\ (Picked(u) => v = SizeOfFile(history[u].md5))
    BY <1>1, <1>3, <1>4, <1>5 DEF OfThePickedFile
  <2>3. \A t \in Known' :
          /\ history'[t].run <= restarts'
          /\ history'[t].run = restarts' /\ history'[t].md5 # NoFile =>
               /\ task'[t].file_id \in DOMAIN file_info' /\ file_info'[task'[t].file_id] = history'[t].md5
               /\ history'[t].size >= 0 => history'[t].size = SizeOfFile(history'[t].md5)
          /\ task'[t].state = "Completed" => Of(block', t) # {}
    BY <1>1, <1>9, <1>11, <2>1, <2>2 DEF OfThePickedFile, Picked, serverVars
  <2>4. \A i \in DOMAIN described' :
          /\ described'[i].file_id = task'[described'[i].task_id].file_id
          /\ history'[described'[i].task_id].run = restarts' /\ history'[described'[i].task_id].md5 # NoFile =>
               described'[i].file_size = SizeOfFile(history'[described'[i].task_id].md5)
    BY <1>1, <1>3, <2>1 DEF OfThePickedFile, Picked, ToldOnce
  <2>5. adding' # Idle => adding'.answer.file_id = task'[adding'.answer.task_id].file_id
    BY <1>1, <1>4, <1>10, <2>2
  <2>6. \A i \in DOMAIN block' :
          /\ block'[i].task_id \in Known' /\ block'[i].file_id = task'[block'[i].task_id].file_id
          /\ block'[i].state = "Completed" /\ history'[block'[i].task_id].run = restarts'
               /\ history'[block'[i].task_id].md5 # NoFile
               => block'[i].data_of = history'[block'[i].task_id].md5
    BY <1>1, <1>11, <2>1 DEF OfThePickedFile, Picked
  <2> QED  BY <2>3, <2>4, <2>5, <2>6 DEF OfThePickedFile, Picked
<1> QED  BY <1>12, <1>13, <1>14, <1>15, <1>16 DEF CatalogueInv
LEMMA AddBlockKeeps ==
  ASSUME CatalogueInv, AddBlock
  PROVE  CatalogueInv'
<1>1. /\ CatalogueTypeOK /\ ToldOnce /\ CutSoFar /\ ShownAsTheyAre /\ OfThePickedFile /\ ListFollows
      /\ adding # Idle
      /\ UNCHANGED <<serverVars, requested, described, m_task_counter, task, m_task_list, client_file,
                     completed, restarts>>
  BY DEF CatalogueInv, AddBlock
<1>2. PICK a, o, u, v : a = adding.answer /\ o = adding.offset /\ u = a.task_id /\ v = a.file_size
  OBVIOUS
<1>3. /\ a \in Answers /\ o \in Nat /\ o < v /\ u \in Nat /\ v \in Nat /\ a.file_id \in Ids
      /\ adding \in [answer : Answers, offset : Nat]
  BY <1>1, <1>2 DEF CatalogueTypeOK, Answers
<1>4. PICK z : z = SizeOfBlock(o, v)
  OBVIOUS
<1>5. z \in 1..BlockBytes /\ z \in Nat /\ o + z \in Nat /\ o + z <= v
  BY <1>3, <1>4, CatalogueAssumption DEF SizeOfBlock
<1>6. /\ u \in Known /\ history[u].size = v /\ ~history[u].gave_up /\ Covers(block, u, o)
      /\ a.file_id = task[u].file_id
  BY <1>1, <1>2 DEF CutSoFar, Adds, OfThePickedFile
<1>7. Known' = Known /\ \A t \in Known : t # u => ~Adds(t)
  BY <1>1, <1>2 DEF Known, Adds
<1>8. CASE /\ UNCHANGED <<failures, history>> /\ adding' = AddFrom(o + z, a)
           /\ block' = Append(block,
                [task_id |-> u, file_id |-> a.file_id, offset |-> o,
                 block_size |-> z, state |-> "Waiting", data_of |-> NoFile])
  <2>1. PICK r : r = [task_id |-> u, file_id |-> a.file_id, offset |-> o,
                      block_size |-> z, state |-> "Waiting", data_of |-> NoFile]
    OBVIOUS
  <2>2. /\ r \in Blocks /\ r.task_id = u /\ r.file_id = a.file_id /\ r.offset = o /\ r.block_size = z
        /\ r.state = "Waiting"
    BY <1>3, <1>5, <2>1 DEF Blocks
  <2>3. block \in Seq(Blocks) /\ block' = Append(block, r)
    BY <1>1, <1>8, <2>1 DEF CatalogueTypeOK
  <2>4. /\ block' \in Seq(Blocks) /\ Len(block) \in Nat
        /\ DOMAIN block = 1..Len(block) /\ DOMAIN block' = 1..(Len(block) + 1)
        /\ \A i \in 1..Len(block) : block'[i] = block[i]
        /\ block'[Len(block) + 1] = r
    <3> HIDE DEF Blocks
    <3> QED  BY <2>2, <2>3, Appended
  <2>5. \A i \in DOMAIN block' : \/ i \in DOMAIN block /\ block'[i] = block[i]
                                 \/ i = Len(block) + 1 /\ block'[i] = r
    BY <2>4
  <2>6. /\ \A t : t # u => /\ Of(block', t) = Of(block, t)
                           /\ \A n : Covers(block, t, n) => Covers(block', t, n)
        /\ Covers(block', u, o + z)
    BY <1>6, <2>2, <2>3, CoversGrow
  <2>7. Len(block) + 1 \in Of(block', u)
    BY <2>2, <2>4 DEF Of
  <2>8. /\ o + z = v => adding' = Idle
        /\ o + z # v => /\ adding' # Idle /\ adding'.answer = a /\ adding'.offset = o + z
                        /\ adding' \in [answer : Answers, offset : Nat]
                        /\ adding'.offset < adding'.answer.file_size
    <3>1. o + z = v => adding' = Idle
      BY <1>2, <1>3, <1>8 DEF AddFrom
    <3>2. ASSUME o + z # v
          PROVE  /\ adding' # Idle /\ adding'.answer = a /\ adding'.offset = o + z
                 /\ adding' \in [answer : Answers, offset : Nat]
                 /\ adding'.offset < adding'.answer.file_size
      <4>1. o + z < a.file_size
        BY <1>2, <1>3, <1>5, <3>2
      <4>2. adding' = [answer |-> a, offset |-> o + z]
        BY <1>8, <4>1 DEF AddFrom
      <4>3. adding'.answer = a /\ adding'.offset = o + z
        BY <4>2
      <4>4. adding' # Idle
        BY <1>5, <4>3 DEF Idle
      <4> HIDE DEF Answers
      <4> QED  BY <1>3, <1>5, <4>1, <4>2, <4>3, <4>4
    <3> QED  BY <3>1, <3>2
  <2>9. CatalogueTypeOK'
    <3>1. Known' = Known /\ history' = history
      BY <1>7, <1>8
    <3>2. \/ adding' = Idle
          \/ adding' \in [answer : Answers, offset : Nat] /\ adding'.offset < adding'.answer.file_size
      BY <2>8
    <3> HIDE DEF Blocks, Answers, Histories, TaskRows, ListRows, FileRows
    <3> QED  BY <1>1, <2>4, <3>1, <3>2 DEF CatalogueTypeOK, serverVars
  <2>10. ToldOnce' /\ ShownAsTheyAre' /\ ListFollows'
    BY <1>1, <1>8 DEF ToldOnce, ShownAsTheyAre, ListFollows, Known, serverVars
  <2>11. CutSoFar'
    <3>1. adding' # Idle => adding'.answer.task_id = u /\ adding'.offset = o + z /\ adding'.answer.file_size = v
      BY <1>2, <2>8
    <3>2. adding' # Idle => adding'.answer.task_id \in Known'
      BY <1>6, <1>7, <3>1
    <3>3. adding' = Idle => Covers(block', u, v)
      BY <2>6, <2>8
    <3>4. \A t \in Known' :
            /\ history'[t].size = -1 => Of(block', t) = {} /\ ~history'[t].gave_up
            /\ adding' # Idle /\ adding'.answer.task_id = t =>
                 /\ history'[t].size = adding'.answer.file_size /\ ~history'[t].gave_up
                 /\ Covers(block', t, adding'.offset)
            /\ history'[t].size >= 0 /\ ~(adding' # Idle /\ adding'.answer.task_id = t) =>
                 IF history'[t].gave_up THEN \E n \in 0..(history'[t].size - 1) : Covers(block', t, n)
                 ELSE Covers(block', t, history'[t].size)
      <4> TAKE t \in Known'
      <4>1. CASE t = u
        BY <1>3, <1>6, <1>8, <2>6, <3>1, <3>3, <4>1
      <4>2. CASE t # u
        <5>1. t \in Known /\ history'[t] = history[t] /\ ~Adds(t) /\ ~(adding' # Idle /\ adding'.answer.task_id = t)
          BY <1>7, <1>8, <3>1, <4>2
        <5>2. /\ Of(block', t) = Of(block, t)
              /\ \A n : Covers(block, t, n) => Covers(block', t, n)
          BY <2>6, <4>2
        <5> QED  BY <1>1, <5>1, <5>2 DEF CutSoFar
      <4> QED  BY <4>1, <4>2
    <3> QED  BY <3>2, <3>4 DEF CutSoFar, Adds
  <2>12. OfThePickedFile'
    <3>1. \A t \in Known' : task'[t].state = "Completed" => Of(block', t) # {}
      <4>1. \A t \in Known' : t # u => (task'[t].state = "Completed" => Of(block', t) # {})
        BY <1>1, <1>7, <2>6 DEF OfThePickedFile
      <4> QED  BY <2>7, <4>1
    <3>2. \A i \in DOMAIN block' :
            /\ block'[i].task_id \in Known' /\ block'[i].file_id = task'[block'[i].task_id].file_id
            /\ block'[i].state = "Completed" /\ history'[block'[i].task_id].run = restarts'
                 /\ history'[block'[i].task_id].md5 # NoFile
                 => block'[i].data_of = history'[block'[i].task_id].md5
      <4> TAKE i \in DOMAIN block'
      <4>1. CASE i \in DOMAIN block /\ block'[i] = block[i]
        BY <1>1, <1>7, <1>8, <4>1 DEF OfThePickedFile, Picked
      <4>2. CASE block'[i] = r
        BY <1>1, <1>6, <1>7, <2>2, <4>2
      <4> QED  BY <2>5, <4>1, <4>2
    <3>3. adding' # Idle => adding'.answer.file_id = task'[adding'.answer.task_id].file_id
      BY <1>1, <1>2, <1>6, <2>8
    <3>4. \A t \in Known' :
          /\ history'[t].run <= restarts'
          /\ history'[t].run = restarts' /\ history'[t].md5 # NoFile =>
               /\ task'[t].file_id \in DOMAIN file_info' /\ file_info'[task'[t].file_id] = history'[t].md5
               /\ history'[t].size >= 0 => history'[t].size = SizeOfFile(history'[t].md5)
      BY <1>1, <1>7, <1>8 DEF OfThePickedFile, Picked, serverVars
    <3>5. \A i \in DOMAIN described' :
          /\ described'[i].file_id = task'[described'[i].task_id].file_id
          /\ history'[described'[i].task_id].run = restarts' /\ history'[described'[i].task_id].md5 # NoFile =>
               described'[i].file_size = SizeOfFile(history'[described'[i].task_id].md5)
      BY <1>1, <1>8 DEF OfThePickedFile, Picked
    <3> QED  BY <3>1, <3>2, <3>3, <3>4, <3>5 DEF OfThePickedFile, Picked
  <2> QED  BY <2>9, <2>10, <2>11, <2>12 DEF CatalogueInv
<1>9. CASE UNCHANGED block /\ adding' = Idle /\ history' = [history EXCEPT ![u].gave_up = TRUE]
  <2>1. history \in [Known -> Histories]
    BY <1>1 DEF CatalogueTypeOK
  <2>2. /\ history' \in [Known -> Histories] /\ \A t \in Known \ {u} : history'[t] = history[t]
        /\ history'[u].size = history[u].size /\ history'[u].md5 = history[u].md5
        /\ history'[u].run = history[u].run /\ history'[u].gave_up = TRUE
    <3> DEFINE q == [history[u] EXCEPT !.gave_up = TRUE]
    <3>1. history[u] \in Histories
      BY <1>6, <2>1
    <3>2. q = [md5 |-> history[u].md5, run |-> history[u].run, size |-> history[u].size, gave_up |-> TRUE]
      BY <3>1, GiveUpIs
    <3>3. /\ q \in Histories /\ q.size = history[u].size /\ q.md5 = history[u].md5
          /\ q.run = history[u].run /\ q.gave_up = TRUE
      BY <3>1, <3>2 DEF Histories
    <3>4. history' = [history EXCEPT ![u] = q]
      BY <1>9
    <3> HIDE DEF q
    <3> QED  BY <1>6, <2>1, <3>3, <3>4
  <2>3. \A t \in Known : /\ history'[t].size = history[t].size /\ history'[t].md5 = history[t].md5
                         /\ history'[t].run = history[t].run
    BY <2>2
  <2>4. CatalogueTypeOK'
    BY <1>1, <1>7, <1>9, <2>2 DEF CatalogueTypeOK, serverVars
  <2>5. ToldOnce'
    BY <1>1, <1>7, <2>3 DEF ToldOnce, CatalogueTypeOK
  <2>6. ShownAsTheyAre' /\ ListFollows'
    BY <1>1 DEF ShownAsTheyAre, ListFollows, Known, serverVars
  <2>7. CutSoFar'
    <3>1. \A t \in Known' :
            /\ history'[t].size = -1 => Of(block', t) = {} /\ ~history'[t].gave_up
            /\ history'[t].size >= 0 =>
                 IF history'[t].gave_up THEN \E n \in 0..(history'[t].size - 1) : Covers(block', t, n)
                 ELSE Covers(block', t, history'[t].size)
      <4> TAKE t \in Known'
      <4>1. CASE t = u
        <5>1. o \in 0..(v - 1)
          BY <1>3
        <5> QED  BY <1>3, <1>6, <1>9, <2>2, <4>1, <5>1
      <4>2. CASE t # u
        BY <1>1, <1>7, <1>9, <2>2, <4>2 DEF CutSoFar
      <4> QED  BY <4>1, <4>2
    <3> QED  BY <1>9, <3>1 DEF CutSoFar, Adds
  <2>8. OfThePickedFile'
    BY <1>1, <1>7, <1>9, <2>3 DEF OfThePickedFile, Picked, ToldOnce, serverVars
  <2> QED  BY <2>4, <2>5, <2>6, <2>7, <2>8 DEF CatalogueInv
<1> QED  BY <1>2, <1>4, <1>8, <1>9 DEF AddBlock

LEMMA UpdateTaskKeeps ==
  ASSUME CatalogueInv, UpdateTask
  PROVE  CatalogueInv'
<1>1. /\ CatalogueTypeOK /\ ToldOnce /\ CutSoFar /\ ShownAsTheyAre /\ OfThePickedFile /\ ListFollows
      /\ completed # <<>> /\ completed' = Tail(completed)
      /\ UNCHANGED <<serverVars, requested, described, m_task_counter, task, client_file, block, adding,
                     failures, restarts, history>>
  BY DEF CatalogueInv, UpdateTask
<1>2. PICK u : u = Head(completed)
  OBVIOUS
<1>3. /\ completed' \in Seq(Nat) /\ u = completed[1] /\ 1 \in DOMAIN completed
      /\ \A k \in DOMAIN completed' : k + 1 \in DOMAIN completed /\ completed'[k] = completed[k + 1]
      /\ \A k \in DOMAIN completed : k = 1 \/ (k - 1 \in DOMAIN completed' /\ completed'[k - 1] = completed[k])
  BY <1>1, <1>2, Shortened DEF CatalogueTypeOK
<1>4. u \in Known /\ Known' = Known
  BY <1>1, <1>3 DEF ListFollows, Known
<1>5. PICK row : row = [task_id |-> u, state |-> task[u].state]
  OBVIOUS
<1>6. row \in ListRows /\ row.task_id = u /\ row.state = task[u].state
  <2>1. u \in Nat /\ task[u].state \in TaskStates
    BY <1>1, <1>4 DEF CatalogueTypeOK, TaskRows
  <2> QED  BY <1>5, <2>1 DEF ListRows
<1>7. /\ m_task_list' = [r \in DOMAIN m_task_list |->
                           IF m_task_list[r].task_id = u THEN row ELSE m_task_list[r]]
      /\ DOMAIN m_task_list = 1..Len(m_task_list) /\ Len(m_task_list) \in Nat
      /\ \A r \in DOMAIN m_task_list : m_task_list[r] \in ListRows
  <2>1. m_task_list \in Seq(ListRows)
    BY <1>1 DEF CatalogueTypeOK
  <2>2. /\ DOMAIN m_task_list = 1..Len(m_task_list) /\ Len(m_task_list) \in Nat
        /\ \A r \in DOMAIN m_task_list : m_task_list[r] \in ListRows
    BY <2>1, Elements
  <2> QED  BY <1>2, <1>5, <2>2 DEF UpdateTask, RowOf
<1>8. /\ m_task_list' \in Seq(ListRows) /\ Len(m_task_list') = Len(m_task_list)
      /\ DOMAIN m_task_list' = DOMAIN m_task_list
      /\ \A r \in DOMAIN m_task_list : /\ m_task_list'[r] = m_task_list[r] \/ m_task_list'[r] = row
                                       /\ m_task_list'[r].task_id = m_task_list[r].task_id
                                       /\ m_task_list'[r].task_id = u => m_task_list'[r] = row
                                       /\ m_task_list'[r].task_id # u => m_task_list'[r] = m_task_list[r]
  <2>1. /\ DOMAIN m_task_list' = DOMAIN m_task_list
        /\ \A r \in DOMAIN m_task_list : /\ m_task_list'[r] = m_task_list[r] \/ m_task_list'[r] = row
                                         /\ m_task_list'[r].task_id = m_task_list[r].task_id
                                         /\ m_task_list'[r].task_id = u => m_task_list'[r] = row
                                         /\ m_task_list'[r].task_id # u => m_task_list'[r] = m_task_list[r]
                                         /\ m_task_list'[r] \in ListRows
    BY <1>6, <1>7
  <2>2. m_task_list' \in Seq(ListRows) /\ Len(m_task_list') = Len(m_task_list)
    <3>1. m_task_list' \in [1..Len(m_task_list) -> ListRows]
      BY <1>7, <2>1
    <3> HIDE DEF ListRows
    <3> QED  BY <1>7, <3>1
  <2> QED  BY <2>1, <2>2
<1>9. CatalogueTypeOK'
  BY <1>1, <1>3, <1>4, <1>8 DEF CatalogueTypeOK, serverVars
<1>10. ToldOnce' /\ CutSoFar' /\ ShownAsTheyAre' /\ OfThePickedFile'
  BY <1>1, <1>4 DEF ToldOnce, CutSoFar, ShownAsTheyAre, OfThePickedFile, Adds, Picked, serverVars
<1>11. ListFollows'
  <2>1. \A k \in DOMAIN completed' : completed'[k] \in Known'
    BY <1>1, <1>3, <1>4 DEF ListFollows
  <2>2. \A t \in Known' : \E r \in DOMAIN m_task_list' : m_task_list'[r].task_id = t
    BY <1>1, <1>4, <1>8 DEF ListFollows
  <2>3. ASSUME NEW r \in DOMAIN m_task_list'
        PROVE  /\ m_task_list'[r].task_id \in Known'
               /\ \/ m_task_list'[r].state = task'[m_task_list'[r].task_id].state
                  \/ \E k \in DOMAIN completed' : completed'[k] = m_task_list'[r].task_id
    <3>1. r \in DOMAIN m_task_list /\ m_task_list'[r].task_id \in Known'
      BY <1>1, <1>4, <1>8 DEF ListFollows
    <3>2. CASE m_task_list'[r].task_id = u
      BY <1>1, <1>6, <1>8, <3>1, <3>2
    <3>3. CASE m_task_list'[r].task_id # u
      <4>1. m_task_list'[r] = m_task_list[r]
        BY <1>8, <3>1, <3>3
      <4>2. CASE m_task_list[r].state = task[m_task_list[r].task_id].state
        BY <1>1, <3>1, <4>1, <4>2
      <4>3. CASE \E k \in DOMAIN completed : completed[k] = m_task_list[r].task_id
        <5>1. PICK k \in DOMAIN completed : completed[k] = m_task_list[r].task_id
          BY <4>3
        <5>2. k - 1 \in DOMAIN completed' /\ completed'[k - 1] = completed[k]
          BY <1>3, <3>3, <4>1, <5>1
        <5> QED  BY <3>1, <4>1, <5>1, <5>2
      <4> QED  BY <1>1, <3>1, <4>2, <4>3 DEF ListFollows
    <3> QED  BY <3>2, <3>3
  <2> QED  BY <1>1, <1>4, <1>8, <2>1, <2>2, <2>3 DEF ListFollows
<1> QED  BY <1>9, <1>10, <1>11 DEF CatalogueInv
-----------------------------------------------------------------------------
(* The client's scheduler.                                                 *)

LEMMA BlockFailed ==
  ASSUME NEW b \in Blocks, NEW s
  PROVE  [b EXCEPT !.state = s] =
           [task_id |-> b.task_id, file_id |-> b.file_id, offset |-> b.offset,
            block_size |-> b.block_size, state |-> s, data_of |-> b.data_of]
<1>1. DOMAIN b = {"task_id", "file_id", "offset", "block_size", "state", "data_of"}
  BY DEF Blocks
<1>2. [b EXCEPT !.state = s] = [x \in DOMAIN b |-> IF x = "state" THEN s ELSE b[x]]
  OBVIOUS
<1> QED  BY <1>1, <1>2

LEMMA BlockFilled ==
  ASSUME NEW b \in Blocks, NEW s, NEW d
  PROVE  [b EXCEPT !.state = s, !.data_of = d] =
           [task_id |-> b.task_id, file_id |-> b.file_id, offset |-> b.offset,
            block_size |-> b.block_size, state |-> s, data_of |-> d]
<1>1. DOMAIN b = {"task_id", "file_id", "offset", "block_size", "state", "data_of"}
  BY DEF Blocks
<1>2. [b EXCEPT !.state = s, !.data_of = d] =
        [x \in DOMAIN b |-> IF x = "state" THEN s ELSE IF x = "data_of" THEN d ELSE b[x]]
  OBVIOUS
<1> QED  BY <1>1, <1>2

LEMMA BlockArrivesKeeps ==
  ASSUME CatalogueInv, NEW i \in DOMAIN block, BlockArrives(i)
  PROVE  CatalogueInv'
<1>1. /\ CatalogueTypeOK /\ ToldOnce /\ CutSoFar /\ ShownAsTheyAre /\ OfThePickedFile /\ ListFollows
      /\ block[i].file_id \in DOMAIN file_info
      /\ UNCHANGED <<serverVars, requested, described, m_task_counter, m_task_list, client_file, adding,
                     failures, restarts, history>>
  BY DEF CatalogueInv, BlockArrives
<1>2. PICK u, d : u = block[i].task_id /\ d = file_info[block[i].file_id]
  OBVIOUS
<1>3. block \in Seq(Blocks) /\ block[i] \in Blocks /\ d \in Files
  BY <1>1, <1>2, Elements DEF CatalogueTypeOK
<1>4. PICK q : q = [task_id |-> u, file_id |-> block[i].file_id, offset |-> block[i].offset,
                    block_size |-> block[i].block_size, state |-> "Completed", data_of |-> d]
  OBVIOUS
<1>5. /\ q \in Blocks /\ q.task_id = block[i].task_id /\ q.file_id = block[i].file_id
      /\ q.offset = block[i].offset /\ q.block_size = block[i].block_size
      /\ q.state = "Completed" /\ q.data_of = d
  BY <1>2, <1>3, <1>4 DEF Blocks
<1>6. block' = [block EXCEPT ![i] = q]
  <2>1. [block[i] EXCEPT !.state = "Completed", !.data_of = d] = q
    BY <1>2, <1>3, <1>4, BlockFilled
  <2>2. block' = [block EXCEPT ![i] = [block[i] EXCEPT !.state = "Completed", !.data_of = d]]
    BY <1>2 DEF BlockArrives
  <2> QED  BY <2>1, <2>2
<1>7. /\ block' \in Seq(Blocks) /\ DOMAIN block' = DOMAIN block /\ block'[i] = q
      /\ \A j \in DOMAIN block \ {i} : block'[j] = block[j]
      /\ \A j \in DOMAIN block : /\ block'[j].task_id = block[j].task_id /\ block'[j].file_id = block[j].file_id
                                 /\ block'[j].offset = block[j].offset /\ block'[j].block_size = block[j].block_size
  BY <1>3, <1>5, <1>6, BlockAnswered
<1>8. \A t : Of(block', t) = Of(block, t) /\ \A n : Covers(block, t, n) => Covers(block', t, n)
  BY <1>7, CoversKept
<1>9. task \in [Known -> TaskRows] /\ u \in Known /\ u \in Nat
  <2>1. block[i].task_id \in Known
    BY <1>1 DEF OfThePickedFile
  <2>2. u \in Nat
    BY <1>2, <1>3 DEF Blocks
  <2> QED  BY <1>1, <1>2, <2>1, <2>2 DEF CatalogueTypeOK
<1>10. \/ task' = task /\ completed' = completed
       \/ task' = [task EXCEPT ![u].state = "Completed"] /\ completed' = Append(completed, u)
  BY <1>2 DEF BlockArrives
<1>11. /\ Known' = Known /\ task' \in [Known -> TaskRows]
       /\ \A t \in Known : task'[t].file_id = task[t].file_id /\ (t # u => task'[t] = task[t])
  <2>1. CASE task' = task
    BY <1>9, <2>1 DEF Known
  <2>2. CASE task' = [task EXCEPT ![u].state = "Completed"]
    <3>1. PICK e : e = [file_id |-> task[u].file_id, state |-> "Completed"]
      OBVIOUS
    <3>2. task[u] \in TaskRows
      BY <1>9
    <3>3. [task[u] EXCEPT !.state = "Completed"] = e
      BY <3>1, <3>2 DEF TaskRows
    <3>4. e \in TaskRows /\ e.file_id = task[u].file_id
      BY <3>1, <3>2 DEF TaskRows, TaskStates
    <3>5. task' = [task EXCEPT ![u] = e]
      BY <2>2, <3>3
    <3> QED  BY <1>9, <3>4, <3>5 DEF Known
  <2> QED  BY <1>10, <2>1, <2>2
<1>12. /\ completed' \in Seq(Nat)
       /\ \A k \in DOMAIN completed : k \in DOMAIN completed' /\ completed'[k] = completed[k]
       /\ \A k \in DOMAIN completed' : completed'[k] \in Known
       /\ task' = task \/ \E k \in DOMAIN completed' : completed'[k] = u
  <2>1. completed \in Seq(Nat) /\ \A k \in DOMAIN completed : completed[k] \in Known
    BY <1>1 DEF CatalogueTypeOK, ListFollows
  <2>2. CASE task' = task /\ completed' = completed
    BY <2>1, <2>2
  <2>3. CASE completed' = Append(completed, u)
    <3>1. /\ completed' \in Seq(Nat) /\ Len(completed) \in Nat /\ DOMAIN completed = 1..Len(completed)
          /\ DOMAIN completed' = 1..(Len(completed) + 1)
          /\ \A k \in 1..Len(completed) : completed'[k] = completed[k]
          /\ completed'[Len(completed) + 1] = u
      BY <1>9, <2>1, <2>3, Appended
    <3> QED  BY <1>9, <2>1, <3>1
  <2> QED  BY <1>10, <2>2, <2>3
<1>13. CatalogueTypeOK'
  <2> HIDE DEF Blocks, Answers, Histories, TaskRows, ListRows, FileRows
  <2> QED  BY <1>1, <1>7, <1>11, <1>12 DEF CatalogueTypeOK, serverVars
<1>14. ToldOnce' /\ ShownAsTheyAre'
  BY <1>1, <1>11 DEF ToldOnce, ShownAsTheyAre, serverVars
<1>15. CutSoFar'
  BY <1>1, <1>8, <1>11 DEF CutSoFar, Adds
<1>16. OfThePickedFile'
  <2>1. \A t \in Known' : task'[t].state = "Completed" => Of(block', t) # {}
    <3>1. i \in Of(block', u)
      BY <1>2, <1>7 DEF Of
    <3>2. \A t \in Known : t # u => (task'[t].state = "Completed" => Of(block', t) # {})
      BY <1>1, <1>8, <1>11 DEF OfThePickedFile
    <3> QED  BY <1>11, <3>1, <3>2
  <2>2. \A j \in DOMAIN block' :
          /\ block'[j].task_id \in Known' /\ block'[j].file_id = task'[block'[j].task_id].file_id
          /\ block'[j].state = "Completed" /\ history'[block'[j].task_id].run = restarts'
               /\ history'[block'[j].task_id].md5 # NoFile
               => block'[j].data_of = history'[block'[j].task_id].md5
    <3> TAKE j \in DOMAIN block'
    <3>1. CASE j = i
      BY <1>1, <1>2, <1>5, <1>7, <1>9, <1>11, <3>1 DEF OfThePickedFile, Picked
    <3>2. CASE j # i
      BY <1>1, <1>7, <1>11, <3>2 DEF OfThePickedFile, Picked
    <3> QED  BY <3>1, <3>2
  <2>3. adding' # Idle => adding'.answer.file_id = task'[adding'.answer.task_id].file_id
    BY <1>1, <1>11 DEF OfThePickedFile, CutSoFar
  <2>4. \A t \in Known' :
          /\ history'[t].run <= restarts'
          /\ history'[t].run = restarts' /\ history'[t].md5 # NoFile =>
               /\ task'[t].file_id \in DOMAIN file_info' /\ file_info'[task'[t].file_id] = history'[t].md5
               /\ history'[t].size >= 0 => history'[t].size = SizeOfFile(history'[t].md5)
    BY <1>1, <1>11 DEF OfThePickedFile, Picked, serverVars
  <2>5. \A k \in DOMAIN described' :
          /\ described'[k].file_id = task'[described'[k].task_id].file_id
          /\ history'[described'[k].task_id].run = restarts' /\ history'[described'[k].task_id].md5 # NoFile =>
               described'[k].file_size = SizeOfFile(history'[described'[k].task_id].md5)
    BY <1>1, <1>11 DEF OfThePickedFile, Picked, ToldOnce
  <2> QED  BY <2>1, <2>2, <2>3, <2>4, <2>5 DEF OfThePickedFile, Picked
<1>17. ListFollows'
  <2>1. \A r \in DOMAIN m_task_list :
          \/ m_task_list[r].state = task'[m_task_list[r].task_id].state
          \/ \E k \in DOMAIN completed' : completed'[k] = m_task_list[r].task_id
    <3> TAKE r \in DOMAIN m_task_list
    <3>1. /\ m_task_list[r].task_id \in Known
          /\ \/ m_task_list[r].state = task[m_task_list[r].task_id].state
             \/ \E k \in DOMAIN completed : completed[k] = m_task_list[r].task_id
      BY <1>1 DEF ListFollows
    <3>2. CASE \E k \in DOMAIN completed : completed[k] = m_task_list[r].task_id
      BY <1>12, <3>2
    <3>3. CASE m_task_list[r].state = task[m_task_list[r].task_id].state
      BY <1>11, <1>12, <3>1, <3>3
    <3> QED  BY <3>1, <3>2, <3>3
  <2> QED  BY <1>1, <1>11, <1>12, <2>1 DEF ListFollows
<1> QED  BY <1>13, <1>14, <1>15, <1>16, <1>17 DEF CatalogueInv

LEMMA BlockFailsKeeps ==
  ASSUME CatalogueInv, NEW i \in DOMAIN block, BlockFails(i)
  PROVE  CatalogueInv'
<1>1. /\ CatalogueTypeOK /\ ToldOnce /\ CutSoFar /\ ShownAsTheyAre /\ OfThePickedFile /\ ListFollows
      /\ UNCHANGED <<serverVars, requested, described, m_task_counter, task, m_task_list, client_file,
                     adding, completed, restarts, history>>
  BY DEF CatalogueInv, BlockFails
<1>2. block \in Seq(Blocks) /\ block[i] \in Blocks
  BY <1>1, Elements DEF CatalogueTypeOK
<1>3. PICK q : q = [task_id |-> block[i].task_id, file_id |-> block[i].file_id, offset |-> block[i].offset,
                    block_size |-> block[i].block_size, state |-> "Failed", data_of |-> block[i].data_of]
  OBVIOUS
<1>4. /\ q \in Blocks /\ q.task_id = block[i].task_id /\ q.file_id = block[i].file_id
      /\ q.offset = block[i].offset /\ q.block_size = block[i].block_size /\ q.state = "Failed"
  BY <1>2, <1>3 DEF Blocks
<1>5. block' = [block EXCEPT ![i] = q]
  <2>1. [block[i] EXCEPT !.state = "Failed"] = q
    BY <1>2, <1>3, BlockFailed
  <2>2. block' = [block EXCEPT ![i] = [block[i] EXCEPT !.state = "Failed"]]
    BY DEF BlockFails
  <2> QED  BY <2>1, <2>2
<1>6. /\ block' \in Seq(Blocks) /\ DOMAIN block' = DOMAIN block /\ block'[i] = q
      /\ \A j \in DOMAIN block \ {i} : block'[j] = block[j]
      /\ \A j \in DOMAIN block : /\ block'[j].task_id = block[j].task_id /\ block'[j].file_id = block[j].file_id
                                 /\ block'[j].offset = block[j].offset /\ block'[j].block_size = block[j].block_size
  BY <1>2, <1>4, <1>5, BlockAnswered
<1>7. \A t : Of(block', t) = Of(block, t) /\ \A n : Covers(block, t, n) => Covers(block', t, n)
  BY <1>6, CoversKept
<1>8. CatalogueTypeOK'
  <2> HIDE DEF Blocks, Answers, Histories, TaskRows, ListRows, FileRows
  <2> QED  BY <1>1, <1>6 DEF CatalogueTypeOK, Known, serverVars
<1>9. ToldOnce' /\ ShownAsTheyAre' /\ ListFollows'
  BY <1>1 DEF ToldOnce, ShownAsTheyAre, ListFollows, Known, serverVars
<1>10. CutSoFar'
  BY <1>1, <1>7 DEF CutSoFar, Adds, Known
<1>11. OfThePickedFile'
  <2>1. \A j \in DOMAIN block' :
          /\ block'[j].task_id \in Known' /\ block'[j].file_id = task'[block'[j].task_id].file_id
          /\ block'[j].state = "Completed" /\ history'[block'[j].task_id].run = restarts'
               /\ history'[block'[j].task_id].md5 # NoFile
               => block'[j].data_of = history'[block'[j].task_id].md5
    <3> TAKE j \in DOMAIN block'
    <3>1. CASE j = i
      BY <1>1, <1>4, <1>6, <3>1 DEF OfThePickedFile, Known
    <3>2. CASE j # i
      BY <1>1, <1>6, <3>2 DEF OfThePickedFile, Picked, Known
    <3> QED  BY <3>1, <3>2
  <2>2. \A t \in Known' : task'[t].state = "Completed" => Of(block', t) # {}
    BY <1>1, <1>7 DEF OfThePickedFile, Known
  <2> QED  BY <1>1, <2>1, <2>2 DEF OfThePickedFile, Picked, Known, serverVars
<1> QED  BY <1>8, <1>9, <1>10, <1>11 DEF CatalogueInv

-----------------------------------------------------------------------------
(* The theorems.                                                           *)

LEMMA CatalogueInvKept == CatalogueSpec => []CatalogueInv
<1>1. CatalogueInit => CatalogueInv
  <2>1. SUFFICES ASSUME CatalogueInit PROVE CatalogueInv
    OBVIOUS
  <2>2. Known = {} /\ DOMAIN described = {} /\ DOMAIN block = {} /\ DOMAIN m_task_list = {}
        /\ DOMAIN completed = {} /\ DOMAIN file_info = {} /\ requested = {} /\ adding = Idle
        /\ Len(m_task_list) = 0 /\ Len(m_file_info_list) = Len(file_info)
    BY <2>1 DEF CatalogueInit, Known
  <2>3. CatalogueTypeOK
    BY <2>1, <2>2 DEF CatalogueInit, CatalogueTypeOK
  <2>4. ToldOnce /\ CutSoFar /\ ShownAsTheyAre /\ OfThePickedFile
    BY <2>2 DEF ToldOnce, CutSoFar, ShownAsTheyAre, OfThePickedFile
  <2>5. ListFollows
    BY <2>2, FS_EmptySet DEF ListFollows
  <2> QED  BY <2>3, <2>4, <2>5 DEF CatalogueInv
<1>2. CatalogueInv /\ [CatalogueNext]_catalogueVars => CatalogueInv'
  <2>1. SUFFICES ASSUME CatalogueInv, [CatalogueNext]_catalogueVars PROVE CatalogueInv'
    OBVIOUS
  <2>2. CASE UNCHANGED catalogueVars
    BY <2>1, <2>2 DEF CatalogueInv, CatalogueTypeOK, ToldOnce, CutSoFar, ShownAsTheyAre, OfThePickedFile,
         ListFollows, Known, Adds, Picked, catalogueVars, serverVars, clientVars
  <2>3. CASE \E file \in Files : AddFile(file)
    BY <2>1, <2>3, AddFileKeeps
  <2>4. CASE RestartServer
    BY <2>1, <2>4, RestartServerKeeps
  <2>5. CASE \E u \in DOMAIN task : AnswerDownload(u)
    BY <2>1, <2>5, AnswerDownloadKeeps
  <2>6. CASE \E id \in 1..Cardinality(Files) : AddDownload(id)
    BY <2>1, <2>6, AddDownloadKeeps DEF Ids
  <2>7. CASE DownloadResponse
    BY <2>1, <2>7, DownloadResponseKeeps
  <2>8. CASE AddBlock
    BY <2>1, <2>8, AddBlockKeeps
  <2>9. CASE UpdateTask
    BY <2>1, <2>9, UpdateTaskKeeps
  <2>10. CASE \E i \in DOMAIN block : BlockArrives(i)
    BY <2>1, <2>10, BlockArrivesKeeps
  <2>11. CASE \E i \in DOMAIN block : BlockFails(i)
    BY <2>1, <2>11, BlockFailsKeeps
  <2> QED  BY <2>1, <2>2, <2>3, <2>4, <2>5, <2>6, <2>7, <2>8, <2>9, <2>10, <2>11 DEF CatalogueNext
<1> QED  BY <1>1, <1>2, PTL DEF CatalogueSpec

\* Once the answer of a task has been dealt with, its blocks are the file it was told of, each
\* byte in one of them, or its beginning when BlockService::add gave up, for any files, sizes,
\* block sizes and interleaving of the two threads (new_download_dialog.cpp).
THEOREM BlocksTileTheFile == CatalogueSpec => []TasksTileTheirFile
<1>1. CatalogueInv => TasksTileTheirFile
  <2>1. SUFFICES ASSUME CatalogueInv, NEW t \in DOMAIN history
                 PROVE  IF history[t].size >= 0 /\ ~history[t].gave_up /\ (adding # Idle => adding.answer.task_id # t)
                        THEN Covers(block, t, history[t].size)
                        ELSE \E n \in 0..(IF history[t].size > 0 THEN history[t].size - 1 ELSE 0) :
                               Covers(block, t, n)
    BY TilesOrCovers DEF TasksTileTheirFile
  <2>2. CutSoFar /\ CatalogueTypeOK
    BY <2>1 DEF CatalogueInv
  <2>3. t \in Known /\ history[t].size \in Nat \cup {-1}
    BY <2>2 DEF CatalogueTypeOK, Histories
  <2>4. CASE history[t].size = -1
    BY <2>2, <2>3, <2>4, NothingCovers DEF CutSoFar
  <2>5. CASE history[t].size >= 0 /\ ~Adds(t)
    <3>1. CASE history[t].gave_up
      BY <2>2, <2>3, <2>5, <3>1 DEF CutSoFar
    <3>2. CASE ~history[t].gave_up
      BY <2>2, <2>3, <2>5, <3>2 DEF CutSoFar, Adds
    <3> QED  BY <3>1, <3>2
  <2>6. CASE Adds(t)
    <3>1. /\ history[t].size = adding.answer.file_size /\ Covers(block, t, adding.offset)
          /\ adding # Idle /\ adding.answer.task_id = t
      BY <2>2, <2>3, <2>6 DEF CutSoFar, Adds
    <3>2. adding.offset \in Nat /\ adding.offset < history[t].size
      BY <2>2, <3>1 DEF CatalogueTypeOK
    <3>3. history[t].size > 0 /\ adding.offset \in 0..(history[t].size - 1)
      BY <2>3, <3>2
    <3> QED  BY <3>1, <3>3
  <2> QED  BY <2>3, <2>4, <2>5, <2>6
<1> QED  BY <1>1, CatalogueInvKept, PTL

\* What the user is shown of a task is true: its row says what the table says once its signals
\* have been dealt with, and a completed one is, byte for byte, the file that was picked, with
\* the exceptions the property names (task_table_model.cpp, add_file_dialog.cpp).
THEOREM TasksAreTrue == CatalogueSpec => []TasksAreWhatTheySay
<1>1. CatalogueInv => CompletedIsThePickedFile
  <2>1. SUFFICES ASSUME CatalogueInv, NEW t \in DOMAIN task,
                        task[t].state = "Completed",
                        \A i \in BlocksOf(t) : block[i].state = "Completed",
                        ~history[t].gave_up, adding # Idle => adding.answer.task_id # t,
                        history[t].run = restarts,
                        history[t].md5 # NoFile, TrueSizes[history[t].md5] < SizeLimit
                 PROVE  /\ Covers(block, t, TrueSizes[history[t].md5])
                        /\ \A i \in Of(block, t) : block[i].data_of = history[t].md5
    BY TilesOrCovers DEF CompletedIsThePickedFile
  <2>2. CutSoFar /\ CatalogueTypeOK /\ OfThePickedFile /\ t \in Known
    BY <2>1 DEF CatalogueInv, Known
  <2>3. Picked(t) /\ ~Adds(t)
    BY <2>1 DEF Picked, Adds
  <2>4. history[t].size \in Nat \cup {-1} /\ history[t].md5 \in Files
    BY <2>1, <2>2 DEF CatalogueTypeOK, Histories
  <2>5. Of(block, t) # {}
    BY <2>1, <2>2 DEF OfThePickedFile
  <2>6. history[t].size >= 0
    BY <2>2, <2>4, <2>5 DEF CutSoFar
  <2>7. history[t].size = TrueSizes[history[t].md5]
    <3>1. history[t].size = SizeOfFile(history[t].md5)
      BY <2>2, <2>3, <2>6 DEF OfThePickedFile
    <3>2. TrueSizes[history[t].md5] \in Nat /\ SizeLimit \in Nat \ {0}
      BY <2>4, CatalogueAssumption
    <3> QED  BY <2>1, <3>1, <3>2 DEF SizeOfFile
  <2>8. Covers(block, t, history[t].size)
    BY <2>1, <2>2, <2>3, <2>6 DEF CutSoFar
  <2>9. \A i \in Of(block, t) : block[i].state = "Completed" /\ block[i].task_id = t /\ i \in DOMAIN block
    BY <2>1 DEF Of, BlocksOf
  <2>10. \A i \in Of(block, t) : block[i].data_of = history[t].md5
    BY <2>2, <2>3, <2>9 DEF OfThePickedFile
  <2> QED  BY <2>7, <2>8, <2>10
<1>2. CatalogueInv => ListShowsTasks
  <2>1. SUFFICES ASSUME CatalogueInv, completed = <<>>
                 PROVE  /\ Len(m_task_list) = Cardinality(Known)
                        /\ \A t \in Known : Contains(m_task_list, [task_id |-> t, state |-> task[t].state])
    BY DEF ListShowsTasks, Known
  <2>2. ListFollows /\ CatalogueTypeOK /\ DOMAIN completed = {}
    BY <2>1 DEF CatalogueInv
  <2>3. ASSUME NEW t \in Known PROVE Contains(m_task_list, [task_id |-> t, state |-> task[t].state])
    <3>1. PICK r \in DOMAIN m_task_list : m_task_list[r].task_id = t
      BY <2>2 DEF ListFollows
    <3>2. m_task_list[r].state = task[t].state
      BY <2>2, <3>1 DEF ListFollows
    <3>3. m_task_list[r] \in ListRows /\ DOMAIN m_task_list = 1..Len(m_task_list)
      BY <2>2, Elements DEF CatalogueTypeOK
    <3>4. m_task_list[r] = [task_id |-> t, state |-> task[t].state]
      BY <3>1, <3>2, <3>3 DEF ListRows
    <3> QED  BY <3>3, <3>4 DEF Contains
  <2> QED  BY <2>2, <2>3 DEF ListFollows
<1> QED  BY <1>1, <1>2, CatalogueInvKept, PTL DEF TasksAreWhatTheySay
=============================================================================
