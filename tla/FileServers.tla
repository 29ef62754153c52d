------------------------------ MODULE FileServers ------------------------------
(***************************************************************************)
(* What the two servers answer, end to end over the codec: a client asks,  *)
(* server (BusinessRuntime::handle_request over its table) or simple_server*)
(* (dispatch_request over a directory, or over one file with --fixture)    *)
(* answers, and the client reads the answer.  Meanwhile files come and go. *)
(* Frames arrive whole and in order, as FrameAssembler shows.              *)
(***************************************************************************)
EXTENDS MessageCodec

CONSTANTS
  FileNames,     \* the files there may be, in the order of their names
  FileSizes,     \* the size of each
  Questions,     \* what the client may ask: records with a path, see Ask
  MaxAsked,      \* bound: requests
  MaxChanges     \* bound: files that come or go

ASSUME FileServersAssumption ==
  /\ FileSizes \in Seq(Nat) /\ Len(FileSizes) = Len(FileNames)
  /\ MaxAsked \in Nat /\ MaxChanges \in Nat

VARIABLES
  program,       \* which server runs: "server", "simple_server" or, with --fixture, "fixture"
  present,       \* the files that are there, by their place in FileNames
  kFiles,        \* simple_server's list of files, made when one is first asked for
  posed,         \* the requests made; the place of one is its request_id
  requests,      \* request frames on their way
  answers,       \* answer frames on their way
  heard,         \* what the client made of the answers
  changes        \* how many files have come or gone

serversVars == <<program, present, kFiles, posed, requests, answers, heard, changes>>

Unlisted == <<0>>

ServersInit ==
  /\ program \in {"server", "simple_server", "fixture"}
  /\ present \in SUBSET DOMAIN FileNames
  /\ kFiles = Unlisted
  /\ posed = <<>> /\ requests = <<>> /\ answers = <<>> /\ heard = <<>> /\ changes = 0

Content(file) == [i \in 1..FileSizes[file] |-> <<file, i>>]
SizeOf(file)  == IF file \in present THEN FileSizes[file] ELSE 0
Fixture       == 1

AtMost(a, b) == IF a < b THEN a ELSE b

\* ifstream::seekg and read: what there is of n bytes after the first offset.
ReadFile(file, offset, n) ==
  SubSeq(Content(file), offset + 1, AtMost(offset + n, FileSizes[file]))

-----------------------------------------------------------------------------
(* simple_server                                                            *)

\* list_resource_files_sorted
Listing == SetToSortSeq(present, <)

\* A slip: the directory is listed for each request.
ListAfter_EachTime(asksForFile) == IF asksForFile THEN Listing ELSE kFiles

\* The static in resolve_file_path_for_file_id: made once.
ListAfter(asksForFile) ==
  IF asksForFile /\ program = "simple_server" /\ kFiles = Unlisted THEN Listing ELSE kFiles

\* resolve_file_path_for_file_id or the fixture: a file or, here 0, none.
Resolve(list, id) ==
  IF program = "fixture" THEN Fixture ELSE IF id \in DOMAIN list THEN list[id] ELSE 0

\* try_parse_envelope_request: all fields must be there.
ParseEnvelope(frame) ==
  LET f == Deserialize(frame)
  IN  SomeIf(/\ Reads(f, "version", "uint16_t") /\ Reads(f, "request_id", "uint64_t")
             /\ Reads(f, "request_type", "uint8_t") /\ Reads(f, "content_type", "uint8_t")
             /\ {"path", "body"} \subseteq DOMAIN f,
             [request_id |-> Number(f, "request_id", "uint64_t", 0),
              path |-> Characters(f, "path", <<>>), body |-> Array(f, "body")])

Refusal(request_id, status, message) ==
  BuildResponse(request_id, status, TestResponseBody([message |-> <<message>>]))

Echo(r) ==
  LET f == Deserialize(r.body)
  IN  BuildResponse(r.request_id, Ok,
        TestResponseBody([message |-> <<"echo: ">> \o Characters(f, "message", <<"<empty>">>)]))

DescribeFile(r, list) ==
  LET f    == Deserialize(r.body)
      id   == Number(f, "file_id", "int64_t", 1)
      file == Resolve(list, id)
  IN  IF file = 0 THEN Refusal(r.request_id, NotFound, "file_id not found")
      ELSE BuildResponse(r.request_id, Ok,
             DownloadResponseBody([task_id |-> Number(f, "task_id", "int64_t", -1), file_id |-> id,
                                   file_name |-> <<FileNames[file]>>, file_size |-> SizeOf(file),
                                   md5_code |-> <<>>]))

\* The part of the block that is in the file.
BlockWithin(offset, block_size, file_size) ==
  LET from == AtMost(IF offset < 0 THEN 0 ELSE offset, file_size)
  IN  [offset |-> from, size |-> AtMost(IF block_size < 0 THEN 0 ELSE block_size, file_size - from)]

\* The offset answered is the clamped one; a file that cannot be opened is an empty block.
SendBlock(r, list) ==
  LET f      == Deserialize(r.body)
      id     == Number(f, "file_id", "int64_t", 1)
      file   == Resolve(list, id)
      within == BlockWithin(Number(f, "offset", "int64_t", 0), Number(f, "block_size", "int64_t", 1024),
                            SizeOf(file))
      data   == IF file \in present THEN ReadFile(file, within.offset, within.size) ELSE <<>>
  IN  IF file = 0 THEN Refusal(r.request_id, NotFound, "file_id not found")
      ELSE BuildResponse(r.request_id, Ok,
             BlockResponseBody([block_id |-> Number(f, "block_id", "int64_t", 1), file_id |-> id,
                                task_id |-> Number(f, "task_id", "int64_t", -1),
                                offset |-> within.offset, block_size |-> Len(data), data |-> data]))

\* dispatch_request, and handle_client for a frame that is no request
DispatchRequest(frame, list) ==
  LET parsed == ParseEnvelope(frame)
  IN  IF parsed = None THEN Refusal(0, BadRequest, "bad request")
      ELSE LET r == parsed[1]
           IN  CASE r.path = <<"/test">> -> Echo(r)
                 [] r.path = <<"/download">> -> DescribeFile(r, list)
                 [] r.path = <<"/block">> -> SendBlock(r, list)
                 [] OTHER -> Refusal(r.request_id, NotFound, "path not found")

AsksForFile(frame) == ParseEnvelope(frame)[1].path # <<"/test">>

-----------------------------------------------------------------------------
(* server: its table has a row for each file of FileNames.                  *)

HandleDownload(m, request_id) ==
  LET known == m.file_id \in DOMAIN FileNames
  IN  BuildDownloadResponse(
        [file_id |-> m.file_id, task_id |-> m.task_id,
         file_name |-> IF known THEN <<FileNames[m.file_id]>> ELSE <<>>,
         file_size |-> IF known THEN FileSizes[m.file_id] ELSE 0, md5_code |-> <<>>], request_id)

\* A slip: the answer is what could be read, its size what was asked for.
HandleBlock_ShortData(m, request_id) ==
  LET open == m.file_id \in DOMAIN FileNames /\ m.file_id \in present
  IN  BuildBlockResponse(
        [block_id |-> m.block_id, file_id |-> m.file_id, task_id |-> m.task_id, offset |-> m.offset,
         block_size |-> IF open THEN m.block_size ELSE 0,
         data |-> IF open THEN ReadFile(m.file_id, m.offset, m.block_size) ELSE <<>>], request_id)

\* What the read did not fill stays zero.
HandleBlock(m, request_id) ==
  LET open == m.file_id \in DOMAIN FileNames /\ m.file_id \in present
      read == ReadFile(m.file_id, m.offset, m.block_size)
  IN  BuildBlockResponse(
        [block_id |-> m.block_id, file_id |-> m.file_id, task_id |-> m.task_id, offset |-> m.offset,
         block_size |-> IF open THEN m.block_size ELSE 0,
         data |-> IF open THEN read \o [i \in 1..m.block_size - Len(read) |-> <<0, 0>>] ELSE <<>>],
        request_id)

AnswerIf(parsed, Give(_)) == IF parsed = None THEN <<>> ELSE <<Give(parsed[1])>>

\* handle_request: what cannot be read is not answered.
HandleRequest(frame) ==
  LET parsed == ParseRequest(frame)
  IN  IF parsed = None THEN <<>>
      ELSE LET r == parsed[1]
           IN  CASE r.path = <<"/download">> ->
                      AnswerIf(ParseDownloadRequest(r.body), LAMBDA m : HandleDownload(m, r.request_id))
                 [] r.path = <<"/test">> ->
                      AnswerIf(ParseTestRequest(r.body), LAMBDA m :
                        BuildTestResponse([message |-> <<"echo: ">> \o m.message], r.request_id))
                 [] r.path = <<"/block">> ->
                      AnswerIf(ParseBlockRequest(r.body), LAMBDA m : HandleBlock(m, r.request_id))
                 [] OTHER -> <<>>

-----------------------------------------------------------------------------
Frame(q, request_id) ==
  LET m == [q EXCEPT !.request_id = request_id]
  IN  CASE q.path = "/test" -> BuildTestRequest(m)
        [] q.path = "/download" -> BuildDownloadRequest(m)
        [] q.path = "/block" -> BuildBlockRequest(m)

Ask(q) ==
  /\ Len(posed) < MaxAsked
  /\ posed' = Append(posed, q)
  /\ requests' = Append(requests, Frame(q, Len(posed) + 1))
  /\ UNCHANGED <<program, present, kFiles, answers, heard, changes>>

Answer ==
  /\ requests # <<>>
  /\ LET frame == Head(requests)
     IN  /\ kFiles' = ListAfter(AsksForFile(frame))
         /\ answers' = answers \o (IF program = "server" THEN HandleRequest(frame)
                                   ELSE <<DispatchRequest(frame, kFiles')>>)
  /\ requests' = Tail(requests)
  /\ UNCHANGED <<program, present, posed, heard, changes>>

\* TransService::parse_response: what the request_id was given out for says how to read it.
Hear ==
  /\ answers # <<>>
  /\ LET r == ParseResponse(Head(answers))[1]
         path == posed[r.request_id].path
     IN  heard' = Append(heard,
           [request_id |-> r.request_id,
            message |-> CASE path = "/test" -> ParseTestResponse(r.body)
                          [] path = "/download" -> ParseDownloadResponse(r.body)
                          [] path = "/block" -> ParseBlockResponse(r.body)])
  /\ answers' = Tail(answers)
  /\ UNCHANGED <<program, present, kFiles, posed, requests, changes>>

FileComesOrGoes(file) ==
  /\ changes < MaxChanges
  /\ present' = IF file \in present THEN present \ {file} ELSE present \cup {file}
  /\ changes' = changes + 1
  /\ UNCHANGED <<program, kFiles, posed, requests, answers, heard>>

ServersNext ==
  \/ \E q \in Questions : Ask(q)
  \/ Answer \/ Hear
  \/ \E file \in DOMAIN FileNames : FileComesOrGoes(file)

ServersSpec == ServersInit /\ [][ServersNext]_serversVars

-----------------------------------------------------------------------------
Of(m, q, names) == \A n \in names : m[n] = q[n]

\* A field's own reader takes what its writer wrote, all of it and nothing less.
ReadsBack(field) ==
  LET cells == FieldCells(field)
  IN  \A n \in 0..Len(cells) : FieldFrom(SubSeq(cells, 1, n)) = SomeIf(n = Len(cells), field)

\* Both servers read of a request all that the client wrote into it
\* (client_message_codec.cpp and server_message_codec.cpp, main.cpp of simple_server), and
\* each of its fields can be read alone (SerializeField::from_serialized_byte_array).
RequestsAreUnderstood ==
  \A i \in DOMAIN posed :
    LET q == posed[i]
        frame == Frame(q, i)
        r == ParseRequest(frame)[1]
    IN  /\ ParseRequest(frame) = ParseEnvelope(frame)
        /\ \A n \in DOMAIN Deserialize(frame) : ReadsBack(Deserialize(frame)[n])
        /\ r.path = <<q.path>> /\ r.request_id = i
        /\ CASE q.path = "/test" -> Of(ParseTestRequest(r.body)[1], q, {"message"})
             [] q.path = "/download" -> Of(ParseDownloadRequest(r.body)[1], q, {"file_id", "task_id"})
             [] q.path = "/block" ->
                  Of(ParseBlockRequest(r.body)[1], q,
                     {"block_id", "file_id", "task_id", "offset", "block_size"})

\* An array arrives as it is from two bytes on; one byte arrives as none.
Carried(data) == IF Len(data) = 1 THEN <<>> ELSE data

\* The bytes [offset, offset + size) of a file, zeros after its end if the server fills up.
Part(file, q, fill) ==
  LET inside == ReadFile(file, q.offset, q.block_size)
  IN  IF fill THEN inside \o [i \in 1..q.block_size - Len(inside) |-> <<0, 0>>] ELSE inside

\* The file an id names if all files are there.
Served(q) == IF program = "fixture" THEN Fixture ELSE q.file_id

\* Answers come in the order of the requests, one each, and say what was asked: whose file
\* it is, for which task and block, and exactly the bytes of the block in that file, whose
\* number is the block_size; past the end of the file server sends zeros and simple_server
\* nothing.  An empty block is not understood at all, and only that; one of a single byte
\* arrives without it (dispatch_request, handle_request, serialize_codec.hpp:165).
AnswersSayWhatWasAsked ==
  \A i \in DOMAIN heard :
    LET q == posed[i]
        m == heard[i].message[1]
    IN  /\ heard[i].request_id = i
        /\ CASE q.path = "/test" -> m.message = <<"echo: ">> \o q.message
             [] q.path = "/download" -> m.file_id = -1 \/ Of(m, q, {"file_id", "task_id"})
             [] q.path = "/block" ->
                  \/ /\ heard[i].message = None
                     /\ \/ changes > 0 \/ present # DOMAIN FileNames
                        \/ Served(q) \notin DOMAIN FileNames
                        \/ Part(Served(q), q, program = "server") = <<>>
                  \/ /\ Of(m, q, {"block_id", "file_id", "task_id", "offset"})
                     /\ \E file \in DOMAIN FileNames :
                          LET part == Part(file, q, program = "server")
                          IN  m.block_size = Len(part) /\ m.data = Carried(part)

\* What one side writes the other reads as it was meant, there and back.
SidesUnderstandEachOther == RequestsAreUnderstood /\ AnswersSayWhatWasAsked

FilesIn(message) ==
  IF message = None THEN {}
  ELSE IF "data" \in DOMAIN message[1] THEN {cell[1] : cell \in Range(message[1].data)} \ {0}
  ELSE {file \in DOMAIN FileNames : message[1].file_name = <<FileNames[file]>>}

\* While a server runs a file_id stays one file's, whatever files come and go, so that the
\* blocks of a download are parts of one file (resolve_file_path_for_file_id's static list).
IdsKeepTheirFile ==
  \A i, j \in DOMAIN heard :
    LET q == posed[i]
        r == posed[j]
    IN  "/test" \notin {q.path, r.path} /\ q.file_id = r.file_id =>
          \A a \in FilesIn(heard[i].message), b \in FilesIn(heard[j].message) : a = b
=============================================================================
