------------------------------ MODULE MessageCodec ------------------------------
(***************************************************************************)
(* ClientMessageCodec and ServerMessageCodec: how the client, the server   *)
(* and simple_server write and read the envelope and the bodies of the     *)
(* three requests.  A reader gives a message or, here <<>>, none; a field  *)
(* of the wrong type refuses a message, one that is missing does or is     *)
(* taken for its default, message by message.                              *)
(*                                                                         *)
(* A message is a record of its transfer type's fields; its path says what *)
(* it is about.                                                            *)
(***************************************************************************)
EXTENDS SerializeCodec

Ok         == 200
NotFound   == 404
BadRequest == 400

Int64s(m, names) == FlattenSeq([i \in DOMAIN names |-> Scalar(names[i], "int64_t", m[names[i]])])

-----------------------------------------------------------------------------
(* The client writes requests.                                              *)

BuildRequest(path, request_id, type, body) ==
  Build(Scalar("version", "uint16_t", 1) \o Scalar("request_id", "uint64_t", request_id)
        \o Scalar("request_type", "uint8_t", type) \o Text("path", <<path>>)
        \o Scalar("content_type", "uint8_t", 1) \o Bytes("body", body))

BuildTestRequest(m) == BuildRequest("/test", m.request_id, 1, Build(Text("message", m.message)))

BuildDownloadRequest(m) ==
  BuildRequest("/download", m.request_id, 0, Build(Int64s(m, <<"file_id", "task_id">>)))

BuildBlockRequest(m) ==
  BuildRequest("/block", m.request_id, 0,
    Build(Int64s(m, <<"block_id", "file_id", "task_id", "offset", "block_size">>)))

-----------------------------------------------------------------------------
(* The server reads them.                                                   *)

\* try_parse_byte_array_request: what is missing keeps its default, but no path is empty.
ParseRequest(frame) ==
  LET f == Deserialize(frame)
  IN  SomeIf(/\ Tolerates(f, "version", "uint16_t") /\ Tolerates(f, "request_id", "uint64_t")
             /\ Tolerates(f, "request_type", "uint8_t") /\ Tolerates(f, "content_type", "uint8_t")
             /\ "path" \in DOMAIN f => Characters(f, "path", <<>>) # <<>>,
             [request_id |-> Number(f, "request_id", "uint64_t", 0),
              path |-> Characters(f, "path", <<>>), body |-> Array(f, "body")])

ParseTestRequest(body) ==
  LET f == Deserialize(body)
  IN  SomeIf("message" \in DOMAIN f, [message |-> Characters(f, "message", <<>>)])

ParseDownloadRequest(body) ==
  LET f == Deserialize(body)
  IN  SomeIf(Reads(f, "file_id", "int64_t"),
             [file_id |-> Number(f, "file_id", "int64_t", -1),
              task_id |-> Number(f, "task_id", "int64_t", -1)])

\* All but the task's id must be there.
ParseBlockRequest(body) ==
  LET f == Deserialize(body)
  IN  SomeIf(\A n \in {"block_id", "file_id", "offset", "block_size"} : Reads(f, n, "int64_t"),
             [block_id |-> Number(f, "block_id", "int64_t", -1),
              file_id |-> Number(f, "file_id", "int64_t", -1),
              task_id |-> Number(f, "task_id", "int64_t", -1),
              offset |-> Number(f, "offset", "int64_t", 0),
              block_size |-> Number(f, "block_size", "int64_t", 0)])

-----------------------------------------------------------------------------
(* The server writes answers.                                               *)

BuildResponse(request_id, status, body) ==
  Build(Scalar("version", "uint16_t", 1) \o Scalar("request_id", "uint64_t", request_id)
        \o Scalar("status", "uint16_t", status) \o Scalar("content_type", "uint8_t", 1)
        \o Bytes("body", body))

TestResponseBody(m) == Build(Text("message", m.message))

DownloadResponseBody(m) ==
  Build(Int64s(m, <<"task_id", "file_id">>) \o Text("file_name", m.file_name)
        \o Int64s(m, <<"file_size">>) \o Text("md5_code", m.md5_code))

BlockResponseBody(m) ==
  Build(Int64s(m, <<"block_id", "file_id", "task_id", "offset", "block_size">>)
        \o Bytes("data", m.data))

BuildTestResponse(m, request_id)     == BuildResponse(request_id, Ok, TestResponseBody(m))
BuildDownloadResponse(m, request_id) == BuildResponse(request_id, Ok, DownloadResponseBody(m))
BuildBlockResponse(m, request_id)    == BuildResponse(request_id, Ok, BlockResponseBody(m))

-----------------------------------------------------------------------------
(* The client reads them.                                                   *)

ParseResponse(frame) ==
  LET f == Deserialize(frame)
  IN  SomeIf(/\ Tolerates(f, "version", "uint16_t") /\ Tolerates(f, "request_id", "uint64_t")
             /\ Tolerates(f, "status", "uint16_t") /\ Tolerates(f, "content_type", "uint8_t"),
             [request_id |-> Number(f, "request_id", "uint64_t", 0),
              status |-> Number(f, "status", "uint16_t", 0), body |-> Array(f, "body")])

ParseTestResponse(body) ==
  LET f == Deserialize(body)
  IN  SomeIf("message" \in DOMAIN f, [message |-> Characters(f, "message", <<>>)])

\* A body of another kind, an error's say, is read as a file without a name and an id.
ParseDownloadResponse(body) ==
  LET f == Deserialize(body)
  IN  SomeIf(Tolerates(f, "file_id", "int64_t") /\ Tolerates(f, "file_size", "int64_t"),
             [task_id |-> Number(f, "task_id", "int64_t", -1),
              file_id |-> Number(f, "file_id", "int64_t", -1),
              file_name |-> Characters(f, "file_name", <<>>),
              file_size |-> Number(f, "file_size", "int64_t", 0),
              md5_code |-> Characters(f, "md5_code", <<>>)])

\* All but the task's id must be there, and a block without data is none.
ParseBlockResponse(body) ==
  LET f == Deserialize(body)
  IN  SomeIf(/\ \A n \in {"block_id", "file_id", "offset", "block_size"} : Reads(f, n, "int64_t")
             /\ "data" \in DOMAIN f,
             [block_id |-> Number(f, "block_id", "int64_t", -1),
              file_id |-> Number(f, "file_id", "int64_t", -1),
              task_id |-> Number(f, "task_id", "int64_t", -1),
              offset |-> Number(f, "offset", "int64_t", 0),
              block_size |-> Number(f, "block_size", "int64_t", 0),
              data |-> Array(f, "data")])
=============================================================================
