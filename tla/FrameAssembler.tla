----------------------------- MODULE FrameAssembler -----------------------------
(***************************************************************************)
(* FrameAssembler: cuts the stream of a connection into frames.  What was  *)
(* sent arrives in pieces of any size; after each the owner pops frames    *)
(* until there is none (ConnectContext::read, on_socket_read and           *)
(* handle_client).  The frame is put together in one vector that lives     *)
(* from frame to frame.  The two ends may be of different byte orders.     *)
(***************************************************************************)
EXTENDS SerializeCodec

CONSTANTS
  MaxFrames,   \* bound: frames sent
  MaxBody      \* bound: cells in a frame's body

ASSUME FrameAssumption == MaxFrames \in Nat /\ MaxBody \in Nat

VARIABLES
  hosts,       \* the byte orders of the two ends
  sent,        \* the frames sent
  wire,        \* cells that have not arrived
  assembler,   \* the FrameAssembler, see Assembler
  popped       \* the frames popped

frameVars == <<hosts, sent, wire, assembler, popped>>

Assembler ==
  [m_buffer |-> <<>>, m_current_frame |-> <<>>, m_current_frame_index |-> 0,
   m_current_header |-> [message_length |-> 0, field_count |-> 0], m_is_got_header |-> FALSE]

FrameInit ==
  /\ hosts \in [sender : ByteOrders, receiver : ByteOrders]
  /\ sent = <<>> /\ wire = <<>> /\ assembler = Assembler /\ popped = <<>>

\* Cells that differ from frame to frame and from place to place.
FrameOf(n, length) == FinalizeMessageHeader(hosts.sender, [i \in 1..length |-> 10 * n + i], 0)

SendFrame(length) ==
  /\ Len(sent) < MaxFrames
  /\ sent' = Append(sent, FrameOf(Len(sent) + 1, length))
  /\ wire' = wire \o FrameOf(Len(sent) + 1, length)
  /\ UNCHANGED <<hosts, assembler, popped>>

-----------------------------------------------------------------------------
PushData(a, data) == [a EXCEPT !.m_buffer = @ \o data]

\* The loops that write a part behind what is there already, growing the frame if need be.
Write(a, data) ==
  LET end == a.m_current_frame_index + Len(data)
  IN  [a EXCEPT !.m_current_frame_index = end,
                !.m_current_frame =
                  [i \in 1..(IF end > Len(@) THEN end ELSE Len(@)) |->
                     IF i \in a.m_current_frame_index + 1 .. end
                     THEN data[i - a.m_current_frame_index] ELSE @[i]]]

\* pop_data and the copy into the frame
Take(a, n) == [Write(a, SubSeq(a.m_buffer, 1, n)) EXCEPT !.m_buffer = SubSeq(a.m_buffer, n + 1, Len(a.m_buffer))]

\* The first half of pop_frame; a header is never refused, whatever it says.
GetHeader(a) ==
  IF a.m_is_got_header \/ Len(a.m_buffer) < HEADER_SIZE THEN a
  ELSE [Take(a, HEADER_SIZE) EXCEPT
                    !.m_is_got_header = TRUE,
                    !.m_current_header = HeaderFrom(hosts.receiver, SubSeq(a.m_buffer, 1, HEADER_SIZE))[1]]

Poppable(a) == a.m_is_got_header /\ Len(a.m_buffer) >= a.m_current_header.message_length

\* A slip: the place to write to is left behind the frame.
ClearCurrentFrame_KeepsIndex(a) == [a EXCEPT !.m_is_got_header = FALSE]

ClearCurrentFrame(a) == [a EXCEPT !.m_current_frame_index = 0, !.m_is_got_header = FALSE]

\* The second half: the body, and the frame cut to its size.
GetBody(a) ==
  LET length == a.m_current_header.message_length
      full   == Take(a, length)
  IN  ClearCurrentFrame([full EXCEPT !.m_current_frame = SubSeq(@, 1, HEADER_SIZE + length)])

\* pop_frame, which gives no frame but may have taken the header.
PopFrame(a) ==
  LET b == GetHeader(a)
  IN  IF Poppable(b) THEN [assembler |-> GetBody(b), frame |-> <<GetBody(b).m_current_frame>>]
      ELSE [assembler |-> b, frame |-> <<>>]

\* The loops around pop_frame; what gives no frame once goes on giving none.
PopMore(s) ==
  LET p == PopFrame(s.assembler)
  IN  [assembler |-> p.assembler, frames |-> s.frames \o p.frame]

PopFrames(a) ==
  LET After[i \in 0..MaxFrames + 1] ==
        IF i = 0 THEN [assembler |-> a, frames |-> <<>>] ELSE PopMore(After[i - 1])
  IN  After[MaxFrames + 1]

\* A piece of n cells arrives, and the owner pops what frames there are.
ReceiveCells(n) ==
  LET all == PopFrames(PushData(assembler, SubSeq(wire, 1, n)))
  IN  /\ n \in 1..Len(wire)
      /\ wire' = SubSeq(wire, n + 1, Len(wire))
      /\ assembler' = all.assembler
      /\ popped' = popped \o all.frames
      /\ UNCHANGED <<hosts, sent>>

FrameNext ==
  \/ \E length \in 0..MaxBody : SendFrame(length)
  \/ \E n \in 1..MaxFrames * (HEADER_SIZE + MaxBody) : ReceiveCells(n)

FrameSpec == FrameInit /\ [][FrameNext]_frameVars

-----------------------------------------------------------------------------
\* However the stream is cut, the frames popped are those sent, each of them whole and
\* with nothing of the one before in it, whatever byte orders the hosts have; and when all
\* has arrived none is held back (pop_frame, with its header taken before its body has come).
FramesArriveWhole ==
  /\ Len(popped) <= Len(sent) /\ popped = SubSeq(sent, 1, Len(popped))
  /\ wire = <<>> => Len(popped) = Len(sent)
=============================================================================
