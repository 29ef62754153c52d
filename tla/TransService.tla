---------------------------- MODULE TransService ----------------------------
(***************************************************************************)
(* The client's request/response correlation: TransService and             *)
(* ViewEventController on the UI thread, NetworkService and ConnectContext *)
(* on the network thread, the 600 s timeouts on the timer thread, and one  *)
(* TCP connection to the server, which answers requests one by one.        *)
(*                                                                         *)
(* The UI thread sends a request in two steps: send_*_request registers    *)
(* the correlation and emits the frame, then the controller stores the     *)
(* envelope that says who asked.  The other threads run between the two,   *)
(* so the answer may be back before the envelope is stored.  The timer is  *)
(* armed before the correlation is registered; the two are one step here,  *)
(* 600 s being longer than the few instructions between them.              *)
(***************************************************************************)
EXTENDS Naturals, Sequences

CONSTANTS
  Requests,      \* the requests the client may have reason to send
  Answers,       \* what the server may answer
  MaxRequests    \* bound: how many requests are sent

ASSUME TransAssumption == MaxRequests \in Nat

Ids == 1..MaxRequests    \* request_id counts from 0 in the code, from 1 here

Frame  == [id : Ids, request : Requests]
Answer == [id : Ids, request : Requests, answer : Answers]

VARIABLES
  nextId,        \* m_request_id_counter
  correlations,  \* m_trans_correlations: which request waits under an id
  envelopes,     \* m_event_envelopes: on whose behalf an id was sent
  storing,       \* the frame whose envelope the UI thread has yet to store, if any
  link,          \* the connection: "connecting", "up" or "down"
  outgoing,      \* frames on their way to the server, in its order
  incoming,      \* answers on their way back
  inbox,         \* answers queued to the UI thread as received_frame_ready
  published,     \* answers handed on to the event hub, with their envelope (history)
  dropped,       \* ids of the answers the UI thread threw away (history)
  expired        \* ids whose correlation the timer erased (history)

transVars == <<nextId, correlations, envelopes, storing, link, outgoing, incoming,
               inbox, published, dropped, expired>>

wire == <<link, outgoing, incoming>>
outcomes == <<published, dropped, expired>>

TransInit ==
  /\ nextId = 1
  /\ correlations = <<>>
  /\ envelopes = <<>>
  /\ storing = <<>>
  /\ link = "connecting"
  /\ outgoing = <<>> /\ incoming = <<>> /\ inbox = <<>>
  /\ published = {} /\ dropped = {} /\ expired = {}

\* A map with an entry set, and with an entry erased.
With(f, id, v) == [x \in DOMAIN f \cup {id} |-> IF x = id THEN v ELSE f[x]]
Without(f, id) == [x \in DOMAIN f \ {id} |-> f[x]]

-----------------------------------------------------------------------------
(* The UI thread.                                                          *)

\* A slip: the counter is read and not advanced.
Send_SameId(request) ==
  /\ storing = <<>> /\ nextId \in Ids
  /\ correlations' = With(correlations, nextId, request)
  /\ LET frame == [id |-> nextId, request |-> request]
     IN  outgoing' = Append(outgoing, frame) /\ storing' = <<frame>>
  /\ Len(outgoing) < MaxRequests
  /\ UNCHANGED <<nextId, envelopes, link, incoming, inbox, outcomes>>

\* send_test_request, send_download_request, send_block_request
Send(request) ==
  /\ storing = <<>> /\ nextId \in Ids
  /\ nextId' = nextId + 1
  /\ correlations' = With(correlations, nextId, request)
  /\ LET frame == [id |-> nextId, request |-> request]
     IN  outgoing' = Append(outgoing, frame) /\ storing' = <<frame>>
  /\ UNCHANGED <<envelopes, link, incoming, inbox, outcomes>>

\* ... and what is left of ViewEventController::on_*_request: for whom it was sent.
Store ==
  /\ storing # <<>>
  /\ envelopes' = With(envelopes, Head(storing).id, Head(storing).request)
  /\ storing' = <<>>
  /\ UNCHANGED <<nextId, correlations, wire, inbox, outcomes>>

\* A slip: only the controller's map is consulted.
Handled_Uncorrelated(a) == a.id \in DOMAIN envelopes

\* on_received_frame_ready and ViewEventController::on_*_response.  An answer without
\* a correlation, or without an envelope, is dropped.
Handled(a) == a.id \in DOMAIN correlations /\ a.id \in DOMAIN envelopes

\* A slip: the answer is handled on the thread that receives it.
Dispatch_Direct ==
  /\ inbox # <<>>
  /\ inbox' = Tail(inbox)
  /\ LET a == Head(inbox)
     IN  /\ correlations' = Without(correlations, a.id)
         /\ IF Handled(a)
            THEN /\ published' = published \cup {[to |-> envelopes[a.id], got |-> a]}
                 /\ UNCHANGED dropped
            ELSE dropped' = dropped \cup {a.id} /\ UNCHANGED published
  /\ UNCHANGED <<nextId, envelopes, storing, wire, expired>>

Dispatch ==
  /\ storing = <<>> /\ inbox # <<>>
  /\ inbox' = Tail(inbox)
  /\ LET a == Head(inbox)
     IN  /\ correlations' = Without(correlations, a.id)
         /\ IF Handled(a)
            THEN /\ published' = published \cup {[to |-> envelopes[a.id], got |-> a]}
                 /\ UNCHANGED dropped
            ELSE /\ dropped' = dropped \cup {a.id}
                 /\ UNCHANGED published
  /\ UNCHANGED <<nextId, envelopes, storing, wire, expired>>

-----------------------------------------------------------------------------
(* The timer thread.  A callback that finds no correlation does nothing.   *)

\* A slip: only requests on a live connection time out.
Timeout_WhileUp(id) ==
  /\ id \in DOMAIN correlations /\ link = "up"
  /\ correlations' = Without(correlations, id)
  /\ expired' = expired \cup {id}
  /\ UNCHANGED <<nextId, envelopes, storing, wire, inbox, published, dropped>>

Timeout(id) ==
  /\ id \in DOMAIN correlations
  /\ correlations' = Without(correlations, id)
  /\ expired' = expired \cup {id}
  /\ UNCHANGED <<nextId, envelopes, storing, wire, inbox, published, dropped>>

-----------------------------------------------------------------------------
(* The network thread, the connection and the server behind it.            *)

\* on_socket_write, once connected, sends what was buffered.
Connect ==
  /\ link = "connecting"
  /\ link' = "up"
  /\ UNCHANGED <<nextId, correlations, envelopes, storing, outgoing, incoming, inbox, outcomes>>

\* The connection fails or breaks: what has not been received is lost.  Nothing
\* removes the ConnectContext, so later frames stay in its write buffer for ever.
LinkDown ==
  /\ link # "down"
  /\ link' = "down"
  /\ incoming' = <<>>
  /\ UNCHANGED <<nextId, correlations, envelopes, storing, outgoing, inbox, outcomes>>

\* The server answers the first request it has not answered yet.
Serve(answer) ==
  /\ link = "up" /\ outgoing # <<>>
  /\ incoming' = Append(incoming, [id |-> Head(outgoing).id,
                                   request |-> Head(outgoing).request,
                                   answer |-> answer])
  /\ outgoing' = Tail(outgoing)
  /\ UNCHANGED <<nextId, correlations, envelopes, storing, link, inbox, outcomes>>

\* on_socket_read, on_frame_assembled: the frame goes to the UI thread's event queue.
Receive ==
  /\ incoming # <<>>
  /\ inbox' = Append(inbox, Head(incoming))
  /\ incoming' = Tail(incoming)
  /\ UNCHANGED <<nextId, correlations, envelopes, storing, link, outgoing, outcomes>>

-----------------------------------------------------------------------------
Network == Connect \/ LinkDown \/ (\E a \in Answers : Serve(a)) \/ Receive

TransNext ==
  \/ \E r \in Requests : Send(r)
  \/ Store
  \/ Dispatch
  \/ \E id \in Ids : Timeout(id)
  \/ Network

TransSpec == TransInit /\ [][TransNext]_transVars

\* Every thread runs its event loop, the timer thread its deadlines, and the server
\* answers.  Nothing says that the link comes up, or stays up.
TransFairness ==
  /\ WF_transVars(Store) /\ WF_transVars(Dispatch) /\ WF_transVars(Receive)
  /\ WF_transVars(\E a \in Answers : Serve(a))
  /\ \A id \in Ids : WF_transVars(Timeout(id))

FairTransSpec == TransSpec /\ TransFairness

-----------------------------------------------------------------------------
(* Properties.                                                             *)

\* Every variable has its type.
TransTypeOK ==
  /\ nextId \in 1..(MaxRequests + 1)
  /\ DOMAIN correlations \subseteq Ids
  /\ \A id \in DOMAIN correlations : correlations[id] \in Requests
  /\ DOMAIN envelopes \subseteq Ids
  /\ \A id \in DOMAIN envelopes : envelopes[id] \in Requests
  /\ storing \in Seq(Frame) /\ Len(storing) <= 1
  /\ link \in {"connecting", "up", "down"}
  /\ outgoing \in Seq(Frame) /\ incoming \in Seq(Answer) /\ inbox \in Seq(Answer)
  /\ published \subseteq [to : Requests, got : Answer]
  /\ dropped \subseteq Ids /\ expired \subseteq Ids

\* on_received_frame_ready gives up on an answer only after its request has timed
\* out: an answer that overtakes the bookkeeping of its own request is not lost.
OnlyLateAnswersAreDropped == dropped \subseteq expired

\* An answer goes to the one who asked for it, and once: request ids are not reused
\* and a correlation is taken out before its callback runs.
AnswersReachTheirAskers ==
  \A p, q \in published :
    /\ p.to = p.got.request
    /\ p.got.id = q.got.id => p = q

\* A request that has timed out stays unanswered: a late answer does nothing.
TimedOutStaysUnanswered == \A p \in published : p.got.id \notin expired

\* Nobody waits for ever: every correlation ends in an answer or in its timeout.
EveryRequestSettles ==
  \A id \in Ids : id \in DOMAIN correlations ~> id \notin DOMAIN correlations
=============================================================================
