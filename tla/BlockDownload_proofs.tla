-------------------------- MODULE BlockDownload_proofs --------------------------
(***************************************************************************)
(* A download, for any tasks, blocks, answers and numbers of starts and    *)
(* requests: a completed task has no block that still waits.  That rests   *)
(* on three threads taking turns: a task's rows are inserted once, after   *)
(* the one description that was asked for, and no block of it is asked for *)
(* before the last row is in.  Then: no block is forgotten on its way      *)
(* through the queues between them.  The requests come first: each is      *)
(* answered once and by its own answer.                                    *)
(***************************************************************************)
EXTENDS BlockDownload, FiniteSetTheorems, TLAPS

-----------------------------------------------------------------------------
(* Request correlation, for any requests, answers and number of requests:   *)
(* each safety property of TransService, from one inductive invariant that  *)
(* says where the ids are that have been given out.                         *)

\* What a queue holds, and that no id is in it twice.
Held(s) == {s[n] : n \in 1..Len(s)}
DistinctIds(s) == \A m, n \in 1..Len(s) : s[m].id = s[n].id => m = n

PublishedIds == {p.got.id : p \in published}

Travelling == Held(outgoing) \cup Held(incoming) \cup Held(inbox)

-----------------------------------------------------------------------------
\* A queue with an element put at its end.
LEMMA AppendHolds ==
  ASSUME NEW S, NEW s \in Seq(S), NEW e \in S
  PROVE  /\ Append(s, e) \in Seq(S)
         /\ Held(Append(s, e)) = Held(s) \cup {e}
         /\ DistinctIds(s) /\ (\A x \in Held(s) : x.id # e.id) => DistinctIds(Append(s, e))
<1>1. /\ Append(s, e) \in Seq(S) /\ Len(Append(s, e)) = Len(s) + 1
      /\ \A n \in 1..Len(s) : Append(s, e)[n] = s[n]
      /\ Append(s, e)[Len(s) + 1] = e
  OBVIOUS
<1>2. Len(s) \in Nat /\ 1..(Len(s) + 1) = 1..Len(s) \cup {Len(s) + 1}
  OBVIOUS
<1> QED  BY <1>1, <1>2 DEF Held, DistinctIds

\* A queue without its first element.
LEMMA TailHolds ==
  ASSUME NEW S, NEW s \in Seq(S), s # <<>>
  PROVE  /\ Head(s) \in S /\ Head(s) \in Held(s)
         /\ Tail(s) \in Seq(S) /\ Held(Tail(s)) \subseteq Held(s)
         /\ DistinctIds(s) => /\ DistinctIds(Tail(s))
                              /\ \A x \in Held(Tail(s)) : x.id # Head(s).id
<1>1. /\ Len(s) \in Nat /\ Len(s) > 0 /\ Head(s) = s[1] /\ Head(s) \in S
      /\ Tail(s) \in Seq(S) /\ Len(Tail(s)) = Len(s) - 1
      /\ \A n \in 1..Len(Tail(s)) : Tail(s)[n] = s[n + 1] /\ n + 1 \in 1..Len(s)
  OBVIOUS
<1> QED  BY <1>1 DEF Held, DistinctIds

\* A queue of at most one element that is not empty.
LEMMA OneHeld ==
  ASSUME NEW S, NEW s \in Seq(S), s # <<>>, Len(s) <= 1
  PROVE  Head(s) \in S /\ Held(s) = {Head(s)}
<1>1. Len(s) \in Nat /\ Len(s) > 0 /\ Head(s) = s[1] /\ Head(s) \in S
  OBVIOUS
<1>2. 1..Len(s) = {1}
  BY <1>1
<1> QED  BY <1>1, <1>2 DEF Held

-----------------------------------------------------------------------------
\* Only ids that have been given out are about.
IdsAreNew ==
  /\ DOMAIN correlations \cup DOMAIN envelopes \cup expired \cup PublishedIds
       \subseteq 1..(nextId - 1)
  /\ \A x \in Travelling \cup Held(storing) : x.id \in 1..(nextId - 1)

\* A request or its answer is in one place, and gone once it has been published.
InOnePlace ==
  /\ DistinctIds(outgoing) /\ DistinctIds(incoming) /\ DistinctIds(inbox)
  /\ \A x \in Held(outgoing), y \in Held(incoming) \cup Held(inbox) : x.id # y.id
  /\ \A x \in Held(incoming), y \in Held(inbox) : x.id # y.id
  /\ \A x \in Travelling : x.id \notin PublishedIds

\* What travels is either waited for or has timed out, and what was stored, or is about
\* to be, under its id is the request it is about.
Accounted ==
  /\ \A x \in Travelling :
       /\ x.id \in DOMAIN correlations \cup expired
       /\ x.id \in DOMAIN envelopes \/ \E y \in Held(storing) : y.id = x.id
       /\ x.id \in DOMAIN envelopes => envelopes[x.id] = x.request
       /\ \A y \in Held(storing) : y.id = x.id => y.request = x.request
  /\ \A y \in Held(storing) : y.id \notin DOMAIN envelopes

\* Who waits has neither been answered nor timed out, and nobody is both.
Settled ==
  /\ DOMAIN correlations \cap (expired \cup PublishedIds) = {}
  /\ expired \cap PublishedIds = {}

TransInv ==
  /\ TransTypeOK /\ OnlyLateAnswersAreDropped /\ AnswersReachTheirAskers
  /\ IdsAreNew /\ InOnePlace /\ Accounted /\ Settled

-----------------------------------------------------------------------------
\* Nothing has been sent.
LEMMA InitInv == TransInit => TransInv
<1> SUFFICES ASSUME TransInit PROVE TransInv
  OBVIOUS
<1>1. Held(<<>>) = {} /\ DistinctIds(<<>>)
  BY DEF Held, DistinctIds
<1>2. DOMAIN correlations = {} /\ DOMAIN envelopes = {} /\ PublishedIds = {} /\ Travelling = {}
  BY <1>1 DEF TransInit, PublishedIds, Travelling
<1> QED  BY <1>1, <1>2, TransAssumption DEF TransInit, TransInv, TransTypeOK, Ids,
     OnlyLateAnswersAreDropped, AnswersReachTheirAskers, IdsAreNew, InOnePlace, Accounted, Settled

\* send_*_request: the id is new to every place an id can be.
LEMMA SendKeepsInv ==
  ASSUME TransInv, NEW request \in Requests, Send(request)
  PROVE  TransInv'
<1> DEFINE frame == [id |-> nextId, request |-> request]
<1>1. /\ frame \in Frame /\ nextId \in Ids /\ outgoing \in Seq(Frame)
      /\ outgoing' = Append(outgoing, frame) /\ storing' = <<frame>>
      /\ Held(storing) = {}
  BY DEF Send, Frame, TransInv, TransTypeOK, Held
<1>2. \A x \in Travelling \cup Held(storing) : x.id # nextId
  BY <1>1, TransAssumption DEF TransInv, IdsAreNew, Ids
<1>3. /\ outgoing' \in Seq(Frame) /\ Held(outgoing') = Held(outgoing) \cup {frame}
      /\ DistinctIds(outgoing')
  BY <1>1, <1>2, AppendHolds DEF TransInv, InOnePlace, Travelling
<1>4. Held(storing') = {frame} /\ storing' \in Seq(Frame) /\ Len(storing') = 1
  BY <1>1 DEF Held
<1>5. correlations' = With(correlations, nextId, request)
  BY DEF Send
<1>6. /\ DOMAIN correlations' = DOMAIN correlations \cup {nextId}
      /\ \A id \in DOMAIN correlations' : correlations'[id] \in Requests
  BY <1>5 DEF With, TransInv, TransTypeOK
<1>7. /\ Held(incoming)' = Held(incoming) /\ Held(inbox)' = Held(inbox)
      /\ DistinctIds(incoming)' = DistinctIds(incoming)
      /\ DistinctIds(inbox)' = DistinctIds(inbox)
      /\ PublishedIds' = PublishedIds
      /\ Travelling' = Travelling \cup {frame}
      /\ UNCHANGED <<envelopes, link, incoming, inbox, published, dropped, expired>>
  BY <1>3 DEF Send, Held, DistinctIds, PublishedIds, Travelling, outcomes
<1>8. nextId' = nextId + 1 /\ frame.id = nextId /\ frame.request = request
  BY DEF Send
<1>9. /\ nextId \notin DOMAIN correlations \cup DOMAIN envelopes \cup expired \cup PublishedIds
      /\ nextId \in 1..(MaxRequests + 1) /\ nextId \in 1..MaxRequests /\ nextId + 1 \in 1..(MaxRequests + 1)
  BY <1>1, TransAssumption DEF TransInv, IdsAreNew, Ids
<1> HIDE DEF frame
<1>10. TransTypeOK'
  BY <1>1, <1>3, <1>4, <1>6, <1>7, <1>8, <1>9 DEF TransInv, TransTypeOK
<1>11. IdsAreNew'
  <2>1. 1..(nextId' - 1) = 1..(nextId - 1) \cup {nextId}
    BY <1>8, <1>9
  <2> QED  BY <1>4, <1>6, <1>7, <1>8, <2>1 DEF TransInv, IdsAreNew
<1>12. InOnePlace'
  BY <1>2, <1>3, <1>7, <1>8, <1>9 DEF TransInv, InOnePlace, Travelling
<1>13. Accounted'
  BY <1>1, <1>2, <1>4, <1>6, <1>7, <1>8, <1>9 DEF TransInv, Accounted
<1>14. Settled'
  BY <1>6, <1>7, <1>9 DEF TransInv, Settled
<1> QED  BY <1>7, <1>10, <1>11, <1>12, <1>13, <1>14
         DEF TransInv, OnlyLateAnswersAreDropped, AnswersReachTheirAskers

\* The envelope is stored under the id of the request that was sent last.
LEMMA StoreKeepsInv ==
  ASSUME TransInv, Store
  PROVE  TransInv'
<1> DEFINE frame == Head(storing)
<1>1. frame \in Frame /\ Held(storing) = {frame}
  BY OneHeld DEF Store, TransInv, TransTypeOK
<1>2. storing' = <<>> /\ Held(storing') = {}
  BY DEF Store, Held
<1>3. envelopes' = With(envelopes, frame.id, frame.request)
  BY DEF Store
<1> HIDE DEF frame
<1>4. /\ DOMAIN envelopes' = DOMAIN envelopes \cup {frame.id}
      /\ envelopes'[frame.id] = frame.request
      /\ \A id \in DOMAIN envelopes : id # frame.id => envelopes'[id] = envelopes[id]
  BY <1>3 DEF With
<1>5. /\ UNCHANGED <<nextId, correlations, link, outgoing, incoming, inbox,
                     published, dropped, expired>>
      /\ Travelling' = Travelling /\ PublishedIds' = PublishedIds
      /\ InOnePlace' = InOnePlace /\ Settled' = Settled
      /\ AnswersReachTheirAskers' = AnswersReachTheirAskers
      /\ OnlyLateAnswersAreDropped' = OnlyLateAnswersAreDropped
  BY DEF Store, wire, outcomes, Travelling, PublishedIds, InOnePlace, Settled, Held,
     DistinctIds, AnswersReachTheirAskers, OnlyLateAnswersAreDropped
<1>6. TransTypeOK'
  <2>1. frame.id \in Ids /\ frame.request \in Requests
    BY <1>1 DEF Frame
  <2>2. storing' \in Seq(Frame) /\ Len(storing') <= 1
    BY <1>2
  <2> QED  BY <1>4, <1>5, <2>1, <2>2 DEF TransInv, TransTypeOK
<1>7. IdsAreNew'
  BY <1>1, <1>2, <1>4, <1>5 DEF TransInv, IdsAreNew
<1>8. Accounted'
  BY <1>1, <1>2, <1>4, <1>5 DEF TransInv, Accounted
<1> QED  BY <1>5, <1>6, <1>7, <1>8 DEF TransInv

\* on_received_frame_ready: the answer's id is waited for and published, or it has timed
\* out and is dropped; either way it is in no other place.
LEMMA DispatchKeepsInv ==
  ASSUME TransInv, Dispatch
  PROVE  TransInv'
<1> DEFINE a == Head(inbox)
<1>1. /\ a \in Answer /\ a \in Held(inbox) /\ inbox' = Tail(inbox)
      /\ inbox' \in Seq(Answer) /\ Held(inbox') \subseteq Held(inbox)
      /\ DistinctIds(inbox') /\ \A x \in Held(inbox') : x.id # a.id
  BY TailHolds DEF Dispatch, TransInv, TransTypeOK, InOnePlace
<1>2. /\ DOMAIN correlations' = DOMAIN correlations \ {a.id}
      /\ \A id \in DOMAIN correlations' : correlations'[id] = correlations[id]
  BY DEF Dispatch, Without
<1>3. /\ UNCHANGED <<nextId, envelopes, storing, link, outgoing, incoming, expired>>
      /\ Held(outgoing)' = Held(outgoing) /\ Held(incoming)' = Held(incoming)
      /\ DistinctIds(outgoing)' = DistinctIds(outgoing)
      /\ DistinctIds(incoming)' = DistinctIds(incoming)
      /\ storing = <<>> /\ Held(storing) = {} /\ Held(storing') = {}
  BY DEF Dispatch, wire, Held, DistinctIds
<1>4. /\ Travelling' \subseteq Travelling /\ a \in Travelling
      /\ \A x \in Travelling' : x.id # a.id
  BY <1>1, <1>3 DEF TransInv, InOnePlace, Travelling
<1>5. /\ a.id \in DOMAIN correlations \cup expired /\ a.id \in DOMAIN envelopes
      /\ envelopes[a.id] = a.request /\ a.id \notin PublishedIds
  BY <1>3, <1>4 DEF TransInv, Accounted, InOnePlace
<1> DEFINE p == [to |-> envelopes[a.id], got |-> a]
<1>6. \/ /\ a.id \in DOMAIN correlations
         /\ published' = published \cup {p} /\ dropped' = dropped
      \/ /\ a.id \notin DOMAIN correlations
         /\ published' = published /\ dropped' = dropped \cup {a.id}
  BY <1>5 DEF Dispatch, Handled
<1>7. PublishedIds' \subseteq PublishedIds \cup {a.id}
  BY <1>6 DEF PublishedIds
<1>8. a.id \in Ids /\ p.to = p.got.request /\ p.got.id = a.id /\ p \in [to : Requests, got : Answer]
  BY <1>1, <1>5 DEF Answer
<1> HIDE DEF a, p
<1>9. TransTypeOK'
  BY <1>1, <1>2, <1>3, <1>6, <1>8 DEF TransInv, TransTypeOK
<1>10. OnlyLateAnswersAreDropped'
  BY <1>3, <1>5, <1>6 DEF TransInv, OnlyLateAnswersAreDropped
<1>11. AnswersReachTheirAskers'
  BY <1>5, <1>6, <1>8 DEF TransInv, AnswersReachTheirAskers, PublishedIds
<1>12. IdsAreNew'
  BY <1>2, <1>3, <1>4, <1>7 DEF TransInv, IdsAreNew
<1>13. InOnePlace'
  BY <1>1, <1>3, <1>4, <1>7 DEF TransInv, InOnePlace
<1>14. Accounted'
  BY <1>2, <1>3, <1>4 DEF TransInv, Accounted
<1>15. Settled'
  BY <1>2, <1>3, <1>5, <1>6, <1>8 DEF TransInv, Settled, PublishedIds
<1> QED  BY <1>9, <1>10, <1>11, <1>12, <1>13, <1>14, <1>15 DEF TransInv

\* The timeout moves an id from those waited for to those timed out.
LEMMA TimeoutKeepsInv ==
  ASSUME TransInv, NEW id \in Ids, Timeout(id)
  PROVE  TransInv'
<1>1. /\ DOMAIN correlations' = DOMAIN correlations \ {id}
      /\ \A x \in DOMAIN correlations' : correlations'[x] = correlations[x]
      /\ id \in DOMAIN correlations /\ expired' = expired \cup {id}
  BY DEF Timeout, Without
<1>2. /\ UNCHANGED <<nextId, envelopes, storing, link, outgoing, incoming, inbox,
                     published, dropped>>
      /\ Travelling' = Travelling /\ PublishedIds' = PublishedIds
      /\ Held(storing)' = Held(storing) /\ InOnePlace' = InOnePlace
      /\ AnswersReachTheirAskers' = AnswersReachTheirAskers
  BY DEF Timeout, wire, Travelling, PublishedIds, InOnePlace, Held, DistinctIds,
     AnswersReachTheirAskers
<1>3. TransTypeOK' /\ OnlyLateAnswersAreDropped'
  BY <1>1, <1>2 DEF TransInv, TransTypeOK, OnlyLateAnswersAreDropped
<1>4. IdsAreNew' /\ Settled'
  BY <1>1, <1>2 DEF TransInv, IdsAreNew, Settled
<1>5. Accounted'
  BY <1>1, <1>2 DEF TransInv, Accounted
<1> QED  BY <1>2, <1>3, <1>4, <1>5 DEF TransInv

\* The connection comes up, or breaks and loses what was on its way.
LEMMA LinkKeepsInv ==
  ASSUME TransInv, Connect \/ LinkDown
  PROVE  TransInv'
<1>1. /\ UNCHANGED <<nextId, correlations, envelopes, storing, outgoing, inbox,
                     published, dropped, expired>>
      /\ link' \in {"up", "down"} /\ (incoming' = incoming \/ incoming' = <<>>)
      /\ Held(outgoing)' = Held(outgoing) /\ Held(inbox)' = Held(inbox)
      /\ DistinctIds(outgoing)' = DistinctIds(outgoing)
      /\ DistinctIds(inbox)' = DistinctIds(inbox)
      /\ Held(storing)' = Held(storing) /\ PublishedIds' = PublishedIds
  BY DEF Connect, LinkDown, outcomes, Held, DistinctIds, PublishedIds
<1>2. Held(incoming') \subseteq Held(incoming) /\ DistinctIds(incoming')
      /\ incoming' \in Seq(Answer)
  <2>1. CASE incoming' = incoming
    BY <2>1 DEF Held, DistinctIds, TransInv, InOnePlace, TransTypeOK
  <2>2. CASE incoming' = <<>>
    BY <2>2 DEF Held, DistinctIds
  <2> QED  BY <1>1, <2>1, <2>2
<1>3. Travelling' \subseteq Travelling
  BY <1>1, <1>2 DEF Travelling
<1>4. TransTypeOK' /\ OnlyLateAnswersAreDropped' /\ AnswersReachTheirAskers' /\ Settled'
  BY <1>1, <1>2 DEF TransInv, TransTypeOK, OnlyLateAnswersAreDropped,
     AnswersReachTheirAskers, Settled
<1>5. IdsAreNew'
  BY <1>1, <1>3 DEF TransInv, IdsAreNew
<1>6. InOnePlace'
  BY <1>1, <1>2, <1>3 DEF TransInv, InOnePlace
<1>7. Accounted'
  BY <1>1, <1>3 DEF TransInv, Accounted
<1> QED  BY <1>4, <1>5, <1>6, <1>7 DEF TransInv

\* The server turns a request into its answer.
LEMMA ServeKeepsInv ==
  ASSUME TransInv, NEW answer \in Answers, Serve(answer)
  PROVE  TransInv'
<1> DEFINE f == Head(outgoing)
           a == [id |-> f.id, request |-> f.request, answer |-> answer]
<1>1. /\ f \in Frame /\ f \in Held(outgoing) /\ outgoing' = Tail(outgoing)
      /\ outgoing' \in Seq(Frame) /\ Held(outgoing') \subseteq Held(outgoing)
      /\ DistinctIds(outgoing') /\ \A x \in Held(outgoing') : x.id # f.id
  BY TailHolds DEF Serve, TransInv, TransTypeOK, InOnePlace
<1>2. a \in Answer /\ a.id = f.id /\ a.request = f.request
  BY <1>1 DEF Answer, Frame
<1>3. \A x \in Held(incoming) \cup Held(inbox) : x.id # a.id
  BY <1>1, <1>2 DEF TransInv, InOnePlace
<1>4. /\ incoming' \in Seq(Answer) /\ Held(incoming') = Held(incoming) \cup {a}
      /\ DistinctIds(incoming')
  BY <1>2, <1>3, AppendHolds DEF Serve, TransInv, TransTypeOK, InOnePlace
<1>5. /\ UNCHANGED <<nextId, correlations, envelopes, storing, link, inbox,
                     published, dropped, expired>>
      /\ Held(inbox)' = Held(inbox) /\ DistinctIds(inbox)' = DistinctIds(inbox)
      /\ Held(storing)' = Held(storing) /\ PublishedIds' = PublishedIds
  BY DEF Serve, outcomes, Held, DistinctIds, PublishedIds
<1> HIDE DEF f, a
<1>6. /\ f \in Travelling
      /\ \A x \in Travelling' : x \in Travelling \/ x = a
  BY <1>1, <1>4, <1>5 DEF Travelling
<1>7. TransTypeOK' /\ OnlyLateAnswersAreDropped' /\ AnswersReachTheirAskers' /\ Settled'
  BY <1>1, <1>4, <1>5 DEF TransInv, TransTypeOK, OnlyLateAnswersAreDropped,
     AnswersReachTheirAskers, Settled
<1>8. IdsAreNew'
  BY <1>2, <1>5, <1>6 DEF TransInv, IdsAreNew
<1>9. InOnePlace'
  BY <1>1, <1>2, <1>3, <1>4, <1>5, <1>6 DEF TransInv, InOnePlace
<1>10. Accounted'
  BY <1>2, <1>5, <1>6 DEF TransInv, Accounted
<1> QED  BY <1>7, <1>8, <1>9, <1>10 DEF TransInv

\* The network thread queues an answer to the UI thread.
LEMMA ReceiveKeepsInv ==
  ASSUME TransInv, Receive
  PROVE  TransInv'
<1> DEFINE a == Head(incoming)
<1>1. /\ a \in Answer /\ a \in Held(incoming) /\ incoming' = Tail(incoming)
      /\ incoming' \in Seq(Answer) /\ Held(incoming') \subseteq Held(incoming)
      /\ DistinctIds(incoming') /\ \A x \in Held(incoming') : x.id # a.id
  BY TailHolds DEF Receive, TransInv, TransTypeOK, InOnePlace
<1>2. \A x \in Held(inbox) : x.id # a.id
  BY <1>1 DEF TransInv, InOnePlace
<1>3. /\ inbox' \in Seq(Answer) /\ Held(inbox') = Held(inbox) \cup {a}
      /\ DistinctIds(inbox')
  BY <1>1, <1>2, AppendHolds DEF Receive, TransInv, TransTypeOK, InOnePlace
<1>4. /\ UNCHANGED <<nextId, correlations, envelopes, storing, link, outgoing,
                     published, dropped, expired>>
      /\ Held(outgoing)' = Held(outgoing) /\ DistinctIds(outgoing)' = DistinctIds(outgoing)
      /\ Held(storing)' = Held(storing) /\ PublishedIds' = PublishedIds
  BY DEF Receive, outcomes, Held, DistinctIds, PublishedIds
<1> HIDE DEF a
<1>5. Travelling' \subseteq Travelling
  BY <1>1, <1>3, <1>4 DEF Travelling
<1>6. TransTypeOK' /\ OnlyLateAnswersAreDropped' /\ AnswersReachTheirAskers' /\ Settled'
  BY <1>1, <1>3, <1>4 DEF TransInv, TransTypeOK, OnlyLateAnswersAreDropped,
     AnswersReachTheirAskers, Settled
<1>7. IdsAreNew' /\ Accounted'
  BY <1>4, <1>5 DEF TransInv, IdsAreNew, Accounted
<1>8. InOnePlace'
  BY <1>1, <1>3, <1>4, <1>5 DEF TransInv, InOnePlace
<1> QED  BY <1>6, <1>7, <1>8 DEF TransInv

\* Every step of every thread.
LEMMA StepKeepsInv ==
  ASSUME TransInv, [TransNext]_transVars
  PROVE  TransInv'
<1>1. CASE \E r \in Requests : Send(r)
  BY <1>1, SendKeepsInv
<1>2. CASE Store
  BY <1>2, StoreKeepsInv
<1>3. CASE Dispatch
  BY <1>3, DispatchKeepsInv
<1>4. CASE \E id \in Ids : Timeout(id)
  BY <1>4, TimeoutKeepsInv
<1>5. CASE Network
  BY <1>5, LinkKeepsInv, ServeKeepsInv, ReceiveKeepsInv DEF Network
<1>6. CASE UNCHANGED transVars
  BY <1>6 DEF transVars, TransInv, TransTypeOK, OnlyLateAnswersAreDropped,
     AnswersReachTheirAskers, IdsAreNew, InOnePlace, Accounted, Settled, Travelling,
     PublishedIds, Held, DistinctIds
<1> QED  BY <1>1, <1>2, <1>3, <1>4, <1>5, <1>6 DEF TransNext

\* The invariant holds in every state.
LEMMA InvAlways == TransSpec => []TransInv
<1> QED  BY InitInv, StepKeepsInv, PTL DEF TransSpec

-----------------------------------------------------------------------------
\* Every variable keeps its type: ids in their range, queues of frames and answers, at
\* most one request between send_*_request and the storing of its envelope.
THEOREM TypesKept == TransSpec => []TransTypeOK
<1>1. TransInv => TransTypeOK
  BY DEF TransInv
<1> QED  BY <1>1, InvAlways, PTL

\* on_received_frame_ready gives up on an answer only when its request has timed out,
\* although the envelope is stored after the frame was sent (view_event_controller.cpp:46).
THEOREM DroppedOnlyLate == TransSpec => []OnlyLateAnswersAreDropped
<1>1. TransInv => OnlyLateAnswersAreDropped
  BY DEF TransInv
<1> QED  BY <1>1, InvAlways, PTL

\* An answer reaches the one who asked, and once (trans_service.cpp, the correlations).
THEOREM RightAsker == TransSpec => []AnswersReachTheirAskers
<1>1. TransInv => AnswersReachTheirAskers
  BY DEF TransInv
<1> QED  BY <1>1, InvAlways, PTL

\* A request whose timeout has fired is never answered (trans_service.cpp:126).
THEOREM NoAnswerAfterTimeout == TransSpec => []TimedOutStaysUnanswered
<1>1. TransInv => TimedOutStaysUnanswered
  BY DEF TransInv, Settled, PublishedIds, TimedOutStaysUnanswered
<1> QED  BY <1>1, InvAlways, PTL

-----------------------------------------------------------------------------
(* The download: tasks, blocks and their rows, over those requests.         *)

\* The requests that have been sent and not been handled, and the answers the scheduler
\* has yet to handle.
Asked == {x.request : x \in Travelling}
Responses == {e.block : e \in {x \in Held(events) : x.kind = "response"}}

\* Only rows of the table are queued, asked for and answered.
OnlyRowsMove ==
  \A b \in Blocks :
    b \in Held(queue) \cup Held(requests) \cup Asked \cup Responses => Inserted(b)

\* A task is described once, before it has a row.
OneDescription ==
  /\ \A x, y \in Travelling : x.request \in Tasks /\ x.request = y.request => x.id = y.id
  /\ \A t \in Asked \cap Tasks :
       /\ taskState[t] = "Waiting"
       /\ \A b \in Blocks : TaskOf(b) = t => ~Inserted(b) /\ b \notin Held(inserting)

\* The rows to come are new, and no block of their task has been asked for.
RowsToCome ==
  /\ \A m, n \in 1..Len(inserting) : inserting[m] = inserting[n] => m = n
  /\ \A b \in Blocks : b \in Held(inserting) =>
       /\ ~Inserted(b) /\ taskState[TaskOf(b)] = "Waiting"
       /\ \A c \in Blocks : TaskOf(c) = TaskOf(b) => c \notin Asked \cup Responses

\* What the two tables say of each other.
TablesAgree ==
  \A b \in Blocks :
    /\ Inserted(b) => taskState[TaskOf(b)] # "none"
    /\ taskState[TaskOf(b)] = "Completed" => blockState[b] # "Waiting"

Turns == OnlyRowsMove /\ OneDescription /\ RowsToCome /\ TablesAgree

DownloadInv == TypeOK /\ TransInv /\ Turns

-----------------------------------------------------------------------------
\* A block's task, and the blocks of a task.
LEMMA BlocksAndTasks ==
  /\ \A b \in Blocks : TaskOf(b) \in Tasks /\ b \in ToSet(BlocksOf[TaskOf(b)])
  /\ \A t \in Tasks : /\ BlocksOf[t] \in Seq(Blocks)
                     /\ \A b \in ToSet(BlocksOf[t]) : b \in Blocks /\ TaskOf(b) = t
<1>1. ASSUME NEW b \in Blocks PROVE TaskOf(b) \in Tasks /\ b \in ToSet(BlocksOf[TaskOf(b)])
  <2>1. \E t \in Tasks : b \in ToSet(BlocksOf[t])
    BY DEF Blocks
  <2>2. QED
    BY <2>1 DEF TaskOf
<1>2. ASSUME NEW t \in Tasks, NEW b \in ToSet(BlocksOf[t]) PROVE b \in Blocks /\ TaskOf(b) = t
  <2>1. b \in Blocks
    BY DEF Blocks
  <2>2. TaskOf(b) \in Tasks /\ b \in ToSet(BlocksOf[TaskOf(b)])
    BY <1>1, <2>1
  <2>3. QED
    BY <2>1, <2>2, ScheduleAssumption
<1> QED  BY <1>1, <1>2, ScheduleAssumption

LEMMA ToSetIsHeld ==
  ASSUME NEW S, NEW s \in Seq(S)
  PROVE  ToSet(s) = Held(s)
BY DEF ToSet, Held

\* The elements of two queues put together.
LEMMA ConcatHolds ==
  ASSUME NEW S, NEW s \in Seq(S), NEW u \in Seq(S)
  PROVE  s \o u \in Seq(S) /\ Held(s \o u) \subseteq Held(s) \cup Held(u)
<1>1. /\ s \o u \in Seq(S) /\ Len(s \o u) = Len(s) + Len(u) /\ Len(s) \in Nat /\ Len(u) \in Nat
      /\ \A n \in 1..Len(s) : (s \o u)[n] = s[n]
      /\ \A n \in (Len(s) + 1)..(Len(s) + Len(u)) : (s \o u)[n] = u[n - Len(s)]
  OBVIOUS
<1>2. ASSUME NEW x \in Held(s \o u) PROVE x \in Held(s) \cup Held(u)
  <2>1. PICK n \in 1..(Len(s) + Len(u)) : x = (s \o u)[n]
    BY <1>1 DEF Held
  <2>2. CASE n \in 1..Len(s)
    BY <1>1, <2>1, <2>2 DEF Held
  <2>3. CASE n \in (Len(s) + 1)..(Len(s) + Len(u))
    <3>1. x = u[n - Len(s)] /\ n - Len(s) \in 1..Len(u)
      BY <1>1, <2>1, <2>3
    <3>2. QED
      BY <3>1 DEF Held
  <2>4. QED
    BY <1>1, <2>2, <2>3
<1> QED  BY <1>1, <1>2

LEMMA BlocksAreFinite ==
  ASSUME NEW t \in Tasks
  PROVE  IsFiniteSet(ToSet(BlocksOf[t]))
<1>1. /\ BlocksOf[t] \in Seq(Blocks)
      /\ Len(BlocksOf[t]) \in Nat /\ DOMAIN BlocksOf[t] = 1..Len(BlocksOf[t])
  BY BlocksAndTasks
<1>2. IsFiniteSet(1..Len(BlocksOf[t]))
  BY <1>1, FS_Interval
<1>3. BlocksOf[t] \in Surjection(1..Len(BlocksOf[t]), ToSet(BlocksOf[t]))
  BY <1>1 DEF Surjection, ToSet
<1> QED  BY <1>2, <1>3, FS_Surjection

\* Some order of the rows of a task is a queue of them.
LEMMA OrderHolds ==
  ASSUME NEW t \in Tasks, NEW order \in SetToSeqs({b \in ToSet(BlocksOf[t]) : Inserted(b)})
  PROVE  order \in Seq(Blocks) /\ \A b \in Held(order) : Inserted(b)
<1> DEFINE rows == {b \in ToSet(BlocksOf[t]) : Inserted(b)}
<1>1. BlocksOf[t] \in Seq(Blocks) /\ rows \subseteq Blocks
  BY BlocksAndTasks
<1>3. Cardinality(rows) \in Nat
  BY BlocksAreFinite, FS_Subset, FS_CardinalityType
<1>4. order \in [1..Cardinality(rows) -> rows]
  BY DEF SetToSeqs
<1> HIDE DEF rows
<1>5. order \in Seq(rows) /\ Len(order) = Cardinality(rows)
  BY <1>3, <1>4
<1>6. \A b \in Held(order) : b \in rows
  BY <1>3, <1>4, <1>5 DEF Held
<1> QED  BY <1>1, <1>5, <1>6 DEF rows

-----------------------------------------------------------------------------
\* What a step leaves of the turns that it does not take: the tables of tasks and the
\* rows to come stay, a block may only leave the state Waiting, and nothing new is asked.
LEMMA OtherStepsKeepTurns ==
  ASSUME Turns,
         UNCHANGED <<taskState, inserting>>,
         \A b \in Blocks : /\ blockState'[b] = "none" <=> blockState[b] = "none"
                           /\ blockState'[b] = "Waiting" => blockState[b] = "Waiting",
         \A x \in Travelling' : \E y \in Travelling : y.id = x.id /\ y.request = x.request,
         Responses' \subseteq Responses \cup Asked,
         \A b \in Held(queue)' \cup Held(requests)' : b \in Held(queue) \cup Held(requests) \/ Inserted(b)
  PROVE  Turns'
<1>1. Asked' \subseteq Asked
  BY DEF Asked
<1>2. OnlyRowsMove'
  BY <1>1 DEF Turns, OnlyRowsMove, Inserted
<1>3. Held(inserting)' = Held(inserting)
  BY DEF Held
<1>4. OneDescription'
  <2>1. ASSUME NEW x \in Travelling', NEW y \in Travelling', x.request \in Tasks, x.request = y.request
        PROVE  x.id = y.id
    <3>1. PICK v \in Travelling, w \in Travelling :
            v.id = x.id /\ v.request = x.request /\ w.id = y.id /\ w.request = y.request
      OBVIOUS
    <3>2. QED
      BY <2>1, <3>1 DEF Turns, OneDescription
  <2>2. QED
    BY <1>1, <1>3, <2>1 DEF Turns, OneDescription, Inserted
<1>5. RowsToCome'
  BY <1>1, <1>3 DEF Turns, RowsToCome, Inserted
<1>6. TablesAgree'
  BY DEF Turns, TablesAgree, Inserted
<1> QED  BY <1>2, <1>4, <1>5, <1>6 DEF Turns

-----------------------------------------------------------------------------
\* What travels between the client and the server after a step of theirs was on its way
\* before: only sending adds to it.
Carried == \A x \in Travelling' : \E y \in Travelling : y.id = x.id /\ y.request = x.request

LEMMA SameTravels ==
  ASSUME UNCHANGED <<outgoing, incoming, inbox>>
  PROVE  Travelling' = Travelling
BY DEF Travelling, Held

LEMMA NetworkCarries ==
  ASSUME TransInv, Connect \/ LinkDown \/ Receive \/ (\E a \in Answers : Serve(a))
  PROVE  Carried
<1>1. CASE Connect
  BY <1>1, SameTravels DEF Connect, Carried
<1>2. CASE LinkDown
  <2>1. Held(<<>>) = {}
    BY DEF Held
  <2>2. Travelling' = Held(outgoing) \cup Held(<<>>) \cup Held(inbox)
    BY <1>2 DEF LinkDown, Travelling, Held
  <2>3. QED
    BY <2>1, <2>2 DEF Carried, Travelling
<1>3. CASE Receive
  <2>1. /\ incoming \in Seq(Answer) /\ incoming # <<>> /\ inbox \in Seq(Answer)
        /\ incoming' = Tail(incoming) /\ inbox' = Append(inbox, Head(incoming)) /\ outgoing' = outgoing
    BY <1>3 DEF Receive, TransInv, TransTypeOK
  <2>2. /\ Head(incoming) \in Answer /\ Head(incoming) \in Held(incoming)
        /\ Held(Tail(incoming)) \subseteq Held(incoming)
    BY <2>1, TailHolds
  <2>3. Held(Append(inbox, Head(incoming))) = Held(inbox) \cup {Head(incoming)}
    BY <2>1, <2>2, AppendHolds
  <2>4. Travelling' = Held(outgoing) \cup Held(Tail(incoming)) \cup Held(Append(inbox, Head(incoming)))
    BY <2>1 DEF Travelling
  <2>5. QED
    BY <2>2, <2>3, <2>4 DEF Carried, Travelling
<1>4. CASE \E a \in Answers : Serve(a)
  <2>1. PICK a \in Answers : Serve(a)
    BY <1>4
  <2> DEFINE f == Head(outgoing)
             r == [id |-> f.id, request |-> f.request, answer |-> a]
  <2>2. /\ outgoing \in Seq(Frame) /\ outgoing # <<>> /\ incoming \in Seq(Answer)
        /\ outgoing' = Tail(outgoing) /\ incoming' = Append(incoming, r) /\ inbox' = inbox
    BY <2>1 DEF Serve, TransInv, TransTypeOK
  <2>3. f \in Frame /\ f \in Held(outgoing) /\ Held(Tail(outgoing)) \subseteq Held(outgoing)
    BY <2>2, TailHolds
  <2>4. r \in Answer /\ r.id = f.id /\ r.request = f.request
    BY <2>3 DEF Answer, Frame
  <2> HIDE DEF r, f
  <2>5. Held(Append(incoming, r)) = Held(incoming) \cup {r}
    BY <2>2, <2>4, AppendHolds
  <2>6. Travelling' = Held(Tail(outgoing)) \cup Held(Append(incoming, r)) \cup Held(inbox)
    BY <2>2 DEF Travelling
  <2>7. QED
    BY <2>3, <2>4, <2>5, <2>6 DEF Carried, Travelling
<1> QED  BY <1>1, <1>2, <1>3, <1>4

\* An answer that is handled travels no more.
LEMMA DispatchCarries ==
  ASSUME TransInv, Dispatch
  PROVE  /\ Head(inbox) \in Answer /\ Head(inbox) \in Travelling
         /\ Travelling' \subseteq Travelling
         /\ \A x \in Travelling' : x.id # Head(inbox).id
<1>1. inbox \in Seq(Answer) /\ inbox # <<>> /\ inbox' = Tail(inbox) /\ UNCHANGED <<outgoing, incoming>>
  BY DEF Dispatch, TransInv, TransTypeOK, wire
<1>2. /\ Head(inbox) \in Answer /\ Head(inbox) \in Held(inbox)
      /\ Held(Tail(inbox)) \subseteq Held(inbox)
      /\ \A x \in Held(Tail(inbox)) : x.id # Head(inbox).id
  BY <1>1, TailHolds DEF TransInv, InOnePlace
<1>3. Travelling' = Held(outgoing) \cup Held(incoming) \cup Held(Tail(inbox))
  BY <1>1 DEF Travelling
<1>4. \A x \in Held(outgoing) \cup Held(incoming) : x.id # Head(inbox).id
  BY <1>2 DEF TransInv, InOnePlace
<1> QED  BY <1>2, <1>3, <1>4 DEF Travelling

\* A request that is sent travels under an id of its own.
LEMMA SendCarries ==
  ASSUME TransInv, NEW r \in Requests, Send(r)
  PROVE  \E x : /\ Travelling' = Travelling \cup {x} /\ x.request = r
               /\ \A y \in Travelling : y.id # x.id
<1> DEFINE x == [id |-> nextId, request |-> r]
<1>1. /\ outgoing \in Seq(Frame) /\ nextId \in Ids /\ outgoing' = Append(outgoing, x)
      /\ UNCHANGED <<incoming, inbox>>
  BY DEF Send, TransInv, TransTypeOK
<1>2. x \in Frame /\ x.id = nextId /\ x.request = r
  BY <1>1 DEF Frame
<1>3. \A y \in Travelling : y.id # nextId
  BY <1>1, TransAssumption DEF TransInv, IdsAreNew, Ids
<1> HIDE DEF x
<1>4. Held(Append(outgoing, x)) = Held(outgoing) \cup {x}
  BY <1>1, <1>2, AppendHolds
<1>5. Travelling' = Held(Append(outgoing, x)) \cup Held(incoming) \cup Held(inbox)
  BY <1>1 DEF Travelling
<1>6. Travelling' = Travelling \cup {x}
  BY <1>4, <1>5 DEF Travelling
<1> QED  BY <1>2, <1>3, <1>6

-----------------------------------------------------------------------------
\* The UI thread.

\* The first row is taken from those to come.
LEMMA RowTaken ==
  ASSUME NEW s \in Seq(Blocks), s # <<>>,
         \A m, n \in 1..Len(s) : s[m] = s[n] => m = n
  PROVE  /\ Head(s) \in Blocks /\ Head(s) \in Held(s)
         /\ Tail(s) \in Seq(Blocks) /\ Held(Tail(s)) \subseteq Held(s)
         /\ Head(s) \notin Held(Tail(s))
         /\ \A m, n \in 1..Len(Tail(s)) : Tail(s)[m] = Tail(s)[n] => m = n
<1>1. /\ Len(s) \in Nat /\ Len(s) > 0 /\ Head(s) = s[1] /\ Head(s) \in Blocks
      /\ Tail(s) \in Seq(Blocks) /\ Len(Tail(s)) = Len(s) - 1
      /\ \A n \in 1..Len(Tail(s)) : Tail(s)[n] = s[n + 1] /\ n + 1 \in 1..Len(s)
  OBVIOUS
<1>2. \A m, n \in 1..Len(Tail(s)) : Tail(s)[m] = Tail(s)[n] => m = n
  BY <1>1
<1>3. \A n \in 1..Len(Tail(s)) : Tail(s)[n] # s[1]
  BY <1>1
<1> QED  BY <1>1, <1>2, <1>3 DEF Held

LEMMA NoRows == Held(<<>>) = {} /\ 1..Len(<<>>) = {}
<1>1. 1..Len(<<>>) = {}
  OBVIOUS
<1> QED  BY <1>1 DEF Held

LEMMA AddTaskKeepsTurns ==
  ASSUME DownloadInv, NEW t \in Tasks, AddTask(t)
  PROVE  Turns'
<1>1. /\ inserting = <<>> /\ inserting' = <<>> /\ taskState[t] = "none"
      /\ taskState' = [taskState EXCEPT ![t] = "Waiting"]
      /\ UNCHANGED <<blockState, queue, events, requests>>
  BY DEF AddTask, UiIdle, uiVars
<1>2. \A u \in Tasks : taskState'[u] = IF u = t THEN "Waiting" ELSE taskState[u]
  BY <1>1 DEF DownloadInv, TypeOK, SchedTypeOK
<1>3. PICK x : /\ Travelling' = Travelling \cup {x} /\ x.request = t
               /\ \A y \in Travelling : y.id # x.id
  BY SendCarries, DownloadAssumption DEF AddTask, DownloadInv
<1>4. Asked' = Asked \cup {t} /\ t \notin Asked /\ t \notin Blocks
  BY <1>1, <1>3, DownloadAssumption DEF Asked, DownloadInv, Turns, OneDescription
<1>5. Held(queue)' = Held(queue) /\ Held(requests)' = Held(requests) /\ Responses' = Responses
  BY <1>1 DEF Held, Responses
<1>6. Held(inserting)' = {} /\ 1..Len(inserting') = {}
  BY <1>1, NoRows
<1>7. OnlyRowsMove'
  BY <1>1, <1>4, <1>5 DEF DownloadInv, Turns, OnlyRowsMove, Inserted
<1>8. OneDescription'
  <2>1. ASSUME NEW y \in Travelling', NEW z \in Travelling', y.request \in Tasks, y.request = z.request
        PROVE  y.id = z.id
    BY <1>3, <1>4, <2>1 DEF DownloadInv, Turns, OneDescription, Asked
  <2>2. ASSUME NEW u \in Asked' \cap Tasks
        PROVE  taskState'[u] = "Waiting" /\ \A b \in Blocks : TaskOf(b) = u => blockState'[b] = "none"
    BY <1>1, <1>2, <1>4 DEF DownloadInv, Turns, OneDescription, TablesAgree, Inserted
  <2>3. QED
    BY <1>6, <2>1, <2>2 DEF OneDescription, Inserted
<1>9. RowsToCome'
  BY <1>6 DEF RowsToCome
<1>10. TablesAgree'
  BY <1>1, <1>2, BlocksAndTasks DEF DownloadInv, Turns, TablesAgree, Inserted
<1> QED  BY <1>7, <1>8, <1>9, <1>10 DEF Turns

LEMMA ForwardRequestKeepsTurns ==
  ASSUME DownloadInv, ForwardRequest
  PROVE  Turns'
<1>1. /\ inserting = <<>> /\ inserting' = <<>>
      /\ requests \in Seq(Blocks) /\ requests # <<>> /\ requests' = Tail(requests)
      /\ UNCHANGED <<blockState, taskState, queue, events>>
  BY DEF ForwardRequest, UiIdle, uiVars, DownloadInv, TypeOK, SchedTypeOK
<1>2. Head(requests) \in Blocks /\ Head(requests) \in Held(requests) /\ Held(Tail(requests)) \subseteq Held(requests)
  BY <1>1, TailHolds
<1>3. PICK b \in Blocks : b = Head(requests) /\ Send(b) /\ b \in Requests
  BY <1>2, DownloadAssumption DEF ForwardRequest
<1>4. Inserted(b) /\ b \notin Tasks
  BY <1>2, <1>3, DownloadAssumption DEF DownloadInv, Turns, OnlyRowsMove
<1>5. PICK x : /\ Travelling' = Travelling \cup {x} /\ x.request = b
               /\ \A y \in Travelling : y.id # x.id
  BY <1>3, SendCarries DEF DownloadInv
<1>6. Asked' = Asked \cup {b}
  BY <1>5 DEF Asked
<1>7. /\ Held(queue)' = Held(queue) /\ Held(requests)' \subseteq Held(requests)
      /\ Responses' = Responses
  BY <1>1, <1>2 DEF Held, Responses
<1>8. Held(inserting)' = {} /\ 1..Len(inserting') = {}
  BY <1>1, NoRows
<1>9. OnlyRowsMove'
  BY <1>1, <1>4, <1>6, <1>7 DEF DownloadInv, Turns, OnlyRowsMove, Inserted
<1>10. OneDescription'
  BY <1>1, <1>4, <1>5, <1>6, <1>8 DEF DownloadInv, Turns, OneDescription, Inserted
<1>11. RowsToCome'
  BY <1>8 DEF RowsToCome
<1>12. TablesAgree'
  BY <1>1 DEF DownloadInv, Turns, TablesAgree, Inserted
<1> QED  BY <1>9, <1>10, <1>11, <1>12 DEF Turns

LEMMA InsertBlockKeepsTurns ==
  ASSUME DownloadInv, InsertBlock
  PROVE  Turns'
<1>1. /\ inserting \in Seq(Blocks) /\ inserting # <<>>
      /\ blockState \in [Blocks -> {"none", "Waiting", "Completed", "Failed"}]
      /\ UNCHANGED <<taskState, queue, events, requests, outgoing, incoming, inbox>>
  BY DEF InsertBlock, DownloadInv, TypeOK, SchedTypeOK, transVars, wire
<1>2. /\ Travelling' = Travelling /\ Asked' = Asked /\ Responses' = Responses
      /\ Held(queue)' = Held(queue) /\ Held(requests)' = Held(requests)
  BY <1>1 DEF Travelling, Asked, Responses, Held
<1>3. CASE inserting' = <<>> /\ UNCHANGED blockState
  <2>1. Held(inserting)' = {} /\ 1..Len(inserting') = {}
    BY <1>3, NoRows
  <2>2. QED
    BY <1>1, <1>2, <1>3, <2>1
       DEF DownloadInv, Turns, OnlyRowsMove, OneDescription, RowsToCome, TablesAgree, Inserted
<1>4. CASE inserting' = Tail(inserting) /\ blockState' = [blockState EXCEPT ![Head(inserting)] = "Waiting"]
  <2>1. PICK b \in Blocks :
          /\ b = Head(inserting) /\ b \in Held(inserting)
          /\ Held(inserting)' \subseteq Held(inserting) /\ b \notin Held(inserting)'
          /\ \A m, n \in 1..Len(inserting') : inserting'[m] = inserting'[n] => m = n
    BY <1>1, <1>4, RowTaken DEF DownloadInv, Turns, RowsToCome
  <2>2. \A c \in Blocks : blockState'[c] = IF c = b THEN "Waiting" ELSE blockState[c]
    BY <1>1, <1>4, <2>1
  <2>3. taskState[TaskOf(b)] = "Waiting"
    BY <2>1 DEF DownloadInv, Turns, RowsToCome
  <2>4. OnlyRowsMove'
    BY <1>2, <2>2 DEF DownloadInv, Turns, OnlyRowsMove, Inserted
  <2>5. OneDescription'
    BY <1>1, <1>2, <2>1, <2>2 DEF DownloadInv, Turns, OneDescription, Inserted
  <2>6. RowsToCome'
    BY <1>1, <1>2, <2>1, <2>2 DEF DownloadInv, Turns, RowsToCome, Inserted
  <2>7. TablesAgree'
    BY <1>1, <2>2, <2>3 DEF DownloadInv, Turns, TablesAgree, Inserted
  <2>8. QED
    BY <2>4, <2>5, <2>6, <2>7 DEF Turns
<1> QED  BY <1>3, <1>4 DEF InsertBlock

\* An answer: a description makes the rows of its task those to come, which nothing has
\* asked for; the content of a block becomes an event of the scheduler.
LEMMA OnAnswerKeepsTurns ==
  ASSUME DownloadInv, OnAnswer
  PROVE  Turns'
<1> DEFINE a == Head(inbox)
<1>1. /\ inserting = <<>> /\ Dispatch /\ TransInv
      /\ UNCHANGED <<blockState, taskState, queue, requests>>
  BY DEF OnAnswer, UiIdle, DownloadInv
<1>2. /\ a \in Answer /\ a \in Travelling /\ a.request \in Asked
      /\ Travelling' \subseteq Travelling
      /\ \A x \in Travelling' : x.id # a.id
  BY <1>1, DispatchCarries DEF Asked
<1>3. Held(queue)' = Held(queue) /\ Held(requests)' = Held(requests)
  BY <1>1 DEF Held
<1>4. CASE inserting' = <<>> /\ Responses' \subseteq Responses \cup Asked
  <2>1. UNCHANGED inserting
    BY <1>1, <1>4
  <2>2. QED
    BY <1>1, <1>2, <1>3, <1>4, <2>1, OtherStepsKeepTurns DEF DownloadInv
<1>5. ASSUME a.request \in Tasks, UNCHANGED events, inserting' = BlocksOf[a.request]
      PROVE  Turns'
  <2>1. PICK t \in Tasks : t = a.request /\ t \in Asked
    BY <1>2, <1>5
  <2>2. /\ BlocksOf[t] \in Seq(Blocks) /\ Held(BlocksOf[t]) = ToSet(BlocksOf[t])
        /\ \A b \in Held(BlocksOf[t]) : b \in Blocks /\ TaskOf(b) = t
    BY BlocksAndTasks, ToSetIsHeld
  <2>3. \A m, n \in 1..Len(BlocksOf[t]) : BlocksOf[t][m] = BlocksOf[t][n] => m = n
    <3>1. DOMAIN BlocksOf[t] = 1..Len(BlocksOf[t]) /\ IsInjective(BlocksOf[t])
      BY <2>2, ScheduleAssumption
    <3>2. QED
      BY <3>1 DEF IsInjective
  <2>4. /\ \A b \in Held(inserting)' : b \in Blocks /\ TaskOf(b) = t
        /\ \A m, n \in 1..Len(inserting') : inserting'[m] = inserting'[n] => m = n
    BY <1>5, <2>1, <2>2, <2>3
  <2>5. Responses' = Responses /\ Asked' \subseteq Asked
    BY <1>2, <1>5 DEF Responses, Asked, Held
  <2>6. t \notin Asked'
    BY <1>2, <2>1 DEF DownloadInv, Turns, OneDescription, Asked
  <2>7. /\ taskState[t] = "Waiting"
        /\ \A b \in Blocks : TaskOf(b) = t => ~Inserted(b) /\ b \notin Asked \cup Responses
    BY <2>1 DEF DownloadInv, Turns, OneDescription, OnlyRowsMove
  <2>8. OnlyRowsMove'
    BY <1>1, <1>3, <2>5 DEF DownloadInv, Turns, OnlyRowsMove, Inserted
  <2>9. OneDescription'
    <3>1. ASSUME NEW x \in Travelling', NEW y \in Travelling', x.request \in Tasks, x.request = y.request
          PROVE  x.id = y.id
      BY <1>2, <3>1 DEF DownloadInv, Turns, OneDescription
    <3>2. ASSUME NEW u \in Asked' \cap Tasks
          PROVE  /\ taskState'[u] = "Waiting"
                 /\ \A b \in Blocks : TaskOf(b) = u => blockState'[b] = "none" /\ b \notin Held(inserting)'
      BY <1>1, <2>4, <2>5, <2>6 DEF DownloadInv, Turns, OneDescription, Inserted
    <3>3. QED
      BY <3>1, <3>2 DEF OneDescription, Inserted
  <2>10. RowsToCome'
    BY <1>1, <2>4, <2>5, <2>7 DEF RowsToCome, Inserted
  <2>11. TablesAgree'
    BY <1>1 DEF DownloadInv, Turns, TablesAgree, Inserted
  <2>12. QED
    BY <2>8, <2>9, <2>10, <2>11 DEF Turns
<1>6. ASSUME a.request \in Blocks, events' = Append(events, Response(a.request, a.answer))
      PROVE  Responses' \subseteq Responses \cup Asked
  <2>1. PICK e \in [kind : {"response"}, block : Blocks, content : Contents] :
          e = Response(a.request, a.answer) /\ e.block = a.request
    BY <1>2, <1>6, DownloadAssumption DEF Response, Answer
  <2> DEFINE S == [kind : {"enqueue"}, task : Tasks] \cup
                  [kind : {"response"}, block : Blocks, content : Contents]
  <2>2. events \in Seq(S) /\ e \in S /\ events' = Append(events, e)
    BY <1>6, <2>1 DEF DownloadInv, TypeOK, SchedTypeOK
  <2>3. Held(events)' = Held(events) \cup {e}
    BY <2>2, AppendHolds
  <2>4. QED
    BY <1>2, <2>1, <2>3 DEF Responses
<1>7. UNCHANGED events => Responses' = Responses
  BY DEF Responses, Held
<1> QED
  BY <1>1, <1>4, <1>5, <1>6, <1>7 DEF OnAnswer

\* A step that leaves the tables, the queues and the rows to come alone.
LEMMA CarryingKeepsTurns ==
  ASSUME DownloadInv, Carried, UNCHANGED <<blockState, taskState, queue, events, requests, inserting>>
  PROVE  Turns'
<1>1. Held(queue)' = Held(queue) /\ Held(requests)' = Held(requests) /\ Responses' = Responses
  BY DEF Held, Responses
<1>2. UNCHANGED <<taskState, inserting>>
  OBVIOUS
<1> QED  BY <1>1, <1>2, OtherStepsKeepTurns DEF DownloadInv, Carried

LEMMA StartTaskKeepsTurns ==
  ASSUME DownloadInv, NEW t \in Tasks, StartTask(t)
  PROVE  Turns'
<1> DEFINE S == [kind : {"enqueue"}, task : Tasks] \cup
                [kind : {"response"}, block : Blocks, content : Contents]
<1>1. /\ events \in Seq(S) /\ Enqueue(t) \in S /\ events' = Append(events, Enqueue(t))
      /\ Enqueue(t).kind = "enqueue"
      /\ UNCHANGED <<blockState, taskState, queue, requests, inserting, outgoing, incoming, inbox>>
  BY DEF StartTask, Enqueue, DownloadInv, TypeOK, SchedTypeOK, transVars, wire
<1>2. Held(events)' = Held(events) \cup {Enqueue(t)}
  BY <1>1, AppendHolds
<1>3. Responses' = Responses
  BY <1>1, <1>2 DEF Responses
<1>4. Travelling' = Travelling /\ Held(queue)' = Held(queue) /\ Held(requests)' = Held(requests)
  BY <1>1 DEF Travelling, Held
<1>5. UNCHANGED <<taskState, inserting>>
  BY <1>1
<1> QED  BY <1>1, <1>3, <1>4, <1>5, OtherStepsKeepTurns DEF DownloadInv

-----------------------------------------------------------------------------
\* The scheduler's thread.

EventOf == [kind : {"enqueue"}, task : Tasks] \cup
           [kind : {"response"}, block : Blocks, content : Contents]

\* The event it handles.
LEMMA EventTaken ==
  ASSUME DownloadInv, events # <<>>, events' = Tail(events)
  PROVE  /\ Head(events) \in EventOf /\ events' \in Seq(EventOf)
         /\ Responses' \subseteq Responses
         /\ Head(events).kind = "response" => Head(events).block \in Responses
<1>1. events \in Seq(EventOf)
  BY DEF DownloadInv, TypeOK, SchedTypeOK, EventOf
<1>2. /\ Head(events) \in EventOf /\ Head(events) \in Held(events)
      /\ Tail(events) \in Seq(EventOf) /\ Held(Tail(events)) \subseteq Held(events)
  BY <1>1, TailHolds
<1> QED  BY <1>2 DEF Responses

LEMMA OnTaskEnqueueKeepsTurns ==
  ASSUME DownloadInv, OnTaskEnqueue, UNCHANGED <<transVars, uiVars>>
  PROVE  Turns' /\ queue' \in Seq(Blocks) /\ scheduled' \subseteq Blocks
<1> DEFINE t == Head(events).task
           rows == {b \in ToSet(BlocksOf[t]) : Inserted(b)}
<1>1. /\ events # <<>> /\ events' = Tail(events) /\ Head(events).kind = "enqueue"
      /\ UNCHANGED <<blockState, taskState, requests, inserting, outgoing, incoming, inbox>>
      /\ queue \in Seq(Blocks) /\ scheduled \subseteq Blocks
  BY DEF OnTaskEnqueue, transVars, wire, uiVars, DownloadInv, TypeOK, SchedTypeOK
<1>2. t \in Tasks /\ Responses' \subseteq Responses
  BY <1>1, EventTaken DEF EventOf
<1>3. PICK order \in SetToSeqs(rows) : queue' = queue \o order /\ scheduled' = scheduled \cup rows
  BY DEF OnTaskEnqueue
<1>4. order \in Seq(Blocks) /\ (\A b \in Held(order) : Inserted(b)) /\ rows \subseteq Blocks
  BY <1>2, OrderHolds, BlocksAndTasks
<1>5. queue \o order \in Seq(Blocks) /\ Held(queue \o order) \subseteq Held(queue) \cup Held(order)
  BY <1>1, <1>4, ConcatHolds
<1>6. Travelling' = Travelling /\ Held(requests)' = Held(requests)
  BY <1>1 DEF Travelling, Held
<1>7. UNCHANGED <<taskState, inserting>> /\ UNCHANGED blockState
  BY <1>1
<1>8. Turns'
  BY <1>2, <1>3, <1>4, <1>5, <1>6, <1>7, OtherStepsKeepTurns DEF DownloadInv
<1> QED  BY <1>1, <1>3, <1>4, <1>5, <1>8

LEMMA OnBlockRequestKeepsTurns ==
  ASSUME DownloadInv, OnBlockRequest, UNCHANGED <<transVars, uiVars>>
  PROVE  Turns' /\ queue' \in Seq(Blocks) /\ requests' \in Seq(Blocks)
<1> DEFINE b == Head(queue)
<1>1. /\ queue # <<>> /\ queue \in Seq(Blocks) /\ requests \in Seq(Blocks)
      /\ UNCHANGED <<blockState, taskState, events, inserting, outgoing, incoming, inbox>>
  BY DEF OnBlockRequest, transVars, wire, uiVars, DownloadInv, TypeOK, SchedTypeOK
<1>2. b \in Blocks /\ b \in Held(queue) /\ Tail(queue) \in Seq(Blocks) /\ Held(Tail(queue)) \subseteq Held(queue)
  BY <1>1, TailHolds
<1>3. /\ Append(Tail(queue), b) \in Seq(Blocks) /\ Append(requests, b) \in Seq(Blocks)
      /\ Held(Append(Tail(queue), b)) = Held(Tail(queue)) \cup {b}
      /\ Held(Append(requests, b)) = Held(requests) \cup {b}
  <2> HIDE DEF b
  <2>1. \A s \in Seq(Blocks) : Append(s, b) \in Seq(Blocks) /\ Held(Append(s, b)) = Held(s) \cup {b}
    BY <1>2, AppendHolds
  <2>2. QED
    BY <1>1, <1>2, <2>1
<1>4. /\ queue' \in {Tail(queue), Append(Tail(queue), b)}
      /\ requests' \in {requests, Append(requests, b)}
  BY DEF OnBlockRequest
<1>5. Held(queue)' \subseteq Held(queue) /\ Held(requests)' \subseteq Held(requests) \cup {b}
  BY <1>2, <1>3, <1>4
<1>6. Travelling' = Travelling /\ Responses' = Responses
  BY <1>1 DEF Travelling, Responses, Held
<1>7. UNCHANGED <<taskState, inserting>> /\ UNCHANGED blockState
  BY <1>1
<1>8. Turns'
  BY <1>2, <1>5, <1>6, <1>7, OtherStepsKeepTurns DEF DownloadInv
<1> QED  BY <1>1, <1>2, <1>3, <1>4, <1>8

\* A block that is answered is in the table, so its task is not being described.
LEMMA OnBlockResponseKeepsTurns ==
  ASSUME DownloadInv, NEW b \in Blocks, OnBlockResponse(b), UNCHANGED <<transVars, uiVars>>
  PROVE  /\ Turns'
         /\ blockState' \in [Blocks -> {"none", "Waiting", "Completed", "Failed"}]
         /\ taskState' \in [Tasks -> {"none", "Waiting", "Completed"}]
         /\ file' \in [Blocks -> {"none", "data", "zeros"}]
<1>1. /\ events # <<>> /\ events' = Tail(events)
      /\ Head(events).kind = "response" /\ Head(events).block = b
      /\ UNCHANGED <<queue, requests, inserting, outgoing, incoming, inbox>>
  BY DEF OnBlockResponse, IgnoreResponse, BlockFails, BlockCompletes, Answered, transVars, wire, uiVars
<1>2. /\ b \in Responses /\ Responses' \subseteq Responses /\ Head(events).content \in Contents
  BY <1>1, EventTaken DEF EventOf
<1>3. Inserted(b)
  BY <1>2 DEF DownloadInv, Turns, OnlyRowsMove
<1>4. /\ blockState \in [Blocks -> {"none", "Waiting", "Completed", "Failed"}]
      /\ taskState \in [Tasks -> {"none", "Waiting", "Completed"}]
      /\ file \in [Blocks -> {"none", "data", "zeros"}]
  BY DEF DownloadInv, TypeOK, SchedTypeOK
<1>5. /\ Travelling' = Travelling /\ Held(queue)' = Held(queue) /\ Held(requests)' = Held(requests)
      /\ Held(inserting)' = Held(inserting) /\ Asked' = Asked
  BY <1>1 DEF Travelling, Held, Asked
<1>6. CASE IgnoreResponse(b)
  <2>1. UNCHANGED <<taskState, inserting>> /\ UNCHANGED <<blockState, file>>
    BY <1>1, <1>6 DEF IgnoreResponse
  <2>2. QED
    BY <1>2, <1>4, <1>5, <2>1, OtherStepsKeepTurns DEF DownloadInv
<1>7. CASE BlockFails(b)
  <2>1. /\ UNCHANGED <<taskState, inserting>> /\ UNCHANGED file
        /\ blockState' = [blockState EXCEPT ![b] = "Failed"]
    BY <1>1, <1>7 DEF BlockFails
  <2>2. \A c \in Blocks : blockState'[c] = IF c = b THEN "Failed" ELSE blockState[c]
    BY <1>4, <2>1
  <2>3. Turns'
    BY <1>2, <1>3, <1>5, <2>1, <2>2, OtherStepsKeepTurns DEF DownloadInv, Inserted
  <2>4. QED
    BY <1>4, <2>1, <2>3
<1>8. CASE BlockCompletes(b)
  <2> DEFINE t == TaskOf(b)
  <2>1. t \in Tasks
    BY BlocksAndTasks
  <2>2. /\ blockState' = [blockState EXCEPT ![b] = "Completed"]
        /\ \/ taskState' = taskState
           \/ Waiting(t)' = {} /\ taskState' = [taskState EXCEPT ![t] = "Completed"]
        /\ \/ file' = file
           \/ file' = [file EXCEPT ![b] = Head(events).content] /\ Head(events).content # "empty"
    BY <1>8 DEF BlockCompletes
  <2>3. \A c \in Blocks : blockState'[c] = IF c = b THEN "Completed" ELSE blockState[c]
    BY <1>4, <2>2
  <2>4. \A u \in Tasks : taskState'[u] = taskState[u] \/ (u = t /\ taskState'[u] = "Completed")
    BY <1>4, <2>2
  <2>5. OnlyRowsMove'
    BY <1>2, <1>3, <1>5, <2>3 DEF DownloadInv, Turns, OnlyRowsMove, Inserted
  <2>6. t \notin Asked
    BY <1>3, <2>1 DEF DownloadInv, Turns, OneDescription
  <2>7. OneDescription'
    BY <1>3, <1>5, <2>3, <2>4, <2>6 DEF DownloadInv, Turns, OneDescription, Inserted
  <2>8. \A c \in Blocks : c \in Held(inserting) => TaskOf(c) # t /\ TaskOf(c) \in Tasks
    BY <1>2, BlocksAndTasks DEF DownloadInv, Turns, RowsToCome
  <2>9. RowsToCome'
    BY <1>1, <1>2, <1>3, <1>5, <2>3, <2>4, <2>8 DEF DownloadInv, Turns, RowsToCome, Inserted
  <2>10. TablesAgree'
    <3>1. ASSUME NEW c \in Blocks, taskState'[TaskOf(c)] = "Completed"
          PROVE  blockState'[c] # "Waiting"
      <4>1. CASE taskState[TaskOf(c)] = "Completed"
        BY <2>3, <4>1 DEF DownloadInv, Turns, TablesAgree
      <4>2. CASE taskState[TaskOf(c)] # "Completed"
        <5>1. TaskOf(c) = t /\ Waiting(t)' = {} /\ c \in ToSet(BlocksOf[t])
          BY <2>2, <2>4, <3>1, <4>2, BlocksAndTasks
        <5>2. QED
          BY <5>1 DEF Waiting
      <4>3. QED
        BY <4>1, <4>2
    <3>2. \A c \in Blocks : blockState'[c] # "none" => taskState'[TaskOf(c)] # "none"
      BY <1>3, <2>3, <2>4, BlocksAndTasks DEF DownloadInv, Turns, TablesAgree, Inserted
    <3>3. QED
      BY <3>1, <3>2 DEF TablesAgree, Inserted
  <2>11. file' \in [Blocks -> {"none", "data", "zeros"}]
    BY <1>2, <1>4, <2>2, ScheduleAssumption
  <2>12. QED
    BY <1>4, <2>2, <2>5, <2>7, <2>9, <2>10, <2>11 DEF Turns
<1> QED  BY <1>6, <1>7, <1>8 DEF OnBlockResponse

-----------------------------------------------------------------------------
\* Every step keeps the types: those of the transport are in TransInv.
UiTypeOK ==
  /\ serverFile \in Contents
  /\ inserting \in Seq(Blocks)
  /\ startsLeft \in [Tasks -> Nat]

LEMMA TypesAre == TypeOK <=> SchedTypeOK /\ TransTypeOK /\ UiTypeOK
BY DEF TypeOK, UiTypeOK

LEMMA SchedulerKeepsInv ==
  ASSUME DownloadInv, SchedulerStep
  PROVE  SchedTypeOK' /\ UiTypeOK' /\ Turns'
<1>1. UNCHANGED <<transVars, uiVars>> /\ Scheduler /\ SchedTypeOK /\ UiTypeOK
  BY TypesAre DEF SchedulerStep, DownloadInv
<1>2. UiTypeOK'
  BY <1>1 DEF UiTypeOK, uiVars
<1>3. CASE OnTaskEnqueue
  <2>1. Turns' /\ queue' \in Seq(Blocks) /\ scheduled' \subseteq Blocks
    BY <1>1, <1>3, OnTaskEnqueueKeepsTurns
  <2>2. events # <<>> /\ events' = Tail(events) /\ UNCHANGED <<blockState, taskState, file, requests>>
    BY <1>3 DEF OnTaskEnqueue
  <2>3. events' \in Seq(EventOf) /\ Head(events) \in EventOf
    BY <2>2, EventTaken
  <2>4. DOMAIN pending' \subseteq Tasks /\ \A t \in DOMAIN pending' : pending'[t] \in BOOLEAN
    BY <1>1, <1>3, <2>3 DEF OnTaskEnqueue, EventOf, SchedTypeOK
  <2>5. QED
    BY <1>1, <1>2, <2>1, <2>2, <2>3, <2>4 DEF SchedTypeOK, EventOf
<1>4. CASE OnBlockRequest
  <2>1. Turns' /\ queue' \in Seq(Blocks) /\ requests' \in Seq(Blocks)
    BY <1>1, <1>4, OnBlockRequestKeepsTurns
  <2>2. UNCHANGED <<blockState, taskState, pending, file, events, scheduled>>
    BY <1>4 DEF OnBlockRequest
  <2>3. QED
    BY <1>1, <1>2, <2>1, <2>2 DEF SchedTypeOK
<1>5. CASE \E b \in Blocks : OnBlockResponse(b)
  <2>1. PICK b \in Blocks : OnBlockResponse(b)
    BY <1>5
  <2>2. /\ Turns'
        /\ blockState' \in [Blocks -> {"none", "Waiting", "Completed", "Failed"}]
        /\ taskState' \in [Tasks -> {"none", "Waiting", "Completed"}]
        /\ file' \in [Blocks -> {"none", "data", "zeros"}]
    BY <1>1, <2>1, OnBlockResponseKeepsTurns
  <2>3. events # <<>> /\ events' = Tail(events) /\ UNCHANGED <<pending, queue, requests, scheduled>>
    BY <2>1 DEF OnBlockResponse, IgnoreResponse, BlockFails, BlockCompletes, Answered
  <2>4. events' \in Seq(EventOf)
    BY <2>3, EventTaken
  <2>5. QED
    BY <1>1, <1>2, <2>2, <2>3, <2>4 DEF SchedTypeOK, EventOf
<1> QED  BY <1>1, <1>3, <1>4, <1>5 DEF Scheduler

LEMMA UiKeepsTypes ==
  ASSUME DownloadInv, \/ UiStep
                      \/ \E t \in Tasks : AddTask(t) \/ StartTask(t)
  PROVE  SchedTypeOK' /\ UiTypeOK'
<1>1. SchedTypeOK /\ UiTypeOK /\ TransInv
  BY TypesAre DEF DownloadInv
<1>2. CASE ForwardRequest
  <2>1. requests' = Tail(requests) /\ requests # <<>>
    BY <1>2 DEF ForwardRequest
  <2>2. requests' \in Seq(Blocks)
    BY <1>1, <2>1 DEF SchedTypeOK
  <2>3. QED
    BY <1>1, <1>2, <2>2 DEF ForwardRequest, SchedTypeOK, UiTypeOK, uiVars
<1>3. CASE FinishRequest
  BY <1>1, <1>3 DEF FinishRequest, schedVars, uiVars, SchedTypeOK, UiTypeOK
<1>4. CASE OnAnswer
  <2> DEFINE a == Head(inbox)
  <2>1. a \in Answer
    BY <1>1, <1>4, DispatchCarries DEF OnAnswer
  <2>2. inserting' \in Seq(Blocks)
    <3>1. <<>> \in Seq(Blocks)
      OBVIOUS
    <3>2. a.request \in Tasks => BlocksOf[a.request] \in Seq(Blocks)
      BY BlocksAndTasks
    <3>3. inserting \in Seq(Blocks)
      BY <1>1 DEF UiTypeOK
    <3>4. \/ inserting' = inserting \/ inserting' = <<>>
          \/ a.request \in Tasks /\ inserting' = BlocksOf[a.request]
      BY <1>4 DEF OnAnswer
    <3>5. QED
      BY <3>1, <3>2, <3>3, <3>4
  <2>3. events' \in Seq(EventOf)
    <3>1. events \in Seq(EventOf)
      BY <1>1 DEF SchedTypeOK, EventOf
    <3>2. \/ events' = events
          \/ a.request \in Blocks /\ events' = Append(events, Response(a.request, a.answer))
      BY <1>4 DEF OnAnswer
    <3>3. a.request \in Blocks => Response(a.request, a.answer) \in EventOf
      BY <2>1, DownloadAssumption DEF Response, EventOf, Answer
    <3>4. QED
      BY <3>1, <3>2, <3>3
  <2>4. QED
    BY <1>1, <1>4, <2>2, <2>3 DEF OnAnswer, SchedTypeOK, UiTypeOK, EventOf
<1>5. CASE InsertBlock
  <2>1. inserting \in Seq(Blocks) /\ inserting # <<>>
    BY <1>1, <1>5 DEF InsertBlock, UiTypeOK
  <2>2. Head(inserting) \in Blocks /\ Tail(inserting) \in Seq(Blocks) /\ <<>> \in Seq(Blocks)
    BY <2>1
  <2>3. inserting' \in Seq(Blocks)
    BY <1>5, <2>2 DEF InsertBlock
  <2>4. blockState' \in [Blocks -> {"none", "Waiting", "Completed", "Failed"}]
    BY <1>1, <1>5, <2>2 DEF InsertBlock, SchedTypeOK
  <2>5. QED
    BY <1>1, <1>5, <2>3, <2>4 DEF InsertBlock, SchedTypeOK, UiTypeOK
<1>6. ASSUME NEW t \in Tasks, AddTask(t) PROVE SchedTypeOK' /\ UiTypeOK'
  BY <1>1, <1>6 DEF AddTask, SchedTypeOK, UiTypeOK, uiVars
<1>7. ASSUME NEW t \in Tasks, StartTask(t) PROVE SchedTypeOK' /\ UiTypeOK'
  <2>1. events \in Seq(EventOf) /\ Enqueue(t) \in EventOf /\ events' = Append(events, Enqueue(t))
    BY <1>1, <1>7 DEF StartTask, Enqueue, SchedTypeOK, EventOf
  <2>2. events' \in Seq(EventOf)
    BY <2>1
  <2>3. startsLeft' \in [Tasks -> Nat]
    BY <1>1, <1>7 DEF StartTask, UiTypeOK
  <2>4. QED
    BY <1>1, <1>7, <2>2, <2>3 DEF StartTask, SchedTypeOK, UiTypeOK, EventOf
<1> QED  BY <1>2, <1>3, <1>4, <1>5, <1>6, <1>7 DEF UiStep

-----------------------------------------------------------------------------
LEMMA InitDownloadInv == Init => DownloadInv
<1> SUFFICES ASSUME Init PROVE DownloadInv
  OBVIOUS
<1>1. TransInv
  BY InitInv DEF Init
<1>2. Held(<<>>) = {} /\ 1..Len(<<>>) = {}
  BY NoRows
<1>3. SchedTypeOK
  BY DEF Init, SchedInit, SchedTypeOK
<1>4. UiTypeOK
  BY DownloadAssumption DEF Init, UiTypeOK
<1>5. Asked = {} /\ Responses = {}
  BY <1>2 DEF Init, TransInit, SchedInit, Asked, Responses, Travelling
<1>6. Turns
  BY <1>2, <1>5, BlocksAndTasks
     DEF Init, TransInit, SchedInit, Turns, OnlyRowsMove, OneDescription, RowsToCome, TablesAgree,
         Inserted, Travelling
<1> QED  BY <1>1, <1>3, <1>4, <1>6, TypesAre DEF DownloadInv, TransInv

\* Each step of the download is one of the request correlation, or leaves it alone.
LEMMA TransportKeepsInv ==
  ASSUME DownloadInv, [Next]_vars
  PROVE  TransInv'
<1>1. CASE \E t \in Tasks : AddTask(t)
  BY <1>1, SendKeepsInv, DownloadAssumption DEF AddTask, DownloadInv
<1>2. CASE ForwardRequest
  <2>1. requests \in Seq(Blocks) /\ requests # <<>>
    BY <1>2 DEF ForwardRequest, DownloadInv, TypeOK, SchedTypeOK
  <2>2. Head(requests) \in Requests
    BY <2>1, DownloadAssumption
  <2>3. QED
    BY <1>2, <2>2, SendKeepsInv DEF ForwardRequest, DownloadInv
<1>3. CASE FinishRequest \/ OnAnswer
  BY <1>3, StoreKeepsInv, DispatchKeepsInv DEF FinishRequest, OnAnswer, DownloadInv
<1>4. CASE NetworkStep \/ LinkFails
  <2>1. serverFile \in Answers
    BY DownloadAssumption DEF DownloadInv, TypeOK
  <2>2. QED
    BY <1>4, <2>1, LinkKeepsInv, ServeKeepsInv, ReceiveKeepsInv DEF NetworkStep, LinkFails, DownloadInv
<1>5. CASE \E id \in Ids : TimerStep(id)
  BY <1>5, TimeoutKeepsInv DEF TimerStep, DownloadInv
<1>6. CASE UNCHANGED transVars
  BY <1>6, StepKeepsInv DEF DownloadInv
<1>7. (InsertBlock \/ SchedulerStep \/ ServerFileChanges) => UNCHANGED transVars
  BY DEF InsertBlock, SchedulerStep, ServerFileChanges
<1>8. (\E t \in Tasks : StartTask(t) \/ Control(t)) \/ UNCHANGED vars => UNCHANGED transVars
  BY DEF StartTask, Control, vars
<1> QED  BY <1>1, <1>2, <1>3, <1>4, <1>5, <1>6, <1>7, <1>8 DEF Next, UiStep

LEMMA DownloadNextInv ==
  ASSUME DownloadInv, [Next]_vars
  PROVE  DownloadInv'
<1>1. TransInv' /\ SchedTypeOK /\ UiTypeOK /\ TransInv
  BY TransportKeepsInv, TypesAre DEF DownloadInv
<1>2. SUFFICES SchedTypeOK' /\ UiTypeOK' /\ Turns'
  <2>1. TypeOK' <=> SchedTypeOK' /\ TransTypeOK' /\ UiTypeOK'
    BY DEF TypeOK, UiTypeOK
  <2>2. QED
    BY <1>1, <2>1 DEF DownloadInv, TransInv
<1>3. CASE \E t \in Tasks : AddTask(t) \/ StartTask(t)
  BY <1>3, UiKeepsTypes, AddTaskKeepsTurns, StartTaskKeepsTurns
<1>4. CASE UiStep
  <2>1. SchedTypeOK' /\ UiTypeOK'
    BY <1>4, UiKeepsTypes
  <2>2. CASE FinishRequest
    <3>1. /\ UNCHANGED <<outgoing, incoming, inbox>>
          /\ UNCHANGED <<blockState, taskState, queue, events, requests, inserting>>
      BY <2>2 DEF FinishRequest, Store, wire, schedVars, uiVars
    <3>2. QED
      BY <2>1, <3>1, SameTravels, CarryingKeepsTurns DEF Carried
  <2>3. QED
    BY <1>4, <2>1, <2>2, ForwardRequestKeepsTurns, OnAnswerKeepsTurns, InsertBlockKeepsTurns DEF UiStep
<1>5. CASE SchedulerStep
  BY <1>5, SchedulerKeepsInv
<1>6. CASE \E t \in Tasks : Control(t)
  <2>1. /\ UNCHANGED <<outgoing, incoming, inbox>> /\ UNCHANGED uiVars
        /\ UNCHANGED <<blockState, taskState, queue, file, events, requests, inserting, scheduled>>
        /\ DOMAIN pending' \subseteq Tasks /\ \A t \in DOMAIN pending' : pending'[t] \in BOOLEAN
    BY <1>1, <1>6 DEF Control, OnTaskCancel, OnTaskPaused, SchedTypeOK, transVars, wire, uiVars
  <2>2. Turns'
    BY <2>1, SameTravels, CarryingKeepsTurns DEF Carried
  <2>3. QED
    BY <1>1, <2>1, <2>2 DEF SchedTypeOK, UiTypeOK, uiVars
<1>7. CASE NetworkStep \/ LinkFails \/ (\E id \in Ids : TimerStep(id)) \/ UNCHANGED vars
  <2>1. UNCHANGED <<schedVars, uiVars>>
    BY <1>7 DEF NetworkStep, LinkFails, TimerStep, vars
  <2>2. Carried
    <3>1. serverFile \in Answers
      BY <1>1, DownloadAssumption DEF UiTypeOK
    <3>2. CASE NetworkStep \/ LinkFails
      BY <1>1, <3>1, <3>2, NetworkCarries DEF NetworkStep, LinkFails
    <3>3. CASE (\E id \in Ids : TimerStep(id)) \/ UNCHANGED vars
      <4>1. UNCHANGED <<outgoing, incoming, inbox>>
        BY <3>3 DEF TimerStep, Timeout, wire, vars, transVars
      <4>2. QED
        BY <4>1, SameTravels DEF Carried
    <3>4. QED
      BY <1>7, <3>2, <3>3
  <2>3. QED
    BY <1>1, <2>1, <2>2, CarryingKeepsTurns DEF schedVars, uiVars, SchedTypeOK, UiTypeOK
<1>8. CASE ServerFileChanges
  <2>1. /\ UNCHANGED <<schedVars, inserting, startsLeft>> /\ UNCHANGED <<outgoing, incoming, inbox>>
        /\ serverFile' \in Contents
    BY <1>8 DEF ServerFileChanges, transVars, wire
  <2>2. QED
    BY <1>1, <2>1, SameTravels, CarryingKeepsTurns DEF Carried, schedVars, SchedTypeOK, UiTypeOK
<1> QED  BY <1>3, <1>4, <1>5, <1>6, <1>7, <1>8 DEF Next

LEMMA DownloadInvAlways == Spec => []DownloadInv
<1> QED  BY InitDownloadInv, DownloadNextInv, PTL DEF Spec

\* Every variable of the download keeps its type, the queues between the threads included.
THEOREM DownloadTypesKept == Spec => []TypeOK
<1>1. DownloadInv => TypeOK
  BY DEF DownloadInv
<1> QED  BY <1>1, DownloadInvAlways, PTL

\* block_schedule_controller.cpp, on_block_response: a task that has been recorded as
\* completed has no block that waits, and gets none, however its rows, answers, starts,
\* time-outs and failures are interleaved.
THEOREM CompletedIsFinal == Spec => []CompletedLeavesNothingWaiting
<1>1. DownloadInv => CompletedLeavesNothingWaiting
  <2>1. SUFFICES ASSUME DownloadInv, NEW t \in Tasks, taskState[t] = "Completed"
                 PROVE  Waiting(t) = {}
    BY DEF CompletedLeavesNothingWaiting
  <2>2. \A b \in ToSet(BlocksOf[t]) : blockState[b] # "Waiting"
    BY <2>1, BlocksAndTasks DEF DownloadInv, Turns, TablesAgree
  <2>3. QED
    BY <2>2 DEF Waiting
<1> QED  BY <1>1, DownloadInvAlways, PTL

-----------------------------------------------------------------------------
(* Nothing is forgotten.                                                   *)

\* Where a block that is to be fetched can be.
Moves(b) ==
  \/ b \in Held(queue) \cup Held(requests) \cup Asked \cup Responses
  \/ Enqueue(TaskOf(b)) \in Held(events)

Remembered(b) ==
  blockState[b] = "Waiting" /\ TaskOf(b) \in DOMAIN pending /\ link # "down" =>
    Moves(b) \/ Expired(b)

\* What was put into the queue is a row of the table, and is on its way as long as it is
\* to be.
ScheduleInv == \A b \in scheduled : b \in Blocks /\ Inserted(b) /\ Remembered(b)

\* A queue's elements are its first and those of the rest.
LEMMA HeadAndTail ==
  ASSUME NEW S, NEW s \in Seq(S), s # <<>>
  PROVE  Held(s) = {Head(s)} \cup Held(Tail(s))
<1>1. /\ Len(s) \in Nat /\ Len(s) > 0 /\ Head(s) = s[1]
      /\ Len(Tail(s)) = Len(s) - 1
      /\ \A n \in 1..Len(Tail(s)) : Tail(s)[n] = s[n + 1] /\ n + 1 \in 1..Len(s)
  OBVIOUS
<1>2. ASSUME NEW n \in 1..Len(s), n # 1 PROVE s[n] \in Held(Tail(s))
  <2>1. n - 1 \in 1..Len(Tail(s)) /\ Tail(s)[n - 1] = s[n]
    BY <1>1, <1>2
  <2> QED  BY <2>1 DEF Held
<1> QED  BY <1>1, <1>2 DEF Held

\* Putting two queues together loses nothing.
LEMMA ConcatKeeps ==
  ASSUME NEW S, NEW s \in Seq(S), NEW u \in Seq(S)
  PROVE  Held(s) \subseteq Held(s \o u) /\ Held(u) \subseteq Held(s \o u)
<1>1. /\ Len(s \o u) = Len(s) + Len(u) /\ Len(s) \in Nat /\ Len(u) \in Nat
      /\ \A n \in 1..(Len(s) + Len(u)) : (s \o u)[n] = IF n <= Len(s) THEN s[n] ELSE u[n - Len(s)]
  OBVIOUS
<1>2. \A n \in 1..Len(s) : n \in 1..Len(s \o u) /\ (s \o u)[n] = s[n]
  BY <1>1
<1>3. \A n \in 1..Len(u) : n + Len(s) \in 1..Len(s \o u) /\ (s \o u)[n + Len(s)] = u[n]
  BY <1>1
<1> QED  BY <1>2, <1>3 DEF Held

\* The property speaks of these places.
LEMMA MovesIsOnItsWay ==
  ASSUME DownloadInv, NEW b \in Blocks
  PROVE  Moves(b) <=> OnItsWay(b)
<1>1. /\ queue \in Seq(Blocks) /\ requests \in Seq(Blocks) /\ events \in Seq(EventOf)
      /\ outgoing \in Seq(Frame) /\ incoming \in Seq(Answer) /\ inbox \in Seq(Answer)
  BY DEF DownloadInv, TypeOK, SchedTypeOK, TransTypeOK, EventOf
<1>2. /\ ToSet(queue) = Held(queue) /\ ToSet(requests) = Held(requests) /\ ToSet(events) = Held(events)
      /\ DOMAIN events = 1..Len(events)
      /\ DOMAIN outgoing = 1..Len(outgoing) /\ DOMAIN incoming = 1..Len(incoming)
      /\ DOMAIN inbox = 1..Len(inbox)
  BY <1>1, ToSetIsHeld
<1>3. b \in Responses <=> \E i \in DOMAIN events : events[i].kind = "response" /\ events[i].block = b
  BY <1>2 DEF Responses, Held
<1>4. b \in Asked <=> \E s \in {outgoing, incoming, inbox} : \E i \in DOMAIN s : s[i].request = b
  BY <1>2 DEF Asked, Travelling, Held
<1> QED  BY <1>2, <1>3, <1>4 DEF Moves, OnItsWay

-----------------------------------------------------------------------------
\* What has timed out stays so, though the envelope may still have to be stored.
LEMMA ExpiredStays ==
  ASSUME TransInv, expired \subseteq expired',
         UNCHANGED <<envelopes, storing>> \/ Store \/ (storing = <<>> /\ envelopes' = envelopes),
         NEW b, Expired(b)
  PROVE  Expired(b)'
<1>1. PICK id \in expired : \/ id \in DOMAIN envelopes /\ envelopes[id] = b
                            \/ storing = <<[id |-> id, request |-> b]>>
  BY DEF Expired
<1>2. CASE UNCHANGED <<envelopes, storing>>
  BY <1>1, <1>2 DEF Expired
<1>3. CASE storing = <<>> /\ envelopes' = envelopes
  BY <1>1, <1>3 DEF Expired
<1>4. CASE Store
  <2>1. envelopes' = With(envelopes, Head(storing).id, Head(storing).request) /\ storing # <<>>
        /\ storing \in Seq(Frame)
    BY <1>4 DEF Store, TransInv, TransTypeOK
  <2>2. CASE id \in DOMAIN envelopes /\ envelopes[id] = b
    <3>1. Head(storing) \in Held(storing)
      BY <2>1, TailHolds
    <3>2. Head(storing).id \notin DOMAIN envelopes
      BY <3>1 DEF TransInv, Accounted
    <3>3. id \in DOMAIN envelopes' /\ envelopes'[id] = b
      BY <2>1, <2>2, <3>2 DEF With
    <3> QED  BY <1>1, <3>3 DEF Expired
  <2>3. CASE storing = <<[id |-> id, request |-> b]>>
    <3>1. Head(storing).id = id /\ Head(storing).request = b
      BY <2>3
    <3>2. id \in DOMAIN envelopes' /\ envelopes'[id] = b
      BY <2>1, <3>1 DEF With
    <3> QED  BY <1>1, <3>2 DEF Expired
  <2> QED  BY <1>1, <2>2, <2>3
<1> QED  BY <1>2, <1>3, <1>4

\* Of the client's steps with the server only Dispatch takes a request off its way, and
\* LinkDown, after which nothing is asked of anybody.
LEMMA TransportKeepsAsked ==
  ASSUME TransInv, \/ Connect \/ Receive \/ (\E a \in Answers : Serve(a))
                   \/ (\E r \in Requests : Send(r)) \/ UNCHANGED <<outgoing, incoming, inbox>>
  PROVE  Asked \subseteq Asked'
<1>1. /\ outgoing \in Seq(Frame) /\ incoming \in Seq(Answer) /\ inbox \in Seq(Answer)
  BY DEF TransInv, TransTypeOK
<1>2. CASE Connect \/ UNCHANGED <<outgoing, incoming, inbox>>
  <2>1. Travelling' = Travelling
    BY <1>2, SameTravels DEF Connect
  <2> QED  BY <2>1 DEF Asked
<1>3. CASE Receive
  <2>1. incoming # <<>> /\ UNCHANGED outgoing /\ incoming' = Tail(incoming) /\ inbox' = Append(inbox, Head(incoming))
    BY <1>3 DEF Receive
  <2>2. Held(incoming) = {Head(incoming)} \cup Held(Tail(incoming)) /\ Head(incoming) \in Answer
    BY <1>1, <2>1, HeadAndTail, TailHolds
  <2>3. Held(Append(inbox, Head(incoming))) = Held(inbox) \cup {Head(incoming)}
    BY <1>1, <2>2, AppendHolds
  <2>4. Travelling' = Held(outgoing) \cup Held(Tail(incoming)) \cup Held(Append(inbox, Head(incoming)))
    BY <2>1 DEF Travelling
  <2>5. Travelling' = Travelling
    BY <2>2, <2>3, <2>4 DEF Travelling
  <2> QED  BY <2>5 DEF Asked
<1>4. ASSUME NEW a \in Answers, Serve(a) PROVE Asked \subseteq Asked'
  <2> DEFINE f == Head(outgoing)
             r == [id |-> f.id, request |-> f.request, answer |-> a]
  <2>1. outgoing # <<>> /\ UNCHANGED inbox /\ outgoing' = Tail(outgoing) /\ incoming' = Append(incoming, r)
    BY <1>4 DEF Serve
  <2>2. Held(outgoing) = {f} \cup Held(Tail(outgoing)) /\ f \in Frame
    BY <1>1, <2>1, HeadAndTail, TailHolds
  <2>3. r \in Answer /\ r.request = f.request
    BY <2>2 DEF Frame, Answer
  <2> HIDE DEF r, f
  <2>4. Held(Append(incoming, r)) = Held(incoming) \cup {r}
    BY <1>1, <2>3, AppendHolds
  <2>5. Travelling' = Held(Tail(outgoing)) \cup Held(Append(incoming, r)) \cup Held(inbox)
    BY <2>1 DEF Travelling
  <2>6. Travelling = {f} \cup Held(Tail(outgoing)) \cup Held(incoming) \cup Held(inbox)
    BY <2>2 DEF Travelling
  <2> QED  BY <2>3, <2>4, <2>5, <2>6 DEF Asked
<1>5. ASSUME NEW r \in Requests, Send(r) PROVE Asked \subseteq Asked'
  BY <1>5, SendCarries DEF Asked
<1> QED  BY <1>2, <1>3, <1>4, <1>5

-----------------------------------------------------------------------------
\* A step that puts no block into the queue: each stays where it is, or moves on.
LEMMA NoneLost ==
  ASSUME ScheduleInv, scheduled' = scheduled,
         \A b \in scheduled :
           /\ blockState[b] # "none" => blockState'[b] # "none"
           /\ blockState'[b] = "Waiting" /\ TaskOf(b) \in DOMAIN pending' /\ link' # "down" =>
                /\ blockState[b] = "Waiting" /\ TaskOf(b) \in DOMAIN pending /\ link # "down"
                /\ Moves(b) => Moves(b)' \/ Expired(b)'
                /\ Expired(b) => Expired(b)'
  PROVE  ScheduleInv'
<1>1. ASSUME NEW b \in scheduled
      PROVE  b \in Blocks /\ blockState'[b] # "none" /\ Remembered(b)'
  <2>1. b \in Blocks /\ blockState[b] # "none" /\ Remembered(b)
    BY DEF ScheduleInv, Inserted
  <2> QED  BY <2>1 DEF Remembered
<1> QED  BY <1>1 DEF ScheduleInv, Inserted

\* What the places hold.
LEMMA PlacesAre ==
  ASSUME DownloadInv
  PROVE  /\ TransInv
         /\ queue \in Seq(Blocks) /\ requests \in Seq(Blocks) /\ events \in Seq(EventOf)
         /\ outgoing \in Seq(Frame) /\ incoming \in Seq(Answer) /\ inbox \in Seq(Answer)
         /\ blockState \in [Blocks -> {"none", "Waiting", "Completed", "Failed"}]
         /\ inserting \in Seq(Blocks)
BY DEF DownloadInv, TypeOK, SchedTypeOK, TransTypeOK, EventOf, TransInv

\* A step of which the queues of the scheduler and the tables know nothing.
LEMMA CarryingForgetsNone ==
  ASSUME DownloadInv, ScheduleInv, Asked \subseteq Asked' \/ link' = "down",
         link' # "down" => link # "down",
         UNCHANGED <<blockState, queue, events, requests, scheduled>>,
         DOMAIN pending' \subseteq DOMAIN pending,
         \A b : Expired(b) => Expired(b)'
  PROVE  ScheduleInv'
<1>1. ASSUME NEW b, Moves(b), Asked \subseteq Asked' PROVE Moves(b)'
  BY <1>1 DEF Moves, Responses, Held
<1> QED  BY <1>1, NoneLost

LEMMA ScheduleInit == Init => ScheduleInv
BY DEF Init, SchedInit, ScheduleInv

LEMMA ConnectionForgetsNone ==
  ASSUME DownloadInv, ScheduleInv,
         \/ NetworkStep \/ LinkFails \/ (\E id \in Ids : TimerStep(id)) \/ FinishRequest
         \/ ServerFileChanges \/ (\E t \in Tasks : Control(t)) \/ UNCHANGED vars
  PROVE  ScheduleInv'
<1>1. TransInv /\ serverFile \in Answers
  BY PlacesAre, DownloadAssumption DEF DownloadInv, TypeOK
<1>2. /\ UNCHANGED <<blockState, queue, events, requests, scheduled>>
      /\ DOMAIN pending' \subseteq DOMAIN pending
  <2>1. CASE \E t \in Tasks : Control(t)
    <3>1. PICK t \in Tasks : Control(t)
      BY <2>1
    <3>2. CASE OnTaskCancel(t)
      BY <3>2 DEF OnTaskCancel
    <3>3. CASE OnTaskPaused(t, ~pending[t])
      BY <3>3 DEF OnTaskPaused
    <3> QED  BY <3>1, <3>2, <3>3 DEF Control
  <2>2. CASE ~\E t \in Tasks : Control(t)
    BY <2>2 DEF NetworkStep, LinkFails, TimerStep, FinishRequest, ServerFileChanges, vars, schedVars
  <2> QED  BY <2>1, <2>2
<1>3. CASE NetworkStep
  <2>1. Asked \subseteq Asked' /\ (link' # "down" => link # "down") /\ UNCHANGED <<envelopes, storing, expired>>
    <3>1. Connect \/ Receive \/ Serve(serverFile)
      BY <1>3 DEF NetworkStep
    <3>2. Asked \subseteq Asked'
      BY <1>1, <3>1, TransportKeepsAsked
    <3>3. (link' # "down" => link # "down") /\ UNCHANGED <<envelopes, storing, expired>>
      BY <3>1 DEF Connect, Receive, Serve, outcomes
    <3> QED  BY <3>2, <3>3
  <2>2. \A b : Expired(b) => Expired(b)'
    BY <1>1, <2>1, ExpiredStays
  <2> QED  BY <1>2, <2>1, <2>2, CarryingForgetsNone
<1>4. CASE LinkFails
  <2>1. link' = "down" /\ UNCHANGED <<envelopes, storing, expired>>
    BY <1>4 DEF LinkFails, LinkDown, outcomes
  <2>2. \A b : Expired(b) => Expired(b)'
    BY <1>1, <2>1, ExpiredStays
  <2> QED  BY <1>2, <2>1, <2>2, CarryingForgetsNone
<1>5. CASE (\E id \in Ids : TimerStep(id)) \/ (\E t \in Tasks : Control(t)) \/ ServerFileChanges \/ UNCHANGED vars
  <2>1. /\ UNCHANGED <<outgoing, incoming, inbox>> /\ UNCHANGED <<link, envelopes, storing>>
        /\ expired \subseteq expired'
    BY <1>5 DEF TimerStep, Timeout, Control, ServerFileChanges, vars, transVars, wire
  <2>2. Asked \subseteq Asked'
    BY <1>1, <2>1, TransportKeepsAsked
  <2>3. \A b : Expired(b) => Expired(b)'
    BY <1>1, <2>1, ExpiredStays
  <2> QED  BY <1>2, <2>1, <2>2, <2>3, CarryingForgetsNone
<1>6. CASE FinishRequest
  <2>1. Store /\ UNCHANGED <<outgoing, incoming, inbox>> /\ UNCHANGED <<link, expired>>
    BY <1>6 DEF FinishRequest, Store, wire, outcomes
  <2>2. Asked \subseteq Asked'
    BY <1>1, <2>1, TransportKeepsAsked
  <2>3. \A b : Expired(b) => Expired(b)'
    BY <1>1, <2>1, ExpiredStays
  <2> QED  BY <1>2, <2>1, <2>2, <2>3, CarryingForgetsNone
<1> QED  BY <1>3, <1>4, <1>5, <1>6

-----------------------------------------------------------------------------
\* The UI thread.

LEMMA AddTaskForgetsNone ==
  ASSUME DownloadInv, ScheduleInv, NEW t \in Tasks, AddTask(t)
  PROVE  ScheduleInv'
<1>1. /\ TransInv /\ t \in Requests /\ Send(t)
      /\ UNCHANGED <<blockState, queue, events, requests, scheduled>> /\ pending' = pending
  BY PlacesAre, DownloadAssumption DEF AddTask
<1>2. Asked \subseteq Asked'
  BY <1>1, TransportKeepsAsked
<1>3. storing = <<>> /\ envelopes' = envelopes /\ expired' = expired /\ link' = link
  BY <1>1 DEF Send, outcomes
<1>4. \A b : Expired(b) => Expired(b)'
  BY <1>1, <1>3, ExpiredStays
<1> QED  BY <1>1, <1>2, <1>3, <1>4, CarryingForgetsNone

LEMMA StartTaskForgetsNone ==
  ASSUME DownloadInv, ScheduleInv, NEW t \in Tasks, StartTask(t)
  PROVE  ScheduleInv'
<1>1. /\ TransInv /\ events \in Seq(EventOf) /\ Enqueue(t) \in EventOf
      /\ events' = Append(events, Enqueue(t))
      /\ UNCHANGED <<blockState, queue, requests, scheduled, pending, outgoing, incoming, inbox,
                     link, envelopes, storing, expired>>
  BY PlacesAre DEF StartTask, Enqueue, EventOf, transVars
<1>2. Held(events)' = Held(events) \cup {Enqueue(t)}
  BY <1>1, AppendHolds
<1>3. Asked' = Asked
  BY <1>1, SameTravels DEF Asked
<1>4. \A b : Expired(b) => Expired(b)'
  BY <1>1, ExpiredStays
<1>5. \A b : Moves(b) => Moves(b)'
  BY <1>1, <1>2, <1>3 DEF Moves, Responses, Held
<1> QED  BY <1>1, <1>4, <1>5, NoneLost

LEMMA ForwardRequestForgetsNone ==
  ASSUME DownloadInv, ScheduleInv, ForwardRequest
  PROVE  ScheduleInv'
<1>1. /\ TransInv /\ requests \in Seq(Blocks) /\ requests # <<>> /\ requests' = Tail(requests)
      /\ UNCHANGED <<blockState, queue, events, scheduled, pending>>
  BY PlacesAre DEF ForwardRequest
<1>2. Held(requests) = {Head(requests)} \cup Held(Tail(requests)) /\ Head(requests) \in Blocks
  BY <1>1, HeadAndTail
<1>3. PICK r \in Blocks : r = Head(requests) /\ Send(r) /\ r \in Requests
  BY <1>2, DownloadAssumption DEF ForwardRequest
<1>4. PICK x : Travelling' = Travelling \cup {x} /\ x.request = r
  BY <1>1, <1>3, SendCarries
<1>5. Asked' = Asked \cup {r}
  BY <1>4 DEF Asked
<1>6. storing = <<>> /\ envelopes' = envelopes /\ expired' = expired /\ link' = link
  BY <1>3 DEF Send, outcomes
<1>7. \A b : Expired(b) => Expired(b)'
  BY <1>1, <1>6, ExpiredStays
<1>8. Held(requests) = {r} \cup Held(requests)' /\ Held(queue)' = Held(queue) /\ Held(events)' = Held(events)
  BY <1>1, <1>2, <1>3 DEF Held
<1>9. \A b : Moves(b) => Moves(b)'
  BY <1>5, <1>8 DEF Moves, Responses
<1> QED  BY <1>1, <1>6, <1>7, <1>9, NoneLost

\* The row that is inserted has not been queued: only rows are.
LEMMA InsertBlockForgetsNone ==
  ASSUME DownloadInv, ScheduleInv, InsertBlock
  PROVE  ScheduleInv'
<1>1. /\ TransInv /\ inserting \in Seq(Blocks) /\ inserting # <<>>
      /\ blockState \in [Blocks -> {"none", "Waiting", "Completed", "Failed"}]
      /\ UNCHANGED <<queue, events, requests, scheduled, pending, outgoing, incoming, inbox,
                     link, envelopes, storing, expired>>
  BY PlacesAre DEF InsertBlock, transVars
<1>2. Head(inserting) \in Held(inserting) /\ Head(inserting) \in Blocks
  BY <1>1, TailHolds
<1>3. Head(inserting) \notin scheduled
  BY <1>2 DEF DownloadInv, Turns, RowsToCome, ScheduleInv
<1>4. \A b \in scheduled : b \in Blocks
  BY DEF ScheduleInv
<1>5. \A b \in scheduled : blockState'[b] = blockState[b]
  <2>1. CASE UNCHANGED blockState
    BY <2>1
  <2>2. CASE blockState' = [blockState EXCEPT ![Head(inserting)] = "Waiting"]
    BY <1>1, <1>3, <1>4, <2>2
  <2> QED  BY <2>1, <2>2 DEF InsertBlock
<1>6. Asked' = Asked
  BY <1>1, SameTravels DEF Asked
<1>7. \A b : Expired(b) => Expired(b)'
  BY <1>1, ExpiredStays
<1>8. \A b : Moves(b) => Moves(b)'
  BY <1>1, <1>6 DEF Moves, Responses, Held
<1> QED  BY <1>1, <1>5, <1>7, <1>8, NoneLost

\* The answer to a block is handed to the scheduler, unless its request has timed out:
\* no answer finds its envelope missing.
LEMMA OnAnswerForgetsNone ==
  ASSUME DownloadInv, ScheduleInv, OnAnswer
  PROVE  ScheduleInv'
<1> DEFINE a == Head(inbox)
<1>1. /\ TransInv /\ inbox \in Seq(Answer) /\ inbox # <<>> /\ inbox' = Tail(inbox)
      /\ events \in Seq(EventOf)
      /\ UNCHANGED <<blockState, queue, requests, scheduled, pending, outgoing, incoming,
                     link, envelopes, storing, expired>>
      /\ storing = <<>>
  BY PlacesAre DEF OnAnswer, Dispatch, wire
<1>2. Held(inbox) = {a} \cup Held(inbox)' /\ a \in Answer /\ a \in Held(inbox)
  <2>1. Held(inbox)' = Held(Tail(inbox))
    BY <1>1 DEF Held
  <2> QED  BY <1>1, <2>1, HeadAndTail, TailHolds
<1>3. Held(outgoing)' = Held(outgoing) /\ Held(incoming)' = Held(incoming)
  BY <1>1 DEF Held
<1>4. Travelling = {a} \cup Travelling' /\ a \in Travelling
  BY <1>2, <1>3 DEF Travelling
<1>5. Asked \subseteq {a.request} \cup Asked'
  BY <1>4 DEF Asked
<1>6. \A b : Expired(b) => Expired(b)'
  BY <1>1, ExpiredStays
<1>0. PICK r \in Requests : r = a.request
  BY <1>2 DEF Answer
<1>7. Held(events) \subseteq Held(events)' /\ (r \in Blocks => r \in Responses' \/ Expired(r)')
  <2>1. CASE ~Handled(a)
    <3>1. events' = events
      <4>1. ~(Handled(a) /\ a.request \in Tasks) /\ ~(Handled(a) /\ a.request \in Blocks)
        BY <2>1
      <4> QED  BY <4>1 DEF OnAnswer
    <3>2. 1..Len(storing) = {}
      BY <1>1
    <3>3. Held(storing) = {}
      BY <3>2 DEF Held
    <3>4. a.id \in DOMAIN envelopes /\ envelopes[a.id] = a.request /\ a.id \in expired
      BY <1>1, <1>4, <2>1, <3>3 DEF TransInv, Accounted, Handled
    <3>5. Expired(r)
      BY <1>0, <3>4 DEF Expired
    <3>6. Held(events)' = Held(events)
      BY <3>1 DEF Held
    <3> QED  BY <1>6, <3>5, <3>6
  <2>2. CASE Handled(a) /\ a.request \in Tasks /\ UNCHANGED events
    <3>1. r \notin Blocks
      BY <1>0, <2>2, DownloadAssumption
    <3>2. Held(events)' = Held(events)
      BY <2>2 DEF Held
    <3> QED  BY <3>1, <3>2
  <2>3. CASE Handled(a) /\ a.request \in Blocks /\ events' = Append(events, Response(a.request, a.answer))
    <3>1. PICK e \in EventOf : e = Response(a.request, a.answer) /\ e.block = a.request /\ e.kind = "response"
      BY <1>2, <2>3, DownloadAssumption DEF Response, Answer, EventOf
    <3>2. events' = Append(events, e)
      BY <2>3, <3>1
    <3>3. Held(events)' = Held(events) \cup {e}
      BY <1>1, <3>2, AppendHolds
    <3> QED  BY <1>0, <3>1, <3>3 DEF Responses
  <2> QED  BY <2>1, <2>2, <2>3 DEF OnAnswer
<1>8. ASSUME NEW b \in scheduled, Moves(b) PROVE Moves(b)' \/ Expired(b)'
  <2>1. b \in Blocks
    BY DEF ScheduleInv
  <2>2. Held(queue)' = Held(queue) /\ Held(requests)' = Held(requests) /\ Responses \subseteq Responses'
    BY <1>1, <1>7 DEF Held, Responses
  <2>3. CASE b = r
    BY <1>7, <2>1, <2>3 DEF Moves
  <2>4. CASE b # r
    BY <1>0, <1>5, <1>7, <1>8, <2>2, <2>4 DEF Moves
  <2> QED  BY <2>3, <2>4
<1> QED  BY <1>1, <1>6, <1>8, NoneLost

-----------------------------------------------------------------------------
\* The scheduler's thread.

\* Some order of the rows of a task has every one of them.
LEMMA OrderHasAll ==
  ASSUME NEW t \in Tasks, NEW order \in SetToSeqs({b \in ToSet(BlocksOf[t]) : Inserted(b)})
  PROVE  \A b \in ToSet(BlocksOf[t]) : Inserted(b) => b \in Held(order)
<1> DEFINE rows == {b \in ToSet(BlocksOf[t]) : Inserted(b)}
<1>2. IsFiniteSet(rows)
  BY BlocksAreFinite, FS_Subset
<1>3. /\ order \in [1..Cardinality(rows) -> rows]
      /\ \A m, n \in 1..Cardinality(rows) : m # n => order[m] # order[n]
  BY DEF SetToSeqs
<1> HIDE DEF rows
<1>4. Cardinality(rows) \in Nat
  BY <1>2, FS_CardinalityType
<1>5. order \in Injection(1..Cardinality(rows), rows)
  BY <1>3 DEF Injection, IsInjective
<1>6. Cardinality(1..Cardinality(rows)) = Cardinality(rows)
  BY <1>4, FS_Interval
<1>7. order \in Surjection(1..Cardinality(rows), rows)
  BY <1>2, <1>5, <1>6, FS_Injection
<1>8. Len(order) = Cardinality(rows)
  <2>1. order \in Seq(rows)
    BY <1>3, <1>4
  <2> QED  BY <1>3, <1>4, <2>1
<1>9. \A b \in rows : b \in Held(order)
  BY <1>7, <1>8 DEF Surjection, Held
<1> QED  BY <1>9 DEF rows

\* The first signal is taken, the others stay.
LEMMA OneSignalTaken ==
  ASSUME DownloadInv, events # <<>>, events' = Tail(events), NEW b \in Blocks, Moves(b),
         Held(queue) \subseteq Held(queue)', Held(requests) \subseteq Held(requests)', Asked \subseteq Asked',
         Head(events) # Enqueue(TaskOf(b)),
         Head(events).kind = "response" => Head(events).block # b
  PROVE  Moves(b)'
<1>1. events \in Seq(EventOf)
  BY PlacesAre
<1>2. Held(events)' = Held(Tail(events))
  BY DEF Held
<1>3. Held(events) = {Head(events)} \cup Held(events)'
  BY <1>1, <1>2, HeadAndTail
<1>4. b \in Responses => b \in Responses'
  BY <1>3 DEF Responses
<1>5. Enqueue(TaskOf(b)) \in Held(events) => Enqueue(TaskOf(b)) \in Held(events)'
  BY <1>3
<1>6. Moves(b)' <=> \/ b \in Held(queue)' \cup Held(requests)' \cup Asked' \cup Responses'
                    \/ Enqueue(TaskOf(b)) \in Held(events)'
  BY DEF Moves
<1>7. Moves(b) => Moves(b)'
  BY <1>4, <1>5, <1>6 DEF Moves
<1> QED  BY <1>7

LEMMA EnqueueForgetsNone ==
  ASSUME DownloadInv, ScheduleInv, OnTaskEnqueue, UNCHANGED <<transVars, uiVars>>
  PROVE  ScheduleInv'
<1>1. /\ events # <<>> /\ events' = Tail(events) /\ Head(events).kind = "enqueue"
      /\ UNCHANGED <<blockState, requests>>
      /\ UNCHANGED <<outgoing, incoming, inbox>> /\ UNCHANGED <<link, envelopes, storing, expired>>
      /\ queue \in Seq(Blocks) /\ TransInv /\ events \in Seq(EventOf)
  BY PlacesAre DEF OnTaskEnqueue, transVars
<1>2. PICK t \in Tasks : t = Head(events).task /\ Head(events) = Enqueue(t)
  BY <1>1, EventTaken DEF EventOf, Enqueue
<1> DEFINE rows == {b \in ToSet(BlocksOf[t]) : Inserted(b)}
<1>3. PICK order \in SetToSeqs(rows) : queue' = queue \o order /\ scheduled' = scheduled \cup rows
  BY <1>2 DEF OnTaskEnqueue
<1>4. \A u \in DOMAIN pending' : u \in DOMAIN pending \/ u = t
  BY <1>2 DEF OnTaskEnqueue
<1>5. /\ order \in Seq(Blocks) /\ \A b \in rows : b \in Held(order)
      /\ \A b \in rows : b \in Blocks
  BY OrderHolds, OrderHasAll, BlocksAndTasks
<1>6. Held(queue)' = Held(queue \o order)
  BY <1>3 DEF Held
<1>7. Held(queue) \subseteq Held(queue)' /\ Held(order) \subseteq Held(queue)'
  BY <1>1, <1>5, <1>6, ConcatKeeps
<1>8. Asked' = Asked /\ Held(requests)' = Held(requests)
  BY <1>1, SameTravels DEF Asked, Held
<1>9. \A b : Expired(b) => Expired(b)'
  BY <1>1, ExpiredStays
<1>10. ASSUME NEW b \in scheduled' PROVE b \in Blocks /\ Inserted(b)' /\ Remembered(b)'
  <2>1. b \in Blocks /\ Inserted(b)
    BY <1>3, <1>5 DEF ScheduleInv
  <2>2. Inserted(b)'
    BY <1>1, <2>1 DEF Inserted
  <2>3. CASE TaskOf(b) = t
    <3>1. b \in rows
      BY <2>1, <2>3, BlocksAndTasks
    <3>2. Moves(b)'
      BY <1>5, <1>7, <3>1 DEF Moves
    <3> QED  BY <2>1, <2>2, <3>2 DEF Remembered
  <2>4. CASE TaskOf(b) # t
    <3>1. b \in scheduled
      BY <1>3, <2>4, BlocksAndTasks
    <3>2. Moves(b) => Moves(b)'
      <4>1. Head(events) # Enqueue(TaskOf(b))
        BY <1>2, <2>4 DEF Enqueue
      <4> QED  BY <1>1, <1>7, <1>8, <2>1, <4>1, OneSignalTaken
    <3>3. TaskOf(b) \in DOMAIN pending' => TaskOf(b) \in DOMAIN pending
      BY <1>4, <2>4
    <3> QED  BY <1>1, <1>9, <2>1, <2>2, <3>1, <3>2, <3>3 DEF ScheduleInv, Remembered
  <2> QED  BY <2>3, <2>4
<1> QED  BY <1>10 DEF ScheduleInv

LEMMA BlockRequestForgetsNone ==
  ASSUME DownloadInv, ScheduleInv, OnBlockRequest, UNCHANGED <<transVars, uiVars>>
  PROVE  ScheduleInv'
<1>1. /\ queue # <<>> /\ queue \in Seq(Blocks) /\ requests \in Seq(Blocks)
      /\ UNCHANGED <<blockState, pending, events, scheduled>>
      /\ UNCHANGED <<outgoing, incoming, inbox>> /\ UNCHANGED <<link, envelopes, storing, expired>>
      /\ TransInv
  BY PlacesAre DEF OnBlockRequest, transVars
<1>2. PICK h \in Blocks : h = Head(queue)
  BY <1>1, TailHolds
<1>3. Tail(queue) \in Seq(Blocks) /\ Held(queue) = {h} \cup Held(Tail(queue))
  BY <1>1, <1>2, HeadAndTail, TailHolds
<1>4. /\ Held(Append(Tail(queue), h)) = Held(Tail(queue)) \cup {h}
      /\ Held(Append(requests, h)) = Held(requests) \cup {h}
  <2>1. \A s \in Seq(Blocks) : Held(Append(s, h)) = Held(s) \cup {h}
    BY AppendHolds
  <2> QED  BY <1>1, <1>3, <2>1
<1>5. Asked' = Asked /\ Responses' = Responses /\ Held(events)' = Held(events)
  BY <1>1, SameTravels DEF Asked, Responses, Held
<1>6. \A b : Expired(b) => Expired(b)'
  BY <1>1, ExpiredStays
<1>7. /\ Held(requests) \subseteq Held(requests)' /\ Held(Tail(queue)) \subseteq Held(queue)'
      /\ TaskOf(h) \in DOMAIN pending => h \in Held(queue)' \cup Held(requests)'
  <2>1. CASE queue' = Tail(queue) /\ requests' = requests /\ TaskOf(h) \notin DOMAIN pending
    BY <2>1 DEF Held
  <2>2. CASE queue' = Append(Tail(queue), h) /\ requests' = requests
    <3>1. Held(queue)' = Held(Tail(queue)) \cup {h} /\ Held(requests)' = Held(requests)
      BY <1>4, <2>2 DEF Held
    <3> QED  BY <3>1
  <2>3. CASE queue' = Tail(queue) /\ requests' = Append(requests, h)
    <3>1. Held(requests)' = Held(requests) \cup {h} /\ Held(queue)' = Held(Tail(queue))
      BY <1>4, <2>3 DEF Held
    <3> QED  BY <3>1
  <2> QED  BY <1>2, <2>1, <2>2, <2>3 DEF OnBlockRequest
<1>8. ASSUME NEW b, Moves(b), TaskOf(b) \in DOMAIN pending PROVE Moves(b)'
  <2>1. b \in Held(queue) => b \in Held(queue)' \cup Held(requests)'
    BY <1>3, <1>7, <1>8
  <2> QED  BY <1>5, <1>7, <1>8, <2>1 DEF Moves
<1> QED  BY <1>1, <1>6, <1>8, NoneLost

LEMMA BlockResponseForgetsNone ==
  ASSUME DownloadInv, ScheduleInv, NEW c \in Blocks, OnBlockResponse(c), UNCHANGED <<transVars, uiVars>>
  PROVE  ScheduleInv'
<1>1. /\ events # <<>> /\ events' = Tail(events)
      /\ Head(events).kind = "response" /\ Head(events).block = c
      /\ UNCHANGED <<queue, requests, pending, scheduled>>
      /\ UNCHANGED <<outgoing, incoming, inbox>> /\ UNCHANGED <<link, envelopes, storing, expired>>
      /\ TransInv /\ blockState \in [Blocks -> {"none", "Waiting", "Completed", "Failed"}]
  BY PlacesAre DEF OnBlockResponse, IgnoreResponse, BlockFails, BlockCompletes, Answered, transVars
<1>2. \/ blockState' = blockState /\ TaskOf(c) \notin DOMAIN pending
      \/ \E r \in {"Failed", "Completed"} : blockState' = [blockState EXCEPT ![c] = r]
  BY DEF OnBlockResponse, IgnoreResponse, BlockFails, BlockCompletes
<1>3. /\ TaskOf(c) \in DOMAIN pending => blockState'[c] \in {"Failed", "Completed"}
      /\ \A b \in Blocks : b # c => blockState'[b] = blockState[b]
      /\ blockState[c] # "none" => blockState'[c] # "none"
  BY <1>1, <1>2
<1>4. Asked' = Asked /\ Held(queue)' = Held(queue) /\ Held(requests)' = Held(requests)
  BY <1>1, SameTravels DEF Asked, Held
<1>5. \A b : Expired(b) => Expired(b)'
  BY <1>1, ExpiredStays
<1>6. ASSUME NEW b \in Blocks, b # c, Moves(b) PROVE Moves(b)'
  <2>1. Head(events) # Enqueue(TaskOf(b))
    BY <1>1 DEF Enqueue
  <2> QED  BY <1>1, <1>4, <1>6, <2>1, OneSignalTaken
<1>7. ASSUME NEW b \in scheduled
      PROVE  /\ blockState[b] # "none" => blockState'[b] # "none"
             /\ blockState'[b] = "Waiting" /\ TaskOf(b) \in DOMAIN pending' /\ link' # "down" =>
                  /\ blockState[b] = "Waiting" /\ TaskOf(b) \in DOMAIN pending /\ link # "down"
                  /\ Moves(b) => Moves(b)' \/ Expired(b)'
                  /\ Expired(b) => Expired(b)'
  <2>1. b \in Blocks
    BY DEF ScheduleInv
  <2>2. CASE b = c
    BY <1>1, <1>3, <2>2
  <2>3. CASE b # c
    BY <1>1, <1>3, <1>5, <1>6, <2>1, <2>3
  <2> QED  BY <2>2, <2>3
<1> QED  BY <1>1, <1>7, NoneLost

LEMMA ScheduleStep ==
  ASSUME DownloadInv, ScheduleInv, [Next]_vars
  PROVE  ScheduleInv'
<1>1. CASE \E t \in Tasks : AddTask(t) \/ StartTask(t)
  BY <1>1, AddTaskForgetsNone, StartTaskForgetsNone
<1>2. CASE UiStep
  BY <1>2, ForwardRequestForgetsNone, OnAnswerForgetsNone, InsertBlockForgetsNone, ConnectionForgetsNone
     DEF UiStep
<1>3. CASE SchedulerStep
  BY <1>3, EnqueueForgetsNone, BlockRequestForgetsNone, BlockResponseForgetsNone DEF SchedulerStep, Scheduler
<1>4. CASE \/ NetworkStep \/ LinkFails \/ (\E id \in Ids : TimerStep(id)) \/ ServerFileChanges
           \/ (\E t \in Tasks : Control(t)) \/ UNCHANGED vars
  BY <1>4, ConnectionForgetsNone
<1> QED  BY <1>1, <1>2, <1>3, <1>4 DEF Next

\* block_schedule_controller.cpp and view_event_controller.cpp: a block that was queued
\* and that its task still waits for is in some queue between the threads, or under way
\* to the server or back, whatever is started again, paused, resumed and cancelled, as
\* long as the connection holds and its request has not timed out.
THEOREM NoneForgotten == Spec => []NothingForgotten
<1>1. DownloadInv /\ ScheduleInv => NothingForgotten
  BY MovesIsOnItsWay DEF ScheduleInv, Remembered, NothingForgotten
<1>2. Init => ScheduleInv
  BY ScheduleInit
<1>3. DownloadInv /\ ScheduleInv /\ [Next]_vars => ScheduleInv'
  BY ScheduleStep
<1> QED  BY <1>1, <1>2, <1>3, DownloadInvAlways, PTL DEF Spec
=============================================================================
