----------------------------- MODULE BoundedFifo -----------------------------
(***************************************************************************)
(* What MpmcBoundedQueue promises to its callers, without threads, mutex   *)
(* or condition variables: a first-in first-out channel with a capacity.   *)
(* Items enter only while the channel is open and only into free room, and *)
(* leave from the front, each to one client.  The one exception the code   *)
(* makes is Forfeit: on a closed channel, a client that asked for more     *)
(* items than it can get gives up those it has already taken.              *)
(***************************************************************************)
EXTENDS Naturals, Sequences

CONSTANTS Values, Clients, Capacities

VARIABLES items, open, capacity, received

chan == <<items, open, capacity, received>>

Init ==
  /\ items = <<>>
  /\ open = TRUE
  /\ capacity \in Capacities
  /\ received = [c \in Clients |-> <<>>]

\* A batch enters as a whole: no other item comes between its items.
Put ==
  /\ open
  /\ items' \in Seq(Values) /\ Len(items') <= capacity
  /\ Len(items') > Len(items) /\ items = SubSeq(items', 1, Len(items))
  /\ UNCHANGED <<open, capacity, received>>

Take(c) ==
  /\ \E n \in 1..Len(items) :
       /\ received' = [received EXCEPT ![c] = @ \o SubSeq(items, 1, n)]
       /\ items' = SubSeq(items, n + 1, Len(items))
  /\ UNCHANGED <<open, capacity>>

\* The client may take the rest of the channel along and lose that as well.
Forfeit(c) ==
  /\ ~open
  /\ \E n \in 0..Len(received[c]) :
       received' = [received EXCEPT ![c] = SubSeq(@, 1, n)]
  /\ items' \in {items, <<>>}
  /\ UNCHANGED <<open, capacity>>

Resize ==
  /\ capacity' \in Capacities
  /\ UNCHANGED <<items, open, received>>

Close ==
  /\ open' = FALSE
  /\ UNCHANGED <<items, capacity, received>>

Next ==
  \/ Put
  \/ \E c \in Clients : Take(c) \/ Forfeit(c)
  \/ Resize
  \/ Close

Spec == Init /\ [][Next]_chan
=============================================================================
