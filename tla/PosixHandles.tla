------------------------------ MODULE PosixHandles ------------------------------
(***************************************************************************)
(* The owners of the operating system's descriptors: UniqueHandle, which   *)
(* closes what it holds, under PosixSocketHandle, PosixEpollHandle and     *)
(* PosixEventHandle; and simple_server's main(), which passes bare numbers *)
(* to its threads.  A call that fails, or is made on an empty handle,      *)
(* changes nothing here; one that a signal interrupts (EINTR) is made      *)
(* again within the same step.                                             *)
(***************************************************************************)
EXTENDS Integers

CONSTANTS
  Handles,       \* the UniqueHandle objects
  Descriptors    \* the numbers the kernel hands out

ASSUME HandlesAssumption == Descriptors \subseteq Nat

Invalid      == -1
SocketStates == {"closed", "new", "bound", "listening", "connecting", "connected", "other"}
Keepers      == {"nobody", "caller", "main", "thread"}
MainSteps    == {"socket", "bind", "listen", "accepting", "returned"}

VARIABLES
  kernel,      \* what each descriptor stands for; "other": an epoll or an eventfd
  m_handle,    \* what each UniqueHandle holds
  bare,        \* who keeps each descriptor as a number of its own
  mainAt       \* where simple_server's main() is

handleVars == <<kernel, m_handle, bare, mainAt>>

HandlesInit ==
  /\ kernel = [fd \in Descriptors |-> "closed"]
  /\ m_handle = [h \in Handles |-> Invalid]
  /\ bare = [fd \in Descriptors |-> "nobody"]
  /\ mainAt = "socket"

-----------------------------------------------------------------------------
(* UniqueHandle.                                                           *)

Free == {fd \in Descriptors : kernel[fd] = "closed"}

\* close: a negative handle is left alone.
Close(fd, k) == [d \in Descriptors |-> IF d = fd THEN "closed" ELSE k[d]]

\* m_handle = ::socket(...), ::epoll_create1(...), ::eventfd(...): what the temporary
\* handle took is moved in and the old descriptor closed, also when the call failed.
TakesNew(h, kind) ==
  /\ \/ \E fd \in Free :
          /\ kernel' = Close(m_handle[h], [kernel EXCEPT ![fd] = kind])
          /\ m_handle' = [m_handle EXCEPT ![h] = fd]
     \/ /\ kernel' = Close(m_handle[h], kernel)
        /\ m_handle' = [m_handle EXCEPT ![h] = Invalid]
  /\ UNCHANGED <<bare, mainAt>>

MoveConstruct(h, from) ==
  /\ m_handle[h] = Invalid /\ h # from
  /\ m_handle' = [m_handle EXCEPT ![from] = Invalid, ![h] = m_handle[from]]
  /\ UNCHANGED <<kernel, bare, mainAt>>

\* A slip: the old descriptor is closed before the other handle lets go of its own.
MoveAssign_ClosesFirst(h, from) ==
  /\ kernel' = Close(m_handle[h], kernel)
  /\ m_handle' = [m_handle EXCEPT ![from] = Invalid, ![h] = m_handle[from]]
  /\ UNCHANGED <<bare, mainAt>>

\* operator=: the other lets go before the old descriptor is closed, so a handle that is
\* assigned to itself keeps what it has.
MoveAssign(h, from) ==
  LET emptied == [m_handle EXCEPT ![from] = Invalid]
  IN  /\ kernel' = Close(emptied[h], kernel)
      /\ m_handle' = [emptied EXCEPT ![h] = m_handle[from]]
      /\ UNCHANGED <<bare, mainAt>>

Destruct(h) ==
  /\ kernel' = Close(m_handle[h], kernel)
  /\ m_handle' = [m_handle EXCEPT ![h] = Invalid]
  /\ UNCHANGED <<bare, mainAt>>

Release(h) ==
  /\ m_handle[h] # Invalid
  /\ bare' = [bare EXCEPT ![m_handle[h]] = "caller"]
  /\ m_handle' = [m_handle EXCEPT ![h] = Invalid]
  /\ UNCHANGED <<kernel, mainAt>>

\* reset, and UniqueHandle(T) on a new object: a number the caller owned changes hands.
Reset(h, fd) ==
  /\ bare[fd] = "caller"
  /\ kernel' = Close(m_handle[h], kernel)
  /\ m_handle' = [m_handle EXCEPT ![h] = fd]
  /\ bare' = [bare EXCEPT ![fd] = "nobody"]
  /\ UNCHANGED mainAt

-----------------------------------------------------------------------------
(* PosixSocketHandle.                                                      *)

\* A call through handle h, which holds a socket in one of `from', leaves it in `to'.
Turns(h, from, to) ==
  /\ m_handle[h] # Invalid /\ kernel[m_handle[h]] \in from
  /\ kernel' = [kernel EXCEPT ![m_handle[h]] = to]
  /\ UNCHANGED <<m_handle, bare, mainAt>>

Bind(h)    == Turns(h, {"new"}, "bound")
Listen(h)  == Turns(h, {"new", "bound", "listening"}, "listening")
Connect(h) == \E to \in {"connected", "connecting"} : Turns(h, {"new", "bound"}, to)

\* accept: the caller's variable is constructed from the result.
AcceptInto(h, into) ==
  /\ m_handle[into] = Invalid
  /\ m_handle[h] # Invalid /\ kernel[m_handle[h]] = "listening"
  /\ \E fd \in Free :
       /\ kernel' = [kernel EXCEPT ![fd] = "connected"]
       /\ m_handle' = [m_handle EXCEPT ![into] = fd]
  /\ UNCHANGED <<bare, mainAt>>

\* The peer's answer to a connection that is being made.
PeerAnswers(fd) ==
  /\ kernel[fd] = "connecting"
  /\ \E state \in {"connected", "new"} : kernel' = [kernel EXCEPT ![fd] = state]
  /\ UNCHANGED <<m_handle, bare, mainAt>>

-----------------------------------------------------------------------------
(* simple_server: main() and the threads it detaches.                      *)

MainSocket ==
  /\ mainAt = "socket"
  /\ \/ \E fd \in Free :
          /\ kernel' = [kernel EXCEPT ![fd] = "new"]
          /\ bare' = [bare EXCEPT ![fd] = "main"]
          /\ mainAt' = "bind"
     \/ mainAt' = "returned" /\ UNCHANGED <<kernel, bare>>
  /\ UNCHANGED m_handle

\* ::bind, then ::listen; after a failure the socket is closed and main() returns.
MainGoesOn(at, next, state) ==
  /\ mainAt = at
  /\ \E fd \in Descriptors :
       /\ bare[fd] = "main"
       /\ \/ /\ kernel' = [kernel EXCEPT ![fd] = state]
             /\ mainAt' = next
             /\ UNCHANGED bare
          \/ /\ kernel' = Close(fd, kernel)
             /\ bare' = [bare EXCEPT ![fd] = "nobody"]
             /\ mainAt' = "returned"
  /\ UNCHANGED m_handle

\* Each connection's number is given to a detached thread.
MainAccepts ==
  /\ mainAt = "accepting"
  /\ \E fd \in Free :
       /\ kernel' = [kernel EXCEPT ![fd] = "connected"]
       /\ bare' = [bare EXCEPT ![fd] = "thread"]
  /\ UNCHANGED <<m_handle, mainAt>>

\* handle_client ends.
ThreadCloses(fd) ==
  /\ bare[fd] = "thread"
  /\ kernel' = Close(fd, kernel)
  /\ bare' = [bare EXCEPT ![fd] = "nobody"]
  /\ UNCHANGED <<m_handle, mainAt>>

-----------------------------------------------------------------------------
HandlesNext ==
  \/ \E h \in Handles :
       \/ \E kind \in {"new", "other"} : TakesNew(h, kind)
       \/ \E g \in Handles : MoveConstruct(h, g) \/ MoveAssign(h, g) \/ AcceptInto(h, g)
       \/ Destruct(h) \/ Release(h)
       \/ \E fd \in Descriptors : Reset(h, fd)
       \/ Bind(h) \/ Listen(h) \/ Connect(h)
  \/ \E fd \in Descriptors : PeerAnswers(fd) \/ ThreadCloses(fd)
  \/ MainSocket
  \/ MainGoesOn("bind", "listen", "bound") \/ MainGoesOn("listen", "accepting", "listening")
  \/ MainAccepts

HandlesSpec == HandlesInit /\ [][HandlesNext]_handleVars

-----------------------------------------------------------------------------
HandlesTypeOK ==
  /\ kernel \in [Descriptors -> SocketStates]
  /\ m_handle \in [Handles -> Descriptors \cup {Invalid}]
  /\ bare \in [Descriptors -> Keepers]
  /\ mainAt \in MainSteps

\* Every open descriptor has exactly one owner, a handle or the code that keeps it as a
\* number, whatever is moved, reset or released in whatever order, and no owner is left
\* with one that was closed and may stand for something else by now; and main() does not
\* return with its socket open (unique_handle.hpp: exclusive ownership).
OwnedOnce ==
  /\ \A fd \in Descriptors :
       kernel[fd] # "closed" <=> bare[fd] # "nobody" \/ \E h \in Handles : m_handle[h] = fd
  /\ \A h \in Handles : m_handle[h] # Invalid =>
       /\ bare[m_handle[h]] = "nobody"
       /\ \A g \in Handles : m_handle[g] = m_handle[h] => g = h
  /\ mainAt = "returned" => \A fd \in Descriptors : bare[fd] # "main"
=============================================================================
