------------------------ MODULE ServerPipeline_proofs ------------------------
(***************************************************************************)
(* The server, for any clients, descriptors, numbers of requests and room  *)
(* in the queue: the types, and the three things it must keep right while  *)
(* connections come and go on the same descriptors.  No connection is      *)
(* closed that its client still uses, the reactor never sleeps on an       *)
(* answer, and every client is sent the answers to its own requests, in    *)
(* the order it asked.                                                     *)
(***************************************************************************)
EXTENDS ServerPipeline, FiniteSetTheorems, SequenceTheorems, WellFoundedInduction, TLAPS

\* A set of natural numbers that is not empty has a least element.
LEMMA LeastElement ==
  ASSUME NEW T \in SUBSET Nat, T # {}
  PROVE  \E m \in T : \A k \in T : m <= k
<1> DEFINE R == OpToRel(<,Nat)
<1>1. \A x, y \in Nat : <<x, y>> \in R <=> x < y
  BY DEF OpToRel
<1>2. IsWellFoundedOn(R, Nat)
  BY NatLessThanWellFounded
<1> HIDE DEF R
<1>3. PICK m \in T : \A y \in T : ~ (<<y, m>> \in R)
  BY <1>2, WFMin
<1>4. \A y \in T : ~(y < m)
  BY <1>1, <1>3
<1>5. \A y \in T : m <= y
  BY <1>4
<1> QED  BY <1>5

\* Maps without a key and with one.
LEMMA WithoutKey ==
  ASSUME NEW f, NEW x
  PROVE  /\ DOMAIN Without(f, x) = DOMAIN f \ {x}
         /\ \A y \in DOMAIN f \ {x} : Without(f, x)[y] = f[y]
BY DEF Without

LEMMA WithKey ==
  ASSUME NEW f, NEW x, NEW v
  PROVE  /\ DOMAIN With(f, x, v) = DOMAIN f \cup {x} /\ With(f, x, v)[x] = v
         /\ \A y \in DOMAIN f \ {x} : With(f, x, v)[y] = f[y]
BY DEF With

-----------------------------------------------------------------------------
(* The connections.                                                        *)

\* Whether a client waits for accept, and whether it has been accepted.
Waits(c) == \E i \in 1..Len(backlog) : backlog[i] = c
Connected(c) == \E fd \in DOMAIN contexts : contexts[fd].client = c

\* A client has one connection: it waits for accept, is connected, or neither.
OneConnectionEach ==
  /\ IsFiniteSet(DOMAIN contexts)
  /\ \A i, j \in 1..Len(backlog) : backlog[i] = backlog[j] => i = j
  /\ \A fd, gd \in DOMAIN contexts : contexts[fd].client = contexts[gd].client => fd = gd
  /\ \A c \in Clients : /\ Waits(c) => ~Connected(c)
                        /\ peer[c] = "away" => ~Waits(c) /\ ~Connected(c)
                        /\ peer[c] = "open" => Waits(c) \/ Connected(c)

\* Connections are named by numbers that have been given out, each once.
IdsAreNew ==
  /\ \A fd \in DOMAIN contexts : contexts[fd].id < nextId
  /\ \A fd, gd \in DOMAIN contexts : contexts[fd].id = contexts[gd].id => fd = gd

\* The business thread holds a frame while it handles it.
JobInHand == job # <<>> <=> business = "handling"

\* What every step keeps of the connections.
ConnInv == TypeOK /\ OneConnectionEach /\ IdsAreNew /\ JobInHand

\* There is a descriptor for a client that waits: every client may have one.
LEMMA FreeFdIsFree ==
  ASSUME ConnInv, backlog # <<>>
  PROVE  FreeFd \in Fds \ DOMAIN contexts
<1> DEFINE Free == Fds \ DOMAIN contexts
<1>1. Free # {}
  <2> SUFFICES ASSUME Fds \subseteq DOMAIN contexts PROVE FALSE
    OBVIOUS
  <2>1. /\ DOMAIN contexts = Fds /\ IsFiniteSet(Fds)
        /\ \A fd \in Fds : contexts[fd].client \in Clients
    <3>1. DOMAIN contexts = Fds
      BY DEF ConnInv, TypeOK
    <3>2. \A fd \in Fds : contexts[fd].client \in Clients
      BY <3>1 DEF ConnInv, TypeOK, Context
    <3> QED  BY <3>1, <3>2 DEF ConnInv, OneConnectionEach
  <2>2. PICK f \in [Clients -> Fds] : IsInjective(f)
    BY PipelineAssumption
  <2> DEFINE g == [fd \in Fds |-> f[contexts[fd].client]]
  <2>3. g \in [Fds -> Fds]
    BY <2>1, <2>2
  <2>4. \A fd, gd \in Fds : g[fd] = g[gd] => fd = gd
    <3> SUFFICES ASSUME NEW fd \in Fds, NEW gd \in Fds, g[fd] = g[gd] PROVE fd = gd
      OBVIOUS
    <3>1. contexts[fd].client = contexts[gd].client
      BY <2>1, <2>2 DEF IsInjective
    <3> QED  BY <2>1, <3>1 DEF ConnInv, OneConnectionEach
  <2>5. Head(backlog) \in Clients /\ Waits(Head(backlog))
    <3>1. backlog \in Seq(Clients) /\ Len(backlog) \in Nat /\ Len(backlog) > 0
      BY EmptySeq DEF ConnInv, TypeOK
    <3> QED  BY <3>1, HeadTailProperties DEF Waits
  <2>6. \A fd \in Fds : contexts[fd].client # Head(backlog)
    BY <2>1, <2>5 DEF ConnInv, OneConnectionEach, Connected
  <2>7. f[Head(backlog)] \in Fds /\ \A fd \in Fds : g[fd] # f[Head(backlog)]
    BY <2>1, <2>2, <2>5, <2>6 DEF IsInjective
  <2> HIDE DEF g
  <2>8. g \in Injection(Fds, Fds)
    BY <2>3, <2>4 DEF Injection, IsInjective
  <2>9. g \in Surjection(Fds, Fds)
    BY <2>1, <2>8, FS_Injection
  <2> QED  BY <2>7, <2>9 DEF Surjection
<1>2. Free \in SUBSET Nat
  BY PipelineAssumption
<1>3. \E fd \in Free : \A gd \in Free : fd <= gd
  BY <1>1, <1>2, LeastElement
<1> QED  BY <1>3 DEF FreeFd

\* What removing a connection changes.
LEMMA RemoveEffect ==
  ASSUME ConnInv, NEW fd \in DOMAIN contexts, RemoveConnect(fd)
  PROVE  /\ DOMAIN contexts' = DOMAIN contexts \ {fd}
         /\ \A gd \in DOMAIN contexts' : contexts'[gd] = contexts[gd]
         /\ DOMAIN toClient' = DOMAIN toClient \ {contexts[fd].id}
         /\ \A id \in DOMAIN toClient' : toClient'[id] = toClient[id]
         /\ peer' \in [Clients -> {"away", "open", "closed", "refused", "lost"}]
         /\ contexts[fd].client \in Clients
         /\ \A c \in Clients : peer'[c] = IF c = contexts[fd].client /\ peer[c] = "open"
                                          THEN "lost" ELSE peer[c]
<1>1. /\ contexts' = Without(contexts, fd) /\ toClient' = Without(toClient, contexts[fd].id)
      /\ peer' = [peer EXCEPT ![contexts[fd].client] = IF @ = "open" THEN "lost" ELSE @]
  BY DEF RemoveConnect
<1>2. contexts[fd].client \in Clients /\ peer \in [Clients -> {"away", "open", "closed", "refused", "lost"}]
  BY DEF ConnInv, TypeOK, Context
<1>3. \A c \in Clients : peer'[c] = IF c = contexts[fd].client /\ peer[c] = "open"
                                    THEN "lost" ELSE peer[c]
  BY <1>1, <1>2
<1>4. peer' \in [Clients -> {"away", "open", "closed", "refused", "lost"}]
  BY <1>1, <1>2
<1>5. /\ DOMAIN contexts' = DOMAIN contexts \ {fd}
      /\ \A gd \in DOMAIN contexts' : contexts'[gd] = contexts[gd]
  BY <1>1, WithoutKey
<1>6. /\ DOMAIN toClient' = DOMAIN toClient \ {contexts[fd].id}
      /\ \A id \in DOMAIN toClient' : toClient'[id] = toClient[id]
  BY <1>1, WithoutKey
<1> QED  BY <1>2, <1>3, <1>4, <1>5, <1>6

\* The connections are well-typed, and each has its queue in the mailbox.
ConnTyped ==
  /\ peer \in [Clients -> {"away", "open", "closed", "refused", "lost"}]
  /\ DOMAIN contexts \subseteq Fds /\ \A fd \in DOMAIN contexts : contexts[fd] \in Context
  /\ DOMAIN toClient = {contexts[fd].id : fd \in DOMAIN contexts}
  /\ \A id \in DOMAIN toClient : toClient[id] \in Seq(Request)

\* Removing a connection leaves every other where it was.
LEMMA RemoveKeepsConn ==
  ASSUME ConnInv, NEW fd, RemoveConnect(fd), UNCHANGED <<backlog, nextId>>
  PROVE  OneConnectionEach' /\ IdsAreNew' /\ ConnTyped'
<1>1. CASE fd \notin DOMAIN contexts
  <2>1. UNCHANGED <<peer, contexts, toClient>>
    BY <1>1 DEF RemoveConnect
  <2>2. OneConnectionEach'
    BY <2>1 DEF ConnInv, OneConnectionEach, Waits, Connected
  <2>3. IdsAreNew'
    BY <2>1 DEF ConnInv, IdsAreNew
  <2> QED  BY <2>1, <2>2, <2>3 DEF ConnInv, TypeOK, ConnTyped
<1>2. CASE fd \in DOMAIN contexts
  <2>1. /\ DOMAIN contexts' = DOMAIN contexts \ {fd}
        /\ \A gd \in DOMAIN contexts' : contexts'[gd] = contexts[gd]
        /\ DOMAIN toClient' = DOMAIN toClient \ {contexts[fd].id}
        /\ \A id \in DOMAIN toClient' : toClient'[id] = toClient[id]
        /\ peer' \in [Clients -> {"away", "open", "closed", "refused", "lost"}]
        /\ contexts[fd].client \in Clients
        /\ \A c \in Clients : peer'[c] = IF c = contexts[fd].client /\ peer[c] = "open"
                                         THEN "lost" ELSE peer[c]
    BY <1>2, RemoveEffect
  <2>2. DOMAIN toClient' = {contexts'[gd].id : gd \in DOMAIN contexts'}
    <3>1. /\ DOMAIN toClient = {contexts[gd].id : gd \in DOMAIN contexts}
          /\ \A gd \in DOMAIN contexts : contexts[gd].id = contexts[fd].id => gd = fd
      BY <1>2 DEF ConnInv, TypeOK, IdsAreNew
    <3>2. ASSUME NEW id \in DOMAIN toClient' PROVE \E gd \in DOMAIN contexts' : id = contexts'[gd].id
      <4>1. PICK gd \in DOMAIN contexts : id = contexts[gd].id
        BY <2>1, <3>1, <3>2
      <4>2. gd # fd
        BY <2>1, <3>2, <4>1
      <4> QED  BY <2>1, <4>1, <4>2
    <3>3. ASSUME NEW gd \in DOMAIN contexts' PROVE contexts'[gd].id \in DOMAIN toClient'
      <4>1. gd \in DOMAIN contexts /\ gd # fd /\ contexts'[gd] = contexts[gd]
        BY <2>1, <3>3
      <4> QED  BY <2>1, <3>1, <4>1
    <3> QED  BY <3>2, <3>3
  <2>3. IsFiniteSet(DOMAIN contexts')
    BY <2>1, FS_RemoveElement DEF ConnInv, OneConnectionEach
  <2>4. \A c : Waits(c)' <=> Waits(c)
    BY DEF Waits
  <2>5. \A c : /\ Connected(c)' => Connected(c)
               /\ Connected(c) /\ c # contexts[fd].client => Connected(c)'
    BY <2>1 DEF Connected
  <2>6. OneConnectionEach'
    BY <2>1, <2>3, <2>4, <2>5 DEF ConnInv, OneConnectionEach
  <2>7. IdsAreNew'
    BY <2>1 DEF ConnInv, IdsAreNew
  <2>8. ConnTyped'
    BY <2>1, <2>2 DEF ConnInv, TypeOK, ConnTyped
  <2> QED  BY <2>6, <2>7, <2>8
<1> QED  BY <1>1, <1>2

\* What accepting a connection changes.
LEMMA AcceptEffect ==
  ASSUME ConnInv, Accept
  PROVE  /\ backlog # <<>> /\ Head(backlog) \in Clients /\ Waits(Head(backlog))
         /\ backlog' \in Seq(Clients) /\ Len(backlog') = Len(backlog) - 1
         /\ \A i \in 1..Len(backlog') : i + 1 \in 1..Len(backlog) /\ backlog'[i] = backlog[i + 1]
         /\ \A c : Waits(c)' <=> Waits(c) /\ c # Head(backlog)
         /\ \/ \E fd \in Fds \ DOMAIN contexts :
                 /\ DOMAIN contexts' = DOMAIN contexts \cup {fd}
                 /\ \A gd \in DOMAIN contexts : contexts'[gd] = contexts[gd]
                 /\ contexts'[fd] = [id |-> nextId, client |-> Head(backlog), out |-> <<>>,
                                    pollOut |-> FALSE]
                 /\ DOMAIN toClient' = DOMAIN toClient \cup {nextId}
                 /\ \A id \in DOMAIN toClient : id # nextId /\ toClient'[id] = toClient[id]
                 /\ toClient'[nextId] = <<>> /\ nextId' = nextId + 1
                 /\ peer' = peer /\ reactor' = "accepting"
            \/ /\ UNCHANGED <<contexts, toClient, nextId>> /\ reactor' = "events"
               /\ peer' \in [Clients -> {"away", "open", "closed", "refused", "lost"}]
               /\ \A c \in Clients : peer'[c] = IF c = Head(backlog) /\ peer[c] = "open"
                                                THEN "refused" ELSE peer[c]
<1>1. backlog # <<>> /\ backlog \in Seq(Clients) /\ backlog' = Tail(backlog) /\ reactor = "accepting"
  BY DEF Accept, ConnInv, TypeOK
<1>2. /\ Len(backlog) \in Nat /\ Len(backlog) > 0 /\ Head(backlog) = backlog[1]
      /\ Head(backlog) \in Clients /\ Tail(backlog) \in Seq(Clients)
      /\ Len(Tail(backlog)) = Len(backlog) - 1
      /\ \A i \in 1..Len(Tail(backlog)) : Tail(backlog)[i] = backlog[i + 1]
  BY <1>1, HeadTailProperties, EmptySeq
<1>3. \A i \in 1..Len(backlog') : i + 1 \in 1..Len(backlog) /\ i + 1 # 1 /\ backlog'[i] = backlog[i + 1]
  BY <1>1, <1>2
<1>4. 1 \in 1..Len(backlog) /\ Waits(Head(backlog))
  BY <1>2 DEF Waits
<1>5. ASSUME NEW c PROVE Waits(c)' <=> Waits(c) /\ c # Head(backlog)
  <2>1. ASSUME Waits(c)' PROVE Waits(c) /\ c # Head(backlog)
    <3>1. PICK i \in 1..Len(backlog') : backlog'[i] = c
      BY <2>1 DEF Waits
    <3>2. PICK j \in 1..Len(backlog) : j # 1 /\ backlog[j] = c
      BY <1>3, <3>1
    <3>3. c # Head(backlog)
      BY <1>2, <1>4, <3>2 DEF ConnInv, OneConnectionEach
    <3> QED  BY <3>2, <3>3 DEF Waits
  <2>2. ASSUME Waits(c), c # Head(backlog) PROVE Waits(c)'
    <3>1. PICK i \in 1..Len(backlog) : backlog[i] = c
      BY <2>2 DEF Waits
    <3>2. i - 1 \in 1..Len(backlog') /\ (i - 1) + 1 = i
      BY <1>1, <1>2, <2>2, <3>1
    <3>3. backlog'[i - 1] = c
      BY <1>3, <3>1, <3>2
    <3> QED  BY <3>2, <3>3 DEF Waits
  <2> QED  BY <2>1, <2>2
<1>6. nextId \notin DOMAIN toClient /\ nextId \in Nat
  BY DEF ConnInv, TypeOK, IdsAreNew, Context
<1>7. CASE /\ contexts' = With(contexts, FreeFd,
             [id |-> nextId, client |-> Head(backlog), out |-> <<>>, pollOut |-> FALSE])
           /\ toClient' = With(toClient, nextId, <<>>)
           /\ nextId' = nextId + 1
           /\ UNCHANGED <<peer, reactor>>
  <2> DEFINE fd == FreeFd
             new == [id |-> nextId, client |-> Head(backlog), out |-> <<>>, pollOut |-> FALSE]
  <2>1. fd \in Fds \ DOMAIN contexts
    BY <1>1, FreeFdIsFree
  <2>2. contexts' = With(contexts, fd, new)
    BY <1>7
  <2>h. new = [id |-> nextId, client |-> Head(backlog), out |-> <<>>, pollOut |-> FALSE]
    OBVIOUS
  <2> HIDE DEF fd, new
  <2>3. /\ DOMAIN contexts' = DOMAIN contexts \cup {fd} /\ contexts'[fd] = new
        /\ \A gd \in DOMAIN contexts \ {fd} : contexts'[gd] = contexts[gd]
    BY <2>2 DEF With
  <2>4. /\ DOMAIN toClient' = DOMAIN toClient \cup {nextId} /\ toClient'[nextId] = <<>>
        /\ \A id \in DOMAIN toClient \ {nextId} : toClient'[id] = toClient[id]
    BY <1>7 DEF With
  <2>5. \A gd \in DOMAIN contexts : gd # fd
    BY <2>1
  <2>6. /\ DOMAIN contexts' = DOMAIN contexts \cup {fd}
        /\ \A gd \in DOMAIN contexts : contexts'[gd] = contexts[gd]
        /\ contexts'[fd] = [id |-> nextId, client |-> Head(backlog), out |-> <<>>, pollOut |-> FALSE]
    BY <2>3, <2>5, <2>h
  <2>7. /\ DOMAIN toClient' = DOMAIN toClient \cup {nextId}
        /\ \A id \in DOMAIN toClient : id # nextId /\ toClient'[id] = toClient[id]
        /\ toClient'[nextId] = <<>> /\ nextId' = nextId + 1
        /\ peer' = peer /\ reactor' = "accepting"
    BY <1>1, <1>6, <1>7, <2>4
  <2>8. /\ backlog' \in Seq(Clients) /\ Len(backlog') = Len(backlog) - 1
        /\ \A i \in 1..Len(backlog') : i + 1 \in 1..Len(backlog) /\ backlog'[i] = backlog[i + 1]
    BY <1>1, <1>2, <1>3
  <2> QED  BY <1>1, <1>2, <1>4, <1>5, <2>1, <2>6, <2>7, <2>8
<1>8. CASE reactor' = "events" /\ Refuse(Head(backlog)) /\ UNCHANGED <<contexts, toClient, nextId>>
  <2>1. /\ peer' \in [Clients -> {"away", "open", "closed", "refused", "lost"}]
        /\ \A c \in Clients : peer'[c] = IF c = Head(backlog) /\ peer[c] = "open"
                                          THEN "refused" ELSE peer[c]
    BY <1>2, <1>8 DEF Refuse, ConnInv, TypeOK
  <2>2. /\ backlog' \in Seq(Clients) /\ Len(backlog') = Len(backlog) - 1
        /\ \A i \in 1..Len(backlog') : i + 1 \in 1..Len(backlog) /\ backlog'[i] = backlog[i + 1]
    BY <1>1, <1>2, <1>3
  <2> QED  BY <1>1, <1>2, <1>4, <1>5, <1>8, <2>1, <2>2
<1> QED  BY <1>7, <1>8 DEF Accept

\* A step that leaves the connections as they are.
LEMMA SameConnections ==
  ASSUME ConnInv, UNCHANGED <<peer, backlog, contexts, nextId>>
  PROVE  OneConnectionEach' /\ IdsAreNew'
<1>1. OneConnectionEach'
  BY DEF ConnInv, OneConnectionEach, Waits, Connected
<1>2. IdsAreNew'
  BY DEF ConnInv, IdsAreNew
<1> QED  BY <1>1, <1>2

\* At the start there are none.
LEMMA ConnInit == Init => ConnInv
<1> SUFFICES ASSUME Init PROVE ConnInv
  OBVIOUS
<1>1. DOMAIN contexts = {} /\ DOMAIN toClient = {} /\ Len(<<>>) = 0
  BY DEF Init
<1>2. TypeOK
  <2>1. reactor \in {"none", "new"}
    BY DEF Init, NetworkInit
  <2>2. /\ peer \in [Clients -> {"away", "open", "closed", "refused", "lost"}]
        /\ sent \in [Clients -> Nat] /\ full \in [Clients -> BOOLEAN]
    BY DEF Init
  <2>3. replies \in [Clients -> Seq(Request)] /\ toRead \in [Clients -> Seq(Request)]
    <3>1. <<>> \in Seq(Request)
      BY EmptySeq
    <3> QED  BY <3>1 DEF Init
  <2>4. backlog \in Seq(Clients) /\ frames \in Seq(Frame) /\ toServer \in Seq(Frame) /\ job \in Seq(Frame)
    BY EmptySeq DEF Init
  <2>5. Len(toServer) <= Capacity /\ Len(job) <= 1
    BY <1>1, PipelineAssumption DEF Init
  <2>6. toFlush \subseteq Fds /\ batch = {} /\ nextId \in Nat /\ business = "new" /\ main = "running"
    BY DEF Init
  <2>7. /\ eventfd \in BOOLEAN /\ iterating \in BOOLEAN /\ networkRuns \in BOOLEAN
        /\ businessRuns \in BOOLEAN /\ alive \in BOOLEAN /\ corrupted \in BOOLEAN
    BY DEF Init
  <2>8. DOMAIN contexts \subseteq Fds /\ DOMAIN toClient = {contexts[fd].id : fd \in DOMAIN contexts}
    BY <1>1
  <2> QED  BY <1>1, <2>1, <2>2, <2>3, <2>4, <2>5, <2>6, <2>7, <2>8 DEF TypeOK
<1>3. OneConnectionEach
  <2>1. IsFiniteSet(DOMAIN contexts)
    BY <1>1, FS_EmptySet
  <2>2. \A c \in Clients : peer[c] = "away" /\ ~Waits(c) /\ ~Connected(c)
    BY <1>1 DEF Init, Waits, Connected
  <2>3. 1..Len(backlog) = {}
    BY <1>1 DEF Init
  <2> QED  BY <1>1, <2>1, <2>2, <2>3 DEF OneConnectionEach
<1>4. IdsAreNew /\ JobInHand
  BY <1>1 DEF Init, IdsAreNew, JobInHand
<1> QED  BY <1>2, <1>3, <1>4 DEF ConnInv

\* Each step keeps them so: the clients' steps.
LEMMA ClientKeepsConn ==
  ASSUME ConnInv, NEW c \in Clients, Client(c)
  PROVE  ConnInv'
<1>1. /\ UNCHANGED <<reactorVars, businessVars, mailVars, flagVars, main, fateVars>>
      /\ ClientConnects(c) \/ ClientSends(c) \/ ClientReads(c) \/ ClientCloses(c)
  BY DEF Client
<1>2. /\ peer \in [Clients -> {"away", "open", "closed", "refused", "lost"}]
      /\ sent \in [Clients -> Nat] /\ full \in [Clients -> BOOLEAN]
      /\ toRead \in [Clients -> Seq(Request)] /\ backlog \in Seq(Clients)
  BY DEF ConnInv, TypeOK
<1>3. JobInHand'
  BY <1>1 DEF businessVars, ConnInv, JobInHand
<1>4. CASE ClientConnects(c)
  <2>1. /\ peer[c] = "away" /\ peer' = [peer EXCEPT ![c] = "open"] /\ backlog' = Append(backlog, c)
        /\ UNCHANGED <<sent, replies, toRead, full>>
    BY <1>4 DEF ClientConnects
  <2>2. /\ backlog' \in Seq(Clients) /\ Len(backlog) \in Nat /\ Len(backlog') = Len(backlog) + 1
        /\ backlog'[Len(backlog) + 1] = c
        /\ \A i \in 1..Len(backlog) : backlog'[i] = backlog[i]
    BY <1>2, <2>1, AppendProperties, LenProperties
  <2>3. \A i \in 1..Len(backlog') : i \in 1..Len(backlog) \/ i = Len(backlog) + 1
    BY <2>2
  <2>4. \A i \in 1..Len(backlog) : backlog[i] # c
    BY <2>1 DEF ConnInv, OneConnectionEach, Waits
  <2>5. \A i, j \in 1..Len(backlog') : backlog'[i] = backlog'[j] => i = j
    BY <2>2, <2>3, <2>4 DEF ConnInv, OneConnectionEach
  <2>6. \A d : Waits(d)' <=> Waits(d) \/ d = c
    <3>1. 1..Len(backlog) \subseteq 1..Len(backlog') /\ Len(backlog) + 1 \in 1..Len(backlog')
      BY <2>2
    <3> QED  BY <2>2, <2>3, <3>1 DEF Waits
  <2>7. contexts' = contexts /\ \A d : Connected(d)' <=> Connected(d)
    BY <1>1 DEF reactorVars, Connected
  <2>8. \A d \in Clients : peer'[d] = IF d = c THEN "open" ELSE peer[d]
    BY <1>2, <2>1
  <2>9. ~Connected(c)
    BY <2>1 DEF ConnInv, OneConnectionEach
  <2>10. OneConnectionEach'
    BY <2>5, <2>6, <2>7, <2>8, <2>9 DEF ConnInv, OneConnectionEach
  <2>11. IdsAreNew'
    BY <1>1 DEF reactorVars, ConnInv, IdsAreNew
  <2>12. TypeOK'
    BY <1>1, <1>2, <2>1, <2>2
       DEF reactorVars, businessVars, mailVars, flagVars, fateVars, ConnInv, TypeOK
  <2> QED  BY <1>3, <2>10, <2>11, <2>12 DEF ConnInv
<1>5. CASE ClientSends(c)
  <2>1. /\ sent' = [sent EXCEPT ![c] = @ + 1]
        /\ toRead' = [toRead EXCEPT ![c] = Append(@, <<c, sent[c] + 1>>)]
        /\ UNCHANGED <<peer, replies, full, backlog>>
    BY <1>5 DEF ClientSends
  <2>2. sent[c] \in Nat /\ <<c, sent[c] + 1>> \in Request /\ toRead[c] \in Seq(Request)
    BY <1>2 DEF Request
  <2>3. Append(toRead[c], <<c, sent[c] + 1>>) \in Seq(Request)
    BY <2>2, AppendProperties
  <2>4. sent' \in [Clients -> Nat] /\ toRead' \in [Clients -> Seq(Request)]
    BY <1>2, <2>1, <2>2, <2>3
  <2>5. TypeOK'
    BY <1>1, <2>1, <2>4
       DEF reactorVars, businessVars, mailVars, flagVars, fateVars, ConnInv, TypeOK
  <2> QED  BY <1>1, <1>3, <2>1, <2>5, SameConnections DEF reactorVars, ConnInv
<1>6. CASE ClientReads(c)
  <2>1. full' = [full EXCEPT ![c] = FALSE] /\ UNCHANGED <<peer, sent, replies, toRead, backlog>>
    BY <1>6 DEF ClientReads
  <2>2. full' \in [Clients -> BOOLEAN]
    BY <1>2, <2>1
  <2>3. TypeOK'
    BY <1>1, <2>1, <2>2
       DEF reactorVars, businessVars, mailVars, flagVars, fateVars, ConnInv, TypeOK
  <2> QED  BY <1>1, <1>3, <2>1, <2>3, SameConnections DEF reactorVars, ConnInv
<1>7. CASE ClientCloses(c)
  <2>1. /\ peer' = [peer EXCEPT ![c] = "closed"]
        /\ UNCHANGED <<sent, replies, toRead, full, backlog>>
    BY <1>7 DEF ClientCloses
  <2>2. \A d \in Clients : peer'[d] = IF d = c THEN "closed" ELSE peer[d]
    BY <1>2, <2>1
  <2>3. OneConnectionEach'
    BY <1>1, <2>1, <2>2 DEF reactorVars, ConnInv, OneConnectionEach, Waits, Connected
  <2>4. IdsAreNew'
    BY <1>1 DEF reactorVars, ConnInv, IdsAreNew
  <2>5. TypeOK'
    BY <1>1, <1>2, <2>1
       DEF reactorVars, businessVars, mailVars, flagVars, fateVars, ConnInv, TypeOK
  <2> QED  BY <1>3, <2>3, <2>4, <2>5 DEF ConnInv
<1> QED  BY <1>1, <1>4, <1>5, <1>6, <1>7

\* The main thread's steps.
LEMMA MainKeepsConn ==
  ASSUME ConnInv, Main
  PROVE  ConnInv'
<1>1. UNCHANGED <<clientVars, reactorVars, businessVars, mailVars, fateVars>>
  BY DEF Main
<1>2. /\ networkRuns' \in BOOLEAN /\ businessRuns' \in BOOLEAN
      /\ main' \in {"running", "stop_business", "join_business", "join_network", "stopped"}
  BY DEF Main, StopNetwork, StopBusiness, JoinBusiness, JoinNetwork, flagVars, ConnInv, TypeOK
<1>3. TypeOK'
  BY <1>1, <1>2
     DEF clientVars, reactorVars, businessVars, mailVars, fateVars, ConnInv, TypeOK
<1>4. JobInHand'
  BY <1>1 DEF businessVars, ConnInv, JobInHand
<1> QED  BY <1>1, <1>3, <1>4, SameConnections DEF clientVars, reactorVars, ConnInv

\* The business thread's steps.
LEMMA BusinessKeepsConn ==
  ASSUME ConnInv, Business
  PROVE  ConnInv'
<1>1. /\ UNCHANGED <<clientVars, reactorVars, main, fateVars>>
      /\ BusinessStarts \/ BusinessChecks \/ BusinessPops \/ BusinessHandles \/ BusinessNotifies
  BY DEF Business
<1>2. OneConnectionEach' /\ IdsAreNew'
  BY <1>1, SameConnections DEF clientVars, reactorVars
<1>3. CASE BusinessStarts \/ BusinessChecks \/ BusinessNotifies
  <2>1. /\ business' \in {"new", "loop", "popping", "handling", "notifying", "exited"}
        /\ business # "handling" /\ business' # "handling"
        /\ networkRuns' = networkRuns /\ businessRuns' \in BOOLEAN /\ eventfd' \in BOOLEAN
        /\ UNCHANGED <<job, toServer, toClient>>
    BY <1>3 DEF BusinessStarts, BusinessChecks, BusinessNotifies, WriteEventFd, mailVars, flagVars,
                ConnInv, TypeOK
  <2>2. TypeOK'
    BY <1>1, <2>1 DEF clientVars, reactorVars, fateVars, ConnInv, TypeOK
  <2>3. JobInHand'
    BY <2>1 DEF ConnInv, JobInHand
  <2> QED  BY <1>2, <2>2, <2>3 DEF ConnInv
<1>4. CASE BusinessPops
  <2>1. /\ toServer # <<>> /\ job' = <<Head(toServer)>> /\ toServer' = Tail(toServer)
        /\ business' = "handling" /\ UNCHANGED <<eventfd, toClient, networkRuns, businessRuns>>
    BY <1>4 DEF BusinessPops, flagVars
  <2>2. toServer \in Seq(Frame) /\ Len(toServer) <= Capacity /\ Capacity \in Nat
    BY PipelineAssumption DEF ConnInv, TypeOK
  <2>3. /\ Head(toServer) \in Frame /\ toServer' \in Seq(Frame) /\ Len(toServer') = Len(toServer) - 1
        /\ Len(toServer) \in Nat
    BY <2>1, <2>2, HeadTailProperties, LenProperties
  <2>4. job' \in Seq(Frame) /\ Len(job') = 1 /\ job' # <<>> /\ Len(toServer') <= Capacity
    BY <2>1, <2>2, <2>3
  <2>5. TypeOK'
    BY <1>1, <2>1, <2>3, <2>4 DEF clientVars, reactorVars, fateVars, ConnInv, TypeOK
  <2>6. JobInHand'
    BY <2>1, <2>4 DEF JobInHand
  <2> QED  BY <1>2, <2>5, <2>6 DEF ConnInv
<1>5. CASE BusinessHandles
  <2>1. /\ business = "handling" /\ business' \in {"loop", "notifying"} /\ job' = <<>>
        /\ UNCHANGED <<eventfd, toServer, networkRuns, businessRuns>>
        /\ \/ toClient' = toClient
           \/ /\ Head(job).id \in DOMAIN toClient
              /\ toClient' = [toClient EXCEPT ![Head(job).id] = Append(@, Head(job).request)]
    BY <1>5 DEF BusinessHandles, flagVars
  <2>2. job \in Seq(Frame) /\ job # <<>>
    BY <2>1 DEF ConnInv, TypeOK, JobInHand
  <2>3. Head(job) \in Frame
    BY <2>2, HeadTailProperties
  <2>4. Head(job).request \in Request
    BY <2>3 DEF Frame
  <2>5. DOMAIN toClient' = DOMAIN toClient /\ \A id \in DOMAIN toClient' : toClient'[id] \in Seq(Request)
    <3>1. CASE toClient' = toClient
      BY <3>1 DEF ConnInv, TypeOK
    <3>2. CASE /\ Head(job).id \in DOMAIN toClient
               /\ toClient' = [toClient EXCEPT ![Head(job).id] = Append(@, Head(job).request)]
      <4>1. toClient[Head(job).id] \in Seq(Request)
        BY <3>2 DEF ConnInv, TypeOK
      <4>2. Append(toClient[Head(job).id], Head(job).request) \in Seq(Request)
        BY <2>4, <4>1, AppendProperties
      <4> QED  BY <3>2, <4>2 DEF ConnInv, TypeOK
    <3> QED  BY <2>1, <3>1, <3>2
  <2>6. TypeOK'
    BY <1>1, <2>1, <2>5 DEF clientVars, reactorVars, fateVars, ConnInv, TypeOK
  <2>7. JobInHand'
    BY <2>1 DEF JobInHand
  <2> QED  BY <1>2, <2>6, <2>7 DEF ConnInv
<1> QED  BY <1>1, <1>3, <1>4, <1>5

-----------------------------------------------------------------------------
\* What is pending for a connection, and how much of it a write may take.
LEMMA PendingIsTyped ==
  ASSUME ConnInv, NEW fd \in DOMAIN contexts
  PROVE  /\ contexts[fd] \in Context /\ contexts[fd].id \in DOMAIN toClient
         /\ contexts[fd].client \in Clients
         /\ contexts[fd].out \in Seq(Request) /\ toClient[contexts[fd].id] \in Seq(Request)
         /\ Pending(fd) \in Seq(Request) /\ Len(Pending(fd)) \in Nat
         /\ MayTake(fd) \subseteq 0..Len(Pending(fd))
<1>1. contexts[fd] \in Context /\ contexts[fd].id \in DOMAIN toClient
  BY DEF ConnInv, TypeOK
<1>2. contexts[fd].out \in Seq(Request) /\ toClient[contexts[fd].id] \in Seq(Request)
  BY <1>1 DEF ConnInv, TypeOK, Context
<1>3. Pending(fd) \in Seq(Request)
  BY <1>2, ConcatProperties DEF Pending
<1>4. Len(Pending(fd)) \in Nat
  BY <1>3, LenProperties
<1>5. MayTake(fd) \subseteq 0..Len(Pending(fd))
  BY <1>4 DEF MayTake
<1> QED  BY <1>1, <1>2, <1>3, <1>4, <1>5 DEF Context

\* A sequence is its first n elements and the others.
LEMMA SplitsAt ==
  ASSUME NEW S, NEW s \in Seq(S), NEW n \in 0..Len(s)
  PROVE  /\ SubSeq(s, 1, n) \in Seq(S) /\ SubSeq(s, n + 1, Len(s)) \in Seq(S)
         /\ SubSeq(s, 1, n) \o SubSeq(s, n + 1, Len(s)) = s
<1>1. Len(s) \in Nat /\ \A i \in 1..Len(s) : s[i] \in S
  BY LenProperties, ElementOfSeq
<1>2. SubSeq(s, 1, n) \in Seq(S)
  BY <1>1, SubSeqProperties
<1>3. SubSeq(s, n + 1, Len(s)) \in Seq(S)
  BY <1>1, SubSeqProperties
<1>4. 1 \in 1..(Len(s) + 1) /\ n \in (1 - 1)..Len(s) /\ Len(s) \in n..Len(s)
  BY <1>1
<1>5. SubSeq(s, 1, n) \o SubSeq(s, n + 1, Len(s)) = SubSeq(s, 1, Len(s))
  BY <1>4, ConcatAdjacentSubSeq
<1> QED  BY <1>2, <1>3, <1>5, SubSeqFull

\* What a write changes.
LEMMA WritesEffect ==
  ASSUME ConnInv, NEW fd \in DOMAIN contexts, NEW n \in MayTake(fd), Writes(fd, n)
  PROVE  LET id    == contexts[fd].id
             c     == contexts[fd].client
             taken == SubSeq(Pending(fd), 1, n)
             rest  == SubSeq(Pending(fd), n + 1, Len(Pending(fd)))
         IN  /\ taken \in Seq(Request) /\ rest \in Seq(Request) /\ taken \o rest = Pending(fd)
             /\ DOMAIN contexts' = DOMAIN contexts
             /\ \A gd \in DOMAIN contexts : gd # fd => contexts'[gd] = contexts[gd]
             /\ contexts'[fd] = [id |-> id, client |-> c, out |-> rest, pollOut |-> rest # <<>>]
             /\ DOMAIN toClient' = DOMAIN toClient /\ toClient'[id] = <<>>
             /\ \A i \in DOMAIN toClient : i # id => toClient'[i] = toClient[i]
             /\ replies' \in [Clients -> Seq(Request)] /\ full' \in [Clients -> BOOLEAN]
             /\ \A d \in Clients : d # c \/ peer[d] # "open" =>
                  replies'[d] = replies[d] /\ full'[d] = full[d]
             /\ peer[c] = "open" => /\ replies'[c] = replies[c] \o taken
                                    /\ full'[c] = (rest # <<>>)
<1> DEFINE id    == contexts[fd].id
           c     == contexts[fd].client
           taken == SubSeq(Pending(fd), 1, n)
           rest  == SubSeq(Pending(fd), n + 1, Len(Pending(fd)))
<1>1. /\ contexts[fd] \in Context /\ id \in DOMAIN toClient /\ c \in Clients
      /\ Pending(fd) \in Seq(Request) /\ n \in 0..Len(Pending(fd))
  BY PendingIsTyped
<1>2. taken \in Seq(Request) /\ rest \in Seq(Request) /\ taken \o rest = Pending(fd)
  BY <1>1, SplitsAt
<1>3. /\ contexts' = [contexts EXCEPT ![fd].out = rest, ![fd].pollOut = rest # <<>>]
      /\ toClient' = [toClient EXCEPT ![id] = <<>>]
      /\ SocketWrites(c, taken, rest)
  BY DEF Writes
<1>4. /\ replies \in [Clients -> Seq(Request)] /\ full \in [Clients -> BOOLEAN]
      /\ replies[c] \in Seq(Request)
  BY <1>1 DEF ConnInv, TypeOK
<1> HIDE DEF taken, rest
<1>5. /\ DOMAIN contexts' = DOMAIN contexts
      /\ \A gd \in DOMAIN contexts : gd # fd => contexts'[gd] = contexts[gd]
  BY <1>3
<1>6. contexts'[fd] = [id |-> id, client |-> c, out |-> rest, pollOut |-> rest # <<>>]
  BY <1>1, <1>3 DEF Context
<1>7. /\ DOMAIN toClient' = DOMAIN toClient /\ toClient'[id] = <<>>
      /\ \A i \in DOMAIN toClient : i # id => toClient'[i] = toClient[i]
  BY <1>1, <1>3
<1> HIDE DEF c, id
<1>8. CASE peer[c] = "open"
  <2>1. /\ replies' = [replies EXCEPT ![c] = @ \o taken]
        /\ full' = [full EXCEPT ![c] = rest # <<>>]
    BY <1>3, <1>8 DEF SocketWrites
  <2>2. replies[c] \o taken \in Seq(Request)
    BY <1>2, <1>4, ConcatProperties
  <2>3. replies' \in [Clients -> Seq(Request)] /\ full' \in [Clients -> BOOLEAN]
    BY <1>4, <2>1, <2>2
  <2>4. /\ \A d \in Clients : d # c => replies'[d] = replies[d] /\ full'[d] = full[d]
        /\ replies'[c] = replies[c] \o taken /\ full'[c] = (rest # <<>>)
    BY <1>1, <1>4, <2>1
  <2> QED  BY <1>2, <1>5, <1>6, <1>7, <1>8, <2>3, <2>4 DEF c, id, taken, rest
<1>9. CASE peer[c] # "open"
  <2>1. replies' = replies /\ full' = full
    BY <1>3, <1>9 DEF SocketWrites
  <2> QED  BY <1>2, <1>4, <1>5, <1>6, <1>7, <1>9, <2>1 DEF c, id, taken, rest
<1> QED  BY <1>8, <1>9

-----------------------------------------------------------------------------
\* What epoll_wait reports.
LEMMA ReadyIsTyped ==
  ASSUME ConnInv, NEW e \in Ready
  PROVE  /\ \/ e.on \in Watched /\ e.kinds = {}
            \/ e.on = "socket" /\ e.fd \in Fds /\ e.kinds \subseteq {"hup", "in", "out"}
         /\ e.on = "socket" => e.fd \in DOMAIN contexts /\ e.kinds = SocketEvents(e.fd)
         /\ e.on = "socket" => \A f \in Ready : f.on = "socket" /\ f.fd = e.fd => f = e
<1>1. \A f \in Ready :
        \/ f.on \in Watched /\ f.fd = 0 /\ f.kinds = {}
        \/ f.fd \in DOMAIN contexts /\ f = [on |-> "socket", fd |-> f.fd, kinds |-> SocketEvents(f.fd)]
  BY DEF Ready, Event
<1>2. \A fd : SocketEvents(fd) \subseteq {"hup", "in", "out"}
  BY DEF SocketEvents
<1>3. DOMAIN contexts \subseteq Fds
  BY DEF ConnInv, TypeOK
<1>4. CASE e.on \in Watched /\ e.fd = 0 /\ e.kinds = {}
  BY <1>4 DEF Watched
<1>5. CASE e.fd \in DOMAIN contexts /\ e = [on |-> "socket", fd |-> e.fd, kinds |-> SocketEvents(e.fd)]
  <2>1. e.on = "socket" /\ e.kinds = SocketEvents(e.fd)
    BY <1>5
  <2>2. \A f \in Ready : f.on = "socket" /\ f.fd = e.fd => f = e
    BY <1>1, <1>5 DEF Watched
  <2> QED  BY <1>2, <1>3, <1>5, <2>1, <2>2
<1> QED  BY <1>1, <1>4, <1>5

\* The frames that are read from a connection.
LEMMA ReadAllEffect ==
  ASSUME ConnInv, NEW fd \in DOMAIN contexts, ReadAll(fd)
  PROVE  LET c == contexts[fd].client
         IN  /\ frames' \in Seq(Frame) /\ Len(frames') = Len(toRead[c])
             /\ \A i \in 1..Len(toRead[c]) :
                  frames'[i] = [id |-> contexts[fd].id, request |-> toRead[c][i]]
             /\ toRead' \in [Clients -> Seq(Request)] /\ toRead'[c] = <<>>
             /\ \A d \in Clients : d # c => toRead'[d] = toRead[d]
<1> DEFINE c == contexts[fd].client
           id == contexts[fd].id
           s == toRead[c]
<1>1. c \in Clients /\ id \in Nat /\ toRead \in [Clients -> Seq(Request)] /\ s \in Seq(Request)
  BY PendingIsTyped DEF ConnInv, TypeOK, Context
<1>2. /\ frames' = [i \in DOMAIN s |-> [id |-> id, request |-> s[i]]]
      /\ toRead' = [toRead EXCEPT ![c] = <<>>]
  BY DEF ReadAll
<1>3. Len(s) \in Nat /\ DOMAIN s = 1..Len(s) /\ \A i \in 1..Len(s) : s[i] \in Request
  BY <1>1, LenProperties, ElementOfSeq
<1>h. s = toRead[c]
  OBVIOUS
<1> HIDE DEF s, c, id
<1>4. frames' = [i \in 1..Len(s) |-> [id |-> id, request |-> s[i]]]
  BY <1>2, <1>3
<1>5. frames' \in [1..Len(s) -> Frame]
  BY <1>1, <1>3, <1>4 DEF Frame
<1>6. frames' \in Seq(Frame)
  BY <1>3, <1>5, SeqDef
<1>7. Len(frames') = Len(s)
  <2>1. DOMAIN frames' = 1..Len(frames') /\ Len(frames') \in Nat
    BY <1>6, LenProperties
  <2>2. DOMAIN frames' = 1..Len(s)
    BY <1>4
  <2>h. 1..Len(frames') = 1..Len(s)
    BY <2>1, <2>2
  <2> DEFINE m == Len(frames')
             n == Len(s)
  <2>3. m \in Nat /\ n \in Nat /\ 1..m = 1..n
    BY <1>3, <2>1, <2>h
  <2> HIDE DEF m, n
  <2>4. m = n
    <3>1. ASSUME m < n PROVE FALSE
      <4>1. n \in 1..n /\ n \notin 1..m
        BY <2>3, <3>1
      <4> QED  BY <2>3, <4>1
    <3>2. ASSUME n < m PROVE FALSE
      <4>1. m \in 1..m /\ m \notin 1..n
        BY <2>3, <3>2
      <4> QED  BY <2>3, <4>1
    <3> QED  BY <2>3, <3>1, <3>2
  <2> QED  BY <2>4 DEF m, n
<1>8. \A i \in 1..Len(s) : frames'[i] = [id |-> id, request |-> s[i]]
  BY <1>4
<1>9. /\ toRead' \in [Clients -> Seq(Request)] /\ toRead'[c] = <<>>
      /\ \A d \in Clients : d # c => toRead'[d] = toRead[d]
  BY <1>1, <1>2, EmptySeq
<1> QED  BY <1>6, <1>7, <1>8, <1>9, <1>h DEF c, id

\* The reactor: between events.
LEMMA LoopKeepsConn ==
  ASSUME ConnInv, UNCHANGED main,
         \/ ReactorStarts \/ ReactorChecks \/ EpollWait \/ BatchDone
         \/ (\E e \in batch : AcceptableEvent(e)) \/ AcceptFindsNobody
  PROVE  ConnInv'
<1>1. /\ UNCHANGED <<clientVars, frames, toFlush, iterating, contexts, nextId, businessVars, mailVars,
                     businessRuns, fateVars>>
      /\ reactor' \in {"none", "new", "loop", "waiting", "events", "accepting", "exited"}
      /\ networkRuns' \in BOOLEAN
      /\ batch' = Ready \/ batch' \subseteq batch
  BY DEF ReactorStarts, ReactorChecks, EpollWait, BatchDone, AcceptableEvent, AcceptFindsNobody,
         NextEvent, flagVars, ConnInv, TypeOK
<1>2. \A e \in batch' : \/ e.on \in Watched /\ e.kinds = {}
                        \/ e.on = "socket" /\ e.fd \in Fds /\ e.kinds \subseteq {"hup", "in", "out"}
  <2>1. CASE batch' = Ready
    BY <2>1, ReadyIsTyped
  <2>2. CASE batch' \subseteq batch
    BY <2>2 DEF ConnInv, TypeOK
  <2> QED  BY <1>1, <2>1, <2>2
<1>3. TypeOK'
  BY <1>1, <1>2 DEF clientVars, businessVars, mailVars, fateVars, ConnInv, TypeOK
<1>4. JobInHand'
  BY <1>1 DEF businessVars, ConnInv, JobInHand
<1> QED  BY <1>1, <1>3, <1>4, SameConnections DEF clientVars, ConnInv

\* The reactor: the next connection that waits.
LEMMA AcceptKeepsConn ==
  ASSUME ConnInv, UNCHANGED main, Accept
  PROVE  ConnInv'
<1>1. /\ UNCHANGED <<sent, replies, toRead, full, batch, frames, toFlush, iterating,
                     business, job, eventfd, toServer, networkRuns, businessRuns, alive, corrupted, main>>
  BY DEF Accept, businessVars, flagVars, fateVars
<1>2. JobInHand'
  BY <1>1 DEF ConnInv, JobInHand
<1> DEFINE c == Head(backlog)
<1>3. /\ c \in Clients /\ Waits(c) /\ backlog' \in Seq(Clients) /\ Len(backlog') = Len(backlog) - 1
      /\ Len(backlog) \in Nat
      /\ \A i \in 1..Len(backlog') : i + 1 \in 1..Len(backlog) /\ backlog'[i] = backlog[i + 1]
      /\ \A d : Waits(d)' <=> Waits(d) /\ d # c
  <2>1. Len(backlog) \in Nat
    BY LenProperties DEF ConnInv, TypeOK
  <2> QED  BY <2>1, AcceptEffect
<1>4. \A i, j \in 1..Len(backlog') : backlog'[i] = backlog'[j] => i = j
  <2> SUFFICES ASSUME NEW i \in 1..Len(backlog'), NEW j \in 1..Len(backlog'), backlog'[i] = backlog'[j]
               PROVE  i = j
    OBVIOUS
  <2>1. i + 1 = j + 1
    BY <1>3 DEF ConnInv, OneConnectionEach
  <2> QED  BY <1>3, <2>1
<1>5. ~Connected(c)
  BY <1>3 DEF ConnInv, OneConnectionEach
<1>6. CASE \E fd \in Fds \ DOMAIN contexts :
             /\ DOMAIN contexts' = DOMAIN contexts \cup {fd}
             /\ \A gd \in DOMAIN contexts : contexts'[gd] = contexts[gd]
             /\ contexts'[fd] = [id |-> nextId, client |-> c, out |-> <<>>, pollOut |-> FALSE]
             /\ DOMAIN toClient' = DOMAIN toClient \cup {nextId}
             /\ \A id \in DOMAIN toClient : id # nextId /\ toClient'[id] = toClient[id]
             /\ toClient'[nextId] = <<>> /\ nextId' = nextId + 1
             /\ peer' = peer /\ reactor' = "accepting"
  <2>1. PICK fd \in Fds \ DOMAIN contexts :
             /\ DOMAIN contexts' = DOMAIN contexts \cup {fd}
             /\ \A gd \in DOMAIN contexts : contexts'[gd] = contexts[gd]
             /\ contexts'[fd] = [id |-> nextId, client |-> c, out |-> <<>>, pollOut |-> FALSE]
             /\ DOMAIN toClient' = DOMAIN toClient \cup {nextId}
             /\ \A id \in DOMAIN toClient : id # nextId /\ toClient'[id] = toClient[id]
             /\ toClient'[nextId] = <<>> /\ nextId' = nextId + 1
             /\ peer' = peer /\ reactor' = "accepting"
    BY <1>6
  <2>2. /\ fd \in DOMAIN contexts' /\ contexts'[fd].client = c /\ contexts'[fd].id = nextId
        /\ nextId \in Nat /\ \A gd \in DOMAIN contexts : gd # fd
    BY <2>1 DEF ConnInv, TypeOK
  <2>3. \A d : Connected(d)' <=> Connected(d) \/ d = c
    BY <2>1, <2>2 DEF Connected
  <2>4. IsFiniteSet(DOMAIN contexts')
    BY <2>1, FS_AddElement DEF ConnInv, OneConnectionEach
  <2>5. \A gd, hd \in DOMAIN contexts' : contexts'[gd].client = contexts'[hd].client => gd = hd
    BY <1>5, <2>1, <2>2 DEF ConnInv, OneConnectionEach, Connected
  <2>6. \A d \in Clients : /\ Waits(d)' => ~Connected(d)'
                           /\ peer'[d] = "away" => ~Waits(d)' /\ ~Connected(d)'
                           /\ peer'[d] = "open" => Waits(d)' \/ Connected(d)'
    BY <1>3, <2>1, <2>3 DEF ConnInv, OneConnectionEach
  <2>7. OneConnectionEach'
    BY <1>4, <2>4, <2>5, <2>6 DEF OneConnectionEach
  <2>8. \A gd \in DOMAIN contexts : contexts[gd].id < nextId /\ contexts[gd].id \in Nat
    BY DEF ConnInv, IdsAreNew, TypeOK, Context
  <2>9. \A gd \in DOMAIN contexts' : contexts'[gd].id < nextId'
    BY <2>1, <2>2, <2>8
  <2>10. \A gd, hd \in DOMAIN contexts' : contexts'[gd].id = contexts'[hd].id => gd = hd
    <3>1. \A gd, hd \in DOMAIN contexts : contexts[gd].id = contexts[hd].id => gd = hd
      BY DEF ConnInv, IdsAreNew
    <3>2. \A gd \in DOMAIN contexts : contexts[gd].id # nextId
      BY <2>2, <2>8
    <3> QED  BY <2>1, <2>2, <3>1, <3>2
  <2>11. \A gd \in DOMAIN contexts' : contexts'[gd] \in Context
    <3>1. contexts'[fd] \in Context
      BY <1>3, <2>1, <2>2, EmptySeq DEF Context
    <3>2. \A gd \in DOMAIN contexts : contexts'[gd] \in Context
      BY <2>1 DEF ConnInv, TypeOK
    <3> QED  BY <2>1, <3>1, <3>2
  <2>12. DOMAIN toClient' = {contexts'[gd].id : gd \in DOMAIN contexts'}
    <3>1. DOMAIN toClient = {contexts[gd].id : gd \in DOMAIN contexts}
      BY DEF ConnInv, TypeOK
    <3>2. ASSUME NEW id \in DOMAIN toClient' PROVE \E gd \in DOMAIN contexts' : id = contexts'[gd].id
      BY <2>1, <2>2, <3>1, <3>2
    <3>3. ASSUME NEW gd \in DOMAIN contexts' PROVE contexts'[gd].id \in DOMAIN toClient'
      BY <2>1, <2>2, <3>1, <3>3
    <3> QED  BY <3>2, <3>3
  <2>13. \A id \in DOMAIN toClient' : toClient'[id] \in Seq(Request)
    <3>1. <<>> \in Seq(Request) /\ \A id \in DOMAIN toClient : toClient[id] \in Seq(Request)
      BY EmptySeq DEF ConnInv, TypeOK
    <3> QED  BY <2>1, <3>1
  <2>14. DOMAIN contexts' \subseteq Fds /\ nextId' \in Nat
    BY <2>1, <2>2 DEF ConnInv, TypeOK
  <2>15. TypeOK'
    BY <1>1, <1>3, <2>1, <2>11, <2>12, <2>13, <2>14 DEF ConnInv, TypeOK
  <2>16. IdsAreNew'
    BY <2>9, <2>10 DEF IdsAreNew
  <2> QED  BY <1>2, <2>7, <2>15, <2>16 DEF ConnInv
<1>7. CASE /\ UNCHANGED <<contexts, toClient, nextId>> /\ reactor' = "events"
           /\ peer' \in [Clients -> {"away", "open", "closed", "refused", "lost"}]
           /\ \A d \in Clients : peer'[d] = IF d = c /\ peer[d] = "open" THEN "refused" ELSE peer[d]
  <2>1. TypeOK'
    <3>1. TypeOK /\ backlog' \in Seq(Clients) /\ UNCHANGED <<contexts, toClient, nextId>>
      BY <1>3, <1>7 DEF ConnInv
    <3>2. peer' \in [Clients -> {"away", "open", "closed", "refused", "lost"}] /\ reactor' = "events"
      BY <1>7
    <3> QED  BY <1>1, <3>1, <3>2 DEF TypeOK
  <2>2. \A d : Connected(d)' <=> Connected(d)
    BY <1>7 DEF Connected
  <2>3. OneConnectionEach'
    BY <1>3, <1>4, <1>7, <2>2 DEF ConnInv, OneConnectionEach
  <2>4. IdsAreNew'
    BY <1>7 DEF ConnInv, IdsAreNew
  <2> QED  BY <1>2, <2>1, <2>3, <2>4 DEF ConnInv
<1> HIDE DEF c
<1> QED  BY <1>6, <1>7, AcceptEffect DEF c

\* The reactor: what it reads from a connection, or finds closed.
LEMMA EventKeepsConn ==
  ASSUME ConnInv, UNCHANGED main, NEW e \in batch, HangUpEvent(e) \/ SocketEvent(e) \/ NotifyEvent(e)
  PROVE  ConnInv'
<1>1. /\ e.on = "socket" => e.fd \in Fds
      /\ batch' = batch \ {e} /\ frames = <<>> /\ toFlush = {} /\ reactor = "events"
  BY DEF HangUpEvent, SocketEvent, NotifyEvent, NextEvent, ConnInv, TypeOK, Watched
<1>2. JobInHand'
  BY DEF HangUpEvent, SocketEvent, NotifyEvent, businessVars, ConnInv, JobInHand
<1>3. CASE HangUpEvent(e)
  <2>1. /\ RemoveConnect(e.fd)
        /\ UNCHANGED <<sent, replies, toRead, full, backlog, reactor, frames, toFlush, iterating,
                       nextId, business, job, eventfd, toServer, networkRuns, businessRuns, alive,
                       corrupted, main>>
    BY <1>3 DEF HangUpEvent, businessVars, flagVars, fateVars
  <2>2. OneConnectionEach' /\ IdsAreNew' /\ ConnTyped'
    BY <2>1, RemoveKeepsConn
  <2>3. TypeOK'
    BY <1>1, <2>1, <2>2 DEF ConnInv, TypeOK, ConnTyped
  <2> QED  BY <1>2, <2>2, <2>3 DEF ConnInv
<1>4. CASE NotifyEvent(e)
  <2>1. /\ eventfd' = FALSE /\ toFlush' = DOMAIN contexts /\ iterating' = TRUE
        /\ UNCHANGED <<clientVars, reactor, frames, contexts, nextId, businessVars,
                       toServer, toClient, flagVars, fateVars, main>>
    BY <1>4 DEF NotifyEvent, ReadEventFd
  <2>2. TypeOK'
    BY <1>1, <2>1 DEF clientVars, businessVars, flagVars, fateVars, ConnInv, TypeOK
  <2> QED  BY <1>2, <2>1, <2>2, SameConnections DEF clientVars, ConnInv
<1>5. CASE SocketEvent(e)
  <2>1. /\ e.on = "socket" /\ toFlush' \in {{}, {e.fd}} /\ iterating' = FALSE
        /\ toFlush' = {} \/ "out" \in e.kinds
        /\ UNCHANGED <<sent, replies, full, backlog, reactor, nextId, business, job,
                       eventfd, toServer, networkRuns, businessRuns, alive, corrupted, main>>
        /\ \/ e.fd \in DOMAIN contexts /\ ReadAll(e.fd) /\ UNCHANGED <<peer, contexts, toClient>>
           \/ RemoveConnect(e.fd) /\ UNCHANGED <<frames, toRead>>
           \/ UNCHANGED <<frames, toRead, peer, contexts, toClient>>
    BY <1>5 DEF SocketEvent, businessVars, flagVars, fateVars
  <2>f. toFlush' \subseteq Fds
    BY <1>1, <2>1
  <2>2. CASE e.fd \in DOMAIN contexts /\ ReadAll(e.fd) /\ UNCHANGED <<peer, contexts, toClient>>
    <3>1. frames' \in Seq(Frame) /\ toRead' \in [Clients -> Seq(Request)]
      BY <2>2, ReadAllEffect
    <3>2. TypeOK'
      BY <1>1, <2>1, <2>2, <2>f, <3>1 DEF ConnInv, TypeOK
    <3> QED  BY <1>2, <2>1, <2>2, <3>2, SameConnections DEF ConnInv
  <2>3. CASE RemoveConnect(e.fd) /\ UNCHANGED <<frames, toRead>>
    <3>1. OneConnectionEach' /\ IdsAreNew' /\ ConnTyped'
      BY <2>1, <2>3, RemoveKeepsConn
    <3>2. TypeOK'
      BY <1>1, <2>1, <2>3, <2>f, <3>1 DEF ConnInv, TypeOK, ConnTyped
    <3> QED  BY <1>2, <3>1, <3>2 DEF ConnInv
  <2>4. CASE UNCHANGED <<frames, toRead, peer, contexts, toClient>>
    <3>1. TypeOK'
      BY <1>1, <2>1, <2>4, <2>f DEF ConnInv, TypeOK
    <3> QED  BY <1>2, <2>1, <2>4, <3>1, SameConnections DEF ConnInv
  <2> QED  BY <2>1, <2>2, <2>3, <2>4
<1> QED  BY <1>3, <1>4, <1>5

\* The reactor: the frames it pushes to the business thread.
LEMMA PushKeepsConn ==
  ASSUME ConnInv, UNCHANGED main, PushToServer
  PROVE  ConnInv'
<1>1. /\ frames # <<>> /\ Len(toServer) < Capacity
      /\ toServer' = Append(toServer, Head(frames)) /\ frames' = Tail(frames)
      /\ UNCHANGED <<clientVars, reactor, batch, toFlush, iterating, contexts, nextId,
                     business, job, eventfd, toClient, flagVars, fateVars, main>>
  BY DEF PushToServer, businessVars
<1>2. frames \in Seq(Frame) /\ toServer \in Seq(Frame) /\ Capacity \in Nat
  BY PipelineAssumption DEF ConnInv, TypeOK
<1>3. Head(frames) \in Frame /\ frames' \in Seq(Frame)
  BY <1>1, <1>2, HeadTailProperties
<1>4. toServer' \in Seq(Frame) /\ Len(toServer') = Len(toServer) + 1 /\ Len(toServer) \in Nat
  BY <1>1, <1>2, <1>3, AppendProperties, LenProperties
<1>5. Len(toServer') <= Capacity
  BY <1>1, <1>2, <1>4
<1>6. TypeOK'
  BY <1>1, <1>3, <1>4, <1>5 DEF clientVars, flagVars, fateVars, ConnInv, TypeOK
<1>7. JobInHand'
  BY <1>1 DEF ConnInv, JobInHand
<1> QED  BY <1>1, <1>6, <1>7, SameConnections DEF clientVars, ConnInv

\* The reactor: the connections it flushes.
LEMMA FlushKeepsConn ==
  ASSUME ConnInv, UNCHANGED main, NEW fd \in toFlush,
         WritableEvent(fd) \/ WritableGone(fd) \/ WriteFails(fd)
  PROVE  ConnInv'
<1>1. CASE WritableGone(fd)
  <2>1. /\ toFlush' \subseteq toFlush
        /\ UNCHANGED <<clientVars, reactor, batch, frames, iterating, contexts, nextId, businessVars,
                       mailVars, flagVars, fateVars, main>>
    BY <1>1 DEF WritableGone, FlushDone
  <2>2. TypeOK'
    BY <2>1 DEF clientVars, businessVars, mailVars, flagVars, fateVars, ConnInv, TypeOK
  <2>3. JobInHand'
    BY <2>1 DEF businessVars, ConnInv, JobInHand
  <2> QED  BY <2>1, <2>2, <2>3, SameConnections DEF clientVars, ConnInv
<1>2. CASE WriteFails(fd)
  <2>1. /\ RemoveConnect(fd) /\ toFlush' \subseteq toFlush
        /\ alive' \in BOOLEAN /\ corrupted' \in BOOLEAN
        /\ UNCHANGED <<sent, replies, toRead, full, backlog, reactor, batch, frames, iterating,
                       nextId, business, job, eventfd, toServer, networkRuns, businessRuns, main>>
    BY <1>2 DEF WriteFails, businessVars, flagVars, ConnInv, TypeOK
  <2>2. OneConnectionEach' /\ IdsAreNew' /\ ConnTyped'
    BY <2>1, RemoveKeepsConn
  <2>3. TypeOK'
    BY <2>1, <2>2 DEF ConnInv, TypeOK, ConnTyped
  <2>4. JobInHand'
    BY <2>1 DEF ConnInv, JobInHand
  <2> QED  BY <2>2, <2>3, <2>4 DEF ConnInv
<1>3. CASE WritableEvent(fd)
  <2>1. /\ fd \in DOMAIN contexts /\ toFlush' \subseteq toFlush
        /\ UNCHANGED <<peer, sent, toRead, backlog, reactor, batch, frames, iterating, nextId,
                       business, job, eventfd, toServer, networkRuns, businessRuns, alive, corrupted, main>>
        /\ \E n \in MayTake(fd) : Writes(fd, n)
    BY <1>3 DEF WritableEvent, FlushDone, businessVars, flagVars, fateVars
  <2>2. PICK n \in MayTake(fd) : Writes(fd, n)
    BY <2>1
  <2> DEFINE id    == contexts[fd].id
             c     == contexts[fd].client
             rest  == SubSeq(Pending(fd), n + 1, Len(Pending(fd)))
  <2>3. /\ rest \in Seq(Request)
        /\ DOMAIN contexts' = DOMAIN contexts
        /\ \A gd \in DOMAIN contexts : gd # fd => contexts'[gd] = contexts[gd]
        /\ contexts'[fd] = [id |-> id, client |-> c, out |-> rest, pollOut |-> rest # <<>>]
        /\ DOMAIN toClient' = DOMAIN toClient /\ toClient'[id] = <<>>
        /\ \A i \in DOMAIN toClient : i # id => toClient'[i] = toClient[i]
        /\ replies' \in [Clients -> Seq(Request)] /\ full' \in [Clients -> BOOLEAN]
    BY <2>1, <2>2, WritesEffect
  <2>4. id \in Nat /\ c \in Clients
    BY <2>1 DEF ConnInv, TypeOK, Context
  <2> HIDE DEF rest
  <2>5. /\ contexts'[fd].id = contexts[fd].id /\ contexts'[fd].client = contexts[fd].client
        /\ contexts'[fd] \in Context
    BY <2>3, <2>4 DEF Context
  <2>6. \A gd \in DOMAIN contexts : /\ contexts'[gd].id = contexts[gd].id
                                    /\ contexts'[gd].client = contexts[gd].client
    BY <2>3, <2>5
  <2> HIDE DEF c
  <2>7. \A gd \in DOMAIN contexts' : contexts'[gd] \in Context
    BY <2>3, <2>5 DEF ConnInv, TypeOK
  <2>8. DOMAIN toClient' = {contexts'[gd].id : gd \in DOMAIN contexts'}
    <3>1. DOMAIN toClient = {contexts[gd].id : gd \in DOMAIN contexts}
      BY DEF ConnInv, TypeOK
    <3>2. {contexts'[gd].id : gd \in DOMAIN contexts'} = {contexts[gd].id : gd \in DOMAIN contexts}
      BY <2>3, <2>6
    <3>3. DOMAIN toClient' = DOMAIN toClient
      BY <2>3
    <3> QED  BY <3>1, <3>2, <3>3
  <2>9. \A i \in DOMAIN toClient' : toClient'[i] \in Seq(Request)
    <3>1. <<>> \in Seq(Request) /\ \A i \in DOMAIN toClient : toClient[i] \in Seq(Request)
      BY EmptySeq DEF ConnInv, TypeOK
    <3> HIDE DEF id
    <3> QED  BY <2>3, <3>1
  <2>10. TypeOK'
    <3>1. /\ DOMAIN contexts' \subseteq Fds /\ toFlush' \subseteq Fds
          /\ replies' \in [Clients -> Seq(Request)] /\ full' \in [Clients -> BOOLEAN]
      BY <2>1, <2>3 DEF ConnInv, TypeOK
    <3> HIDE DEF id
    <3> QED  BY <2>1, <2>7, <2>8, <2>9, <3>1 DEF ConnInv, TypeOK
  <2>11. OneConnectionEach'
    <3>1. \A d : (Waits(d)' <=> Waits(d)) /\ (Connected(d)' <=> Connected(d))
      BY <2>1, <2>3, <2>6 DEF Waits, Connected
    <3> QED  BY <2>1, <2>3, <2>6, <3>1 DEF ConnInv, OneConnectionEach
  <2>12. IdsAreNew'
    BY <2>1, <2>3, <2>6 DEF ConnInv, IdsAreNew
  <2>13. JobInHand'
    BY <2>1 DEF ConnInv, JobInHand
  <2> QED  BY <2>10, <2>11, <2>12, <2>13 DEF ConnInv
<1> QED  BY <1>1, <1>2, <1>3

\* Every step.
LEMMA ConnStep == ConnInv /\ [Next]_vars => ConnInv'
<1> SUFFICES ASSUME ConnInv, [Next]_vars PROVE ConnInv'
  OBVIOUS
<1>1. CASE Reactor
  BY <1>1, LoopKeepsConn, AcceptKeepsConn, EventKeepsConn, PushKeepsConn, FlushKeepsConn
     DEF Reactor, ReactorGoesOn
<1>2. CASE Business
  BY <1>2, BusinessKeepsConn
<1>3. CASE Main
  BY <1>3, MainKeepsConn
<1>4. CASE \E c \in Clients : Client(c)
  BY <1>4, ClientKeepsConn
<1>5. CASE UNCHANGED vars
  <2>1. UNCHANGED <<clientVars, reactorVars, businessVars, mailVars, flagVars, main, fateVars>>
    BY <1>5 DEF vars
  <2>2. TypeOK'
    BY <2>1 DEF clientVars, reactorVars, businessVars, mailVars, flagVars, fateVars, ConnInv, TypeOK
  <2>3. JobInHand'
    BY <2>1 DEF businessVars, ConnInv, JobInHand
  <2> QED  BY <2>1, <2>2, <2>3, SameConnections DEF clientVars, reactorVars, ConnInv
<1> QED  BY <1>1, <1>2, <1>3, <1>4, <1>5 DEF Next

\* Types, for any clients and any number of requests (TypeOK of the model).
THEOREM PipelineTypes == Spec => []TypeOK
<1>1. ConnInv => TypeOK
  BY DEF ConnInv
<1> QED  BY ConnInit, ConnStep, <1>1, PTL DEF Spec

-----------------------------------------------------------------------------
(* The events of a batch and the connections they are of.                   *)

\* The reactor has frames to push and connections to flush only while it handles an
\* event; outside notify_event's loop there is one connection to flush.
InItsPlace ==
  /\ frames # <<>> \/ toFlush # {} => reactor = "events"
  /\ ~iterating => \A fd, gd \in toFlush : fd = gd

\* The events still to be handled are of connections that are there, one each, a hang-up
\* of one that its client has closed, and none of the one that is being flushed.
BatchIsCurrent ==
  ~corrupted =>
    /\ \A e \in batch : e.on = "socket" =>
         /\ e.fd \in DOMAIN contexts
         /\ "hup" \in e.kinds => peer[contexts[e.fd].client] = "closed"
         /\ ~iterating => e.fd \notin toFlush
    /\ \A e, f \in batch : e.on = "socket" /\ f.on = "socket" /\ e.fd = f.fd => e = f

\* What every step keeps of the batch.
DropInv == InItsPlace /\ BatchIsCurrent /\ NoOpenConnectionDropped

\* At the start there is nothing to handle.
LEMMA DropInit == Init => DropInv
BY DEF Init, DropInv, InItsPlace, BatchIsCurrent, NoOpenConnectionDropped

\* A step that takes no connection away.
LEMMA NoneRemoved ==
  ASSUME ConnInv, DropInv, corrupted' = corrupted, batch' \subseteq batch,
         DOMAIN contexts \subseteq DOMAIN contexts',
         \A fd \in DOMAIN contexts : contexts'[fd].client = contexts[fd].client,
         toFlush' \subseteq toFlush, iterating' = iterating,
         \A c \in Clients : /\ peer[c] = "closed" => peer'[c] = "closed"
                            /\ peer'[c] = "lost" => peer[c] = "lost"
  PROVE  BatchIsCurrent' /\ NoOpenConnectionDropped'
<1>1. NoOpenConnectionDropped'
  BY DEF DropInv, NoOpenConnectionDropped
<1>2. ASSUME ~corrupted'
      PROVE  /\ \A e \in batch' : e.on = "socket" =>
                  /\ e.fd \in DOMAIN contexts'
                  /\ "hup" \in e.kinds => peer'[contexts'[e.fd].client] = "closed"
                  /\ ~iterating' => e.fd \notin toFlush'
             /\ \A e, f \in batch' : e.on = "socket" /\ f.on = "socket" /\ e.fd = f.fd => e = f
  <2>1. \A fd \in DOMAIN contexts : contexts[fd].client \in Clients
    BY DEF ConnInv, TypeOK, Context
  <2> QED  BY <1>2, <2>1 DEF DropInv, BatchIsCurrent
<1> QED  BY <1>1, <1>2 DEF BatchIsCurrent

\* A step of the event e after which its connection may be gone, of a closed client.
LEMMA OneRemoved ==
  ASSUME ConnInv, DropInv, NEW fd, RemoveConnect(fd) \/ UNCHANGED <<peer, contexts>>,
         ~corrupted' => ~corrupted, batch' \subseteq batch,
         ~corrupted' => \A e \in batch' : e.on = "socket" => e.fd # fd,
         ~corrupted' /\ RemoveConnect(fd) /\ fd \in DOMAIN contexts => peer[contexts[fd].client] = "closed",
         ~corrupted' /\ ~iterating' => \A gd \in toFlush' : gd = fd
  PROVE  BatchIsCurrent' /\ NoOpenConnectionDropped'
<1> SUFFICES ASSUME ~corrupted'
             PROVE  /\ \A e \in batch' : e.on = "socket" =>
                         /\ e.fd \in DOMAIN contexts'
                         /\ "hup" \in e.kinds => peer'[contexts'[e.fd].client] = "closed"
                         /\ ~iterating' => e.fd \notin toFlush'
                    /\ \A e, f \in batch' : e.on = "socket" /\ f.on = "socket" /\ e.fd = f.fd => e = f
                    /\ \A c \in Clients : peer'[c] # "lost"
  BY DEF BatchIsCurrent, NoOpenConnectionDropped
<1>1. /\ \A e \in batch : e.on = "socket" =>
           /\ e.fd \in DOMAIN contexts
           /\ "hup" \in e.kinds => peer[contexts[e.fd].client] = "closed"
      /\ \A e, f \in batch : e.on = "socket" /\ f.on = "socket" /\ e.fd = f.fd => e = f
      /\ \A c \in Clients : peer[c] # "lost"
  BY DEF DropInv, BatchIsCurrent, NoOpenConnectionDropped
<1>2. /\ \A c \in Clients : peer'[c] = peer[c]
      /\ \A gd \in DOMAIN contexts : gd # fd => gd \in DOMAIN contexts' /\ contexts'[gd] = contexts[gd]
  <2>1. CASE UNCHANGED <<peer, contexts>>
    BY <2>1
  <2>2. CASE RemoveConnect(fd) /\ fd \in DOMAIN contexts
    <3>1. peer[contexts[fd].client] = "closed"
      BY <2>2
    <3>2. /\ DOMAIN contexts' = DOMAIN contexts \ {fd}
          /\ \A gd \in DOMAIN contexts' : contexts'[gd] = contexts[gd]
          /\ \A c \in Clients : peer'[c] = IF c = contexts[fd].client /\ peer[c] = "open"
                                           THEN "lost" ELSE peer[c]
      BY <2>2, RemoveEffect
    <3> QED  BY <3>1, <3>2
  <2>3. CASE RemoveConnect(fd) /\ fd \notin DOMAIN contexts
    BY <2>3 DEF RemoveConnect
  <2> QED  BY <2>1, <2>2, <2>3
<1>3. \A gd \in DOMAIN contexts : contexts[gd].client \in Clients
  BY DEF ConnInv, TypeOK, Context
<1> QED  BY <1>1, <1>2, <1>3

\* Writing fails for good only when the peer has closed.
LEMMA FailsWhenClosed ==
  ASSUME NEW fd, NEW error \in WriteErrors(fd), ToStatusLevel(error) = "Error"
  PROVE  peer[contexts[fd].client] = "closed"
BY DEF WriteErrors, WriteEnds, ToStatusLevel, BranchSet

\* Every step.
LEMMA DropStep == ConnInv /\ DropInv /\ [Next]_vars => DropInv'
<1> SUFFICES ASSUME ConnInv, DropInv, [Next]_vars PROVE DropInv'
  OBVIOUS
<1>0. /\ \A fd, gd \in toFlush : ~iterating => fd = gd
      /\ frames # <<>> \/ toFlush # {} => reactor = "events"
  BY DEF DropInv, InItsPlace
<1>1. CASE UNCHANGED vars \/ Main \/ Business \/ \E c \in Clients : Client(c)
  <2>1. /\ UNCHANGED <<reactor, batch, frames, toFlush, iterating, contexts, corrupted>>
        /\ \/ peer' = peer
           \/ \E c \in Clients : ClientConnects(c) \/ ClientCloses(c)
    BY <1>1 DEF vars, Main, Business, Client, ClientSends, ClientReads, reactorVars, clientVars, fateVars
  <2>2. \A c \in Clients : /\ peer[c] = "closed" => peer'[c] = "closed"
                           /\ peer'[c] = "lost" => peer[c] = "lost"
    <3>1. peer \in [Clients -> {"away", "open", "closed", "refused", "lost"}]
      BY DEF ConnInv, TypeOK
    <3> QED  BY <2>1, <3>1 DEF ClientConnects, ClientCloses
  <2>3. InItsPlace'
    BY <1>0, <2>1 DEF InItsPlace
  <2> QED  BY <2>1, <2>2, <2>3, NoneRemoved DEF DropInv
<1>2. CASE ReactorStarts \/ ReactorChecks \/ BatchDone \/ (\E e \in batch : AcceptableEvent(e)) \/ AcceptFindsNobody
  <2>1. /\ UNCHANGED <<peer, frames, toFlush, iterating, contexts, corrupted>>
        /\ batch' \subseteq batch /\ frames = <<>> /\ toFlush = {}
    BY <1>0, <1>2 DEF ReactorStarts, ReactorChecks, BatchDone, AcceptableEvent, AcceptFindsNobody, NextEvent,
                clientVars, fateVars
  <2>2. InItsPlace'
    BY <2>1 DEF InItsPlace
  <2> QED  BY <2>1, <2>2, NoneRemoved DEF DropInv
<1>3. CASE EpollWait
  <2>1. /\ UNCHANGED <<peer, frames, toFlush, iterating, contexts, corrupted>>
        /\ batch' = Ready /\ frames = <<>> /\ toFlush = {}
    BY <1>0, <1>3 DEF EpollWait, clientVars, fateVars
  <2>2. \A e \in Ready : e.on = "socket" =>
          /\ e.fd \in DOMAIN contexts
          /\ "hup" \in e.kinds => peer[contexts[e.fd].client] = "closed"
    <3> SUFFICES ASSUME NEW e \in Ready, e.on = "socket"
                 PROVE  /\ e.fd \in DOMAIN contexts
                        /\ "hup" \in e.kinds => peer[contexts[e.fd].client] = "closed"
      OBVIOUS
    <3>1. e.fd \in DOMAIN contexts /\ e.kinds = SocketEvents(e.fd)
      BY ReadyIsTyped
    <3> QED  BY <3>1 DEF SocketEvents
  <2>3. \A e, f \in Ready : e.on = "socket" /\ f.on = "socket" /\ e.fd = f.fd => e = f
    BY ReadyIsTyped
  <2>4. BatchIsCurrent'
    BY <2>1, <2>2, <2>3 DEF BatchIsCurrent
  <2>5. InItsPlace' /\ NoOpenConnectionDropped'
    BY <2>1 DEF DropInv, InItsPlace, NoOpenConnectionDropped
  <2> QED  BY <2>4, <2>5 DEF DropInv
<1>4. CASE Accept
  <2>1. /\ UNCHANGED <<frames, toFlush, iterating, batch, corrupted>> /\ frames = <<>> /\ toFlush = {}
    BY <1>0, <1>4 DEF Accept, fateVars
  <2>2. /\ DOMAIN contexts \subseteq DOMAIN contexts'
        /\ \A fd \in DOMAIN contexts : contexts'[fd] = contexts[fd]
        /\ \A c \in Clients : /\ peer[c] = "closed" => peer'[c] = "closed"
                              /\ peer'[c] = "lost" => peer[c] = "lost"
    BY <1>4, AcceptEffect
  <2>3. InItsPlace'
    BY <2>1 DEF InItsPlace
  <2> QED  BY <2>1, <2>2, <2>3, NoneRemoved DEF DropInv
<1>5. ASSUME NEW e \in batch, HangUpEvent(e) PROVE DropInv'
  <2>1. /\ batch' = batch \ {e} /\ frames = <<>> /\ toFlush = {} /\ "hup" \in e.kinds
        /\ RemoveConnect(e.fd) /\ UNCHANGED <<frames, toFlush, iterating, corrupted>>
    BY <1>5 DEF HangUpEvent, NextEvent, fateVars
  <2>2. e.on = "socket"
    BY <2>1 DEF ConnInv, TypeOK
  <2>3. ~corrupted => /\ \A f \in batch' : f.on = "socket" => f.fd # e.fd
                      /\ peer[contexts[e.fd].client] = "closed"
    BY <2>1, <2>2 DEF DropInv, BatchIsCurrent
  <2>4. BatchIsCurrent' /\ NoOpenConnectionDropped'
    BY <2>1, <2>3, OneRemoved
  <2>5. InItsPlace'
    BY <2>1 DEF InItsPlace
  <2> QED  BY <2>4, <2>5 DEF DropInv
<1>6. ASSUME NEW e \in batch, SocketEvent(e) PROVE DropInv'
  <2>1. /\ batch' = batch \ {e} /\ toFlush' \in {{}, {e.fd}} /\ iterating' = FALSE /\ e.on = "socket"
        /\ reactor = "events" /\ UNCHANGED <<reactor, corrupted>>
        /\ \/ RemoveConnect(e.fd) /\ peer[contexts[e.fd].client] = "closed"
           \/ UNCHANGED <<peer, contexts>>
    BY <1>6 DEF SocketEvent, NextEvent, ReadSomeFails, fateVars
  <2>2. ~corrupted => \A f \in batch' : f.on = "socket" => f.fd # e.fd
    BY <2>1 DEF DropInv, BatchIsCurrent
  <2>3. RemoveConnect(e.fd) /\ e.fd \in DOMAIN contexts => peer[contexts[e.fd].client] = "closed"
    <3>1. CASE peer[contexts[e.fd].client] = "closed"
      BY <3>1
    <3>2. CASE UNCHANGED <<peer, contexts>>
      <4>1. ASSUME RemoveConnect(e.fd), e.fd \in DOMAIN contexts PROVE FALSE
        <5>1. DOMAIN contexts' = DOMAIN contexts \ {e.fd}
          BY <4>1, RemoveEffect
        <5> QED  BY <3>2, <4>1, <5>1
      <4> QED  BY <4>1
    <3> QED  BY <2>1, <3>1, <3>2
  <2>4. BatchIsCurrent' /\ NoOpenConnectionDropped'
    BY <2>1, <2>2, <2>3, OneRemoved
  <2>5. InItsPlace'
    BY <2>1 DEF InItsPlace
  <2> QED  BY <2>4, <2>5 DEF DropInv
<1>7. ASSUME NEW e \in batch, NotifyEvent(e) PROVE DropInv'
  <2>1. /\ batch' = batch \ {e} /\ iterating' = TRUE /\ reactor = "events"
        /\ UNCHANGED <<reactor, contexts, peer, corrupted>>
    BY <1>7 DEF NotifyEvent, NextEvent, clientVars, fateVars
  <2>2. BatchIsCurrent' /\ NoOpenConnectionDropped'
    BY <2>1 DEF DropInv, BatchIsCurrent, NoOpenConnectionDropped
  <2>3. InItsPlace'
    BY <2>1 DEF InItsPlace
  <2> QED  BY <2>2, <2>3 DEF DropInv
<1>8. CASE PushToServer
  <2>1. /\ frames # <<>> /\ UNCHANGED <<reactor, batch, toFlush, iterating, contexts, peer, corrupted>>
    BY <1>8 DEF PushToServer, clientVars, fateVars
  <2>2. InItsPlace'
    BY <1>0, <2>1 DEF InItsPlace
  <2> QED  BY <2>1, <2>2, NoneRemoved DEF DropInv
<1>9. ASSUME NEW fd \in toFlush, WritableEvent(fd) \/ WritableGone(fd) PROVE DropInv'
  <2>1. /\ UNCHANGED <<reactor, batch, frames, iterating, peer, corrupted>> /\ toFlush' = toFlush \ {fd}
        /\ \/ contexts' = contexts
           \/ fd \in DOMAIN contexts /\ \E n \in MayTake(fd) : Writes(fd, n)
    BY <1>9 DEF WritableEvent, WritableGone, FlushDone, clientVars, fateVars
  <2>2. /\ DOMAIN contexts' = DOMAIN contexts
        /\ \A gd \in DOMAIN contexts : contexts'[gd].client = contexts[gd].client
    <3>1. CASE contexts' = contexts
      BY <3>1
    <3>2. ASSUME fd \in DOMAIN contexts, NEW n \in MayTake(fd), Writes(fd, n)
          PROVE  /\ DOMAIN contexts' = DOMAIN contexts
                 /\ \A gd \in DOMAIN contexts : contexts'[gd].client = contexts[gd].client
      <4>1. /\ DOMAIN contexts' = DOMAIN contexts
            /\ \A gd \in DOMAIN contexts : gd # fd => contexts'[gd] = contexts[gd]
            /\ contexts'[fd] = [id |-> contexts[fd].id, client |-> contexts[fd].client,
                                out |-> SubSeq(Pending(fd), n + 1, Len(Pending(fd))),
                                pollOut |-> SubSeq(Pending(fd), n + 1, Len(Pending(fd))) # <<>>]
        BY <3>2, WritesEffect
      <4>2. contexts'[fd].client = contexts[fd].client
        BY <4>1
      <4> QED  BY <4>1, <4>2
    <3> QED  BY <2>1, <3>1, <3>2
  <2>3. InItsPlace'
    BY <1>0, <2>1 DEF InItsPlace
  <2> QED  BY <2>1, <2>2, <2>3, NoneRemoved DEF DropInv
<1>10. ASSUME NEW fd \in toFlush, WriteFails(fd) PROVE DropInv'
  <2>1. /\ RemoveConnect(fd) /\ toFlush' \subseteq toFlush /\ corrupted' = (corrupted \/ iterating)
        /\ UNCHANGED <<reactor, batch, frames, iterating>>
        /\ \E error \in WriteErrors(fd) : ToStatusLevel(error) = "Error"
    BY <1>10 DEF WriteFails
  <2>2. peer[contexts[fd].client] = "closed"
    BY <2>1, FailsWhenClosed
  <2>3. ~corrupted' => ~corrupted /\ ~iterating
    BY <2>1
  <2>4. ~corrupted' => \A e \in batch' : e.on = "socket" => e.fd # fd
    BY <1>10, <2>1, <2>3 DEF DropInv, BatchIsCurrent
  <2>5. ~corrupted' /\ ~iterating' => \A gd \in toFlush' : gd = fd
    BY <1>0, <2>1
  <2>6. BatchIsCurrent' /\ NoOpenConnectionDropped'
    BY <2>1, <2>2, <2>3, <2>4, <2>5, OneRemoved
  <2>7. InItsPlace'
    BY <1>0, <2>1 DEF InItsPlace
  <2> QED  BY <2>6, <2>7 DEF DropInv
<1> QED  BY <1>1, <1>2, <1>3, <1>4, <1>5, <1>6, <1>7, <1>8, <1>9, <1>10
         DEF Next, Reactor, ReactorGoesOn

\* No connection is closed that its client still uses (NoOpenConnectionDropped of the
\* model).
THEOREM PipelineDropsNone == Spec => []NoOpenConnectionDropped
<1>1. Init => ConnInv /\ DropInv
  BY ConnInit, DropInit
<1>2. ConnInv /\ DropInv /\ [Next]_vars => (ConnInv /\ DropInv)'
  BY ConnStep, DropStep
<1>3. DropInv => NoOpenConnectionDropped
  BY DEF DropInv
<1> QED  BY <1>1, <1>2, <1>3, PTL DEF Spec

-----------------------------------------------------------------------------
(* Answers on their way out.                                               *)

\* What is left of a write asks for EPOLLOUT, and an answer in the mailbox for a flush.
AnswersAreFlushed ==
  /\ \A fd \in DOMAIN contexts : contexts[fd].out # <<>> => contexts[fd].pollOut
  /\ ~corrupted => \A fd \in DOMAIN contexts :
       toClient[contexts[fd].id] # <<>> => eventfd \/ business = "notifying" \/ fd \in toFlush

\* A step that adds no answer and takes no reason to flush away.
LEMMA FlushedStill ==
  ASSUME ConnInv, AnswersAreFlushed,
         DOMAIN contexts' \subseteq DOMAIN contexts,
         \A fd \in DOMAIN contexts' : contexts'[fd] = contexts[fd],
         \A fd \in DOMAIN contexts' : toClient'[contexts[fd].id] = toClient[contexts[fd].id],
         ~corrupted' => ~corrupted,
         ~corrupted' => \/ eventfd' \/ business' = "notifying"
                        \/ /\ eventfd' = eventfd /\ (business # "notifying" \/ business' = business)
                           /\ \A fd \in DOMAIN contexts' : fd \in toFlush => fd \in toFlush'
  PROVE  AnswersAreFlushed'
<1>1. \A fd \in DOMAIN contexts' : contexts'[fd].out # <<>> => contexts'[fd].pollOut
  BY DEF AnswersAreFlushed
<1>2. ASSUME ~corrupted', NEW fd \in DOMAIN contexts', toClient'[contexts'[fd].id] # <<>>
      PROVE  eventfd' \/ business' = "notifying" \/ fd \in toFlush'
  <2>1. toClient[contexts[fd].id] # <<>> /\ ~corrupted
    BY <1>2
  <2>2. eventfd \/ business = "notifying" \/ fd \in toFlush
    BY <2>1 DEF AnswersAreFlushed
  <2> QED  BY <1>2, <2>2
<1> QED  BY <1>1, <1>2 DEF AnswersAreFlushed

\* At the start nothing is to be flushed.
LEMMA FlushInit == Init => AnswersAreFlushed
BY DEF Init, AnswersAreFlushed

\* Every step.
LEMMA FlushStep == ConnInv /\ DropInv /\ AnswersAreFlushed /\ [Next]_vars => AnswersAreFlushed'
<1> SUFFICES ASSUME ConnInv, DropInv, AnswersAreFlushed, [Next]_vars PROVE AnswersAreFlushed'
  OBVIOUS
<1>0. /\ \A fd, gd \in toFlush : ~iterating => fd = gd
      /\ frames # <<>> \/ toFlush # {} => reactor = "events"
  BY DEF DropInv, InItsPlace
<1>1. CASE UNCHANGED vars \/ Main \/ \E c \in Clients : Client(c)
  <2>1. UNCHANGED <<contexts, toClient, corrupted, eventfd, business, toFlush>>
    BY <1>1 DEF vars, Main, Client, reactorVars, businessVars, mailVars, fateVars
  <2> QED  BY <2>1, FlushedStill
<1>2. CASE Business
  <2>1. /\ UNCHANGED <<contexts, corrupted, toFlush>>
        /\ BusinessStarts \/ BusinessChecks \/ BusinessPops \/ BusinessHandles \/ BusinessNotifies
    BY <1>2 DEF Business, reactorVars, fateVars
  <2>2. CASE BusinessStarts \/ BusinessChecks \/ BusinessPops
    <3>1. UNCHANGED <<toClient, eventfd>> /\ business # "notifying"
      BY <2>2 DEF BusinessStarts, BusinessChecks, BusinessPops, mailVars
    <3> QED  BY <2>1, <3>1, FlushedStill
  <2>3. CASE BusinessNotifies
    <3>1. toClient' = toClient /\ eventfd' = TRUE
      BY <2>3 DEF BusinessNotifies, WriteEventFd
    <3> QED  BY <2>1, <3>1, FlushedStill
  <2>4. CASE BusinessHandles
    <3>1. CASE toClient' = toClient /\ eventfd' = eventfd /\ business # "notifying"
      BY <2>1, <3>1, FlushedStill
    <3>2. CASE business' = "notifying"
      BY <2>1, <3>2 DEF AnswersAreFlushed
    <3> QED  BY <2>4, <3>1, <3>2 DEF BusinessHandles
  <2> QED  BY <2>1, <2>2, <2>3, <2>4
<1>3. CASE \/ ReactorStarts \/ ReactorChecks \/ BatchDone \/ EpollWait \/ PushToServer
           \/ (\E e \in batch : AcceptableEvent(e)) \/ AcceptFindsNobody
  <2>1. UNCHANGED <<contexts, toClient, corrupted, eventfd, business, toFlush>>
    BY <1>3 DEF ReactorStarts, ReactorChecks, BatchDone, EpollWait, PushToServer, AcceptableEvent,
                AcceptFindsNobody, businessVars, mailVars, fateVars
  <2> QED  BY <2>1, FlushedStill
<1>4. CASE Accept
  <2>1. UNCHANGED <<eventfd, business, toFlush, corrupted>>
    BY <1>4 DEF Accept, businessVars, fateVars
  <2>2. CASE UNCHANGED <<contexts, toClient>>
    BY <2>1, <2>2, FlushedStill
  <2>3. CASE \E fd \in Fds \ DOMAIN contexts :
               /\ DOMAIN contexts' = DOMAIN contexts \cup {fd}
               /\ \A gd \in DOMAIN contexts : contexts'[gd] = contexts[gd]
               /\ contexts'[fd] = [id |-> nextId, client |-> Head(backlog), out |-> <<>>, pollOut |-> FALSE]
               /\ \A id \in DOMAIN toClient : id # nextId /\ toClient'[id] = toClient[id]
               /\ toClient'[nextId] = <<>>
    <3>1. PICK fd \in Fds \ DOMAIN contexts :
               /\ DOMAIN contexts' = DOMAIN contexts \cup {fd}
               /\ \A gd \in DOMAIN contexts : contexts'[gd] = contexts[gd]
               /\ contexts'[fd] = [id |-> nextId, client |-> Head(backlog), out |-> <<>>, pollOut |-> FALSE]
               /\ \A id \in DOMAIN toClient : id # nextId /\ toClient'[id] = toClient[id]
               /\ toClient'[nextId] = <<>>
      BY <2>3
    <3>2. contexts'[fd].out = <<>> /\ toClient'[contexts'[fd].id] = <<>>
      BY <3>1
    <3>3. \A gd \in DOMAIN contexts : toClient'[contexts'[gd].id] = toClient[contexts[gd].id]
      BY <3>1 DEF ConnInv, TypeOK
    <3> QED  BY <2>1, <3>1, <3>2, <3>3 DEF AnswersAreFlushed
  <2>4. \/ UNCHANGED <<contexts, toClient>>
        \/ \E fd \in Fds \ DOMAIN contexts :
               /\ DOMAIN contexts' = DOMAIN contexts \cup {fd}
               /\ \A gd \in DOMAIN contexts : contexts'[gd] = contexts[gd]
               /\ contexts'[fd] = [id |-> nextId, client |-> Head(backlog), out |-> <<>>, pollOut |-> FALSE]
               /\ \A id \in DOMAIN toClient : id # nextId /\ toClient'[id] = toClient[id]
               /\ toClient'[nextId] = <<>>
    BY <1>4, AcceptEffect
  <2> QED  BY <2>2, <2>3, <2>4
\* What removing a connection leaves.
<1>5. ASSUME NEW fd, RemoveConnect(fd) \/ UNCHANGED <<contexts, toClient>>
      PROVE  /\ DOMAIN contexts' \subseteq DOMAIN contexts
             /\ \A gd \in DOMAIN contexts' : contexts'[gd] = contexts[gd]
             /\ \A gd \in DOMAIN contexts' : toClient'[contexts[gd].id] = toClient[contexts[gd].id]
             /\ RemoveConnect(fd) => fd \notin DOMAIN contexts'
  <2>1. CASE UNCHANGED <<contexts, toClient>>
    <3>1. ASSUME RemoveConnect(fd), fd \in DOMAIN contexts PROVE FALSE
      <4>1. DOMAIN contexts' = DOMAIN contexts \ {fd}
        BY <3>1, RemoveEffect
      <4> QED  BY <2>1, <3>1, <4>1
    <3> QED  BY <2>1, <3>1
  <2>2. CASE RemoveConnect(fd) /\ fd \notin DOMAIN contexts
    BY <2>2 DEF RemoveConnect
  <2>3. CASE RemoveConnect(fd) /\ fd \in DOMAIN contexts
    <3>1. /\ DOMAIN contexts' = DOMAIN contexts \ {fd}
          /\ \A gd \in DOMAIN contexts' : contexts'[gd] = contexts[gd]
          /\ DOMAIN toClient' = DOMAIN toClient \ {contexts[fd].id}
          /\ \A id \in DOMAIN toClient' : toClient'[id] = toClient[id]
      BY <2>3, RemoveEffect
    <3>2. \A gd \in DOMAIN contexts' : contexts[gd].id \in DOMAIN toClient'
      BY <2>3, <3>1 DEF ConnInv, TypeOK, IdsAreNew
    <3> QED  BY <3>1, <3>2
  <2> QED  BY <1>5, <2>1, <2>2, <2>3
<1>6. ASSUME NEW e \in batch, HangUpEvent(e) \/ SocketEvent(e) PROVE AnswersAreFlushed'
  <2>1. /\ RemoveConnect(e.fd) \/ UNCHANGED <<contexts, toClient>>
        /\ UNCHANGED <<corrupted, eventfd, business>> /\ toFlush = {}
    BY <1>6 DEF HangUpEvent, SocketEvent, NextEvent, businessVars, fateVars
  <2> QED  BY <1>5, <2>1, FlushedStill
<1>7. ASSUME NEW e \in batch, NotifyEvent(e) PROVE AnswersAreFlushed'
  <2>1. UNCHANGED contexts /\ toFlush' = DOMAIN contexts
    BY <1>7 DEF NotifyEvent
  <2> QED  BY <2>1 DEF AnswersAreFlushed
<1>8. ASSUME NEW fd \in toFlush, WritableGone(fd) PROVE AnswersAreFlushed'
  <2>1. UNCHANGED <<contexts, toClient, corrupted, eventfd, business>> /\ fd \notin DOMAIN contexts /\ toFlush' = toFlush \ {fd}
    BY <1>8 DEF WritableGone, FlushDone, businessVars, mailVars, fateVars
  <2> QED  BY <2>1, FlushedStill
<1>9. ASSUME NEW fd \in toFlush, WriteFails(fd) PROVE AnswersAreFlushed'
  <2>1. /\ RemoveConnect(fd) /\ toFlush' \in {toFlush \ {fd}, {}} /\ corrupted' = (corrupted \/ iterating)
        /\ UNCHANGED <<eventfd, business>>
    BY <1>9 DEF WriteFails, businessVars
  <2>2. ~corrupted' => \A gd \in DOMAIN contexts' : gd \in toFlush => gd \in toFlush'
    BY <1>0, <1>5, <2>1
  <2> QED  BY <1>5, <2>1, <2>2, FlushedStill
<1>10. ASSUME NEW fd \in toFlush, WritableEvent(fd) PROVE AnswersAreFlushed'
  <2>1. /\ fd \in DOMAIN contexts /\ toFlush' = toFlush \ {fd} /\ UNCHANGED <<corrupted, eventfd, business>>
        /\ \E n \in MayTake(fd) : Writes(fd, n)
    BY <1>10 DEF WritableEvent, FlushDone, businessVars, fateVars
  <2>2. PICK n \in MayTake(fd) : Writes(fd, n)
    BY <2>1
  <2> DEFINE rest == SubSeq(Pending(fd), n + 1, Len(Pending(fd)))
             id == contexts[fd].id
  <2>3. /\ DOMAIN contexts' = DOMAIN contexts
        /\ \A gd \in DOMAIN contexts : gd # fd => contexts'[gd] = contexts[gd]
        /\ contexts'[fd] = [id |-> id, client |-> contexts[fd].client, out |-> rest, pollOut |-> rest # <<>>]
        /\ toClient'[id] = <<>>
        /\ \A i \in DOMAIN toClient : i # id => toClient'[i] = toClient[i]
    BY <2>1, <2>2, WritesEffect
  <2> HIDE DEF rest
  <2>4. contexts'[fd].id = id /\ (contexts'[fd].out # <<>> => contexts'[fd].pollOut)
    <3>1. contexts'[fd].id = id /\ contexts'[fd].out = rest
      BY <2>3
    <3>2. CASE rest # <<>>
      <4>1. (rest # <<>>) = TRUE
        BY <3>2
      <4>2. contexts'[fd] = [id |-> id, client |-> contexts[fd].client, out |-> rest, pollOut |-> TRUE]
        BY <2>3, <4>1
      <4> QED  BY <3>1, <4>2
    <3> QED  BY <3>1, <3>2
  <2>5. \A gd \in DOMAIN contexts : gd # fd => contexts[gd].id # id /\ contexts[gd].id \in DOMAIN toClient
    BY <2>1 DEF ConnInv, IdsAreNew, TypeOK
  <2>6. \A gd \in DOMAIN contexts : gd # fd => toClient'[contexts'[gd].id] = toClient[contexts[gd].id]
    BY <2>3, <2>5
  <2> HIDE DEF id
  <2> QED  BY <2>1, <2>3, <2>4, <2>6 DEF AnswersAreFlushed
<1> QED  BY <1>1, <1>2, <1>3, <1>4, <1>6, <1>7, <1>8, <1>9, <1>10
         DEF Next, Reactor, ReactorGoesOn

\* The reactor never sleeps on an answer (NoAnswerStranded of the model).
THEOREM PipelineStrandsNone == Spec => []NoAnswerStranded
<1>1. Init => ConnInv /\ DropInv /\ AnswersAreFlushed
  BY ConnInit, DropInit, FlushInit
<1>2. ConnInv /\ DropInv /\ AnswersAreFlushed /\ [Next]_vars => (ConnInv /\ DropInv /\ AnswersAreFlushed)'
  BY ConnStep, DropStep, FlushStep
<1>3. ConnInv /\ DropInv /\ AnswersAreFlushed => NoAnswerStranded
  <2> SUFFICES ASSUME ConnInv, DropInv, AnswersAreFlushed, reactor = "waiting", Ready = {},
                      business # "notifying", ~corrupted, NEW fd \in DOMAIN contexts, Pending(fd) # <<>>
               PROVE  full[contexts[fd].client] /\ contexts[fd].pollOut
    BY DEF NoAnswerStranded
  <2>1. ~eventfd
    <3>1. eventfd => Event("eventfd", 0, {}) \in Ready
      BY DEF Ready, Watched
    <3> QED  BY <3>1
  <2>2. toFlush = {}
    BY DEF DropInv, InItsPlace
  <2>3. toClient[contexts[fd].id] = <<>>
    BY <2>1, <2>2 DEF AnswersAreFlushed
  <2>4. contexts[fd].out # <<>>
    <3>1. <<>> \o <<>> = <<>>
      BY ConcatEmptySeq
    <3> QED  BY <2>3, <3>1 DEF Pending
  <2>5. contexts[fd].pollOut
    BY <2>4 DEF AnswersAreFlushed
  <2>6. SocketEvents(fd) = {}
    <3>1. SocketEvents(fd) # {} => Event("socket", fd, SocketEvents(fd)) \in Ready
      BY DEF Ready, Event
    <3> QED  BY <3>1
  <2>7. full[contexts[fd].client]
    BY <2>5, <2>6 DEF SocketEvents
  <2> QED  BY <2>5, <2>7
<1> QED  BY <1>1, <1>2, <1>3, PTL DEF Spec

-----------------------------------------------------------------------------
(* A line of requests: answered, read and unread.                          *)

\* Of the n requests that c has sent on the connection id, those in asked and in unread
\* come after those in given, each once and in order, and none that has an answer is
\* missing.
Line(c, n, id, given, asked, unread) ==
  /\ Len(unread) <= n
  /\ \A i \in 1..Len(unread) : unread[i] = <<c, (n - Len(unread)) + i>>
  /\ \A i \in 1..Len(given) : given[i] \in ({c} \X (1..(n - Len(unread)))) \ Unanswered
  /\ \A i, j \in 1..Len(given) : i < j => given[i][2] < given[j][2]
  /\ \A i \in 1..Len(asked) : asked[i].id = id =>
       /\ asked[i].request \in {c} \X (1..(n - Len(unread)))
       /\ \A j \in 1..Len(given) : given[j][2] < asked[i].request[2]
  /\ \A i, j \in 1..Len(asked) : i < j /\ asked[i].id = id /\ asked[j].id = id =>
       asked[i].request[2] < asked[j].request[2]
  /\ \A r \in ({c} \X (1..(n - Len(unread)))) \ Unanswered :
       \/ \E i \in 1..Len(given) : given[i] = r
       \/ \E i \in 1..Len(asked) : asked[i].id = id /\ asked[i].request = r

\* One more request is sent.
LEMMA LineSends ==
  ASSUME NEW c \in Clients, NEW n \in Nat, NEW id, NEW given \in Seq(Request),
         NEW asked \in Seq(Frame), NEW unread \in Seq(Request),
         Line(c, n, id, given, asked, unread)
  PROVE  Line(c, n + 1, id, given, asked, Append(unread, <<c, n + 1>>))
<1> DEFINE u == Append(unread, <<c, n + 1>>)
<1>1. <<c, n + 1>> \in Request
  BY DEF Request
<1>2. /\ Len(unread) \in Nat /\ Len(u) = Len(unread) + 1 /\ u[Len(unread) + 1] = <<c, n + 1>>
      /\ \A i \in 1..Len(unread) : u[i] = unread[i]
  BY <1>1, AppendProperties, LenProperties
<1>3. (n + 1) - Len(u) = n - Len(unread) /\ Len(unread) <= n
  BY <1>2 DEF Line
<1> HIDE DEF u
<1>4. \A i \in 1..Len(u) : u[i] = <<c, (n - Len(unread)) + i>>
  <2> TAKE i \in 1..Len(u)
  <2>1. CASE i \in 1..Len(unread)
    BY <1>2, <2>1 DEF Line
  <2>2. CASE i = Len(unread) + 1
    BY <1>2, <1>3, <2>2
  <2> QED  BY <1>2, <2>1, <2>2
<1>5. Len(u) <= n + 1
  BY <1>2, <1>3
<1>6. Line(c, n + 1, id, given, asked, u)
  BY <1>3, <1>4, <1>5 DEF Line
<1> QED  BY <1>6 DEF u

\* What was unread is read, as frames behind the others.
LEMMA LineReads ==
  ASSUME NEW c \in Clients, NEW n \in Nat, NEW id \in Nat, NEW given \in Seq(Request),
         NEW asked \in Seq(Frame), NEW unread \in Seq(Request), NEW read \in Seq(Frame),
         Len(read) = Len(unread),
         \A i \in 1..Len(unread) : read[i] = [id |-> id, request |-> unread[i]],
         Line(c, n, id, given, asked, unread)
  PROVE  Line(c, n, id, given, asked \o read, <<>>)
<1> DEFINE a == asked \o read
           k == n - Len(unread)
<1>1. /\ Len(asked) \in Nat /\ Len(unread) \in Nat /\ k \in Nat
      /\ Len(a) = Len(asked) + Len(unread)
      /\ \A i \in 1..Len(asked) : i \in 1..Len(a) /\ a[i] = asked[i]
      /\ \A i \in 1..Len(unread) : Len(asked) + i \in 1..Len(a) /\ a[Len(asked) + i] = read[i]
      /\ \A i \in 1..Len(a) : i \in 1..Len(asked) \/ \E j \in 1..Len(unread) : i = Len(asked) + j
  <2>1. Len(asked) \in Nat /\ Len(unread) \in Nat /\ Len(a) = Len(asked) + Len(unread)
    <3>1. Len(asked) \in Nat /\ Len(unread) \in Nat
      BY LenProperties
    <3>2. Len(asked \o read) = Len(asked) + Len(read)
      BY ConcatProperties
    <3> QED  BY <3>1, <3>2
  <2>2. k \in Nat
    BY <2>1 DEF Line
  <2>3. \A i \in 1..(Len(asked) + Len(unread)) :
          a[i] = IF i <= Len(asked) THEN asked[i] ELSE read[i - Len(asked)]
    BY ConcatProperties
  <2>4. \A i \in 1..Len(unread) : Len(asked) + i \in 1..Len(a) /\ a[Len(asked) + i] = read[i]
    <3> TAKE i \in 1..Len(unread)
    <3>1. /\ Len(asked) + i \in 1..(Len(asked) + Len(unread)) /\ ~(Len(asked) + i <= Len(asked))
          /\ (Len(asked) + i) - Len(asked) = i
      BY <2>1
    <3> QED  BY <2>1, <2>3, <3>1
  <2>5. \A i \in 1..Len(a) : i \in 1..Len(asked) \/ \E j \in 1..Len(unread) : i = Len(asked) + j
    <3> TAKE i \in 1..Len(a)
    <3>1. i \in 1..Len(asked) \/ (i - Len(asked) \in 1..Len(unread) /\ i = Len(asked) + (i - Len(asked)))
      BY <2>1
    <3> QED  BY <3>1
  <2> QED  BY <2>1, <2>2, <2>3, <2>4, <2>5
<1>2. Len(<<>>) = 0 /\ n - 0 = n
  BY EmptySeq
<1>3. \A i \in 1..Len(unread) : /\ a[Len(asked) + i].id = id
                                /\ a[Len(asked) + i].request = <<c, k + i>>
                                /\ a[Len(asked) + i].request[2] = k + i
                                /\ k + i \in 1..n /\ k + i > k
  <2> TAKE i \in 1..Len(unread)
  <2>1. a[Len(asked) + i] = [id |-> id, request |-> <<c, k + i>>]
    BY <1>1 DEF Line
  <2> QED  BY <1>1, <2>1
<1>4. 1..k \subseteq 1..n
  BY <1>1
<1>k. k \in Nat
  BY <1>1
<1>l. \A i \in 1..Len(given) : given[i] \in ({c} \X (1..k)) \ Unanswered
  BY DEF Line
<1>m. \A r \in ({c} \X (1..k)) \ Unanswered :
       \/ \E i \in 1..Len(given) : given[i] = r
       \/ \E i \in 1..Len(asked) : asked[i].id = id /\ asked[i].request = r
  BY DEF Line
<1>n. \A i \in 1..Len(asked) : asked[i].id = id =>
       /\ asked[i].request \in {c} \X (1..k)
       /\ \A j \in 1..Len(given) : given[j][2] < asked[i].request[2]
  BY DEF Line
<1> HIDE DEF a, k
<1>5. \A i \in 1..Len(given) : given[i] \in ({c} \X (1..n)) \ Unanswered /\ given[i][2] <= k
  <2> TAKE i \in 1..Len(given)
  <2>1. given[i] \in ({c} \X (1..k)) \ Unanswered
    BY <1>l
  <2>2. given[i][1] = c /\ given[i][2] \in 1..k /\ given[i] = <<c, given[i][2]>> /\ given[i] \notin Unanswered
    BY <2>1
  <2>3. given[i][2] \in 1..n
    BY <1>4, <2>2
  <2>4. given[i][2] <= k
    BY <1>k, <2>2
  <2>5. <<c, given[i][2]>> \in {c} \X (1..n)
    BY <2>3
  <2> QED  BY <2>2, <2>4, <2>5
<1>6. ASSUME NEW i \in 1..Len(a), a[i].id = id
      PROVE  /\ a[i].request \in {c} \X (1..n)
             /\ \A j \in 1..Len(given) : given[j][2] < a[i].request[2]
  <2>1. CASE i \in 1..Len(asked)
    BY <1>1, <1>4, <1>6, <1>n, <2>1
  <2>2. CASE \E j \in 1..Len(unread) : i = Len(asked) + j
    <3>1. PICK m \in 1..Len(unread) : i = Len(asked) + m
      BY <2>2
    <3>2. \A j \in 1..Len(given) : given[j][2] \in Nat /\ given[j][2] <= k
      BY <1>5, <1>k
    <3>3. a[i].request = <<c, k + m>> /\ a[i].request[2] = k + m /\ k + m \in 1..n /\ m \in Nat /\ m > 0
      BY <1>1, <1>3, <3>1
    <3>4. a[i].request \in {c} \X (1..n)
      BY <3>3
    <3>5. \A j \in 1..Len(given) : given[j][2] < k + m
      BY <3>2, <3>3, <1>k
    <3> QED  BY <3>3, <3>4, <3>5
  <2> QED  BY <1>1, <2>1, <2>2
<1>7. ASSUME NEW i \in 1..Len(a), NEW j \in 1..Len(a), i < j, a[i].id = id, a[j].id = id
      PROVE  a[i].request[2] < a[j].request[2]
  <2>1. CASE j \in 1..Len(asked)
    <3>1. i \in 1..Len(asked)
      BY <1>1, <1>7, <2>1
    <3> QED  BY <1>1, <1>7, <2>1, <3>1 DEF Line
  <2>2. CASE \E m \in 1..Len(unread) : j = Len(asked) + m
    <3>1. PICK m \in 1..Len(unread) : j = Len(asked) + m
      BY <2>2
    <3>2. CASE i \in 1..Len(asked)
      <4>1. a[i].request \in {c} \X (1..k)
        BY <1>1, <1>7, <1>n, <3>2
      <4>2. a[i].request[2] \in 1..k
        BY <4>1
      <4>3. a[j].request[2] = k + m /\ m \in Nat /\ m > 0
        BY <1>1, <1>3, <3>1
      <4> QED  BY <1>k, <4>2, <4>3
    <3>3. CASE \E l \in 1..Len(unread) : i = Len(asked) + l
      <4>1. PICK l \in 1..Len(unread) : i = Len(asked) + l
        BY <3>3
      <4>2. l < m
        BY <1>1, <1>7, <3>1, <4>1
      <4>3. a[i].request[2] = k + l /\ a[j].request[2] = k + m /\ l \in Nat /\ m \in Nat
        BY <1>1, <1>3, <3>1, <4>1
      <4> QED  BY <1>k, <4>2, <4>3
    <3> QED  BY <1>1, <3>2, <3>3
  <2> QED  BY <1>1, <2>1, <2>2
<1>8. ASSUME NEW r \in ({c} \X (1..n)) \ Unanswered
      PROVE  \/ \E i \in 1..Len(given) : given[i] = r
             \/ \E i \in 1..Len(a) : a[i].id = id /\ a[i].request = r
  <2>1. r[2] \in 1..n /\ r = <<c, r[2]>>
    OBVIOUS
  <2>2. CASE r[2] \in 1..k
    <3>1. r \in ({c} \X (1..k)) \ Unanswered
      BY <2>1, <2>2
    <3>2. \/ \E i \in 1..Len(given) : given[i] = r
          \/ \E i \in 1..Len(asked) : asked[i].id = id /\ asked[i].request = r
      BY <1>m, <3>1
    <3> QED  BY <1>1, <3>2
  <2>3. CASE r[2] > k
    <3>1. r[2] - k \in 1..Len(unread) /\ k + (r[2] - k) = r[2]
      BY <1>1, <2>1, <2>3 DEF k
    <3>2. PICK m \in 1..Len(unread) : k + m = r[2]
      BY <3>1
    <3>3. /\ Len(asked) + m \in 1..Len(a) /\ a[Len(asked) + m].id = id
          /\ a[Len(asked) + m].request = <<c, r[2]>>
      BY <1>1, <1>3, <3>2
    <3>4. /\ Len(asked) + m \in 1..Len(a) /\ a[Len(asked) + m].id = id
          /\ a[Len(asked) + m].request = r
      BY <2>1, <3>3
    <3> QED  BY <3>4
  <2>4. r[2] \in 1..k \/ r[2] > k
    BY <1>k, <2>1
  <2> QED  BY <2>2, <2>3, <2>4
<1>9. /\ Len(<<>>) <= n
      /\ \A i \in 1..Len(<<>>) : <<>>[i] = <<c, (n - Len(<<>>)) + i>>
  BY <1>2
<1>10. \A i, j \in 1..Len(given) : i < j => given[i][2] < given[j][2]
  BY DEF Line
<1>11. Line(c, n, id, given, a, <<>>)
  BY <1>2, <1>5, <1>6, <1>7, <1>8, <1>9, <1>10 DEF Line
<1> QED  BY <1>11 DEF a

\* Frames of other connections are read.
LEMMA LineLetsOthersRead ==
  ASSUME NEW c \in Clients, NEW n \in Nat, NEW id \in Nat, NEW given \in Seq(Request),
         NEW asked \in Seq(Frame), NEW unread \in Seq(Request), NEW read \in Seq(Frame),
         \A i \in 1..Len(read) : read[i].id # id,
         Line(c, n, id, given, asked, unread)
  PROVE  Line(c, n, id, given, asked \o read, unread)
<1> DEFINE a == asked \o read
<1>1. Len(asked) \in Nat /\ Len(read) \in Nat
  BY LenProperties
<1>2. Len(a) = Len(asked) + Len(read)
  BY ConcatProperties
<1>3. \A i \in 1..(Len(asked) + Len(read)) :
        a[i] = IF i <= Len(asked) THEN asked[i] ELSE read[i - Len(asked)]
  BY ConcatProperties
<1> HIDE DEF a
<1>4. \A i \in 1..Len(asked) : i \in 1..Len(a) /\ a[i] = asked[i]
  BY <1>1, <1>2, <1>3
<1>5. \A i \in 1..Len(a) : a[i].id = id => i \in 1..Len(asked)
  <2> SUFFICES ASSUME NEW i \in 1..Len(a), i \notin 1..Len(asked) PROVE a[i].id # id
    OBVIOUS
  <2>1. i - Len(asked) \in 1..Len(read) /\ a[i] = read[i - Len(asked)]
    BY <1>1, <1>2, <1>3
  <2> QED  BY <2>1
<1>6. \A i \in 1..Len(a) : a[i].id = id => i \in 1..Len(asked) /\ asked[i].id = id /\ a[i] = asked[i]
  BY <1>4, <1>5
<1>7. \A i \in 1..Len(a) : a[i].id = id =>
       /\ a[i].request \in {c} \X (1..(n - Len(unread)))
       /\ \A j \in 1..Len(given) : given[j][2] < a[i].request[2]
  BY <1>6 DEF Line
<1>8. \A i, j \in 1..Len(a) : i < j /\ a[i].id = id /\ a[j].id = id =>
       a[i].request[2] < a[j].request[2]
  <2> SUFFICES ASSUME NEW i \in 1..Len(a), NEW j \in 1..Len(a), i < j, a[i].id = id, a[j].id = id
               PROVE  a[i].request[2] < a[j].request[2]
    OBVIOUS
  <2>1. asked[i].request[2] < asked[j].request[2]
    BY <1>6 DEF Line
  <2> QED  BY <1>6, <2>1
<1>9. ASSUME NEW r \in ({c} \X (1..(n - Len(unread)))) \ Unanswered
      PROVE  \/ \E i \in 1..Len(given) : given[i] = r
             \/ \E i \in 1..Len(a) : a[i].id = id /\ a[i].request = r
  <2>1. \/ \E i \in 1..Len(given) : given[i] = r
        \/ \E i \in 1..Len(asked) : asked[i].id = id /\ asked[i].request = r
    BY DEF Line
  <2> QED  BY <1>4, <2>1
<1>10. Line(c, n, id, given, a, unread)
  BY <1>7, <1>8, <1>9 DEF Line
<1> QED  BY <1>10 DEF a

\* The frame that is handled is another connection's, or has no answer.
LEMMA LineSkips ==
  ASSUME NEW c \in Clients, NEW n \in Nat, NEW id \in Nat, NEW given \in Seq(Request),
         NEW asked \in Seq(Frame), NEW unread \in Seq(Request), asked # <<>>,
         Head(asked).id # id \/ Head(asked).request \in Unanswered,
         Line(c, n, id, given, asked, unread)
  PROVE  Line(c, n, id, given, Tail(asked), unread)
<1> DEFINE a == Tail(asked)
<1>1. /\ Len(asked) \in Nat /\ Len(asked) > 0 /\ Head(asked) = asked[1]
      /\ Len(a) = Len(asked) - 1
      /\ \A i \in 1..Len(a) : a[i] = asked[i + 1]
  BY LenProperties, HeadTailProperties, EmptySeq
<1> HIDE DEF a
<1>2. \A i \in 1..Len(a) : i + 1 \in 1..Len(asked) /\ a[i] = asked[i + 1]
  BY <1>1
<1>3. \A i, j \in 1..Len(a) : i < j => i + 1 < j + 1
  BY <1>1
<1>4. \A i \in 1..Len(asked) : i = 1 \/ \E j \in 1..Len(a) : a[j] = asked[i]
  <2> SUFFICES ASSUME NEW i \in 1..Len(asked), i # 1 PROVE \E j \in 1..Len(a) : a[j] = asked[i]
    OBVIOUS
  <2>1. i - 1 \in 1..Len(a) /\ (i - 1) + 1 = i
    BY <1>1
  <2> QED  BY <1>2, <2>1
<1>5. ASSUME NEW r \in ({c} \X (1..(n - Len(unread)))) \ Unanswered
      PROVE  \/ \E i \in 1..Len(given) : given[i] = r
             \/ \E i \in 1..Len(a) : a[i].id = id /\ a[i].request = r
  <2>1. \/ \E i \in 1..Len(given) : given[i] = r
        \/ \E i \in 1..Len(asked) : asked[i].id = id /\ asked[i].request = r
    BY DEF Line
  <2>2. ASSUME NEW i \in 1..Len(asked), asked[i].id = id, asked[i].request = r
        PROVE  \E j \in 1..Len(a) : a[j].id = id /\ a[j].request = r
    <3>1. i # 1
      BY <1>1, <2>2
    <3>2. PICK j \in 1..Len(a) : a[j] = asked[i]
      BY <1>4, <3>1
    <3> QED  BY <2>2, <3>2
  <2> QED  BY <2>1, <2>2
<1>6. Line(c, n, id, given, a, unread)
  <2>1. ASSUME NEW i \in 1..Len(a), a[i].id = id
        PROVE  /\ a[i].request \in {c} \X (1..(n - Len(unread)))
               /\ \A j \in 1..Len(given) : given[j][2] < a[i].request[2]
    <3>1. PICK l \in 1..Len(asked) : a[i] = asked[l]
      BY <1>2
    <3> QED  BY <2>1, <3>1 DEF Line
  <2>2. ASSUME NEW i \in 1..Len(a), NEW j \in 1..Len(a), i < j, a[i].id = id, a[j].id = id
        PROVE  a[i].request[2] < a[j].request[2]
    <3>1. PICK l \in 1..Len(asked), m \in 1..Len(asked) : a[i] = asked[l] /\ a[j] = asked[m] /\ l < m
      BY <1>2, <1>3, <2>2
    <3>2. asked[l].request[2] < asked[m].request[2]
      BY <2>2, <3>1 DEF Line
    <3> QED  BY <3>1, <3>2
  <2> QED  BY <1>5, <2>1, <2>2 DEF Line
<1> QED  BY <1>6 DEF a

\* The frame that is handled is the connection's, and its answer is given.
LEMMA LineAnswers ==
  ASSUME NEW c \in Clients, NEW n \in Nat, NEW id \in Nat, NEW given \in Seq(Request),
         NEW asked \in Seq(Frame), NEW unread \in Seq(Request), asked # <<>>,
         Head(asked).id = id, Head(asked).request \notin Unanswered,
         Line(c, n, id, given, asked, unread)
  PROVE  Line(c, n, id, Append(given, Head(asked).request), Tail(asked), unread)
<1> DEFINE a == Tail(asked)
           g == Append(given, Head(asked).request)
           N == {c} \X (1..(n - Len(unread)))
           r == Head(asked).request
<1>1. /\ Len(asked) \in Nat /\ Len(asked) > 0 /\ Head(asked) = asked[1]
      /\ Len(a) = Len(asked) - 1
      /\ \A i \in 1..Len(a) : a[i] = asked[i + 1]
  BY LenProperties, HeadTailProperties, EmptySeq
<1>2. Head(asked) \in Frame
  BY HeadTailProperties
<1>3. r \in Request
  BY <1>2 DEF Frame
<1>4. /\ Len(given) \in Nat /\ Len(g) = Len(given) + 1 /\ g[Len(given) + 1] = r
      /\ \A i \in 1..Len(given) : g[i] = given[i]
  BY <1>3, AppendProperties, LenProperties
<1>5. 1 \in 1..Len(asked) /\ asked[1].id = id /\ asked[1].request = r /\ r \notin Unanswered
  BY <1>1
<1>6. r \in N \ Unanswered /\ \A j \in 1..Len(given) : given[j][2] < r[2]
  BY <1>5 DEF Line
<1>7. /\ \A i \in 1..Len(asked) : asked[i].id = id => asked[i].request \in N
      /\ \A i \in 1..Len(asked) : asked[i].id = id =>
           \A j \in 1..Len(given) : given[j][2] < asked[i].request[2]
      /\ \A i, j \in 1..Len(asked) : i < j /\ asked[i].id = id /\ asked[j].id = id =>
           asked[i].request[2] < asked[j].request[2]
      /\ \A q \in N \ Unanswered :
           \/ \E i \in 1..Len(given) : given[i] = q
           \/ \E i \in 1..Len(asked) : asked[i].id = id /\ asked[i].request = q
      /\ \A i \in 1..Len(given) : given[i] \in N \ Unanswered
      /\ \A i, j \in 1..Len(given) : i < j => given[i][2] < given[j][2]
      /\ Len(unread) <= n
      /\ \A i \in 1..Len(unread) : unread[i] = <<c, (n - Len(unread)) + i>>
  BY DEF Line
<1>h. N = {c} \X (1..(n - Len(unread)))
  OBVIOUS
<1> HIDE DEF a, g, N, r
<1>8. \A i \in 1..Len(a) : i + 1 \in 1..Len(asked) /\ 1 < i + 1 /\ a[i] = asked[i + 1]
  BY <1>1
<1>9. \A i, j \in 1..Len(a) : i < j => i + 1 < j + 1
  BY <1>1
<1>10. \A i \in 1..Len(asked) : i = 1 \/ \E j \in 1..Len(a) : a[j] = asked[i]
  <2> SUFFICES ASSUME NEW i \in 1..Len(asked), i # 1 PROVE \E j \in 1..Len(a) : a[j] = asked[i]
    OBVIOUS
  <2>1. i - 1 \in 1..Len(a) /\ (i - 1) + 1 = i
    BY <1>1
  <2> QED  BY <1>8, <2>1
<1>11. \A j \in 1..Len(g) : j \in 1..Len(given) \/ j = Len(given) + 1
  BY <1>4
<1>12. Len(given) + 1 \in 1..Len(g) /\ 1..Len(given) \subseteq 1..Len(g)
  BY <1>4
<1>13. \A i \in 1..Len(g) : g[i] \in N \ Unanswered
  BY <1>4, <1>6, <1>7, <1>11
<1>14. ASSUME NEW i \in 1..Len(g), NEW j \in 1..Len(g), i < j PROVE g[i][2] < g[j][2]
  <2>1. i \in 1..Len(given)
    BY <1>4, <1>14
  <2> QED  BY <1>4, <1>6, <1>7, <1>11, <1>14, <2>1
<1>15. ASSUME NEW i \in 1..Len(a), a[i].id = id
       PROVE  a[i].request \in N /\ \A j \in 1..Len(g) : g[j][2] < a[i].request[2]
  <2>1. PICK l \in 1..Len(asked) : 1 < l /\ a[i] = asked[l]
    BY <1>8
  <2>2. asked[l].id = id
    BY <1>15, <2>1
  <2>3. r[2] < asked[l].request[2] /\ asked[l].request \in N
    BY <1>5, <1>7, <2>1, <2>2
  <2>4. \A j \in 1..Len(given) : given[j][2] < asked[l].request[2]
    BY <1>7, <2>2
  <2>5. \A j \in 1..Len(g) : g[j][2] < asked[l].request[2]
    BY <1>4, <1>11, <2>3, <2>4
  <2> QED  BY <2>1, <2>3, <2>5
<1>16. ASSUME NEW i \in 1..Len(a), NEW j \in 1..Len(a), i < j, a[i].id = id, a[j].id = id
       PROVE  a[i].request[2] < a[j].request[2]
  <2>1. PICK l \in 1..Len(asked), m \in 1..Len(asked) : a[i] = asked[l] /\ a[j] = asked[m] /\ l < m
    BY <1>8, <1>9, <1>16
  <2>2. asked[l].request[2] < asked[m].request[2]
    BY <1>7, <1>16, <2>1
  <2> QED  BY <2>1, <2>2
<1>17. ASSUME NEW q \in N \ Unanswered
       PROVE  \/ \E i \in 1..Len(g) : g[i] = q
              \/ \E i \in 1..Len(a) : a[i].id = id /\ a[i].request = q
  <2>1. CASE \E i \in 1..Len(given) : given[i] = q
    BY <1>4, <1>12, <2>1
  <2>2. CASE \E i \in 1..Len(asked) : asked[i].id = id /\ asked[i].request = q
    <3>1. PICK i \in 1..Len(asked) : asked[i].id = id /\ asked[i].request = q
      BY <2>2
    <3>2. CASE i = 1
      BY <1>4, <1>5, <1>12, <3>1, <3>2
    <3>3. CASE i # 1
      BY <1>10, <3>1, <3>3
    <3> QED  BY <3>2, <3>3
  <2> QED  BY <1>7, <2>1, <2>2
<1>18. Line(c, n, id, g, a, unread)
  BY <1>h, <1>7, <1>13, <1>14, <1>15, <1>16, <1>17 DEF Line
<1> QED  BY <1>18 DEF a, g, r

\* Nothing has been read.
LEMMA LineStarts ==
  ASSUME NEW c \in Clients, NEW n \in Nat, NEW id \in Nat, 
         NEW asked \in Seq(Frame), NEW unread \in Seq(Request), Len(unread) = n,
         \A i \in 1..Len(unread) : unread[i] = <<c, i>>,
         \A i \in 1..Len(asked) : asked[i].id # id
  PROVE  Line(c, n, id, <<>>, asked, unread)
<1>1. n - Len(unread) = 0 /\ 1..0 = {} /\ Len(<<>>) = 0 /\ Len(unread) <= n
  OBVIOUS
<1>2. \A i \in 1..Len(unread) : unread[i] = <<c, 0 + i>>
  OBVIOUS
<1> QED  BY <1>1, <1>2 DEF Line

\* What a client has been sent is the first of what it has been given.
LEMMA LineIsInOrder ==
  ASSUME NEW c \in Clients, NEW n \in Nat, NEW id \in Nat, NEW answers \in Seq(Request),
         NEW rest \in Seq(Request), NEW asked \in Seq(Frame), NEW unread \in Seq(Request),
         Line(c, n, id, answers \o rest, asked, unread)
  PROVE  InOrder(answers, c, n)
<1> DEFINE g == answers \o rest
           k == n - Len(unread)
<1>1. Len(answers) \in Nat /\ Len(rest) \in Nat /\ Len(unread) \in Nat
  BY LenProperties
<1>2. Len(g) = Len(answers) + Len(rest)
  BY ConcatProperties
<1>3. \A i \in 1..(Len(answers) + Len(rest)) :
        g[i] = IF i <= Len(answers) THEN answers[i] ELSE rest[i - Len(answers)]
  BY ConcatProperties
<1> HIDE DEF g
<1>4. \A i \in 1..Len(answers) : i \in 1..Len(g) /\ g[i] = answers[i]
  BY <1>1, <1>2, <1>3
<1>5. k \in Nat /\ k <= n
  BY <1>1 DEF Line
<1>6. /\ \A i \in 1..Len(g) : g[i] \in ({c} \X (1..k)) \ Unanswered
      /\ \A i, j \in 1..Len(g) : i < j => g[i][2] < g[j][2]
      /\ \A i \in 1..Len(asked) : asked[i].id = id =>
            \A j \in 1..Len(g) : g[j][2] < asked[i].request[2]
      /\ \A r \in ({c} \X (1..k)) \ Unanswered :
           \/ \E i \in 1..Len(g) : g[i] = r
           \/ \E i \in 1..Len(asked) : asked[i].id = id /\ asked[i].request = r
  BY DEF Line, g
<1>7. 1..k \subseteq 1..n
  BY <1>5
<1>8. \A i \in 1..Len(answers) : answers[i] \in ({c} \X (1..k)) \ Unanswered
  BY <1>4, <1>6
<1> HIDE DEF k
<1>9. \A i \in 1..Len(answers) : answers[i] \in Answerable(c, n)
  BY <1>7, <1>8 DEF Answerable
<1>10. \A i, j \in 1..Len(answers) : i < j => answers[i][2] < answers[j][2]
  BY <1>4, <1>6
<1>11. ASSUME NEW i \in 1..Len(answers), NEW r \in Answerable(c, n), r[2] <= answers[i][2]
       PROVE  \E j \in 1..Len(answers) : answers[j] = r
  <2>1. answers[i][2] \in 1..k
    BY <1>8
  <2>2. r[2] \in 1..n /\ r = <<c, r[2]>> /\ r \notin Unanswered
    BY DEF Answerable
  <2>3. r[2] \in 1..k
    BY <1>5, <1>11, <2>1, <2>2
  <2>4. r \in ({c} \X (1..k)) \ Unanswered
    BY <2>2, <2>3
  <2>5. ~\E j \in 1..Len(asked) : asked[j].id = id /\ asked[j].request = r
    <3> SUFFICES ASSUME NEW j \in 1..Len(asked), asked[j].id = id, asked[j].request = r PROVE FALSE
      OBVIOUS
    <3>1. g[i][2] < r[2]
      BY <1>4, <1>6
    <3>2. answers[i][2] < r[2]
      BY <1>4, <3>1
    <3>3. answers[i][2] \in Nat /\ r[2] \in Nat
      BY <1>5, <2>1, <2>3
    <3> QED  BY <1>11, <3>2, <3>3
  <2>6. PICK j \in 1..Len(g) : g[j] = r
    BY <1>6, <2>4, <2>5
  <2>7. j \in 1..Len(answers)
    <3> SUFFICES ASSUME ~(j \in 1..Len(answers)) PROVE FALSE
      OBVIOUS
    <3>1. i \in 1..Len(g) /\ i < j
      BY <1>1, <1>2, <1>4
    <3>2. g[i][2] < r[2]
      BY <1>6, <2>6, <3>1
    <3>3. answers[i][2] < r[2]
      BY <1>4, <3>2
    <3>4. answers[i][2] \in Nat /\ r[2] \in Nat
      BY <1>5, <2>1, <2>3
    <3> QED  BY <1>11, <3>3, <3>4
  <2> QED  BY <1>4, <2>6, <2>7
<1> QED  BY <1>9, <1>10, <1>11 DEF InOrder

-----------------------------------------------------------------------------
(* The line that each connection is.                                       *)

\* What has been read but not been handled, and what a client has been sent or is to be.
Asked == job \o (toServer \o frames)
Given(fd) == replies[contexts[fd].client] \o Pending(fd)

\* The requests of a client that is connected are in a line: answered, read, unread.
InLine ==
  \A fd \in DOMAIN contexts :
    peer[contexts[fd].client] = "open" =>
      Line(contexts[fd].client, sent[contexts[fd].client], contexts[fd].id, Given(fd), Asked,
           toRead[contexts[fd].client])

\* Nothing of a client that is not connected yet has been read.
NothingRead ==
  \A c \in Clients : peer[c] \in {"away", "open"} /\ ~Connected(c) =>
    /\ replies[c] = <<>> /\ Len(toRead[c]) = sent[c]
    /\ \A i \in 1..Len(toRead[c]) : toRead[c][i] = <<c, i>>

\* What has been read came on connections that have been given out.
AskedOnOld == \A i \in 1..Len(Asked) : Asked[i].id < nextId

\* What every step keeps of the lines.
LineInv == InLine /\ NothingRead /\ AskedOnOld /\ AnswersInOrder

-----------------------------------------------------------------------------
\* The frames on their way.
LEMMA AskedIsTyped ==
  ASSUME ConnInv
  PROVE  /\ job \in Seq(Frame) /\ toServer \in Seq(Frame) /\ frames \in Seq(Frame)
         /\ toServer \o frames \in Seq(Frame) /\ Asked \in Seq(Frame)
<1>1. job \in Seq(Frame) /\ toServer \in Seq(Frame) /\ frames \in Seq(Frame)
  BY DEF ConnInv, TypeOK
<1>2. toServer \o frames \in Seq(Frame)
  BY <1>1, ConcatProperties
<1> QED  BY <1>1, <1>2, ConcatProperties DEF Asked

\* A first element goes from one sequence to the end of the one before it.
LEMMA HeadMoves ==
  ASSUME NEW S, NEW s \in Seq(S), NEW t \in Seq(S), t # <<>>
  PROVE  Append(s, Head(t)) \o Tail(t) = s \o t
<1>1. Head(t) \in S /\ Tail(t) \in Seq(S) /\ Len(t) \in Nat /\ Len(t) > 0 /\ Len(s) \in Nat
      /\ Len(Tail(t)) = Len(t) - 1 /\ Head(t) = t[1]
      /\ \A i \in 1..Len(Tail(t)) : Tail(t)[i] = t[i + 1]
  BY HeadTailProperties, LenProperties, EmptySeq
<1>2. <<Head(t)>> \in Seq(S) /\ Append(s, Head(t)) = s \o <<Head(t)>>
  BY <1>1, AppendIsConcat
<1>3. <<Head(t)>> \o Tail(t) = t
  <2> DEFINE u == <<Head(t)>> \o Tail(t)
  <2>1. u \in Seq(S) /\ Len(u) = Len(t)
    BY <1>1, <1>2, ConcatProperties
  <2>2. \A i \in 1..Len(t) : u[i] = t[i]
    <3> TAKE i \in 1..Len(t)
    <3>1. Len(<<Head(t)>>) = 1 /\ <<Head(t)>>[1] = Head(t)
      OBVIOUS
    <3>2. u[i] = IF i <= 1 THEN <<Head(t)>>[i] ELSE Tail(t)[i - 1]
      BY <1>1, <1>2, <3>1, ConcatProperties
    <3>3. CASE i = 1
      BY <1>1, <3>1, <3>2, <3>3
    <3>4. CASE i # 1
      <4>1. i - 1 \in 1..Len(Tail(t)) /\ ~(i <= 1) /\ (i - 1) + 1 = i
        BY <1>1, <3>4
      <4> QED  BY <1>1, <3>2, <4>1
    <3> QED  BY <3>3, <3>4
  <2> HIDE DEF u
  <2>3. u = t
    BY <2>1, <2>2, SeqEqual
  <2> QED  BY <2>3 DEF u
<1>4. (s \o <<Head(t)>>) \o Tail(t) = s \o (<<Head(t)>> \o Tail(t))
  BY <1>1, <1>2, ConcatAssociative
<1> QED  BY <1>2, <1>3, <1>4

\* Pushing a frame and popping one leave what has been read as it is.
LEMMA PushKeepsAsked ==
  ASSUME ConnInv, frames # <<>>, toServer' = Append(toServer, Head(frames)), frames' = Tail(frames), job' = job
  PROVE  Asked' = Asked
<1>1. toServer' \o frames' = toServer \o frames
  BY AskedIsTyped, HeadMoves
<1> QED  BY <1>1 DEF Asked

LEMMA PopKeepsAsked ==
  ASSUME ConnInv, job = <<>>, toServer # <<>>, job' = <<Head(toServer)>>, toServer' = Tail(toServer),
         frames' = frames
  PROVE  Asked' = Asked
<1>1. /\ toServer \in Seq(Frame) /\ frames \in Seq(Frame) /\ toServer \o frames \in Seq(Frame)
      /\ Head(toServer) \in Frame /\ Tail(toServer) \in Seq(Frame) /\ <<>> \in Seq(Frame)
  BY AskedIsTyped, HeadTailProperties, EmptySeq
<1>2. <<Head(toServer)>> \in Seq(Frame) /\ Append(<<>>, Head(toServer)) = <<Head(toServer)>>
  BY <1>1
<1>3. <<Head(toServer)>> \o Tail(toServer) = toServer
  <2>1. Append(<<>>, Head(toServer)) \o Tail(toServer) = <<>> \o toServer
    BY <1>1, HeadMoves
  <2> QED  BY <1>1, <1>2, <2>1, ConcatEmptySeq
<1>4. <<Head(toServer)>> \o (Tail(toServer) \o frames) = (<<Head(toServer)>> \o Tail(toServer)) \o frames
  BY <1>1, <1>2, ConcatAssociative
<1>5. Asked = toServer \o frames
  BY <1>1, ConcatEmptySeq DEF Asked
<1> QED  BY <1>3, <1>4, <1>5 DEF Asked

\* Handling the frame in hand takes the first, and reading adds at the end.
LEMMA HandlingTakesAsked ==
  ASSUME ConnInv, job # <<>>, job' = <<>>, UNCHANGED <<toServer, frames>>
  PROVE  Asked # <<>> /\ Head(Asked) = Head(job) /\ Asked' = Tail(Asked)
<1> DEFINE r == toServer \o frames
<1>1. /\ r \in Seq(Frame) /\ job \in Seq(Frame) /\ Len(job) <= 1 /\ Len(job) \in Nat /\ Len(job) > 0
      /\ Len(r) \in Nat /\ Asked = job \o r
  BY AskedIsTyped, LenProperties, EmptySeq DEF ConnInv, TypeOK, Asked
<1>2. Asked' = r
  <2>1. Asked' = <<>> \o r
    BY DEF Asked
  <2> QED  BY <1>1, <2>1, ConcatEmptySeq
<1> HIDE DEF r
<1>3. Len(job) = 1 /\ Head(job) = job[1]
  <2> DEFINE n == Len(job)
  <2>1. n \in Nat /\ n > 0 /\ n <= 1
    BY <1>1
  <2> HIDE DEF n
  <2>2. n = 1
    BY <2>1
  <2> QED  BY <2>2 DEF n
<1>4. /\ Asked \in Seq(Frame) /\ Len(Asked) = 1 + Len(r)
      /\ \A i \in 1..(1 + Len(r)) : Asked[i] = IF i <= 1 THEN job[i] ELSE r[i - 1]
  <2>1. /\ job \o r \in Seq(Frame) /\ Len(job \o r) = Len(job) + Len(r)
        /\ \A i \in 1..(Len(job) + Len(r)) : (job \o r)[i] = IF i <= Len(job) THEN job[i] ELSE r[i - Len(job)]
    BY <1>1, ConcatProperties
  <2> QED  BY <1>1, <1>3, <2>1
<1>5. Asked # <<>> /\ Head(Asked) = Asked[1] /\ Asked[1] = job[1]
  BY <1>1, <1>4
<1>6. /\ Tail(Asked) \in Seq(Frame) /\ Len(Tail(Asked)) = Len(r)
      /\ \A i \in 1..Len(r) : Tail(Asked)[i] = Asked[i + 1]
  BY <1>1, <1>4, <1>5, HeadTailProperties
<1>7. \A i \in 1..Len(r) : Tail(Asked)[i] = r[i]
  <2> TAKE i \in 1..Len(r)
  <2>1. i + 1 \in 1..(1 + Len(r)) /\ ~(i + 1 <= 1) /\ (i + 1) - 1 = i
    BY <1>1
  <2> QED  BY <1>4, <1>6, <2>1
<1>8. Tail(Asked) = r
  BY <1>1, <1>6, <1>7, SeqEqual
<1> QED  BY <1>2, <1>3, <1>5, <1>8

LEMMA ReadingAddsAsked ==
  ASSUME ConnInv, frames = <<>>, frames' \in Seq(Frame), UNCHANGED <<job, toServer>>
  PROVE  Asked' = Asked \o frames'
<1>1. job \in Seq(Frame) /\ toServer \in Seq(Frame)
  BY AskedIsTyped
<1>2. Asked = job \o toServer
  BY <1>1, ConcatEmptySeq DEF Asked
<1>3. (job \o toServer) \o frames' = job \o (toServer \o frames')
  BY <1>1, ConcatAssociative
<1> QED  BY <1>2, <1>3 DEF Asked

\* The types of what a connection's line is made of.
LEMMA LineIsTyped ==
  ASSUME ConnInv, NEW fd \in DOMAIN contexts
  PROVE  /\ contexts[fd].client \in Clients /\ contexts[fd].id \in Nat
         /\ contexts[fd].id \in DOMAIN toClient
         /\ sent[contexts[fd].client] \in Nat /\ toRead[contexts[fd].client] \in Seq(Request)
         /\ replies[contexts[fd].client] \in Seq(Request)
         /\ Pending(fd) \in Seq(Request) /\ Given(fd) \in Seq(Request)
<1>1. /\ contexts[fd].client \in Clients /\ contexts[fd].id \in Nat /\ Pending(fd) \in Seq(Request)
      /\ contexts[fd].id \in DOMAIN toClient
  BY PendingIsTyped DEF Context
<1>2. /\ sent[contexts[fd].client] \in Nat /\ toRead[contexts[fd].client] \in Seq(Request)
      /\ replies[contexts[fd].client] \in Seq(Request)
  BY <1>1 DEF ConnInv, TypeOK
<1>3. Given(fd) \in Seq(Request)
  BY <1>1, <1>2, ConcatProperties DEF Given
<1> QED  BY <1>1, <1>2, <1>3

\* A step that leaves the lines alone; connections may go away.
LEMMA LinesStay ==
  ASSUME ConnInv, LineInv, Asked' = Asked, UNCHANGED <<sent, replies, toRead, nextId>>,
         DOMAIN contexts' \subseteq DOMAIN contexts,
         \A fd \in DOMAIN contexts' : contexts'[fd] = contexts[fd],
         \A fd \in DOMAIN contexts' : toClient'[contexts[fd].id] = toClient[contexts[fd].id],
         \A c \in Clients : /\ peer'[c] = "open" /\ peer[c] # "open" => ~Connected(c)
                            /\ peer'[c] \in {"away", "open"} /\ ~Connected(c)' =>
                                 peer[c] \in {"away", "open"} /\ ~Connected(c)
  PROVE  LineInv'
<1>1. InLine'
  <2> SUFFICES ASSUME NEW fd \in DOMAIN contexts', peer'[contexts'[fd].client] = "open"
               PROVE  Line(contexts'[fd].client, sent'[contexts'[fd].client], contexts'[fd].id, Given(fd)', Asked',
                           toRead'[contexts'[fd].client])
    BY DEF InLine
  <2>1. fd \in DOMAIN contexts /\ contexts'[fd] = contexts[fd] /\ contexts[fd].client \in Clients
    BY LineIsTyped
  <2>2. Connected(contexts[fd].client)
    BY <2>1 DEF Connected
  <2>3. peer[contexts[fd].client] = "open"
    BY <2>1, <2>2
  <2>4. Given(fd)' = Given(fd)
    BY <2>1 DEF Given, Pending
  <2> QED  BY <2>1, <2>3, <2>4 DEF LineInv, InLine
<1>2. NothingRead'
  BY DEF LineInv, NothingRead
<1>3. AskedOnOld'
  BY DEF LineInv, AskedOnOld
<1>4. AnswersInOrder'
  BY DEF LineInv, AnswersInOrder
<1> QED  BY <1>1, <1>2, <1>3, <1>4 DEF LineInv

\* At the start nothing is asked.
LEMMA LineInit == Init => LineInv
<1> SUFFICES ASSUME Init PROVE LineInv
  OBVIOUS
<1>1. DOMAIN contexts = {} /\ Len(<<>>) = 0
  BY DEF Init
<1>2. InLine
  BY <1>1 DEF InLine
<1>3. NothingRead
  BY <1>1 DEF Init, NothingRead
<1>4. AskedOnOld
  <2>1. Asked = <<>>
    BY EmptySeq, ConcatEmptySeq DEF Init, Asked
  <2> QED  BY <1>1, <2>1 DEF AskedOnOld
<1>5. AnswersInOrder
  BY <1>1 DEF Init, AnswersInOrder, InOrder
<1> QED  BY <1>2, <1>3, <1>4, <1>5 DEF LineInv

\* A client asks once more.
LEMMA SendKeepsLines ==
  ASSUME ConnInv, LineInv, NEW c \in Clients, ClientSends(c),
         UNCHANGED <<reactorVars, businessVars, mailVars>>
  PROVE  LineInv'
<1> DEFINE r == <<c, sent[c] + 1>>
<1>1. /\ peer[c] = "open" /\ UNCHANGED <<peer, replies, contexts, toClient, nextId, job, toServer, frames>>
      /\ sent' = [sent EXCEPT ![c] = @ + 1] /\ toRead' = [toRead EXCEPT ![c] = Append(@, r)]
  BY DEF ClientSends, reactorVars, businessVars, mailVars
<1>2. /\ sent \in [Clients -> Nat] /\ toRead \in [Clients -> Seq(Request)] /\ r \in Request
      /\ replies \in [Clients -> Seq(Request)]
  BY DEF ConnInv, TypeOK, Request
<1>3. /\ sent'[c] = sent[c] + 1 /\ toRead'[c] = Append(toRead[c], r)
      /\ \A d \in Clients : d # c => sent'[d] = sent[d] /\ toRead'[d] = toRead[d]
  BY <1>1, <1>2
<1>4. Asked' = Asked /\ (\A fd : Given(fd)' = Given(fd)) /\ (\A d : Connected(d)' <=> Connected(d))
  BY <1>1 DEF Asked, Given, Pending, Connected
<1>5. ASSUME NEW fd \in DOMAIN contexts, contexts[fd].client = c
      PROVE  Line(c, sent'[c], contexts[fd].id, Given(fd), Asked, toRead'[c])
  <2>1. Line(c, sent[c], contexts[fd].id, Given(fd), Asked, toRead[c])
    BY <1>1, <1>5 DEF LineInv, InLine
  <2> QED  BY <1>2, <1>3, <1>5, <2>1, LineIsTyped, AskedIsTyped, LineSends
<1>6. InLine'
  <2> SUFFICES ASSUME NEW fd \in DOMAIN contexts, peer[contexts[fd].client] = "open"
               PROVE  Line(contexts[fd].client, sent'[contexts[fd].client], contexts[fd].id, Given(fd), Asked,
                           toRead'[contexts[fd].client])
    BY <1>1, <1>4 DEF InLine
  <2>1. CASE contexts[fd].client = c
    BY <1>5, <2>1
  <2>2. CASE contexts[fd].client # c
    BY <1>3, <2>2, LineIsTyped DEF LineInv, InLine
  <2> QED  BY <2>1, <2>2
<1>7. NothingRead'
  <2> SUFFICES ASSUME NEW d \in Clients, peer[d] \in {"away", "open"}, ~Connected(d)
               PROVE  /\ replies[d] = <<>> /\ Len(toRead'[d]) = sent'[d]
                      /\ \A i \in 1..Len(toRead'[d]) : toRead'[d][i] = <<d, i>>
    BY <1>1, <1>4 DEF NothingRead
  <2>1. /\ replies[d] = <<>> /\ Len(toRead[d]) = sent[d]
        /\ \A i \in 1..Len(toRead[d]) : toRead[d][i] = <<d, i>>
    BY DEF LineInv, NothingRead
  <2>2. CASE d # c
    BY <1>3, <2>1, <2>2
  <2>3. CASE d = c
    <3>1. /\ Len(toRead'[c]) = sent[c] + 1 /\ toRead'[c][sent[c] + 1] = r
          /\ \A i \in 1..sent[c] : toRead'[c][i] = toRead[c][i]
      BY <1>2, <1>3, <2>1, <2>3, AppendProperties
    <3>2. \A i \in 1..(sent[c] + 1) : i \in 1..sent[c] \/ i = sent[c] + 1
      BY <1>2
    <3> QED  BY <1>3, <2>1, <2>3, <3>1, <3>2
  <2> QED  BY <2>2, <2>3
<1>8. AnswersInOrder'
  <2> SUFFICES ASSUME NEW d \in Clients PROVE InOrder(replies[d], d, sent'[d])
    BY <1>1 DEF AnswersInOrder
  <2>1. CASE d # c
    BY <1>3, <2>1 DEF LineInv, AnswersInOrder
  <2>2. CASE d = c /\ Connected(c)
    <3>1. PICK fd \in DOMAIN contexts : contexts[fd].client = c
      BY <2>2 DEF Connected
    <3>2. Line(c, sent'[c], contexts[fd].id, replies[c] \o Pending(fd), Asked, toRead'[c])
      BY <1>5, <3>1 DEF Given
    <3>3. toRead'[c] \in Seq(Request) /\ sent'[c] \in Nat
      BY <1>2, <1>3, AppendProperties
    <3>4. contexts[fd].id \in Nat /\ replies[c] \in Seq(Request) /\ Pending(fd) \in Seq(Request)
      BY <3>1, LineIsTyped
    <3>5. InOrder(replies[c], c, sent'[c])
      BY <3>2, <3>3, <3>4, AskedIsTyped, LineIsInOrder
    <3> QED  BY <2>2, <3>5
  <2>3. CASE d = c /\ ~Connected(c)
    <3>1. replies[c] = <<>> /\ Len(<<>>) = 0
      BY <1>1, <2>3 DEF LineInv, NothingRead
    <3> QED  BY <2>3, <3>1 DEF InOrder
  <2> QED  BY <2>1, <2>2, <2>3
<1>9. AskedOnOld'
  BY <1>1, <1>4 DEF LineInv, AskedOnOld
<1> QED  BY <1>6, <1>7, <1>8, <1>9 DEF LineInv

\* A client that waits is accepted, with a number nothing has been read under.
LEMMA AcceptKeepsLines ==
  ASSUME ConnInv, LineInv, Accept
  PROVE  LineInv'
<1> DEFINE c == Head(backlog)
<1>1. /\ UNCHANGED <<sent, replies, toRead, job, toServer, frames>>
  BY DEF Accept, businessVars
<1>2. Asked' = Asked
  BY <1>1 DEF Asked
<1>3. c \in Clients /\ Waits(c) /\ ~Connected(c) /\ peer[c] # "away"
  BY AcceptEffect DEF ConnInv, OneConnectionEach
<1> HIDE DEF c
<1>4. CASE /\ UNCHANGED <<contexts, toClient, nextId>>
           /\ \A d \in Clients : peer'[d] = IF d = c /\ peer[d] = "open" THEN "refused" ELSE peer[d]
  <2>1. \A d : Connected(d)' <=> Connected(d)
    BY <1>4 DEF Connected
  <2> QED  BY <1>1, <1>2, <1>4, <2>1, LinesStay
<1>5. ASSUME NEW fd \in Fds \ DOMAIN contexts,
             DOMAIN contexts' = DOMAIN contexts \cup {fd},
             \A gd \in DOMAIN contexts : contexts'[gd] = contexts[gd],
             contexts'[fd] = [id |-> nextId, client |-> c, out |-> <<>>, pollOut |-> FALSE],
             \A id \in DOMAIN toClient : id # nextId /\ toClient'[id] = toClient[id],
             toClient'[nextId] = <<>>, nextId' = nextId + 1, peer' = peer
      PROVE  LineInv'
  <2>1. \A gd \in DOMAIN contexts : Given(gd)' = Given(gd)
    <3> SUFFICES ASSUME NEW gd \in DOMAIN contexts PROVE Given(gd)' = Given(gd)
      OBVIOUS
    <3>1. contexts'[gd] = contexts[gd] /\ toClient'[contexts[gd].id] = toClient[contexts[gd].id]
      BY <1>5, LineIsTyped
    <3> QED  BY <1>1, <3>1 DEF Given, Pending
  <2>2. contexts'[fd].client = c /\ contexts'[fd].id = nextId /\ contexts'[fd].out = <<>> /\ nextId \in Nat
    BY <1>5 DEF ConnInv, TypeOK
  <2>3. Given(fd)' = replies[c]
    <3>1. <<>> \o <<>> = <<>> /\ replies[c] \o <<>> = replies[c]
      BY <1>3, ConcatEmptySeq DEF ConnInv, TypeOK
    <3> QED  BY <1>1, <1>5, <2>2, <3>1 DEF Given, Pending
  <2>4. InLine'
    <3> SUFFICES ASSUME NEW gd \in DOMAIN contexts', peer'[contexts'[gd].client] = "open"
                 PROVE  Line(contexts'[gd].client, sent[contexts'[gd].client], contexts'[gd].id, Given(gd)', Asked,
                             toRead[contexts'[gd].client])
      BY <1>1, <1>2 DEF InLine
    <3>1. CASE gd \in DOMAIN contexts
      BY <1>5, <2>1, <3>1 DEF LineInv, InLine
    <3>2. CASE gd = fd
      <4>1. /\ replies[c] = <<>> /\ Len(toRead[c]) = sent[c]
            /\ \A i \in 1..Len(toRead[c]) : toRead[c][i] = <<c, i>>
        BY <1>3, <1>5, <2>2, <3>2 DEF LineInv, NothingRead
      <4>2. sent[c] \in Nat /\ toRead[c] \in Seq(Request)
        BY <1>3 DEF ConnInv, TypeOK
      <4>3. \A i \in 1..Len(Asked) : Asked[i].id # nextId
        <5>1. \A i \in 1..Len(Asked) : Asked[i].id < nextId
          BY DEF LineInv, AskedOnOld
        <5> QED  BY <2>2, <5>1
      <4>4. Line(c, sent[c], nextId, <<>>, Asked, toRead[c])
        BY <1>3, <2>2, <4>1, <4>2, <4>3, AskedIsTyped, LineStarts
      <4> QED  BY <2>2, <2>3, <3>2, <4>1, <4>4
    <3> QED  BY <1>5, <3>1, <3>2
  <2>5. NothingRead'
    <3>1. \A d : Connected(d) => Connected(d)'
      BY <1>5 DEF Connected
    <3> QED  BY <1>1, <1>5, <3>1 DEF LineInv, NothingRead
  <2>6. AskedOnOld'
    <3>1. \A i \in 1..Len(Asked) : Asked[i].id < nextId /\ Asked[i].id \in Nat
      <4>1. \A i \in 1..Len(Asked) : Asked[i] \in Frame
        BY AskedIsTyped, ElementOfSeq
      <4> QED  BY <4>1 DEF LineInv, AskedOnOld, Frame
    <3> QED  BY <1>2, <1>5, <2>2, <3>1 DEF AskedOnOld
  <2>7. AnswersInOrder'
    BY <1>1 DEF LineInv, AnswersInOrder
  <2> QED  BY <2>4, <2>5, <2>6, <2>7 DEF LineInv
<1> QED  BY <1>4, <1>5, AcceptEffect DEF c

\* The requests of one client are read, all of them.
LEMMA ReadKeepsLines ==
  ASSUME ConnInv, LineInv, NEW fd \in DOMAIN contexts, ReadAll(fd), frames = <<>>,
         UNCHANGED <<peer, sent, replies, contexts, toClient, nextId, job, toServer>>
  PROVE  LineInv'
<1> DEFINE c == contexts[fd].client
           id == contexts[fd].id
<1>1. /\ frames' \in Seq(Frame) /\ Len(frames') = Len(toRead[c])
      /\ \A i \in 1..Len(toRead[c]) : frames'[i] = [id |-> id, request |-> toRead[c][i]]
      /\ toRead' \in [Clients -> Seq(Request)] /\ toRead'[c] = <<>>
      /\ \A d \in Clients : d # c => toRead'[d] = toRead[d]
  BY ReadAllEffect
<1>2. Asked' = Asked \o frames'
  BY <1>1, ReadingAddsAsked
<1>3. /\ c \in Clients /\ id \in Nat /\ Connected(c)
      /\ \A gd \in DOMAIN contexts : gd # fd => contexts[gd].id # id /\ contexts[gd].client # c
  BY LineIsTyped DEF Connected, ConnInv, IdsAreNew, OneConnectionEach
<1>4. \A gd : Given(gd)' = Given(gd) 
  BY DEF Given, Pending
<1>5. \A i \in 1..Len(frames') : frames'[i].id = id
  <2> TAKE i \in 1..Len(frames')
  <2>1. frames'[i] = [id |-> id, request |-> toRead[c][i]]
    BY <1>1
  <2> QED  BY <2>1
<1>6. InLine'
  <2> SUFFICES ASSUME NEW gd \in DOMAIN contexts, peer[contexts[gd].client] = "open"
               PROVE  Line(contexts[gd].client, sent[contexts[gd].client], contexts[gd].id, Given(gd),
                           Asked \o frames', toRead'[contexts[gd].client])
    BY <1>2, <1>4 DEF InLine
  <2>1. Line(contexts[gd].client, sent[contexts[gd].client], contexts[gd].id, Given(gd), Asked,
             toRead[contexts[gd].client])
    BY DEF LineInv, InLine
  <2>2. CASE gd = fd
    <3>1. Line(c, sent[c], id, Given(fd), Asked \o frames', <<>>)
      BY <1>1, <2>1, <2>2, LineIsTyped, AskedIsTyped, LineReads
    <3> QED  BY <1>1, <2>2, <3>1
  <2>3. CASE gd # fd
    <3>1. \A i \in 1..Len(frames') : frames'[i].id # contexts[gd].id
      BY <1>3, <1>5, <2>3
    <3>2. Line(contexts[gd].client, sent[contexts[gd].client], contexts[gd].id, Given(gd), Asked \o frames',
             toRead[contexts[gd].client])
      BY <1>1, <2>1, <3>1, LineIsTyped, AskedIsTyped, LineLetsOthersRead
    <3>3. toRead'[contexts[gd].client] = toRead[contexts[gd].client]
      BY <1>1, <1>3, <2>3, LineIsTyped
    <3> QED  BY <3>2, <3>3
  <2> QED  BY <2>2, <2>3
<1>7. NothingRead'
  <2>1. \A d : Connected(d)' <=> Connected(d)
    BY DEF Connected
  <2> QED  BY <1>1, <1>3, <2>1 DEF LineInv, NothingRead
<1>8. AskedOnOld'
  <2>1. id < nextId
    BY DEF ConnInv, IdsAreNew
  <2>2. /\ Len(Asked) \in Nat /\ Len(frames') \in Nat /\ Len(Asked \o frames') = Len(Asked) + Len(frames')
        /\ \A i \in 1..(Len(Asked) + Len(frames')) :
             (Asked \o frames')[i] = IF i <= Len(Asked) THEN Asked[i] ELSE frames'[i - Len(Asked)]
    <3>1. Asked \in Seq(Frame) /\ frames' \in Seq(Frame)
      BY <1>1, AskedIsTyped
    <3>2. Len(Asked) \in Nat /\ Len(frames') \in Nat
      BY <3>1, LenProperties
    <3> QED  BY <3>1, <3>2, ConcatProperties
  <2>3. ASSUME NEW i \in 1..(Len(Asked) + Len(frames')) PROVE (Asked \o frames')[i].id < nextId
    <3>1. CASE i <= Len(Asked)
      BY <2>2, <3>1 DEF LineInv, AskedOnOld
    <3>2. CASE ~(i <= Len(Asked))
      <4>1. i - Len(Asked) \in 1..Len(frames')
        BY <2>2, <3>2
      <4> QED  BY <1>5, <2>1, <2>2, <3>2, <4>1
    <3> QED  BY <3>1, <3>2
  <2> QED  BY <1>2, <2>2, <2>3 DEF AskedOnOld
<1>9. AnswersInOrder'
  BY DEF LineInv, AnswersInOrder
<1> QED  BY <1>6, <1>7, <1>8, <1>9 DEF LineInv

\* Appending to the second of two sequences.
LEMMA AppendToConcat ==
  ASSUME NEW S, NEW s \in Seq(S), NEW t \in Seq(S), NEW e \in S
  PROVE  s \o Append(t, e) = Append(s \o t, e)
<1>1. <<e>> \in Seq(S) /\ s \o t \in Seq(S)
  BY ConcatProperties
<1>2. Append(t, e) = t \o <<e>> /\ Append(s \o t, e) = (s \o t) \o <<e>>
  BY <1>1, AppendIsConcat
<1> QED  BY <1>1, <1>2, ConcatAssociative

\* The next request that has been read is handled: answered, or dropped.
LEMMA HandleKeepsLines ==
  ASSUME ConnInv, LineInv, BusinessHandles, UNCHANGED <<clientVars, reactorVars>>
  PROVE  LineInv'
<1> DEFINE h == Head(job)
<1>1. /\ UNCHANGED <<peer, sent, replies, toRead, contexts, nextId, frames, toServer>>
      /\ business = "handling" /\ job' = <<>>
      /\ \/ UNCHANGED toClient /\ (h.request \in Unanswered \/ h.id \notin DOMAIN toClient)
         \/ /\ h.request \notin Unanswered /\ h.id \in DOMAIN toClient
            /\ toClient' = [toClient EXCEPT ![h.id] = Append(@, h.request)]
  BY DEF BusinessHandles, clientVars, reactorVars
<1>2. /\ Asked \in Seq(Frame) /\ Asked # <<>> /\ h = Head(Asked) /\ Asked' = Tail(Asked)
      /\ h \in Frame
  <2>1. job # <<>>
    BY <1>1 DEF ConnInv, JobInHand
  <2>2. Asked # <<>> /\ h = Head(Asked) /\ Asked' = Tail(Asked)
    BY <1>1, <2>1, HandlingTakesAsked
  <2> QED  BY <2>2, AskedIsTyped, HeadTailProperties
<1>3. h.id \in Nat /\ h.request \in Request
  BY <1>2 DEF Frame
<1> HIDE DEF h
<1>4. ASSUME NEW fd \in DOMAIN contexts, contexts[fd].id # h.id \/ UNCHANGED toClient
      PROVE  Given(fd)' = Given(fd)
  <2>1. toClient'[contexts[fd].id] = toClient[contexts[fd].id]
    BY <1>1, <1>4, LineIsTyped
  <2> QED  BY <1>1, <2>1 DEF Given, Pending
<1>5. ASSUME NEW fd \in DOMAIN contexts, contexts[fd].id = h.id, ~UNCHANGED toClient
      PROVE  h.request \notin Unanswered /\ Given(fd)' = Append(Given(fd), h.request)
  <2>1. /\ contexts[fd].out \in Seq(Request) /\ toClient[h.id] \in Seq(Request)
        /\ replies[contexts[fd].client] \in Seq(Request)
    BY <1>5, PendingIsTyped, LineIsTyped
  <2>2. h.request \notin Unanswered /\ toClient'[h.id] = Append(toClient[h.id], h.request)
    BY <1>1, <1>5
  <2>3. contexts[fd].out \o Append(toClient[h.id], h.request) = Append(contexts[fd].out \o toClient[h.id], h.request)
    <3>1. contexts[fd].out \in Seq(Request) /\ toClient[h.id] \in Seq(Request) /\ h.request \in Request
      BY <1>3, <2>1
    <3>2. \A s, t \in Seq(Request) : \A e \in Request : s \o Append(t, e) = Append(s \o t, e)
      BY AppendToConcat
    <3> QED  BY <3>1, <3>2
  <2>4. Pending(fd)' = Append(Pending(fd), h.request)
    BY <1>1, <1>5, <2>2, <2>3 DEF Pending
  <2>5. replies[contexts[fd].client] \o Append(Pending(fd), h.request)
          = Append(replies[contexts[fd].client] \o Pending(fd), h.request)
    <3>1. Pending(fd) \in Seq(Request) /\ replies[contexts[fd].client] \in Seq(Request) /\ h.request \in Request
      BY <1>3, <2>1, PendingIsTyped
    <3>2. \A s, t \in Seq(Request) : \A e \in Request : s \o Append(t, e) = Append(s \o t, e)
      BY AppendToConcat
    <3> QED  BY <3>1, <3>2
  <2> QED  BY <1>1, <2>2, <2>4, <2>5 DEF Given
<1>6. InLine'
  <2> SUFFICES ASSUME NEW fd \in DOMAIN contexts, peer[contexts[fd].client] = "open"
               PROVE  Line(contexts[fd].client, sent[contexts[fd].client], contexts[fd].id, Given(fd)',
                           Tail(Asked), toRead[contexts[fd].client])
    BY <1>1, <1>2 DEF InLine
  <2>1. Line(contexts[fd].client, sent[contexts[fd].client], contexts[fd].id, Given(fd), Asked,
             toRead[contexts[fd].client])
    BY DEF LineInv, InLine
  <2>2. CASE contexts[fd].id # h.id
    BY <1>2, <1>4, <2>1, <2>2, LineIsTyped, LineSkips
  <2>3. CASE contexts[fd].id = h.id /\ UNCHANGED toClient
    <3>1. h.request \in Unanswered
      <4>1. h.id \in DOMAIN toClient /\ toClient[h.id] \in Seq(Request)
        BY <2>3, LineIsTyped, PendingIsTyped
      <4>2. Append(toClient[h.id], h.request) # toClient[h.id]
        <5>1. Len(Append(toClient[h.id], h.request)) = Len(toClient[h.id]) + 1 /\ Len(toClient[h.id]) \in Nat
          BY <1>3, <4>1, AppendProperties, LenProperties
        <5> QED  BY <5>1
      <4>3. toClient' = [toClient EXCEPT ![h.id] = Append(@, h.request)] =>
              toClient'[h.id] = Append(toClient[h.id], h.request)
        BY <4>1
      <4> QED  BY <1>1, <2>3, <4>1, <4>2, <4>3
    <3> QED  BY <1>2, <1>4, <2>1, <2>3, <3>1, LineIsTyped, LineSkips
  <2>4. CASE contexts[fd].id = h.id /\ ~UNCHANGED toClient
    BY <1>2, <1>5, <2>1, <2>4, LineIsTyped, LineAnswers
  <2> QED  BY <2>2, <2>3, <2>4
<1>7. NothingRead'
  <2>1. \A d : Connected(d)' <=> Connected(d)
    BY <1>1 DEF Connected
  <2> QED  BY <1>1, <2>1 DEF LineInv, NothingRead
<1>8. AskedOnOld'
  <2>1. /\ Len(Asked) \in Nat /\ Len(Tail(Asked)) = Len(Asked) - 1
        /\ \A i \in 1..Len(Tail(Asked)) : Tail(Asked)[i] = Asked[i + 1]
    BY <1>2, HeadTailProperties, LenProperties
  <2>2. \A i \in 1..Len(Tail(Asked)) : i + 1 \in 1..Len(Asked)
    BY <2>1
  <2> QED  BY <1>1, <1>2, <2>1, <2>2 DEF LineInv, AskedOnOld
<1>9. AnswersInOrder'
  BY <1>1 DEF LineInv, AnswersInOrder
<1> QED  BY <1>6, <1>7, <1>8, <1>9 DEF LineInv

\* A connection is flushed: what its client gets, is the first of what was pending.
LEMMA WriteKeepsLines ==
  ASSUME ConnInv, LineInv, NEW fd \in DOMAIN contexts, NEW n \in MayTake(fd), Writes(fd, n),
         UNCHANGED <<peer, sent, toRead, nextId, job, toServer, frames>>
  PROVE  LineInv'
<1> DEFINE c     == contexts[fd].client
           id    == contexts[fd].id
           taken == SubSeq(Pending(fd), 1, n)
           rest  == SubSeq(Pending(fd), n + 1, Len(Pending(fd)))
<1>1. /\ taken \in Seq(Request) /\ rest \in Seq(Request) /\ taken \o rest = Pending(fd)
      /\ DOMAIN contexts' = DOMAIN contexts
      /\ \A gd \in DOMAIN contexts : gd # fd => contexts'[gd] = contexts[gd]
      /\ contexts'[fd] = [id |-> id, client |-> c, out |-> rest, pollOut |-> rest # <<>>]
      /\ toClient'[id] = <<>>
      /\ \A i \in DOMAIN toClient : i # id => toClient'[i] = toClient[i]
      /\ \A d \in Clients : d # c \/ peer[d] # "open" => replies'[d] = replies[d]
      /\ peer[c] = "open" => replies'[c] = replies[c] \o taken
  BY WritesEffect
<1>2. /\ c \in Clients /\ id \in Nat /\ Connected(c)
      /\ \A gd \in DOMAIN contexts : gd # fd => contexts[gd].id # id /\ contexts[gd].client # c
  BY LineIsTyped DEF Connected, ConnInv, IdsAreNew, OneConnectionEach
<1>3. peer[c] = "open" => replies'[c] = replies[c] \o taken
  BY <1>1
<1>4. contexts'[fd].client = c /\ contexts'[fd].id = id /\ contexts'[fd].out = rest
  <2> HIDE DEF c, id, rest
  <2>1. CASE rest = <<>>
    <3>1. (rest # <<>>) = FALSE
      BY <2>1
    <3>2. contexts'[fd] = [id |-> id, client |-> c, out |-> rest, pollOut |-> FALSE]
      BY <1>1, <3>1
    <3> QED  BY <3>2
  <2>2. CASE rest # <<>>
    <3>1. (rest # <<>>) = TRUE
      BY <2>2
    <3>2. contexts'[fd] = [id |-> id, client |-> c, out |-> rest, pollOut |-> TRUE]
      BY <1>1, <3>1
    <3> QED  BY <3>2
  <2> QED  BY <2>1, <2>2
<1>5. \A gd \in DOMAIN contexts : contexts'[gd].client = contexts[gd].client /\ contexts'[gd].id = contexts[gd].id
  BY <1>1, <1>4
<1>6. replies[c] \in Seq(Request)
  BY <1>2 DEF ConnInv, TypeOK
<1>p. Pending(fd)' = rest
  <2>1. Pending(fd)' = rest \o <<>>
    BY <1>1, <1>4 DEF Pending
  <2> QED  BY <1>1, <2>1, ConcatEmptySeq
<1> HIDE DEF c, id, taken, rest
<1>7. peer[c] = "open" => Given(fd)' = Given(fd)
  <2> SUFFICES ASSUME peer[c] = "open" PROVE Given(fd)' = Given(fd)
    OBVIOUS
  <2>1. Given(fd)' = (replies[c] \o taken) \o rest
    BY <1>3, <1>4, <1>p DEF Given
  <2>2. (replies[c] \o taken) \o rest = replies[c] \o (taken \o rest)
    <3>1. replies[c] \in Seq(Request) /\ taken \in Seq(Request) /\ rest \in Seq(Request)
      BY <1>1, <1>6
    <3>2. \A s, t, u \in Seq(Request) : (s \o t) \o u = s \o (t \o u)
      BY ConcatAssociative
    <3> QED  BY <3>1, <3>2
  <2> QED  BY <1>1, <2>1, <2>2 DEF Given, c
<1>8. \A gd \in DOMAIN contexts : gd # fd => Given(gd)' = Given(gd)
  <2> SUFFICES ASSUME NEW gd \in DOMAIN contexts, gd # fd PROVE Given(gd)' = Given(gd)
    OBVIOUS
  <2>1. contexts'[gd] = contexts[gd] /\ replies'[contexts[gd].client] = replies[contexts[gd].client]
    BY <1>1, <1>2, LineIsTyped
  <2>2. toClient'[contexts[gd].id] = toClient[contexts[gd].id]
    BY <1>1, <1>2, LineIsTyped
  <2> QED  BY <2>1, <2>2 DEF Given, Pending
<1>9. Asked' = Asked
  BY DEF Asked
<1>10. InLine'
  <2> SUFFICES ASSUME NEW gd \in DOMAIN contexts, peer[contexts[gd].client] = "open"
               PROVE  Line(contexts[gd].client, sent[contexts[gd].client], contexts[gd].id, Given(gd)',
                           Asked, toRead[contexts[gd].client])
    BY <1>1, <1>5, <1>9 DEF InLine
  <2>1. Given(gd)' = Given(gd)
    BY <1>7, <1>8 DEF c
  <2> QED  BY <2>1 DEF LineInv, InLine
<1>11. NothingRead'
  <2>1. \A d : Connected(d)' <=> Connected(d)
    BY <1>1, <1>5 DEF Connected
  <2> QED  BY <1>1, <1>2, <2>1 DEF LineInv, NothingRead
<1>12. AskedOnOld'
  BY <1>9 DEF LineInv, AskedOnOld
<1>13. AnswersInOrder'
  <2> SUFFICES ASSUME NEW d \in Clients PROVE InOrder(replies'[d], d, sent[d])
    BY DEF AnswersInOrder
  <2>1. CASE d # c \/ peer[d] # "open"
    BY <1>1, <2>1 DEF LineInv, AnswersInOrder
  <2>2. CASE d = c /\ peer[c] = "open"
    <3>1. replies'[c] = replies[c] \o taken /\ replies'[c] \in Seq(Request)
      BY <1>1, <1>3, <1>6, <2>2, ConcatProperties
    <3>2. Given(fd)' = replies'[c] \o rest
      BY <1>4, <1>p DEF Given
    <3>3. Line(c, sent[c], id, replies'[c] \o rest, Asked, toRead[c])
      BY <1>7, <2>2, <3>2 DEF LineInv, InLine, c, id
    <3>4. sent[c] \in Nat /\ toRead[c] \in Seq(Request)
      BY <1>2 DEF ConnInv, TypeOK
    <3>5. InOrder(replies'[c], c, sent[c])
      BY <1>1, <1>2, <3>1, <3>3, <3>4, AskedIsTyped, LineIsInOrder
    <3> QED  BY <2>2, <3>5
  <2> QED  BY <2>1, <2>2
<1> QED  BY <1>10, <1>11, <1>12, <1>13 DEF LineInv

\* A connection may be removed.
LEMMA RemoveKeepsLines ==
  ASSUME ConnInv, LineInv, NEW fd, RemoveConnect(fd),
         UNCHANGED <<sent, replies, toRead, nextId, job, toServer, frames>>
  PROVE  LineInv'
<1>1. Asked' = Asked
  BY DEF Asked
<1>2. CASE fd \notin DOMAIN contexts
  <2>1. UNCHANGED <<peer, contexts, toClient>> /\ \A d : Connected(d)' <=> Connected(d)
    BY <1>2 DEF RemoveConnect, Connected
  <2> QED  BY <1>1, <2>1, LinesStay
<1>3. CASE fd \in DOMAIN contexts
  <2>1. /\ DOMAIN contexts' = DOMAIN contexts \ {fd}
        /\ \A gd \in DOMAIN contexts' : contexts'[gd] = contexts[gd]
        /\ DOMAIN toClient' = DOMAIN toClient \ {contexts[fd].id}
        /\ \A id \in DOMAIN toClient' : toClient'[id] = toClient[id]
        /\ contexts[fd].client \in Clients
        /\ \A c \in Clients : peer'[c] = IF c = contexts[fd].client /\ peer[c] = "open"
                                         THEN "lost" ELSE peer[c]
    BY <1>3, RemoveEffect
  <2>2. \A gd \in DOMAIN contexts' : toClient'[contexts[gd].id] = toClient[contexts[gd].id]
    <3>1. \A gd \in DOMAIN contexts' : contexts[gd].id \in DOMAIN toClient'
      BY <1>3, <2>1 DEF ConnInv, TypeOK, IdsAreNew
    <3> QED  BY <2>1, <3>1
  <2>3. \A c \in Clients : c # contexts[fd].client /\ Connected(c) => Connected(c)'
    BY <1>3, <2>1 DEF Connected
  <2>4. peer'[contexts[fd].client] \notin {"away", "open"}
    <3>1. peer[contexts[fd].client] # "away"
      BY <1>3, <2>1 DEF ConnInv, OneConnectionEach, Connected
    <3> QED  BY <2>1, <3>1
  <2>5. \A c \in Clients : /\ peer'[c] = "open" => peer[c] = "open"
                           /\ peer'[c] \in {"away", "open"} /\ ~Connected(c)' =>
                                peer[c] \in {"away", "open"} /\ ~Connected(c)
    BY <2>1, <2>3, <2>4
  <2>6. DOMAIN contexts' \subseteq DOMAIN contexts
    BY <2>1
  <2> QED  BY <1>1, <2>1, <2>2, <2>5, <2>6, LinesStay
<1> QED  BY <1>2, <1>3

\* Every step.
LEMMA LineStep == ConnInv /\ LineInv /\ [Next]_vars => LineInv'
<1> SUFFICES ASSUME ConnInv, LineInv, [Next]_vars PROVE LineInv'
  OBVIOUS
\* Steps that change neither connections nor what is asked and answered.
<1>1. ASSUME UNCHANGED <<sent, replies, toRead, contexts, toClient, nextId>>, Asked' = Asked,
             \A c \in Clients : /\ peer'[c] = "open" /\ peer[c] # "open" => ~Connected(c)
                                /\ peer'[c] \in {"away", "open"} => peer[c] \in {"away", "open"}
      PROVE  LineInv'
  <2>1. \A d : Connected(d)' <=> Connected(d)
    BY <1>1 DEF Connected
  <2> QED  BY <1>1, <2>1, LinesStay
<1>2. CASE \/ UNCHANGED vars \/ Main
           \/ ReactorStarts \/ ReactorChecks \/ EpollWait \/ BatchDone \/ AcceptFindsNobody
           \/ \E e \in batch : AcceptableEvent(e) \/ NotifyEvent(e)
           \/ \E fd \in toFlush : WritableGone(fd)
  <2>1. UNCHANGED <<peer, sent, replies, toRead, contexts, toClient, nextId, job, toServer, frames>>
    BY <1>2 DEF vars, Main, ReactorStarts, ReactorChecks, EpollWait, BatchDone, AcceptFindsNobody,
                AcceptableEvent, NotifyEvent, WritableGone, clientVars, reactorVars, businessVars, mailVars
  <2>2. Asked' = Asked
    BY <2>1 DEF Asked
  <2> QED  BY <1>1, <2>1, <2>2
<1>3. CASE PushToServer
  <2>1. UNCHANGED <<peer, sent, replies, toRead, contexts, toClient, nextId>>
    BY <1>3 DEF PushToServer, clientVars
  <2>2. Asked' = Asked
    BY <1>3, PushKeepsAsked DEF PushToServer, businessVars
  <2> QED  BY <1>1, <2>1, <2>2
<1>4. CASE Accept
  BY <1>4, AcceptKeepsLines
<1>5. ASSUME NEW e \in batch, HangUpEvent(e) PROVE LineInv'
  <2>1. RemoveConnect(e.fd) /\ UNCHANGED <<sent, replies, toRead, nextId, job, toServer, frames>>
    BY <1>5 DEF HangUpEvent, businessVars
  <2> QED  BY <2>1, RemoveKeepsLines
<1>6. ASSUME NEW e \in batch, SocketEvent(e) PROVE LineInv'
  <2>1. UNCHANGED <<sent, replies, nextId, job, toServer>> /\ frames = <<>>
    BY <1>6 DEF SocketEvent, NextEvent, businessVars
  <2>2. CASE RemoveConnect(e.fd) /\ UNCHANGED <<frames, toRead>>
    BY <2>1, <2>2, RemoveKeepsLines
  <2>3. CASE e.fd \in DOMAIN contexts /\ ReadAll(e.fd) /\ UNCHANGED <<peer, contexts, toClient>>
    BY <2>1, <2>3, ReadKeepsLines
  <2>4. CASE UNCHANGED <<frames, toRead, peer, contexts, toClient>>
    <3>1. Asked' = Asked
      BY <2>1, <2>4 DEF Asked
    <3> QED  BY <1>1, <2>1, <2>4, <3>1
  <2> QED  BY <1>6, <2>2, <2>3, <2>4 DEF SocketEvent
<1>7. ASSUME NEW fd \in toFlush, WritableEvent(fd) PROVE LineInv'
  <2>1. /\ fd \in DOMAIN contexts /\ UNCHANGED <<peer, sent, toRead, nextId, job, toServer, frames>>
        /\ \E n \in MayTake(fd) : Writes(fd, n)
    BY <1>7 DEF WritableEvent, businessVars
  <2> QED  BY <2>1, WriteKeepsLines
<1>8. ASSUME NEW fd \in toFlush, WriteFails(fd) PROVE LineInv'
  <2>1. RemoveConnect(fd) /\ UNCHANGED <<sent, replies, toRead, nextId, job, toServer, frames>>
    BY <1>8 DEF WriteFails, businessVars
  <2> QED  BY <2>1, RemoveKeepsLines
<1>9. CASE Business
  <2>1. UNCHANGED <<clientVars, reactorVars>>
    BY <1>9 DEF Business
  <2>2. UNCHANGED <<peer, sent, replies, toRead, contexts, nextId, frames>>
    BY <2>1 DEF clientVars, reactorVars
  <2>3. CASE BusinessStarts \/ BusinessChecks \/ BusinessNotifies
    <3>1. UNCHANGED <<job, toServer, toClient>>
      BY <2>3 DEF BusinessStarts, BusinessChecks, BusinessNotifies, mailVars
    <3>2. Asked' = Asked
      BY <2>2, <3>1 DEF Asked
    <3> QED  BY <1>1, <2>2, <3>1, <3>2
  <2>4. CASE BusinessPops
    <3>1. job = <<>>
      BY <2>4 DEF BusinessPops, ConnInv, JobInHand
    <3>2. Asked' = Asked
      BY <2>2, <2>4, <3>1, PopKeepsAsked DEF BusinessPops
    <3> QED  BY <1>1, <2>2, <2>4, <3>2 DEF BusinessPops
  <2>5. CASE BusinessHandles
    BY <2>1, <2>5, HandleKeepsLines
  <2> QED  BY <1>9, <2>3, <2>4, <2>5 DEF Business
<1>10. ASSUME NEW c \in Clients, Client(c) PROVE LineInv'
  <2>1. UNCHANGED <<reactorVars, businessVars, mailVars>>
    BY <1>10 DEF Client
  <2>2. CASE ClientSends(c)
    BY <2>1, <2>2, SendKeepsLines
  <2>3. CASE ClientConnects(c) \/ ClientReads(c) \/ ClientCloses(c)
    <3>1. UNCHANGED <<sent, replies, toRead, contexts, toClient, nextId, job, toServer, frames>>
      BY <2>1, <2>3 DEF ClientConnects, ClientReads, ClientCloses, reactorVars, businessVars, mailVars
    <3>2. \A d \in Clients : /\ peer'[d] = "open" /\ peer[d] # "open" => ~Connected(d)
                             /\ peer'[d] \in {"away", "open"} => peer[d] \in {"away", "open"}
      <4>1. peer \in [Clients -> {"away", "open", "closed", "refused", "lost"}]
        BY DEF ConnInv, TypeOK
      <4>2. \A d \in Clients : peer[d] = "away" => ~Connected(d)
        BY DEF ConnInv, OneConnectionEach
      <4>3. CASE ClientConnects(c)
        <5>1. peer[c] = "away" /\ peer' = [peer EXCEPT ![c] = "open"]
          BY <4>3 DEF ClientConnects
        <5> QED  BY <4>1, <4>2, <5>1
      <4>4. CASE ClientReads(c)
        BY <4>4 DEF ClientReads
      <4>5. CASE ClientCloses(c)
        <5>1. peer' = [peer EXCEPT ![c] = "closed"]
          BY <4>5 DEF ClientCloses
        <5> QED  BY <4>1, <5>1
      <4> QED  BY <2>3, <4>3, <4>4, <4>5
    <3>3. Asked' = Asked
      BY <3>1 DEF Asked
    <3> QED  BY <1>1, <3>1, <3>2, <3>3
  <2> QED  BY <1>10, <2>2, <2>3 DEF Client
<1> QED  BY <1>2, <1>3, <1>4, <1>5, <1>6, <1>7, <1>8, <1>9, <1>10
         DEF Next, Reactor, ReactorGoesOn

\* Every client is sent the answers to its own requests, in the order it asked, with
\* none left out: whatever descriptors are used again and whatever the threads'
\* interleaving (AnswersInOrder of the model).
THEOREM PipelineAnswersInOrder == Spec => []AnswersInOrder
<1>1. Init => ConnInv /\ LineInv
  BY ConnInit, LineInit
<1>2. ConnInv /\ LineInv /\ [Next]_vars => (ConnInv /\ LineInv)'
  BY ConnStep, LineStep
<1>3. LineInv => AnswersInOrder
  BY DEF LineInv
<1> QED  BY <1>1, <1>2, <1>3, PTL DEF Spec
=============================================================================
