------------------------ MODULE TableAndHandles_proofs ------------------------
(***************************************************************************)
(* What belongs to one at a time, for every value of the constants: a      *)
(* table query that no other overlaps does what it was asked to, whatever  *)
(* the statement was left with; an open descriptor has exactly one owner.  *)
(***************************************************************************)
EXTENDS SqlTableQuery, PosixHandles, WellFoundedInduction, TLAPS

-----------------------------------------------------------------------------
(* The table query.                                                        *)

SqlValues == Nat \cup {InitialState}
Length(op) == IF op = "update" THEN 3 ELSE 2

CallOf == [at : {"idle", "reset", "bind", "execute"}, op : Texts, params : Seq(Nat),
           id : Nat \ {0}, state : Nat \ {0}, next : Nat \ {0},
           read : {NoRow} \cup (Nat \X SqlValues), shared : BOOLEAN]
StatementOf(op) == [at : {"ready", "running", "halted"}, bound : [1..Length(op) -> Nat], cursor : Nat]

\* A call that is under way has its values, and the text that was prepared last its
\* statement.
SqlTypeOK ==
  /\ DOMAIN rows \subseteq Nat /\ rows \in [DOMAIN rows -> SqlValues]
  /\ DOMAIN m_stmts \subseteq Texts
  /\ m_stmts = [op \in DOMAIN m_stmts |-> m_stmts[op]]
  /\ \A op \in DOMAIN m_stmts : m_stmts[op] \in StatementOf(op)
  /\ call \in [SqlThreads -> {[at |-> "idle"]} \cup CallOf]
  /\ \A t \in SqlThreads : Busy(t) =>
       /\ m_sql \in DOMAIN m_stmts
       /\ call[t] \in CallOf
       /\ call[t].params = Params(call[t].op, call[t].id, call[t].state)
       /\ call[t].at # "execute" => call[t].next <= Length(call[t].op)

\* A call that nobody else has overlapped: its statement is the one that was prepared
\* last, its values are bound one after the other, and what it has read is its row.
GoesAhead(t) ==
  LET c == call[t]
      s == m_stmts[c.op]
  IN  /\ \A u \in SqlThreads \ {t} : ~Busy(u)
      /\ m_sql = c.op
      /\ c.at = "reset" => c.next = 1
      /\ c.at \in {"reset", "bind"} => c.read = NoRow
      /\ c.at = "bind" =>
           /\ s.at = "ready" /\ s.cursor = 0 /\ \A i \in 1..(c.next - 1) : s.bound[i] = c.params[i]
      /\ c.at = "execute" =>
           /\ \A i \in 1..Length(c.op) : s.bound[i] = c.params[i]
           /\ c.read = NoRow => s.cursor = 0
           /\ c.read # NoRow => /\ c.op = "select" /\ c.id \in DOMAIN rows /\ s.cursor = c.id
                                /\ c.read = <<c.id, rows[c.id]>>

AloneGoesAhead == \A t \in SqlThreads : Busy(t) /\ ~call[t].shared => GoesAhead(t)

SqlInv == SqlTypeOK /\ AloneGoesAhead

\* The values of a statement.
LEMMA ParamsAre ==
  ASSUME NEW op \in Texts, NEW id \in Nat, NEW state \in Nat
  PROVE  /\ Params(op, id, state) \in Seq(Nat) /\ Len(Params(op, id, state)) = Length(op)
         /\ DOMAIN Params(op, id, state) = 1..Length(op) /\ Length(op) \in {2, 3}
         /\ \A i \in 1..Length(op) : Params(op, id, state)[i] \in Nat
         /\ op = "select" => Params(op, id, state)[1] = id /\ Params(op, id, state)[2] = id
         /\ op = "update" => /\ Params(op, id, state)[1] = state /\ Params(op, id, state)[2] = id
                             /\ Params(op, id, state)[3] = id
         /\ op = "insert" => Params(op, id, state)[1] = id /\ Params(op, id, state)[2] = state
<1>1. ASSUME NEW a \in Nat, NEW b \in Nat
      PROVE  /\ <<a, b>> \in Seq(Nat) /\ Len(<<a, b>>) = 2 /\ DOMAIN <<a, b>> = 1..2
             /\ <<a, b>>[1] = a /\ <<a, b>>[2] = b
  OBVIOUS
<1>2. ASSUME NEW a \in Nat, NEW b \in Nat, NEW c \in Nat
      PROVE  /\ <<a, b, c>> \in Seq(Nat) /\ Len(<<a, b, c>>) = 3 /\ DOMAIN <<a, b, c>> = 1..3
             /\ <<a, b, c>>[1] = a /\ <<a, b, c>>[2] = b /\ <<a, b, c>>[3] = c
  OBVIOUS
<1> DEFINE p == Params(op, id, state)
<1>3. /\ op = "select" => p = <<id, id>> /\ Length(op) = 2
      /\ op = "update" => p = <<state, id, id>> /\ Length(op) = 3
      /\ op = "insert" => p = <<id, state>> /\ Length(op) = 2
  BY DEF Params, Length
<1> HIDE DEF p
<1>4. /\ op = "select" => p[1] = id /\ p[2] = id
      /\ op = "update" => p[1] = state /\ p[2] = id /\ p[3] = id
      /\ op = "insert" => p[1] = id /\ p[2] = state
  BY <1>1, <1>2, <1>3
<1>5. p \in Seq(Nat) /\ Len(p) = Length(op) /\ DOMAIN p = 1..Length(op) /\ Length(op) \in {2, 3}
  <2>1. CASE op = "select"
    <3>1. p = <<id, id>> /\ Length(op) = 2
      BY <1>3, <2>1
    <3> QED  BY <1>1, <3>1
  <2>2. CASE op = "update"
    <3>1. p = <<state, id, id>> /\ Length(op) = 3
      BY <1>3, <2>2
    <3> QED  BY <1>2, <3>1
  <2>3. CASE op = "insert"
    <3>1. p = <<id, state>> /\ Length(op) = 2
      BY <1>3, <2>3
    <3> QED  BY <1>1, <3>1
  <2> QED  BY <2>1, <2>2, <2>3 DEF Texts
<1>6. \A i \in 1..Length(op) : p[i] \in Nat
  BY <1>5
<1> QED  BY <1>4, <1>5, <1>6 DEF p

LEMMA SqlInitInv == SqlInit => SqlInv
<1>1. SUFFICES ASSUME SqlInit PROVE SqlInv
  OBVIOUS
<1>2. \A t \in SqlThreads : ~Busy(t)
  BY <1>1 DEF SqlInit, Busy
<1>3. DOMAIN rows = TaskIds /\ rows \in [DOMAIN rows -> SqlValues]
  BY <1>1 DEF SqlInit, SqlValues
<1>6. m_stmts = <<>> /\ DOMAIN m_stmts = {}
  <2>1. DOMAIN <<>> = {}
    OBVIOUS
  <2> QED  BY <1>1, <2>1 DEF SqlInit
<1>4. call \in [SqlThreads -> {[at |-> "idle"]} \cup CallOf]
  BY <1>1 DEF SqlInit
<1>5. m_stmts = [op \in DOMAIN m_stmts |-> m_stmts[op]]
  BY <1>6
<1> QED  BY <1>2, <1>3, <1>4, <1>5, <1>6, SqlAssumption DEF SqlInv, SqlTypeOK, AloneGoesAhead

\* Another thread may begin at any moment; the calls under way are then shared.
LEMMA BeginKeeps ==
  ASSUME SqlInv, NEW t \in SqlThreads, NEW op \in Texts, NEW id \in Nat \ {0}, NEW state \in Nat \ {0},
         BeginSql(t, op, id, state)
  PROVE  SqlInv'
<1> DEFINE c == [at |-> "reset", op |-> op, params |-> Params(op, id, state), id |-> id,
                 state |-> state, next |-> 1, read |-> NoRow, shared |-> \E v \in SqlThreads \ {t} : Busy(v)]
<1>1. /\ ~Busy(t) /\ m_sql' = op /\ UNCHANGED rows
      /\ m_stmts' = IF op \in DOMAIN m_stmts THEN m_stmts
                    ELSE [x \in DOMAIN m_stmts \cup {op} |-> IF x = op THEN Fresh(op) ELSE m_stmts[x]]
      /\ call' = [u \in SqlThreads |->
                    IF u = t THEN c ELSE IF Busy(u) THEN [call[u] EXCEPT !.shared = TRUE] ELSE call[u]]
  BY DEF BeginSql, Prepare
<1>2. Fresh(op) \in StatementOf(op)
  <2>1. DOMAIN Params(op, 0, 0) = 1..Length(op)
    BY ParamsAre
  <2> QED  BY <2>1 DEF Fresh, StatementOf, Null
<1>3. /\ DOMAIN m_stmts' = DOMAIN m_stmts \cup {op}
      /\ m_stmts' = [x \in DOMAIN m_stmts' |-> m_stmts'[x]]
      /\ \A x \in DOMAIN m_stmts' : m_stmts'[x] \in StatementOf(x)
  <2>1. CASE op \in DOMAIN m_stmts
    BY <1>1, <2>1 DEF SqlInv, SqlTypeOK
  <2>2. CASE op \notin DOMAIN m_stmts
    BY <1>1, <1>2, <2>2 DEF SqlInv, SqlTypeOK
  <2> QED  BY <2>1, <2>2
<1>4. /\ c \in CallOf /\ c.at = "reset" /\ c.op = op /\ c.params = Params(op, id, state)
      /\ c.id = id /\ c.state = state /\ c.next = 1 /\ c.read = NoRow
      /\ ~c.shared => \A v \in SqlThreads \ {t} : ~Busy(v)
  BY ParamsAre DEF CallOf
<1>5. call'[t] = c
  BY <1>1
<1> HIDE DEF c
<1>6. ASSUME NEW u \in SqlThreads \ {t}
      PROVE  /\ ~Busy(u) => call'[u] = call[u]
             /\ Busy(u) => /\ call'[u] \in CallOf /\ call'[u].shared = TRUE /\ call'[u].at = call[u].at
                           /\ call'[u].params = Params(call'[u].op, call'[u].id, call'[u].state)
                           /\ call'[u].at # "execute" => call'[u].next <= Length(call'[u].op)
  <2>1. CASE ~Busy(u)
    BY <1>1, <2>1
  <2>2. CASE Busy(u)
    <3>1. call'[u] = [call[u] EXCEPT !.shared = TRUE] /\ call[u] \in CallOf
      BY <1>1, <2>2 DEF SqlInv, SqlTypeOK
    <3>2. /\ call'[u] \in CallOf /\ call'[u].shared = TRUE /\ call'[u].at = call[u].at
          /\ call'[u].op = call[u].op /\ call'[u].id = call[u].id /\ call'[u].state = call[u].state
          /\ call'[u].params = call[u].params /\ call'[u].next = call[u].next
      BY <3>1 DEF CallOf
    <3> QED  BY <2>2, <3>2 DEF SqlInv, SqlTypeOK
  <2> QED  BY <2>1, <2>2
<1>7. call' \in [SqlThreads -> {[at |-> "idle"]} \cup CallOf]
  <2>1. \A u \in SqlThreads : call'[u] \in {[at |-> "idle"]} \cup CallOf
    BY <1>4, <1>5, <1>6 DEF SqlInv, SqlTypeOK
  <2> QED  BY <1>1, <2>1
<1>8. Length(op) >= 1
  BY ParamsAre
<1>9. SqlTypeOK'
  <2>1. ASSUME NEW u \in SqlThreads, call'[u].at # "idle"
        PROVE  /\ m_sql' \in DOMAIN m_stmts'
               /\ call'[u] \in CallOf
               /\ call'[u].params = Params(call'[u].op, call'[u].id, call'[u].state)
               /\ call'[u].at # "execute" => call'[u].next <= Length(call'[u].op)
    BY <1>1, <1>3, <1>4, <1>5, <1>6, <1>8, <2>1 DEF Busy
  <2> QED  BY <1>1, <1>3, <1>7, <2>1 DEF SqlInv, SqlTypeOK, Busy
<1>10. AloneGoesAhead'
  <2>1. ASSUME NEW u \in SqlThreads, call'[u].at # "idle", ~call'[u].shared
        PROVE  u = t /\ \A v \in SqlThreads \ {t} : call'[v].at = "idle"
    <3>1. u = t
      BY <1>6, <2>1 DEF Busy
    <3> QED  BY <1>4, <1>5, <1>6, <2>1, <3>1 DEF Busy
  <2> QED  BY <1>1, <1>4, <1>5, <2>1 DEF AloneGoesAhead, GoesAhead, Busy
<1> QED  BY <1>9, <1>10 DEF SqlInv

\* A call goes on: what has to hold of it, for the others nothing changes.
LEMMA OneCallGoesOn ==
  ASSUME SqlInv, NEW t \in SqlThreads, Busy(t), NEW d \in CallOf, call' = [call EXCEPT ![t] = d],
         d.op = call[t].op /\ d.id = call[t].id /\ d.state = call[t].state,
         d.params = call[t].params /\ d.shared = call[t].shared,
         d.at \in {"reset", "bind"} => d.next <= Length(d.op),
         UNCHANGED m_sql, DOMAIN m_stmts' = DOMAIN m_stmts,
         m_stmts' = [op \in DOMAIN m_stmts |-> m_stmts'[op]],
         \A op \in DOMAIN m_stmts : m_stmts'[op] \in StatementOf(op),
         DOMAIN rows' \subseteq Nat /\ rows' \in [DOMAIN rows' -> SqlValues],
         d.at # "idle" /\ ~d.shared => GoesAhead(t)'
  PROVE  SqlInv'
<1>1. call'[t] = d /\ \A u \in SqlThreads \ {t} : call'[u] = call[u]
  BY DEF SqlInv, SqlTypeOK
<1>2. call' \in [SqlThreads -> {[at |-> "idle"]} \cup CallOf]
  BY DEF SqlInv, SqlTypeOK
<1>3. ASSUME NEW u \in SqlThreads, call'[u].at # "idle"
      PROVE  /\ m_sql' \in DOMAIN m_stmts'
             /\ call'[u] \in CallOf
             /\ call'[u].params = Params(call'[u].op, call'[u].id, call'[u].state)
             /\ call'[u].at # "execute" => call'[u].next <= Length(call'[u].op)
  <2>1. CASE u = t
    <3>1. d.at \in {"idle", "reset", "bind", "execute"}
      BY DEF CallOf
    <3> QED  BY <1>1, <1>3, <2>1, <3>1 DEF SqlInv, SqlTypeOK
  <2>2. CASE u # t
    BY <1>1, <1>3, <2>2 DEF SqlInv, SqlTypeOK, Busy
  <2> QED  BY <2>1, <2>2
<1>4. SqlTypeOK'
  BY <1>2, <1>3 DEF SqlInv, SqlTypeOK, Busy
<1>5. ASSUME NEW u \in SqlThreads, call'[u].at # "idle", ~call'[u].shared
      PROVE  GoesAhead(u)'
  <2>1. u = t
    BY <1>1, <1>5 DEF SqlInv, AloneGoesAhead, GoesAhead, Busy
  <2>2. GoesAhead(t)'
    BY <1>1, <1>5, <2>1
  <2> QED  BY <2>1, <2>2
<1> QED  BY <1>4, <1>5 DEF SqlInv, AloneGoesAhead, Busy

\* The call that moves, and its statement.
LEMMA BusyCall ==
  ASSUME SqlInv, NEW t \in SqlThreads, Busy(t)
  PROVE  /\ call[t] \in CallOf /\ m_sql \in DOMAIN m_stmts /\ m_sql \in Texts
         /\ m_stmts[m_sql] \in StatementOf(m_sql) /\ Length(m_sql) \in {2, 3}
         /\ Length(call[t].op) \in {2, 3} /\ Len(call[t].params) = Length(call[t].op)
         /\ \A i \in 1..Length(call[t].op) : call[t].params[i] \in Nat
         /\ call[t].params = Params(call[t].op, call[t].id, call[t].state)
<1>1. /\ call[t] \in CallOf /\ m_sql \in DOMAIN m_stmts /\ m_sql \in Texts
      /\ m_stmts[m_sql] \in StatementOf(m_sql)
      /\ call[t].params = Params(call[t].op, call[t].id, call[t].state)
  BY DEF SqlInv, SqlTypeOK
<1>2. PICK op \in Texts, id \in Nat, state \in Nat :
        op = call[t].op /\ call[t].params = Params(op, id, state)
  BY <1>1 DEF CallOf
<1>3. /\ Length(op) \in {2, 3} /\ Len(Params(op, id, state)) = Length(op)
      /\ \A i \in 1..Length(op) : Params(op, id, state)[i] \in Nat
  BY ParamsAre
<1> QED  BY <1>1, <1>2, <1>3 DEF Length

\* What becomes of a statement when one is replaced.
LEMMA OneStatement ==
  ASSUME SqlInv, m_sql \in DOMAIN m_stmts, NEW s \in StatementOf(m_sql),
         m_stmts' = [m_stmts EXCEPT ![m_sql] = s]
  PROVE  /\ DOMAIN m_stmts' = DOMAIN m_stmts /\ m_stmts'[m_sql] = s
         /\ m_stmts' = [op \in DOMAIN m_stmts |-> m_stmts'[op]]
         /\ \A op \in DOMAIN m_stmts : m_stmts'[op] \in StatementOf(op)
BY DEF SqlInv, SqlTypeOK

LEMMA ResetKeeps ==
  ASSUME SqlInv, NEW t \in SqlThreads, ResetSql(t)
  PROVE  SqlInv'
<1>1. /\ call[t].at = "reset" /\ Busy(t)
      /\ m_stmts' = [m_stmts EXCEPT ![m_sql].at = "ready", ![m_sql].cursor = 0]
      /\ call' = [call EXCEPT ![t].at = "bind"]
      /\ UNCHANGED <<rows, m_sql>>
  BY DEF ResetSql, Busy, Goes
<1>2. /\ call[t] \in CallOf /\ m_sql \in DOMAIN m_stmts /\ m_stmts[m_sql] \in StatementOf(m_sql)
      /\ Length(call[t].op) \in {2, 3}
  BY <1>1, BusyCall
<1> DEFINE s == [at |-> "ready", bound |-> m_stmts[m_sql].bound, cursor |-> 0]
           d == [call[t] EXCEPT !.at = "bind"]
<1>3. s \in StatementOf(m_sql) /\ s.at = "ready" /\ s.cursor = 0
  BY <1>2 DEF StatementOf
<1>4. m_stmts' = [m_stmts EXCEPT ![m_sql] = s]
  <2>1. [[m_stmts[m_sql] EXCEPT !.at = "ready"] EXCEPT !.cursor = 0] = s
    <3> DEFINE q == [m_stmts[m_sql] EXCEPT !.at = "ready"]
    <3>1. q = [at |-> "ready", bound |-> m_stmts[m_sql].bound, cursor |-> m_stmts[m_sql].cursor]
      BY <1>2 DEF StatementOf
    <3> HIDE DEF q
    <3>2. [q EXCEPT !.cursor = 0] = s
      BY <3>1
    <3> QED  BY <3>2 DEF q
  <2>2. m_stmts' = [m_stmts EXCEPT ![m_sql] = [[m_stmts[m_sql] EXCEPT !.at = "ready"] EXCEPT !.cursor = 0]]
    BY <1>1, <1>2
  <2> QED  BY <2>1, <2>2
<1>5. /\ d \in CallOf /\ d.at = "bind" /\ d.op = call[t].op /\ d.id = call[t].id
      /\ d.state = call[t].state /\ d.params = call[t].params /\ d.shared = call[t].shared
      /\ d.next = call[t].next /\ d.read = call[t].read
  BY <1>2 DEF CallOf
<1>6. call' = [call EXCEPT ![t] = d]
  BY <1>1 DEF SqlInv, SqlTypeOK
<1> HIDE DEF s, d
<1>7. /\ DOMAIN m_stmts' = DOMAIN m_stmts /\ m_stmts'[m_sql] = s
      /\ m_stmts' = [op \in DOMAIN m_stmts |-> m_stmts'[op]]
      /\ \A op \in DOMAIN m_stmts : m_stmts'[op] \in StatementOf(op)
  BY <1>2, <1>3, <1>4, OneStatement
<1>8. ASSUME d.at # "idle", ~d.shared PROVE GoesAhead(t)'
  <2>1. GoesAhead(t)
    BY <1>1, <1>5, <1>8 DEF SqlInv, AloneGoesAhead
  <2>2. call'[t] = d /\ \A u \in SqlThreads \ {t} : call'[u] = call[u]
    BY <1>6 DEF SqlInv, SqlTypeOK
  <2>3. \A u \in SqlThreads \ {t} : call'[u].at = "idle"
    BY <2>1, <2>2 DEF GoesAhead, Busy
  <2>4. m_sql' = d.op /\ d.next = 1 /\ d.read = NoRow /\ 1..(1 - 1) = {}
    BY <1>1, <1>5, <2>1 DEF GoesAhead
  <2>5. m_stmts'[d.op].at = "ready" /\ m_stmts'[d.op].cursor = 0
    BY <1>1, <1>3, <1>7, <2>4
  <2> QED  BY <1>5, <2>2, <2>3, <2>4, <2>5 DEF GoesAhead, Busy
<1>9. call[t].next <= Length(call[t].op)
  BY <1>1 DEF SqlInv, SqlTypeOK
<1>10. DOMAIN rows' \subseteq Nat /\ rows' \in [DOMAIN rows' -> SqlValues]
  BY <1>1 DEF SqlInv, SqlTypeOK
<1> QED  BY <1>1, <1>5, <1>6, <1>7, <1>8, <1>9, <1>10, OneCallGoesOn

LEMMA BindKeeps ==
  ASSUME SqlInv, NEW t \in SqlThreads, BindSql(t)
  PROVE  SqlInv'
<1> DEFINE i == call[t].next
           v == call[t].params[i]
           r == m_stmts[m_sql]
           at == IF i = Len(call[t].params) THEN "execute" ELSE "bind"
           b == [r.bound EXCEPT ![i] = v]
           s == [at |-> r.at, bound |-> b, cursor |-> r.cursor]
           q == [call[t] EXCEPT !.next = i + 1]
           d == [q EXCEPT !.at = at]
<1>1. /\ call[t].at = "bind" /\ Busy(t) /\ UNCHANGED <<rows, m_sql>>
      /\ m_stmts' = IF r.at = "ready" /\ i \in DOMAIN r.bound
                    THEN [m_stmts EXCEPT ![m_sql].bound[i] = v] ELSE m_stmts
      /\ call' = [call EXCEPT ![t].next = i + 1, ![t].at = at]
  BY DEF BindSql, Busy
<1>2. /\ call[t] \in CallOf /\ m_sql \in DOMAIN m_stmts /\ r \in StatementOf(m_sql)
      /\ Length(call[t].op) \in {2, 3} /\ Len(call[t].params) = Length(call[t].op)
      /\ \A k \in 1..Length(call[t].op) : call[t].params[k] \in Nat
  BY <1>1, BusyCall
<1>3. i \in Nat \ {0} /\ i <= Length(call[t].op)
  BY <1>1, <1>2 DEF SqlInv, SqlTypeOK, CallOf
<1>4. v \in Nat /\ r.bound \in [1..Length(m_sql) -> Nat]
  BY <1>2, <1>3 DEF StatementOf
<1>5. b \in [1..Length(m_sql) -> Nat] /\ \A k \in 1..Length(m_sql) : b[k] = IF k = i THEN v ELSE r.bound[k]
  BY <1>4
<1>6. s \in StatementOf(m_sql) /\ s.at = r.at /\ s.cursor = r.cursor /\ s.bound = b
  BY <1>2, <1>5 DEF StatementOf
<1>7. /\ DOMAIN m_stmts' = DOMAIN m_stmts
      /\ m_stmts' = [op \in DOMAIN m_stmts |-> m_stmts'[op]]
      /\ \A op \in DOMAIN m_stmts : m_stmts'[op] \in StatementOf(op)
      /\ r.at = "ready" /\ i <= Length(m_sql) => m_stmts'[m_sql] = s
  <2>1. DOMAIN r.bound = 1..Length(m_sql) /\ (i \in 1..Length(m_sql) <=> i <= Length(m_sql))
    BY <1>2, <1>3, <1>4, BusyCall, <1>1
  <2>2. CASE r.at = "ready" /\ i \in DOMAIN r.bound
    <3>1. [r EXCEPT !.bound = b] = s
      <4> HIDE DEF b
      <4> QED  BY <1>2 DEF StatementOf
    <3>2. m_stmts' = [m_stmts EXCEPT ![m_sql].bound[i] = v]
      BY <1>1, <2>2
    <3>3. m_stmts' = [m_stmts EXCEPT ![m_sql] = [r EXCEPT !.bound = b]]
      BY <3>2
    <3>4. m_stmts' = [m_stmts EXCEPT ![m_sql] = s]
      BY <3>1, <3>3
    <3> HIDE DEF s
    <3> QED  BY <1>2, <1>6, <3>4, OneStatement
  <2>3. CASE ~(r.at = "ready" /\ i \in DOMAIN r.bound)
    <3>1. m_stmts' = m_stmts
      BY <1>1, <2>3
    <3> QED  BY <2>1, <2>3, <3>1 DEF SqlInv, SqlTypeOK
  <2> QED  BY <2>2, <2>3
<1>8. at \in {"bind", "execute"} /\ (at = "bind" => i + 1 <= Length(call[t].op)) /\ (at = "execute" => i = Length(call[t].op))
  BY <1>2, <1>3
<1> HIDE DEF at
<1>9. /\ d \in CallOf /\ d.at = at /\ d.op = call[t].op /\ d.id = call[t].id
      /\ d.state = call[t].state /\ d.params = call[t].params /\ d.shared = call[t].shared
      /\ d.next = i + 1 /\ d.read = call[t].read
  <2>1. /\ q \in CallOf /\ q.op = call[t].op /\ q.id = call[t].id
        /\ q.state = call[t].state /\ q.params = call[t].params /\ q.shared = call[t].shared
        /\ q.next = i + 1 /\ q.read = call[t].read
    <3>1. PICK n \in Nat \ {0} : n = i + 1
      BY <1>3
    <3>2. q = [call[t] EXCEPT !.next = n]
      BY <3>1
    <3>3. q.next = n
      BY <1>2, <3>2 DEF CallOf
    <3>4. q \in CallOf
      BY <1>2, <3>2 DEF CallOf
    <3>5. /\ q.op = call[t].op /\ q.id = call[t].id
          /\ q.state = call[t].state /\ q.params = call[t].params /\ q.shared = call[t].shared
          /\ q.read = call[t].read
      BY <1>2, <3>2 DEF CallOf
    <3> HIDE DEF q
    <3> QED  BY <3>1, <3>3, <3>4, <3>5
  <2> HIDE DEF q
  <2> QED  BY <1>8, <2>1 DEF CallOf
<1>10. call' = [call EXCEPT ![t] = d]
  BY <1>1 DEF SqlInv, SqlTypeOK
<1> HIDE DEF s, d, q, b
<1>11. ASSUME d.at # "idle", ~d.shared PROVE GoesAhead(t)'
  <2>1. GoesAhead(t)
    BY <1>1, <1>9, <1>11 DEF SqlInv, AloneGoesAhead
  <2>2. call'[t] = d /\ \A u \in SqlThreads \ {t} : call'[u] = call[u]
    BY <1>10 DEF SqlInv, SqlTypeOK
  <2>3. \A u \in SqlThreads \ {t} : call'[u].at = "idle"
    BY <2>1, <2>2 DEF GoesAhead, Busy
  <2>4. m_sql' = d.op /\ m_sql = d.op /\ d.read = NoRow
    BY <1>1, <1>9, <2>1 DEF GoesAhead
  <2>5. r.at = "ready" /\ r.cursor = 0 /\ \A k \in 1..(i - 1) : r.bound[k] = call[t].params[k]
    BY <1>1, <1>9, <2>1, <2>4 DEF GoesAhead
  <2>6. m_stmts'[d.op] = s
    BY <1>3, <1>7, <1>9, <2>4, <2>5
  <2>7. s.at = "ready" /\ s.cursor = 0 /\ \A k \in 1..i : s.bound[k] = d.params[k]
    <3>1. s.at = "ready" /\ s.cursor = 0
      BY <1>6, <2>5
    <3>2. ASSUME NEW k \in 1..i PROVE s.bound[k] = d.params[k]
      <4>1. k \in 1..Length(m_sql) /\ (k = i \/ k \in 1..(i - 1))
        BY <1>2, <1>3, <1>9, <2>4
      <4> QED  BY <1>5, <1>6, <1>9, <2>5, <4>1
    <3> QED  BY <3>1, <3>2
  <2>8. d.at = "bind" \/ (d.at = "execute" /\ i = Length(d.op))
    BY <1>8, <1>9
  <2>9. 1..(d.next - 1) = 1..i
    BY <1>3, <1>9
  <2> QED  BY <2>2, <2>3, <2>4, <2>6, <2>7, <2>8, <2>9 DEF GoesAhead, Busy
<1>12. DOMAIN rows' \subseteq Nat /\ rows' \in [DOMAIN rows' -> SqlValues]
  BY <1>1 DEF SqlInv, SqlTypeOK
<1>13. d.at \in {"reset", "bind"} => d.next <= Length(d.op)
  BY <1>8, <1>9
<1> QED  BY <1>1, <1>7, <1>9, <1>10, <1>11, <1>12, <1>13, OneCallGoesOn

\* Some set of numbers has a least one.
LEMMA LeastElement ==
  ASSUME NEW T \in SUBSET Nat, T # {}
  PROVE  \E m \in T : \A k \in T : m <= k
<1> DEFINE R == OpToRel(<, Nat)
<1>1. \A x, y \in Nat : <<x, y>> \in R <=> x < y
  BY DEF OpToRel
<1>2. IsWellFoundedOn(R, Nat)
  BY NatLessThanWellFounded
<1> HIDE DEF R
<1>3. PICK m \in T : \A y \in T : ~(<<y, m>> \in R)
  BY <1>2, WFMin
<1>4. \A y \in T : ~(y < m)
  BY <1>1, <1>3
<1>5. \A y \in T : m <= y
  BY <1>4
<1> QED  BY <1>5

\* A statement is stepped or reset.
LEMMA StatementMoves ==
  ASSUME SqlInv, m_sql \in DOMAIN m_stmts,
         NEW at \in {"ready", "running", "halted"}, NEW n \in Nat,
         m_stmts' = [m_stmts EXCEPT ![m_sql].at = at, ![m_sql].cursor = n]
  PROVE  /\ DOMAIN m_stmts' = DOMAIN m_stmts
         /\ m_stmts'[m_sql] = [at |-> at, bound |-> m_stmts[m_sql].bound, cursor |-> n]
         /\ m_stmts' = [op \in DOMAIN m_stmts |-> m_stmts'[op]]
         /\ \A op \in DOMAIN m_stmts : m_stmts'[op] \in StatementOf(op)
<1> DEFINE q == [m_stmts[m_sql] EXCEPT !.at = at]
           s == [at |-> at, bound |-> m_stmts[m_sql].bound, cursor |-> n]
<1>1. m_stmts[m_sql] \in StatementOf(m_sql)
  BY DEF SqlInv, SqlTypeOK
<1>2. q = [at |-> at, bound |-> m_stmts[m_sql].bound, cursor |-> m_stmts[m_sql].cursor]
  BY <1>1 DEF StatementOf
<1>3. m_stmts' = [m_stmts EXCEPT ![m_sql] = [q EXCEPT !.cursor = n]]
  OBVIOUS
<1> HIDE DEF q
<1>4. [q EXCEPT !.cursor = n] = s
  BY <1>2
<1>5. s \in StatementOf(m_sql)
  BY <1>1 DEF StatementOf
<1>6. m_stmts' = [m_stmts EXCEPT ![m_sql] = s]
  BY <1>3, <1>4
<1> HIDE DEF s
<1>7. /\ DOMAIN m_stmts' = DOMAIN m_stmts /\ m_stmts'[m_sql] = s
      /\ m_stmts' = [op \in DOMAIN m_stmts |-> m_stmts'[op]]
      /\ \A op \in DOMAIN m_stmts : m_stmts'[op] \in StatementOf(op)
  BY <1>5, <1>6, OneStatement
<1> QED  BY <1>7 DEF s

\* A call that ends leaves the other as it is.
LEMMA CallEnds ==
  ASSUME SqlInv, NEW t \in SqlThreads, Busy(t), call' = Goes(t, "idle"), UNCHANGED m_sql,
         DOMAIN m_stmts' = DOMAIN m_stmts,
         m_stmts' = [op \in DOMAIN m_stmts |-> m_stmts'[op]],
         \A op \in DOMAIN m_stmts : m_stmts'[op] \in StatementOf(op),
         DOMAIN rows' \subseteq Nat /\ rows' \in [DOMAIN rows' -> SqlValues]
  PROVE  SqlInv'
<1> DEFINE d == [call[t] EXCEPT !.at = "idle"]
<1>1. call[t] \in CallOf
  BY BusyCall
<1>2. /\ d \in CallOf /\ d.at = "idle" /\ d.op = call[t].op /\ d.id = call[t].id
      /\ d.state = call[t].state /\ d.params = call[t].params /\ d.shared = call[t].shared
  BY <1>1 DEF CallOf
<1>3. call' = [call EXCEPT ![t] = d]
  BY DEF Goes, SqlInv, SqlTypeOK
<1> HIDE DEF d
<1> QED  BY <1>2, <1>3, OneCallGoesOn

LEMMA RowsAre ==
  ASSUME SqlInv
  PROVE  DOMAIN rows \subseteq Nat /\ rows \in [DOMAIN rows -> SqlValues]
BY DEF SqlInv, SqlTypeOK

\* Until it has read its row, a SELECT by itself has it ahead, and then nothing.
LEMMA AloneReadsItsRow ==
  ASSUME SqlInv, NEW t \in SqlThreads, Busy(t), ~call[t].shared, call[t].at = "execute",
         call[t].op = "select"
  PROVE  /\ Ahead = IF call[t].read = NoRow /\ call[t].id \in DOMAIN rows THEN {call[t].id} ELSE {}
         /\ call[t].read # NoRow => /\ call[t].id \in DOMAIN rows
                                    /\ call[t].read = <<call[t].id, rows[call[t].id]>>
<1> DEFINE c == call[t]
<1>1. GoesAhead(t)
  BY DEF SqlInv, AloneGoesAhead
<1>2. /\ m_sql = "select"
      /\ \A i \in 1..Length("select") : m_stmts[m_sql].bound[i] = c.params[i]
      /\ c.read = NoRow => m_stmts[m_sql].cursor = 0
      /\ c.read # NoRow => /\ c.id \in DOMAIN rows /\ m_stmts[m_sql].cursor = c.id
                           /\ c.read = <<c.id, rows[c.id]>>
  BY <1>1 DEF GoesAhead
<1>3. c.id \in Nat /\ c.id # 0 /\ c.state \in Nat /\ c.params = Params("select", c.id, c.state)
  BY BusyCall DEF CallOf
<1>4. PICK id \in Nat, state \in Nat : id = c.id /\ c.params = Params("select", id, state)
  BY <1>3
<1>5. Params("select", id, state)[1] = id /\ Params("select", id, state)[2] = id
  BY ParamsAre DEF Texts
<1>6. Bound(1) = id /\ Bound(2) = id
  <2>1. 1 \in 1..Length("select") /\ 2 \in 1..Length("select")
    BY DEF Length
  <2> QED  BY <1>2, <1>4, <1>5, <2>1 DEF Bound
<1>7. \A k \in DOMAIN rows : k \in Nat
  BY RowsAre
<1>8. \A k : k \in Ahead <=> k \in DOMAIN rows /\ id <= k /\ k <= id /\ k > m_stmts[m_sql].cursor
  BY <1>3, <1>4, <1>6 DEF Ahead, Within, Null
<1>9. \A k : k \in Ahead <=> k = id /\ id \in DOMAIN rows /\ id > m_stmts[m_sql].cursor
  BY <1>7, <1>8
<1>10. id > m_stmts[m_sql].cursor <=> c.read = NoRow
  BY <1>2, <1>3, <1>4
<1>11. Ahead = IF c.read = NoRow /\ id \in DOMAIN rows THEN {id} ELSE {}
  BY <1>9, <1>10
<1> QED  BY <1>2, <1>4, <1>11

LEMMA SelectKeeps ==
  ASSUME SqlInv, NEW t \in SqlThreads, call[t].at = "execute", StepSelect(t), UNCHANGED m_sql
  PROVE  SqlInv'
<1>1. /\ Busy(t) /\ m_sql = "select" /\ UNCHANGED rows
      /\ call[t] \in CallOf /\ m_sql \in DOMAIN m_stmts
      /\ DOMAIN rows' \subseteq Nat /\ rows' \in [DOMAIN rows' -> SqlValues]
  BY BusyCall, RowsAre DEF StepSelect, Busy
<1>2. CASE Ahead = {}
  <2>1. m_stmts' = [m_stmts EXCEPT ![m_sql].at = "halted", ![m_sql].cursor = 0] /\ call' = Goes(t, "idle")
    BY <1>2 DEF StepSelect, Stepped
  <2>2. /\ DOMAIN m_stmts' = DOMAIN m_stmts
        /\ m_stmts' = [op \in DOMAIN m_stmts |-> m_stmts'[op]]
        /\ \A op \in DOMAIN m_stmts : m_stmts'[op] \in StatementOf(op)
    BY <1>1, <2>1, StatementMoves
  <2> QED  BY <1>1, <2>1, <2>2, CallEnds
<1>3. CASE Ahead # {}
  <2> DEFINE next == CHOOSE id \in Ahead : \A other \in Ahead : id <= other
  <2>1. Ahead \in SUBSET Nat /\ Ahead \subseteq DOMAIN rows
    BY <1>1 DEF Ahead
  <2>2. PICK n \in Nat : n = next /\ n \in Ahead /\ n \in DOMAIN rows
    <3>1. \E m \in Ahead : \A k \in Ahead : m <= k
      BY <1>3, <2>1, LeastElement
    <3> QED  BY <2>1, <3>1
  <2>3. /\ m_stmts' = [m_stmts EXCEPT ![m_sql].at = "running", ![m_sql].cursor = next]
        /\ call' = IF call[t].op # "select" THEN Goes(t, "idle")
                   ELSE IF call[t].read # NoRow THEN call
                   ELSE [call EXCEPT ![t].read = <<next, rows[next]>>]
    BY <1>3 DEF StepSelect
  <2> HIDE DEF next
  <2>4. /\ m_stmts' = [m_stmts EXCEPT ![m_sql].at = "running", ![m_sql].cursor = n]
        /\ call' = IF call[t].op # "select" THEN Goes(t, "idle")
                   ELSE IF call[t].read # NoRow THEN call
                   ELSE [call EXCEPT ![t].read = <<n, rows[n]>>]
    BY <2>2, <2>3
  <2>5. /\ DOMAIN m_stmts' = DOMAIN m_stmts
        /\ m_stmts'[m_sql] = [at |-> "running", bound |-> m_stmts[m_sql].bound, cursor |-> n]
        /\ m_stmts' = [op \in DOMAIN m_stmts |-> m_stmts'[op]]
        /\ \A op \in DOMAIN m_stmts : m_stmts'[op] \in StatementOf(op)
    BY <1>1, <2>4, StatementMoves
  <2>6. CASE call[t].op # "select"
    BY <1>1, <2>4, <2>5, <2>6, CallEnds
  <2>7. CASE call[t].op = "select" /\ call[t].read # NoRow
    <3>1. call' = [call EXCEPT ![t] = call[t]]
      BY <2>4, <2>7 DEF SqlInv, SqlTypeOK
    <3>2. call[t].shared
      BY <1>1, <1>3, <2>7, AloneReadsItsRow
    <3> QED  BY <1>1, <2>5, <3>1, <3>2, OneCallGoesOn
  <2>8. CASE call[t].op = "select" /\ call[t].read = NoRow
    <3>1. PICK row \in Nat \X SqlValues : row = <<n, rows[n]>> /\ row # NoRow
      <4>1. rows[n] \in SqlValues
        BY <2>2, RowsAre
      <4> DEFINE r == <<n, rows[n]>>
      <4>2. r \in Nat \X SqlValues
        BY <4>1
      <4>3. r # <<>>
        OBVIOUS
      <4> HIDE DEF r
      <4>4. \E row \in Nat \X SqlValues : row = r /\ row # NoRow
        BY <4>2, <4>3 DEF NoRow
      <4> QED  BY <4>4 DEF r
    <3> DEFINE d == [call[t] EXCEPT !.read = row]
    <3>2. call' = [call EXCEPT ![t].read = row]
      BY <2>4, <2>8, <3>1
    <3>3. call' = [call EXCEPT ![t] = d]
      BY <3>2 DEF SqlInv, SqlTypeOK
    <3>4. /\ d \in CallOf /\ d.at = "execute" /\ d.op = call[t].op /\ d.id = call[t].id
          /\ d.state = call[t].state /\ d.params = call[t].params /\ d.shared = call[t].shared
          /\ d.read = row
      BY <1>1, <3>1 DEF CallOf
    <3> HIDE DEF d
    <3>5. ASSUME d.at # "idle", ~d.shared PROVE GoesAhead(t)'
      <4>1. GoesAhead(t) /\ ~call[t].shared
        BY <1>1, <3>4, <3>5 DEF SqlInv, AloneGoesAhead
      <4>2. call'[t] = d /\ \A u \in SqlThreads \ {t} : call'[u] = call[u]
        BY <3>3 DEF SqlInv, SqlTypeOK
      <4>3. \A u \in SqlThreads \ {t} : call'[u].at = "idle"
        BY <4>1, <4>2 DEF GoesAhead, Busy
      <4>4. Ahead = IF call[t].id \in DOMAIN rows THEN {call[t].id} ELSE {}
        BY <1>1, <2>8, <4>1, AloneReadsItsRow
      <4>5. n = call[t].id
        BY <2>2, <4>4
      <4>6. m_sql' = d.op /\ \A i \in 1..Length(d.op) : m_stmts[m_sql].bound[i] = d.params[i]
        BY <1>1, <2>8, <3>4, <4>1 DEF GoesAhead
      <4>7. /\ \A i \in 1..Length(d.op) : m_stmts'[d.op].bound[i] = d.params[i]
            /\ m_stmts'[d.op].cursor = d.id /\ d.id \in DOMAIN rows'
            /\ d.read = <<d.id, rows'[d.id]>> /\ d.read # NoRow
        BY <1>1, <2>2, <2>5, <2>8, <3>1, <3>4, <4>5, <4>6
      <4> QED  BY <2>8, <3>4, <4>2, <4>3, <4>6, <4>7 DEF GoesAhead, Busy
    <3> QED  BY <1>1, <2>5, <3>3, <3>4, <3>5, OneCallGoesOn
  <2> QED  BY <2>6, <2>7, <2>8
<1> QED  BY <1>2, <1>3

LEMMA WriteKeeps ==
  ASSUME SqlInv, NEW t \in SqlThreads, call[t].at = "execute", StepUpdate(t) \/ StepInsert(t),
         UNCHANGED m_sql
  PROVE  SqlInv'
<1>1. /\ Busy(t) /\ call[t] \in CallOf /\ m_sql \in DOMAIN m_stmts
      /\ m_stmts[m_sql] \in StatementOf(m_sql)
  BY BusyCall DEF Busy
<1>2. /\ m_stmts' = [m_stmts EXCEPT ![m_sql].at = "halted", ![m_sql].cursor = 0] /\ call' = Goes(t, "idle")
  BY DEF StepUpdate, StepInsert, Stepped
<1>3. /\ DOMAIN m_stmts' = DOMAIN m_stmts
      /\ m_stmts' = [op \in DOMAIN m_stmts |-> m_stmts'[op]]
      /\ \A op \in DOMAIN m_stmts : m_stmts'[op] \in StatementOf(op)
  BY <1>1, <1>2, StatementMoves
<1>4. Bound(1) \in Nat /\ Bound(2) \in Nat
  <2>1. Length(m_sql) \in {2, 3} /\ m_stmts[m_sql].bound \in [1..Length(m_sql) -> Nat]
    BY <1>1, BusyCall DEF StatementOf
  <2>2. 1 \in 1..Length(m_sql) /\ 2 \in 1..Length(m_sql)
    BY <2>1
  <2> QED  BY <2>1, <2>2 DEF Bound
<1>5. DOMAIN rows' \subseteq Nat /\ rows' \in [DOMAIN rows' -> SqlValues]
  <2>1. CASE StepUpdate(t)
    <3>1. rows' = [id \in DOMAIN rows |->
                     IF Bound(1) # Null /\ Within(Bound(2), Bound(3), id) THEN Bound(1) ELSE rows[id]]
      BY <2>1 DEF StepUpdate
    <3> QED  BY <1>4, <3>1, RowsAre DEF SqlValues
  <2>2. CASE StepInsert(t)
    <3>1. \/ rows' = rows
          \/ rows' = [id \in DOMAIN rows \cup {Bound(1)} |-> IF id = Bound(1) THEN Bound(2) ELSE rows[id]]
      BY <2>2 DEF StepInsert
    <3> QED  BY <1>4, <3>1, RowsAre DEF SqlValues
  <2> QED  BY <2>1, <2>2
<1> QED  BY <1>1, <1>2, <1>3, <1>5, CallEnds

LEMMA SqlStep ==
  ASSUME SqlInv, [SqlNext]_sqlVars
  PROVE  SqlInv'
<1>1. ASSUME NEW t \in SqlThreads, SqlThread(t) PROVE SqlInv'
  <2>1. ASSUME NEW id \in TaskIds \cup NewIds, NEW state \in States, NEW op \in Texts,
               BeginSql(t, op, id, state)
        PROVE  SqlInv'
    <3>1. id \in Nat \ {0} /\ state \in Nat \ {0}
      BY SqlAssumption
    <3> QED  BY <2>1, <3>1, BeginKeeps
  <2>2. CASE ResetSql(t) \/ BindSql(t)
    BY <2>2, ResetKeeps, BindKeeps
  <2>3. CASE ExecuteSql(t)
    BY <2>3, SelectKeeps, WriteKeeps DEF ExecuteSql
  <2> QED  BY <1>1, <2>1, <2>2, <2>3 DEF SqlThread, Texts
<1>2. CASE UNCHANGED sqlVars
  <2>1. UNCHANGED <<rows, m_sql, m_stmts, call>>
    BY <1>2 DEF sqlVars
  <2> QED  BY <2>1 DEF SqlInv, SqlTypeOK, AloneGoesAhead, GoesAhead, Busy
<1> QED  BY <1>1, <1>2 DEF SqlNext

-----------------------------------------------------------------------------
\* What a statement is executed with that a call by itself has bound.
LEMMA AloneIsBound ==
  ASSUME SqlInv, NEW t \in SqlThreads, Busy(t), ~call[t].shared, call[t].at = "execute"
  PROVE  /\ m_sql = call[t].op /\ call[t].id \in Nat \ {0} /\ call[t].state \in Nat \ {0}
         /\ m_sql = "update" =>
              Bound(1) = call[t].state /\ Bound(2) = call[t].id /\ Bound(3) = call[t].id
         /\ m_sql = "insert" => Bound(1) = call[t].id /\ Bound(2) = call[t].state
<1> DEFINE c == call[t]
<1>1. GoesAhead(t)
  BY DEF SqlInv, AloneGoesAhead
<1>2. m_sql = c.op /\ \A i \in 1..Length(m_sql) : m_stmts[m_sql].bound[i] = c.params[i]
  BY <1>1 DEF GoesAhead
<1>3. c.id \in Nat \ {0} /\ c.state \in Nat \ {0} /\ c.params = Params(c.op, c.id, c.state)
  BY BusyCall DEF CallOf
<1>4. PICK id \in Nat, state \in Nat :
        id = c.id /\ state = c.state /\ c.params = Params(m_sql, id, state)
  BY <1>2, <1>3
<1>5. m_sql = "update" =>
        Params(m_sql, id, state)[1] = state /\ Params(m_sql, id, state)[2] = id /\ Params(m_sql, id, state)[3] = id
  BY ParamsAre DEF Texts
<1>6. m_sql = "insert" => Params(m_sql, id, state)[1] = id /\ Params(m_sql, id, state)[2] = state
  BY ParamsAre DEF Texts
<1>7. /\ m_sql = "update" => 1 \in 1..Length(m_sql) /\ 2 \in 1..Length(m_sql) /\ 3 \in 1..Length(m_sql)
      /\ m_sql = "insert" => 1 \in 1..Length(m_sql) /\ 2 \in 1..Length(m_sql)
  BY DEF Length
<1>8. m_sql = "update" => Bound(1) = c.state /\ Bound(2) = c.id /\ Bound(3) = c.id
  BY <1>2, <1>4, <1>5, <1>7 DEF Bound
<1>9. m_sql = "insert" => Bound(1) = c.id /\ Bound(2) = c.state
  BY <1>2, <1>4, <1>6, <1>7 DEF Bound
<1> QED  BY <1>2, <1>3, <1>8, <1>9

\* What is said of one call that ends.
AsAsked(t) ==
  LET c == call[t]
  IN  CASE c.op = "select" ->
             c.read = IF c.id \in DOMAIN rows THEN <<c.id, rows[c.id]>> ELSE NoRow
        [] c.op = "update" ->
             rows' = [id \in DOMAIN rows |-> IF id = c.id THEN c.state ELSE rows[id]]
        [] c.op = "insert" ->
             rows' = [id \in DOMAIN rows \cup {c.id} |->
                        IF id \in DOMAIN rows THEN rows[id] ELSE c.state]

LEMMA AloneExecutes ==
  ASSUME SqlInv, NEW t \in SqlThreads, ExecuteSql(t), ~call[t].shared, call'[t].at = "idle"
  PROVE  AsAsked(t)
<1> DEFINE id0 == call[t].id
           state0 == call[t].state
<1>1. call[t].at = "execute" /\ Busy(t)
  BY DEF ExecuteSql, Busy
<1>2. /\ m_sql = call[t].op /\ id0 \in Nat \ {0} /\ state0 \in Nat \ {0}
      /\ m_sql = "update" => Bound(1) = state0 /\ Bound(2) = id0 /\ Bound(3) = id0
      /\ m_sql = "insert" => Bound(1) = id0 /\ Bound(2) = state0
  BY <1>1, AloneIsBound
<1>3. \A k \in DOMAIN rows : k \in Nat
  BY RowsAre
<1> HIDE DEF id0, state0
<1>4. CASE StepSelect(t)
  <2>1. m_sql = "select" /\ call[t].op = "select"
    BY <1>2, <1>4 DEF StepSelect
  <2>2. Ahead = {}
    <3>1. SUFFICES ASSUME Ahead # {} PROVE FALSE
      OBVIOUS
    <3>2. /\ Ahead = IF call[t].read = NoRow /\ call[t].id \in DOMAIN rows THEN {call[t].id} ELSE {}
          /\ call[t].read = NoRow
      BY <1>1, <2>1, <3>1, AloneReadsItsRow
    <3>3. \E row : call' = [call EXCEPT ![t].read = row]
      BY <1>4, <2>1, <3>1, <3>2 DEF StepSelect
    <3>4. call'[t].at = call[t].at
      BY <1>1, <3>3, BusyCall DEF SqlInv, SqlTypeOK, CallOf
    <3> QED  BY <1>1, <3>4
  <2>3. call[t].read = IF call[t].id \in DOMAIN rows THEN <<call[t].id, rows[call[t].id]>> ELSE NoRow
    BY <1>1, <2>1, <2>2, AloneReadsItsRow
  <2> QED  BY <2>1, <2>3 DEF AsAsked
<1>5. CASE StepUpdate(t)
  <2>1. /\ m_sql = "update"
        /\ rows' = [id \in DOMAIN rows |->
                      IF Bound(1) # Null /\ Within(Bound(2), Bound(3), id) THEN Bound(1) ELSE rows[id]]
    BY <1>5 DEF StepUpdate
  <2>2. \A id \in DOMAIN rows : (Bound(1) # Null /\ Within(Bound(2), Bound(3), id)) <=> id = id0
    BY <1>2, <1>3, <2>1 DEF Within, Null
  <2>3. rows' = [id \in DOMAIN rows |-> IF id = id0 THEN state0 ELSE rows[id]]
    BY <1>2, <2>1, <2>2
  <2> QED  BY <1>2, <2>1, <2>3 DEF AsAsked, id0, state0
<1>6. CASE StepInsert(t)
  <2>1. /\ m_sql = "insert"
        /\ rows' = IF Bound(1) \in DOMAIN rows \/ Null \in {Bound(1), Bound(2)} THEN rows
                   ELSE [id \in DOMAIN rows \cup {Bound(1)} |-> IF id = Bound(1) THEN Bound(2) ELSE rows[id]]
    BY <1>6 DEF StepInsert
  <2>2. rows' = IF id0 \in DOMAIN rows THEN rows
                ELSE [id \in DOMAIN rows \cup {id0} |-> IF id = id0 THEN state0 ELSE rows[id]]
    BY <1>2, <2>1 DEF Null
  <2>3. rows' = [id \in DOMAIN rows \cup {id0} |-> IF id \in DOMAIN rows THEN rows[id] ELSE state0]
    <3>1. CASE id0 \in DOMAIN rows
      <4>1. DOMAIN rows \cup {id0} = DOMAIN rows /\ rows' = rows
        BY <2>2, <3>1
      <4>2. rows = [id \in DOMAIN rows |-> rows[id]]
        BY RowsAre
      <4> QED  BY <4>1, <4>2
    <3>2. CASE id0 \notin DOMAIN rows
      BY <2>2, <3>2
    <3> QED  BY <3>1, <3>2
  <2> QED  BY <1>2, <2>1, <2>3 DEF AsAsked, id0, state0
<1> QED  BY <1>4, <1>5, <1>6 DEF ExecuteSql

\* A call ends in its own ExecuteSql.
LEMMA EndsHere ==
  ASSUME SqlInv, SqlNext, NEW t \in SqlThreads, Busy(t), call'[t].at = "idle"
  PROVE  ExecuteSql(t)
<1>1. PICK u \in SqlThreads : SqlThread(u)
  BY DEF SqlNext
<1>2. ASSUME NEW op, NEW id, NEW state, BeginSql(u, op, id, state) PROVE FALSE
  <2>1. t # u /\ call'[t] = [call[t] EXCEPT !.shared = TRUE]
    BY <1>2 DEF BeginSql
  <2>2. call'[t].at = call[t].at
    BY <2>1, BusyCall DEF CallOf
  <2> QED  BY <2>2 DEF Busy
<1>3. ASSUME ResetSql(u) PROVE FALSE
  <2>1. call' = [call EXCEPT ![u].at = "bind"]
    BY <1>3 DEF ResetSql, Goes
  <2>2. call'[t].at = call[t].at \/ call'[t].at = "bind"
    BY <2>1, BusyCall DEF SqlInv, SqlTypeOK, CallOf
  <2> QED  BY <2>2 DEF Busy
<1>4. ASSUME BindSql(u) PROVE FALSE
  <2> DEFINE n == call[u].next + 1
             at == IF call[u].next = Len(call[u].params) THEN "execute" ELSE "bind"
             q == [call[u] EXCEPT !.next = n]
             d == [q EXCEPT !.at = at]
  <2>1. call' = [call EXCEPT ![u] = d] /\ Busy(u)
    BY <1>4 DEF BindSql, Busy
  <2>2. at # "idle"
    OBVIOUS
  <2>3. call[u] \in CallOf
    BY <2>1, BusyCall
  <2> HIDE DEF n, at
  <2>4. q = [at |-> call[u].at, op |-> call[u].op, params |-> call[u].params, id |-> call[u].id,
             state |-> call[u].state, next |-> n, read |-> call[u].read, shared |-> call[u].shared]
    BY <2>3 DEF CallOf
  <2> HIDE DEF q
  <2>5. d.at = at
    BY <2>4
  <2> HIDE DEF d
  <2>6. call'[t].at = call[t].at \/ call'[t].at = at
    BY <2>1, <2>5 DEF SqlInv, SqlTypeOK
  <2> QED  BY <2>2, <2>6 DEF Busy
<1>5. ASSUME ExecuteSql(u) PROVE u = t
  <2>1. \/ call' = call \/ call' = Goes(u, "idle")
        \/ \E row : call' = [call EXCEPT ![u].read = row]
    BY <1>5 DEF ExecuteSql, StepSelect, StepUpdate, StepInsert
  <2>2. u # t => call'[t] = call[t]
    BY <2>1 DEF SqlInv, SqlTypeOK, Goes
  <2> QED  BY <2>2 DEF Busy
<1> QED  BY <1>1, <1>2, <1>3, <1>4, <1>5 DEF SqlThread

\* AloneDoesWhatWasAsked: a call that no other call overlaps does what it was asked to,
\* whatever earlier calls left in the statements (sql_table_query.cpp resets them and
\* never clears their bindings).
THEOREM AloneDoesIt == SqlSpec => AloneDoesWhatWasAsked
<1>1. ASSUME SqlInv, [SqlNext]_sqlVars
      PROVE  [\A t \in SqlThreads : Ends(t) /\ ~call[t].shared => AsAsked(t)]_sqlVars
  <2>1. ASSUME SqlNext, NEW t \in SqlThreads, Ends(t), ~call[t].shared
        PROVE  AsAsked(t)
    <3>1. ExecuteSql(t)
      BY <1>1, <2>1, EndsHere DEF Ends
    <3> QED  BY <1>1, <2>1, <3>1, AloneExecutes DEF Ends
  <2> QED  BY <1>1, <2>1
<1>2. (SqlInv /\ [SqlNext]_sqlVars) =>
        [\A t \in SqlThreads : Ends(t) /\ ~call[t].shared =>
           LET c == call[t]
           IN  CASE c.op = "select" ->
                      c.read = IF c.id \in DOMAIN rows THEN <<c.id, rows[c.id]>> ELSE NoRow
                 [] c.op = "update" ->
                      rows' = [id \in DOMAIN rows |-> IF id = c.id THEN c.state ELSE rows[id]]
                 [] c.op = "insert" ->
                      rows' = [id \in DOMAIN rows \cup {c.id} |->
                                 IF id \in DOMAIN rows THEN rows[id] ELSE c.state]]_sqlVars
  BY <1>1 DEF AsAsked
<1> QED  BY <1>2, SqlInitInv, SqlStep, PTL DEF SqlSpec, AloneDoesWhatWasAsked

-----------------------------------------------------------------------------
(* The descriptors.  OwnedOnce is not inductive as it stands: that main()   *)
(* does not return with its socket open needs that it never keeps two.     *)

\* main() keeps at most one socket, and none before it has made it.
MainKeepsOne ==
  /\ \A fd, d \in Descriptors : bare[fd] = "main" /\ bare[d] = "main" => fd = d
  /\ mainAt = "socket" => \A fd \in Descriptors : bare[fd] # "main"

OwnInv == HandlesTypeOK /\ OwnedOnce /\ MainKeepsOne

\* No handle and nobody's number is the mark of an empty handle.
LEMMA InvalidIsNoDescriptor == Invalid \notin Descriptors
BY HandlesAssumption DEF Invalid

LEMMA OwnInit == HandlesInit => OwnInv
BY InvalidIsNoDescriptor
   DEF HandlesInit, OwnInv, HandlesTypeOK, OwnedOnce, MainKeepsOne, SocketStates, Keepers, MainSteps

-----------------------------------------------------------------------------
(***************************************************************************)
(* One lemma per operation: what it closes had no other owner, and what it *)
(* hands over has none left behind.                                        *)
(***************************************************************************)
LEMMA AssignKeepsInv ==
  ASSUME OwnInv, NEW h \in Handles, NEW kind \in {"new", "other"}, TakesNew(h, kind)
  PROVE  OwnInv'
BY InvalidIsNoDescriptor
   DEF TakesNew, Close, Free, OwnInv, HandlesTypeOK, OwnedOnce, MainKeepsOne,
       SocketStates, Keepers, MainSteps

LEMMA MoveConstructKeepsInv ==
  ASSUME OwnInv, NEW h \in Handles, NEW g \in Handles, MoveConstruct(h, g)
  PROVE  OwnInv'
BY InvalidIsNoDescriptor
   DEF MoveConstruct, OwnInv, HandlesTypeOK, OwnedOnce, MainKeepsOne,
       SocketStates, Keepers, MainSteps

LEMMA MoveAssignKeepsInv ==
  ASSUME OwnInv, NEW h \in Handles, NEW g \in Handles, MoveAssign(h, g)
  PROVE  OwnInv'
BY InvalidIsNoDescriptor
   DEF MoveAssign, Close, OwnInv, HandlesTypeOK, OwnedOnce, MainKeepsOne,
       SocketStates, Keepers, MainSteps

LEMMA AcceptIntoKeepsInv ==
  ASSUME OwnInv, NEW h \in Handles, NEW g \in Handles, AcceptInto(h, g)
  PROVE  OwnInv'
BY InvalidIsNoDescriptor
   DEF AcceptInto, Free, OwnInv, HandlesTypeOK, OwnedOnce, MainKeepsOne,
       SocketStates, Keepers, MainSteps

LEMMA DestructKeepsInv ==
  ASSUME OwnInv, NEW h \in Handles, Destruct(h)
  PROVE  OwnInv'
BY InvalidIsNoDescriptor
   DEF Destruct, Close, OwnInv, HandlesTypeOK, OwnedOnce, MainKeepsOne,
       SocketStates, Keepers, MainSteps

LEMMA ReleaseKeepsInv ==
  ASSUME OwnInv, NEW h \in Handles, Release(h)
  PROVE  OwnInv'
BY InvalidIsNoDescriptor
   DEF Release, OwnInv, HandlesTypeOK, OwnedOnce, MainKeepsOne,
       SocketStates, Keepers, MainSteps

LEMMA ResetKeepsInv ==
  ASSUME OwnInv, NEW h \in Handles, NEW fd \in Descriptors, Reset(h, fd)
  PROVE  OwnInv'
BY InvalidIsNoDescriptor
   DEF Reset, Close, OwnInv, HandlesTypeOK, OwnedOnce, MainKeepsOne, SocketStates, Keepers, MainSteps

\* bind, listen and connect change what a socket is, not whose it is.
LEMMA TurnsKeepsInv ==
  ASSUME OwnInv, NEW h \in Handles, NEW from \in SUBSET (SocketStates \ {"closed"}),
         NEW to \in SocketStates \ {"closed"}, Turns(h, from, to)
  PROVE  OwnInv'
BY InvalidIsNoDescriptor
   DEF Turns, OwnInv, HandlesTypeOK, OwnedOnce, MainKeepsOne,
       SocketStates, Keepers, MainSteps

LEMMA PeerAnswersKeepsInv ==
  ASSUME OwnInv, NEW fd \in Descriptors, PeerAnswers(fd)
  PROVE  OwnInv'
BY InvalidIsNoDescriptor
   DEF PeerAnswers, OwnInv, HandlesTypeOK, OwnedOnce, MainKeepsOne,
       SocketStates, Keepers, MainSteps

LEMMA ThreadClosesKeepsInv ==
  ASSUME OwnInv, NEW fd \in Descriptors, ThreadCloses(fd)
  PROVE  OwnInv'
BY InvalidIsNoDescriptor
   DEF ThreadCloses, Close, OwnInv, HandlesTypeOK, OwnedOnce, MainKeepsOne,
       SocketStates, Keepers, MainSteps

LEMMA MainSocketKeepsInv ==
  ASSUME OwnInv, MainSocket
  PROVE  OwnInv'
BY InvalidIsNoDescriptor
   DEF MainSocket, Free, OwnInv, HandlesTypeOK, OwnedOnce, MainKeepsOne,
       SocketStates, Keepers, MainSteps

LEMMA MainGoesOnKeepsInv ==
  ASSUME OwnInv, NEW at, NEW next \in MainSteps \ {"socket", "returned"},
         NEW state \in SocketStates \ {"closed"}, MainGoesOn(at, next, state)
  PROVE  OwnInv'
BY InvalidIsNoDescriptor
   DEF MainGoesOn, Close, OwnInv, HandlesTypeOK, OwnedOnce, MainKeepsOne,
       SocketStates, Keepers, MainSteps

LEMMA MainAcceptsKeepsInv ==
  ASSUME OwnInv, MainAccepts
  PROVE  OwnInv'
BY InvalidIsNoDescriptor
   DEF MainAccepts, Free, OwnInv, HandlesTypeOK, OwnedOnce, MainKeepsOne, SocketStates, Keepers, MainSteps

LEMMA OwnNext ==
  ASSUME OwnInv, [HandlesNext]_handleVars
  PROVE  OwnInv'
<1>1. CASE \E h \in Handles : \/ \E kind \in {"new", "other"} : TakesNew(h, kind)
                              \/ \E g \in Handles : \/ MoveConstruct(h, g) \/ MoveAssign(h, g)
                                                    \/ AcceptInto(h, g)
                              \/ Destruct(h) \/ Release(h)
                              \/ \E fd \in Descriptors : Reset(h, fd)
  BY <1>1, AssignKeepsInv, MoveConstructKeepsInv, MoveAssignKeepsInv, AcceptIntoKeepsInv,
     DestructKeepsInv, ReleaseKeepsInv, ResetKeepsInv
<1>2. CASE \E h \in Handles : Bind(h) \/ Listen(h) \/ Connect(h)
  <2>1. PICK h \in Handles : Bind(h) \/ Listen(h) \/ Connect(h)
    BY <1>2
  <2>2. CASE Bind(h)
    BY <2>2, TurnsKeepsInv DEF Bind, SocketStates
  <2>3. CASE Listen(h)
    BY <2>3, TurnsKeepsInv DEF Listen, SocketStates
  <2>4. CASE Connect(h)
    BY <2>4, TurnsKeepsInv DEF Connect, SocketStates
  <2>5. QED
    BY <2>1, <2>2, <2>3, <2>4
<1>3. CASE \E fd \in Descriptors : PeerAnswers(fd) \/ ThreadCloses(fd)
  BY <1>3, PeerAnswersKeepsInv, ThreadClosesKeepsInv
<1>4. CASE \/ MainSocket \/ MainAccepts
           \/ MainGoesOn("bind", "listen", "bound")
           \/ MainGoesOn("listen", "accepting", "listening")
  <2>1. /\ "listen" \in MainSteps \ {"socket", "returned"} /\ "bound" \in SocketStates \ {"closed"}
        /\ "accepting" \in MainSteps \ {"socket", "returned"}
        /\ "listening" \in SocketStates \ {"closed"}
    BY DEF MainSteps, SocketStates
  <2>2. QED
    BY <1>4, <2>1, MainSocketKeepsInv, MainAcceptsKeepsInv, MainGoesOnKeepsInv
<1>5. CASE UNCHANGED handleVars
  BY <1>5 DEF OwnInv, HandlesTypeOK, OwnedOnce, MainKeepsOne, handleVars
<1>6. QED
  BY <1>1, <1>2, <1>3, <1>4, <1>5 DEF HandlesNext

(***************************************************************************)
(* unique_handle.hpp: every open descriptor has exactly one owner.         *)
(***************************************************************************)
THEOREM OneOwner == HandlesSpec => []OwnedOnce
<1>1. OwnInv => OwnedOnce
  BY DEF OwnInv
<1>2. QED
  BY OwnInit, OwnNext, <1>1, PTL DEF HandlesSpec
=============================================================================
