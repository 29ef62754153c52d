-------------------------- MODULE MCServerPipeline --------------------------
(* Small instances of ServerPipeline for TLC.                              *)
EXTENDS ServerPipeline

CONSTANTS c1, c2

\* Two clients whose four requests include one the server does not know.
Pair == {c1, c2}
PairSends == [c \in Pair |-> IF c = c1 THEN 3 ELSE 1]
PairUnanswered == {<<c1, 2>>}
PairFds == {1, 2}

\* One client of three requests: enough to fill a queue of one and block the reactor.
Single == {c1}
SingleSends == [c \in Single |-> 3]
=============================================================================
