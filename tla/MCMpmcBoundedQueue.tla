-------------------------- MODULE MCMpmcBoundedQueue --------------------------
(* Small instances of MpmcBoundedQueue for TLC.                            *)
EXTENDS MpmcBoundedQueue

CONSTANTS p1, p2

MCQuota == [p \in {p1, p2} |-> IF p = p1 THEN 2 ELSE 1]

\* What ReactorMailBox calls, with close(); the timed pop and the range push on a
\* queue that is resized; and the operations that break the wake-up discipline.
MailBoxOps == {"push", "pop", "try_pop", "close"}
ResizedOps == {"push_range", "pop_until", "close", "set_max_size"}
BatchOps   == {"push_range", "try_pop_n", "front"}
BulkOps    == {"push", "pop_n", "close"}

MCProfiles   == {MailBoxOps, ResizedOps, BatchOps, BulkOps}
BulkProfiles == {BatchOps}
=============================================================================
