--------------------------- MODULE MCBlockDownload ---------------------------
(* Small instances of BlockDownload for TLC.                               *)
EXTENDS BlockDownload

CONSTANTS t1, t2, b1, b2

\* One task of two blocks, started twice.
OneTask     == {t1}
OneBlocksOf == [t \in OneTask |-> <<b1, b2>>]
OneRequests == {t1, b1, b2}
OneBudget   == [t \in OneTask |-> 2]

\* Two tasks of one block, each started once.
TwoTasks    == {t1, t2}
TwoBlocksOf == [t \in TwoTasks |-> IF t = t1 THEN <<b1>> ELSE <<b2>>]
TwoRequests == {t1, t2, b1, b2}
TwoBudget   == [t \in TwoTasks |-> 1]

\* A cut-short file is answered like a whole one: only CompletedMeansWhole can tell.
TwoContents == {"data", "empty"}
AllContents == {"data", "zeros", "empty"}
=============================================================================
