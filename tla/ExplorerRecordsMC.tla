------------------------- MODULE ExplorerRecordsMC -------------------------
(* Values of the constants of ExplorerRecords for the model checker.       *)
EXTENDS ExplorerRecords

First == <<"l", 1>>
Second == <<"l", 2>>

TwoAttempts == {First, Second}
(* The second attempt repeats the evidence of the first.                   *)
ContinuedObjects ==
    {<<First, "CAS", 1>>, <<First, "scratch", 1>>, <<First, "summary", 2>>,
     <<Second, "CAS", 1>>, <<Second, "scratch", 1>>}
=============================================================================
