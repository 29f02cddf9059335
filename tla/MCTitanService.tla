--------------------------- MODULE MCTitanService ---------------------------
(* Small instances of TitanService.                                          *)
EXTENDS TitanService

CONSTANTS d1, d2, w1, w2, s1

MCDigests == {d1, d2}
MCWorkers == {w1, w2}
MCSubmitters == {s1}
MCAllFaults == FaultKinds
MCAnalysisFaults == {"analysis"}
=============================================================================
