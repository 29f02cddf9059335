------------------------- MODULE MCWorkbenchSession -------------------------
(* Small instances of WorkbenchSession.                                      *)
EXTENDS WorkbenchSession

CONSTANTS t1, t2

MCThreads == {t1, t2}
MCProfiles == {"fast", "full"}
MCFaults == FaultKinds
MCNoFaults == {}
=============================================================================
