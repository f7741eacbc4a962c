--------------------------- MODULE MCExternalData ---------------------------
(* Instances of ExternalData for TLC.                                      *)
EXTENDS ExternalData

CONSTANTS t1, t2, k1, k2

TwoTasks == {t1, t2}
OneKey   == {k1}
TwoKeys  == {k1, k2}
NoFault  == {}
AllFaults == {"redis"}
=============================================================================
