--------------------------- MODULE MCNginxAdapter ---------------------------
(* Small instances of NginxAdapter for TLC.                                *)
EXTENDS NginxAdapter

B(x, n) == [addr |-> x, weight |-> n]

\* No backend, one, the other, and one that is listed twice.
MCInputs == {<< >>, <<B("x", 1)>>, <<B("y", 1)>>, <<B("x", 1), B("x", 0)>>}
MCInputsSmall == {<< >>, <<B("x", 1)>>}
=============================================================================
