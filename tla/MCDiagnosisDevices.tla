------------------------- MODULE MCDiagnosisDevices -------------------------
(* One element with a range of 2..3, which a round can change by 1, and an   *)
(* initial value below that: the first change starts out of the bounds, and  *)
(* later ones end below and above them.  There are no data lines.            *)
EXTENDS DiagnosisDevices

CONSTANT a

MCItem == {a}
MCValue == -1..4
MCList == <<a>>
MCLowest == [i \in MCItem |-> 2]
MCHighest == [i \in MCItem |-> 3]
MCMaxDelta == [i \in MCItem |-> 1]
MCReading == [i \in MCItem |-> {}]
=============================================================================
