------------------------------- MODULE MCSerial -------------------------------
(****************************************************************************)
(* The small instance of FunctionPatcher that is used as SerialUse says.    *)
(****************************************************************************)
EXTENDS MCFunctionPatcher, SerialUse

ASSUME SerialDiscipline == Discipline
==============================================================================
