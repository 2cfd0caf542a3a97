----------------------------- MODULE PythonNone ------------------------------
(***************************************************************************)
(* What modules about different parts of the program share: Python's None.  *)
(***************************************************************************)
EXTENDS Integers

CONSTANT None \* Python's None

ASSUME NoneAssumption == None \notin Nat
==============================================================================
