--------------------------- MODULE MCEnrollment ---------------------------
(***************************************************************************)
(* Small instances of Enrollment for TLC.  Devices and keys are model      *)
(* values and interchangeable.                                             *)
(***************************************************************************)
EXTENDS Enrollment, TLC

Symmetry == Permutations(Mac) \cup Permutations(Key)

=============================================================================
