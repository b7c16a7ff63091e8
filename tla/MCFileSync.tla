------------------------------ MODULE MCFileSync ------------------------------
(* Instances of FileSync; each .cfg names its devices, edits and bounds. *)
EXTENDS FileSync, TLC

CONSTANTS phone, desktop, e1, e2

MCOneDevice == {phone}
MCTwoDevices == {phone, desktop}
MCOneEdit == {e1}
MCTwoEdits == {e1, e2}
MCSymmetry == Permutations(MCTwoDevices) \cup Permutations(MCTwoEdits)
=============================================================================
