------------------------------ MODULE MCLoops -------------------------------
(* The sequential loops for TLC. *)
EXTENDS Loops

(* Printing makes all floats of the instance one, and all strings. *)
MCRounded == [ x \in Value |-> CHOOSE y \in Value : TRUE ]
MCCut == MCRounded
MCLength == [ x \in Value |-> 3 ]
=============================================================================
