------------------------------ MODULE MCProgram -----------------------------
(***************************************************************************)
(* An instance of Program and of Server for TLC: one packet of each kind,  *)
(* one shorter than a header and one longer than the server takes.         *)
(***************************************************************************)
EXTENDS Program

MCRequest ==
  { [ size |-> 3, kind |-> "no_magic" ],
    [ size |-> 1, kind |-> "refused" ],
    [ size |-> 3, kind |-> "refused" ],
    [ size |-> 3, kind |-> "good" ],
    [ size |-> 6, kind |-> "good" ] }
=============================================================================
