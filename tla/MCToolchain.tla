---------------------------- MODULE MCToolchain ----------------------------
(***************************************************************************)
(* A small instance of Toolchain: two processes, an empty program, one     *)
(* with code only and two of the same shape.                               *)
(***************************************************************************)
EXTENDS Toolchain

MCPrograms == {[code |-> <<>>, data |-> <<>>], [code |-> <<1>>, data |-> <<>>],
               [code |-> <<1, 2>>, data |-> <<3>>], [code |-> <<4, 5>>, data |-> <<6>>]}
=============================================================================
