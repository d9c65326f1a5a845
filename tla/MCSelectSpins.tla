---------------------------- MODULE MCSelectSpins ---------------------------
(***************************************************************************)
(* echo.cpp, with a standard output that is sometimes full.                *)
(***************************************************************************)
EXTENDS Sockets, TLC

MCSource == (0 :> <<1, 2>>) @@ (1 :> <<>>)
MCOrigin == 1 :> 0
=============================================================================
