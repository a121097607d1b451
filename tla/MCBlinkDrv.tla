------------------------------ MODULE MCBlinkDrv ------------------------------
(***************************************************************************)
(* Model-checking instance of BlinkDrv: two LEDs, one colour.              *)
(***************************************************************************)
EXTENDS BlinkDrv

Token(l, c) == [led |-> l, color |-> c]

\* A lone newline; one LED; a colour that an invalid LED number leaves in force
\* for the next token; the same LED twice.
MCRequests ==
    { <<>>,
      <<Token(1, 1)>>,
      <<Token(7, 1), Token(0, Same)>>,
      <<Token(0, 1), Token(0, 0)>> }
=============================================================================
