------------------------------- MODULE MCUart -------------------------------
(***************************************************************************)
(* Uart with a FIFO of two, and messages that are empty, end in a '\n',    *)
(* have it inside, fill the buffer and are cut.                            *)
(***************************************************************************)
EXTENDS Uart

MCTexts ==
  {<<>>, <<"a", LF>>, <<LF, "b">>, <<"a", "b", "a", LF>>}

MCLeftovers == {<<>>, <<"x">>, <<"x", "x">>}
=============================================================================
