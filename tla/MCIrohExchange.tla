--------------------------- MODULE MCIrohExchange ---------------------------
(* Three exchanges with two peers. *)
EXTENDS IrohExchange
=============================================================================
