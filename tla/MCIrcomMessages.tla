--------------------------- MODULE MCIrcomMessages ---------------------------
(* A queue of three messages out of two contents.                          *)
EXTENDS IrcomMessages
CONSTANTS m1, m2
MCMessages == {m1, m2}
=============================================================================
