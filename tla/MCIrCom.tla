------------------------------- MODULE MCIrCom -------------------------------
(* Windows of two samples, words of one bit, one emitter; a mark switches  *)
(* the emitter twice, a space once (the parity of the code's 10 and 5).    *)
EXTENDS IrCom

Word == INSTANCE IrcomWord
ErrorIsFlag == Word!ErrorIsFlag

(* The message that is pushed when the last bit of a word has come has no  *)
(* error when the word comes as any robot has sent it, and then its value  *)
(* is the one sent; it has an error when one bit came wrong.               *)
PushedAsSent == [][rbit' > rbit /\ rbit' = WordSize + 2 => Word!WordIsChecked]_vars
=============================================================================
