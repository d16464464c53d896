----------------------------- MODULE MCIlpSender -----------------------------
(* A small instance of the sender: a few rows, a buffer they can overrun.  *)
EXTENDS IlpSender
===============================================================================
