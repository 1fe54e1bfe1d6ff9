----------------------------- MODULE MCCoapServer -----------------------------
(* CoapServer for TLC.                                                          *)
EXTENDS CoapServer

===============================================================================
