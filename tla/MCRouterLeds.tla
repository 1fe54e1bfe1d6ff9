----------------------------- MODULE MCRouterLeds -----------------------------
(* RouterLeds, and with it NusLink, for TLC, with the one connection object the *)
(* host of these programs is configured with.                                   *)
EXTENDS RouterLeds

===============================================================================
