----------------------------- MODULE MCCoapClient -----------------------------
(* Instances of CoapClient for TLC: which API calls are made.                   *)
EXTENDS CoapClient

EndDeviceCommands == {"toggle"}
AllCommands == Requests \cup {"toggle"}
===============================================================================
