----------------------------- MODULE MCShutdown -----------------------------
(***************************************************************************)
(* A small instance of Shutdown for TLC: three connections, a signal and   *)
(* a fatal error, two hooks.                                               *)
(***************************************************************************)
EXTENDS Shutdown, TLC

TwoReasons == {"SIGTERM", "uncaughtException"}
ReasonCode == [reason \in TwoReasons |-> IF reason = "SIGTERM" THEN 0 ELSE 1]
TwoHooks == <<"first", "second">>
=============================================================================
