----------------------------- MODULE MCSupervisor -----------------------------
(* Module Supervisor with --maxfails up to 3, the default.                 *)
EXTENDS Supervisor
=============================================================================
