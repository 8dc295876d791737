----------------------------- MODULE MCOutages -----------------------------
(***************************************************************************)
(* A small instance of Outages: the watchdog trips at the second poll.     *)
(***************************************************************************)
EXTENDS Outages

MCDebounced == {"stuck_offline"}

=============================================================================
