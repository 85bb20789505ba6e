------------------------------ MODULE MCHostLink ------------------------------
(* Small instances of HostLink. *)
EXTENDS HostLink
=============================================================================
