----------------------------- MODULE MCStartup -----------------------------
(* Every choice of optional services. *)
EXTENDS Startup

AllConfigs == SUBSET Optional

=============================================================================
