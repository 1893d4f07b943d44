------------------------------- MODULE MCMegaLink ------------------------------
(* Values of the constants for the run of MegaLink. *)
EXTENDS MegaLinkProperties
================================================================================
