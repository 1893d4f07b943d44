------------------------------ MODULE MCIodinLink ------------------------------
(* The constants of IodinLink are given in the configuration. *)
EXTENDS IodinLinkProperties
================================================================================
