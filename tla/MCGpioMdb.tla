------------------------------- MODULE MCGpioMdb -------------------------------
(* The constants of GpioMdb are numbers and are given in the configurations. *)
EXTENDS GpioMdbProperties
================================================================================
