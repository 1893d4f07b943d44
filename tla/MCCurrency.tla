------------------------------- MODULE MCCurrency ------------------------------
(* Values of the constants for the run of Currency. *)
EXTENDS CurrencyProperties

TwoGroups == {{1, 2, 4}, {2, 3}}
================================================================================
