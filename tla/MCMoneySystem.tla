---------------------------- MODULE MCMoneySystem ----------------------------
(* Values of the constants for the runs of MoneySystem. *)
EXTENDS MoneyProperties

\* Outside events, by kind.
Events(insert, press, quiet, busy, fault, restart) ==
  [k \in EventKinds |->
     CASE k = "insert" -> insert [] k = "press" -> press [] k = "quiet" -> quiet
       [] k = "busy" -> busy [] k = "fault" -> fault
       [] k = "restart" -> restart]

\* Everything the driver reports that carries no money.
MCQuiet == LoggedStatuses \ {"Busy"}

CoreBudget == Events(2, 1, 0, 0, 1, 0)
RestartBudget == Events(1, 1, 1, 0, 1, 1)
LiveBudget == Events(2, 1, 0, 1, 1, 0)
BacklogBudget == Events(3, 1, 0, 0, 0, 0)
================================================================================
