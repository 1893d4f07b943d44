-------------------------------- MODULE Changer --------------------------------
(*****************************************************************************)
(* The MDB coin changer, as the driver hardware/mdb/coin uses it: a device   *)
(* outside the repository that queues notifications for the next POLL, and   *)
(* pays coins out of its tubes after a DISPENSE.  The customer stands behind *)
(* it: coins go in, the return lever is pressed.                             *)
(*                                                                           *)
(* Amounts are kept per nominal (a multiset of coins), never as a sum, so    *)
(* that a property sees which coin was lost or paid twice.                   *)
(*****************************************************************************)
EXTENDS Integers, Sequences

CONSTANTS
  Nominals,       \* coin values announced by SETUP
  Alien,          \* the value of a coin type that SETUP announced as zero
  Inserted,       \* the coins customers insert
  Payable,        \* nominals whose routing bit is set, that the tubes hold
  FullTubes,      \* coins in every payable tube at the beginning
  Routing,        \* where an accepted coin may fall: "tubes", "cashbox"
  QuietStatuses,  \* notifications that carry no money and no request
  MaxItems,       \* notifications in one POLL response (16 bytes in MDB)
  Budget          \* how often each kind of outside event may happen

LoggedStatuses ==
  {"Info", "Error", "Fatal", "WasReset", "Rejected", "Dispensed", "Busy"}

EventKinds == {"insert", "press", "quiet", "busy", "fault", "restart"}

ASSUME ChangerAssumption ==
  /\ Nominals \subseteq Nat \ {0}
  /\ Alien \notin Nominals
  /\ Inserted \subseteq Nominals \cup {Alien}
  /\ Payable \subseteq Nominals
  /\ FullTubes \in Nat
  /\ Routing \subseteq {"tubes", "cashbox"}
  /\ QuietStatuses \subseteq LoggedStatuses \ {"Busy"}
  /\ MaxItems \in Nat \ {0}
  /\ Budget \in [EventKinds -> Nat]

Coins == [Nominals -> Nat]
NoCoins == [n \in Nominals |-> 0]

Item == [status  : LoggedStatuses \cup {"Credit", "ReturnRequest"},
         nominal : Nominals \cup {Alien},
         mark    : Nat]

\* The item of a POLL response that says the changer works on something.
BusyItem == [status |-> "Busy", nominal |-> Alien, mark |-> 0]

VARIABLES
  report,     \* notifications the next POLL will fetch, oldest first
  tubes,      \* coins in the tubes
  payout,     \* coins a DISPENSE asked for and that are still to fall
  produced,   \* notifications produced so far: the mark of the newest one
  deposited,  \* history: coins accepted from the customer
  commanded,  \* history: coins asked for by DISPENSE commands that arrived
  budget      \* outside events still allowed

changerVars ==
  <<report, tubes, payout, produced, deposited, commanded, budget>>

ChangerTypeOK ==
  /\ report \in Seq(Item)
  /\ tubes \in Coins /\ payout \in Coins
  /\ deposited \in Coins /\ commanded \in Coins
  /\ produced \in Nat
  /\ budget \in [EventKinds -> Nat]

ChangerInit ==
  /\ report = <<>>
  /\ tubes = [n \in Nominals |-> IF n \in Payable THEN FullTubes ELSE 0]
  /\ payout = NoCoins
  /\ produced = 0
  /\ deposited = NoCoins
  /\ commanded = NoCoins
  /\ budget = Budget

Spend(kind) ==
  /\ budget[kind] > 0
  /\ budget' = [budget EXCEPT ![kind] = @ - 1]

Notify(status, nominal) ==
  /\ produced' = produced + 1
  /\ report' = Append(report, [status |-> status, nominal |-> nominal,
                               mark |-> produced + 1])

(***************************************************************************)
(* The customer and the mechanics.                                         *)
(***************************************************************************)
InsertCoin(n) ==
  /\ Spend("insert")
  /\ Notify("Credit", n)
  /\ \E where \in Routing :
       IF n \in Payable /\ where = "tubes"
         THEN tubes' = [tubes EXCEPT ![n] = @ + 1]
         ELSE tubes' = tubes
  /\ deposited' = IF n \in Nominals THEN [deposited EXCEPT ![n] = @ + 1]
                                    ELSE deposited
  /\ UNCHANGED <<payout, commanded>>

PressLever ==
  /\ Spend("press")
  /\ Notify("ReturnRequest", Alien)
  /\ UNCHANGED <<tubes, payout, deposited, commanded>>

QuietNotice(status) ==
  /\ Spend("quiet")
  /\ Notify(status, Alien)
  /\ UNCHANGED <<tubes, payout, deposited, commanded>>

\* One coin of a payout falls; an empty tube ends the payout of its nominal.
PayCoin(n) ==
  /\ payout[n] > 0
  /\ IF tubes[n] > 0
       THEN /\ tubes'  = [tubes  EXCEPT ![n] = @ - 1]
            /\ payout' = [payout EXCEPT ![n] = @ - 1]
       ELSE /\ payout' = [payout EXCEPT ![n] = 0]
            /\ UNCHANGED tubes
  /\ UNCHANGED <<report, produced, deposited, commanded, budget>>

ChangerNext ==
  \/ \E n \in Inserted : InsertCoin(n)
  \/ PressLever
  \/ \E status \in QuietStatuses : QuietNotice(status)
  \/ \E n \in Nominals : PayCoin(n)

(***************************************************************************)
(* What the changer does with a command.  The bus carries one exchange at  *)
(* a time (mdb.Tx holds its lock for it), so an exchange is one step.      *)
(***************************************************************************)
Fetched == IF Len(report) < MaxItems THEN Len(report) ELSE MaxItems

Paying == payout # NoCoins

\* A POLL that is answered: a changer that pays out says so, and it may also
\* be busy for reasons of its own.
AnswerPoll(items) ==
  /\ report' = SubSeq(report, Fetched + 1, Len(report))
  /\ \/ /\ UNCHANGED budget
        /\ items = SubSeq(report, 1, Fetched)
                     \o (IF Paying THEN <<BusyItem>> ELSE <<>>)
     \/ /\ ~Paying
        /\ Spend("busy")
        /\ items = SubSeq(report, 1, Fetched) \o <<BusyItem>>
  /\ UNCHANGED <<tubes, payout, produced, deposited, commanded>>

\* A POLL without a usable answer: the changer was not acknowledged and keeps
\* its notifications.
LosePoll ==
  /\ Spend("fault")
  /\ UNCHANGED <<report, tubes, payout, produced, deposited, commanded>>

\* A DISPENSE that arrives.
StartPayout(n, count) ==
  /\ payout' = [payout EXCEPT ![n] = @ + count]
  /\ commanded' = [commanded EXCEPT ![n] = @ + count]
  /\ UNCHANGED <<report, tubes, produced, deposited>>

\* A DISPENSE that does not.
LoseDispense ==
  /\ Spend("fault")
  /\ UNCHANGED <<report, tubes, payout, produced, deposited, commanded>>
================================================================================
