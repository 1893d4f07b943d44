---------------------------- MODULE MoneyProperties ----------------------------
(*****************************************************************************)
(* What the money system promises: the properties the runs check, over the   *)
(* whole path of a coin from the changer's slot to the credit and back.      *)
(*****************************************************************************)
EXTENDS MoneySystem

\* Items on their way from the changer's mechanics through coin.Run and the
\* two places of its channel to the end of pollResultLoop, oldest first.
Slot(k) == IF k <= Len(pch) THEN pch[k] ELSE <<>>
Path == inbox \o Slot(1) \o Slot(2) \o pr \o report

\* Where a sequence of items has notifications: Busy is none.
Noticed(items) == {i \in 1..Len(items) : items[i].status # "Busy"}
Notices(items) == {items[i] : i \in Noticed(items)}

\* The notifications whose money is not in the credit: not the one that
\* pollResultLoop has booked and is announcing.
Unbooked == {x \in Notices(Path) : loopPc = "emit" => x # Head(inbox)}

\* Those of them that are coins of nominal n.
CoinsOf(n, notices) == {x \in notices : x.status = "Credit" /\ x.nominal = n}

(***************************************************************************)
(* Every notification of the changer is handled exactly once and in the    *)
(* order it happened: none is lost, repeated or overtaken between POLL,    *)
(* coin.Run, the channel of results and pollResultLoop, poll errors and    *)
(* full channels included.                                                 *)
(***************************************************************************)
PipelineInOrder ==
  /\ {x.mark : x \in Notices(Path)} = (handled + 1)..produced
  /\ \A i, j \in Noticed(Path) : i < j => Path[i].mark < Path[j].mark

(***************************************************************************)
(* Every coin the changer accepted is either on its way to the credit or   *)
(* was added to it once.                                                   *)
(***************************************************************************)
CoinsBookedOnce ==
  \A n \in Nominals :
    deposited[n] = booked[n] + Cardinality(CoinsOf(n, Unbooked))

(***************************************************************************)
(* When the main loop is told that the customer wants the money back, all  *)
(* the coins inserted before the lever was pressed are in the credit that  *)
(* Abort will return, and their events come first.                         *)
(***************************************************************************)
LeverCoversEarlierCoins ==
  \A i \in 1..Len(events) : events[i].name = "abort" =>
    /\ \A x \in Unbooked : x.mark > events[i].mark
    /\ \A j \in 1..(i-1) : events[j].mark < events[i].mark

(***************************************************************************)
(* While no Abort is under way the credit is, coin for coin, what was      *)
(* booked less what the changer was asked to pay - except that            *)
(*   - an Abort erases unreturned ("lost") what pollResultLoop booked after *)
(*     its DISPENSE was counted and what uint8(count) cut off its count;   *)
(*   - beyond the books ("extra") is what an increment brings back after   *)
(*     Clear has erased it under its hands, what a DISPENSE asked for whose *)
(*     answer was lost, and what an Abort had paid when a later nominal    *)
(*     failed.                                                             *)
(* Each costs exactly its own coins.  A DISPENSE that is refused or lost on *)
(* its way costs nothing, and neither does a second or third Abort.        *)
(* What a sale has spent is not in these books: WithdrawCommit takes       *)
(* nothing from the credit, and an Abort after it returns that money too   *)
(* (api.go:87 says that it does not).                                      *)
(***************************************************************************)
CreditIsExact ==
  lk \notin Callers =>
    \A n \in Nominals :
      /\ credit[n] + commanded[n] + lost[n] = booked[n] + extra[n]
      /\ lost[n] >= 0 /\ extra[n] >= 0

(***************************************************************************)
(* The changer is never told to pay while it still pays: CommandDispense   *)
(* waits for a poll without Busy before it sends, and Dispense waits for   *)
(* one more after it, which takes a signal left from before the command.   *)
(***************************************************************************)
PayoutsNeverOverlap == [][commanded' # commanded => ~Paying]_vars

(***************************************************************************)
(* An Abort that met an error erases nothing, and no other code takes      *)
(* money out of the credit: it decreases only in the clear of an Abort     *)
(* that had every DISPENSE answered, and only of nominals some DISPENSE of *)
(* this Abort was answered for or that got a coin too late for it.         *)
(***************************************************************************)
ErasedOnlyAfterPayout ==
  [][\A n \in Nominals : credit'[n] < credit[n] =>
       /\ lk # Nobody /\ pc[lk] = "clear" /\ ~failed
       /\ sum[n] > 0 \/ missed[n] > 0]_vars

(***************************************************************************)
(* Every notification status the changer driver can produce is known to    *)
(* the handler or to the common code below it: handling it does not panic. *)
(***************************************************************************)
NoPanic == fatal # "panic"

(***************************************************************************)
(* A notification is handled in the end, so that a coin shows up in the    *)
(* user interface, and an Abort that began comes back, unless the process  *)
(* dies: coin.Run, pollResultLoop and the main loop never wait for each    *)
(* other in a circle.                                                      *)
(***************************************************************************)
NoticesHandled ==
  \A k \in 1..(Budget["insert"] + Budget["press"] + Budget["quiet"]) :
    produced = k ~> handled >= k \/ fatal # "none"

AbortsReturn ==
  \A c \in Callers : pc[c] = "lock" ~>
                      pc[c] \in {"idle", "bsStop", "csWait"} \/ fatal # "none"

================================================================================
