----------------------------- MODULE MoneySystem -----------------------------
(*****************************************************************************)
(* head/money with the coin changer driver below it: the goroutines of a     *)
(* running vending machine that touch money, and everything they share.      *)
(*                                                                           *)
(*   changer --POLL--> coin.Run --pch--> pollResultLoop --events--> main     *)
(*      ^                 |ready              |credit             |          *)
(*      +---- DISPENSE ---+------- Dispense <-+------- Abort <----+          *)
(*                                                                           *)
(* Abort runs in the main loop (the customer's return lever) and in the      *)
(* goroutine of Lifecycle.Restart (MoneySystem.Stop).  The lock of the money *)
(* system orders those two; the coin credit is written by pollResultLoop     *)
(* without it.                                                               *)
(*****************************************************************************)
EXTENDS Changer, FiniteSetsExt

CONSTANTS
  DispenseLimit,  \* CommandDispense refuses this count and more (16)
  CountRange,     \* the count is cut to a byte (256)
  BillRunning,    \* the bill validator's Init succeeded: its goroutines run
  Prices          \* amounts a sale may ask for

ASSUME MoneyAssumption ==
  /\ DispenseLimit \in Nat \ {0}
  /\ CountRange \in Nat \ {0}
  /\ BillRunning \in BOOLEAN
  /\ Prices \subseteq Nat

PchCap == 2       \* make(chan money.PollResult, 2)
EventsCap == 2    \* make(chan Event, 2)

\* Statuses without money that the handler of the coin changer knows, and those
\* left to the code it shares with the bill validator.
CoinStatuses == {"Dispensed", "Rejected", "WasReset"}
WithoutInfo == {"Error", "Fatal", "Busy"}    \* mutant: a case is missing
CommonStatuses == {"Info", "Error", "Fatal", "Busy"}

Callers == {"main", "restart"}
Sale == "sale"           \* WithdrawPrepare, as a holder of the lock
Nobody == "nobody"

Event == [name : {"credit", "abort"}, mark : Nat]

VARIABLES
  runPc,     \* coin.Run
  pr,        \* its poll result: a sequence of items
  pch,       \* channel of poll results
  loopPc,    \* pollResultLoop
  inbox,     \* items of the result it handles, the current one first
  loaded,    \* the credit of a nominal it has read to increment it
  events,    \* channel to the main loop
  credit,    \* CoinState.credit
  lk,        \* MoneySystem.lk
  pc,        \* the callers of Abort
  total,     \* Abort's locals: credit counted at the start,
  sum,       \*   coins returned,
  todo,      \*   nominals the current map loop has not visited,
  cur,       \*   nominal and count of the current visit,
  cnt,
  failed,    \*   error of the current visit
  result,    \* what Abort returned last
  sale,      \* state of a sale
  spent,     \* history: amount of committed sales
  stopping,  \* CoinState.alive was stopped
  fatal,     \* why the process died
  handled,   \* history: mark of the last item handled
  booked,    \* history: coins added to the credit
  missed,    \* history: credit the Abort under way will erase unreturned
  lost,      \* history: credit that was erased without being returned
  extra      \* history: coins asked for, or in the credit, beyond the books

runVars == <<runPc, pr>>
loopVars == <<loopPc, inbox, loaded>>
frameVars == <<total, sum, todo, cur, cnt, failed>>
abortVars == <<lk, pc, frameVars, result>>
saleVars == <<sale, spent>>
historyVars == <<handled, booked, missed, lost, extra>>
vars == <<changerVars, runVars, pch, loopVars, events, credit, abortVars,
          saleVars, stopping, fatal, historyVars>>

PipeTypeOK ==
  /\ runPc \in {"poll", "ready", "send", "done"}
  /\ pr \in Seq(Item)
  /\ pch \in Seq(Seq(Item)) /\ Len(pch) <= PchCap
  /\ events \in Seq(Event) /\ Len(events) <= EventsCap

LoopTypeOK ==
  /\ loopPc \in {"recv", "item", "store", "emit"}
  /\ inbox \in Seq(Item)
  /\ loopPc # "recv" => inbox # <<>>
  /\ loopPc = "store" => Head(inbox).nominal \in Nominals
  /\ loaded \in Nat

AbortTypeOK ==
  /\ lk \in Callers \cup {Sale, Nobody}
  /\ pc \in [Callers -> {"idle", "lock", "total", "iter", "want", "tx",
                         "settle", "clear", "bsStop", "csWait"}]
  /\ total \in Coins /\ sum \in Coins
  /\ todo \subseteq Nominals
  /\ cnt \in Nat
  /\ failed \in BOOLEAN
  /\ cur \in Nominals \cup {Alien}
  /\ result \in {"none", "ok", "short", "error"}

RestTypeOK ==
  /\ credit \in Coins /\ booked \in Coins
  /\ {missed, lost, extra} \subseteq [Nominals -> Int]
  /\ sale \in [st : {"none", "counting", "refused", "prepared", "done"},
               amount : Prices \cup {0}]
  /\ spent \in Nat
  /\ stopping \in BOOLEAN
  /\ fatal \in {"none", "map race", "panic"}
  /\ handled \in Nat

TypeOK ==
  ChangerTypeOK /\ PipeTypeOK /\ LoopTypeOK /\ AbortTypeOK /\ RestTypeOK

Init ==
  /\ ChangerInit
  /\ runPc = "poll" /\ pr = <<>>
  /\ pch = <<>>
  /\ loopPc = "recv" /\ inbox = <<>> /\ loaded = 0
  /\ events = <<>>
  /\ credit = NoCoins
  /\ lk = Nobody
  /\ pc = [c \in Callers |-> "idle"]
  /\ total = NoCoins /\ sum = NoCoins
  /\ todo = {} /\ cur = Alien /\ cnt = 0
  /\ failed = FALSE /\ result = "none"
  /\ sale = [st |-> "none", amount |-> 0] /\ spent = 0
  /\ stopping = FALSE /\ fatal = "none"
  /\ handled = 0 /\ booked = NoCoins
  /\ missed = NoCoins /\ lost = NoCoins /\ extra = NoCoins

\* A channel takes one more value.
FitsAlways(channel, cap) == Len(channel) <= cap    \* mutant: off by one
HasRoom(channel, cap) == Len(channel) < cap

\* The value of a multiset of coins: NominalGroup.Total.
Value(coins) == MapThenSumSet(LAMBDA n : n * coins[n], DOMAIN coins)

-----------------------------------------------------------------------------
(***************************************************************************)
(* coin.Run: poll the changer, offer the result to pch.                    *)
(***************************************************************************)
NeverBusy(items) == FALSE     \* mutant: Ready() looks at the error only
HasBusy(items) == \E i \in 1..Len(items) : items[i].status = "Busy"

\* ready is set for an empty response and for one without Busy.
AfterEmptyPoll(items) ==      \* mutant: the early return sets nothing
  IF items = <<>> \/ HasBusy(items) THEN "send" ELSE "ready"
AfterPoll(items) == IF HasBusy(items) THEN "send" ELSE "ready"

Poll ==
  /\ runPc = "poll" /\ ~stopping
  /\ AnswerPoll(pr')
  /\ runPc' = AfterPoll(pr')
  /\ UNCHANGED <<pch, loopVars, events, credit, abortVars, saleVars, stopping,
                 fatal, historyVars>>

\* An error is logged; nothing is sent, and the next poll waits for DelayErr.
PollError ==
  /\ runPc = "poll" /\ ~stopping
  /\ LosePoll
  /\ UNCHANGED <<runVars, pch, loopVars, events, credit, abortVars, saleVars,
                 stopping, fatal, historyVars>>

\* Signal.Set: hands the signal to a goroutine that waits for it now, and is
\* lost otherwise.
ReadySet ==
  /\ runPc = "ready"
  /\ runPc' = "send"
  /\ pc' = [c \in Callers |-> IF pc[c] = "want" THEN "tx"
                              ELSE IF pc[c] = "settle" THEN "iter" ELSE pc[c]]
  /\ UNCHANGED <<changerVars, pr, pch, loopVars, events, credit, lk, frameVars,
                 result, saleVars, stopping, fatal, historyVars>>

\* ch <- *pr
SendResult ==
  /\ runPc = "send" /\ HasRoom(pch, PchCap)
  /\ pch' = Append(pch, pr)
  /\ runPc' = "poll" /\ pr' = <<>>
  /\ UNCHANGED <<changerVars, loopVars, events, credit, abortVars, saleVars,
                 stopping, fatal, historyVars>>

\* <-stopch, or the loop condition
RunStops ==
  /\ stopping /\ runPc \in {"poll", "send"}
  /\ runPc' = "done"
  /\ UNCHANGED <<changerVars, pr, pch, loopVars, events, credit, abortVars,
                 saleVars, stopping, fatal, historyVars>>

-----------------------------------------------------------------------------
(***************************************************************************)
(* pollResultLoop: handle the items of each result in their order.  A      *)
(* result that is one Busy item is slept over, which handles it like any   *)
(* other Busy item: not at all.                                            *)
(***************************************************************************)
Requests(items, yes) ==
  SelectSeq(items, LAMBDA item : (item.status = "ReturnRequest") = yes)

\* Mutant: requests are handled first.
TakeRequestsFirst ==
  /\ loopPc = "recv" /\ pch # <<>>
  /\ inbox' = Requests(Head(pch), TRUE) \o Requests(Head(pch), FALSE)
  /\ pch' = Tail(pch)
  /\ loopPc' = IF Head(pch) = <<>> THEN "recv" ELSE "item"
  /\ UNCHANGED <<changerVars, runVars, loaded, events, credit, abortVars,
                 saleVars, stopping, fatal, historyVars>>

TakeResult ==
  /\ loopPc = "recv" /\ pch # <<>>
  /\ inbox' = Head(pch)
  /\ pch' = Tail(pch)
  /\ loopPc' = IF Head(pch) = <<>> THEN "recv" ELSE "item"
  /\ UNCHANGED <<changerVars, runVars, loaded, events, credit, abortVars,
                 saleVars, stopping, fatal, historyVars>>

\* Mutant: the handler returns after the first item of a result.
DropRest ==
  /\ inbox' = <<>> /\ loopPc' = "recv"
  /\ handled' = IF Head(inbox).status = "Busy" THEN handled
                                               ELSE Head(inbox).mark

\* The current item is done with.
NextItem ==
  /\ inbox' = Tail(inbox)
  /\ loopPc' = IF Tail(inbox) = <<>> THEN "recv" ELSE "item"
  /\ handled' = IF Head(inbox).status = "Busy" THEN handled
                                               ELSE Head(inbox).mark

\* credit.Add is values[n] += 1 on a map that Abort's loops use at the same
\* time: the read and the write are separate steps.
ReadCredit ==
  /\ loopPc = "item" /\ Head(inbox).status = "Credit"
  /\ IF Head(inbox).nominal \in Nominals
       THEN loopPc' = "store" /\ loaded' = credit[Head(inbox).nominal]
       ELSE loopPc' = "emit" /\ loaded' = loaded  \* ErrNominalInvalid, logged
  /\ UNCHANGED <<changerVars, runVars, pch, inbox, events, credit, abortVars,
                 saleVars, stopping, fatal, historyVars>>

\* An Abort has read the credit of n and may still clear it.
Counted(n) ==
  \E c \in Callers :
    \/ pc[c] \in {"iter", "want", "tx", "settle"} /\ n \notin todo
    \/ pc[c] = "clear" /\ n \in todo

\* The write brings back what Clear has erased since the read, which is
\* beyond the books; an Abort that has counted the nominal misses the write.
StoreCredit ==
  /\ loopPc = "store"
  /\ LET n == Head(inbox).nominal
     IN  /\ credit' = [credit EXCEPT ![n] = loaded + 1]
         /\ booked' = [booked EXCEPT ![n] = @ + 1]
         /\ extra' = [extra EXCEPT ![n] = @ + (loaded - credit[n])]
         /\ missed' = IF Counted(n)
                        THEN [missed EXCEPT ![n] = @ + (loaded + 1 - credit[n])]
                        ELSE missed
  /\ loopPc' = "emit" /\ loaded' = 0
  /\ UNCHANGED <<changerVars, runVars, pch, inbox, events, abortVars,
                 saleVars, stopping, fatal, handled, lost>>

RequestReturn ==
  /\ loopPc = "item" /\ Head(inbox).status = "ReturnRequest"
  /\ loopPc' = "emit"
  /\ UNCHANGED <<changerVars, runVars, pch, inbox, loaded, events, credit,
                 abortVars, saleVars, stopping, fatal, historyVars>>

\* m.events <- Event{...}: waits for room.
EmitEvent ==
  /\ loopPc = "emit" /\ HasRoom(events, EventsCap)
  /\ events' = Append(events,
       [name |-> IF Head(inbox).status = "Credit" THEN "credit" ELSE "abort",
        mark |-> Head(inbox).mark])
  /\ NextItem
  /\ UNCHANGED <<changerVars, runVars, pch, loaded, credit, abortVars,
                 saleVars, stopping, fatal, booked, missed, lost, extra>>

\* Items without money are logged; an item of a status neither the coin
\* handler nor the common code knows would panic.
LogItem ==
  /\ loopPc = "item" /\ Head(inbox).status \notin {"Credit", "ReturnRequest"}
  /\ NextItem
  /\ fatal' = IF Head(inbox).status \in CoinStatuses \cup CommonStatuses
                THEN fatal ELSE "panic"
  /\ UNCHANGED <<changerVars, runVars, pch, loaded, events, credit, abortVars,
                 saleVars, stopping, booked, missed, lost, extra>>

-----------------------------------------------------------------------------
(***************************************************************************)
(* Who calls Abort.                                                        *)
(***************************************************************************)
\* The main loop receives an event; a credit is shown, an abort is obeyed.
MainReceives ==
  /\ pc["main"] = "idle" /\ events # <<>>
  /\ events' = Tail(events)
  /\ pc' = [pc EXCEPT !["main"] =
                IF Head(events).name = "abort" THEN "lock" ELSE "idle"]
  /\ UNCHANGED <<changerVars, runVars, pch, loopVars, credit, lk, frameVars,
                 result, saleVars, stopping, fatal, historyVars>>

\* Lifecycle.Restart runs MoneySystem.Stop in a goroutine of its own.
RequestRestart ==
  /\ pc["restart"] = "idle" /\ Spend("restart")
  /\ pc' = [pc EXCEPT !["restart"] = "lock"]
  /\ UNCHANGED <<report, tubes, payout, produced, deposited, commanded,
                 runVars, pch, loopVars, events, credit, lk, frameVars, result,
                 saleVars, stopping, fatal, historyVars>>

\* After its Abort, Stop waits for the goroutines of the bill validator, whose
\* pollResultLoop ranges over a channel nobody closes: with a bill validator
\* Stop stays here.
StopBill ==
  /\ pc["restart"] = "bsStop" /\ ~BillRunning
  /\ stopping' = TRUE
  /\ pc' = [pc EXCEPT !["restart"] = "csWait"]
  /\ UNCHANGED <<changerVars, runVars, pch, loopVars, events, credit, lk,
                 frameVars, result, saleVars, fatal, historyVars>>

(***************************************************************************)
(* Abort, and Dispense inside it.                                          *)
(***************************************************************************)
LockIgnored == TRUE           \* mutant: Abort does not lock
LockIsFree == lk = Nobody

TakeLock(c) ==
  /\ pc[c] = "lock" /\ LockIsFree
  /\ lk' = c
  /\ pc' = [pc EXCEPT ![c] = "total"]
  /\ todo' = Nominals
  /\ UNCHANGED <<changerVars, runVars, pch, loopVars, events, credit, total,
                 sum, cur, cnt, failed, result, saleVars, stopping, fatal,
                 historyVars>>

\* Abort returns: its locals are gone, and the lock is free.
Leave(c, value) ==
  /\ total' = NoCoins /\ sum' = NoCoins /\ todo' = {}
  /\ cur' = Alien /\ cnt' = 0 /\ failed' = FALSE
  /\ lk' = Nobody
  /\ missed' = NoCoins
  /\ result' = value
  /\ pc' = [pc EXCEPT ![c] = IF c = "main" THEN "idle" ELSE "bsStop"]

\* total := locked_credit(): one map entry after the other.
CountCredit(c) ==
  /\ pc[c] = "total"
  /\ IF todo = {}
       THEN /\ todo' = Nominals
            /\ pc' = [pc EXCEPT ![c] = "iter"]
            /\ total' = total
       ELSE \E n \in todo :
              /\ total' = [total EXCEPT ![n] = credit[n]]
              /\ todo' = todo \ {n}
              /\ pc' = pc
  /\ UNCHANGED <<changerVars, runVars, pch, loopVars, events, credit, lk, sum,
                 cur, cnt, failed, result, saleVars, stopping, fatal, historyVars>>

\* The count of a DISPENSE is cut to a byte: uint8(count).
AskedFor(count) == count % CountRange

\* nominalCoinType finds a coin type, and the byte-sized count is small enough.
Dispensable(n, count) == n \in Payable /\ AskedFor(count) < DispenseLimit

\* One visit of Dispense's loop over the credit.  A command that is refused
\* before it is sent goes on to wait for ready all the same.
VisitNominal(c) ==
  /\ pc[c] = "iter" /\ ~failed
  /\ \E n \in todo :
       /\ todo' = todo \ {n}
       /\ IF credit[n] = 0
            THEN UNCHANGED <<pc, cur, cnt, failed>>
            ELSE /\ cur' = n /\ cnt' = credit[n]
                 /\ failed' = ~Dispensable(n, credit[n])
                 /\ pc' = [pc EXCEPT ![c] =
                       IF Dispensable(n, credit[n]) THEN "want" ELSE "settle"]
  /\ UNCHANGED <<changerVars, runVars, pch, loopVars, events, credit, lk,
                 total, sum, result, saleVars, stopping, fatal, historyVars>>

Dispensed(c) ==
  /\ pc[c] = "tx"
  /\ StartPayout(cur, AskedFor(cnt))
  /\ pc' = [pc EXCEPT ![c] = "settle"]
  /\ \/ /\ UNCHANGED <<budget, failed, extra>>
        /\ sum' = [sum EXCEPT ![cur] = @ + cnt]
        /\ missed' = [missed EXCEPT ![cur] = @ + (cnt - AskedFor(cnt))]
     \/ /\ Spend("fault")                 \* the answer is lost
        /\ failed' = TRUE /\ UNCHANGED <<sum, missed>>
        /\ extra' = [extra EXCEPT ![cur] = @ + AskedFor(cnt)]
  /\ UNCHANGED <<runVars, pch, loopVars, events, credit, lk, total, todo, cur,
                 cnt, result, saleVars, stopping, fatal, handled, booked, lost>>

DispenseError(c) ==
  /\ pc[c] = "tx"
  /\ LoseDispense
  /\ failed' = TRUE
  /\ pc' = [pc EXCEPT ![c] = "settle"]
  /\ UNCHANGED <<runVars, pch, loopVars, events, credit, lk, total, sum, todo,
                 cur, cnt, result, saleVars, stopping, fatal, historyVars>>

\* An error ends the loop and the Abort, with the whole credit in place: what
\* the DISPENSEs before the error have paid will be asked for again.
AbortFails(c) ==
  /\ pc[c] = "iter" /\ failed
  /\ Leave(c, "error")
  /\ extra' = [n \in Nominals |-> extra[n] + AskedFor(sum[n])]
  /\ UNCHANGED <<changerVars, runVars, pch, loopVars, events, credit,
                 saleVars, stopping, fatal, handled, booked, lost>>

VisitedFirst == ~failed       \* mutant: the loop ends after any visit
VisitedOrFailed == todo = {}  \* mutant: the error of a visit is forgotten
AllDispensed == ~failed /\ todo = {}

AllVisited(c) ==
  /\ pc[c] = "iter" /\ AllDispensed
  /\ todo' = Nominals
  /\ pc' = [pc EXCEPT ![c] = "clear"]
  /\ UNCHANGED <<changerVars, runVars, pch, loopVars, events, credit, lk,
                 total, sum, cur, cnt, failed, result, saleVars, stopping,
                 fatal, historyVars>>

\* credit.Clear(): one map entry after the other.
ClearNominal(c) ==
  /\ pc[c] = "clear"
  /\ \E n \in todo :
       /\ credit' = [credit EXCEPT ![n] = 0]
       /\ todo' = todo \ {n}
       /\ lost' = [lost EXCEPT ![n] = @ + missed[n]]
  /\ UNCHANGED <<changerVars, runVars, pch, loopVars, events, lk, pc, total,
                 sum, cur, cnt, failed, result, saleVars, stopping, fatal,
                 handled, booked, missed, extra>>

\* total -= coinsReturned wraps at 32 bits: unless the two are equal, something
\* is "yet to return".
AbortReturns(c) ==
  /\ pc[c] = "clear" /\ todo = {}
  /\ Leave(c, IF Value(total) = Value(sum) THEN "ok" ELSE "short")
  /\ UNCHANGED <<changerVars, runVars, pch, loopVars, events, credit,
                 saleVars, stopping, fatal, handled, booked, lost, extra>>

Abort(c) ==
  \/ TakeLock(c) \/ CountCredit(c) \/ VisitNominal(c) \/ Dispensed(c)
  \/ DispenseError(c) \/ AbortFails(c) \/ AllVisited(c) \/ ClearNominal(c)
  \/ AbortReturns(c)

-----------------------------------------------------------------------------
(***************************************************************************)
(* A sale: WithdrawPrepare, later WithdrawCommit, each under the lock.     *)
(* Both only look at the credit.  One sale is tried (bound).               *)
(***************************************************************************)
WithdrawPrepare(amount) ==
  /\ sale.st = "none" /\ LockIsFree
  /\ lk' = Sale
  /\ sale' = [st |-> "counting", amount |-> amount]
  /\ todo' = Nominals
  /\ UNCHANGED <<changerVars, runVars, pch, loopVars, events, credit, pc, total,
                 sum, cur, cnt, failed, result, spent, stopping, fatal,
                 historyVars>>

\* available := locked_credit(): one map entry after the other.
CountForSale ==
  /\ sale.st = "counting"
  /\ \E n \in todo :
       /\ total' = [total EXCEPT ![n] = credit[n]]
       /\ todo' = todo \ {n}
  /\ UNCHANGED <<changerVars, runVars, pch, loopVars, events, credit, lk, pc,
                 sum, cur, cnt, failed, result, saleVars, stopping, fatal,
                 historyVars>>

DecideSale ==
  /\ sale.st = "counting" /\ todo = {}
  /\ sale' = [sale EXCEPT !.st = IF Value(total) < sale.amount
                                   THEN "refused"      \* ErrNeedMoreMoney
                                   ELSE "prepared"]
  /\ lk' = Nobody /\ total' = NoCoins
  /\ UNCHANGED <<changerVars, runVars, pch, loopVars, events, credit, pc, sum,
                 todo, cur, cnt, failed, result, spent, stopping, fatal,
                 historyVars>>

WithdrawCommit ==
  /\ sale.st = "prepared" /\ LockIsFree
  /\ sale' = [sale EXCEPT !.st = "done"]
  /\ spent' = spent + sale.amount
  /\ UNCHANGED <<changerVars, runVars, pch, loopVars, events, credit,
                 abortVars, stopping, fatal, historyVars>>

-----------------------------------------------------------------------------
\* The Go runtime kills a process that it finds writing a map while another
\* goroutine iterates over it or writes it.
MapRace ==
  /\ loopPc = "store"
  /\ \/ \E c \in Callers : pc[c] \in {"total", "iter", "clear"}
     \/ sale.st = "counting"
  /\ fatal' = "map race"
  /\ UNCHANGED <<changerVars, runVars, pch, loopVars, events, credit,
                 abortVars, saleVars, stopping, historyVars>>

\* A process that died takes no step.
Dead == fatal # "none" /\ UNCHANGED vars

Outside ==
  /\ ChangerNext
  /\ UNCHANGED <<runVars, pch, loopVars, events, credit, abortVars, saleVars,
                 stopping, fatal, historyVars>>

Run == Poll \/ PollError \/ ReadySet \/ SendResult \/ RunStops

Loop == TakeResult \/ ReadCredit \/ StoreCredit \/ RequestReturn \/ EmitEvent
        \/ LogItem

Next ==
  \/ /\ fatal = "none"
     /\ \/ Outside \/ Run \/ Loop \/ MainReceives \/ RequestRestart \/ StopBill
        \/ \E c \in Callers : Abort(c)
        \/ \E amount \in Prices : WithdrawPrepare(amount)
        \/ CountForSale \/ DecideSale \/ WithdrawCommit
        \/ MapRace
  \/ Dead

Spec == Init /\ [][Next]_vars

\* The Go scheduler runs every goroutine that can run, and the mechanics of
\* the changer finish a payout.  Nothing outside is fair: customers, faults
\* and restarts may stay away.
FairSpec ==
  /\ Spec
  /\ WF_vars(fatal = "none" /\ (Poll \/ ReadySet \/ SendResult \/ RunStops))
  /\ WF_vars(fatal = "none" /\ Loop)
  /\ WF_vars(fatal = "none" /\ MainReceives)
  /\ \A c \in Callers : WF_vars(fatal = "none" /\ Abort(c))
  /\ WF_vars(fatal = "none" /\ (CountForSale \/ DecideSale))
  /\ WF_vars(fatal = "none" /\ (\E n \in Nominals : PayCoin(n))
             /\ UNCHANGED <<runVars, pch, loopVars, events, credit, abortVars,
                            saleVars, stopping, fatal, historyVars>>)
=============================================================================
