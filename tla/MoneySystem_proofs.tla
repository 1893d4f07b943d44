------------------------- MODULE MoneySystem_proofs --------------------------
(*****************************************************************************)
(* Proofs about the money system for every set of nominals, every size of    *)
(* poll responses and every number of outside events.                        *)
(*****************************************************************************)
EXTENDS MoneyProperties, TLAPS

-----------------------------------------------------------------------------
USE DEF Callers, Sale, Nobody, PchCap, EventsCap, LoggedStatuses, EventKinds

\* No coins is an amount.
LEMMA NoCoinsType == NoCoins \in Coins
  BY DEF NoCoins, Coins

LEMMA NoCoinsDebt == NoCoins \in [Nominals -> Int]
  BY DEF NoCoins

\* What a history counts may be added to or taken from.
LEMMA DebtAdd ==
  ASSUME NEW debt \in [Nominals -> Int], NEW n, NEW k \in Int
  PROVE  [debt EXCEPT ![n] = @ + k] \in [Nominals -> Int]
  <1>1. CASE n \in Nominals
    BY <1>1
  <1>2. CASE n \notin Nominals
    BY <1>2
  <1> QED
    BY <1>1, <1>2

\* A poll takes a prefix of the report and leaves the rest.
LEMMA FetchType ==
  ASSUME report \in Seq(Item)
  PROVE  /\ Fetched \in 0..Len(report)
         /\ SubSeq(report, 1, Fetched) \in Seq(Item)
         /\ SubSeq(report, Fetched + 1, Len(report)) \in Seq(Item)
  <1>1. Fetched \in 0..Len(report)
    BY ChangerAssumption DEF Fetched
  <1> QED
    BY <1>1

\* The Busy item is an item.
LEMMA BusyItemType == BusyItem \in Item
  BY DEF BusyItem, Item

\* A machine that was just started is well typed.
LEMMA InitType == Init => TypeOK
  <1> SUFFICES ASSUME Init PROVE TypeOK
    OBVIOUS
  <1>1. tubes \in Coins
    BY ChangerAssumption DEF Init, ChangerInit, Coins
  <1>2. ChangerTypeOK
    BY <1>1, NoCoinsType, ChangerAssumption
    DEF Init, ChangerInit, ChangerTypeOK
  <1>3. PipeTypeOK
    BY DEF Init, PipeTypeOK
  <1>4. LoopTypeOK
    BY DEF Init, LoopTypeOK
  <1>5. AbortTypeOK
    BY NoCoinsType DEF Init, AbortTypeOK
  <1>6. RestTypeOK
    BY NoCoinsType, NoCoinsDebt DEF Init, RestTypeOK
  <1> QED
    BY <1>2, <1>3, <1>4, <1>5, <1>6 DEF TypeOK

\* Coins put into a multiset.
LEMMA CoinsAdd ==
  ASSUME NEW coins \in Coins, NEW n \in Nominals, NEW k \in Nat
  PROVE  [coins EXCEPT ![n] = @ + k] \in Coins
  BY DEF Coins

\* The amount of one nominal replaced.
LEMMA CoinsSet ==
  ASSUME NEW coins \in Coins, NEW n \in Nominals, NEW k \in Nat
  PROVE  [coins EXCEPT ![n] = k] \in Coins
  BY DEF Coins

\* One coin taken out.
LEMMA CoinsTake ==
  ASSUME NEW coins \in Coins, NEW n \in Nominals, coins[n] > 0
  PROVE  [coins EXCEPT ![n] = @ - 1] \in Coins
  BY DEF Coins

\* An outside event uses up its allowance.
LEMMA SpendType ==
  ASSUME ChangerTypeOK, NEW kind \in EventKinds, Spend(kind)
  PROVE  budget' \in [EventKinds -> Nat]
  BY DEF ChangerTypeOK, Spend

\* A notification joins the report.
LEMMA NotifyType ==
  ASSUME ChangerTypeOK, NEW n \in Nominals \cup {Alien},
         NEW status \in LoggedStatuses \cup {"Credit", "ReturnRequest"},
         Notify(status, n)
  PROVE  report' \in Seq(Item) /\ produced' \in Nat
  BY DEF ChangerTypeOK, Notify, Item

\* The steps of the customer and of the changer's mechanics.
LEMMA OutsideType == ChangerTypeOK /\ ChangerNext => ChangerTypeOK'
  <1> SUFFICES ASSUME ChangerTypeOK, ChangerNext PROVE ChangerTypeOK'
    OBVIOUS
  <1>1. ASSUME NEW n \in Inserted, InsertCoin(n) PROVE ChangerTypeOK'
    <2>1. n \in Nominals \cup {Alien}
      BY ChangerAssumption
    <2>2. Notify("Credit", n) /\ Spend("insert")
      BY <1>1 DEF InsertCoin
    <2>3. report' \in Seq(Item) /\ produced' \in Nat
      BY <2>1, <2>2, NotifyType
    <2>4. budget' \in [EventKinds -> Nat]
      BY <2>2, SpendType
    <2>5. tubes' \in Coins
      <3>1. CASE tubes' = tubes
        BY <3>1 DEF ChangerTypeOK
      <3>2. CASE n \in Payable /\ tubes' = [tubes EXCEPT ![n] = @ + 1]
        BY <3>2, CoinsAdd, ChangerAssumption DEF ChangerTypeOK
      <3> QED
        BY <1>1, <3>1, <3>2 DEF InsertCoin
    <2>6. deposited' \in Coins
      BY <1>1, CoinsAdd DEF InsertCoin, ChangerTypeOK
    <2> QED
      BY <1>1, <2>3, <2>4, <2>5, <2>6 DEF InsertCoin, ChangerTypeOK
  <1>2. ASSUME PressLever PROVE ChangerTypeOK'
    <2>1. Notify("ReturnRequest", Alien) /\ Spend("press")
      BY <1>2 DEF PressLever
    <2>2. report' \in Seq(Item) /\ produced' \in Nat
      BY <2>1, NotifyType
    <2>3. budget' \in [EventKinds -> Nat]
      BY <2>1, SpendType
    <2> QED
      BY <1>2, <2>2, <2>3 DEF PressLever, ChangerTypeOK
  <1>3. ASSUME NEW status \in QuietStatuses, QuietNotice(status)
        PROVE ChangerTypeOK'
    <2>1. status \in LoggedStatuses
      BY ChangerAssumption
    <2>2. Notify(status, Alien) /\ Spend("quiet")
      BY <1>3 DEF QuietNotice
    <2>3. report' \in Seq(Item) /\ produced' \in Nat
      BY <2>1, <2>2, NotifyType
    <2>4. budget' \in [EventKinds -> Nat]
      BY <2>2, SpendType
    <2> QED
      BY <1>3, <2>3, <2>4 DEF QuietNotice, ChangerTypeOK
  <1>4. ASSUME NEW n \in Nominals, PayCoin(n) PROVE ChangerTypeOK'
    <2>1. tubes' \in Coins
      BY <1>4, CoinsTake DEF PayCoin, ChangerTypeOK
    <2>2. payout' \in Coins
      BY <1>4, CoinsTake, CoinsSet DEF PayCoin, ChangerTypeOK
    <2> QED
      BY <1>4, <2>1, <2>2 DEF PayCoin, ChangerTypeOK
  <1> QED
    BY <1>1, <1>2, <1>3, <1>4 DEF ChangerNext

-----------------------------------------------------------------------------
(***************************************************************************)
(* What a step leaves alone keeps its type.                                *)
(***************************************************************************)
\* The changer, when nothing reaches it.
LEMMA ChangerSame == ChangerTypeOK /\ UNCHANGED changerVars => ChangerTypeOK'
  BY DEF ChangerTypeOK, changerVars

\* coin.Run and the channels, when nothing is sent or received.
LEMMA PipeSame == PipeTypeOK /\ UNCHANGED <<runVars, pch, events>> => PipeTypeOK'
  BY DEF PipeTypeOK, runVars

\* pollResultLoop between its own steps.
LEMMA LoopSame == LoopTypeOK /\ UNCHANGED loopVars => LoopTypeOK'
  BY DEF LoopTypeOK, loopVars

\* Abort, in the steps of everybody else.
LEMMA AbortSame == AbortTypeOK /\ UNCHANGED abortVars => AbortTypeOK'
  BY DEF AbortTypeOK, abortVars, frameVars

\* The credit, the sale and the histories.
LEMMA RestSame ==
  RestTypeOK /\ UNCHANGED <<credit, saleVars, stopping, fatal, historyVars>>
    => RestTypeOK'
  BY DEF RestTypeOK, saleVars, historyVars

\* Sequences of items stay sequences of items when joined.
LEMMA SeqConcat ==
  ASSUME NEW S, NEW s \in Seq(S), NEW t \in Seq(S) PROVE s \o t \in Seq(S)
  OBVIOUS

\* The element appended to a sequence is its last one.
LEMMA LastOfConcat ==
  ASSUME NEW S, NEW s \in Seq(S), NEW e \in S
  PROVE  /\ Len(s \o <<e>>) \in 1..Len(s \o <<e>>)
         /\ (s \o <<e>>)[Len(s \o <<e>>)] = e
  OBVIOUS

\* Customers and mechanics keep the types.
LEMMA OutsideStepType == TypeOK /\ Outside => TypeOK'
  BY OutsideType, PipeSame, LoopSame, AbortSame, RestSame DEF TypeOK, Outside

\* So does coin.Run,
LEMMA RunType == TypeOK /\ Run => TypeOK'
  <1> SUFFICES ASSUME TypeOK, Run PROVE TypeOK'
    OBVIOUS
  <1>1. ASSUME Poll PROVE TypeOK'
    <2>1. /\ SubSeq(report, 1, Fetched) \in Seq(Item)
          /\ SubSeq(report, Fetched + 1, Len(report)) \in Seq(Item)
      BY FetchType DEF TypeOK, ChangerTypeOK
    <2>2. AnswerPoll(pr')
      BY <1>1 DEF Poll
    <2>3. report' \in Seq(Item)
      BY <2>1, <2>2 DEF AnswerPoll
    <2>4. pr' \in Seq(Item)
      <3>1. \/ pr' = SubSeq(report, 1, Fetched) \o <<BusyItem>>
            \/ pr' = SubSeq(report, 1, Fetched) \o <<>>
        BY <2>2 DEF AnswerPoll
      <3>2. <<BusyItem>> \in Seq(Item) /\ <<>> \in Seq(Item)
        BY BusyItemType
      <3> QED
        BY <2>1, <3>1, <3>2, SeqConcat
    <2>5. budget' \in [EventKinds -> Nat]
      <3>1. CASE UNCHANGED budget
        BY <3>1 DEF TypeOK, ChangerTypeOK
      <3>2. CASE Spend("busy")
        BY <3>2, SpendType DEF TypeOK
      <3> QED
        BY <2>2, <3>1, <3>2 DEF AnswerPoll
    <2>6. ChangerTypeOK'
      BY <2>2, <2>3, <2>5 DEF AnswerPoll, TypeOK, ChangerTypeOK
    <2>7. PipeTypeOK'
      <3>1. runPc' \in {"send", "ready"} /\ UNCHANGED <<pch, events>>
        BY <1>1 DEF Poll, AfterPoll
      <3> QED
        BY <2>4, <3>1 DEF TypeOK, PipeTypeOK
    <2> QED
      BY <1>1, <2>6, <2>7, LoopSame, AbortSame, RestSame DEF Poll, TypeOK
  <1>2. ASSUME PollError PROVE TypeOK'
    <2>1. budget' \in [EventKinds -> Nat]
      BY <1>2, SpendType DEF PollError, LosePoll, TypeOK
    <2>2. ChangerTypeOK'
      BY <1>2, <2>1 DEF PollError, LosePoll, TypeOK, ChangerTypeOK
    <2> QED
      BY <1>2, <2>2, PipeSame, LoopSame, AbortSame, RestSame
      DEF PollError, TypeOK
  <1>3. ASSUME ReadySet PROVE TypeOK'
    <2>1. AbortTypeOK'
      <3>1. pc' \in [Callers -> {"idle", "lock", "total", "iter", "want", "tx",
                                "settle", "clear", "bsStop", "csWait"}]
        BY <1>3 DEF ReadySet, TypeOK, AbortTypeOK
      <3>2. UNCHANGED <<lk, frameVars, result>>
        BY <1>3 DEF ReadySet
      <3> QED
        BY <3>1, <3>2 DEF TypeOK, AbortTypeOK, frameVars
    <2>2. PipeTypeOK'
      BY <1>3 DEF ReadySet, TypeOK, PipeTypeOK
    <2> QED
      BY <1>3, <2>1, <2>2, ChangerSame, LoopSame, RestSame DEF ReadySet, TypeOK
  <1>4. ASSUME SendResult PROVE TypeOK'
    <2>1. PipeTypeOK'
      BY <1>4 DEF SendResult, HasRoom, TypeOK, PipeTypeOK
    <2> QED
      BY <1>4, <2>1, ChangerSame, LoopSame, AbortSame, RestSame
      DEF SendResult, TypeOK
  <1>5. ASSUME RunStops PROVE TypeOK'
    <2>1. PipeTypeOK'
      BY <1>5 DEF RunStops, TypeOK, PipeTypeOK
    <2> QED
      BY <1>5, <2>1, ChangerSame, LoopSame, AbortSame, RestSame
      DEF RunStops, TypeOK
  <1> QED
    BY <1>1, <1>2, <1>3, <1>4, <1>5 DEF Run

\* The mark of the item in hand.
LEMMA ItemMark ==
  ASSUME NEW s \in Seq(Item), s # <<>> PROVE Head(s).mark \in Nat
  <1>1. Head(s) \in Item
    OBVIOUS
  <1> QED
    BY <1>1 DEF Item

\* Done with an item, the handler has the next one or none.
LEMMA NextItemType ==
  ASSUME TypeOK, loopPc # "recv", NextItem
  PROVE  /\ inbox' \in Seq(Item) /\ handled' \in Nat
         /\ loopPc' \in {"recv", "item"}
         /\ loopPc' = "item" => inbox' # <<>>
  <1>1. inbox \in Seq(Item) /\ inbox # <<>>
    BY DEF TypeOK, LoopTypeOK
  <1>2. Tail(inbox) \in Seq(Item) /\ Head(inbox).mark \in Nat
    BY <1>1, ItemMark
  <1>3. handled \in Nat
    BY DEF TypeOK, RestTypeOK
  <1> QED
    BY <1>2, <1>3 DEF NextItem

\* pollResultLoop keeps the types,
LEMMA LoopType == TypeOK /\ Loop => TypeOK'
  <1> SUFFICES ASSUME TypeOK, Loop PROVE TypeOK'
    OBVIOUS
  <1>1. ASSUME TakeResult PROVE TypeOK'
    <2>1. /\ Head(pch) \in Seq(Item)
          /\ Tail(pch) \in Seq(Seq(Item)) /\ Len(Tail(pch)) <= PchCap
      BY <1>1 DEF TakeResult, TypeOK, PipeTypeOK
    <2>2. PipeTypeOK'
      BY <1>1, <2>1 DEF TakeResult, TypeOK, PipeTypeOK, runVars
    <2>3. LoopTypeOK'
      BY <1>1, <2>1 DEF TakeResult, TypeOK, LoopTypeOK
    <2> QED
      BY <1>1, <2>2, <2>3, ChangerSame, AbortSame, RestSame
      DEF TakeResult, TypeOK
  <1>2. ASSUME ReadCredit PROVE TypeOK'
    <2>1. LoopTypeOK'
      BY <1>2 DEF ReadCredit, TypeOK, LoopTypeOK, RestTypeOK, Coins
    <2> QED
      BY <1>2, <2>1, ChangerSame, PipeSame, AbortSame, RestSame
      DEF ReadCredit, TypeOK
  <1>3. ASSUME StoreCredit PROVE TypeOK'
    <2>1. Head(inbox).nominal \in Nominals /\ loaded + 1 \in Nat
      BY <1>3 DEF StoreCredit, TypeOK, LoopTypeOK
    <2>2. credit' \in Coins
      BY <1>3, <2>1, CoinsSet DEF StoreCredit, TypeOK, RestTypeOK
    <2>3. booked' \in Coins
      BY <1>3, <2>1, CoinsAdd DEF StoreCredit, TypeOK, RestTypeOK
    <2>4. {missed', lost', extra'} \subseteq [Nominals -> Int]
      <3>1. PICK h \in Nominals : h = Head(inbox).nominal
        BY <2>1
      <3>2. loaded \in Nat /\ credit[h] \in Nat /\ {missed, lost, extra} \subseteq [Nominals -> Int]
        BY DEF TypeOK, LoopTypeOK, RestTypeOK, Coins
      <3>3. /\ extra' = [extra EXCEPT ![h] = @ + (loaded - credit[h])]
            /\ \/ missed' = missed
               \/ missed' = [missed EXCEPT ![h] = @ + (loaded + 1 - credit[h])]
            /\ lost' = lost
        BY <1>3, <3>1 DEF StoreCredit
      <3> QED
        BY <3>2, <3>3, DebtAdd
    <2>5. UNCHANGED <<saleVars, stopping, fatal, handled>>
      BY <1>3 DEF StoreCredit
    <2>6. RestTypeOK'
      BY <2>2, <2>3, <2>4, <2>5 DEF TypeOK, RestTypeOK, saleVars
    <2>7. LoopTypeOK'
      BY <1>3 DEF StoreCredit, TypeOK, LoopTypeOK
    <2> QED
      BY <1>3, <2>6, <2>7, ChangerSame, PipeSame, AbortSame
      DEF StoreCredit, TypeOK
  <1>4. ASSUME RequestReturn PROVE TypeOK'
    <2>1. LoopTypeOK'
      BY <1>4 DEF RequestReturn, TypeOK, LoopTypeOK
    <2> QED
      BY <1>4, <2>1, ChangerSame, PipeSame, AbortSame, RestSame
      DEF RequestReturn, TypeOK
  <1>5. ASSUME EmitEvent PROVE TypeOK'
    <2>1. NextItem /\ loopPc = "emit"
      BY <1>5 DEF EmitEvent
    <2>2. Head(inbox).mark \in Nat
      BY <2>1, ItemMark DEF TypeOK, LoopTypeOK
    <2>3. [name |-> IF Head(inbox).status = "Credit" THEN "credit" ELSE "abort",
           mark |-> Head(inbox).mark] \in Event
      BY <2>2 DEF Event
    <2>4. PipeTypeOK'
      BY <1>5, <2>3 DEF EmitEvent, HasRoom, TypeOK, PipeTypeOK, runVars
    <2>5. LoopTypeOK'
      BY <1>5, <2>1, NextItemType DEF EmitEvent, TypeOK, LoopTypeOK
    <2>6. RestTypeOK'
      BY <1>5, <2>1, NextItemType DEF EmitEvent, TypeOK, RestTypeOK, saleVars
    <2> QED
      BY <1>5, <2>4, <2>5, <2>6, ChangerSame, AbortSame DEF EmitEvent, TypeOK
  <1>6. ASSUME LogItem PROVE TypeOK'
    <2>1. NextItem /\ loopPc = "item"
      BY <1>6 DEF LogItem
    <2>2. LoopTypeOK'
      BY <1>6, <2>1, NextItemType DEF LogItem, TypeOK, LoopTypeOK
    <2>3. RestTypeOK'
      BY <1>6, <2>1, NextItemType DEF LogItem, TypeOK, RestTypeOK, saleVars
    <2> QED
      BY <1>6, <2>2, <2>3, ChangerSame, PipeSame, AbortSame DEF LogItem, TypeOK
  <1> QED
    BY <1>1, <1>2, <1>3, <1>4, <1>5, <1>6 DEF Loop

-----------------------------------------------------------------------------
\* so do the main loop and Restart,
LEMMA CallersType == TypeOK /\ (MainReceives \/ RequestRestart \/ StopBill)
                       => TypeOK'
  <1> SUFFICES ASSUME TypeOK, MainReceives \/ RequestRestart \/ StopBill
               PROVE  TypeOK'
    OBVIOUS
  <1>1. ASSUME MainReceives PROVE TypeOK'
    <2>1. PipeTypeOK'
      BY <1>1 DEF MainReceives, TypeOK, PipeTypeOK, runVars
    <2>2. AbortTypeOK'
      BY <1>1 DEF MainReceives, TypeOK, AbortTypeOK, frameVars
    <2> QED
      BY <1>1, <2>1, <2>2, ChangerSame, LoopSame, RestSame
      DEF MainReceives, TypeOK
  <1>2. ASSUME RequestRestart PROVE TypeOK'
    <2>1. budget' \in [EventKinds -> Nat]
      BY <1>2, SpendType DEF RequestRestart, TypeOK
    <2>2. ChangerTypeOK'
      BY <1>2, <2>1 DEF RequestRestart, TypeOK, ChangerTypeOK
    <2>3. AbortTypeOK'
      BY <1>2 DEF RequestRestart, TypeOK, AbortTypeOK, frameVars
    <2> QED
      BY <1>2, <2>2, <2>3, PipeSame, LoopSame, RestSame
      DEF RequestRestart, TypeOK
  <1>3. ASSUME StopBill PROVE TypeOK'
    <2>1. AbortTypeOK'
      BY <1>3 DEF StopBill, TypeOK, AbortTypeOK, frameVars
    <2>2. RestTypeOK'
      BY <1>3 DEF StopBill, TypeOK, RestTypeOK, saleVars, historyVars
    <2> QED
      BY <1>3, <2>1, <2>2, ChangerSame, PipeSame, LoopSame DEF StopBill, TypeOK
  <1> QED
    BY <1>1, <1>2, <1>3

\* Abort leaves its locals clean, whatever it returns.
LEMMA LeaveType ==
  ASSUME TypeOK, NEW c \in Callers, NEW value \in {"ok", "short", "error"},
         Leave(c, value)
  PROVE  AbortTypeOK'
  BY NoCoinsType DEF Leave, TypeOK, AbortTypeOK

\* Every step of Abort keeps the types,
LEMMA AbortType == \A c \in Callers : TypeOK /\ Abort(c) => TypeOK'
  <1> SUFFICES ASSUME NEW c \in Callers, TypeOK, Abort(c) PROVE TypeOK'
    OBVIOUS
  <1>1. ASSUME TakeLock(c) PROVE TypeOK'
    <2>1. AbortTypeOK'
      BY <1>1 DEF TakeLock, TypeOK, AbortTypeOK
    <2> QED
      BY <1>1, <2>1, ChangerSame, PipeSame, LoopSame, RestSame
      DEF TakeLock, TypeOK
  <1>2. ASSUME CountCredit(c) PROVE TypeOK'
    <2>1. total' \in Coins /\ todo' \subseteq Nominals
      <3>1. CASE todo = {}
        BY <1>2, <3>1 DEF CountCredit, TypeOK, AbortTypeOK
      <3>2. CASE todo # {}
        <4>1. PICK n \in todo : /\ total' = [total EXCEPT ![n] = credit[n]]
                               /\ todo' = todo \ {n}
          BY <1>2, <3>2 DEF CountCredit
        <4>2. n \in Nominals /\ credit[n] \in Nat
          BY DEF TypeOK, AbortTypeOK, RestTypeOK, Coins
        <4> QED
          BY <4>1, <4>2, CoinsSet DEF TypeOK, AbortTypeOK
      <3> QED
        BY <3>1, <3>2
    <2>2. AbortTypeOK'
      BY <1>2, <2>1 DEF CountCredit, TypeOK, AbortTypeOK
    <2> QED
      BY <1>2, <2>2, ChangerSame, PipeSame, LoopSame, RestSame
      DEF CountCredit, TypeOK
  <1>3. ASSUME VisitNominal(c) PROVE TypeOK'
    <2>1. PICK n \in todo :
            /\ todo' = todo \ {n}
            /\ \/ UNCHANGED <<pc, cur, cnt, failed>>
               \/ /\ cur' = n /\ cnt' = credit[n]
                  /\ failed' \in BOOLEAN
                  /\ \E v \in {"want", "settle"} : pc' = [pc EXCEPT ![c] = v]
      BY <1>3 DEF VisitNominal, Dispensable
    <2>2. n \in Nominals /\ credit[n] \in Nat
      BY DEF TypeOK, AbortTypeOK, RestTypeOK, Coins
    <2>3. UNCHANGED <<lk, total, sum, result>>
      BY <1>3 DEF VisitNominal
    <2>4. AbortTypeOK'
      BY <2>1, <2>2, <2>3 DEF TypeOK, AbortTypeOK
    <2> QED
      BY <1>3, <2>4, ChangerSame, PipeSame, LoopSame, RestSame
      DEF VisitNominal, TypeOK
  <1>4. ASSUME Dispensed(c) PROVE TypeOK'
    <2>1. AskedFor(cnt) \in Nat /\ cnt \in Nat
      BY MoneyAssumption DEF AskedFor, TypeOK, AbortTypeOK
    <2>2. \A coins \in Coins, k \in Nat : [coins EXCEPT ![cur] = @ + k] \in Coins
      <3> SUFFICES ASSUME NEW coins \in Coins, NEW k \in Nat
                   PROVE  [coins EXCEPT ![cur] = @ + k] \in Coins
        OBVIOUS
      <3>1. CASE cur \in Nominals
        BY <3>1, CoinsAdd
      <3>2. CASE cur \notin Nominals
        BY <3>2 DEF Coins
      <3> QED
        BY <3>1, <3>2
    <2>3. payout' \in Coins /\ commanded' \in Coins
      BY <1>4, <2>1, <2>2 DEF Dispensed, StartPayout, TypeOK, ChangerTypeOK
    <2>4. budget' \in [EventKinds -> Nat]
      <3>1. CASE UNCHANGED budget
        BY <3>1 DEF TypeOK, ChangerTypeOK
      <3>2. CASE Spend("fault")
        BY <3>2, SpendType DEF TypeOK
      <3> QED
        BY <1>4, <3>1, <3>2 DEF Dispensed
    <2>5. ChangerTypeOK'
      BY <1>4, <2>3, <2>4
      DEF Dispensed, StartPayout, TypeOK, ChangerTypeOK
    <2>6. sum' \in Coins /\ failed' \in BOOLEAN
      BY <1>4, <2>2 DEF Dispensed, TypeOK, AbortTypeOK
    <2>7. AbortTypeOK'
      BY <1>4, <2>6 DEF Dispensed, TypeOK, AbortTypeOK
    <2>8. {missed', lost', extra'} \subseteq [Nominals -> Int]
      <3>1. {missed, lost, extra} \subseteq [Nominals -> Int]
        BY DEF TypeOK, RestTypeOK
      <3>2. /\ lost' = lost
            /\ missed' = missed \/ missed' = [missed EXCEPT ![cur] = @ + (cnt - AskedFor(cnt))]
            /\ extra' = extra \/ extra' = [extra EXCEPT ![cur] = @ + AskedFor(cnt)]
        BY <1>4 DEF Dispensed
      <3>3. cnt - AskedFor(cnt) \in Int /\ AskedFor(cnt) \in Int
        BY <2>1
      <3>4. missed' \in [Nominals -> Int]
        BY <3>1, <3>2, <3>3, DebtAdd
      <3>5. extra' \in [Nominals -> Int]
        BY <3>1, <3>2, <3>3, DebtAdd
      <3> QED
        BY <3>1, <3>2, <3>4, <3>5
    <2>9. RestTypeOK'
      BY <1>4, <2>8 DEF Dispensed, TypeOK, RestTypeOK, saleVars
    <2> QED
      BY <1>4, <2>5, <2>7, <2>9, PipeSame, LoopSame DEF Dispensed, TypeOK
  <1>5. ASSUME DispenseError(c) PROVE TypeOK'
    <2>1. budget' \in [EventKinds -> Nat]
      BY <1>5, SpendType DEF DispenseError, LoseDispense, TypeOK
    <2>2. ChangerTypeOK'
      BY <1>5, <2>1 DEF DispenseError, LoseDispense, TypeOK, ChangerTypeOK
    <2>3. AbortTypeOK'
      BY <1>5 DEF DispenseError, TypeOK, AbortTypeOK
    <2> QED
      BY <1>5, <2>2, <2>3, PipeSame, LoopSame, RestSame
      DEF DispenseError, TypeOK
  <1>6. ASSUME AbortFails(c) PROVE TypeOK'
    <2>1. AbortTypeOK'
      BY <1>6, LeaveType DEF AbortFails
    <2>2. extra' \in [Nominals -> Int] /\ missed' = NoCoins /\ UNCHANGED lost
      <3>1. ASSUME NEW n \in Nominals PROVE AskedFor(sum[n]) \in Int /\ extra[n] \in Int
        <4>1. sum[n] \in Nat /\ extra[n] \in Int
          BY DEF TypeOK, AbortTypeOK, RestTypeOK, Coins
        <4> QED
          BY <4>1, MoneyAssumption DEF AskedFor
      <3> QED
        BY <1>6, <3>1 DEF AbortFails, Leave
    <2>3. RestTypeOK'
      BY <1>6, <2>2, NoCoinsDebt DEF AbortFails, TypeOK, RestTypeOK, saleVars
    <2> QED
      BY <1>6, <2>1, <2>3, ChangerSame, PipeSame, LoopSame
      DEF AbortFails, TypeOK
  <1>7. ASSUME AllVisited(c) PROVE TypeOK'
    <2>1. AbortTypeOK'
      BY <1>7 DEF AllVisited, TypeOK, AbortTypeOK
    <2> QED
      BY <1>7, <2>1, ChangerSame, PipeSame, LoopSame, RestSame
      DEF AllVisited, TypeOK
  <1>8. ASSUME ClearNominal(c) PROVE TypeOK'
    <2>1. PICK n \in todo :
            /\ credit' = [credit EXCEPT ![n] = 0]
            /\ todo' = todo \ {n}
            /\ lost' = [lost EXCEPT ![n] = @ + missed[n]]
      BY <1>8 DEF ClearNominal
    <2>2. credit' \in Coins
      BY <2>1, CoinsSet DEF TypeOK, AbortTypeOK, RestTypeOK
    <2>a. lost' \in [Nominals -> Int]
      BY <2>1, DebtAdd DEF TypeOK, AbortTypeOK, RestTypeOK
    <2>3. RestTypeOK'
      BY <1>8, <2>a, <2>2 DEF ClearNominal, TypeOK, RestTypeOK, saleVars
    <2>4. AbortTypeOK'
      BY <1>8, <2>1 DEF ClearNominal, TypeOK, AbortTypeOK
    <2> QED
      BY <1>8, <2>3, <2>4, ChangerSame, PipeSame, LoopSame
      DEF ClearNominal, TypeOK
  <1>9. ASSUME AbortReturns(c) PROVE TypeOK'
    <2>1. PICK value \in {"ok", "short", "error"} : Leave(c, value)
      BY <1>9 DEF AbortReturns
    <2>2. AbortTypeOK'
      BY <2>1, LeaveType
    <2>3. RestTypeOK'
      BY <1>9, <2>1, NoCoinsDebt DEF AbortReturns, Leave, TypeOK, RestTypeOK, saleVars
    <2> QED
      BY <1>9, <2>2, <2>3, ChangerSame, PipeSame, LoopSame
      DEF AbortReturns, TypeOK
  <1> QED
    BY <1>1, <1>2, <1>3, <1>4, <1>5, <1>6, <1>7, <1>8, <1>9 DEF Abort

\* The steps of a sale, and a crash.
SaleStep == (\E amount \in Prices : WithdrawPrepare(amount))
              \/ CountForSale \/ DecideSale \/ WithdrawCommit \/ MapRace

\* and so do sales and a crash.
LEMMA SaleType ==
  ASSUME TypeOK, SaleStep PROVE TypeOK'
  <1>0. sale \in [st : {"none", "counting", "refused", "prepared", "done"},
                  amount : Prices \cup {0}]
    BY DEF TypeOK, RestTypeOK
  <1>1. ASSUME NEW amount \in Prices, WithdrawPrepare(amount) PROVE TypeOK'
    <2>1. AbortTypeOK'
      BY <1>1 DEF WithdrawPrepare, TypeOK, AbortTypeOK
    <2>2. RestTypeOK'
      BY <1>1 DEF WithdrawPrepare, TypeOK, RestTypeOK, historyVars
    <2> QED
      BY <1>1, <2>1, <2>2, ChangerSame, PipeSame, LoopSame DEF WithdrawPrepare, TypeOK
  <1>2. ASSUME CountForSale PROVE TypeOK'
    <2>1. PICK n \in todo : total' = [total EXCEPT ![n] = credit[n]] /\ todo' = todo \ {n}
      BY <1>2 DEF CountForSale
    <2>2. n \in Nominals /\ credit[n] \in Nat
      BY DEF TypeOK, AbortTypeOK, RestTypeOK, Coins
    <2>3. total' \in Coins /\ todo' \subseteq Nominals
      BY <2>1, <2>2, CoinsSet DEF TypeOK, AbortTypeOK
    <2>4. AbortTypeOK'
      BY <1>2, <2>3 DEF CountForSale, TypeOK, AbortTypeOK
    <2> QED
      BY <1>2, <2>4, ChangerSame, PipeSame, LoopSame, RestSame DEF CountForSale, TypeOK
  <1>3. ASSUME DecideSale PROVE TypeOK'
    <2>1. AbortTypeOK'
      BY <1>3, NoCoinsType DEF DecideSale, TypeOK, AbortTypeOK
    <2>2. \E v \in {"refused", "prepared"} : sale' = [sale EXCEPT !.st = v]
      BY <1>3 DEF DecideSale
    <2>3. sale' \in [st : {"none", "counting", "refused", "prepared", "done"},
                     amount : Prices \cup {0}]
      BY <1>0, <2>2
    <2>4. RestTypeOK'
      BY <1>3, <2>3 DEF DecideSale, TypeOK, RestTypeOK, historyVars
    <2> QED
      BY <1>3, <2>1, <2>4, ChangerSame, PipeSame, LoopSame DEF DecideSale, TypeOK
  <1>4. ASSUME WithdrawCommit PROVE TypeOK'
    <2>2. sale' \in [st : {"none", "counting", "refused", "prepared", "done"},
                     amount : Prices \cup {0}]
      BY <1>0, <1>4 DEF WithdrawCommit
    <2>3. PICK price \in Prices \cup {0} : spent' = spent + price
      BY <1>0, <1>4 DEF WithdrawCommit
    <2>4. price \in Nat
      BY MoneyAssumption
    <2>5. spent' \in Nat
      <3>1. spent \in Nat
        BY DEF TypeOK, RestTypeOK
      <3> QED
        BY <2>3, <2>4, <3>1
    <2>6. RestTypeOK'
      BY <1>4, <2>2, <2>5 DEF WithdrawCommit, TypeOK, RestTypeOK, historyVars
    <2> QED
      BY <1>4, <2>6, ChangerSame, PipeSame, LoopSame, AbortSame DEF WithdrawCommit, TypeOK
  <1>5. ASSUME MapRace PROVE TypeOK'
    <2>1. RestTypeOK'
      BY <1>5 DEF MapRace, TypeOK, RestTypeOK, saleVars, historyVars
    <2> QED
      BY <1>5, <2>1, ChangerSame, PipeSame, LoopSame, AbortSame DEF MapRace, TypeOK
  <1> QED
    BY <1>1, <1>2, <1>3, <1>4, <1>5 DEF SaleStep

\* The type invariant is inductive.
LEMMA NextType == TypeOK /\ [Next]_vars => TypeOK'
  <1> SUFFICES ASSUME TypeOK, [Next]_vars PROVE TypeOK'
    OBVIOUS
  <1>1. CASE UNCHANGED vars
    BY <1>1, ChangerSame, PipeSame, LoopSame, AbortSame, RestSame
    DEF TypeOK, vars
  <1>2. CASE Next
    BY <1>1, <1>2, OutsideStepType, RunType, LoopType, CallersType, AbortType,
       SaleType
    DEF Next, Dead, SaleStep
  <1> QED
    BY <1>1, <1>2

(***************************************************************************)
(* Every variable keeps its type, the channels their capacity, and the     *)
(* handler has an item in hand whenever it works on one.                   *)
(***************************************************************************)
THEOREM TypeCorrect == Spec => []TypeOK
  BY InitType, NextType, PTL DEF Spec

-----------------------------------------------------------------------------
(***************************************************************************)
(* Payouts do not overlap.  Dispense waits for ready twice per nominal:    *)
(* before the command and after it.  A signal is worth as much as the poll *)
(* it comes from, and that poll may be older than a command sent since.    *)
(* The invariant says where such a stale signal ends: in the second wait.  *)
(***************************************************************************)
Inside == {"total", "iter", "want", "tx", "settle", "clear"}

\* Abort runs under the lock of the money system, and so does a sale.
LockHeld ==
  /\ \A c \in Callers : pc[c] \in Inside => lk = c
  /\ sale.st = "counting" => lk = Sale

\* A signal that coin.Run is about to give from a poll older than the running
\* payout finds Dispense in the wait that follows the command.
StaleReadyIsTaken ==
  runPc = "ready" /\ Paying => \E c \in Callers : pc[c] = "settle"

\* A DISPENSE is only about to be sent while the changer is at rest.
SendsAtRest == \A c \in Callers : pc[c] = "tx" => ~Paying

PayoutInv == LockHeld /\ StaleReadyIsTaken /\ SendsAtRest

\* Nothing is paid at the start.
LEMMA PayoutInit == Init => PayoutInv
  BY DEF Init, PayoutInv, LockHeld, StaleReadyIsTaken, SendsAtRest, Inside

\* Steps that touch neither the callers, nor coin.Run, nor the payout.
LEMMA PayoutSame ==
  PayoutInv /\ UNCHANGED <<pc, lk, sale, runPc, payout>> => PayoutInv'
  BY DEF PayoutInv, LockHeld, StaleReadyIsTaken, SendsAtRest, Paying

\* A sale takes the lock only when nobody holds it, and gives back its own.
LEMMA SaleLock == ASSUME TypeOK, LockHeld, SaleStep PROVE LockHeld' /\ pc' = pc
  BY DEF LockHeld, SaleStep, WithdrawPrepare, CountForSale, DecideSale, WithdrawCommit, MapRace,
     abortVars, saleVars, LockIsFree, TypeOK, RestTypeOK, AbortTypeOK

\* coin.Run: a poll of a paying changer gives no signal, and a signal wakes
\* the second wait or a caller whose changer is at rest.
LEMMA PayoutRun == TypeOK /\ PayoutInv /\ Run => PayoutInv'
  <1> SUFFICES ASSUME TypeOK, PayoutInv, Run PROVE PayoutInv'
    OBVIOUS
  <1>1. ASSUME Poll PROVE PayoutInv'
    <2>1. UNCHANGED <<pc, lk, sale, payout>>
      BY <1>1 DEF Poll, AnswerPoll, abortVars, saleVars
    <2>2. Paying => HasBusy(pr')
      <3> SUFFICES ASSUME Paying PROVE HasBusy(pr')
        OBVIOUS
      <3>1. pr' = SubSeq(report, 1, Fetched) \o <<BusyItem>>
        BY <1>1 DEF Poll, AnswerPoll
      <3>2. SubSeq(report, 1, Fetched) \in Seq(Item)
        BY FetchType DEF TypeOK, ChangerTypeOK
      <3> DEFINE k == Len(pr')
      <3>4. k \in 1..Len(pr') /\ pr'[k] = BusyItem
        BY <3>1, <3>2, BusyItemType, LastOfConcat, ZenonT(40)
      <3>5. BusyItem.status = "Busy"
        BY DEF BusyItem
      <3> QED
        BY <3>4, <3>5 DEF HasBusy
    <2>3. runPc' = "ready" => ~Paying
      BY <1>1, <2>2 DEF Poll, AfterPoll
    <2> QED
      BY <2>1, <2>3
      DEF PayoutInv, LockHeld, StaleReadyIsTaken, SendsAtRest, Paying
  <1>2. ASSUME PollError PROVE PayoutInv'
    BY <1>2, PayoutSame DEF PollError, LosePoll, runVars, abortVars, saleVars
  <1>3. ASSUME ReadySet PROVE PayoutInv'
    <2>1. /\ runPc = "ready" /\ runPc' = "send"
          /\ UNCHANGED <<lk, sale, payout>>
      BY <1>3 DEF ReadySet, changerVars, saleVars
    <2>2. \A c \in Callers :
            /\ pc'[c] \in Inside => pc[c] \in Inside
            /\ pc'[c] = "tx" => pc[c] \in {"want", "tx"}
      BY <1>3 DEF ReadySet, Inside
    <2>3. ASSUME NEW c \in Callers, pc'[c] = "tx" PROVE ~Paying
      <3>1. CASE pc[c] = "tx"
        BY <3>1 DEF PayoutInv, SendsAtRest
      <3>2. CASE pc[c] = "want"
        <4>1. \A d \in Callers : pc[d] # "settle"
          BY <3>2 DEF PayoutInv, LockHeld, Inside
        <4> QED
          BY <4>1, <2>1 DEF PayoutInv, StaleReadyIsTaken
      <3> QED
        BY <2>2, <2>3, <3>1, <3>2
    <2> QED
      BY <2>1, <2>2, <2>3
      DEF PayoutInv, LockHeld, StaleReadyIsTaken, SendsAtRest, Paying
  <1>4. ASSUME SendResult \/ RunStops PROVE PayoutInv'
    <2>1. UNCHANGED <<pc, lk, sale, payout>> /\ runPc' # "ready"
      BY <1>4 DEF SendResult, RunStops, changerVars, abortVars, saleVars
    <2> QED
      BY <2>1 DEF PayoutInv, LockHeld, StaleReadyIsTaken, SendsAtRest, Paying
  <1> QED
    BY <1>1, <1>2, <1>3, <1>4 DEF Run

\* Abort: after the command it is in the second wait.
LEMMA PayoutAbort == \A c \in Callers :
                       TypeOK /\ PayoutInv /\ Abort(c) => PayoutInv'
  <1> SUFFICES ASSUME NEW c \in Callers, TypeOK, PayoutInv, Abort(c)
               PROVE  PayoutInv'
    OBVIOUS
  <1>0. pc \in [Callers -> {"idle", "lock", "total", "iter", "want", "tx",
                           "settle", "clear", "bsStop", "csWait"}]
    BY DEF TypeOK, AbortTypeOK
  \* A step of the lock holder that sends nothing and is not in the second wait.
  <1>1. ASSUME NEW v \in Inside \ {"tx"}, pc[c] \in Inside \ {"settle"},
               pc' = [pc EXCEPT ![c] = v], UNCHANGED <<lk, sale, runPc, payout>>
        PROVE  PayoutInv'
    BY <1>0, <1>1
    DEF PayoutInv, LockHeld, StaleReadyIsTaken, SendsAtRest, Paying, Inside
  <1>2. ASSUME NEW value, Leave(c, value), pc[c] \in {"iter", "clear"},
               UNCHANGED <<sale, runPc, payout>>
        PROVE  PayoutInv'
    <2>1. \A d \in Callers \ {c} : pc[d] \notin Inside
      BY <1>2 DEF PayoutInv, LockHeld, Inside
    <2>2. \A d \in Callers : pc'[d] \notin Inside
      BY <1>0, <1>2, <2>1 DEF Leave, Inside
    <2>3. \A d \in Callers : pc[d] # "settle"
      BY <1>2, <2>1 DEF Inside
    <2> QED
      BY <1>2, <2>2, <2>3
      DEF PayoutInv, LockHeld, StaleReadyIsTaken, SendsAtRest, Paying, Inside
  <1>3. ASSUME TakeLock(c) PROVE PayoutInv'
    <2>1. \A d \in Callers : pc[d] \notin Inside
      BY <1>3 DEF TakeLock, LockIsFree, PayoutInv, LockHeld
    <2>2. sale'.st # "counting"
      BY <1>3 DEF TakeLock, LockIsFree, PayoutInv, LockHeld, saleVars
    <2> QED
      BY <1>0, <1>3, <2>1, <2>2
      DEF TakeLock, PayoutInv, LockHeld, StaleReadyIsTaken, SendsAtRest,
          Paying, Inside, changerVars, runVars, saleVars
  <1>4. ASSUME CountCredit(c) PROVE PayoutInv'
    <2>1. UNCHANGED <<lk, sale, runPc, payout>> /\ pc[c] = "total"
      BY <1>4 DEF CountCredit, changerVars, runVars, saleVars
    <2>2. pc' = pc \/ pc' = [pc EXCEPT ![c] = "iter"]
      BY <1>4 DEF CountCredit
    <2> QED
      BY <1>1, <2>1, <2>2, PayoutSame DEF Inside
  <1>5. ASSUME VisitNominal(c) PROVE PayoutInv'
    <2>1. UNCHANGED <<lk, sale, runPc, payout>> /\ pc[c] = "iter"
      BY <1>5 DEF VisitNominal, changerVars, runVars, saleVars
    <2>2. pc' = pc \/ \E v \in {"want", "settle"} : pc' = [pc EXCEPT ![c] = v]
      BY <1>5 DEF VisitNominal
    <2> QED
      BY <1>1, <2>1, <2>2, PayoutSame DEF Inside
  <1>6. ASSUME Dispensed(c) \/ DispenseError(c) PROVE PayoutInv'
    <2>1. /\ UNCHANGED <<lk, sale, runPc>> /\ pc[c] = "tx"
          /\ pc' = [pc EXCEPT ![c] = "settle"]
      BY <1>6 DEF Dispensed, DispenseError, runVars, saleVars
    <2>2. \A d \in Callers \ {c} : pc[d] \notin Inside
      BY <2>1 DEF PayoutInv, LockHeld, Inside
    <2> QED
      BY <1>0, <2>1, <2>2
      DEF PayoutInv, LockHeld, StaleReadyIsTaken, SendsAtRest, Inside
  <1>7. ASSUME AbortFails(c) PROVE PayoutInv'
    BY <1>2, <1>7 DEF AbortFails, changerVars, runVars, saleVars
  <1>8. ASSUME AllVisited(c) PROVE PayoutInv'
    BY <1>1, <1>8 DEF AllVisited, changerVars, runVars, saleVars, Inside
  <1>9. ASSUME ClearNominal(c) PROVE PayoutInv'
    BY <1>9, PayoutSame DEF ClearNominal, changerVars, runVars, saleVars
  <1>10. ASSUME AbortReturns(c) PROVE PayoutInv'
    BY <1>2, <1>10 DEF AbortReturns, changerVars, runVars, saleVars
  <1> QED
    BY <1>3, <1>4, <1>5, <1>6, <1>7, <1>8, <1>9, <1>10 DEF Abort

\* Coins that fall end a payout and start none.
LEMMA PayoutOutside == TypeOK /\ PayoutInv /\ Outside => PayoutInv'
  <1> SUFFICES ASSUME TypeOK, PayoutInv, Outside PROVE PayoutInv'
    OBVIOUS
  <1>1. UNCHANGED <<pc, lk, sale, runPc>>
    BY DEF Outside, runVars, abortVars, saleVars
  <1>2. ~Paying => ~Paying'
    <2>1. ASSUME NEW n \in Nominals, PayCoin(n) PROVE Paying
      BY <2>1 DEF PayCoin, Paying, NoCoins
    <2> QED
      BY <2>1 DEF Outside, ChangerNext, InsertCoin, PressLever, QuietNotice,
                  Paying
  <1> QED
    BY <1>1, <1>2 DEF PayoutInv, LockHeld, StaleReadyIsTaken, SendsAtRest

\* The payout invariant is inductive.
LEMMA PayoutNext == TypeOK /\ PayoutInv /\ [Next]_vars => PayoutInv'
  <1> SUFFICES ASSUME TypeOK, PayoutInv, [Next]_vars PROVE PayoutInv'
    OBVIOUS
  <1>1. CASE UNCHANGED vars
    BY <1>1, PayoutSame DEF vars, changerVars, runVars, saleVars, abortVars, saleVars
  <1>2. ASSUME Loop PROVE PayoutInv'
    BY <1>2, PayoutSame
    DEF Loop, TakeResult, ReadCredit, StoreCredit, RequestReturn, EmitEvent,
        LogItem, changerVars, runVars, saleVars, abortVars, saleVars
  <1>3. ASSUME MainReceives \/ RequestRestart \/ StopBill PROVE PayoutInv'
    <2>1. UNCHANGED <<lk, sale, runPc, payout>>
      BY <1>3 DEF MainReceives, RequestRestart, StopBill, changerVars, runVars, saleVars
    <2>2. \E c \in Callers, v \in {"idle", "lock", "csWait"} :
            pc[c] \notin Inside /\ pc' = [pc EXCEPT ![c] = v]
      BY <1>3 DEF MainReceives, RequestRestart, StopBill, Inside
    <2>3. pc \in [Callers -> {"idle", "lock", "total", "iter", "want", "tx",
                             "settle", "clear", "bsStop", "csWait"}]
      BY DEF TypeOK, AbortTypeOK
    <2> QED
      BY <2>1, <2>2, <2>3
      DEF PayoutInv, LockHeld, StaleReadyIsTaken, SendsAtRest, Paying, Inside
  <1>4. ASSUME SaleStep PROVE PayoutInv'
    <2>1. UNCHANGED <<pc, runPc, payout>>
      BY <1>4 DEF SaleStep, WithdrawPrepare, CountForSale, DecideSale, WithdrawCommit, MapRace,
         changerVars, runVars, abortVars
    <2>2. LockHeld'
      BY <1>4, SaleLock DEF PayoutInv
    <2> QED
      BY <2>1, <2>2 DEF PayoutInv, StaleReadyIsTaken, SendsAtRest, Paying
  <1> QED
    BY <1>1, <1>2, <1>3, <1>4, PayoutOutside, PayoutRun, PayoutAbort
    DEF Next, Dead, SaleStep

\* Only a DISPENSE that arrives adds to the coins asked for.
LEMMA CommandedStep ==
  TypeOK /\ PayoutInv /\ [Next]_vars => (commanded' # commanded => ~Paying)
  <1> SUFFICES ASSUME TypeOK, PayoutInv, [Next]_vars, commanded' # commanded
               PROVE  ~Paying
    OBVIOUS
  <1>1. ASSUME ~ \E c \in Callers : Dispensed(c) PROVE UNCHANGED commanded
    BY <1>1
    DEF Next, Dead, vars, changerVars, Outside, ChangerNext, InsertCoin,
        PressLever, QuietNotice, PayCoin, Run, Poll, AnswerPoll, PollError,
        LosePoll, ReadySet, SendResult, RunStops, Loop, TakeResult, ReadCredit,
        StoreCredit, RequestReturn, EmitEvent, LogItem, MainReceives,
        RequestRestart, StopBill, Abort, TakeLock, CountCredit, VisitNominal,
        DispenseError, LoseDispense, AbortFails, AllVisited, ClearNominal,
        AbortReturns, WithdrawPrepare, CountForSale, DecideSale, WithdrawCommit, MapRace
  <1> QED
    BY <1>1 DEF Dispensed, PayoutInv, SendsAtRest

(***************************************************************************)
(* For every set of nominals, any number of coins, requests, faults and    *)
(* restarts, and wherever coin.Run is in its poll: a DISPENSE is never     *)
(* sent to a changer that still pays out.                                  *)
(***************************************************************************)
THEOREM PayoutsAreSerial == Spec => PayoutsNeverOverlap
  <1>1. Init => TypeOK /\ PayoutInv
    BY InitType, PayoutInit
  <1>2. TypeOK /\ PayoutInv /\ [Next]_vars => (TypeOK /\ PayoutInv)'
    BY NextType, PayoutNext
  <1>3. TypeOK /\ PayoutInv /\ [Next]_vars => [commanded' # commanded => ~Paying]_vars
    BY CommandedStep
  <1> QED
    BY <1>1, <1>2, <1>3, PTL DEF Spec, PayoutsNeverOverlap

=============================================================================
