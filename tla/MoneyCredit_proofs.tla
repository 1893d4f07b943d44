-------------------------- MODULE MoneyCredit_proofs --------------------------
(*****************************************************************************)
(* Proofs about the money in the coin credit: between two Aborts it is what  *)
(* was booked less what the changer was asked to pay, up to the coins each   *)
(* mishap costs, and nothing is erased that was not paid or missed, for      *)
(* every set of nominals and any number of coins, presses, faults and        *)
(* restarts.                                                                 *)
(*****************************************************************************)
EXTENDS MoneySystem_proofs

-----------------------------------------------------------------------------
(***************************************************************************)
(* The inductive invariant.  While Abort is under way the books do not     *)
(* balance; the invariant says for each nominal on which side of its       *)
(* DISPENSE and of its clear it is.                                        *)
(***************************************************************************)
\* The credit of n is what the books say.
Balanced(n) == credit[n] + commanded[n] + lost[n] = booked[n] + extra[n]

\* No Abort has done anything about n.
AtRest(n) == Balanced(n) /\ sum[n] = 0 /\ missed[n] = 0

\* The Abort under way was answered that so many coins of n are paid, and
\* their credit is still there.
Running(n) ==
  credit[n] + commanded[n] + lost[n] = booked[n] + extra[n] + AskedFor(sum[n])

\* The credit of n that will be erased: paid, or missed.
Returned(n) == credit[n] = missed[n] + AskedFor(sum[n])

\* Dispense and its loop over the credit.
Visiting == {"iter", "want", "tx", "settle"}

\* The visit under way has counted n and its command is not sent.
Pending(c, n) == pc[c] \in {"want", "tx"} /\ n = cur

Account(c, n) ==
  /\ pc[c] = "total" => AtRest(n)
  /\ pc[c] \in Visiting =>
       /\ Running(n)
       /\ n \in todo => sum[n] = 0 /\ missed[n] = 0
       /\ Pending(c, n) => sum[n] = 0 /\ credit[n] = missed[n] + cnt
       /\ ~failed /\ n \notin todo /\ ~Pending(c, n) => Returned(n)
  /\ pc[c] = "clear" =>
       /\ n \in todo => Running(n) /\ Returned(n)
       /\ n \notin todo => Balanced(n)

Accounts ==
  /\ (\A c \in Callers : pc[c] \notin Inside) => \A n \in Nominals : AtRest(n)
  /\ \A c \in Callers, n \in Nominals : Account(c, n)

\* What the current visit of Dispense has counted.
AtHand ==
  \A c \in Callers : pc[c] \in {"want", "tx"} => cur \in Nominals \ todo

\* pollResultLoop is about to write what it has read, unless Clear intervened.
AboutToStore ==
  loopPc = "store" => credit[Head(inbox).nominal] <= loaded

\* The histories count coins.
Counts == \A n \in Nominals : missed[n] >= 0 /\ lost[n] >= 0 /\ extra[n] >= 0

\* An error ends the Abort it happened in.
Failures ==
  /\ (\A c \in Callers : pc[c] \notin Inside) => ~failed
  /\ \A c \in Callers : pc[c] \in {"total", "clear"} => ~failed

CreditInv ==
  LockHeld /\ Accounts /\ AtHand /\ AboutToStore /\ Counts /\ Failures

-----------------------------------------------------------------------------
USE DEF Callers, Sale, Nobody

\* Amounts of one nominal are numbers.
LEMMA Amounts ==
  ASSUME TypeOK, NEW n \in Nominals
  PROVE  /\ credit[n] \in Nat /\ commanded[n] \in Nat /\ booked[n] \in Nat /\ sum[n] \in Nat
         /\ missed[n] \in Int /\ lost[n] \in Int /\ extra[n] \in Int
  BY DEF TypeOK, ChangerTypeOK, RestTypeOK, AbortTypeOK, Coins

LEMMA PcType ==
  ASSUME TypeOK
  PROVE  pc \in [Callers -> {"idle", "lock", "total", "iter", "want", "tx",
                             "settle", "clear", "bsStop", "csWait"}]
  BY DEF TypeOK, AbortTypeOK

\* uint8(count) is a number, not more than the count, and nothing of nothing.
LEMMA Remainder ==
  ASSUME NEW n \in Nat, NEW m \in Nat \ {0}
  PROVE  n % m \in Nat /\ n % m <= n /\ 0 % m = 0
  OBVIOUS

LEMMA Cut ==
  ASSUME NEW n \in Nat
  PROVE  AskedFor(n) \in Nat /\ AskedFor(n) <= n /\ AskedFor(0) = 0
  BY Remainder, MoneyAssumption DEF AskedFor

\* What Abort and the accounts consist of, and what pollResultLoop has in hand.
Books == <<credit, commanded, booked, missed, lost, extra>>
Locals == <<lk, sale, sum, todo, cur, cnt, failed>>
InHand == <<loopPc, inbox, loaded>>

AbortInv == LockHeld /\ Accounts /\ AtHand /\ Counts /\ Failures

\* The account of a nominal whose amounts do not change, in a place that says
\* the same of it.
LEMMA AccountSame ==
  ASSUME NEW c \in Callers, NEW n \in Nominals, Account(c, n),
         UNCHANGED <<Books, sum, todo, cur, cnt, failed>>,
         /\ pc'[c] = "total" <=> pc[c] = "total"
         /\ pc'[c] \in Visiting <=> pc[c] \in Visiting
         /\ pc'[c] \in {"want", "tx"} <=> pc[c] \in {"want", "tx"}
         /\ pc'[c] = "clear" <=> pc[c] = "clear"
  PROVE  Account(c, n)'
  BY DEF Account, AtRest, Balanced, Running, Returned, Pending, Books, AskedFor

\* Nobody enters or leaves Abort, nothing is booked or asked for.
LEMMA AbortInvSame ==
  ASSUME AbortInv, UNCHANGED <<Books, Locals>>,
         \A c \in Callers : pc'[c] \in Inside \/ pc[c] \in Inside => pc'[c] = pc[c]
  PROVE  AbortInv'
  <1>0. UNCHANGED <<credit, commanded, booked, missed, lost, extra, lk, sale, sum, todo, cur,
                    cnt, failed>>
    BY DEF Books, Locals
  <1>1. LockHeld'
    BY <1>0 DEF AbortInv, LockHeld
  <1>2. ASSUME NEW c \in Callers, NEW n \in Nominals PROVE Account(c, n)'
    BY <1>0, AccountSame DEF AbortInv, Accounts, Visiting, Inside, Books
  <1>3. (\A c \in Callers : pc'[c] \notin Inside) => \A n \in Nominals : AtRest(n)'
    BY <1>0 DEF AbortInv, Accounts, AtRest, Balanced
  <1>4. Accounts'
    BY <1>2, <1>3 DEF Accounts
  <1>5. AtHand' /\ Counts' /\ Failures'
    BY <1>0 DEF AbortInv, AtHand, Counts, Failures, Inside
  <1> QED
    BY <1>1, <1>4, <1>5 DEF AbortInv

LEMMA StoreSame ==
  ASSUME AboutToStore, UNCHANGED <<credit, InHand>>
  PROVE  AboutToStore'
  BY DEF AboutToStore, InHand

\* Steps that touch nothing of all this.
LEMMA CreditSame ==
  ASSUME CreditInv, UNCHANGED <<Books, Locals, InHand, pc>>
  PROVE  CreditInv'
  <1>1. AbortInv'
    BY AbortInvSame DEF CreditInv, AbortInv
  <1>2. AboutToStore'
    BY StoreSame DEF CreditInv, Books
  <1> QED
    BY <1>1, <1>2 DEF CreditInv, AbortInv

LEMMA CreditOutside == ASSUME CreditInv, Outside PROVE CreditInv'
  <1>1. UNCHANGED commanded
    BY DEF Outside, ChangerNext, InsertCoin, PressLever, QuietNotice, PayCoin
  <1>2. UNCHANGED <<Books, Locals, InHand, pc>>
    BY <1>1 DEF Outside, Books, Locals, InHand, loopVars, abortVars, saleVars, frameVars,
       historyVars
  <1> QED
    BY <1>2, CreditSame

\* A signal lets Dispense go on.
LEMMA CreditReady == ASSUME CreditInv, ReadySet PROVE CreditInv'
  <1>0. /\ UNCHANGED Books /\ UNCHANGED <<lk, sale, sum, todo, cur, cnt, failed>>
        /\ UNCHANGED InHand
    BY DEF ReadySet, Books, InHand, changerVars, loopVars, frameVars, saleVars, historyVars
  <1>1. \A c \in Callers :
          /\ pc[c] = "want" => pc'[c] = "tx"
          /\ pc[c] = "settle" => pc'[c] = "iter"
          /\ pc[c] \notin {"want", "settle"} => pc'[c] = pc[c]
    BY DEF ReadySet
  <1>2. \A c \in Callers : /\ pc'[c] \in Visiting <=> pc[c] \in Visiting
                           /\ pc'[c] \in {"want", "tx"} <=> pc[c] \in {"want", "tx"}
                           /\ pc'[c] = "clear" <=> pc[c] = "clear"
                           /\ pc'[c] = "total" <=> pc[c] = "total"
                           /\ pc'[c] \in Inside <=> pc[c] \in Inside
    BY <1>1 DEF Visiting, Inside
  <1>3. ASSUME NEW c \in Callers, NEW n \in Nominals PROVE Account(c, n)'
    BY <1>0, <1>2, AccountSame DEF CreditInv, Accounts
  <1>4. (\A c \in Callers : pc'[c] \notin Inside) => \A n \in Nominals : AtRest(n)'
    BY <1>0, <1>2 DEF CreditInv, Accounts, AtRest, Balanced, Books
  <1>5. Accounts'
    BY <1>3, <1>4 DEF Accounts
  <1>6. AtHand' /\ Failures' /\ LockHeld' /\ Counts'
    BY <1>0, <1>2 DEF CreditInv, AtHand, Failures, LockHeld, Counts, Books
  <1>7. AboutToStore'
    BY <1>0, StoreSame DEF CreditInv, Books
  <1> QED
    BY <1>5, <1>6, <1>7 DEF CreditInv

LEMMA CreditRun == ASSUME CreditInv, Run PROVE CreditInv'
  <1>1. ASSUME Poll \/ PollError \/ SendResult \/ RunStops PROVE CreditInv'
    <2>1. UNCHANGED <<Books, Locals, InHand, pc>>
      BY <1>1 DEF Poll, AnswerPoll, PollError, LosePoll, SendResult, RunStops, Books, Locals,
         InHand, changerVars, loopVars, abortVars, saleVars, frameVars, historyVars
    <2> QED
      BY <2>1, CreditSame
  <1> QED
    BY <1>1, CreditReady DEF Run

LEMMA CreditCallers ==
  ASSUME TypeOK, CreditInv, MainReceives \/ RequestRestart \/ StopBill
  PROVE  CreditInv'
  <1>1. UNCHANGED <<Books, Locals, InHand>>
    BY DEF MainReceives, RequestRestart, StopBill, Books, Locals, InHand, changerVars, loopVars,
       saleVars, frameVars, historyVars
  <1>2. \E c \in Callers, v \in {"idle", "lock", "csWait"} :
          pc[c] \in {"idle", "bsStop"} /\ pc' = [pc EXCEPT ![c] = v]
    BY DEF MainReceives, RequestRestart, StopBill
  <1>3. \A c \in Callers : pc'[c] \in Inside \/ pc[c] \in Inside => pc'[c] = pc[c]
    BY <1>2, PcType DEF Inside
  <1>4. AbortInv'
    BY <1>1, <1>3, AbortInvSame DEF CreditInv, AbortInv
  <1>5. AboutToStore'
    BY <1>1, StoreSame DEF CreditInv, Books
  <1> QED
    BY <1>4, <1>5 DEF CreditInv, AbortInv

\* A sale only looks, and nobody is in Abort while it does.
LEMMA CreditSales == ASSUME TypeOK, CreditInv, SaleStep PROVE CreditInv'
  <1>1. LockHeld' /\ pc' = pc
    BY SaleLock DEF CreditInv
  <1>2. UNCHANGED <<Books, InHand, sum, failed>>
    BY DEF SaleStep, WithdrawPrepare, CountForSale, DecideSale, WithdrawCommit, MapRace, Books,
       InHand, changerVars, loopVars, abortVars, frameVars, historyVars
  <1>3. CASE \A c \in Callers : pc[c] \notin Inside
    <2>1. \A n \in Nominals : AtRest(n)'
      BY <1>2, <1>3 DEF CreditInv, Accounts, AtRest, Balanced, Books
    <2>2. \A c \in Callers, n \in Nominals : Account(c, n)'
      BY <1>1, <1>3 DEF Account, Visiting, Inside, Pending
    <2>3. AtHand' /\ Counts' /\ Failures'
      BY <1>1, <1>2, <1>3 DEF CreditInv, AtHand, Counts, Failures, Inside, Books
    <2>4. AboutToStore'
      BY <1>2, StoreSame DEF CreditInv, Books
    <2> QED
      BY <1>1, <2>1, <2>2, <2>3, <2>4 DEF CreditInv, Accounts
  <1>4. CASE WithdrawCommit \/ MapRace
    <2>1. UNCHANGED <<lk, todo, cur, cnt>> /\ (sale'.st = "counting" => sale.st = "counting")
      BY <1>4 DEF WithdrawCommit, MapRace, abortVars, saleVars, frameVars, TypeOK, RestTypeOK
    <2>2. \A c \in Callers, n \in Nominals : Account(c, n)'
      BY <1>1, <1>2, <2>1, AccountSame DEF CreditInv, Accounts
    <2>3. Accounts'
      BY <1>1, <1>2, <2>2 DEF CreditInv, Accounts, AtRest, Balanced, Books
    <2>4. AtHand' /\ Counts' /\ Failures'
      BY <1>1, <1>2, <2>1 DEF CreditInv, AtHand, Counts, Failures, Books
    <2>5. AboutToStore'
      BY <1>2, StoreSame DEF CreditInv, Books
    <2> QED
      BY <1>1, <2>3, <2>4, <2>5 DEF CreditInv
  <1>5. WithdrawCommit \/ MapRace \/ \A c \in Callers : pc[c] \notin Inside
    BY DEF SaleStep, WithdrawPrepare, CountForSale, DecideSale, LockIsFree, CreditInv, LockHeld
  <1> QED
    BY <1>3, <1>4, <1>5

\* A coin is booked: before Abort reads its nominal or after it has cleared it,
\* or the Abort misses it.
LEMMA CreditStore == ASSUME TypeOK, CreditInv, StoreCredit PROVE CreditInv'
  <1>a. /\ Head(inbox).nominal \in Nominals /\ loaded \in Nat
        /\ credit \in Coins /\ booked \in Coins /\ {missed, extra} \subseteq [Nominals -> Int]
    BY DEF StoreCredit, TypeOK, LoopTypeOK, RestTypeOK
  <1>b. PICK h \in Nominals : h = Head(inbox).nominal
    BY <1>a
  <1>0. /\ UNCHANGED <<commanded, lost, lk, pc, sale, sum, todo, cur, cnt, failed>>
        /\ loopPc = "store" /\ loopPc' = "emit"
        /\ credit' = [credit EXCEPT ![h] = loaded + 1]
        /\ booked' = [booked EXCEPT ![h] = booked[h] + 1]
        /\ extra' = [extra EXCEPT ![h] = extra[h] + (loaded - credit[h])]
        /\ missed' = IF Counted(h)
                       THEN [missed EXCEPT ![h] = missed[h] + (loaded + 1 - credit[h])]
                       ELSE missed
    BY <1>b DEF StoreCredit, changerVars, abortVars, saleVars, frameVars
  <1>1. PICK k \in Nat : loaded = k
    BY <1>a
  <1>2. credit[h] <= k
    BY <1>0, <1>1, <1>b DEF CreditInv, AboutToStore
  <1>3. \A n \in Nominals : n # h => /\ credit'[n] = credit[n] /\ booked'[n] = booked[n]
                                     /\ extra'[n] = extra[n] /\ missed'[n] = missed[n]
    BY <1>0, <1>a DEF Coins
  <1>4. /\ credit'[h] = k + 1 /\ booked'[h] = booked[h] + 1
        /\ extra'[h] = extra[h] + (k - credit[h])
        /\ Counted(h) => missed'[h] = missed[h] + (k + 1 - credit[h])
        /\ ~Counted(h) => missed'[h] = missed[h]
    BY <1>0, <1>1, <1>a DEF Coins
  <1>5. /\ credit[h] \in Nat /\ commanded[h] \in Nat /\ booked[h] \in Nat /\ sum[h] \in Nat
        /\ missed[h] \in Int /\ lost[h] \in Int /\ extra[h] \in Int
        /\ AskedFor(sum[h]) \in Nat /\ cnt \in Nat
    BY Amounts, Cut DEF TypeOK, AbortTypeOK
  \* What the store does to the account of its nominal.
  <1>6. Balanced(h) => Balanced(h)'
    <2> SUFFICES ASSUME credit[h] + commanded[h] + lost[h] = booked[h] + extra[h]
                 PROVE  credit'[h] + commanded[h] + lost[h] = booked'[h] + extra'[h]
      BY <1>0 DEF Balanced
    <2> QED
      BY <1>4, <1>5
  <1>7. Running(h) => Running(h)'
    <2>1. PICK a \in Nat : a = AskedFor(sum[h])
      BY <1>5
    <2> SUFFICES ASSUME credit[h] + commanded[h] + lost[h] = booked[h] + extra[h] + a
                 PROVE  credit'[h] + commanded[h] + lost[h] = booked'[h] + extra'[h] + a
      BY <1>0, <2>1 DEF Running, AskedFor
    <2> QED
      BY <1>4, <1>5
  <1>8. Counted(h) /\ Returned(h) => Returned(h)'
    <2>1. PICK a \in Nat : a = AskedFor(sum[h])
      BY <1>5
    <2> SUFFICES ASSUME Counted(h), credit[h] = missed[h] + a
                 PROVE  credit'[h] = missed'[h] + a
      BY <1>0, <2>1 DEF Returned, AskedFor
    <2> QED
      BY <1>4, <1>5
  <1>9. Counted(h) /\ credit[h] = missed[h] + cnt => credit'[h] = missed'[h] + cnt
    BY <1>4, <1>5
  <1>10. \A n \in Nominals : n # h => /\ AtRest(n)' <=> AtRest(n)
                                      /\ Balanced(n)' <=> Balanced(n)
                                      /\ Running(n)' <=> Running(n)
                                      /\ Returned(n)' <=> Returned(n)
    BY <1>0, <1>3 DEF AtRest, Balanced, Running, Returned, AskedFor
  <1>11. \A n \in Nominals, c \in Callers : (Pending(c, n))' <=> Pending(c, n)
    BY <1>0 DEF Pending
  <1>12. ASSUME NEW c \in Callers, NEW n \in Nominals, n # h PROVE Account(c, n)'
    <2>1. Account(c, n)
      BY DEF CreditInv, Accounts
    <2> QED
      BY <1>0, <1>3, <1>10, <1>11, <1>12, <2>1 DEF Account
  \* Where Abort has counted the nominal of the coin.
  <1>13. ASSUME NEW c \in Callers, pc[c] \in Inside
         PROVE  Counted(h) <=> \/ pc[c] \in Visiting /\ h \notin todo
                               \/ pc[c] = "clear" /\ h \in todo
    <2>1. \A d \in Callers : d # c => pc[d] \notin Inside
      BY <1>13 DEF CreditInv, LockHeld
    <2> QED
      BY <2>1 DEF Counted, Visiting, Inside
  <1>14. ASSUME NEW c \in Callers PROVE Account(c, h)'
    <2>1. Account(c, h)
      BY DEF CreditInv, Accounts
    <2>2. ASSUME pc[c] = "total" PROVE AtRest(h)'
      <3>1. ~Counted(h) /\ AtRest(h)
        BY <1>13, <2>1, <2>2 DEF Account, Visiting, Inside
      <3> QED
        BY <1>0, <1>4, <1>6, <3>1 DEF AtRest
    <2>3. ASSUME pc[c] \in Visiting
          PROVE  /\ Running(h)'
                 /\ h \in todo => sum[h] = 0 /\ missed'[h] = 0
                 /\ Pending(c, h) => sum[h] = 0 /\ credit'[h] = missed'[h] + cnt
                 /\ ~failed /\ h \notin todo /\ ~Pending(c, h) => Returned(h)'
      <3>1. /\ Running(h)
            /\ h \in todo => sum[h] = 0 /\ missed[h] = 0
            /\ Pending(c, h) => sum[h] = 0 /\ credit[h] = missed[h] + cnt
            /\ ~failed /\ h \notin todo /\ ~Pending(c, h) => Returned(h)
        BY <2>1, <2>3 DEF Account
      <3>2. Counted(h) <=> h \notin todo
        BY <1>13, <2>3 DEF Visiting, Inside
      <3>3. Pending(c, h) => h \notin todo
        BY DEF CreditInv, AtHand, Pending
      <3> QED
        BY <1>4, <1>7, <1>8, <1>9, <3>1, <3>2, <3>3
    <2>4. ASSUME pc[c] = "clear"
          PROVE  /\ h \in todo => Running(h)' /\ Returned(h)'
                 /\ h \notin todo => Balanced(h)'
      <3>1. Counted(h) <=> h \in todo
        BY <1>13, <2>4 DEF Visiting, Inside
      <3>2. /\ h \in todo => Running(h) /\ Returned(h)
            /\ h \notin todo => Balanced(h)
        BY <2>1, <2>4 DEF Account
      <3> QED
        BY <1>6, <1>7, <1>8, <3>1, <3>2
    <2> QED
      BY <1>0, <1>11, <2>2, <2>3, <2>4 DEF Account
  <1>15. ASSUME \A c \in Callers : pc[c] \notin Inside, NEW n \in Nominals PROVE AtRest(n)'
    <2>1. AtRest(n)
      BY <1>15 DEF CreditInv, Accounts
    <2>2. CASE n = h
      <3>1. ~Counted(h)
        BY <1>15 DEF Counted, Inside
      <3> QED
        BY <1>0, <1>4, <1>6, <2>1, <2>2, <3>1 DEF AtRest
    <2> QED
      BY <1>10, <2>1, <2>2
  <1>16. Accounts'
    BY <1>0, <1>12, <1>14, <1>15 DEF Accounts
  <1>17. Counts'
    <2>1. missed[h] >= 0 /\ extra[h] >= 0
      BY DEF CreditInv, Counts
    <2>2. missed'[h] >= 0 /\ extra'[h] >= 0
      BY <1>2, <1>4, <1>5, <2>1
    <2> QED
      BY <1>0, <1>3, <2>2 DEF CreditInv, Counts
  <1>18. AtHand' /\ Failures' /\ LockHeld'
    BY <1>0 DEF CreditInv, AtHand, Failures, LockHeld
  <1>19. AboutToStore'
    BY <1>0 DEF AboutToStore
  <1> QED
    BY <1>16, <1>17, <1>18, <1>19 DEF CreditInv

LEMMA CreditLoop == ASSUME TypeOK, CreditInv, Loop PROVE CreditInv'
  <1>1. ASSUME TakeResult \/ ReadCredit \/ RequestReturn \/ EmitEvent \/ LogItem PROVE CreditInv'
    <2>1. UNCHANGED <<Books, Locals, pc>>
      BY <1>1 DEF TakeResult, ReadCredit, RequestReturn, EmitEvent, LogItem, Books, Locals,
         changerVars, abortVars, saleVars, frameVars, historyVars
    <2>2. AbortInv'
      BY <2>1, AbortInvSame DEF CreditInv, AbortInv
    <2>3. AboutToStore'
      <3>1. CASE ReadCredit
        <4>1. UNCHANGED <<credit, inbox>>
          BY <3>1 DEF ReadCredit
        <4>2. loopPc' = "store" =>
                Head(inbox).nominal \in Nominals /\ loaded' = credit[Head(inbox).nominal]
          BY <3>1 DEF ReadCredit
        <4>3. ASSUME NEW n \in Nominals PROVE credit[n] <= credit[n]
          <5>1. credit[n] \in Nat
            BY Amounts
          <5> QED
            BY <5>1
        <4> QED
          BY <4>1, <4>2, <4>3 DEF AboutToStore
      <3>2. CASE TakeResult \/ RequestReturn \/ EmitEvent \/ LogItem
        BY <3>2 DEF TakeResult, RequestReturn, EmitEvent, LogItem, NextItem, AboutToStore
      <3> QED
        BY <1>1, <3>1, <3>2
    <2> QED
      BY <2>2, <2>3 DEF CreditInv, AbortInv
  <1> QED
    BY <1>1, CreditStore DEF Loop

\* The steps of Abort: only its caller is inside.
LEMMA OnlyOne ==
  ASSUME CreditInv, NEW c \in Callers, pc[c] \in Inside
  PROVE  /\ lk = c /\ sale.st # "counting"
         /\ \A d \in Callers : d # c => pc[d] \notin Inside
  BY DEF CreditInv, LockHeld

\* To show of a step of Abort: what holds of its caller.
LEMMA OneCaller ==
  ASSUME NEW c \in Callers, sale.st # "counting", sale' = sale,
         \A d \in Callers : d # c => pc'[d] \notin Inside
  PROVE  /\ (pc'[c] \in Inside => lk' = c) => LockHeld'
         /\ (/\ \A n \in Nominals : Account(c, n)'
             /\ pc'[c] \notin Inside => \A n \in Nominals : AtRest(n)') => Accounts'
         /\ (pc'[c] \in {"want", "tx"} => cur' \in Nominals \ todo') => AtHand'
         /\ (pc'[c] \in {"total", "clear"} \/ pc'[c] \notin Inside => ~failed') => Failures'
  <1>1. \A d \in Callers : d # c => pc'[d] \notin Visiting /\ pc'[d] \notin {"total", "clear"}
                                    /\ pc'[d] \notin {"want", "tx"}
    BY DEF Inside, Visiting
  <1>2. ASSUME NEW d \in Callers, NEW n \in Nominals, d # c PROVE Account(d, n)'
    BY <1>1, <1>2 DEF Account, Pending
  <1> QED
    BY <1>1, <1>2 DEF LockHeld, Accounts, AtHand, Failures

\* Only the caller moves.
LEMMA OthersStay ==
  ASSUME TypeOK, CreditInv, NEW c \in Callers, lk \in {Nobody, c}, NEW v,
         pc' = [pc EXCEPT ![c] = v]
  PROVE  pc'[c] = v /\ \A d \in Callers : d # c => pc'[d] \notin Inside
  BY PcType DEF CreditInv, LockHeld

LEMMA CreditTakeLock ==
  ASSUME TypeOK, CreditInv, NEW c \in Callers, TakeLock(c) PROVE CreditInv'
  <1>0. /\ UNCHANGED <<Books, sum, cur, cnt, failed, sale, InHand>>
        /\ lk = Nobody /\ lk' = c /\ pc' = [pc EXCEPT ![c] = "total"] /\ todo' = Nominals
    BY DEF TakeLock, LockIsFree, Books, InHand, changerVars, loopVars, saleVars, historyVars
  <1>1. pc'[c] = "total" /\ \A d \in Callers : d # c => pc'[d] \notin Inside
    BY <1>0, OthersStay
  <1>2. \A d \in Callers : pc[d] \notin Inside
    BY <1>0 DEF CreditInv, LockHeld
  <1>3. sale.st # "counting"
    BY <1>0 DEF CreditInv, LockHeld
  <1>4. ~failed /\ \A n \in Nominals : AtRest(n)'
    BY <1>0, <1>2 DEF CreditInv, Failures, Accounts, AtRest, Balanced, Books
  <1>5. \A n \in Nominals : Account(c, n)'
    BY <1>1, <1>4 DEF Account, Visiting, Pending
  <1>6. LockHeld' /\ Accounts' /\ AtHand' /\ Failures'
    BY <1>0, <1>1, <1>3, <1>4, <1>5, OneCaller DEF Inside
  <1>7. Counts' /\ AboutToStore'
    BY <1>0, StoreSame DEF CreditInv, Counts, Books
  <1> QED
    BY <1>6, <1>7 DEF CreditInv

LEMMA CreditCount ==
  ASSUME TypeOK, CreditInv, NEW c \in Callers, CountCredit(c) PROVE CreditInv'
  <1>0. /\ UNCHANGED <<Books, sum, cur, cnt, failed, sale, lk, InHand>>
        /\ pc[c] = "total"
        /\ \/ pc' = [pc EXCEPT ![c] = "iter"] /\ todo' = Nominals
           \/ pc' = pc
    BY DEF CountCredit, Books, InHand, changerVars, loopVars, saleVars, historyVars
  <1>1. lk = c /\ sale.st # "counting"
    BY <1>0, OnlyOne DEF Inside
  <1>2. ~failed /\ \A n \in Nominals : AtRest(n)
    BY <1>0 DEF CreditInv, Failures, Accounts, Account
  <1>3. /\ pc'[c] = "total" \/ (pc'[c] = "iter" /\ todo' = Nominals)
        /\ \A d \in Callers : d # c => pc'[d] \notin Inside
    <2>1. CASE pc' = [pc EXCEPT ![c] = "iter"] /\ todo' = Nominals
      BY <1>1, <2>1, OthersStay
    <2>2. CASE pc' = pc
      BY <1>0, <2>2, OnlyOne DEF Inside
    <2> QED
      BY <1>0, <2>1, <2>2
  <1>4. ASSUME NEW n \in Nominals PROVE Account(c, n)'
    <2>1. AtRest(n)'
      BY <1>0, <1>2 DEF AtRest, Balanced, Books
    <2>2. Running(n)'
      <3>1. AskedFor(0) = 0
        BY Cut
      <3>2. sum[n] = 0 /\ credit[n] + commanded[n] + lost[n] = booked[n] + extra[n] + AskedFor(0)
        BY <1>2, <3>1, Amounts DEF AtRest, Balanced
      <3> QED
        BY <1>0, <3>2 DEF Running, AskedFor, Books
    <2> QED
      BY <1>3, <2>1, <2>2 DEF Account, Pending, AtRest, Visiting
  <1>5. LockHeld' /\ Accounts' /\ AtHand' /\ Failures'
    BY <1>0, <1>1, <1>2, <1>3, <1>4, OneCaller DEF Inside
  <1>6. Counts' /\ AboutToStore'
    BY <1>0, StoreSame DEF CreditInv, Counts, Books
  <1> QED
    BY <1>5, <1>6 DEF CreditInv

\* A visit of a nominal without credit changes only todo; another one reads
\* the credit it will ask for.
LEMMA CreditVisit ==
  ASSUME TypeOK, CreditInv, NEW c \in Callers, VisitNominal(c) PROVE CreditInv'
  <1>0. /\ UNCHANGED <<Books, sum, lk, sale, InHand>>
        /\ pc[c] = "iter" /\ ~failed
    BY DEF VisitNominal, Books, InHand, changerVars, loopVars, saleVars, historyVars
  <1>1. PICK n \in todo :
          /\ todo' = todo \ {n}
          /\ IF credit[n] = 0
               THEN UNCHANGED <<pc, cur, cnt, failed>>
               ELSE /\ cur' = n /\ cnt' = credit[n]
                    /\ failed' = ~Dispensable(n, credit[n])
                    /\ pc' = [pc EXCEPT ![c] =
                          IF Dispensable(n, credit[n]) THEN "want" ELSE "settle"]
    BY DEF VisitNominal
  <1>2. n \in Nominals /\ credit[n] \in Nat /\ todo \subseteq Nominals
    BY <1>1, Amounts DEF TypeOK, AbortTypeOK
  <1>3. lk = c /\ sale.st # "counting"
    BY <1>0, OnlyOne DEF Inside
  <1>4. \A m \in Nominals : Running(m)' <=> Running(m)
    BY <1>0 DEF Running, AskedFor, Books
  <1>5. \A m \in Nominals : Returned(m)' <=> Returned(m)
    BY <1>0 DEF Returned, AskedFor, Books
  <1>6. \A m \in Nominals :
          /\ Running(m)
          /\ m \in todo => sum[m] = 0 /\ missed[m] = 0
          /\ m \notin todo => Returned(m)
    BY <1>0 DEF CreditInv, Accounts, Account, Pending, Visiting
  <1>7. pc'[c] \in Visiting /\ \A d \in Callers : d # c => pc'[d] \notin Inside
    <2>1. CASE credit[n] = 0
      BY <1>0, <1>1, <2>1, OnlyOne DEF Inside, Visiting
    <2>2. CASE credit[n] # 0
      BY <1>1, <1>3, <2>2, OthersStay DEF Visiting
    <2> QED
      BY <2>1, <2>2
  <1>8. pc'[c] \in {"want", "tx"} => cur' = n /\ cnt' = credit[n]
    <2>1. CASE credit[n] = 0
      BY <1>0, <1>1, <2>1
    <2>2. CASE credit[n] # 0
      BY <1>1, <2>2
    <2> QED
      BY <2>1, <2>2
  \* A nominal with credit that can be paid is the one at hand.
  <1>9. ~failed' /\ ~Pending(c, n)' => credit[n] = 0
    <2>1. ASSUME credit[n] # 0, ~failed' PROVE Pending(c, n)'
      <3>1. pc' = [pc EXCEPT ![c] = "want"] /\ cur' = n
        BY <1>1, <2>1
      <3>2. pc'[c] = "want"
        BY <1>3, <3>1, OthersStay
      <3> QED
        BY <3>1, <3>2 DEF Pending
    <2> QED
      BY <2>1
  <1>10. ASSUME NEW m \in Nominals, m # n PROVE Account(c, m)'
    <2>1. ~Pending(c, m)'
      BY <1>8, <1>10 DEF Pending
    <2>2. m \in todo' <=> m \in todo
      BY <1>1, <1>10
    <2> QED
      BY <1>0, <1>4, <1>5, <1>6, <1>7, <2>1, <2>2 DEF Account, Visiting, Books
  <1>11. Account(c, n)'
    <2>1. sum[n] = 0 /\ missed[n] = 0 /\ n \notin todo'
      BY <1>1, <1>2, <1>6
    <2>2. Pending(c, n)' => credit[n] = missed[n] + cnt'
      BY <1>2, <1>8, <2>1 DEF Pending
    <2>3. ~failed' /\ ~Pending(c, n)' => Returned(n)'
      <3>1. AskedFor(0) = 0
        BY Cut
      <3>2. credit[n] = 0 => credit[n] = missed[n] + AskedFor(sum[n])
        BY <2>1, <3>1
      <3> QED
        BY <1>2, <1>5, <1>9, <3>2 DEF Returned
    <2> QED
      BY <1>0, <1>2, <1>4, <1>6, <1>7, <2>1, <2>2, <2>3 DEF Account, Visiting, Books
  <1>12. AtHand'
    BY <1>0, <1>1, <1>2, <1>3, <1>7, <1>8, OneCaller
  <1>13. LockHeld' /\ Accounts' /\ Failures'
    BY <1>0, <1>3, <1>7, <1>10, <1>11, OneCaller DEF Visiting, Inside
  <1>14. Counts' /\ AboutToStore'
    BY <1>0, StoreSame DEF CreditInv, Counts, Books
  <1> QED
    BY <1>12, <1>13, <1>14 DEF CreditInv

\* A DISPENSE that is answered has paid what was counted, up to a byte; one
\* whose answer is lost has paid it beyond the books.
LEMMA CreditDispensed ==
  ASSUME TypeOK, CreditInv, NEW c \in Callers, Dispensed(c) PROVE CreditInv'
  <1>0. /\ UNCHANGED <<credit, booked, lost, lk, sale, todo, cur, cnt, InHand>>
        /\ pc[c] = "tx" /\ pc' = [pc EXCEPT ![c] = "settle"]
        /\ commanded' = [commanded EXCEPT ![cur] = @ + AskedFor(cnt)]
    BY DEF Dispensed, StartPayout, InHand, loopVars, saleVars
  <1>1. lk = c /\ sale.st # "counting"
    BY <1>0, OnlyOne DEF Inside
  <1>2. PICK n \in Nominals : n = cur
    BY <1>0 DEF CreditInv, AtHand
  <1>3. n \notin todo /\ cnt \in Nat
    BY <1>0, <1>2 DEF CreditInv, AtHand, TypeOK, AbortTypeOK
  <1>4. PICK a \in Nat : a = AskedFor(cnt) /\ a <= cnt
    BY <1>3, Cut
  <1>5. /\ commanded'[n] = commanded[n] + a
        /\ \A m \in Nominals : m # n => commanded'[m] = commanded[m]
    BY <1>0, <1>2, <1>4 DEF TypeOK, ChangerTypeOK, Coins
  <1>6. \/ /\ failed' = failed /\ extra' = extra
           /\ sum' = [sum EXCEPT ![n] = @ + cnt]
           /\ missed' = [missed EXCEPT ![n] = @ + (cnt - a)]
        \/ /\ failed' /\ sum' = sum /\ missed' = missed
           /\ extra' = [extra EXCEPT ![n] = @ + a]
    BY <1>2, <1>4 DEF Dispensed
  <1>7. pc'[c] = "settle" /\ \A d \in Callers : d # c => pc'[d] \notin Inside
    BY <1>0, <1>1, OthersStay
  <1>8. Pending(c, n) /\ \A m \in Nominals : m # n => ~Pending(c, m)
    BY <1>0, <1>2 DEF Pending
  <1>9. \A m \in Nominals : ~Pending(c, m)'
    BY <1>7 DEF Pending
  <1>10. \A m \in Nominals : Account(c, m) /\ pc[c] \in Visiting
    BY <1>0 DEF CreditInv, Accounts, Visiting
  <1>11. ASSUME NEW m \in Nominals, m # n PROVE Account(c, m)'
    <2>1. UNCHANGED <<credit[m], booked[m], lost[m], commanded[m], sum[m], missed[m], extra[m]>>
      BY <1>0, <1>5, <1>6, <1>11 DEF TypeOK, AbortTypeOK, RestTypeOK, Coins
    <2>2. (Running(m)' <=> Running(m)) /\ (Returned(m)' <=> Returned(m))
      BY <2>1 DEF Running, Returned, AskedFor
    <2>3. ~failed' => ~failed
      BY <1>6
    <2> QED
      BY <1>0, <1>7, <1>8, <1>9, <1>10, <1>11, <2>1, <2>2, <2>3 DEF Account, Visiting
  <1>12. /\ sum[n] = 0 /\ credit[n] = missed[n] + cnt
         /\ credit[n] + commanded[n] + lost[n] = booked[n] + extra[n]
    <2>1. sum[n] = 0 /\ credit[n] = missed[n] + cnt /\ Running(n)
      BY <1>8, <1>10 DEF Account
    <2>2. AskedFor(0) = 0
      BY Cut
    <2> QED
      BY <2>1, <2>2, Amounts DEF Running
  <1>13. /\ credit[n] \in Nat /\ commanded[n] \in Nat /\ booked[n] \in Nat
         /\ missed[n] \in Int /\ lost[n] \in Int /\ extra[n] \in Int
    BY Amounts
  <1>14. Account(c, n)' /\ (missed'[n] >= 0 /\ extra'[n] >= 0)
    <2>0. missed[n] >= 0 /\ extra[n] >= 0
      BY DEF CreditInv, Counts
    <2>1. CASE /\ failed' = failed /\ extra' = extra
               /\ sum' = [sum EXCEPT ![n] = @ + cnt]
               /\ missed' = [missed EXCEPT ![n] = @ + (cnt - a)]
      <3>1. sum'[n] = cnt /\ missed'[n] = missed[n] + (cnt - a)
        <4>1. sum'[n] = sum[n] + cnt
          BY <2>1 DEF TypeOK, AbortTypeOK, Coins
        <4>2. missed'[n] = missed[n] + (cnt - a)
          BY <2>1 DEF TypeOK, RestTypeOK
        <4> QED
          BY <1>3, <1>12, <4>1, <4>2
      <3>2. credit[n] = missed'[n] + a
        BY <1>3, <1>12, <1>13, <3>1
      <3>3. credit[n] + commanded'[n] + lost[n] = booked[n] + extra[n] + a
        BY <1>5, <1>12, <1>13
      <3>4. Running(n)' /\ Returned(n)'
        BY <1>0, <1>4, <2>1, <3>1, <3>2, <3>3 DEF Running, Returned, AskedFor
      <3>5. missed'[n] >= 0
        BY <1>3, <1>4, <1>13, <2>0, <3>1
      <3> QED
        BY <1>0, <1>3, <1>7, <1>9, <2>0, <2>1, <3>4, <3>5 DEF Account
    <2>2. CASE /\ failed' /\ sum' = sum /\ missed' = missed
               /\ extra' = [extra EXCEPT ![n] = @ + a]
      <3>1. extra'[n] = extra[n] + a
        BY <2>2 DEF TypeOK, RestTypeOK
      <3>2. AskedFor(0) = 0
        BY Cut
      <3>3. credit[n] + commanded'[n] + lost[n] = booked[n] + extra'[n] + AskedFor(0)
        BY <1>5, <1>12, <1>13, <3>1, <3>2
      <3>4. Running(n)'
        BY <1>0, <1>12, <2>2, <3>3 DEF Running, AskedFor
      <3>5. extra'[n] >= 0
        BY <1>13, <2>0, <3>1
      <3> QED
        BY <1>0, <1>3, <1>7, <1>9, <2>0, <2>2, <3>4, <3>5 DEF Account
    <2> QED
      BY <1>6, <2>1, <2>2
  <1>15. Accounts'
    BY <1>0, <1>1, <1>7, <1>11, <1>14, OneCaller DEF Inside
  <1>16. LockHeld' /\ AtHand' /\ Failures'
    BY <1>0, <1>1, <1>7, OneCaller DEF Inside
  <1>17. Counts'
    <2>1. \A m \in Nominals : m # n => missed'[m] = missed[m] /\ extra'[m] = extra[m]
      BY <1>6 DEF TypeOK, RestTypeOK
    <2> QED
      BY <1>0, <1>14, <2>1 DEF CreditInv, Counts
  <1>18. AboutToStore'
    BY <1>0, StoreSame DEF CreditInv
  <1> QED
    BY <1>15, <1>16, <1>17, <1>18 DEF CreditInv

\* One that does not arrive, or is refused, changes nothing but the error.
LEMMA CreditDispenseError ==
  ASSUME TypeOK, CreditInv, NEW c \in Callers, DispenseError(c) PROVE CreditInv'
  <1>0. /\ UNCHANGED <<Books, lk, sale, sum, todo, cur, cnt, InHand>>
        /\ pc[c] = "tx" /\ pc' = [pc EXCEPT ![c] = "settle"] /\ failed'
    BY DEF DispenseError, LoseDispense, Books, InHand, loopVars, saleVars, historyVars
  <1>1. lk = c /\ sale.st # "counting"
    BY <1>0, OnlyOne DEF Inside
  <1>2. pc'[c] = "settle" /\ \A d \in Callers : d # c => pc'[d] \notin Inside
    BY <1>0, <1>1, OthersStay
  <1>3. ASSUME NEW n \in Nominals PROVE Account(c, n)'
    <2>1. Account(c, n) /\ (Running(n)' <=> Running(n))
      BY <1>0 DEF CreditInv, Accounts, Running, AskedFor, Books
    <2> QED
      BY <1>0, <1>2, <2>1 DEF Account, Visiting, Pending, Books
  <1>4. LockHeld' /\ Accounts' /\ AtHand' /\ Failures'
    BY <1>0, <1>1, <1>2, <1>3, OneCaller DEF Inside
  <1>5. Counts' /\ AboutToStore'
    BY <1>0, StoreSame DEF CreditInv, Counts, Books
  <1> QED
    BY <1>4, <1>5 DEF CreditInv

\* Abort comes back with books that balance.
LEMMA CreditLeave ==
  ASSUME TypeOK, CreditInv, NEW c \in Callers, pc[c] \in Inside, NEW value, Leave(c, value),
         UNCHANGED <<credit, sale, InHand>>, Counts', \A n \in Nominals : Balanced(n)'
  PROVE  CreditInv'
  <1>1. lk = c /\ sale.st # "counting"
    BY OnlyOne
  <1>2. /\ pc' = [pc EXCEPT ![c] = IF c = "main" THEN "idle" ELSE "bsStop"]
        /\ lk' = Nobody /\ failed' = FALSE /\ sum' = NoCoins /\ missed' = NoCoins
    BY DEF Leave
  <1>3. pc'[c] \in {"idle", "bsStop"} /\ \A d \in Callers : d # c => pc'[d] \notin Inside
    BY <1>1, <1>2, OthersStay
  <1>4. \A n \in Nominals : AtRest(n)'
    BY <1>2 DEF AtRest, NoCoins
  <1>5. \A n \in Nominals : Account(c, n)'
    BY <1>3 DEF Account, Visiting, Pending
  <1>6. LockHeld' /\ Accounts' /\ AtHand' /\ Failures'
    BY <1>1, <1>2, <1>3, <1>4, <1>5, OneCaller DEF Inside
  <1>7. AboutToStore'
    BY StoreSame DEF CreditInv
  <1> QED
    BY <1>6, <1>7 DEF CreditInv

LEMMA CreditAbortFails ==
  ASSUME TypeOK, CreditInv, NEW c \in Callers, AbortFails(c) PROVE CreditInv'
  <1>0. /\ UNCHANGED <<credit, commanded, booked, lost, sale, InHand>>
        /\ pc[c] = "iter" /\ Leave(c, "error") /\ missed' = NoCoins
        /\ extra' = [n \in Nominals |-> extra[n] + AskedFor(sum[n])]
    BY DEF AbortFails, Leave, InHand, loopVars, saleVars, changerVars
  <1>1. ASSUME NEW n \in Nominals PROVE Balanced(n)' /\ extra'[n] >= 0
    <2>1. PICK a \in Nat : a = AskedFor(sum[n])
      BY Amounts, Cut
    <2>2. credit[n] + commanded[n] + lost[n] = booked[n] + extra[n] + a
      BY <1>0, <2>1 DEF CreditInv, Accounts, Account, Visiting, Running
    <2>3. extra'[n] = extra[n] + a
      BY <1>0, <2>1
    <2>4. credit[n] + commanded[n] + lost[n] = booked[n] + extra'[n]
      BY <2>2, <2>3, Amounts
    <2>5. extra[n] >= 0 /\ extra[n] \in Int
      BY Amounts DEF CreditInv, Counts
    <2> QED
      BY <1>0, <2>3, <2>4, <2>5 DEF Balanced
  <1>2. Counts'
    BY <1>0, <1>1 DEF CreditInv, Counts, NoCoins
  <1> QED
    BY <1>0, <1>1, <1>2, CreditLeave DEF Inside

LEMMA CreditReturns ==
  ASSUME TypeOK, CreditInv, NEW c \in Callers, AbortReturns(c) PROVE CreditInv'
  <1>0. /\ UNCHANGED <<credit, commanded, booked, lost, extra, sale, InHand>>
        /\ pc[c] = "clear" /\ todo = {} /\ missed' = NoCoins
    BY DEF AbortReturns, Leave, InHand, loopVars, saleVars, changerVars
  <1>1. PICK value : Leave(c, value)
    BY DEF AbortReturns
  <1>2. \A n \in Nominals : Balanced(n)'
    BY <1>0 DEF CreditInv, Accounts, Account, Balanced
  <1>3. Counts'
    BY <1>0 DEF CreditInv, Counts, NoCoins
  <1> QED
    BY <1>0, <1>1, <1>2, <1>3, CreditLeave DEF Inside

LEMMA CreditAllVisited ==
  ASSUME TypeOK, CreditInv, NEW c \in Callers, AllVisited(c) PROVE CreditInv'
  <1>0. /\ UNCHANGED <<Books, sum, lk, sale, cur, cnt, failed, InHand>>
        /\ pc[c] = "iter" /\ ~failed /\ todo = {} /\ todo' = Nominals
        /\ pc' = [pc EXCEPT ![c] = "clear"]
    BY DEF AllVisited, AllDispensed, Books, InHand, loopVars, saleVars, historyVars, changerVars
  <1>1. lk = c /\ sale.st # "counting"
    BY <1>0, OnlyOne DEF Inside
  <1>2. pc'[c] = "clear" /\ \A d \in Callers : d # c => pc'[d] \notin Inside
    BY <1>0, <1>1, OthersStay
  <1>3. ASSUME NEW n \in Nominals PROVE Account(c, n)'
    <2>1. Running(n) /\ Returned(n)
      BY <1>0 DEF CreditInv, Accounts, Account, Visiting, Pending
    <2>2. Running(n)' /\ Returned(n)'
      BY <1>0, <2>1 DEF Running, Returned, AskedFor, Books
    <2> QED
      BY <1>0, <1>2, <2>2 DEF Account, Visiting
  <1>4. LockHeld' /\ Accounts' /\ AtHand' /\ Failures'
    BY <1>0, <1>1, <1>2, <1>3, OneCaller DEF Inside
  <1>5. Counts' /\ AboutToStore'
    BY <1>0, StoreSame DEF CreditInv, Counts, Books
  <1> QED
    BY <1>4, <1>5 DEF CreditInv

LEMMA CreditClear ==
  ASSUME TypeOK, CreditInv, NEW c \in Callers, ClearNominal(c) PROVE CreditInv'
  <1>0. /\ UNCHANGED <<commanded, booked, missed, extra, sum, lk, sale, pc, cur, cnt, failed,
                       InHand>>
        /\ pc[c] = "clear"
    BY DEF ClearNominal, InHand, loopVars, changerVars, saleVars
  <1>1. PICK n \in todo :
          /\ credit' = [credit EXCEPT ![n] = 0]
          /\ todo' = todo \ {n}
          /\ lost' = [lost EXCEPT ![n] = @ + missed[n]]
    BY DEF ClearNominal
  <1>2. n \in Nominals /\ todo \subseteq Nominals
    BY <1>1 DEF TypeOK, AbortTypeOK
  <1>3. /\ credit'[n] = 0 /\ lost'[n] = lost[n] + missed[n]
        /\ \A m \in Nominals : m # n => credit'[m] = credit[m] /\ lost'[m] = lost[m]
    BY <1>1, <1>2 DEF TypeOK, RestTypeOK, Coins
  <1>4. lk = c /\ sale.st # "counting" /\ \A d \in Callers : d # c => pc'[d] \notin Inside
    BY <1>0, OnlyOne DEF Inside
  <1>5. \A m \in Nominals : /\ m \in todo => Running(m) /\ Returned(m)
                            /\ m \notin todo => Balanced(m)
    BY <1>0 DEF CreditInv, Accounts, Account
  <1>6. Balanced(n)'
    <2>1. PICK a \in Nat : a = AskedFor(sum[n])
      BY <1>2, Amounts, Cut
    <2>2. /\ credit[n] = missed[n] + a
          /\ credit[n] + commanded[n] + lost[n] = booked[n] + extra[n] + a
      BY <1>1, <1>2, <1>5, <2>1 DEF Running, Returned
    <2>3. credit'[n] + commanded[n] + lost'[n] = booked[n] + extra[n]
      BY <1>2, <1>3, <2>2, Amounts
    <2> QED
      BY <1>0, <2>3 DEF Balanced
  <1>7. ASSUME NEW m \in Nominals PROVE Account(c, m)'
    <2>1. CASE m = n
      BY <1>0, <1>1, <1>6, <2>1 DEF Account, Visiting
    <2>2. CASE m # n
      <3>1. /\ Running(m)' <=> Running(m)
            /\ Returned(m)' <=> Returned(m)
            /\ Balanced(m)' <=> Balanced(m)
        BY <1>0, <1>3, <2>2 DEF Running, Returned, Balanced, AskedFor
      <3>2. m \in todo' <=> m \in todo
        BY <1>1, <2>2
      <3> QED
        BY <1>0, <1>5, <3>1, <3>2 DEF Account, Visiting
    <2> QED
      BY <2>1, <2>2
  <1>8. ~failed
    BY <1>0 DEF CreditInv, Failures
  <1>9. LockHeld' /\ Accounts' /\ AtHand' /\ Failures'
    BY <1>0, <1>4, <1>7, <1>8, OneCaller DEF Inside
  <1>10. Counts'
    <2>1. missed[n] >= 0 /\ lost[n] >= 0 /\ missed[n] \in Int /\ lost[n] \in Int
      BY <1>2, Amounts DEF CreditInv, Counts
    <2>2. lost'[n] >= 0
      BY <1>3, <2>1
    <2> QED
      BY <1>0, <1>3, <2>2 DEF CreditInv, Counts
  <1>11. AboutToStore'
    <2>1. ASSUME loopPc = "store" PROVE credit'[Head(inbox).nominal] <= loaded
      <3>1. PICK m \in Nominals : m = Head(inbox).nominal
        BY <2>1 DEF TypeOK, LoopTypeOK
      <3>2. credit[m] <= loaded /\ loaded \in Nat
        BY <2>1, <3>1 DEF CreditInv, AboutToStore, TypeOK, LoopTypeOK
      <3> QED
        BY <1>3, <3>1, <3>2
    <2> QED
      BY <1>0, <2>1 DEF AboutToStore, InHand
  <1> QED
    BY <1>9, <1>10, <1>11 DEF CreditInv

LEMMA CreditNext == TypeOK /\ CreditInv /\ [Next]_vars => CreditInv'
  <1> SUFFICES ASSUME TypeOK, CreditInv, [Next]_vars PROVE CreditInv'
    OBVIOUS
  <1>1. ASSUME NEW c \in Callers, Abort(c) PROVE CreditInv'
    BY <1>1, CreditTakeLock, CreditCount, CreditVisit, CreditDispensed, CreditDispenseError,
       CreditAbortFails, CreditAllVisited, CreditClear, CreditReturns DEF Abort
  <1>2. ASSUME UNCHANGED vars PROVE CreditInv'
    <2>1. UNCHANGED <<Books, Locals, InHand, pc>>
      BY <1>2 DEF vars, Books, Locals, InHand, changerVars, loopVars, abortVars, saleVars,
         frameVars, historyVars
    <2> QED
      BY <2>1, CreditSame
  <1> QED
    BY <1>1, <1>2, CreditOutside, CreditRun, CreditLoop, CreditCallers, CreditSales
    DEF Next, Dead, SaleStep

LEMMA CreditInit == Init => CreditInv
  <1> SUFFICES ASSUME Init PROVE CreditInv
    OBVIOUS
  <1>1. /\ credit = NoCoins /\ booked = NoCoins /\ commanded = NoCoins /\ sum = NoCoins
        /\ missed = NoCoins /\ lost = NoCoins /\ extra = NoCoins
        /\ lk = Nobody /\ pc = [c \in Callers |-> "idle"] /\ ~failed /\ loopPc = "recv"
        /\ sale.st # "counting"
    BY DEF Init, ChangerInit
  <1>2. \A n \in Nominals : AtRest(n)
    <2> TAKE n \in Nominals
    <2>1. NoCoins[n] = 0
      BY DEF NoCoins
    <2> QED
      BY <1>1, <2>1 DEF AtRest, Balanced
  <1>3. \A c \in Callers : pc[c] = "idle"
    BY <1>1
  <1>4. \A c \in Callers, n \in Nominals : Account(c, n)
    BY <1>3 DEF Account, Visiting, Pending
  <1>5. Counts
    <2>1. \A n \in Nominals : NoCoins[n] = 0
      BY DEF NoCoins
    <2>2. ASSUME NEW n \in Nominals PROVE missed[n] >= 0 /\ lost[n] >= 0 /\ extra[n] >= 0
      <3>1. missed[n] = 0 /\ lost[n] = 0 /\ extra[n] = 0
        BY <1>1, <2>1
      <3>2. missed[n] \in Int /\ lost[n] \in Int /\ extra[n] \in Int
        BY <3>1
      <3> QED
        BY <3>1, <3>2
    <2> QED
      BY <2>2 DEF Counts
  <1> QED
    BY <1>1, <1>2, <1>3, <1>4, <1>5
    DEF CreditInv, LockHeld, Accounts, AtHand, AboutToStore, Failures, Inside

-----------------------------------------------------------------------------
(***************************************************************************)
(* The invariants hold in every behaviour.                                 *)
(***************************************************************************)
LEMMA CreditInvariant == Spec => [](TypeOK /\ CreditInv)
  <1>1. Init => TypeOK /\ CreditInv
    BY InitType, CreditInit
  <1>2. TypeOK /\ CreditInv /\ [Next]_vars => (TypeOK /\ CreditInv)'
    BY NextType, CreditNext
  <1> QED
    BY <1>1, <1>2, PTL DEF Spec

\* Whenever no Abort is under way, the credit of each nominal is the coins
\* pollResultLoop booked less those that DISPENSE commands asked for, up to the
\* coins counted as lost or extra: a late coin, a count beyond a byte, a write
\* torn by Clear, a lost answer, and what a failed Abort had paid, each with
\* exactly its own coins.
THEOREM CreditExact == Spec => []CreditIsExact
  <1>1. CreditInv => CreditIsExact
    <2> SUFFICES ASSUME CreditInv, lk \notin Callers, NEW n \in Nominals
                 PROVE  /\ credit[n] + commanded[n] + lost[n] = booked[n] + extra[n]
                        /\ lost[n] >= 0 /\ extra[n] >= 0
      BY DEF CreditIsExact
    <2>1. AtRest(n)
      BY DEF CreditInv, LockHeld, Accounts
    <2> QED
      BY <2>1 DEF CreditInv, AtRest, Balanced, Counts
  <1> QED
    BY <1>1, CreditInvariant, PTL

\* Only ClearNominal makes the credit of a nominal smaller: StoreCredit writes
\* more than there is, even over what Clear has erased since ReadCredit.
LEMMA OnlyClearTakes ==
  ASSUME TypeOK, CreditInv, [Next]_vars, NEW n \in Nominals, credit'[n] < credit[n]
  PROVE  \E c \in Callers : pc[c] = "clear" /\ n \in todo
  <1>0. credit[n] \in Nat /\ credit \in Coins
    BY Amounts DEF TypeOK, RestTypeOK
  <1>1. credit' # credit
    BY <1>0
  <1>2. CASE StoreCredit
    <2>1. PICK h \in Nominals : h = Head(inbox).nominal
      BY <1>2 DEF StoreCredit, TypeOK, LoopTypeOK
    <2>2. credit' = [credit EXCEPT ![h] = loaded + 1] /\ loaded \in Nat /\ credit[h] <= loaded
      BY <1>2, <2>1 DEF StoreCredit, CreditInv, AboutToStore, TypeOK, LoopTypeOK
    <2>3. n # h => credit'[n] = credit[n]
      BY <1>0, <2>2 DEF Coins
    <2>4. n = h => credit'[n] \in Nat /\ credit'[n] > credit[n]
      BY <1>0, <2>2 DEF Coins
    <2> QED
      BY <1>0, <2>3, <2>4
  <1>3. ASSUME NEW c \in Callers, ClearNominal(c)
        PROVE  pc[c] = "clear" /\ n \in todo
    <2>1. PICK m \in todo : credit' = [credit EXCEPT ![m] = 0]
      BY <1>3 DEF ClearNominal
    <2>2. n # m => credit'[n] = credit[n]
      BY <1>0, <2>1 DEF Coins
    <2> QED
      BY <1>0, <1>3, <2>1, <2>2 DEF ClearNominal
  <1>4. StoreCredit \/ \E c \in Callers : ClearNominal(c)
    <2>1. \/ Outside \/ Run \/ Loop \/ MainReceives \/ RequestRestart \/ StopBill
          \/ \E c \in Callers : Abort(c)
          \/ SaleStep
      BY <1>1 DEF Next, Dead, vars, SaleStep
    <2>2. ~Outside /\ ~MainReceives /\ ~RequestRestart /\ ~StopBill /\ ~SaleStep
      BY <1>1 DEF Outside, MainReceives, RequestRestart, StopBill, SaleStep, WithdrawPrepare,
         CountForSale, DecideSale, WithdrawCommit, MapRace
    <2>3. ~Run
      BY <1>1 DEF Run, Poll, PollError, ReadySet, SendResult, RunStops
    <2>4. Loop => StoreCredit
      BY <1>1 DEF Loop, TakeResult, ReadCredit, RequestReturn, EmitEvent, LogItem
    <2>5. \A c \in Callers : Abort(c) => ClearNominal(c)
      BY <1>1 DEF Abort, TakeLock, CountCredit, VisitNominal, Dispensed, DispenseError,
         AbortFails, AllVisited, AbortReturns
    <2> QED
      BY <2>1, <2>2, <2>3, <2>4, <2>5
  <1> QED
    BY <1>2, <1>3, <1>4

\* The credit of a nominal decreases only in the clear of an Abort without
\* error, under the lock, and only after a DISPENSE of that nominal was
\* answered in it or it missed a coin of that nominal.
THEOREM ErasedWasPaid == Spec => ErasedOnlyAfterPayout
  <1> DEFINE Took == \A n \in Nominals : credit'[n] < credit[n] =>
                       /\ lk # Nobody /\ pc[lk] = "clear" /\ ~failed
                       /\ sum[n] > 0 \/ missed[n] > 0
  <1>1. TypeOK /\ CreditInv /\ [Next]_vars => Took
    <2> SUFFICES ASSUME TypeOK, CreditInv, [Next]_vars, NEW n \in Nominals,
                        credit'[n] < credit[n]
                 PROVE  /\ lk # Nobody /\ pc[lk] = "clear" /\ ~failed
                        /\ sum[n] > 0 \/ missed[n] > 0
      OBVIOUS
    <2>1. PICK c \in Callers : pc[c] = "clear" /\ n \in todo
      BY OnlyClearTakes
    <2>2. lk = c /\ ~failed /\ Returned(n)
      BY <2>1 DEF CreditInv, LockHeld, Inside, Failures, Accounts, Account
    <2>3. credit[n] > 0
      <3>1. credit[n] \in Nat /\ credit' \in Coins
        BY NextType, Amounts DEF TypeOK, RestTypeOK
      <3>2. credit'[n] \in Nat
        BY <3>1 DEF Coins
      <3> QED
        BY <3>1, <3>2
    <2>4. AskedFor(0) = 0 /\ credit[n] = missed[n] + AskedFor(sum[n])
      BY <2>2, Cut DEF Returned
    <2>5. missed[n] >= 0 /\ missed[n] \in Int /\ sum[n] \in Nat
      BY Amounts DEF CreditInv, Counts
    <2>6. CASE sum[n] = 0
      BY <2>1, <2>2, <2>3, <2>4, <2>5, <2>6
    <2>7. CASE sum[n] > 0
      BY <2>1, <2>2, <2>7
    <2> QED
      BY <2>5, <2>6, <2>7
  <1>2. [][Next]_vars /\ [](TypeOK /\ CreditInv) => [][Took]_vars
    BY <1>1, PTL
  <1> QED
    BY <1>2, CreditInvariant, PTL DEF Spec, ErasedOnlyAfterPayout

\* Whatever statuses the driver reports, pollResultLoop does not reach the
\* panic of the common handler.
THEOREM NothingPanics == Spec => []NoPanic
  <1>1. Init => NoPanic
    BY DEF Init, NoPanic
  <1>2. TypeOK /\ NoPanic /\ [Next]_vars => NoPanic'
    <2> SUFFICES ASSUME TypeOK, fatal # "panic", [Next]_vars PROVE fatal' # "panic"
      BY DEF NoPanic
    <2>1. CASE LogItem
      <3>1. Head(inbox) \in Item
        <4>1. inbox \in Seq(Item) /\ inbox # <<>>
          BY <2>1 DEF LogItem, TypeOK, LoopTypeOK
        <4> QED
          BY <4>1
      <3>2. Head(inbox).status \in CoinStatuses \cup CommonStatuses
        BY <2>1, <3>1 DEF LogItem, Item, CoinStatuses, CommonStatuses, LoggedStatuses
      <3> QED
        BY <2>1, <3>2 DEF LogItem
    <2>2. CASE SaleStep
      BY <2>2 DEF SaleStep, WithdrawPrepare, CountForSale, DecideSale, WithdrawCommit, MapRace
    <2>3. CASE \/ Outside \/ Run \/ MainReceives \/ RequestRestart \/ StopBill
      BY <2>3 DEF Outside, Run, Poll, PollError, ReadySet, SendResult, RunStops, MainReceives,
         RequestRestart, StopBill
    <2>4. ASSUME NEW c \in Callers, Abort(c) PROVE fatal' = fatal
      BY <2>4 DEF Abort, TakeLock, CountCredit, VisitNominal, Dispensed, DispenseError,
         AbortFails, AllVisited, ClearNominal, AbortReturns
    <2>5. CASE TakeResult \/ ReadCredit \/ StoreCredit \/ RequestReturn \/ EmitEvent
      BY <2>5 DEF TakeResult, ReadCredit, StoreCredit, RequestReturn, EmitEvent
    <2>6. CASE UNCHANGED vars
      BY <2>6 DEF vars
    <2> QED
      BY <2>1, <2>2, <2>3, <2>4, <2>5, <2>6 DEF Next, Dead, Loop, SaleStep
  <1> QED
    BY <1>1, <1>2, CreditInvariant, PTL DEF Spec
=============================================================================
