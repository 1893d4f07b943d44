---------------------------- MODULE Currency_proofs ----------------------------
(*****************************************************************************)
(* Proofs about withdrawals for all groups of nominals, amounts and widths   *)
(* of a count.                                                               *)
(*****************************************************************************)
EXTENDS CurrencyProperties, FiniteSetTheorems, WellFoundedInduction, TLAPS

\* Every coin is worth something, so a loop that still owes something has not
\* made more steps than it has paid; this bounds the numbers drawn as well.
StepsArePaid ==
  /\ pc # "idle" => steps + amount <= asked
  /\ pc = "idle" => draws = <<>>
  /\ Len(draws) <= asked

CurrencyInv == CurrencyTypeOK /\ NothingLost /\ StepsArePaid

-----------------------------------------------------------------------------
\* A group without coins is a group.
LEMMA ZerosType == Zeros \in Counts(valid)
  BY CurrencyAssumption DEF Zeros, Counts

\* Whatever the strategy, the orders it may make are pairs of orders.
LEMMA ResetsType ==
  ASSUME NEW group \in Counts(valid), strategy' \in Strategies
  PROVE  Resets(group) \subseteq Orders \X Orders
  <1>1. ASSUME NEW key PROVE SortedBy(key) \subseteq Orders
    BY DEF SortedBy
  <1>2. /\ ByNominal \subseteq Orders
        /\ \A counts : ByCount(counts) \subseteq Orders
    BY <1>1 DEF ByNominal, ByCount
  <1>3. CASE strategy' = "LeastCount"
    BY <1>2, <1>3 DEF Resets
  <1>4. CASE strategy' = "MostAvailable"
    BY <1>2, <1>4 DEF Resets
  <1>5. CASE strategy' = "Statistical"
    BY <1>2, <1>5 DEF Resets
  <1>6. CASE strategy' = "Combine"
    BY <1>2, <1>6 DEF Resets
  <1> QED
    BY <1>3, <1>4, <1>5, <1>6 DEF Strategies

\* The choice between the two strategies of a combination.
LEMMA DrawsType ==
  ASSUME draws \in Seq({1, 2}), steps \in Nat
  PROVE  Draws \subseteq {1, 2}
  BY DEF Draws

\* The last number drawn is within the bound.
LEMMA AppendDraw ==
  ASSUME draws \in Seq({1, 2}), NEW d \in {1, 2}, NEW s
  PROVE  /\ Append(draws, d) \in Seq({1, 2})
         /\ Len(Append(draws, d)) = Len(draws) + 1
  OBVIOUS

-----------------------------------------------------------------------------
\* A new group holds the invariant.
LEMMA InitHolds == Init => CurrencyInv
  <1> SUFFICES ASSUME Init PROVE CurrencyInv
    OBVIOUS
  <1>1. /\ valid \in Groups
        /\ values \in Counts(valid) /\ stat \in Counts(valid)
        /\ from \in Counts(valid) /\ before \in Counts(valid) /\ taken \in Counts(valid)
    BY ZerosType DEF Init
  <1>2. /\ pc \in {"idle", "check", "commit"} /\ strategy \in Strategies
        /\ commit \in BOOLEAN /\ result \in {"none", "ok", "ErrNominalCount"}
    BY DEF Init, Strategies
  <1>3. /\ order \in {<<>>} \cup (Orders \X Orders)
        /\ draws \in Seq({1, 2}) /\ Len(draws) = 0 /\ draws = <<>>
    BY DEF Init
  <1>4. /\ amount \in 0..MaxAmount /\ asked \in 0..MaxAmount /\ paid \in 0..MaxAmount
        /\ steps \in 0..MaxAmount /\ asked = 0
    BY CurrencyAssumption DEF Init
  <1>5. CurrencyTypeOK
    BY <1>1, <1>2, <1>3, <1>4, CurrencyAssumption DEF CurrencyTypeOK
  <1>6. NothingLost /\ StepsArePaid
    BY <1>3, <1>4 DEF Init, NothingLost, StepsArePaid
  <1> QED
    BY <1>5, <1>6 DEF CurrencyInv

\* A change of the group between two withdrawals.
LEMMA ChangeHolds == CurrencyInv /\ Change => CurrencyInv'
  <1> SUFFICES ASSUME CurrencyInv, Change PROVE CurrencyInv'
    OBVIOUS
  <1>1. Idle
    BY DEF Change, Add, Clear, Sub
  <1>t. /\ values \in Counts(valid)
        /\ valid' = valid
    BY <1>1 DEF CurrencyInv, CurrencyTypeOK, Idle
  <1>2. values' \in Counts(valid)
    <2>1. CASE \E n \in UNION Groups, count \in 0..(CountRange - 1) : Add(n, count)
      <3>1. PICK n \in UNION Groups, count \in 0..(CountRange - 1) : Add(n, count)
        BY <2>1
      <3>2. CASE n \in valid
        <4>1. values[n] \in Nat /\ (values[n] + count) % CountRange \in 0..(CountRange - 1)
          BY <1>t, <3>2, CurrencyAssumption DEF Counts
        <4> QED
          BY <1>t, <3>1, <3>2, <4>1 DEF Add, Counts
      <3>3. CASE n \notin valid
        BY <1>t, <3>1, <3>3 DEF Add
      <3> QED
        BY <3>2, <3>3
    <2>2. CASE Clear
      BY <2>2, ZerosType DEF Clear
    <2>3. CASE \E other \in Counts(valid) : Sub(other)
      <3>1. PICK other \in Counts(valid) : Sub(other)
        BY <2>3
      <3>2. \A n \in valid :
              (values[n] + CountRange - other[n]) % CountRange \in 0..(CountRange - 1)
        BY <1>t, CurrencyAssumption DEF Counts
      <3> QED
        BY <3>1, <3>2 DEF Sub, Counts
    <2> QED
      BY <2>1, <2>2, <2>3 DEF Change
  <1>3. /\ pc = "idle" /\ UNCHANGED <<valid, loopVars>>
        /\ stat' = Zeros /\ before' = Zeros
        /\ strategy' = "LeastCount" /\ commit' = FALSE /\ asked' = 0 /\ result' = "none"
    BY <1>1 DEF Idle
  <1>4. /\ valid' \in Groups
        /\ values' \in Counts(valid') /\ stat' \in Counts(valid')
        /\ from' \in Counts(valid') /\ before' \in Counts(valid')
        /\ taken' \in Counts(valid')
    BY <1>2, <1>3, ZerosType DEF CurrencyInv, CurrencyTypeOK, loopVars
  <1>5. /\ pc' \in {"idle", "check", "commit"} /\ strategy' \in Strategies
        /\ commit' \in BOOLEAN /\ result' \in {"none", "ok", "ErrNominalCount"}
        /\ pc' = "idle"
    BY <1>3 DEF loopVars, Strategies
  <1>6. /\ Orders' = Orders
        /\ order' \in {<<>>} \cup (Orders' \X Orders')
    BY <1>3 DEF CurrencyInv, CurrencyTypeOK, loopVars, Orders
  <1>7. /\ draws' \in Seq({1, 2}) /\ draws' = <<>> /\ Len(draws') = 0
    BY <1>3 DEF CurrencyInv, StepsArePaid, loopVars
  <1>8. /\ amount' \in 0..MaxAmount /\ asked' \in 0..MaxAmount /\ paid' \in 0..MaxAmount
        /\ steps' \in 0..MaxAmount
    BY <1>3, CurrencyAssumption DEF CurrencyInv, CurrencyTypeOK, loopVars
  <1>9. CurrencyTypeOK'
    BY <1>4, <1>5, <1>6, <1>7, <1>8, CurrencyAssumption DEF CurrencyTypeOK
  <1>10. NothingLost' /\ StepsArePaid'
    BY <1>3, <1>5, <1>7 DEF NothingLost, StepsArePaid
  <1> QED
    BY <1>9, <1>10 DEF CurrencyInv

\* A loop begins with a typed order and nothing taken.
LEMMA LoopBegins ==
  ASSUME NEW which, NEW group \in Counts(valid), Loop(which, group),
         valid' = valid, strategy' \in Strategies
  PROVE  /\ pc' = which /\ from' = group /\ amount' = asked'
         /\ order' \in {<<>>} \cup (Orders' \X Orders')
         /\ taken' = [n \in valid' |-> 0] /\ taken' \in Counts(valid')
         /\ paid' = 0 /\ steps' = 0 /\ result' = result
  <1>1. /\ order' \in Resets(group) /\ pc' = which /\ from' = group /\ amount' = asked'
        /\ taken' = Zeros /\ paid' = 0 /\ steps' = 0 /\ result' = result
    BY DEF Loop
  <1>2. order' \in Orders \X Orders /\ Orders' = Orders
    BY <1>1, ResetsType DEF Orders
  <1>3. taken' = [n \in valid' |-> 0] /\ taken' \in Counts(valid')
    BY <1>1, ZerosType DEF Zeros
  <1> QED
    BY <1>1, <1>2, <1>3

\* A withdrawal begins with the check, on a copy of the group.
LEMMA WithdrawHolds ==
  ASSUME CurrencyInv,
         NEW a \in 0..MaxAmount, NEW s \in Strategies, NEW c \in BOOLEAN,
         Withdraw(a, s, c)
  PROVE  CurrencyInv'
  <1>1. /\ valid \in Groups /\ values \in Counts(valid)
        /\ draws = <<>> /\ result \in {"none", "ok", "ErrNominalCount"}
    BY DEF Withdraw, CurrencyInv, CurrencyTypeOK, StepsArePaid
  <1>2. /\ strategy' = s /\ commit' = c /\ asked' = a /\ before' = values
        /\ valid' = valid /\ values' = values /\ draws' = draws
        /\ Loop("check", values)
    BY DEF Withdraw, groupVars
  <1>3. stat' \in Counts(valid)
    BY ZerosType DEF Withdraw
  <1>4. /\ pc' = "check" /\ from' = values /\ amount' = asked'
        /\ order' \in {<<>>} \cup (Orders' \X Orders')
        /\ taken' = [n \in valid' |-> 0] /\ taken' \in Counts(valid')
        /\ paid' = 0 /\ steps' = 0 /\ result' = result
    BY <1>1, <1>2, LoopBegins
  <1>5. /\ values' \in Counts(valid') /\ from' \in Counts(valid')
        /\ before' \in Counts(valid') /\ stat' \in Counts(valid') /\ valid' \in Groups
    BY <1>1, <1>2, <1>3, <1>4
  <1>6. draws' \in Seq({1, 2}) /\ Len(draws') = 0
    BY <1>1, <1>2
  <1>7. /\ amount' \in 0..MaxAmount /\ asked' \in 0..MaxAmount /\ paid' \in 0..MaxAmount
        /\ steps' \in 0..MaxAmount /\ 0 <= asked'
    BY <1>2, <1>4, CurrencyAssumption
  <1>8. CurrencyTypeOK'
    BY <1>1, <1>2, <1>4, <1>5, <1>6, <1>7, CurrencyAssumption DEF CurrencyTypeOK
  <1>9. \A n \in valid' : from'[n] + taken'[n] = before'[n]
    BY <1>1, <1>2, <1>4, CurrencyAssumption DEF Counts
  <1>10. NothingLost'
    BY <1>2, <1>4, <1>7, <1>9 DEF NothingLost
  <1>11. steps' + amount' <= asked' /\ Len(draws') <= asked'
    <2>1. a \in Nat /\ amount' = a /\ asked' = a
      BY <1>2, <1>4, CurrencyAssumption
    <2>2. steps' + amount' <= asked'
      BY <1>4, <2>1
    <2>3. Len(draws') <= asked'
      BY <1>6, <2>1
    <2> QED
      BY <2>2, <2>3
  <1>12. StepsArePaid'
    BY <1>4, <1>11 DEF StepsArePaid
  <1> QED
    BY <1>8, <1>10, <1>12 DEF CurrencyInv

\* One coin moves from the counts to those taken, and its worth from what is
\* owed to what is paid.
LEMMA ExpendOneHolds == CurrencyInv /\ ExpendOne => CurrencyInv'
  <1> SUFFICES ASSUME CurrencyInv, ExpendOne PROVE CurrencyInv'
    OBVIOUS
  <1>1. PICK d \in Draws, n \in valid :
          /\ Chosen(order[d], n)
          /\ draws' = IF steps < Len(draws) THEN draws ELSE Append(draws, d)
          /\ from' = [from EXCEPT ![n] = @ - 1]
          /\ amount' = amount - n
          /\ taken' = [taken EXCEPT ![n] = @ + 1]
          /\ paid' = paid + n
    BY DEF ExpendOne
  <1>2. /\ pc # "idle" /\ steps' = steps + 1
        /\ values' = IF pc = "commit" THEN from' ELSE values
        /\ UNCHANGED <<valid, strategy, stat, commit, asked, before, pc, order, result>>
    BY DEF ExpendOne, callVars
  <1>3. /\ valid \in Groups /\ values \in Counts(valid) /\ stat \in Counts(valid)
        /\ from \in Counts(valid) /\ before \in Counts(valid) /\ taken \in Counts(valid)
        /\ pc \in {"check", "commit"}
        /\ amount \in Nat /\ asked \in 0..MaxAmount /\ paid \in Nat /\ steps \in Nat
        /\ draws \in Seq({1, 2}) /\ MaxAmount \in Nat
    BY <1>2, CurrencyAssumption DEF CurrencyInv, CurrencyTypeOK
  <1>4. /\ \A m \in valid : from[m] + taken[m] = before[m]
        /\ values = IF pc = "check" THEN before ELSE from
        /\ paid + amount = asked
        /\ steps + amount <= asked /\ Len(draws) <= asked
    BY <1>2 DEF CurrencyInv, NothingLost, StepsArePaid
  <1>5. n \in Nat /\ n > 0 /\ n <= amount /\ from[n] > 0
    BY <1>1, <1>3, CurrencyAssumption DEF Chosen, Fits
  <1>6. /\ \A m \in valid : from[m] \in 0..(CountRange - 1) /\ taken[m] \in 0..(CountRange - 1)
                           /\ before[m] \in 0..(CountRange - 1)
        /\ CountRange \in Nat
    BY <1>3, CurrencyAssumption DEF Counts
  <1>7. /\ from[n] - 1 \in 0..(CountRange - 1) /\ taken[n] + 1 \in 0..(CountRange - 1)
        /\ (from[n] - 1) + (taken[n] + 1) = before[n]
    BY <1>1, <1>4, <1>5, <1>6, SMTT(30)
  <1>8. from' \in Counts(valid) /\ taken' \in Counts(valid)
    BY <1>1, <1>3, <1>7 DEF Counts
  <1>9. \A m \in valid : from'[m] + taken'[m] = before[m]
    BY <1>1, <1>3, <1>4, <1>7 DEF Counts
  <1>10. /\ amount' \in 0..MaxAmount /\ paid' \in 0..MaxAmount /\ steps' \in 0..MaxAmount
         /\ paid' + amount' = asked /\ steps' + amount' <= asked
    BY <1>1, <1>2, <1>3, <1>4, <1>5
  <1>11. /\ draws' \in Seq({1, 2}) /\ Len(draws') <= asked
    <2>1. d \in {1, 2}
      BY <1>1, <1>3, DrawsType
    <2>2. CASE steps < Len(draws)
      BY <1>1, <1>3, <1>4, <2>2
    <2>3. CASE ~(steps < Len(draws))
      <3>1. draws' = Append(draws, d) /\ Len(draws) \in Nat
        BY <1>1, <1>3, <2>3
      <3>2. draws' \in Seq({1, 2}) /\ Len(draws') = Len(draws) + 1
        BY <1>3, <2>1, <3>1, AppendDraw
      <3> QED
        BY <1>3, <1>4, <1>5, <2>3, <3>1, <3>2
    <2> QED
      BY <2>2, <2>3
  <1>12. /\ order' \in {<<>>} \cup (Orders' \X Orders')
         /\ strategy' \in Strategies /\ commit' \in BOOLEAN
         /\ pc' \in {"idle", "check", "commit"} /\ pc' # "idle"
         /\ result' \in {"none", "ok", "ErrNominalCount"}
    BY <1>2, <1>3 DEF CurrencyInv, CurrencyTypeOK, Orders
  <1>13. values' \in Counts(valid)
    BY <1>2, <1>3, <1>8
  <1>14. Len(draws') <= MaxAmount
    BY <1>3, <1>11
  <1>15. CurrencyTypeOK'
    BY <1>2, <1>3, <1>8, <1>10, <1>11, <1>12, <1>13, <1>14 DEF CurrencyTypeOK
  <1>16. NothingLost'
    BY <1>2, <1>3, <1>4, <1>9, <1>10 DEF NothingLost
  <1>17. StepsArePaid'
    BY <1>2, <1>10, <1>11, <1>12 DEF StepsArePaid
  <1> QED
    BY <1>15, <1>16, <1>17 DEF CurrencyInv

\* The end of a withdrawal leaves the group as it is.
LEMMA EndHolds ==
  ASSUME CurrencyInv, NEW r \in {"ok", "ErrNominalCount"}, End(r)
  PROVE  CurrencyInv'
  <1>1. /\ pc' = "idle" /\ result' = r /\ order' = <<>> /\ draws' = <<>>
        /\ from' = Zeros /\ taken' = Zeros
        /\ amount' = 0 /\ paid' = 0 /\ steps' = 0
        /\ UNCHANGED <<valid, values, strategy, stat, commit, asked, before>>
    BY DEF End, groupVars, callVars
  <1>2. /\ valid' \in Groups /\ values' \in Counts(valid') /\ stat' \in Counts(valid')
        /\ from' \in Counts(valid') /\ before' \in Counts(valid') /\ taken' \in Counts(valid')
    BY <1>1, ZerosType DEF CurrencyInv, CurrencyTypeOK
  <1>3. /\ pc' \in {"idle", "check", "commit"} /\ strategy' \in Strategies
        /\ commit' \in BOOLEAN /\ result' \in {"none", "ok", "ErrNominalCount"}
    BY <1>1 DEF CurrencyInv, CurrencyTypeOK
  <1>4. /\ order' \in {<<>>} \cup (Orders' \X Orders')
        /\ draws' \in Seq({1, 2}) /\ Len(draws') = 0
    BY <1>1
  <1>5. /\ amount' \in 0..MaxAmount /\ asked' \in 0..MaxAmount /\ paid' \in 0..MaxAmount
        /\ steps' \in 0..MaxAmount
    BY <1>1, CurrencyAssumption DEF CurrencyInv, CurrencyTypeOK
  <1>6. CurrencyTypeOK'
    BY <1>2, <1>3, <1>4, <1>5, CurrencyAssumption DEF CurrencyTypeOK
  <1>7. NothingLost' /\ StepsArePaid'
    BY <1>1, <1>4, <1>5, CurrencyAssumption DEF NothingLost, StepsArePaid
  <1> QED
    BY <1>6, <1>7 DEF CurrencyInv

\* After the check either the commit begins, on the group itself, or all ends.
LEMMA LoopEndsHolds == CurrencyInv /\ LoopEnds => CurrencyInv'
  <1> SUFFICES ASSUME CurrencyInv, LoopEnds PROVE CurrencyInv'
    OBVIOUS
  <1>1. CASE End("ok")
    BY <1>1, EndHolds
  <1>2. CASE /\ pc = "check" /\ UNCHANGED <<groupVars, callVars, draws>>
             /\ Loop("commit", values)
    <2>1. /\ UNCHANGED <<valid, values, strategy, stat, commit, asked, before, draws>>
          /\ values = before
      BY <1>2 DEF groupVars, callVars, CurrencyInv, NothingLost
    <2>2. /\ valid \in Groups /\ values \in Counts(valid) /\ stat \in Counts(valid)
          /\ strategy \in Strategies /\ commit \in BOOLEAN
          /\ asked \in 0..MaxAmount /\ MaxAmount \in Nat
          /\ draws \in Seq({1, 2}) /\ Len(draws) <= MaxAmount /\ Len(draws) <= asked
          /\ result \in {"none", "ok", "ErrNominalCount"}
      BY CurrencyAssumption DEF CurrencyInv, CurrencyTypeOK, StepsArePaid
    <2>3. /\ pc' = "commit" /\ from' = values /\ amount' = asked'
          /\ order' \in {<<>>} \cup (Orders' \X Orders')
          /\ taken' = [n \in valid' |-> 0] /\ taken' \in Counts(valid')
          /\ paid' = 0 /\ steps' = 0 /\ result' = result
      BY <1>2, <2>1, <2>2, LoopBegins
    <2>4. /\ values' \in Counts(valid') /\ from' \in Counts(valid')
          /\ before' \in Counts(valid') /\ stat' \in Counts(valid')
      BY <2>1, <2>2, <2>3
    <2>5. CurrencyTypeOK'
      BY <2>1, <2>2, <2>3, <2>4 DEF CurrencyTypeOK
    <2>6. \A n \in valid' : from'[n] + taken'[n] = before'[n]
      BY <2>1, <2>2, <2>3, CurrencyAssumption DEF Counts
    <2>7. NothingLost' /\ StepsArePaid'
      BY <2>1, <2>2, <2>3, <2>6 DEF NothingLost, StepsArePaid
    <2> QED
      BY <2>5, <2>7 DEF CurrencyInv
  <1> QED
    BY <1>1, <1>2 DEF LoopEnds

\* Steps that change nothing.
LEMMA StutterHolds == CurrencyInv /\ UNCHANGED vars => CurrencyInv'
  BY DEF CurrencyInv, CurrencyTypeOK, NothingLost, StepsArePaid, Orders, Counts, vars,
         groupVars, callVars, loopVars

\* Every step of the group keeps the invariant.
LEMMA NextHolds == CurrencyInv /\ [Next]_vars => CurrencyInv'
  <1> SUFFICES ASSUME CurrencyInv, [Next]_vars PROVE CurrencyInv'
    OBVIOUS
  <1>1. CASE Change
    BY <1>1, ChangeHolds
  <1>2. CASE \E a \in 0..MaxAmount : Contains(a)
    BY <1>2, WithdrawHolds DEF Contains, Strategies
  <1>3. CASE \E a \in 0..MaxAmount, s \in Strategies, c \in BOOLEAN : Withdraw(a, s, c)
    BY <1>3, WithdrawHolds
  <1>4. CASE ExpendOne
    BY <1>4, ExpendOneHolds
  <1>5. CASE ExpendFails
    BY <1>5, EndHolds DEF ExpendFails
  <1>6. CASE LoopEnds
    BY <1>6, LoopEndsHolds
  <1>7. CASE UNCHANGED vars
    BY <1>7, StutterHolds
  <1> QED
    BY <1>1, <1>2, <1>3, <1>4, <1>5, <1>6, <1>7 DEF Next

-----------------------------------------------------------------------------
\* Withdraw, its strategies and the operations of NominalGroup keep their types:
\* no count leaves its width, and a loop makes no more steps than it owes.
THEOREM CurrencyTypeCorrect == Spec => []CurrencyTypeOK
  <1>1. CurrencyInv => CurrencyTypeOK
    BY DEF CurrencyInv
  <1> QED
    BY <1>1, InitHolds, NextHolds, PTL DEF Spec

\* Whatever the group, the amount and the strategy, expendLoop neither makes nor
\* loses a coin, the check changes nothing and the commit takes what it pays.
THEOREM CoinsConserved == Spec => []NothingLost
  <1>1. CurrencyInv => NothingLost
    BY DEF CurrencyInv
  <1> QED
    BY <1>1, InitHolds, NextHolds, PTL DEF Spec

-----------------------------------------------------------------------------
(***************************************************************************)
(* Induction, over sets: the library's theorems take an operator.          *)
(***************************************************************************)
\* A set of numbers has a least one.
LEMMA LeastOf ==
  ASSUME NEW T \in SUBSET Nat, T # {}
  PROVE  \E x \in T : \A y \in T : x <= y
  <1>1. PICK x \in T : \A y \in T : ~(<<y, x>> \in OpToRel(<, Nat))
    BY WFMin, NatLessThanWellFounded, Zenon
  <1>2. ASSUME NEW y \in T PROVE ~(y < x)
    BY <1>1, Zenon DEF OpToRel
  <1>3. \A y \in T : x <= y
    BY <1>2
  <1> QED
    BY <1>3

\* A set with zero and the successor of each of its members is all numbers.
LEMMA Counting ==
  ASSUME NEW T \in SUBSET Nat, 0 \in T, \A k \in T : k + 1 \in T
  PROVE  T = Nat
  <1> SUFFICES ASSUME Nat \ T # {} PROVE FALSE
    OBVIOUS
  <1>1. PICK x \in Nat \ T : \A y \in Nat \ T : x <= y
    BY LeastOf
  <1>2. x - 1 \in Nat /\ x - 1 < x /\ (x - 1) + 1 = x
    BY <1>1
  <1>3. x - 1 \in T
    BY <1>1, <1>2
  <1> QED
    BY <1>1, <1>2, <1>3

\* The member a sum takes first.
Top(s) == CHOOSE n \in s : TRUE

\* The top of a set is one of it.
LEMMA TopIn == ASSUME NEW s, s # {} PROVE Top(s) \in s
  BY DEF Top

\* What holds of the empty set and passes from a set without its top to the set
\* holds of every subset.
LEMMA SubsetInduction ==
  ASSUME NEW v, IsFiniteSet(v), NEW T, {} \in T,
         \A s \in SUBSET v : s # {} /\ s \ {Top(s)} \in T => s \in T
  PROVE  \A s \in SUBSET v : s \in T
  <1> DEFINE K == {k \in Nat : \A s \in SUBSET v : Cardinality(s) = k => s \in T}
  <1>1. \A s \in SUBSET v : IsFiniteSet(s) /\ Cardinality(s) \in Nat
    BY FS_Subset, FS_CardinalityType
  <1>2. 0 \in K
    BY <1>1, FS_EmptySet
  <1>3. ASSUME NEW k \in K PROVE k + 1 \in K
    <2>1. SUFFICES ASSUME NEW s \in SUBSET v, Cardinality(s) = k + 1 PROVE s \in T
      OBVIOUS
    <2>2. s # {}
      BY <1>1, <2>1, FS_EmptySet
    <2>3. Top(s) \in s
      BY <2>2, TopIn
    <2>4. Cardinality(s \ {Top(s)}) = k
      <3>1. Cardinality(s \ {Top(s)}) = Cardinality(s) - 1
        BY <1>1, <2>3, FS_RemoveElement
      <3> QED
        BY <2>1, <3>1
    <2>5. s \ {Top(s)} \in SUBSET v
      OBVIOUS
    <2> QED
      BY <2>2, <2>4, <2>5
  <1>4. K = Nat
    BY <1>2, <1>3, Counting
  <1> QED
    BY <1>1, <1>4

-----------------------------------------------------------------------------
(***************************************************************************)
(* What coins are worth.                                                   *)
(***************************************************************************)
Value(v, c) == MapThenSumSet(LAMBDA n : n * c[n], v)

Summand(c, g, s) == IF s = {} THEN 0 ELSE Top(s) * c[Top(s)] + g[s \ {Top(s)}]
IsSum(g, v, c) == g = [s \in SUBSET v |-> Summand(c, g, s)]

\* The sum over all subsets exists.
LEMMA SumExists ==
  ASSUME NEW v \in SUBSET Nat, IsFiniteSet(v), NEW c \in [v -> Nat]
  PROVE  \E g : IsSum(g, v, c)
  <1> DEFINE Upto(g, k) == \A s \in SUBSET v : Cardinality(s) <= k => g[s] = Summand(c, g, s)
             K == {k \in Nat : \E g \in [SUBSET v -> Nat] : Upto(g, k)}
  <1>1. \A s \in SUBSET v : IsFiniteSet(s) /\ Cardinality(s) \in Nat
    BY FS_Subset, FS_CardinalityType
  <1>2. 0 \in K
    <2> DEFINE g == [s \in SUBSET v |-> 0]
    <2>1. g \in [SUBSET v -> Nat]
      OBVIOUS
    <2>2. Upto(g, 0)
      <3>1. SUFFICES ASSUME NEW s \in SUBSET v, Cardinality(s) <= 0 PROVE g[s] = Summand(c, g, s)
        OBVIOUS
      <3>2. s = {}
        BY <1>1, <3>1, FS_EmptySet
      <3> QED
        BY <3>2 DEF Summand
    <2> QED
      BY <2>1, <2>2
  <1>3. ASSUME NEW k \in K PROVE k + 1 \in K
    <2>1. PICK g \in [SUBSET v -> Nat] : Upto(g, k)
      OBVIOUS
    <2> DEFINE h == [s \in SUBSET v |-> Summand(c, g, s)]
    <2>2. ASSUME NEW s \in SUBSET v, s # {}
          PROVE  /\ Top(s) \in s /\ s \ {Top(s)} \in SUBSET v
                 /\ Cardinality(s \ {Top(s)}) = Cardinality(s) - 1
      BY <1>1, <2>2, TopIn, FS_RemoveElement
    <2>3. h \in [SUBSET v -> Nat]
      <3>1. ASSUME NEW s \in SUBSET v PROVE Summand(c, g, s) \in Nat
        <4>1. CASE s = {}
          BY <4>1 DEF Summand
        <4>2. CASE s # {}
          <5>1. Top(s) \in Nat /\ c[Top(s)] \in Nat /\ g[s \ {Top(s)}] \in Nat
            BY <2>2, <4>2
          <5> QED
            BY <4>2, <5>1 DEF Summand
        <4> QED
          BY <4>1, <4>2
      <3> QED
        BY <3>1
    <2>4. ASSUME NEW s \in SUBSET v, Cardinality(s) <= k PROVE h[s] = g[s]
      BY <2>1, <2>4
    <2>5. Upto(h, k + 1)
      <3>1. SUFFICES ASSUME NEW s \in SUBSET v, Cardinality(s) <= k + 1
                     PROVE  h[s] = Summand(c, h, s)
        OBVIOUS
      <3>2. CASE s = {}
        BY <3>2 DEF Summand
      <3>3. CASE s # {}
        <4>1. Cardinality(s \ {Top(s)}) <= k /\ s \ {Top(s)} \in SUBSET v
          <5>1. PICK m \in Nat : m = Cardinality(s)
            BY <1>1
          <5>2. m - 1 <= k
            BY <3>1, <5>1
          <5> QED
            BY <2>2, <3>3, <5>1, <5>2
        <4>2. h[s \ {Top(s)}] = g[s \ {Top(s)}]
          BY <2>4, <4>1
        <4>3. h[s] = Summand(c, g, s)
          OBVIOUS
        <4> QED
          BY <3>3, <4>2, <4>3 DEF Summand
      <3> QED
        BY <3>2, <3>3
    <2> HIDE DEF h
    <2>6. \E f \in [SUBSET v -> Nat] : Upto(f, k + 1)
      BY <2>3, <2>5
    <2>7. k + 1 \in Nat
      OBVIOUS
    <2> HIDE DEF Upto
    <2> QED
      BY <2>6, <2>7, Zenon
  <1>4. Cardinality(v) \in K
    <2>1. K \in SUBSET Nat
      OBVIOUS
    <2> HIDE DEF K
    <2>2. K = Nat
      BY <1>2, <1>3, <2>1, Counting
    <2> QED
      BY <1>1, <2>2
  <1>5. PICK g \in [SUBSET v -> Nat] : Upto(g, Cardinality(v))
    BY <1>4
  <1>6. ASSUME NEW s \in SUBSET v PROVE g[s] = Summand(c, g, s)
    BY <1>1, <1>5, FS_Subset
  <1>7. g = [s \in SUBSET v |-> Summand(c, g, s)]
    BY <1>6
  <1> QED
    BY <1>7 DEF IsSum

\* MapThenSumSet is such a sum.
LEMMA ValueIsSum ==
  ASSUME NEW v, NEW c, \E g : IsSum(g, v, c)
  PROVE  \E g : IsSum(g, v, c) /\ Value(v, c) = g[v]
  <1> DEFINE h == CHOOSE g : IsSum(g, v, c)
  <1>1. IsSum(h, v, c)
    OBVIOUS
  <1>2. Value(v, c) = h[v]
    BY DEF Value, MapThenSumSet, MapThenFoldSet, IsSum, Summand, Top
  <1> QED
    BY <1>1, <1>2

\* In the form the lemmas below use.
LEMMA ValueSums ==
  ASSUME NEW v \in SUBSET Nat, IsFiniteSet(v), NEW c \in [v -> Nat]
  PROVE  \E g : /\ Value(v, c) = g[v] /\ g[{}] = 0
                /\ \A s \in SUBSET v : g[s] \in Nat
                /\ \A s \in SUBSET v : s # {} =>
                     g[s] = Top(s) * c[Top(s)] + g[s \ {Top(s)}]
  <1>1. PICK g : IsSum(g, v, c) /\ Value(v, c) = g[v]
    BY SumExists, ValueIsSum
  <1>2. \A s \in SUBSET v : g[s] = Summand(c, g, s)
    BY <1>1 DEF IsSum
  <1>3. g[{}] = 0
    BY <1>2 DEF Summand
  <1>4. ASSUME NEW s \in SUBSET v, s # {}
        PROVE  g[s] = Top(s) * c[Top(s)] + g[s \ {Top(s)}]
    BY <1>2, <1>4 DEF Summand
  <1> DEFINE T == {s \in SUBSET v : g[s] \in Nat}
  <1>5. {} \in T
    BY <1>3
  <1>6. ASSUME NEW s \in SUBSET v, s # {}, s \ {Top(s)} \in T PROVE s \in T
    <2>1. Top(s) \in Nat /\ c[Top(s)] \in Nat /\ g[s \ {Top(s)}] \in Nat
      BY <1>6, TopIn
    <2>2. \A a, b, d \in Nat : a * b + d \in Nat
      OBVIOUS
    <2>3. g[s] \in Nat
      BY <1>4, <1>6, <2>1, <2>2
    <2> QED
      BY <2>3
  <1>7. \A s \in SUBSET v : s \in T
    <2> HIDE DEF T
    <2> QED
      BY <1>5, <1>6, SubsetInduction
  <1> QED
    BY <1>1, <1>3, <1>4, <1>7

\* Nothing is worth nothing.
LEMMA ValueOfNothing ==
  ASSUME NEW v \in SUBSET Nat, IsFiniteSet(v), NEW c \in [v -> Nat], \A n \in v : c[n] = 0
  PROVE  Value(v, c) = 0
  <1>1. PICK g : /\ Value(v, c) = g[v] /\ g[{}] = 0
                 /\ \A s \in SUBSET v : g[s] \in Nat
                 /\ \A s \in SUBSET v : s # {} => g[s] = Top(s) * c[Top(s)] + g[s \ {Top(s)}]
    BY ValueSums
  <1> DEFINE T == {s \in SUBSET v : g[s] = 0}
  <1>2. {} \in T
    BY <1>1
  <1>3. ASSUME NEW s \in SUBSET v, s # {}, s \ {Top(s)} \in T PROVE s \in T
    <2>1. Top(s) \in Nat /\ c[Top(s)] = 0 /\ g[s \ {Top(s)}] = 0
      BY <1>3, TopIn
    <2>2. \A a \in Nat : a * 0 + 0 = 0
      OBVIOUS
    <2>3. g[s] = 0
      BY <1>1, <1>3, <2>1, <2>2
    <2> QED
      BY <2>3
  <1>4. \A s \in SUBSET v : s \in T
    <2> HIDE DEF T
    <2> QED
      BY <1>2, <1>3, SubsetInduction
  <1> QED
    BY <1>1, <1>4

\* Coins are worth a number.
LEMMA ValueType ==
  ASSUME NEW v \in SUBSET Nat, IsFiniteSet(v), NEW c \in [v -> Nat]
  PROVE  Value(v, c) \in Nat
  <1>1. PICK g : /\ Value(v, c) = g[v] /\ g[{}] = 0
                 /\ \A s \in SUBSET v : g[s] \in Nat
                 /\ \A s \in SUBSET v : s # {} => g[s] = Top(s) * c[Top(s)] + g[s \ {Top(s)}]
    BY ValueSums
  <1> QED
    BY <1>1

\* One coin more is worth a coin more.
LEMMA ValueOfOneMore ==
  ASSUME NEW v \in SUBSET Nat, IsFiniteSet(v), NEW n \in v,
         NEW c \in [v -> Nat], NEW d \in [v -> Nat],
         d[n] = c[n] + 1, \A m \in v : m # n => d[m] = c[m]
  PROVE  Value(v, d) = Value(v, c) + n
  <1>1. d[n] = c[n] + 1 /\ \A m \in v : m # n => d[m] = c[m]
    OBVIOUS
  <1>2. PICK g : /\ Value(v, c) = g[v] /\ g[{}] = 0
                 /\ \A s \in SUBSET v : g[s] \in Nat
                 /\ \A s \in SUBSET v : s # {} => g[s] = Top(s) * c[Top(s)] + g[s \ {Top(s)}]
    BY ValueSums
  <1>3. PICK h : /\ Value(v, d) = h[v] /\ h[{}] = 0
                 /\ \A s \in SUBSET v : h[s] \in Nat
                 /\ \A s \in SUBSET v : s # {} => h[s] = Top(s) * d[Top(s)] + h[s \ {Top(s)}]
    BY <1>1, ValueSums
  <1> DEFINE T == {s \in SUBSET v : h[s] = g[s] + (IF n \in s THEN n ELSE 0)}
  <1>4. {} \in T
    BY <1>2, <1>3
  <1>5. ASSUME NEW s \in SUBSET v, s # {}, s \ {Top(s)} \in T PROVE s \in T
    <2>1. PICK t \in v : t = Top(s) /\ t \in s
      BY <1>5, TopIn
    <2>2. PICK a \in Nat : a = g[s \ {t}]
      BY <1>2
    <2>3. /\ g[s] = t * c[t] + a
          /\ h[s] = t * d[t] + h[s \ {t}]
          /\ h[s \ {t}] = a + (IF n \in s \ {t} THEN n ELSE 0)
      BY <1>2, <1>3, <1>5, <2>1, <2>2
    <2>4. CASE t = n
      <3>1. h[s \ {t}] = a
        BY <2>2, <2>3, <2>4
      <3>2. PICK k \in Nat : k = c[n]
        OBVIOUS
      <3>3. h[s] = n * (k + 1) + a /\ g[s] = n * k + a
        BY <1>1, <2>3, <2>4, <3>1, <3>2
      <3>4. n * (k + 1) + a = (n * k + a) + n
        OBVIOUS
      <3> QED
        BY <2>1, <2>4, <3>3, <3>4
    <2>5. CASE t # n /\ n \in s
      <3>1. h[s \ {t}] = a + n /\ d[t] = c[t]
        BY <1>1, <2>1, <2>3, <2>5
      <3>2. PICK p \in Nat : p = t * c[t]
        OBVIOUS
      <3>3. h[s] = p + (a + n) /\ g[s] = p + a
        BY <2>3, <3>1, <3>2
      <3>4. n \in Nat /\ p + (a + n) = (p + a) + n
        OBVIOUS
      <3>5. h[s] = g[s] + n
        BY <3>3, <3>4
      <3> QED
        BY <2>5, <3>5
    <2>6. CASE n \notin s
      <3>1. h[s \ {t}] = a /\ d[t] = c[t]
        BY <1>1, <2>1, <2>2, <2>3, <2>6
      <3>2. h[s] = g[s] /\ g[s] \in Nat
        BY <1>2, <2>3, <3>1
      <3> QED
        BY <2>6, <3>2
    <2> QED
      BY <2>4, <2>5, <2>6
  <1>6. \A s \in SUBSET v : s \in T
    <2> HIDE DEF T
    <2> QED
      BY <1>4, <1>5, SubsetInduction
  <1>7. h[v] = g[v] + n
    BY <1>6
  <1> QED
    BY <1>2, <1>3, <1>7

\* The other coins are worth a coin less.
LEMMA ValueOfOthers ==
  ASSUME NEW v \in SUBSET Nat, IsFiniteSet(v), NEW c \in [v -> Nat], NEW n \in v, c[n] > 0
  PROVE  \E d \in [v -> Nat] :
           /\ d[n] = c[n] - 1 /\ \A m \in v : m # n => d[m] = c[m]
           /\ Value(v, c) = Value(v, d) + n /\ Value(v, d) \in Nat
  <1>1. PICK d \in [v -> Nat] : d[n] = c[n] - 1 /\ \A m \in v : m # n => d[m] = c[m]
    <2>1. [c EXCEPT ![n] = @ - 1] \in [v -> Nat]
      OBVIOUS
    <2> QED
      BY <2>1
  <1>2. c[n] = d[n] + 1 /\ \A m \in v : m # n => c[m] = d[m]
    BY <1>1
  <1>3. Value(v, c) = Value(v, d) + n
    BY <1>2, ValueOfOneMore
  <1>4. Value(v, d) \in Nat
    BY ValueType
  <1> QED
    BY <1>1, <1>3, <1>4

\* Something is worth something only if there is a coin.
LEMMA ValueOfSome ==
  ASSUME NEW v \in SUBSET Nat, IsFiniteSet(v), NEW c \in [v -> Nat], Value(v, c) > 0
  PROVE  \E n \in v : c[n] > 0
  <1> SUFFICES ASSUME \A n \in v : ~(c[n] > 0) PROVE FALSE
    OBVIOUS
  <1>1. \A n \in v : c[n] = 0
    OBVIOUS
  <1>2. Value(v, c) = 0
    BY <1>1, ValueOfNothing
  <1> QED
    BY <1>2

\* No coin is worth more than all of them.
LEMMA WorthItsCoins ==
  ASSUME NEW v \in SUBSET Nat, IsFiniteSet(v), NEW c \in [v -> Nat], NEW n \in v, c[n] > 0
  PROVE  n <= Value(v, c)
  <1>1. PICK d \in [v -> Nat] : Value(v, c) = Value(v, d) + n /\ Value(v, d) \in Nat
    BY ValueOfOthers
  <1> QED
    BY <1>1

\* Two parts of the coins are worth what all are.
LEMMA ValueOfParts ==
  ASSUME NEW v \in SUBSET Nat, IsFiniteSet(v), NEW c \in [v -> Nat], NEW d \in [v -> Nat],
         \A n \in v : d[n] <= c[n]
  PROVE  Value(v, c) = Value(v, d) + Value(v, [n \in v |-> c[n] - d[n]])
  <1> DEFINE e == [n \in v |-> c[n] - d[n]]
  <1>1. e \in [v -> Nat] /\ \A n \in v : c[n] = d[n] + e[n]
    OBVIOUS
  <1> HIDE DEF e
  <1>2. PICK f : /\ Value(v, c) = f[v] /\ f[{}] = 0
                 /\ \A s \in SUBSET v : f[s] \in Nat
                 /\ \A s \in SUBSET v : s # {} => f[s] = Top(s) * c[Top(s)] + f[s \ {Top(s)}]
    BY ValueSums
  <1>3. PICK g : /\ Value(v, d) = g[v] /\ g[{}] = 0
                 /\ \A s \in SUBSET v : g[s] \in Nat
                 /\ \A s \in SUBSET v : s # {} => g[s] = Top(s) * d[Top(s)] + g[s \ {Top(s)}]
    BY ValueSums
  <1>4. PICK h : /\ Value(v, e) = h[v] /\ h[{}] = 0
                 /\ \A s \in SUBSET v : h[s] \in Nat
                 /\ \A s \in SUBSET v : s # {} => h[s] = Top(s) * e[Top(s)] + h[s \ {Top(s)}]
    BY <1>1, ValueSums
  <1> DEFINE T == {s \in SUBSET v : f[s] = g[s] + h[s]}
  <1>5. {} \in T
    BY <1>2, <1>3, <1>4
  <1>6. ASSUME NEW s \in SUBSET v, s # {}, s \ {Top(s)} \in T PROVE s \in T
    <2>1. PICK t \in v : t = Top(s)
      BY <1>6, TopIn
    <2>2. PICK p \in Nat, q \in Nat : p = g[s \ {t}] /\ q = h[s \ {t}]
      BY <1>3, <1>4
    <2>3. PICK x \in Nat, y \in Nat : x = d[t] /\ y = e[t] /\ c[t] = x + y
      BY <1>1
    <2>4. f[s \ {t}] = p + q
      BY <1>6, <2>1, <2>2
    <2>5. f[s] = t * (x + y) + (p + q) /\ g[s] = t * x + p /\ h[s] = t * y + q
      BY <1>2, <1>3, <1>4, <1>6, <2>1, <2>2, <2>3, <2>4
    <2>6. t * (x + y) + (p + q) = (t * x + p) + (t * y + q)
      OBVIOUS
    <2> QED
      BY <2>5, <2>6
  <1>7. \A s \in SUBSET v : s \in T
    <2> HIDE DEF T
    <2> QED
      BY <1>5, <1>6, SubsetInduction
  <1> QED
    BY <1>2, <1>3, <1>4, <1>7 DEF e

-----------------------------------------------------------------------------
(***************************************************************************)
(* Chains: each nominal divides the next.                                  *)
(***************************************************************************)
\* A number without a rest is a multiple.
LEMMA Quotient ==
  ASSUME NEW a \in Nat, NEW m \in Nat \ {0}, a % m = 0
  PROVE  \E q \in Nat : a = m * q
  <1>1. a = m * (a \div m) + (a % m) /\ a \div m \in Nat
    OBVIOUS
  <1> QED
    BY <1>1

\* A sum of multiples is a multiple.
LEMMA ValueDivides ==
  ASSUME NEW v \in SUBSET Nat, IsFiniteSet(v), NEW c \in [v -> Nat], NEW m \in Nat \ {0},
         \A n \in v : c[n] > 0 => n % m = 0
  PROVE  \E q \in Nat : Value(v, c) = m * q
  <1>1. PICK g : /\ Value(v, c) = g[v] /\ g[{}] = 0
                 /\ \A s \in SUBSET v : g[s] \in Nat
                 /\ \A s \in SUBSET v : s # {} => g[s] = Top(s) * c[Top(s)] + g[s \ {Top(s)}]
    BY ValueSums
  <1> DEFINE T == {s \in SUBSET v : \E q \in Nat : g[s] = m * q}
  <1>2. {} \in T
    <2>1. g[{}] = m * 0
      BY <1>1
    <2> QED
      BY <2>1
  <1>3. ASSUME NEW s \in SUBSET v, s # {}, s \ {Top(s)} \in T PROVE s \in T
    <2>1. PICK t \in v : t = Top(s)
      BY <1>3, TopIn
    <2>2. PICK p \in Nat : g[s \ {t}] = m * p
      BY <1>3, <2>1
    <2>3. PICK k \in Nat : k = c[t]
      OBVIOUS
    <2>4. \E q \in Nat : t * k = m * q
      <3>1. CASE k = 0
        <4>1. t * k = m * 0
          BY <3>1
        <4> QED
          BY <4>1
      <3>2. CASE k > 0
        <4>1. PICK r \in Nat : t = m * r
          BY <2>3, <3>2, Quotient
        <4>2. t * k = m * (r * k) /\ r * k \in Nat
          BY <4>1
        <4> QED
          BY <4>2
      <3> QED
        BY <3>1, <3>2
    <2>5. PICK r \in Nat : t * k = m * r
      BY <2>4
    <2>6. g[s] = m * r + m * p
      BY <1>1, <1>3, <2>1, <2>2, <2>3, <2>5
    <2>7. m * r + m * p = m * (r + p) /\ r + p \in Nat
      OBVIOUS
    <2>8. \E q \in Nat : g[s] = m * q
      BY <2>6, <2>7
    <2> QED
      BY <2>8
  <1>4. \A s \in SUBSET v : s \in T
    <2> HIDE DEF T
    <2> QED
      BY <1>2, <1>3, SubsetInduction
  <1> QED
    BY <1>1, <1>4

\* A number that is a multiple of m like n and less than n + m is at most n.
LEMMA NextMultiple ==
  ASSUME NEW m \in Nat \ {0}, NEW p \in Nat, NEW q \in Nat, m * q < m * p + m
  PROVE  m * q <= m * p
  <1> SUFFICES ASSUME q > p PROVE FALSE
    <2>1. ASSUME q <= p PROVE m * q <= m * p
      <3>1. PICK d \in Nat : p = q + d
        <4>1. p - q \in Nat /\ p = q + (p - q)
          BY <2>1
        <4> QED
          BY <4>1
      <3>2. m * p = m * q + m * d /\ m * d \in Nat /\ m * q \in Nat
        BY <3>1
      <3> QED
        BY <3>2
    <2> QED
      BY <2>1
  <1>1. PICK d \in Nat : q = p + 1 + d
    <2>1. q - p - 1 \in Nat /\ q = p + 1 + (q - p - 1)
      OBVIOUS
    <2> QED
      BY <2>1
  <1>2. m * q = m * p + m + m * d /\ m * d \in Nat /\ m * p \in Nat
    BY <1>1
  <1> QED
    BY <1>2

\* Coins that all divide n and each other, worth at least n, hold some that are
\* worth n.
LEMMA ChainsGiveChange ==
  ASSUME NEW v \in SUBSET (Nat \ {0}), IsFiniteSet(v), NEW c \in [v -> Nat], NEW n \in Nat \ {0},
         \A k, m \in v : k < m => m % k = 0,
         \A k \in v : c[k] > 0 => n % k = 0,
         Value(v, c) >= n
  PROVE  \E d \in [v -> Nat] : (\A k \in v : d[k] <= c[k]) /\ Value(v, d) = n
  <1> DEFINE Below(d) == \A k \in v : d[k] <= c[k]
             W == {w \in Nat : w >= n /\ \E d \in [v -> Nat] : Below(d) /\ Value(v, d) = w}
  <1>v. v \in SUBSET Nat
    OBVIOUS
  <1>1. Value(v, c) \in W
    <2>1. Value(v, c) \in Nat
      BY <1>v, ValueType
    <2>2. Below(c)
      OBVIOUS
    <2> QED
      BY <2>1, <2>2
  <1>2. PICK w \in W : \A y \in W : w <= y
    <2>1. W \in SUBSET Nat /\ W # {}
      BY <1>1
    <2> HIDE DEF W
    <2> QED
      BY <2>1, LeastOf
  <1>3. PICK d \in [v -> Nat] : Below(d) /\ Value(v, d) = w
    OBVIOUS
  <1>4. w \in Nat /\ w >= n /\ w > 0
    OBVIOUS
  <1> DEFINE D == {k \in v : d[k] > 0}
  <1>5. D # {}
    BY <1>v, <1>3, <1>4, ValueOfSome
  <1>6. PICK m \in D : \A k \in D : m <= k
    <2>1. D \in SUBSET Nat
      BY <1>v
    <2> HIDE DEF D
    <2> QED
      BY <1>5, <2>1, LeastOf
  <1>7. m \in v /\ m \in Nat \ {0} /\ d[m] > 0 /\ c[m] > 0
    BY <1>3
  <1>8. \A k \in v : d[k] > 0 => k % m = 0
    <2> SUFFICES ASSUME NEW k \in v, d[k] > 0 PROVE k % m = 0
      OBVIOUS
    <2>1. m <= k
      BY <1>6
    <2>2. CASE m = k
      BY <1>7, <2>2
    <2>3. CASE m < k
      BY <1>7, <2>3
    <2> QED
      BY <1>7, <2>1, <2>2, <2>3
  <1>9. PICK q \in Nat : w = m * q
    BY <1>v, <1>3, <1>7, <1>8, ValueDivides
  <1>10. PICK p \in Nat : n = m * p
    BY <1>7, Quotient
  <1> HIDE DEF D, W
  <1>11. PICK e \in [v -> Nat] :
           /\ e[m] = d[m] - 1 /\ \A k \in v : k # m => e[k] = d[k]
           /\ Value(v, d) = Value(v, e) + m /\ Value(v, e) \in Nat
    BY <1>v, <1>7, ValueOfOthers
  <1>12. Below(e)
    BY <1>3, <1>7, <1>11
  <1>13. PICK x \in Nat : x = Value(v, e) /\ w = x + m
    BY <1>3, <1>11
  <1>14. x < n
    <2> SUFFICES ASSUME x >= n PROVE FALSE
      BY <1>13
    <2>1. x \in W
      BY <1>11, <1>12, <1>13 DEF W
    <2>2. w <= x
      BY <1>2, <2>1
    <2> QED
      BY <1>7, <1>13, <2>2
  <1>15. w < n + m
    BY <1>7, <1>13, <1>14
  <1>16. w <= n
    <2>1. m * q < m * p + m
      BY <1>9, <1>10, <1>15
    <2>2. m * q <= m * p
      BY <1>7, <2>1, NextMultiple
    <2> QED
      BY <1>9, <1>10, <2>2
  <1>17. w = n
    BY <1>4, <1>16
  <1> QED
    BY <1>3, <1>17

-----------------------------------------------------------------------------
(***************************************************************************)
(* What can be paid.                                                       *)
(***************************************************************************)
Pay(v, have, a) ==
  \E coins \in [v -> 0..(CountRange - 1)] :
    (\A n \in v : coins[n] <= have[n]) /\ Value(v, coins) = a

\* The largest nominal that fits can be taken without harm if each nominal
\* divides the next: if none of the coins that pay is of it, some of them are
\* together worth as much.
LEMMA LargestIsSafe ==
  ASSUME NEW v \in SUBSET (Nat \ {0}), IsFiniteSet(v),
         \A k, m \in v : k < m => m % k = 0,
         NEW have \in [v -> 0..(CountRange - 1)], NEW a \in Nat, Pay(v, have, a),
         NEW n \in v, n <= a, have[n] > 0,
         \A m \in v : m <= a /\ have[m] > 0 => m <= n
  PROVE  Pay(v, [have EXCEPT ![n] = @ - 1], a - n)
  <1> DEFINE left == [have EXCEPT ![n] = @ - 1]
  <1>v. v \in SUBSET Nat /\ n \in Nat \ {0} /\ CountRange \in Nat
    BY CurrencyAssumption
  <1>0. left[n] = have[n] - 1 /\ \A k \in v : k # n => left[k] = have[k]
    OBVIOUS
  <1>1. PICK c \in [v -> 0..(CountRange - 1)] :
          (\A k \in v : c[k] <= have[k]) /\ Value(v, c) = a
    BY DEF Pay
  <1>2. c \in [v -> Nat]
    BY <1>1, <1>v
  <1> HIDE DEF left
  <1>3. CASE c[n] > 0
    <2>1. PICK d \in [v -> Nat] :
            /\ d[n] = c[n] - 1 /\ \A k \in v : k # n => d[k] = c[k]
            /\ Value(v, c) = Value(v, d) + n /\ Value(v, d) \in Nat
      BY <1>v, <1>2, <1>3, ValueOfOthers
    <2>3. \A k \in v : d[k] <= left[k] /\ d[k] \in 0..(CountRange - 1)
      BY <1>v, <1>0, <1>1, <1>3, <2>1
    <2>4. d \in [v -> 0..(CountRange - 1)]
      BY <2>3
    <2>5. Value(v, d) = a - n
      BY <1>v, <1>1, <2>1
    <2>6. \E coins \in [v -> 0..(CountRange - 1)] :
            (\A k \in v : coins[k] <= left[k]) /\ Value(v, coins) = a - n
      BY <2>3, <2>4, <2>5
    <2> QED
      BY <2>6 DEF Pay, left
  <1>4. CASE c[n] = 0
    <2>1. ASSUME NEW k \in v, c[k] > 0 PROVE n % k = 0
      <3>1. k <= a
        BY <1>v, <1>1, <1>2, <2>1, WorthItsCoins
      <3>2. have[k] > 0
        BY <1>1, <1>2, <2>1
      <3>3. k <= n /\ k # n
        BY <1>4, <2>1, <3>1, <3>2
      <3>4. k < n
        BY <1>v, <3>3
      <3> QED
        BY <3>4
    <2>2. Value(v, c) >= n
      BY <1>1
    <2>3. PICK d \in [v -> Nat] : (\A k \in v : d[k] <= c[k]) /\ Value(v, d) = n
      BY <1>v, <1>2, <2>1, <2>2, ChainsGiveChange
    <2> DEFINE e == [k \in v |-> c[k] - d[k]]
    <2>4. Value(v, c) = Value(v, d) + Value(v, e)
      BY <1>v, <1>2, <2>3, ValueOfParts
    <2>5. \A k \in v : e[k] \in 0..(CountRange - 1) /\ e[k] <= c[k]
      BY <1>v, <1>1, <2>3
    <2>6. e \in [v -> 0..(CountRange - 1)] /\ e \in [v -> Nat]
      BY <2>5
    <2> HIDE DEF e
    <2>7. \A k \in v : e[k] <= left[k]
      BY <1>v, <1>0, <1>1, <1>4, <2>5
    <2>8. Value(v, e) = a - n
      <3>1. PICK x \in Nat : x = Value(v, e)
        BY <1>v, <2>6, ValueType
      <3> QED
        BY <1>v, <1>1, <2>3, <2>4, <3>1
    <2>9. \E coins \in [v -> 0..(CountRange - 1)] :
            (\A k \in v : coins[k] <= left[k]) /\ Value(v, coins) = a - n
      BY <2>6, <2>7, <2>8
    <2> QED
      BY <2>9 DEF Pay, left
  <1> QED
    BY <1>2, <1>3, <1>4

\* Who can pay something has a coin that fits.
LEMMA PayersFit ==
  ASSUME NEW v \in SUBSET (Nat \ {0}), IsFiniteSet(v),
         NEW have \in [v -> 0..(CountRange - 1)], NEW a \in Nat, a > 0, Pay(v, have, a)
  PROVE  \E n \in v : n <= a /\ have[n] > 0
  <1>v. v \in SUBSET Nat /\ CountRange \in Nat
    BY CurrencyAssumption
  <1>1. PICK c \in [v -> 0..(CountRange - 1)] :
          (\A k \in v : c[k] <= have[k]) /\ Value(v, c) = a
    BY DEF Pay
  <1>2. c \in [v -> Nat]
    BY <1>1, <1>v
  <1>3. PICK k \in v : c[k] > 0
    BY <1>v, <1>1, <1>2, ValueOfSome
  <1>4. k <= a
    BY <1>v, <1>1, <1>2, <1>3, WorthItsCoins
  <1>5. have[k] > 0
    BY <1>1, <1>2, <1>3
  <1> QED
    BY <1>4, <1>5

-----------------------------------------------------------------------------
(***************************************************************************)
(* Orders, and what expendOneOrdered picks by one.                         *)
(***************************************************************************)
Fitting(c, a, n) == n <= a /\ c[n] > 0
Picks(o, c, a, n) ==
  \E i \in DOMAIN o :
    /\ o[i] = n /\ Fitting(c, a, n)
    /\ \A j \in 1..(i - 1) : ~Fitting(c, a, o[j])

\* What expendOneOrdered takes, of the counts and the amount in the loop.
LEMMA ChosenPicks == ASSUME NEW o, NEW n PROVE Chosen(o, n) <=> Picks(o, from, amount, n)
  BY DEF Chosen, Fits, Picks, Fitting

Sorted(v, key) ==
  {o \in [1..Cardinality(v) -> v] :
     /\ \A n \in v : \E i \in DOMAIN o : o[i] = n
     /\ \A i, j \in DOMAIN o : i < j => key[o[i]] >= key[o[j]]}

\* The two orders of a strategy.
OrdersOf(v, s, st, group) ==
  LET byNominal == Sorted(v, [n \in v |-> n])
  IN  CASE s = "LeastCount" -> {<<o, o>> : o \in byNominal}
        [] s = "MostAvailable" -> {<<o, o>> : o \in Sorted(v, group)}
        [] s = "Statistical" -> {<<o, o>> : o \in Sorted(v, st)}
        [] s = "Combine" -> byNominal \X Sorted(v, group)

\* A Reset gives the orders of the strategy it is called on.
LEMMA ResetsAreOrders ==
  ASSUME NEW group PROVE Resets(group) = OrdersOf(valid, strategy', stat', group)
  BY Zenon DEF Resets, OrdersOf, ByNominal, ByCount, SortedBy, Sorted, Orders

\* An order leaves no choice between two nominals.
LEMMA PicksOnce ==
  ASSUME NEW k \in Nat, NEW v, NEW o \in [1..k -> v], NEW c, NEW a, NEW m, NEW n,
         Picks(o, c, a, m), Picks(o, c, a, n)
  PROVE  m = n
  <1>1. PICK i \in 1..k : o[i] = m /\ Fitting(c, a, m) /\ \A l \in 1..(i - 1) : ~Fitting(c, a, o[l])
    BY DEF Picks
  <1>2. PICK j \in 1..k : o[j] = n /\ Fitting(c, a, n) /\ \A l \in 1..(j - 1) : ~Fitting(c, a, o[l])
    BY DEF Picks
  <1>3. ~(i < j) /\ ~(j < i)
    BY <1>1, <1>2
  <1>4. i = j
    BY <1>3
  <1> QED
    BY <1>1, <1>2, <1>4

\* If a nominal of the order fits, one is picked.
LEMMA FirstFitting ==
  ASSUME NEW k \in Nat, NEW v, NEW o \in [1..k -> v], NEW c, NEW a,
         NEW f \in 1..k, Fitting(c, a, o[f])
  PROVE  \E n \in v : Picks(o, c, a, n)
  <1> DEFINE I == {i \in 1..k : Fitting(c, a, o[i])}
  <1>1. I \in SUBSET Nat /\ I # {}
    OBVIOUS
  <1>2. PICK i \in I : \A j \in I : i <= j
    <2> HIDE DEF I
    <2> QED
      BY <1>1, LeastOf
  <1>3. \A j \in 1..(i - 1) : ~Fitting(c, a, o[j])
    BY <1>2
  <1> QED
    BY <1>3 DEF Picks

\* With the largest first, none that fits is larger than the one picked.
LEMMA PicksLargest ==
  ASSUME NEW v \in SUBSET Nat, IsFiniteSet(v), NEW o \in Sorted(v, [n \in v |-> n]),
         NEW c, NEW a, NEW n \in v, Picks(o, c, a, n),
         NEW m \in v, Fitting(c, a, m)
  PROVE  m <= n
  <1>0. Cardinality(v) \in Nat
    BY FS_CardinalityType
  <1>1. o \in [1..Cardinality(v) -> v]
    BY DEF Sorted
  <1>2. PICK i \in DOMAIN o : o[i] = n /\ \A l \in 1..(i - 1) : ~Fitting(c, a, o[l])
    BY DEF Picks
  <1>3. PICK j \in DOMAIN o : o[j] = m
    BY DEF Sorted
  <1>4. i \in Nat /\ j \in Nat /\ j >= 1
    BY <1>0, <1>1
  <1>5. ~(j < i)
    BY <1>2, <1>3, <1>4
  <1>6. CASE i = j
    BY <1>2, <1>3, <1>6
  <1>7. CASE i < j
    <2>1. [x \in v |-> x][o[i]] >= [x \in v |-> x][o[j]]
      BY <1>7 DEF Sorted
    <2> QED
      BY <1>2, <1>3, <2>1
  <1> QED
    BY <1>4, <1>5, <1>6, <1>7

\* An order by different keys is the only one.
LEMMA OnlyOrder ==
  ASSUME NEW v, IsFiniteSet(v), NEW key \in [v -> Nat],
         \A m, n \in v : m # n => key[m] # key[n],
         NEW o \in Sorted(v, key), NEW p \in Sorted(v, key)
  PROVE  o = p
  <1> DEFINE k == Cardinality(v)
  <1>0. k \in Nat
    BY FS_CardinalityType
  <1>1. ASSUME NEW q \in Sorted(v, key)
        PROVE  /\ q \in [1..k -> v]
               /\ \A n \in v : \E i \in 1..k : q[i] = n
               /\ \A i, j \in 1..k : i # j => q[i] # q[j]
               /\ \A i, j \in 1..k : i < j => key[q[i]] > key[q[j]]
    <2>1. /\ q \in [1..k -> v]
          /\ \A n \in v : \E i \in 1..k : q[i] = n
          /\ \A i, j \in 1..k : i < j => key[q[i]] >= key[q[j]]
      BY DEF Sorted
    <2>2. q \in Surjection(1..k, v)
      BY <2>1 DEF Surjection
    <2>3. IsFiniteSet(1..k) /\ Cardinality(1..k) = Cardinality(v)
      <3>1. IsFiniteSet(1..k) /\ Cardinality(1..k) = IF 1 > k THEN 0 ELSE k - 1 + 1
        BY <1>0, FS_Interval
      <3> HIDE DEF k
      <3>2. Cardinality(1..k) = k
        BY <1>0, <3>1
      <3> QED
        BY <3>1, <3>2 DEF k
    <2>4. q \in Injection(1..k, v)
      BY <2>2, <2>3, FS_SurjSameCardinalityImpliesInj
    <2>5. \A i, j \in 1..k : i # j => q[i] # q[j]
      BY <2>4 DEF Injection, IsInjective
    <2> HIDE DEF k
    <2>6. ASSUME NEW i \in 1..k, NEW j \in 1..k, i < j PROVE key[q[i]] > key[q[j]]
      <3>1. q[i] # q[j] /\ q[i] \in v /\ q[j] \in v
        BY <1>0, <2>1, <2>5, <2>6
      <3>2. key[q[i]] >= key[q[j]] /\ key[q[i]] # key[q[j]]
        BY <2>1, <2>6, <3>1
      <3>3. key[q[i]] \in Nat /\ key[q[j]] \in Nat
        BY <3>1
      <3> QED
        BY <3>2, <3>3
    <2> QED
      BY <2>1, <2>5, <2>6
  <1> HIDE DEF k
  <1> DEFINE I == {i \in 1..k : o[i] # p[i]}
  <1>2. ASSUME I # {} PROVE FALSE
    <2>1. I \in SUBSET Nat
      OBVIOUS
    <2>2. PICK i \in I : \A j \in I : i <= j
      <3> HIDE DEF I
      <3> QED
        BY <1>2, <2>1, LeastOf
    <2>3. \A j \in 1..k : j < i => o[j] = p[j]
      BY <2>2
    <2>4. o \in [1..k -> v] /\ p \in [1..k -> v] /\ i \in 1..k /\ o[i] # p[i]
      BY <1>1, <2>2
    <2>5. ASSUME NEW x \in Sorted(v, key), NEW y \in Sorted(v, key), x[i] # y[i],
                 \A j \in 1..k : j < i => x[j] = y[j]
          PROVE  key[y[i]] > key[x[i]]
      <3>1. x \in [1..k -> v]
        BY <1>1
      <3>2. PICK j \in 1..k : y[j] = x[i]
        BY <1>1, <2>4, <3>1
      <3>3. ~(j < i)
        <4> SUFFICES ASSUME j < i PROVE FALSE
          OBVIOUS
        <4>1. x[j] = x[i] /\ j # i
          BY <2>4, <2>5, <3>2
        <4> QED
          BY <1>1, <2>4, <4>1
      <3>4. i < j
        BY <1>0, <2>4, <2>5, <3>2, <3>3
      <3> QED
        BY <1>1, <2>4, <3>2, <3>4
    <2>6. key[p[i]] > key[o[i]] /\ key[o[i]] > key[p[i]]
      BY <2>3, <2>4, <2>5
    <2>7. key[p[i]] \in Nat /\ key[o[i]] \in Nat
      BY <2>4
    <2> QED
      BY <2>6, <2>7
  <1>3. \A i \in 1..k : o[i] = p[i]
    BY <1>2
  <1>4. o = [i \in 1..k |-> o[i]] /\ p = [i \in 1..k |-> p[i]]
    BY <1>1
  <1> QED
    BY <1>3, <1>4, Zenon

-----------------------------------------------------------------------------
(***************************************************************************)
(* The order in use is one of its strategy.                                *)
(***************************************************************************)
OrderInv == pc # "idle" => order \in OrdersOf(valid, strategy, stat, before)

\* Both loops reset their strategy, and nothing else changes an order.
LEMMA OrderStep == CurrencyInv /\ OrderInv /\ [Next]_vars => OrderInv'
  <1> SUFFICES ASSUME CurrencyInv, OrderInv, [Next]_vars PROVE OrderInv'
    OBVIOUS
  <1>1. CASE Change \/ UNCHANGED vars
    <2>1. UNCHANGED <<pc, valid, strategy, stat, before, order>> \/ (pc = "idle" /\ pc' = pc)
      BY <1>1 DEF Change, Add, Clear, Sub, Idle, vars, groupVars, callVars, loopVars
    <2> QED
      BY <2>1 DEF OrderInv
  <1>2. ASSUME NEW a \in 0..MaxAmount, NEW s \in Strategies, NEW c \in BOOLEAN, Withdraw(a, s, c)
        PROVE  OrderInv'
    <2>1. order' \in OrdersOf(valid, strategy', stat', values)
      BY <1>2, ResetsAreOrders DEF Withdraw, Loop
    <2>2. before' = values /\ valid' = valid
      BY <1>2 DEF Withdraw, groupVars
    <2> QED
      BY <2>1, <2>2 DEF OrderInv
  <1>3. CASE ExpendOne
    BY <1>3 DEF ExpendOne, OrderInv, callVars
  <1>4. CASE ExpendFails
    BY <1>4 DEF ExpendFails, End, OrderInv
  <1>5. CASE LoopEnds
    <2>1. CASE End("ok")
      BY <2>1 DEF End, OrderInv
    <2>2. CASE pc = "check" /\ UNCHANGED <<groupVars, callVars, draws>> /\ Loop("commit", values)
      <3>1. order' \in OrdersOf(valid, strategy', stat', values)
        BY <2>2, ResetsAreOrders DEF Loop
      <3>2. UNCHANGED <<strategy, stat, before, valid>> /\ values = before
        BY <2>2 DEF groupVars, callVars, CurrencyInv, NothingLost
      <3> QED
        BY <3>1, <3>2 DEF OrderInv
    <2> QED
      BY <1>5, <2>1, <2>2 DEF LoopEnds
  <1> QED
    BY <1>1, <1>2, <1>3, <1>4, <1>5 DEF Next, Contains, Strategies

-----------------------------------------------------------------------------
(***************************************************************************)
(* What was taken is worth what was paid; and as long as the largest come   *)
(* first, what could be paid at first can still be paid.                   *)
(***************************************************************************)
Says ==
  Finished =>
    /\ result = "ok" => Pay(valid, before, asked)
    /\ strategy = "LeastCount" /\ Chain /\ result # "ok" => ~Pay(valid, before, asked)

PaysInv ==
  /\ pc # "idle" =>
       /\ Value(valid, taken) = paid
       /\ strategy = "LeastCount" /\ Chain /\ Pay(valid, before, asked) => Pay(valid, from, amount)
  /\ Says

\* The property in these words.
LEMMA SaysIt == Says => SaysWhetherPayable
  <1>1. Payable(asked) <=> Pay(valid, before, asked)
    BY DEF Payable, Pay, Worth, Value
  <1> QED
    BY <1>1 DEF Says, SaysWhetherPayable

\* Nominals are numbers from one, counts are numbers.
LEMMA GroupFacts ==
  ASSUME CurrencyInv
  PROVE  /\ valid \in SUBSET (Nat \ {0}) /\ valid \in SUBSET Nat /\ IsFiniteSet(valid)
         /\ Counts(valid) \subseteq [valid -> Nat]
         /\ CountRange \in Nat
  <1>1. valid \in Groups
    BY DEF CurrencyInv, CurrencyTypeOK
  <1> QED
    BY <1>1, CurrencyAssumption DEF Counts

\* A loop that begins has taken nothing and owes what was asked.
LEMMA PaysStarts ==
  ASSUME CurrencyInv, NEW which \in {"check", "commit"}, Loop(which, values),
         valid' = valid, before' = values
  PROVE  PaysInv'
  <1>1. /\ pc' = which /\ from' = before' /\ amount' = asked' /\ taken' = Zeros /\ paid' = 0
        /\ pc' # "idle"
    BY DEF Loop
  <1>2. Value(valid, Zeros) = 0
    <2>1. Zeros \in [valid -> Nat] /\ \A n \in valid : Zeros[n] = 0
      BY DEF Zeros
    <2> QED
      BY <2>1, GroupFacts, ValueOfNothing
  <1>3. Value(valid', taken') = paid'
    BY <1>1, <1>2
  <1>4. Pay(valid', before', asked') => Pay(valid', from', amount')
    BY <1>1
  <1>5. Says'
    BY <1>1 DEF Says, Finished
  <1> QED
    BY <1>3, <1>4, <1>5 DEF PaysInv

\* An order of ExpendLeastCount, or which of the two is asked.
LEMMA LeastCountOrder ==
  ASSUME OrderInv, pc # "idle", strategy = "LeastCount", NEW d \in {1, 2}
  PROVE  order[d] \in Sorted(valid, [n \in valid |-> n])
  <1>1. order \in {<<o, o>> : o \in Sorted(valid, [n \in valid |-> n])}
    BY DEF OrderInv, OrdersOf
  <1> QED
    BY <1>1

\* One coin: its worth is paid, and what is left can still be paid.
LEMMA PaysOne == ASSUME CurrencyInv, OrderInv, PaysInv, ExpendOne PROVE PaysInv'
  <1>1. PICK d \in Draws, n \in valid :
          /\ Chosen(order[d], n)
          /\ from' = [from EXCEPT ![n] = @ - 1]
          /\ amount' = amount - n
          /\ taken' = [taken EXCEPT ![n] = @ + 1]
          /\ paid' = paid + n
    BY DEF ExpendOne
  <1>2. /\ pc # "idle" /\ pc' = pc
        /\ UNCHANGED <<valid, strategy, before, asked>>
    BY DEF ExpendOne, callVars
  <1>3. /\ from \in Counts(valid) /\ taken \in [valid -> Nat]
        /\ amount \in Nat /\ draws \in Seq({1, 2}) /\ steps \in Nat
    BY GroupFacts, CurrencyAssumption DEF CurrencyInv, CurrencyTypeOK
  <1>4. Value(valid', taken') = paid'
    <2>1. Value(valid, taken) = paid
      BY <1>2 DEF PaysInv
    <2>2. /\ taken' \in [valid -> Nat] /\ taken'[n] = taken[n] + 1
          /\ \A m \in valid : m # n => taken'[m] = taken[m]
      BY <1>1, <1>3
    <2>3. valid \in SUBSET Nat /\ IsFiniteSet(valid)
      BY GroupFacts
    <2>4. Value(valid, taken') = Value(valid, taken) + n
      BY <1>3, <2>2, <2>3, ValueOfOneMore
    <2> QED
      BY <1>1, <1>2, <2>1, <2>4
  <1>5. ASSUME strategy = "LeastCount", Chain, Pay(valid, before, asked)
        PROVE  Pay(valid, from', amount')
    <2>1. Pay(valid, from, amount)
      BY <1>2, <1>5 DEF PaysInv
    <2>2. d \in {1, 2}
      BY <1>1, <1>3, DrawsType
    <2>3. order[d] \in Sorted(valid, [x \in valid |-> x])
      BY <1>2, <1>5, <2>2, LeastCountOrder
    <2>4. Picks(order[d], from, amount, n)
      BY <1>1, ChosenPicks
    <2>5. n <= amount /\ from[n] > 0
      BY <2>4 DEF Picks, Fitting
    <2>6. \A m \in valid : m <= amount /\ from[m] > 0 => m <= n
      <3> SUFFICES ASSUME NEW m \in valid, m <= amount, from[m] > 0 PROVE m <= n
        OBVIOUS
      <3>1. Fitting(from, amount, m)
        BY DEF Fitting
      <3> QED
        BY <2>3, <2>4, <3>1, GroupFacts, PicksLargest
    <2>7. from \in [valid -> 0..(CountRange - 1)] /\ \A k, m \in valid : k < m => m % k = 0
      BY <1>3, <1>5 DEF Counts, Chain
    <2>8. Pay(valid, [from EXCEPT ![n] = @ - 1], amount - n)
      BY <1>3, <2>1, <2>5, <2>6, <2>7, GroupFacts, LargestIsSafe
    <2> QED
      BY <1>1, <2>8
  <1>6. Says'
    BY <1>2 DEF Says, Finished
  <1>7. Chain' = Chain
    BY <1>2 DEF Chain
  <1> QED
    BY <1>2, <1>4, <1>5, <1>6, <1>7 DEF PaysInv

\* What was taken pays what was asked.
LEMMA PaysOk ==
  ASSUME CurrencyInv, PaysInv, pc # "idle", amount = 0, End("ok")
  PROVE  PaysInv'
  <1>1. /\ pc' = "idle" /\ result' = "ok"
        /\ UNCHANGED <<valid, strategy, asked, before>>
    BY DEF End, groupVars, callVars
  <1>2. /\ from \in Counts(valid) /\ taken \in Counts(valid) /\ before \in Counts(valid)
        /\ asked \in Nat /\ paid \in Nat
    BY CurrencyAssumption DEF CurrencyInv, CurrencyTypeOK
  <1>3. Value(valid, taken) = asked
    BY <1>2 DEF CurrencyInv, NothingLost, PaysInv
  <1>4. ASSUME NEW n \in valid PROVE taken[n] <= before[n]
    <2>1. from[n] + taken[n] = before[n]
      BY DEF CurrencyInv, NothingLost
    <2>2. from[n] \in Nat /\ taken[n] \in Nat /\ before[n] \in Nat
      BY <1>2, GroupFacts
    <2> QED
      BY <2>1, <2>2
  <1>5. Pay(valid, before, asked)
    BY <1>2, <1>3, <1>4 DEF Pay, Counts
  <1>6. Says'
    BY <1>1, <1>5 DEF Says
  <1> QED
    BY <1>1, <1>6 DEF PaysInv

\* When the loop is stuck no coin fits.
LEMMA PaysFails == ASSUME CurrencyInv, OrderInv, PaysInv, ExpendFails PROVE PaysInv'
  <1>1. PICK d \in Draws : \A n \in valid : ~Chosen(order[d], n)
    BY DEF ExpendFails
  <1>2. /\ pc # "idle" /\ amount > 0
        /\ pc' = "idle" /\ result' = "ErrNominalCount"
        /\ UNCHANGED <<valid, strategy, asked, before>>
    BY DEF ExpendFails, End, groupVars, callVars
  <1>3. /\ from \in Counts(valid) /\ amount \in Nat /\ draws \in Seq({1, 2}) /\ steps \in Nat
    BY CurrencyAssumption DEF CurrencyInv, CurrencyTypeOK
  <1>4. ASSUME strategy = "LeastCount", Chain, Pay(valid, before, asked) PROVE FALSE
    <2>1. Pay(valid, from, amount)
      BY <1>2, <1>4 DEF PaysInv
    <2>2. PICK n \in valid : n <= amount /\ from[n] > 0
      BY <1>2, <1>3, <2>1, GroupFacts, PayersFit DEF Counts
    <2>3. d \in {1, 2}
      BY <1>1, <1>3, DrawsType
    <2>4. PICK o : o = order[d] /\ o \in Sorted(valid, [x \in valid |-> x])
      BY <1>2, <1>4, <2>3, LeastCountOrder
    <2>5. Cardinality(valid) \in Nat
      BY GroupFacts, FS_CardinalityType
    <2>6. o \in [1..Cardinality(valid) -> valid]
      BY <2>4 DEF Sorted
    <2>7. PICK i \in 1..Cardinality(valid) : o[i] = n
      BY <2>4, <2>6 DEF Sorted
    <2>8. Fitting(from, amount, o[i])
      BY <2>2, <2>7 DEF Fitting
    <2>9. PICK m \in valid : Picks(o, from, amount, m)
      BY <2>5, <2>6, <2>8, FirstFitting
    <2> QED
      BY <1>1, <2>4, <2>9, ChosenPicks
  <1>5. Chain' = Chain
    BY <1>2 DEF Chain
  <1>6. Says'
    BY <1>2, <1>4, <1>5 DEF Says
  <1> QED
    BY <1>2, <1>6 DEF PaysInv

\* Whatever happens, what is said of a withdrawal is right.
LEMMA PaysStep == CurrencyInv /\ OrderInv /\ PaysInv /\ [Next]_vars => PaysInv'
  <1> SUFFICES ASSUME CurrencyInv, OrderInv, PaysInv, [Next]_vars PROVE PaysInv'
    OBVIOUS
  <1>1. CASE Change
    <2>1. pc' = "idle" /\ result' = "none"
      BY <1>1 DEF Change, Add, Clear, Sub, Idle, loopVars
    <2> QED
      BY <2>1 DEF PaysInv, Says, Finished
  <1>2. ASSUME NEW a \in 0..MaxAmount, NEW s \in Strategies, NEW c \in BOOLEAN, Withdraw(a, s, c)
        PROVE  PaysInv'
    BY <1>2, PaysStarts DEF Withdraw, groupVars
  <1>3. CASE ExpendOne
    BY <1>3, PaysOne
  <1>4. CASE ExpendFails
    BY <1>4, PaysFails
  <1>5. CASE LoopEnds
    <2>1. CASE End("ok")
      BY <1>5, <2>1, PaysOk DEF LoopEnds
    <2>2. CASE pc = "check" /\ UNCHANGED <<groupVars, callVars, draws>> /\ Loop("commit", values)
      <3>1. UNCHANGED <<before, valid>> /\ values = before
        BY <2>2 DEF groupVars, callVars, CurrencyInv, NothingLost
      <3> QED
        BY <2>2, <3>1, PaysStarts
    <2> QED
      BY <1>5, <2>1, <2>2 DEF LoopEnds
  <1>6. CASE UNCHANGED vars
    BY <1>6 DEF vars, groupVars, callVars, loopVars, PaysInv, Says, Finished, Chain
  <1> QED
    BY <1>1, <1>2, <1>3, <1>4, <1>5, <1>6 DEF Next, Contains, Strategies

\* A withdrawal that succeeds was possible, and the check of ExpendLeastCount
\* refuses only what nobody could pay, if each nominal divides the next.
THEOREM RefusalsAreRight == Spec => []SaysWhetherPayable
  <1>1. Init => OrderInv /\ PaysInv
    BY DEF Init, OrderInv, PaysInv, Says, Finished
  <1>2. PaysInv => SaysWhetherPayable
    BY SaysIt DEF PaysInv
  <1> QED
    BY <1>1, <1>2, InitHolds, NextHolds, OrderStep, PaysStep, PTL DEF Spec

-----------------------------------------------------------------------------
(***************************************************************************)
(* The commit goes the way of the check.  A way is the states of a loop, one *)
(* for each number of coins taken.                                         *)
(***************************************************************************)
States(v) == [c : [v -> 0..(CountRange - 1)], a : Nat]
Ways(v) == [Nat -> States(v)]
Here == [c |-> from, a |-> amount]
Start == [c |-> before, a |-> asked]

Taking(v, o, x, y) ==
  \E n \in v : Picks(o, x.c, x.a, n) /\ y = [c |-> [x.c EXCEPT ![n] = @ - 1], a |-> x.a - n]

\* For k coins w goes as these orders and draws say.
Goes(v, ord, ds, w, k) == \A i \in 0..(k - 1) : Taking(v, ord[ds[i + 1]], w[i], w[i + 1])

Checked ==
  /\ Len(draws) = steps
  /\ \E w \in Ways(valid) : Goes(valid, order, draws, w, steps) /\ w[0] = Start /\ w[steps] = Here

Committing ==
  /\ steps <= Len(draws)
  /\ \E w \in Ways(valid) :
       /\ Goes(valid, order, draws, w, Len(draws))
       /\ w[steps] = Here /\ w[Len(draws)].a = 0

WaysInv ==
  /\ strategy # "Combine" => \A i \in 1..Len(draws) : draws[i] = 1
  /\ pc = "check" => Checked
  /\ pc = "commit" /\ Untied => Committing

\* The types these lemmas need.
LEMMA WayTypes ==
  ASSUME CurrencyInv
  PROVE  /\ draws \in Seq({1, 2}) /\ Len(draws) \in Nat /\ steps \in Nat
         /\ Here \in States(valid) /\ Start \in States(valid)
         /\ strategy \in Strategies /\ amount \in Nat
  BY CurrencyAssumption DEF CurrencyInv, CurrencyTypeOK, Here, Start, States, Counts

\* Each of the two orders is a sequence of the nominals.
LEMMA OrderTypes ==
  ASSUME CurrencyInv, OrderInv, pc # "idle", NEW d \in {1, 2}
  PROVE  order[d] \in [1..Cardinality(valid) -> valid]
  <1>1. order \in OrdersOf(valid, strategy, stat, before)
    BY DEF OrderInv
  <1>2. ASSUME NEW key PROVE Sorted(valid, key) \subseteq [1..Cardinality(valid) -> valid]
    BY DEF Sorted
  <1>3. strategy \in Strategies
    BY WayTypes
  <1>4. \E s, t : order = <<s, t>> /\ s \in [1..Cardinality(valid) -> valid]
                  /\ t \in [1..Cardinality(valid) -> valid]
    <2>1. CASE strategy = "LeastCount"
      <3>1. PICK o \in Sorted(valid, [n \in valid |-> n]) : order = <<o, o>>
        BY <1>1, <2>1 DEF OrdersOf
      <3> QED
        BY <1>2, <3>1
    <2>2. CASE strategy = "MostAvailable"
      <3>1. PICK o \in Sorted(valid, before) : order = <<o, o>>
        BY <1>1, <2>2 DEF OrdersOf
      <3> QED
        BY <1>2, <3>1
    <2>3. CASE strategy = "Statistical"
      <3>1. PICK o \in Sorted(valid, stat) : order = <<o, o>>
        BY <1>1, <2>3 DEF OrdersOf
      <3> QED
        BY <1>2, <3>1
    <2>4. CASE strategy = "Combine"
      <3>1. PICK s \in Sorted(valid, [n \in valid |-> n]), t \in Sorted(valid, before) :
              order = <<s, t>>
        BY <1>1, <2>4 DEF OrdersOf
      <3> QED
        BY <1>2, <3>1
    <2> QED
      BY <1>3, <2>1, <2>2, <2>3, <2>4 DEF Strategies
  <1> QED
    BY <1>4

\* Without ties a strategy makes the same order again.
LEMMA SameOrder ==
  ASSUME CurrencyInv, Untied,
         NEW p \in OrdersOf(valid, strategy, stat, before),
         NEW q \in OrdersOf(valid, strategy, stat, before)
  PROVE  p = q
  <1>1. /\ stat \in [valid -> Nat] /\ before \in [valid -> Nat]
        /\ [n \in valid |-> n] \in [valid -> Nat] /\ IsFiniteSet(valid)
        /\ strategy \in Strategies
    BY GroupFacts, WayTypes DEF CurrencyInv, CurrencyTypeOK
  <1>2. ASSUME NEW s \in Sorted(valid, [n \in valid |-> n]), NEW t \in Sorted(valid, [n \in valid |-> n])
        PROVE  s = t
    <2>1. \A m, n \in valid : m # n => [x \in valid |-> x][m] # [x \in valid |-> x][n]
      OBVIOUS
    <2> QED
      BY <1>1, <2>1, OnlyOrder
  <1>3. ASSUME Distinct(before), NEW s \in Sorted(valid, before), NEW t \in Sorted(valid, before)
        PROVE  s = t
    BY <1>1, <1>3, OnlyOrder DEF Distinct
  <1>4. ASSUME Distinct(stat), NEW s \in Sorted(valid, stat), NEW t \in Sorted(valid, stat)
        PROVE  s = t
    BY <1>1, <1>4, OnlyOrder DEF Distinct
  <1>5. CASE strategy = "LeastCount"
    BY <1>2, <1>5 DEF OrdersOf
  <1>6. CASE strategy = "MostAvailable"
    <2>1. Distinct(before)
      BY <1>6 DEF Untied
    <2> QED
      BY <1>3, <1>6, <2>1 DEF OrdersOf
  <1>7. CASE strategy = "Statistical"
    <2>1. Distinct(stat)
      BY <1>7 DEF Untied
    <2> QED
      BY <1>4, <1>7, <2>1 DEF OrdersOf
  <1>8. CASE strategy = "Combine"
    <2>1. Distinct(before)
      BY <1>8 DEF Untied
    <2>2. /\ p \in Sorted(valid, [n \in valid |-> n]) \X Sorted(valid, before)
          /\ q \in Sorted(valid, [n \in valid |-> n]) \X Sorted(valid, before)
      BY <1>8 DEF OrdersOf
    <2>3. p[1] = q[1] /\ p[2] = q[2]
      BY <1>2, <1>3, <2>1, <2>2
    <2> QED
      BY <2>2, <2>3
  <1> QED
    BY <1>1, <1>5, <1>6, <1>7, <1>8 DEF Strategies

\* While coins are owed the commit takes the next of the check's numbers.
LEMMA NextDraw ==
  ASSUME CurrencyInv, WaysInv, pc = "commit", Untied, amount > 0, NEW d \in Draws
  PROVE  steps < Len(draws) /\ d = draws[steps + 1] /\ d \in {1, 2}
  <1>1. PICK w \in Ways(valid) : w[steps] = Here /\ w[Len(draws)].a = 0
    BY DEF WaysInv, Committing
  <1>2. steps <= Len(draws)
    BY DEF WaysInv, Committing
  <1>3. Here.a = amount
    BY DEF Here
  <1>4. steps # Len(draws)
    BY <1>1, <1>3
  <1>5. steps < Len(draws)
    BY <1>2, <1>4, WayTypes
  <1>6. steps + 1 \in 1..Len(draws)
    BY <1>5, WayTypes
  <1>7. d = draws[steps + 1]
    <2>1. CASE strategy = "Combine"
      BY <1>5, <2>1 DEF Draws
    <2>2. CASE strategy # "Combine"
      BY <1>6, <2>2 DEF Draws, WaysInv
    <2> QED
      BY <2>1, <2>2
  <1>8. d \in {1, 2}
    BY WayTypes, DrawsType
  <1> QED
    BY <1>5, <1>7, <1>8

\* A way goes on by one coin.
LEMMA GoesOn ==
  ASSUME NEW v, NEW ord, NEW ds \in Seq({1, 2}), NEW d \in {1, 2}, NEW k \in Nat, Len(ds) = k,
         NEW w \in Ways(v), Goes(v, ord, ds, w, k),
         NEW y \in States(v), Taking(v, ord[d], w[k], y)
  PROVE  \E u \in Ways(v) :
           Goes(v, ord, Append(ds, d), u, k + 1) /\ u[0] = w[0] /\ u[k + 1] = y
  <1> DEFINE u == [w EXCEPT ![k + 1] = y]
             es == Append(ds, d)
  <1>1. /\ u \in Ways(v) /\ u[k + 1] = y
        /\ \A i \in 0..k : u[i] = w[i]
    BY DEF Ways
  <1>2. es[k + 1] = d /\ \A i \in 0..(k - 1) : es[i + 1] = ds[i + 1]
    OBVIOUS
  <1>3. 0 \in 0..k
    OBVIOUS
  <1> HIDE DEF u, es
  <1>4. ASSUME NEW i \in 0..((k + 1) - 1) PROVE Taking(v, ord[es[i + 1]], u[i], u[i + 1])
    <2>1. CASE i = k
      <3>1. u[k] = w[k]
        BY <1>1, <2>1
      <3> QED
        BY <1>1, <1>2, <2>1, <3>1
    <2>2. CASE i # k
      <3>1. i \in 0..(k - 1) /\ i \in 0..k /\ i + 1 \in 0..k
        BY <2>2
      <3>2. Taking(v, ord[ds[i + 1]], w[i], w[i + 1])
        BY <3>1 DEF Goes
      <3> QED
        BY <1>1, <1>2, <3>1, <3>2
    <2> QED
      BY <2>1, <2>2
  <1>5. Goes(v, ord, es, u, k + 1)
    BY <1>4 DEF Goes
  <1> QED
    BY <1>1, <1>3, <1>5 DEF es

\* Only ExpendCombine has a choice.
LEMMA OnesDrawn ==
  ASSUME CurrencyInv, WaysInv, ExpendOne
  PROVE  strategy' # "Combine" => \A i \in 1..Len(draws') : draws'[i] = 1
  <1>1. PICK d \in Draws : draws' = IF steps < Len(draws) THEN draws ELSE Append(draws, d)
    BY DEF ExpendOne
  <1>2. strategy' = strategy
    BY DEF ExpendOne, callVars
  <1> SUFFICES ASSUME strategy # "Combine", NEW i \in 1..Len(draws') PROVE draws'[i] = 1
    BY <1>2
  <1>3. \A j \in 1..Len(draws) : draws[j] = 1
    BY DEF WaysInv
  <1>4. CASE draws' = draws
    BY <1>3, <1>4
  <1>5. CASE draws' = Append(draws, d)
    <2>1. d = 1 /\ d \in {1, 2}
      BY DEF Draws
    <2>2. draws \in Seq({1, 2}) /\ Len(draws) \in Nat
      BY WayTypes
    <2>3. Len(draws') = Len(draws) + 1
      BY <1>5, <2>1, <2>2, AppendDraw
    <2>4. CASE i = Len(draws) + 1
      BY <1>5, <2>1, <2>2, <2>4
    <2>5. CASE i # Len(draws) + 1
      <3>1. i \in 1..Len(draws)
        BY <2>2, <2>3, <2>5
      <3>2. Append(draws, d)[i] = draws[i]
        BY <2>1, <2>2, <3>1
      <3> QED
        BY <1>3, <1>5, <3>1, <3>2
    <2> QED
      BY <2>4, <2>5
  <1> QED
    BY <1>1, <1>4, <1>5

\* One coin of the check makes the way longer.
LEMMA CheckGoesOn ==
  ASSUME CurrencyInv, WaysInv, pc = "check", ExpendOne, Here' \in States(valid)
  PROVE  WaysInv'
  <1>1. PICK d \in Draws, n \in valid :
          /\ Chosen(order[d], n)
          /\ draws' = IF steps < Len(draws) THEN draws ELSE Append(draws, d)
          /\ from' = [from EXCEPT ![n] = @ - 1]
          /\ amount' = amount - n
    BY DEF ExpendOne
  <1>2. /\ pc' = "check" /\ steps' = steps + 1
        /\ UNCHANGED <<valid, strategy, before, asked, order>>
    BY DEF ExpendOne, callVars
  <1>3. Len(draws) = steps
    BY DEF WaysInv, Checked
  <1>t. /\ draws \in Seq({1, 2}) /\ steps \in Nat /\ d \in {1, 2}
        /\ Here \in States(valid)
    BY WayTypes, DrawsType
  <1>4. draws' = Append(draws, d)
    BY <1>1, <1>3, <1>t
  <1>5. PICK w \in Ways(valid) :
          Goes(valid, order, draws, w, steps) /\ w[0] = Start /\ w[steps] = Here
    BY DEF WaysInv, Checked
  <1>6. Taking(valid, order[d], w[steps], Here')
    <2>1. Picks(order[d], from, amount, n)
      BY <1>1, ChosenPicks
    <2>2. Here.c = from /\ Here.a = amount
      BY DEF Here
    <2>3. Here' = [c |-> [Here.c EXCEPT ![n] = @ - 1], a |-> Here.a - n]
      BY <1>1, <2>2 DEF Here
    <2> QED
      BY <1>5, <2>1, <2>2, <2>3 DEF Taking
  <1>7. PICK y \in States(valid) : y = Here'
    OBVIOUS
  <1>8. PICK u \in Ways(valid) :
          Goes(valid, order, Append(draws, d), u, steps + 1) /\ u[0] = w[0] /\ u[steps + 1] = y
    BY <1>3, <1>5, <1>6, <1>7, <1>t, GoesOn
  <1>9. Start' = Start
    BY <1>2 DEF Start
  <1>10. Len(draws') = steps'
    BY <1>2, <1>3, <1>4, <1>t
  <1>11. Checked'
    BY <1>2, <1>4, <1>5, <1>7, <1>8, <1>9, <1>10 DEF Checked
  <1>12. strategy' # "Combine" => \A i \in 1..Len(draws') : draws'[i] = 1
    BY OnesDrawn
  <1> QED
    BY <1>2, <1>11, <1>12 DEF WaysInv

\* One coin of the commit is the next of the way.
LEMMA CommitGoesOn ==
  ASSUME CurrencyInv, OrderInv, WaysInv, pc = "commit", Untied, ExpendOne
  PROVE  WaysInv'
  <1>1. PICK d \in Draws, n \in valid :
          /\ Chosen(order[d], n)
          /\ draws' = IF steps < Len(draws) THEN draws ELSE Append(draws, d)
          /\ from' = [from EXCEPT ![n] = @ - 1]
          /\ amount' = amount - n
    BY DEF ExpendOne
  <1>2. /\ pc' = "commit" /\ steps' = steps + 1 /\ amount > 0
        /\ UNCHANGED <<valid, strategy, stat, before, order>>
    BY DEF ExpendOne, callVars
  <1>t. /\ draws \in Seq({1, 2}) /\ Len(draws) \in Nat /\ steps \in Nat
        /\ Cardinality(valid) \in Nat
    BY WayTypes, GroupFacts, FS_CardinalityType
  <1>3. steps < Len(draws) /\ d = draws[steps + 1] /\ d \in {1, 2}
    BY <1>2, NextDraw
  <1>4. draws' = draws
    BY <1>1, <1>3
  <1>5. PICK w \in Ways(valid) :
          /\ Goes(valid, order, draws, w, Len(draws))
          /\ w[steps] = Here /\ w[Len(draws)].a = 0
    BY DEF WaysInv, Committing
  <1>6. Taking(valid, order[d], Here, w[steps + 1])
    <2>1. steps \in 0..(Len(draws) - 1)
      BY <1>3, <1>t
    <2> QED
      BY <1>3, <1>5, <2>1 DEF Goes
  <1>7. w[steps + 1] = Here'
    <2>1. Here.c = from /\ Here.a = amount
      BY DEF Here
    <2>2. Picks(order[d], Here.c, Here.a, n)
      BY <1>1, <2>1, ChosenPicks
    <2>3. order[d] \in [1..Cardinality(valid) -> valid]
      BY <1>3, OrderTypes
    <2>4. PICK m \in valid :
            /\ Picks(order[d], Here.c, Here.a, m)
            /\ w[steps + 1] = [c |-> [Here.c EXCEPT ![m] = @ - 1], a |-> Here.a - m]
      BY <1>6 DEF Taking
    <2>5. m = n
      BY <1>t, <2>2, <2>3, <2>4, PicksOnce
    <2> QED
      BY <1>1, <2>1, <2>4, <2>5 DEF Here
  <1>8. steps' <= Len(draws')
    BY <1>2, <1>3, <1>4, <1>t
  <1>9. Committing'
    BY <1>2, <1>4, <1>5, <1>7, <1>8 DEF Committing
  <1> QED
    BY <1>2, <1>4, <1>9 DEF WaysInv

\* The commit begins where the check began, with the same order.
LEMMA CommitBegins ==
  ASSUME CurrencyInv, OrderInv, OrderInv', WaysInv, pc = "check", amount = 0,
         UNCHANGED <<groupVars, callVars, draws>>, Loop("commit", values)
  PROVE  WaysInv'
  <1>1. /\ pc' = "commit" /\ from' = values /\ amount' = asked' /\ steps' = 0
        /\ UNCHANGED <<valid, strategy, stat, before, asked, draws>>
    BY DEF Loop, groupVars, callVars
  <1>2. values = before
    BY DEF CurrencyInv, NothingLost
  <1>3. Here' = Start
    BY <1>1, <1>2 DEF Here, Start
  <1>4. PICK w \in Ways(valid) :
          Goes(valid, order, draws, w, steps) /\ w[0] = Start /\ w[steps] = Here
    BY DEF WaysInv, Checked
  <1>5. Len(draws) = steps /\ Len(draws) \in Nat
    BY WayTypes DEF WaysInv, Checked
  <1>6. Here.a = 0
    BY DEF Here
  <1>7. Untied' = Untied
    BY <1>1 DEF Untied, Distinct
  <1>8. ASSUME Untied PROVE Committing'
    <2>1. order' = order
      <3>1. order \in OrdersOf(valid, strategy, stat, before)
        BY DEF OrderInv
      <3>2. order' \in OrdersOf(valid, strategy, stat, before)
        BY <1>1 DEF OrderInv
      <3> QED
        BY <1>8, <3>1, <3>2, SameOrder
    <2>2. steps' <= Len(draws')
      BY <1>1, <1>5
    <2> QED
      BY <1>1, <1>3, <1>4, <1>5, <1>6, <2>1, <2>2 DEF Committing
  <1> QED
    BY <1>1, <1>7, <1>8 DEF WaysInv

\* A check that begins has gone no way yet.
LEMMA CheckBegins ==
  ASSUME CurrencyInv, CurrencyInv', NEW a, NEW s, NEW c, Withdraw(a, s, c)
  PROVE  WaysInv'
  <1>1. /\ pc' = "check" /\ from' = before' /\ amount' = asked' /\ steps' = 0
        /\ draws' = <<>> /\ valid' = valid
    BY DEF Withdraw, Loop, groupVars, CurrencyInv, StepsArePaid
  <1>2. Here' = Start'
    BY <1>1 DEF Here, Start
  <1>3. Here' \in States(valid')
    BY <1>1, CurrencyAssumption DEF CurrencyInv, CurrencyTypeOK, Here, States, Counts
  <1>4. PICK y \in States(valid') : y = Here'
    BY <1>3
  <1>5. PICK w : w = [i \in Nat |-> y]
    OBVIOUS
  <1>6. w \in Ways(valid') /\ w[0] = y
    BY <1>4, <1>5 DEF Ways
  <1>7. Goes(valid', order', draws', w, 0)
    BY DEF Goes
  <1>8. Checked'
    BY <1>1, <1>2, <1>4, <1>6, <1>7 DEF Checked
  <1> QED
    BY <1>1, <1>8 DEF WaysInv

\* Each step keeps to the way.
LEMMA WaysStep ==
  CurrencyInv /\ CurrencyInv' /\ OrderInv /\ OrderInv' /\ WaysInv /\ [Next]_vars => WaysInv'
  <1> SUFFICES ASSUME CurrencyInv, CurrencyInv', OrderInv, OrderInv', WaysInv, [Next]_vars
               PROVE  WaysInv'
    OBVIOUS
  <1>0. ASSUME pc' = "idle" PROVE WaysInv'
    <2>1. draws' = <<>>
      BY <1>0 DEF CurrencyInv, StepsArePaid
    <2> QED
      BY <1>0, <2>1 DEF WaysInv
  <1>1. CASE Change
    BY <1>0, <1>1 DEF Change, Add, Clear, Sub, Idle, loopVars
  <1>2. ASSUME NEW a \in 0..MaxAmount, NEW s \in Strategies, NEW c \in BOOLEAN, Withdraw(a, s, c)
        PROVE  WaysInv'
    BY <1>2, CheckBegins
  <1>3. CASE ExpendOne
    <2>0. /\ pc \in {"check", "commit"} /\ pc' = pc /\ valid' = valid
          /\ UNCHANGED <<strategy, stat, before>>
      BY <1>3 DEF ExpendOne, CurrencyInv, CurrencyTypeOK, callVars
    <2>1. Here' \in States(valid')
      BY CurrencyAssumption DEF CurrencyInv, CurrencyTypeOK, Here, States, Counts
    <2>2. CASE pc = "check"
      BY <1>3, <2>0, <2>1, <2>2, CheckGoesOn
    <2>3. CASE pc = "commit" /\ Untied
      BY <1>3, <2>3, CommitGoesOn
    <2>4. CASE pc = "commit" /\ ~Untied
      <3>1. pc' = "commit" /\ ~Untied'
        BY <2>0, <2>4 DEF Untied, Distinct
      <3> QED
        BY <1>3, <3>1, OnesDrawn DEF WaysInv
    <2> QED
      BY <2>0, <2>2, <2>3, <2>4
  <1>4. CASE ExpendFails
    BY <1>0, <1>4 DEF ExpendFails, End
  <1>5. CASE LoopEnds
    <2>1. CASE End("ok")
      BY <1>0, <2>1 DEF End
    <2>2. CASE pc = "check" /\ UNCHANGED <<groupVars, callVars, draws>> /\ Loop("commit", values)
      BY <1>5, <2>2, CommitBegins DEF LoopEnds
    <2> QED
      BY <1>5, <2>1, <2>2 DEF LoopEnds
  <1>6. CASE UNCHANGED vars
    BY <1>6 DEF vars, groupVars, callVars, loopVars, WaysInv, Checked, Committing, Untied,
                Distinct, Here, Start
  <1> QED
    BY <1>1, <1>2, <1>3, <1>4, <1>5, <1>6 DEF Next, Contains, Strategies

\* A commit that still owes something finds a coin.
LEMMA CommitNeverFails ==
  ASSUME CurrencyInv, WaysInv, pc = "commit", Untied, ExpendFails
  PROVE  FALSE
  <1>1. PICK d \in Draws : \A n \in valid : ~Chosen(order[d], n)
    BY DEF ExpendFails
  <1>2. steps < Len(draws) /\ d = draws[steps + 1]
    BY NextDraw DEF ExpendFails
  <1>3. PICK w \in Ways(valid) : Goes(valid, order, draws, w, Len(draws)) /\ w[steps] = Here
    BY DEF WaysInv, Committing
  <1>4. steps \in 0..(Len(draws) - 1)
    BY <1>2, WayTypes
  <1>5. Taking(valid, order[d], Here, w[steps + 1])
    BY <1>2, <1>3, <1>4 DEF Goes
  <1>6. PICK n \in valid : Picks(order[d], Here.c, Here.a, n)
    BY <1>5 DEF Taking
  <1>7. Here.c = from /\ Here.a = amount
    BY DEF Here
  <1> QED
    BY <1>1, <1>6, <1>7, ChosenPicks

\* Withdraw does not fail half way: what the check on Copy found, the second
\* expendLoop finds again on the group, unless keys of the order are equal.
THEOREM CheckedWithdrawalsCommit == Spec => CheckedCommits
  <1>1. Init => OrderInv /\ WaysInv
    BY DEF Init, OrderInv, WaysInv
  <1>2. CurrencyInv /\ WaysInv /\ [Next]_vars
        => [pc = "commit" /\ pc' = "idle" /\ Untied => result' = "ok"]_vars
    <2> SUFFICES ASSUME CurrencyInv, WaysInv, Next, pc = "commit", pc' = "idle", Untied
                 PROVE  result' = "ok"
      OBVIOUS
    <2>1. ~ExpendFails
      BY CommitNeverFails
    <2>2. CASE LoopEnds
      BY <2>2 DEF LoopEnds, End
    <2>3. CASE ExpendOne
      BY <2>3 DEF ExpendOne
    <2> QED
      BY <2>1, <2>2, <2>3 DEF Next, Change, Add, Clear, Sub, Idle, Contains, Withdraw
  <1> QED
    BY <1>1, <1>2, InitHolds, NextHolds, OrderStep, WaysStep, PTL DEF Spec, CheckedCommits
================================================================================
