-------------------------------- MODULE Currency -------------------------------
(*****************************************************************************)
(* NominalGroup of currency.go: counts of coins or bills by nominal, and     *)
(* Withdraw, which looks on a copy whether a strategy can pay an amount and, *)
(* if asked to commit, lets the strategy pay it again from the group itself. *)
(*                                                                           *)
(* A strategy puts the nominals in an order at each of its two resets.  The  *)
(* order is made by sort.Slice, which is not stable, over a map, which is    *)
(* walked in any order: nominals with equal keys may change places between   *)
(* the check and the commit.                                                 *)
(*****************************************************************************)
EXTENDS Naturals, Sequences, FiniteSets

CONSTANTS
  Groups,      \* the sets of nominals SetValid is called with
  CountRange,  \* the width of a count: 2^64 in the code
  MaxAmount    \* bound: amounts asked for

ASSUME CurrencyAssumption ==
  /\ \A g \in Groups : g \subseteq Nat \ {0} /\ IsFiniteSet(g)
  /\ CountRange \in Nat \ {0}
  /\ MaxAmount \in Nat

Strategies == {"LeastCount", "MostAvailable", "Statistical", "Combine"}

VARIABLES
  valid,     \* the nominals of the group
  values,    \* their counts
  pc,        \* "idle", or which of the two loops runs
  strategy,  \* of the Withdraw in progress or just finished
  stat,      \* the counts ExpendStatistical goes by
  order,     \* its order; of S1 and S2 for ExpendCombine
  draws,     \* which of S1 and S2 the random numbers chose, step by step
  commit,
  from,      \* the counts the loop takes from: the copy, or values
  amount,    \* what the loop has still to pay
  asked,     \* the amount of the Withdraw
  before,    \* history: values when it began
  taken,     \* history: how many of each nominal the loop took
  paid,      \* history: what they are worth
  steps,     \* history: how many they are
  result     \* how the newest Withdraw ended

groupVars == <<valid, values>>
callVars == <<strategy, stat, commit, asked, before>>
loopVars == <<pc, order, draws, from, amount, taken, paid, steps>>
vars == <<groupVars, callVars, loopVars, result>>

Counts(v) == [v -> 0..(CountRange - 1)]
Zeros == [n \in valid |-> 0]

-----------------------------------------------------------------------------
(* order() and the strategies. *)

Orders == [1..Cardinality(valid) -> valid]

\* The orders sort.Slice may give: every nominal, the largest keys first.
SortedBy(key) ==
  {o \in Orders :
     /\ \A n \in valid : \E i \in DOMAIN o : o[i] = n
     /\ \A i, j \in DOMAIN o : i < j => key[o[i]] >= key[o[j]]}

ByNominal == SortedBy([n \in valid |-> n])
ByCount(counts) == SortedBy(counts)

\* Reset: S1 and S2 are the same except for ExpendCombine, which the tests build
\* of the first two strategies.
SmallestFirst(group) ==          \* mutant: ">" of order turned round
  IF strategy' = "LeastCount"
    THEN LET first == CHOOSE o \in ByNominal : TRUE
         IN {<<o, o>> : o \in {[i \in DOMAIN first |-> first[Len(first) + 1 - i]]}}
    ELSE {<<o, o>> : o \in ByCount(group)}

Resets(group) ==
  CASE strategy' = "LeastCount" -> {<<o, o>> : o \in ByNominal}
    [] strategy' = "MostAvailable" -> {<<o, o>> : o \in ByCount(group)}
    [] strategy' = "Statistical" -> {<<o, o>> : o \in ByCount(stat')}
    [] strategy' = "Combine" -> ByNominal \X ByCount(group)

\* The choice of this step.  The generator is seeded with the total, which is the
\* same for both loops: the commit draws the numbers of the check.
DrawsAgain ==                    \* mutant: the generator is seeded with the time
  IF strategy # "Combine" THEN {1} ELSE {1, 2}

Draws ==
  IF strategy # "Combine" THEN {1}
  ELSE IF steps < Len(draws) THEN {draws[steps + 1]} ELSE {1, 2}

\* expendOneOrdered: the first nominal that fits and is there.
FitsAnyway(n) == n <= amount     \* mutant: the count is not looked at

Fits(n) == n <= amount /\ from[n] > 0
Chosen(o, n) ==
  \E i \in DOMAIN o :
    /\ o[i] = n /\ Fits(n)
    /\ \A j \in 1..(i - 1) : ~Fits(o[j])

-----------------------------------------------------------------------------
(* The group outside Withdraw. *)

\* The history of the last Withdraw ends.
Idle ==
  /\ pc = "idle"
  /\ strategy' = "LeastCount" /\ stat' = Zeros /\ commit' = FALSE /\ asked' = 0
  /\ before' = Zeros /\ result' = "none"
  /\ UNCHANGED <<valid, loopVars>>

\* Of a nominal the group does not have: ErrNominalInvalid.
Add(n, count) ==
  /\ Idle
  /\ \/ n \in valid /\ values' = [values EXCEPT ![n] = (@ + count) % CountRange]
     \/ n \notin valid /\ UNCHANGED values

Clear ==
  /\ Idle
  /\ values' = Zeros

\* Nothing keeps Sub from wrapping below zero.
Sub(other) ==
  /\ Idle
  /\ values' = [n \in valid |-> (values[n] + CountRange - other[n]) % CountRange]

-----------------------------------------------------------------------------
(* Withdraw and Contains. *)

Loop(which, group) ==
  /\ pc' = which
  /\ order' \in Resets(group)
  /\ from' = group
  /\ amount' = asked'
  /\ taken' = Zeros /\ paid' = 0 /\ steps' = 0
  /\ UNCHANGED result

\* The check runs on Copy.
Withdraw(a, s, c) ==
  /\ pc = "idle" /\ result = "none"
  /\ strategy' = s /\ commit' = c /\ asked' = a /\ before' = values
  /\ stat' \in IF s = "Statistical" THEN Counts(valid) ELSE {Zeros}
  /\ Loop("check", values)
  /\ UNCHANGED <<groupVars, draws>>

Contains(a) == Withdraw(a, "LeastCount", FALSE)

ExpendOneInPlace ==              \* mutant: the check does not run on Copy
  /\ pc # "idle" /\ amount > 0
  /\ \E d \in Draws, n \in valid :
       /\ Chosen(order[d], n)
       /\ draws' = IF steps < Len(draws) THEN draws ELSE Append(draws, d)
       /\ from' = [from EXCEPT ![n] = @ - 1]
       /\ amount' = amount - n
       /\ taken' = [taken EXCEPT ![n] = @ + 1]
       /\ paid' = paid + n
  /\ steps' = steps + 1
  /\ values' = from'
  /\ UNCHANGED <<valid, callVars, pc, order, result>>

ExpendOne ==
  /\ pc # "idle" /\ amount > 0
  /\ \E d \in Draws, n \in valid :
       /\ Chosen(order[d], n)
       /\ draws' = IF steps < Len(draws) THEN draws ELSE Append(draws, d)
       /\ from' = [from EXCEPT ![n] = @ - 1]
       /\ amount' = amount - n
       /\ taken' = [taken EXCEPT ![n] = @ + 1]
       /\ paid' = paid + n
  /\ steps' = steps + 1
  /\ values' = IF pc = "commit" THEN from' ELSE values
  /\ UNCHANGED <<valid, callVars, pc, order, result>>

End(r) ==
  /\ pc' = "idle"
  /\ result' = r
  /\ order' = <<>> /\ draws' = <<>> /\ from' = Zeros /\ amount' = 0
  /\ taken' = Zeros /\ paid' = 0 /\ steps' = 0
  /\ UNCHANGED <<groupVars, callVars>>

ExpendFails ==
  /\ pc # "idle" /\ amount > 0
  /\ \E d \in Draws : \A n \in valid : ~Chosen(order[d], n)
  /\ End("ErrNominalCount")

LoopEnds ==
  /\ pc # "idle" /\ amount = 0
  /\ \/ /\ pc = "check" /\ commit
        /\ UNCHANGED <<groupVars, callVars, draws>>
        /\ Loop("commit", values)
     \/ /\ pc = "commit" \/ ~commit
        /\ End("ok")

-----------------------------------------------------------------------------
Init ==
  /\ valid \in Groups
  /\ values = Zeros
  /\ pc = "idle" /\ strategy = "LeastCount" /\ commit = FALSE
  /\ stat = Zeros /\ asked = 0 /\ before = Zeros
  /\ order = <<>> /\ draws = <<>> /\ from = Zeros
  /\ amount = 0 /\ paid = 0 /\ steps = 0
  /\ taken = Zeros
  /\ result = "none"

Change ==
  \/ \E n \in UNION Groups, count \in 0..(CountRange - 1) : Add(n, count)
  \/ Clear
  \/ \E other \in Counts(valid) : Sub(other)

Next ==
  \/ Change
  \/ \E a \in 0..MaxAmount : Contains(a)
  \/ \E a \in 0..MaxAmount, s \in Strategies, c \in BOOLEAN : Withdraw(a, s, c)
  \/ ExpendOne \/ ExpendFails \/ LoopEnds

Spec == Init /\ [][Next]_vars
================================================================================
