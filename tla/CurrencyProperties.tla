--------------------------- MODULE CurrencyProperties --------------------------
(* What a withdrawal promises. *)
EXTENDS Currency, FiniteSetsExt

Finished == pc = "idle" /\ result # "none"

CurrencyTypeOK ==
  /\ valid \in Groups
  /\ values \in Counts(valid) /\ stat \in Counts(valid)
  /\ from \in Counts(valid) /\ before \in Counts(valid) /\ taken \in Counts(valid)
  /\ pc \in {"idle", "check", "commit"}
  /\ strategy \in Strategies /\ commit \in BOOLEAN
  /\ order \in {<<>>} \cup (Orders \X Orders)
  /\ draws \in Seq({1, 2}) /\ Len(draws) <= MaxAmount
  /\ amount \in 0..MaxAmount /\ asked \in 0..MaxAmount /\ paid \in 0..MaxAmount
  /\ steps \in 0..MaxAmount
  /\ result \in {"none", "ok", "ErrNominalCount"}

\* No coin appears or is lost while a strategy takes coins: the check works on a
\* copy and leaves the group alone, the commit takes from the group exactly what
\* it hands out, and what was paid and what is owed make up what was asked.
NothingLost ==
  pc # "idle" =>
    /\ \A n \in valid : from[n] + taken[n] = before[n]
    /\ values = IF pc = "check" THEN before ELSE from
    /\ paid + amount = asked

\* The commit takes what the check found when the keys of the order are all
\* different: only coins that tie can make a checked withdrawal fail half way,
\* with coins already taken.
Distinct(key) == \A m, n \in valid : m # n => key[m] # key[n]
Untied ==
  CASE strategy = "LeastCount" -> TRUE
    [] strategy = "Statistical" -> Distinct(stat)
    [] OTHER -> Distinct(before)
CheckedCommits ==
  [][pc = "commit" /\ pc' = "idle" /\ Untied => result' = "ok"]_vars

\* What can be paid at all, by any choice of coins.
Worth(coins) == MapThenSumSet(LAMBDA n : n * coins[n], valid)
Payable(a) ==
  \E coins \in [valid -> 0..(CountRange - 1)] :
    (\A n \in valid : coins[n] <= before[n]) /\ Worth(coins) = a

\* A withdrawal that succeeds was possible; one with the largest nominals first
\* finds a way whenever there is one if each nominal divides the next.
Chain == \A m, n \in valid : m < n => n % m = 0
SaysWhetherPayable ==
  Finished =>
    /\ result = "ok" => Payable(asked)
    /\ strategy = "LeastCount" /\ Chain /\ result # "ok" => ~Payable(asked)
================================================================================
