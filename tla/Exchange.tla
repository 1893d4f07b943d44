-------------------------------- MODULE Exchange -------------------------------
(*****************************************************************************)
(* What Client.Do of iodin.go promises its callers: one call at a time, each *)
(* request performed at most once and in order, each answer handed out at    *)
(* most once and in order, and to the call that asked for it, until a call   *)
(* has failed over an answer it could not read.  After that the answers may  *)
(* be those of earlier calls, or none.                                       *)
(*****************************************************************************)
EXTENDS Naturals

CONSTANT MaxDo   \* bound: calls

VARIABLES
  asked,      \* calls made
  busy,       \* the call in progress, or 0
  performed,  \* the newest request carried out
  answered,   \* the newest request whose answer was handed out
  slipped,    \* a call failed over an answer it could not read
  got         \* how the newest finished call ended

vars == <<asked, busy, performed, answered, slipped, got>>

Outcome == [call : 0..MaxDo, kind : {"answer", "nothing", "error"}, of : 0..MaxDo]

Init ==
  /\ asked = 0 /\ busy = 0 /\ performed = 0 /\ answered = 0
  /\ slipped = FALSE
  /\ got = [call |-> 0, kind |-> "error", of |-> 0]

Ask ==
  /\ busy = 0 /\ asked < MaxDo
  /\ asked' = asked + 1
  /\ busy' = asked + 1
  /\ UNCHANGED <<performed, answered, slipped, got>>

Perform ==
  /\ \E r \in 1..asked : r > performed /\ performed' = r
  /\ UNCHANGED <<asked, busy, answered, slipped, got>>

Finish(kind, of) ==
  /\ busy # 0
  /\ busy' = 0
  /\ got' = [call |-> busy, kind |-> kind, of |-> of]
  /\ UNCHANGED <<asked, performed>>

Answer ==
  \E r \in 1..performed :
    /\ r > answered
    /\ slipped \/ r = busy
    /\ answered' = r
    /\ Finish("answer", r)
    /\ UNCHANGED slipped

\* A call that returns no error, but no answer of the server either: it read nothing,
\* or bytes of several answers.
Nothing == slipped /\ Finish("nothing", 0) /\ UNCHANGED <<answered, slipped>>

Fail ==
  /\ Finish("error", 0)
  /\ slipped' \in {slipped, TRUE}
  /\ UNCHANGED answered

Next == Ask \/ Perform \/ Answer \/ Nothing \/ Fail

Spec == Init /\ [][Next]_vars
\* Every call returns.
FairSpec == Spec /\ WF_vars(Answer \/ Nothing \/ Fail)
================================================================================
