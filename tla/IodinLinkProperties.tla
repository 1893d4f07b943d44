-------------------------- MODULE IodinLinkProperties --------------------------
(* What the program may rely on when it talks to iodin. *)
EXTENDS IodinLink

\* Do keeps the promise of Exchange, whatever is lost, long, or dies: the calls
\* of Do are its calls, the executed requests are performed.  A program that has
\* ended has no call in progress: its last one counts as failed.
Ended == phase = "exit" /\ got.call # asked
Promise == INSTANCE Exchange WITH
  busy <- IF do = "none" THEN 0 ELSE cur.id,
  got <- IF Ended THEN [call |-> asked, kind |-> "error", of |-> 0] ELSE got

KeepsPromise == Promise!FairSpec

\* As long as no call failed over a response, whatever is in the pipe answers the
\* call in progress, and between two calls the pipe is empty.
PipeHoldsOwnAnswer ==
  ~slipped /\ phase \notin {"term", "closed", "exit"} =>
    /\ do = "none" => responses = <<>>
    /\ \A i \in DOMAIN responses : responses[i].of = cur.id

\* A server does not outlive its program: it sees the end of its input, or it is
\* killed, and then Close comes back.
ServerEnds ==
  (phase \in {"exit", "term"}) ~> (server = "gone" /\ phase \in {"exit", "closed"})
================================================================================
