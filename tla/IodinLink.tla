------------------------------- MODULE IodinLink -------------------------------
(*****************************************************************************)
(* A Go program and the iodin process it starts: Client (iodin.go) under     *)
(* iodinUart and the lock of mdb.Tx, two pipes, and Server::run with main    *)
(* (server.rs, main.rs).  The hardware behind Server::exec is reduced to its *)
(* outcome: GpioMdb is the module that looks inside.                         *)
(*                                                                           *)
(* A response is a length of four bytes and a body, written at once.  The    *)
(* bytes matter only after a response longer than the client's buffer: the   *)
(* client leaves its body in the pipe, and every later read of four bytes    *)
(* takes what is there for a length.  Text is never a small number, so such  *)
(* a length is too long; the data of an answer may be any number.            *)
(*****************************************************************************)
EXTENDS Naturals, Sequences

CONSTANTS
  Callers,   \* goroutines that use mdb.Tx
  MaxDo,     \* bound: calls of Do
  MaxLong,   \* bound: responses longer than 256 bytes
  None

ASSUME LinkAssumption == MaxDo \in Nat /\ MaxLong \in Nat /\ None \notin Callers

VARIABLES
  phase,     \* of the Go program
  want,      \* callers in mdb.Tx that wait for mdb.lk
  lk,        \* who holds mdb.lk
  do,        \* where Do is: what it reads next
  cur,       \* its request: [id, command]
  asked,     \* calls of Do so far
  requests,  \* the pipe to the server
  responses, \* the pipe from the server
  farEnds,   \* the program still holds the server's ends of both pipes
  server,    \* what the server does
  serving,   \* the request it has read
  mdb,       \* Server.mdb is Some
  long,      \* long responses so far
  performed, \* history: the newest request executed
  answered,  \* history: the newest request whose response Do has returned
  slipped,   \* history: Do has failed over a response it could not read
  got        \* history: how the newest finished Do ended

clientVars == <<phase, want, lk, do, cur, asked, answered, slipped, got>>
serverVars == <<server, serving, mdb, long, performed>>
vars == <<clientVars, requests, responses, farEnds, serverVars>>

Ids == 0..MaxDo
Commands == {"MDB_OPEN", "MDB_RESET", "MDB_TX", "STOP"}
Statuses == {"OK", "ERR_INPUT", "ERR_HARDWARE"}
Request == [id : Ids, command : Commands]
NoRequest == [id |-> 0, command |-> "STOP"]

\* What the pipe still holds of a response.  "good", "long": all of it; "body": a
\* good one but for its length.  The others begin where a reader of lengths does
\* not expect it: "cut" in the length of a good one or at its body, "data" further
\* on, "text" in the body of a long one; "tail" is one to three bytes.
Rest(kind, id) == [kind |-> kind, of |-> id]
Kinds == {"good", "body", "long", "cut", "data", "text", "tail"}

\* What a read may leave of a response of which that much was there.  No read
\* takes more than 256 bytes.
Within(kind) ==
  CASE kind = "good" -> {"cut", "data", "tail"}
    [] kind \in {"cut", "data"} -> {"data", "tail"}
    [] kind = "long" -> {"text"}
    [] kind = "text" -> {"text", "tail"}
    [] OTHER -> {"tail"}

LinkTypeOK ==
  /\ phase \in {"open", "break", "run", "stop", "term", "closed", "exit"}
  /\ want \subseteq Callers /\ lk \in Callers \cup {None}
  /\ do \in {"none", "write", "length", "body", "bytes"}
  /\ cur \in Request /\ serving \in Request
  /\ asked \in Ids /\ performed \in Ids /\ answered \in Ids
  /\ requests \in Seq(Request)
  /\ responses \in Seq([kind : Kinds, of : Ids])
  /\ farEnds \in BOOLEAN /\ mdb \in BOOLEAN /\ slipped \in BOOLEAN
  /\ server \in {"read", "exec", "gone"}
  /\ long \in 0..MaxLong
  /\ got \in [call : Ids, kind : {"answer", "nothing", "error"}, of : Ids]
  /\ do # "none" => cur.id = asked
  /\ phase = "run" => (lk # None <=> do # "none")

\* A pipe is broken when nobody holds its other end any more.
ServerEndsClosed == server = "gone" /\ ~farEnds
ClientEndsClosed == phase \in {"term", "closed", "exit"}

-----------------------------------------------------------------------------
(* Client.Do. *)

\* Mutant: the lock is kept when Do fails.
KeepsLock(failed) ==
  CASE phase = "open" -> phase' = (IF failed THEN "exit" ELSE "break") /\ UNCHANGED lk
    [] phase = "break" -> phase' = "run" /\ UNCHANGED lk
    [] phase = "stop" -> phase' = "term" /\ UNCHANGED lk
    [] OTHER -> lk' = (IF failed THEN lk ELSE None) /\ UNCHANGED phase

\* Where a return of Do leaves the program.  Open that fails ends it; Break's
\* error and the response's status are not looked at.
Continue(failed) ==
  CASE phase = "open" -> phase' = (IF failed THEN "exit" ELSE "break") /\ UNCHANGED lk
    [] phase = "break" -> phase' = "run" /\ UNCHANGED lk
    [] phase = "stop" -> phase' = "term" /\ UNCHANGED lk
    [] OTHER -> lk' = None /\ UNCHANGED phase

Return(kind, of) ==
  /\ do' = "none"
  /\ got' = [call |-> cur.id, kind |-> kind, of |-> of]
  /\ Continue(kind = "error")
  /\ UNCHANGED <<want, cur, asked>>

Do(command) ==
  /\ do = "none" /\ asked < MaxDo
  /\ asked' = asked + 1
  /\ cur' = [id |-> asked + 1, command |-> command]
  /\ do' = "write"
  /\ UNCHANGED <<answered, slipped, got, requests, responses, farEnds, serverVars>>

Start ==
  /\ \/ phase = "open" /\ Do("MDB_OPEN")
     \/ phase = "break" /\ Do("MDB_RESET")
  /\ UNCHANGED <<phase, want, lk>>

WantTx(c) ==
  /\ phase = "run" /\ c \notin want /\ lk # c
  /\ want' = want \cup {c}
  /\ UNCHANGED <<phase, lk, do, cur, asked, answered, slipped, got, requests,
                 responses, farEnds, serverVars>>

\* mdb.Tx takes the lock and calls Do inside it.
Tx(c) ==
  /\ phase = "run" /\ c \in want /\ lk = None
  /\ want' = want \ {c} /\ lk' = c
  /\ Do("MDB_TX")
  /\ UNCHANGED phase

\* DecRef of the last user; mdb-cli does it when nothing else runs.
Close ==
  /\ phase = "run" /\ want = {} /\ lk = None
  /\ phase' = "stop"
  /\ Do("STOP")
  /\ UNCHANGED <<want, lk>>

Fails(slip) ==
  /\ Return("error", 0)
  /\ slipped' = (slipped \/ slip)
  /\ UNCHANGED answered

\* The request is written at once; a broken pipe is an error.
Write ==
  /\ do = "write"
  /\ \/ /\ ~ServerEndsClosed
        /\ requests' = Append(requests, cur) /\ do' = "length"
        /\ UNCHANGED <<phase, want, lk, cur, asked, answered, slipped, got>>
     \/ /\ ServerEndsClosed /\ Fails(FALSE)
        /\ UNCHANGED requests
  /\ UNCHANGED <<responses, farEnds, serverVars>>

\* Do returns no error, but not what the server answered.
Nothing == Return("nothing", 0) /\ UNCHANGED <<answered, slipped>>

\* The pipe from its i-th response on, of which that kind of a rest is left.
From(i, kind) == [SubSeq(responses, i, Len(responses)) EXCEPT ![1].kind = kind]

\* Four bytes of a response that does not begin with its length.
TakeFour(kind) ==
  \/ responses' = Tail(responses)
  \/ \E left \in Within(kind) : responses' = From(1, left)

\* A read of four bytes.  A tail with a response behind it takes the rest of its
\* four bytes from there, which is too long a length; a tail alone is a short
\* read, which is no error: the annotation of nil is nil.
ReadLength ==
  /\ do = "length" /\ responses # <<>>
  /\ LET kind == Head(responses).kind IN
     \/ /\ kind = "good"
        /\ responses' = From(1, "body") /\ do' = "body"
        /\ UNCHANGED <<phase, want, lk, cur, asked, answered, slipped, got>>
     \/ /\ kind = "long"
        /\ responses' = From(1, "text") /\ Fails(TRUE)
     \/ /\ kind \in {"cut", "data", "text"}
        /\ TakeFour(kind) /\ Fails(TRUE)
     \/ /\ kind = "data"              \* a length of 0 reads nothing and is no error
        /\ TakeFour(kind) /\ Nothing
     \/ /\ kind = "data"              \* a length the buffer can hold
        /\ TakeFour(kind) /\ do' = "bytes"
        /\ UNCHANGED <<phase, want, lk, cur, asked, answered, slipped, got>>
     \/ /\ kind = "tail" /\ Len(responses) = 1
        /\ responses' = <<>> /\ Nothing
     \/ /\ kind = "tail" /\ Len(responses) > 1
        /\ \/ /\ responses[2].kind = "good"
              /\ \E left \in {"cut", "tail"} : responses' = From(2, left)
           \/ /\ responses[2].kind = "long"
              /\ responses' = From(2, "text")
        /\ Fails(TRUE)
  /\ UNCHANGED <<requests, farEnds, serverVars>>

\* The body follows its length: the server writes both at once.
ReadBody ==
  /\ do = "body"
  /\ responses' = Tail(responses)
  /\ answered' = Head(responses).of
  /\ Return("answer", Head(responses).of)
  /\ UNCHANGED <<slipped, requests, farEnds, serverVars>>

\* As many bytes as data was taken for: whatever is there, if need be less, which
\* is an error.  They may parse as a response nobody has sent.
ReadBytes ==
  /\ do = "bytes"
  /\ \E i \in 1..Len(responses) :
       /\ \A j \in 1..(i - 1) : responses[j].kind # "long"
       /\ \/ /\ responses[i].kind # "long"
             /\ responses' = SubSeq(responses, i + 1, Len(responses))
          \/ \E left \in Within(responses[i].kind) : responses' = From(i, left)
  /\ Fails(TRUE) \/ Nothing
  /\ UNCHANGED <<requests, farEnds, serverVars>>

\* Mutant: a deadline on the pipe, as the comment at the top of Do has it.
GivesUp ==
  /\ do = "length" /\ responses = <<>>
  /\ Fails(FALSE)
  /\ UNCHANGED <<requests, responses, farEnds, serverVars>>

\* EOF.
ReadEnd ==
  /\ do \in {"length", "bytes"} /\ responses = <<>> /\ ServerEndsClosed
  /\ Fails(FALSE)
  /\ UNCHANGED <<requests, responses, farEnds, serverVars>>

-----------------------------------------------------------------------------
(* The end of the program, and its garbage collector. *)

\* The process ends at any moment, without STOP.
Exit ==
  /\ phase \in {"open", "break", "run", "stop", "term"}
  /\ phase' = "exit"
  /\ do' = "none" /\ want' = {} /\ lk' = None /\ farEnds' = FALSE
  /\ UNCHANGED <<cur, asked, answered, slipped, got, requests, responses, serverVars>>

\* NewClient never closes the ends it gave to the child; the finalizers of the
\* two os.File do, whenever they run.
Collect ==
  /\ farEnds
  /\ farEnds' = FALSE
  /\ UNCHANGED <<clientVars, requests, responses, serverVars>>

\* After STOP: both ends closed, SIGTERM, five seconds, SIGKILL, Wait.
Signal ==
  /\ phase = "term" /\ server # "gone"
  /\ server' = "gone"
  /\ UNCHANGED <<clientVars, requests, responses, farEnds, serving, mdb, long, performed>>

Wait ==
  /\ phase = "term" /\ server = "gone"
  /\ phase' = "closed"
  /\ UNCHANGED <<want, lk, do, cur, asked, answered, slipped, got, requests,
                 responses, farEnds, serverVars>>

-----------------------------------------------------------------------------
(* Server::run. *)

RecvIgnoresEnd ==             \* mutant: EOF is read again
  /\ server = "read" /\ requests # <<>>
  /\ serving' = Head(requests) /\ requests' = Tail(requests)
  /\ server' = "exec"
  /\ UNCHANGED <<clientVars, responses, farEnds, mdb, long, performed>>

Recv ==
  /\ server = "read"
  /\ \/ /\ requests # <<>>
        /\ serving' = Head(requests) /\ requests' = Tail(requests)
        /\ server' = "exec"
     \/ /\ requests = <<>> /\ ClientEndsClosed                   \* EOF
        /\ server' = "gone"
        /\ UNCHANGED <<serving, requests>>
  /\ UNCHANGED <<clientVars, responses, farEnds, mdb, long, performed>>

\* The status exec may give, and whether the driver is open after it.
Executes(status) ==
  CASE serving.command = "STOP" -> status = "OK" /\ UNCHANGED mdb
    [] serving.command = "MDB_OPEN" -> mdb' = (status = "OK")
    [] OTHER -> /\ IF mdb THEN status \in {"OK", "ERR_HARDWARE"} ELSE status = "ERR_INPUT"
                /\ UNCHANGED mdb

\* exec, then the response in one write; a long one is the text of an error.  A
\* write nobody can read ends run, and STOP ends it after its response.
Exec ==
  /\ server = "exec"
  /\ \E status \in Statuses :
       /\ Executes(status)
       /\ \/ /\ UNCHANGED long
             /\ responses' = IF ClientEndsClosed THEN responses
                             ELSE Append(responses, Rest("good", serving.id))
          \/ /\ status = "ERR_HARDWARE" /\ long < MaxLong /\ ~ClientEndsClosed
             /\ long' = long + 1
             /\ responses' = Append(responses, Rest("long", serving.id))
  /\ performed' = serving.id
  /\ server' = IF serving.command = "STOP" \/ ClientEndsClosed THEN "gone" ELSE "read"
  /\ UNCHANGED <<clientVars, requests, farEnds, serving>>

\* A panic inside exec: the process ends without a response.
Panic ==
  /\ server = "exec" /\ serving.command = "MDB_TX" /\ mdb
  /\ server' = "gone"
  /\ performed' = serving.id
  /\ UNCHANGED <<clientVars, requests, responses, farEnds, serving, mdb, long>>

-----------------------------------------------------------------------------
Init ==
  /\ phase = "open" /\ want = {} /\ lk = None
  /\ do = "none" /\ cur = NoRequest /\ asked = 0
  /\ requests = <<>> /\ responses = <<>> /\ farEnds = TRUE
  /\ server = "read" /\ serving = NoRequest /\ mdb = FALSE /\ long = 0
  /\ performed = 0 /\ answered = 0 /\ slipped = FALSE
  /\ got = [call |-> 0, kind |-> "error", of |-> 0]

Talk == Write \/ ReadLength \/ ReadBody \/ ReadBytes \/ ReadEnd
Serve == Recv \/ Exec \/ Panic

Next ==
  \/ Start \/ \E c \in Callers : WantTx(c) \/ Tx(c)
  \/ Close \/ Talk \/ Exit \/ Collect \/ Signal \/ Wait \/ Serve

Spec == Init /\ [][Next]_vars

\* Do and the server run on, the collector runs some day (the runtime forces
\* it every two minutes), and SIGKILL works.
FairSpec ==
  /\ Spec
  /\ WF_vars(Talk) /\ WF_vars(Serve) /\ WF_vars(Collect)
  /\ WF_vars(Signal) /\ WF_vars(Wait)
================================================================================
