---------------------------- MODULE IodinLink_proofs ----------------------------
(*****************************************************************************)
(* Proofs about the link between the Go program and iodin, for any callers,  *)
(* any number of calls and any number of long responses.                     *)
(*****************************************************************************)
EXTENDS IodinLinkProperties, SequenceTheorems, TLAPS

Open == ~ClientEndsClosed

-----------------------------------------------------------------------------
(***************************************************************************)
(* The pipe from the server: whole responses one behind the other, except  *)
(* that the first may have lost its beginning.                             *)
(***************************************************************************)
Lefts == [kind : Kinds, of : Ids]

\* Only of the first response something may be missing.
Shaped(s) == \A i \in 2..Len(s) : s[i].kind \in {"good", "long"}

\* Everything answers a request of from + 1 to upto, in their order.
Numbers(s, from, upto) ==
  /\ \A i \in 1..Len(s) : s[i].of \in 1..upto /\ from < s[i].of
  /\ \A i, j \in 1..Len(s) : i < j => s[i].of < s[j].of

\* What is left of a pipe when its first responses are taken.
LEMMA SuffixPipe ==
  ASSUME NEW s \in Seq(Lefts), NEW k \in 1..(Len(s) + 1),
         NEW from \in Nat, NEW upto \in Nat,
         Shaped(s), Numbers(s, from, upto)
  PROVE  LET t == SubSeq(s, k, Len(s))
         IN /\ t \in Seq(Lefts) /\ Shaped(t) /\ Numbers(t, from, upto)
            /\ Len(t) = Len(s) - k + 1
            /\ \A i \in 1..Len(t) : t[i] = s[i + k - 1] /\ i + k - 1 \in 1..Len(s)
  <1> DEFINE t == SubSeq(s, k, Len(s))
  <1>1. /\ t \in Seq(Lefts) /\ Len(t) = Len(s) - k + 1
        /\ \A i \in 1..Len(t) : t[i] = s[i + k - 1] /\ i + k - 1 \in 1..Len(s)
    OBVIOUS
  <1> HIDE DEF t
  <1>2. ASSUME NEW i \in 1..Len(t) PROVE t[i].of \in 1..upto /\ from < t[i].of
    <2>1. t[i] = s[i + k - 1] /\ i + k - 1 \in 1..Len(s)
      BY <1>1
    <2> QED
      BY <2>1 DEF Numbers
  <1>3. ASSUME NEW i \in 1..Len(t), NEW j \in 1..Len(t), i < j
        PROVE  t[i].of < t[j].of
    <2>1. t[i] = s[i + k - 1] /\ i + k - 1 \in 1..Len(s)
      BY <1>1
    <2>2. t[j] = s[j + k - 1] /\ j + k - 1 \in 1..Len(s)
      BY <1>1
    <2>3. i + k - 1 < j + k - 1
      BY <1>3
    <2> QED
      BY <2>1, <2>2, <2>3 DEF Numbers
  <1>4. ASSUME NEW i \in 2..Len(t) PROVE t[i].kind \in {"good", "long"}
    <2>1. t[i] = s[i + k - 1] /\ i + k - 1 \in 2..Len(s)
      BY <1>1
    <2> QED
      BY <2>1 DEF Shaped
  <1> QED
    BY <1>1, <1>2, <1>3, <1>4 DEF t, Shaped, Numbers

\* The first response of a pipe loses its beginning.
LEMMA CutPipe ==
  ASSUME NEW s \in Seq(Lefts), s # <<>>, NEW kind \in Kinds,
         NEW from \in Nat, NEW upto \in Nat,
         Shaped(s), Numbers(s, from, upto)
  PROVE  LET t == [s EXCEPT ![1].kind = kind]
         IN /\ t \in Seq(Lefts) /\ Shaped(t) /\ Numbers(t, from, upto)
            /\ t # <<>> /\ t[1] = Rest(kind, s[1].of)
            /\ Len(t) = Len(s)
  <1> DEFINE t == [s EXCEPT ![1].kind = kind]
  <1>0. 1 \in 1..Len(s) /\ s[1] \in Lefts
    OBVIOUS
  <1>1. /\ [s[1] EXCEPT !.kind = kind] = Rest(kind, s[1].of)
        /\ Rest(kind, s[1].of) \in Lefts
    BY <1>0 DEF Lefts, Rest
  <1>2. /\ t \in Seq(Lefts) /\ Len(t) = Len(s) /\ t # <<>>
        /\ t[1] = [s[1] EXCEPT !.kind = kind]
        /\ \A i \in 2..Len(s) : t[i] = s[i]
    BY <1>0, <1>1
  <1>3. \A i \in 1..Len(s) : t[i].of = s[i].of
    BY <1>1, <1>2 DEF Rest
  <1> HIDE DEF t
  <1>4. Shaped(t) /\ Numbers(t, from, upto)
    BY <1>2, <1>3 DEF Shaped, Numbers
  <1> QED
    BY <1>1, <1>2, <1>4 DEF t

\* The response to a newer request joins the pipe.
LEMMA AppendPipe ==
  ASSUME NEW s \in Seq(Lefts), NEW kind \in {"good", "long"}, NEW id \in Ids,
         NEW from \in Nat, NEW upto \in Nat, from <= upto, upto < id,
         Shaped(s), Numbers(s, from, upto)
  PROVE  LET t == Append(s, Rest(kind, id))
         IN /\ t \in Seq(Lefts) /\ Shaped(t) /\ Numbers(t, from, id)
            /\ t # <<>>
            /\ s = <<>> => t = <<Rest(kind, id)>>
            /\ s # <<>> => t[1] = s[1]
  <1> DEFINE t == Append(s, Rest(kind, id))
  <1>0. id \in Nat
    BY LinkAssumption DEF Ids
  <1>1. Rest(kind, id) \in Lefts /\ Rest(kind, id).of = id /\ Rest(kind, id).kind = kind
    BY DEF Rest, Lefts, Kinds
  <1>2. /\ t \in Seq(Lefts) /\ Len(t) = Len(s) + 1 /\ t # <<>> /\ Len(s) \in Nat
        /\ t[Len(s) + 1] = Rest(kind, id)
        /\ \A i \in 1..Len(s) : t[i] = s[i]
    BY <1>1
  <1>3. s = <<>> => t = <<Rest(kind, id)>>
    BY <1>1
  <1> HIDE DEF t
  <1>7. s # <<>> => t[1] = s[1]
    BY <1>2
  <1>4. ASSUME NEW i \in 1..Len(t) PROVE t[i].of \in 1..id /\ from < t[i].of
    <2>1. CASE i \in 1..Len(s)
      <3>1. t[i].of \in 1..upto /\ from < t[i].of
        BY <1>2, <2>1 DEF Numbers
      <3> QED
        BY <1>0, <3>1
    <2>2. CASE i = Len(s) + 1
      BY <1>0, <1>1, <1>2, <2>2
    <2> QED
      BY <1>2, <2>1, <2>2
  <1>5. ASSUME NEW i \in 1..Len(t), NEW j \in 1..Len(t), i < j
        PROVE  t[i].of < t[j].of
    <2>1. i \in 1..Len(s) /\ t[i] = s[i]
      BY <1>2, <1>5
    <2>2. t[i].of \in 1..upto
      BY <2>1 DEF Numbers
    <2>3. CASE j \in 1..Len(s)
      BY <1>2, <1>5, <2>1, <2>3 DEF Numbers
    <2>4. CASE j = Len(s) + 1
      BY <1>0, <1>1, <1>2, <2>2, <2>4
    <2> QED
      BY <1>2, <2>3, <2>4
  <1>6. ASSUME NEW i \in 2..Len(t) PROVE t[i].kind \in {"good", "long"}
    BY <1>1, <1>2 DEF Shaped
  <1> QED
    BY <1>2, <1>3, <1>4, <1>5, <1>6, <1>7 DEF t, Shaped, Numbers

-----------------------------------------------------------------------------
(***************************************************************************)
(* The inductive invariant.                                                *)
(***************************************************************************)
\* Who is in Do, and who holds the lock.
Held ==
  /\ phase # "run" => lk = None
  /\ ClientEndsClosed => do = "none"
  /\ do # "none" => asked > 0

\* The calls are numbered as they are made, and the server is behind them.
Numbered ==
  /\ cur.id = asked
  /\ phase # "exit" => got.call = IF do = "none" THEN asked ELSE asked - 1
  /\ performed <= asked /\ answered <= performed
  /\ server = "exec" => performed < serving.id /\ serving.id <= asked
  /\ \A i \in 1..Len(requests) :
       /\ requests[i].id \in 1..asked /\ performed < requests[i].id
       /\ server = "exec" => serving.id < requests[i].id
  /\ \A i, j \in 1..Len(requests) : i < j => requests[i].id < requests[j].id
  /\ do = "write" =>
       /\ performed < asked /\ (server = "exec" => serving.id < asked)
       /\ \A i \in 1..Len(requests) : requests[i].id < asked

\* The pipe holds what is left of responses nobody has got; only ReadBody finds
\* the body of one at its head.
Piped ==
  /\ Shaped(responses)
  /\ Numbers(responses, answered, performed)
  /\ do = "body" => responses # <<>> /\ responses[1].kind = "body"
  /\ Open /\ do # "body" /\ responses # <<>> => responses[1].kind # "body"

\* As long as no call has failed over a response, the call in progress owns
\* everything: the request, the server, the response.
OneCall ==
  ~slipped /\ Open =>
    /\ do # "bytes"
    /\ \/ /\ responses = <<>>
          /\ \/ server = "gone"
             \/ do \in {"none", "write"} /\ server = "read" /\ requests = <<>>
             \/ do = "length" /\ server = "read" /\ requests = <<cur>>
             \/ do = "length" /\ server = "exec" /\ requests = <<>> /\ serving = cur
       \/ /\ server = "gone" \/ (server = "read" /\ requests = <<>>)
          /\ \/ /\ do = "length"
                /\ responses \in {<<Rest("good", cur.id)>>, <<Rest("long", cur.id)>>}
             \/ do = "body" /\ responses = <<Rest("body", cur.id)>>

IInv == LinkTypeOK /\ Held /\ Numbered /\ Piped /\ OneCall

\* The start of both processes.
LEMMA InitInv == Init => IInv
  <1> SUFFICES ASSUME Init PROVE IInv
    OBVIOUS
  <1>1. LinkTypeOK
    <2>1. 0 \in Ids /\ 0 \in 0..MaxLong
      BY LinkAssumption DEF Ids
    <2>2. NoRequest \in Request
      BY <2>1 DEF NoRequest, Request, Commands
    <2>3. got \in [call : Ids, kind : {"answer", "nothing", "error"}, of : Ids]
      BY <2>1 DEF Init
    <2> QED
      BY <2>1, <2>2, <2>3, EmptySeq DEF Init, LinkTypeOK
  <1>2. Held /\ Numbered
    BY DEF Init, Held, Numbered, NoRequest, ClientEndsClosed
  <1>3. Piped /\ OneCall
    BY DEF Init, Piped, OneCall, Shaped, Numbers
  <1> QED
    BY <1>1, <1>2, <1>3 DEF IInv

\* A call of Do gets the next number.
LEMMA DoStep ==
  ASSUME IInv, NEW command \in Commands, Do(command), Open
  PROVE  /\ Numbered' /\ Piped' /\ (Open' => OneCall')
         /\ do' = "write" /\ asked' \in Ids /\ asked' > 0 /\ cur' \in Request
         /\ cur'.id = asked' /\ requests' \in Seq(Request)
         /\ UNCHANGED <<answered, slipped, got, responses, farEnds, serverVars>>
  <1> USE DEF Do
  <1>1. /\ do = "none" /\ do' = "write" /\ asked' = asked + 1 /\ asked \in Nat
        /\ asked' \in Ids /\ cur' = [id |-> asked', command |-> command]
        /\ cur' \in Request /\ cur'.id = asked' /\ requests \in Seq(Request)
    BY LinkAssumption DEF IInv, LinkTypeOK, Ids, Request
  <1>2. UNCHANGED <<answered, slipped, got, requests, responses, farEnds, server, serving,
                    mdb, long, performed>>
    BY DEF serverVars
  <1>3. Numbered'
    <2>1. phase # "exit" /\ got.call = asked
      BY <1>1 DEF IInv, Numbered, Open, ClientEndsClosed
    <2>2. /\ performed \in Nat /\ performed <= asked /\ answered <= performed
          /\ server = "exec" => serving.id \in Nat /\ serving.id <= asked
      BY LinkAssumption DEF IInv, Numbered, LinkTypeOK, Ids, Request
    <2>3. \A i \in 1..Len(requests) : requests[i].id \in 1..asked
      BY DEF IInv, Numbered
    <2> QED
      BY <1>1, <1>2, <2>1, <2>2, <2>3 DEF IInv, Numbered
  <1>4. Piped'
    BY <1>1, <1>2 DEF IInv, Piped, Numbers, Shaped
  <1>5. Open' => OneCall'
    BY <1>1, <1>2 DEF IInv, OneCall
  <1> QED
    BY <1>1, <1>2, <1>3, <1>4, <1>5

\* The program: its start, the callers of mdb.Tx and Close.
LEMMA CallsStep ==
  ASSUME IInv,
         Start \/ (\E c \in Callers : WantTx(c) \/ Tx(c)) \/ Close
  PROVE  IInv'
  <1>1. CASE Start
    <2>1. PICK command \in Commands : Do(command)
      BY <1>1 DEF Start, Commands
    <2>2. phase \in {"open", "break"} /\ UNCHANGED <<phase, want, lk>> /\ Open /\ Open'
      BY <1>1 DEF Start, Open, ClientEndsClosed
    <2> QED
      BY <2>1, <2>2, DoStep DEF IInv, LinkTypeOK, Held, Open, serverVars
  <1>2. ASSUME NEW c \in Callers, WantTx(c) PROVE IInv'
    BY <1>2 DEF WantTx, IInv, LinkTypeOK, Held, Numbered, Piped, OneCall, Open,
                ClientEndsClosed, serverVars
  <1>3. ASSUME NEW c \in Callers, Tx(c) PROVE IInv'
    <2>1. Do("MDB_TX") /\ "MDB_TX" \in Commands
      BY <1>3 DEF Tx, Commands
    <2>2. phase = "run" /\ phase' = "run" /\ want' = want \ {c} /\ lk' = c /\ Open /\ Open'
      BY <1>3 DEF Tx, Open, ClientEndsClosed
    <2> QED
      BY <1>3, <2>1, <2>2, DoStep, LinkAssumption
      DEF IInv, LinkTypeOK, Held, Open, serverVars
  <1>4. CASE Close
    <2>1. Do("STOP") /\ "STOP" \in Commands
      BY <1>4 DEF Close, Commands
    <2>2. phase = "run" /\ phase' = "stop" /\ lk = None /\ UNCHANGED <<want, lk>>
          /\ Open /\ Open'
      BY <1>4 DEF Close, Open, ClientEndsClosed
    <2> QED
      BY <2>1, <2>2, DoStep DEF IInv, LinkTypeOK, Held, Open, serverVars
  <1> QED
    BY <1>1, <1>2, <1>3, <1>4

\* A return of Do leaves the lock where its caller expects it.
LEMMA ReturnStep ==
  ASSUME IInv, do # "none",
         NEW kind \in {"answer", "nothing", "error"}, NEW of \in Ids,
         Return(kind, of)
  PROVE  /\ do' = "none" /\ got' = [call |-> cur.id, kind |-> kind, of |-> of]
         /\ got' \in [call : Ids, kind : {"answer", "nothing", "error"}, of : Ids]
         /\ phase' \in {"break", "run", "term", "exit"} /\ lk' \in Callers \cup {None}
         /\ phase' = "run" => lk' = None
         /\ phase' # "run" => lk' = None
         /\ phase' = "exit" => phase = "open" /\ kind = "error"
         /\ got'.call = asked /\ UNCHANGED <<want, cur, asked>>
         /\ Held' /\ Open
  <1>1. Open /\ phase \in {"open", "break", "run", "stop"}
    BY DEF IInv, Held, Open, LinkTypeOK, ClientEndsClosed
  <1>2. /\ phase' \in {"break", "run", "term", "exit"} /\ lk' \in {lk, None}
        /\ phase' = "run" => lk' = None
        /\ phase' = "exit" => phase = "open" /\ kind = "error"
    BY <1>1 DEF Return, Continue, IInv, Held
  <1>3. phase' # "run" => lk' = None
    BY <1>1 DEF Return, Continue, IInv, Held
  <1> QED
    BY <1>1, <1>2, <1>3
    DEF Return, IInv, Held, LinkTypeOK, Numbered, Request, ClientEndsClosed, Open

\* Do returns with the numbers of the requests as they are.
LEMMA ReturnNumbers ==
  ASSUME IInv, do # "none", Open, do' = "none", got'.call = asked,
         UNCHANGED <<cur, asked, requests, server, serving, performed>>,
         answered' \in Nat, answered' <= performed
  PROVE  Numbered'
  BY DEF IInv, Numbered

\* What a return of Do without an answer needs to keep the invariant: the pipe is in
\* order, and if it does not hold what OneCall says, the call has slipped.
LEMMA ReturnKeepsInv ==
  ASSUME IInv, do # "none", NEW kind \in {"nothing", "error"}, Return(kind, 0),
         slipped' \in BOOLEAN, UNCHANGED answered,
         responses' \in Seq(Lefts), Shaped(responses'),
         Numbers(responses', answered, performed),
         responses' # <<>> => responses'[1].kind # "body",
         slipped' \/ (responses' = <<>> /\ server = "gone"),
         UNCHANGED <<requests, farEnds, serverVars>>
  PROVE  IInv'
  <1>1. 0 \in Ids
    BY LinkAssumption DEF Ids
  <1>2. /\ do' = "none" /\ got' \in [call : Ids, kind : {"answer", "nothing", "error"}, of : Ids]
        /\ phase' \in {"break", "run", "term", "exit"} /\ lk' \in Callers \cup {None}
        /\ phase' = "run" => lk' = None
        /\ got'.call = asked /\ UNCHANGED <<want, cur, asked>>
        /\ Held' /\ Open
    BY <1>1, ReturnStep
  <1>3. UNCHANGED <<requests, farEnds, server, serving, mdb, long, performed>>
    BY DEF serverVars
  <1>4. LinkTypeOK'
    BY <1>2, <1>3 DEF IInv, LinkTypeOK, Lefts
  <1>5. Numbered'
    BY <1>2, <1>3, ReturnNumbers, LinkAssumption DEF IInv, LinkTypeOK, Numbered, Ids
  <1>6. Piped'
    BY <1>2, <1>3 DEF Piped
  <1>7. OneCall'
    BY <1>2, <1>3 DEF OneCall
  <1> QED
    BY <1>2, <1>4, <1>5, <1>6, <1>7 DEF IInv

\* A read that takes responses, and perhaps the beginning of another: the pipe
\* stays in order.
LEMMA TakenPipe ==
  ASSUME IInv, Open, do # "body", NEW k \in 1..(Len(responses) + 1),
         \/ responses' = SubSeq(responses, k, Len(responses))
         \/ /\ k <= Len(responses)
            /\ \E kind \in Kinds \ {"body"} : responses' = From(k, kind)
  PROVE  /\ responses' \in Seq(Lefts) /\ Shaped(responses')
         /\ Numbers(responses', answered, performed)
         /\ responses' # <<>> => responses'[1].kind # "body"
  <1> DEFINE t == SubSeq(responses, k, Len(responses))
  <1>1. responses \in Seq(Lefts) /\ answered \in Nat /\ performed \in Nat
    BY LinkAssumption DEF IInv, LinkTypeOK, Lefts, Ids
  <1>2. Shaped(responses) /\ Numbers(responses, answered, performed)
    BY DEF IInv, Piped
  <1>3. /\ t \in Seq(Lefts) /\ Shaped(t) /\ Numbers(t, answered, performed)
        /\ Len(t) = Len(responses) - k + 1
        /\ \A i \in 1..Len(t) : t[i] = responses[i + k - 1] /\ i + k - 1 \in 1..Len(responses)
    BY <1>1, <1>2, SuffixPipe, Zenon
  <1>4. CASE responses' = t
    <2>1. ASSUME t # <<>> PROVE t[1].kind # "body"
      <3>1. t[1] = responses[k] /\ k \in 1..Len(responses)
        BY <1>1, <1>3, <2>1
      <3>2. CASE k = 1
        BY <3>1, <3>2 DEF IInv, Piped
      <3>3. CASE k # 1
        BY <1>2, <3>1, <3>3 DEF Shaped
      <3> QED
        BY <3>2, <3>3
    <2> QED
      BY <1>3, <1>4, <2>1
  <1>5. CASE k <= Len(responses) /\ \E kind \in Kinds \ {"body"} : responses' = From(k, kind)
    <2>1. PICK kind \in Kinds \ {"body"} : responses' = From(k, kind)
      BY <1>5
    <2>2. t # <<>> /\ responses' = [t EXCEPT ![1].kind = kind]
      <3>1. responses' = [t EXCEPT ![1].kind = kind]
        BY <2>1 DEF From
      <3>2. Len(t) > 0
        BY <1>1, <1>3, <1>5
      <3> QED
        BY <3>1, <3>2
    <2> HIDE DEF t
    <2>3. /\ responses' \in Seq(Lefts) /\ Shaped(responses')
          /\ Numbers(responses', answered, performed)
          /\ responses'[1] = Rest(kind, t[1].of)
      BY <1>1, <1>3, <2>2, CutPipe
    <2> QED
      BY <2>3 DEF Rest
  <1> QED
    BY <1>4, <1>5

\* What is left within a response is never its body alone.
LEMMA WithinKinds ==
  ASSUME NEW kind \in Kinds
  PROVE  Within(kind) \subseteq Kinds \ {"body"}
  BY DEF Within, Kinds

\* The write of the request, which joins the pipe behind all others.
LEMMA WriteStep == ASSUME IInv, Write PROVE IInv'
  <1>1. /\ do = "write" /\ cur \in Request /\ cur.id = asked /\ asked \in Nat /\ asked > 0
        /\ requests \in Seq(Request) /\ responses \in Seq(Lefts)
        /\ UNCHANGED <<responses, farEnds, server, serving, mdb, long, performed>>
    BY LinkAssumption DEF Write, serverVars, IInv, LinkTypeOK, Held, Numbered, Ids, Lefts
  <1>2. Open
    BY <1>1 DEF IInv, Held, Open
  <1>3. CASE /\ ~ServerEndsClosed /\ requests' = Append(requests, cur) /\ do' = "length"
             /\ UNCHANGED <<phase, want, lk, cur, asked, answered, slipped, got>>
    <2>1. /\ requests' \in Seq(Request) /\ Len(requests') = Len(requests) + 1
          /\ Len(requests) \in Nat /\ requests'[Len(requests) + 1] = cur
          /\ \A i \in 1..Len(requests) : requests'[i] = requests[i]
      BY <1>1, <1>3
    <2>2. LinkTypeOK' /\ Held'
      BY <1>1, <1>3, <2>1 DEF IInv, LinkTypeOK, Held, ClientEndsClosed
    <2>3. /\ performed < asked /\ performed \in Nat
          /\ server = "exec" => serving.id < asked
          /\ \A i \in 1..Len(requests) : requests[i].id < asked
      BY <1>1, LinkAssumption DEF IInv, Numbered, LinkTypeOK, Ids
    <2>4. ASSUME NEW i \in 1..Len(requests')
          PROVE  /\ requests'[i].id \in 1..asked /\ performed < requests'[i].id
                 /\ server = "exec" => serving.id < requests'[i].id
      <3>1. CASE i \in 1..Len(requests)
        BY <2>1, <3>1 DEF IInv, Numbered
      <3>2. CASE i = Len(requests) + 1
        BY <1>1, <2>1, <2>3, <3>2
      <3> QED
        BY <2>1, <3>1, <3>2
    <2>5. ASSUME NEW i \in 1..Len(requests'), NEW j \in 1..Len(requests'), i < j
          PROVE  requests'[i].id < requests'[j].id
      <3>1. i \in 1..Len(requests) /\ requests'[i] = requests[i]
        BY <2>1, <2>5
      <3>2. CASE j \in 1..Len(requests)
        BY <2>1, <2>5, <3>1, <3>2 DEF IInv, Numbered
      <3>3. CASE j = Len(requests) + 1
        BY <1>1, <2>1, <2>3, <3>1, <3>3
      <3> QED
        BY <2>1, <3>2, <3>3
    <2>6. Numbered'
      BY <1>1, <1>3, <2>4, <2>5 DEF IInv, Numbered
    <2>7. Piped'
      BY <1>1, <1>3 DEF IInv, Piped, Open, ClientEndsClosed
    <2>8. OneCall'
      <3>1. CASE slipped
        BY <1>3, <3>1 DEF OneCall
      <3>2. CASE ~slipped /\ server = "gone"
        BY <1>1, <1>2, <1>3, <3>2 DEF IInv, OneCall
      <3>3. CASE ~slipped /\ server # "gone"
        <4>1. responses = <<>> /\ server = "read" /\ requests = <<>>
          BY <1>1, <1>2, <3>3 DEF IInv, OneCall
        <4>2. requests' = <<cur'>>
          BY <1>3, <4>1
        <4> QED
          BY <1>1, <1>3, <4>1, <4>2 DEF OneCall
      <3> QED
        BY <3>1, <3>2, <3>3
    <2> QED
      BY <2>2, <2>6, <2>7, <2>8 DEF IInv
  <1>4. CASE ServerEndsClosed /\ Fails(FALSE) /\ UNCHANGED requests
    <2>1. Return("error", 0) /\ UNCHANGED <<answered, slipped>> /\ slipped \in BOOLEAN
      BY <1>4 DEF Fails, IInv, LinkTypeOK
    <2>2. /\ Shaped(responses) /\ Numbers(responses, answered, performed)
          /\ responses # <<>> => responses[1].kind # "body"
      BY <1>1, <1>2 DEF IInv, Piped
    <2>3. slipped \/ (responses = <<>> /\ server = "gone")
      BY <1>1, <1>2, <1>4 DEF IInv, OneCall, ServerEndsClosed
    <2> QED
      BY <1>1, <1>4, <2>1, <2>2, <2>3, ReturnKeepsInv DEF serverVars
  <1> QED
    BY <1>1, <1>3, <1>4 DEF Write

\* A read that has slipped, or one of a pipe in which something has: it ends the
\* call, and the pipe is what TakenPipe says.
LEMMA SlippedKeepsInv ==
  ASSUME IInv, do \in {"length", "bytes"},
         Fails(TRUE) \/ (slipped /\ Nothing),
         responses' \in Seq(Lefts), Shaped(responses'),
         Numbers(responses', answered, performed),
         responses' # <<>> => responses'[1].kind # "body",
         UNCHANGED <<requests, farEnds, serverVars>>
  PROVE  IInv'
  <1>1. /\ UNCHANGED answered /\ slipped' = TRUE
        /\ Return("error", 0) \/ Return("nothing", 0)
    BY DEF Fails, Nothing, IInv, LinkTypeOK
  <1> QED
    BY <1>1, ReturnKeepsInv

\* A read of four bytes, whatever they are.
LEMMA ReadLengthStep == ASSUME IInv, ReadLength PROVE IInv'
  <1> DEFINE r == responses
             kind == Head(responses).kind
  <1>1. /\ do = "length" /\ r # <<>> /\ r \in Seq(Lefts) /\ Len(r) \in Nat \ {0}
        /\ Head(r) = r[1] /\ Tail(r) = SubSeq(r, 2, Len(r)) /\ SubSeq(r, 1, Len(r)) = r
        /\ UNCHANGED <<requests, farEnds, server, serving, mdb, long, performed>>
    BY DEF ReadLength, IInv, LinkTypeOK, Lefts, serverVars
  <1>2. Open /\ slipped \in BOOLEAN
    BY <1>1 DEF IInv, Held, Open, LinkTypeOK
  <1>3. kind \in Kinds \ {"body"} /\ r[1] \in Lefts
    <2>1. 1 \in 1..Len(r) /\ r[1] \in Lefts
      BY <1>1
    <2>2. r[1].kind # "body"
      BY <1>1, <1>2 DEF IInv, Piped
    <2> QED
      BY <1>1, <2>1, <2>2 DEF Lefts
  <1>4. kind \notin {"good", "long"} => slipped
    BY <1>1, <1>2 DEF IInv, OneCall, Rest
  <1> DEFINE Taken == /\ r' \in Seq(Lefts) /\ Shaped(r')
                      /\ Numbers(r', answered, performed)
                      /\ r' # <<>> => r'[1].kind # "body"
  <1>5. ASSUME TakeFour(kind) PROVE Taken
    <2>1. CASE r' = Tail(r)
      <3>1. 2 \in 1..(Len(r) + 1) /\ r' = SubSeq(r, 2, Len(r))
        BY <1>1, <2>1
      <3> QED
        BY <1>1, <1>2, <3>1, TakenPipe
    <2>2. CASE \E left \in Within(kind) : r' = From(1, left)
      <3>1. \E left \in Kinds \ {"body"} : r' = From(1, left)
        BY <1>3, <2>2, WithinKinds
      <3>2. 1 \in 1..(Len(r) + 1) /\ 1 <= Len(r)
        BY <1>1
      <3> QED
        BY <1>1, <1>2, <3>1, <3>2, TakenPipe
    <2> QED
      BY <1>5, <2>1, <2>2 DEF TakeFour
  <1>6. CASE /\ kind = "good" /\ r' = From(1, "body") /\ do' = "body"
             /\ UNCHANGED <<phase, want, lk, cur, asked, answered, slipped, got>>
    <2>1. /\ r' \in Seq(Lefts) /\ Shaped(r') /\ Numbers(r', answered, performed)
          /\ r' # <<>> /\ r'[1] = Rest("body", r[1].of) /\ Len(r') = Len(r)
      <3>1. r' = [r EXCEPT ![1].kind = "body"]
        BY <1>1, <1>6 DEF From
      <3>2. /\ Shaped(r) /\ Numbers(r, answered, performed) /\ "body" \in Kinds
            /\ answered \in Nat /\ performed \in Nat
        BY LinkAssumption DEF IInv, Piped, Kinds, LinkTypeOK, Ids
      <3> QED
        BY <1>1, <3>1, <3>2, CutPipe
    <2>2. LinkTypeOK' /\ Held' /\ Piped'
      <3>1. r'[1].kind = "body"
        BY <2>1 DEF Rest
      <3> QED
        BY <1>1, <1>6, <2>1, <3>1
        DEF IInv, LinkTypeOK, Held, Piped, Lefts, ClientEndsClosed
    <2>3. Numbered'
      BY <1>1, <1>6 DEF IInv, Numbered
    <2>4. OneCall'
      <3>1. CASE slipped
        BY <1>6, <3>1 DEF OneCall
      <3>2. CASE ~slipped
        <4>1. /\ server = "gone" \/ (server = "read" /\ requests = <<>>)
              /\ r \in {<<Rest("good", cur.id)>>, <<Rest("long", cur.id)>>}
          BY <1>1, <1>2, <3>2 DEF IInv, OneCall
        <4>2. Len(r) = 1 /\ r[1].of = cur.id
          BY <4>1 DEF Rest
        <4>3. r' = <<Rest("body", cur.id)>>
          BY <2>1, <4>2
        <4>4. (responses = <<Rest("body", cur.id)>>)'
          BY <1>6, <4>3
        <4> QED
          BY <1>1, <1>6, <4>1, <4>4 DEF OneCall
      <3> QED
        BY <1>2, <3>1, <3>2
    <2> QED
      BY <2>2, <2>3, <2>4 DEF IInv
  <1>7. CASE kind = "long" /\ r' = From(1, "text") /\ Fails(TRUE)
    <2>1. Taken
      <3>1. 1 \in 1..(Len(r) + 1) /\ 1 <= Len(r) /\ "text" \in Kinds \ {"body"}
        BY <1>1 DEF Kinds
      <3>2. \E left \in Kinds \ {"body"} : r' = From(1, left)
        BY <1>7, <3>1
      <3> QED
        BY <1>1, <1>2, <3>1, <3>2, TakenPipe
    <2> QED
      BY <1>1, <1>7, <2>1, SlippedKeepsInv DEF serverVars
  <1>8. CASE kind \in {"cut", "data", "text"} /\ TakeFour(kind) /\ (Fails(TRUE) \/ Nothing)
    BY <1>1, <1>4, <1>5, <1>8, SlippedKeepsInv DEF serverVars
  <1>9. CASE /\ kind = "data" /\ TakeFour(kind) /\ do' = "bytes"
             /\ UNCHANGED <<phase, want, lk, cur, asked, answered, slipped, got>>
    <2>1. Taken /\ slipped
      BY <1>4, <1>5, <1>9
    <2>2. LinkTypeOK'
      BY <1>1, <1>9, <2>1 DEF IInv, LinkTypeOK, Lefts
    <2>3. Held' /\ Numbered'
      BY <1>1, <1>9 DEF IInv, Held, Numbered, ClientEndsClosed
    <2>4. Piped' /\ OneCall'
      BY <1>1, <1>9, <2>1 DEF Piped, OneCall
    <2> QED
      BY <2>2, <2>3, <2>4 DEF IInv
  <1>10. CASE kind = "tail" /\ Len(r) = 1 /\ r' = <<>> /\ Nothing
    <2>1. Taken
      BY <1>10 DEF Shaped, Numbers
    <2> QED
      BY <1>1, <1>4, <1>10, <2>1, SlippedKeepsInv DEF serverVars
  <1>11. CASE /\ kind = "tail" /\ Len(r) > 1 /\ Fails(TRUE)
              /\ \E left \in {"cut", "tail", "text"} : r' = From(2, left)
    <2>1. Taken
      <3>1. 2 \in 1..(Len(r) + 1) /\ 2 <= Len(r)
        BY <1>1, <1>11
      <3>2. \E left \in Kinds \ {"body"} : r' = From(2, left)
        BY <1>11 DEF Kinds
      <3> QED
        BY <1>1, <1>2, <3>1, <3>2, TakenPipe
    <2> QED
      BY <1>1, <1>11, <2>1, SlippedKeepsInv DEF serverVars
  <1> HIDE DEF Taken
  <1> QED
    BY <1>6, <1>7, <1>8, <1>9, <1>10, <1>11, ZenonT(60) DEF ReadLength

\* The body of a response is handed out.
LEMMA ReadBodyStep == ASSUME IInv, ReadBody PROVE IInv'
  <1> DEFINE r == responses
  <1>1. /\ do = "body" /\ r # <<>> /\ r \in Seq(Lefts) /\ r' = Tail(r)
        /\ Head(r) = r[1] /\ Tail(r) = SubSeq(r, 2, Len(r)) /\ r[1].kind = "body"
        /\ answered' = r[1].of /\ Return("answer", r[1].of) /\ r[1].of \in Ids
        /\ UNCHANGED <<slipped, requests, farEnds, server, serving, mdb, long, performed>>
    <2>1. do = "body" /\ r # <<>> /\ r \in Seq(Lefts) /\ r[1].kind = "body"
      BY DEF ReadBody, IInv, LinkTypeOK, Piped, Lefts
    <2>2. Head(r) = r[1] /\ Tail(r) = SubSeq(r, 2, Len(r)) /\ r[1] \in Lefts
      BY <2>1
    <2>3. r[1].of \in Ids
      BY <2>2 DEF Lefts
    <2> QED
      BY <2>1, <2>2, <2>3 DEF ReadBody, serverVars
  <1>2. answered \in Nat /\ performed \in Nat
    BY LinkAssumption DEF IInv, LinkTypeOK, Ids
  <1>3. /\ do' = "none" /\ got' \in [call : Ids, kind : {"answer", "nothing", "error"}, of : Ids]
        /\ phase' \in {"break", "run", "term", "exit"} /\ lk' \in Callers \cup {None}
        /\ phase' = "run" => lk' = None
        /\ got'.call = asked /\ UNCHANGED <<want, cur, asked>>
        /\ Held' /\ Open
    BY <1>1, ReturnStep
  <1>4. Shaped(r) /\ Numbers(r, answered, performed)
    BY DEF IInv, Piped
  <1>5. r[1].of \in 1..performed
    BY <1>1, <1>4 DEF Numbers
  <1>6. /\ r' \in Seq(Lefts) /\ Shaped(r') /\ Numbers(r', answered, performed)
        /\ Len(r') = Len(r) - 1
        /\ \A i \in 1..Len(r') : r'[i] = r[i + 1] /\ i + 1 \in 1..Len(r)
    <2>1. 2 \in 1..(Len(r) + 1) /\ r' = SubSeq(r, 2, Len(r))
      BY <1>1
    <2>2. r' \in Seq(Lefts) /\ Shaped(r') /\ Numbers(r', answered, performed)
      BY <1>1, <1>2, <1>4, <2>1, SuffixPipe, Zenon
    <2> QED
      BY <1>1, <2>1, <2>2
  <1>7. Numbers(r', answered', performed')
    <2>1. ASSUME NEW i \in 1..Len(r') PROVE answered' < r'[i].of
      <3>1. r'[i] = r[i + 1] /\ i + 1 \in 1..Len(r) /\ 1 \in 1..Len(r) /\ 1 < i + 1
        BY <1>6
      <3> QED
        BY <1>1, <1>4, <3>1 DEF Numbers
    <2> QED
      BY <1>1, <1>6, <2>1 DEF Numbers
  <1>8. LinkTypeOK'
    BY <1>1, <1>3, <1>6 DEF IInv, LinkTypeOK, Lefts
  <1>9. Numbered'
    BY <1>1, <1>2, <1>3, <1>5, ReturnNumbers
  <1>10. Piped'
    <2>1. ASSUME r' # <<>> PROVE r'[1].kind # "body"
      <3>1. Len(r) >= 2 /\ r'[1] = r[2]
        BY <1>6, <2>1
      <3> QED
        BY <1>4, <3>1 DEF Shaped
    <2> QED
      BY <1>3, <1>6, <1>7, <2>1 DEF Piped
  <1>11. OneCall'
    <2>1. ASSUME ~slipped
          PROVE  r' = <<>> /\ (server = "gone" \/ (server = "read" /\ requests = <<>>))
      BY <1>1, <1>3, <2>1 DEF IInv, OneCall
    <2> QED
      BY <1>1, <1>3, <2>1 DEF OneCall
  <1> QED
    BY <1>3, <1>8, <1>9, <1>10, <1>11 DEF IInv

\* A read of as many bytes as data was taken for.
LEMMA ReadBytesStep == ASSUME IInv, ReadBytes PROVE IInv'
  <1>1. do = "bytes" /\ responses \in Seq(Lefts) /\ (Fails(TRUE) \/ Nothing)
    BY DEF ReadBytes, IInv, LinkTypeOK, Lefts
  <1>2. Open /\ slipped
    BY <1>1 DEF IInv, Held, Open, OneCall, LinkTypeOK
  <1>3. PICK i \in 1..Len(responses) :
          \/ responses' = SubSeq(responses, i + 1, Len(responses))
          \/ \E left \in Within(responses[i].kind) : responses' = From(i, left)
    BY DEF ReadBytes
  <1>4. /\ responses' \in Seq(Lefts) /\ Shaped(responses')
        /\ Numbers(responses', answered, performed)
        /\ responses' # <<>> => responses'[1].kind # "body"
    <2>1. CASE responses' = SubSeq(responses, i + 1, Len(responses))
      <3>1. i + 1 \in 1..(Len(responses) + 1)
        BY <1>1
      <3> QED
        BY <1>1, <1>2, <2>1, <3>1, TakenPipe
    <2>2. CASE \E left \in Within(responses[i].kind) : responses' = From(i, left)
      <3>0. responses[i] \in Lefts
        BY <1>1
      <3>1. responses[i].kind \in Kinds
        BY <3>0 DEF Lefts
      <3>2. \E left \in Kinds \ {"body"} : responses' = From(i, left)
        BY <2>2, <3>1, WithinKinds
      <3>3. i \in 1..(Len(responses) + 1) /\ i <= Len(responses)
        BY <1>1
      <3> QED
        BY <1>1, <1>2, <3>2, <3>3, TakenPipe
    <2> QED
      BY <1>3, <2>1, <2>2
  <1> QED
    BY <1>1, <1>2, <1>4, SlippedKeepsInv DEF ReadBytes

\* A read that finds the end of the pipe.
LEMMA ReadEndStep == ASSUME IInv, ReadEnd PROVE IInv'
  <1>1. /\ do # "none" /\ responses = <<>> /\ responses' = <<>> /\ server = "gone"
        /\ Fails(FALSE) /\ UNCHANGED <<requests, farEnds, serverVars>>
    BY DEF ReadEnd, ServerEndsClosed
  <1>2. /\ responses' \in Seq(Lefts) /\ Shaped(responses')
        /\ Numbers(responses', answered, performed)
        /\ Return("error", 0) /\ UNCHANGED answered /\ slipped' \in BOOLEAN
    BY <1>1 DEF Shaped, Numbers, Fails, IInv, LinkTypeOK
  <1> QED
    BY <1>1, <1>2, ReturnKeepsInv

\* The end of the program, its collector, and the end of Close.
LEMMA EndStep == ASSUME IInv, Exit \/ Collect \/ Signal \/ Wait PROVE IInv'
  <1>1. CASE Exit
    BY <1>1 DEF Exit, IInv, LinkTypeOK, Held, Numbered, Piped, OneCall, Open,
                ClientEndsClosed, serverVars
  <1>2. CASE Collect
    <2>1. UNCHANGED <<clientVars, requests, responses, serverVars>> /\ farEnds' = FALSE
      BY <1>2 DEF Collect
    <2>2. LinkTypeOK'
      <3>1. UNCHANGED <<phase, want, lk, do, cur, asked, answered, slipped, got,
                        requests, responses, server, serving, performed, mdb, long>>
        BY <2>1 DEF clientVars, serverVars
      <3>2. LinkTypeOK
        BY DEF IInv
      <3> QED
        BY <2>1, <3>1, <3>2, ZenonT(60) DEF LinkTypeOK
    <2>3. Held' /\ Numbered' /\ Piped'
      BY <2>1 DEF IInv, Held, Numbered, Piped, Open, ClientEndsClosed, clientVars, serverVars
    <2>4. OneCall'
      BY <2>1 DEF IInv, OneCall, Open, ClientEndsClosed, clientVars, serverVars
    <2> QED
      BY <2>2, <2>3, <2>4 DEF IInv
  <1>3. CASE Signal
    BY <1>3 DEF Signal, IInv, LinkTypeOK, Held, Numbered, Piped, OneCall, Open,
                ClientEndsClosed, clientVars, serverVars
  <1>4. CASE Wait
    BY <1>4 DEF Wait, IInv, LinkTypeOK, Held, Numbered, Piped, OneCall, Open,
                ClientEndsClosed, clientVars, serverVars
  <1> QED
    BY <1>1, <1>2, <1>3, <1>4

\* The server takes a request, or sees the end of its input.
LEMMA RecvStep == ASSUME IInv, Recv PROVE IInv'
  <1>1. /\ server = "read" /\ UNCHANGED <<phase, want, lk, do, cur, asked, answered, slipped, got>>
        /\ UNCHANGED <<responses, farEnds, mdb, long, performed>>
    BY DEF Recv, clientVars
  <1>2. Held' /\ Piped'
    BY <1>1 DEF IInv, Held, Piped, Open, ClientEndsClosed
  <1>3. CASE requests # <<>> /\ serving' = Head(requests) /\ requests' = Tail(requests)
             /\ server' = "exec"
    <2>1. /\ requests \in Seq(Request) /\ requests' \in Seq(Request)
          /\ serving' = requests[1] /\ serving' \in Request
          /\ Len(requests') = Len(requests) - 1 /\ 1 \in 1..Len(requests)
          /\ \A i \in 1..Len(requests') : /\ requests'[i] = requests[i + 1]
                                          /\ i + 1 \in 1..Len(requests)
      BY <1>3 DEF IInv, LinkTypeOK
    <2>2. LinkTypeOK'
      BY <1>1, <1>3, <2>1 DEF IInv, LinkTypeOK
    <2>3. performed < serving'.id /\ serving'.id <= asked
      BY <2>1 DEF IInv, Numbered
    <2>4. ASSUME NEW i \in 1..Len(requests')
          PROVE  /\ requests'[i].id \in 1..asked /\ performed < requests'[i].id
                 /\ serving'.id < requests'[i].id
      <3>1. requests'[i] = requests[i + 1] /\ i + 1 \in 1..Len(requests) /\ 1 < i + 1
        BY <2>1
      <3> QED
        BY <2>1, <3>1 DEF IInv, Numbered
    <2>5. ASSUME NEW i \in 1..Len(requests'), NEW j \in 1..Len(requests'), i < j
          PROVE  requests'[i].id < requests'[j].id
      <3>1. /\ requests'[i] = requests[i + 1] /\ i + 1 \in 1..Len(requests)
            /\ requests'[j] = requests[j + 1] /\ j + 1 \in 1..Len(requests)
            /\ i + 1 < j + 1
        BY <2>1, <2>5
      <3> QED
        BY <3>1 DEF IInv, Numbered
    <2>6. Numbered'
      BY <1>1, <1>3, <2>3, <2>4, <2>5 DEF IInv, Numbered
    <2>7. OneCall'
      <3>1. CASE slipped \/ ~Open
        BY <1>1, <3>1 DEF OneCall, Open, ClientEndsClosed
      <3>2. CASE ~slipped /\ Open
        <4>1. responses = <<>> /\ do = "length" /\ requests = <<cur>>
          BY <1>1, <1>3, <3>2 DEF IInv, OneCall
        <4>2. serving' = cur /\ requests' = <<>>
          BY <1>3, <4>1
        <4> QED
          BY <1>1, <1>3, <4>1, <4>2 DEF OneCall
      <3> QED
        BY <3>1, <3>2 DEF IInv, LinkTypeOK
    <2> QED
      BY <1>2, <2>2, <2>6, <2>7 DEF IInv
  <1>4. CASE ClientEndsClosed /\ server' = "gone" /\ UNCHANGED <<serving, requests>>
    BY <1>1, <1>2, <1>4
    DEF IInv, LinkTypeOK, Numbered, OneCall, Open, ClientEndsClosed
  <1> QED
    BY <1>3, <1>4 DEF Recv

\* A request is executed, and its number passes performed.
LEMMA PerformedStep ==
  ASSUME IInv, server = "exec", performed' = serving.id, server' \in {"read", "gone"},
         UNCHANGED <<clientVars, requests, farEnds, serving>>
  PROVE  Numbered' /\ Held'
  <1>1. serving.id \in Nat /\ performed \in Nat
    BY LinkAssumption DEF IInv, LinkTypeOK, Request, Ids
  <1>2. UNCHANGED <<phase, want, lk, do, cur, asked, answered, slipped, got, requests, serving>>
    BY DEF clientVars
  <1>3. performed < serving.id /\ serving.id <= asked /\ answered <= performed /\ asked \in Nat
        /\ answered \in Nat
    BY LinkAssumption DEF IInv, Numbered, LinkTypeOK, Ids
  <1>4. \A i \in 1..Len(requests) :
          requests[i].id \in 1..asked /\ serving.id < requests[i].id
    BY DEF IInv, Numbered
  <1>5. answered <= performed'
    BY <1>1, <1>3
  <1>6. Numbered'
    BY <1>2, <1>3, <1>4, <1>5 DEF IInv, Numbered
  <1>7. Held'
    BY <1>2 DEF IInv, Held, ClientEndsClosed
  <1> QED
    BY <1>6, <1>7

\* exec and the response it writes.
LEMMA ExecStep == ASSUME IInv, Exec PROVE IInv'
  <1> DEFINE id == serving.id
  <1>1. /\ server = "exec" /\ performed' = id /\ server' \in {"read", "gone"}
        /\ UNCHANGED <<clientVars, requests, farEnds, serving>>
    BY DEF Exec
  <1>2. UNCHANGED <<phase, want, lk, do, cur, asked, answered, slipped, got, requests,
                    farEnds, serving>>
    BY <1>1 DEF clientVars
  <1>3. Numbered' /\ Held'
    BY <1>1, PerformedStep
  <1>4. /\ id \in Ids /\ responses \in Seq(Lefts) /\ answered \in Nat /\ performed \in Nat
        /\ answered <= performed /\ performed < id /\ id \in Nat
    BY <1>1, LinkAssumption
    DEF IInv, LinkTypeOK, Request, Lefts, Ids, Numbered
  <1>5. mdb' \in BOOLEAN
    BY DEF Exec, Executes, IInv, LinkTypeOK
  <1>6. \/ ClientEndsClosed /\ responses' = responses
        \/ ~ClientEndsClosed /\ \E kind \in {"good", "long"} :
                                   responses' = Append(responses, Rest(kind, id))
    BY DEF Exec
  <1>7. long' \in 0..MaxLong
    BY LinkAssumption DEF Exec, IInv, LinkTypeOK
  <1>8. Shaped(responses) /\ Numbers(responses, answered, performed)
    BY DEF IInv, Piped
  <1> HIDE DEF id
  <1>9. CASE ClientEndsClosed /\ responses' = responses
    <2>1. Numbers(responses, answered, id)
      BY <1>4, <1>8 DEF Numbers
    <2>2. LinkTypeOK' /\ Piped' /\ OneCall'
      BY <1>1, <1>2, <1>4, <1>5, <1>7, <1>8, <1>9, <2>1
      DEF IInv, LinkTypeOK, Piped, OneCall, Held, Open, ClientEndsClosed
    <2> QED
      BY <1>3, <2>2 DEF IInv
  <1>10. CASE ~ClientEndsClosed /\ \E kind \in {"good", "long"} :
                                     responses' = Append(responses, Rest(kind, id))
    <2>1. PICK kind \in {"good", "long"} : responses' = Append(responses, Rest(kind, id))
      BY <1>10
    <2>2. /\ responses' \in Seq(Lefts) /\ Shaped(responses')
          /\ Numbers(responses', answered, id) /\ responses' # <<>>
          /\ responses = <<>> => responses' = <<Rest(kind, id)>>
          /\ responses # <<>> => responses'[1] = responses[1]
      BY <1>4, <1>8, <2>1, AppendPipe
    <2>3. LinkTypeOK'
      BY <1>1, <1>2, <1>4, <1>5, <1>7, <2>2 DEF IInv, LinkTypeOK, Lefts
    <2>4. Piped'
      <3>1. do = "body" => responses'[1].kind = "body"
        BY <2>2 DEF IInv, Piped
      <3>2. do # "body" => responses'[1].kind # "body"
        <4>1. CASE responses = <<>>
          BY <2>2, <4>1 DEF Rest
        <4>2. CASE responses # <<>>
          BY <1>10, <2>2, <4>2 DEF IInv, Piped, Open
        <4> QED
          BY <4>1, <4>2
      <3> QED
        BY <1>1, <1>2, <2>2, <3>1, <3>2 DEF Piped
    <2>5. OneCall'
      <3>1. CASE slipped
        BY <1>2, <3>1 DEF OneCall
      <3>2. CASE ~slipped
        <4>1. /\ responses = <<>> /\ do = "length" /\ requests = <<>> /\ id = cur.id
          BY <1>1, <1>10, <3>2 DEF IInv, OneCall, Open, id
        <4>2. responses' = <<Rest(kind, cur.id)>>
          BY <2>2, <4>1
        <4>3. (responses \in {<<Rest("good", cur.id)>>, <<Rest("long", cur.id)>>})'
          BY <1>2, <4>2
        <4> QED
          BY <1>1, <1>2, <4>1, <4>3 DEF OneCall
      <3> QED
        BY <3>1, <3>2 DEF IInv, LinkTypeOK
    <2> QED
      BY <1>3, <2>3, <2>4, <2>5 DEF IInv
  <1> QED
    BY <1>6, <1>9, <1>10

\* The server dies inside exec.
LEMMA PanicStep == ASSUME IInv, Panic PROVE IInv'
  <1>1. /\ server = "exec" /\ performed' = serving.id /\ server' = "gone"
        /\ UNCHANGED <<clientVars, requests, farEnds, serving>>
        /\ UNCHANGED <<responses, mdb, long>>
    BY DEF Panic
  <1>2. UNCHANGED <<phase, want, lk, do, cur, asked, answered, slipped, got>>
    BY <1>1 DEF clientVars
  <1>3. Numbered' /\ Held'
    BY <1>1, PerformedStep
  <1>4. /\ serving.id \in Ids /\ performed < serving.id
        /\ performed \in Nat /\ answered \in Nat /\ serving.id \in Nat
    BY <1>1, LinkAssumption DEF IInv, LinkTypeOK, Request, Numbered, Ids
  <1>5. Piped'
    BY <1>1, <1>2, <1>4 DEF IInv, Piped, Numbers, Shaped, Open, ClientEndsClosed
  <1>6. LinkTypeOK'
    BY <1>1, <1>2, <1>4 DEF IInv, LinkTypeOK
  <1>7. OneCall'
    BY <1>1, <1>2 DEF IInv, OneCall, Open, ClientEndsClosed
  <1> QED
    BY <1>3, <1>5, <1>6, <1>7 DEF IInv

-----------------------------------------------------------------------------
(***************************************************************************)
(* The theorems.                                                           *)
(***************************************************************************)
\* Every step of the program, the collector and the server keeps the invariant.
LEMMA StepInv == IInv /\ [Next]_vars => IInv'
  <1> SUFFICES ASSUME IInv, [Next]_vars PROVE IInv'
    OBVIOUS
  <1>1. CASE UNCHANGED vars
    BY <1>1 DEF vars, clientVars, serverVars, IInv, LinkTypeOK, Held, Numbered, Piped,
                OneCall, Open, ClientEndsClosed
  <1>2. CASE Start \/ (\E c \in Callers : WantTx(c) \/ Tx(c)) \/ Close
    BY <1>2, CallsStep
  <1>3. CASE Talk
    BY <1>3, WriteStep, ReadLengthStep, ReadBodyStep, ReadBytesStep, ReadEndStep DEF Talk
  <1>4. CASE Exit \/ Collect \/ Signal \/ Wait
    BY <1>4, EndStep
  <1>5. CASE Serve
    BY <1>5, RecvStep, ExecStep, PanicStep DEF Serve
  <1> QED
    BY <1>1, <1>2, <1>3, <1>4, <1>5 DEF Next

\* The invariant holds of every behaviour.
LEMMA Invariance == Spec => []IInv
  BY InitInv, StepInv, PTL DEF Spec

\* The variables of client, pipes and server have their types.
THEOREM LinkTypeCorrect == Spec => []LinkTypeOK
  <1>1. IInv => LinkTypeOK
    BY DEF IInv
  <1> QED
    BY <1>1, Invariance, PTL

\* Until a call fails over a response, Do reads nobody else's (iodin.go:118-141).
THEOREM PipeIsOwn == Spec => []PipeHoldsOwnAnswer
  <1>1. IInv => PipeHoldsOwnAnswer
    <2> SUFFICES ASSUME IInv, ~slipped, Open
                 PROVE  /\ do = "none" => responses = <<>>
                        /\ \A i \in DOMAIN responses : responses[i].of = cur.id
      BY DEF PipeHoldsOwnAnswer, Open, ClientEndsClosed
    <2>1. CASE responses = <<>>
      BY <2>1
    <2>2. CASE /\ do = "length"
               /\ responses \in {<<Rest("good", cur.id)>>, <<Rest("long", cur.id)>>}
      BY <2>2 DEF Rest
    <2>3. CASE do = "body" /\ responses = <<Rest("body", cur.id)>>
      BY <2>3 DEF Rest
    <2> QED
      BY <2>1, <2>2, <2>3 DEF IInv, OneCall
  <1> QED
    BY <1>1, Invariance, PTL

\* Both processes start as Exchange does.
LEMMA PromiseInit == Init => Promise!Init
  BY DEF Init, Promise!Init, Ended

\* Every step of the link is a step of Exchange, or none.
LEMMA PromiseStep == IInv /\ IInv' /\ [Next]_vars => [Promise!Next]_(Promise!vars)
  <1> SUFFICES ASSUME IInv, IInv', [Next]_vars
               PROVE  Promise!Next \/ UNCHANGED Promise!vars
    OBVIOUS
  <1> DEFINE busy == IF do = "none" THEN 0 ELSE cur.id
             outcome == IF Ended THEN [call |-> asked, kind |-> "error", of |-> 0] ELSE got
  <1>0. asked \in Nat /\ cur.id = asked /\ performed \in Nat /\ answered \in Nat
    BY LinkAssumption DEF IInv, LinkTypeOK, Numbered, Ids
  <1>1. ASSUME NEW command, Do(command), phase' # "exit", phase # "exit"
        PROVE  Promise!Ask
    <2>1. /\ do = "none" /\ asked < MaxDo /\ asked' = asked + 1
          /\ cur'.id = asked + 1 /\ do' = "write"
          /\ UNCHANGED <<answered, slipped, got, performed>>
      BY <1>1 DEF Do, serverVars
    <2>2. ~Ended /\ ~Ended'
      BY <1>1 DEF Ended
    <2> QED
      BY <2>1, <2>2 DEF Promise!Ask
  <1>2. ASSUME NEW kind \in {"answer", "nothing", "error"}, NEW of, Return(kind, of),
               do # "none", UNCHANGED performed
        PROVE  Promise!Finish(kind, of)
    <2>1. /\ do' = "none" /\ got' = [call |-> cur.id, kind |-> kind, of |-> of]
          /\ UNCHANGED <<cur, asked>>
      BY <1>2 DEF Return
    <2>2. ~Ended /\ ~Ended' /\ cur.id # 0
      BY <1>0, <1>2, <2>1 DEF Ended, IInv, Held, ClientEndsClosed
    <2> QED
      BY <1>0, <1>2, <2>1, <2>2 DEF Promise!Finish
  <1>3. ASSUME UNCHANGED <<asked, performed, answered, slipped, do, cur, got>>,
               phase' = "exit" <=> phase = "exit"
        PROVE  UNCHANGED Promise!vars
    BY <1>3 DEF Promise!vars, Ended
  <1>4. CASE Start \/ Close \/ \E c \in Callers : Tx(c)
    <2>1. PICK command : Do(command)
      BY <1>4 DEF Start, Close, Tx
    <2>2. phase # "exit" /\ phase' # "exit"
      BY <1>4 DEF Start, Close, Tx
    <2> QED
      BY <1>1, <2>1, <2>2 DEF Promise!Next
  <1>5. CASE \E c \in Callers : WantTx(c)
    BY <1>3, <1>5 DEF WantTx, serverVars
  <1>6. CASE Write \/ ReadLength \/ ReadBytes \/ ReadEnd
    <2>1. do # "none" /\ do # "body" /\ UNCHANGED performed
      BY <1>6 DEF Write, ReadLength, ReadBytes, ReadEnd, serverVars
    <2>2. \/ /\ UNCHANGED <<asked, performed, answered, slipped, cur, got, phase>>
             /\ do' # "none"
          \/ Fails(TRUE) \/ Fails(FALSE)
          \/ slipped /\ Nothing
      <3>1. CASE Write \/ ReadEnd
        BY <2>1, <3>1 DEF Write, ReadEnd
      <3>2. CASE ReadLength
        <4>1. /\ responses # <<>> /\ Head(responses) = responses[1] /\ do = "length" /\ Open
          BY <2>1, <3>2 DEF ReadLength, IInv, LinkTypeOK, Held, Open
        <4>2. Head(responses).kind \in {"data", "tail"} => slipped
          BY <4>1 DEF IInv, OneCall, Rest
        <4> QED
          BY <2>1, <3>2, <4>2, ZenonT(60) DEF ReadLength
      <3>3. CASE ReadBytes
        <4>1. slipped
          BY <3>3 DEF ReadBytes, IInv, OneCall, Held, Open
        <4> QED
          BY <3>3, <4>1 DEF ReadBytes
      <3> QED
        BY <1>6, <3>1, <3>2, <3>3
    <2>3. CASE /\ UNCHANGED <<asked, performed, answered, slipped, cur, got, phase>>
               /\ do' # "none"
      BY <2>1, <2>3 DEF Promise!vars, Ended
    <2>4. CASE Fails(TRUE) \/ Fails(FALSE)
      <3>1. Return("error", 0) /\ slipped' \in {slipped, TRUE} /\ UNCHANGED answered
        BY <2>4 DEF Fails, IInv, LinkTypeOK
      <3> QED
        BY <1>2, <2>1, <3>1 DEF Promise!Fail, Promise!Next
    <2>5. CASE slipped /\ Nothing
      BY <1>2, <2>1, <2>5 DEF Nothing, Promise!Nothing, Promise!Next
    <2> QED
      BY <2>2, <2>3, <2>4, <2>5
  <1>7. CASE ReadBody
    <2>1. /\ do = "body" /\ answered' = responses[1].of /\ Return("answer", responses[1].of)
          /\ UNCHANGED <<slipped, performed>> /\ responses # <<>>
          /\ responses[1].kind = "body" /\ responses \in Seq(Lefts)
      BY <1>7 DEF ReadBody, IInv, LinkTypeOK, Piped, serverVars, Lefts
    <2>2. responses[1].of \in 1..performed /\ answered < responses[1].of
      BY <2>1 DEF IInv, Piped, Numbers
    <2>3. slipped \/ responses[1].of = cur.id
      BY <2>1 DEF IInv, OneCall, Rest, Held, Open
    <2>4. Promise!Finish("answer", responses[1].of)
      BY <1>2, <2>1
    <2>5. Promise!Answer
      BY <2>1, <2>2, <2>3, <2>4 DEF Promise!Answer
    <2> QED
      BY <2>5 DEF Promise!Next
  <1>9. CASE Exit
    <2>1. /\ phase # "exit" /\ phase' = "exit" /\ do' = "none"
          /\ UNCHANGED <<cur, asked, answered, slipped, got, performed>>
      BY <1>9 DEF Exit, serverVars
    <2>2. got.call = IF do = "none" THEN asked ELSE asked - 1
      BY <2>1 DEF IInv, Numbered
    <2>3. CASE do = "none"
      BY <2>1, <2>2, <2>3 DEF Promise!vars, Ended
    <2>4. CASE do # "none"
      <3>1. ~Ended /\ Ended' /\ cur.id # 0
        BY <1>0, <2>1, <2>2, <2>4 DEF Ended, IInv, Held
      <3>2. Promise!Finish("error", 0)
        BY <1>0, <2>1, <2>4, <3>1 DEF Promise!Finish
      <3> QED
        BY <2>1, <3>2 DEF Promise!Fail, Promise!Next
    <2> QED
      BY <2>3, <2>4
  <1>10. CASE Collect \/ Signal \/ Wait \/ Recv
    BY <1>3, <1>10 DEF Collect, Signal, Wait, Recv, clientVars, serverVars
  <1>11. CASE Exec \/ Panic
    <2>1. /\ server = "exec" /\ performed' = serving.id
          /\ UNCHANGED <<asked, answered, slipped, do, cur, got, phase>>
      BY <1>11 DEF Exec, Panic, clientVars
    <2>2. serving.id \in 1..asked /\ serving.id > performed
      <3>1. serving.id \in Nat /\ asked \in Nat /\ performed \in Nat
        BY <2>1, LinkAssumption DEF IInv, LinkTypeOK, Request, Ids
      <3>2. performed < serving.id /\ serving.id <= asked
        BY <2>1 DEF IInv, Numbered
      <3> QED
        BY <3>1, <3>2
    <2>3. Promise!Perform
      BY <2>1, <2>2 DEF Promise!Perform, Ended
    <2> QED
      BY <2>3 DEF Promise!Next
  <1>12. CASE UNCHANGED vars
    BY <1>3, <1>12 DEF vars, clientVars, serverVars
  <1> QED
    BY <1>4, <1>5, <1>6, <1>7, <1>9, <1>10, <1>11, <1>12
    DEF Next, Talk, Serve

\* The safety part of KeepsPromise: behind two pipes, a lock and a server that may
\* die, Do performs and answers as Exchange says.
THEOREM LinkImplementsExchange == Spec => Promise!Spec
  BY Invariance, PromiseInit, PromiseStep, PTL DEF Spec, Promise!Spec
=============================================================================
