--------------------------- MODULE GpioMdbProperties ---------------------------
(* What the MDB half of the iodin server promises. *)
EXTENDS GpioMdb

\* Statuses of a transaction that read an answer to its end.
Whole == {"OK", "MdbNak", "MdbInvalidResponse", "MdbChecksum"}
Answered == pc = "idle" /\ req.id > 0 /\ result.of = req.id /\ result.status \in Whole

\* A transaction that begins while nothing is pending answers with what the
\* peripheral said to this request, whole and under the right status, however the
\* words were spread over the reads and whatever stale bits buf held.  Between
\* transactions something is pending only after one of them ended early: nothing in
\* tx discards old words, so the next one takes them for its answer.
AnswersItself ==
  Answered /\ tidy =>
    /\ told # <<>> /\ told[1].of = req.id
    /\ result.status = Reading(told)
    /\ result.words = IF result.status = "OK" THEN Front(told) ELSE <<>>
OwnAnswer ==
  /\ AnswersItself
  /\ pc = "idle" /\ Pending => "tx" \in broken

\* The mark of an address, mdb.rs:116, on the first word of a request and on no
\* other.
MarksOnlyTheAddress ==
  \A i \in DOMAIN air : air[i].wave = "request" =>
    \A j \in DOMAIN air[i].marks : air[i].marks[j] = 1 <=> j = 1

\* It holds as long as the buffer began as zeros and the words were read one by
\* one: then no stale mark is ever left behind the first word.
StaleMarksNeedLongReads == zeroed => MarksOnlyTheAddress

\* A transaction gives up waiting only when its time is over, unless the deadline
\* lies beyond the wrap of the clock.
Limit == IF heard THEN TIMEOUT_RECEIVE ELSE MDB_TIMEOUT
NoEarlyTimeout ==
  [][pc = "check" /\ pc' = "idle" =>
       elapsed > Limit \/ (build = "release" /\ deadline < Limit)]_vars

\* The serial reader outlives GpioMdb exactly when an open or a close stopped half
\* way, and from then on no open succeeds.  The line is held in a break only by a
\* reset in progress or one whose second write failed.
PortHeld ==
  /\ mdb => serial
  /\ serial /\ ~mdb <=> broken \cap {"new", "close"} # {}
  /\ txPin = 1 => pc = "break" \/ "reset" \in broken

\* Waves live as long as their owner: two with the driver, one with the
\* transaction; a wave that is on the air exists, unless a transaction ended
\* early under it.
WavesAreOwned ==
  /\ pc # "gone" =>
       waves = (IF mdb THEN {"ack", "nak"} ELSE {})
               \cup (IF pc \in {"sending", "read", "check"} THEN {"request"} ELSE {})
  /\ \A i \in DOMAIN air : air[i].wave \in waves \/ "tx" \in broken \/ pc = "gone"

\* A wait ends, with words or with a timeout, whoever is silent, if the clock can
\* be read between the deadline and the wrap.
Waiting == pc \in {"read", "check"} /\ deadline < TickRange - MaxDelay
WaitEnds ==
  /\ (Waiting /\ ~heard) ~> (~Waiting \/ heard)
  /\ (Waiting /\ heard) ~> ~Waiting
================================================================================
