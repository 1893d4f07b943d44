# Vender: TLA+ models and proofs

Vender is the software of a vending machine: a Go program (the *head*) that
drives a coin changer, a bill validator and kitchen devices over an MDB bus,
a Rust process (*iodin*) and an AVR firmware (*mega*) that can each be the
electrical end of that bus, and the glue between them. This directory holds
TLA+ models of the parts of it where steps of several actors meet, TLC
configurations that check them on small instances, and TLAPS proofs of the
facts that matter for every instance.

## 1. Inventory

| Part | State it keeps | Operations | Talks to |
| --- | --- | --- | --- |
| `head/money` | coin credit, event channel, its mutex | Start, Stop, Credit, WithdrawPrepare, WithdrawCommit, Abort, the coin and bill poll result loops | drivers (calls, result channels, `ready`), main loop (events), currency |
| `hardware/mdb/coin` | coin types, routing, `ready` signal | Init, Run, POLL, DISPENSE, PAYOUT, TUBE STATUS, expansion commands | `hardware/mdb` (Tx), money (channel) |
| `hardware/mdb/bill` | bill types, feature level, `ready` | Init, Run, POLL, ESCROW packets, BILL TYPE, STACKER | as above |
| `currency` | a map from nominal to count | SetValid, Add, Clear, Iter, Total, Sub, Withdraw and five expend strategies | money |
| `helpers/msync` | Signal, MultiWait, Action, Sequence | Set/Wait, Touch/Done/Reset, Start/Abort, run | drivers |
| `helpers/actionlist`, `head/state` | lists of callbacks | Append, Do, Restart | all subsystems |
| `cmd/vender` | the running flag | the event loop | money, ui |
| `head/papa` | the connection | netLoop, network, dial | lifecycle (restart) |
| `hardware/mdb` | the bus mutex, one packet buffer | Tx, TxRetry, BreakCustom; fileUart framing; iodinUart | drivers, iodin |
| `hardware/mdb/evend`, `head/kitchen` | devices with a `ready` signal | Reset, Setup, Action, Poll | `hardware/mdb` |
| `hardware/i2c-mdb-atmega-gate` | MDB state machine, four buffers, timer | main loop, UART/timer/TWI interrupt handlers, commands | the MDB wire, the TWI master |
| `hardware/mega-client`, `hardware/i2c` | response buffer; the mutex of the bus | Do, run (pin watcher), ParseResponse; ReadBytesAt, WriteBytesAt | the TWI slave of the gate, its notification pin |
| `cmd/iodin` | the MDB port: a serial reader, waves, a buffer of words | run, exec (MDB_OPEN, MDB_RESET, MDB_TX, STOP), tx, bus_reset | pigpio (waves, serial reader, clock), two pipes |
| `hardware/iodin-client` | two pipes, a process, a reference count | NewClient, Do, Close | the iodin process; `hardware/mdb` calls it under its mutex |
| `crc` | two tables | CRC8 in Go and C | mega firmware and client |
| ui, lcd, telemetry, pigpio, command line tools, protobuf, schematic | - | - | - |

How they interact: device goroutines poll the bus and send results through a
channel of two to a *poll result loop*, which books money and sends events
through another channel of two to the main loop; the main loop calls back into
the money system, which sends commands on the same bus and waits for the
`ready` signal of the polling goroutine. The bus mutex makes each exchange
atomic. Nothing else is shared except the coin credit, a Go map.

What is hard here, and what correctness means for each part:

* **money and the coin changer**: the coin credit is written by one goroutine
  and counted, iterated and cleared by another under a mutex the first does not
  take; three goroutines wait for each other over two bounded channels and an
  unbuffered signal; commands and answers get lost; a return request and coins
  travel through the same queue. Correct means: no coin is lost, invented or
  booked twice; the return lever covers every coin before it; a payout never
  starts over another; nothing is erased that was not paid; nobody waits for
  ever.
* **bill validator**: the same path with another handler, which has to know
  every status its driver produces.
* **currency**: a withdrawal is tried on a copy and then done again on the
  group, with an order that is not the same twice; it must take exactly the
  amount or nothing.
* **msync**: wake-ups must not get lost between a test and a wait.
* **firmware**: a state machine driven by four interrupt handlers and a main
  loop without critical sections; every transaction ends in exactly one answer
  and in the idle state, and a reset or a retry must not strand it.
* **TWI slave and mega client**: two buffers that are swapped while an
  interrupt may use one of them; a response is read once, by whoever asked.
* **iodin and its client**: words of the bus arrive in a buffer nobody empties,
  under a clock that wraps; responses lie in a pipe with nothing in them that
  says which request they answer; either process may die at any moment. Correct
  means: a response belongs to its request, every call comes back, nothing of
  pigpio stays held, and no server outlives its program.

`PROJECT.json` lists every part with its status, and under "hazards" the lines
where these difficulties bite, covered or not yet.

## 2. Modules

| Module | What it is |
| --- | --- |
| `Changer` | The coin changer and the people at it, as far as the driver sees them: a queue of notifications, tubes, a running payout, what a POLL or a DISPENSE does |
| `MoneySystem` | EXTENDS `Changer`: coin.Run, the channels, pollResultLoop, the main loop, Abort with Dispense inside it, Restart/Stop, sales |
| `MoneyProperties` | What the money system promises |
| `MCMoneySystem` | Budgets of outside events for the runs |
| `MoneySystem_proofs` | Type correctness and the serial payouts, proved |
| `MoneyPipeline_proofs`, `MoneyCredit_proofs` | EXTEND it: the way of a notification to the credit and the main loop; the money in the credit and what Abort erases |
| `MdbWire` | What the gate's firmware runs on, external: the UART's transmitter and receive line, the overflow flag of timer 0, the peripheral |
| `MdbGate` | EXTENDS `MdbWire`: the firmware's main loop and its interrupt handlers as an MDB master |
| `MdbGateProperties` | What the gate promises its master |
| `MdbGate_proofs` | Its types and timer on any line, its answers on a clean one, proved |
| `MCMdbGate` | Commands and answers for the runs |
| `TwiSlave` | The gate as a TWI slave: the interrupt handler by status, `twi_step`, the buffers, the notification pin. The MDB side is only what brings another answer later |
| `MegaLink` | EXTENDS `TwiSlave`: the masters (Do and run of mega-client, a keyboard), the bus byte by byte, ParseResponse |
| `MegaLinkProperties`, `MCMegaLink` | What the gate and its client promise each other |
| `MegaLink_proofs` | Every safety property of it, proved |
| `GpioMdb` | The MDB half of the iodin server: exec, the port it opens, uses and drops, on pigpio and a peripheral |
| `GpioMdbProperties`, `MCGpioMdb` | What it promises |
| `GpioMdb_proofs` | Every safety property of it, proved |
| `Exchange` | Abstract: what Client.Do promises its callers |
| `IodinLink` | Client, pipes and server process, with mdb.Tx and its lock in front |
| `IodinLinkProperties`, `MCIodinLink` | `KeepsPromise`: IodinLink implements `Exchange`; what else it promises |
| `IodinLink_proofs` | The refinement's safety part and what it rests on, proved |
| `Currency` | NominalGroup: Add, Clear, Sub, Contains and Withdraw with four strategies |
| `CurrencyProperties`, `MCCurrency` | What a withdrawal promises |
| `Currency_proofs` | Every property of it, proved |

### 2.1 State and code

| Variable | Code |
| --- | --- |
| `report`, `tubes`, `payout` | the device: activity not polled yet, coins in the tubes, coins still to fall |
| `runPc`, `pr` | `CoinAcceptor.Run` (`hardware/mdb/coin/coin.go:109`) and its poll result |
| `pch`, `events` | the channels of capacity two (`head/money/coin.go:34`, `system.go:29`) |
| `loopPc`, `inbox`, `loaded` | `pollResultLoop` (`head/money/hardware.go:18`, `coin.go:73`): the items left of the result in hand, the credit read by `values[n] += count` before it is written |
| `credit` | `CoinState.credit` |
| `lk`, `pc` | `MoneySystem.lk` and the two callers of Abort: the main loop and the goroutine of Restart |
| `total`, `sum`, `todo`, `cur`, `cnt`, `failed`, `result` | the locals of Abort and Dispense |
| `sale`, `spent` | WithdrawPrepare, which holds `lk` and counts the credit into `total`, and WithdrawCommit |
| `stopping`, `fatal` | the stopped `alive`; why the process died |
| `produced`, `handled`, `deposited`, `booked`, `commanded` | histories for the properties, read by no action of the program |
| `missed`, `lost`, `extra` | histories too, coin by coin: credit the Abort under way will erase unreturned, credit erased unreturned, coins asked for or in the credit beyond the books |

The gate:

| Variable | Code (`hardware/i2c-mdb-atmega-gate/i2c-mdb_atmega-gate`) |
| --- | --- |
| `pc` | the place of the main loop: `twi_step` with `master_command` and the hand-over of answers, then `mdb_step` with `mdb_reset` (main.c, mdb.c) |
| `twi_in`, `master_out`, `twi_out` | the buffers of the same names: commands that have arrived and are not yet taken, answers collected, answers the master is reading |
| `mdb_state`, `mdb_state_retry`, `mdb_fast_error_code`, `mdb_in`, `mdb_in_last_byte`, `mdb_out` | the static variables of mdb.c; of `mdb_out` only `used` and `length` |
| `timer`, `udrie`, `txcie` | TCCR0B with TOIE0, UDRIE0, TXCIE0: which handlers may run |
| `udr`, `shift`, `txc`, `txen`, `tov` | the registers and flags of the UART and the timer |
| `line`, `noise` | frames under way to the gate, frames nobody asked for |
| `said`, `owed`, `told` | histories: the newest answer; transactions started and not yet answered (not counted below -1 or beyond 2); what the peripheral answered last |
| `signals`, `cut` | histories: which of ACK, RET and NAK were sent; the last break was left with the line held down |
| `packets` | packets sent (a bound) |

The TWI slave and its masters:

| Variable | Code |
| --- | --- |
| `pc`, `twi_idle`, `twi_in`, `master_out`, `twi_out` | main loop and variables of twi.c; of `twi_out` its bytes and `used` |
| `TWEA`, `TWDR` | what the handler left in the two registers: whether the next byte or address is acknowledged, the byte that goes out next |
| `pin`, `edges` | `master_notify_set`, and rising edges the watcher of `Client.run` has not taken |
| `bus` | the transfer on the bus: whose, which way, how far, and whether the gate still takes part |
| `doPc`, `request`; `runPc`, `runBuf` | `Client.Do`; `Client.run` with the buffer it keeps from one read to the next |
| `rs`, `taken` | what the reader has got; the packets ParseResponse has found, by number |

iodin:

| Variable | Code |
| --- | --- |
| `mdb`, `buf`, `waves`, `serial`, `fifo`, `air`, `txPin` | `Server.mdb`, the odd bytes of `GpioMdb.buf`, and what pigpio holds for it: waves that exist, the open serial reader and its words, waves queued, the level of the pin |
| `now`, `start`, `deadline`, `response`, `sent`, `heard` | the locals of `tx`, `wait_receive` and `mdb_wave_send_wait`, and `gpioTick` |
| `build` | debug or release: an overflow panics or wraps |
| `lk`, `do`, `cur`; `requests`, `responses`, `farEnds` | `mdb.lk` and Do; the two pipes, and the ends of them that NewClient never closes |
| `server`, `serving` | Server::run |
| `tidy`, `zeroed`, `broken`, `told`, `elapsed`, `performed`, `answered`, `slipped`, `got` | histories for the properties |

### 2.2 Decisions: the money system

* One exchange on the bus is one step: `mdb.Tx` holds its mutex for it. Its
  outcome is an answer, a loss before the device (nothing happens), or a loss
  of the answer (the device acts, the caller gets an error). An unanswered
  POLL leaves the notifications in the device. The transport reports its
  errors, which is true of `fileUart`.
* Everything done to the coin credit outside one statement is several steps.
  `Total`, `Iter` and `Clear` are one step per map entry in any order, `Add`
  is a read and a write. `MapRace` is the Go runtime's own check: it kills the
  process when it happens to notice the concurrent access.
* `Signal.Set` gives the signal to a goroutine that waits at this moment and
  otherwise drops it. Between the poll and `Set`, and between `Set` and the
  send, other goroutines run.
* Amounts are multisets of coins, not sums: the properties tell which coin is
  lost. The 32-bit difference in Abort is therefore an equality test: any
  unsigned difference other than zero is "yet to return".
* `count % CountRange` and `DispenseLimit` stand for `uint8(count)` and the
  check against 16; the runs use small values of both.
* Sleeping over a result that is a single Busy item handles it like any other
  Busy item: not at all. Delays only make interleavings rarer, so they are left
  out, as are the commands whose answer is logged and dropped.
* Nobody in the repository calls WithdrawPrepare and WithdrawCommit yet; the
  model lets a caller do so at any time, once. WithdrawPrepare counts the credit
  entry by entry, as Abort does, next to pollResultLoop's writes.
* `missed` grows by what is booked behind the visit of Dispense, and by what
  `uint8(count)` cuts off; the clear turns it into `lost`. `extra` grows where
  the code keeps or restores credit for coins that fell: a lost answer, an Abort
  that failed behind a payment, a write torn by Clear. Each line adds exactly its
  own coins, so that `CreditIsExact` is an equation and not a list of excuses.
* Restart calls Stop once; its Abort uses the same locals as the main loop's
  because the lock keeps them apart, and the locals are cleared when Abort
  returns.
* `pollResultLoop` ranges over a channel that is never closed, so Stop waits in
  `alive.Wait` for good: `csWait` has no way out, and with a bill validator not
  even `bsStop` has.

### 2.3 Decisions: the gate

* The main loop is cut only where a handler can change what it does next:
  between the test for idle and the start of a transmission, between setting
  the state and the timer, between the answer and `mdb_reset`, and before the
  last assignment of `mdb_reset`. A handler is one step; the AVR does not nest
  them.
* A raised handler runs before the main loop goes on (`At`, `Raised`). The one
  exception is the endless transmit interrupt after an overflow of `mdb_out`:
  there the AVR gives the main loop one instruction between two interrupts,
  and since the handler changes nothing any more the loop goes on
  (`OverflowKnown`).
* Time enters in three places, each by a figure of the code. A frame takes
  1.1 ms at 9600 baud, longer than a pass of the main loop, so the frames of an
  answer find the loop caught up (`CaughtUp`); a *stray* frame finds it
  anywhere. The timeout is 5.76 ms, longer than two frames, so it does not
  expire while something is being sent, and it expires when the loop has come
  to the start of a pass (`TimeIsUp`). `timer0_stop` leaves the
  overflow flag alone, as the code does.
* TXC0 is cleared by its handler and by nothing else. That is the hardware's
  rule, and no line of mdb.c clears the flag.
* A packet carries one command or several (`Packets`); the loop of `twi_step`
  takes them one after the other, and an MDB command behind another meets the
  transaction of the first. Poll is answered by nothing of its own. A packet that
  arrives while the loop is at work belongs to `TwiSlave`, where it is cut byte by
  byte.
* Buffers of answers are counted in packets and a TWI transfer is one step; the
  bytes of a transfer are in `TwiSlave`. Not in the model: the data bytes of
  error answers and of Debug, the text of `Command_Flash` and the loss of a
  received frame when interrupts are held off for longer than a frame.
* A second wrong checksum (`mdb_state_retry` set) is unreachable in the code as
  it is, because the first one already ends the transaction (section 5). The
  branch is in the model all the same.

### 2.4 Decisions: the TWI slave and its masters

* A step is one interrupt, or a part of `twi_step` between two accesses to what
  the handler shares with it: the test for idle, `master_command`, the clearing
  of `twi_in`, the hand-over of answers. The hand-over itself is one step; the
  interrupt is shorter than what the bus does in that time.
* Two interrupts fall into one `twi_step`: the comment in main.c gives it 130 us,
  and a byte takes 90 us at the 100 kHz of the bus. This is `Burst`.
* Between the write and the read of one Do lie 100 ms, a pass of the main loop
  takes less than half a millisecond: `Wake` comes when the command has been
  looked at. Other transfers come at any time in between.
* Lengths are scaled: a response of eight bytes instead of 80, a greeting of
  three, answers of three and four. What matters is kept: two answers fit, three
  do not, and seven and eight bytes are the lengths of `DeafOnlyWhenFull`.
* A packet torn by an overwritten buffer is found out by its CRC. This is true
  of most and not of all torn packets.
* Between transfers the byte in TWDR is not read by anybody and is set to zero.
* After an error on the bus both outcomes of the transfer are possible: a write
  behind its last byte succeeds or fails, a read is what was read so far with the
  line at rest behind it, or fails and leaves the buffer as it was.
* Left out: Command_Reset and Command_Flash over TWI, commands longer than the
  command buffer, `Client.Close`, the `out` channel, which nobody feeds, and the
  raw reads of mega-cli.

### 2.5 Decisions: iodin

* `GpioMdb`: the clock has six values; timeouts are one or two units, a delay is
  as late as two. The words of an answer are its data with their places and an
  end, so that checksums of different answers do not agree. The peripheral may
  answer anything to a request it has heard, at any speed, or nothing.
* Every pigpio call may fail once in a behaviour, at every place. A failure
  below `new`, `close`, `bus_reset` or `tx` is what the `?` behind it makes of it;
  a close that fails may have stopped the waves before or not.
* `mem::uninitialized` is any contents of `buf`.
* `IodinLink`: the pipe holds whole responses, each with how much of it is left
  (`Kinds`): all, its body, or a rest that begins where no length is. A response
  longer than 256 bytes is the text of an error; at `io_iodin.go` nothing looks at
  the status, so the length is what matters. Do reads the rests as lengths: those
  of text are always too long, since no four printable bytes are a small number;
  those of an answer's data may be anything, zero and lengths that fit included
  (`ReadLength`, `ReadBytes`), and a few bytes at the end of the pipe are a short
  read. `Within` says what a read may leave.
* A write into a pipe nobody reads fails at once, and no read follows. The server
  sees the end of its input when the program has closed or lost its write end,
  whatever ends of the server the program still holds.
* The two finalizers of the ends that NewClient gave to the child run some day:
  Go's runtime collects at least every two minutes.
* Requests to the server that do not parse, the mock mode, and an empty
  request, which `iodinUart.Tx` refuses, are left out.

### 2.6 Decisions: currency

* `order` is any order that is sorted by its keys: `sort.Slice` is not stable
  and the map it starts from has no order. The orders of the check and of the
  commit are chosen independently.
* ExpendCombine draws either of its two strategies at each step; the seed is
  the total, which is the same at the check and at the commit, so the commit
  repeats the draws of the check (`draws`).
* `ExpendStatistical.Stat` has the nominals of the group and any counts. Counts
  wrap at `CountRange`. Statistics that lack a nominal of the group would panic
  (`currency.go:121`); that they have all is a precondition of the model.

## 3. Runs

| Run | Shows |
| --- | --- |
| `money_core` | type invariant; `PipelineInOrder`, `CoinsBookedOnce`, `LeverCoversEarlierCoins`, `CreditIsExact`, `ErasedOnlyAfterPayout`, `PayoutsNeverOverlap` under every interleaving of two coins and a press, with a lost poll, command or answer, counts that are cut, and a sale |
| `money_restart` | two callers of Abort, the second behind a failed first one, the stop of coin.Run, all statuses the driver can produce, a coin of an unknown type and coins routed to the cashbox: `CreditIsExact`, `NoPanic`. The machine really stops here, so deadlock is not checked |
| `money_live` | `NoticesHandled` and `AbortsReturn` under fairness, with a refused DISPENSE, a lost one, empty tubes and a changer that is busy for reasons of its own |
| `money_backlog` | ends in a violation (section 5) |
| `gate_clean` | packets of commands of three kinds at any moment, answers in time, with a wrong checksum, wrong or absent: `AnswersTakeTurns`, `RestIsClean` and `SuccessIsWhatWasTold` until the gate sends RET, and `GateBecomesIdle` under fairness, behind RET too |
| `gate_disturbed` | anything: late answers, answers and requests that overflow their buffer, breaks of the bus, a reset in the middle, a stray or broken frame at any moment: `GateTypeOK` (types and the bounds of both buffers), `WaitsUnderTimer`, and `TransactionsEnd` under fairness |
| `gate_retry` | ends in a violation (section 5) |
| `mega_link` | one Do, the watcher, a key or an error on the bus, at every byte and at every cut of `twi_step`: no answer is lost (`AnswersSurvive`), none comes twice or too early (`TakenInOrder`), the command is executed (`CommandsExecuted`), the gate keeps its address (`DeafOnlyWhenFull`), transfers and Do end (`TransfersEnd`, `DoReturns`). Each of the named exceptions is really needed: TLC finds a violation without it |
| `iodin_port` | two transactions, opens and resets with a failing pigpio call anywhere: `OwnAnswer`, `StaleMarksNeedLongReads`, `PortHeld`, `WavesAreOwned`, `NoEarlyTimeout`, and `WaitEnds` under fairness. The server may panic or be left alone, so deadlock is not checked |
| `iodin_ninth` | ends in a violation (section 5) |
| `iodin_link` | two callers of mdb.Tx, eight calls, two long responses, either process ending at any moment: `KeepsPromise` (the refinement of `Exchange`, its liveness included), `PipeHoldsOwnAnswer`, `ServerEnds`. Both processes end, so deadlock is not checked |
| `currency` | two sets of nominals, counts of zero to two, amounts to seven, four strategies: `NothingLost`, `SaysWhetherPayable` against the definition of what can be paid at all, and `CheckedCommits`: a checked withdrawal succeeds unless keys tie |

### 3.1 Bounds

Money: `Budget` says how many coins, presses, quiet notices, spurious busy
answers, faults and restarts a behaviour may have; everything the program does
on its own is unbounded. Two coins of two nominals are enough for a coin to be
early, inside and late with respect to each loop of Abort; one lost message for
each place where one can be lost, the first command of Abort and the second
included; a press and a restart for two Aborts after and next to each other;
`MaxItems` is two so that a poll can carry one or several items, and one in
`money_restart`, where a full response leaves notifications behind. A third coin
belongs to `money_backlog`: with four notifications its circle exists.

`CreditIsExact` says how far the credit can be trusted: outside an Abort it is
what was inserted less what the changer was told to pay, less the coins counted
as lost, plus those counted as extra. What is counted there are defects of the
code (section 5), coin by coin; that no other step moves the balance, whatever
Abort did before, is the content of the invariant. `CountRange` is
two in `money_core`, so that two coins of a nominal are cut from their count; in
`money_live` `DispenseLimit` is two, so that they are refused.

Gate: `PacketSize` 2 has room for a byte and its checksum, so that
requests and answers exist that fill a buffer, and that overflow it by one or
two. Two packets of commands are enough for what one transaction leaves behind to
meet the next; in `gate_clean` one of them has two transactions and a Poll; one
stray frame hits each place of the main loop once. One or two packets of answers let the master be
too slow. The gate never stops, so deadlock is checked in each of its runs.

Mega link: one command, whose answers and the greeting are read by Do and by
the watcher in every order; the second answer comes late, while a transfer is
on or not; one key or one error on the bus. Three answers overflow the buffer.

iodin: blocks of two words (three in `iodin_ninth`, where a request needs a data
word behind the address) have one data word and an end; two transactions let
the words of an abandoned one meet the next; one failing call at each place.
Eight calls of Do are two for the start, one for STOP and five transactions,
enough for two long responses to slip and the tail of the first to meet the
length of a good response, of a long one, or nothing.

Currency: `CountRange` is three, so that counts wrap and tie; the sets of
nominals are a chain in which each divides the next, and one in which the greedy
choice fails.

### 3.2 Fairness

Money (`FairSpec`): the Go scheduler runs each goroutine that can run (weak
fairness of coin.Run, pollResultLoop, the main loop and each Abort), and the
mechanics finish a payout. Customers, faults and restarts are never forced.
Polls that fail are not part of coin.Run's fairness; the fault budget bounds
them.

Gate: the main loop is an endless loop and handlers are not
held off (weak fairness of the main loop, and of the handlers taken together);
frames leave (weak fairness of `ShiftsOut`).
`TimeIsUp` needs strong fairness, because it is possible only at one place of
the loop: the counter runs on whatever the loop does, and the loop comes to
that place in every pass. Nothing is promised of the master, who may neither
send nor read, nor of noise.

Mega link: a transfer that has begun goes on (weak). `twi_step` is begun when
the bus is idle for the length of a pass, which happens again and again, and is
finished (strong, since transfers disable it in between). The transfers of Do
get the bus in the end although the watcher reads again and again (strong): a
Go mutex hands over to a waiter after a millisecond. The watcher itself and
the keyboard are not forced.

iodin: the loops of the server run on and a started wave ends (weak); no
peripheral has to speak and no client to send. The clock wraps, so `WaitEnds`
asks for a deadline that a reading of the clock can fall behind. In
`IodinLink` reads, the server, the collector, SIGKILL and Wait come in the end;
callers and the end of the program are not forced.

## 4. Proofs

The theorems hold for all values of the constants that the `ASSUME` of the
component's module allows, and for behaviours of any length: what the bounds of
the runs cut off, the proofs cover. Each is proved from an inductive invariant,
and each of those was checked with TLC, on the constants of the component's runs,
before it was proved. A proof has one lemma per action and one step per conjunct
the action can disturb; lemmas about sequences and records stand in front.

| Module | Theorem | States |
| --- | --- | --- |
| `MoneySystem_proofs` | `TypeCorrect` | `Spec => []TypeOK` |
| | `PayoutsAreSerial` | `Spec => PayoutsNeverOverlap` |
| `MoneyPipeline_proofs` | `NoNoticeIsLost` | `Spec => []PipelineInOrder` |
| | `CoinsAreBooked` | `Spec => []CoinsBookedOnce` |
| | `LeverIsLast` | `Spec => []LeverCoversEarlierCoins` |
| `MoneyCredit_proofs` | `CreditExact` | `Spec => []CreditIsExact` |
| | `ErasedWasPaid` | `Spec => ErasedOnlyAfterPayout` |
| | `NothingPanics` | `Spec => []NoPanic` |
| `MdbGate_proofs` | `GateTypeCorrect` | `Spec => []GateTypeOK` |
| | `WaitersAreWoken` | `Spec => []WaitsUnderTimer` |
| | `StartedThenAnswered` | `CleanLine /\ Spec => []AnswersTakeTurns` |
| | `NothingElseIsLeft` | `CleanLine /\ Spec => []RestIsClean` |
| | `SuccessIsTrue` | `CleanLine /\ Spec => []SuccessIsWhatWasTold` |
| `MegaLink_proofs` | `MegaTypeCorrect` | `Spec => []MegaTypeOK` |
| | `MegaCommandsExecuted` | `Spec => []CommandsExecuted` |
| | `MegaFlow` | `Spec => []FlowInv` |
| | `MegaTakenInOrder` | `Spec => []TakenInOrder` |
| | `MegaAnswersSurvive` | `Spec => []AnswersSurvive` |
| | `MegaDeafOnlyWhenFull` | `Burst <= 3` gives `Spec => []DeafOnlyWhenFull` |
| `GpioMdb_proofs` | `GpioTypeCorrect` | `Spec => []TypeOK` |
| | `TransactionAnswersItself` | `Spec => []OwnAnswer` |
| | `PortIsHeld` | `Spec => []PortHeld` |
| | `WavesHaveOwners` | `Spec => []WavesAreOwned` |
| | `MarksAreRight` | `Spec => []StaleMarksNeedLongReads` |
| | `NoTimeoutIsEarly` | `Spec => NoEarlyTimeout` |
| `IodinLink_proofs` | `LinkTypeCorrect` | `Spec => []LinkTypeOK` |
| | `PipeIsOwn` | `Spec => []PipeHoldsOwnAnswer` |
| | `LinkImplementsExchange` | `Spec => Promise!Spec` |
| `Currency_proofs` | `CurrencyTypeCorrect` | `Spec => []CurrencyTypeOK` |
| | `CoinsConserved` | `Spec => []NothingLost` |
| | `RefusalsAreRight` | `Spec => []SaysWhetherPayable` |
| | `CheckedWithdrawalsCommit` | `Spec => CheckedCommits` |

### 4.1 The money system

Assumed: `ChangerAssumption` and `MoneyAssumption`; nominals, coin routing,
size of a response, limits and budget are arbitrary.

* *Types.* `TypeOK` is split into the parts of the changer, the pipe, the loop,
  Abort and the rest, so that a step only re-proves what it touches.
* *Serial payouts.* The property alone is not inductive: a `ready` signal may
  come from a poll made before the last DISPENSE. `PayoutInv` adds why this is
  harmless: Abort runs under its lock (`LockHeld`); if coin.Run is about to give a
  signal although the changer pays, that signal is older than the DISPENSE, and
  Dispense is in its second wait, which takes it (`StaleReadyIsTaken`); hence a
  caller that got past the first wait finds the changer at rest (`SendsAtRest`).
* *The way of a notification.* `Path` strings together everything between the
  changer and the handler. Three lemmas say what a step can do to such a sequence:
  a notification joins its end (`AppendNotice`), a Busy comes between two others
  (`InsertBusy`), the first is done with (`FirstDone`); sending to and taking
  from the channel leave it as it is (`PathSend`, `PathTake`). `PipelineInv` adds
  that coin.Run polls with an empty result and the loop receives with an empty
  hand (`Handling`), and that the events in the channel are of handled items, in
  order (`Announced`).
* *The credit.* `CreditIsExact` speaks of the moments without an Abort;
  `Accounts` says for each place of an Abort and each nominal what holds inside
  one. The books balance (`Balanced`) before its visit and behind its clear;
  between them what this Abort was answered for is still in the credit as well
  (`Running`), and behind the visit nothing else is but what it missed
  (`Returned`). Hence the clear erases what was returned and loses what was
  missed, and an Abort that fails keeps in the credit what it had paid. `AtHand`
  is about the visit between reading a count and sending it, `AboutToStore` about
  a write of pollResultLoop that races with the clear, `Failures` about an error,
  which ends its Abort.

### 4.2 The gate

* `GateTypeCorrect` and `WaitersAreWoken` assume nothing beyond `GateAssumption`
  and `WireAssumption`: any packet size, requests longer than their buffer, late
  and stray frames, breaks at any moment. That the buffers keep within their storage is
  part of the types.
* `WaitersAreWoken` rests on `Timed`: who waits has its timer, and who holds the
  line down has it until a step takes the state of the break away, which is `cut`.
* The other three hold on a `CleanLine`: the peripheral keeps its times, no frame
  is noise, requests have a length and fit their buffer, blocks are no longer
  than a packet and a byte, and the gate is not restarted in the middle of a
  transaction. Checksums may be wrong, and the bus may be reset. The
  constants of `gate_clean` satisfy it, and section 5 lists what becomes false
  without it. All three hold until the gate sends RET: the first wrong checksum
  is shown never to be a success. Behind RET they are false, which is the matter of
  the run `gate_retry`.
  The invariant, `CleanInv`, goes by the phases of a transaction: `Phases`
  says for each value of `mdb_state` which interrupts may be pending, what is on
  the line and in the buffers, and how many transactions are owed an answer. An
  interrupt handler and the main loop can meet in a phase only in the ways its
  clause lists.

### 4.3 The TWI slave and the mega client

Answers of any length, any number of requests, keys, errors on the bus and late
answers, and any cut of `twi_step`; nothing is assumed beyond the constants' types,
except `Burst <= 3` where it is said.

* *Packets* (`Sound`, `Filled`, `Begun`). A buffer is whole packets, each once and
  in the order they were made; what a reader holds is such a response behind its
  length, or the beginning of one. `ParsedFilled` says what `ParseResponse` makes
  of a complete response: the numbers in it, increasing, each once. Its list is the
  firsts of the packets, ranked, and the ranking is by an induction on places of
  the sequence, through the least element of a set of numbers.
* *Types* (`Base`) say also what the two ends know of a transfer: the length of
  what was read, the side the gate is on, what `Do` waits for; and that a transfer
  the gate has left before its last byte is one the bus has broken (`Transfer`).
* *Commands* (`ExecInv`). A command that has come whole waits in `twi_in` until
  it is executed; only a write that begins can take it away, and the handler marks
  one that does.
* *Flow* (`FlowInv`), which the next three rest on. Until a buffer overflows, both
  buffers are sound and what is to be read was made before what is collected. A
  reader gets a beginning of the response while the gate sends the rest (`Sending`),
  or has it all and reads padding (`Held`). `twi_step` swaps a buffer that is
  empty, that its reader has, or that nobody can address any more.
* *Order* (`OrderInv`): what the client has was made before what is under way,
  that before what is to be read, that before what is collected.
* *Nothing lost* (`SurviveInv`): while none of the three mishaps happened, no
  reader is on the bus inside `twi_step`, and when the handler empties the
  response its reader has it, the byte on its way included.
* *The address* (`DeafInv`). The shortest packet has three bytes. With `Burst` at
  most three no reader has begun to receive bytes under a swap, so that the place
  of the reader and `twi_out.used` agree and TWEA goes off only at the last byte
  the client asks for. The bound is exact: with `Burst` = 4 and answers of three
  bytes TLC finds a swap under a reader in the middle of its response, and a short
  response after which the gate is deaf. The comment in `main.c` allows two
  (130 us for a pass, 90 us for a byte).

### 4.4 iodin

* `GpioMdb_proofs`. `Dialogue` is the heart of it: in a transaction that began
  with nothing pending, what the peripheral has said is what was read, then what
  has arrived, then what it is still to say. `Clock` ties the deadline to the
  time that has passed through the wrap of the clock. `Owned` gives each wave its
  owner, `ZeroBuf` says how long the buffer is as zero as it began. Failing
  pigpio calls are steps like all others: `Base` and `PortHeld` survive one at
  every place.
* `IodinLink_proofs`. A pipe is always responses one behind another, of which the
  first may have lost its beginning and the others are whole, and the numbers in it lie
  between what was answered and what was performed (`Numbers`). From this the
  property that Do reads nobody else's response until a call failed over one.
  `LinkImplementsExchange` takes each step through the mapping of
  `IodinLinkProperties`: most are stutters, the end of a Do is one of the five
  ways `Exchange` has to answer, its guard a consequence of the invariant.

### 4.5 Currency

* `CurrencyTypeCorrect`: no count goes below zero or beyond its width, and a loop
  ends within as many steps as it owes. `CoinsConserved`: each needs the other,
  since that a count taken from does not overflow what was taken follows from
  their sum, the sum from the types. `StepsArePaid` bounds the steps, and with
  them the random draws, by what was paid.
* `RefusalsAreRight`. `SubsetInduction` is induction over the subsets of a group
  and says what `MapThenSumSet` sums to; a coin more or less, two parts, a common
  divisor follow from it. `ChainsGiveChange`: coins that divide each other and n,
  worth at least n, hold some worth n exactly. Of those worth at least n take some
  of the least worth; their smallest coin divides their sum and n, and without it
  they would fall short of n. So the largest nominal that fits can be taken without
  harm (`LargestIsSafe`): if none of it is among the coins that pay, smaller ones
  add up to it. `PaysInv` is this along the loop: what could be paid at first can
  be paid from what is left. Without the chain it is false (section 5).
* `CheckedWithdrawalsCommit`. `WaysInv` keeps the way of the check, a state for
  each coin taken: the commit stands on it, with the number drawn at each step,
  and its end owes nothing. A strategy leaves no choice (`PicksOnce`), so the
  commit cannot leave the way; by different keys there is one order only
  (`OnlyOrder`, a surjection between sets of the same size), so it starts on it.

### 4.6 Only model-checked

* The liveness properties (`NoticesHandled`, `AbortsReturn`, `GateBecomesIdle`,
  `TransactionsEnd`, `WaitEnds`, `DoReturns`, `TransfersEnd`, `ServerEnds`) and
  the fairness in `KeepsPromise`: out of the prover's reach, as is ENABLED.
* Everything else the passing runs check is proved. Where a proof needs induction
  over data, it is made on a set of numbers, through its least element: the
  library's induction theorems take an operator, which the provers used here
  cannot instantiate.

## 5. What the code does not do

Three runs end in a violation of what the comments say:

| Run | Comment | Behaviour |
| --- | --- | --- |
| `money_backlog` | "money->ui: X money inserted" (`api.go:6`) | three coins during a refund fill both channels; coin.Run waits in its send and never sets `ready`, which Abort waits for |
| `gate_retry` | the drawing in `mdb.c:151`: a second answer of the peripheral behind RET, and the gate's ACK behind that | a wrong checksum becomes a success without data: the receive buffer that RET empties, state still `Recv_End`, reads as an ACK; the repeated answer is an unexpected byte |
| `iodin_ninth` | "first byte with 9bit set" (`cmd/iodin/src/mdb.rs:116`) | the other ninth bits of a request are those of uninitialised memory or of the last words read: data goes out marked as an address |

The models contain more of the kind. Where a property would be violated by it,
the property names it as its exception (`mishaps`, `broken`, `slipped`, `cut`), or
counts it (`lost`, `extra`).

Money:

* A coin booked after its nominal was dispensed is erased by Clear
  (`api.go:114`, where the comment says "Release bill escrow + inserted coins").
* An Abort that failed at one nominal keeps what it paid at another in the
  credit; the next press pays it again (`api.go:108`).
* Coins the tubes could not pay are erased, and Abort returns nil: an accepted
  DISPENSE counts as paid (`head/money/coin.go:61`).
* A coin booked between `total` and Dispense is returned too; the unsigned
  difference wraps and Abort reports money yet to return (`api.go:115`).
* WithdrawCommit takes nothing from the credit, so that the lever returns the
  money of a finished sale, where `api.go:87` says "no user initiated return after
  this point". `spent` is not in the books of `CreditIsExact` for that reason: the
  credit balances without the sale.

Gate:

* The handler that ends a break leaves the state at `Bus_Reset`, and every later
  MDB command is refused as busy (`main.c:218`).
* TXC0 is left set by the ACK of one transaction; the next starts to receive
  before its last byte has left (`mdb.c:218`).
* A frame received during the break of the bus stops its timer and replaces the
  state, and so does the report of an error from before the break, whose
  `mdb_reset` ends it: the gate rests with its transmitter off and the line held
  down (`mdb.c:170`, `mdb.c:58`). The next transaction can leave idle and, if the
  old overflow flag has stopped its timer, waits for ever. This is the `cut` of
  `WaitsUnderTimer` and `TransactionsEnd`.
* An unexpected byte while sending, or a request that does not fit its buffer,
  ends the transaction with UDRIE0 set (`mdb.c:57`): the transmit handler finds
  the cleared `mdb_out` and leaves idle again and again with an overflow, edges
  that `state-graph.dot:22` does not have. This is why `RestIsClean` and
  `AnswersTakeTurns` are checked in `gate_clean`, where the peripheral keeps its
  times and requests fit. No property says that the interrupt stops.

TWI slave and mega client:

* The client always reads one byte more than the longest response. A response
  of the longest length or one less ends with the client's NACK, after which
  TWEA stays off: the gate does not answer its address any more (`twi.c:220`).
  The same after an error on the bus, which also leaves `twi_idle` as it was
  (`twi.c:148`).
* A read that begins while `twi_step` is about to swap the buffers sees an empty
  one, and its end clears the swapped one, unread (`twi.c:217`).
* A write that begins then is cleared with the command before it (`twi.c:73`),
  and a key replaces a command that waits (`twi.c:161`).
* The pin is high during every transfer, so a read that finds nothing makes a
  new edge and the watcher reads again; an answer made while the pin is high
  makes no edge of its own (`main.c:78`, `mega.go:123`).
* The watcher may take the answer Do waits for, and only logs it. A failed read
  is no error (`i2c.go:115`): Do finds no packets, run the old ones again.

iodin and currency:

* Words left by an abandoned transaction answer the next one (`mdb.rs:136`).
  The first half of `OwnAnswer` is about transactions that begin with nothing
  pending, the second half says when that is not so.
* A deadline beyond the wrap of the clock is over at once in a release build
  and a panic in a debug build (`mdb.rs:129`).
* A port that failed to open or to close half way is held until the process
  ends (`mdb.rs:73`, `mdb.rs:89`).
* After a response longer than 256 bytes later calls fail, get the responses of
  earlier ones, or get nothing and no error (`iodin.go:118`, `iodin.go:127`);
  `Exchange` calls this `slipped`.
* Nobody looks at the status of a response (`io_iodin.go:43`): a timeout on the
  bus is an answer without data.
* Greedy strategies refuse amounts that could be paid when nominals do not
  divide each other (`currency.go:126`), and with equal keys the commit of a
  checked withdrawal may fail half way, coins taken (`currency.go:98`).

## 6. Plan

1. *Done*: the money core, with its types and serial payouts proved; the gate;
   the TWI slave with its masters; the iodin port; the link between client and
   server with its refinement; currency with its proofs.
2. *Done*: the safety properties of the gate, of the iodin port, of the link
   with its refinement, and of the money system, proved.
3. *Done*: every safety property of `MegaLink`, proved.
4. *Done*: `CheckedCommits` and `SaysWhetherPayable`, proved.
5. Models still missing: the bill validator with InitSequence and the changer's
   own reset; the evend devices over a transport that drops the status; fileUart
   framing; papa; MultiWait and Sequence of msync, which nothing but a benchmark
   uses.

## 7. Not modelled

Generated code, the LCD, the i2c system calls, the configuration
file, command line tools and the schematic: input and output without a protocol
of their own. Of the generated bindings of pigpio iodin uses a dozen functions
and their error codes; the other four thousand lines have nothing that calls
them, so there is nothing to model. Timing in milliseconds: the models know
only order, and the timing assumptions named in 2.3 to 2.5. The bill validator,
the evend devices, fileUart, papa and msync's sequences are in the plan.
