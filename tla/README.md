# Verification of fileTransferCmd

TLA+ models of fileTransferCmd, a set of programs that copy files over RDMA under
centrally controlled transmission rates, with the TLC runs that check them and the
proofs, checked by TLAPS, that hold for every size. The reference is the C++ code in
`src/`; line numbers below are lines of the files named.

## The system

| Program | Source | What it does |
| --- | --- | --- |
| master | `master.cpp`, (variant `test-case.cpp`) | reads a job, sends each client its commands over TCP, collects the transmission rates the clients report, publishes them per interval |
| client | `client.cpp` | daemon; runs one file transfer per job in a thread, reports its rate to the master |
| server | `server.cpp`, `ClientInfo.h` | accepts transfers, one detached thread per connection |
| transfer | `StreamControl.cpp/.h`, `HwRdma.h` | queue pair set-up over TCP, send loop, receive loop, retransmission lists, registered memory |
| rate control of a sender | `MessageSwap.h`, `MessageInfo.h`, `timer.h` | asks the switches on the path for a rate with LUCP packets, spaces the sends |
| switch | `switch.cpp` (variants `switch1.cpp`, `switch2.cpp`, `switch_thread.cpp`) | sums the requests per port, divides the bandwidth, writes rates into passing LUCP packets |
| configuration | `LocalConf.cpp/.h` | key=value text files |
| scripts | `*.py`, `*.sh` | deployment and plots |

How they interact:

- master -> client: TCP, fixed-size commands; client -> master: TCP, a stream of
  numbered rate reports, the last one with rate -1.
- client -> server: one TCP connection per transfer. It carries the file name and the
  queue pair data (`sockSyncData`), and, in UC mode, the retransmission lists from the
  receiver to the sender. The same connection is reused for the next file: the
  receiver's "give me a file" message follows the last list in the same stream.
- client -> server: an RDMA queue pair, RC or UC. In UC mode packets may be lost; the
  first word of a block is its sequence number.
- sender <-> switches: raw LUCP packets; each switch lowers the rate field. Threads of
  one sender share `cache_packet`; threads of a switch share the port caches.
- The reply thread of a sender sets the interval of a `Timer` by which the sending thread
  spaces its blocks.
- All transfer threads of a client daemon, and the server if it runs there too, load and
  save the same `local.conf`.
- Inside the server, threads share `ClientList` and the memory pool of `HwRdma`. Inside
  the master, collector threads and the checker share the `RateCollector`.

### State, operations, and what is hard, per component

**File transfer** (`postSendFile`, `postRecvFile`). State of the sender: bytes left,
blocks posted, the list being served, the buffers and their numbers, completions
outstanding. State of the receiver: blocks counted, next expected number, highest number
seen, the deque of the numbers between, whether a first list was sent. Hard: packets are
lost, and retransmission makes the rest arrive out of order and twice; the receiver
decides on a timeout that all is lost while something is under way; buffers are
renumbered before completions are polled; two kinds of messages share one TCP stream.
Correct when the receiver leaves its loop only with every block, and each is counted
once; every list names exactly what is missing and fits the memory for it; the sender
leaves only when the receiver has the file; both leave in the end.

**Rate collection** (`collect_rate_info`, `check_and_send_thread`, in `master.cpp` and in
`test-case.cpp`, which differ in when an element is complete and who counts as finished). State: a queue with
one element per interval, a flag per element, per client and for the job. Hard: reports
of clients that started at different times reach the elements in any order; the flag
`finished` is set and notified outside the mutex; elements are only looked at when a
report arrives. Correct when records are published in order, each complete, none later than the
reports it needs, the last one with the fairness figures, and when the checker ends.

**Admission** (`server.cpp`, `ClientList`, `HwRdma::create_mr`). State: the descriptors
open, the list of clients by descriptor, the life of each thread, the bytes free in the
pool. Hard: the kernel reuses descriptors as soon as they are closed; the pool is tested
outside its mutex. Correct when the list is the set of live threads and never more than
the maximum, each thread controls its own peer, and the pool never runs below zero.

**Connection set-up** (`createLucpContext`, `connectPeer`, `sockSyncData`,
`changeQPState`). State: queue pair states, what each side has read of the other's
message. Hard: TCP segments messages anywhere, and `sockSyncData` reads every piece to the
start of the buffer; one side may be a message ahead of the other.
Correct when each side takes exactly the other's message, none is past an exchange the
other has not come to, and no read takes bytes of the next message.

**Rate control** (`MessageSwap`, `Timer`). State: the last reply, the packet to send, the
deadline of the next post. Hard: a reply thread writes what the sending thread sends; the
answers speak of an interval that is over; a deadline that fell behind is caught up with a
burst. Correct when a sender waits until its neighbours have heard of it, never exceeds
the line it was told of, does not raise its rate into an overload, and when all rates
together settle at a fair division; and when what it sends is neither ahead of the rates
it was granted nor, bursts included, behind them.

**Switch**. State: per port the sums of requests of this interval, the overload and the
share that followed from the last; in `switch1.cpp` also a ring of delayed packets (and in
`switch2.cpp` one without a thread that empties it). Hard: the collecting thread closes an
interval while requests come; the ring has no test for full, is received into without the
mutex, and its condition variable is never notified. Correct when no share is negative or
above the line, and when the ring hands packets on once, in order and in time.

**Job control** (`master.cpp` main loop, `client.cpp`). State: the command being run, the
transfer thread, the rate socket. Hard: a client that fails leaves the master waiting; a
command cut short is taken for the command to end. Correct when a job in which nothing
goes wrong ends, and when the master never goes on from a job that is not done.

**Configuration file** (`LocalConf`; `client.cpp:45` and `server.cpp:23`
construct one per transfer and one per server). State: the file, and the members each object has loaded. Hard: the destructor
saves on every path, also after a load that failed; saving is a truncation and, later, a
write, and there is no lock; a file found empty is no error. Correct when every transfer
runs with what the operator wrote and the saves nobody asked for do no harm.

## Modules

| Module | Models | Role |
| --- | --- | --- |
| `Transfer` | `StreamControl::postSendFile`, `postRecvFile`, the adapters and the TCP stream between | the two loops of a transfer |
| `FileCopy` | what a transfer promises | abstract specification, implemented by `Transfer` |
| `TransferProofs` | | theorems about `Transfer`, and that it implements `FileCopy` |
| `Pacer` | `RateController`, `Timer` (`timer.h`), and what `sniff` does to them | when a block may be posted |
| `PacedTransfer` | both, with a clock | `Transfer` composed with `Pacer`; the receiver's second is a number of ticks |
| `PacedProofs` | | theorems about `PacedTransfer` |
| `RateCollector` | `collect_rate_info`, `check_and_send_thread` of `master.cpp` and of `test-case.cpp` | the master's threads around `rate_queue` |
| `Publication` | what the gathering of rates promises the outside | abstract specification, implemented by `RateCollector` |
| `CollectorProofs` | | theorems about `RateCollector`, and that it implements `Publication` |
| `Admission` | the accept loop of `server.cpp`, `ClientList`, `recvData`, `HwRdma::create_mr` and `destroy_mr` | the server's threads around its shared state |
| `AdmissionProofs` | | theorems about `Admission` |
| `Lucp` | `MessageSwap::sniff` and `send`, requests and `collect()` in `switch.cpp` | senders and switches together |
| `MCLucp` | | a network of two flows and two ports for `Lucp` |
| `LucpProofs` | | theorems about `Lucp` |
| `Handshake` | `sockSyncData` and its four uses in `connectPeer`, `postSendFile` and `postRecvFile` | how the two sides of a transfer meet |
| `Job` | `consume` and `send_start_cmd` of `master.cpp`, `main` and `handle_transfer` of `client.cpp` | a job from command to end; composes `Handshake` |
| `MCJob` | | two clients and message lengths for `Job` |
| `JobProofs` | | theorems about `Job` and the `Handshake` in it |
| `DelayRing` | `sniff_lucp` and `delay_sender_thread` of `switch1.cpp` around `delay_buf` | the ring, its two threads, a clock |
| `DelayLine` | what the ring amounts to | abstract specification, implemented by `DelayRing` |
| `DelayRingProofs` | | theorems about `DelayRing`, and that it implements `DelayLine` |
| `LocalConf` | `LocalConf::loadConf`, `createDefaultConf` and `~LocalConf`, and when `client.cpp` and `server.cpp` call them | users of one file, without a lock |
| `MCLocalConf` | | a client daemon and a server for `LocalConf` |
| `LocalConfProofs` | | theorems about `LocalConf` |

The comment above a definition says what code it stands for; `PROJECT.json` has the lines
of each under `map`. An operator whose comment is only `mutant`, named after the
definition above or below it (`Known_Never` for `Known`), is that definition with a
plausible bug; no other definition uses it. Each property is known to fail under one.

### How state and actions correspond to the code

**Transfer.** A block is its sequence number. `spc` is where `postSendFile` is: at the top
of its loop (`"loop"`), in the inner loop that polls (`"poll"`), past it (`"join"`,
`"finished"`), stuck in a `recv` for more than will come (`"blocked"`), or gone by a failed
assert or an early return with a joinable thread (`"aborted"`). `rlist`, `restraned` and
`restranCap` are `restran_space`, the position in it and its allocation; `buf` the number in
the first word of each buffer, `sq` and `scq` what is posted and what has completed. A
step of the sender is one branch of one round: `SRecvFinish`, `SRecvList`, `SRecvGarbage`,
`SPeerGone`, `SAssertFails` for what `recv` returns, `SWait` for the `continue`s, `Post`
with the numbering of the *next* buffer in it, `SPoll`, `SJoin`. The receiver's `deque`,
`expect`, `maxSeq`, `recvNum` and `first` are `unrecv_packet_seqs`, `expect_seq`,
`recv_max_seq`, `recv_num` and `first_restran`; one step takes one completion of a batch
(`RDuplicate`, `RInOrder`, `RFillFront`, `RFillInside`, `RAhead`, or `RAssertFails`), the
end of a batch is `REndBatch`, an expired second `RTimeout`; both may send a list
(`RSendList`, `RSendFails`, `ROverflow`). `NicSend` reads a buffer when the adapter
transmits it, not when it is posted, and `NicLose` loses it then; the TCP connection is the sequence
`tcp`, in which the `FileInfo` of the next file follows the lists. Three history variables
record what the code never looks at: the blocks that reached a buffer (`delivered`), that
the first list appended the unseen tail (`tailFilled`), and that a posted buffer was
written again before it was read (`clobbered`).

**Pacer and PacedTransfer.** The `Timer` is its deadline (`timeout`) and `interval`; a rate is the
interval between two blocks it stands for. `Grant` and `Withdraw` are what a reply with
and without a rate does, `MayPost` is the test at `StreamControl.cpp:676`, `Charge` is
`updateNextSend`. `PacedTransfer` conjoins them with the steps of `Transfer`, and with
`idle`, the ticks since `t_last_recv`. Only `Tick` takes time: when all threads and
adapters have done what they can, or, at most `MaxHush` times, when they have not or
there is no rate.

**RateCollector.** `program` says which of the two programs runs: in `master.cpp` client `i`
starts `i * Offset` intervals late, in `test-case.cpp` each client has a delay of its own. `next[i]` numbers the reports of client `i`; `Report` is a whole round of
`collect_rate_info` under the mutex, `Closed`, `SetFinished` and `NotifyFinished` the way
out, where `finished` is set outside the mutex. The checker's `wait` is taken apart into the
test of the predicate (`KTest`), the gap before it sleeps (`KFall`), `KSleep`, and the
wake-ups; `KPublish` pops and sends a record.

**Admission.** A connection, its peer and its thread have one number. Descriptors are
allocated lowest first, as the kernel does. The life of `recvData` is `tpc`; `Close` and
`Remove` are the two calls of the deleter at 820-823, and anything may happen between.
`CheckPool` is the test outside the mutex of `create_mr`, `Register` what follows.

**Lucp.** `port` is the `SwitchCache` of a port; `Pass` a request going through a switch (both
what the port writes into it and what it adds to the port, one critical section), `Collect`
is `collect()`. A sender has `cache_packet` (`cache`), `true_rate` (`rate`), and the `n_iter` of its first
reply (`first`); `on` is whether its transfer runs, which begins once (`Run`) and ends (`Pause`).
`met` counts the requests of a flow in the interval that is open. `disturbances` counts what a
quiet network does not do: a transfer that ends, a packet that is lost, an interval closed
with too few requests, a request beyond `SEND_TIMES` (a port takes any number). `Send` and `Reply` are rounds of its two threads, `ReplyWhileSending` is
the overlap of the `memcpy` of one with the `sendto` of the other, in which each field of the
request may be old or new. `n_iter` only matters as a difference: the numbers a sender compares
with a port's are kept relative (`Seen`, `MoveBack`), so that ports close any number of
intervals within `MaxIter`. Doubles are whole units, divisions round down, the overload is
counted in parts of `Scale` (the code compares it up to 1e-6).

**Handshake.** A message is the sequence of its bytes, a byte the pair of its message and its
place. `Read` is one `read` of `sockSyncData`: it takes any number of the bytes that
arrived, up to the size of the whole message, and writes them over the *start* of
`remote_data`. `Accept` and `Reject` are what the caller does with it: garbled data may pass
(any queue pair number is a number) or not. `sent`, `exact` and `split` are history.

**Job.** A connection is a job and a client; its `rate` is the TCP connection between the
daemon and the master, `xfer` the thread `handle_transfer`. `Return` is any of its early
returns, which leave `rate` open; `ProcessEnds` takes all transfers of a client with it:
`CMD_END` read out of a command that was cut (`CutCommand`), or an early return of
`postSendFile` past the creation of its statistic thread (`Abort`). The checker is only its
end: the last thread that leaves finds all clients counted (`Finished`) and notifies it
(`NotifyChecker`), which may fall between its test and its sleep (`checker` = `"lost"`) and then
leaves it asleep unless it wakes spuriously; `JobOver` joins it only if it was told. Between `Start` and `LastReport` lies
`Transfer`.

**DelayRing.** Time is kept as ages, so that `now >= send_time` is `age >= Delay`. `SLoop`
reads the head under the mutex, `Receive` (in `SDelayed` and `SAtOnce`) writes into the
place without it, `SPut` queues. The delaying thread holds the mutex from `DLoop` to
`DWait`, sends in between (`DSend`), and wakes by its limit (`DWake`) or spuriously. `late`
records that time passed while a thread had something to do.

**LocalConf.** A text is, for each key, no line, a rejected value or a valid one. A user is
a `LocalConf` object: `Open` is the constructor and the attempt to open the file, `Read`
and `ReadRest` the reads of the stream while it parses, `Truncate` and `Write` the two ends of a
save, by the destructor or by `createDefaultConf`. `Finish` is the end of the transfer that
owns the object, `Edit` the operator, `Kill` the end of a process. A write at the start of a
file that another has written meanwhile leaves the longer one's end (`length`). `stale` are the
users that found the file empty or had it loaded when the operator changed it; `spoiled` records
that one of them has saved, or that a process ended in the middle of a save.

## What is checked

All runs but the three of the last table pass.

| Run | Question | Properties |
| --- | --- | --- |
| `transfer_lossy` | Any four packets lost of a file of four blocks, the receiver's second expiring at any moment: what do the loops guarantee without luck? | `TypeOK`; `Complete`: done means every block; `RecvCount`: each counted once; `FinishJustified`: the sender leaves only when the receiver has all, with enough completions polled; `ListFits`; `OnlyBlocks`; `ListExact`: a list names what is missing, no more |
| `transfer_paced` | The same loops in time, with the last block never lost: blocks go out at their deadlines, the rate comes and goes, the receiver's second is a number of ticks | `NoAssertFails`; `SecondIsEnough`: when it expires nothing is on its way; `Paced`: the rate is kept in the long run, and made up for after a pause; `CopySpec`: the transfer is a `FileCopy`; `Finishes`: both sides end |
| `transfer_rc` | The reliable transport, with a receiver that may run out of posted buffers | `RcConserves`: no block lost or invented unless the queue pair is in error |
| `rate_collector` | Two clients of any length in either program, connections lost or not | `NoUnderflow`: the index into the queue is never negative; `InOrderComplete`; `NotLate`: a record waits for no report it does not need; `CheckerEnds`; `PublishSpec`: seen from outside it is a `Publication`, whose last record, and no other, has the figures of fairness |
| `admission` | Four connections to a server with room for two | `ListIsThreads`, `OwnPeer`, `PoolHolds`; `NoWrap`: the pool's unsigned counter does not wrap as long as no descriptor was reused too early (after that it can); `RoomAgain`: a full server has room again |
| `lucp` | Two flows that begin at any time, requests torn by the sender's two threads, one disturbance anywhere (a flow ends, a packet is lost, an interval has too few requests, or one too many) | `TypeOK`: no negative share, no rate above the sender's own; `Patient`: no data before three intervals; `WithinTarget`: no rate above the line of the port named; `NoRaise` into an overload; `Converges`: the rates become max-min fair and stay so |
| `job` | A job for two clients, either daemon up or down, one failure of any kind anywhere, handshakes split anywhere | `TypeOK`; `Exact`: without a split every message is taken exactly, and the go-ahead always is; `Barrier`: nobody is past an exchange the other has not come to, splits or not; `JobComplete`: the master goes on only if every transfer has sent all its blocks to a server that agreed; `JobEnds`: undisturbed jobs end, unless the checker sleeps through its notification |
| `delay_ring` | Five packets through a ring of three places | `TypeOK`; `SentInOrder`; `OnTime`; `LineSpec`: the ring is a `DelayLine`; `Drains` |
| `local_conf` | Two transfers of a client and a server load and save one file, whatever is in it; one edit, one process killed | `Kept`: every transfer runs with what the operator wrote and the file goes on saying it, but for the stale and until one of them saves or a process ends within a save; `Repaired`: a text that fails to load does so only for a while |

Three runs show where the code does not do what it says:

| Run | Property | What TLC finds |
| --- | --- | --- |
| `transfer_tail` | `TailLossHandled` | The comment at `StreamControl.cpp:469` says the loss of the last packets is provided for. The first list appends the tail to the deque but leaves `recv_max_seq`; a tail block that comes later is appended a second time, `expect_seq` never reaches the end, no empty list is sent, and the sender takes the next `FileInfo` for the length of a list. |
| `transfer_early` | `ListWhenIdle` | The assert at 669. The next number is written into the next buffer before completions are polled; with all buffers outstanding this buffer has not been sent, goes out with the later number, and the receiver sees the last block before its time. |
| `admission_lookup` | `SelfListed` | The assert at `ClientInfo.h:65`. A descriptor is closed before its entry is erased; the client that gets it next is not added, and loses "its" entry to the old thread. |

The properties of the passing runs that these defects would break are stated with the
condition that they have not struck: `Sound` in `Transfer` (the last block is full, the
tail was not appended, no buffer was clobbered), `~reused` in `Admission`. Other faults of the
code contradict no document, so no run states them as findings, and the properties exclude
them by name: that the checker sleeps through its notification, which is given without
the mutex (`~missed` in `CheckerEnds`, `checker = "lost"` in `JobEnds`); that a load falls between
another's truncation and its text, a change by the operator on a transfer in progress, or the
end of a process on a save (`stale` and `spoiled` in `Kept`). `Sound` is a condition on
the history of one transfer, not on the environment, so the runs check everything up to the
point where a defect strikes. `KeepLast` and `Prompt` are conditions on the environment and
are used only where the question is what happens under them; `Prompt`, that the receiver's
second expires only when all is quiet, is what `SecondIsEnough` derives in
`transfer_paced` from the length of that second.

### Bounds

- `transfer_lossy`: four blocks and three buffers, so that buffers are reused while others
  are outstanding; four losses, because a duplicate that falls *inside* the deque needs two gaps,
  a list, the loss of a retransmission and a second list. `MaxPosts` = 8 leaves four
  retransmissions. One completion per poll, which gives every batch boundary.
- `transfer_paced`: four blocks, buffers for all of them and one more (`clobbered` cannot
  happen), two losses. Intervals of 1 or 2 ticks; `Second` = 8 is the least that holds
  with two losses at the slow rate and one tick of hush: it must be more than
  `(MaxLoss + 1) * Slowest + MaxHush` = 7 (`SecondSuffices`), and with 7 TLC finds a list that
  is early, so the run shows that the limit proved is the true one. `MaxPosts` = 12 is more than the sender
  can need, so that it never blocks progress. About 100,000 states.
- `transfer_rc`: five blocks over three buffers and three posted receives; the reliable
  transport loses nothing, its hard case is a receiver without a posted buffer.
- `rate_collector`: two clients; the master's second starts two intervals after the first,
  in the test case each starts at once or two intervals late; last reports numbered 1 to 3: one
  ends before the other starts, at the same time, or after it, and the shortest are not
  noticed (`MinReports` = 1). `Offset` 100 and `MinReports` 5 of the code become 2 and 1, in
  the same order. The proofs have no such bounds.
- `admission`: four connections and a limit of two, so that a slot is refused, freed and reused; the pool
  is exactly two registrations, as in the code (`BlockNum` x `MaxThreadNum`).
- `lucp`: a flow over a narrow and a wide port (lines 1 and 3) and one over the wide port only, the
  smallest network in which the fair division is not the same for all. Two requests per
  interval instead of five; one packet of a flow under way; one disturbance. A flow begins
  (`Run`) at any time, after any number of intervals, since numbers are relative; a port
  counts any number of requests. `MaxIter` = 5 leaves no difference out that a sender could see: it
  looks for a lag of three, and an answer under way is at most `1 + MaxDisturbances` intervals
  old, so four plus the disturbances is enough. `InitRate` = 4 is above both lines, as
  `DefaultRate` = 100 of `local.conf` is above the lines of 95 and 9 of `switch1.conf`. The condition
  matters: with `InitRate` = 3, the wide line itself, TLC finds rates that oscillate for
  ever, a flow that no switch names coming and going. About 750,000 states.
- `job`: two clients, so that one can fail while the other goes on; one failure. A second job
  would begin like the first, with fresh counts, on whichever daemons are left, which is what `Init` allows.
  Messages of 1, 2, 1 and 1 bytes: one message that can be split, followed by one that can be
  swallowed. `CHECK_DEADLOCK FALSE`: after a failure the master may wait for ever.
- `delay_ring`: three places, a delay of two ticks, five packets: the head can overrun the
  tail and every place is used twice. Ages stop counting at twice the delay.
- `local_conf`: one key is enough, since keys do not influence each other except through the
  error they share; two users of one process and one of another, so that a kill takes some and
  leaves some; values of which one is the default, one the repaired, one longer than both.

### Fairness

- `PacedTransfer`: both loops never wait for anything but each other, so their steps are
  weakly fair. A list that has arrived is read, and a block is posted, only at the top of the
  sender's loop, which it leaves to poll again and again: hence strong fairness there.
  The adapter either transmits or loses; the number of losses is bounded. The clock goes
  on, and a rate that was taken away is granted again, which is `Converges` of `Lucp`. `Transfer`
  alone is checked for safety only and needs none.
- `RateCollector`: every thread runs, strongly fair where the step needs the mutex the
  checker keeps taking. That clients send all their reports is not assumed but is the
  premise of `CheckerEnds`.
- `Admission`: the loop answers whom it accepted, the threads run, and a transfer ends. No
  client has to connect.
- `Lucp`: the three threads and the packets go on. Nothing says that a flow begins or ends.
  That intervals have `SEND_TIMES` requests of every flow is what the code aims at with
  `COLLECT_INTERVAL = SEND_INTERVAL * SEND_TIMES` (`MessageInfo.h:8`) and nothing enforces:
  exceptions are disturbances, and `Converges` speaks of the time after the last of them.
- `Job`: the master's threads, both sides of a handshake, and a transfer that has started
  sends its blocks, which is `Finishes` of `Transfer`. Nothing says that a message asks for a job or that a
  receiver ends. `JobEnds` speaks of jobs in which nothing goes wrong and no message of a handshake is split: a
  split can leave a side waiting for bytes it has overwritten. It leaves out one order of the
  threads, the one `CheckerEnds` leaves out too: that the notification of the checker falls
  between its test and its sleep (`master.cpp:395-396`), for then it may sleep for ever. Spurious wake-ups
  are not relied on.
- `DelayRing`: both threads and the clock. Spurious wake-ups may happen and are not relied on.
- `LocalConf`: who loads or saves goes on. Nothing says that a transfer starts or ends.

## What is proved

The theorems hold for every value of the constants allowed by the assumptions the modules
name: numbers of clients, blocks, buffers, ports, messages, losses and failures are any.
Two of them are not free: a transfer has at least two buffers (with one, the next number
would be written over the block being posted), and a ring at least two places and a
positive delay. In each module the invariants asked for are not inductive; what follows
says what had to be added to them, and why.

**Transfer** (`TransferProofs`). `TypeCorrect` is `TypeOK`, inductive as it stands. That a
receiver that counted `NumBlocks` has every block (`Complete`) needs that it counts no block
twice, which needs to know what the deque means. `IInv` adds to the types

- `LoopInv`: the current buffer has the number that is due, in the first pass `sendcnt`,
  later the next of the list; `bytes_left` counts what is left of either; and completions
  for the whole file were polled once the sender is back at the top with nothing left;
- `WireInv`: queue, link and deliveries hold numbers of blocks already posted, lists numbers of
  blocks of the file;
- `DequeInv`: the deque covers `expect .. maxSeq` without gap, a block is `delivered` exactly
  if it lies before `expect` or is marked in the deque, and `recvNum` is their number;
- `DoneInv`: an empty list is under way, or the sender past its loop, only if the receiver
  has every block.

The parts about the data hold under `Sound`, which no step restores (`SoundBefore`). Each
part has a lemma for its step (`LoopStep`, `WireStep`, `DequeStep`, `DoneStep`), `Inductive`
puts them together, and `CompleteFile`, `CountedOnce`, `NumbersOfBlocks` and
`JustifiedFinish` follow. `ListsFit` rests on a smaller invariant of its own (a list is as
long as what is missing, and that only shrinks) and does not need `Sound`; `RcKeepsAll`
likewise, for the reliable transport. `ListsAreExact` is an action property: a list is the
marked part of the deque, and by `DequeInv` that is what is missing, provided the deque
reaches to the end of the file, which `FirstInv` says of every list after the first; what
the list skips over is counted by `Ranks`.

`ImplementsCopy` is the refinement: the initial states of a transfer are initial states of
`FileCopy`, and while the transfer is sound each of its steps is a step of `FileCopy` or
leaves `delivered` and the two outcomes alone. It needs `ToldInTime`: nobody is told that the
copy is complete before it is.

What can go wrong between the loops is the talk over TCP. `NothingFails` (no assert fails, no
`FileInfo` is taken for a list) rests on `TalkInv`: there is one list that asks for blocks at a
time, it is alone in front of the stream, the sender has nothing to post and nothing
outstanding while it waits, and a `FileInfo` comes behind the empty list. It is shown under `Prompt`,
because an early second breaks each of these. That a transfer *is* sound needs conditions on the
environment: `StaysSound` and `CopiesSafely` hold for full blocks (`ExactSize`), more buffers than
blocks, a last block that is not lost (`KeepLast`) and `Prompt`. `WindowInv` says why: the blocks not
read yet are the last ones posted, in the order of the buffers, and there are never more than
`NumBlocks`, so that the next number is not written into any of them; and once posted, the last
block is in a buffer, on the link or delivered, so that no second expires before it came.

**PacedTransfer** (`PacedProofs`). `PacedIsTransfer`: every paced behaviour is a behaviour of
`Transfer`, so that all of the above holds of it (`PacedComplete` is one instance).
`PacedAtRate` is `Paced`: the deadline lies between `sendcnt` of the shortest and `sendcnt` of the
longest intervals after the first rate came (`PaceInv`).

`SecondSuffices` says how long the receiver's second has to be: longer than
`(MaxLoss + 1) * Slowest + MaxHush`, that is, than the blocks lost in a row and the one that comes
take at the slowest rate, and the ticks in which a thread was held up. Then it expires only when
nothing is on its way (`SecondIsEnough`). `PatienceInv`: as long as anything is under
way, the ticks since the last completion are within `Patience`, which is that sum with the losses
and the hush so far, and if only the next block is under way, the time until its deadline fits in as
well; a loss uses up an interval of the sum and gives the next one. So the clock keeps what `Prompt`
assumes, and what was shown under `Prompt` holds in time: `PacedNothingFails`, and, under
`FitsBuffers` (the other conditions of `StaysSound`), `PacedStaysSound`, `SecondAlwaysEnough` and
`PacedCopies`. `transfer_paced` is an instance of all of these conditions.

**RateCollector** (`CollectorProofs`). `CInv` says what an element is a function of: the
cell of client `j` for interval `s` is what `j` has told of `s` so far (`DataInv`), and an
element is ready, or published, only if no client may tell more of it. `SeqInv`: numbers
go on without gap from the records to the queue. `FinInv`: `finished_arr` says only
what is true, which is why the completeness test may leave out those who finished.
`ReportTells` and `ReadyIsDone` are the heart: the test made when one client reports is
about all of them. `IndexNeverNegative`, `RecordsComplete`, `FairnessOnce` and
`ElementsInTime` follow, in both programs and for any starts and lengths.
`FairnessLast`, which `FairnessOnce` proves and no run checks, is in `PublishSpec` too.
`CollectorPublishes` is the refinement, `PublishSpec` itself: publishing a record is `Publish`, the
checker's end is `End`, and every other step is none. It needs one more fact, that an element is made
only for a report (`PublicInv`): otherwise records could follow the last report of all.
`NobodySleeps` is the safety core of `CheckerEnds`: when every client has sent a last report that is noticed
and every collector has ended, the checker is asleep only if `missed`. `WakeInv`: as long as a checker
that sleeps, or is about to, has not seen `finished`, some collector still has its notification to
give, or gave it in the gap.

**Admission** (`AdmissionProofs`). `AInv`: as long as no descriptor came back with its old
entry, the entries are the descriptors of the live threads, one to one (`ListInv`), a
thread has its own peer's address (`PeerInv`), and the free bytes are what the threads holding a
registration have left (`PoolInv`), where the unsigned arithmetic wraps at `Wrap`.
`EntriesAreThreads`, `PeersAreOwn`, `PoolIsEnough`: the pool is enough although
two threads may test it at once, because the list admits no more threads than it has
room for (`RoomForAll`). `PoolNeverWraps`, the action property `NoWrap`: every step changes the counter by
exactly what it takes or returns. `ServerTypes` says nothing of that: a number taken
modulo `Wrap` is always below it.

**Job and Handshake** (`JobProofs`). `HInv`: the bytes a side has taken plus those under way
to it are at most what the other sent, counted from the start of the connection; a side can
only be past exchange `m` when it took as many bytes as the messages up to `m` have, so `Barrier`
holds for any message lengths and any way of cutting them (`NobodyAhead`). `XferInv` uses
the barrier: a transfer that sends has a server that agreed. `CountInv`: a client is counted
after its last report. `MasterWaits` is `JobComplete`, `JobTypeCorrect` the types.

What the bytes are is `EInv`: what is under way to a side is the end of the stream of all that
the other sent, and as long as no read was cut short the side is at the beginning of the message it is at.
So it takes that message and no byte of the next (`TakesExactly`, the property
`Exact`). After a split it may not, but the go-ahead always is: it is a single character
(`StreamControl.cpp:355`, `603`), which is the theorem's assumption `Sizes[Go] = 1`. `NobodyStandsStill` says
that two sides whose reads were not cut never wait for each other, for both send before they
read. `NobodyUncounted` is the safety core of `JobEnds`: in a job in which nothing went wrong, a
thread of the master that has ended has counted its client, and when all have ended the checker
has been told or has lost its notification (`CheckerInv`).

**Lucp** (`LucpProofs`). A reply is trusted by a sender that knows only what is in it, so the
invariant (`LInv`, in `LucpInductive`) is about packets on their way: `Good` says that the
share in a packet is at most the line of the port it names, that a packet that names none passed
no line narrower than the sender's own, and that at its last switch its interval is one
that this switch has reached. It survives a step because ports offer nothing above their line
(`ShareInBounds`), intervals only go on (`GoodGrows`), and moving the compared numbers back keeps
their differences (`MoveBackStep`). Nothing in it bounds the requests of an interval. A torn request is good like any other
(`RequestGood`): what a sender asks for is harmless. `LucpTypes`, `SendersWait`,
`SendersWithin` and `NoRaiseIntoOverload` follow for any network.

**DelayRing** (`DelayRingProofs`). Places are counted from the tail, so that those that
wait are the ones before the head; `AfterWraps`, `HeadMoves` and `TailMoves` say what
moving either end does to them, the head running into the tail included. `OrderInv` says
that packets sent, waiting and in hand are in the order of their arrival; `TimeInv` that
those nearer to the tail are older and that while the thread waits nothing is older than
the delay plus its wait. `RingTypes`, `InOrder` and `Timely` follow. `RingIsLine` is the
refinement, `LineSpec` itself: `PutStep` and `SendStep` say that a packet put or sent is one
at the end or the start of the line, or that the line is emptied when the ring overruns.

**LocalConf** (`LocalConfProofs`). `Kept` is not inductive because a file is wrong for a
while in every save. `IInv` says that, unless spoiled, the file is in one of four forms (none, empty with
somebody about to fill it, what the operator wrote, or its repaired form), and what each
user that is not stale has loaded or is about to write is what was wanted (`UserInv`); a user that has not loaded is
not stale (`IdleInv`), which is why a change while nobody has the file loaded mends it. `ConfKept` holds for any number of
processes, objects and keys, with the exclusions of `Kept`: it does not say that a load in the
middle of another's save finds what the operator wrote, for it finds the defaults.

Only model-checked: every liveness property (`Finishes`, `CheckerEnds`, `RoomAgain`,
`Converges`, `JobEnds`, `Drains`, `Repaired`) and the fairness in `CopySpec`, which are out of
the prover's reach. Every safety property of the passing runs is stated by a theorem.

## What is not modelled

- Of the set-up of queue pairs, only that it may fail. Device discovery in `HwRdma`: calls into
  the verbs library without state of their own.
- Errors of single calls (a verbs call that fails, a raw socket error other than "nothing there").
  Failures of a peer are in the models where the code has a path for them.
- In `Job`, descriptor numbers: after a command cut behind its type `client.cpp` gives a closed
  descriptor to the transfer, and the number may come to name another connection.
- Files: the program transfers memory, names and sizes only; the size matters as the number
  of blocks and whether the last one is full. `Transfer` has the latter (`ExactSize`), but no run
  sets it to FALSE: the sizes in the repository's configurations are multiples of the block size.
- Parsing: of a line of `local.conf` it matters whether its value is missing, rejected or valid;
  a saved `DefaultRate` is rounded to six digits, and the model's values are those after the rounding. The
  job and routing files are read once, before anything runs.
- Fairness and stability figures (`caculator_factor`): floating point statistics over
  records whose order and completeness `RateCollector` checks. Scripts and plots.
- Forwarding in the switches: raw sockets, checksums and routes. Variants: `switch1.cpp`,
  `switch2.cpp` and `switch_thread.cpp` treat requests as `switch.cpp` does; the ring
  that `switch2.cpp` declares has no thread that empties it.

## Plan

Done, most important first: `Transfer`/`FileCopy`, `RateCollector`/`Publication`, `Admission`,
`DelayRing`/`DelayLine`, `Lucp`, `Handshake` and `Job`, `Pacer`/`PacedTransfer`,
`LocalConf`, and proofs of the safety of each.

Left, models: a file whose last block is not full (`ExactSize` = FALSE) in `Transfer`, and the
file after the first on the same connection. Left, proofs: the safety cores of `Finishes` (a
transfer that stands still is finished), `RoomAgain` and `Converges`, as `NobodySleeps` and
`NobodyUncounted` are those of `CheckerEnds` and `JobEnds`.
