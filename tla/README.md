# Verification of the sponge TCP library

TLA+ models of the TCP library in `src/libsponge` and of the program
`src/apps/webget.cc` that uses it, the TLC runs that check them
on small instances, and theorems, checked by TLAPS, for every value of their
constants. `PROJECT.json` maps each definition to the lines it models and lists
the runs, mutants, hazards, findings and theorems.

## The system

| Part | State | Operations | What is hard about it |
|---|---|---|---|
| `ByteStream` | buffer, two counters, end and error flags | write, peek, pop, read, end_input, set_error | counters that others compute with; end of input |
| `StreamReassembler` | window of bytes with a bitmap, known end, output stream | push_substring | overlap, repetition, any order; one capacity for two buffers |
| `WrappingInt32` | none | wrap, unwrap, difference | recovering 64 bits from 32 |
| `TCPReceiver` | the peer's ISN, a reassembler | segment_received, ackno, window_size | early FIN, wrap-around, promises made by the window |
| `RetransmissionTimer` | running, elapsed time, rto | start, stop, check and handle timeout | backoff, reset |
| `TCPSender` | two queues, counters, window, timer, input stream | fill_window, ack_received, tick, send_empty_segment | window arithmetic, partial and old ACKs, probing a closed window |
| `TCPState` | none | two summaries | must follow the real progress |
| `TCPSegment`, `TCPHeader`, `NetParser`, `InternetChecksum` | header fields, parser position, sum | parse, serialize | errors in the middle of a parse, odd chunks |
| `Buffer`, `BufferList` | shared strings with an offset | append, remove_prefix | prefixes across buffers |
| `EventLoop` | rules | add_rule, wait_next_event | callbacks that close descriptors and add rules, errors of poll |
| `FileDescriptor` | shared descriptor, its end and closed flags | duplicate, read, write, close, destruction | numbers that are given out again, failures half way |
| `Socket` and its subclasses, `TunTapFD` | the class of a descriptor | construct, adopt, listen, accept, shutdown, sendto, recv | constructors that throw after they have taken over a descriptor |
| `Address` | the bytes of a sockaddr | conversions, comparison | byte order, sizes |
| `webget` | where it is in its request and its response | get_URL, main | short writes and reads, failing calls, a server that resets |

A `TCPSender` reads its input `ByteStream` and emits segments. A `TCPReceiver`
gives the payload to its `StreamReassembler`, which writes the output
`ByteStream`. The receiver's `ackno()` and `window_size()` travel back to the
sender. The class that would connect them, `TCPConnection`, is not in this
repository. Segments become bytes in a `BufferList`, which a `FileDescriptor` or
a `UDPSocket` writes. `webget` uses a `TCPSocket` of the kernel, not this TCP.

## Modules

| Module | Models |
|---|---|
| `UInt64` | unsigned and signed 64-bit arithmetic, modulo `AbsMod` |
| `ByteStream`, `ByteStreamSpec` | the class; one stream between a writer and a reader |
| `BytePipe` | abstract: a reliable stream of bytes |
| `SourceStream`, `StreamSegment` | the stream one end sends to the other, and its segments |
| `WrappingIntegers`, `SeqnoTracking` | wrap and unwrap; a number tracked through its wrapped form |
| `StreamReassembler`, `ReassemblerSpec` | the class; one fed with substrings of a stream |
| `AbstractReassembler` | abstract: the same in terms of indexes |
| `TCPSegment`, `TCPReceiver`, `TCPReceiverSpec` | the class; one whose peer's segments arrive in any order |
| `RetransmissionTimer`, `TCPSender`, `TCPSenderSpec` | the classes; one whose peer sends any acknowledgment |
| `SlidingWindow` | abstract: a stream sent in pieces that fit the announced window, the oldest piece repeated |
| `TCPTransfer` | the steps of `TCPSenderSpec`, a receiver and a network between them |
| `Buffers` | `Buffer`, `BufferList` and `BufferViewList` |
| `WireFormat`, `Address` | parser, header, checksum and segment as bytes; addresses as bytes |
| `WireSpec` | a segment serialized, written with short writes or sent as a datagram, changed on its way or not, and parsed |
| `FileDescriptor` | handles on descriptors whose numbers the kernel gives out again |
| `Socket` | the socket classes and `TunTapFD` on top of it |
| `WebGet` | `get_URL()` and `main()`, with the connection and the server; or any other program that uses the classes |
| `EventLoop` | `wait_next_event()`, one step for each iteration of its loops |
| `WrappingIntegersProofs`, `ByteStreamProofs`, `EventLoopProofs` | theorems about `SeqnoTracking`, `ByteStreamSpec` and `EventLoop` |
| `TCPReceiverProofs` | theorems about `ReassemblerSpec` and, from these, `TCPReceiverSpec` |
| `TCPSenderProofs`, `TCPSenderWindowProofs` | theorems about `TCPSenderSpec` |
| `TCPTransferProofs` | theorems about `TCPTransfer`, from those of both its ends |
| `WebGetProofs` | theorems about `FileDescriptor`, `Socket` and `WebGet` |
| `MC*` | instances for TLC |

Members keep their names without the leading underscore, and methods keep
theirs. Objects that are values inside others are records, and methods are
operators on them; the members of `TCPSender` and `TCPReceiver` are variables.

* The widths are constants: `SeqMod` stands for 2^32 and `AbsMod` for 2^64.
* `fill_window()` calls itself at its end. One step is one invocation, and the
  flag `filling` says that the tail call is due; no other call comes between.
* `push_substring()` has one loop for each of two cases. Both store the bytes
  that lie in the window, so the model has one operator, `store`, on the set of
  covered positions.
* The loop of `ack_received()` pops acknowledged segments until it meets one that
  is not. `fully_acked(n, a)` says that it stops after `n` of them, and
  `take_ack` takes the `n` for which that holds.
* Operators described as "a write that..." or "an unwrap that..." just before
  the one they vary are plausible mistakes. They are used only to show that a
  property would notice them.
* In `EventLoop` the application is free: each callback and each cancel may close
  any descriptor and add a rule, also one like a rule that is in the list or was
  cancelled, `interest()` answers as it likes, and a callback may or may not use
  its descriptor. `poll()` may report, time out, be interrupted or fail. The
  result of a rule that was added after `poll()` lies behind the end of
  `pollfds`; that read is undefined, and `result_at` lets it be anything. Since
  all indexes there are alike, `idx` stops just behind the end.
* In `FileDescriptor` each system call names a number, and reaches whatever has
  that number now. `repeated` records that a number may have been closed again
  after it was released, by a second `close()` or after one that failed.
* In `WebGet` each system call of `get_URL()` is a step and may fail. What the
  process runs is chosen at the start, so that one run has both `webget` and a
  program that does anything with the classes. `Request` is all that the calls of
  `write()` are given, and `Ends` says where in it each call's string ends.
* In `WireFormat` bytes are numbers below 256 and the widths are the real ones,
  except that 32-bit fields stay below 2^31. Loops over bytes are folds.

In `TCPTransfer` the owner of the two endpoints is external. Its duties are
taken from the interfaces and the test harnesses: send what is in
`segments_out`, answer each segment that occupies sequence numbers, pass
acknowledgments on, call `fill_window()` and `tick()`, and give up after
`MAX_RETX_ATTEMPTS`. The network is a set of messages, so they are reordered
freely. A message may be delivered and kept, which repeats it.

## Runs

| Run | Shows | Distinct states |
|---|---|---|
| `bytestream` | FIFO order, exact counters, refinement of `BytePipe` | 356 |
| `seqno` | tracking and closeness below half the 64-bit space | 224 |
| `reassembler` | right bytes, capacity, end of stream, refinement of `AbstractReassembler`; the whole stream arrives | 316 |
| `receiver` | acknowledged means arrived, the window keeps its promises | 670 |
| `sender` | outstanding segments tile the unacknowledged range, timer, FIN; refinement of `SlidingWindow` | 43442 |
| `transfer` | end to end, the connection refines `BytePipe` | 876921 |
| `transfer_live` | the transfer completes in spite of losses | 11948 |
| `eventloop` | poll results reach the right rules, the ready are called back; unless rules are added for ever, every call returns or throws and defunct rules leave the list | 345481 |
| `file_descriptor` | nothing is closed under its owner or left open; `eof()` and the class of a socket are true; `webget` sends all of its request, prints all of the response, and ends | 454357 |
| `wire` | round trip, one changed byte or a cut header is noticed, short writes lose and repeat nothing, prefixes and chunks of any length, whole datagrams with their sender's address | 86720 |

Two runs show a disagreement between the code and what is said of it.

* `full_window`: two acknowledgments have the same number, and the reader has
  taken a byte between them. If the older one, with the smaller window, arrives
  last, more is in flight than the window allows. The unsigned subtraction in
  `fill_window()` then wraps around and a further segment is sent.

* `wire_short_offset`: `TCPSegment::parse()` drops the result of
  `TCPHeader::parse()`. A segment whose data offset is below the minimum, and
  whose checksum is right, is accepted.

More were met while modelling and have no run of their own.

* `write()` accepts bytes after `end_input()`, which `byte_stream.hh` excludes.
  `ImplementsPipe` is therefore checked with `WriterStopsAtEnd`.
* When the right result of `unwrap()` is 2^63 or more, it is taken for a negative
  number and moved by 2^32. `AbsLimit` keeps `seqno` below that; a stream of 2^63
  bytes is out of practical reach.
* The comment on `wait_next_event()` says that an error of polling is thrown. A
  failure of `poll()` other than `EINTR` is swallowed (`PollFails`), and the call
  returns `Success`.
* A rule that a callback adds is reached by the loop that is running and reads
  behind the end of `pollfds`. It may be called back without having been polled.
* A `cancel()` that adds a rule on a closed descriptor each time keeps the first
  loop of `wait_next_event()` from ending. `WaitReturns` and `DefunctRulesGo`
  therefore suppose that from some time on no rule is added.
* `close()` sets its flags after `close(2)`. When that fails although it has
  released the number, the destructor closes the number again; so does a second
  `close()`. By then it may be somebody else's.
* An empty datagram sets `eof()` of its descriptor for good.
* When `UDPSocket::recv()` throws for a datagram that is too large, the caller's
  payload has the part that fitted, beside the address of an earlier datagram.
* `webget` may end by `SIGPIPE` instead of `EXIT_FAILURE` when the server resets
  while it writes.

### Bounds

* `bytestream`: capacity 2 and writes of up to 3 bytes reach truncated writes,
  a full buffer and reads of too much.
* `seqno`: `SeqMod` 8 and `AbsMod` 64 give several wrap-arounds, with every ISN.
* `reassembler`: 7 distinct bytes and capacity 4, so the window moves over the
  stream and segments start left of it, end right of it and cover it. Distinct
  bytes make a misplaced byte visible.
* `receiver`: a stream of 7 bytes with ISN 6 of 8, so sequence numbers wrap.
* `sender`: 5 bytes, ISN 6 of 8, every ackno, windows 0 to 4.
* `transfer`: 3 bytes, receiver capacity 2. `MaxRetx` is 0, which allows one
  retransmission between two new acknowledgments, at any moment. **`Lose` is
  therefore never enabled in this run.** For safety nothing is missed: a message
  that is never delivered is a lost one. `Lose` fires in `transfer_live`.
* `transfer_live`: 2 bytes, receiver capacity 1, so the window closes.
* `eventloop`: two rules, one for each direction, with a descriptor each, which
  any callback and any cancel may close. Either may be added any number of times,
  between calls or in a callback or a cancel. `MaxRules` is 3, so that a rule is in
  the list twice, and rules are added behind polled ones while those are erased.
* `file_descriptor`: two objects, destroyed and constructed again, share two
  numbers, so that numbers are given out again; three handles each and two bytes
  or packets of input. The request has seven bytes in four writes of which the
  kernel holds two, so that writes are short and block, and the response up to
  five bytes, of which two wait at a time.
* `wire`: every header field has a value of its own, with and without options
  and with several sets of flags; payloads of zero to three bytes; a pseudo-header
  sum that carries. Each byte is changed by 1, 128 and 255, and the writes are cut
  at every place. Datagrams are read with more room than they need and with less.

The time and backoff of the timer are bounded by `MaxTick` and `MaxRetx`. In the
code, `_rto` cannot overflow because its owner gives up after
`MAX_RETX_ATTEMPTS`.

### Assumptions

* A segment further than half the 32-bit space from what has been received no
  longer exists (`receiver`), and a sender has less than that unacknowledged
  (`sender`). TCP itself needs both.
* The owner calls one method at a time and sends what is queued before the next
  call (`Idle`).
* `ImplementsPipe` of `bytestream` is for a writer that stops at the end.
* A segment with the SYN's number, a FIN and no SYN flag is not among the inputs
  of `receiver`: no `TCPSender` sends one.
* An `EventLoop` that has thrown is not called again.
* `FillIsMaximal`, `NextByteAccepted` and the other action properties speak of the
  calls that change something. A call that leaves every variable as it was is a
  stutter to them; for the two named, what such a call ought to have done is
  covered by `TransferCompletes` only.
* `StillOwned`, `ClassIsKind` and `EofIsReal` say nothing once a number has been
  closed a second time (`repeated`); `NothingLeaks` holds even then.
* The host is little-endian (`Address`).

### Fairness

Both hosts are driven by an event loop and a clock, so each call that stays
possible is made, and a message that is not lost arrives. Each is weak fairness
on one action. Nothing is assumed of `Lose`, but its guard limits losses to
`MaxRetx` retransmissions in a row, after which the owner would give up.
`transfer_live` also sets `TimelyRTO`: the timer expires only when nothing is on
its way and the application has read what there is. Liveness is thus **not**
shown for premature timeouts; `transfer` has those, for safety only.

`eventloop` assumes that a call that has begun goes on and that `poll()`
comes back, as it does with a timeout, and that the application calls again until
a call returns `Exit`. Nothing is assumed of the callbacks except that each
returns.

`reassembler` assumes that each byte keeps being pushed, as a peer that
retransmits does, and that the reader keeps reading.

`file_descriptor` assumes that `webget` goes on when its next call can return,
that calls on a connection that was reset do return, and that the server reads
its input and keeps sending or ends. The first is the operating system's
scheduling and the second the kernel's contract for sockets; without the third
`read()` and `write()` block for ever, since `webget` has no timeout.

## Theorems

| Theorem | States | Argument |
|---|---|---|
| `UnwrapWrap` | `unwrap` undoes `wrap` near the checkpoint, for all widths | arithmetic modulo `SeqMod`, which divides `AbsMod` |
| `TracksAlways` | `TrackSpec => [](TrackTypeOK /\ Tracks)` for `AbsLimit <= HalfAbs` | `Tracks` is inductive by `UnwrapWrap` |
| `UnwrapAlwaysClosest` | `TrackSpec => []UnwrapIsClosest` for `AbsLimit + HalfSeq <= HalfAbs + 1` | two numbers with the same wrapped form are a multiple of `SeqMod` apart |
| `StreamIsFifo` | `Spec => [](TypeOK /\ Fifo /\ Accounting)` | the conjunction is inductive |
| `StreamIsPipe` | `Spec => ImplementsPipe`, for a writer that stops at the end | each step is one of `BytePipe` or none, from the invariant of `StreamIsFifo` |
| `ReassemblerCorrect` | the types, `WindowHoldsSource`, `NothingLeftBehind` and the three invariants of `reassembler`, for every stream and capacity; `OutputAlwaysPrefix`, `CapacityAlwaysRespected` and `EndsExactly` state these one by one | `Good`, see below |
| `ReassemblerImplements` | `ReasSpec => ImplementsAbstract` | each call of `push_substring()` is one abstract step or none, from `Good` |
| `StreamAlwaysPrefix`, `AckedAlwaysArrived` | `RecvSpec => []StreamIsPrefix` and `[]AckedHasArrived`, for every stream, ISN and order of arrival | `RecvInv`, see below |
| `WindowOnlyAdvances`, `NextByteAlwaysAccepted` | `RecvSpec => WindowNeverShrinks` and `NextByteAccepted` | what one push does to both edges of the window (`PushGrows`), from `RecvInv` |
| `NumbersAccounted`, `OutstandingAlwaysTiles` | `SenderSpec => []SequenceAccounting` and `[]OutstandingTiles`, for every stream, window and acknowledgment | `SenderInv`, see below |
| `TimerRunsForOutstanding` | `SenderSpec => []TimerIffOutstanding` | `SenderInv`, and a doubling for each retransmission (`Backoff`) |
| `SenderImplements` | `SenderSpec => ImplementsWindow` | each call is one step of `SlidingWindow` or none, from `SenderInv` |
| `FillAlwaysMaximal`, `SummaryAlwaysAdvances` | `SenderSpec => FillIsMaximal` and `SummaryAdvances` | what one invocation of `fill_window()` sends (`FillSends`); what no call takes back (`Forward`) |
| `AlwaysTyped`, `AckedAlwaysReceived`, `AlwaysFinishTogether` | `Spec => []TypeOK`, `[]AckedIsReceived` and `[]FinishedTogether` for the transfer, whatever the network does | `TransferInv`, see below |
| `TransferIsPipe` | `Spec => ImplementsPipe` for the transfer | each step is one of `BytePipe` or none, from `TransferInv` |
| `DescriptorsStayOwned`, `NothingEverLeaks`, `EofAlwaysReal`, `ClassAlwaysKind` | `Spec => []StillOwned`, `[]NothingLeaks`, `[]EofIsReal` and `[]ClassIsKind`, for any number of objects and any numbers | a correspondence of two tables, see below |
| `PrintedAlwaysResponse`, `RequestAlwaysWhole` | `Spec => []PrintedIsResponse` and `[]RequestArrivesWhole`, for any request and response | where each byte of both is, see below |
| `ResultsAlwaysBelong`, `CallsBackExactly` | `Spec => []ResultsBelongToRule` and `[]CallsBackTheReady`, for any rules and any length of the list | the two positions stay aligned, see below |

**Reassembler.** `ReassemblerCorrect` rests on `Good`. Its part `Core` says that
the output holds the next bytes of the source, that marked positions hold the
right bytes within the window, that the count of marked positions is right, and
that the known end is the end of the stream. `Core` holds at every point inside
`push_substring()`. `Good` adds what holds only between calls: position 0 is not
marked, and the output has ended if everything is there. `OutputIsPrefix` alone
is not inductive, since it says nothing about the window from which the output is
fed. Each stage (`mark_eof`, `end_at_eof`, `store`, `assemble`) has a lemma. One
of them shows that the output always has room for what is assembled, so the
ignored result of `write()` loses nothing. For `ReassemblerImplements`, further
lemmas say what each stage does to the set of marked positions (`Kept`), which
`Good` leaves open.

**Receiver.** `RecvInv` is `Good` of the reassembler, and that all it knows of
the stream, written, marked or the end, has arrived (`Arrived`). `AckedHasArrived`
alone is not inductive: one push can move `ackno()` over bytes that came long
before, which only `Arrived` accounts for. That a segment's 32-bit number is
recovered as its index is `UnwrapWrap`, as long as the segment is within half the
32-bit space of what has been written (`Alive`). The theorems assume that the
capacity is below half the 32-bit space, which holds of any window a TCP header
can announce, and that the stream ends well below half the 64-bit space.

**Sender.** `SenderInv` speaks of absolute numbers, though the segments carry
32-bit ones and what is recovered from these depends on `next_seqno`, which
moves. `Tiled(start)` gives each outstanding segment the absolute number at which
it starts, and no step changes that number. `Near` says that what has been
written is within half the 32-bit space of what is acknowledged, so by
`UnwrapWrap` the recovered numbers are the absolute ones. `Buffered` and
`Accounted` tie the numbers to the stream, and `Timed` the timer to the queue.
`OutstandingTiles` alone is not inductive: it says neither what is still in the
stream nor how far `next_seqno` may move. For `SenderImplements`, `Waiting` adds
that what waits in `segments_out` starts between `receiver_ack` and `next_seqno`.
It holds because the owner sends it before the next call. The assumptions are
those of `TCPSenderSpec`: the stream and the window are below half the 64-bit
space, the 32-bit space has at least four numbers, and the application has no
more than half of it unacknowledged.

**Transfer.** The sending host takes steps of `TCPSenderSpec`, so `SenderInv`
holds there too. `HostInv` adds that everything in `segments_out` is a segment of
the stream (`OnWire`): the transfer's owner never calls `send_empty_segment()`.
`TransferInv` puts the ends together. Every segment on its way is `OnWire`. The
receiver is `Good` and knows only of numbers below `next_seqno` (`Holds`, which is
`RecvInv` with the numbers the sender has used in place of those that have
arrived). Every acknowledgment on its way names a number the receiver had reached,
and so has `receiver_ack` (`Acknowledging`). What the application has read is the
beginning of the source (`Reading`). None of this is inductive alone. An old
acknowledgment is harmless only because the receiver never goes back
(`UptoGrows`), a new one only because the receiver knows of nothing that was not
sent, and both are recovered correctly only because the whole stream is shorter
than half the 32-bit space (`TransferAssumption`). A longer stream would need a
limit on how long messages live, as `Alive` is for `receiver`. The theorems also
rest on the assumptions of both ends, which the instance of `transfer` satisfies
too. TLC has checked every part of `TransferInv` there except the existential
`Tiled`, in whose place `sender` checks `OutstandingTiles`.

**Descriptors and webget.** The invariant of `WebGetProofs` relates the kernel's
table to the objects. A number that is given out leads to an object that is alive,
is not closed and has that number (`Corresponds`); an object that is alive and not
closed leads back to its number (`StillOwned`, until a number is closed twice).
Neither direction is inductive alone: a `close()` hits only its own descriptor
because of the second, and a new number is nobody's because of the first.
`FileInv` adds what is behind each descriptor. `PrintInv` says that what the
server has sent has been printed or waits in `webget`'s socket, which is open, not
at its end and the only one of its number. `RequestInv` says that the server, the
kernel and the buffer of the current `write()` hold consecutive parts of the
request. The strings of the calls are assumed not to be empty, as they are not in
`get_URL()`.

**Event loop.** The invariant of `EventLoopProofs` follows the two positions.
`Prepared` says that while the rules are prepared, the entries of `pollfds` are
those of the rules before `it`, and `Aligned` that afterwards the rules from `it`
on begin with those of the results from `idx` on. `Called` says that callbacks were
made only for results that are ready, and for all of these before `idx`. They are
recorded with the position of their result, since the same rule may be in the list
twice. TLC has checked the whole of it on the instance of `eventloop`.

### Only model-checked

* All liveness (`WholeStreamArrives`, `TransferCompletes`, `WaitReturns`,
  `DefunctRulesGo`, `WebgetEnds`): TLAPS 1.4.5 proves neither liveness under
  fairness nor `ENABLED`.
* The five invariants of `wire`. What a parser or a checksum computes for every
  input is defined by folds over the bytes, and needs induction over data, which
  the installed provers cannot do.
* The two violations, each of which is a counterexample and needs no proof.

## Not modelled

* `set_blocking()`: it decides whether a call waits or throws, and the models
  have both outcomes.
* `bind()`, the socket options, `local_address()` and `peer_address()`: they pass
  their arguments to the kernel and change nothing else.
* Resolving a name, beyond the fact that it may fail; IPv6 addresses.
* `end_read` of `ByteStream`, which nothing uses; the random generator, the
  timestamps, comparison of headers, printing and logging.
* Resets, lingering and the second direction of a connection: they belong to
  `TCPConnection`, which the repository does not have. The doctests are examples
  of the interfaces and have no behaviour of their own.

## Plan

1. `transfer` with more retransmissions and losses, as far as TLC reaches.
2. The transfer's theorems for a stream of any length, with a limit on the
   lifetime of messages in the model.
3. A `TCPConnection`, once the repository has one, in place of the owner that
   `TCPTransfer` assumes.
