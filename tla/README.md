# A verification project for Network Unix V6

The repository keeps several generations of the first Unix systems on the
ARPANET.  Its core, and what this project is about, is the Illinois *Network
Control Program* (NCP) in `nosc-files/`: a part that lives in the V6 kernel
(`ncpk/`) and a user-level daemon (`ncpd/`) that speaks the host-to-host
protocol.  A second system is modelled in part: the TCP that BBN wrote for the
VAX (`tape1-files/bbnnet/`).  The rest of the repository is an unmodified V6
kernel and its utilities, user programs that sit on top of the network (FTP,
TELNET, mail), and an earlier BBN system (`jnc_bbn-files/`).

## The system and its parts

| Part | Source | State | Operations |
|---|---|---|---|
| network buffer pool | `ncpk/kerbuf.c` | `net_b`: kernel buffers, free ring, counts, need flags | `getkb`, `getbuf`, `freebuf`, `freekb`, `ncp_bfrdwn`; message helpers `appendb`, `catmsg`, `vectomsg`, `bytesout` |
| daemon's special file | `ncpk/ncpio.c` | `ncprq`, `ncpopnstate` | `ncpopen`, `ncpclose`, `ncpread`, `ncpwrite`, `to_ncp`, the `wf_*` instructions |
| network files of users | `ncpk/nopcls.c`, `nrdwr.c`, `contab.c` | the inode's file node, its sockets, the connection table | `netopen`, `netclose`, `netread`, `netwrite`, `sendalloc` |
| IMP input and output | `ncpk/drivers/` | `imp` structure, `host_map`, input process | `imp_input`, `hh`, `allocate`, `siguser`, `impstrat`, `imp_dwn` |
| Very Distant Host driver | `ncpk/drivers/vdh.c`, `vdhio.c` | `vstatebits`, `vdhouse`, ack bits, hello counters, `vdhmsg`, `impi_msg` | the input and output interrupts, the clock, `imp_init`, `imp_output`, the loop of the input process |
| daemon main loop | `ncpd/1main.c` | `pro2send`, `host`, timers | one trip per instruction read from the kernel |
| protocol output | `ncpd/send_pro.c` | `h_pb_q`, `h_pb_sent`, `h_pb_rtry`, `rfnm_bm`, `h_up_bm`, `init_host` | `qup_pro`, `send_pro`, `chk_host`, `rst_all`, `pr_flush` |
| messages from the IMP | `ncpd/ir_proc.c`, `hr_proc.c` | the above, and the socket table | `ir_*` and `hr_*` handlers |
| instructions from users | `ncpd/kr_dcode.c` | the above, and the file table | `kr_open`, `kr_close`, `kr_rcv`, `kr_timo`, `kr_reset` |
| socket machine | `ncpd/skt_oper.c`, `so_unm.c`, `skt_util.c` | `sockets[]`, `n_s_left` | a table of procedures indexed by input and state |
| file machine | `ncpd/files.c` | `files[]` | `f_make`, `fi_sopn`, `fi_sgone`, `fi_all`, `f_rlse` |
| VAX TCP | `tape1-files/bbnnet/tcp_*.c`, `netuser.c` | a `tcb` and a `ucb` per connection | `action` on user requests, segments and timers, by the state table of `fsmdef.h` |

How they interact.  A user's `open` on a network file makes the kernel queue
an instruction for the daemon (`to_ncp`) and sleep.  The daemon reads it from
`/dev/ncpkernel`, walks its socket and file machines, queues host-to-host
commands, and writes instructions back (`kw_*`) that create kernel sockets,
mark the file ready or clean it.  Once a connection is open the data path is
kernel only: `netwrite` consumes the allocation the other side gave, one
message per link may be outstanding until its RFNM comes, and `netread` hands
out fresh allocation.  Everything moves in chains of small buffers from the
one pool.  Processes are interleaved at `sleep`; interrupts at any point where
the priority is low; the daemon is a single process, but it talks to a
network whose messages may be answered late, with an error, or not at all.

What is hard.  Sleeping inside an allocator that is re-entered by others;
state read before a sleep and used after it; restarts of the daemon while
user processes are asleep in the pool; a queue whose head is in flight while
resets flush it; one global "current host" used by procedures that work on
several hosts; half-open duplex connections.  `PROJECT.json` lists these
hazards line by line.

The TCP is a system of its own: a network process takes requests of users,
segments and expired timers from one queue and hands each to `action`, which
calls the routine that the state table names.  What is hard there is the
network, which loses, delays, repeats and reorders, and the number of states in
which two hosts can meet while they open, retransmit and close.

## What makes each part correct

- *Buffer pool*: no buffer is lost, duplicated or returned to the system while
  in use; the counters are exact; nobody sleeps on a list that has a buffer.
- *Protocol output*: one message per host outstanding on link 0; the RFNM
  removes from the queue what its message carried; commands arrive in order;
  nothing stays in a queue for ever.
- *Socket and file machines*: the two tables point at each other and their
  counters count them, whatever order users, peers, timers and host deaths
  come in; the daemon never finds its tables inconsistent (`die`).
- *Opening and closing*: a process asleep in `netopen` is answered once and
  finds the answer; what an open took (sockets, number groups, file
  structures) is given back when it fails; a connection being closed is freed.
- *Data path*: the two hosts' books on allocation agree, the sender keeps to
  the allocation and to one message per link, bytes come out as they went in,
  and reader and writer never wait for each other.
- *Very Distant Host line*: each message is handed over once and in order
  whatever packets are lost; after the line went down or the daemon was
  restarted, nothing old is taken for new.
- *TCP*: the bytes read are the bytes written; acks are true; what is not
  acknowledged is timed; nobody is told of the end before he has read all.

## Modules

| Module | Models | State |
|---|---|---|
| `KerBuf` | `kerbuf.c`: `getkb`, `getbuf`, `freeb`, `freebuf`, `freekb`; `ncpopen`'s use of them | one variable per field of `net_b`, and where each process sleeps (`pc`) |
| `KerBufProofs` | theorems on `KerBuf` | |
| `KerBufRestart` | `KerBuf` with the daemon's death: `ncpclose`, `imp_dwn`, `ncp_bfrdwn` | adds which buffers lie on queues that a shutdown empties, and those left dangling |
| `SendPro` | `send_pro.c`, `ir_proc.c`, handlers that queue protocol | a record per host: queue, count sent, retries, up and RFNM bits, messages on the wire |
| `SeqSum` | sums of sequences of numbers and sizes of filtered sequences, as functions | |
| `SeqSumProofs` | what appending and removing an element does to them; what a loop, written as a recursive function, keeps | |
| `SendProProofs` | theorems on `SendPro` | |
| `KernelFile` | `nopcls.c` and the `wf_*` instructions of `ncpio.c` | operators on file structures and the daemon's queue |
| `SktMachine` | `skt_oper.c`, `so_unm.c`, `skt_util.c`, `files.c`, `assign.c`, `kwrite.c` | operators on `sockets[]`, `files[]` and their counters |
| `NcpOpen` | users, kernel files and daemon together: `kr_dcode.c`, `hr_proc.c`, `ir_proc.c` | the variables that the two modules above work on |
| `NcpOpenProofs` | theorems on `NcpOpen`: a lemma for each procedure of `SktMachine` and each action | |
| `NcpOpenWires` | a second walk through the same procedures, for the nodes of the kernel's files | |
| `BytePipe` | what an open connection promises in one direction | bytes put in, bytes that came out, closed, broken, ended |
| `NcpFlow` | `nrdwr.c` and the input side of `vdhio.c`, two hosts, one direction; implements `BytePipe` | the write and the read socket, `host_map`, the daemon's `rfnm_bm`, the network between the two, where each process sleeps |
| `NcpFlowProofs` | theorems on `NcpFlow`: the books of allocation; it implements `BytePipe` | |
| `MsgLink` | what an interface promises in one direction | messages given, newest handed over, those given before the last initialisation |
| `VdhRtp` | `vdh.c` and the input process of `vdhio.c`, a host and an imp; implements `MsgLink` in both directions | a record per end with the driver's variables, where each input process is, a log of messages |
| `VdhRtpProofs` | theorems on `VdhRtp`, new beginnings included; it implements `MsgLink` as long as no end begins anew | |
| `TcpTcb` | `tcp_procs.c`, `tcp_prim.c` | operators on one record: a `tcb`, the buffers of its `ucb` and what it sends |
| `TcpConn` | `tcp_states.c`, `fsmdef.h`, `tcp_input.c`, `netuser.c`, two hosts | the two records, the segments each host has sent, what users wrote and read |
| `TcpConnProofs` | theorems on `TcpConn`: a lemma for each procedure of `TcpTcb` and each action | |
| `MC*` | instances for TLC | |

*KerBuf.*  The kernel is not preemptive and the pool's code raises the
priority against the IMP, so each piece between two sleeps is one action:
`getkb` is cut at its `getblk` (`GetkbBegin`, then `OpenGetkbEnd` or
`GetbufGetkbEnd`), `getbuf` at its sleep on the free list (`GetbufSleep`;
a woken process is `want` and looks again).  The ring of free buffers is a
set.  `freebuf` may be done by anyone at any time, the output interrupt and
the input process included.  `KerBufRestart` conjoins the shutdown; it stops
saying anything useful at the first dangling buffer, since after that memory
that belongs to the block cache can be put on the free list.

*SendPro.*  The daemon is a single process, so a trip through its main loop
(`1main.c`, one instruction read, its handler, then `send_pro` if `pro2send`)
is one action.  `pro2send` and `host` carry nothing from trip to trip here and
are operands.  Commands carry an epoch, the number of flushes so far, and a
number; these exist only in the model, for `InOrder`.  An error report of the
IMP may follow a message that arrived.

*KernelFile, SktMachine, NcpOpen.*  The daemon's procedures call each other
through a table and through the global `fp`, so they are written as functions
of one record `w` that holds the whole state, and keep their names; the rows of
`skt_oper[][]` are the cases of `KillOp`, `RfcOp`, `ClsOp`, `CloseOp`,
`DeadOp`.  The daemon's `write` on `/dev/ncpkernel` runs the `wf_*` routine at
once in the daemon's process, hence inside the same action.  The other way,
instructions queue in `ncprq`.  The rest of the world is nondeterministic:
hosts may send any RFC of `Rfcs`, a CLS for any socket of theirs, ALLs and
socket numbers for open ICP sockets, may die or reset at any moment; the IMP
answers a message with an RFNM or an error; timers expire in any combination.
Link numbers are dropped (`asn_lnkn` gives a host's sockets different ones, so
that a link names a socket), and so are byte swapping, byte sizes and the
failure of `asn_lnkn`.  The global `host` is kept, and each queued command
records both it and the host of the socket meant.

*NcpFlow.*  User processes sleep in four places: `netwrite` for an allocation
or for the RFNM, `netread` for data (and once more on the clock after a close),
`sendalloc` for link 0.  The IMP's input is handled by a process of the kernel,
which is not preemptive, so the code between two sleeps is one action and
`wakeup` only makes a process run (`run`); it then tests its condition again.
Bytes are numbered from 1 in the order they are offered, which lets `IsPipe`
see one that is lost, doubled or displaced.  Each message on the data link or
on link 0 arrives and is answered with an RFNM, or is lost and answered with an
error; answers come in the order of their messages, separately on each link.
The daemons appear as far as they touch the connection: they send other
protocol on link 0, whose RFNM is told from the user's by `host_map` only; an
error, which `ih` reports to them too, makes them close; `iclean` may come at
any moment.  The byte size is 8, so that allocations in bits are counted in
bytes, and `Word` is the size at which a count of bits no longer fits.  Not
composed with the buffer pool: `sndnetbytes` always finds buffers.  `Interrupted`
says at which sleeps signals come; a signal abandons the call where it is.

*VdhRtp.*  The interface's code runs at interrupt priority, so an interrupt is
one action; the input process sleeps at two places, `sleep(&imp)` and `getkb`,
and each turn of its loop between them is one action.  An even/odd bit, an ack
bit and a count of ticks (`use`) per channel are kept as in the code; register
settings and the check sums of the hardware are not: a damaged packet is a lost
one (`Lose`).  The imp is an external program whose code is not in the
repository; it is taken to run the same one, which makes the model symmetric.
`Timely` says how the two clocks go: they stay within one tick of each other,
and while hellos are counted a packet takes less than a hello's period.  `log`
is history, for `MsgLink`: it numbers the messages.

*TcpTcb, TcpConn.* The network process handles one request of its queue at a
time, so an action is one call of `action` (or of `tcp_input` for a segment no
connection wants); requests of users are done at once, and any number of them
may wait, as the user calls are enabled in any order. A segment, once sent,
stays in `net` for ever and may arrive any number of times. The procedures keep
their names and are functions of the record of one end; where the code tests
flags one after the other, each test is an operator (`TakeSyn`, `TakeAck`, ...)
and `rcv_data` is their composition. Sequence numbers do not wrap. A buffer
holds one byte. `plan` says what may happen in a connection and is chosen in the
initial state: how each side opens, the bytes written, the window, the segment
size, the calls of the users, which timers may expire and whether a send may
find no buffer and a listener that a SYN reaches no interface. A send that finds
a buffer for the header and none for the data sends a segment that says it has
data and has none, with the checksum of the header: the peer drops it (unless
`nosum` is set or what its buffer held before sums to nothing), so it is one of
the segments that are lost and has no form of its own. `phantom` bounds one
thing more: with all bytes sent and the window closed, a persist timer that
expires makes `send` force out a byte beyond the data (see the findings), so it
is held off. `skipped` is history: the hosts that took a FIN too early, of which
the other properties then say nothing, since `FinIsLast` has its own run.

## Runs

All runs that must pass were chosen large enough that each action fires and
the hazards can occur, and small enough to be exhaustive.

| Run | Bounds | Shows |
|---|---|---|
| `kerbuf` | 3 processes, 3 kernel buffers of 2 pieces, hysteresis 2 | conservation, exact counters, a hole for every sleeper, no sleeper while a buffer is free, sleepers are woken |
| `kerbuf_panic` | the same, with restarts | *violated*: see findings |
| `sendpro` | 2 hosts, 2 commands per message, 3 commands per epoch, 1 flush per host | RFNM discipline, in-order delivery, nothing stranded when a timeout touches one host, queues drain, `rst_all` ends |
| `open_direct` | 2 file structures, 4 sockets, 1 queued RFC, 1 host; duplex init and general listen | tables, counters and the daemon's own consistency checks |
| `open_icp` | 1 file structure, 4 sockets, 1 queued RFC, 1 host; user and server ICP with timers | the same, and no error number used as a pointer, no number group lost |
| `open_live` | user ICP with timers | a closing socket is freed |
| `flow` | a writer and a reader, 3 bytes, writes and reads of up to 2, allocation of 2 messages and 2 bytes (1 at first); signals in the sleep for data | the books agree, no overrun, one message per link, `BytePipe` is implemented, the reader catches up unless the connection is given up |
| `vdh` | 3 packets in 2 messages, a line that loses packets once it is up, an input interrupt that may find no buffers, a hold-off of 1 tick | handed over once and in order (`MsgLink`), acks not mistaken, everything gets through |
| `vdh_restart` | 1 message and 1 NOP, 2 new beginnings of either kind, 1 lost hello, T = 2 | the two ends begin anew together; the input process does not sleep on work |
| `tcp` | the ten plans of `MCTcpConn`: up to 3 bytes, windows of 1 to 4, segments of 1 to 3, one side or both open actively, either or both close | the byte stream, true acks, timers, the end |
| `tcp_fin` | 1 byte, then the user closes | *violated*: see findings |
| `tcp_twice` | 3 bytes, window 5, segments of up to 3 | *violated* |

The bounds.  Two processes besides the daemon are enough for two to be asleep
at each of the two sleeps of the pool, and three kernel buffers for one to be
borrowed, one promised and one free.  Two hosts show what the single `host`
global does to a second host; two commands per message and three in a queue give
a queue that is longer than a message; one flush is enough for an old message
to meet a new queue, and a second one repeats it.  A duplex connection needs two
sockets and an ICP three: four leave room for a queued RFC.  In `flow` the allocation is smaller than what is written, so that
the writer runs out of it and a write takes several messages; the first
allocation is smaller than the later ones, as `nom_ball` is below the usual
`r_hiwat`; and three bytes need at least one more ALL, which can be lost, swapped with
the daemon's message, or outlived by the connection.  `MaxCmd`,
`MaxEpoch`, `MaxQueued`, `MaxBytes`, `MaxCount`, `MaxFaults`, `MaxLost`, `MaxLine` and the
plans of `TcpConn` are the only bounds that the code does not have; the
runs of `SendPro`, `NcpFlow`, `VdhRtp` and `TcpConn` switch off deadlock checking because with
these used up a quiet system, or a connection that is closed, stops.  `kf[i].cnt` and `n_s_left` need no bound.

In `vdh` three packets use each channel and come back to the first, and a
message of two packets is split over both.  The real constants are 4 for `VDH_T`
and `VDH_K`, 3 NOPs and 12 for the hold-off; smaller ones keep their relations
(the silence of `imp_init` is `2*T*R` in any case, and `VdhAssumption` holds what
else the code relies on).  `T` is 2 in `vdh_restart` because with 1 the silence
is as long as the other end needs to find the line down, less a tick of the
clocks: the code needs `2*T*R >= (T+2)*R`.  In `vdh` hellos are lost only before
the line is up, and are not sent any more after it (`Rest`), so that what the
packets do is seen apart from what the hellos do; `vdh_restart` has both.
In `tcp` a plan is small because the network is not: every segment ever sent
may come at any time.  Three bytes of which the first may be late and the
retransmission may join the others exercise all branches of `rcv_text`; windows
of 1 close on every byte.  Instances of two and more bytes in which both sides
close, or send, are out of reach.

The properties differ in the time at which they hold: invariants hold between
two trips of the daemon, or between two sleeps of a process in the pool.  A
user may in fact run in the middle of a trip, after any `write` of the daemon;
what a run finds violated between trips is a real behaviour, what holds
between trips is a statement about them only.

## Fairness

- `KerBuf`: a woken process runs, `getblk` returns, a buffer in use is freed.
  The first is V6 scheduling; the second holds as the block cache is never
  entirely busy for ever; the third since messages are sent, read or flushed.
- `SendPro`: the IMP answers each message (an RFNM, or one of the errors of
  `ir_re_x`), as BBN report 1822 requires of it.  New commands, opens and
  timeouts have no fairness.
- `NcpOpen`: the daemon reads its instructions and the timer, once set, runs
  out.  The two conditions are written with ENABLED spelt out (`TimerRuns`,
  `DaemonReads`).  Peers have no fairness: a CLS that is never sent is what
  the timer is for.

- `NcpFlow`: a process that may run runs, and the user keeps reading; the
  network delivers a message or the IMP reports an error; a daemon that was
  told of an error on the connection closes it, and a close is seen at the
  other end.  Writers, signals, losses and unprovoked closes have no fairness.

- `VdhRtp`: interrupts come, clocks tick, the input process runs and `getkb`
  returns.  A packet that matters (new data, or an ack its sender waits for) is
  not lost or refused for want of buffers every time: strong fairness, since a line
  that loses everything is down, and buffers come back in time.
- `TcpConn` claims no liveness: the timers' counters are left out, the network
  may lose everything, and users need not close.

## What is proved

TLC checks small instances; the theorems hold for every value of the constants
that satisfies the `ASSUME` of the module and the hypotheses named here.  Each
property follows from an invariant that is inductive, of which every module has
a lemma per action.  No theorem assumes fairness.

| Module | Theorems | Hypotheses |
|---|---|---|
| `KerBufProofs` | always `TypeOK`, `Conservation`, `CountersAgree`, `NoSleeperWhileFree`, `HoleForEverySleeper` | none |
| `SendProProofs` | always `TypeOK`, `OneOutstanding` | none |
| | always `SentIsHead`, `InOrder` | `XRetries = 1`, the code's value (`send_pro.c` 38) |
| | always `NoneStranded` | `TimoHosts <= 1`: a timeout touches one host at most |
| `NcpFlowProofs` | always `TypeOK`, `CreditAgrees`, `NeverOverrun`, `OnePerLink` | `OnePair` |
| | `IsPipe`: `BytePipe` is implemented | `NoLoss` |
| `VdhRtpProofs` | always `TypeOK`, `Attended` | none |
| | always `AckedIsTaken`, `LeaderFirst`; `IsLink`: `MsgLink` is implemented both ways | `NoFaults` |
| `NcpOpenProofs` | always `TypeOK`, `SlotsAccounted`, `TablesAgree`, `NeverDies` | none |
| | always `GroupsOwned` | `SocketsNamed` |
| `NcpOpenWires` | always `NoWildPointer` | none |
| `TcpConnProofs` | always `TypeOK` | none |

*The hypotheses.*  Where one excludes something that the code can do, that is a
case in which the property is false, and it is among the findings: with more
retries than one, a second try would add to `h_pb_sent` what it counts already
(the code has one); a timeout that touches two hosts strands what it queued for the first; `OnePair` says that one
process writes and one reads (two writers spend an allocation twice), that
`NomBall <= HiWat` (else `sendalloc` sends a negative allocation), and that no
signal comes in the sleep for an RFNM (else the message is not counted);
`NoLoss` adds that none comes in the sleep for an allocation, after which bytes
that the user offered are never sent and the numbering of bytes no longer
describes what he meant, or in `sendalloc` (a read then returns nothing on an open
connection).  `NoFaults` is `MaxFaults = 0`: the daemon is not stopped, and the
clock does not find the line down.  With new beginnings nothing in the packets
themselves tells old from new: that both ends begin anew together depends on the
silence of `imp_init` and on how the clocks run, and stays with the run
`vdh_restart`; and `LeaderFirst` is false then.  `SocketsNamed` says that no
direct open with `init` leaves it to the daemon to choose a socket number: `kr_odrct` takes a group
of numbers for that before the checks that can refuse the open, and a refused one
keeps it.

*KerBuf.*  `PoolInv` is the conjunction of the first four invariants and
is inductive; none of them is alone.  Conservation needs `b_freect` to be
exact (a kernel buffer is given back on that count), `CountersAgree` needs
conservation (the cardinalities of a returned buffer's pieces), the bound on
`b_alloc` needs `CountersAgree`, and `NoSleeperWhileFree` needs `alloc` to drop
only together with a wakeup.  The hole for every sleeper follows by counting:
`b_alloc` is at most `kb_hiwat` and counts both borrowed and promised slots.  The
lemmas on cardinalities of products (`BufsOf`) come first in the module.

*SendPro.*  `SendInv` says of every host that it has one message outstanding when
its bit is set in `rfnm_bm`, and none otherwise (`LinkOK`, which needs nothing
else); that what the host got, the message outstanding and the queue are one run
of numbered commands, of which `h_pb_sent` counts those that are both in the
queue and in the message, and that a message left over from before a flush has
nothing of the queue (`OrderOK`); and that a queue that is not empty waits for an
RFNM (`NotStranded`).  The lemmas follow `qup_pro`, `send_pro` and the others one
by one through a trip of the main loop, in the middle of which parts of it do not
hold.  The hosts depend on each other only in the walk of `rst_all`, which needs
room in the queues ahead of it (`MaxCmd`, a bound of the model).

*NcpFlow.*  The sender's books (`w_msgs`, `w_falloc`) and the receiver's (`r_msgs`,
`r_bytes`) are related through what is on its way: ALLs on link 0, a message
on the data link, and one that was delivered but of which the writer does not
know (`Del`).  `FlowInv` has a part for each thing the equation needs: `LinkInv`
(which socket exists), `PlaceInv` (where the processes are and how far the
writer has come), `MessageInv` (one message, or its answer, or the flag that
the answer set: this is `OnePerLink`), `RoomInv` and `SpendInv` (inequalities that
also hold when an ALL has been lost or the receiver's socket is gone), `BalanceInv`
(the equation, while none was lost), `OtherInv` (other protocol on link 0
allocates nothing) and `CountInv` (`r_qtotal`, which decides when the next ALL is
due).  What the messages of link 0 allocate is a sum over a sequence.  `SeqSum`
defines it as a function, and `SeqSumProofs` proves what appending and removing
do to it, by the least length at which a prefix would have no sum: induction over
the natural numbers in first-order form.

`PipeInv` says where the bytes are: read, in `r_msgq`, in the message on
its way, not yet sent, one after the other (`OrderInv`, `SenderInv`, `HeardInv`);
that `r_qtotal` is exact (`DueInv`); that what is inside fits what was allocated,
also after one socket has been cleaned (`FitInv`); and how a connection ends
(`EndInv`, `ReaderInv`).  With `FlowInv` it is inductive, and `NextPipe` shows of
each action which step of `BytePipe` it is, or that it changes nothing there.

*VdhRtp.*  `VdhInv` is `TypeOK`, `Attended` and what is true of each driver alone
(`DriverOK`): no message is empty, one that is complete is not either, and
`hellonext` is `Never` only until the input process has initialised the driver,
since else nobody would start the line again.

The link rests on the argument of the alternating bit, for two channels that are used
in turn.  `DataInv`: a packet on the line whose bit the receiver would take for
a new one is the one its channel holds, and no older one is behind it.  `AckInv`:
what the sender has not seen acknowledged, no packet acknowledges unless the
receiver has taken it, and no older ack is behind a newer.  `ChanInv`: a channel
is free only when its packet has been taken.  `TurnInv`: the pieces in the channels
whose packets have not been taken are those between the one the receiver needs
and the one that is put into a channel next, and are in the channels whose turn
it is.  `QueueInv` and `PartInv` number what is queued and what has come in part.
The parts hold for both directions at once, since every packet with data carries acks
for the other direction (`Ways`).

*NcpOpen.*  The inductive invariant `Inv` says of the daemon's world that it is
`Good`: the tables agree (`Tab`), the counters are exact (`Acc`), `die()` was not
called, each file of the kernel has as many references counted as users and
daemon hold (`Refs`), and groups of numbers that are taken have an owner
(`Owned`).  None of these is inductive alone, and what the properties say is not
enough.  A file in its ICP has no data sockets and two places left for them
(`FileOK`), or the second `get_skt` at its end would find no room; a socket that waits for an RFC
belongs to a file that waits for such a socket (`EntryOK`), or
`fi_sopn` would meet a state it has no case for and die; the place of a receive
socket holds an even number, or `fi_all` would die; the daemon
knows a file of the kernel under one entry of its table or one instruction in its queue
(`Refs`), or a second open of the same file would release what the first has.
The procedures call each other in the middle of their work, so
`Good(w, z, d)` has two parameters for what is open there: a socket `z` that is
in no list and not yet free, and `d`, what is to be given back for it.
`fi_sgone`, which is called from the socket machine and may kill the other half,
release the file and return to callers that go on with the same pointers, is
shown to lead from `Good(w, NoSlot, 0)` to `Good(v, p, 1)`, in every state of the
file (`SgoneGood`), and `free_skt` from there to `Good(v, NoSlot, 0)` (`FreeGood`).
There is a lemma for each procedure and each operation of the socket machine,
and for each loop over a table one by the least round that would leave the good
worlds (`LoopStays`).  How many sockets the files reserve is a sum, of which
`SumChange` says how it changes with one file.

*NcpOpenWires.*  `wf_ready` puts the error number of a failed open where the kernel's
file has its read socket, and `wf_mod` and `iclean` take what they find there for a
pointer.  That they never find the number needs a second invariant, `Wired`,
which is inductive together with `Inv` (`WiredInv`): where the daemon has a
receive socket that he may still tell the kernel about, the file of the kernel
has a socket of the same host, or has been opened and the user has closed it since
(`Plug`); the user has been told of an open only if the daemon has the file open
or is closing it (`Line`), and of none that is still to be made (`Told`); an
error number is in the read node only (`KfOK`).  `Wired(w, q)` leaves out the
read socket `q`, which a procedure is about to close or has just made.  `h_dead`
kills each socket of a host before it resets the files: the second loop, in which
the kernel cleans every socket of that host, keeps `Wired` only because the
first has left none of them alive (`DeadSktsWired`).

*TcpConn.*  Sequence numbers, windows and lengths are unsigned in `tcp.h`, and the
procedures subtract them all the time: `Tcb` and `Segment` have natural numbers,
so that `TypeOK` says that no difference that is kept or sent is negative,
whatever a segment has in its fields.  There is a lemma for each procedure and
each action.  `CutFront` and `CutEnd` must not cut off more than a piece has,
which depends on how `Merge` compares the ends of pieces (`MergeTyped`); the
FIN's number is one less than the end of a segment that is not empty
(`PlanTyped`).  The buffer that `MoveUp` fills is a recursive function, of which
`LoopExists` of `SeqSumProofs` shows that each round leaves a sequence of bytes.

*Only model-checked.*  Liveness (`SleeperWoken`, `EventuallyOut`, `ResetsComplete`,
`ClosingEnds`, `CatchesUp`, `Delivers`), which is beyond the prover, as is ENABLED;
`Streams`, `AcksAreTrue`, `Timed` and `EndIsEnd` of `TcpConn`; and `VdhRtp` with
new beginnings, but for its types and `Attended`.  `Timed` is false for other
plans than those of its run, and so is `Streams` once `phantom` is not 0 (see the
findings): a theorem on them needs hypotheses on the plans.
`AcksAreTrue` has not been attempted.

## Findings

Where code and documentation disagree; each is a run that TLC finds violated.

1. `kerbuf_panic`: a process asleep in `getblk` across a restart can panic.
2. `tcp_fin`: `rcv_fin` takes a FIN that has overtaken the data before it; the
   data is lost, and the user is told that the connection is closed.
3. `tcp_twice`: when a segment comes (again) whose last byte is the first one of a
   piece that waits in the sequencing queue, that byte stays there twice, and the
   user reads it twice.

The models also contain, without a run of their own, what follows.  Where a
property is named in parentheses, TLC finds it violated with the constants given
(those of a `.cfg` with the named changes).

- `kr_timo` sends only to the last host it touched, and strands the protocol
  queued for the others (`NoneStranded`, `SendPro.cfg` with timeouts that touch
  two hosts): `kr_dcode.c` 1024 against `send_pro.c` 434, "set pro2send to cause
  transmission at end of current major cycle".
- An error answer to an open is wiped out by `net_frlse` before the user sees it,
  who then sleeps for ever (`AnswerStands`, `NcpOpenDirect.cfg` with one file
  structure): `nopcls.c` 374 against 178, "Return a useful error code to the user
  from the ncpdaemon".
- A write interrupted while it waits for its RFNM is not counted against the
  allocation, which is then spent twice (`NeverOverrun`, `NcpFlow.cfg` with
  "rfnm" in `Interrupted`): `nrdwr.c` 243 against 163.
- A read interrupted in `sendalloc` leaves `r_qtotal` too high, and a later read
  returns zero bytes, which means end of file, on an open connection
  (`ZeroMeansEof`, `NcpFlow.cfg` with "chan" in `Interrupted`): `nrdwr.c` 136
  against 16.
- A connection cleaned while its reader waits in `sendalloc` leaves the host's
  bit in `host_map` on for ever (`BitHasMessage`, `NcpFlow.cfg`): `nrdwr.c` 497
  against 496, "i win quick set rfnm bit".
- The rest of a message being output, `vdhmsg`, survives `imp_dwn` and
  `imp_init`: after a restart it goes out without its leader (`LeaderFirst`, which is proved without restarts;
  `VdhRestart.cfg` with `Sizes <- Three`, one message of three packets, no NOPs,
  one fault and a line that does not fail): `vdh.c` 427 against `vdhio.c`
  774, "clean up ncp data structures so that an ncpdaemon restart will work
  correctly".
- `needinit` survives a restart too, and a line that has just come up is
  initialised again (`vdhio.c` 126); `helloinarow` is not cleared (`vdh.c` 136),
  so that a line is believed up after a single hello, and as a char it wraps at
  128.
- The wakeup of `ncpclose` ("so it can die", `ncpio.c` 112) is lost on an input
  process in `getkb`; a daemon that opens the device again meanwhile gets a second
  process beside it (`vdhio.c` 113; `VdhRtp` with two in `Proc`).
- `impldrd` forgets the part of a message that has come when the line is
  initialised: its comment asks "can a buffer get lost here ?" (`vdh.c` 491).
- `rcv_data` arms the retransmission timer up to `snd_lst`, which a closed window
  has pulled back to or below `snd_una`; the next window cancels the persist
  timer, and a lost byte is never sent again (`Timed`, `TcpConn` with three bytes,
  window 2, segments of 2): `tcp_procs.c` 384 against 382, "set up for
  retransmission, if necessary".
- With everything sent and the window closed, the persist timer forces out a byte
  beyond the data (`Streams`, with `phantom` 6): `tcp_procs.c` 770.  What is sent
  is whatever lies behind the header; it is taken by the peer if that is zero, so
  that the checksum holds.
- With both sides opening actively, a late RST with an ack is taken for an ack
  of the SYN in `SYN_RCVD`, and the connection opens on it (`AcksAreTrue` without
  its premise): `netprepr`, `tcp_states.c` 654.
- A reset in `L_SYN_RCVD` goes back to `LISTEN` without clearing `syn_rcvd`, so
  that the next SYN is not taken (`Timed` without `NoReset`): `tcp_states.c` 633.
- A segment that no connection wants is answered with a reset even if it is one
  itself (`Refuse`): `tcp_input.c` 174 against `tcp_procs.c` 872, "don't send a
  reset in response to a reset".
- `send_rst` to a stray segment sets `snd_nxt` and clears `syn_rcvd` of the
  connection that it leaves in place: `tcp_procs.c` 879.
- The FIN of a segment that carries data is refused at first, since `last` is
  compared with the last byte instead of the one after it: `tcp_procs.c` 456.
- `rcv_empty` is true with exactly one segment queued (`tcp_pred.h` 17).
- `RCV_WAIT` is left only if the user asks for data; `netclose` after NETCLOSE
  queues no request, and the control blocks are never freed: `netuser.c` 318.
- `w_alloc` increments the pointer instead of the timer: `tcp_input.c` 349,
  against its comment, "just reschedule a second later".
- An ICP open with bad parameters is never answered, because the file is
  released before the error is written (`SleeperHasFile`, with the constants of
  `NcpOpenIcp.cfg`): `kr_dcode.c` 662 against 574, "deallocate file. write
  error ready. return."
- A CLS is queued for host 0, because `kr_close` takes the host of a socket
  that has been cleaned (`ToItsHost`, `NcpOpenDirect.cfg` with one file
  structure):
  `kr_dcode.c` 943 against its history at 920.
- A server open that has timed out, and was reported as failed, is completed
  by a late RFNM (`FailedStaysFailed`, constants of `NcpOpenIcp.cfg`):
  `files.c` 853 against `files.h` 48.
- A refused duplex open gives the user the error number 0 (`ErrorReported`,
  `NcpOpenDirect.cfg` with one file
  structure): `files.c` 499 against `nopcls.c` 178.
- Two processes that share a file and write to it spend an allocation twice
  (`NcpFlow` with two `Writers` and `HiWat` 1 violates `NeverOverrun`).
- With `HiWat` below `NomBall` the difference that `sendalloc` sends is
  negative, and its bits a huge allocation: `nrdwr.c` 512 against `net_net.h`
  34, "max num bytes to alloc to frn host" (`NeverOverrun` fails with
  `HiWat` 1, `NomBall` 3 and `MaxBytes` 5).
- `ih` falls through from the error cases to the default (`vdhio.c` 383, and
  the same in `impio.c`), so that the daemon closes a connection on which
  `netwrite` retransmits: its comment at 345 has "non of the above" only go to
  the daemon (`DataAnswered`).
- `siguser` takes the RFNM of a link whose connection was removed for one on
  link 0, and may free link 0 early.  That concerns `host_map` at the sending
  host, which one direction of a connection does not use, so `NcpFlow` does
  not show it.
- A shutdown returns kernel buffers that sockets still use
  (`KerBufRestart`, `dangling`): `kerbuf.c` 1384 against `vdhio.c` 774.
- `freekb` does not stop at the hysteresis value but gives back every wholly
  free kernel buffer (`Releasable`): `kerbuf.c` 612 against its comment at 602.
- `chk_host` drops a user's reset while a message is outstanding
  (`SendPro!kr_reset`): `send_pro.c` 412 against `kr_dcode.c` 1054.
- A direct open that fails after `asn_sktn` loses its group of socket numbers,
  and one that the daemon refuses loses a file structure (`kr_odrct`):
  `kr_dcode.c` 318 and 403, and `ncpio.c` 889, "I think this is wrong".
- RFCs nobody asked for take reserved sockets (`so_unm`): `so_unm.c` 182.

Because an error answer can be wiped out, a file structure can be given away while its first user still
sleeps on it; `open_direct` and `open_icp` have one user, who then sleeps, and
the properties they check hold in spite of it.

## What is not modelled

In the NCP: the drivers of the three other interfaces (register I/O; `impio.c` is
cut off in the repository), the contents and packing of messages, interrupts to
the peer (`sendins`), relative opens, raw messages, signals during `netopen`,
statistics and logging.  In the VAX system: urgent data, end-of-letter marks,
round-trip times, options, the paths of `rcv_text` for a system low on buffers
with the messages put aside in `t_rcv_unack`, the work queue and its exhaustion, a
second incarnation of a connection, and everything under TCP.  The user
programs, the mail systems, the V6 kernel and the earlier BBN system, which
are different programs.  `PROJECT.json` gives a status and reason for each.

## Plan

Done: the core of the NCP, its interface and the VAX TCP modelled and checked;
theorems on `KerBuf`, `SendPro`, `NcpFlow`, `VdhRtp` and `NcpOpen`, and on the types of `TcpConn`, with the
refinements of `BytePipe` and `MsgLink`.  What is left, most important first:

1. `TcpConn`: `AcksAreTrue` from an invariant on the segments that
   were ever sent; what `Merge` and `firstempty` promise of a queue without
   overlaps.
2. `VdhRtp` with new beginnings: an invariant on the clocks, the silence and
   the hellos on their way, by which an end never sees packets of two
   beginnings.
3. `NcpQueue`: `to_ncp`, `ncpread`, `ncpwrite`; instruction boundaries in the
   chain of buffers, and a daemon that dies half way through one.
4. An abstract connection (closed, opening, open, closing at either end) and
   two composed hosts, each running `SktMachine`, over a network that reorders
   between links; `NcpOpen` restricted to one connection as its refinement.
5. Relative opens, signals in `netopen`, failing `to_ncp`, message helpers of
   `kerbuf.c` (`appendb`, `catmsg`, `bytesout`) against sequences of bytes.
6. `NcpFlow` composed with the buffer pool, `sendins`, and the answers of
   links whose connection is gone; the VAX system's work queue and reassembly.
