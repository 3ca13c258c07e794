------------------------------ MODULE NcpFlow ------------------------------
(***************************************************************************)
(* The data path of an open connection: nosc-files/ncpk nrdwr.c and the    *)
(* input side of drivers/vdhio.c, in one direction between two hosts that  *)
(* both run this code.                                                     *)
(*                                                                         *)
(* Processes of the sending host call netwrite(), which sends no more than *)
(* the other host has allocated (w_msgs messages, w_falloc bits) and waits *)
(* for the RFNM of each message.  Processes of the receiving host call     *)
(* netread(), which takes bytes from the queue r_msgq and, when half of    *)
(* what it has allocated is used up, allocates more with an ALL on link 0. *)
(* A bit of host_map says that a user's message on link 0 awaits its RFNM; *)
(* the daemon uses the same link and keeps a bit of its own.               *)
(*                                                                         *)
(* The kernel is not preemptive and the imp's input is handled by a        *)
(* process of the kernel, so the code between two sleeps is one action; a  *)
(* loop around a sleep is a place "at" with a flag "run", and wakeup()     *)
(* sets run.  Allocations are counted in bytes, and the byte size is 8.    *)
(***************************************************************************)
EXTENDS Integers, Sequences, SeqSum

CONSTANTS
    Writers,    \* processes that share the file at the sending host
    Readers,    \* and at the receiving host
    Interrupted,\* places in netwrite() and netread() where signals come
    NomMsg,     \* NOMMSG and nom_mall: messages to allocate
    NomBall,    \* nom_ball: bytes that the daemon allocates at first
    HiWat,      \* r_hiwat: bytes to allocate, from the user's open
    MaxMsg,     \* bytes in a message, 1000
    Word,       \* bytes whose count in bits fits a word: 2^16 \div 8
    MaxBytes,   \* bound: bytes written in all
    MaxCount    \* bound: bytes of a read or write

Proc == Writers \cup Readers

Larger(a, b) == IF a > b THEN a ELSE b
Smaller(a, b) == IF a < b THEN a ELSE b

(* What the receiving host is ready to hold.                               *)
Room == Larger(HiWat, NomBall)

ASSUME NcpFlowAssumption ==
    /\ Writers \cap Readers = {}
    /\ Interrupted \subseteq {"alloc", "rfnm", "data", "lbolt", "chan"}
    /\ NomMsg \in Nat \ {0} /\ NomBall \in Nat \ {0} /\ HiWat \in Nat \ {0}
    /\ MaxMsg \in Nat \ {0} /\ Word \in Nat /\ Word > Room
    /\ MaxBytes \in Nat /\ MaxCount \in Nat

VARIABLES
    w,          \* the write socket: see WrtSkt
    r,          \* the read socket: see RdSkt
    hmap,       \* the receiving host: bit of the other host in host_map
    drfnm,      \* and in its daemon's rfnm_bm
    net,        \* the network between the two: see Net
    pr,         \* the processes: see Process
    con         \* what has become of the connection: see Connection

vars == <<w, r, hmap, drfnm, net, pr, con>>

Byte == 1 .. MaxBytes

(* link: w_hostlink is set, and in the connection table.  flags: those of  *)
(* n_rfnmwt, n_xmterr and n_eof that are on.                               *)
WrtSkt == [msgs : Int, falloc : Int, flags : SUBSET {"rfnm", "xmterr", "eof"},
           open : BOOLEAN, link : BOOLEAN]

RdSkt == [msgs : 0 .. NomMsg, bytes : 0 .. Room, q : Seq(Byte), qtotal : 0 .. MaxBytes,
          open : BOOLEAN, link : BOOLEAN]

(* data: messages on the connection's link.  ctl: messages on link 0 the   *)
(* other way, ALLs or other commands of the daemon.  dans and cans: what   *)
(* the imps answer to the two, not yet received.                           *)
Ctl == [op : {"all", "other"}, m : Nat, b : Nat]
Answer == {"rfnm", "err"}
Net == [data : Seq(Seq(Byte)), dans : Seq(Answer), ctl : Seq(Ctl), cans : Seq(Answer)]

(* cnt: u_count.  base: the bytes that a writer sent.  n: the amount of    *)
(* the message, or that a reader took.  tried: the second try of netread().*)
Process == [at : {"idle", "alloc", "rfnm", "data", "lbolt", "chan"}, run : BOOLEAN,
            cnt : 0 .. MaxCount, base : 0 .. MaxBytes, n : 0 .. MaxCount,
            tried : BOOLEAN]

Idle == [at |-> "idle", run |-> FALSE, cnt |-> 0, base |-> 0, n |-> 0, tried |-> FALSE]

(* offered: bytes given to netwrite() so far.  sent: bytes sent at least   *)
(* once.  out: the bytes read.  eof: a read returned no bytes.  closed:    *)
(* the writers closed the file.  killed: one end gave the connection up.   *)
(* told: the hosts whose daemon was told of a transmission error, as long  *)
(* as the connection has not been given up for it.                         *)
Connection == [offered : 0 .. MaxBytes, sent : 0 .. MaxBytes, out : Seq(Byte),
               eof : BOOLEAN, closed : BOOLEAN, killed : BOOLEAN,
               told : SUBSET {"sender", "receiver"}]

(* The connection has just been opened.  The receiver's fi_sopn() has      *)
(* counted the first allocation in r_msgs and r_bytes, and sends it.       *)
Init ==
    /\ w = [msgs |-> 0, falloc |-> 0, flags |-> {}, open |-> TRUE, link |-> TRUE]
    /\ r = [msgs |-> NomMsg, bytes |-> NomBall, q |-> <<>>, qtotal |-> 0,
            open |-> TRUE, link |-> TRUE]
    /\ hmap = FALSE
    /\ drfnm = TRUE
    /\ net = [data |-> <<>>, dans |-> <<>>, cans |-> <<>>,
              ctl |-> << [op |-> "all", m |-> NomMsg, b |-> NomBall] >>]
    /\ pr = [p \in Proc |-> Idle]
    /\ con = [offered |-> 0, sent |-> 0, out |-> <<>>, eof |-> FALSE,
              closed |-> FALSE, killed |-> FALSE, told |-> {}]

Told(host) == [con EXCEPT !.told = IF con.killed THEN @ ELSE @ \cup {host}]

GiveUp == [con EXCEPT !.killed = TRUE, !.told = {}]

(* wakeup(): the processes asleep at one of the places P may run.          *)
Wakeup(P) == [p \in Proc |-> IF pr[p].at \in P THEN [pr[p] EXCEPT !.run = TRUE] ELSE pr[p]]

WrtSleepers == {"alloc", "rfnm"}    \* both sleep on the write socket
RdSleepers == {"data"}

(* A process that was woken at a place, and one that sleeps there.         *)
Runs(p, place) == pr[p].at = place /\ pr[p].run

Asleep(c, place) == [c EXCEPT !.at = place, !.run = FALSE]

-----------------------------------------------------------------------------
(* netwrite() *)

BugAnyalloc(ws) == IF ws.msgs = 0 \/ ws.falloc = 0 THEN 0 ELSE MaxMsg

(* The bytes that a message may have.                                      *)
anyalloc(ws) ==
    IF ws.msgs = 0 THEN 0
    ELSE IF ws.falloc < 0 \/ ws.falloc >= MaxMsg THEN MaxMsg
    ELSE ws.falloc

(* sndnetbytes() on the data link.  A socket that has been cleaned has no  *)
(* host any more, and its message goes to host 0.                          *)
SndData(base, n) ==
    net' = IF w.link
           THEN [net EXCEPT !.data = Append(@, [i \in 1 .. n |-> base + i])]
           ELSE net

(* The loop of netwrite() from its top, when the process has come to c,    *)
(* the socket to ws and the connection to k: fail with EBADF, sleep until  *)
(* there is an allocation, or send as much as it permits.  netsleep() does *)
(* not sleep if one of its flags is on already.                            *)
WriteLoop(p, c, ws, k) ==
    LET n == Smaller(anyalloc(ws), c.cnt) IN
    /\ w' = ws
    /\ IF ~ws.open
       THEN pr' = [pr EXCEPT ![p] = Idle] /\ con' = k /\ UNCHANGED net
       ELSE IF n = 0
       THEN pr' = [pr EXCEPT ![p] = Asleep(c, "alloc")] /\ con' = k /\ UNCHANGED net
       ELSE /\ SndData(c.base, n)
            /\ pr' = [pr EXCEPT ![p] = [c EXCEPT !.at = "rfnm", !.n = n,
                                                 !.run = (ws.flags # {})]]
            /\ con' = [k EXCEPT !.sent = Larger(@, c.base + n)]
    /\ UNCHANGED <<r, hmap, drfnm>>

(* A user writes n bytes.  On a connection that is gone that fails at once *)
(* and changes nothing.                                                    *)
NetwriteBegin(p, n) ==
    /\ pr[p].at = "idle"
    /\ w.open
    /\ con.offered + n <= MaxBytes
    /\ WriteLoop(p, [Idle EXCEPT !.cnt = n, !.base = con.offered], w,
                 [con EXCEPT !.offered = @ + n])

AllocWoken(p) ==
    /\ Runs(p, "alloc")
    /\ WriteLoop(p, pr[p], w, con)

(* netsleep(): none of the flags is on.                                    *)
RfnmSleep(p) ==
    /\ Runs(p, "rfnm")
    /\ w.flags = {}
    /\ pr' = [pr EXCEPT ![p].run = FALSE]
    /\ UNCHANGED <<w, r, hmap, drfnm, net, con>>

BugFailed == FALSE

Failed == "xmterr" \in w.flags

(* A transmission error: the same bytes again.                             *)
Retry(p) ==
    /\ Runs(p, "rfnm")
    /\ Failed
    /\ w' = [w EXCEPT !.flags = {}]
    /\ SndData(pr[p].base, pr[p].n)
    /\ pr' = [pr EXCEPT ![p].run = FALSE]
    /\ UNCHANGED <<r, hmap, drfnm, con>>

BugSettleFlags(ws, n) == [ws EXCEPT !.msgs = @ - 1, !.falloc = @ - n]

BugSettleBits(ws, n) == [ws EXCEPT !.flags = {}, !.msgs = @ - 1]

(* netsleep() resets the flags; a message and its bytes leave the          *)
(* allocation.                                                             *)
Settle(ws, n) == [ws EXCEPT !.flags = {}, !.msgs = @ - 1, !.falloc = @ - n]

(* The RFNM, or the end of the connection, which is taken for one: count   *)
(* the message, and go on if it was not the last.                          *)
SendDone(p) ==
    /\ Runs(p, "rfnm")
    /\ w.flags # {} /\ ~Failed
    /\ LET c == pr[p]
           ws == Settle(w, c.n)
       IN  IF c.cnt = c.n
           THEN /\ w' = ws
                /\ pr' = [pr EXCEPT ![p] = Idle]
                /\ UNCHANGED <<r, hmap, drfnm, net, con>>
           ELSE WriteLoop(p, [c EXCEPT !.cnt = @ - c.n, !.base = @ + c.n, !.n = 0], ws, con)

Netwrite(p) == AllocWoken(p) \/ RfnmSleep(p) \/ Retry(p) \/ SendDone(p)

-----------------------------------------------------------------------------
(* netread() *)

(* sendalloc(): is an allocation due?                                      *)
Low(rs) == rs.bytes <= HiWat \div 2 \/ rs.msgs <= NomMsg \div 2

BugSendAll(rs, n) ==
    /\ hmap' = TRUE
    /\ net' = IF rs.link
              THEN [net EXCEPT !.ctl = Append(@, [op |-> "all", m |-> NomMsg, b |-> HiWat])]
              ELSE net
    /\ r' = [rs EXCEPT !.msgs = @ + NomMsg, !.bytes = @ + HiWat, !.qtotal = @ - n]

(* sendalloc(), "i win": an ALL that brings the allocation back to its     *)
(* full size.  The bits are a word.  Only then is r_qtotal brought up to   *)
(* date for the n bytes read.  A socket cleaned meanwhile has no host.     *)
SendAll(rs, n) ==
    /\ hmap' = TRUE
    /\ net' = IF rs.link
              THEN [net EXCEPT !.ctl = Append(@, [op |-> "all", m |-> NomMsg - rs.msgs,
                                                  b |-> (HiWat - rs.bytes) % Word])]
              ELSE net
    /\ r' = [rs EXCEPT !.msgs = NomMsg, !.bytes = HiWat, !.qtotal = @ - n]

(* The user gets the bytes, as far as they are there.  sendalloc() is to   *)
(* "wait for any rfnms out on link zero for that host".                    *)
Take(p, c, amt) ==
    LET n == Smaller(amt, Len(r.q))
        rs == [r EXCEPT !.q = SubSeq(@, n + 1, Len(@)),
                        !.bytes = IF r.open THEN @ - n ELSE @]
    IN  /\ con' = [con EXCEPT !.out = @ \o SubSeq(r.q, 1, n), !.eof = @ \/ n = 0]
        /\ IF r.open /\ Low(rs) /\ hmap
           THEN /\ r' = rs
                /\ pr' = [pr EXCEPT ![p] = [Asleep(c, "chan") EXCEPT !.n = n]]
                /\ UNCHANGED <<hmap, net>>
           ELSE /\ pr' = [pr EXCEPT ![p] = Idle]
                /\ IF r.open /\ Low(rs)
                   THEN SendAll(rs, n)
                   ELSE r' = [rs EXCEPT !.qtotal = @ - n] /\ UNCHANGED <<hmap, net>>

(* netread() from its label retry: sleep until there is data; "wait for    *)
(* data still trickling in even though conn closed", once; or take it.     *)
ReadLoop(p, c) ==
    LET amt == Smaller(r.qtotal, c.cnt) IN
    /\ IF amt # 0 THEN Take(p, c, amt)
       ELSE /\ pr' = [pr EXCEPT ![p] = IF r.open THEN Asleep(c, "data")
                                       ELSE IF c.tried THEN Idle ELSE Asleep(c, "lbolt")]
            /\ con' = [con EXCEPT !.eof = @ \/ (~r.open /\ c.tried)]
            /\ UNCHANGED <<r, hmap, net>>
    /\ UNCHANGED <<w, drfnm>>

(* A user reads up to n bytes, until told that it is at the end.           *)
NetreadBegin(p, n) ==
    /\ pr[p].at = "idle"
    /\ ~con.eof
    /\ ReadLoop(p, [Idle EXCEPT !.cnt = n])

DataWoken(p) ==
    /\ Runs(p, "data")
    /\ ReadLoop(p, pr[p])

(* The clock wakes the process after four seconds.                         *)
Lbolt(p) ==
    /\ pr[p].at = "lbolt"
    /\ IF r.qtotal # 0 THEN ReadLoop(p, [pr[p] EXCEPT !.tried = TRUE])
       ELSE /\ pr' = [pr EXCEPT ![p] = Idle]
            /\ con' = [con EXCEPT !.eof = TRUE]
            /\ UNCHANGED <<w, r, hmap, drfnm, net>>

(* The host may be waiting for another RFNM already.                       *)
ChanWoken(p) ==
    /\ Runs(p, "chan")
    /\ IF hmap
       THEN pr' = [pr EXCEPT ![p].run = FALSE] /\ UNCHANGED <<r, hmap, net>>
       ELSE pr' = [pr EXCEPT ![p] = Idle] /\ SendAll(r, pr[p].n)
    /\ UNCHANGED <<w, drfnm, con>>

Netread(p) == DataWoken(p) \/ Lbolt(p) \/ ChanWoken(p)

-----------------------------------------------------------------------------
(* Messages and their answers.  A message arrives and is answered with an  *)
(* RFNM, or is lost and is answered with an error (incomplete transmission *)
(* or error in data).                                                      *)

BugDataArrives ==
    /\ net.data # <<>>
    /\ net' = [net EXCEPT !.data = Tail(@), !.dans = Append(@, "rfnm")]
    /\ r' = IF r.link
            THEN [r EXCEPT !.msgs = @ - 1, !.q = @ \o Head(net.data),
                           !.qtotal = @ + Len(Head(net.data))]
            ELSE r
    /\ UNCHANGED <<w, hmap, drfnm, pr, con>>

(* hh(): a message for a user.                                             *)
DataArrives ==
    /\ net.data # <<>>
    /\ net' = [net EXCEPT !.data = Tail(@), !.dans = Append(@, "rfnm")]
    /\ IF r.link
       THEN LET m == Head(net.data) IN
            /\ r' = [r EXCEPT !.msgs = @ - 1, !.q = @ \o m, !.qtotal = @ + Len(m)]
            /\ pr' = Wakeup(RdSleepers)
       ELSE UNCHANGED <<r, pr>>
    /\ UNCHANGED <<w, hmap, drfnm, con>>

DataLost ==
    /\ net.data # <<>>
    /\ net' = [net EXCEPT !.data = Tail(@), !.dans = Append(@, "err")]
    /\ UNCHANGED <<w, r, hmap, drfnm, pr, con>>

(* ih() and siguser() for a data link.  The case of an error falls through *)
(* to the default, and the daemon is told as well.                         *)
DataAnswered ==
    /\ net.dans # <<>>
    /\ LET a == Head(net.dans) IN
        /\ IF w.link
           THEN /\ w' = [w EXCEPT !.flags = @ \cup {IF a = "rfnm" THEN "rfnm" ELSE "xmterr"}]
                /\ pr' = Wakeup(WrtSleepers)
           ELSE UNCHANGED <<w, pr>>
        /\ con' = IF a = "err" THEN Told("sender") ELSE con
    /\ net' = [net EXCEPT !.dans = Tail(@)]
    /\ UNCHANGED <<r, hmap, drfnm>>

(* hh1() and allocate().                                                   *)
CtlArrives ==
    /\ net.ctl # <<>>
    /\ net' = [net EXCEPT !.ctl = Tail(@), !.cans = Append(@, "rfnm")]
    /\ LET c == Head(net.ctl) IN
        IF c.op = "all" /\ w.link
        THEN /\ w' = [w EXCEPT !.msgs = @ + c.m, !.falloc = @ + c.b]
             /\ pr' = Wakeup(WrtSleepers)
        ELSE UNCHANGED <<w, pr>>
    /\ UNCHANGED <<r, hmap, drfnm, con>>

CtlLost ==
    /\ net.ctl # <<>>
    /\ net' = [net EXCEPT !.ctl = Tail(@), !.cans = Append(@, "err")]
    /\ UNCHANGED <<w, r, hmap, drfnm, pr, con>>

(* ih() and siguser() for link 0: the answer is a user's if a user waits,  *)
(* whoever's message it answers.  An error goes to the daemon too, where   *)
(* ir_re_x() clears the bit in rfnm_bm.                                    *)
CtlAnswered ==
    /\ net.cans # <<>>
    /\ LET a == Head(net.cans) IN
        /\ hmap' = FALSE
        /\ pr' = IF hmap THEN Wakeup({"chan"}) ELSE pr
        /\ drfnm' = (drfnm /\ hmap /\ a = "rfnm")
        /\ con' = IF a = "err" THEN Told("receiver") ELSE con
    /\ net' = [net EXCEPT !.cans = Tail(@)]
    /\ UNCHANGED <<w, r>>

-----------------------------------------------------------------------------
(* The daemons and the end of the connection *)

(* send_pro(): the daemon of the receiving host sends other protocol.      *)
DaemonSends ==
    /\ ~drfnm /\ r.link
    /\ drfnm' = TRUE
    /\ net' = [net EXCEPT !.ctl = Append(@, [op |-> "other", m |-> 0, b |-> 0])]
    /\ UNCHANGED <<w, r, hmap, pr, con>>

(* iclean() at the sending host: the other host closed or is dead, or the  *)
(* daemon was told of an error and killed the socket.                      *)
CleanSender ==
    /\ w.link
    /\ w' = [w EXCEPT !.link = FALSE, !.open = FALSE, !.flags = @ \cup {"eof"}]
    /\ pr' = Wakeup(WrtSleepers)
    /\ con' = GiveUp
    /\ UNCHANGED <<r, hmap, drfnm, net>>

(* iclean() at the receiving host.                                         *)
CleanReceiver ==
    /\ r.link
    /\ r' = [r EXCEPT !.link = FALSE, !.open = FALSE]
    /\ pr' = Wakeup(RdSleepers)
    /\ con' = IF con.closed THEN con ELSE GiveUp
    /\ UNCHANGED <<w, hmap, drfnm, net>>

(* netclose() by the last user of the sending host.                        *)
CloseSender ==
    /\ ~con.closed
    /\ \A p \in Writers : pr[p].at = "idle"
    /\ w' = [w EXCEPT !.link = FALSE, !.open = FALSE]
    /\ con' = [con EXCEPT !.closed = TRUE]
    /\ UNCHANGED <<r, hmap, drfnm, net, pr>>

(* netclose() by "the second to last guy" of the receiving host, who tells *)
(* a reader that it is over.                                               *)
CloseShared ==
    /\ r.open
    /\ r' = [r EXCEPT !.open = FALSE]
    /\ pr' = Wakeup(RdSleepers)
    /\ con' = GiveUp
    /\ UNCHANGED <<w, hmap, drfnm, net>>

(* sleep() at a priority that signals may interrupt, before the process is *)
(* woken or as it is: the system call is given up where it is.  Whoever    *)
(* runs at "rfnm" need not have slept.                                     *)
Signal(p) ==
    /\ pr[p].at \in Interrupted
    /\ pr[p].at = "rfnm" => ~pr[p].run
    /\ pr' = [pr EXCEPT ![p] = Idle]
    /\ UNCHANGED <<w, r, hmap, drfnm, net, con>>

Next ==
    \/ \E p \in Writers : Netwrite(p) \/ \E n \in 1 .. MaxCount : NetwriteBegin(p, n)
    \/ \E p \in Readers : Netread(p) \/ \E n \in 1 .. MaxCount : NetreadBegin(p, n)
    \/ \E p \in Proc : Signal(p)
    \/ DataArrives \/ DataLost \/ DataAnswered
    \/ CtlArrives \/ CtlLost \/ CtlAnswered
    \/ DaemonSends
    \/ CleanSender \/ CleanReceiver
    \/ CloseSender \/ CloseShared

Spec == Init /\ [][Next]_vars

(* A process that may run runs; the user keeps reading; messages arrive or *)
(* are answered with an error; a daemon that is told of an error on the    *)
(* connection's link, or on link 0, closes the connection, and a closed    *)
(* one is closed at the other end.                                         *)
Fairness ==
    /\ \A p \in Writers : WF_vars(Netwrite(p))
    /\ \A p \in Readers :
        /\ WF_vars(Netread(p))
        /\ WF_vars(\E n \in 1 .. MaxCount : NetreadBegin(p, n))
    /\ WF_vars(DataArrives \/ DataLost)
    /\ WF_vars(CtlArrives \/ CtlLost)
    /\ WF_vars(DataAnswered)
    /\ WF_vars(CtlAnswered)
    /\ WF_vars("sender" \in con.told /\ CleanSender)
    /\ WF_vars((con.closed \/ "receiver" \in con.told) /\ CleanReceiver)

FairSpec == Spec /\ Fairness

-----------------------------------------------------------------------------
(* Properties *)

(* The sockets, messages and processes have their types; in particular     *)
(* r_msgs stays between 0 and NOMMSG, and r_bytes between 0 and what the   *)
(* receiver has room for.                                                  *)
TypeOK ==
    /\ w \in WrtSkt /\ r \in RdSkt
    /\ hmap \in BOOLEAN /\ drfnm \in BOOLEAN
    /\ net \in Net
    /\ pr \in [Proc -> Process]
    /\ con \in Connection

Lasts == w.link /\ r.open

AllLost == "receiver" \in con.told \/ \E i \in DOMAIN net.cans : net.cans[i] = "err"

(* The message of p has been delivered, and p does not know it yet.        *)
Delivered(p) == pr[p].at = "rfnm" /\ (net.dans = <<"rfnm">> \/ "rfnm" \in w.flags)

(* What the ALLs among the messages of link 0 allocate, and the bytes of   *)
(* the messages of the connection's link.                                  *)
Msgs(ctl) == SeqSum([i \in DOMAIN ctl |-> ctl[i].m])

Bytes(ctl) == SeqSum([i \in DOMAIN ctl |-> ctl[i].b])

Size(data) == SeqSum([i \in DOMAIN data |-> Len(data[i])])

(* What the sender may send, with the ALLs on their way, is what the       *)
(* receiver has allocated, but for m messages of n bytes in all.           *)
Agree(m, n) ==
    /\ w.msgs + Msgs(net.ctl) = r.msgs + m
    /\ w.falloc + Bytes(net.ctl) + Len(r.q) = r.bytes + n

(* The books of the two hosts agree.  netwrite() takes a message from      *)
(* w_msgs and w_falloc when its RFNM has come; hh() takes it from r_msgs   *)
(* when it arrives, netread() its bytes from r_bytes when they are read.   *)
(* At any moment what the sender thinks it may send, with the ALLs on      *)
(* their way, is what the receiver has allocated, and the one message that *)
(* has been delivered without the sender's knowledge.                      *)
CreditAgrees ==
    Lasts /\ ~AllLost =>
        /\ \A p \in Writers : Delivered(p) => Agree(1, pr[p].n)
        /\ (\A p \in Writers : ~Delivered(p)) => Agree(0, 0)

(* netwrite() sends "as many bytes as the allocation will permit": a       *)
(* message always finds a message allocated at the receiver, and what is   *)
(* queued there and on its way to it fits into what was allocated.         *)
NeverOverrun ==
    /\ Lasts => r.msgs >= Len(net.data)
    /\ Len(r.q) + Size(net.data) <= Room

(* A link has one message outstanding, whatever was resent after an error. *)
OnePerLink == Len(net.data) + Len(net.dans) <= 1

(* A user's read returns no bytes, without an error, on the end of the     *)
(* file only.                                                              *)
ZeroMeansEof == con.eof => ~r.open

(* A bit in host_map stands for a message on link 0 that will be answered. *)
BitHasMessage == hmap => net.ctl # <<>> \/ net.cans # <<>>

(* In all it is a pipe of bytes, across retransmission after errors,       *)
(* allocation, sleeps, and the close by either side.                       *)
Pipe == INSTANCE BytePipe WITH
    Capacity <- Room, in <- con.sent, out <- con.out, closed <- con.closed,
    broken <- con.killed, ended <- con.eof

IsPipe == Pipe!Spec

(* The reader catches up with the writer, and writes return, unless the    *)
(* connection is given up: no reader sleeps on data, and sender and        *)
(* receiver do not wait for each other's messages, RFNMs and allocations.  *)
CatchesUp ==
    []<>(\/ con.killed
         \/ /\ Len(con.out) = con.offered
            /\ \A p \in Writers : pr[p].at = "idle")

=============================================================================
