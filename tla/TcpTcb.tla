------------------------------- MODULE TcpTcb -------------------------------
(***************************************************************************)
(* One end of a TCP connection of the BBN VAX system: the procedures of    *)
(* tape1-files/bbnnet/tcp_procs.c and tcp_prim.c and the action routines   *)
(* of tcp_states.c, as functions of a connection's control block and the   *)
(* buffers of its user.  TcpConn composes two of them.                     *)
(*                                                                         *)
(* A buffer holds one byte, and buffers are plentiful (n_bufs >= n_lowat), *)
(* so that received segments are never cut or put aside.  Urgent data, the *)
(* end-of-letter mark and the round-trip times are left out.               *)
(***************************************************************************)
EXTENDS Integers, FiniteSets, SequencesExt

(* NEW: no tcb yet, CLOSED: no tcb any more.                               *)
State == {"NEW", "LISTEN", "SYN_SENT", "SYN_RCVD", "L_SYN_RCVD", "ESTAB", "FIN_W1",
          "FIN_W2", "TIME_WAIT", "CLOSE_WAIT", "CLOSING1", "CLOSING2", "RCV_WAIT",
          "CLOSED"}

Flag == {"cancelled", "fin_rcvd", "force_one", "rexmt", "snd_fin", "syn_acked",
         "syn_rcvd", "usr_closed", "waited_2_ml", "usr_abort", "ack_due", "new_window",
         "snd_rst", "failing", "no_if"}

Timer == {"init", "rexmt", "rexmttl", "persist", "finack"}

(* What to_user() tells.                                                   *)
Status == {"UCLOSED", "UABORT", "URESET", "UINTIMO", "URXTIMO", "UNRCH"}

Byte == Nat
Junk == 0               \* what lies beyond the data that there is to send

(* A segment of the peer's.                                                *)
Segment == [seq : Nat, ackno : Nat, ack : BOOLEAN, syn : BOOLEAN, fin : BOOLEAN,
            rst : BOOLEAN, win : Nat, dat : Seq(Byte)]

(* A piece of the sequencing queue.                                        *)
Piece == [seq : Nat, dat : Seq(Byte)]

(* The fields of the tcb have the names of tcp.h without the prefixes t_   *)
(* and snd_: una, nxt, hi, lst, wl and wnd; fin is seq_fin, rval and lval  *)
(* are t_rexmt_val and t_rtl_val.  on: the flags that are set; tm: the     *)
(* timers that run; rq: the sequencing queue.  Of the ucb: rcv is uc_rcv,  *)
(* sbuf uc_sbuf, rbuf uc_rbuf, told uc_state.  out: the segments sent      *)
(* since the action began.                                                 *)
Tcb == [state : State, iss : Nat, irs : Nat, rcv_nxt : Nat, una : Nat, nxt : Nat,
        hi : Nat, lst : Nat, fin : Nat, wl : Nat, wnd : Nat, rval : Nat, lval : Nat,
        maxseg : Nat, on : SUBSET Flag, tm : SUBSET Timer, rq : Seq(Piece), rcv : Nat,
        sbuf : Seq(Byte), rbuf : Seq(Byte), told : SUBSET Status, out : Seq(Segment)]

Set(s, F) == [s EXCEPT !.on = @ \cup F]
Reset(s, F) == [s EXCEPT !.on = @ \ F]
Start(s, T) == [s EXCEPT !.tm = @ \cup T]
Cancel(s, T) == [s EXCEPT !.tm = @ \ T]
Is(s, f) == f \in s.on

Lower(i, j) == IF i < j THEN i ELSE j
Higher(i, j) == IF i > j THEN i ELSE j

(* The tcb of a host that has not opened the connection.                   *)
Zeroed(iss, maxseg, rcv) ==
    [state |-> "NEW", iss |-> iss, irs |-> 0, rcv_nxt |-> 0, una |-> iss, nxt |-> iss,
     hi |-> iss, lst |-> 0, fin |-> iss, wl |-> 0, wnd |-> 0, rval |-> 0, lval |-> 0,
     maxseg |-> maxseg, on |-> {}, tm |-> {}, rq |-> <<>>, rcv |-> rcv,
     sbuf |-> <<>>, rbuf |-> <<>>, told |-> {}, out |-> <<>>]

(* Delete the tcb and its buffers.  The user is told, unless he has closed *)
(* the file.                                                               *)
t_close(s, why) ==
    [Zeroed(s.iss, s.maxseg, s.rcv) EXCEPT !.state = "CLOSED", !.out = s.out,
                          !.on = s.on \cap {"usr_abort"},
                          !.told = IF Is(s, "usr_abort") THEN s.told
                                   ELSE s.told \cup {why}]

-----------------------------------------------------------------------------
(* Primitives *)

t_end(p) == p.seq + Len(p.dat) - 1

(* The pieces of a queue that have no gap between them and the first.      *)
Run(q) == Max({k \in DOMAIN q : \A i \in 1 .. k - 1 : t_end(q[i]) + 1 = q[i + 1].seq})

firstempty(s) ==
    IF s.rq = <<>> \/ s.rcv_nxt < s.rq[1].seq THEN s.rcv_nxt
    ELSE t_end(s.rq[Run(s.rq)]) + 1

(* A mutant: what is queued counts too, and may be more than there is room *)
(* for.                                                                    *)
BugRcvResource(s) == s.rcv - Len(s.rbuf) - Len(s.rq)

rcv_resource(s) == Higher(s.rcv - Len(s.rbuf), 0)

(* t_rcv_next and t_rcv_prev are equal also when one piece is queued.      *)
rcv_empty(s) == Is(s, "usr_abort") \/ (s.rbuf = <<>> /\ Len(s.rq) <= 1)

ack_ok(s, n) == ~n.ack \/ (s.iss < n.ackno /\ n.ackno <= s.hi)

ack_fin(s, n) == s.fin > s.iss /\ n.ackno > s.fin

to_user(s, why) == [s EXCEPT !.told = @ \cup {why}]

send_tcp(s, syn, fin, dat) ==
    IF Is(s, "failing") THEN s
    ELSE [s EXCEPT !.out = Append(@,
            [seq |-> s.nxt, ackno |-> s.rcv_nxt, ack |-> Is(s, "syn_rcvd"),
             syn |-> syn, fin |-> fin, rst |-> Is(s, "snd_rst"),
             win |-> rcv_resource(s), dat |-> dat])]

(* The bytes from start up to end of the send buffer.  If it does not have *)
(* them the segment goes out without, and what is behind it is sent.  The  *)
(* same happens if m_get() fails here and not in send_tcp(), but then the  *)
(* peer finds the checksum, which is that of the header, wrong: it is one  *)
(* of the segments that never arrive.                                      *)
snd_copy(s, start, end) ==
    LET off == IF Is(s, "syn_acked") THEN s.una ELSE s.una + 1
    IN  IF off <= start /\ end <= off + Len(s.sbuf)
        THEN SubSeq(s.sbuf, start - off + 1, end - off)
        ELSE [i \in 1 .. end - start |-> Junk]

-----------------------------------------------------------------------------
(* Sending *)

(* One past the last datum in the send buffer.                             *)
SndLast(s) == s.una + Len(s.sbuf) + (IF Is(s, "syn_acked") THEN 0 ELSE 1)

(* A FIN is to be sent, for the first time or again.                       *)
FinDue(s) == Is(s, "snd_fin") /\ (s.fin = s.iss \/ s.nxt <= s.fin)

Window(s) == s.una + s.wnd

(* What send() means to send.  lst: up to where.                           *)
NoData(s, lst) ==
    [lst |-> lst + (IF FinDue(s) /\ s.nxt > SndLast(s) THEN 1 ELSE 0),
     fin |-> FinDue(s) /\ s.nxt > SndLast(s), dat |-> <<>>, forced |-> FALSE,
     persist |-> FALSE]

Data(s) ==
    LET fits == Lower(Lower(SndLast(s), Window(s)), s.nxt + s.maxseg)
        forced == Is(s, "force_one") /\ fits = Window(s)
        end == IF forced THEN s.nxt + 1 ELSE fits
        fin == FinDue(s) /\ ~forced /\ end = SndLast(s)
    IN  [lst |-> IF fin THEN end + 1 ELSE end, fin |-> fin,
         dat |-> snd_copy(s, Higher(s.iss + 1, s.nxt), end),
         forced |-> forced, persist |-> fits >= Window(s)]

Plan(s) ==
    IF s.nxt <= SndLast(s) /\ Is(s, "syn_acked") THEN Data(s)
    ELSE NoData(s, IF s.nxt = s.iss THEN s.nxt + 1 ELSE s.nxt)

(* send() returns TRUE.                                                    *)
Sends(s) == s.nxt < Plan(s).lst

(* The timers of a segment that is not a byte forced out.                  *)
TimeSegment(s, p) ==
    IF p.forced THEN s
    ELSE [Start(s, IF Is(s, "rexmt") THEN {"rexmt"} ELSE {"rexmt", "rexmttl"}) EXCEPT
            !.rval = p.lst, !.lval = IF Is(s, "rexmt") THEN @ ELSE p.lst]

(* A segment has been sent, unless there was no buffer.                    *)
Advance(s, lst) ==
    LET nxt == IF Is(s, "failing") THEN s.nxt ELSE lst
    IN  [Reset(s, {"ack_due", "rexmt", "force_one"}) EXCEPT !.nxt = nxt,
                                                            !.hi = Higher(nxt, @)]

Prepare(s, p) ==
    [Start(s, IF p.persist THEN {"persist"} ELSE {}) EXCEPT
        !.lst = p.lst, !.fin = IF p.fin THEN p.lst - 1 ELSE @]

SendPlan(s, p) ==
    IF s.nxt >= p.lst THEN s
    ELSE Advance(TimeSegment(send_tcp(s, s.nxt = s.iss, p.fin, p.dat), p), p.lst)

send(s) == LET Do(p) == SendPlan(Prepare(s, p), p) IN Do(Plan(s))

send_null(s) == Reset(send_tcp(s, FALSE, FALSE, <<>>), {"ack_due"})

send_ctl(s) == IF Sends(s) THEN send(s) ELSE send_null(send(s))

send_rst(s, n) ==
    IF n.rst THEN s
    ELSE LET r == [s EXCEPT !.nxt = IF n.ack THEN n.ackno ELSE @,
                            !.on = (@ \ {"syn_rcvd"}) \cup {"snd_rst"}]
         IN  Reset(send_null(r), {"snd_rst"})

-----------------------------------------------------------------------------
(* Receiving *)

Top(q, k) == SubSeq(q, 1, k)
Drop(q, k) == SubSeq(q, k + 1, Len(q))
Insert(q, k, p) == Top(q, k - 1) \o <<p>> \o Drop(q, k - 1)

CutFront(p, i) == [seq |-> p.seq + i, dat |-> Drop(p.dat, i)]
CutEnd(p, i) == [p EXCEPT !.dat = Top(@, Len(@) - i)]

(* The pieces from the k-th on that p covers whole are removed, and p is   *)
(* cut where it overlaps the one after them.  last: where p ended when it  *)
(* came.                                                                   *)
PutOver(q, k, p, last) ==
    LET over == {j \in k .. Len(q) :
                    \A i \in k .. j : q[i].seq < last /\ t_end(q[i]) <= last}
        rest == Drop(q, k - 1 + Cardinality(over))
        part == IF rest # <<>> /\ rest[1].seq < last
                THEN Lower(last - rest[1].seq + 1, Len(p.dat)) ELSE 0
    IN  IF p.dat = <<>> THEN q
        ELSE IF part = Len(p.dat) THEN Top(q, k - 1) \o rest
        ELSE Top(q, k - 1) \o <<CutEnd(p, part)>> \o rest

(* The queue q with the piece p merged into it.  k: the first piece that p *)
(* does not lie behind.                                                    *)
Merge(q, p) ==
    LET last == t_end(p)
        ends == {j \in DOMAIN q : p.seq <= t_end(q[j])}
        k == IF ends = {} THEN Len(q) + 1 ELSE Min(ends)
    IN  IF k = Len(q) + 1 \/ last < q[k].seq THEN Insert(q, k, p)
        ELSE IF last < t_end(q[k])
        THEN IF last - q[k].seq + 1 < Len(p.dat)
             THEN Insert(q, k, CutEnd(p, last - q[k].seq + 1))
             ELSE q
        ELSE IF p.seq <= q[k].seq
        THEN PutOver(Top(q, k - 1) \o Drop(q, k), k, p, last)
        ELSE PutOver(q, k + 1, CutFront(p, t_end(q[k]) - p.seq + 1), last)

Known(s) == [s EXCEPT !.rcv_nxt = firstempty(s)]

(* A mutant: what has been received already is not trimmed.                *)
BugRcvText(s, p) == Set(Known([s EXCEPT !.rq = Merge(@, p)]), {"ack_due"})

rcv_text(s, p) ==
    LET old == Higher(s.rcv_nxt - p.seq, 0)
    IN  IF old >= Len(p.dat) THEN Set(s, {"ack_due"})
        ELSE Set(Known([s EXCEPT !.rq = Merge(@, CutFront(p, old))]), {"ack_due"})

rcv_syn(s, n) ==
    Set([s EXCEPT !.irs = n.seq, !.rcv_nxt = n.seq + 1, !.wl = n.seq],
        {"syn_rcvd", "ack_due"})

rcv_ack(s, n) ==
    LET syn == ~Is(s, "syn_acked") /\ n.ackno > s.iss
        len == n.ackno - s.una - (IF syn THEN 1 ELSE 0)
        r == [s EXCEPT !.una = n.ackno, !.nxt = Higher(@, n.ackno),
                       !.sbuf = Drop(@, Lower(len, Len(@)))]
        a == Set(Cancel(r, {"rexmt", "rexmttl"}), {"cancelled"})
        b == IF syn THEN Set(Cancel(a, {"init"}), {"syn_acked"}) ELSE a
    IN  IF s.fin # s.iss /\ n.ackno > s.fin THEN Reset(b, {"snd_fin"}) ELSE b

rcv_window(s, n) ==
    Set(Cancel([s EXCEPT !.wl = n.seq, !.wnd = n.win], {"persist"}), {"new_window"})

(* The FIN is taken if nothing that came is still in the queue.            *)
rcv_fin(s) ==
    LET last == firstempty(s)
        whole == s.rq = <<>> \/ last = t_end(s.rq[Len(s.rq)])
    IN  IF Is(s, "fin_rcvd") THEN Set(s, {"ack_due"})
        ELSE IF ~whole THEN s
        ELSE IF s.rcv_nxt < last THEN Set(s, {"fin_rcvd"})
        ELSE Set([s EXCEPT !.rcv_nxt = last + 1], {"fin_rcvd", "ack_due"})

(* A mutant: what the peer still has to acknowledge is not timed again.    *)
BugTimeRest(s, sent) == s

(* Nothing was sent, but something is not acknowledged.                    *)
TimeRest(s, sent) ==
    IF ~sent /\ s.una < s.nxt /\ Is(s, "cancelled")
    THEN Reset(Start([s EXCEPT !.rval = s.lst, !.lval = s.lst], {"rexmt", "rexmttl"}),
               {"cancelled"})
    ELSE s

(* The end of rcv_data(): answer, and time what is not acknowledged.       *)
Answer(s) ==
    CASE Is(s, "ack_due") -> TimeRest(send_ctl(s), Sends(s))
      [] ~Is(s, "ack_due") /\ Is(s, "new_window") -> TimeRest(send(s), Sends(s))
      [] OTHER -> TimeRest(s, FALSE)

(* A mutant: a SYN that comes again is taken again.                        *)
BugTakeSyn(s, n) == IF n.syn THEN rcv_syn(s, n) ELSE s

(* What rcv_data() takes from a segment, in this order.                    *)
TakeSyn(s, n) == IF ~Is(s, "syn_rcvd") /\ n.syn THEN rcv_syn(s, n) ELSE s
TakeAck(s, n) ==
    IF n.ack /\ Is(s, "syn_rcvd") /\ n.ackno > s.una THEN rcv_ack(s, n) ELSE s
TakeWindow(s, n) == IF Is(s, "syn_rcvd") /\ n.seq >= s.wl THEN rcv_window(s, n) ELSE s
TakeText(s, n) ==
    IF n.dat # <<>> THEN rcv_text(s, [seq |-> n.seq, dat |-> n.dat]) ELSE s
TakeFin(s, n) == IF n.fin THEN rcv_fin(s) ELSE s

rcv_data(s, n) ==
    Answer(TakeFin(TakeText(TakeWindow(TakeAck(TakeSyn(
        Reset(s, {"ack_due", "new_window"}), n), n), n), n), n))

(* rcv_ctl(): "no data expected".                                          *)
rcv_ctl(s, n) == rcv_data(s, [n EXCEPT !.dat = <<>>])

(* Move the pieces without gaps to the user's receive buffer, as long as   *)
(* that is not full, and tell the user of the end when all has been moved. *)
(* buf[k]: the receive buffer with the first k pieces.                     *)
MoveUp(s, ready) ==
    LET buf[k \in 0 .. Len(s.rq)] ==
            IF k = 0 THEN s.rbuf ELSE buf[k - 1] \o s.rq[k].dat
        n == Cardinality({k \in DOMAIN s.rq :
                \A j \in 1 .. k : Len(buf[j - 1]) < s.rcv /\ t_end(s.rq[j]) < ready})
    IN  [s EXCEPT !.rbuf = buf[n], !.rq = Drop(@, n)]

TellEnd(s) ==
    IF Is(s, "fin_rcvd") /\ ~Is(s, "usr_closed") /\ rcv_empty(s)
    THEN to_user(s, "UCLOSED") ELSE s

present_data(s) ==
    IF ~Is(s, "syn_acked") \/ s.rq = <<>> THEN s ELSE TellEnd(MoveUp(s, firstempty(s)))

=============================================================================
