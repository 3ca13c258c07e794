------------------------------- MODULE TcpConn -------------------------------
(***************************************************************************)
(* A TCP connection between two hosts of the BBN VAX system: the action    *)
(* routines of tape1-files/bbnnet/tcp_states.c as the table fstab of       *)
(* fsmdef.h selects them, netprepr() and tcp_input(), the calls of the     *)
(* users (netuser.c) and the timers.                                       *)
(*                                                                         *)
(* An action is one call of action(), or of tcp_input() for a segment that *)
(* never gets there: the network process is not interrupted in them.  The  *)
(* network may lose, delay, duplicate and reorder segments without bound:  *)
(* one that was sent may arrive at any time, or never.  A timer that runs  *)
(* may expire at any time.                                                 *)
(***************************************************************************)
EXTENDS TcpTcb

CONSTANTS
    Iss,        \* the initial sequence number of each host
    Plans       \* what may happen: see below

Host == {"a", "b"}
Peer(h) == IF h = "a" THEN "b" ELSE "a"

(* A plan: how each user opens the connection, how many bytes he writes    *)
(* and what he does besides; the buffers of uc_snd and uc_rcv, t_maxseg,   *)
(* which timers may expire, whether send_tcp() may find no buffer and a    *)
(* listener no interface, and a bound: with all bytes sent, the persist    *)
(* timer expires only below the sequence number phantom.                   *)
ASSUME ConnAssumption ==
    /\ Iss \in [Host -> Nat \ {0}]
    /\ \A p \in Plans :
        /\ p.opens \in [Host -> {"active", "passive"}] /\ p.bytes \in [Host -> Nat]
        /\ p.users \in [Host -> SUBSET {"close", "netclose", "abort", "clear"}]
        /\ {p.snd, p.rcv, p.maxseg} \subseteq Nat \ {0} /\ p.phantom \in Nat
        /\ p.timers \subseteq Timer /\ p.fails \in BOOLEAN

VARIABLES
    tcb,        \* the two ends: see Tcb
    net,        \* for each host, the segments it has sent
    wrote,      \* how many bytes each user has written: they are 1, 2, ...
    got,        \* what each user has read
    skipped,    \* the hosts that took a FIN before its turn (for the properties)
    plan        \* one of Plans

vars == <<tcb, net, wrote, got, skipped, plan>>

Init ==
    /\ plan \in Plans
    /\ tcb = [h \in Host |-> Zeroed(Iss[h], plan.maxseg, plan.rcv)]
    /\ net = [h \in Host |-> {}]
    /\ wrote = [h \in Host |-> 0]
    /\ got = [h \in Host |-> <<>>]
    /\ skipped = {}

(* The end of an action, from s: what was sent is on its way, and flags    *)
(* that are set anew before they are read lose their value.                *)
Leave(h, s) ==
    /\ tcb' = [tcb EXCEPT ![h] =
                [Reset(s, {"ack_due", "new_window", "failing", "no_if"}) EXCEPT !.out = <<>>]]
    /\ net' = [net EXCEPT ![h] = @ \cup ToSet(s.out)]

(* The tcb of h at the beginning of an action: all sends fail, or none, or *)
(* no interface with the address that a segment came to is available.      *)
Enter(h) ==
    {tcb[h]} \cup {Set(tcb[h], {f}) : f \in IF plan.fails THEN {"failing", "no_if"} ELSE {}}

Go(s, state) == [s EXCEPT !.state = state]

Exists(h) == tcb[h].state \notin {"NEW", "CLOSED"}

Synced == {"ESTAB", "FIN_W1", "FIN_W2", "TIME_WAIT", "CLOSE_WAIT", "CLOSING1",
           "CLOSING2", "RCV_WAIT"}

-----------------------------------------------------------------------------
(* Calls of the user *)

lis_cls(s) == Go(s, "LISTEN")
sys_cls(s) == Go(send_ctl(Start(s, {"init"})), "SYN_SENT")

(* tcpopen(), and t_open().                                                *)
Open(h) ==
    /\ tcb[h].state = "NEW"
    /\ \E s \in Enter(h) :
        Leave(h, IF plan.opens[h] = "active" THEN sys_cls(s) ELSE lis_cls(s))
    /\ UNCHANGED <<wrote, got, skipped, plan>>

(* sss_snd(): a byte joins the send buffer.                                *)
Write(h) ==
    /\ tcb[h].state \in {"ESTAB", "CLOSE_WAIT"}
    /\ {"usr_closed", "usr_abort"} \cap tcb[h].on = {} /\ tcb[h].told = {}
    /\ wrote[h] < plan.bytes[h] /\ Len(tcb[h].sbuf) < plan.snd
    /\ \E s \in Enter(h) :
        Leave(h, send([s EXCEPT !.sbuf = Append(@, wrote[h] + 1)]))
    /\ wrote' = [wrote EXCEPT ![h] = @ + 1]
    /\ UNCHANGED <<got, skipped, plan>>

(* tcp_read() takes what is in the receive buffer.                         *)
Read(h) ==
    /\ tcb[h].rbuf # <<>> /\ ~Is(tcb[h], "usr_abort")
    /\ got' = [got EXCEPT ![h] = Append(@, Head(tcb[h].rbuf))]
    /\ tcb' = [tcb EXCEPT ![h].rbuf = Tail(@)]
    /\ UNCHANGED <<net, wrote, skipped, plan>>

cls_rwt(s) ==
    LET Do(r) == IF rcv_empty(r) THEN t_close(r, "UCLOSED") ELSE r IN Do(present_data(s))

(* It finds no data, and not the end, and asks for some.                   *)
Receive(h) ==
    /\ tcb[h].state \in Synced /\ tcb[h].rbuf = <<>> /\ ~Is(tcb[h], "usr_abort")
    /\ ~(Is(tcb[h], "fin_rcvd") /\ rcv_empty(tcb[h]))
    /\ \E s \in Enter(h) :
        Leave(h, IF s.state = "RCV_WAIT" THEN cls_rwt(s) ELSE present_data(s))
    /\ UNCHANGED <<wrote, got, skipped, plan>>

cls_opn(s) == t_close(s, "UCLOSED")
SendFin(s) == Set(send_ctl(Set(s, {"snd_fin"})), {"usr_closed"})
fw1_syr(s) == Go(SendFin(s), "FIN_W1")
cl2_clw(s) == Go(SendFin(s), "CLOSING2")

(* IUCLOSE *)
UserClose(s) ==
    CASE s.state \in {"LISTEN", "SYN_SENT"} -> cls_opn(s)
      [] s.state \in {"SYN_RCVD", "L_SYN_RCVD", "ESTAB"} -> fw1_syr(s)
      [] s.state = "CLOSE_WAIT" -> cl2_clw(s)
      [] OTHER -> s

(* NETCLOSE: the user goes on receiving.                                   *)
NetClose(h) ==
    /\ "netclose" \in plan.users[h]
    /\ tcb[h].state \in Synced
    /\ {"usr_closed", "usr_abort"} \cap tcb[h].on = {}
    /\ \E s \in Enter(h) : Leave(h, UserClose(s))
    /\ UNCHANGED <<wrote, got, skipped, plan>>

(* netclose(), when all has been written or something has happened; or     *)
(* tcpopen() was interrupted.                                              *)
FileClose(h) ==
    /\ "close" \in plan.users[h]
    /\ Exists(h) /\ ~Is(tcb[h], "usr_abort")
    /\ \E s \in Enter(h) :
        LET r == Set(s, {"usr_abort"})
        IN  Leave(h, IF Is(s, "usr_closed") THEN r ELSE UserClose(r))
    /\ UNCHANGED <<wrote, got, skipped, plan>>

cls_nsy(s) == t_close(s, "UABORT")
cls_syn(s) == t_close(Reset(send_null(Set(s, {"snd_rst"})), {"snd_rst"}), "UABORT")

(* NETABORT *)
Abort(h) ==
    /\ "abort" \in plan.users[h]
    /\ Exists(h) /\ ~Is(tcb[h], "usr_abort")
    /\ \E s \in Enter(h) :
        Leave(h, IF s.state \in Synced THEN cls_syn(s) ELSE cls_nsy(s))
    /\ UNCHANGED <<wrote, got, skipped, plan>>

(* NETRESET: cls_act()                                                     *)
Clear(h) ==
    /\ "clear" \in plan.users[h]
    /\ Exists(h)
    /\ Leave(h, t_close(tcb[h], "UABORT"))
    /\ UNCHANGED <<wrote, got, skipped, plan>>

-----------------------------------------------------------------------------
(* Segments *)

Wait2ML(s) == Start(Reset(s, {"waited_2_ml"}), {"finack"})

(* rcv_data() and present_data()                                           *)
Take(s, n) == present_data(rcv_data(s, n))

(* The FIN makes a difference.                                             *)
AtFin(s, state) == IF Is(s, "fin_rcvd") THEN Go(s, state) ELSE s
AtFinWait(s, state) == IF Is(s, "fin_rcvd") THEN Go(Wait2ML(s), state) ELSE s

lis_netr(s, n) ==
    LET Do(r) == IF Is(r, "fin_rcvd") THEN Go(Wait2ML(r), "CLOSE_WAIT")
                 ELSE Go(Start(r, {"init"}), "L_SYN_RCVD")
    IN  IF Is(s, "no_if") THEN t_close(s, "UNRCH") ELSE Do(rcv_data(s, n))

(* The segment has a SYN: netprepr() drops others.                         *)
sys_netr(s, n) ==
    LET Do(r) ==
        CASE Is(r, "fin_rcvd") ->
                Go(IF ~n.ack THEN Wait2ML(r)
                   ELSE IF n.ackno > r.iss THEN present_data(r) ELSE r, "CLOSE_WAIT")
          [] ~Is(r, "fin_rcvd") /\ n.ack -> Go(present_data(r), "ESTAB")
          [] OTHER -> Go(r, "SYN_RCVD")
    IN  Do(rcv_data(s, n))

syr_netr(s, n) ==
    IF ~n.ack \/ n.ackno <= s.iss THEN s
    ELSE AtFin(Go(Take(s, n), "ESTAB"), "CLOSE_WAIT")

est_netr(s, n) == AtFin(Take(s, n), "CLOSE_WAIT")

fw1_netr(s, n) ==
    LET Do(r) ==
        CASE Is(r, "fin_rcvd") ->
                Go(Wait2ML(r), IF ack_fin(r, n) THEN "TIME_WAIT" ELSE "CLOSING1")
          [] ~Is(r, "fin_rcvd") /\ ack_fin(r, n) -> Go(r, "FIN_W2")
          [] OTHER -> r
    IN  Do(send(Take(s, n)))

fw2_netr(s, n) == AtFinWait(Take(s, n), "TIME_WAIT")

(* A mutant: it does not wait for the user to read what is left.           *)
BugFinish(s) == t_close(s, "UCLOSED")

(* Both sides have closed and all is acknowledged.                         *)
Finish(s) == IF rcv_empty(s) THEN t_close(s, "UCLOSED") ELSE Go(s, "RCV_WAIT")

cl1_netr(s, n) ==
    CASE ack_fin(s, n) /\ n.fin -> Go(Wait2ML(rcv_ctl(s, n)), "TIME_WAIT")
      [] ack_fin(s, n) /\ ~n.fin ->
            IF Is(s, "waited_2_ml") THEN Finish(s) ELSE Go(s, "TIME_WAIT")
      [] ~ack_fin(s, n) /\ n.fin -> Wait2ML(rcv_ctl(s, n))
      [] OTHER -> Take(s, n)

cl2_netr(s, n) ==
    IF ack_fin(s, n) THEN Finish(s)
    ELSE IF n.fin THEN send_ctl(s) ELSE Take(s, n)

(* A FIN again, with an ack that does not cover ours.                      *)
DupFin(s, n) == n.fin /\ n.ack /\ n.ackno <= s.fin

cwt_netr(s, n) ==
    IF DupFin(s, n) THEN Wait2ML(rcv_ctl(s, n))
    ELSE IF n.fin THEN send_ctl(s) ELSE Take(s, n)

rwt_netr(s, n) == IF DupFin(s, n) THEN Wait2ML(rcv_ctl(s, n)) ELSE s

(* The column N:RECEIVE of fstab, but for the states LISTEN and SYN_SENT.  *)
INRECV(s, n) ==
    CASE s.state \in {"SYN_RCVD", "L_SYN_RCVD"} -> syr_netr(s, n)
      [] s.state = "ESTAB" -> est_netr(s, n)
      [] s.state = "FIN_W1" -> fw1_netr(s, n)
      [] s.state = "FIN_W2" -> fw2_netr(s, n)
      [] s.state = "TIME_WAIT" -> Take(s, n)
      [] s.state = "CLOSE_WAIT" -> cwt_netr(s, n)
      [] s.state = "CLOSING1" -> cl1_netr(s, n)
      [] s.state = "CLOSING2" -> cl2_netr(s, n)
      [] s.state = "RCV_WAIT" -> rwt_netr(s, n)

(* A reset is acceptable.  A listener listens again.                       *)
GoodReset(s, n) ==
    IF s.state # "L_SYN_RCVD" THEN t_close(s, "URESET")
    ELSE IF ack_ok(s, n) THEN Go(Cancel(s, {"rexmt", "rexmttl", "persist"}), "LISTEN")
    ELSE s

(* netprepr(), and what follows if the segment is acceptable.              *)
Unsynced(s, n) ==
    IF ~ack_ok(s, n) THEN send_rst(s, n)
    ELSE IF n.rst THEN t_close(s, "URESET")
    ELSE IF n.syn THEN sys_netr(s, n) ELSE s

Listening(s, n) ==
    IF n.ack \/ ~n.syn THEN send_rst(s, n)
    ELSE IF n.rst THEN s ELSE lis_netr(s, n)

Others(s, n) ==
    IF n.rst /\ s.state # "SYN_RCVD"
    THEN IF n.seq >= s.rcv_nxt THEN GoodReset(s, n) ELSE s
    ELSE IF ack_ok(s, n) /\ (n.syn => n.seq = s.irs) THEN INRECV(s, n)
    ELSE IF n.syn THEN t_close(send_rst(s, n), "URESET") ELSE send_rst(s, n)

netprepr(s, n) ==
    CASE s.state = "LISTEN" -> Listening(s, n)
      [] s.state = "SYN_SENT" -> Unsynced(s, n)
      [] OTHER -> Others(s, n)

(* "nobody wants it": the segment itself is made into a reset.             *)
Refusal(n) ==
    [n EXCEPT !.seq = IF n.ack THEN n.ackno ELSE 0,
              !.ackno = IF n.ack THEN @ ELSE n.seq + Len(n.dat) + (IF n.syn THEN 1 ELSE 0),
              !.ack = ~n.ack, !.rst = TRUE, !.syn = FALSE, !.fin = FALSE, !.dat = <<>>]

(* The sequence number of the FIN of a segment.                            *)
FinOf(n) == n.seq + Len(n.dat) + (IF n.syn THEN 1 ELSE 0)

(* n makes an end s into r.                                                *)
Handled(h, n, s, r) ==
    /\ Leave(h, r)
    /\ skipped' = IF Is(r, "fin_rcvd") /\ ~Is(s, "fin_rcvd") /\ r.rcv_nxt # FinOf(n) + 1
                  THEN skipped \cup {h} ELSE skipped

Arrive(h, n) ==
    /\ Exists(h)
    /\ \E s \in Enter(h) : Handled(h, n, s, netprepr(s, n))
    /\ UNCHANGED <<wrote, got, plan>>

Refuse(h, n) ==
    /\ ~Exists(h)
    /\ net' = [net EXCEPT ![h] = @ \cup {Refusal(n)}]
    /\ UNCHANGED <<tcb, wrote, got, skipped, plan>>

-----------------------------------------------------------------------------
(* Timers *)

InitExpires(s) == IF Is(s, "syn_acked") THEN s ELSE t_close(s, "UINTIMO")

FinAckExpires(s) ==
    CASE s.state = "TIME_WAIT" -> Finish(s)
      [] s.state = "CLOSING1" -> Set(s, {"waited_2_ml"})
      [] OTHER -> s

RexmtExpires(s) ==
    IF s.rval > s.una THEN send(Set([s EXCEPT !.nxt = s.una], {"rexmt"})) ELSE s

RexmtTooLong(s) ==
    LET r == IF s.lval > s.una THEN to_user(s, "URXTIMO") ELSE s
    IN  IF Is(s, "usr_closed") THEN t_close(r, "URXTIMO") ELSE r

PersistExpires(s) == send(Set(s, {"force_one"}))

timers(s, t) ==
    CASE t = "init" -> InitExpires(s)
      [] t = "finack" -> FinAckExpires(s)
      [] t = "rexmt" -> RexmtExpires(s)
      [] t = "rexmttl" -> RexmtTooLong(s)
      [] t = "persist" -> PersistExpires(s)

Expire(h, t) ==
    /\ t \in tcb[h].tm \cap plan.timers
    /\ t = "persist" => tcb[h].nxt < Higher(SndLast(tcb[h]), plan.phantom)
    /\ \E s \in Enter(h) : Leave(h, timers(Cancel(s, {t}), t))
    /\ UNCHANGED <<wrote, got, skipped, plan>>

Next ==
    \E h \in Host :
        \/ Open(h) \/ Write(h) \/ Read(h) \/ Receive(h)
        \/ NetClose(h) \/ FileClose(h) \/ Abort(h) \/ Clear(h)
        \/ \E n \in net[Peer(h)] : Arrive(h, n) \/ Refuse(h, n)
        \/ \E t \in Timer : Expire(h, t)

Spec == Init /\ [][Next]_vars

-----------------------------------------------------------------------------
(* Properties *)

(* The control blocks, segments and buffers have their types; no window or *)
(* length of tcp.h's unsigned fields is ever the result of a negative      *)
(* difference.                                                             *)
TypeOK ==
    /\ tcb \in [Host -> Tcb]
    /\ net \in [Host -> SUBSET Segment]
    /\ wrote \in [Host -> Nat]
    /\ got \in [Host -> Seq(Byte)]

(* rcv_fin() takes a FIN only when all the data before it has come.  (The  *)
(* comment before it says "make sure all data has been received".)         *)
FinIsLast == skipped = {}

Upto(n) == [i \in 1 .. n |-> i]      \* the first n bytes that a user writes

(* Whatever the network does, and however segments are cut and merged,     *)
(* rcv_text() and present_data() give the user the bytes that his peer     *)
(* wrote, in their order and each once, and what waits in the sequencing   *)
(* queue is at its place.                                                  *)
Streams ==
    \A h \in Host \ skipped :
        LET s == tcb[h] IN
        /\ got[h] \o s.rbuf = Upto(Len(got[h] \o s.rbuf))
        /\ \A i \in DOMAIN s.rq : \A j \in DOMAIN s.rq[i].dat :
                s.rq[i].dat[j] = s.rq[i].seq + j - 1 - s.irs

NoReset == \A h \in Host : \A n \in net[h] : ~n.rst

(* What netprepr() and rcv_ack() take for acknowledged the peer has        *)
(* received, of this connection.  (Not if both open actively and a reset   *)
(* is under way: see README.)                                              *)
AcksAreTrue ==
    NoReset \/ (\E h \in Host : plan.opens[h] = "passive") =>
        \A h \in Host : LET s == tcb[h]  p == tcb[Peer(h)] IN
            {"syn_acked", "syn_rcvd"} \subseteq s.on /\ Exists(Peer(h)) =>
                s.una <= p.rcv_nxt /\ p.irs = s.iss

(* What was sent and not acknowledged will be sent again: send() and       *)
(* rcv_data() leave a retransmission timer that is still good for it, or   *)
(* the persist timer.                                                      *)
Timed ==
    NoReset => \A h \in Host : LET s == tcb[h] IN
        s.una < s.nxt => \/ "rexmt" \in s.tm /\ s.rval > s.una
                         \/ "persist" \in s.tm

(* A user who is told that the connection is closed, by present_data() or  *)
(* t_close(), has read all that his peer wrote.                            *)
EndIsEnd ==
    \A h \in Host \ skipped :
        "UCLOSED" \in tcb[h].told => Len(got[h]) = wrote[Peer(h)]

=============================================================================
