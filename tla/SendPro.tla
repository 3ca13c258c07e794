------------------------------ MODULE SendPro ------------------------------
(***************************************************************************)
(* Host-to-host protocol output of the NCP daemon: nosc-files/ncpd,        *)
(* send_pro.c, ir_proc.c, and the handlers of kr_dcode.c and hr_proc.c     *)
(* that queue protocol.                                                    *)
(*                                                                         *)
(* The daemon is one process that reads an instruction from the kernel,    *)
(* runs its handler and then, if pro2send was set, calls send_pro() for    *)
(* the host in the global "host".  A trip through that loop is one action. *)
(* Commands for a host wait in h_pb_q[h]; send_pro() copies the head of    *)
(* the queue into one message, counts the commands in h_pb_sent[h] and     *)
(* sets the host's bit in rfnm_bm.  The commands leave the queue only when *)
(* the RFNM of the message comes back.                                     *)
(*                                                                         *)
(* pro2send is cleared at the start of each trip, so it and "host" carry   *)
(* nothing from one trip to the next and are not variables.  Commands are  *)
(* numbered by host and by epoch (the flushes of the queue so far), so     *)
(* that a lost, repeated or reordered command can be seen on the wire.     *)
(***************************************************************************)
EXTENDS Integers, Sequences, FiniteSetsExt

CONSTANTS
    NHosts,     \* hosts are numbered 1 .. NHosts
    Known,      \* the hosts listed in /usr/net/hnames
    PerMsg,     \* commands that fit into the 120 bytes of a message
    XRetries,   \* x_retries
    TimoHosts,  \* hosts whose files may expire in one timeout instruction
    MaxCmd,     \* bound: commands queued for a host in one epoch
    MaxEpoch    \* bound: flushes of a host's queue

Host == 1 .. NHosts

ASSUME SendProAssumption ==
    /\ NHosts \in Nat \ {0}
    /\ Known \subseteq Host
    /\ PerMsg \in Nat \ {0}
    /\ XRetries \in Nat \ {0}
    /\ TimoHosts \in Nat
    /\ MaxCmd \in Nat \ {0, 1}     \* a command and a reset
    /\ MaxEpoch \in Nat

VARIABLES
    hs,         \* what the daemon keeps for each host: see HostRec
    init_host,  \* the host being reset by rst_all()
    got         \* the commands each host has received, in order

vars == <<hs, init_host, got>>

Cmd == [op : {"rst", "rrp", "cmd"}, ep : 0 .. MaxEpoch, n : 1 .. MaxCmd]

(* q: h_pb_q, sent: h_pb_sent, rtry: h_pb_rtry, up: h_up_bm, rfnm: rfnm_bm *)
(* wire: the messages handed to the kernel and not yet answered by the IMP *)
(* ep, n: the epoch, and the commands queued in it                         *)
HostRec == [q : Seq(Cmd), sent : Nat, rtry : Int, up : BOOLEAN, rfnm : BOOLEAN,
            wire : Seq(Seq(Cmd)), ep : 0 .. MaxEpoch, n : 0 .. MaxCmd]

Init ==
    /\ hs = [h \in Host |-> [q |-> <<>>, sent |-> 0, rtry |-> 0, up |-> FALSE,
                             rfnm |-> FALSE, wire |-> <<>>, ep |-> 0, n |-> 0]]
    /\ init_host = 0
    /\ got = [h \in Host |-> <<>>]

-----------------------------------------------------------------------------
(* The procedures, as functions of the record r of the current host *)

(* Bounds: room for k more commands and for the reset that rst_all() may   *)
(* add, room for one more flush.                                           *)
Room(r, k) == r.n + k < MaxCmd

CanFlush(r) == r.ep < MaxEpoch

qup_pro(r, op) ==
    [r EXCEPT !.q = Append(@, [op |-> op, ep |-> r.ep, n |-> r.n + 1]),
              !.n = @ + 1]

(* send_pro() appends to h_pb_sent what it copied; it is 0 unless a        *)
(* message is being retransmitted.                                         *)
BugSendPro(r) ==
    IF r.q = <<>> THEN r
    ELSE LET k == Min({Len(r.q), PerMsg})
         IN  [r EXCEPT !.sent = @ + k,
                       !.rtry = IF @ = 0 THEN XRetries ELSE @,
                       !.wire = Append(@, SubSeq(r.q, 1, k)),
                       !.rfnm = TRUE]

send_pro(r) ==
    IF r.rfnm \/ r.q = <<>> THEN r
    ELSE LET k == Min({Len(r.q), PerMsg})
         IN  [r EXCEPT !.sent = @ + k,
                       !.rtry = IF @ = 0 THEN XRetries ELSE @,
                       !.wire = Append(@, SubSeq(r.q, 1, k)),
                       !.rfnm = TRUE]

(* chk_host(): a host neither up nor being sent to is sent a reset.        *)
ChkSends(r) == ~r.up /\ ~r.rfnm

chk_host(r) == IF ChkSends(r) THEN send_pro(qup_pro(r, "rst")) ELSE r

(* h_dead() with pr_flush(): the queue is dropped, the message in flight   *)
(* (if any) is not waited for by h_pb_sent any more.                       *)
BugHDead(r) == [r EXCEPT !.q = <<>>, !.up = FALSE, !.ep = @ + 1, !.n = 0]

h_dead(r) == [r EXCEPT !.q = <<>>, !.sent = 0, !.up = FALSE, !.ep = @ + 1, !.n = 0]

(* rst_all(): go on from host "from" to the next known host that chk_host  *)
(* resets.  Its callers leave nothing to be sent for the host they were    *)
(* working on: the protocol for it was sent or flushed just before.        *)
RstNext(s, from) == {k \in Known : k > from /\ ChkSends(s[k])}

rst_all(s, from) ==
    LET todo == RstNext(s, from) IN
    IF todo = {}
    THEN hs' = s /\ init_host' = NHosts + 1
    ELSE /\ hs' = [s EXCEPT ![Min(todo)] = chk_host(@)]
         /\ init_host' = Min(todo)

-----------------------------------------------------------------------------
(* One trip through the daemon's main loop *)

(* A handler that queues a single command for h: hr_eco(), hr_rfc(), the   *)
(* socket operations that send an RFC, a CLS or an ALL.  A command from h  *)
(* also marks it alive.                                                    *)
Command(h) ==
    /\ Room(hs[h], 1)
    /\ \E alive \in {hs[h].up, TRUE} :
        hs' = [hs EXCEPT ![h] = send_pro(qup_pro([@ EXCEPT !.up = alive], "cmd"))]
    /\ UNCHANGED <<init_host, got>>

(* kr_odrct(), kr_ouicp(): chk_host(), then the RFC is queued.             *)
Open(h) ==
    /\ Room(hs[h], 2)
    /\ hs' = [hs EXCEPT ![h] = send_pro(qup_pro(chk_host(@), "cmd"))]
    /\ UNCHANGED <<init_host, got>>

(* kr_timo(): the sockets of every expired file are killed and each kill   *)
(* queues a CLS under that socket's host, but the loop ends with "host" at *)
(* the last of them, and only for that one is send_pro() called.           *)
kr_timo ==
    /\ \E H \in SUBSET Host : \E last \in H :
        /\ Cardinality(H) <= TimoHosts
        /\ \A h \in H : Room(hs[h], 1)
        /\ hs' = [h \in Host |->
                    IF h = last THEN send_pro(qup_pro(hs[h], "cmd"))
                    ELSE IF h \in H THEN qup_pro(hs[h], "cmd")
                    ELSE hs[h]]
    /\ UNCHANGED <<init_host, got>>

(* ir_rfnm() for link 0: the commands sent leave the queue, what is left   *)
(* is sent, and rst_all() goes on if it was waiting for this host.         *)
BugRfnmSent(r) ==
    [r EXCEPT !.rtry = 0, !.rfnm = FALSE, !.wire = Tail(@),
              !.q = SubSeq(@, Min({r.sent, Len(@)}) + 1, Len(@)),
              !.sent = @ - Len(Head(r.wire))]

BugRfnmDone(r) ==
    [r EXCEPT !.rtry = 0, !.rfnm = FALSE, !.wire = Tail(@),
              !.q = SubSeq(@, Min({r.sent + 1, Len(@)}) + 1, Len(@)), !.sent = 0]

RfnmDone(r) ==
    [r EXCEPT !.rtry = 0, !.rfnm = FALSE, !.wire = Tail(@),
              !.q = SubSeq(@, Min({r.sent, Len(@)}) + 1, Len(@)), !.sent = 0]

BugRfnm(h) ==
    /\ hs[h].wire # <<>>
    /\ got' = [got EXCEPT ![h] = @ \o Head(hs[h].wire)]
    /\ hs' = [hs EXCEPT ![h] = RfnmDone(@)]
    /\ UNCHANGED init_host

ir_rfnm(h) ==
    /\ hs[h].wire # <<>>
    /\ got' = [got EXCEPT ![h] = @ \o Head(hs[h].wire)]
    /\ LET s == [hs EXCEPT ![h] = send_pro(RfnmDone(@))]
       IN  IF h = init_host THEN rst_all(s, h)
                            ELSE hs' = s /\ UNCHANGED init_host

(* ir_re_x() for link 0: host or IMP dead, error in data or incomplete     *)
(* transmission; the message may have arrived all the same.  Retransmit,   *)
(* or give the host up.                                                    *)
ir_re_x(h) ==
    /\ hs[h].wire # <<>>
    /\ CanFlush(hs[h])
    /\ \E arrived \in BOOLEAN :
        got' = [got EXCEPT ![h] = IF arrived THEN @ \o Head(hs[h].wire) ELSE @]
    /\ LET r == [hs[h] EXCEPT !.rfnm = FALSE, !.wire = Tail(@), !.rtry = @ - 1]
       IN  IF r.rtry <= 0
           THEN LET s == [hs EXCEPT ![h] = h_dead(r)]
                IN  IF h = init_host THEN rst_all(s, h)
                                     ELSE hs' = s /\ UNCHANGED init_host
           ELSE hs' = [hs EXCEPT ![h] = send_pro(r)] /\ UNCHANGED init_host

(* hr_rst(): the host has restarted; forget it, mark it alive, reply.      *)
hr_rst(h) ==
    /\ CanFlush(hs[h])
    /\ hs' = [hs EXCEPT ![h] =
                send_pro(qup_pro([h_dead(@) EXCEPT !.up = TRUE], "rrp"))]
    /\ UNCHANGED <<init_host, got>>

(* kr_reset(): a user asks for a reset of the host.                        *)
kr_reset(h) ==
    /\ CanFlush(hs[h])
    /\ hs' = [hs EXCEPT ![h] = chk_host(h_dead(@))]
    /\ UNCHANGED <<init_host, got>>

(* ir_hdeds(): the IMP says why the host is dead.                          *)
ir_hdeds(h) ==
    /\ hs[h].up
    /\ hs' = [hs EXCEPT ![h].up = FALSE]
    /\ UNCHANGED <<init_host, got>>

(* ir_reset(): the IMP interface was reset.  Nothing is outstanding any    *)
(* more; every host is dead, and the known ones are reset one by one.      *)
ir_reset ==
    /\ \A h \in Host : CanFlush(hs[h])
    /\ rst_all([h \in Host |->
                  [h_dead(hs[h]) EXCEPT !.rfnm = FALSE, !.wire = <<>>]], 0)
    /\ UNCHANGED got

Next ==
    \/ \E h \in Host :
        \/ Command(h)
        \/ Open(h)
        \/ ir_rfnm(h)
        \/ ir_re_x(h)
        \/ hr_rst(h)
        \/ kr_reset(h)
        \/ ir_hdeds(h)
    \/ kr_timo
    \/ ir_reset

Spec == Init /\ [][Next]_vars

(* The IMP answers every message, with an RFNM or with an error.           *)
Fairness == \A h \in Host : WF_vars(ir_rfnm(h) \/ ir_re_x(h))

FairSpec == Spec /\ Fairness

-----------------------------------------------------------------------------
(* Properties *)

(* The daemon's tables have their types.                                   *)
TypeOK ==
    /\ hs \in [Host -> HostRec]
    /\ got \in [Host -> Seq(Cmd)]
    /\ init_host \in 0 .. NHosts + 1

(* The RFNM discipline of link 0: a host has at most one protocol message  *)
(* outstanding, exactly when its bit in rfnm_bm is set, across resets,     *)
(* flushes and errors in any order.                                        *)
OneOutstanding ==
    \A h \in Host : Len(hs[h].wire) = IF hs[h].rfnm THEN 1 ELSE 0

(* h_pb_sent is the "count of buffers in the current outstanding message   *)
(* (if any) to each host (0 if none outstanding)" (probuf.h): what the     *)
(* RFNM will remove from the queue is what the message carries.            *)
SentIsHead ==
    \A h \in Host :
        hs[h].sent # 0 =>
            /\ hs[h].rfnm
            /\ hs[h].sent <= Len(hs[h].q)
            /\ Head(hs[h].wire) = SubSeq(hs[h].q, 1, hs[h].sent)

(* A host receives the commands of an epoch in the order in which they     *)
(* were queued, each once and none left out, and none of an epoch after    *)
(* one of a later epoch.                                                   *)
InOrder ==
    \A h \in Host : \A i \in DOMAIN got[h] :
        IF i > 1 /\ got[h][i].ep = got[h][i - 1].ep
        THEN got[h][i].n = got[h][i - 1].n + 1
        ELSE got[h][i].n = 1 /\ (i > 1 => got[h][i].ep > got[h][i - 1].ep)

(* qup_pro() sets "pro2send to cause transmission at end of current major  *)
(* cycle": protocol left in a queue after the cycle waits for an RFNM that *)
(* will come, never for nothing.                                           *)
NoneStranded ==
    \A h \in Host : hs[h].q # <<>> => hs[h].rfnm

(* Protocol queued for a host is sent and acknowledged, or dropped because *)
(* the host was reset or given up.                                         *)
EventuallyOut ==
    \A h \in Host : hs[h].q # <<>> ~> hs[h].q = <<>>

(* rst_all(): the walk over the known hosts does not stop half way.        *)
ResetsComplete == init_host \in Host ~> init_host \notin Host

=============================================================================
