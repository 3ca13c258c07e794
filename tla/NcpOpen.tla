------------------------------- MODULE NcpOpen -------------------------------
(***************************************************************************)
(* Opening and closing network connections: user processes, the kernel's   *)
(* network files and the daemon's socket and file machines together, with  *)
(* foreign hosts that may send anything the protocol lets them.            *)
(*                                                                         *)
(* A trip through the daemon's main loop is one action (the handlers of    *)
(* kr_dcode.c, hr_proc.c and ir_proc.c).  The instructions of users wait   *)
(* in ncprq; messages of the IMP and the timer are handled when they come. *)
(***************************************************************************)
EXTENDS SktMachine, SequencesExt, SeqSum

CONSTANTS
    NHosts,     \* hosts are numbered 1 .. NHosts
    Opens,      \* the opens that users may ask for
    Rfcs,       \* <<local, foreign>> socket pairs that hosts may request
    SktNums,    \* socket numbers that a foreign logger may send
    Timed,      \* whether the timer runs
    MaxQueued   \* bound: RFCs that wait in the table for a listener

Host == 1 .. NHosts

(* An open: type "user" or "serv" (ICP) or "drct"; dux, op, lskt, fskt and *)
(* host as in the user's openparams; timo: the open has a time limit.      *)
OpenRec == [type : {"user", "serv", "drct"}, dux : BOOLEAN,
            op : {"init", "slsn", "glsn"}, lskt : Nat, fskt : Nat,
            host : 0 .. NHosts, timo : BOOLEAN]

ASSUME NcpOpenAssumption ==
    /\ NHosts \in Nat \ {0}
    /\ Opens \subseteq OpenRec
    /\ Rfcs \subseteq Nat \X Nat
    /\ SktNums \subseteq Nat
    /\ NoId \notin Id /\ IsFiniteSet(Id) /\ IsFiniteSet(User)
    /\ FILSIZE \in Nat \ {0}
    /\ Timed \in BOOLEAN
    /\ MaxQueued \in Nat

VARIABLES
    skt, fil, nsl, nfl, grp, host, out, ssn, died,  \* see SktMachine
    kf, ncprq, usr, wild                            \* see KernelFile

vars == <<skt, fil, nsl, nfl, grp, host, out, ssn, died, kf, ncprq, usr, wild>>

World == [skt |-> skt, fil |-> fil, nsl |-> nsl, nfl |-> nfl, grp |-> grp,
          host |-> host, out |-> out, ssn |-> ssn, died |-> died,
          kf |-> kf, ncprq |-> ncprq, usr |-> usr, wild |-> wild]

Init ==
    /\ skt = [p \in Slot |-> NullSkt]
    /\ fil = [f \in File |-> NullFile]
    /\ nsl = NSkt
    /\ nfl = NFile
    /\ grp = Group
    /\ host = 0
    /\ out = {}
    /\ ssn = {}
    /\ died = FALSE
    /\ kf = [i \in Id |-> FreeFile]
    /\ ncprq = <<>>
    /\ usr = [u \in User |-> IdleUser]
    /\ wild = FALSE

Become(w) ==
    /\ skt' = w.skt /\ fil' = w.fil /\ nsl' = w.nsl /\ nfl' = w.nfl
    /\ grp' = w.grp /\ host' = w.host /\ out' = w.out /\ died' = w.died
    /\ ssn' = {p \in w.ssn : w.skt[p].st # "null" /\ w.skt[p].host # 0}
    /\ kf' = w.kf /\ ncprq' = w.ncprq /\ usr' = w.usr /\ wild' = w.wild

(* The state in which a step starts, with the global host at h; out holds  *)
(* what the step itself queues.                                            *)
Trip(h) == [World EXCEPT !.host = h, !.out = {}]

-----------------------------------------------------------------------------
(* Users *)

Netopen(u, o) ==
    /\ usr[u].st = "idle"
    /\ Cardinality({i \in Id : kf[i].tab}) < FILSIZE
    /\ \E id \in Id : kf[id].cnt = 0 /\ Become(netopen(Trip(host), u, id, o))

NetopenReturn(u) ==
    /\ usr[u].st = "wait" /\ usr[u].woken
    /\ Become(NetopenWoken(Trip(host), u))

Netclose(u) ==
    /\ usr[u].st = "open"
    /\ Become(netclose(Trip(host), u))

-----------------------------------------------------------------------------
(* kr_dcode.c: instructions of users *)

(* kr_open() notices a file that the kernel has forgotten.                 *)
Forget(w, id) ==
    [w EXCEPT !.fil = [f \in File |->
        IF @[f].st # "null" /\ @[f].id = id THEN [@[f] EXCEPT !.id = NoId] ELSE @[f]]]

NewFile(w) == Min(FreeFiles(w))

(* kr_odrct(): g is the group from asn_sktn() when the user named no local *)
(* socket.  Relative opens are left out.                                   *)
BadPar(o) ==
    \/ o.lskt = 0 /\ o.op # "init"
    \/ o.op # "glsn" /\ o.host = 0
    \/ /\ ~o.dux /\ o.lskt # 0 /\ Odd(o.lskt) = Odd(o.fskt)
       /\ ~(o.op = "glsn" /\ o.fskt = 0)

kr_odrct(w, id, o, g) ==
    LET assign == o.lskt = 0 /\ o.op = "init"
        lskt == IF assign THEN (IF Odd(o.fskt) THEN g ELSE g + 1) ELSE o.lskt
        w1 == IF assign THEN [w EXCEPT !.grp = @ \ {g}] ELSE w
        n == IF o.dux THEN 2 ELSE 1
        f == NewFile(w)
        w2 == f_make(w1, id, n, "dopnw", lskt - (lskt % 8), FALSE)
    IN  IF assign /\ g = -1 THEN kw_rdy(w, id, TRUE)
        ELSE IF BadPar(o) \/ ~CanMake(w, n) THEN kw_rdy(w1, id, TRUE)
        ELSE IF FreeFiles(w) = {} THEN w2
        ELSE IF o.dux
        THEN sm_dux(w2, f, lskt - (lskt % 2), o.fskt - (o.fskt % 2), o.op)
        ELSE sm_splx(w2, f, lskt, o.fskt, lskt % 2, o.op)

(* kr_ouicp(), kr_osicp() *)
IcpBad(o) ==
    IF o.type = "user" THEN o.host = 0 \/ (o.fskt # 0 /\ ~Odd(o.fskt))
                       ELSE o.lskt # 0 /\ ~Odd(o.lskt)

kr_oicp(w, id, o, g) ==
    LET f == NewFile(w)
        user == o.type = "user"
        w1 == [f_make(w, id, 3, IF user THEN "uiopw" ELSE "siopw", g,
                      user /\ o.timo) EXCEPT !.grp = @ \ {g}]
        r == IF user
             THEN [op |-> "init", lskt |-> g, fskt |-> IF o.fskt = 0 THEN 1 ELSE o.fskt,
                   host |-> o.host, filep |-> f, sinx |-> ksx_icp]
             ELSE [op |-> "glsn", lskt |-> IF o.lskt = 0 THEN 1 ELSE o.lskt, fskt |-> 0,
                   host |-> 0, filep |-> f, sinx |-> ksx_icp]
    IN  IF ~CanMake(w, 3) THEN kw_rdy(w, id, TRUE)
        ELSE IF FreeFiles(w) = {} THEN w1
        ELSE IF IcpBad(o) \/ (g = -1 /\ ~user) THEN kw_rdy(f_rlse(w1, f), id, TRUE)
        ELSE get_skt(w1, r)

KrOpen ==
    /\ ncprq # <<>> /\ Head(ncprq).op = "open"
    /\ \E g \in IF grp = {} THEN {-1} ELSE grp :
        LET id == Head(ncprq).id
            o == Head(ncprq).o
            w == Forget([Trip(IF o.type = "serv" THEN host ELSE o.host)
                            EXCEPT !.ncprq = Tail(@)], id)
        IN  Become(IF o.type = "drct" THEN kr_odrct(w, id, o, g)
                                      ELSE kr_oicp(w, id, o, g))

kr_close ==
    /\ ncprq # <<>> /\ Head(ncprq).op = "close"
    /\ LET c == Head(ncprq)
           w == [Trip(host) EXCEPT !.ncprq = Tail(@)]
           F == {f \in File : fil[f].st # "null" /\ fil[f].id = c.id}
           p == fil[Min(F)].x[c.i]
       IN  Become(IF F = {} THEN w
                  ELSE IF p = NoSlot THEN w
                  ELSE CloseOp([w EXCEPT !.host = skt[p].host], p))

(* h_dead(): the host died (ir_re_x() on link 0), sent a reset (hr_rst())  *)
(* or is reset by a user (kr_reset()).  Protocol queued for it is flushed. *)
DeadSkt(w, p, h) ==
    IF w.skt[p].st # "null" /\ w.skt[p].host = h THEN DeadOp(w, p) ELSE w

(* The loops over the table of sockets and, in wf_reset(), over file_tab.  *)
DeadSkts(w, h) ==
    LET upto[p \in 0 .. NSkt] == IF p = 0 THEN w ELSE DeadSkt(upto[p - 1], p, h)
    IN  upto[NSkt]

ResetFiles(w, h) ==
    LET upto[k \in 0 .. Cardinality(Id)] ==
            IF k = 0 THEN w ELSE ResetFile(upto[k - 1], SetToSeq(Id)[k], h)
    IN  upto[Cardinality(Id)]

h_dead(w, h) == ResetFiles([DeadSkts(w, h) EXCEPT !.out = {}], h)

HostDead(h) == Become(h_dead(Trip(h), h))

(* kr_timo() kills the sockets of a file, and frees a socket or waits on.  *)
TimoFile(w, f) ==
    LET Kill(v, i) == LET p == v.fil[f].x[i] IN
            IF p = NoSlot THEN v
            ELSE kill_skt([v EXCEPT !.host = v.skt[p].host], p)
        w1 == Kill(Kill(Kill(w, 0), 1), 2)
    IN  kw_rdy([w1 EXCEPT !.fil[f].timo = FALSE], w1.fil[f].id, TRUE)

TimoSkt(w, p) ==
    IF ~w.skt[p].timo THEN w
    ELSE IF w.skt[p].st = "clsw" THEN free_skt(w, p)
    ELSE [w EXCEPT !.skt[p].timo = FALSE]

(* kr_timo(): F and P are the files and the sockets whose time is up.      *)
TimoFiles(w, F) ==
    LET upto[f \in 0 .. NFile] ==
            IF f = 0 THEN w
            ELSE IF f \in F THEN TimoFile(upto[f - 1], f) ELSE upto[f - 1]
    IN  upto[NFile]

TimoSkts(w, P) ==
    LET upto[p \in 0 .. NSkt] ==
            IF p = 0 THEN w
            ELSE IF p \in P THEN TimoSkt(upto[p - 1], p) ELSE upto[p - 1]
    IN  upto[NSkt]

kr_timo ==
    /\ Timed
    /\ \E F \in SUBSET {f \in File : fil[f].timo} :
       \E P \in SUBSET {p \in Slot : skt[p].timo} :
        /\ F # {} \/ P # {}
        /\ Become(TimoSkts(TimoFiles(Trip(host), F), P))

-----------------------------------------------------------------------------
(* hr_proc.c and ir_proc.c: messages from host h *)

hr_rfc(h) ==
    \E pair \in Rfcs :
        LET r == [op |-> "rfc", lskt |-> pair[1], fskt |-> pair[2],
                  host |-> h, filep |-> NoFile, sinx |-> 0]
        IN  /\ \/ \E p \in Slot : skt[p].st # "null" /\ Matches(r, skt[p])
               \/ Cardinality({p \in Slot : skt[p].st = "q"}) < MaxQueued
            /\ Become(get_skt(Trip(h), r))

hr_cls(h) ==
    \E p \in Slot :
        /\ skt[p].st # "null" /\ skt[p].host = h
        /\ Become(get_skt(Trip(h), [op |-> "cls", lskt |-> skt[p].lskt,
                                    fskt |-> skt[p].fskt, host |-> h]))

(* hr_all(), hr_data(): a message for the socket p of the host.            *)
hr_all(p) ==
    /\ skt[p].st = "open" /\ Odd(skt[p].lskt)
    /\ \E enough \in BOOLEAN : Become(fi_all(Trip(skt[p].host), p, enough))

hr_data(p) ==
    /\ skt[p].st = "open" /\ ~Odd(skt[p].lskt) /\ skt[p].sinx = ksx_icp
    /\ LET w == Trip(skt[p].host)
       IN  \/ \E n \in SktNums : Become(fi_sktnm(w, p, n))
           \/ Become(kill_skt(w, p))

ir_rfnm(p) ==
    /\ p \in ssn
    /\ Become(fi_rfnm([Trip(skt[p].host) EXCEPT !.ssn = @ \ {p}], p))

(* ir_re_x() on a data link: a message of the user, or the socket number,  *)
(* was not delivered.                                                      *)
ir_re_x(p) ==
    /\ p \in ssn \/ /\ skt[p].st = "open" /\ skt[p].sinx = ksx_xmit
                    /\ FileOf(World, p).st = "open"
    /\ Become(kill_skt([Trip(skt[p].host) EXCEPT !.ssn = @ \ {p}], p))

UserStep(u) == NetopenReturn(u) \/ Netclose(u) \/ \E o \in Opens : Netopen(u, o)

Next ==
    \/ \E u \in User : UserStep(u)
    \/ KrOpen
    \/ kr_close
    \/ kr_timo
    \/ \E h \in Host : HostDead(h) \/ hr_rfc(h) \/ hr_cls(h)
    \/ \E p \in Slot : hr_all(p) \/ hr_data(p) \/ ir_rfnm(p) \/ ir_re_x(p)

Spec == Init /\ [][Next]_vars

(* The daemon goes on reading its instructions, and the timer runs.  These *)
(* are the weak fairness of kr_timo, once for each socket that it frees,   *)
(* and of KrOpen \/ kr_close, with ENABLED written out: the first can      *)
(* happen while a timer is set, and the second while an instruction waits. *)
TimerRuns == Timed => \A p \in Slot : []<>(~skt[p].timo)

DaemonReads == []<>(ncprq = <<>>) \/ []<><<KrOpen \/ kr_close>>_vars

Fairness == TimerRuns /\ DaemonReads

FairSpec == Spec /\ Fairness

-----------------------------------------------------------------------------
(* Properties *)

(* Sockets that belong to a file.                                          *)
Attachable == SktState \ {"null", "q"}

(* The tables have their types, n_f_left is a count of files.              *)
TypeOK ==
    /\ \A p \in Slot : skt[p].st \in SktState /\ skt[p].filep \in {NoFile} \cup File
    /\ \A f \in File : fil[f].st \in FileState
    /\ nsl \in Int /\ nfl \in 0 .. NFile
    /\ grp \subseteq Group
    /\ \A i \in Id : kf[i].cnt \in Nat /\ \A j \in Node : kf[i].node[j] \in NodeRec

(* n_s_left and n_f_left, which f_make(), so_urfc(), lsint_q(), free_skt() *)
(* and f_rlse() each change a little, count what the tables hold: sockets  *)
(* neither reserved by a file nor used by a queued RFC, and free files.    *)
SlotsAccounted ==
    /\ nsl = NSkt - SeqSum([f \in File |-> fil[f].nsrsrv])
                  - Cardinality({p \in Slot : skt[p].st = "q"})
    /\ nfl = Cardinality({f \in File : fil[f].st = "null"})

(* Sockets and files point at each other: no socket outlives its file, no  *)
(* file lists a socket that was freed or given to another, and a file has  *)
(* never more sockets than it reserved.                                    *)
TablesAgree ==
    /\ \A p \in Slot : skt[p].st \in Attachable =>
        /\ skt[p].filep # NoFile
        /\ FileOf(World, p).st # "null"
        /\ FileOf(World, p).x[skt[p].sinx] = p
    /\ \A f \in File :
        /\ fil[f].nsatt = Cardinality({i \in Node : fil[f].x[i] # NoSlot})
        /\ fil[f].nsatt <= fil[f].nsrsrv
        /\ \A i \in Node : fil[f].x[i] # NoSlot =>
            skt[fil[f].x[i]].filep = f /\ skt[fil[f].x[i]].st \in Attachable

(* No order of instructions, RFCs, CLSs, ALLs, RFNMs, timeouts and deaths  *)
(* makes the daemon die() in f_make(), fi_sopn() or fi_all().              *)
NeverDies == ~died

(* wf_ready() stores an error number where the read socket is pointed to;  *)
(* no later instruction takes it for a pointer.                            *)
NoWildPointer == ~wild

(* A group of socket numbers that asn_sktn() gave out belongs to a file.   *)
GroupsOwned ==
    \A g \in Group \ grp : \E f \in File : fil[f].st # "null" /\ fil[f].base = g

(* A socket that the daemon has begun to close without the user is freed   *)
(* in the end: the kernel's close, the CLS or the timer comes.             *)
ClosingEnds ==
    \A p \in Slot : skt[p].st \in {"cacw", "clsw", "clow", "c2cw"} ~> skt[p].st = "null"

-----------------------------------------------------------------------------
(* What the code does not ensure, though its comments say so: see README.  *)

(* wf_ready() sets FERR or FOPEN "so user knows we did the wakeup": when   *)
(* the process runs, the answer it was woken for is still there.           *)
AnswerStands ==
    \A u \in User : usr[u].st = "wait" /\ usr[u].woken =>
        kf[usr[u].id].ferr \/ kf[usr[u].id].fopen

(* kr_ouicp() and kr_osicp() "write error ready" for an open they cannot   *)
(* do: a process asleep in netopen() was answered, or its file is known to *)
(* the daemon or on the way to it.                                         *)
SleeperHasFile ==
    \A u \in User : usr[u].st = "wait" /\ ~usr[u].woken =>
        \/ \E f \in File : fil[f].st # "null" /\ fil[f].id = usr[u].id
        \/ \E k \in DOMAIN ncprq : ncprq[k].op = "open" /\ ncprq[k].id = usr[u].id

(* hw_rfc(), hw_cls() and hw_all() queue a command for the global host,    *)
(* which the handlers set: it is the host of the socket it is about.       *)
ToItsHost == \A c \in out : c.to = c.of

(* netopen() is to "return a useful error code to the user from the        *)
(* ncpdaemon": it takes it from where wf_ready() put it.                   *)
ErrorReported ==
    \A u \in User : usr[u].st = "wait" /\ usr[u].woken /\ kf[usr[u].id].ferr
        => kf[usr[u].id].node[f_rdnode].st = "err"

(* FTIMEOUT: a server connection not complete by then is forgotten.  The   *)
(* daemon does not complete an open it has reported as failed.             *)
FailedStaysFailed ==
    [][\A i \in Id : kf[i].tab /\ kf[i].ferr /\ ~kf[i].fopen => ~kf'[i].fopen]_vars

=============================================================================
