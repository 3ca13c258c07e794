----------------------------- MODULE SktMachine -----------------------------
(***************************************************************************)
(* The socket and file machines of the NCP daemon: nosc-files/ncpd         *)
(* skt_oper.c, so_unm.c, skt_util.c, files.c, assign.c and kwrite.c.       *)
(*                                                                         *)
(* A procedure of the daemon is a function of the state w of the system;   *)
(* to the kernel's fields of w (KernelFile) this module adds:              *)
(*   skt, fil  the tables sockets[] and files[]                            *)
(*   nsl, nfl  n_s_left and n_f_left                                       *)
(*   grp       the groups of local socket numbers still free (skt_map)     *)
(*   host      the global "host", under which protocol is queued           *)
(*   out       the protocol queued by the current instruction              *)
(*   ssn       the ICP sockets whose socket number awaits its RFNM         *)
(*   died      die() was called                                            *)
(*                                                                         *)
(* Socket numbers are integers because their parity says receive (even) or *)
(* send (odd).  Link numbers are left out: asn_lnkn() makes them unique    *)
(* among the sockets of a host, so a message on a link names a socket.     *)
(***************************************************************************)
EXTENDS KernelFile, FiniteSetsExt

CONSTANTS
    NSkt,       \* nsockets
    NFile,      \* nfiles
    Group       \* bases of the groups of socket numbers, multiples of 8

ASSUME SktMachineAssumption ==
    /\ NSkt \in Nat \ {0}
    /\ NFile \in Nat \ {0}
    /\ \A g \in Group : g \in Nat /\ g % 8 = 0

Slot == 1 .. NSkt
File == 1 .. NFile
NoSlot == 0     \* fsx_null
NoFile == 0

ksx_rcv == 0
ksx_xmit == 1
ksx_icp == 2

(* The other data socket of a file: sinx^1.                                *)
Other(i) == 1 - i

Odd(n) == n % 2 = 1

SktState == {"null", "glsn", "slsn", "rfcw", "q", "cacw", "clsw", "clow", "open",
             "c2cw", "orfnmw", "clorfnmw", "rfnmw"}

NullSkt == [st |-> "null", lskt |-> 0, fskt |-> 0, host |-> 0, filep |-> NoFile,
            sinx |-> 0, timo |-> FALSE]

FileState == {"null", "uiopw", "uisnw", "dopnw", "open", "gonew", "siopw",
              "sialw", "sirfw"}

NullFile == [st |-> "null", id |-> NoId, base |-> 0, x |-> [i \in Node |-> NoSlot],
             nsatt |-> 0, nsrsrv |-> 0, timo |-> FALSE]

FileOf(w, p) == w.fil[w.skt[p].filep]

SetSt(w, p, s) == [w EXCEPT !.skt[p].st = s]

SetFst(w, f, s) == [w EXCEPT !.fil[f].st = s]

-----------------------------------------------------------------------------
(* kwrite.c: instructions to the kernel; send_pro.c: hw_rfc(), hw_cls(),   *)
(* hw_all(), which queue a command for the global host.                    *)

kw_stup(w, p) == wf_setup(w, FileOf(w, p).id, w.skt[p].sinx, w.skt[p].host)

kw_mod(w, p) == wf_mod(w, FileOf(w, p).id, w.skt[p].sinx, w.skt[p].host)

kw_clean(w, p) == iclean(w, FileOf(w, p).id, w.skt[p].sinx)

kw_rdy(w, id, err) == wf_ready(w, id, err)

hw(w, op, p) ==
    [w EXCEPT !.out = @ \cup
        {[op |-> op, to |-> w.host, of |-> w.skt[p].host,
          lskt |-> w.skt[p].lskt, fskt |-> w.skt[p].fskt]}]

stimeout(w, p) == [w EXCEPT !.skt[p].timo = TRUE]

(* The numbers and the host of a socket in close wait are cleared, so that *)
(* nothing from the network matches it any more.                           *)
clean_skt(w, p) ==
    [w EXCEPT !.skt[p] = [@ EXCEPT !.lskt = 0, !.fskt = 0, !.host = 0]]

-----------------------------------------------------------------------------
(* Utility procedures of skt_oper.c *)

so_ut1(w, p) == clean_skt(SetSt(kw_clean(w, p), p, "clow"), p)

so_ut2(w, p) == clean_skt(SetSt(w, p, "clow"), p)

so_ut3(w, p) == SetSt(kw_clean(hw(w, "cls", p), p), p, "cacw")

(* The column si_kill of the table, except for a socket in rfnm wait,      *)
(* which is always an ICP socket: see kill_skt().                          *)
BugKillOp(w, p) ==
    LET s == w.skt[p].st IN
    CASE s \in {"glsn", "slsn", "cacw"} -> so_ut1(w, p)
      [] s \in {"rfcw", "open", "orfnmw"} -> so_ut3(w, p)
      [] s = "clorfnmw" -> SetSt(w, p, "c2cw")
      [] OTHER -> w

KillOp(w, p) ==
    LET s == w.skt[p].st IN
    CASE s \in {"glsn", "slsn"} -> so_ut1(w, p)
      [] s \in {"rfcw", "open", "orfnmw"} -> so_ut3(w, p)
      [] s = "clorfnmw" -> SetSt(w, p, "c2cw")
      [] OTHER -> w

-----------------------------------------------------------------------------
(* files.c *)

(* f_make(): a file structure, with room for n sockets set aside.          *)
CanMake(w, n) == w.nfl > 0 /\ w.nsl >= n

FreeFiles(w) == {f \in File : w.fil[f].st = "null"}

(* The new file is not null any more: its callers set the state st.        *)
BugFMake(w, id, n, st, base, timo) ==
    IF FreeFiles(w) = {} THEN [w EXCEPT !.died = TRUE]
    ELSE [w EXCEPT !.fil[Min(FreeFiles(w))] =
                     [NullFile EXCEPT !.st = st, !.id = id, !.nsrsrv = n,
                                      !.base = base, !.timo = timo],
                   !.nsl = @ - n]

f_make(w, id, n, st, base, timo) ==
    IF FreeFiles(w) = {} THEN [w EXCEPT !.died = TRUE]
    ELSE [w EXCEPT !.fil[Min(FreeFiles(w))] =
                     [NullFile EXCEPT !.st = st, !.id = id, !.nsrsrv = n,
                                      !.base = base, !.timo = timo],
                   !.nfl = @ - 1, !.nsl = @ - n]

(* f_rlse(): give back the file and what it still reserves, and its group  *)
(* of socket numbers unless another file uses it.                          *)
BugFRlse(w, f) ==
    LET w1 == [w EXCEPT !.nsl = @ + w.fil[f].nsrsrv, !.nfl = @ + 1,
                        !.fil[f] = NullFile]
    IN  wf_frlse(w1, w.fil[f].id)

f_rlse(w, f) ==
    LET base == w.fil[f].base
        shared == \E g \in File \ {f} : w.fil[g].st # "null" /\ w.fil[g].base = base
        w1 == [w EXCEPT !.nsl = @ + w.fil[f].nsrsrv, !.nfl = @ + 1,
                        !.fil[f] = NullFile,
                        !.grp = IF shared THEN @ ELSE @ \cup ({base} \cap Group)]
    IN  wf_frlse(w1, w.fil[f].id)

(* fi_sgone(): the connection of socket p is closed.  Gonechk is its label *)
(* gonechk: the file goes with its last socket; Detach takes a socket out  *)
(* of the file's list.                                                     *)
BugGonechk(w, f) == f_rlse(w, f)

Gonechk(w, f) == IF w.fil[f].nsatt = 0 THEN f_rlse(w, f) ELSE w

Detach(F, i) == [F EXCEPT !.x[i] = NoSlot, !.nsatt = @ - 1, !.nsrsrv = @ - 1]

fi_sgone(w, p) ==
    LET f == w.skt[p].filep
        x == w.skt[p].sinx
        s == w.fil[f].st
        w1 == [w EXCEPT !.fil[f] = Detach(w.fil[f], x)]
    IN  IF x = ksx_icp
        THEN CASE s \in {"uisnw", "sialw", "sirfw", "uiopw", "siopw"} ->
                    f_rlse(kw_rdy(w1, w.fil[f].id, TRUE), f)
               [] s = "gonew" -> Gonechk(w1, f)
               [] OTHER -> w1
        ELSE CASE s \in {"dopnw", "open"} ->
                    LET w2 == IF s = "dopnw" THEN kw_rdy(w1, w.fil[f].id, TRUE)
                                             ELSE w1
                        y  == w1.fil[f].x[Other(x)]
                    IN  Gonechk(SetFst(IF y # NoSlot THEN KillOp(w2, y) ELSE w2,
                                       f, "gonew"), f)
               [] s = "gonew" -> Gonechk(w1, f)
               [] OTHER -> w1

BugFreeSkt(w, p) ==
    LET w1 == IF w.skt[p].filep # NoFile THEN fi_sgone(w, p) ELSE w
    IN  [w1 EXCEPT !.skt[p] = NullSkt]

free_skt(w, p) ==
    LET w1 == IF w.skt[p].filep # NoFile THEN fi_sgone(w, p) ELSE w
    IN  [w1 EXCEPT !.nsl = @ + 1, !.skt[p] = NullSkt]

kill_skt(w, p) == IF w.skt[p].st = "rfnmw" THEN free_skt(w, p) ELSE KillOp(w, p)

(* fi_sopn(): the connection of socket p is open.                          *)
fi_sopn(w, p) ==
    LET f == w.skt[p].filep
        s == w.fil[f].st
        other == w.fil[f].x[Other(w.skt[p].sinx)]
        w1 == kw_mod(w, p)
        w2 == IF Odd(w.skt[p].lskt) THEN w1 ELSE hw(w1, "all", p)
    IN  IF w.skt[p].sinx = ksx_icp
        THEN CASE s = "uiopw" -> SetFst(hw(w1, "all", p), f, "uisnw")
               [] s = "siopw" -> [SetFst(w1, f, "sialw") EXCEPT !.fil[f].timo = TRUE]
               [] OTHER -> [w EXCEPT !.died = TRUE]
        ELSE IF s # "dopnw" THEN [w EXCEPT !.died = TRUE]
        ELSE IF /\ w.fil[f].nsatt = w.fil[f].nsrsrv
                /\ other = NoSlot \/ w.skt[other].st = "open"
        THEN kw_rdy([SetFst(w2, f, "open") EXCEPT !.fil[f].timo = FALSE],
                    w.fil[f].id, FALSE)
        ELSE w2

-----------------------------------------------------------------------------
(* skt_util.c, so_unm.c and the rest of skt_oper.c.  A request r carries   *)
(* the operation and the fields that a new socket gets.                    *)

Attach(F, i, p) == [F EXCEPT !.x[i] = p, !.nsatt = @ + 1]

att_skt(w, p) ==
    LET f == w.skt[p].filep
    IN  [w EXCEPT !.fil[f] = Attach(w.fil[f], w.skt[p].sinx, p)]

(* so_glchk(): zero in the listener stands for any host, any socket.       *)
so_glchk(l, t) == l.host \in {0, t.host} /\ l.fskt \in {0, t.fskt}

so_match(r, t) == r.host = t.host /\ r.fskt = t.fskt

(* Whether the procedure of the table for r and the state of socket s      *)
(* returns 1.                                                              *)
BugMatches(r, s) ==
    /\ s.lskt = r.lskt
    /\ CASE r.op = "glsn" -> s.st = "q" /\ so_glchk(r, s)
         [] r.op \in {"slsn", "init"} -> s.st = "q" /\ so_match(r, s)
         [] r.op = "rfc" -> \/ s.st = "glsn" /\ so_glchk(s, r)
                            \/ s.st \in {"slsn", "rfcw", "cacw"} /\ so_match(r, s)
         [] r.op = "cls" -> /\ s.st \in {"rfcw", "q", "cacw", "clsw", "open", "orfnmw"}
                            /\ so_match(r, s)

Matches(r, s) ==
    /\ s.lskt = r.lskt
    /\ CASE r.op = "glsn" -> s.st = "q" /\ so_glchk(r, s)
         [] r.op \in {"slsn", "init"} -> s.st = "q" /\ so_match(r, s)
         [] r.op = "rfc" -> \/ s.st = "glsn" /\ so_glchk(s, r)
                            \/ s.st \in {"slsn", "rfcw"} /\ so_match(r, s)
         [] r.op = "cls" -> /\ s.st \in {"rfcw", "q", "cacw", "clsw", "open", "orfnmw"}
                            /\ so_match(r, s)

(* lsint_q(): a listen or an init meets an RFC that was queued.  The queued*)
(* socket counts against the file's reservation from now on.               *)
lsint_q(w, r, p) ==
    LET w1 == att_skt([w EXCEPT
                !.skt[p] = [@ EXCEPT !.filep = r.filep, !.sinx = r.sinx, !.st = "open"],
                !.nsl = @ + 1,
                !.host = w.skt[p].host], p)
    IN  fi_sopn(hw(kw_stup(w1, p), "rfc", p), p)

(* rfc_glsn(), rfc_slsn(), rfc_rfcw(): an RFC meets a listen or our RFC.   *)
RfcOp(w, r, p) ==
    LET s == w.skt[p].st
        w1 == [w EXCEPT !.skt[p] = [@ EXCEPT !.host = r.host, !.fskt = r.fskt,
                                             !.st = "open"]]
    IN  fi_sopn(IF s = "rfcw" THEN w1 ELSE hw(w1, "rfc", p), p)

(* The column si_cls.                                                      *)
ClsOp(w, p) ==
    LET s == w.skt[p].st IN
    CASE s = "rfcw" -> clean_skt(stimeout(SetSt(hw(kw_clean(w, p), "cls", p), p, "clow"), p), p)
      [] s = "q" -> free_skt(hw(w, "cls", p), p)
      [] s = "cacw" -> so_ut2(w, p)
      [] s = "clsw" -> free_skt(w, p)
      [] s = "open" -> SetSt(kw_clean(w, p), p, "c2cw")
      [] s = "orfnmw" -> SetSt(kw_clean(w, p), p, "clorfnmw")

(* The column si_close.                                                    *)
BugCloseOp(w, p) ==
    LET s == w.skt[p].st IN
    CASE s \in {"glsn", "slsn"} -> free_skt(kw_clean(w, p), p)
      [] s \in {"rfcw", "open", "orfnmw"} ->
            stimeout(SetSt(kw_clean(hw(w, "cls", p), p), p, "clsw"), p)
      [] s = "cacw" -> SetSt(w, p, "clsw")
      [] s = "clow" -> free_skt(w, p)
      [] s = "c2cw" -> free_skt(hw(w, "cls", p), p)
      [] s = "clorfnmw" -> SetSt(hw(w, "cls", p), p, "rfnmw")
      [] OTHER -> w

CloseOp(w, p) ==
    LET s == w.skt[p].st IN
    CASE s \in {"glsn", "slsn"} -> free_skt(kw_clean(w, p), p)
      [] s \in {"rfcw", "open", "orfnmw"} ->
            stimeout(SetSt(kw_clean(hw(w, "cls", p), p), p, "clsw"), p)
      [] s = "cacw" -> stimeout(SetSt(w, p, "clsw"), p)
      [] s = "clow" -> free_skt(w, p)
      [] s = "c2cw" -> free_skt(hw(w, "cls", p), p)
      [] s = "clorfnmw" -> SetSt(hw(w, "cls", p), p, "rfnmw")
      [] OTHER -> w

(* The column si_dead.                                                     *)
DeadOp(w, p) ==
    LET s == w.skt[p].st IN
    CASE s \in {"glsn", "slsn", "rfcw", "open", "orfnmw"} -> so_ut1(w, p)
      [] s \in {"q", "clsw", "rfnmw"} -> free_skt(w, p)
      [] s \in {"cacw", "c2cw", "clorfnmw"} -> so_ut2(w, p)
      [] OTHER -> w

(* so_urfc(), so_ulsn(), so_uinit(): nothing matched, take a new socket.   *)
FreeSlots(w) == {p \in Slot : w.skt[p].st = "null"}

NewState == [glsn |-> "glsn", slsn |-> "slsn", init |-> "rfcw", rfc |-> "q"]

so_unm(w, r) ==
    IF r.op = "cls" \/ FreeSlots(w) = {} THEN w
    ELSE LET p == Min(FreeSlots(w))
             w1 == [w EXCEPT !.skt[p] =
                      [st |-> NewState[r.op], lskt |-> r.lskt, fskt |-> r.fskt,
                       host |-> r.host, filep |-> r.filep, sinx |-> r.sinx,
                       timo |-> FALSE]]
             w2 == kw_stup(att_skt(w1, p), p)
         IN  CASE r.op = "rfc" -> [w1 EXCEPT !.nsl = @ - 1]
               [] r.op = "init" -> hw(w2, "rfc", p)
               [] OTHER -> w2

get_skt(w, r) ==
    LET M == {p \in Slot : w.skt[p].st # "null" /\ Matches(r, w.skt[p])}
    IN  IF M = {} THEN so_unm(w, r)
        ELSE CASE r.op = "rfc" -> RfcOp(w, r, Min(M))
               [] r.op = "cls" -> ClsOp(w, Min(M))
               [] OTHER -> lsint_q(w, r, Min(M))

(* sm_splx(), sm_dux(): the data socket, or the pair, of file f.           *)
sm_splx(w, f, lskt, fskt, sinx, op) ==
    get_skt(w, [op |-> op, lskt |-> lskt, fskt |-> fskt, host |-> w.host,
                filep |-> f, sinx |-> sinx])

sm_dux(w, f, lskt, fskt, op) ==
    sm_splx(sm_splx(w, f, lskt + 1, fskt, ksx_xmit, op),
            f, lskt, fskt + 1, ksx_rcv, op)

-----------------------------------------------------------------------------
(* files.c, continued: the initial connection protocol *)

(* fi_sktnm(): the server's logger sent the socket number n.               *)
fi_sktnm(w, p, n) ==
    LET f == w.skt[p].filep IN
    IF w.fil[f].st # "uisnw" THEN w
    ELSE IF Odd(n) THEN kill_skt(w, p)
    ELSE kill_skt(sm_dux(SetFst(w, f, "dopnw"), f, w.skt[p].lskt + 2, n, "init"), p)

(* fi_all(): an ALL from the host, large enough for a socket number or not.*)
fi_all(w, p, enough) ==
    LET f == w.skt[p].filep
        i == w.skt[p].sinx
    IN  CASE i = ksx_xmit -> kw_mod(w, p)
          [] i = ksx_rcv -> [w EXCEPT !.died = TRUE]
          [] i = ksx_icp /\ ~Odd(w.skt[p].lskt) -> [w EXCEPT !.died = TRUE]
          [] i = ksx_icp /\ Odd(w.skt[p].lskt) ->
                IF w.fil[f].st # "sialw" THEN w
                ELSE IF ~enough THEN kill_skt(w, p)
                ELSE [SetSt(SetFst(w, f, "sirfw"), p, "orfnmw")
                        EXCEPT !.ssn = @ \cup {p}]

(* fi_rfnm(): the socket number has arrived.                               *)
fi_rfnm(w, p) ==
    LET f == w.skt[p].filep IN
    IF w.fil[f].st # "sirfw" THEN w
    ELSE kill_skt(sm_dux(SetFst(w, f, "dopnw"), f, w.fil[f].base,
                         w.skt[p].fskt + 2, "init"), p)

=============================================================================
