----------------------------- MODULE KernelFile -----------------------------
(***************************************************************************)
(* The kernel's side of a network file: nosc-files/ncpk nopcls.c and the   *)
(* wf_* instructions of ncpio.c.                                           *)
(*                                                                         *)
(* The daemon's write() on /dev/ncpkernel runs the instruction at once, in *)
(* the daemon's own process, so an instruction is a function of the state  *)
(* w of the whole system.  This module uses these fields of w:             *)
(*   kf    the file structures used for the network, by id                 *)
(*   ncprq the instructions for the daemon, oldest first                   *)
(*   usr   the user processes                                              *)
(*   wild  a small integer was used as a pointer to a socket               *)
(***************************************************************************)
EXTENDS Integers, Sequences, FiniteSets

CONSTANTS
    Id,         \* file structures, what the daemon knows a file by
    User,       \* user processes
    FILSIZE     \* entries of file_tab

NoId == 0       \* fid_null

f_rdnode == 0
f_wrtnode == 1
Node == 0 .. 2  \* index into f_netnode: read, write, ICP

(* f_netnode[i] and the n_ncpiu and n_usriu bits of the socket it points   *)
(* to.  "err" is the error status that wf_ready() stores in f_rdnode.      *)
NodeRec == [st : {"none", "skt", "err"}, ncpiu : BOOLEAN, usriu : BOOLEAN,
            host : Int]

NoNode == [st |-> "none", ncpiu |-> FALSE, usriu |-> FALSE, host |-> 0]

(* cnt: f_count, tab: in file_tab, ferr and fopen: FERR and FOPEN          *)
FreeFile == [cnt |-> 0, tab |-> FALSE, ferr |-> FALSE, fopen |-> FALSE,
             node |-> [i \in Node |-> NoNode]]

(* idle, wait (asleep in netopen() on the file) or open                    *)
IdleUser == [st |-> "idle", id |-> NoId, woken |-> FALSE]

infiletab(w, id) == id # NoId /\ w.kf[id].tab

-----------------------------------------------------------------------------
(* nopcls.c *)

(* daecls(): tell the daemon that socket i of the file is closed.          *)
daecls(w, id, i) ==
    [w EXCEPT !.ncprq = Append(@, [op |-> "close", id |-> id, i |-> i])]

(* daedes(): the socket is gone.                                           *)
daedes(w, id, i) == [w EXCEPT !.kf[id].node[i] = NoNode]

(* net_frlse(): one reference less; the last one takes the file out of     *)
(* file_tab and clears its flags.                                          *)
net_frlse(w, id) ==
    IF w.kf[id].cnt = 1
    THEN [w EXCEPT !.kf[id] = [@ EXCEPT !.cnt = 0, !.tab = FALSE,
                                        !.ferr = FALSE, !.fopen = FALSE]]
    ELSE [w EXCEPT !.kf[id].cnt = @ - 1]

(* netopen() up to its sleep: a file structure from falloc(), which is any *)
(* one with a zero count, an entry of file_tab, and the instruction.       *)
netopen(w, u, id, o) ==
    [w EXCEPT !.kf[id] = [FreeFile EXCEPT !.cnt = 1, !.tab = TRUE],
              !.ncprq = Append(@, [op |-> "open", id |-> id, o |-> o]),
              !.usr[u] = [st |-> "wait", id |-> id, woken |-> FALSE]]

(* netopen() after a wakeup.                                               *)
NetopenWoken(w, u) ==
    LET id == w.usr[u].id IN
    IF w.kf[id].ferr THEN [w EXCEPT !.usr[u] = IdleUser]
    ELSE IF ~w.kf[id].fopen THEN [w EXCEPT !.usr[u].woken = FALSE]
    ELSE [w EXCEPT
            !.kf[id].cnt = @ + 1,
            !.kf[id].node = [i \in Node |->
                IF i \in {f_rdnode, f_wrtnode} /\ @[i].st = "skt"
                THEN [@[i] EXCEPT !.usriu = TRUE] ELSE @[i]],
            !.usr[u] = [st |-> "open", id |-> id, woken |-> FALSE]]

(* netclose(): the loop over the sockets, for the last user of the file.   *)
CloseNode(w, id, i) ==
    IF w.kf[id].node[i].st # "skt" THEN w
    ELSE daedes(IF w.kf[id].node[i].ncpiu THEN daecls(w, id, i) ELSE w, id, i)

netclose(w, u) ==
    LET id == w.usr[u].id
        w1 == [w EXCEPT !.usr[u] = IdleUser]
    IN  net_frlse(IF w.kf[id].cnt <= 2
                  THEN CloseNode(CloseNode(CloseNode(w1, id, 0), id, 1), id, 2)
                  ELSE w1, id)

-----------------------------------------------------------------------------
(* ncpio.c.  Instructions that want the id are refused, and the daemon     *)
(* ignores that, when the file is not in file_tab.                         *)

iclean(w, id, i) ==
    IF ~infiletab(w, id) \/ w.kf[id].node[i].st = "none" THEN w
    ELSE IF w.kf[id].node[i].st = "err" THEN [w EXCEPT !.wild = TRUE]
    ELSE IF w.kf[id].node[i].usriu
         THEN [daecls(w, id, i) EXCEPT
                 !.kf[id] = [@ EXCEPT !.ferr = TRUE, !.node[i].ncpiu = FALSE,
                                      !.node[i].host = 0]]
         ELSE daedes(daecls(w, id, i), id, i)

(* wf_setup(): a new socket, owned by the daemon until the file is open.   *)
wf_setup(w, id, i, h) ==
    IF ~infiletab(w, id) THEN w
    ELSE [w EXCEPT !.kf[id].node[i] =
            [st |-> "skt", ncpiu |-> TRUE, usriu |-> FALSE, host |-> h]]

(* wf_mod(): only the host is of interest here.                            *)
wf_mod(w, id, i, h) ==
    IF ~infiletab(w, id) \/ w.kf[id].node[i].st = "none" THEN w
    ELSE IF w.kf[id].node[i].st = "err" THEN [w EXCEPT !.wild = TRUE]
    ELSE [w EXCEPT !.kf[id].node[i].host = h]

(* wakeup(fp) *)
Wake(w, id) ==
    [w EXCEPT !.usr = [u \in User |->
        IF @[u].st = "wait" /\ @[u].id = id THEN [@[u] EXCEPT !.woken = TRUE]
                                            ELSE @[u]]]

(* wf_ready(): note the outcome of the open and wake the user.  An error   *)
(* status goes where the read socket would be, unless there is one.        *)
wf_ready(w, id, err) ==
    IF ~infiletab(w, id) THEN w
    ELSE IF ~err THEN Wake([w EXCEPT !.kf[id].fopen = TRUE], id)
    ELSE Wake([w EXCEPT !.kf[id].ferr = TRUE,
                        !.kf[id].node[f_rdnode] =
                            IF @.st = "none" THEN [@ EXCEPT !.st = "err"] ELSE @], id)

wf_frlse(w, id) == IF infiletab(w, id) THEN net_frlse(w, id) ELSE w

(* wf_reset(): clean the sockets of the host, in files without an error.   *)
ResetFile(w, id, h) ==
    LET Hit(i) == w.kf[id].node[i].ncpiu /\ h \in {0, w.kf[id].node[i].host}
        Clean(v, i) == IF Hit(i) THEN iclean([v EXCEPT !.kf[id].ferr = TRUE], id, i)
                                 ELSE v
    IN  IF ~w.kf[id].tab \/ w.kf[id].ferr THEN w
        ELSE Clean(Clean(Clean(w, 0), 1), 2)

=============================================================================
