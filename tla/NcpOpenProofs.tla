----------------------------- MODULE NcpOpenProofs -----------------------------
(***************************************************************************)
(* Theorems on NcpOpen: whatever users, networks and timers do, the daemon *)
(* keeps its tables of sockets and files in order.                         *)
(*                                                                         *)
(* The procedures of the daemon are operators from worlds to worlds, and   *)
(* there is a lemma for each of them, in the order in which they call each *)
(* other: Good(w, z, d) before, Good(v, NoSlot, 0) after.  Between two     *)
(* steps of a procedure one socket z may stand outside the tables, and d   *)
(* be what is still to be given back for it.  Same, Frame and FileFrame    *)
(* say what a procedure leaves alone: all the tables, all but one socket,  *)
(* all but one file.  In the lemmas w is the world before, v and u worlds  *)
(* after it, p and o sockets, f and g files.                               *)
(***************************************************************************)
EXTENDS NcpOpen, SeqSumProofs, FiniteSetTheorems

-----------------------------------------------------------------------------
(* The types of what a world holds *)

(* An entry of the table of sockets.                                       *)
SktT == [st : SktState, lskt : Int, fskt : Int, host : Int, filep : {NoFile} \cup File,
         sinx : Node, timo : BOOLEAN]

(* An entry of the table of files.                                         *)
FileT == [st : FileState, id : {NoId} \cup Id, base : Int, x : [Node -> {NoSlot} \cup Slot],
          nsatt : Int, nsrsrv : Int, timo : BOOLEAN]

(* A network file of the kernel.                                           *)
KfT == [cnt : Int, tab : BOOLEAN, ferr : BOOLEAN, fopen : BOOLEAN, node : [Node -> NodeRec]]

(* A user.                                                                 *)
UsrT == [st : {"idle", "wait", "open"}, id : {NoId} \cup Id, woken : BOOLEAN]

(* An instruction of a user to the daemon.                                 *)
InstrT == [op : {"open"}, id : Id, o : Opens] \cup [op : {"close"}, id : Id, i : Node]

(* A command to a foreign host.                                            *)
Cmd == [op : {"rfc", "cls", "all"}, to : Int, of : Int, lskt : Int, fskt : Int]

(* A world.                                                                *)
W == [skt : [Slot -> SktT], fil : [File -> FileT], nsl : Int, nfl : Int,
      grp : SUBSET Group, host : Int, out : SUBSET Cmd, ssn : SUBSET Slot, died : BOOLEAN,
      kf : [Id -> KfT], ncprq : Seq(InstrT), usr : [User -> UsrT], wild : BOOLEAN]

(* The instructions of users that wait.                                    *)
Asked(q) == {k \in DOMAIN q : q[k].op = "open"}

(* The procedure has touched neither the tables of the daemon nor, in the  *)
(* kernel, who refers to which file.                                       *)
SameRefs(v, w) ==
    /\ \A id \in Id : v.kf[id].cnt = w.kf[id].cnt /\ v.kf[id].tab = w.kf[id].tab
    /\ \A u \in User : v.usr[u].st = w.usr[u].st /\ v.usr[u].id = w.usr[u].id
    /\ Asked(v.ncprq) = Asked(w.ncprq)
    /\ \A k \in Asked(w.ncprq) : v.ncprq[k] = w.ncprq[k]

(* The tables of the daemon are as they were.                              *)
SameTables(v, w) ==
    /\ v.skt = w.skt /\ v.fil = w.fil /\ v.nsl = w.nsl /\ v.nfl = w.nfl
    /\ v.grp = w.grp /\ v.host = w.host /\ v.ssn = w.ssn /\ v.died = w.died

(* The procedure has touched neither.                                      *)
Same(v, w) == v \in W /\ SameTables(v, w) /\ SameRefs(v, w)

(* Two pieces of a procedure that leave the tables alone leave them alone  *)
(* together.                                                               *)
LEMMA SameTrans ==
    ASSUME NEW u, NEW v, NEW w, Same(u, v), Same(v, w)
    PROVE  Same(u, w)
BY DEF Same, SameTables, SameRefs

(* A procedure that does nothing leaves the tables alone.                  *)
LEMMA SameRefl ==
    ASSUME NEW w \in W
    PROVE  Same(w, w)
BY DEF Same, SameTables, SameRefs

(* No socket has the place that means no socket.                           *)
LEMMA NoSlotFact == \A p \in Slot : p # NoSlot
BY DEF Slot, NoSlot

(* The places of a file, one by one.                                       *)
LEMMA NodeFact == Node = {0, 1, 2}
BY DEF Node

(* A place that is not that of the ICP, the other one, and that of the     *)
(* ICP.                                                                    *)
LEMMA OtherFact ==
    ASSUME NEW i \in Node, i # ksx_icp
    PROVE  Other(i) \in Node /\ Node = {Other(i), i, ksx_icp} /\ Node = {i, Other(i), ksx_icp}
           /\ Other(i) # i
BY DEF Other, Node, ksx_icp

-----------------------------------------------------------------------------

(* A kernel file may change in anything but his count and his place in     *)
(* file_tab.                                                               *)
LEMMA SameKf ==
    ASSUME NEW w \in W, NEW id \in Id, NEW k \in KfT,
           k.cnt = w.kf[id].cnt, k.tab = w.kf[id].tab
    PROVE  Same([w EXCEPT !.kf[id] = k], w)
<1>1. [w EXCEPT !.kf[id] = k] \in W
  BY DEF W
<1> QED
  BY <1>1 DEF Same, SameTables, SameRefs, W

(* A node of a kernel file may change.                                     *)
LEMMA SameNode ==
    ASSUME NEW w \in W, NEW id \in Id, NEW i \in Node, NEW n \in NodeRec
    PROVE  Same([w EXCEPT !.kf[id].node[i] = n], w)
<1> DEFINE k == [w.kf[id] EXCEPT !.node[i] = n]
<1>1. w.kf[id] \in KfT
  BY DEF W
<1>2. k \in KfT /\ k.cnt = w.kf[id].cnt /\ k.tab = w.kf[id].tab
  BY <1>1 DEF KfT
<1>3. [w EXCEPT !.kf[id].node[i] = n] = [w EXCEPT !.kf[id] = k]
  BY DEF W
<1> QED
  BY <1>2, <1>3, SameKf

(* daecls() only puts an instruction to close in the queue, which is       *)
(* nobody's reference.                                                     *)
LEMMA SameClose ==
    ASSUME NEW w \in W, NEW id \in Id, NEW i \in Node
    PROVE  Same(daecls(w, id, i), w)
<1> DEFINE e == [op |-> "close", id |-> id, i |-> i]
           q == w.ncprq
<1>1. q \in Seq(InstrT) /\ e \in InstrT /\ e.op # "open"
  BY DEF W, InstrT
<1>2. Append(q, e) \in Seq(InstrT)
  BY <1>1
<1>3. Asked(Append(q, e)) = Asked(q) /\ \A k \in Asked(q) : Append(q, e)[k] = q[k]
  BY <1>1 DEF Asked
<1>4. daecls(w, id, i) = [w EXCEPT !.ncprq = Append(q, e)]
  BY DEF daecls, W
<1> HIDE DEF e, q
<1>5. [w EXCEPT !.ncprq = Append(q, e)] \in W
  BY <1>2 DEF W
<1> QED
  BY <1>3, <1>4, <1>5 DEF Same, SameTables, SameRefs, W, q

(* What is known of a file of the kernel.                                  *)
LEMMA KernelTypes ==
    ASSUME NEW w \in W, NEW id \in Id
    PROVE  /\ w.kf[id] \in KfT
           /\ w.kf[id].node \in [Node -> NodeRec]
           /\ \A i \in Node : w.kf[id].node[i] \in NodeRec
BY DEF W, KfT

(* The note that a null pointer was followed touches no table.             *)
LEMMA SameWild ==
    ASSUME NEW w \in W
    PROVE  Same([w EXCEPT !.wild = TRUE], w)
BY DEF W, Same, SameTables, SameRefs

(* iclean() clears a node and wakes whoever sleeps on it; the tables stay. *)
LEMMA SameIclean ==
    ASSUME NEW w \in W, NEW id \in {NoId} \cup Id, NEW i \in Node
    PROVE  Same(iclean(w, id, i), w)
<1>1. CASE ~infiletab(w, id) \/ w.kf[id].node[i].st = "none"
  BY <1>1, SameRefl DEF iclean
<1>2. CASE ~(~infiletab(w, id) \/ w.kf[id].node[i].st = "none") /\ w.kf[id].node[i].st = "err"
  BY <1>2, SameWild DEF iclean
<1>3. CASE ~(~infiletab(w, id) \/ w.kf[id].node[i].st = "none") /\ w.kf[id].node[i].st # "err"
  <2>1. id \in Id
    BY <1>3 DEF infiletab
  <2> DEFINE v == daecls(w, id, i)
  <2>2. Same(v, w) /\ v \in W
    BY <2>1, SameClose DEF Same
  <2>3. w.kf[id].node[i] \in NodeRec /\ v.kf[id] \in KfT
    BY <2>1, <2>2, KernelTypes
  <2> HIDE DEF v
  <2> DEFINE k == [v.kf[id] EXCEPT !.ferr = TRUE, !.node[i].ncpiu = FALSE, !.node[i].host = 0]
  <2>4. k \in KfT /\ k.cnt = v.kf[id].cnt /\ k.tab = v.kf[id].tab
    <3> DEFINE n == [v.kf[id].node[i] EXCEPT !.ncpiu = FALSE, !.host = 0]
               x == [v.kf[id].node EXCEPT ![i] = n]
    <3>1. v.kf[id].node \in [Node -> NodeRec]
      BY <2>3 DEF KfT
    <3>2. n \in NodeRec
      <4>1. v.kf[id].node[i] \in NodeRec
        BY <3>1
      <4>2. \A r \in NodeRec : [r EXCEPT !.ncpiu = FALSE] \in NodeRec
        BY DEF NodeRec
      <4>3. \A r \in NodeRec : [r EXCEPT !.host = 0] \in NodeRec
        BY DEF NodeRec
      <4>4. n = [[v.kf[id].node[i] EXCEPT !.ncpiu = FALSE] EXCEPT !.host = 0]
        OBVIOUS
      <4> HIDE DEF n
      <4> QED
        BY <4>1, <4>2, <4>3, <4>4, ZenonT(60)
    <3>3. x \in [Node -> NodeRec]
      BY <3>1, <3>2
    <3>4. k = [v.kf[id] EXCEPT !.ferr = TRUE, !.node = x]
      BY <2>3, <3>1 DEF KfT
    <3> HIDE DEF x, k
    <3> QED
      BY <2>3, <3>3, <3>4 DEF KfT
  <2>5. Same([v EXCEPT !.kf[id] = k], v)
    <3> HIDE DEF k
    <3> QED
      BY <2>1, <2>2, <2>4, SameKf
  <2>6. [v EXCEPT !.kf[id] = [@ EXCEPT !.ferr = TRUE, !.node[i].ncpiu = FALSE,
                                       !.node[i].host = 0]] = [v EXCEPT !.kf[id] = k]
    BY <2>1, <2>2 DEF W
  <2>7. NoNode \in NodeRec
    BY DEF NoNode, NodeRec
  <2>8. Same([v EXCEPT !.kf[id].node[i] = NoNode], v)
    BY <2>1, <2>2, <2>7, SameNode, ZenonT(60)
  <2>9. iclean(w, id, i) = [v EXCEPT !.kf[id] = k]
        \/ iclean(w, id, i) = [v EXCEPT !.kf[id].node[i] = NoNode]
    BY <1>3, <2>6, ZenonT(60) DEF iclean, daedes, v
  <2> HIDE DEF k
  <2> QED
    BY <2>2, <2>5, <2>8, <2>9, SameTrans
<1> QED
  BY <1>1, <1>2, <1>3

(* wf_setup() sets up a node of a kernel file; the tables stay.            *)
LEMMA SameSetup ==
    ASSUME NEW w \in W, NEW id \in {NoId} \cup Id, NEW i \in Node, NEW h \in Int
    PROVE  Same(wf_setup(w, id, i, h), w)
<1>1. CASE ~infiletab(w, id)
  BY <1>1, SameRefl DEF wf_setup
<1>2. CASE infiletab(w, id)
  <2>1. id \in Id
    BY <1>2 DEF infiletab
  <2>2. [st |-> "skt", ncpiu |-> TRUE, usriu |-> FALSE, host |-> h] \in NodeRec
    BY DEF NodeRec
  <2> QED
    BY <1>2, <2>1, <2>2, SameNode DEF wf_setup
<1> QED
  BY <1>1, <1>2

(* wf_mod() changes a node of a kernel file; the tables stay.              *)
LEMMA SameMod ==
    ASSUME NEW w \in W, NEW id \in {NoId} \cup Id, NEW i \in Node, NEW h \in Int
    PROVE  Same(wf_mod(w, id, i, h), w)
<1>1. CASE ~infiletab(w, id) \/ w.kf[id].node[i].st = "none"
  BY <1>1, SameRefl DEF wf_mod
<1>2. CASE ~(~infiletab(w, id) \/ w.kf[id].node[i].st = "none") /\ w.kf[id].node[i].st = "err"
  BY <1>2, SameWild, ZenonT(60) DEF wf_mod
<1>3. CASE ~(~infiletab(w, id) \/ w.kf[id].node[i].st = "none") /\ w.kf[id].node[i].st # "err"
  <2>1. id \in Id
    BY <1>3 DEF infiletab
  <2> DEFINE n == [w.kf[id].node[i] EXCEPT !.host = h]
  <2>2. n \in NodeRec
    BY <2>1, KernelTypes DEF NodeRec
  <2>3. [w EXCEPT !.kf[id].node[i].host = h] = [w EXCEPT !.kf[id].node[i] = n]
    BY <2>1, KernelTypes DEF W
  <2> HIDE DEF n
  <2> QED
    BY <1>3, <2>1, <2>2, <2>3, SameNode DEF wf_mod
<1> QED
  BY <1>1, <1>2, <1>3

(* Waking the users of a file changes nothing of what they refer to.       *)
LEMMA SameWake ==
    ASSUME NEW w \in W, NEW id \in Id
    PROVE  Same(Wake(w, id), w)
<1> DEFINE x == [u \in User |-> IF w.usr[u].st = "wait" /\ w.usr[u].id = id
                                THEN [w.usr[u] EXCEPT !.woken = TRUE] ELSE w.usr[u]]
<1>1. x \in [User -> UsrT] /\ \A u \in User : x[u].st = w.usr[u].st /\ x[u].id = w.usr[u].id
  <2>1. \A u \in User : w.usr[u] \in UsrT
    BY DEF W
  <2>2. ASSUME NEW u \in User
        PROVE  x[u] \in UsrT /\ x[u].st = w.usr[u].st /\ x[u].id = w.usr[u].id
    <3>1. w.usr[u] \in UsrT
      BY <2>1
    <3>2. [w.usr[u] EXCEPT !.woken = TRUE] \in UsrT
          /\ [w.usr[u] EXCEPT !.woken = TRUE].st = w.usr[u].st
          /\ [w.usr[u] EXCEPT !.woken = TRUE].id = w.usr[u].id
      BY <3>1 DEF UsrT
    <3>3. x[u] = [w.usr[u] EXCEPT !.woken = TRUE] \/ x[u] = w.usr[u]
      OBVIOUS
    <3> HIDE DEF x
    <3> QED
      BY <3>1, <3>2, <3>3
  <2> QED
    BY <2>2
<1>2. Wake(w, id) = [w EXCEPT !.usr = x]
  BY DEF Wake, W
<1> HIDE DEF x
<1>3. [w EXCEPT !.usr = x] \in W
  BY <1>1 DEF W
<1> QED
  BY <1>1, <1>2, <1>3, ZenonT(60) DEF Same, SameTables, SameRefs, W

(* wf_ready() answers the open of a user; references stay as they were.    *)
LEMMA SameReady ==
    ASSUME NEW w \in W, NEW id \in {NoId} \cup Id, NEW err \in BOOLEAN
    PROVE  Same(wf_ready(w, id, err), w)
<1>1. CASE ~infiletab(w, id)
  BY <1>1, SameRefl DEF wf_ready
<1>2. CASE infiletab(w, id)
  <2>1. id \in Id /\ w.kf[id] \in KfT
    BY <1>2, KernelTypes DEF infiletab
  <2> DEFINE a == [w.kf[id] EXCEPT !.fopen = TRUE]
             b == [w.kf[id] EXCEPT !.ferr = TRUE,
                     !.node[f_rdnode] = IF @.st = "none" THEN [@ EXCEPT !.st = "err"] ELSE @]
  <2>2. a \in KfT /\ a.cnt = w.kf[id].cnt /\ a.tab = w.kf[id].tab
    BY <2>1 DEF KfT
  <2>3. b \in KfT /\ b.cnt = w.kf[id].cnt /\ b.tab = w.kf[id].tab
    <3> DEFINE k == w.kf[id]
               n == IF k.node[f_rdnode].st = "none"
                    THEN [k.node[f_rdnode] EXCEPT !.st = "err"] ELSE k.node[f_rdnode]
               x == [k.node EXCEPT ![f_rdnode] = n]
               b1 == [k EXCEPT !.ferr = TRUE]
               b2 == [b1 EXCEPT !.node = x]
    <3>1. k \in KfT /\ k.node \in [Node -> NodeRec] /\ f_rdnode \in Node
      BY <2>1, KernelTypes DEF Node, f_rdnode
    <3>2. k.node[f_rdnode] \in NodeRec
      BY <3>1
    <3>3. \A r \in NodeRec : [r EXCEPT !.st = "err"] \in NodeRec
      BY DEF NodeRec
    <3>4. n \in NodeRec
      <4> HIDE DEF k
      <4> QED
        BY <3>2, <3>3
    <3>5. b = b2
      <4>1. b1.node = k.node
        BY <3>1 DEF KfT
      <4> QED
        BY <3>1, <4>1 DEF KfT
    <3> HIDE DEF k, n
    <3>6. x \in [Node -> NodeRec]
      BY <3>1, <3>4
    <3> HIDE DEF x
    <3>7. b1 \in KfT /\ b1.cnt = k.cnt /\ b1.tab = k.tab
      BY <3>1 DEF KfT
    <3> HIDE DEF b1
    <3>8. b2 \in KfT /\ b2.cnt = k.cnt /\ b2.tab = k.tab
      BY <3>6, <3>7 DEF KfT
    <3> HIDE DEF b, b2
    <3> QED
      BY <3>5, <3>8 DEF k
  <2>4. [w EXCEPT !.kf[id].fopen = TRUE] = [w EXCEPT !.kf[id] = a]
    BY <2>1 DEF W
  <2>5. [w EXCEPT !.kf[id].ferr = TRUE,
                  !.kf[id].node[f_rdnode] =
                            IF @.st = "none" THEN [@ EXCEPT !.st = "err"] ELSE @]
        = [w EXCEPT !.kf[id] = b]
    <3> DEFINE v == [w EXCEPT !.kf[id].ferr = TRUE]
               n == IF w.kf[id].node[f_rdnode].st = "none"
                    THEN [w.kf[id].node[f_rdnode] EXCEPT !.st = "err"]
                    ELSE w.kf[id].node[f_rdnode]
    <3>1. f_rdnode \in Node
      BY DEF f_rdnode, Node
    <3>2. w.kf[id] \in KfT /\ w.kf[id].node \in [Node -> NodeRec]
      BY <2>1 DEF KfT
    <3>3. v.kf[id].node = w.kf[id].node
      BY <2>1, <3>2 DEF W, KfT
    <3>4. b = [w.kf[id] EXCEPT !.ferr = TRUE, !.node[f_rdnode] = n]
      BY <3>1, <3>2 DEF KfT
    <3>5. [w EXCEPT !.kf[id].ferr = TRUE,
                    !.kf[id].node[f_rdnode] =
                            IF @.st = "none" THEN [@ EXCEPT !.st = "err"] ELSE @]
          = [v EXCEPT !.kf[id].node[f_rdnode] = n]
      BY <2>1, <3>1, <3>3 DEF W
    <3> HIDE DEF n
    <3>6. [v EXCEPT !.kf[id].node[f_rdnode] = n]
          = [w EXCEPT !.kf[id] = [w.kf[id] EXCEPT !.ferr = TRUE, !.node[f_rdnode] = n]]
      BY <2>1, <3>1, <3>2, ZenonT(60) DEF W, KfT
    <3> QED
      BY <3>4, <3>5, <3>6
  <2>6. wf_ready(w, id, err) = Wake([w EXCEPT !.kf[id] = a], id)
        \/ wf_ready(w, id, err) = Wake([w EXCEPT !.kf[id] = b], id)
    BY <1>2, <2>4, <2>5 DEF wf_ready
  <2> HIDE DEF a, b
  <2>7. Same([w EXCEPT !.kf[id] = a], w) /\ Same([w EXCEPT !.kf[id] = b], w)
    BY <2>1, <2>2, <2>3, SameKf
  <2>8. [w EXCEPT !.kf[id] = a] \in W /\ [w EXCEPT !.kf[id] = b] \in W
    BY <2>7 DEF Same
  <2>9. Same(Wake([w EXCEPT !.kf[id] = a], id), [w EXCEPT !.kf[id] = a])
        /\ Same(Wake([w EXCEPT !.kf[id] = b], id), [w EXCEPT !.kf[id] = b])
    BY <2>1, <2>8, SameWake
  <2> QED
    BY <2>6, <2>7, <2>9, SameTrans
<1> QED
  BY <1>1, <1>2

(* hw() sends a command to a foreign host; the tables stay.                *)
LEMMA SameHw ==
    ASSUME NEW w \in W, NEW op \in {"rfc", "cls", "all"}, NEW p \in Slot
    PROVE  Same(hw(w, op, p), w)
<1> DEFINE c == [op |-> op, to |-> w.host, of |-> w.skt[p].host,
                 lskt |-> w.skt[p].lskt, fskt |-> w.skt[p].fskt]
<1>1. c \in Cmd
  BY DEF W, SktT, Cmd
<1>2. hw(w, op, p) = [w EXCEPT !.out = w.out \cup {c}]
  BY DEF hw, W
<1> HIDE DEF c
<1>3. [w EXCEPT !.out = w.out \cup {c}] \in W
  BY <1>1 DEF W
<1> QED
  BY <1>2, <1>3 DEF Same, SameTables, SameRefs, W

-----------------------------------------------------------------------------
(* A socket that waits for an RFC, and a file whose ICP goes on.           *)
(* The states of a socket that waits for a request for connection.         *)
Fresh == {"glsn", "slsn", "rfcw"}
(* The states of a file before the ICP has a socket number for the data.   *)
Early == {"uiopw", "uisnw", "siopw", "sialw", "sirfw"}

(* What a place of a file adds to f_nsatt.                                 *)
In(p) == IF p = NoSlot THEN 0 ELSE 1

(* A socket is free, or holds a request that nobody listens for, or is in  *)
(* the list of its file at its place.                                      *)
SktOK(skts, fils, p) ==
    \/ skts[p].st \in {"null", "q"} /\ skts[p].filep = NoFile
    \/ /\ skts[p].st \in Attachable /\ skts[p].filep \in File
       /\ fils[skts[p].filep].x[skts[p].sinx] = p

(* What stands in the list of a file is a socket of this file and place.   *)
(* It waits for a request only while the file waits for such sockets, and  *)
(* a receive socket has an even number.                                    *)
EntryOK(skts, fils, f, i, z) ==
    LET p == fils[f].x[i] IN
    /\ p # z
    /\ skts[p].st \in Attachable /\ skts[p].filep = f /\ skts[p].sinx = i
    /\ skts[p].st \in Fresh =>
            fils[f].st \in (IF i = ksx_icp THEN {"uiopw", "siopw"} ELSE {"dopnw"})
    /\ i = ksx_rcv => ~Odd(skts[p].lskt)

(* The counts of a file.  A free one reserves nothing and knows no file of *)
(* the kernel; one in its ICP has no data sockets yet and keeps two places *)
(* for them; a server's has an even base.                                  *)
FileOK(fils, f) ==
    LET F == fils[f] IN
    /\ F.nsatt = In(F.x[0]) + In(F.x[1]) + In(F.x[2])
    /\ F.nsatt <= F.nsrsrv
    /\ F.st = "null" => F.nsrsrv = 0 /\ F.id = NoId
    /\ F.st \in Early => F.x[0] = NoSlot /\ F.x[1] = NoSlot /\ F.nsatt + 2 <= F.nsrsrv
    /\ F.st \in {"siopw", "sialw", "sirfw"} => ~Odd(F.base)

(* The sockets, but z, and the files agree with each other.                *)
Tab(skts, fils, z) ==
    /\ \A p \in Slot \ {z} : SktOK(skts, fils, p)
    /\ \A f \in File : FileOK(fils, f)
    /\ \A f \in File : \A i \in Node : fils[f].x[i] # NoSlot => EntryOK(skts, fils, f, i, z)

(* The sockets that hold unclaimed requests; the free files; what the      *)
(* files reserve.                                                          *)
Queue(skts, z) == {p \in Slot \ {z} : skts[p].st = "q"}
Frees(fils) == {f \in File : fils[f].st = "null"}
Rsrv(fils) == [f \in File |-> fils[f].nsrsrv]

(* The counters n_s_left and n_f_left, when d is to be given back for z.   *)
Acc(skts, fils, ns, nf, z, d) ==
    /\ ns + d = NSkt - SeqSum(Rsrv(fils)) - Cardinality(Queue(skts, z))
    /\ nf = Cardinality(Frees(fils))

(* Who refers to a file of the kernel: the daemon, that has it in its      *)
(* table or will read the instruction to open it, and the users.           *)
Holders(us, id) == {u \in User : us[u].st = "open" /\ us[u].id = id}

(* The daemon refers to the file of the kernel.                            *)
Known(fils, q, id) ==
    \/ \E f \in File : fils[f].st # "null" /\ fils[f].id = id
    \/ \E k \in Asked(q) : q[k].id = id

(* A file that the daemon knows is in file_tab and counted for him; he     *)
(* knows it once.                                                          *)
Refs(fils, k, q, us) ==
    /\ \A id \in Id :
        /\ Cardinality(Holders(us, id)) <= k[id].cnt
        /\ Known(fils, q, id) => k[id].tab /\ Cardinality(Holders(us, id)) + 1 <= k[id].cnt
    /\ \A f \in File : \A g \in File :
            fils[f].st # "null" /\ fils[g].st # "null" /\ fils[f].id = fils[g].id
            /\ fils[f].id # NoId => f = g
    /\ \A i \in Asked(q) : \A j \in Asked(q) : q[i].id = q[j].id => i = j
    /\ \A f \in File : \A i \in Asked(q) : fils[f].st # "null" => fils[f].id # q[i].id
    /\ \A u \in User : us[u].st # "idle" => us[u].id \in Id

(* No direct open leaves it to the daemon to choose a socket number.       *)
SocketsNamed ==
    \A o \in Opens : o.type = "drct" => ~(o.lskt = 0 /\ o.op = "init")

(* A group of numbers that is taken is the base of a file.                 *)
Owned(free, fils) ==
    \A g \in Group \ free : \E f \in File : fils[f].st # "null" /\ fils[f].base = g

(* All tables are in order, but for z and d.                               *)
Good(w, z, d) ==
    /\ w \in W /\ d \in {0, 1}
    /\ Tab(w.skt, w.fil, z)
    /\ Acc(w.skt, w.fil, w.nsl, w.nfl, z, d)
    /\ \A p \in w.ssn : w.skt[p].st # "q"
    /\ ~w.died
    /\ Refs(w.fil, w.kf, w.ncprq, w.usr)
    /\ SocketsNamed => Owned(w.grp, w.fil)

(* All that a procedure has changed in the tables is the socket p.         *)
Frame(v, w, p) ==
    /\ v.fil = w.fil /\ v.nsl = w.nsl /\ v.nfl = w.nfl
    /\ v.grp = w.grp /\ v.host = w.host /\ v.ssn = w.ssn /\ v.died = w.died
    /\ SameRefs(v, w)
    /\ \A o \in Slot \ {p} : v.skt[o] = w.skt[o]
    /\ v.skt[p].filep = w.skt[p].filep /\ v.skt[p].sinx = w.skt[p].sinx

(* What two procedures do to one socket is done to one socket.             *)
LEMMA FrameTrans ==
    ASSUME NEW u, NEW v, NEW w, NEW p, Frame(u, v, p), Frame(v, w, p)
    PROVE  Frame(u, w, p)
BY DEF Frame, SameRefs

(* A procedure that leaves the tables alone leaves the socket alone.       *)
LEMMA FrameSame ==
    ASSUME NEW v, NEW w, NEW p, Same(v, w)
    PROVE  Frame(v, w, p) /\ v.skt[p] = w.skt[p]
BY DEF Frame, Same, SameTables, SameRefs

(* References stay in order when neither the files nor the references      *)
(* change.                                                                 *)
LEMMA RefsSame ==
    ASSUME NEW v, NEW w, v.fil = w.fil, SameRefs(v, w), Refs(w.fil, w.kf, w.ncprq, w.usr)
    PROVE  Refs(v.fil, v.kf, v.ncprq, v.usr)
<1>1. \A id \in Id : Holders(v.usr, id) = Holders(w.usr, id)
                   /\ (Known(v.fil, v.ncprq, id) <=> Known(w.fil, w.ncprq, id))
  BY DEF SameRefs, Holders, Known
<1> QED
  BY <1>1 DEF Refs, SameRefs

(* A procedure that leaves the tables alone keeps them good.               *)
LEMMA GoodSame ==
    ASSUME NEW v, NEW w, NEW z, NEW d, Good(w, z, d), Same(v, w)
    PROVE  Good(v, z, d)
BY RefsSame DEF Good, Same, SameTables

(* The types of what a good world holds.                                   *)
LEMMA GoodTypes ==
    ASSUME NEW z, NEW d, NEW w, Good(w, z, d)
    PROVE  /\ w \in W
           /\ w.skt \in [Slot -> SktT] /\ w.fil \in [File -> FileT]
           /\ w.nsl \in Int /\ w.nfl \in Int /\ w.host \in Int /\ w.grp \in SUBSET Group
           /\ w.ssn \in SUBSET Slot
           /\ \A p \in Slot : w.skt[p] \in SktT
           /\ \A f \in File : w.fil[f] \in FileT
BY DEF Good, W

(* What a socket may become while it stays with its file.                  *)
LEMMA TabSkt ==
    ASSUME NEW skts \in [Slot -> SktT], NEW fils \in [File -> FileT], NEW z,
           Tab(skts, fils, z),
           NEW p \in Slot, p # z, NEW s \in SktT,
           s.filep = skts[p].filep, s.sinx = skts[p].sinx,
           Odd(s.lskt) => Odd(skts[p].lskt),
           \/ s.st = skts[p].st
           \/ skts[p].st \in Attachable /\ s.st \in Attachable \ Fresh
    PROVE  /\ Tab([skts EXCEPT ![p] = s], fils, z)
           /\ Queue([skts EXCEPT ![p] = s], z) = Queue(skts, z)
<1> DEFINE new == [skts EXCEPT ![p] = s]
<1>1. new[p] = s /\ \A o \in Slot \ {p} : new[o] = skts[o]
  OBVIOUS
<1> HIDE DEF new
<1>2. ASSUME NEW o \in Slot \ {z}
      PROVE  SktOK(new, fils, o)
  <2>1. SktOK(skts, fils, o)
    BY DEF Tab
  <2>2. CASE o # p
    BY <1>1, <2>1, <2>2 DEF SktOK
  <2>3. CASE o = p
    <3>1. \/ s.st = skts[p].st
          \/ skts[p].st \notin {"null", "q"} /\ s.st \in Attachable
      BY DEF Attachable
    <3> QED
      BY <1>1, <2>1, <2>3, <3>1 DEF SktOK
  <2> QED
    BY <2>2, <2>3
<1>3. ASSUME NEW f \in File, NEW i \in Node, fils[f].x[i] # NoSlot
      PROVE  EntryOK(new, fils, f, i, z)
  <2>1. EntryOK(skts, fils, f, i, z)
    BY <1>3 DEF Tab
  <2>2. fils[f].x[i] \in Slot
    BY <1>3 DEF FileT
  <2>3. CASE fils[f].x[i] # p
    BY <1>1, <2>1, <2>2, <2>3 DEF EntryOK
  <2>4. CASE fils[f].x[i] = p
    BY <1>1, <2>1, <2>4 DEF EntryOK
  <2> QED
    BY <2>3, <2>4
<1>4. Tab(new, fils, z)
  BY <1>2, <1>3 DEF Tab
<1>5. s.st = "q" <=> skts[p].st = "q"
  BY DEF Attachable
<1>6. Queue(new, z) = Queue(skts, z)
  BY <1>1, <1>5 DEF Queue
<1> QED
  BY <1>4, <1>6 DEF new

(* A socket that stays with his file may move between the states of an     *)
(* attached socket, never back to one that waits for an RFC.               *)
LEMMA GoodMove ==
    ASSUME NEW w, NEW z, NEW d, Good(w, z, d),
           NEW p \in Slot, p # z, NEW s \in SktT,
           s.filep = w.skt[p].filep, s.sinx = w.skt[p].sinx,
           Odd(s.lskt) => Odd(w.skt[p].lskt),
           \/ s.st = w.skt[p].st
           \/ w.skt[p].st \in Attachable /\ s.st \in Attachable \ Fresh
    PROVE  LET v == [w EXCEPT !.skt[p] = s] IN
           Good(v, z, d) /\ Frame(v, w, p) /\ v.skt[p] = s
<1> DEFINE v == [w EXCEPT !.skt[p] = s]
           new == [w.skt EXCEPT ![p] = s]
<1>1. w \in W /\ w.skt \in [Slot -> SktT] /\ w.fil \in [File -> FileT] /\ w.ssn \in SUBSET Slot
  BY GoodTypes
<1>2. new \in [Slot -> SktT] /\ new[p] = s /\ \A o \in Slot \ {p} : new[o] = w.skt[o]
  BY <1>1
<1>3. Tab(new, w.fil, z) /\ Queue(new, z) = Queue(w.skt, z)
  <2>1. Tab(w.skt, w.fil, z)
    BY DEF Good
  <2> QED
    BY <1>1, <2>1, TabSkt
<1>4. v = [w EXCEPT !.skt = new]
  BY <1>1 DEF W
<1>5. s.st = "q" => w.skt[p].st = "q"
  BY DEF Attachable
<1> HIDE DEF new, v
<1>6. v \in W /\ v.skt = new /\ v.fil = w.fil /\ v.nsl = w.nsl /\ v.nfl = w.nfl
      /\ v.grp = w.grp /\ v.host = w.host /\ v.ssn = w.ssn /\ v.died = w.died
      /\ v.kf = w.kf /\ v.usr = w.usr /\ v.ncprq = w.ncprq
  BY <1>1, <1>2, <1>4 DEF W
<1>7. Acc(v.skt, v.fil, v.nsl, v.nfl, z, d)
  BY <1>3, <1>6 DEF Good, Acc
<1>8. \A o \in v.ssn : v.skt[o].st # "q"
  BY <1>1, <1>2, <1>5, <1>6 DEF Good
<1>9. Frame(v, w, p)
  BY <1>2, <1>6 DEF Frame, SameRefs
<1>10. Good(v, z, d)
  <2>1. Refs(v.fil, v.kf, v.ncprq, v.usr)
    BY <1>9, RefsSame DEF Frame, Good
  <2> QED
    BY <1>3, <1>6, <1>7, <1>8, <2>1 DEF Good
<1> QED
  BY <1>2, <1>6, <1>9, <1>10 DEF v

(* What a procedure does that moves the socket p to the state st, or does  *)
(* not move it.                                                            *)
Goes(v, w, p, st, z, d) == Good(v, z, d) /\ Frame(v, w, p) /\ v.skt[p].st = st

(* Moves of one socket, one after the other.                               *)
LEMMA GoesTrans ==
    ASSUME NEW u, NEW v, NEW w, NEW p, NEW s, NEW t, NEW z, NEW d,
           Goes(u, v, p, s, z, d), Goes(v, w, p, t, z, d)
    PROVE  Goes(u, w, p, s, z, d)
BY FrameTrans DEF Goes

(* Doing nothing is a move to the state the socket is in.                  *)
LEMMA GoesRefl ==
    ASSUME NEW w, NEW p, NEW z, NEW d, Good(w, z, d)
    PROVE  Goes(w, w, p, w.skt[p].st, z, d)
BY DEF Goes, Frame, SameRefs

(* A procedure that leaves the tables alone moves no socket.               *)
LEMMA GoesSame ==
    ASSUME NEW v, NEW w, NEW p, NEW z, NEW d, Good(w, z, d), Same(v, w)
    PROVE  Goes(v, w, p, w.skt[p].st, z, d)
<1>1. Good(v, z, d)
  BY GoodSame
<1>2. Frame(v, w, p) /\ v.skt[p] = w.skt[p]
  BY FrameSame, SMTT(60)
<1> QED
  BY <1>1, <1>2 DEF Goes

(* A socket of a file, and its file.                                       *)
LEMMA FileOfIt ==
    ASSUME NEW w, NEW z, NEW d, Good(w, z, d), NEW p \in Slot, p # z,
           w.skt[p].st \in Attachable
    PROVE  /\ w.skt[p].filep \in File /\ w.skt[p].sinx \in Node
           /\ w.skt[p].host \in Int /\ w.skt[p].lskt \in Int /\ w.skt[p].fskt \in Int
           /\ w.fil[w.skt[p].filep].x[w.skt[p].sinx] = p
           /\ w.fil[w.skt[p].filep].id \in {NoId} \cup Id
           /\ w.fil[w.skt[p].filep].st # "null"
           /\ EntryOK(w.skt, w.fil, w.skt[p].filep, w.skt[p].sinx, z)
           /\ FileOK(w.fil, w.skt[p].filep)
<1> DEFINE f == w.skt[p].filep
           i == w.skt[p].sinx
<1>1. w.skt[p] \in SktT
  BY GoodTypes
<1>2. SktOK(w.skt, w.fil, p)
  BY SMTT(60) DEF Good, Tab
<1>3. f \in File /\ i \in Node /\ w.fil[f].x[i] = p
  BY <1>1, <1>2 DEF SktOK, SktT, Attachable
<1>4. w.fil[f] \in FileT
  BY <1>3, GoodTypes
<1>5. p # NoSlot
  BY DEF Slot, NoSlot
<1>6. EntryOK(w.skt, w.fil, f, i, z) /\ FileOK(w.fil, f)
  BY <1>3, <1>5, ZenonT(60) DEF Good, Tab
<1>7. w.fil[f].st # "null"
  <2> SUFFICES ASSUME w.fil[f].st = "null" PROVE FALSE
    OBVIOUS
  <2> DEFINE F == w.fil[f]
  <2>1. F.nsrsrv = 0 /\ F.nsatt <= F.nsrsrv /\ F.nsatt = In(F.x[0]) + In(F.x[1]) + In(F.x[2])
    BY <1>6, ZenonT(60) DEF FileOK
  <2>2. \A j \in {0, 1, 2} : F.x[j] = NoSlot
    <3>1. \A j \in {0, 1, 2} : In(F.x[j]) \in {0, 1}
      BY DEF In
    <3>2. In(F.x[0]) = 0 /\ In(F.x[1]) = 0 /\ In(F.x[2]) = 0
      <4> HIDE DEF F
      <4>1. In(F.x[0]) \in {0, 1} /\ In(F.x[1]) \in {0, 1} /\ In(F.x[2]) \in {0, 1}
        BY <3>1
      <4> QED
        BY <2>1, <4>1
    <3> QED
      BY <3>2 DEF In
  <2>3. i \in {0, 1, 2}
    BY <1>3, SMTT(60) DEF Node
  <2> QED
    BY <1>3, <1>5, <2>2, <2>3
<1> QED
  BY <1>1, <1>3, <1>4, <1>6, <1>7 DEF SktT, FileT

(* kw_clean(), kw_mod() and kw_stup() of an attached socket only speak to  *)
(* the kernel.                                                             *)
LEMMA KwSame ==
    ASSUME NEW w, NEW z, NEW d, Good(w, z, d), NEW p \in Slot, p # z,
           w.skt[p].st \in Attachable
    PROVE  Same(kw_clean(w, p), w) /\ Same(kw_mod(w, p), w) /\ Same(kw_stup(w, p), w)
BY FileOfIt, GoodTypes, SameIclean, SameMod, SameSetup
   DEF kw_clean, kw_mod, kw_stup, FileOf

(* An attached socket is given a new state.                                *)
LEMMA SetStMoves ==
    ASSUME NEW w, NEW z, NEW d, Good(w, z, d), NEW p \in Slot, p # z,
           w.skt[p].st \in Attachable, NEW s \in Attachable \ Fresh
    PROVE  Goes(SetSt(w, p, s), w, p, s, z, d)
<1> DEFINE r == [w.skt[p] EXCEPT !.st = s]
<1>1. w.skt[p] \in SktT /\ w \in W
  BY GoodTypes
<1>2. r \in SktT /\ r.filep = w.skt[p].filep /\ r.sinx = w.skt[p].sinx
      /\ r.lskt = w.skt[p].lskt /\ r.st = s
  BY <1>1 DEF SktT, Attachable
<1>3. SetSt(w, p, s) = [w EXCEPT !.skt[p] = r]
  BY <1>1 DEF SetSt, W
<1> HIDE DEF r
<1> QED
  BY <1>2, <1>3, GoodMove DEF Goes

(* clean_skt() clears the numbers and the host of a socket.                *)
LEMMA CleanMoves ==
    ASSUME NEW w, NEW z, NEW d, Good(w, z, d), NEW p \in Slot, p # z
    PROVE  Goes(clean_skt(w, p), w, p, w.skt[p].st, z, d)
<1> DEFINE r == [w.skt[p] EXCEPT !.lskt = 0, !.fskt = 0, !.host = 0]
<1>1. w.skt[p] \in SktT /\ w \in W
  BY GoodTypes
<1>2. r \in SktT /\ r.filep = w.skt[p].filep /\ r.sinx = w.skt[p].sinx
      /\ r.lskt = 0 /\ r.st = w.skt[p].st
  <2> DEFINE a == [w.skt[p] EXCEPT !.lskt = 0]
             b == [a EXCEPT !.fskt = 0]
             c == [b EXCEPT !.host = 0]
  <2>1. r = c
    OBVIOUS
  <2>2. a \in SktT /\ a.filep = w.skt[p].filep /\ a.sinx = w.skt[p].sinx
        /\ a.lskt = 0 /\ a.st = w.skt[p].st
    BY <1>1 DEF SktT
  <2> HIDE DEF a
  <2>3. b \in SktT /\ b.filep = w.skt[p].filep /\ b.sinx = w.skt[p].sinx
        /\ b.lskt = 0 /\ b.st = w.skt[p].st
    BY <2>2 DEF SktT
  <2> HIDE DEF b
  <2>4. c \in SktT /\ c.filep = w.skt[p].filep /\ c.sinx = w.skt[p].sinx
        /\ c.lskt = 0 /\ c.st = w.skt[p].st
    BY <2>3 DEF SktT
  <2> QED
    BY <2>1, <2>4
<1>3. clean_skt(w, p) = [w EXCEPT !.skt[p] = r]
  BY <1>1 DEF clean_skt, W
<1>4. ~Odd(0)
  BY DEF Odd
<1> HIDE DEF r
<1> QED
  BY <1>2, <1>3, <1>4, GoodMove DEF Goes

(* stimeout() sets the timer of a socket.                                  *)
LEMMA TimeoutMoves ==
    ASSUME NEW w, NEW z, NEW d, Good(w, z, d), NEW p \in Slot, p # z
    PROVE  Goes(stimeout(w, p), w, p, w.skt[p].st, z, d)
<1> DEFINE r == [w.skt[p] EXCEPT !.timo = TRUE]
<1>1. w.skt[p] \in SktT /\ w \in W
  BY GoodTypes
<1>2. r \in SktT /\ r.filep = w.skt[p].filep /\ r.sinx = w.skt[p].sinx
      /\ r.lskt = w.skt[p].lskt /\ r.st = w.skt[p].st
  BY <1>1 DEF SktT
<1>3. stimeout(w, p) = [w EXCEPT !.skt[p] = r]
  BY <1>1 DEF W, stimeout
<1> HIDE DEF r
<1> QED
  BY <1>2, <1>3, GoodMove DEF Goes

(* hw() moves no socket.                                                   *)
LEMMA HwMoves ==
    ASSUME NEW w, NEW z, NEW d, Good(w, z, d), NEW p \in Slot,
           NEW op \in {"rfc", "cls", "all"}
    PROVE  Goes(hw(w, op, p), w, p, w.skt[p].st, z, d)
BY GoodTypes, SameHw, GoesSame

(* kw_clean() moves no socket.                                             *)
LEMMA CleanKernelMoves ==
    ASSUME NEW w, NEW z, NEW d, Good(w, z, d), NEW p \in Slot, p # z,
           w.skt[p].st \in Attachable
    PROVE  Goes(kw_clean(w, p), w, p, w.skt[p].st, z, d)
BY KwSame, GoesSame

(* so_ut1(), so_ut2() and so_ut3() begin to close a socket.                *)
LEMMA UtilMoves ==
    ASSUME NEW w, NEW z, NEW d, Good(w, z, d), NEW p \in Slot, p # z,
           w.skt[p].st \in Attachable
    PROVE  /\ Goes(so_ut1(w, p), w, p, "clow", z, d)
           /\ Goes(so_ut2(w, p), w, p, "clow", z, d)
           /\ Goes(so_ut3(w, p), w, p, "cacw", z, d)
<1>1. "clow" \in Attachable \ Fresh /\ "cacw" \in Attachable \ Fresh
  BY DEF Attachable, SktState, Fresh
<1>2. ASSUME NEW v, Goes(v, w, p, w.skt[p].st, z, d)
      PROVE  Goes(clean_skt(SetSt(v, p, "clow"), p), w, p, "clow", z, d)
             /\ Goes(SetSt(v, p, "cacw"), w, p, "cacw", z, d)
             /\ Goes(kw_clean(v, p), w, p, w.skt[p].st, z, d)
  <2>1. Good(v, z, d) /\ v.skt[p].st \in Attachable
    BY <1>2 DEF Goes
  <2>2. Goes(SetSt(v, p, "clow"), v, p, "clow", z, d)
        /\ Goes(SetSt(v, p, "cacw"), v, p, "cacw", z, d)
        /\ Goes(kw_clean(v, p), v, p, w.skt[p].st, z, d)
    BY <1>1, <1>2, <2>1, SetStMoves, CleanKernelMoves DEF Goes
  <2>3. Goes(clean_skt(SetSt(v, p, "clow"), p), SetSt(v, p, "clow"), p, "clow", z, d)
    BY <2>2, CleanMoves DEF Goes
  <2> QED
    BY <1>2, <2>2, <2>3, GoesTrans
<1>3. Goes(kw_clean(w, p), w, p, w.skt[p].st, z, d) /\ Goes(w, w, p, w.skt[p].st, z, d)
      /\ Goes(hw(w, "cls", p), w, p, w.skt[p].st, z, d)
  BY CleanKernelMoves, GoesRefl, HwMoves
<1> QED
  BY <1>2, <1>3 DEF so_ut1, so_ut2, so_ut3

(* The kill of a socket leaves it where it is or closing: never waiting    *)
(* for an RFC, and null only if it was.                                    *)
LEMMA KillOpMoves ==
    ASSUME NEW w, NEW z, NEW d, Good(w, z, d), NEW p \in Slot, p # z
    PROVE  /\ Good(KillOp(w, p), z, d) /\ Frame(KillOp(w, p), w, p)
           /\ KillOp(w, p).skt[p].st \notin Fresh
           /\ KillOp(w, p).skt[p].st = "null" <=> w.skt[p].st = "null"
<1> DEFINE s == w.skt[p].st
<1>1. CASE s \in {"glsn", "slsn"}
  <2>1. s \in Attachable /\ KillOp(w, p) = so_ut1(w, p)
    BY <1>1 DEF KillOp, Attachable, SktState
  <2> QED
    BY <1>1, <2>1, UtilMoves DEF Goes, Fresh
<1>2. CASE s \in {"rfcw", "open", "orfnmw"}
  <2>1. s \in Attachable /\ KillOp(w, p) = so_ut3(w, p)
    BY <1>2 DEF KillOp, Attachable, SktState
  <2> QED
    BY <1>2, <2>1, UtilMoves DEF Goes, Fresh
<1>3. CASE s = "clorfnmw"
  <2>1. s \in Attachable /\ KillOp(w, p) = SetSt(w, p, "c2cw") /\ "c2cw" \in Attachable \ Fresh
    BY <1>3 DEF KillOp, Attachable, SktState, Fresh
  <2> QED
    BY <1>3, <2>1, SetStMoves DEF Goes, Fresh
<1>4. CASE s \notin {"glsn", "slsn", "rfcw", "open", "orfnmw", "clorfnmw"}
  <2>1. KillOp(w, p) = w
    BY <1>4 DEF KillOp
  <2> QED
    BY <1>4, <2>1, GoesRefl DEF Goes, Fresh
<1> QED
  BY <1>1, <1>2, <1>3, <1>4

-----------------------------------------------------------------------------
(* The table of files *)

(* The fields of a file, and the empty file and socket.                    *)
LEMMA TableTypes ==
    /\ \A F \in FileT : /\ F.st \in FileState /\ F.id \in {NoId} \cup Id /\ F.base \in Int
                        /\ F.x \in [Node -> {NoSlot} \cup Slot]
                        /\ F.nsatt \in Int /\ F.nsrsrv \in Int
    /\ NullFile \in FileT /\ NullFile.st = "null" /\ NullFile.id = NoId
    /\ NullFile.x = [i \in Node |-> NoSlot] /\ NullFile.nsatt = 0 /\ NullFile.nsrsrv = 0
    /\ NullSkt \in SktT /\ NullSkt.st = "null" /\ NullSkt.filep = NoFile
BY DEF FileT, NullFile, FileState, NullSkt, SktT, SktState, Node

(* A file has no sockets if it has attached none.                          *)
LEMMA NoneAttached ==
    ASSUME NEW fils \in [File -> FileT], NEW f \in File, FileOK(fils, f)
    PROVE  /\ fils[f].nsatt \in Nat
           /\ fils[f].nsatt = 0 <=> \A i \in Node : fils[f].x[i] = NoSlot
           /\ fils[f].nsatt = 0 <=> fils[f].x = [i \in Node |-> NoSlot]
           /\ fils[f].st = "null" => fils[f].nsatt = 0
<1> DEFINE F == fils[f]
<1>1. F \in FileT
  OBVIOUS
<1>2. F.x \in [Node -> {NoSlot} \cup Slot] /\ F.nsatt \in Int
  BY <1>1, TableTypes
<1>3. F.nsatt = In(F.x[0]) + In(F.x[1]) + In(F.x[2]) /\ F.nsatt <= F.nsrsrv
      /\ (F.st = "null" => F.nsrsrv = 0)
  BY DEF FileOK
<1> HIDE DEF F
<1>4. /\ In(F.x[0]) \in {0, 1} /\ In(F.x[1]) \in {0, 1} /\ In(F.x[2]) \in {0, 1}
      /\ In(F.x[0]) = 0 <=> F.x[0] = NoSlot
      /\ In(F.x[1]) = 0 <=> F.x[1] = NoSlot
      /\ In(F.x[2]) = 0 <=> F.x[2] = NoSlot
  BY DEF In
<1>5. F.nsatt \in Nat /\ (F.st = "null" => F.nsatt = 0)
  BY <1>3, <1>4
<1>6. F.nsatt = 0 <=> In(F.x[0]) = 0 /\ In(F.x[1]) = 0 /\ In(F.x[2]) = 0
  BY <1>3, <1>4
<1>7. F.nsatt = 0 <=> \A i \in Node : F.x[i] = NoSlot
  <2>1. Node = {0, 1, 2}
    BY DEF Node
  <2> QED
    BY <1>4, <1>6, <2>1
<1>8. F.x = [i \in Node |-> NoSlot] <=> \A i \in Node : F.x[i] = NoSlot
  BY <1>2
<1> QED
  BY <1>5, <1>7, <1>8 DEF F

(* What the files reserve, when one of them changes.                       *)
LEMMA RsrvSum ==
    ASSUME NEW fils \in [File -> FileT], NEW f \in File, NEW F \in FileT
    PROVE  /\ SeqSum(Rsrv(fils)) \in Int
           /\ SeqSum(Rsrv([fils EXCEPT ![f] = F]))
                = SeqSum(Rsrv(fils)) - fils[f].nsrsrv + F.nsrsrv
<1>1. NFile \in Nat
  BY SktMachineAssumption
<1>2. \A g \in File : fils[g].nsrsrv \in Int
  BY TableTypes
<1>3. Rsrv(fils) \in Seq(Int) /\ Len(Rsrv(fils)) = NFile
  BY <1>1, <1>2 DEF Rsrv, File
<1>4. F.nsrsrv \in Int
  BY TableTypes
<1>5. Rsrv([fils EXCEPT ![f] = F]) = [Rsrv(fils) EXCEPT ![f] = F.nsrsrv]
  BY DEF Rsrv
<1>6. Rsrv(fils)[f] = fils[f].nsrsrv
  BY DEF Rsrv
<1>7. f \in 1 .. Len(Rsrv(fils))
  BY <1>3 DEF File
<1>8. SeqSum(Rsrv(fils)) \in Int
  BY <1>3, SumInt
<1>9. SeqSum([Rsrv(fils) EXCEPT ![f] = F.nsrsrv])
        = SeqSum(Rsrv(fils)) - Rsrv(fils)[f] + F.nsrsrv
  BY <1>3, <1>4, <1>7, SumChange
<1> QED
  BY <1>5, <1>6, <1>8, <1>9

(* What the files reserve is a number.                                     *)
LEMMA RsrvInt ==
    ASSUME NEW fils \in [File -> FileT]
    PROVE  SeqSum(Rsrv(fils)) \in Int
<1>1. NFile \in Nat
  BY SktMachineAssumption
<1>2. \A g \in File : fils[g].nsrsrv \in Int
  BY TableTypes
<1>3. Rsrv(fils) \in Seq(Int)
  BY <1>1, <1>2 DEF Rsrv, File
<1> QED
  BY <1>3, SumInt

(* The users that hold a file can be counted.                              *)
LEMMA UsersFinite ==
    ASSUME NEW us, NEW id
    PROVE  IsFiniteSet(Holders(us, id)) /\ Cardinality(Holders(us, id)) \in Nat
BY NcpOpenAssumption, FS_Subset, FS_CardinalityType DEF Holders

(* Parts of the tables can be counted.                                     *)
LEMMA TablesFinite ==
    /\ IsFiniteSet(File) /\ IsFiniteSet(Slot)
    /\ \A S \in SUBSET File : IsFiniteSet(S) /\ Cardinality(S) \in Nat
    /\ \A S \in SUBSET Slot : IsFiniteSet(S) /\ Cardinality(S) \in Nat
<1>1. NSkt \in Int /\ NFile \in Int /\ 1 \in Int
  BY SktMachineAssumption
<1>2. IsFiniteSet(1 .. NFile) /\ IsFiniteSet(1 .. NSkt)
  BY <1>1, FS_Interval
<1>3. IsFiniteSet(File) /\ IsFiniteSet(Slot)
  BY <1>2 DEF File, Slot
<1> QED
  BY <1>3, FS_Subset, FS_CardinalityType

(* The free files, when one file changes.                                  *)
LEMMA FreesChange ==
    ASSUME NEW fils \in [File -> FileT], NEW f \in File, NEW F \in FileT
    PROVE  LET new == [fils EXCEPT ![f] = F] IN
           /\ Cardinality(Frees(fils)) \in Nat
           /\ fils[f].st = "null" /\ F.st # "null" =>
                Cardinality(Frees(new)) = Cardinality(Frees(fils)) - 1
           /\ fils[f].st # "null" /\ F.st = "null" =>
                Cardinality(Frees(new)) = Cardinality(Frees(fils)) + 1
           /\ (fils[f].st = "null" <=> F.st = "null") =>
                Cardinality(Frees(new)) = Cardinality(Frees(fils))
<1> DEFINE new == [fils EXCEPT ![f] = F]
<1>1. new[f] = F /\ \A g \in File \ {f} : new[g] = fils[g]
  OBVIOUS
<1> HIDE DEF new
<1>2. IsFiniteSet(Frees(fils)) /\ Cardinality(Frees(fils)) \in Nat
  BY TablesFinite DEF Frees
<1>3. ASSUME fils[f].st = "null", F.st # "null"
      PROVE  Cardinality(Frees(new)) = Cardinality(Frees(fils)) - 1
  <2>1. Frees(new) = Frees(fils) \ {f} /\ f \in Frees(fils)
    BY <1>1, <1>3 DEF Frees
  <2> QED
    BY <1>2, <2>1, FS_RemoveElement, ZenonT(60)
<1>4. ASSUME fils[f].st # "null", F.st = "null"
      PROVE  Cardinality(Frees(new)) = Cardinality(Frees(fils)) + 1
  <2>1. Frees(new) = Frees(fils) \cup {f} /\ f \notin Frees(fils)
    BY <1>1, <1>4 DEF Frees
  <2> QED
    BY <1>2, <2>1, FS_AddElement
<1>5. ASSUME fils[f].st = "null" <=> F.st = "null"
      PROVE  Frees(new) = Frees(fils)
  BY <1>1, <1>5 DEF Frees
<1> QED
  BY <1>2, <1>3, <1>4, <1>5 DEF new

(* What a file may become while its sockets stay.                          *)
LEMMA TabFile ==
    ASSUME NEW skts \in [Slot -> SktT], NEW fils \in [File -> FileT], NEW z,
           Tab(skts, fils, z),
           NEW f \in File, NEW F \in FileT, F.x = fils[f].x,
           FileOK([fils EXCEPT ![f] = F], f),
           \A i \in Node : F.x[i] # NoSlot /\ skts[F.x[i]].st \in Fresh =>
                F.st \in (IF i = ksx_icp THEN {"uiopw", "siopw"} ELSE {"dopnw"})
    PROVE  Tab(skts, [fils EXCEPT ![f] = F], z)
<1> DEFINE new == [fils EXCEPT ![f] = F]
<1>1. new[f] = F /\ \A g \in File \ {f} : new[g] = fils[g]
  OBVIOUS
<1>2. \A g \in File : new[g].x = fils[g].x
  BY <1>1
<1>3. FileOK(new, f)
  OBVIOUS
<1> HIDE DEF new
<1>4. \A p \in Slot \ {z} : SktOK(skts, new, p)
  BY <1>2 DEF Tab, SktOK
<1>5. \A g \in File : FileOK(new, g)
  BY <1>1, <1>3 DEF Tab, FileOK
<1>6. ASSUME NEW g \in File, NEW i \in Node, new[g].x[i] # NoSlot
      PROVE  EntryOK(skts, new, g, i, z)
  <2>1. EntryOK(skts, fils, g, i, z)
    BY <1>2, <1>6 DEF Tab
  <2>2. CASE g # f
    BY <1>1, <2>1, <2>2, SMTT(60) DEF EntryOK
  <2>3. CASE g = f
    BY <1>1, <1>2, <1>6, <2>1, <2>3 DEF EntryOK
  <2> QED
    BY <2>2, <2>3
<1>7. Tab(skts, new, z)
  BY <1>4, <1>5, <1>6, SMTT(60) DEF Tab
<1> QED
  BY <1>7 DEF new

(* A file of the daemon that stays his goes on to another state.           *)
LEMMA GoodFile ==
    ASSUME NEW w, NEW z, NEW d, Good(w, z, d),
           NEW f \in File, NEW F \in FileT,
           F.st = "null" <=> w.fil[f].st = "null", F.id = w.fil[f].id, F.x = w.fil[f].x,
           F.nsrsrv = w.fil[f].nsrsrv, F.base = w.fil[f].base,
           FileOK([w.fil EXCEPT ![f] = F], f),
           \A i \in Node : F.x[i] # NoSlot /\ w.skt[F.x[i]].st \in Fresh =>
                F.st \in (IF i = ksx_icp THEN {"uiopw", "siopw"} ELSE {"dopnw"})
    PROVE  LET v == [w EXCEPT !.fil[f] = F] IN
           /\ Good(v, z, d)
           /\ v.skt = w.skt /\ v.fil = [w.fil EXCEPT ![f] = F] /\ v.ssn = w.ssn
           /\ v.grp = w.grp /\ v.host = w.host
<1> DEFINE v == [w EXCEPT !.fil[f] = F]
           new == [w.fil EXCEPT ![f] = F]
<1>1. w \in W /\ w.skt \in [Slot -> SktT] /\ w.fil \in [File -> FileT] /\ w.nsl \in Int
  BY GoodTypes
<1>2. new \in [File -> FileT] /\ new[f] = F /\ \A g \in File \ {f} : new[g] = w.fil[g]
  BY <1>1
<1>3. v = [w EXCEPT !.fil = new]
  BY <1>1, SMTT(60) DEF W
<1>4. Tab(w.skt, new, z)
  <2>1. Tab(w.skt, w.fil, z)
    BY DEF Good
  <2> QED
    BY <1>1, <2>1, TabFile, SMTT(60)
<1>5. SeqSum(Rsrv(new)) = SeqSum(Rsrv(w.fil))
  <2>1. SeqSum(Rsrv(new)) = SeqSum(Rsrv(w.fil)) - w.fil[f].nsrsrv + F.nsrsrv
        /\ SeqSum(Rsrv(w.fil)) \in Int
    BY <1>1, RsrvSum
  <2>2. F.nsrsrv \in Int
    BY TableTypes, SMTT(60)
  <2> HIDE DEF new
  <2> QED
    BY <2>1, <2>2
<1>6. Cardinality(Frees(new)) = Cardinality(Frees(w.fil))
  BY <1>1, FreesChange, SMTT(60)
<1>7. \A id \in Id : Known(new, w.ncprq, id) <=> Known(w.fil, w.ncprq, id)
  BY <1>2 DEF Known
<1> HIDE DEF new, v
<1>8. v \in W /\ v.skt = w.skt /\ v.fil = new /\ v.nsl = w.nsl /\ v.nfl = w.nfl
      /\ v.grp = w.grp /\ v.host = w.host /\ v.ssn = w.ssn /\ v.died = w.died
      /\ v.kf = w.kf /\ v.usr = w.usr /\ v.ncprq = w.ncprq
  BY <1>1, <1>2, <1>3 DEF W
<1>9. Refs(new, w.kf, w.ncprq, w.usr)
  <2>1. Refs(w.fil, w.kf, w.ncprq, w.usr)
    BY SMTT(60) DEF Good
  <2>2. \A g \in File : (new[g].st # "null" <=> w.fil[g].st # "null") /\ new[g].id = w.fil[g].id
    BY <1>2, SMTT(60)
  <2> QED
    BY <1>7, <2>1, <2>2 DEF Refs
<1>10. Acc(v.skt, v.fil, v.nsl, v.nfl, z, d)
  BY <1>5, <1>6, <1>8, SMTT(60) DEF Acc, Good
<1>11. SocketsNamed => Owned(v.grp, v.fil)
  BY <1>2, <1>8, SMTT(60) DEF Good, Owned
<1>12. Good(v, z, d)
  BY <1>4, <1>8, <1>9, <1>10, <1>11 DEF Good
<1> QED
  BY <1>8, <1>12, SMTT(60) DEF v, new

-----------------------------------------------------------------------------
(* f_rlse() *)

(* wf_frlse(): one reference less, and only the daemon's.                  *)
LEMMA FrlseKernel ==
    ASSUME NEW w \in W, NEW id \in {NoId} \cup Id
    PROVE  LET v == wf_frlse(w, id) IN
           /\ v \in W /\ SameTables(v, w) /\ v.usr = w.usr /\ v.ncprq = w.ncprq
           /\ \A j \in Id \ {id} : v.kf[j] = w.kf[j]
           /\ id = NoId => v.kf = w.kf
           /\ id \in Id /\ w.kf[id].tab =>
                /\ v.kf[id].cnt = w.kf[id].cnt - 1
                /\ w.kf[id].cnt # 1 => v.kf[id].tab
           /\ id \in Id /\ ~w.kf[id].tab => v.kf[id] = w.kf[id]
<1>1. CASE ~infiletab(w, id)
  BY <1>1, NcpOpenAssumption DEF wf_frlse, infiletab, SameTables
<1>2. CASE infiletab(w, id)
  <2>1. id \in Id /\ id # NoId /\ w.kf[id].tab
    BY <1>2 DEF infiletab
  <2>2. w.kf[id] \in KfT
    BY <2>1, KernelTypes
  <2> DEFINE a == [w.kf[id] EXCEPT !.cnt = 0, !.tab = FALSE, !.ferr = FALSE, !.fopen = FALSE]
             b == [w.kf[id] EXCEPT !.cnt = @ - 1]
  <2>3. b \in KfT /\ b.cnt = w.kf[id].cnt - 1 /\ b.tab
    BY <2>1, <2>2 DEF KfT
  <2>4. a \in KfT /\ a.cnt = 0
    <3> DEFINE a1 == [w.kf[id] EXCEPT !.cnt = 0]
               a2 == [a1 EXCEPT !.tab = FALSE]
               a3 == [a2 EXCEPT !.ferr = FALSE]
               a4 == [a3 EXCEPT !.fopen = FALSE]
    <3>1. a = a4
      OBVIOUS
    <3>2. a1 \in KfT /\ a1.cnt = 0
      BY <2>2 DEF KfT
    <3> HIDE DEF a1
    <3>3. a2 \in KfT /\ a2.cnt = 0
      BY <3>2 DEF KfT
    <3> HIDE DEF a2
    <3>4. a3 \in KfT /\ a3.cnt = 0
      BY <3>3 DEF KfT
    <3> HIDE DEF a3
    <3>5. a4 \in KfT /\ a4.cnt = 0
      BY <3>4 DEF KfT
    <3> QED
      BY <3>1, <3>5
  <2> DEFINE k == IF w.kf[id].cnt = 1 THEN a ELSE b
  <2>5. wf_frlse(w, id) = [w EXCEPT !.kf[id] = k]
    <3>1. [w EXCEPT !.kf[id].cnt = @ - 1] = [w EXCEPT !.kf[id] = b]
      BY <2>1 DEF W
    <3>2. [w EXCEPT !.kf[id] = [@ EXCEPT !.cnt = 0, !.tab = FALSE,
                                        !.ferr = FALSE, !.fopen = FALSE]]
          = [w EXCEPT !.kf[id] = a]
      BY <2>1 DEF W
    <3> HIDE DEF a, b
    <3> QED
      BY <1>2, <3>1, <3>2 DEF wf_frlse, net_frlse
  <2>6. k \in KfT /\ k.cnt = w.kf[id].cnt - 1 /\ (w.kf[id].cnt # 1 => k.tab)
    <3> HIDE DEF a, b
    <3> QED
      BY <2>3, <2>4
  <2> HIDE DEF k
  <2>7. [w EXCEPT !.kf[id] = k] \in W
    BY <2>1, <2>6 DEF W
  <2> QED
    BY <2>1, <2>5, <2>6, <2>7, ZenonT(60) DEF SameTables, W
<1> QED
  BY <1>1, <1>2

(* What f_rlse() gives back to the pool of groups.                         *)
Groups(w, f) ==
    IF \E g \in File \ {f} : w.fil[g].st # "null" /\ w.fil[g].base = w.fil[f].base
    THEN w.grp ELSE w.grp \cup ({w.fil[f].base} \cap Group)

(* f_rlse(): a file without sockets gives back his reservation, his group  *)
(* and the daemon's reference, and is free.                                *)
LEMMA ReleaseGood ==
    ASSUME NEW w, NEW z, NEW d, Good(w, z, d),
           NEW f \in File, w.fil[f].st # "null", w.fil[f].nsatt = 0
    PROVE  LET v == f_rlse(w, f) IN
           /\ Good(v, z, d)
           /\ v.skt = w.skt /\ v.fil = [w.fil EXCEPT ![f] = NullFile] /\ v.ssn = w.ssn
           /\ v.host = w.host /\ v.grp = Groups(w, f)
<1> DEFINE v == f_rlse(w, f)
           id == w.fil[f].id
           new == [w.fil EXCEPT ![f] = NullFile]
           ns == w.nsl + w.fil[f].nsrsrv
           nf == w.nfl + 1
           w1 == [w EXCEPT !.nsl = ns, !.nfl = nf, !.fil = new, !.grp = Groups(w, f)]
<1>1. w \in W /\ w.skt \in [Slot -> SktT] /\ w.fil \in [File -> FileT] /\ w.nsl \in Int
      /\ w.nfl \in Int /\ w.grp \in SUBSET Group
  BY GoodTypes
<1>2. /\ Tab(w.skt, w.fil, z) /\ Acc(w.skt, w.fil, w.nsl, w.nfl, z, d)
      /\ Refs(w.fil, w.kf, w.ncprq, w.usr)
      /\ FileOK(w.fil, f) /\ id \in {NoId} \cup Id /\ w.fil[f].nsrsrv \in Int
  BY <1>1, TableTypes DEF Good, Tab
<1>3. new \in [File -> FileT] /\ new[f] = NullFile /\ \A g \in File \ {f} : new[g] = w.fil[g]
  BY <1>1, TableTypes
<1>4. Tab(w.skt, new, z)
  <2>1. NullFile.x = w.fil[f].x /\ \A i \in Node : NullFile.x[i] = NoSlot
    BY <1>1, <1>2, TableTypes, NoneAttached
  <2>2. FileOK(new, f)
    BY <1>3, TableTypes DEF FileOK, In, Node, Early
  <2> HIDE DEF new
  <2>3. Tab(w.skt, [w.fil EXCEPT ![f] = NullFile], z)
    BY <1>1, <1>2, <2>1, <2>2, TableTypes, TabFile DEF new
  <2> QED
    BY <2>3 DEF new
<1>5. Acc(w.skt, new, ns, nf, z, d)
  <2>1. SeqSum(Rsrv(new)) = SeqSum(Rsrv(w.fil)) - w.fil[f].nsrsrv
        /\ SeqSum(Rsrv(w.fil)) \in Int
    BY <1>1, <1>2, RsrvSum, TableTypes
  <2>2. Cardinality(Frees(new)) = Cardinality(Frees(w.fil)) + 1
    BY <1>1, FreesChange, TableTypes
  <2>3. Cardinality(Queue(w.skt, z)) \in Int
    BY TablesFinite DEF Queue
  <2>4. NSkt \in Int /\ ns = w.nsl + w.fil[f].nsrsrv
    BY SktMachineAssumption
  <2>5. w.nsl + d = NSkt - SeqSum(Rsrv(w.fil)) - Cardinality(Queue(w.skt, z))
        /\ w.nfl = Cardinality(Frees(w.fil))
    BY <1>2 DEF Acc
  <2>6. d \in Int
    BY DEF Good
  <2> HIDE DEF new, ns
  <2> QED
    BY <1>1, <1>2, <2>1, <2>2, <2>3, <2>4, <2>5, <2>6 DEF Acc
<1>6. w1 \in W /\ w1.skt = w.skt /\ w1.fil = new /\ w1.nsl = ns /\ w1.nfl = nf
      /\ w1.grp = Groups(w, f) /\ w1.host = w.host /\ w1.ssn = w.ssn /\ w1.died = w.died
      /\ w1.kf = w.kf /\ w1.usr = w.usr /\ w1.ncprq = w.ncprq
  <2>1. ns \in Int /\ nf \in Int /\ Groups(w, f) \in SUBSET Group
    BY <1>1, <1>2 DEF Groups
  <2> HIDE DEF new, ns, nf
  <2> QED
    BY <1>1, <1>3, <2>1 DEF W
<1>7. v = wf_frlse(w1, id)
  BY <1>1 DEF f_rlse, Groups, W
<1>8. /\ v \in W /\ v.skt = w.skt /\ v.fil = new /\ v.nsl = ns /\ v.nfl = nf
      /\ v.grp = Groups(w, f) /\ v.host = w.host /\ v.ssn = w.ssn /\ v.died = w.died
      /\ v.usr = w.usr /\ v.ncprq = w.ncprq
  <2> HIDE DEF w1, new, ns, nf, v
  <2> QED
    BY <1>2, <1>6, <1>7, FrlseKernel DEF SameTables
<1>9. Refs(new, v.kf, w.ncprq, w.usr)
  <2>1. /\ \A j \in Id \ {id} : v.kf[j] = w.kf[j]
        /\ id \in Id /\ w.kf[id].tab => v.kf[id].cnt = w.kf[id].cnt - 1
    <3> HIDE DEF w1, v, new, ns, nf
    <3>1. /\ \A j \in Id \ {id} : v.kf[j] = w1.kf[j]
          /\ id \in Id /\ w1.kf[id].tab => v.kf[id].cnt = w1.kf[id].cnt - 1
      BY <1>2, <1>6, <1>7, FrlseKernel, ZenonT(60)
    <3> QED
      BY <1>6, <3>1, ZenonT(60)
  <2> HIDE DEF new, v
  <2>2. \A g \in File : new[g].st # "null" =>
            g # f /\ w.fil[g].st # "null" /\ new[g].id = w.fil[g].id
    BY <1>3, TableTypes
  <2>3. \A j \in Id : Known(new, w.ncprq, j) => Known(w.fil, w.ncprq, j) /\ j # id
    BY <1>2, <2>2, NcpOpenAssumption DEF Known, Refs
  <2>4. id \in Id => Known(w.fil, w.ncprq, id)
    BY DEF Known
  <2>5. ASSUME NEW j \in Id
        PROVE  /\ Cardinality(Holders(w.usr, j)) <= v.kf[j].cnt
               /\ Known(new, w.ncprq, j) =>
                    v.kf[j].tab /\ Cardinality(Holders(w.usr, j)) + 1 <= v.kf[j].cnt
    <3>1. CASE j # id
      BY <1>2, <2>1, <2>3, <3>1, SMTT(60) DEF Refs
    <3>2. CASE j = id
      <4>1. w.kf[j].tab /\ Cardinality(Holders(w.usr, j)) + 1 <= w.kf[j].cnt
        BY <1>2, <2>4, <3>2 DEF Refs
      <4>2. w.kf[j].cnt \in Int /\ Cardinality(Holders(w.usr, j)) \in Int
        BY <1>1, KernelTypes, UsersFinite DEF KfT
      <4> QED
        BY <2>1, <2>3, <3>2, <4>1, <4>2
    <3> QED
      BY <3>1, <3>2, SMTT(60)
  <2> QED
    BY <1>2, <2>2, <2>5, SMTT(60) DEF Refs
<1>10. ASSUME Owned(w.grp, w.fil) PROVE Owned(Groups(w, f), new)
  <2> HIDE DEF new
  <2> SUFFICES ASSUME NEW g \in Group \ Groups(w, f)
               PROVE  \E h \in File : new[h].st # "null" /\ new[h].base = g
    BY DEF Owned
  <2>1. g \notin w.grp /\ g \in Group
    BY DEF Groups
  <2>2. PICK h \in File : w.fil[h].st # "null" /\ w.fil[h].base = g
    BY <1>10, <2>1 DEF Owned
  <2>3. CASE h # f
    BY <1>3, <2>2, <2>3
  <2>4. CASE h = f
    <3>1. \E k \in File \ {f} : w.fil[k].st # "null" /\ w.fil[k].base = w.fil[f].base
      BY <2>1, <2>2, <2>4 DEF Groups
    <3> QED
      BY <1>3, <2>2, <2>4, <3>1
  <2> QED
    BY <2>3, <2>4
<1> HIDE DEF new, ns, nf, v, w1
<1>11. Good(v, z, d)
  BY <1>4, <1>5, <1>8, <1>9, <1>10 DEF Good
<1> QED
  BY <1>8, <1>11 DEF v, new

-----------------------------------------------------------------------------
(* free_skt() *)

(* A socket that is in no list of a file and does not count: it is being   *)
(* freed.  It becomes a free one.                                          *)
LEMMA FreeEnd ==
    ASSUME NEW v, NEW p \in Slot, Good(v, p, 1)
    PROVE  Good([v EXCEPT !.nsl = @ + 1, !.skt[p] = NullSkt], NoSlot, 0)
<1> DEFINE new == [v.skt EXCEPT ![p] = NullSkt]
           ns == v.nsl + 1
           u == [v EXCEPT !.nsl = ns, !.skt = new]
<1>1. v \in W /\ v.skt \in [Slot -> SktT] /\ v.nsl \in Int /\ p # NoSlot /\ v.ssn \in SUBSET Slot
  BY GoodTypes DEF Slot, NoSlot
<1>2. new \in [Slot -> SktT] /\ new[p] = NullSkt /\ \A o \in Slot \ {p} : new[o] = v.skt[o]
  BY <1>1, TableTypes
<1>3. [v EXCEPT !.nsl = @ + 1, !.skt[p] = NullSkt] = u
  BY <1>1 DEF W
<1> HIDE DEF new, ns
<1>4. u \in W /\ u.skt = new /\ u.fil = v.fil /\ u.nsl = ns /\ u.nfl = v.nfl
      /\ u.grp = v.grp /\ u.host = v.host /\ u.ssn = v.ssn /\ u.died = v.died
      /\ u.kf = v.kf /\ u.usr = v.usr /\ u.ncprq = v.ncprq
  <2>1. ns \in Int
    BY <1>1 DEF ns
  <2> QED
    BY <1>1, <1>2, <2>1 DEF W
<1>5. Tab(new, v.fil, NoSlot)
  <2>1. Tab(v.skt, v.fil, p)
    BY DEF Good
  <2>2. ASSUME NEW o \in Slot PROVE SktOK(new, v.fil, o)
    BY <1>2, <2>1, TableTypes, ZenonT(60) DEF Tab, SktOK
  <2>3. ASSUME NEW f \in File, NEW i \in Node, v.fil[f].x[i] # NoSlot
        PROVE  EntryOK(new, v.fil, f, i, NoSlot)
    <3>1. EntryOK(v.skt, v.fil, f, i, p) /\ v.fil[f].x[i] \in Slot
      BY <2>1, <2>3, GoodTypes DEF Tab, FileT
    <3> QED
      BY <1>2, <2>3, <3>1 DEF EntryOK
  <2> QED
    BY <2>1, <2>2, <2>3 DEF Tab
<1>6. Queue(new, NoSlot) = Queue(v.skt, p)
  BY <1>1, <1>2, TableTypes DEF Queue, Slot, NoSlot
<1>7. Acc(new, v.fil, ns, v.nfl, NoSlot, 0)
  <2>1. SeqSum(Rsrv(v.fil)) \in Int
    BY GoodTypes, RsrvInt
  <2>2. Cardinality(Queue(v.skt, p)) \in Int /\ NSkt \in Int
    BY TablesFinite, SktMachineAssumption DEF Queue
  <2>3. ns + 0 = v.nsl + 1
    BY <1>1 DEF ns
  <2> QED
    BY <1>1, <1>6, <2>1, <2>2, <2>3 DEF Good, Acc
<1>8. \A o \in u.ssn : new[o].st # "q"
  BY <1>1, <1>2, <1>4, TableTypes DEF Good
<1>9. Good(u, NoSlot, 0)
  <2> HIDE DEF u
  <2> QED
    BY <1>4, <1>5, <1>7, <1>8 DEF Good
<1> QED
  BY <1>3, <1>9

(* A queued RFC is in no list.                                             *)
LEMMA FreeQueued ==
    ASSUME NEW w, Good(w, NoSlot, 0), NEW p \in Slot, w.skt[p].st = "q"
    PROVE  Good(w, p, 1) /\ w.skt[p].filep = NoFile
<1>1. w.skt \in [Slot -> SktT] /\ p # NoSlot /\ w.nsl \in Int
      /\ Tab(w.skt, w.fil, NoSlot) /\ NoSlot \notin Slot
  <2>1. w.skt \in [Slot -> SktT] /\ w.nsl \in Int
    BY GoodTypes, SMTT(60)
  <2> QED
    BY <2>1 DEF Slot, NoSlot, Good
<1>2. w.skt[p].filep = NoFile
  BY <1>1 DEF Tab, SktOK, Attachable
<1>3. Tab(w.skt, w.fil, p)
  <2>1. ASSUME NEW f \in File, NEW i \in Node, w.fil[f].x[i] # NoSlot
        PROVE  EntryOK(w.skt, w.fil, f, i, p)
    BY <1>1, <2>1 DEF Tab, EntryOK, Attachable
  <2> QED
    BY <1>1, <2>1, ZenonT(60) DEF Tab
<1>4. Acc(w.skt, w.fil, w.nsl, w.nfl, p, 1)
  <2>1. Queue(w.skt, p) = Queue(w.skt, NoSlot) \ {p} /\ p \in Queue(w.skt, NoSlot)
    BY <1>1 DEF Queue
  <2>2. IsFiniteSet(Queue(w.skt, NoSlot)) /\ Cardinality(Queue(w.skt, NoSlot)) \in Nat
    BY TablesFinite DEF Queue
  <2>3. Cardinality(Queue(w.skt, p)) = Cardinality(Queue(w.skt, NoSlot)) - 1
    BY <2>1, <2>2, FS_RemoveElement
  <2>4. SeqSum(Rsrv(w.fil)) \in Int /\ NSkt \in Int
    BY GoodTypes, RsrvInt, SktMachineAssumption
  <2> QED
    BY <1>1, <2>2, <2>3, <2>4 DEF Good, Acc
<1> QED
  BY <1>2, <1>3, <1>4 DEF Good

(* The file of an attached socket, when no socket stands outside.          *)
LEMMA FileOfOne ==
    ASSUME NEW w, Good(w, NoSlot, 0), NEW p \in Slot, w.skt[p].st \in Attachable
    PROVE  /\ w.skt[p].filep \in File /\ w.skt[p].sinx \in Node
           /\ w.fil[w.skt[p].filep].x[w.skt[p].sinx] = p
           /\ w.fil[w.skt[p].filep].id \in {NoId} \cup Id
           /\ w.fil[w.skt[p].filep].st # "null" /\ FileOK(w.fil, w.skt[p].filep)
BY FileOfIt, NoSlotFact, SMTT(60)

(* The socket p has the place i of the file f.                             *)
At(w, p, f, i) == f = w.skt[p].filep /\ i = w.skt[p].sinx

(* The fields of a file that has lost a socket.                            *)
LEMMA DetachFields ==
    ASSUME NEW G \in FileT, NEW i \in Node
    PROVE  LET F == Detach(G, i) IN
           /\ F \in FileT /\ F.x = [G.x EXCEPT ![i] = NoSlot]
           /\ F.st = G.st /\ F.id = G.id /\ F.base = G.base
           /\ F.nsatt = G.nsatt - 1 /\ F.nsrsrv = G.nsrsrv - 1
<1> DEFINE x == [G.x EXCEPT ![i] = NoSlot]
           a == [G EXCEPT !.x = x]
           b == [a EXCEPT !.nsatt = G.nsatt - 1]
           c == [b EXCEPT !.nsrsrv = G.nsrsrv - 1]
<1>1. x \in [Node -> {NoSlot} \cup Slot] /\ G.nsatt \in Int /\ G.nsrsrv \in Int
  BY TableTypes
<1>2. Detach(G, i) = c
  BY DEF FileT, Detach
<1> HIDE DEF x
<1>3. /\ a \in FileT /\ a.x = x /\ a.st = G.st /\ a.id = G.id /\ a.base = G.base
      /\ a.nsatt = G.nsatt /\ a.nsrsrv = G.nsrsrv
  BY <1>1 DEF FileT
<1> HIDE DEF a
<1>4. /\ b \in FileT /\ b.x = x /\ b.st = G.st /\ b.id = G.id /\ b.base = G.base
      /\ b.nsatt = G.nsatt - 1 /\ b.nsrsrv = G.nsrsrv
  BY <1>1, <1>3 DEF FileT
<1> HIDE DEF b
<1>5. /\ c \in FileT /\ c.x = x /\ c.st = G.st /\ c.id = G.id /\ c.base = G.base
      /\ c.nsatt = G.nsatt - 1 /\ c.nsrsrv = G.nsrsrv - 1
  BY <1>1, <1>4 DEF FileT
<1> QED
  BY <1>2, <1>5 DEF x

(* v is w after the socket p has left the place i of the file f: he does   *)
(* not stand in a table, and his place in the counts is not given back.    *)
Dropped(v, w, p, f, i) ==
    /\ Good(v, p, 1)
    /\ v.skt = w.skt
    /\ \A g \in File \ {f} : v.fil[g] = w.fil[g]
    /\ v.fil[f].x = [w.fil[f].x EXCEPT ![i] = NoSlot]
    /\ v.fil[f].st = w.fil[f].st /\ v.fil[f].id = w.fil[f].id

(* fi_sgone() takes the socket out of its file's list.                     *)
LEMMA DropAt ==
    ASSUME NEW w, Good(w, NoSlot, 0), NEW p \in Slot, w.skt[p].st \in Attachable,
           NEW f \in File, NEW i \in Node, At(w, p, f, i),
           w.fil[f].x[i] = p, w.fil[f].st # "null", FileOK(w.fil, f),
           NEW F, F = Detach(w.fil[f], i)
    PROVE  Dropped([w EXCEPT !.fil[f] = F], w, p, f, i)
<1> DEFINE new == [w.fil EXCEPT ![f] = F]
           v == [w EXCEPT !.fil = new]
<1>1. /\ w \in W /\ w.skt \in [Slot -> SktT] /\ w.fil \in [File -> FileT] /\ w.nsl \in Int
      /\ p # NoSlot /\ NoSlot \notin Slot
      /\ f \in File /\ i \in Node /\ w.fil[f].x[i] = p /\ w.fil[f] \in FileT
      /\ w.fil[f].st # "null" /\ FileOK(w.fil, f)
  BY NoSlotFact, GoodTypes
<1>2. /\ F \in FileT /\ F.x = [w.fil[f].x EXCEPT ![i] = NoSlot]
      /\ F.st = w.fil[f].st /\ F.id = w.fil[f].id /\ F.base = w.fil[f].base
      /\ F.nsatt = w.fil[f].nsatt - 1 /\ F.nsrsrv = w.fil[f].nsrsrv - 1
  BY <1>1, DetachFields
<1>3. [w EXCEPT !.fil[f] = F] = v
  BY <1>1 DEF W
<1>4. new \in [File -> FileT] /\ new[f] = F /\ \A g \in File \ {f} : new[g] = w.fil[g]
  <2>1. w.fil \in [File -> FileT] /\ F \in FileT /\ f \in File
    BY <1>1, <1>2, Zenon
  <2> QED
    BY <2>1, Zenon
<1> HIDE DEF new
<1>5. v \in W /\ v.skt = w.skt /\ v.fil = new /\ v.nsl = w.nsl /\ v.nfl = w.nfl
      /\ v.grp = w.grp /\ v.host = w.host /\ v.ssn = w.ssn /\ v.died = w.died
      /\ v.kf = w.kf /\ v.usr = w.usr /\ v.ncprq = w.ncprq
  BY <1>1, <1>4 DEF W
<1> HIDE DEF v
<1>6. FileOK(new, f)
  <2> DEFINE G == w.fil[f]
  <2>1. /\ G.nsatt = In(G.x[0]) + In(G.x[1]) + In(G.x[2]) /\ G.nsatt <= G.nsrsrv
        /\ G.st \in Early => G.x[0] = NoSlot /\ G.x[1] = NoSlot /\ G.nsatt + 2 <= G.nsrsrv
        /\ G.st \in {"siopw", "sialw", "sirfw"} => ~Odd(G.base)
    BY <1>1, ZenonT(60) DEF FileOK
  <2>2. G.x \in [Node -> {NoSlot} \cup Slot] /\ G.nsatt \in Int /\ G.nsrsrv \in Int
    BY <1>1, TableTypes
  <2>3. /\ i \in {0, 1, 2} /\ G.x[i] = p
        /\ \A j \in {0, 1, 2} : F.x[j] = IF j = i THEN NoSlot ELSE G.x[j]
    <3>1. Node = {0, 1, 2}
      BY NodeFact, Zenon
    <3>2. F.x = [G.x EXCEPT ![i] = NoSlot] /\ G.x[i] = p /\ i \in Node
      BY <1>1, <1>2, ZenonT(60)
    <3> HIDE DEF G
    <3> QED
      BY <2>2, <3>1, <3>2
  <2>4. F.nsatt = G.nsatt - 1 /\ F.nsrsrv = G.nsrsrv - 1 /\ F.st = G.st /\ F.base = G.base
        /\ new[f] = F
    BY <1>2, <1>4, SMTT(60)
  <2> HIDE DEF G
  <2>5. In(p) = 1 /\ In(NoSlot) = 0 /\ \A j \in {0, 1, 2} : In(G.x[j]) \in {0, 1}
    BY <1>1 DEF In
  <2>6. F.nsatt = In(F.x[0]) + In(F.x[1]) + In(F.x[2])
    <3>1. In(F.x[0]) + In(F.x[1]) + In(F.x[2])
          = In(G.x[0]) + In(G.x[1]) + In(G.x[2]) - 1
      <4>1. CASE i = 0
        BY <2>3, <2>5, <4>1
      <4>2. CASE i = 1
        BY <2>3, <2>5, <4>2
      <4>3. CASE i = 2
        BY <2>3, <2>5, <4>3
      <4>4. i = 0 \/ i = 1 \/ i = 2
        BY <2>3
      <4> QED
        BY <4>1, <4>2, <4>3, <4>4
    <3> QED
      BY <2>1, <2>5, <2>4, <3>1
  <2>7. F.nsatt <= F.nsrsrv
    BY <2>1, <2>2, <2>4
  <2>8. F.st \in Early => F.x[0] = NoSlot /\ F.x[1] = NoSlot /\ F.nsatt + 2 <= F.nsrsrv
    BY <2>1, <2>2, <2>3, <2>4, SMTT(60)
  <2>9. F.st # "null"
    BY <1>1, <2>4 DEF G
  <2> QED
    BY <2>1, <2>6, <2>7, <2>8, <2>9, <2>4 DEF FileOK
<1>7. Tab(w.skt, new, p)
  <2>1. Tab(w.skt, w.fil, NoSlot)
    BY ZenonT(60) DEF Good
  <2>2. ASSUME NEW o \in Slot \ {p} PROVE SktOK(w.skt, new, o)
    <3>1. SktOK(w.skt, w.fil, o) /\ w.skt[o] \in SktT
      BY <1>1, <2>1 DEF Tab
    <3>2. \A g \in File, j \in Node : w.fil[g].x[j] = o => new[g].x[j] = o
      <4> SUFFICES ASSUME NEW g \in File, NEW j \in Node, w.fil[g].x[j] = o
                   PROVE  new[g].x[j] = o
        OBVIOUS
      <4>1. CASE g # f
        BY <1>4, <4>1, Zenon
      <4>2. CASE g = f
        <5>1. j # i /\ w.fil[f].x \in [Node -> {NoSlot} \cup Slot]
          BY <1>1, <4>2, TableTypes
        <5> QED
          BY <1>2, <1>4, <4>2, <5>1, ZenonT(60)
      <4> QED
        BY <4>1, <4>2
    <3> QED
      BY <3>1, <3>2, SMTT(60) DEF SktOK, SktT
  <2>3. ASSUME NEW g \in File PROVE FileOK(new, g)
    BY <1>4, <1>6, <2>1, SMTT(60) DEF Tab, FileOK
  <2>4. ASSUME NEW g \in File, NEW j \in Node, new[g].x[j] # NoSlot
        PROVE  EntryOK(w.skt, new, g, j, p)
    <3>1. w.fil[g].x[j] = new[g].x[j] /\ new[g].st = w.fil[g].st /\ (g = f => j # i)
      <4>1. CASE g # f
        BY <1>4, <4>1
      <4>2. CASE g = f
        <5>1. w.fil[f].x \in [Node -> {NoSlot} \cup Slot]
          BY <1>1, TableTypes
        <5> QED
          BY <1>2, <1>4, <2>4, <4>2, <5>1, ZenonT(60)
      <4> QED
        BY <4>1, <4>2
    <3>2. EntryOK(w.skt, w.fil, g, j, NoSlot)
      BY <2>1, <2>4, <3>1 DEF Tab
    <3>3. new[g].x[j] # p
      <4> SUFFICES ASSUME new[g].x[j] = p PROVE FALSE
        OBVIOUS
      <4>1. w.skt[p].filep = g /\ w.skt[p].sinx = j
        BY <3>1, <3>2, Zenon DEF EntryOK
      <4>2. g = f /\ j = i
        BY <4>1, Zenon DEF At
      <4> QED
        BY <3>1, <4>2, Zenon
    <3> QED
      BY <3>1, <3>2, <3>3, Zenon DEF EntryOK
  <2> QED
    BY <2>2, <2>3, <2>4 DEF Tab
<1>8. Acc(w.skt, new, w.nsl, w.nfl, p, 1)
  <2>1. SeqSum(Rsrv(new)) = SeqSum(Rsrv(w.fil)) - w.fil[f].nsrsrv + F.nsrsrv
        /\ SeqSum(Rsrv(w.fil)) \in Int
    <3>1. w.fil \in [File -> FileT] /\ F \in FileT
      BY <1>1, <1>2, Zenon
    <3> QED
      BY <1>1, <3>1, RsrvSum, Zenon DEF new
  <2>2. w.fil[f].nsrsrv \in Int /\ F.nsrsrv = w.fil[f].nsrsrv - 1
    BY <1>1, <1>2, TableTypes, ZenonT(60)
  <2>3. Cardinality(Frees(new)) = Cardinality(Frees(w.fil))
    <3>1. w.fil \in [File -> FileT] /\ F \in FileT /\ f \in File
          /\ (w.fil[f].st = "null" <=> F.st = "null")
      BY <1>1, <1>2, Zenon
    <3> QED
      BY <3>1, FreesChange, Zenon DEF new
  <2>4. Queue(w.skt, p) = Queue(w.skt, NoSlot)
    BY <1>1 DEF Queue, Attachable
  <2>5. Cardinality(Queue(w.skt, NoSlot)) \in Int /\ NSkt \in Int
    BY TablesFinite, SktMachineAssumption DEF Queue
  <2>6. /\ w.nsl \in Int
        /\ w.nsl + 0 = NSkt - SeqSum(Rsrv(w.fil)) - Cardinality(Queue(w.skt, NoSlot))
        /\ w.nfl = Cardinality(Frees(w.fil))
    BY GoodTypes, ZenonT(60) DEF Good, Acc
  <2>7. SeqSum(Rsrv(new)) = SeqSum(Rsrv(w.fil)) - 1
    BY <2>1, <2>2, SMTT(60)
  <2>8. w.nsl + 1 = NSkt - SeqSum(Rsrv(new)) - Cardinality(Queue(w.skt, p))
    BY <2>1, <2>4, <2>5, <2>6, <2>7
  <2> QED
    BY <2>3, <2>6, <2>8, Zenon DEF Acc
<1>9. Refs(new, w.kf, w.ncprq, w.usr) /\ (SocketsNamed => Owned(w.grp, new))
  <2>1. \A g \in File : (new[g].st = "null" <=> w.fil[g].st = "null") /\ new[g].id = w.fil[g].id
                        /\ new[g].base = w.fil[g].base
    BY <1>2, <1>4
  <2>2. \A id \in Id : Known(new, w.ncprq, id) <=> Known(w.fil, w.ncprq, id)
    BY <2>1 DEF Known
  <2> QED
    <3>1. Refs(w.fil, w.kf, w.ncprq, w.usr) /\ (SocketsNamed => Owned(w.grp, w.fil))
      BY ZenonT(60) DEF Good
    <3> QED
      BY <2>1, <2>2, <3>1 DEF Refs, Owned
<1>10. Good(v, p, 1)
  BY <1>5, <1>7, <1>8, <1>9 DEF Good
<1> QED
  BY <1>2, <1>3, <1>4, <1>5, <1>10, Zenon DEF Dropped

(* All that a procedure has changed in the tables is the state of a file,  *)
(* and his timer.                                                          *)
FileFrame(v, w, f) ==
    /\ v.skt = w.skt /\ v.ssn = w.ssn /\ v.host = w.host
    /\ \A g \in File \ {f} : v.fil[g] = w.fil[g]
    /\ v.fil[f].x = w.fil[f].x /\ v.fil[f].id = w.fil[f].id /\ v.fil[f].base = w.fil[f].base
    /\ v.fil[f].nsatt = w.fil[f].nsatt /\ v.fil[f].nsrsrv = w.fil[f].nsrsrv

(* Frames follow one another.                                              *)
LEMMA FileFrameTrans ==
    ASSUME NEW u, NEW v, NEW w, NEW f, FileFrame(u, v, f), FileFrame(v, w, f)
    PROVE  FileFrame(u, w, f)
<1>1. \A g \in File \ {f} : u.fil[g] = w.fil[g]
  BY Zenon DEF FileFrame
<1> QED
  BY <1>1, Zenon DEF FileFrame

(* What changes nothing of the tables keeps a file's frame.                *)
LEMMA FileFrameSame ==
    ASSUME NEW u, NEW v, NEW w, NEW f, Same(u, v), FileFrame(v, w, f)
    PROVE  FileFrame(u, w, f) /\ u.fil[f].st = v.fil[f].st
BY DEF FileFrame, Same, SameTables

(* Doing nothing keeps a file's frame.                                     *)
LEMMA FileFrameRefl ==
    ASSUME NEW w, NEW f
    PROVE  FileFrame(w, w, f)
BY SMTT(60) DEF FileFrame

(* v is w after the file f has got the state s, all counts kept.           *)
Restated(v, w, f, s, z, d) == Good(v, z, d) /\ FileFrame(v, w, f) /\ v.fil[f].st = s

(* A file is given a new state: the ICP may not begin again, and his       *)
(* sockets may not wait for RFCs that the new state does not expect.       *)
LEMMA FstFile ==
    ASSUME NEW w, NEW z, NEW d, Good(w, z, d), NEW f \in File, w.fil[f].st # "null",
           NEW s \in FileState \ {"null"},
           s \in Early => w.fil[f].st \in Early,
           s \in {"siopw", "sialw", "sirfw"} => ~Odd(w.fil[f].base),
           \A i \in Node : w.fil[f].x[i] # NoSlot /\ w.skt[w.fil[f].x[i]].st \in Fresh =>
                s \in (IF i = ksx_icp THEN {"uiopw", "siopw"} ELSE {"dopnw"}),
           NEW F \in FileT, F.st = s, F.id = w.fil[f].id, F.x = w.fil[f].x,
           F.base = w.fil[f].base, F.nsatt = w.fil[f].nsatt, F.nsrsrv = w.fil[f].nsrsrv
    PROVE  Restated([w EXCEPT !.fil[f] = F], w, f, s, z, d)
<1>1. w.fil[f] \in FileT /\ w \in W /\ w.fil \in [File -> FileT] /\ FileOK(w.fil, f)
  BY GoodTypes DEF Good, Tab
<1>2. [w.fil EXCEPT ![f] = F][f] = F /\ \A g \in File \ {f} : [w.fil EXCEPT ![f] = F][g] = w.fil[g]
  BY <1>1
<1>3. FileOK([w.fil EXCEPT ![f] = F], f)
  BY <1>1, <1>2, SMTT(60) DEF FileOK
<1> DEFINE v == [w EXCEPT !.fil[f] = F]
<1>4. /\ Good(v, z, d)
      /\ v.skt = w.skt /\ v.fil = [w.fil EXCEPT ![f] = F] /\ v.ssn = w.ssn
      /\ v.grp = w.grp /\ v.host = w.host
  BY <1>3, GoodFile
<1> HIDE DEF v
<1> QED
  BY <1>2, <1>4, SMTT(60) DEF Restated, FileFrame, v

(* The new state of a file, his timer left alone.                          *)
LEMMA FstGood ==
    ASSUME NEW w, NEW z, NEW d, Good(w, z, d), NEW f \in File, w.fil[f].st # "null",
           NEW s \in FileState \ {"null"},
           s \in Early => w.fil[f].st \in Early,
           s \in {"siopw", "sialw", "sirfw"} => ~Odd(w.fil[f].base),
           \A i \in Node : w.fil[f].x[i] # NoSlot /\ w.skt[w.fil[f].x[i]].st \in Fresh =>
                s \in (IF i = ksx_icp THEN {"uiopw", "siopw"} ELSE {"dopnw"})
    PROVE  LET v == SetFst(w, f, s)
           IN  Good(v, z, d) /\ FileFrame(v, w, f) /\ v.fil[f].st = s
<1>1. w.fil[f] \in FileT /\ w \in W
  BY GoodTypes
<1> DEFINE F == [w.fil[f] EXCEPT !.st = s]
<1>2. /\ F \in FileT /\ F.st = s /\ F.id = w.fil[f].id /\ F.x = w.fil[f].x /\ F.base = w.fil[f].base
      /\ F.nsatt = w.fil[f].nsatt /\ F.nsrsrv = w.fil[f].nsrsrv
  BY <1>1 DEF FileT
<1>3. SetFst(w, f, s) = [w EXCEPT !.fil[f] = F]
  BY <1>1, ZenonT(60) DEF SetFst, W
<1> HIDE DEF F
<1> DEFINE v == [w EXCEPT !.fil[f] = F]
<1>4. Good(v, z, d) /\ FileFrame(v, w, f) /\ v.fil[f].st = s
  <2>1. Restated(v, w, f, s, z, d)
    BY <1>2, FstFile, ZenonT(60)
  <2> QED
    BY <2>1, Zenon DEF Restated
<1> HIDE DEF v
<1> QED
  BY <1>3, <1>4 DEF v

(* The new state of a file, with his timer set or cleared.                 *)
LEMMA FstTimoGood ==
    ASSUME NEW w, NEW z, NEW d, Good(w, z, d), NEW f \in File, w.fil[f].st # "null",
           NEW s \in FileState \ {"null"}, NEW b \in BOOLEAN,
           s \in Early => w.fil[f].st \in Early,
           s \in {"siopw", "sialw", "sirfw"} => ~Odd(w.fil[f].base),
           \A i \in Node : w.fil[f].x[i] # NoSlot /\ w.skt[w.fil[f].x[i]].st \in Fresh =>
                s \in (IF i = ksx_icp THEN {"uiopw", "siopw"} ELSE {"dopnw"})
    PROVE  LET v == [SetFst(w, f, s) EXCEPT !.fil[f].timo = b]
           IN  Good(v, z, d) /\ FileFrame(v, w, f) /\ v.fil[f].st = s
<1>1. w.fil[f] \in FileT /\ w \in W /\ w.fil \in [File -> FileT]
  BY GoodTypes
<1> DEFINE F == [w.fil[f] EXCEPT !.st = s]
           G == [F EXCEPT !.timo = b]
<1>2. /\ F \in FileT /\ F.st = s /\ F.id = w.fil[f].id /\ F.x = w.fil[f].x /\ F.base = w.fil[f].base
      /\ F.nsatt = w.fil[f].nsatt /\ F.nsrsrv = w.fil[f].nsrsrv
  BY <1>1 DEF FileT
<1>3. SetFst(w, f, s) = [w EXCEPT !.fil[f] = F]
  BY <1>1 DEF SetFst, W
<1> HIDE DEF F
<1>4. /\ G \in FileT /\ G.st = s /\ G.id = w.fil[f].id /\ G.x = w.fil[f].x /\ G.base = w.fil[f].base
      /\ G.nsatt = w.fil[f].nsatt /\ G.nsrsrv = w.fil[f].nsrsrv
  BY <1>2 DEF FileT
<1>5. [SetFst(w, f, s) EXCEPT !.fil[f].timo = b] = [w EXCEPT !.fil[f] = G]
  <2> DEFINE v == [w EXCEPT !.fil[f] = F]
  <2>1. v.fil = [w.fil EXCEPT ![f] = F] /\ v = [w EXCEPT !.fil = [w.fil EXCEPT ![f] = F]]
    BY <1>1 DEF W
  <2>2. v.fil[f] = F
    BY <1>1, <2>1
  <2>3. [v EXCEPT !.fil[f].timo = b] = [v EXCEPT !.fil = [v.fil EXCEPT ![f] = G]]
    BY <2>2
  <2>4. [v.fil EXCEPT ![f] = G] = [w.fil EXCEPT ![f] = G]
    BY <1>1, <2>1
  <2>5. [w EXCEPT !.fil[f] = G] = [w EXCEPT !.fil = [w.fil EXCEPT ![f] = G]]
    BY <1>1 DEF W
  <2> HIDE DEF G
  <2>6. [v EXCEPT !.fil = [w.fil EXCEPT ![f] = G]] = [w EXCEPT !.fil = [w.fil EXCEPT ![f] = G]]
    BY <1>1, <2>1 DEF W
  <2> QED
    BY <1>3, <2>3, <2>4, <2>5, <2>6
<1> HIDE DEF G
<1> DEFINE v == [w EXCEPT !.fil[f] = G]
<1>6. Good(v, z, d) /\ FileFrame(v, w, f) /\ v.fil[f].st = s
  <2>1. Restated(v, w, f, s, z, d)
    BY <1>4, FstFile, ZenonT(60)
  <2> QED
    BY <2>1, Zenon DEF Restated
<1> HIDE DEF v
<1> QED
  BY <1>5, <1>6 DEF v

(* No socket of the file waits for an RFC.                                 *)
LEMMA FstQuiet ==
    ASSUME NEW w, NEW z, NEW d, Good(w, z, d), NEW f \in File, w.fil[f].st # "null",
           NEW s \in FileState \ {"null"},
           s \in Early => w.fil[f].st \in Early,
           s \in {"siopw", "sialw", "sirfw"} => ~Odd(w.fil[f].base),
           \A i \in Node : w.fil[f].x[i] # NoSlot => w.skt[w.fil[f].x[i]].st \notin Fresh
    PROVE  LET v == SetFst(w, f, s)
           IN  Good(v, z, d) /\ FileFrame(v, w, f) /\ v.fil[f].st = s
<1>1. \A i \in Node : w.fil[f].x[i] # NoSlot /\ w.skt[w.fil[f].x[i]].st \in Fresh =>
            s \in (IF i = ksx_icp THEN {"uiopw", "siopw"} ELSE {"dopnw"})
  BY ZenonT(60)
<1> QED
  BY <1>1, FstGood

(* The same, with his timer set or cleared.                                *)
LEMMA FstTimoQuiet ==
    ASSUME NEW w, NEW z, NEW d, Good(w, z, d), NEW f \in File, w.fil[f].st # "null",
           NEW s \in FileState \ {"null"}, NEW b \in BOOLEAN,
           s \in Early => w.fil[f].st \in Early,
           s \in {"siopw", "sialw", "sirfw"} => ~Odd(w.fil[f].base),
           \A i \in Node : w.fil[f].x[i] # NoSlot => w.skt[w.fil[f].x[i]].st \notin Fresh
    PROVE  LET v == [SetFst(w, f, s) EXCEPT !.fil[f].timo = b]
           IN  Good(v, z, d) /\ FileFrame(v, w, f) /\ v.fil[f].st = s
<1>1. \A i \in Node : w.fil[f].x[i] # NoSlot /\ w.skt[w.fil[f].x[i]].st \in Fresh =>
            s \in (IF i = ksx_icp THEN {"uiopw", "siopw"} ELSE {"dopnw"})
  OBVIOUS
<1> QED
  BY <1>1, FstTimoGood

(* A file without waiting sockets is open, or about to be gone.            *)
LEMMA SetFstGood ==
    ASSUME NEW w, NEW z, NEW d, Good(w, z, d), NEW f \in File, w.fil[f].st # "null",
           NEW s \in {"open", "gonew"},
           \A i \in Node : w.fil[f].x[i] # NoSlot => w.skt[w.fil[f].x[i]].st \notin Fresh
    PROVE  /\ Good(SetFst(w, f, s), z, d) /\ SetFst(w, f, s).skt = w.skt
           /\ SetFst(w, f, s).fil[f].st = s
<1>1. s \in FileState \ {"null"} /\ s \notin Early /\ s \notin {"siopw", "sialw", "sirfw"}
  BY DEF FileState, Early
<1>2. \A i \in Node : w.fil[f].x[i] # NoSlot /\ w.skt[w.fil[f].x[i]].st \in Fresh =>
                s \in (IF i = ksx_icp THEN {"uiopw", "siopw"} ELSE {"dopnw"})
  BY SMTT(60)
<1> DEFINE v == SetFst(w, f, s)
<1>3. Good(v, z, d) /\ FileFrame(v, w, f) /\ v.fil[f].st = s
  BY <1>1, <1>2, FstGood
<1> QED
  BY <1>3 DEF FileFrame

(* The check whether the last socket of a file is gone, which then         *)
(* releases him.                                                           *)
LEMMA GonechkGood ==
    ASSUME NEW w, NEW z, NEW d, Good(w, z, d), NEW f \in File, w.fil[f].st # "null"
    PROVE  Good(Gonechk(w, f), z, d)
BY ReleaseGood DEF Gonechk

(* A data socket leaves a file that is open, or opens: the other one is    *)
(* killed, and the file goes with the last.                                *)
LeaveTwin(w, f, i) ==
    LET s  == w.fil[f].st
        w1 == [w EXCEPT !.fil[f] = Detach(w.fil[f], i)]
        w2 == IF s = "dopnw" THEN kw_rdy(w1, w.fil[f].id, TRUE) ELSE w1
        y  == w1.fil[f].x[Other(i)]
        w3 == IF y # NoSlot THEN KillOp(w2, y) ELSE w2
    IN  Gonechk(SetFst(w3, f, "gonew"), f)

(* fi_sgone() does so.                                                     *)
LEMMA LeaveTwinIs ==
    ASSUME NEW w, NEW p, NEW f, NEW i, At(w, p, f, i), i # ksx_icp,
           w.fil[f].st \in {"dopnw", "open"}
    PROVE  fi_sgone(w, p) = LeaveTwin(w, f, i)
<1>1. w.skt[p].sinx # ksx_icp /\ w.fil[w.skt[p].filep].st \in {"dopnw", "open"} =>
        fi_sgone(w, p) = LeaveTwin(w, w.skt[p].filep, w.skt[p].sinx)
  BY Zenon DEF fi_sgone, LeaveTwin
<1> QED
  BY <1>1, Zenon DEF At

(* fi_sgone(): the socket p leaves the list of his file, in whatever state *)
(* the file is; p itself is not yet free.                                  *)
LEMMA SgoneAt ==
    ASSUME NEW w, Good(w, NoSlot, 0), NEW p \in Slot, w.skt[p].st \in Attachable,
           NEW f \in File, NEW i \in Node, At(w, p, f, i),
           w.fil[f].x[i] = p, w.fil[f].st # "null", FileOK(w.fil, f)
    PROVE  Good(fi_sgone(w, p), p, 1)
<1> DEFINE s == w.fil[f].st
           F == Detach(w.fil[f], i)
           w1 == [w EXCEPT !.fil[f] = F]
<1>0. F = Detach(w.fil[f], i)
  OBVIOUS
<1>1. /\ f \in File /\ i \in Node /\ s # "null" /\ FileOK(w.fil, f) /\ w.fil[f] \in FileT
      /\ p # NoSlot
  BY NoSlotFact, GoodTypes, Zenon
<1> HIDE DEF F
<1>2. /\ Good(w1, p, 1) /\ w1.fil[f].x = [w.fil[f].x EXCEPT ![i] = NoSlot]
      /\ w1.fil[f].st = s /\ w1.fil[f].id = w.fil[f].id /\ w1.skt = w.skt
  <2>1. Dropped(w1, w, p, f, i)
    BY <1>0, DropAt, Zenon
  <2> QED
    BY <2>1, Zenon DEF Dropped
<1> HIDE DEF w1
<1>3. ASSUME NEW e \in BOOLEAN PROVE Same(kw_rdy(w1, w.fil[f].id, e), w1)
  BY <1>1, <1>2, TableTypes, GoodTypes, SameReady, Zenon DEF kw_rdy
<1>4. /\ w1.fil[f] \in FileT /\ w1.fil \in [File -> FileT] /\ FileOK(w1.fil, f)
      /\ w1.fil[f].x \in [Node -> {NoSlot} \cup Slot]
  BY <1>1, <1>2, GoodTypes, TableTypes, Zenon DEF Good, Tab
<1>5. CASE i = ksx_icp
  <2>1. CASE s \in {"uisnw", "sialw", "sirfw", "uiopw", "siopw"}
    <3>1. w1.fil[f].nsatt = 0
      <4>1. w.fil[f].x[0] = NoSlot /\ w.fil[f].x[1] = NoSlot
        BY <1>1, <2>1, Zenon DEF FileOK, Early
      <4>2. \A j \in Node : w1.fil[f].x[j] = NoSlot
        <5>1. w.fil[f].x \in [Node -> {NoSlot} \cup Slot]
          BY <1>1, TableTypes
        <5>2. Node = {0, 1, 2} /\ i = 2
          BY <1>5 DEF Node, ksx_icp
        <5> QED
          BY <1>1, <1>2, <4>1, <5>1, <5>2, ZenonT(60)
      <4> QED
        BY <1>1, <1>4, <4>2, NoneAttached
    <3> DEFINE w2 == kw_rdy(w1, w.fil[f].id, TRUE)
    <3>2. Same(w2, w1)
      BY <1>3
    <3>3. fi_sgone(w, p) = f_rlse(w2, f)
      BY <1>5, <2>1, Zenon DEF fi_sgone, At, w1, F
    <3> HIDE DEF w2
    <3>4. Good(w2, p, 1) /\ w2.fil = w1.fil
      BY <1>2, <3>2, GoodSame DEF Same, SameTables
    <3>5. w2.fil[f].st # "null" /\ w2.fil[f].nsatt = 0 /\ f \in File
      BY <1>1, <1>2, <3>1, <3>4
    <3>6. Good(f_rlse(w2, f), p, 1)
      BY <3>4, <3>5, ReleaseGood
    <3> QED
      BY <3>3, <3>6, SMTT(60)
  <2>2. CASE s = "gonew"
    <3>1. fi_sgone(w, p) = Gonechk(w1, f)
      BY <1>5, <2>2, ZenonT(60) DEF fi_sgone, At, w1, F
    <3> QED
      BY <1>1, <1>2, <3>1, GonechkGood
  <2>3. CASE s \notin {"uisnw", "sialw", "sirfw", "uiopw", "siopw", "gonew"}
    <3>1. fi_sgone(w, p) = w1
      BY <1>5, <2>3, Zenon DEF fi_sgone, At, w1, F
    <3> QED
      BY <1>2, <3>1, SMTT(60)
  <2> QED
    BY <2>1, <2>2, <2>3
<1>6. CASE i # ksx_icp
  <2>1. CASE s \in {"dopnw", "open"}
    <3> DEFINE w2 == IF s = "dopnw" THEN kw_rdy(w1, w.fil[f].id, TRUE) ELSE w1
               y == w1.fil[f].x[Other(i)]
               w3 == IF y # NoSlot THEN KillOp(w2, y) ELSE w2
    <3>1. fi_sgone(w, p) = Gonechk(SetFst(w3, f, "gonew"), f)
      <4>1. fi_sgone(w, p) = LeaveTwin(w, f, i)
        BY <1>6, <2>1, LeaveTwinIs, Zenon
      <4> QED
        BY <4>1, Zenon DEF LeaveTwin, w1, F
    <3>2. Other(i) \in Node /\ Node = {Other(i), i, ksx_icp} /\ Other(i) # i
      BY <1>1, <1>6, OtherFact, ZenonT(60)
    <3>3. Good(w2, p, 1) /\ w2.fil = w1.fil /\ w2.skt = w1.skt
      <4>1. Same(w2, w1)
        BY <1>2, <1>3, SameRefl, GoodTypes, Zenon
      <4> HIDE DEF w2
      <4> QED
        BY <1>2, <4>1, GoodSame DEF Same, SameTables
    <3>4. y # NoSlot => y \in Slot /\ y # p
      <4>1. y \in {NoSlot} \cup Slot
        BY <1>4, <3>2
      <4>2. y # NoSlot => EntryOK(w1.skt, w1.fil, f, Other(i), p)
        BY <1>1, <1>2, <3>2, Zenon DEF Good, Tab
      <4> QED
        BY <4>1, <4>2, ZenonT(60) DEF EntryOK
    <3> HIDE DEF w2
    <3>5. Good(w3, p, 1) /\ w3.fil = w1.fil /\ (y # NoSlot => w3.skt[y].st \notin Fresh)
      <4> HIDE DEF y
      <4>1. CASE y # NoSlot
        BY <3>3, <3>4, <4>1, KillOpMoves DEF Frame
      <4>2. CASE y = NoSlot
        BY <3>3, <4>2
      <4> QED
        BY <4>1, <4>2
    <3> HIDE DEF w3
    <3>6. ASSUME NEW j \in Node, w3.fil[f].x[j] # NoSlot
          PROVE  w3.skt[w3.fil[f].x[j]].st \notin Fresh
      <4>1. CASE j = i
        BY <1>1, <1>2, <1>4, <3>5, <3>6, <4>1, TableTypes, ZenonT(60)
      <4>2. CASE j = Other(i)
        BY <3>5, <3>6, <4>2, Zenon
      <4>3. CASE j = ksx_icp
        <5>1. EntryOK(w3.skt, w3.fil, f, j, p)
          BY <1>1, <3>5, <3>6, Zenon DEF Good, Tab
        <5>2. w3.fil[f].st \notin {"uiopw", "siopw"}
          BY <1>2, <2>1, <3>5, Zenon
        <5> QED
          BY <4>3, <5>1, <5>2, Zenon DEF EntryOK
      <4> QED
        BY <3>2, <4>1, <4>2, <4>3, Zenon
    <3>7. Good(SetFst(w3, f, "gonew"), p, 1) /\ SetFst(w3, f, "gonew").fil[f].st = "gonew"
      <4>1. w3.fil[f].st # "null" /\ f \in File /\ Good(w3, p, 1)
        BY <1>1, <1>2, <3>5, Zenon
      <4> QED
        BY <3>6, <4>1, SetFstGood
    <3> QED
      BY <1>1, <3>1, <3>7, GonechkGood
  <2>2. CASE s = "gonew"
    <3>1. fi_sgone(w, p) = Gonechk(w1, f)
      BY <1>6, <2>2, ZenonT(60) DEF fi_sgone, At, w1, F
    <3> QED
      BY <1>1, <1>2, <3>1, GonechkGood
  <2>3. CASE s \notin {"dopnw", "open", "gonew"}
    <3>1. fi_sgone(w, p) = w1
      BY <1>6, <2>3, ZenonT(60) DEF fi_sgone, At, w1, F
    <3> QED
      BY <1>2, <3>1
  <2> QED
    BY <2>1, <2>2, <2>3
<1> QED
  BY <1>5, <1>6

(* The same of a socket with whatever file.                                *)
LEMMA SgoneGood ==
    ASSUME NEW w, Good(w, NoSlot, 0), NEW p \in Slot, w.skt[p].st \in Attachable
    PROVE  Good(fi_sgone(w, p), p, 1)
<1> DEFINE f == w.skt[p].filep
           i == w.skt[p].sinx
<1>1. /\ f \in File /\ i \in Node /\ w.fil[f].x[i] = p /\ w.fil[f].st # "null"
      /\ FileOK(w.fil, f)
  BY FileOfOne, Zenon
<1>2. At(w, p, f, i)
  BY DEF At
<1> HIDE DEF f, i
<1> QED
  BY <1>1, <1>2, SgoneAt, Zenon

(* free_skt(): a socket becomes free, and what it held is given back once. *)
LEMMA FreeGood ==
    ASSUME NEW w, Good(w, NoSlot, 0), NEW p \in Slot, w.skt[p].st # "null"
    PROVE  Good(free_skt(w, p), NoSlot, 0)
<1>1. CASE w.skt[p].st = "q"
  <2>1. Good(w, p, 1) /\ w.skt[p].filep = NoFile
    BY <1>1, FreeQueued
  <2>2. free_skt(w, p) = [w EXCEPT !.nsl = @ + 1, !.skt[p] = NullSkt]
    BY <2>1 DEF free_skt
  <2> QED
    BY <2>1, <2>2, FreeEnd, Zenon
<1>2. CASE w.skt[p].st # "q"
  <2>1. w.skt[p].st \in Attachable
    BY <1>2, GoodTypes DEF SktT, Attachable
  <2>2. w.skt[p].filep # NoFile
    BY <2>1, FileOfIt DEF File, NoFile, Slot, NoSlot
  <2>3. free_skt(w, p) = [fi_sgone(w, p) EXCEPT !.nsl = @ + 1, !.skt[p] = NullSkt]
    BY <2>2 DEF free_skt
  <2>4. Good(fi_sgone(w, p), p, 1)
    BY <2>1, SgoneGood
  <2> QED
    BY <2>3, <2>4, FreeEnd, ZenonT(60)
<1> QED
  BY <1>1, <1>2

(* kill_skt(): a socket is freed at once, or closed first.                 *)
LEMMA KillGood ==
    ASSUME NEW w, Good(w, NoSlot, 0), NEW p \in Slot
    PROVE  Good(kill_skt(w, p), NoSlot, 0)
<1>1. p # NoSlot
  BY SMTT(60) DEF Slot, NoSlot
<1> QED
  BY <1>1, FreeGood, KillOpMoves DEF kill_skt

-----------------------------------------------------------------------------
(* fi_sopn() *)

(* fi_sopn(): a socket of a file is open. The file goes on in his ICP, or  *)
(* is ready when all his sockets are there; as long as places are left he  *)
(* stays in dopnw.                                                         *)
LEMMA SopnGood ==
    ASSUME NEW w, Good(w, NoSlot, 0), NEW p \in Slot, w.skt[p].st = "open",
           NEW f, f = w.skt[p].filep, NEW i, i = w.skt[p].sinx,
           w.fil[f].st \in (IF i = ksx_icp THEN {"uiopw", "siopw"} ELSE {"dopnw"})
    PROVE  LET v == fi_sopn(w, p) IN
           /\ Good(v, NoSlot, 0) /\ FileFrame(v, w, f)
           /\ i # ksx_icp /\ w.fil[f].nsatt < w.fil[f].nsrsrv => v.fil[f].st = "dopnw"
<1> DEFINE s == w.fil[f].st
           other == w.fil[f].x[Other(i)]
           w1 == kw_mod(w, p)
           w2 == IF Odd(w.skt[p].lskt) THEN w1 ELSE hw(w1, "all", p)
           h1 == hw(w1, "all", p)
<1>0. p # NoSlot /\ w.skt[p].st \in Attachable /\ w.skt[p].st \notin Fresh
  BY DEF Slot, NoSlot, Attachable, SktState, Fresh
<1>1. /\ f \in File /\ i \in Node /\ w.fil[f].x[i] = p /\ w.fil[f].id \in {NoId} \cup Id
      /\ FileOK(w.fil, f) /\ s # "null" /\ w \in W /\ w.fil[f] \in FileT
  <2>1. /\ w.skt[p].filep \in File /\ w.skt[p].sinx \in Node
        /\ w.fil[w.skt[p].filep].x[w.skt[p].sinx] = p
        /\ w.fil[w.skt[p].filep].id \in {NoId} \cup Id
        /\ w.fil[w.skt[p].filep].st # "null" /\ FileOK(w.fil, w.skt[p].filep)
    BY <1>0, FileOfOne, ZenonT(60)
  <2>2. w \in W /\ \A g \in File : w.fil[g] \in FileT
    BY GoodTypes, Zenon
  <2> QED
    BY <2>1, <2>2, ZenonT(60)
<1>2. Same(w1, w) /\ Same(w2, w) /\ Same(h1, w)
  <2>1. Same(w1, w) /\ w1 \in W
    BY <1>0, KwSame DEF Same
  <2> HIDE DEF w1
  <2>2. Same(hw(w1, "all", p), w1)
    BY <2>1, SameHw
  <2> QED
    BY <2>1, <2>2, SameTrans
<1> HIDE DEF w1, w2, h1
<1>3. ASSUME NEW v, Same(v, w)
      PROVE  Good(v, NoSlot, 0) /\ v.fil = w.fil /\ v.skt = w.skt /\ FileFrame(v, w, f)
             /\ v.fil[f].st = s
  BY <1>3, GoodSame, ZenonT(60) DEF Same, SameTables, FileFrame
<1>4. \A u, v : FileFrame(u, v, f) /\ FileFrame(v, w, f) => FileFrame(u, w, f)
  BY FileFrameTrans
<1>5. CASE i = ksx_icp
  <2>1. s \in {"uiopw", "siopw"} /\ s \in Early
    BY <1>5, ZenonT(60) DEF Early
  <2>2. \A j \in Node : w.fil[f].x[j] # NoSlot => w.skt[w.fil[f].x[j]].st \notin Fresh
    <3>1. w.fil[f].x[0] = NoSlot /\ w.fil[f].x[1] = NoSlot
      BY <1>1, <2>1, Zenon DEF FileOK
    <3>2. Node = {0, 1, ksx_icp}
      BY DEF Node, ksx_icp
    <3> QED
      BY <1>0, <1>1, <1>5, <3>1, <3>2
  <2>3. CASE s = "uiopw"
    <3>1. fi_sopn(w, p) = SetFst(h1, f, "uisnw")
      BY <1>5, <2>3, SMTT(60) DEF fi_sopn, h1, w1
    <3>2. Good(h1, NoSlot, 0) /\ h1.fil = w.fil /\ h1.skt = w.skt /\ FileFrame(h1, w, f)
      BY <1>2, <1>3
    <3>3. "uisnw" \in FileState \ {"null"} /\ "uisnw" \notin {"siopw", "sialw", "sirfw"}
          /\ TRUE \in BOOLEAN
      BY DEF FileState
    <3>4. Good(SetFst(h1, f, "uisnw"), NoSlot, 0) /\ FileFrame(SetFst(h1, f, "uisnw"), h1, f)
      <4>1. h1.fil[f].st # "null" /\ h1.fil[f].st \in Early
            /\ \A j \in Node : h1.fil[f].x[j] # NoSlot => h1.skt[h1.fil[f].x[j]].st \notin Fresh
        BY <1>1, <2>1, <2>2, <3>2, Zenon
      <4> QED
        BY <1>1, <3>2, <3>3, <4>1, FstQuiet, ZenonT(60)
    <3> QED
      BY <1>4, <1>5, <3>1, <3>2, <3>4
  <2>4. CASE s = "siopw"
    <3> DEFINE v == [SetFst(w1, f, "sialw") EXCEPT !.fil[f].timo = TRUE]
    <3>1. fi_sopn(w, p) = v
      BY <1>5, <2>4 DEF fi_sopn, w1
    <3>2. Good(w1, NoSlot, 0) /\ w1.fil = w.fil /\ w1.skt = w.skt /\ FileFrame(w1, w, f)
      BY <1>2, <1>3
    <3>3. "sialw" \in FileState \ {"null"} /\ TRUE \in BOOLEAN /\ ~Odd(w.fil[f].base)
      BY <1>1, <2>4 DEF FileState, FileOK
    <3>4. Good(v, NoSlot, 0) /\ FileFrame(v, w1, f)
      <4>1. w1.fil[f].st # "null" /\ w1.fil[f].st \in Early /\ ~Odd(w1.fil[f].base)
            /\ \A j \in Node : w1.fil[f].x[j] # NoSlot => w1.skt[w1.fil[f].x[j]].st \notin Fresh
        BY <1>1, <2>1, <2>2, <3>2, <3>3, Zenon
      <4> QED
        BY <1>1, <3>2, <3>3, <4>1, FstTimoQuiet, Zenon
    <3> QED
      BY <1>4, <1>5, <3>1, <3>2, <3>4, Zenon
  <2> QED
    BY <2>1, <2>3, <2>4
<1>6. CASE i # ksx_icp
  <2>1. s = "dopnw"
    BY <1>6
  <2>2. CASE w.fil[f].nsatt = w.fil[f].nsrsrv /\ (other = NoSlot \/ w.skt[other].st = "open")
    <3> DEFINE v == [SetFst(w2, f, "open") EXCEPT !.fil[f].timo = FALSE]
    <3>1. fi_sopn(w, p) = kw_rdy(v, w.fil[f].id, FALSE)
      BY <1>6, <2>1, <2>2, ZenonT(60) DEF fi_sopn, w1, w2
    <3>2. Good(w2, NoSlot, 0) /\ w2.fil = w.fil /\ w2.skt = w.skt /\ FileFrame(w2, w, f)
      BY <1>2, <1>3
    <3>3. "open" \in FileState \ {"null"} /\ "open" \notin {"siopw", "sialw", "sirfw"}
          /\ FALSE \in BOOLEAN /\ "open" \notin Early
      BY DEF FileState, Early
    <3>4. \A j \in Node : w.fil[f].x[j] # NoSlot => w.skt[w.fil[f].x[j]].st \notin Fresh
      <4>1. Node = {i, Other(i), ksx_icp}
        BY <1>1, <1>6, OtherFact, Zenon
      <4>2. w.fil[f].x[ksx_icp] # NoSlot => EntryOK(w.skt, w.fil, f, ksx_icp, NoSlot)
        BY <1>1, <4>1, ZenonT(60) DEF Good, Tab
      <4>3. w.fil[f].x[ksx_icp] # NoSlot => w.skt[w.fil[f].x[ksx_icp]].st \notin Fresh
        BY <2>1, <4>2, Zenon DEF EntryOK
      <4>4. w.fil[f].x[Other(i)] # NoSlot => w.skt[w.fil[f].x[Other(i)]].st \notin Fresh
        BY <2>2, Zenon DEF Fresh
      <4> QED
        BY <1>0, <1>1, <4>1, <4>3, <4>4, ZenonT(60)
    <3>5. Good(v, NoSlot, 0) /\ FileFrame(v, w2, f)
      <4>1. w2.fil[f].st # "null"
            /\ \A j \in Node : w2.fil[f].x[j] # NoSlot => w2.skt[w2.fil[f].x[j]].st \notin Fresh
        BY <1>1, <3>2, <3>4, Zenon
      <4> QED
        BY <1>1, <3>2, <3>3, <4>1, FstTimoQuiet, ZenonT(60)
    <3> HIDE DEF v
    <3>6. Same(kw_rdy(v, w.fil[f].id, FALSE), v)
      BY <1>1, <3>5, GoodTypes, SameReady DEF kw_rdy
    <3>7. FileFrame(v, w, f) /\ ~(w.fil[f].nsatt < w.fil[f].nsrsrv)
      <4>1. w.fil[f].nsatt \in Int
        BY <1>1, TableTypes
      <4>2. FileFrame(v, w, f)
        BY <1>4, <3>2, <3>5
      <4> HIDE DEF v
      <4>3. \A a, b : a \in Int /\ a = b => ~(a < b)
        OBVIOUS
      <4>4. ~(w.fil[f].nsatt < w.fil[f].nsrsrv)
        BY <2>2, <4>1, <4>3, ZenonT(60)
      <4> QED
        BY <4>2, <4>4, Zenon
    <3>8. Good(kw_rdy(v, w.fil[f].id, FALSE), NoSlot, 0)
          /\ FileFrame(kw_rdy(v, w.fil[f].id, FALSE), w, f)
      BY <3>5, <3>6, <3>7, GoodSame, FileFrameSame
    <3> QED
      BY <3>1, <3>7, <3>8, Zenon
  <2>3. CASE ~(w.fil[f].nsatt = w.fil[f].nsrsrv /\ (other = NoSlot \/ w.skt[other].st = "open"))
    <3>1. fi_sopn(w, p) = w2
      BY <1>6, <2>1, <2>3, Zenon DEF fi_sopn, w1, w2
    <3> QED
      BY <1>2, <1>3, <2>1, <3>1
  <2> QED
    BY <2>2, <2>3, Zenon
<1> QED
  BY <1>5, <1>6

-----------------------------------------------------------------------------
(* A socket is attached to a file *)

(* What the tables do not hold may change as it likes.                     *)
LEMMA GoodElse ==
    ASSUME NEW w, NEW z, NEW d, Good(w, z, d), NEW v \in W,
           v.skt = w.skt, v.fil = w.fil, v.nsl = w.nsl, v.nfl = w.nfl, v.grp = w.grp,
           v.died = w.died, v.ssn \subseteq w.ssn, v.kf = w.kf, v.usr = w.usr,
           v.ncprq = w.ncprq
    PROVE  Good(v, z, d)
BY DEF Good

(* The host that the daemon has in hand is nobody's reference.             *)
LEMMA HostGood ==
    ASSUME NEW w, NEW z, NEW d, Good(w, z, d), NEW h \in Int
    PROVE  LET v == [w EXCEPT !.host = h] IN
           Good(v, z, d) /\ v.skt = w.skt /\ v.fil = w.fil /\ v.ssn = w.ssn
<1> DEFINE v == [w EXCEPT !.host = h]
<1>1. w \in W
  BY GoodTypes
<1>2. /\ v \in W /\ v.skt = w.skt /\ v.fil = w.fil /\ v.nsl = w.nsl /\ v.nfl = w.nfl
      /\ v.grp = w.grp /\ v.died = w.died /\ v.ssn = w.ssn /\ v.kf = w.kf /\ v.usr = w.usr
      /\ v.ncprq = w.ncprq
  BY <1>1 DEF W
<1> HIDE DEF v
<1>3. Good(v, z, d)
  BY <1>2, GoodElse
<1> QED
  BY <1>2, <1>3 DEF v

(* The place i of the file is empty and set aside for a socket.            *)
Ready(w, f, i) ==
    /\ w.fil[f].x[i] = NoSlot
    /\ w.fil[f].nsatt < w.fil[f].nsrsrv
    /\ i = ksx_icp => w.fil[f].nsatt + 3 <= w.fil[f].nsrsrv
    /\ w.fil[f].st \in (IF i = ksx_icp THEN {"uiopw", "siopw"} ELSE {"dopnw"})

(* All that has changed in the tables is the socket p and his place.       *)
Attached(v, w, f, i, p) ==
    /\ v.ssn = w.ssn
    /\ \A o \in Slot \ {p} : v.skt[o] = w.skt[o]
    /\ v.fil[f].x = [w.fil[f].x EXCEPT ![i] = p]
    /\ v.fil[f].st = w.fil[f].st
    /\ v.fil[f].nsatt = w.fil[f].nsatt + 1
    /\ v.fil[f].nsrsrv = w.fil[f].nsrsrv

(* The fields of a file one more socket is attached to.                    *)
LEMMA AttachTypes ==
    ASSUME NEW F \in FileT, NEW i \in Node, NEW p \in Slot
    PROVE  /\ Attach(F, i, p) \in FileT /\ Attach(F, i, p).x = [F.x EXCEPT ![i] = p]
           /\ Attach(F, i, p).st = F.st /\ Attach(F, i, p).id = F.id
           /\ Attach(F, i, p).base = F.base
           /\ Attach(F, i, p).nsatt = F.nsatt + 1 /\ Attach(F, i, p).nsrsrv = F.nsrsrv
<1> DEFINE x == [F.x EXCEPT ![i] = p]
           a == [F EXCEPT !.x = x]
           b == [a EXCEPT !.nsatt = F.nsatt + 1]
<1>1. x \in [Node -> {NoSlot} \cup Slot] /\ F.nsatt \in Int /\ F.nsrsrv \in Int
  BY TableTypes
<1>2. Attach(F, i, p) = b
  BY DEF Attach, FileT
<1> HIDE DEF x
<1>3. a \in FileT /\ a.x = x /\ a.st = F.st /\ a.id = F.id /\ a.base = F.base
      /\ a.nsatt = F.nsatt /\ a.nsrsrv = F.nsrsrv
  BY <1>1 DEF FileT
<1> HIDE DEF a
<1>4. b \in FileT /\ b.x = x /\ b.st = F.st /\ b.id = F.id /\ b.base = F.base
      /\ b.nsatt = F.nsatt + 1 /\ b.nsrsrv = F.nsrsrv
  BY <1>1, <1>3 DEF FileT
<1> QED
  BY <1>2, <1>4 DEF x

(* The counts of a file stay right when a socket takes an empty place.     *)
LEMMA AttachFile ==
    ASSUME NEW fils \in [File -> FileT], NEW f \in File, NEW i \in Node, NEW p \in Slot,
           FileOK(fils, f), fils[f].x[i] = NoSlot, fils[f].nsatt < fils[f].nsrsrv,
           i = ksx_icp => fils[f].nsatt + 3 <= fils[f].nsrsrv,
           i # ksx_icp => fils[f].st \notin Early
    PROVE  FileOK([fils EXCEPT ![f] = Attach(fils[f], i, p)], f)
<1> DEFINE G == fils[f]
           F == Attach(G, i, p)
<1>1. G \in FileT
  OBVIOUS
<1>2. /\ G.nsatt = In(G.x[0]) + In(G.x[1]) + In(G.x[2]) /\ G.nsatt <= G.nsrsrv
      /\ G.st = "null" => G.nsrsrv = 0
      /\ G.st \in Early => G.x[0] = NoSlot /\ G.x[1] = NoSlot /\ G.nsatt + 2 <= G.nsrsrv
      /\ G.st \in {"siopw", "sialw", "sirfw"} => ~Odd(G.base)
  BY DEF FileOK
<1>3. F.x = [G.x EXCEPT ![i] = p] /\ F.st = G.st /\ F.base = G.base
      /\ F.nsatt = G.nsatt + 1 /\ F.nsrsrv = G.nsrsrv
  BY <1>1, AttachTypes
<1>4. G.x \in [Node -> {NoSlot} \cup Slot] /\ G.nsatt \in Int /\ G.nsrsrv \in Int
  BY <1>1, TableTypes
<1>5. /\ i \in {0, 1, 2} /\ G.x[i] = NoSlot /\ p # NoSlot
      /\ \A j \in {0, 1, 2} : F.x[j] = IF j = i THEN p ELSE G.x[j]
  <2>1. Node = {0, 1, 2} /\ p # NoSlot
    BY DEF Node, Slot, NoSlot
  <2> HIDE DEF F
  <2> QED
    BY <1>3, <1>4, <2>1
<1>6. G.nsatt < G.nsrsrv /\ (i = 2 => G.nsatt + 3 <= G.nsrsrv) /\ (i # 2 => G.st \notin Early)
  BY DEF ksx_icp
<1>7. [fils EXCEPT ![f] = F][f] = F
  OBVIOUS
<1> HIDE DEF F, G
<1>8. In(p) = 1 /\ In(NoSlot) = 0 /\ \A j \in {0, 1, 2} : In(G.x[j]) \in {0, 1}
  BY <1>5 DEF In
<1>9. F.nsatt = In(F.x[0]) + In(F.x[1]) + In(F.x[2])
  <2>1. In(F.x[0]) + In(F.x[1]) + In(F.x[2])
        = In(G.x[0]) + In(G.x[1]) + In(G.x[2]) + 1
    <3>1. CASE i = 0
      BY <1>5, <1>8, <3>1
    <3>2. CASE i = 1
      BY <1>5, <1>8, <3>2
    <3>3. CASE i = 2
      BY <1>5, <1>8, <3>3
    <3>4. i = 0 \/ i = 1 \/ i = 2
      BY <1>5
    <3> QED
      BY <3>1, <3>2, <3>3, <3>4
  <2> QED
    BY <1>2, <1>3, <1>8, <2>1
<1>10. F.nsatt <= F.nsrsrv /\ F.st # "null"
  <2>1. F.nsatt <= F.nsrsrv
    BY <1>3, <1>4, <1>6
  <2>2. G.nsatt >= 0
    BY <1>2, <1>8
  <2>3. G.nsrsrv # 0
    BY <1>4, <1>6, <2>2
  <2> QED
    BY <1>2, <1>3, <2>1, <2>3
<1>11. F.st \in Early => F.x[0] = NoSlot /\ F.x[1] = NoSlot /\ F.nsatt + 2 <= F.nsrsrv
  BY <1>2, <1>3, <1>4, <1>5, <1>6
<1> QED
  BY <1>2, <1>3, <1>7, <1>9, <1>10, <1>11 DEF FileOK, F, G

(* The lists stay right when a free or queued socket takes the place.      *)
LEMMA AttachTab ==
    ASSUME NEW skts \in [Slot -> SktT], NEW fils \in [File -> FileT], Tab(skts, fils, NoSlot),
           NEW f \in File, NEW i \in Node, NEW p \in Slot, NEW s \in SktT,
           skts[p].st \in {"null", "q"},
           s.filep = f, s.sinx = i, s.st \in Attachable, i = ksx_rcv => ~Odd(s.lskt),
           fils[f].x[i] = NoSlot, fils[f].nsatt < fils[f].nsrsrv,
           i = ksx_icp => fils[f].nsatt + 3 <= fils[f].nsrsrv,
           fils[f].st \in (IF i = ksx_icp THEN {"uiopw", "siopw"} ELSE {"dopnw"})
    PROVE  Tab([skts EXCEPT ![p] = s], [fils EXCEPT ![f] = Attach(fils[f], i, p)], NoSlot)
<1> DEFINE F == Attach(fils[f], i, p)
           nskts == [skts EXCEPT ![p] = s]
           nfils == [fils EXCEPT ![f] = F]
<1>1. fils[f] \in FileT /\ p # NoSlot /\ NoSlot \notin Slot
  <2>1. p # NoSlot /\ NoSlot \notin Slot
    BY DEF Slot, NoSlot
  <2> QED
    BY <2>1
<1>2. F.x = [fils[f].x EXCEPT ![i] = p] /\ F.st = fils[f].st
  BY <1>1, AttachTypes
<1>3. FileOK(nfils, f)
  <2>1. FileOK(fils, f)
    BY DEF Tab
  <2>2. i # ksx_icp => fils[f].st \notin Early
    BY DEF Early
  <2> QED
    BY <2>1, <2>2, AttachFile
<1>4. /\ nskts[p] = s /\ \A o \in Slot \ {p} : nskts[o] = skts[o]
      /\ nfils[f] = F /\ \A g \in File \ {f} : nfils[g] = fils[g]
  OBVIOUS
<1>5. fils[f].x \in [Node -> {NoSlot} \cup Slot]
  BY <1>1, TableTypes
<1> HIDE DEF nskts, nfils, F
<1>6. /\ nfils[f].st = fils[f].st
      /\ nfils[f].x[i] = p /\ \A j \in Node \ {i} : nfils[f].x[j] = fils[f].x[j]
  BY <1>2, <1>4, <1>5
<1>7. ASSUME NEW o \in Slot \ {NoSlot} PROVE SktOK(nskts, nfils, o)
  <2>1. SktOK(skts, fils, o) /\ skts[o] \in SktT
    BY DEF Tab
  <2>2. CASE o = p
    BY <1>4, <1>6, <2>2 DEF SktOK
  <2>3. CASE o # p
    <3>1. ASSUME NEW g \in File, NEW j \in Node, fils[g].x[j] = o
          PROVE  nfils[g].x[j] = o
      <4>1. CASE g = f
        <5>1. j # i
          BY <1>1, <3>1, <4>1
        <5> QED
          BY <1>6, <3>1, <4>1, <5>1
      <4>2. CASE g # f
        BY <1>4, <3>1, <4>2
      <4> QED
        BY <4>1, <4>2
    <3> QED
      BY <1>4, <2>1, <2>3, <3>1 DEF SktOK, SktT
  <2> QED
    BY <2>2, <2>3
<1>8. ASSUME NEW g \in File PROVE FileOK(nfils, g)
  <2>1. CASE g = f
    BY <1>3, <2>1
  <2>2. CASE g # f
    <3>1. nfils[g] = fils[g] /\ FileOK(fils, g)
      BY <1>4, <2>2 DEF Tab
    <3> QED
      BY <3>1 DEF FileOK
  <2> QED
    BY <2>1, <2>2
<1>9. ASSUME NEW g \in File, NEW j \in Node, nfils[g].x[j] # NoSlot
      PROVE  EntryOK(nskts, nfils, g, j, NoSlot)
  <2>1. CASE g = f /\ j = i
    BY <1>1, <1>4, <1>6, <2>1 DEF EntryOK
  <2>2. CASE ~(g = f /\ j = i)
    <3>1. nfils[g].x[j] = fils[g].x[j] /\ nfils[g].st = fils[g].st
      BY <1>4, <1>6, <2>2
    <3>2. EntryOK(skts, fils, g, j, NoSlot)
      BY <1>9, <3>1 DEF Tab
    <3>3. fils[g].x[j] \in Slot /\ fils[g].x[j] # p
      <4>1. fils[g] \in FileT
        OBVIOUS
      <4>2. fils[g].x[j] \in Slot
        BY <1>9, <3>1, <4>1, TableTypes
      <4>3. skts[fils[g].x[j]].st \notin {"null", "q"}
        BY <3>2 DEF EntryOK, Attachable
      <4> QED
        BY <4>2, <4>3
    <3> QED
      BY <1>4, <3>1, <3>2, <3>3 DEF EntryOK
  <2> QED
    BY <2>1, <2>2
<1>10. Tab(nskts, nfils, NoSlot)
  BY <1>7, <1>8, <1>9 DEF Tab
<1> QED
  BY <1>10 DEF nskts, nfils, F

(* The socket p becomes s and is attached.                                 *)
Joined(w, f, i, p, s, ns, h) ==
    [w EXCEPT !.skt[p] = s, !.fil[f] = Attach(w.fil[f], i, p), !.nsl = ns, !.host = h]

(* att_skt(): what was reserved for the place is now used for the socket;  *)
(* a queued socket gives back what it had taken.                           *)
LEMMA AttachGood ==
    ASSUME NEW w, Good(w, NoSlot, 0), NEW f \in File, NEW i \in Node, Ready(w, f, i),
           NEW p \in Slot, w.skt[p].st \in {"null", "q"},
           NEW s \in SktT, s.filep = f, s.sinx = i, s.st \in Attachable,
           i = ksx_rcv => ~Odd(s.lskt),
           NEW ns, ns = IF w.skt[p].st = "q" THEN w.nsl + 1 ELSE w.nsl, NEW h \in Int
    PROVE  LET v == Joined(w, f, i, p, s, ns, h)
           IN  Good(v, NoSlot, 0) /\ Attached(v, w, f, i, p) /\ v.skt[p] = s
<1> DEFINE F == Attach(w.fil[f], i, p)
           nskts == [w.skt EXCEPT ![p] = s]
           nfils == [w.fil EXCEPT ![f] = F]
           v == [w EXCEPT !.skt = nskts, !.fil = nfils, !.nsl = ns, !.host = h]
<1>1. /\ w \in W /\ w.skt \in [Slot -> SktT] /\ w.fil \in [File -> FileT]
      /\ w.nsl \in Int /\ w.fil[f] \in FileT /\ w.ssn \in SUBSET Slot
  BY GoodTypes
<1>2. /\ F \in FileT /\ F.x = [w.fil[f].x EXCEPT ![i] = p] /\ F.st = w.fil[f].st
      /\ F.id = w.fil[f].id /\ F.base = w.fil[f].base
      /\ F.nsatt = w.fil[f].nsatt + 1 /\ F.nsrsrv = w.fil[f].nsrsrv
  BY <1>1, AttachTypes
<1>3. Tab(nskts, nfils, NoSlot)
  <2>1. Tab(w.skt, w.fil, NoSlot)
    BY DEF Good
  <2> QED
    BY <1>1, <2>1, AttachTab DEF Ready
<1>4. Joined(w, f, i, p, s, ns, h) = v
  <2> HIDE DEF F
  <2>1. [w EXCEPT !.skt[p] = s, !.fil[f] = F, !.nsl = ns, !.host = h] = v
    BY <1>1 DEF W
  <2> QED
    BY <2>1 DEF F, Joined
<1> HIDE DEF F
<1>5. /\ nskts \in [Slot -> SktT] /\ nskts[p] = s /\ \A o \in Slot \ {p} : nskts[o] = w.skt[o]
      /\ nfils \in [File -> FileT] /\ nfils[f] = F /\ \A g \in File \ {f} : nfils[g] = w.fil[g]
  BY <1>1, <1>2
<1>6. ns \in Int
  BY <1>1
<1>7. SeqSum(Rsrv(nfils)) = SeqSum(Rsrv(w.fil)) /\ SeqSum(Rsrv(w.fil)) \in Int
  <2>1. SeqSum(Rsrv(nfils)) = SeqSum(Rsrv(w.fil)) - w.fil[f].nsrsrv + F.nsrsrv
        /\ SeqSum(Rsrv(w.fil)) \in Int
    BY <1>1, <1>2, RsrvSum
  <2>2. w.fil[f].nsrsrv \in Int
    BY <1>1, TableTypes
  <2> HIDE DEF nfils
  <2> QED
    BY <1>2, <2>1, <2>2
<1>8. Cardinality(Frees(nfils)) = Cardinality(Frees(w.fil)) /\ w.fil[f].st # "null"
  <2>1. w.fil[f].st # "null"
    BY DEF Ready
  <2> QED
    BY <1>1, <1>2, <2>1, FreesChange
<1> HIDE DEF nskts, nfils
<1>9. /\ v \in W /\ v.skt = nskts /\ v.fil = nfils /\ v.nsl = ns /\ v.nfl = w.nfl
      /\ v.grp = w.grp /\ v.ssn = w.ssn /\ v.died = w.died
      /\ v.kf = w.kf /\ v.usr = w.usr /\ v.ncprq = w.ncprq
  BY <1>1, <1>5, <1>6 DEF W
<1> HIDE DEF v
<1>10. ns = NSkt - SeqSum(Rsrv(nfils)) - Cardinality(Queue(nskts, NoSlot))
  <2>1. IsFiniteSet(Queue(w.skt, NoSlot)) /\ Cardinality(Queue(w.skt, NoSlot)) \in Nat
        /\ NSkt \in Int
    BY TablesFinite, SktMachineAssumption DEF Queue
  <2>2. w.nsl + 0 = NSkt - SeqSum(Rsrv(w.fil)) - Cardinality(Queue(w.skt, NoSlot))
    BY DEF Good, Acc
  <2>3. s.st # "q" /\ NoSlot \notin Slot
    BY DEF Attachable, NoSlot, Slot
  <2>4. CASE w.skt[p].st = "q"
    <3>1. Queue(nskts, NoSlot) = Queue(w.skt, NoSlot) \ {p} /\ p \in Queue(w.skt, NoSlot)
      BY <1>5, <2>3, <2>4 DEF Queue
    <3>2. Cardinality(Queue(nskts, NoSlot)) = Cardinality(Queue(w.skt, NoSlot)) - 1
      BY <2>1, <3>1, FS_RemoveElement, ZenonT(60)
    <3> QED
      BY <1>1, <1>7, <2>1, <2>2, <2>4, <3>2
  <2>5. CASE w.skt[p].st # "q"
    <3>1. Queue(nskts, NoSlot) = Queue(w.skt, NoSlot)
      BY <1>5, <2>3, <2>5 DEF Queue
    <3> QED
      BY <1>1, <1>7, <2>1, <2>2, <2>5, <3>1
  <2> QED
    BY <2>4, <2>5
<1>11. Acc(v.skt, v.fil, v.nsl, v.nfl, NoSlot, 0)
  BY <1>6, <1>8, <1>9, <1>10 DEF Good, Acc
<1>12. \A g \in File : (nfils[g].st = "null" <=> w.fil[g].st = "null") /\ nfils[g].id = w.fil[g].id
                       /\ nfils[g].base = w.fil[g].base
  BY <1>2, <1>5
<1>13. Refs(v.fil, v.kf, v.ncprq, v.usr) /\ (SocketsNamed => Owned(v.grp, v.fil))
  <2>1. \A id \in Id : Known(nfils, w.ncprq, id) <=> Known(w.fil, w.ncprq, id)
    BY <1>12 DEF Known
  <2> QED
    BY <1>9, <1>12, <2>1 DEF Good, Refs, Owned
<1>14. \A o \in v.ssn : v.skt[o].st # "q"
  <2>1. s.st # "q"
    BY DEF Attachable
  <2> QED
    BY <1>1, <1>5, <1>9, <2>1 DEF Good
<1>15. Good(v, NoSlot, 0)
  BY <1>3, <1>9, <1>11, <1>13, <1>14 DEF Good
<1>16. Attached(v, w, f, i, p) /\ v.skt[p] = s
  BY <1>2, <1>5, <1>9 DEF Attached
<1> QED
  BY <1>4, <1>15, <1>16

(* What a request for a socket of the file makes of the file: the place i  *)
(* may be taken, and a file with more sockets to come waits on for them.   *)
Plugged(v, w, f, i) ==
    /\ Good(v, NoSlot, 0)
    /\ \A j \in Node \ {i} : v.fil[f].x[j] = w.fil[f].x[j]
    /\ v.fil[f].nsatt <= w.fil[f].nsatt + 1 /\ v.fil[f].nsrsrv = w.fil[f].nsrsrv
    /\ i # ksx_icp /\ w.fil[f].nsatt + 1 < w.fil[f].nsrsrv => v.fil[f].st = "dopnw"

(* An attached socket fills the place i and nothing else of the file.      *)
LEMMA AttachedPlugged ==
    ASSUME NEW w, Good(w, NoSlot, 0), NEW f \in File, NEW i \in Node, Ready(w, f, i),
           NEW p, NEW v, Good(v, NoSlot, 0), Attached(v, w, f, i, p)
    PROVE  Plugged(v, w, f, i)
<1>1. w.fil[f] \in FileT
  BY GoodTypes
<1>2. w.fil[f].x \in [Node -> {NoSlot} \cup Slot] /\ w.fil[f].nsatt \in Int
  BY <1>1, TableTypes
<1>3. \A j \in Node \ {i} : v.fil[f].x[j] = w.fil[f].x[j]
  BY <1>2 DEF Attached
<1> QED
  BY <1>2, <1>3 DEF Plugged, Attached, Ready

(* What changes nothing of the tables keeps the place filled.              *)
LEMMA PluggedSame ==
    ASSUME NEW w, NEW u, NEW v, NEW f, NEW i, Plugged(v, w, f, i), Same(u, v)
    PROVE  Plugged(u, w, f, i)
<1>1. Good(u, NoSlot, 0) /\ u.fil = v.fil
  BY GoodSame DEF Plugged, Same, SameTables
<1> QED
  BY <1>1 DEF Plugged

(* A place that was not filled is as it was.                               *)
LEMMA PluggedRefl ==
    ASSUME NEW w, Good(w, NoSlot, 0), NEW f \in File, NEW i \in Node, Ready(w, f, i)
    PROVE  Plugged(w, w, f, i)
<1>1. w.fil[f] \in FileT
  BY GoodTypes
<1>2. w.fil[f].nsatt \in Int
  BY <1>1, TableTypes
<1> QED
  BY <1>2 DEF Plugged, Ready

(* lsint_q(): the queued socket p has been attached to the file.           *)
Parked(w, f, i, p) ==
    Joined(w, f, i, p, [w.skt[p] EXCEPT !.filep = f, !.sinx = i, !.st = "open"],
           w.nsl + 1, w.skt[p].host)

(* Then the kernel and the host are told, and the connection is open.      *)
LEMMA LsintIs ==
    ASSUME NEW w, Good(w, NoSlot, 0), NEW r, NEW f \in File, f = r.filep,
           NEW i \in Node, i = r.sinx, Ready(w, f, i),
           NEW p \in Slot, w.skt[p].st = "q", i = ksx_rcv => ~Odd(w.skt[p].lskt)
    PROVE  LET a == Parked(w, f, i, p) IN
           /\ lsint_q(w, r, p) = fi_sopn(hw(kw_stup(a, p), "rfc", p), p)
           /\ Good(a, NoSlot, 0) /\ Attached(a, w, f, i, p)
           /\ a.skt[p].st = "open" /\ a.skt[p].filep = f /\ a.skt[p].sinx = i
<1> DEFINE s == [w.skt[p] EXCEPT !.filep = f, !.sinx = i, !.st = "open"]
           F == Attach(w.fil[f], i, p)
           ns == w.nsl + 1
           h == w.skt[p].host
           a == Joined(w, f, i, p, s, ns, h)
<1>1. w \in W /\ w.skt[p] \in SktT /\ w.skt \in [Slot -> SktT] /\ w.fil \in [File -> FileT]
  BY GoodTypes
<1>2. /\ s \in SktT /\ s.filep = f /\ s.sinx = i /\ s.st = "open" /\ s.lskt = w.skt[p].lskt
      /\ h \in Int
  <2> DEFINE s1 == [w.skt[p] EXCEPT !.filep = f]
             s2 == [s1 EXCEPT !.sinx = i]
             s3 == [s2 EXCEPT !.st = "open"]
  <2>1. s = s3
    OBVIOUS
  <2>2. s1 \in SktT /\ s1.filep = f /\ s1.lskt = w.skt[p].lskt
    BY <1>1 DEF SktT
  <2> HIDE DEF s1
  <2>3. s2 \in SktT /\ s2.filep = f /\ s2.sinx = i /\ s2.lskt = w.skt[p].lskt
    BY <2>2 DEF SktT
  <2> HIDE DEF s2
  <2>4. s3 \in SktT /\ s3.filep = f /\ s3.sinx = i /\ s3.st = "open" /\ s3.lskt = w.skt[p].lskt
    BY <2>3 DEF SktT, SktState
  <2> QED
    BY <1>1, <2>1, <2>4 DEF SktT
<1>3. lsint_q(w, r, p) = fi_sopn(hw(kw_stup(a, p), "rfc", p), p)
  <2> DEFINE w1 == [w EXCEPT !.skt[p] = s, !.nsl = w.nsl + 1, !.host = w.skt[p].host]
  <2>1. [w EXCEPT !.skt[p] = [@ EXCEPT !.filep = r.filep, !.sinx = r.sinx, !.st = "open"],
                  !.nsl = @ + 1,
                  !.host = w.skt[p].host] = w1
    BY <1>1 DEF W
  <2>2. lsint_q(w, r, p) = fi_sopn(hw(kw_stup(att_skt(w1, p), p), "rfc", p), p)
    BY <2>1 DEF lsint_q
  <2> HIDE DEF s
  <2>3. w1.skt[p] = s /\ w1.fil = w.fil
    BY <1>1 DEF W
  <2>4. att_skt(w1, p) = [w1 EXCEPT !.fil[f] = Attach(w.fil[f], i, p)]
    BY <1>2, <2>3 DEF att_skt
  <2>5. att_skt(w1, p) = a
    <3> HIDE DEF F
    <3>1. [w1 EXCEPT !.fil[f] = F]
          = [w EXCEPT !.skt[p] = s, !.fil[f] = F, !.nsl = ns, !.host = h]
      BY <1>1 DEF W
    <3> QED
      BY <2>4, <3>1 DEF F, Joined
  <2> HIDE DEF w1, a
  <2> QED
    BY <2>2, <2>5
<1> HIDE DEF s, h
<1>4. Good(a, NoSlot, 0) /\ Attached(a, w, f, i, p) /\ a.skt[p] = s
  <2>1. s \in SktT /\ s.filep = f /\ s.sinx = i /\ s.st \in Attachable
        /\ (i = ksx_rcv => ~Odd(s.lskt)) /\ w.skt[p].st \in {"null", "q"} /\ h \in Int
        /\ ns = IF w.skt[p].st = "q" THEN w.nsl + 1 ELSE w.nsl
    BY <1>2 DEF Attachable, SktState
  <2> HIDE DEF ns
  <2> QED
    BY <2>1, AttachGood
<1> HIDE DEF a
<1> QED
  BY <1>2, <1>3, <1>4 DEF Parked, a, s, h

(* lsint_q(): a queued RFC meets the socket that waited for it.            *)
LEMMA LsintGood ==
    ASSUME NEW w, Good(w, NoSlot, 0), NEW r, NEW f \in File, f = r.filep,
           NEW i \in Node, i = r.sinx, Ready(w, f, i),
           NEW p \in Slot, w.skt[p].st = "q", i = ksx_rcv => ~Odd(w.skt[p].lskt)
    PROVE  Plugged(lsint_q(w, r, p), w, f, i)
<1> DEFINE a == Parked(w, f, i, p)
           b == hw(kw_stup(a, p), "rfc", p)
<1>1. lsint_q(w, r, p) = fi_sopn(b, p)
  BY LsintIs
<1>2. Good(a, NoSlot, 0) /\ Attached(a, w, f, i, p)
      /\ a.skt[p].st = "open" /\ a.skt[p].filep = f /\ a.skt[p].sinx = i
  BY LsintIs
<1> HIDE DEF a
<1>3. Same(b, a)
  <2>1. Same(kw_stup(a, p), a) /\ kw_stup(a, p) \in W
    <3>1. a.skt[p].st \in Attachable /\ p # NoSlot
      BY <1>2 DEF Attachable, SktState, Slot, NoSlot
    <3> QED
      BY <1>2, <3>1, KwSame DEF Same
  <2>2. Same(hw(kw_stup(a, p), "rfc", p), kw_stup(a, p))
    BY <2>1, SameHw
  <2> QED
    BY <2>1, <2>2, SameTrans
<1> HIDE DEF b
<1>4. Good(b, NoSlot, 0) /\ b.skt[p] = a.skt[p] /\ b.fil = a.fil
  BY <1>2, <1>3, GoodSame DEF Same, SameTables
<1>5. Plugged(b, w, f, i)
  BY <1>2, <1>3, AttachedPlugged, PluggedSame
<1> DEFINE v == fi_sopn(b, p)
<1>6. /\ Good(v, NoSlot, 0) /\ FileFrame(v, b, f)
      /\ i # ksx_icp /\ b.fil[f].nsatt < b.fil[f].nsrsrv => v.fil[f].st = "dopnw"
  <2>1. b.skt[p].st = "open" /\ f = b.skt[p].filep /\ i = b.skt[p].sinx
    BY <1>2, <1>4
  <2>2. b.fil[f].st \in (IF i = ksx_icp THEN {"uiopw", "siopw"} ELSE {"dopnw"})
    BY <1>2, <1>4 DEF Attached, Ready
  <2> QED
    BY <1>4, <2>1, <2>2, SopnGood
<1> HIDE DEF v
<1>7. b.fil[f].nsatt = w.fil[f].nsatt + 1 /\ b.fil[f].nsrsrv = w.fil[f].nsrsrv
  BY <1>2, <1>4, ZenonT(60) DEF Attached
<1>8. Plugged(v, w, f, i)
  BY <1>5, <1>6, <1>7 DEF Plugged, FileFrame
<1> QED
  BY <1>1, <1>8 DEF v

(* The least element of a set of numbers is in it.                         *)
LEMMA MinIn ==
    ASSUME NEW S \in SUBSET Nat, S # {}
    PROVE  Min(S) \in S
<1>1. \E x \in S : \A y \in S : x <= y
  BY LeastNat
<1> QED
  BY <1>1 DEF Min

(* The free slot that is taken is free.                                    *)
LEMMA FreeSlot ==
    ASSUME NEW w, FreeSlots(w) # {}
    PROVE  Min(FreeSlots(w)) \in Slot /\ w.skt[Min(FreeSlots(w))].st = "null"
<1>1. FreeSlots(w) \in SUBSET Nat
  BY SktMachineAssumption DEF FreeSlots, Slot
<1> QED
  BY <1>1, MinIn DEF FreeSlots

(* The free socket p is taken for a listen or an init and attached.        *)
Taken(w, r, f, i, p) ==
    Joined(w, f, i, p, [st |-> NewState[r.op], lskt |-> r.lskt, fskt |-> r.fskt,
                        host |-> r.host, filep |-> r.filep, sinx |-> r.sinx, timo |-> FALSE],
           w.nsl, w.host)

(* so_unm(): no socket matches a listen or an init of the daemon, and a    *)
(* free one is attached to the file; the kernel is told, and maybe the     *)
(* host.                                                                   *)
LEMMA UnmIs ==
    ASSUME NEW w, Good(w, NoSlot, 0), NEW r, r.op \in {"glsn", "slsn", "init"},
           NEW f \in File, f = r.filep, NEW i \in Node, i = r.sinx, Ready(w, f, i),
           r.lskt \in Int, r.fskt \in Int, r.host \in Int, i = ksx_rcv => ~Odd(r.lskt),
           FreeSlots(w) # {}
    PROVE  LET p == Min(FreeSlots(w))
               a == Taken(w, r, f, i, p) IN
           /\ so_unm(w, r) \in {kw_stup(a, p), hw(kw_stup(a, p), "rfc", p)}
           /\ p \in Slot /\ Good(a, NoSlot, 0) /\ Attached(a, w, f, i, p)
           /\ a.skt[p].st \in Attachable /\ a.skt[p].filep = f /\ a.skt[p].sinx = i
<1> DEFINE p == Min(FreeSlots(w))
           s == [st |-> NewState[r.op], lskt |-> r.lskt, fskt |-> r.fskt,
                 host |-> r.host, filep |-> r.filep, sinx |-> r.sinx, timo |-> FALSE]
           w1 == [w EXCEPT !.skt[p] = s]
           a == Joined(w, f, i, p, s, w.nsl, w.host)
<1>1. p \in Slot /\ w.skt[p].st = "null"
  BY FreeSlot
<1> HIDE DEF p
<1>2. w \in W /\ w.skt \in [Slot -> SktT] /\ w.fil \in [File -> FileT] /\ w.nsl \in Int
      /\ w.host \in Int
  BY GoodTypes
<1>3. NewState[r.op] \in Fresh /\ Fresh \subseteq Attachable /\ Attachable \subseteq SktState
  BY DEF NewState, Fresh, Attachable, SktState
<1>4. s \in SktT /\ s.filep = f /\ s.sinx = i /\ s.st = NewState[r.op] /\ s.lskt = r.lskt
  BY <1>3 DEF SktT
<1>5. so_unm(w, r) \in {kw_stup(a, p), hw(kw_stup(a, p), "rfc", p)}
  <2>1. w1.skt[p] = s /\ w1.fil = w.fil
    <3> HIDE DEF s
    <3> QED
      BY <1>1, <1>2 DEF W
  <2>2. att_skt(w1, p) = [w1 EXCEPT !.fil[f] = Attach(w.fil[f], i, p)]
    <3> HIDE DEF s, w1
    <3> QED
      BY <1>4, <2>1 DEF att_skt
  <2>3. att_skt(w1, p) = a
    <3> DEFINE F == Attach(w.fil[f], i, p)
    <3> HIDE DEF s, F
    <3>1. [w1 EXCEPT !.fil[f] = F]
          = [w EXCEPT !.skt[p] = s, !.fil[f] = F, !.nsl = w.nsl, !.host = w.host]
      BY <1>2 DEF W
    <3> QED
      BY <2>2, <3>1 DEF F, Joined
  <2> DEFINE u == kw_stup(att_skt(w1, p), p)
  <2>4. so_unm(w, r) = u \/ so_unm(w, r) = hw(u, "rfc", p)
    BY DEF so_unm, p
  <2> HIDE DEF a
  <2> QED
    BY <2>3, <2>4
<1>6. Good(a, NoSlot, 0) /\ Attached(a, w, f, i, p) /\ a.skt[p] = s
  <2>1. s \in SktT /\ s.filep = f /\ s.sinx = i /\ s.st \in Attachable
        /\ (i = ksx_rcv => ~Odd(s.lskt)) /\ w.skt[p].st \in {"null", "q"}
        /\ w.nsl = IF w.skt[p].st = "q" THEN w.nsl + 1 ELSE w.nsl
    BY <1>1, <1>3, <1>4
  <2> HIDE DEF s
  <2> QED
    BY <1>1, <1>2, <2>1, AttachGood
<1> HIDE DEF a, s
<1> QED
  BY <1>1, <1>3, <1>4, <1>5, <1>6 DEF Taken, a, s, p

(* The place of the file is filled.                                        *)
LEMMA UnmGood ==
    ASSUME NEW w, Good(w, NoSlot, 0), NEW r, r.op \in {"glsn", "slsn", "init"},
           NEW f \in File, f = r.filep, NEW i \in Node, i = r.sinx, Ready(w, f, i),
           r.lskt \in Int, r.fskt \in Int, r.host \in Int, i = ksx_rcv => ~Odd(r.lskt)
    PROVE  Plugged(so_unm(w, r), w, f, i)
<1>1. CASE FreeSlots(w) = {}
  <2>1. so_unm(w, r) = w
    BY <1>1 DEF so_unm
  <2> QED
    BY <2>1, PluggedRefl
<1>2. CASE FreeSlots(w) # {}
  <2> DEFINE p == Min(FreeSlots(w))
             a == Taken(w, r, f, i, p)
             b == kw_stup(a, p)
  <2>1. so_unm(w, r) = b \/ so_unm(w, r) = hw(b, "rfc", p)
    BY <1>2, UnmIs
  <2>2. p \in Slot /\ Good(a, NoSlot, 0) /\ Attached(a, w, f, i, p)
        /\ a.skt[p].st \in Attachable
    BY <1>2, UnmIs
  <2> HIDE DEF a, p
  <2>3. Same(b, a) /\ b \in W
    <3>1. a.skt[p].st \in Attachable /\ p # NoSlot
      BY <2>2 DEF Slot, NoSlot
    <3> QED
      BY <2>2, <3>1, KwSame DEF Same
  <2> HIDE DEF b
  <2>4. Same(hw(b, "rfc", p), a)
    <3>1. Same(hw(b, "rfc", p), b)
      BY <2>2, <2>3, SameHw
    <3> QED
      BY <2>3, <3>1, SameTrans
  <2>5. Plugged(a, w, f, i)
    BY <2>2, AttachedPlugged
  <2> QED
    BY <2>1, <2>3, <2>4, <2>5, PluggedSame
<1> QED
  BY <1>1, <1>2

(* The first socket that matches a request.                                *)
LEMMA FirstMatch ==
    ASSUME NEW w, NEW r,
           NEW M, M = {p \in Slot : w.skt[p].st # "null" /\ Matches(r, w.skt[p])}, M # {}
    PROVE  Min(M) \in Slot /\ Matches(r, w.skt[Min(M)])
<1>1. M \in SUBSET Nat
  BY SktMachineAssumption DEF Slot
<1> QED
  BY <1>1, MinIn

(* get_skt(): the same, or the socket that matches is used.                *)
LEMMA GetGood ==
    ASSUME NEW w, Good(w, NoSlot, 0), NEW r, r.op \in {"glsn", "slsn", "init"},
           NEW f \in File, f = r.filep, NEW i \in Node, i = r.sinx, Ready(w, f, i),
           r.lskt \in Int, r.fskt \in Int, r.host \in Int, i = ksx_rcv => ~Odd(r.lskt)
    PROVE  Plugged(get_skt(w, r), w, f, i)
<1> DEFINE M == {p \in Slot : w.skt[p].st # "null" /\ Matches(r, w.skt[p])}
<1>1. CASE M = {}
  <2>1. get_skt(w, r) = so_unm(w, r)
    BY <1>1 DEF get_skt
  <2> QED
    BY <2>1, UnmGood
<1>2. CASE M # {}
  <2>1. get_skt(w, r) = lsint_q(w, r, Min(M))
    BY <1>2 DEF get_skt
  <2>2. Min(M) \in Slot /\ Matches(r, w.skt[Min(M)])
    BY <1>2, FirstMatch
  <2> DEFINE p == Min(M)
  <2> HIDE DEF M, p
  <2>3. w.skt[p].st = "q" /\ w.skt[p].lskt = r.lskt
    BY <2>2 DEF Matches, p
  <2>4. Plugged(lsint_q(w, r, p), w, f, i)
    BY <2>2, <2>3, LsintGood DEF p
  <2> QED
    BY <2>1, <2>4 DEF p
<1> QED
  BY <1>1, <1>2

-----------------------------------------------------------------------------
(* The data sockets of a file *)

(* sm_splx(): one data socket of a file.                                   *)
LEMMA SplxGood ==
    ASSUME NEW w, Good(w, NoSlot, 0), NEW f \in File, NEW i \in Node, Ready(w, f, i),
           NEW lskt \in Int, NEW fskt \in Int, NEW op \in {"glsn", "slsn", "init"},
           i = ksx_rcv => ~Odd(lskt)
    PROVE  Plugged(sm_splx(w, f, lskt, fskt, i, op), w, f, i)
<1> DEFINE r == [op |-> op, lskt |-> lskt, fskt |-> fskt, host |-> w.host,
                 filep |-> f, sinx |-> i]
<1>1. /\ r.op \in {"glsn", "slsn", "init"} /\ f = r.filep /\ i = r.sinx
      /\ r.lskt \in Int /\ r.fskt \in Int /\ r.host \in Int
      /\ i = ksx_rcv => ~Odd(r.lskt)
  BY GoodTypes
<1> HIDE DEF r
<1>2. Plugged(get_skt(w, r), w, f, i)
  BY <1>1, GetGood
<1> QED
  BY <1>2 DEF sm_splx, r

(* The places of both data sockets of a file are empty.                    *)
TwoReady(w, f) ==
    /\ w.fil[f].st = "dopnw" /\ w.fil[f].x[0] = NoSlot /\ w.fil[f].x[1] = NoSlot
    /\ w.fil[f].nsatt + 2 <= w.fil[f].nsrsrv

(* When the first is filled the second is still empty.                     *)
LEMMA DuxReady ==
    ASSUME NEW w, Good(w, NoSlot, 0), NEW f \in File, TwoReady(w, f),
           NEW lskt \in Int, NEW fskt \in Int, NEW op \in {"glsn", "slsn", "init"},
           ~Odd(lskt)
    PROVE  LET v == sm_splx(w, f, lskt + 1, fskt, ksx_xmit, op) IN
           Ready(w, f, ksx_xmit) /\ Good(v, NoSlot, 0) /\ Ready(v, f, ksx_rcv)
<1> USE DEF TwoReady
<1> DEFINE v == sm_splx(w, f, lskt + 1, fskt, ksx_xmit, op)
<1>1. ksx_xmit = 1 /\ ksx_rcv = 0 /\ ksx_icp = 2 /\ 0 \in Node /\ 1 \in Node
  BY DEF ksx_xmit, ksx_rcv, ksx_icp, Node
<1>2. w.fil[f].nsatt \in Int /\ w.fil[f].nsrsrv \in Int
  <2>1. w.fil[f] \in FileT
    BY GoodTypes
  <2> QED
    BY <2>1, TableTypes
<1>3. Ready(w, f, ksx_xmit)
  BY <1>1, <1>2 DEF Ready
<1>4. Plugged(v, w, f, ksx_xmit)
  BY <1>1, <1>3, SplxGood
<1> HIDE DEF v
<1>5. Good(v, NoSlot, 0) /\ v.fil[f] \in FileT
  BY <1>4, GoodTypes DEF Plugged
<1>6. v.fil[f].nsatt \in Int /\ v.fil[f].nsrsrv \in Int
  BY <1>5, TableTypes
<1>7. Ready(v, f, ksx_rcv)
  <2>1. v.fil[f].x[0] = NoSlot
    BY <1>1, <1>4 DEF Plugged
  <2>2. v.fil[f].nsatt <= w.fil[f].nsatt + 1 /\ v.fil[f].nsrsrv = w.fil[f].nsrsrv
    BY <1>4 DEF Plugged
  <2>3. v.fil[f].st = "dopnw"
    BY <1>1, <1>2, <1>4 DEF Plugged
  <2> QED
    BY <1>1, <1>2, <1>6, <2>1, <2>2, <2>3 DEF Ready
<1> QED
  BY <1>3, <1>5, <1>7 DEF v

(* sm_dux(): both data sockets of a file, for whom two places are left.    *)
LEMMA DuxGood ==
    ASSUME NEW w, Good(w, NoSlot, 0), NEW f \in File, TwoReady(w, f),
           NEW lskt \in Int, NEW fskt \in Int, NEW op \in {"glsn", "slsn", "init"},
           ~Odd(lskt)
    PROVE  Good(sm_dux(w, f, lskt, fskt, op), NoSlot, 0)
<1> DEFINE v == sm_splx(w, f, lskt + 1, fskt, ksx_xmit, op)
<1>1. Good(v, NoSlot, 0) /\ Ready(v, f, ksx_rcv)
  BY DuxReady
<1>2. ksx_rcv \in Node /\ lskt \in Int /\ fskt + 1 \in Int
  BY DEF ksx_rcv, Node
<1> HIDE DEF v
<1>3. Plugged(sm_splx(v, f, lskt, fskt + 1, ksx_rcv, op), v, f, ksx_rcv)
  BY <1>1, <1>2, SplxGood
<1> QED
  BY <1>3 DEF sm_dux, v, Plugged

-----------------------------------------------------------------------------
(* Messages from the network *)

(* so_urfc(): an RFC that nobody waits for is queued.                      *)
LEMMA QueueGood ==
    ASSUME NEW w, Good(w, NoSlot, 0), NEW r, r.op = "rfc", r.filep = NoFile, r.sinx \in Node,
           r.lskt \in Int, r.fskt \in Int, r.host \in Int,
           \A p \in w.ssn : w.skt[p].st # "null"
    PROVE  Good(so_unm(w, r), NoSlot, 0)
<1>1. CASE FreeSlots(w) = {}
  <2>1. so_unm(w, r) = w
    BY <1>1 DEF so_unm
  <2> QED
    BY <2>1
<1>2. CASE FreeSlots(w) # {}
  <2> DEFINE p == Min(FreeSlots(w))
             s == [st |-> NewState[r.op], lskt |-> r.lskt, fskt |-> r.fskt,
                   host |-> r.host, filep |-> r.filep, sinx |-> r.sinx, timo |-> FALSE]
             ns == w.nsl - 1
             new == [w.skt EXCEPT ![p] = s]
             v == [w EXCEPT !.skt = new, !.nsl = ns]
  <2>1. p \in Slot /\ w.skt[p].st = "null"
    BY <1>2, FreeSlot
  <2>2. so_unm(w, r) = [[w EXCEPT !.skt[p] = s] EXCEPT !.nsl = @ - 1]
    BY <1>2 DEF so_unm
  <2> HIDE DEF p
  <2>3. w \in W /\ w.skt \in [Slot -> SktT] /\ w.fil \in [File -> FileT] /\ w.nsl \in Int
        /\ w.ssn \in SUBSET Slot /\ NoSlot \notin Slot
    <3>1. NoSlot \notin Slot
      BY DEF Slot, NoSlot
    <3> QED
      BY <3>1, GoodTypes
  <2>4. s \in SktT /\ s.filep = NoFile /\ s.st = "q"
    BY DEF NewState, SktT, SktState
  <2> HIDE DEF s
  <2>5. so_unm(w, r) = v
    BY <2>2, <2>3 DEF W
  <2>6. new \in [Slot -> SktT] /\ new[p] = s /\ \A o \in Slot \ {p} : new[o] = w.skt[o]
    BY <2>1, <2>3, <2>4
  <2>7. ns \in Int /\ ns = w.nsl - 1
    BY <2>3
  <2> HIDE DEF new, ns
  <2>8. /\ v \in W /\ v.skt = new /\ v.fil = w.fil /\ v.nsl = ns /\ v.nfl = w.nfl
        /\ v.grp = w.grp /\ v.ssn = w.ssn /\ v.died = w.died
        /\ v.kf = w.kf /\ v.usr = w.usr /\ v.ncprq = w.ncprq
    BY <2>3, <2>6, <2>7 DEF W
  <2> HIDE DEF v
  <2>9. Tab(w.skt, w.fil, NoSlot)
    BY DEF Good
  <2>10. Tab(new, w.fil, NoSlot)
    <3>1. ASSUME NEW o \in Slot \ {NoSlot} PROVE SktOK(new, w.fil, o)
      BY <2>4, <2>6, <2>9, ZenonT(60) DEF Tab, SktOK
    <3>2. ASSUME NEW f \in File, NEW i \in Node, w.fil[f].x[i] # NoSlot
          PROVE  EntryOK(new, w.fil, f, i, NoSlot)
      <4>1. EntryOK(w.skt, w.fil, f, i, NoSlot)
        BY <2>9, <3>2 DEF Tab
      <4>2. w.fil[f].x[i] \in Slot
        <5>1. w.fil[f] \in FileT
          BY <2>3, SMTT(60)
        <5> QED
          BY <3>2, <5>1, TableTypes
      <4>3. w.fil[f].x[i] # p
        BY <2>1, <4>1 DEF EntryOK, Attachable
      <4> QED
        BY <2>6, <4>1, <4>2, <4>3 DEF EntryOK
    <3> QED
      BY <2>9, <3>1, <3>2 DEF Tab
  <2>11. Acc(new, w.fil, ns, w.nfl, NoSlot, 0)
    <3>1. IsFiniteSet(Queue(w.skt, NoSlot)) /\ Cardinality(Queue(w.skt, NoSlot)) \in Nat
          /\ NSkt \in Int
      BY TablesFinite, SktMachineAssumption DEF Queue
    <3>2. Queue(new, NoSlot) = Queue(w.skt, NoSlot) \cup {p} /\ p \notin Queue(w.skt, NoSlot)
      BY <2>1, <2>3, <2>4, <2>6 DEF Queue
    <3>3. Cardinality(Queue(new, NoSlot)) = Cardinality(Queue(w.skt, NoSlot)) + 1
      BY <3>1, <3>2, FS_AddElement
    <3>4. w.nsl + 0 = NSkt - SeqSum(Rsrv(w.fil)) - Cardinality(Queue(w.skt, NoSlot))
          /\ w.nfl = Cardinality(Frees(w.fil))
      BY DEF Good, Acc
    <3>5. SeqSum(Rsrv(w.fil)) \in Int
      BY <2>3, RsrvInt
    <3> QED
      BY <2>3, <2>7, <3>1, <3>3, <3>4, <3>5 DEF Acc
  <2>12. \A o \in v.ssn : v.skt[o].st # "q"
    <3>1. p \notin w.ssn
      BY <2>1
    <3> QED
      BY <2>3, <2>6, <2>8, <3>1 DEF Good
  <2>13. Good(v, NoSlot, 0)
    BY <2>8, <2>10, <2>11, <2>12 DEF Good
  <2> QED
    BY <2>5, <2>13
<1> QED
  BY <1>1, <1>2

(* rfc_glsn(), rfc_slsn(), rfc_rfcw(): the socket as they leave it to      *)
(* fi_sopn(), but for the command that they may queue.                     *)
Heard(w, r, p) ==
    [w EXCEPT !.skt[p] = [@ EXCEPT !.host = r.host, !.fskt = r.fskt, !.st = "open"]]

(* They open a socket that waits.                                          *)
LEMMA HeardGood ==
    ASSUME NEW w, Good(w, NoSlot, 0), NEW r, r.fskt \in Int, r.host \in Int,
           NEW p \in Slot, w.skt[p].st \in Fresh
    PROVE  LET v == Heard(w, r, p) IN
           /\ Goes(v, w, p, "open", NoSlot, 0)
           /\ v.kf = w.kf /\ v.wild = w.wild
<1> DEFINE s == [w.skt[p] EXCEPT !.host = r.host, !.fskt = r.fskt, !.st = "open"]
           v == [w EXCEPT !.skt[p] = s]
<1>1. w \in W /\ w.skt[p] \in SktT /\ p # NoSlot /\ w.skt[p].st \in Attachable
      /\ "open" \in Attachable \ Fresh
  <2>1. p # NoSlot /\ Fresh \subseteq Attachable /\ "open" \in Attachable \ Fresh
    BY DEF Slot, NoSlot, Fresh, Attachable, SktState
  <2> QED
    BY <2>1, GoodTypes
<1>2. /\ s \in SktT /\ s.filep = w.skt[p].filep /\ s.sinx = w.skt[p].sinx
      /\ s.st = "open" /\ s.lskt = w.skt[p].lskt
  <2> DEFINE s1 == [w.skt[p] EXCEPT !.host = r.host]
             s2 == [s1 EXCEPT !.fskt = r.fskt]
             s3 == [s2 EXCEPT !.st = "open"]
  <2>1. s = s3
    OBVIOUS
  <2>2. /\ s1 \in SktT /\ s1.filep = w.skt[p].filep /\ s1.sinx = w.skt[p].sinx
        /\ s1.lskt = w.skt[p].lskt
    BY <1>1 DEF SktT
  <2> HIDE DEF s1
  <2>3. /\ s2 \in SktT /\ s2.filep = w.skt[p].filep /\ s2.sinx = w.skt[p].sinx
        /\ s2.lskt = w.skt[p].lskt
    BY <2>2 DEF SktT
  <2> HIDE DEF s2
  <2>4. /\ s3 \in SktT /\ s3.filep = w.skt[p].filep /\ s3.sinx = w.skt[p].sinx
        /\ s3.st = "open" /\ s3.lskt = w.skt[p].lskt
    BY <2>3 DEF SktT, SktState
  <2> QED
    BY <2>1, <2>4
<1>3. Heard(w, r, p) = v /\ v.kf = w.kf /\ v.wild = w.wild
  BY <1>1 DEF W, Heard
<1> HIDE DEF s
<1>4. Good(v, NoSlot, 0) /\ Frame(v, w, p) /\ v.skt[p] = s
  BY <1>1, <1>2, GoodMove
<1> QED
  BY <1>2, <1>3, <1>4 DEF Goes

(* The file of a socket that waits for an RFC waits for the socket.        *)
LEMMA FreshFile ==
    ASSUME NEW w, Good(w, NoSlot, 0), NEW p \in Slot, w.skt[p].st \in Fresh
    PROVE  w.fil[w.skt[p].filep].st \in
                (IF w.skt[p].sinx = ksx_icp THEN {"uiopw", "siopw"} ELSE {"dopnw"})
<1> DEFINE f == w.skt[p].filep
           i == w.skt[p].sinx
<1>1. p # NoSlot /\ w.skt[p].st \in Attachable
  BY DEF Slot, NoSlot, Fresh, Attachable, SktState
<1>2. EntryOK(w.skt, w.fil, f, i, NoSlot) /\ w.fil[f].x[i] = p
  BY <1>1, FileOfIt
<1> QED
  BY <1>2, SMTT(60) DEF EntryOK

(* They queue an RFC unless theirs has gone before.                        *)
LEMMA RfcIs ==
    ASSUME NEW w, NEW r, NEW p
    PROVE  RfcOp(w, r, p) = fi_sopn(IF w.skt[p].st = "rfcw" THEN Heard(w, r, p)
                                    ELSE hw(Heard(w, r, p), "rfc", p), p)
BY DEF RfcOp, Heard

(* The connection is open then.                                            *)
LEMMA RfcGood ==
    ASSUME NEW w, Good(w, NoSlot, 0), NEW r, r.fskt \in Int, r.host \in Int,
           NEW p \in Slot, w.skt[p].st \in Fresh
    PROVE  Good(RfcOp(w, r, p), NoSlot, 0)
<1> DEFINE v == Heard(w, r, p)
           f == w.skt[p].filep
           i == w.skt[p].sinx
           b == IF w.skt[p].st = "rfcw" THEN v ELSE hw(v, "rfc", p)
<1>1. RfcOp(w, r, p) = fi_sopn(b, p)
  BY RfcIs
<1>2. Goes(v, w, p, "open", NoSlot, 0)
  BY HeardGood
<1> HIDE DEF v
<1>3. Good(v, NoSlot, 0) /\ Same(b, v)
  BY <1>2, SameHw, SameRefl, GoodTypes DEF Goes
<1> HIDE DEF b
<1>4. Good(b, NoSlot, 0) /\ b.skt = v.skt /\ b.fil = w.fil
  BY <1>2, <1>3, GoodSame DEF Same, SameTables, Goes, Frame
<1>5. b.skt[p].st = "open" /\ f = b.skt[p].filep /\ i = b.skt[p].sinx
      /\ b.fil[f].st \in (IF i = ksx_icp THEN {"uiopw", "siopw"} ELSE {"dopnw"})
  BY <1>2, <1>4, FreshFile DEF Goes, Frame
<1> HIDE DEF f, i
<1>6. Good(fi_sopn(b, p), NoSlot, 0)
  BY <1>4, <1>5, SopnGood
<1> QED
  BY <1>1, <1>6

(* A step that ends with the socket freed.                                 *)
LEMMA GoesFree ==
    ASSUME NEW w, NEW v, NEW p \in Slot, NEW s, Goes(v, w, p, s, NoSlot, 0), s # "null"
    PROVE  Good(free_skt(v, p), NoSlot, 0)
BY FreeGood DEF Goes

(* A socket that has moved is given a further state.                       *)
LEMMA GoesSet ==
    ASSUME NEW w, NEW v, NEW p \in Slot, NEW s \in Attachable, Goes(v, w, p, s, NoSlot, 0),
           NEW t \in Attachable \ Fresh
    PROVE  Goes(SetSt(v, p, t), w, p, t, NoSlot, 0)
<1>1. p # NoSlot
  BY DEF Slot, NoSlot
<1>2. Goes(SetSt(v, p, t), v, p, t, NoSlot, 0)
  BY <1>1, SetStMoves DEF Goes
<1> QED
  BY <1>2, GoesTrans

(* A socket that has moved sends a CLS.                                    *)
LEMMA GoesHw ==
    ASSUME NEW w, NEW v, NEW p \in Slot, NEW s, Goes(v, w, p, s, NoSlot, 0)
    PROVE  Goes(hw(v, "cls", p), w, p, s, NoSlot, 0)
<1>1. Goes(hw(v, "cls", p), v, p, s, NoSlot, 0)
  BY HwMoves DEF Goes
<1> QED
  BY <1>1, GoesTrans

(* A socket that has moved cleans his node in the kernel.                  *)
LEMMA GoesKw ==
    ASSUME NEW w, NEW v, NEW p \in Slot, NEW s \in Attachable, Goes(v, w, p, s, NoSlot, 0)
    PROVE  Goes(kw_clean(v, p), w, p, s, NoSlot, 0)
<1>1. p # NoSlot
  BY DEF Slot, NoSlot
<1>2. Goes(kw_clean(v, p), v, p, s, NoSlot, 0)
  BY <1>1, CleanKernelMoves DEF Goes
<1> QED
  BY <1>2, GoesTrans

(* A socket that has moved starts his timer.                               *)
LEMMA GoesTimeout ==
    ASSUME NEW w, NEW v, NEW p \in Slot, NEW s, Goes(v, w, p, s, NoSlot, 0)
    PROVE  Goes(stimeout(v, p), w, p, s, NoSlot, 0)
<1>1. p # NoSlot
  BY DEF Slot, NoSlot
<1>2. Goes(stimeout(v, p), v, p, s, NoSlot, 0)
  BY <1>1, TimeoutMoves DEF Goes
<1> QED
  BY <1>2, GoesTrans

(* The numbers and the host of a socket that has moved are cleared.        *)
LEMMA GoesClean ==
    ASSUME NEW w, NEW v, NEW p \in Slot, NEW s, Goes(v, w, p, s, NoSlot, 0)
    PROVE  Goes(clean_skt(v, p), w, p, s, NoSlot, 0)
<1>1. p # NoSlot
  BY DEF Slot, NoSlot
<1>2. Goes(clean_skt(v, p), v, p, s, NoSlot, 0)
  BY <1>1, CleanMoves DEF Goes
<1> QED
  BY <1>2, GoesTrans

(* A CLS reaches a socket, in any state that takes one.                    *)
LEMMA ClsGood ==
    ASSUME NEW w, Good(w, NoSlot, 0), NEW p \in Slot,
           w.skt[p].st \in {"rfcw", "q", "cacw", "clsw", "open", "orfnmw"}
    PROVE  Good(ClsOp(w, p), NoSlot, 0)
<1> DEFINE s == w.skt[p].st
           k == kw_clean(w, p)
<1>1. /\ {"rfcw", "cacw", "clsw", "open", "orfnmw"} \subseteq Attachable
      /\ {"clow", "c2cw", "clorfnmw"} \subseteq Attachable \ Fresh /\ p # NoSlot
  BY DEF Attachable, SktState, Fresh, Slot, NoSlot
<1>2. Goes(w, w, p, s, NoSlot, 0)
  BY GoesRefl
<1> HIDE DEF s
<1>3. s \in Attachable => Goes(k, w, p, s, NoSlot, 0)
  BY <1>2, GoesKw
<1> HIDE DEF k
<1>4. CASE s = "rfcw"
  <2> DEFINE a == hw(k, "cls", p)
             b == SetSt(a, p, "clow")
             c == stimeout(b, p)
  <2>1. ClsOp(w, p) = clean_skt(c, p)
    BY <1>4 DEF ClsOp, s, k
  <2>2. Goes(a, w, p, s, NoSlot, 0) /\ s \in Attachable
    BY <1>1, <1>3, <1>4, GoesHw
  <2> HIDE DEF a
  <2>3. Goes(b, w, p, "clow", NoSlot, 0)
    BY <1>1, <2>2, GoesSet
  <2> HIDE DEF b
  <2>4. Goes(c, w, p, "clow", NoSlot, 0)
    BY <2>3, GoesTimeout
  <2> HIDE DEF c
  <2>5. Goes(clean_skt(c, p), w, p, "clow", NoSlot, 0)
    BY <2>4, GoesClean
  <2> QED
    BY <2>1, <2>5 DEF Goes
<1>5. CASE s = "q"
  <2>1. ClsOp(w, p) = free_skt(hw(w, "cls", p), p)
    BY <1>5 DEF ClsOp, s
  <2>2. Goes(hw(w, "cls", p), w, p, s, NoSlot, 0)
    BY <1>2, GoesHw
  <2> QED
    BY <1>5, <2>1, <2>2, GoesFree
<1>6. CASE s = "cacw"
  <2>1. ClsOp(w, p) = so_ut2(w, p)
    BY <1>6 DEF ClsOp, s
  <2>2. w.skt[p].st \in Attachable
    BY <1>1, <1>6 DEF s
  <2> QED
    BY <1>1, <2>1, <2>2, UtilMoves DEF Goes
<1>7. CASE s = "clsw"
  <2>1. ClsOp(w, p) = free_skt(w, p)
    BY <1>7 DEF ClsOp, s
  <2> QED
    BY <1>2, <1>7, <2>1, GoesFree
<1>8. CASE s = "open"
  <2>1. ClsOp(w, p) = SetSt(k, p, "c2cw")
    BY <1>8 DEF ClsOp, s, k
  <2>2. Goes(SetSt(k, p, "c2cw"), w, p, "c2cw", NoSlot, 0)
    BY <1>1, <1>3, <1>8, GoesSet
  <2> QED
    BY <2>1, <2>2 DEF Goes
<1>9. CASE s = "orfnmw"
  <2>1. ClsOp(w, p) = SetSt(k, p, "clorfnmw")
    BY <1>9 DEF ClsOp, s, k
  <2>2. Goes(SetSt(k, p, "clorfnmw"), w, p, "clorfnmw", NoSlot, 0)
    BY <1>1, <1>3, <1>9, GoesSet
  <2> QED
    BY <2>1, <2>2 DEF Goes
<1> QED
  BY <1>4, <1>5, <1>6, <1>7, <1>8, <1>9 DEF s

(* The user closes a socket, in any state.                                 *)
LEMMA CloseGood ==
    ASSUME NEW w, Good(w, NoSlot, 0), NEW p \in Slot
    PROVE  Good(CloseOp(w, p), NoSlot, 0)
<1> DEFINE s == w.skt[p].st
           h == hw(w, "cls", p)
<1>1. /\ {"glsn", "slsn", "rfcw", "open", "orfnmw", "cacw", "clorfnmw"} \subseteq Attachable
      /\ {"clsw", "rfnmw"} \subseteq Attachable \ Fresh /\ p # NoSlot
  BY DEF Attachable, SktState, Fresh, Slot, NoSlot
<1>2. Goes(w, w, p, s, NoSlot, 0) /\ Goes(h, w, p, s, NoSlot, 0)
  BY GoesRefl, GoesHw
<1> HIDE DEF s, h
<1>3. CASE s \in {"glsn", "slsn"}
  <2>1. CloseOp(w, p) = free_skt(kw_clean(w, p), p)
    BY <1>3 DEF CloseOp, s
  <2>2. Goes(kw_clean(w, p), w, p, s, NoSlot, 0)
    BY <1>1, <1>2, <1>3, GoesKw
  <2> QED
    BY <1>3, <2>1, <2>2, GoesFree
<1>4. CASE s \in {"rfcw", "open", "orfnmw"}
  <2> DEFINE a == kw_clean(h, p)
             b == SetSt(a, p, "clsw")
  <2>1. CloseOp(w, p) = stimeout(b, p)
    BY <1>4 DEF CloseOp, s, h
  <2>2. Goes(a, w, p, s, NoSlot, 0) /\ s \in Attachable
    BY <1>1, <1>2, <1>4, GoesKw
  <2> HIDE DEF a
  <2>3. Goes(b, w, p, "clsw", NoSlot, 0)
    BY <1>1, <2>2, GoesSet
  <2> HIDE DEF b
  <2>4. Goes(stimeout(b, p), w, p, "clsw", NoSlot, 0)
    BY <2>3, GoesTimeout
  <2> QED
    BY <2>1, <2>4 DEF Goes
<1>5. CASE s = "cacw"
  <2> DEFINE b == SetSt(w, p, "clsw")
  <2>1. CloseOp(w, p) = stimeout(b, p)
    BY <1>5 DEF CloseOp, s
  <2>2. Goes(b, w, p, "clsw", NoSlot, 0)
    BY <1>1, <1>2, <1>5, GoesSet
  <2> HIDE DEF b
  <2>3. Goes(stimeout(b, p), w, p, "clsw", NoSlot, 0)
    BY <2>2, GoesTimeout
  <2> QED
    BY <2>1, <2>3 DEF Goes
<1>6. CASE s = "clow"
  <2>1. CloseOp(w, p) = free_skt(w, p)
    BY <1>6 DEF CloseOp, s
  <2> QED
    BY <1>2, <1>6, <2>1, GoesFree
<1>7. CASE s = "c2cw"
  <2>1. CloseOp(w, p) = free_skt(h, p)
    BY <1>7 DEF CloseOp, s, h
  <2> QED
    BY <1>2, <1>7, <2>1, GoesFree
<1>8. CASE s = "clorfnmw"
  <2>1. CloseOp(w, p) = SetSt(h, p, "rfnmw")
    BY <1>8 DEF CloseOp, s, h
  <2>2. Goes(SetSt(h, p, "rfnmw"), w, p, "rfnmw", NoSlot, 0)
    BY <1>1, <1>2, <1>8, GoesSet
  <2> QED
    BY <2>1, <2>2 DEF Goes
<1>9. CASE s \notin {"glsn", "slsn", "rfcw", "open", "orfnmw", "cacw", "clow", "c2cw", "clorfnmw"}
  <2>1. CloseOp(w, p) = w
    BY <1>9 DEF CloseOp, s
  <2> QED
    BY <2>1
<1> QED
  BY <1>3, <1>4, <1>5, <1>6, <1>7, <1>8, <1>9

(* The host of a socket is dead.                                           *)
LEMMA DeadOpGood ==
    ASSUME NEW w, Good(w, NoSlot, 0), NEW p \in Slot
    PROVE  Good(DeadOp(w, p), NoSlot, 0)
<1> DEFINE s == w.skt[p].st
<1>1. /\ {"glsn", "slsn", "rfcw", "open", "orfnmw", "cacw", "c2cw", "clorfnmw"} \subseteq Attachable
      /\ p # NoSlot
  BY DEF Attachable, SktState, Slot, NoSlot
<1>2. CASE s \in {"glsn", "slsn", "rfcw", "open", "orfnmw"}
  <2>1. DeadOp(w, p) = so_ut1(w, p) /\ s \in Attachable
    BY <1>1, <1>2 DEF DeadOp
  <2> QED
    BY <1>1, <2>1, UtilMoves DEF Goes
<1>3. CASE s \in {"q", "clsw", "rfnmw"}
  <2>1. DeadOp(w, p) = free_skt(w, p) /\ s # "null"
    BY <1>3 DEF DeadOp
  <2> QED
    BY <2>1, FreeGood
<1>4. CASE s \in {"cacw", "c2cw", "clorfnmw"}
  <2>1. DeadOp(w, p) = so_ut2(w, p) /\ s \in Attachable
    BY <1>1, <1>4 DEF DeadOp
  <2> QED
    BY <1>1, <2>1, UtilMoves DEF Goes
<1>5. CASE s \notin {"glsn", "slsn", "rfcw", "open", "orfnmw", "q", "clsw", "rfnmw", "cacw", "c2cw",
                     "clorfnmw"}
  <2>1. DeadOp(w, p) = w
    BY <1>5 DEF DeadOp
  <2> QED
    BY <2>1
<1> QED
  BY <1>2, <1>3, <1>4, <1>5

(* An RFC from the network finds his socket, or is queued.                 *)
LEMMA GetRfcGood ==
    ASSUME NEW w, Good(w, NoSlot, 0), NEW r, r.op = "rfc", r.filep = NoFile, r.sinx \in Node,
           r.lskt \in Int, r.fskt \in Int, r.host \in Int,
           \A p \in w.ssn : w.skt[p].st # "null"
    PROVE  Good(get_skt(w, r), NoSlot, 0)
<1> DEFINE M == {p \in Slot : w.skt[p].st # "null" /\ Matches(r, w.skt[p])}
<1>1. CASE M = {}
  <2>1. get_skt(w, r) = so_unm(w, r)
    BY <1>1 DEF get_skt
  <2> QED
    BY <2>1, QueueGood
<1>2. CASE M # {}
  <2> DEFINE p == Min(M)
  <2>1. get_skt(w, r) = RfcOp(w, r, p)
    BY <1>2 DEF get_skt
  <2>2. p \in Slot /\ Matches(r, w.skt[p])
    BY <1>2, FirstMatch
  <2> HIDE DEF p
  <2>3. w.skt[p].st \in Fresh
    BY <2>2 DEF Matches, Fresh
  <2> QED
    BY <2>1, <2>2, <2>3, RfcGood
<1> QED
  BY <1>1, <1>2

(* A CLS from the network finds his socket, or is dropped.                 *)
LEMMA GetClsGood ==
    ASSUME NEW w, Good(w, NoSlot, 0), NEW r, r.op = "cls"
    PROVE  Good(get_skt(w, r), NoSlot, 0)
<1> DEFINE M == {p \in Slot : w.skt[p].st # "null" /\ Matches(r, w.skt[p])}
<1>1. CASE M = {}
  <2>1. get_skt(w, r) = w
    BY <1>1 DEF get_skt, so_unm
  <2> QED
    BY <2>1
<1>2. CASE M # {}
  <2> DEFINE p == Min(M)
  <2>1. get_skt(w, r) = ClsOp(w, p)
    BY <1>2 DEF get_skt
  <2>2. p \in Slot /\ Matches(r, w.skt[p])
    BY <1>2, FirstMatch
  <2> HIDE DEF p
  <2>3. w.skt[p].st \in {"rfcw", "q", "cacw", "clsw", "open", "orfnmw"}
    BY <2>2 DEF Matches
  <2> QED
    BY <2>1, <2>2, <2>3, ClsGood
<1> QED
  BY <1>1, <1>2

-----------------------------------------------------------------------------
(* The initial connection protocol *)

(* Socket numbers: two further is of the same parity, one further of the   *)
(* other.                                                                  *)
LEMMA OddSum ==
    \A n \in Int : /\ Odd(n + 2) <=> Odd(n)
                   /\ ~Odd(n - (n % 2)) /\ n % 2 \in {0, 1} /\ (Odd(n) <=> n % 2 # 0)
                   /\ Odd(n + 1) <=> ~Odd(n)
BY DEF Odd

(* The ICP is done: the file waits for its data sockets.                   *)
LEMMA DopnGood ==
    ASSUME NEW w, Good(w, NoSlot, 0), NEW f \in File, w.fil[f].st \in {"uisnw", "sialw", "sirfw"}
    PROVE  LET v == SetFst(w, f, "dopnw") IN
           /\ Good(v, NoSlot, 0) /\ v.skt = w.skt /\ v.fil[f].st = "dopnw"
           /\ v.fil[f].x[0] = NoSlot /\ v.fil[f].x[1] = NoSlot
           /\ v.fil[f].nsatt + 2 <= v.fil[f].nsrsrv /\ v.fil[f].base = w.fil[f].base
<1> DEFINE v == SetFst(w, f, "dopnw")
<1>1. FileOK(w.fil, f) /\ w.fil[f].st \in Early /\ w.fil[f].st # "null"
  BY DEF Good, Tab, Early
<1>2. w.fil[f].x[0] = NoSlot /\ w.fil[f].x[1] = NoSlot /\ w.fil[f].nsatt + 2 <= w.fil[f].nsrsrv
  BY <1>1, SMTT(60) DEF FileOK
<1>3. ASSUME NEW i \in Node, w.fil[f].x[i] # NoSlot
      PROVE  w.skt[w.fil[f].x[i]].st \notin Fresh
  <2>1. i = ksx_icp
    BY <1>2, <1>3 DEF Node, ksx_icp
  <2>2. EntryOK(w.skt, w.fil, f, i, NoSlot)
    BY <1>3 DEF Good, Tab
  <2> QED
    BY <2>1, <2>2 DEF EntryOK
<1>4. "dopnw" \in FileState \ {"null"} /\ "dopnw" \notin Early
      /\ "dopnw" \notin {"siopw", "sialw", "sirfw"}
  BY SMTT(60) DEF FileState, Early
<1>5. Good(v, NoSlot, 0) /\ FileFrame(v, w, f) /\ v.fil[f].st = "dopnw"
  BY <1>1, <1>3, <1>4, FstQuiet
<1> HIDE DEF v
<1>6. /\ v.skt = w.skt /\ v.fil[f].x = w.fil[f].x /\ v.fil[f].nsatt = w.fil[f].nsatt
      /\ v.fil[f].nsrsrv = w.fil[f].nsrsrv /\ v.fil[f].base = w.fil[f].base
  BY <1>5 DEF FileFrame
<1>7. v.fil[f].x[0] = NoSlot /\ v.fil[f].x[1] = NoSlot
      /\ v.fil[f].nsatt + 2 <= v.fil[f].nsrsrv
  BY <1>2, <1>6
<1> QED
  BY <1>5, <1>6, <1>7 DEF v

(* The end of an ICP: the data sockets are opened and the ICP socket is    *)
(* killed.                                                                 *)
LEMMA IcpDoneGood ==
    ASSUME NEW w, Good(w, NoSlot, 0), NEW f \in File, w.fil[f].st \in {"uisnw", "sialw", "sirfw"},
           NEW lskt \in Int, ~Odd(lskt), NEW fskt \in Int, NEW p \in Slot
    PROVE  Good(kill_skt(sm_dux(SetFst(w, f, "dopnw"), f, lskt, fskt, "init"), p), NoSlot, 0)
<1> DEFINE v == SetFst(w, f, "dopnw")
<1>1. /\ Good(v, NoSlot, 0) /\ v.fil[f].st = "dopnw"
      /\ v.fil[f].x[0] = NoSlot /\ v.fil[f].x[1] = NoSlot
      /\ v.fil[f].nsatt + 2 <= v.fil[f].nsrsrv
  BY DopnGood
<1> HIDE DEF v
<1>2. Good(sm_dux(v, f, lskt, fskt, "init"), NoSlot, 0)
  BY <1>1, DuxGood DEF TwoReady
<1> QED
  BY <1>2, KillGood DEF v

(* fi_sktnm(): the socket number of the server has come, and the ICP of a  *)
(* user ends.                                                              *)
LEMMA SktnmGood ==
    ASSUME NEW w, Good(w, NoSlot, 0), NEW p \in Slot, w.skt[p].st = "open",
           ~Odd(w.skt[p].lskt), NEW n \in Nat
    PROVE  Good(fi_sktnm(w, p, n), NoSlot, 0)
<1> DEFINE f == w.skt[p].filep
           lskt == w.skt[p].lskt + 2
<1>1. f \in File /\ w.skt[p].lskt \in Int
  <2>1. p # NoSlot /\ w.skt[p].st \in Attachable
    BY DEF Slot, NoSlot, Attachable, SktState
  <2> QED
    BY <2>1, FileOfIt
<1>2. lskt \in Int /\ ~Odd(lskt)
  <2>1. \A k \in Int : ~Odd(k) => k + 2 \in Int /\ ~Odd(k + 2)
    BY OddSum
  <2> QED
    BY <1>1, <2>1, Zenon
<1>3. \/ fi_sktnm(w, p, n) = w
      \/ fi_sktnm(w, p, n) = kill_skt(w, p)
      \/ /\ w.fil[f].st = "uisnw"
         /\ fi_sktnm(w, p, n) = kill_skt(sm_dux(SetFst(w, f, "dopnw"), f, lskt, n, "init"), p)
  BY DEF fi_sktnm
<1> HIDE DEF f, lskt
<1>4. w.fil[f].st = "uisnw" =>
        Good(kill_skt(sm_dux(SetFst(w, f, "dopnw"), f, lskt, n, "init"), p), NoSlot, 0)
  BY <1>1, <1>2, IcpDoneGood
<1> QED
  BY <1>3, <1>4, KillGood, SMTT(60)

(* fi_rfnm(): the server's socket number has gone, and his ICP ends.       *)
LEMMA RfnmGood ==
    ASSUME NEW w, Good(w, NoSlot, 0), NEW p \in Slot, w.skt[p].st \in Attachable
    PROVE  Good(fi_rfnm(w, p), NoSlot, 0)
<1> DEFINE f == w.skt[p].filep
           fskt == w.skt[p].fskt + 2
           base == w.fil[f].base
<1>1. f \in File /\ w.skt[p].fskt \in Int /\ FileOK(w.fil, f)
  <2>1. p # NoSlot
    BY DEF Slot, NoSlot
  <2> QED
    BY <2>1, FileOfIt
<1>2. fskt \in Int
  BY <1>1
<1>3. \/ fi_rfnm(w, p) = w
      \/ /\ w.fil[f].st = "sirfw"
         /\ fi_rfnm(w, p) = kill_skt(sm_dux(SetFst(w, f, "dopnw"), f, base, fskt, "init"), p)
  BY DEF fi_rfnm
<1> HIDE DEF f, fskt, base
<1>4. base \in Int /\ (w.fil[f].st = "sirfw" => ~Odd(base))
  <2>1. w.fil[f] \in FileT
    BY <1>1, GoodTypes
  <2> QED
    BY <1>1, <2>1, TableTypes DEF FileOK, base
<1>5. w.fil[f].st = "sirfw" =>
        Good(kill_skt(sm_dux(SetFst(w, f, "dopnw"), f, base, fskt, "init"), p), NoSlot, 0)
  BY <1>1, <1>2, <1>4, IcpDoneGood
<1> QED
  BY <1>3, <1>5, SMTT(60)

(* fi_all(): an allocation has come, and the server sends his socket       *)
(* number if it is enough.                                                 *)
LEMMA AllGood ==
    ASSUME NEW w, Good(w, NoSlot, 0), NEW p \in Slot, w.skt[p].st = "open",
           Odd(w.skt[p].lskt), NEW enough \in BOOLEAN
    PROVE  Good(fi_all(w, p, enough), NoSlot, 0)
<1> DEFINE f == w.skt[p].filep
           i == w.skt[p].sinx
<1>1. p # NoSlot /\ w.skt[p].st \in Attachable /\ w.skt[p].st \notin Fresh
  BY SMTT(60) DEF Slot, NoSlot, Attachable, SktState, Fresh
<1>2. /\ f \in File /\ i \in Node /\ w.fil[f].x[i] = p
      /\ EntryOK(w.skt, w.fil, f, i, NoSlot)
  BY <1>1, FileOfIt
<1>3. i # ksx_rcv
  BY <1>2 DEF EntryOK
<1>4. CASE i = ksx_xmit
  <2>1. fi_all(w, p, enough) = kw_mod(w, p)
    BY <1>4 DEF fi_all, ksx_icp, ksx_rcv, ksx_xmit
  <2> QED
    BY <1>1, <2>1, KwSame, GoodSame
<1>5. CASE i = ksx_icp
  <2> DEFINE a == SetFst(w, f, "sirfw")
             b == SetSt(a, p, "orfnmw")
             c == [b EXCEPT !.ssn = b.ssn \cup {p}]
  <2>1. \/ fi_all(w, p, enough) = w
        \/ fi_all(w, p, enough) = kill_skt(w, p)
        \/ w.fil[f].st = "sialw" /\ fi_all(w, p, enough) = c
    BY <1>5 DEF fi_all, ksx_icp, ksx_rcv, ksx_xmit
  <2>2. ASSUME w.fil[f].st = "sialw" PROVE Good(c, NoSlot, 0)
    <3>1. FileOK(w.fil, f) /\ w.fil[f].st \in Early /\ w.fil[f].st # "null" /\ ~Odd(w.fil[f].base)
          /\ w.fil[f].x[0] = NoSlot /\ w.fil[f].x[1] = NoSlot
      BY <1>2, <2>2, ZenonT(60) DEF Good, Tab, FileOK, Early
    <3>2. \A j \in Node : w.fil[f].x[j] # NoSlot => w.skt[w.fil[f].x[j]].st \notin Fresh
      <4>1. Node = {0, 1, ksx_icp}
        BY DEF Node, ksx_icp
      <4> QED
        BY <1>1, <1>2, <1>5, <3>1, <4>1, Zenon
    <3>3. "sirfw" \in FileState \ {"null"} /\ "orfnmw" \in Attachable \ Fresh
      BY ZenonT(60) DEF FileState, Attachable, SktState, Fresh
    <3>4. Good(a, NoSlot, 0) /\ FileFrame(a, w, f)
      <4> HIDE DEF f
      <4> QED
        BY <1>2, <3>1, <3>2, <3>3, FstQuiet
    <3> HIDE DEF a
    <3>5. Good(b, NoSlot, 0) /\ b.skt[p].st = "orfnmw"
      <4>1. a.skt[p].st \in Attachable
        BY <1>1, <3>4 DEF FileFrame
      <4> QED
        BY <1>1, <3>3, <3>4, <4>1, SetStMoves, SMTT(60) DEF Goes
    <3> HIDE DEF b
    <3>6. b \in W /\ b.ssn \in SUBSET Slot
      BY <3>5, GoodTypes
    <3>7. /\ c \in W /\ c.skt = b.skt /\ c.fil = b.fil /\ c.nsl = b.nsl /\ c.nfl = b.nfl
          /\ c.grp = b.grp /\ c.ssn = b.ssn \cup {p} /\ c.died = b.died
          /\ c.kf = b.kf /\ c.usr = b.usr /\ c.ncprq = b.ncprq
      BY <3>6 DEF W
    <3>8. \A o \in c.ssn : c.skt[o].st # "q"
      BY <3>5, <3>7 DEF Good
    <3> QED
      BY <3>5, <3>7, <3>8, ZenonT(60) DEF Good
  <2> QED
    BY <2>1, <2>2, KillGood
<1> QED
  BY <1>2, <1>3, <1>4, <1>5 DEF Node, ksx_rcv, ksx_xmit, ksx_icp

-----------------------------------------------------------------------------
(* Loops over the tables *)

(* The worlds between two procedures.                                      *)
Worlds == {w \in W : Good(w, NoSlot, 0)}

(* These are the good worlds.                                              *)
LEMMA WorldsGood == \A w : w \in Worlds <=> Good(w, NoSlot, 0)
BY GoodTypes DEF Worlds

(* The loop of h_dead() over the sockets.                                  *)
LEMMA DeadSktsRuns ==
    ASSUME NEW w, Good(w, NoSlot, 0), NEW h
    PROVE  \E u : /\ u[0] = w /\ u[NSkt] = DeadSkts(w, h)
                 /\ \A p \in 1 .. NSkt : u[p] = DeadSkt(u[p - 1], p, h)
<1> DEFINE Def(g) == g = [p \in 0 .. NSkt |-> IF p = 0 THEN w ELSE DeadSkt(g[p - 1], p, h)]
           upto == CHOOSE g : Def(g)
           step == [p \in 1 .. NSkt |-> [v \in Worlds |-> DeadSkt(v, p, h)]]
<1>1. NSkt \in Nat /\ w \in Worlds
  BY SktMachineAssumption, WorldsGood
<1>2. \A p \in 1 .. NSkt : \A v \in Worlds : DeadSkt(v, p, h) \in Worlds
  <2> SUFFICES ASSUME NEW p \in Slot, NEW v, Good(v, NoSlot, 0)
               PROVE  Good(DeadSkt(v, p, h), NoSlot, 0)
    BY WorldsGood DEF Slot
  <2>1. Good(DeadOp(v, p), NoSlot, 0)
    BY DeadOpGood
  <2> QED
    BY <2>1 DEF DeadSkt
<1>3. step \in [1 .. NSkt -> [Worlds -> Worlds]]
  BY <1>2
<1>4. PICK u : Rounds(NSkt, Worlds, w, step, u)
  <2> HIDE DEF step
  <2> QED
    BY <1>1, <1>3, LoopExists
<1>5. Def(u)
  <2>1. ASSUME NEW p \in 0 .. NSkt
        PROVE  u[p] = IF p = 0 THEN w ELSE DeadSkt(u[p - 1], p, h)
    <3>1. CASE p = 0
      BY <1>4, <3>1 DEF Rounds
    <3>2. CASE p # 0
      <4>1. p \in 1 .. NSkt /\ p - 1 \in 0 .. NSkt
        BY <1>1, <3>2
      <4>2. u[p - 1] \in Worlds
        BY <1>4, <4>1 DEF Rounds
      <4> QED
        BY <1>4, <3>2, <4>1, <4>2 DEF Rounds
    <3> QED
      BY <3>1, <3>2
  <2>2. u = [p \in 0 .. NSkt |-> u[p]]
    BY <1>4 DEF Rounds
  <2> HIDE DEF step
  <2> QED
    BY <2>1, <2>2
<1>6. Def(upto)
  BY <1>5
<1>7. DeadSkts(w, h) = upto[NSkt]
  BY DEF DeadSkts
<1> HIDE DEF upto
<1>8. upto[0] = w
  BY <1>1, <1>6
<1>9. ASSUME NEW p \in 1 .. NSkt PROVE upto[p] = DeadSkt(upto[p - 1], p, h)
  <2>1. p \in 0 .. NSkt /\ p # 0
    BY <1>1
  <2> QED
    BY <1>6, <2>1
<1> QED
  BY <1>7, <1>8, <1>9

(* It keeps the tables in order.                                           *)
LEMMA DeadSktsGood ==
    ASSUME NEW w, Good(w, NoSlot, 0), NEW h
    PROVE  Good(DeadSkts(w, h), NoSlot, 0)
<1>1. PICK u : /\ u[0] = w /\ u[NSkt] = DeadSkts(w, h)
               /\ \A p \in 1 .. NSkt : u[p] = DeadSkt(u[p - 1], p, h)
  BY DeadSktsRuns
<1>2. \A p \in 1 .. NSkt : \A v \in Worlds : DeadSkt(v, p, h) \in Worlds
  <2> SUFFICES ASSUME NEW p \in Slot, NEW v, Good(v, NoSlot, 0)
               PROVE  Good(DeadSkt(v, p, h), NoSlot, 0)
    BY WorldsGood DEF Slot
  <2>1. Good(DeadOp(v, p), NoSlot, 0)
    BY DeadOpGood
  <2> QED
    BY <2>1 DEF DeadSkt
<1>3. NSkt \in Nat /\ u[0] \in Worlds
  BY <1>1, SktMachineAssumption, WorldsGood
<1>4. ASSUME NEW p \in 1 .. NSkt PROVE u[p - 1] \in Worlds => u[p] \in Worlds
  BY <1>1, <1>2
<1>5. u[NSkt] \in Worlds
  BY <1>3, <1>4, LoopStays
<1> QED
  BY <1>1, <1>5, WorldsGood

(* The reset of one file of the kernel.                                    *)
LEMMA SameReset ==
    ASSUME NEW w \in W, NEW id \in Id, NEW h
    PROVE  Same(ResetFile(w, id, h), w)
<1> DEFINE Hit(i) == w.kf[id].node[i].ncpiu /\ h \in {0, w.kf[id].node[i].host}
           Clean(v, i) == IF Hit(i) THEN iclean([v EXCEPT !.kf[id].ferr = TRUE], id, i) ELSE v
<1>1. ASSUME NEW v, Same(v, w), NEW i \in Node
      PROVE  Same(Clean(v, i), w)
  <2> DEFINE k == [v.kf[id] EXCEPT !.ferr = TRUE]
             u == [v EXCEPT !.kf[id] = k]
  <2>1. v \in W /\ v.kf[id] \in KfT
    BY <1>1, KernelTypes DEF Same
  <2>2. k \in KfT /\ k.cnt = v.kf[id].cnt /\ k.tab = v.kf[id].tab
    BY <2>1 DEF KfT
  <2>3. [v EXCEPT !.kf[id].ferr = TRUE] = u
    BY <2>1 DEF W
  <2>4. Clean(v, i) = iclean(u, id, i) \/ Clean(v, i) = v
    BY <2>3
  <2> HIDE DEF k
  <2>5. Same(u, v) /\ u \in W
    BY <2>1, <2>2, SameKf DEF Same
  <2> HIDE DEF u, Clean
  <2>6. Same(iclean(u, id, i), u)
    BY <2>5, SameIclean
  <2> QED
    BY <1>1, <2>4, <2>5, <2>6, SameTrans
<1>2. ResetFile(w, id, h) = w \/ ResetFile(w, id, h) = Clean(Clean(Clean(w, 0), 1), 2)
  BY Zenon DEF ResetFile
<1> HIDE DEF Clean
<1>3. 0 \in Node /\ 1 \in Node /\ 2 \in Node
  BY DEF Node
<1>4. Same(w, w)
  BY SameRefl
<1>5. Same(Clean(w, 0), w)
  BY <1>1, <1>3, <1>4
<1>6. Same(Clean(Clean(w, 0), 1), w)
  BY <1>1, <1>3, <1>5
<1>7. Same(Clean(Clean(Clean(w, 0), 1), 2), w)
  BY <1>1, <1>3, <1>6
<1> QED
  BY <1>2, <1>4, <1>7

(* The files of the kernel, in some order.                                 *)
LEMMA IdsListed ==
    /\ Cardinality(Id) \in Nat
    /\ \A k \in 1 .. Cardinality(Id) : SetToSeq(Id)[k] \in Id
<1>1. Cardinality(Id) \in Nat /\ ExistsBijection(1 .. Cardinality(Id), Id)
  BY NcpOpenAssumption, FS_CardinalityType
<1>2. \E f \in [1 .. Cardinality(Id) -> Id] : IsInjective(f)
  BY <1>1 DEF ExistsBijection, Bijection, Injection
<1>3. SetToSeq(Id) \in [1 .. Cardinality(Id) -> Id]
  BY <1>2 DEF SetToSeq
<1> QED
  BY <1>1, <1>3

(* The loop of the kernel over his files, when a host is dead.             *)
LEMMA ResetFilesRuns ==
    ASSUME NEW w, Good(w, NoSlot, 0), NEW h
    PROVE  \E u : /\ u[0] = w /\ u[Cardinality(Id)] = ResetFiles(w, h)
                 /\ \A k \in 1 .. Cardinality(Id) : u[k] = ResetFile(u[k - 1], SetToSeq(Id)[k], h)
<1> DEFINE N == Cardinality(Id)
           Def(g) == g = [k \in 0 .. N |->
                            IF k = 0 THEN w ELSE ResetFile(g[k - 1], SetToSeq(Id)[k], h)]
           upto == CHOOSE g : Def(g)
           step == [k \in 1 .. N |-> [v \in Worlds |-> ResetFile(v, SetToSeq(Id)[k], h)]]
<1>1. N \in Nat /\ w \in Worlds
  BY IdsListed, WorldsGood
<1>2. \A k \in 1 .. N : \A v \in Worlds : ResetFile(v, SetToSeq(Id)[k], h) \in Worlds
  <2> SUFFICES ASSUME NEW id \in Id, NEW v, Good(v, NoSlot, 0)
               PROVE  Good(ResetFile(v, id, h), NoSlot, 0)
    BY WorldsGood, IdsListed
  <2>1. Same(ResetFile(v, id, h), v)
    BY GoodTypes, SameReset
  <2> QED
    BY <2>1, GoodSame
<1>3. step \in [1 .. N -> [Worlds -> Worlds]]
  BY <1>2
<1>4. PICK u : Rounds(N, Worlds, w, step, u)
  <2> HIDE DEF step, N
  <2> QED
    BY <1>1, <1>3, LoopExists
<1>5. Def(u)
  <2>1. ASSUME NEW k \in 0 .. N
        PROVE  u[k] = IF k = 0 THEN w ELSE ResetFile(u[k - 1], SetToSeq(Id)[k], h)
    <3>1. CASE k = 0
      BY <1>4, <3>1 DEF Rounds
    <3>2. CASE k # 0
      <4>1. k \in 1 .. N /\ k - 1 \in 0 .. N
        BY <1>1, <3>2
      <4>2. u[k - 1] \in Worlds
        BY <1>4, <4>1 DEF Rounds
      <4> QED
        BY <1>4, <3>2, <4>1, <4>2 DEF Rounds
    <3> QED
      BY <3>1, <3>2
  <2>2. u = [k \in 0 .. N |-> u[k]]
    BY <1>4 DEF Rounds
  <2> HIDE DEF step, N
  <2> QED
    BY <2>1, <2>2
<1>6. Def(upto)
  BY <1>5
<1>7. ResetFiles(w, h) = upto[N]
  BY DEF ResetFiles
<1> HIDE DEF upto, N
<1>8. upto[0] = w
  BY <1>1, <1>6
<1>9. ASSUME NEW k \in 1 .. N PROVE upto[k] = ResetFile(upto[k - 1], SetToSeq(Id)[k], h)
  <2>1. k \in 0 .. N /\ k # 0
    BY <1>1
  <2> QED
    BY <1>6, <2>1
<1> QED
  BY <1>7, <1>8, <1>9 DEF N

(* It keeps the tables in order.                                           *)
LEMMA ResetFilesGood ==
    ASSUME NEW w, Good(w, NoSlot, 0), NEW h
    PROVE  Good(ResetFiles(w, h), NoSlot, 0)
<1>1. PICK u : /\ u[0] = w /\ u[Cardinality(Id)] = ResetFiles(w, h)
               /\ \A k \in 1 .. Cardinality(Id) : u[k] = ResetFile(u[k - 1], SetToSeq(Id)[k], h)
  BY ResetFilesRuns
<1>2. \A k \in 1 .. Cardinality(Id) : \A v \in Worlds : ResetFile(v, SetToSeq(Id)[k], h) \in Worlds
  <2> SUFFICES ASSUME NEW id \in Id, NEW v, Good(v, NoSlot, 0)
               PROVE  Good(ResetFile(v, id, h), NoSlot, 0)
    BY WorldsGood, IdsListed
  <2>1. Same(ResetFile(v, id, h), v)
    BY GoodTypes, SameReset
  <2> QED
    BY <2>1, GoodSame
<1>3. Cardinality(Id) \in Nat /\ u[0] \in Worlds
  BY <1>1, IdsListed, WorldsGood
<1>4. ASSUME NEW k \in 1 .. Cardinality(Id) PROVE u[k - 1] \in Worlds => u[k] \in Worlds
  BY <1>1, <1>2
<1>5. u[Cardinality(Id)] \in Worlds
  BY <1>3, <1>4, LoopStays
<1> QED
  BY <1>1, <1>5, WorldsGood

(* h_dead(): a host is dead.                                               *)
LEMMA HDeadGood ==
    ASSUME NEW w, Good(w, NoSlot, 0), NEW h
    PROVE  Good(h_dead(w, h), NoSlot, 0)
<1> DEFINE a == DeadSkts(w, h)
           b == [a EXCEPT !.out = {}]
<1>1. Good(a, NoSlot, 0)
  BY DeadSktsGood
<1> HIDE DEF a
<1>2. a \in W
  BY <1>1, GoodTypes
<1>3. /\ b \in W /\ b.skt = a.skt /\ b.fil = a.fil /\ b.nsl = a.nsl /\ b.nfl = a.nfl
      /\ b.grp = a.grp /\ b.died = a.died /\ b.ssn = a.ssn /\ b.kf = a.kf /\ b.usr = a.usr
      /\ b.ncprq = a.ncprq
  BY <1>2 DEF W
<1>4. h_dead(w, h) = ResetFiles(b, h)
  BY DEF h_dead, a
<1> HIDE DEF b
<1>5. Good(b, NoSlot, 0)
  BY <1>1, <1>3, GoodElse
<1> QED
  BY <1>4, <1>5, ResetFilesGood

(* The timer of a file is cleared.                                         *)
LEMMA TimerOff ==
    ASSUME NEW w, Good(w, NoSlot, 0), NEW f \in File
    PROVE  LET v == [w EXCEPT !.fil[f].timo = FALSE]
           IN  Good(v, NoSlot, 0)
<1> DEFINE F == [w.fil[f] EXCEPT !.timo = FALSE]
           v == [w EXCEPT !.fil[f] = F]
<1>1. w.fil[f] \in FileT /\ w \in W /\ w.fil \in [File -> FileT] /\ FileOK(w.fil, f)
  BY GoodTypes DEF Good, Tab
<1>2. /\ F \in FileT /\ F.st = w.fil[f].st /\ F.id = w.fil[f].id /\ F.x = w.fil[f].x
      /\ F.base = w.fil[f].base /\ F.nsatt = w.fil[f].nsatt /\ F.nsrsrv = w.fil[f].nsrsrv
  BY <1>1 DEF FileT
<1>3. [w EXCEPT !.fil[f].timo = FALSE] = v
  BY <1>1 DEF W
<1> HIDE DEF F
<1>4. FileOK([w.fil EXCEPT ![f] = F], f)
  <2>1. [w.fil EXCEPT ![f] = F][f] = F
    BY <1>1, ZenonT(60)
  <2> QED
    BY <1>1, <1>2, <2>1 DEF FileOK
<1>5. ASSUME NEW i \in Node, F.x[i] # NoSlot, w.skt[F.x[i]].st \in Fresh
      PROVE  F.st \in (IF i = ksx_icp THEN {"uiopw", "siopw"} ELSE {"dopnw"})
  <2>1. EntryOK(w.skt, w.fil, f, i, NoSlot)
    BY <1>2, <1>5, SMTT(60) DEF Good, Tab
  <2> QED
    BY <1>2, <1>5, <2>1 DEF EntryOK
<1>6. Good(v, NoSlot, 0)
  BY <1>2, <1>4, <1>5, GoodFile
<1> QED
  BY <1>3, <1>6

(* The timer of one file runs out.                                         *)
LEMMA TimoFileGood ==
    ASSUME NEW w, Good(w, NoSlot, 0), NEW f \in File
    PROVE  Good(TimoFile(w, f), NoSlot, 0)
<1> DEFINE Kill(v, i) == LET p == v.fil[f].x[i] IN
                IF p = NoSlot THEN v
                ELSE kill_skt([v EXCEPT !.host = v.skt[p].host], p)
           w1 == Kill(Kill(Kill(w, 0), 1), 2)
           u == [w1 EXCEPT !.fil[f].timo = FALSE]
<1>1. ASSUME NEW v, Good(v, NoSlot, 0), NEW i \in Node
      PROVE  Good(Kill(v, i), NoSlot, 0)
  <2> DEFINE p == v.fil[f].x[i]
             a == [v EXCEPT !.host = v.skt[p].host]
  <2>1. CASE p = NoSlot
    BY <1>1, <2>1
  <2>2. CASE p # NoSlot
    <3>1. p \in Slot
      <4>1. v.fil[f] \in FileT
        BY <1>1, GoodTypes, SMTT(60)
      <4> QED
        BY <2>2, <4>1, TableTypes
    <3>2. v.skt[p].host \in Int
      <4>1. v.skt[p] \in SktT
        BY <1>1, <3>1, GoodTypes
      <4> QED
        BY <4>1 DEF SktT
    <3>3. Kill(v, i) = kill_skt(a, p)
      BY <2>2
    <3> HIDE DEF p
    <3>4. Good(a, NoSlot, 0)
      BY <1>1, <3>2, HostGood
    <3> HIDE DEF a, Kill
    <3> QED
      BY <3>1, <3>3, <3>4, KillGood
  <2> QED
    BY <2>1, <2>2
<1>2. TimoFile(w, f) = kw_rdy(u, w1.fil[f].id, TRUE)
  BY DEF TimoFile
<1> HIDE DEF Kill
<1>3. 0 \in Node /\ 1 \in Node /\ 2 \in Node
  BY DEF Node
<1>4. Good(Kill(w, 0), NoSlot, 0)
  BY <1>1, <1>3
<1>5. Good(Kill(Kill(w, 0), 1), NoSlot, 0)
  BY <1>1, <1>3, <1>4
<1>6. Good(w1, NoSlot, 0)
  BY <1>1, <1>3, <1>5
<1> HIDE DEF w1
<1>7. Good(u, NoSlot, 0)
  BY <1>6, TimerOff
<1>8. w1.fil[f].id \in {NoId} \cup Id
  <2>1. w1.fil[f] \in FileT
    BY <1>6, GoodTypes
  <2> QED
    BY <2>1, TableTypes
<1> HIDE DEF u
<1>9. Same(kw_rdy(u, w1.fil[f].id, TRUE), u)
  BY <1>7, <1>8, GoodTypes, SameReady DEF kw_rdy
<1> QED
  BY <1>2, <1>7, <1>9, GoodSame

(* The timer of one socket runs out.                                       *)
LEMMA TimoSktGood ==
    ASSUME NEW w, Good(w, NoSlot, 0), NEW p \in Slot
    PROVE  Good(TimoSkt(w, p), NoSlot, 0)
<1>1. CASE w.skt[p].timo /\ w.skt[p].st = "clsw"
  <2>1. TimoSkt(w, p) = free_skt(w, p)
    BY <1>1 DEF TimoSkt
  <2> QED
    BY <1>1, <2>1, FreeGood
<1>2. CASE ~w.skt[p].timo
  <2>1. TimoSkt(w, p) = w
    BY <1>2 DEF TimoSkt
  <2> QED
    BY <2>1
<1>3. CASE w.skt[p].timo /\ w.skt[p].st # "clsw"
  <2> DEFINE r == [w.skt[p] EXCEPT !.timo = FALSE]
  <2>1. w.skt[p] \in SktT /\ w \in W /\ p # NoSlot
    <3>1. p # NoSlot
      BY DEF Slot, NoSlot
    <3> QED
      BY <3>1, GoodTypes
  <2>2. r \in SktT /\ r.filep = w.skt[p].filep /\ r.sinx = w.skt[p].sinx
        /\ r.lskt = w.skt[p].lskt /\ r.st = w.skt[p].st
    BY <2>1 DEF SktT
  <2>3. TimoSkt(w, p) = [w EXCEPT !.skt[p] = r]
    BY <1>3, <2>1 DEF TimoSkt, W
  <2> HIDE DEF r
  <2>4. Good([w EXCEPT !.skt[p] = r], NoSlot, 0)
    BY <2>1, <2>2, GoodMove
  <2> QED
    BY <2>3, <2>4
<1> QED
  BY <1>1, <1>2, <1>3

(* The loop of the timer over the files.                                   *)
LEMMA TimoFilesRuns ==
    ASSUME NEW w, Good(w, NoSlot, 0), NEW F
    PROVE  \E u : /\ u[0] = w /\ u[NFile] = TimoFiles(w, F)
                 /\ \A k \in 1 .. NFile : u[k] = IF k \in F THEN TimoFile(u[k - 1], k) ELSE u[k - 1]
<1> DEFINE Def(g) == g = [k \in 0 .. NFile |->
                            IF k = 0 THEN w
                            ELSE IF k \in F THEN TimoFile(g[k - 1], k) ELSE g[k - 1]]
           upto == CHOOSE g : Def(g)
           Round(v, k) == IF k \in F THEN TimoFile(v, k) ELSE v
           step == [k \in 1 .. NFile |-> [v \in Worlds |-> Round(v, k)]]
<1>1. NFile \in Nat /\ w \in Worlds
  BY SktMachineAssumption, WorldsGood
<1>2. \A k \in 1 .. NFile : \A v \in Worlds : Round(v, k) \in Worlds
  <2> SUFFICES ASSUME NEW k \in File, NEW v, Good(v, NoSlot, 0)
               PROVE  Good(Round(v, k), NoSlot, 0)
    BY WorldsGood DEF File
  <2> QED
    BY TimoFileGood
<1>3. step \in [1 .. NFile -> [Worlds -> Worlds]]
  BY <1>2
<1>4. PICK u : Rounds(NFile, Worlds, w, step, u)
  <2> HIDE DEF step
  <2> QED
    BY <1>1, <1>3, LoopExists
<1>5. Def(u)
  <2>1. ASSUME NEW k \in 0 .. NFile
        PROVE  u[k] = IF k = 0 THEN w ELSE Round(u[k - 1], k)
    <3>1. CASE k = 0
      BY <1>4, <3>1 DEF Rounds
    <3>2. CASE k # 0
      <4>1. k \in 1 .. NFile /\ k - 1 \in 0 .. NFile
        BY <1>1, <3>2
      <4>2. u[k - 1] \in Worlds
        BY <1>4, <4>1 DEF Rounds
      <4> QED
        BY <1>4, <3>2, <4>1, <4>2 DEF Rounds
    <3> QED
      BY <3>1, <3>2
  <2>2. u = [k \in 0 .. NFile |-> u[k]]
    BY <1>4 DEF Rounds
  <2> HIDE DEF step
  <2> QED
    BY <2>1, <2>2
<1>6. Def(upto)
  BY <1>5
<1>7. TimoFiles(w, F) = upto[NFile]
  BY DEF TimoFiles
<1> HIDE DEF upto
<1>8. upto[0] = w
  BY <1>1, <1>6
<1>9. ASSUME NEW k \in 1 .. NFile PROVE upto[k] = IF k \in F THEN TimoFile(upto[k - 1], k) ELSE upto[k - 1]
  <2>1. k \in 0 .. NFile /\ k # 0
    BY <1>1
  <2> QED
    BY <1>6, <2>1
<1> QED
  BY <1>7, <1>8, <1>9

(* It keeps the tables in order.                                           *)
LEMMA TimoFilesGood ==
    ASSUME NEW w, Good(w, NoSlot, 0), NEW F
    PROVE  Good(TimoFiles(w, F), NoSlot, 0)
<1> DEFINE Round(v, k) == IF k \in F THEN TimoFile(v, k) ELSE v
<1>1. PICK u : /\ u[0] = w /\ u[NFile] = TimoFiles(w, F)
               /\ \A k \in 1 .. NFile : u[k] = IF k \in F THEN TimoFile(u[k - 1], k) ELSE u[k - 1]
  BY TimoFilesRuns
<1>2. \A k \in 1 .. NFile : \A v \in Worlds : Round(v, k) \in Worlds
  <2> SUFFICES ASSUME NEW k \in File, NEW v, Good(v, NoSlot, 0)
               PROVE  Good(Round(v, k), NoSlot, 0)
    BY WorldsGood DEF File
  <2> QED
    BY TimoFileGood
<1>3. NFile \in Nat /\ u[0] \in Worlds
  BY <1>1, SktMachineAssumption, WorldsGood
<1>4. ASSUME NEW k \in 1 .. NFile PROVE u[k - 1] \in Worlds => u[k] \in Worlds
  BY <1>1, <1>2
<1>5. u[NFile] \in Worlds
  BY <1>3, <1>4, LoopStays
<1> QED
  BY <1>1, <1>5, WorldsGood

(* The loop of the timer over the sockets.                                 *)
LEMMA TimoSktsRuns ==
    ASSUME NEW w, Good(w, NoSlot, 0), NEW P
    PROVE  \E u : /\ u[0] = w /\ u[NSkt] = TimoSkts(w, P)
                 /\ \A k \in 1 .. NSkt : u[k] = IF k \in P THEN TimoSkt(u[k - 1], k) ELSE u[k - 1]
<1> DEFINE Def(g) == g = [k \in 0 .. NSkt |->
                            IF k = 0 THEN w
                            ELSE IF k \in P THEN TimoSkt(g[k - 1], k) ELSE g[k - 1]]
           upto == CHOOSE g : Def(g)
           Round(v, k) == IF k \in P THEN TimoSkt(v, k) ELSE v
           step == [k \in 1 .. NSkt |-> [v \in Worlds |-> Round(v, k)]]
<1>1. NSkt \in Nat /\ w \in Worlds
  BY SktMachineAssumption, WorldsGood
<1>2. \A k \in 1 .. NSkt : \A v \in Worlds : Round(v, k) \in Worlds
  <2> SUFFICES ASSUME NEW k \in Slot, NEW v, Good(v, NoSlot, 0)
               PROVE  Good(Round(v, k), NoSlot, 0)
    BY WorldsGood DEF Slot
  <2> QED
    BY TimoSktGood
<1>3. step \in [1 .. NSkt -> [Worlds -> Worlds]]
  BY <1>2
<1>4. PICK u : Rounds(NSkt, Worlds, w, step, u)
  <2> HIDE DEF step
  <2> QED
    BY <1>1, <1>3, LoopExists
<1>5. Def(u)
  <2>1. ASSUME NEW k \in 0 .. NSkt
        PROVE  u[k] = IF k = 0 THEN w ELSE Round(u[k - 1], k)
    <3>1. CASE k = 0
      BY <1>4, <3>1 DEF Rounds
    <3>2. CASE k # 0
      <4>1. k \in 1 .. NSkt /\ k - 1 \in 0 .. NSkt
        BY <1>1, <3>2
      <4>2. u[k - 1] \in Worlds
        BY <1>4, <4>1 DEF Rounds
      <4> QED
        BY <1>4, <3>2, <4>1, <4>2 DEF Rounds
    <3> QED
      BY <3>1, <3>2
  <2>2. u = [k \in 0 .. NSkt |-> u[k]]
    BY <1>4 DEF Rounds
  <2> HIDE DEF step
  <2> QED
    BY <2>1, <2>2
<1>6. Def(upto)
  BY <1>5
<1>7. TimoSkts(w, P) = upto[NSkt]
  BY DEF TimoSkts
<1> HIDE DEF upto
<1>8. upto[0] = w
  BY <1>1, <1>6
<1>9. ASSUME NEW k \in 1 .. NSkt PROVE upto[k] = IF k \in P THEN TimoSkt(upto[k - 1], k) ELSE upto[k - 1]
  <2>1. k \in 0 .. NSkt /\ k # 0
    BY <1>1
  <2> QED
    BY <1>6, <2>1
<1> QED
  BY <1>7, <1>8, <1>9

(* It keeps the tables in order.                                           *)
LEMMA TimoSktsGood ==
    ASSUME NEW w, Good(w, NoSlot, 0), NEW P
    PROVE  Good(TimoSkts(w, P), NoSlot, 0)
<1> DEFINE Round(v, k) == IF k \in P THEN TimoSkt(v, k) ELSE v
<1>1. PICK u : /\ u[0] = w /\ u[NSkt] = TimoSkts(w, P)
               /\ \A k \in 1 .. NSkt : u[k] = IF k \in P THEN TimoSkt(u[k - 1], k) ELSE u[k - 1]
  BY TimoSktsRuns
<1>2. \A k \in 1 .. NSkt : \A v \in Worlds : Round(v, k) \in Worlds
  <2> SUFFICES ASSUME NEW k \in Slot, NEW v, Good(v, NoSlot, 0)
               PROVE  Good(Round(v, k), NoSlot, 0)
    BY WorldsGood DEF Slot
  <2> QED
    BY TimoSktGood
<1>3. NSkt \in Nat /\ u[0] \in Worlds
  BY <1>1, SktMachineAssumption, WorldsGood
<1>4. ASSUME NEW k \in 1 .. NSkt PROVE u[k - 1] \in Worlds => u[k] \in Worlds
  BY <1>1, <1>2
<1>5. u[NSkt] \in Worlds
  BY <1>3, <1>4, LoopStays
<1> QED
  BY <1>1, <1>5, WorldsGood

-----------------------------------------------------------------------------
(* f_make() *)

(* The new file has no sockets; what it reserves is taken from n_s_left.   *)
LEMMA MakeGood ==
    ASSUME NEW w, Good(w, NoSlot, 0), NEW id \in Id, ~Known(w.fil, w.ncprq, id), w.kf[id].tab,
           Cardinality(Holders(w.usr, id)) + 1 <= w.kf[id].cnt,
           NEW f \in File, w.fil[f].st = "null",
           NEW F \in FileT, F.st \in {"dopnw", "uiopw", "siopw"}, F.id = id,
           F.x = [i \in Node |-> NoSlot], F.nsatt = 0, F.nsrsrv \in {1, 2, 3},
           F.st # "dopnw" => F.nsrsrv = 3, F.st = "siopw" => ~Odd(F.base),
           NEW v \in W, v.skt = w.skt, v.fil = [w.fil EXCEPT ![f] = F],
           v.nsl = w.nsl - F.nsrsrv, v.nfl = w.nfl - 1, v.ssn = w.ssn, v.died = w.died,
           v.kf = w.kf, v.usr = w.usr, v.ncprq = w.ncprq,
           SocketsNamed => w.grp \ v.grp \subseteq {F.base}
    PROVE  Good(v, NoSlot, 0)
<1> DEFINE new == [w.fil EXCEPT ![f] = F]
<1>1. w \in W /\ w.skt \in [Slot -> SktT] /\ w.fil \in [File -> FileT] /\ w.nsl \in Int
      /\ w.nfl \in Int /\ w.grp \in SUBSET Group
  BY GoodTypes
<1>2. /\ Tab(w.skt, w.fil, NoSlot) /\ Acc(w.skt, w.fil, w.nsl, w.nfl, NoSlot, 0)
      /\ Refs(w.fil, w.kf, w.ncprq, w.usr) /\ FileOK(w.fil, f)
  BY DEF Good, Tab
<1>3. new \in [File -> FileT] /\ new[f] = F /\ \A g \in File \ {f} : new[g] = w.fil[g]
  BY <1>1
<1>4. Tab(w.skt, new, NoSlot)
  <2>1. F.x = w.fil[f].x /\ \A i \in Node : F.x[i] = NoSlot
    BY <1>1, <1>2, NoneAttached
  <2>2. F.x[0] = NoSlot /\ F.x[1] = NoSlot /\ F.x[2] = NoSlot
    BY <2>1 DEF Node
  <2>3. FileOK(new, f)
    <3> HIDE DEF new
    <3> QED
      BY <1>3, <2>2 DEF FileOK, In, Early
  <2> QED
    BY <1>1, <1>2, <2>1, <2>3, TabFile
<1>5. Acc(w.skt, new, v.nsl, v.nfl, NoSlot, 0)
  <2>1. SeqSum(Rsrv(new)) = SeqSum(Rsrv(w.fil)) - w.fil[f].nsrsrv + F.nsrsrv
        /\ SeqSum(Rsrv(w.fil)) \in Int
    BY <1>1, RsrvSum
  <2>2. Cardinality(Frees(new)) = Cardinality(Frees(w.fil)) - 1
    <3>1. F.st # "null"
      OBVIOUS
    <3> QED
      BY <1>1, <3>1, FreesChange
  <2>3. Cardinality(Queue(w.skt, NoSlot)) \in Int
    BY TablesFinite DEF Queue
  <2>4. NSkt \in Int
    BY SktMachineAssumption
  <2>5. w.nsl + 0 = NSkt - SeqSum(Rsrv(w.fil)) - Cardinality(Queue(w.skt, NoSlot))
        /\ w.nfl = Cardinality(Frees(w.fil))
    BY <1>2 DEF Acc
  <2>6. w.fil[f].nsrsrv = 0
    BY <1>2 DEF FileOK
  <2> HIDE DEF new
  <2> QED
    BY <1>1, <2>1, <2>2, <2>3, <2>4, <2>5, <2>6 DEF Acc
<1> HIDE DEF new
<1>6. v.fil = new
  BY DEF new
<1>7. Refs(new, w.kf, w.ncprq, w.usr)
  <2>1. \A g \in File : new[g].st # "null" =>
            \/ g = f /\ new[g].id = id
            \/ g # f /\ w.fil[g].st # "null" /\ new[g].id = w.fil[g].id
    BY <1>3
  <2>2. \A j \in Id : Known(new, w.ncprq, j) => Known(w.fil, w.ncprq, j) \/ j = id
    BY <2>1 DEF Known
  <2>3. \A g \in File : w.fil[g].st # "null" => w.fil[g].id # id
    BY DEF Known
  <2>4. \A i \in Asked(w.ncprq) : w.ncprq[i].id # id
    BY DEF Known
  <2>5. \A j \in Id :
          /\ Cardinality(Holders(w.usr, j)) <= w.kf[j].cnt
          /\ Known(new, w.ncprq, j) =>
               w.kf[j].tab /\ Cardinality(Holders(w.usr, j)) + 1 <= w.kf[j].cnt
    BY <1>2, <2>2 DEF Refs
  <2>6. \A g \in File : \A h \in File :
            new[g].st # "null" /\ new[h].st # "null" /\ new[g].id = new[h].id
            /\ new[g].id # NoId => g = h
    BY <1>2, <2>1, <2>3 DEF Refs
  <2>7. \A g \in File : \A i \in Asked(w.ncprq) :
            new[g].st # "null" => new[g].id # w.ncprq[i].id
    BY <1>2, <2>1, <2>4 DEF Refs
  <2> QED
    BY <1>2, <2>5, <2>6, <2>7 DEF Refs
<1>8. ASSUME SocketsNamed PROVE Owned(v.grp, new)
  <2> SUFFICES ASSUME NEW g \in Group \ v.grp
               PROVE  \E h \in File : new[h].st # "null" /\ new[h].base = g
    BY DEF Owned
  <2>1. CASE g \in w.grp
    <3>1. g = F.base
      BY <1>8, <2>1
    <3> QED
      BY <1>3, <3>1
  <2>2. CASE g \notin w.grp
    <3>1. PICK h \in File : w.fil[h].st # "null" /\ w.fil[h].base = g
      BY <1>8, <2>2 DEF Owned, Good
    <3> QED
      BY <1>3, <3>1
  <2> QED
    BY <2>1, <2>2
<1>9. ~v.died /\ \A p \in v.ssn : v.skt[p].st # "q"
  BY DEF Good
<1> QED
  BY <1>4, <1>5, <1>6, <1>7, <1>8, <1>9 DEF Good

(* What f_make() puts into the table.                                      *)
MadeFile(st, id, n, base, timo) ==
    [NullFile EXCEPT !.st = st, !.id = id, !.nsrsrv = n, !.base = base, !.timo = timo]

(* The fields of a new file.                                               *)
LEMMA MadeFileTypes ==
    ASSUME NEW st \in FileState, NEW id \in {NoId} \cup Id, NEW n \in Int, NEW base \in Int,
           NEW timo \in BOOLEAN, NEW F, F = MadeFile(st, id, n, base, timo)
    PROVE  /\ F \in FileT /\ F.st = st /\ F.id = id /\ F.nsrsrv = n /\ F.base = base
           /\ F.x = [i \in Node |-> NoSlot] /\ F.nsatt = 0
<1> DEFINE a == [NullFile EXCEPT !.st = st]
           b == [a EXCEPT !.id = id]
           c == [b EXCEPT !.nsrsrv = n]
           e == [c EXCEPT !.base = base]
<1>1. MadeFile(st, id, n, base, timo) = [e EXCEPT !.timo = timo]
  BY DEF MadeFile
<1>2. /\ a \in FileT /\ a.st = st
      /\ a.x = [i \in Node |-> NoSlot] /\ a.nsatt = 0
  <2>1. NullFile \in FileT /\ NullFile.x = [i \in Node |-> NoSlot] /\ NullFile.nsatt = 0
    BY TableTypes
  <2> QED
    BY <2>1 DEF FileT
<1> HIDE DEF a
<1>3. /\ b \in FileT /\ b.st = st /\ b.id = id
      /\ b.x = [i \in Node |-> NoSlot] /\ b.nsatt = 0
  BY <1>2 DEF FileT
<1> HIDE DEF b
<1>4. /\ c \in FileT /\ c.st = st /\ c.id = id /\ c.nsrsrv = n
      /\ c.x = [i \in Node |-> NoSlot] /\ c.nsatt = 0
  BY <1>3 DEF FileT
<1> HIDE DEF c
<1>5. /\ e \in FileT /\ e.st = st /\ e.id = id /\ e.nsrsrv = n /\ e.base = base
      /\ e.x = [i \in Node |-> NoSlot] /\ e.nsatt = 0
  BY <1>4 DEF FileT
<1> HIDE DEF e
<1>6. F = [e EXCEPT !.timo = timo]
  BY <1>1
<1> QED
  BY <1>5, <1>6 DEF FileT

(* While n_f_left is above zero a free file is found: f_make() never falls *)
(* off the table.                                                          *)
LEMMA MadeFree ==
    ASSUME NEW w, Good(w, NoSlot, 0), w.nfl > 0
    PROVE  FreeFiles(w) # {} /\ NewFile(w) \in File /\ w.fil[NewFile(w)].st = "null"
<1>1. w.nfl = Cardinality(Frees(w.fil))
  BY DEF Good, Acc
<1>2. FreeFiles(w) = Frees(w.fil)
  BY DEF FreeFiles, Frees
<1>3. FreeFiles(w) # {}
  BY <1>1, <1>2, FS_EmptySet
<1>4. FreeFiles(w) \subseteq Nat
  BY SktMachineAssumption DEF FreeFiles, File
<1>5. Min(FreeFiles(w)) \in FreeFiles(w)
  BY <1>3, <1>4, MinIn
<1> QED
  BY <1>3, <1>5 DEF NewFile, FreeFiles

(* An id whose open the daemon has read: nothing else refers to it there.  *)
Opening(w, id) ==
    /\ ~Known(w.fil, w.ncprq, id)
    /\ w.kf[id].tab
    /\ Cardinality(Holders(w.usr, id)) + 1 <= w.kf[id].cnt

(* f_make() with the group of numbers that the new file takes.             *)
Made(w, id, n, st, base, timo, G) ==
    [f_make(w, id, n, st, base, timo) EXCEPT !.grp = G]

(* v is w with the new file F in the place f of the table.                 *)
IsMade(v, w, f, F, G) ==
    /\ v \in W /\ v.skt = w.skt /\ v.fil = [w.fil EXCEPT ![f] = F]
    /\ v.nsl = w.nsl - F.nsrsrv /\ v.nfl = w.nfl - 1 /\ v.grp = G
    /\ v.ssn = w.ssn /\ v.died = w.died
    /\ v.kf = w.kf /\ v.usr = w.usr /\ v.ncprq = w.ncprq /\ v.wild = w.wild
    /\ F \in FileT /\ F.x = [i \in Node |-> NoSlot] /\ F.nsatt = 0
    /\ f \in File /\ w.fil[f].st = "null" /\ FreeFiles(w) # {}

(* What f_make() and the assignments after it have changed.                *)
LEMMA MadeFields ==
    ASSUME NEW w, Good(w, NoSlot, 0), NEW id \in Id, NEW n \in Int, w.nfl > 0,
           NEW st \in FileState, NEW base \in Int, NEW timo \in BOOLEAN, NEW G \in SUBSET w.grp
    PROVE  IsMade(Made(w, id, n, st, base, timo, G), w, NewFile(w),
                  MadeFile(st, id, n, base, timo), G)
<1> DEFINE f == NewFile(w)
           F == MadeFile(st, id, n, base, timo)
           new == [w.fil EXCEPT ![f] = F]
           a == w.nfl - 1
           b == w.nsl - n
           v == [w EXCEPT !.fil = new, !.nfl = a, !.nsl = b, !.grp = G]
<1>1. w \in W /\ w.fil \in [File -> FileT] /\ w.nsl \in Int /\ w.nfl \in Int
      /\ w.grp \in SUBSET Group
  BY GoodTypes
<1>2. FreeFiles(w) # {} /\ f \in File /\ w.fil[f].st = "null"
  BY MadeFree
<1>3. /\ F \in FileT /\ F.st = st /\ F.id = id /\ F.nsrsrv = n /\ F.base = base
      /\ F.x = [i \in Node |-> NoSlot] /\ F.nsatt = 0
  BY MadeFileTypes
<1>4. Made(w, id, n, st, base, timo, G) = v
  <2>1. f_make(w, id, n, st, base, timo) = [w EXCEPT !.fil = new, !.nfl = a, !.nsl = b]
    BY <1>1, <1>2 DEF f_make, NewFile, MadeFile, W
  <2> HIDE DEF new, a, b, f, F
  <2> QED
    BY <1>1, <2>1 DEF Made, W
<1> HIDE DEF F
<1>5. new \in [File -> FileT] /\ a \in Int /\ b \in Int
  BY <1>1, <1>2, <1>3
<1> HIDE DEF new, f
<1>6. v \in W /\ v.skt = w.skt /\ v.fil = new /\ v.nsl = b /\ v.nfl = a /\ v.ssn = w.ssn
      /\ v.died = w.died /\ v.kf = w.kf /\ v.usr = w.usr /\ v.ncprq = w.ncprq /\ v.grp = G
      /\ v.wild = w.wild
  <2> HIDE DEF a, b
  <2> QED
    BY <1>1, <1>5 DEF W
<1> HIDE DEF v
<1>7. IsMade(v, w, f, F, G)
  BY <1>2, <1>3, <1>6 DEF IsMade, new
<1> QED
  BY <1>4, <1>7 DEF f, F

(* There is a place for the new file, and with him the tables are good.    *)
MadeWell(w, id, n, st, base, timo, G) ==
    /\ FreeFiles(w) # {} /\ NewFile(w) \in File
    /\ Good(Made(w, id, n, st, base, timo, G), NoSlot, 0)
    /\ Made(w, id, n, st, base, timo, G).fil[NewFile(w)]
         = MadeFile(st, id, n, base, timo)

(* f_make(): a new file of an instruction just read, with one, two or      *)
(* three places reserved.                                                  *)
LEMMA FMakeGood ==
    ASSUME NEW w, Good(w, NoSlot, 0), NEW id \in Id, Opening(w, id),
           NEW n \in {1, 2, 3}, w.nfl > 0, NEW st \in {"dopnw", "uiopw", "siopw"},
           st # "dopnw" => n = 3, NEW base \in Int, st = "siopw" => ~Odd(base),
           NEW timo \in BOOLEAN, NEW G \in SUBSET w.grp,
           SocketsNamed => w.grp \ G \subseteq {base}
    PROVE  MadeWell(w, id, n, st, base, timo, G)
<1> DEFINE f == NewFile(w)
           F == MadeFile(st, id, n, base, timo)
           v == Made(w, id, n, st, base, timo, G)
<1>1. w \in W /\ w.fil \in [File -> FileT] /\ n \in Int /\ st \in FileState
  BY GoodTypes DEF FileState
<1>2. /\ v \in W /\ v.skt = w.skt /\ v.fil = [w.fil EXCEPT ![f] = F]
      /\ v.nsl = w.nsl - n /\ v.nfl = w.nfl - 1 /\ v.grp = G
      /\ v.ssn = w.ssn /\ v.died = w.died
      /\ v.kf = w.kf /\ v.usr = w.usr /\ v.ncprq = w.ncprq
      /\ F \in FileT /\ F.st = st /\ F.id = id /\ F.nsrsrv = n /\ F.base = base
      /\ F.x = [i \in Node |-> NoSlot] /\ F.nsatt = 0
      /\ f \in File /\ w.fil[f].st = "null" /\ FreeFiles(w) # {}
  <2>1. IsMade(v, w, f, F, G)
    BY <1>1, MadeFields
  <2>2. F.st = st /\ F.id = id /\ F.nsrsrv = n /\ F.base = base
    BY <1>1, MadeFileTypes
  <2> HIDE DEF f, F, v
  <2> QED
    BY <2>1, <2>2 DEF IsMade
<1> HIDE DEF f, F, v
<1>3. v.nsl = w.nsl - F.nsrsrv /\ (SocketsNamed => w.grp \ v.grp \subseteq {F.base})
  BY <1>2
<1>4. ~Known(w.fil, w.ncprq, id) /\ w.kf[id].tab
      /\ Cardinality(Holders(w.usr, id)) + 1 <= w.kf[id].cnt
  BY DEF Opening
<1>5. F.st \in {"dopnw", "uiopw", "siopw"} /\ F.nsrsrv \in {1, 2, 3}
      /\ (F.st # "dopnw" => F.nsrsrv = 3) /\ (F.st = "siopw" => ~Odd(F.base))
  BY <1>2
<1>6. Good(v, NoSlot, 0)
  BY <1>2, <1>3, <1>4, <1>5, MakeGood
<1>7. v.fil[f] = F
  BY <1>1, <1>2
<1> QED
  BY <1>2, <1>6, <1>7 DEF MadeWell, f, F, v

(* The same of a direct file, who takes no group.                          *)
LEMMA FMakeDopn ==
    ASSUME NEW w, Good(w, NoSlot, 0), NEW id \in Id, Opening(w, id),
           NEW n \in {1, 2, 3}, w.nfl > 0, NEW base \in Int, NEW timo \in BOOLEAN
    PROVE  MadeWell(w, id, n, "dopnw", base, timo, w.grp)
<1>1. /\ "dopnw" \in {"dopnw", "uiopw", "siopw"} /\ w.grp \in SUBSET w.grp
      /\ w.grp \ w.grp \subseteq {base}
      /\ ("dopnw" # "dopnw" => n = 3) /\ ("dopnw" = "siopw" => ~Odd(base))
  OBVIOUS
<1> QED
  BY <1>1, FMakeGood, Zenon

-----------------------------------------------------------------------------
(* kr_odrct() and kr_oicp() *)

(* A group of socket numbers is taken and belongs to no file.              *)
LEMMA GroupGood ==
    ASSUME NEW w, Good(w, NoSlot, 0), ~SocketsNamed, NEW G \in SUBSET w.grp
    PROVE  Good([w EXCEPT !.grp = G], NoSlot, 0)
<1>1. w \in W /\ w.grp \in SUBSET Group
  BY GoodTypes
<1> DEFINE v == [w EXCEPT !.grp = G]
<1>2. v \in W /\ v.skt = w.skt /\ v.fil = w.fil /\ v.nsl = w.nsl /\ v.nfl = w.nfl
      /\ v.died = w.died /\ v.ssn = w.ssn /\ v.kf = w.kf /\ v.usr = w.usr /\ v.ncprq = w.ncprq
  BY <1>1 DEF W
<1> HIDE DEF v
<1>3. Good(v, NoSlot, 0)
  BY <1>2 DEF Good
<1> QED
  BY <1>3 DEF v

(* The daemon refuses an open; the reference of the instruction goes back. *)
LEMMA ReadyGood ==
    ASSUME NEW w, Good(w, NoSlot, 0), NEW id \in Id
    PROVE  Good(kw_rdy(w, id, TRUE), NoSlot, 0)
<1>1. w \in W /\ TRUE \in BOOLEAN
  BY GoodTypes
<1> QED
  BY <1>1, SameReady, GoodSame DEF kw_rdy

(* a is w, or w with a group less.                                         *)
Took(a, w) == a = w \/ \E G \in SUBSET w.grp : a = [w EXCEPT !.grp = G]

(* v is u with the sockets of the direct file f asked for.                 *)
Asks(v, u, f, op) ==
    \/ \E lskt \in Int, fskt \in Int :
            TwoReady(u, f) /\ ~Odd(lskt) /\ v = sm_dux(u, f, lskt, fskt, op)
    \/ \E lskt \in Int, fskt \in Int, i \in Node :
            /\ Ready(u, f, i) /\ (i = ksx_rcv => ~Odd(lskt))
            /\ v = sm_splx(u, f, lskt, fskt, i, op)

(* A direct file has been made in a, and his sockets are asked for.        *)
Direct(v, a, id, op) ==
    \E n \in {1, 2, 3}, base \in Int :
        LET u == Made(a, id, n, "dopnw", base, FALSE, a.grp) IN
        Good(u, NoSlot, 0) /\ NewFile(a) \in File /\ Asks(v, u, NewFile(a), op)

(* kr_odrct(): a direct open is refused at one of his checks, or opens one *)
(* socket or two.                                                          *)
LEMMA OdrctIs ==
    ASSUME NEW w, Good(w, NoSlot, 0), NEW id \in Id, Opening(w, id),
           NEW o \in OpenRec, o \in Opens, o.type = "drct", NEW g \in Int
    PROVE  \E a : /\ Took(a, w) /\ Good(a, NoSlot, 0) /\ Opening(a, id)
                  /\ \/ kr_odrct(w, id, o, g) = kw_rdy(a, id, TRUE)
                     \/ a.nfl > 0 /\ Direct(kr_odrct(w, id, o, g), a, id, o.op)
<1> DEFINE assign == o.lskt = 0 /\ o.op = "init"
           lskt == IF assign THEN (IF Odd(o.fskt) THEN g ELSE g + 1) ELSE o.lskt
           w1 == IF assign THEN [w EXCEPT !.grp = @ \ {g}] ELSE w
           n == IF o.dux THEN 2 ELSE 1
           f == NewFile(w)
           base == lskt - (lskt % 8)
           w2 == f_make(w1, id, n, "dopnw", base, FALSE)
<1>1. w \in W /\ o.lskt \in Nat /\ o.fskt \in Nat /\ o.op \in {"init", "slsn", "glsn"}
      /\ o.dux \in BOOLEAN
  BY GoodTypes DEF OpenRec
<1>2. lskt \in Int /\ base \in Int /\ n \in {1, 2, 3}
  <2>1. lskt \in Int /\ n \in {1, 2, 3}
    BY <1>1
  <2> HIDE DEF lskt
  <2> QED
    BY <2>1
<1>3. /\ Good(w1, NoSlot, 0) /\ Opening(w1, id) /\ w1.nfl = w.nfl /\ w1.nsl = w.nsl
      /\ w1.fil = w.fil /\ w1.grp \in SUBSET w.grp /\ w1 \in W /\ Took(w1, w)
  <2>1. CASE assign
    <3>1. ~SocketsNamed
      BY <2>1 DEF SocketsNamed
    <3>2. w1 = [w EXCEPT !.grp = w.grp \ {g}] /\ w.grp \ {g} \in SUBSET w.grp
      BY <1>1, <2>1 DEF W
    <3>3. Good(w1, NoSlot, 0)
      BY <3>1, <3>2, GroupGood
    <3>4. w1.nfl = w.nfl /\ w1.nsl = w.nsl /\ w1.fil = w.fil /\ w1.grp \in SUBSET w.grp
          /\ w1.kf = w.kf /\ w1.ncprq = w.ncprq /\ w1.usr = w.usr
      BY <1>1, <3>2 DEF W
    <3> HIDE DEF w1
    <3> QED
      BY <3>2, <3>3, <3>4, GoodTypes DEF Opening, Took
  <2>2. CASE ~assign
    BY <1>1, <2>2 DEF Took
  <2> QED
    BY <2>1, <2>2
<1>4. /\ CanMake(w, n) <=> CanMake(w1, n)
      /\ FreeFiles(w1) = FreeFiles(w) /\ NewFile(w1) = f
  <2> HIDE DEF w1, n
  <2> QED
    BY <1>3 DEF CanMake, FreeFiles, NewFile
<1>5. ASSUME CanMake(w, n)
      PROVE  LET m == Made(w1, id, n, "dopnw", base, FALSE, w1.grp) IN
             /\ w1.nfl > 0 /\ m = w2
             /\ FreeFiles(w) # {} /\ f \in File /\ Good(w2, NoSlot, 0)
             /\ w2.fil[f].st = "dopnw" /\ w2.fil[f].nsatt = 0 /\ w2.fil[f].nsrsrv = n
             /\ w2.fil[f].x = [i \in Node |-> NoSlot]
  <2> DEFINE m == Made(w1, id, n, "dopnw", base, FALSE, w1.grp)
             F == MadeFile("dopnw", id, n, base, FALSE)
  <2>1. w1.nfl > 0 /\ w1.grp \in SUBSET w1.grp /\ w1.grp \ w1.grp \subseteq {base}
    <3> HIDE DEF w1, base, n
    <3> QED
      BY <1>3, <1>5 DEF CanMake
  <2>2. m = w2
    <3> HIDE DEF w1, base, n
    <3>1. w2 \in {[w1 EXCEPT !.died = TRUE]} \cup
            {[w1 EXCEPT !.fil[Min(FreeFiles(w1))] = F, !.nfl = @ - 1, !.nsl = @ - n]}
      BY DEF f_make, MadeFile
    <3> QED
      BY <1>3, <3>1, ZenonT(60) DEF Made, W
  <2> HIDE DEF w1, base, n
  <2>3. ASSUME NEW b \in BOOLEAN
        PROVE  /\ FreeFiles(w1) # {} /\ NewFile(w1) \in File
               /\ Good(Made(w1, id, n, "dopnw", base, b, w1.grp), NoSlot, 0)
               /\ Made(w1, id, n, "dopnw", base, b, w1.grp).fil[NewFile(w1)]
                    = MadeFile("dopnw", id, n, base, b)
    <3>1. Good(w1, NoSlot, 0) /\ Opening(w1, id) /\ n \in {1, 2, 3} /\ w1.nfl > 0
          /\ base \in Int
      BY <1>2, <1>3, <2>1
    <3> QED
      BY <3>1, FMakeDopn, Zenon DEF MadeWell
  <2>4. ASSUME NEW b \in BOOLEAN, NEW G, G = MadeFile("dopnw", id, n, base, b)
        PROVE  G.st = "dopnw" /\ G.nsatt = 0 /\ G.nsrsrv = n
               /\ G.x = [i \in Node |-> NoSlot]
    <3>1. "dopnw" \in FileState /\ id \in {NoId} \cup Id /\ n \in Int
      BY <1>2 DEF FileState
    <3> QED
      BY <1>2, <2>4, <3>1, MadeFileTypes
  <2>5. FreeFiles(w1) # {} /\ NewFile(w1) \in File /\ Good(m, NoSlot, 0)
        /\ m.fil[NewFile(w1)] = F
    BY <2>3, Zenon
  <2>6. F.st = "dopnw" /\ F.nsatt = 0 /\ F.nsrsrv = n /\ F.x = [i \in Node |-> NoSlot]
    BY <2>4, Zenon
  <2> HIDE DEF F, w2, f
  <2>7. FreeFiles(w) # {} /\ f \in File /\ Good(w2, NoSlot, 0)
        /\ w2.fil[f].st = "dopnw" /\ w2.fil[f].nsatt = 0 /\ w2.fil[f].nsrsrv = n
        /\ w2.fil[f].x = [i \in Node |-> NoSlot]
    <3> HIDE DEF m
    <3> QED
      BY <1>4, <2>2, <2>5, <2>6
  <2> QED
    BY <2>1, <2>2, <2>7, Zenon
<1>6. ASSUME CanMake(w, n), NEW v,
             v = sm_dux(w2, f, lskt - (lskt % 2), o.fskt - (o.fskt % 2), o.op), o.dux
      PROVE  Asks(v, w2, f, o.op)
  <2>1. n = 2
    BY <1>6
  <2> HIDE DEF w2, f, lskt, n
  <2>2. TwoReady(w2, f)
    BY <1>5, <1>6, <2>1, SMT DEF Node, TwoReady
  <2>3. lskt - (lskt % 2) \in Int /\ ~Odd(lskt - (lskt % 2)) /\ o.fskt - (o.fskt % 2) \in Int
    BY <1>1, <1>2, OddSum, SMTT(60)
  <2> QED
    BY <1>6, <2>2, <2>3, Zenon DEF Asks
<1>7. ASSUME CanMake(w, n), NEW v, v = sm_splx(w2, f, lskt, o.fskt, lskt % 2, o.op), ~o.dux
      PROVE  Asks(v, w2, f, o.op)
  <2>1. n = 1
    BY <1>7
  <2> HIDE DEF w2, f, lskt, n
  <2>2. lskt % 2 \in {0, 1} /\ (Odd(lskt) <=> lskt % 2 # 0)
    BY <1>2, OddSum
  <2>3. lskt % 2 \in Node /\ lskt % 2 # ksx_icp /\ (lskt % 2 = ksx_rcv => ~Odd(lskt))
    BY <2>2 DEF Node, ksx_icp, ksx_rcv
  <2>4. Ready(w2, f, lskt % 2)
    BY <1>5, <1>7, <2>1, <2>3 DEF Ready
  <2>5. o.fskt \in Int
    BY <1>1
  <2> QED
    BY <1>2, <1>7, <2>3, <2>4, <2>5, Zenon DEF Asks
<1>8. kr_odrct(w, id, o, g) =
        IF assign /\ g = -1 THEN kw_rdy(w, id, TRUE)
        ELSE IF BadPar(o) \/ ~CanMake(w, n) THEN kw_rdy(w1, id, TRUE)
        ELSE IF FreeFiles(w) = {} THEN w2
        ELSE IF o.dux
        THEN sm_dux(w2, f, lskt - (lskt % 2), o.fskt - (o.fskt % 2), o.op)
        ELSE sm_splx(w2, f, lskt, o.fskt, lskt % 2, o.op)
  BY DEF kr_odrct
<1> DEFINE v == kr_odrct(w, id, o, g)
<1> HIDE DEF assign, lskt, w1, n, f, base, w2, v
<1>9. Took(w, w)
  BY DEF Took
<1>10. ASSUME CanMake(w, n), Asks(v, w2, f, o.op)
       PROVE  w1.nfl > 0 /\ Direct(v, w1, id, o.op)
  BY <1>2, <1>4, <1>5, <1>10, Zenon DEF Direct
<1>11. CASE v = kw_rdy(w, id, TRUE)
  BY <1>9, <1>11, Zenon DEF v
<1>12. CASE v = kw_rdy(w1, id, TRUE)
  BY <1>3, <1>12, Zenon DEF v
<1>13. CASE CanMake(w, n) /\ Asks(v, w2, f, o.op)
  BY <1>3, <1>10, <1>13, Zenon DEF v
<1>14. \/ v = kw_rdy(w, id, TRUE)
       \/ v = kw_rdy(w1, id, TRUE)
       \/ CanMake(w, n) /\ Asks(v, w2, f, o.op)
  BY <1>5, <1>6, <1>7, <1>8 DEF v
<1> QED
  BY <1>11, <1>12, <1>13, <1>14, Zenon

(* The tables are good after either.                                       *)
LEMMA OdrctGood ==
    ASSUME NEW w, Good(w, NoSlot, 0), NEW id \in Id, Opening(w, id),
           NEW o \in OpenRec, o \in Opens, o.type = "drct", NEW g \in Int
    PROVE  Good(kr_odrct(w, id, o, g), NoSlot, 0)
<1> DEFINE v == kr_odrct(w, id, o, g)
<1>1. PICK a : /\ Good(a, NoSlot, 0)
               /\ v = kw_rdy(a, id, TRUE) \/ Direct(v, a, id, o.op)
  BY OdrctIs, Zenon
<1> HIDE DEF v
<1>2. CASE v = kw_rdy(a, id, TRUE)
  BY <1>1, <1>2, ReadyGood DEF v
<1>3. CASE Direct(v, a, id, o.op)
  <2>1. PICK u : \E f \in File : Good(u, NoSlot, 0) /\ Asks(v, u, f, o.op)
    BY <1>3, Zenon DEF Direct
  <2>2. PICK f \in File : Good(u, NoSlot, 0) /\ Asks(v, u, f, o.op)
    BY <2>1
  <2>3. o.op \in {"init", "slsn", "glsn"}
    BY DEF OpenRec
  <2>4. CASE \E lskt \in Int, fskt \in Int :
                TwoReady(u, f) /\ ~Odd(lskt) /\ v = sm_dux(u, f, lskt, fskt, o.op)
    <3>1. PICK lskt \in Int, fskt \in Int :
            TwoReady(u, f) /\ ~Odd(lskt) /\ v = sm_dux(u, f, lskt, fskt, o.op)
      BY <2>4, Zenon
    <3>2. Good(sm_dux(u, f, lskt, fskt, o.op), NoSlot, 0)
      BY <2>2, <2>3, <3>1, DuxGood
    <3> QED
      BY <3>1, <3>2, Zenon DEF v
  <2>5. CASE \E lskt \in Int, fskt \in Int, i \in Node :
                /\ Ready(u, f, i) /\ (i = ksx_rcv => ~Odd(lskt))
                /\ v = sm_splx(u, f, lskt, fskt, i, o.op)
    <3>1. PICK lskt \in Int, fskt \in Int, i \in Node :
            /\ Ready(u, f, i) /\ (i = ksx_rcv => ~Odd(lskt))
            /\ v = sm_splx(u, f, lskt, fskt, i, o.op)
      BY <2>5, Zenon
    <3>2. Good(sm_splx(u, f, lskt, fskt, i, o.op), NoSlot, 0)
      BY <2>2, <2>3, <3>1, SplxGood DEF Plugged
    <3> QED
      BY <3>1, <3>2, Zenon DEF v
  <2> QED
    BY <2>2, <2>4, <2>5, Zenon DEF Asks, v
<1> QED
  BY <1>1, <1>2, <1>3

(* The file of an ICP reserves three sockets.                              *)
LEMMA MadeThree ==
    ASSUME NEW st \in FileState, NEW id \in Id, NEW base \in Int, NEW timo \in BOOLEAN
    PROVE  LET K == MadeFile(st, id, 3, base, timo) IN
           /\ K \in FileT /\ K.st = st /\ K.id = id /\ K.nsrsrv = 3 /\ K.base = base
           /\ K.x = [i \in Node |-> NoSlot] /\ K.nsatt = 0
<1>1. id \in {NoId} \cup Id
  OBVIOUS
<1> QED
  BY <1>1, MadeFileTypes

(* v is w with a new file made in it and released again.                   *)
MadeAndGone(v, w, id, f, G) ==
    \E u, F : /\ IsMade(u, w, f, F, G) /\ F.st = "uiopw" /\ F.id = id
              /\ Good(u, NoSlot, 0) /\ v = f_rlse(u, f)

(* So is what a refused ICP leaves: the state of the new file does not     *)
(* matter.                                                                 *)
LEMMA RefusedIs ==
    ASSUME NEW w, Good(w, NoSlot, 0), NEW id \in Id, Opening(w, id), w.nfl > 0,
           NEW st \in {"uiopw", "siopw"}, NEW base \in Int, NEW timo \in BOOLEAN,
           NEW G \in SUBSET w.grp, SocketsNamed => w.grp \ G \subseteq {base}
    PROVE  MadeAndGone(f_rlse(Made(w, id, 3, st, base, timo, G), NewFile(w)), w, id,
                       NewFile(w), G)
<1> DEFINE f == NewFile(w)
           E == MadeFile(st, id, 3, base, timo)
           F == MadeFile("uiopw", id, 3, base, timo)
           v == Made(w, id, 3, st, base, timo, G)
           new == [w.fil EXCEPT ![f] = F]
           u == [v EXCEPT !.fil = new]
<1>1. w \in W /\ w.fil \in [File -> FileT] /\ 3 \in Int /\ st \in FileState
  BY GoodTypes DEF FileState
<1>2. /\ v \in W /\ v.skt = w.skt /\ v.fil = [w.fil EXCEPT ![f] = E]
      /\ v.nsl = w.nsl - 3 /\ v.nfl = w.nfl - 1 /\ v.grp = G
      /\ v.ssn = w.ssn /\ v.died = w.died
      /\ v.kf = w.kf /\ v.usr = w.usr /\ v.ncprq = w.ncprq /\ v.wild = w.wild
      /\ E \in FileT /\ E.id = id /\ E.nsrsrv = 3 /\ E.base = base
      /\ f \in File /\ w.fil[f].st = "null" /\ FreeFiles(w) # {}
  <2>1. IsMade(v, w, f, E, G)
    BY <1>1, MadeFields
  <2>2. E.id = id /\ E.nsrsrv = 3 /\ E.base = base
    BY <1>1, MadeThree
  <2> HIDE DEF f, E, v
  <2> QED
    BY <2>1, <2>2 DEF IsMade
<1>3. /\ F \in FileT /\ F.st = "uiopw" /\ F.id = id /\ F.nsrsrv = 3 /\ F.base = base
      /\ F.x = [i \in Node |-> NoSlot] /\ F.nsatt = 0
  <2>1. "uiopw" \in FileState
    BY DEF FileState
  <2> QED
    BY <2>1, MadeThree
<1> HIDE DEF f, E, F, v
<1>4. new \in [File -> FileT] /\ new[f] = F /\ \A g \in File \ {f} : new[g] = v.fil[g]
  BY <1>1, <1>2, <1>3
<1>5. /\ u \in W /\ u.skt = w.skt /\ u.fil = new
      /\ u.nsl = w.nsl - F.nsrsrv /\ u.nfl = w.nfl - 1 /\ u.grp = G
      /\ u.ssn = w.ssn /\ u.died = w.died
      /\ u.kf = w.kf /\ u.usr = w.usr /\ u.ncprq = w.ncprq /\ u.wild = w.wild
  <2> HIDE DEF new
  <2> QED
    BY <1>2, <1>3, <1>4 DEF W
<1>6. Good(u, NoSlot, 0)
  <2> HIDE DEF u
  <2>1. ~Known(w.fil, w.ncprq, id) /\ w.kf[id].tab
        /\ Cardinality(Holders(w.usr, id)) + 1 <= w.kf[id].cnt
    BY DEF Opening
  <2>2. F.st \in {"dopnw", "uiopw", "siopw"} /\ F.nsrsrv \in {1, 2, 3}
        /\ (F.st # "dopnw" => F.nsrsrv = 3) /\ (F.st = "siopw" => ~Odd(F.base))
        /\ (SocketsNamed => w.grp \ u.grp \subseteq {F.base})
        /\ u.fil = [w.fil EXCEPT ![f] = F]
    BY <1>3, <1>5
  <2> QED
    BY <1>2, <1>3, <1>5, <2>1, <2>2, MakeGood
<1>7. f_rlse(u, f) = f_rlse(v, f)
  <2> DEFINE shared == \E g \in File \ {f} : v.fil[g].st # "null" /\ v.fil[g].base = base
             fin == [v.fil EXCEPT ![f] = NullFile]
             G1 == IF shared THEN v.grp ELSE v.grp \cup ({base} \cap Group)
             a == v.nsl + 3
             b == v.nfl + 1
             x == [v EXCEPT !.nsl = a, !.nfl = b, !.fil = fin, !.grp = G1]
  <2>1. v.fil \in [File -> FileT] /\ v.fil[f] = E
    BY <1>1, <1>2
  <2>2. f_rlse(v, f) = wf_frlse(x, id)
    BY <1>2, <2>1, ZenonT(60) DEF f_rlse, W
  <2>3. u.nsl = v.nsl /\ u.nfl = v.nfl /\ u.grp = v.grp /\ u.fil = new
    <3> HIDE DEF u, new
    <3> QED
      BY <1>2, <1>3, <1>5
  <2>4. [new EXCEPT ![f] = NullFile] = fin
    <3>1. \A g \in File : [new EXCEPT ![f] = NullFile][g] = fin[g]
      BY <1>2, <1>4, <2>1
    <3> QED
      BY <1>4, <2>1, <3>1
  <2>5. shared <=> \E g \in File \ {f} : new[g].st # "null" /\ new[g].base = base
    BY <1>4
  <2> DEFINE y == [u EXCEPT !.nsl = a, !.nfl = b, !.fil = fin, !.grp = G1]
  <2>6. f_rlse(u, f) = wf_frlse(y, id)
    <3> DEFINE sh == \E g \in File \ {f} : u.fil[g].st # "null" /\ u.fil[g].base = base
    <3>1. sh <=> shared
      BY <2>3, <2>5
    <3>2. u.fil[f].base = base /\ u.fil[f].nsrsrv = 3 /\ u.fil[f].id = id
      BY <1>3, <1>4, <2>3
    <3>3. f_rlse(u, f) = wf_frlse([u EXCEPT !.nsl = u.nsl + 3, !.nfl = u.nfl + 1,
                                            !.fil = [u.fil EXCEPT ![f] = NullFile],
                                            !.grp = IF sh THEN u.grp
                                                    ELSE u.grp \cup ({base} \cap Group)], id)
      <4> HIDE DEF u, new
      <4> QED
        BY <1>5, <3>2 DEF f_rlse, W
    <3> HIDE DEF u, new, shared, sh, fin
    <3> QED
      BY <2>3, <2>4, <3>1, <3>3
  <2> HIDE DEF fin, G1, a, b, new
  <2>7. y = x
    BY <1>2 DEF W
  <2> QED
    BY <2>2, <2>6, <2>7
<1>8. IsMade(u, w, f, F, G)
  <2> HIDE DEF u, new
  <2>1. u.fil = [w.fil EXCEPT ![f] = F]
    BY <1>5 DEF new
  <2> QED
    BY <1>2, <1>3, <1>5, <2>1 DEF IsMade
<1> HIDE DEF u
<1> QED
  BY <1>3, <1>6, <1>7, <1>8, Zenon DEF v, f, MadeAndGone

(* The tables are good afterwards.                                         *)
LEMMA RefusedGood ==
    ASSUME NEW w, Good(w, NoSlot, 0), NEW id \in Id, Opening(w, id), w.nfl > 0,
           NEW st \in {"uiopw", "siopw"}, NEW base \in Int, NEW timo \in BOOLEAN,
           NEW G \in SUBSET w.grp, SocketsNamed => w.grp \ G \subseteq {base}
    PROVE  Good(f_rlse(Made(w, id, 3, st, base, timo, G), NewFile(w)), NoSlot, 0)
<1> DEFINE v == f_rlse(Made(w, id, 3, st, base, timo, G), NewFile(w))
           f == NewFile(w)
<1>1. PICK u, F : /\ IsMade(u, w, f, F, G) /\ F.st = "uiopw" /\ F.id = id
                  /\ Good(u, NoSlot, 0) /\ v = f_rlse(u, f)
  <2>1. MadeAndGone(v, w, id, f, G)
    BY RefusedIs, Zenon
  <2> HIDE DEF v, f
  <2> QED
    BY <2>1, Zenon DEF MadeAndGone
<1> HIDE DEF v, f
<1>2. u.fil[f] = F /\ F.nsatt = 0 /\ f \in File
  BY <1>1, GoodTypes DEF IsMade
<1>3. Good(f_rlse(u, f), NoSlot, 0)
  BY <1>1, <1>2, ReleaseGood
<1> QED
  BY <1>1, <1>3, Zenon DEF v, f

(* A file for an ICP has been made in w, and is given back or gets his     *)
(* first socket.                                                           *)
Refused(v, w, id, g) ==
    \E st \in {"uiopw", "siopw"}, timo \in BOOLEAN :
        v = kw_rdy(f_rlse(Made(w, id, 3, st, g, timo, w.grp \ {g}), NewFile(w)), id, TRUE)

Logged(v, m, f, r) ==
    /\ Good(m, NoSlot, 0) /\ f \in File /\ Ready(m, f, ksx_icp)
    /\ r.op \in {"glsn", "slsn", "init"} /\ r.filep = f /\ r.sinx = ksx_icp
    /\ r.lskt \in Int /\ r.fskt \in Int /\ r.host \in Int
    /\ v = get_skt(m, r)

Logs(v, w, id, g) ==
    \E st \in {"uiopw", "siopw"}, timo \in BOOLEAN : \E r :
        Logged(v, Made(w, id, 3, st, g, timo, w.grp \ {g}), NewFile(w), r)

(* kr_oicp(): an open with ICP, of a user or of a server.                  *)
LEMMA OicpIs ==
    ASSUME NEW w, Good(w, NoSlot, 0), NEW id \in Id, Opening(w, id),
           NEW o \in OpenRec, o.type # "drct", NEW g, g = -1 \/ g \in w.grp
    PROVE  LET v == kr_oicp(w, id, o, g) IN
           /\ g \in Int
           /\ \/ v = kw_rdy(w, id, TRUE)
              \/ w.nfl > 0 /\ Refused(v, w, id, g)
              \/ w.nfl > 0 /\ Logs(v, w, id, g)
<1> DEFINE f == NewFile(w)
           user == o.type = "user"
           st == IF user THEN "uiopw" ELSE "siopw"
           timo == user /\ o.timo
           w1 == [f_make(w, id, 3, st, g, timo) EXCEPT !.grp = @ \ {g}]
           r == IF user
                THEN [op |-> "init", lskt |-> g, fskt |-> IF o.fskt = 0 THEN 1 ELSE o.fskt,
                      host |-> o.host, filep |-> f, sinx |-> ksx_icp]
                ELSE [op |-> "glsn", lskt |-> IF o.lskt = 0 THEN 1 ELSE o.lskt, fskt |-> 0,
                      host |-> 0, filep |-> f, sinx |-> ksx_icp]
           m == Made(w, id, 3, st, g, timo, w.grp \ {g})
<1>1. w \in W /\ o.lskt \in Nat /\ o.fskt \in Nat /\ o.host \in Int /\ o.timo \in BOOLEAN
      /\ w.grp \in SUBSET Group
  BY GoodTypes, NcpOpenAssumption DEF OpenRec, W
<1>2. g \in Int /\ (g # -1 => ~Odd(g))
  <2>1. CASE g = -1
    BY <2>1
  <2>2. CASE g \in w.grp
    <3>1. g \in Nat /\ g % 8 = 0
      BY <1>1, <2>2, SktMachineAssumption
    <3> QED
      BY <3>1 DEF Odd
  <2> QED
    BY <2>1, <2>2
<1>3. timo \in BOOLEAN /\ st \in {"uiopw", "siopw"} /\ w.grp \ {g} \in SUBSET w.grp
      /\ (SocketsNamed => w.grp \ (w.grp \ {g}) \subseteq {g})
  OBVIOUS
<1>4. ASSUME CanMake(w, 3) PROVE w.nfl > 0 /\ FreeFiles(w) # {} /\ f \in File /\ w1 = m
  <2>1. w.nfl > 0
    BY <1>4 DEF CanMake
  <2>2. FreeFiles(w) # {} /\ f \in File
    BY <2>1, MadeFree
  <2>3. f_make(w, id, 3, st, g, timo).grp = w.grp
    <3> HIDE DEF st, timo
    <3> QED
      BY <1>1, <2>2 DEF f_make, W
  <2> HIDE DEF st, timo, f
  <2> QED
    BY <2>1, <2>2, <2>3 DEF Made
<1>5. ASSUME CanMake(w, 3), NEW v, v = kw_rdy(f_rlse(w1, f), id, TRUE)
      PROVE  Refused(v, w, id, g)
  <2> HIDE DEF st, timo, w1
  <2> QED
    BY <1>3, <1>4, <1>5, Zenon DEF Refused
<1>6. ASSUME CanMake(w, 3), ~(g = -1 /\ ~user), NEW v, v = get_skt(w1, r)
      PROVE  Logs(v, w, id, g)
  <2>1. st = "siopw" => ~Odd(g)
    BY <1>2, <1>6
  <2>2. r.op \in {"glsn", "slsn", "init"} /\ r.filep = f /\ r.sinx = ksx_icp
        /\ r.lskt \in Int /\ r.fskt \in Int /\ r.host \in Int
    <3> HIDE DEF f
    <3> QED
      BY <1>1, <1>2
  <2> HIDE DEF st, timo, w1, r
  <2>3. f \in File /\ Good(m, NoSlot, 0) /\ m.fil[f] = MadeFile(st, id, 3, g, timo)
    <3>1. 3 \in {1, 2, 3} /\ st \in {"dopnw", "uiopw", "siopw"}
      BY <1>3
    <3> HIDE DEF m
    <3>2. MadeWell(w, id, 3, st, g, timo, w.grp \ {g})
      <4>1. 3 \in {1, 2, 3} /\ w.nfl > 0 /\ (st # "dopnw" => 3 = 3) /\ g \in Int
            /\ timo \in BOOLEAN
        BY <1>2, <1>3, <1>4, <1>6
      <4> QED
        BY <1>3, <2>1, <3>1, <4>1, FMakeGood, Zenon
    <3> QED
      BY <1>4, <3>2, Zenon DEF MadeWell, m
  <2>4. m.fil[f].st = st /\ m.fil[f].nsrsrv = 3 /\ m.fil[f].nsatt = 0
        /\ m.fil[f].x = [i \in Node |-> NoSlot]
    <3>1. st \in FileState /\ id \in {NoId} \cup Id /\ 3 \in Int
      BY <1>3 DEF FileState
    <3> QED
      BY <1>2, <1>3, <2>3, <3>1, MadeFileTypes
  <2>5. Ready(m, f, ksx_icp) /\ ksx_icp \in Node /\ ksx_icp # ksx_rcv
    BY <1>3, <2>4 DEF Ready, ksx_icp, ksx_rcv, Node
  <2> HIDE DEF m
  <2>6. v = get_skt(m, r)
    BY <1>4, <1>6
  <2> HIDE DEF f
  <2>7. Logged(v, m, f, r)
    BY <2>2, <2>3, <2>5, <2>6, Zenon DEF Logged
  <2> QED
    BY <1>3, <2>7, ZenonT(30) DEF Logs, m, f
<1>7. kr_oicp(w, id, o, g) =
        IF ~CanMake(w, 3) THEN kw_rdy(w, id, TRUE)
        ELSE IF FreeFiles(w) = {} THEN w1
        ELSE IF IcpBad(o) \/ (g = -1 /\ ~user) THEN kw_rdy(f_rlse(w1, f), id, TRUE)
        ELSE get_skt(w1, r)
  BY DEF kr_oicp
<1> HIDE DEF f, user, st, timo, w1, r, m
<1> QED
  BY <1>2, <1>4, <1>5, <1>6, <1>7

(* The tables are good after either.                                       *)
LEMMA OicpGood ==
    ASSUME NEW w, Good(w, NoSlot, 0), NEW id \in Id, Opening(w, id),
           NEW o \in OpenRec, o.type # "drct", NEW g, g = -1 \/ g \in w.grp
    PROVE  Good(kr_oicp(w, id, o, g), NoSlot, 0)
<1> DEFINE v == kr_oicp(w, id, o, g)
<1>1. /\ g \in Int
      /\ \/ v = kw_rdy(w, id, TRUE)
         \/ w.nfl > 0 /\ Refused(v, w, id, g)
         \/ w.nfl > 0 /\ Logs(v, w, id, g)
  BY OicpIs, Zenon
<1> HIDE DEF v
<1>2. CASE v = kw_rdy(w, id, TRUE)
  BY <1>2, ReadyGood DEF v
<1>3. CASE w.nfl > 0 /\ Refused(v, w, id, g)
  <2>1. PICK st \in {"uiopw", "siopw"}, timo \in BOOLEAN : v =
          kw_rdy(f_rlse(Made(w, id, 3, st, g, timo, w.grp \ {g}), NewFile(w)), id, TRUE)
    BY <1>3, Zenon DEF Refused
  <2>2. w.grp \ {g} \in SUBSET w.grp /\ w.grp \ (w.grp \ {g}) \subseteq {g}
    OBVIOUS
  <2>3. Good(f_rlse(Made(w, id, 3, st, g, timo, w.grp \ {g}), NewFile(w)), NoSlot, 0)
    BY <1>1, <1>3, <2>2, RefusedGood, Zenon
  <2> QED
    BY <2>1, <2>3, ReadyGood, Zenon DEF v
<1>4. CASE Logs(v, w, id, g)
  <2>1. PICK m, f, r : Logged(v, m, f, r)
    BY <1>4, Zenon DEF Logs
  <2>2. /\ Good(m, NoSlot, 0) /\ f \in File /\ Ready(m, f, ksx_icp)
        /\ r.op \in {"glsn", "slsn", "init"} /\ r.filep = f /\ r.sinx = ksx_icp
        /\ r.lskt \in Int /\ r.fskt \in Int /\ r.host \in Int
        /\ v = get_skt(m, r)
    BY <2>1 DEF Logged
  <2>3. ksx_icp \in Node /\ ksx_icp # ksx_rcv
    BY DEF ksx_icp, ksx_rcv, Node
  <2>4. Plugged(get_skt(m, r), m, f, ksx_icp)
    BY <2>2, <2>3, GetGood
  <2> QED
    BY <2>2, <2>4, Zenon DEF Plugged, v
<1> QED
  BY <1>1, <1>2, <1>3, <1>4, Zenon

-----------------------------------------------------------------------------
(* Reading instructions *)

(* The instructions that stay wait one place further on.                   *)
LEMMA AskedTail ==
    ASSUME NEW q \in Seq(InstrT), q # <<>>
    PROVE  /\ Tail(q) \in Seq(InstrT) /\ Head(q) \in InstrT /\ 1 \in DOMAIN q /\ Head(q) = q[1]
           /\ \A k \in Asked(Tail(q)) : k + 1 \in Asked(q) /\ k + 1 # 1 /\ Tail(q)[k] = q[k + 1]
           /\ Asked(q) \subseteq Int /\ Asked(Tail(q)) \subseteq Int
           /\ Head(q).op = "open" => 1 \in Asked(q)
<1>1. Len(q) \in Nat /\ Len(q) > 0 /\ DOMAIN q = 1 .. Len(q)
  BY EmptySeq
<1>2. Tail(q) \in Seq(InstrT) /\ Len(Tail(q)) = Len(q) - 1
      /\ DOMAIN Tail(q) = 1 .. Len(q) - 1
      /\ \A k \in 1 .. Len(q) - 1 : Tail(q)[k] = q[k + 1]
  BY <1>1, HeadTailProperties
<1>3. Head(q) = q[1] /\ Head(q) \in InstrT /\ 1 \in DOMAIN q
  BY <1>1
<1> QED
  BY <1>1, <1>2, <1>3 DEF Asked

(* The first instruction leaves the queue; an instruction to open leaves a *)
(* reference that no file and no other instruction has.                    *)
LEMMA TailGood ==
    ASSUME NEW w, Good(w, NoSlot, 0), w.ncprq # <<>>
    PROVE  LET v == [w EXCEPT !.ncprq = Tail(@)]
               c == Head(w.ncprq) IN
           /\ Good(v, NoSlot, 0) /\ c \in InstrT
           /\ v.skt = w.skt /\ v.fil = w.fil /\ v.grp = w.grp
           /\ c.op = "open" => Opening(v, c.id)
<1> DEFINE q == w.ncprq
           r == Tail(q)
           c == Head(q)
           v == [w EXCEPT !.ncprq = r]
<1>1. w \in W /\ q \in Seq(InstrT) /\ Refs(w.fil, w.kf, q, w.usr)
  BY GoodTypes DEF W, Good
<1>2. /\ r \in Seq(InstrT) /\ c \in InstrT /\ c = q[1]
      /\ \A k \in Asked(r) : k + 1 \in Asked(q) /\ k + 1 # 1 /\ r[k] = q[k + 1]
      /\ Asked(q) \subseteq Int /\ Asked(r) \subseteq Int
      /\ c.op = "open" => 1 \in Asked(q)
  BY <1>1, AskedTail
<1>3. [w EXCEPT !.ncprq = Tail(@)] = v
  BY <1>1 DEF W
<1> HIDE DEF r, c, q
<1>4. /\ v \in W /\ v.skt = w.skt /\ v.fil = w.fil /\ v.nsl = w.nsl /\ v.nfl = w.nfl
      /\ v.grp = w.grp /\ v.ssn = w.ssn /\ v.died = w.died
      /\ v.kf = w.kf /\ v.usr = w.usr /\ v.ncprq = r
  BY <1>1, <1>2 DEF W
<1> HIDE DEF v
<1>5. \A id \in Id : Known(w.fil, r, id) => Known(w.fil, q, id)
  BY <1>2 DEF Known
<1>6. Refs(w.fil, w.kf, r, w.usr)
  <2>1. \A id \in Id :
          /\ Cardinality(Holders(w.usr, id)) <= w.kf[id].cnt
          /\ Known(w.fil, r, id) =>
               w.kf[id].tab /\ Cardinality(Holders(w.usr, id)) + 1 <= w.kf[id].cnt
    BY <1>1, <1>5 DEF Refs
  <2>2. ASSUME NEW i \in Asked(r), NEW j \in Asked(r), r[i].id = r[j].id
        PROVE  i = j
    <3>1. i + 1 = j + 1
      BY <1>1, <1>2, <2>2, SMTT(60) DEF Refs
    <3>2. i \in Int /\ j \in Int
      BY <1>2
    <3> QED
      BY <3>1, <3>2
  <2>3. \A f \in File : \A i \in Asked(r) : w.fil[f].st # "null" => w.fil[f].id # r[i].id
    BY <1>1, <1>2 DEF Refs
  <2> QED
    BY <1>1, <2>1, <2>2, <2>3 DEF Refs
<1>7. Good(v, NoSlot, 0)
  BY <1>4, <1>6 DEF Good
<1>8. ASSUME c.op = "open" PROVE Opening(v, c.id)
  <2>1. 1 \in Asked(q) /\ q[1].id = c.id /\ c.id \in Id
    BY <1>2, <1>8 DEF InstrT
  <2>2. Known(w.fil, q, c.id)
    BY <2>1 DEF Known
  <2>3. w.kf[c.id].tab /\ Cardinality(Holders(w.usr, c.id)) + 1 <= w.kf[c.id].cnt
    BY <1>1, <2>1, <2>2 DEF Refs
  <2>4. ~Known(w.fil, r, c.id)
    BY <1>1, <1>2, <2>1 DEF Known, Refs
  <2> QED
    BY <1>4, <2>3, <2>4 DEF Opening
<1> QED
  BY <1>2, <1>3, <1>4, <1>7, <1>8 DEF c, q

(* The daemon has no file with the id of an open that he reads: kr_open()  *)
(* finds nothing to forget.                                                *)
LEMMA ForgetNothing ==
    ASSUME NEW w, Good(w, NoSlot, 0), NEW id \in Id, Opening(w, id)
    PROVE  Forget(w, id) = w
<1>1. w \in W /\ w.fil \in [File -> FileT]
  BY GoodTypes
<1>2. \A f \in File : ~(w.fil[f].st # "null" /\ w.fil[f].id = id)
  BY DEF Opening, Known
<1> DEFINE new == [f \in File |->
                    IF w.fil[f].st # "null" /\ w.fil[f].id = id
                    THEN [w.fil[f] EXCEPT !.id = NoId] ELSE w.fil[f]]
<1>3. Forget(w, id) = [w EXCEPT !.fil = new]
  BY <1>1 DEF Forget, W
<1>4. new = w.fil
  BY <1>1, <1>2
<1> HIDE DEF new
<1> QED
  BY <1>1, <1>3, <1>4 DEF W

-----------------------------------------------------------------------------
(* netopen() and netclose() *)

(* Only the kernel's side has changed.                                     *)
LEMMA KernelGood ==
    ASSUME NEW w, Good(w, NoSlot, 0), NEW v \in W, SameTables(v, w),
           Refs(w.fil, v.kf, v.ncprq, v.usr)
    PROVE  Good(v, NoSlot, 0)
BY DEF Good, SameTables

(* The values that the record of a user takes.                             *)
LEMMA UserTypes ==
    /\ IdleUser \in UsrT /\ IdleUser.st = "idle"
    /\ \A id \in Id : \A s \in {"wait", "open"} :
        LET r == [st |-> s, id |-> id, woken |-> FALSE] IN
        r \in UsrT /\ r.st = s /\ r.id = id
    /\ \A r \in UsrT : LET s == [r EXCEPT !.woken = FALSE] IN
        s \in UsrT /\ s.st = r.st /\ s.id = r.id
BY DEF IdleUser, UsrT

(* The users of a file change with the process u only.                     *)
LEMMA HoldersChange ==
    ASSUME NEW us \in [User -> UsrT], NEW u \in User, NEW r \in UsrT, NEW new,
           new = [us EXCEPT ![u] = r]
    PROVE  /\ \A id \in Id : us[u].st # "open" /\ r.st # "open" =>
                Holders(new, id) = Holders(us, id)
           /\ \A id \in Id : us[u].st # "open" /\ r.st = "open" =>
                Cardinality(Holders(new, id)) =
                    Cardinality(Holders(us, id)) + (IF r.id = id THEN 1 ELSE 0)
           /\ \A id \in Id : us[u].st = "open" /\ r.st # "open" =>
                Cardinality(Holders(new, id)) =
                    Cardinality(Holders(us, id)) - (IF us[u].id = id THEN 1 ELSE 0)
<1>1. \A t \in User \ {u} : new[t] = us[t]
  OBVIOUS
<1>2. new[u] = r
  OBVIOUS
<1>3. ASSUME NEW id \in Id, us[u].st # "open", r.st # "open"
      PROVE  Holders(new, id) = Holders(us, id)
  BY <1>1, <1>2, <1>3 DEF Holders
<1>4. ASSUME NEW id \in Id, us[u].st # "open", r.st = "open"
      PROVE  Cardinality(Holders(new, id)) =
                    Cardinality(Holders(us, id)) + (IF r.id = id THEN 1 ELSE 0)
  <2>1. u \notin Holders(us, id)
    BY <1>4 DEF Holders
  <2>2. CASE r.id = id
    <3>1. Holders(new, id) = Holders(us, id) \cup {u}
      BY <1>1, <1>2, <1>4, <2>2 DEF Holders
    <3> QED
      BY <2>1, <2>2, <3>1, UsersFinite, FS_AddElement, ZenonT(60)
  <2>3. CASE r.id # id
    <3>1. Holders(new, id) = Holders(us, id)
      BY <1>1, <1>2, <1>4, <2>3 DEF Holders
    <3> QED
      BY <2>3, <3>1, UsersFinite
  <2> QED
    BY <2>2, <2>3
<1>5. ASSUME NEW id \in Id, us[u].st = "open", r.st # "open"
      PROVE  Cardinality(Holders(new, id)) =
                    Cardinality(Holders(us, id)) - (IF us[u].id = id THEN 1 ELSE 0)
  <2>1. CASE us[u].id = id
    <3>1. Holders(new, id) = Holders(us, id) \ {u} /\ u \in Holders(us, id)
      BY <1>1, <1>2, <1>5, <2>1 DEF Holders
    <3>2. IsFiniteSet(Holders(us, id)) /\ Cardinality(Holders(us, id)) \in Nat
      BY UsersFinite
    <3>3. Cardinality(Holders(us, id) \ {u}) = Cardinality(Holders(us, id)) - 1
      BY <3>1, <3>2, FS_RemoveElement
    <3> QED
      BY <2>1, <3>1, <3>3
  <2>2. CASE us[u].id # id
    <3>1. Holders(new, id) = Holders(us, id)
      BY <1>1, <1>2, <1>5, <2>2 DEF Holders
    <3> QED
      BY <2>2, <3>1, UsersFinite
  <2> QED
    BY <2>1, <2>2
<1> QED
  BY <1>3, <1>4, <1>5

(* The files of the kernel, the instructions and the users after netopen():*)
(* the file id is new, and so is the instruction to open it.               *)
Requested(v, w, u, id) ==
    /\ v \in W /\ SameTables(v, w) /\ v.wild = w.wild
    /\ v.kf[id].cnt = 1 /\ v.kf[id].tab /\ ~v.kf[id].fopen
    /\ \A i \in Node : v.kf[id].node[i] = NoNode
    /\ \A j \in Id \ {id} : v.kf[j] = w.kf[j]
    /\ \E k \in Int :
        /\ k \notin Asked(w.ncprq) /\ Asked(v.ncprq) = Asked(w.ncprq) \cup {k}
        /\ v.ncprq[k].id = id /\ \A i \in Asked(w.ncprq) : v.ncprq[i] = w.ncprq[i]
    /\ v.usr[u].st = "wait" /\ v.usr[u].id = id /\ \A t \in User \ {u} : v.usr[t] = w.usr[t]
    /\ \A j \in Id : Holders(v.usr, j) = Holders(w.usr, j)
    /\ ~Known(w.fil, w.ncprq, id) /\ Holders(w.usr, id) = {}

(* netopen(): a user takes a free file of the kernel and asks the daemon   *)
(* to open it.                                                             *)
LEMMA NetopenIs ==
    ASSUME NEW w, Good(w, NoSlot, 0), NEW u \in User, w.usr[u].st = "idle",
           NEW id \in Id, w.kf[id].cnt = 0, NEW o \in Opens
    PROVE  Requested(netopen(w, u, id, o), w, u, id)
<1> DEFINE K == [FreeFile EXCEPT !.cnt = 1, !.tab = TRUE]
           e == [op |-> "open", id |-> id, o |-> o]
           U == [st |-> "wait", id |-> id, woken |-> FALSE]
           q == w.ncprq
           kn == [w.kf EXCEPT ![id] = K]
           qn == Append(q, e)
           un == [w.usr EXCEPT ![u] = U]
           v == [w EXCEPT !.kf = kn, !.ncprq = qn, !.usr = un]
<1>1. w \in W /\ w.kf \in [Id -> KfT] /\ q \in Seq(InstrT) /\ w.usr \in [User -> UsrT]
      /\ Refs(w.fil, w.kf, q, w.usr)
  BY GoodTypes DEF Good, W
<1>2. K \in KfT /\ K.cnt = 1 /\ K.tab /\ ~K.fopen /\ \A i \in Node : K.node[i] = NoNode
  <2> DEFINE a == [FreeFile EXCEPT !.cnt = 1]
  <2>1. FreeFile \in KfT /\ ~FreeFile.fopen /\ \A i \in Node : FreeFile.node[i] = NoNode
    BY DEF FreeFile, KfT, NoNode, NodeRec
  <2>2. a \in KfT /\ a.cnt = 1 /\ ~a.fopen /\ a.node = FreeFile.node
    BY <2>1 DEF KfT
  <2>3. K = [a EXCEPT !.tab = TRUE]
    OBVIOUS
  <2> HIDE DEF a
  <2> QED
    BY <2>1, <2>2, <2>3 DEF KfT
<1>3. e \in InstrT /\ e.op = "open" /\ e.id = id
  BY DEF InstrT
<1>4. U \in UsrT /\ U.st = "wait" /\ U.id = id
  BY DEF UsrT
<1>5. netopen(w, u, id, o) = v
  BY <1>1 DEF netopen, W
<1> HIDE DEF K, e, U
<1>6. kn \in [Id -> KfT] /\ kn[id] = K /\ \A j \in Id \ {id} : kn[j] = w.kf[j]
  BY <1>1, <1>2
<1>7. /\ qn \in Seq(InstrT) /\ Asked(qn) = Asked(q) \cup {Len(q) + 1}
      /\ Len(q) + 1 \notin Asked(q) /\ qn[Len(q) + 1] = e
      /\ \A k \in Asked(q) : qn[k] = q[k]
  <2>1. Len(q) \in Nat /\ DOMAIN q = 1 .. Len(q)
    BY <1>1
  <2>2. qn \in Seq(InstrT) /\ DOMAIN qn = 1 .. Len(q) + 1 /\ qn[Len(q) + 1] = e
        /\ \A k \in 1 .. Len(q) : qn[k] = q[k]
    BY <1>1, <1>3, <2>1, AppendProperties
  <2> HIDE DEF qn, q
  <2> QED
    BY <1>3, <2>1, <2>2 DEF Asked
<1>8. un \in [User -> UsrT] /\ un[u] = U /\ \A t \in User \ {u} : un[t] = w.usr[t]
  BY <1>1, <1>4
<1>9. \A j \in Id : Holders(un, j) = Holders(w.usr, j)
  <2>1. un = [w.usr EXCEPT ![u] = U] /\ w.usr \in [User -> UsrT] /\ U \in UsrT
        /\ w.usr[u].st # "open" /\ U.st # "open"
    BY <1>1, <1>4, Zenon
  <2> HIDE DEF un
  <2> QED
    BY <2>1, HoldersChange, SMTT(60)
<1> HIDE DEF kn, qn, un
<1>10. v \in W /\ SameTables(v, w) /\ v.kf = kn /\ v.ncprq = qn /\ v.usr = un
       /\ v.wild = w.wild
  BY <1>1, <1>6, <1>7, <1>8 DEF W, SameTables
<1>11. ~Known(w.fil, q, id) /\ Holders(w.usr, id) = {}
  <2>1. Cardinality(Holders(w.usr, id)) \in Nat /\ IsFiniteSet(Holders(w.usr, id))
    BY UsersFinite
  <2>2. ~Known(w.fil, q, id) /\ Cardinality(Holders(w.usr, id)) = 0
    BY <1>1, <2>1 DEF Refs
  <2> QED
    BY <2>1, <2>2, FS_EmptySet
<1>12. Len(q) + 1 \in Int
  BY <1>1
<1> HIDE DEF v, q
<1>13. v.kf[id] = K /\ \A j \in Id \ {id} : v.kf[j] = w.kf[j]
  BY <1>6, <1>10
<1>14. \E k \in Int :
        /\ k \notin Asked(q) /\ Asked(v.ncprq) = Asked(q) \cup {k}
        /\ v.ncprq[k].id = id /\ \A i \in Asked(q) : v.ncprq[i] = q[i]
  BY <1>3, <1>7, <1>10, <1>12
<1>15. v.usr[u].st = "wait" /\ v.usr[u].id = id /\ \A t \in User \ {u} : v.usr[t] = w.usr[t]
  BY <1>4, <1>8, <1>10
<1>16. \A j \in Id : Holders(v.usr, j) = Holders(w.usr, j)
  BY <1>9, <1>10
<1>17. Requested(v, w, u, id)
  BY <1>2, <1>10, <1>11, <1>13, <1>14, <1>15, <1>16 DEF Requested, q
<1> QED
  BY <1>5, <1>17

(* The tables are good afterwards.                                         *)
LEMMA NetopenGood ==
    ASSUME NEW w, Good(w, NoSlot, 0), NEW u \in User, w.usr[u].st = "idle",
           NEW id \in Id, w.kf[id].cnt = 0, NEW o \in Opens
    PROVE  Good(netopen(w, u, id, o), NoSlot, 0)
<1> DEFINE v == netopen(w, u, id, o)
           q == w.ncprq
<1>1. Requested(v, w, u, id)
  BY NetopenIs
<1> HIDE DEF v
<1>2. v \in W /\ SameTables(v, w) /\ Refs(w.fil, w.kf, q, w.usr)
  BY <1>1 DEF Requested, Good
<1>3. ~Known(w.fil, q, id) /\ Cardinality(Holders(w.usr, id)) = 0
  BY <1>1, FS_EmptySet DEF Requested
<1>4. PICK n \in Int : /\ n \notin Asked(q) /\ Asked(v.ncprq) = Asked(q) \cup {n}
                       /\ v.ncprq[n].id = id /\ \A i \in Asked(q) : v.ncprq[i] = q[i]
  BY <1>1 DEF Requested
<1> HIDE DEF q
<1>5. Refs(w.fil, v.kf, v.ncprq, v.usr)
  <2>1. \A j \in Id \ {id} : Known(w.fil, v.ncprq, j) => Known(w.fil, q, j)
    BY <1>4 DEF Known
  <2>2. ASSUME NEW j \in Id
        PROVE  /\ Cardinality(Holders(v.usr, j)) <= v.kf[j].cnt
               /\ Known(w.fil, v.ncprq, j) =>
                    v.kf[j].tab /\ Cardinality(Holders(v.usr, j)) + 1 <= v.kf[j].cnt
    <3>1. CASE j = id
      BY <1>1, <1>3, <3>1 DEF Requested
    <3>2. CASE j # id
      BY <1>1, <1>2, <2>1, <3>2 DEF Refs, Requested
    <3> QED
      BY <3>1, <3>2
  <2>3. \A i \in Asked(v.ncprq) : \A j \in Asked(v.ncprq) :
            v.ncprq[i].id = v.ncprq[j].id => i = j
    <3>1. \A i \in Asked(q) : q[i].id # id
      BY <1>3 DEF Known
    <3> QED
      BY <1>2, <1>4, <3>1 DEF Refs
  <2>4. \A f \in File : \A i \in Asked(v.ncprq) :
            w.fil[f].st # "null" => w.fil[f].id # v.ncprq[i].id
    <3>1. \A f \in File : w.fil[f].st # "null" => w.fil[f].id # id
      BY <1>3 DEF Known
    <3> QED
      BY <1>2, <1>4, <3>1 DEF Refs
  <2>5. \A t \in User : v.usr[t].st # "idle" => v.usr[t].id \in Id
    BY <1>1, <1>2 DEF Refs, Requested
  <2> QED
    BY <1>2, <2>2, <2>3, <2>4, <2>5 DEF Refs
<1> QED
  BY <1>2, <1>5, KernelGood DEF v

(* The user has the file now: his reference is counted, and the sockets    *)
(* are his too.                                                            *)
Seated(v, w, u, id) ==
    /\ v \in W /\ SameTables(v, w) /\ v.wild = w.wild /\ v.ncprq = w.ncprq
    /\ v.kf[id].cnt = w.kf[id].cnt + 1 /\ v.kf[id].tab = w.kf[id].tab
    /\ v.kf[id].fopen /\ w.kf[id].fopen
    /\ \A i \in Node : LET m == w.kf[id].node[i]
                          n == v.kf[id].node[i] IN
            n.st = m.st /\ n.ncpiu = m.ncpiu /\ n.host = m.host
    /\ \A j \in Id \ {id} : v.kf[j] = w.kf[j]
    /\ \E r \in UsrT : r.st = "open" /\ r.id = id /\ v.usr = [w.usr EXCEPT ![u] = r]

(* He has not, or not yet.                                                 *)
Stands(v, w, u, id) ==
    \E r \in UsrT : /\ r.st # "open" /\ (r.st # "idle" => r.id = id)
                    /\ v = [w EXCEPT !.usr[u] = r]

(* netopen() goes on after its sleep: the file is his, or the error is,    *)
(* and then he gives the file back.                                        *)
LEMMA WokenIs ==
    ASSUME NEW w, Good(w, NoSlot, 0), NEW u \in User, w.usr[u].st = "wait"
    PROVE  LET id == w.usr[u].id
               v == NetopenWoken(w, u) IN
           id \in Id /\ (Stands(v, w, u, id) \/ Seated(v, w, u, id))
<1> DEFINE id == w.usr[u].id
<1>1. w \in W /\ w.kf \in [Id -> KfT] /\ w.usr \in [User -> UsrT] /\ w.usr[u] \in UsrT
      /\ Refs(w.fil, w.kf, w.ncprq, w.usr)
  BY GoodTypes DEF Good, W
<1>2. id \in Id /\ w.kf[id] \in KfT
  BY <1>1 DEF Refs
<1> HIDE DEF id
<1>3. ASSUME NEW r \in UsrT, r.st # "open", r.st # "idle" => r.id = id, NEW v,
             v = [w EXCEPT !.usr[u] = r]
      PROVE  Stands(v, w, u, id)
  BY <1>3, Zenon DEF Stands
<1>4. CASE w.kf[id].ferr
  <2>1. NetopenWoken(w, u) = [w EXCEPT !.usr[u] = IdleUser]
    BY <1>4, Zenon DEF NetopenWoken, id
  <2> QED
    BY <1>2, <1>3, <2>1, UserTypes DEF id
<1>5. CASE ~w.kf[id].ferr /\ ~w.kf[id].fopen
  <2> DEFINE r == [w.usr[u] EXCEPT !.woken = FALSE]
  <2>1. r \in UsrT /\ r.st = "wait" /\ r.id = id
    BY <1>1, UserTypes DEF id
  <2>2. [w EXCEPT !.usr[u].woken = FALSE] = [w EXCEPT !.usr[u] = r]
    BY <1>1, SMTT(60) DEF W
  <2>3. NetopenWoken(w, u) = [w EXCEPT !.usr[u] = r]
    BY <1>5, <2>2 DEF NetopenWoken, id
  <2> HIDE DEF r
  <2> QED
    BY <1>2, <1>3, <2>1, <2>3 DEF id
<1>6. CASE ~w.kf[id].ferr /\ w.kf[id].fopen
  <2> DEFINE r == [st |-> "open", id |-> id, woken |-> FALSE]
             n == [i \in Node |->
                    IF i \in {f_rdnode, f_wrtnode} /\ w.kf[id].node[i].st = "skt"
                    THEN [w.kf[id].node[i] EXCEPT !.usriu = TRUE] ELSE w.kf[id].node[i]]
             k == w.kf[id].cnt + 1
             K1 == [w.kf[id] EXCEPT !.cnt = k]
             K == [K1 EXCEPT !.node = n]
             kn == [w.kf EXCEPT ![id] = K]
             un == [w.usr EXCEPT ![u] = r]
             v == [w EXCEPT !.kf = kn, !.usr = un]
  <2>1. NetopenWoken(w, u) = v
    <3>1. NetopenWoken(w, u) =
            [w EXCEPT
                !.kf[id].cnt = @ + 1,
                !.kf[id].node = [i \in Node |->
                    IF i \in {f_rdnode, f_wrtnode} /\ @[i].st = "skt"
                    THEN [@[i] EXCEPT !.usriu = TRUE] ELSE @[i]],
                !.usr[u] = r]
      BY <1>6 DEF NetopenWoken, id
    <3> DEFINE w1 == [w EXCEPT !.kf[id].cnt = w.kf[id].cnt + 1]
    <3>2. w1 = [w EXCEPT !.kf = [w.kf EXCEPT ![id] = K1]]
      BY <1>1, <1>2 DEF W
    <3>3. w1.kf[id].node = w.kf[id].node
      BY <1>1, <1>2, <3>2 DEF W, KfT
    <3>4. NetopenWoken(w, u) = [w1 EXCEPT !.kf[id].node = n, !.usr[u] = r]
      BY <3>1, <3>3
    <3> HIDE DEF w1, n, r, k
    <3> DEFINE w2 == [w1 EXCEPT !.kf[id].node = n]
    <3>5. w2 = [w EXCEPT !.kf = kn]
      BY <1>1, <1>2, <3>2 DEF W
    <3>6. NetopenWoken(w, u) = [w2 EXCEPT !.usr[u] = r]
      BY <3>4
    <3> HIDE DEF w2, K1, K, kn
    <3> QED
      BY <1>1, <3>5, <3>6, SMTT(60) DEF W
  <2>2. n \in [Node -> NodeRec]
        /\ \A i \in Node : n[i].st = w.kf[id].node[i].st /\ n[i].host = w.kf[id].node[i].host
                           /\ n[i].ncpiu = w.kf[id].node[i].ncpiu
    <3>1. \A i \in Node : w.kf[id].node[i] \in NodeRec
      BY <1>1, <1>2, KernelTypes
    <3>2. \A s \in NodeRec : LET t == [s EXCEPT !.usriu = TRUE] IN
            t \in NodeRec /\ t.st = s.st /\ t.host = s.host /\ t.ncpiu = s.ncpiu
      BY DEF NodeRec
    <3> QED
      BY <3>1, <3>2
  <2>3. k \in Int /\ k = w.kf[id].cnt + 1 /\ w.kf[id].cnt \in Int
    BY <1>2 DEF KfT
  <2> HIDE DEF n, k
  <2>4. K1 \in KfT /\ K1.cnt = k /\ K1.tab = w.kf[id].tab /\ K1.fopen
    BY <1>2, <1>6, <2>3 DEF KfT
  <2> HIDE DEF K1
  <2>5. K \in KfT /\ K.cnt = k /\ K.tab = w.kf[id].tab /\ K.fopen /\ K.node = n
    BY <2>2, <2>4 DEF KfT
  <2> HIDE DEF K
  <2>6. kn \in [Id -> KfT] /\ kn[id] = K /\ \A j \in Id \ {id} : kn[j] = w.kf[j]
    BY <1>1, <1>2, <2>5
  <2>7. r \in UsrT /\ r.st = "open" /\ r.id = id
    BY <1>2 DEF UsrT
  <2> HIDE DEF r
  <2>8. un \in [User -> UsrT]
    BY <1>1, <2>7
  <2> HIDE DEF kn
  <2>9. v \in W /\ SameTables(v, w) /\ v.kf = kn /\ v.ncprq = w.ncprq /\ v.usr = un
        /\ v.wild = w.wild
    <3> HIDE DEF un
    <3> QED
      BY <1>1, <2>6, <2>8 DEF W, SameTables
  <2> HIDE DEF v
  <2>10. \E t \in UsrT : t.st = "open" /\ t.id = id /\ v.usr = [w.usr EXCEPT ![u] = t]
    BY <2>7, <2>9
  <2> HIDE DEF un
  <2>11. Seated(v, w, u, id)
    BY <1>6, <2>2, <2>3, <2>5, <2>6, <2>9, <2>10 DEF Seated
  <2> QED
    BY <1>2, <2>1, <2>11 DEF id
<1> QED
  BY <1>4, <1>5, <1>6

(* The tables are good afterwards.                                         *)
LEMMA WokenGood ==
    ASSUME NEW w, Good(w, NoSlot, 0), NEW u \in User, w.usr[u].st = "wait"
    PROVE  Good(NetopenWoken(w, u), NoSlot, 0)
<1> DEFINE id == w.usr[u].id
           v == NetopenWoken(w, u)
<1>1. w \in W /\ w.kf \in [Id -> KfT] /\ w.usr \in [User -> UsrT]
      /\ Refs(w.fil, w.kf, w.ncprq, w.usr)
  BY GoodTypes DEF Good, W
<1>2. id \in Id /\ w.kf[id] \in KfT /\ (Stands(v, w, u, id) \/ Seated(v, w, u, id))
  BY <1>1, WokenIs
<1>3. w.usr[u].st # "open"
  OBVIOUS
<1> HIDE DEF id, v
<1>4. CASE Stands(v, w, u, id)
  <2>1. PICK r \in UsrT : /\ r.st # "open" /\ (r.st # "idle" => r.id = id)
                          /\ v = [w EXCEPT !.usr[u] = r]
    BY <1>4 DEF Stands
  <2> DEFINE un == [w.usr EXCEPT ![u] = r]
             a == [w EXCEPT !.usr = un]
  <2>2. un \in [User -> UsrT] /\ un[u] = r /\ \A t \in User \ {u} : un[t] = w.usr[t]
    BY <1>1
  <2>3. \A j \in Id : Holders(un, j) = Holders(w.usr, j)
    BY <1>1, <1>3, <2>1, HoldersChange
  <2>4. v = a
    BY <1>1, <2>1 DEF W
  <2> HIDE DEF un
  <2>5. a \in W /\ SameTables(a, w) /\ a.kf = w.kf /\ a.ncprq = w.ncprq /\ a.usr = un
    BY <1>1, <2>2 DEF W, SameTables
  <2> HIDE DEF a
  <2>6. Refs(w.fil, w.kf, w.ncprq, un)
    BY <1>1, <1>2, <2>1, <2>2, <2>3 DEF Refs
  <2> QED
    BY <2>4, <2>5, <2>6, KernelGood DEF v
<1>5. CASE Seated(v, w, u, id)
  <2>1. PICK r \in UsrT : r.st = "open" /\ r.id = id /\ v.usr = [w.usr EXCEPT ![u] = r]
    BY <1>5 DEF Seated
  <2>2. \A j \in Id : Cardinality(Holders(v.usr, j)) =
            Cardinality(Holders(w.usr, j)) + (IF id = j THEN 1 ELSE 0)
    BY <1>1, <1>3, <2>1, HoldersChange
  <2>3. Refs(w.fil, v.kf, w.ncprq, v.usr)
    <3>1. ASSUME NEW j \in Id
          PROVE  /\ Cardinality(Holders(v.usr, j)) <= v.kf[j].cnt
                 /\ Known(w.fil, w.ncprq, j) =>
                      v.kf[j].tab /\ Cardinality(Holders(v.usr, j)) + 1 <= v.kf[j].cnt
      <4>1. Cardinality(Holders(w.usr, j)) \in Int /\ w.kf[id].cnt \in Int
        BY <1>2, UsersFinite DEF KfT
      <4>2. /\ Cardinality(Holders(w.usr, j)) <= w.kf[j].cnt
            /\ Known(w.fil, w.ncprq, j) =>
                 w.kf[j].tab /\ Cardinality(Holders(w.usr, j)) + 1 <= w.kf[j].cnt
        BY <1>1 DEF Refs
      <4>3. CASE j = id
        BY <1>5, <2>2, <4>1, <4>2, <4>3 DEF Seated
      <4>4. CASE j # id
        BY <1>5, <2>2, <4>1, <4>2, <4>4 DEF Seated
      <4> QED
        BY <4>3, <4>4
    <3>2. \A t \in User : v.usr[t].st # "idle" => v.usr[t].id \in Id
      BY <1>1, <1>2, <2>1 DEF Refs
    <3> QED
      BY <1>1, <3>1, <3>2 DEF Refs
  <2> QED
    BY <1>5, <2>3, KernelGood DEF Seated, v
<1> QED
  BY <1>2, <1>4, <1>5

(* A reference to the file is on its way out: it is counted, and nobody    *)
(* has it any more.                                                        *)
Spare(w, id) ==
    /\ Cardinality(Holders(w.usr, id)) + 1 <= w.kf[id].cnt
    /\ Known(w.fil, w.ncprq, id) => Cardinality(Holders(w.usr, id)) + 2 <= w.kf[id].cnt

(* A reference that may be given back stays so.                            *)
LEMMA SpareSame ==
    ASSUME NEW v, NEW w, NEW id \in Id, Same(v, w), Spare(w, id)
    PROVE  Spare(v, id)
<1>1. Holders(v.usr, id) = Holders(w.usr, id)
      /\ (Known(v.fil, v.ncprq, id) <=> Known(w.fil, w.ncprq, id))
  BY DEF Same, SameTables, SameRefs, Holders, Known
<1> QED
  BY <1>1 DEF Spare, Same, SameRefs

(* net_frlse(): a user gives back a reference that was his.                *)
LEMMA NetFrlseGood ==
    ASSUME NEW w, Good(w, NoSlot, 0), NEW id \in Id, Spare(w, id)
    PROVE  Good(net_frlse(w, id), NoSlot, 0)
<1>1. w \in W /\ w.kf \in [Id -> KfT] /\ w.kf[id] \in KfT /\ Refs(w.fil, w.kf, w.ncprq, w.usr)
  BY GoodTypes DEF Good, W
<1>2. w.kf[id].cnt \in Int /\ Cardinality(Holders(w.usr, id)) \in Nat
  BY <1>1, UsersFinite DEF KfT
<1>3. ASSUME NEW K \in KfT, K.cnt = w.kf[id].cnt - 1,
             w.kf[id].cnt # 1 => K.tab = w.kf[id].tab
      PROVE  Good([w EXCEPT !.kf[id] = K], NoSlot, 0)
  <2> DEFINE kn == [w.kf EXCEPT ![id] = K]
             v == [w EXCEPT !.kf = kn]
  <2>1. kn \in [Id -> KfT] /\ kn[id] = K /\ \A j \in Id \ {id} : kn[j] = w.kf[j]
    BY <1>1
  <2>2. [w EXCEPT !.kf[id] = K] = v
    BY <1>1 DEF W
  <2> HIDE DEF kn
  <2>3. v \in W /\ SameTables(v, w) /\ v.kf = kn /\ v.ncprq = w.ncprq /\ v.usr = w.usr
    BY <1>1, <2>1 DEF W, SameTables
  <2> HIDE DEF v
  <2>4. Refs(w.fil, kn, w.ncprq, w.usr)
    <3>1. ASSUME NEW j \in Id
          PROVE  /\ Cardinality(Holders(w.usr, j)) <= kn[j].cnt
                 /\ Known(w.fil, w.ncprq, j) =>
                      kn[j].tab /\ Cardinality(Holders(w.usr, j)) + 1 <= kn[j].cnt
      <4>1. /\ Cardinality(Holders(w.usr, j)) <= w.kf[j].cnt
            /\ Known(w.fil, w.ncprq, j) =>
                 w.kf[j].tab /\ Cardinality(Holders(w.usr, j)) + 1 <= w.kf[j].cnt
        BY <1>1 DEF Refs
      <4>2. CASE j = id
        BY <1>2, <1>3, <2>1, <4>1, <4>2 DEF Spare
      <4>3. CASE j # id
        BY <2>1, <4>1, <4>3
      <4> QED
        BY <4>2, <4>3
    <3> QED
      BY <1>1, <3>1 DEF Refs
  <2> QED
    BY <2>2, <2>3, <2>4, KernelGood
<1>4. CASE w.kf[id].cnt = 1
  <2> DEFINE a == [w.kf[id] EXCEPT !.cnt = 0]
             b == [a EXCEPT !.tab = FALSE]
             c == [b EXCEPT !.ferr = FALSE]
             K == [c EXCEPT !.fopen = FALSE]
  <2>1. net_frlse(w, id) = [w EXCEPT !.kf[id] = K]
    BY <1>1, <1>4 DEF net_frlse, W
  <2>2. a \in KfT /\ a.cnt = 0
    BY <1>1 DEF KfT
  <2> HIDE DEF a
  <2>3. b \in KfT /\ b.cnt = 0
    BY <2>2 DEF KfT
  <2> HIDE DEF b
  <2>4. c \in KfT /\ c.cnt = 0
    BY <2>3 DEF KfT
  <2> HIDE DEF c
  <2>5. K \in KfT /\ K.cnt = 0
    BY <2>4 DEF KfT
  <2> HIDE DEF K
  <2> QED
    BY <1>3, <1>4, <2>1, <2>5
<1>5. CASE w.kf[id].cnt # 1
  <2> DEFINE k == w.kf[id].cnt - 1
             K == [w.kf[id] EXCEPT !.cnt = k]
  <2>1. net_frlse(w, id) = [w EXCEPT !.kf[id] = K]
    BY <1>1, <1>5 DEF net_frlse, W
  <2>2. k \in Int
    BY <1>2
  <2> HIDE DEF k
  <2>3. K \in KfT /\ K.cnt = k /\ K.tab = w.kf[id].tab
    BY <1>1, <2>2 DEF KfT
  <2> HIDE DEF K
  <2> QED
    BY <1>3, <1>5, <2>1, <2>3 DEF k
<1> QED
  BY <1>4, <1>5

(* netclose() asks the daemon to close a node.                             *)
LEMMA SameCloseNode ==
    ASSUME NEW w \in W, NEW id \in Id, NEW i \in Node
    PROVE  Same(CloseNode(w, id, i), w)
<1>1. CASE w.kf[id].node[i].st # "skt"
  BY <1>1, SameRefl DEF CloseNode
<1>2. CASE w.kf[id].node[i].st = "skt"
  <2> DEFINE v == IF w.kf[id].node[i].ncpiu THEN daecls(w, id, i) ELSE w
  <2>1. Same(v, w) /\ v \in W
    BY SameClose, SameRefl DEF Same
  <2>2. NoNode \in NodeRec
    BY DEF NoNode, NodeRec
  <2>3. CloseNode(w, id, i) = [v EXCEPT !.kf[id].node[i] = NoNode]
    BY <1>2 DEF CloseNode, daedes
  <2> HIDE DEF v
  <2>4. Same([v EXCEPT !.kf[id].node[i] = NoNode], v)
    BY <2>1, <2>2, SameNode
  <2> QED
    BY <2>1, <2>3, <2>4, SameTrans
<1> QED
  BY <1>1, <1>2

(* The user has left his file; his reference is still counted.             *)
Left(w, u) == [w EXCEPT !.usr[u] = IdleUser]

(* The tables are good when he has left, and he has one reference to let   *)
(* go.                                                                     *)
LEMMA LeftGood ==
    ASSUME NEW w, Good(w, NoSlot, 0), NEW u \in User, w.usr[u].st = "open"
    PROVE  LET v == Left(w, u)
               id == w.usr[u].id IN
           /\ id \in Id /\ Good(v, NoSlot, 0) /\ Spare(v, id)
           /\ SameTables(v, w) /\ v.kf = w.kf /\ v.wild = w.wild /\ v.ncprq = w.ncprq
           /\ v.usr[u].st = "idle" /\ \A t \in User \ {u} : v.usr[t] = w.usr[t]
<1> DEFINE id == w.usr[u].id
           un == [w.usr EXCEPT ![u] = IdleUser]
           w1 == [w EXCEPT !.usr = un]
<1>1. w \in W /\ w.usr \in [User -> UsrT] /\ Refs(w.fil, w.kf, w.ncprq, w.usr)
  BY GoodTypes DEF Good, W
<1>2. id \in Id
  BY <1>1 DEF Refs
<1>3. Left(w, u) = w1
  BY <1>1 DEF W, Left
<1> HIDE DEF id
<1>4. un \in [User -> UsrT] /\ un[u] = IdleUser /\ \A t \in User \ {u} : un[t] = w.usr[t]
  BY <1>1, UserTypes
<1>5. \A j \in Id : Cardinality(Holders(un, j)) =
            Cardinality(Holders(w.usr, j)) - (IF id = j THEN 1 ELSE 0)
  BY <1>1, UserTypes, HoldersChange DEF id
<1> HIDE DEF un
<1>6. w1 \in W /\ SameTables(w1, w) /\ w1.kf = w.kf /\ w1.ncprq = w.ncprq /\ w1.usr = un
      /\ w1.fil = w.fil /\ w1.wild = w.wild
  BY <1>1, <1>4 DEF W, SameTables
<1> HIDE DEF w1
<1>7. \A j \in Id :
        /\ Cardinality(Holders(un, j)) + (IF id = j THEN 1 ELSE 0) <= w.kf[j].cnt
        /\ Known(w.fil, w.ncprq, j) =>
             w.kf[j].tab
             /\ Cardinality(Holders(un, j)) + (IF id = j THEN 1 ELSE 0) + 1 <= w.kf[j].cnt
  <2> SUFFICES ASSUME NEW j \in Id
               PROVE  /\ Cardinality(Holders(un, j)) + (IF id = j THEN 1 ELSE 0) <= w.kf[j].cnt
                      /\ Known(w.fil, w.ncprq, j) =>
                           w.kf[j].tab
                           /\ Cardinality(Holders(un, j)) + (IF id = j THEN 1 ELSE 0) + 1
                                <= w.kf[j].cnt
    OBVIOUS
  <2>1. Cardinality(Holders(w.usr, j)) \in Int /\ Cardinality(Holders(un, j)) \in Int
        /\ w.kf[j].cnt \in Int
    BY <1>1, UsersFinite, KernelTypes DEF KfT
  <2>2. Cardinality(Holders(un, j)) + (IF id = j THEN 1 ELSE 0)
            = Cardinality(Holders(w.usr, j))
    BY <1>5, <2>1
  <2> QED
    BY <1>1, <2>1, <2>2 DEF Refs
<1>8. /\ \A j \in Id : Cardinality(Holders(un, j)) \in Int /\ w.kf[j].cnt \in Int
  BY <1>1, UsersFinite, KernelTypes DEF KfT
<1>9. Refs(w.fil, w.kf, w.ncprq, un)
  <2>1. ASSUME NEW j \in Id
        PROVE  /\ Cardinality(Holders(un, j)) <= w.kf[j].cnt
               /\ Known(w.fil, w.ncprq, j) =>
                    w.kf[j].tab /\ Cardinality(Holders(un, j)) + 1 <= w.kf[j].cnt
    BY <1>7, <1>8
  <2>2. \A t \in User : un[t].st # "idle" => un[t].id \in Id
    BY <1>1, <1>4, UserTypes DEF Refs
  <2> QED
    BY <1>1, <2>1, <2>2 DEF Refs
<1>10. Good(w1, NoSlot, 0)
  BY <1>6, <1>9, KernelGood
<1>11. Spare(w1, id)
  BY <1>2, <1>6, <1>7, <1>8 DEF Spare
<1>12. un[u].st = "idle"
  BY <1>4, UserTypes
<1> QED
  BY <1>2, <1>3, <1>4, <1>6, <1>10, <1>11, <1>12 DEF id

(* netclose(): a user closes his file, the last one closes the nodes.      *)
LEMMA NetcloseGood ==
    ASSUME NEW w, Good(w, NoSlot, 0), NEW u \in User, w.usr[u].st = "open"
    PROVE  Good(netclose(w, u), NoSlot, 0)
<1> DEFINE id == w.usr[u].id
           w1 == Left(w, u)
           a == CloseNode(w1, id, 0)
           b == CloseNode(a, id, 1)
           c == CloseNode(b, id, 2)
           w2 == IF w.kf[id].cnt <= 2 THEN c ELSE w1
<1>1. id \in Id /\ Good(w1, NoSlot, 0) /\ Spare(w1, id) /\ w1 \in W
  BY LeftGood, GoodTypes
<1>2. netclose(w, u) = net_frlse(w2, id)
  BY Zenon DEF netclose, Left
<1> HIDE DEF id, w1
<1>3. Same(w2, w1)
  <2>1. 0 \in Node /\ 1 \in Node /\ 2 \in Node
    BY DEF Node
  <2>2. Same(a, w1) /\ a \in W
    BY <1>1, <2>1, SameCloseNode DEF Same
  <2> HIDE DEF a
  <2>3. Same(b, a) /\ b \in W
    BY <1>1, <2>1, <2>2, SameCloseNode DEF Same
  <2> HIDE DEF b
  <2>4. Same(c, b)
    BY <1>1, <2>1, <2>3, SameCloseNode
  <2> HIDE DEF c
  <2>5. Same(c, w1)
    BY <2>2, <2>3, <2>4, SameTrans
  <2> QED
    BY <1>1, <2>5, SameRefl
<1> HIDE DEF w2
<1> QED
  BY <1>1, <1>2, <1>3, GoodSame, SpareSame, NetFrlseGood

-----------------------------------------------------------------------------
(* The inductive invariant                                                 *)

(* A socket number that is on its way comes from a socket of a file: the   *)
(* RFNM is for it.                                                         *)
Inv ==
    /\ Good(World, NoSlot, 0)
    /\ \A p \in ssn : skt[p].st \in Attachable

(* The variables are the fields of the world.                              *)
LEMMA WorldIs ==
    ASSUME NEW w, w = World
    PROVE  /\ w.skt = skt /\ w.fil = fil /\ w.nsl = nsl /\ w.nfl = nfl /\ w.grp = grp
           /\ w.host = host /\ w.out = out /\ w.ssn = ssn /\ w.died = died
           /\ w.kf = kf /\ w.ncprq = ncprq /\ w.usr = usr /\ w.wild = wild
BY DEF World

(* The daemon turns to the next message: the world of the variables is     *)
(* good.                                                                   *)
LEMMA TripGood ==
    ASSUME Inv, NEW h \in Int
    PROVE  LET w == Trip(h) IN
           /\ Good(w, NoSlot, 0)
           /\ w.skt = skt /\ w.fil = fil /\ w.grp = grp /\ w.ssn = ssn /\ w.kf = kf
           /\ w.ncprq = ncprq /\ w.usr = usr /\ w.host = h
<1> DEFINE u == World
           v == [u EXCEPT !.host = h]
           w == [v EXCEPT !.out = {}]
<1>1. Good(u, NoSlot, 0)
  BY DEF Inv
<1>2. /\ u.skt = skt /\ u.fil = fil /\ u.nsl = nsl /\ u.nfl = nfl /\ u.grp = grp
      /\ u.host = host /\ u.out = out /\ u.ssn = ssn /\ u.died = died
      /\ u.kf = kf /\ u.ncprq = ncprq /\ u.usr = usr /\ u.wild = wild
  BY WorldIs
<1>3. Trip(h) = w
  BY DEF Trip
<1> HIDE DEF u
<1>4. u \in W
  BY <1>1, GoodTypes
<1>5. v \in W /\ v.skt = u.skt /\ v.fil = u.fil /\ v.nsl = u.nsl /\ v.nfl = u.nfl
      /\ v.grp = u.grp /\ v.ssn = u.ssn /\ v.died = u.died /\ v.kf = u.kf
      /\ v.ncprq = u.ncprq /\ v.usr = u.usr /\ v.host = h
  BY <1>4 DEF W
<1> HIDE DEF v
<1>6. w \in W /\ w.skt = v.skt /\ w.fil = v.fil /\ w.nsl = v.nsl /\ w.nfl = v.nfl
      /\ w.grp = v.grp /\ w.ssn = v.ssn /\ w.died = v.died /\ w.kf = v.kf
      /\ w.ncprq = v.ncprq /\ w.usr = v.usr /\ w.host = v.host
  BY <1>5 DEF W
<1> HIDE DEF w
<1>7. Good(w, NoSlot, 0)
  BY <1>1, <1>5, <1>6, GoodElse
<1> QED
  BY <1>2, <1>3, <1>5, <1>6, <1>7

(* A step that ends in a good world keeps the invariant.                   *)
LEMMA BecomeGood ==
    ASSUME NEW w, Good(w, NoSlot, 0), Become(w)
    PROVE  Inv'
<1> DEFINE v == World'
           S == {p \in w.ssn : w.skt[p].st # "null" /\ w.skt[p].host # 0}
<1>1. w \in W /\ w.skt \in [Slot -> SktT] /\ \A p \in w.ssn : w.skt[p].st # "q"
  BY GoodTypes DEF Good
<1>2. /\ v.skt = w.skt /\ v.fil = w.fil /\ v.nsl = w.nsl /\ v.nfl = w.nfl
      /\ v.grp = w.grp /\ v.host = w.host /\ v.out = w.out /\ v.died = w.died
      /\ v.ssn = S /\ v.kf = w.kf /\ v.ncprq = w.ncprq /\ v.usr = w.usr /\ v.wild = w.wild
  BY DEF World, Become
<1>3. S \in SUBSET w.ssn /\ S \in SUBSET Slot
  BY <1>1 DEF W
<1>4. v \in W
  <2>1. v = [skt |-> v.skt, fil |-> v.fil, nsl |-> v.nsl, nfl |-> v.nfl, grp |-> v.grp,
             host |-> v.host, out |-> v.out, ssn |-> v.ssn, died |-> v.died,
             kf |-> v.kf, ncprq |-> v.ncprq, usr |-> v.usr, wild |-> v.wild]
    BY DEF World
  <2> HIDE DEF v, S
  <2> QED
    BY <1>1, <1>2, <1>3, <2>1 DEF W
<1>5. Good(v, NoSlot, 0)
  <2> HIDE DEF v, S
  <2> QED
    BY <1>2, <1>3, <1>4, GoodElse
<1>6. \A p \in S : w.skt[p].st \in Attachable
  <2> SUFFICES ASSUME NEW p \in S PROVE w.skt[p].st \in Attachable
    OBVIOUS
  <2>1. p \in Slot /\ w.skt[p] \in SktT
    BY <1>1, <1>3
  <2>2. w.skt[p].st \in SktState
    BY <2>1 DEF SktT
  <2> QED
    BY <1>1, <1>3, <2>2 DEF Attachable
<1>7. ssn' = S /\ skt' = w.skt
  BY DEF Become
<1> QED
  BY <1>5, <1>6, <1>7 DEF Inv

-----------------------------------------------------------------------------
(* The steps *)

(* Hosts are numbers.                                                      *)
LEMMA HostInt ==
    ASSUME Inv
    PROVE  host \in Int /\ \A p \in Slot : skt[p].host \in Int
BY GoodTypes, WorldIs DEF Inv, W, SktT

(* Opens, wakeups and closes of a user.                                    *)
LEMMA UserStepInv ==
    ASSUME Inv, NEW u \in User, UserStep(u)
    PROVE  Inv'
<1> DEFINE w == Trip(host)
<1>1. Good(w, NoSlot, 0) /\ w.kf = kf /\ w.usr = usr
  BY HostInt, TripGood
<1> HIDE DEF w
<1>2. CASE NetopenReturn(u)
  BY <1>1, <1>2, WokenGood, BecomeGood DEF NetopenReturn, w
<1>3. CASE Netclose(u)
  BY <1>1, <1>3, NetcloseGood, BecomeGood DEF Netclose, w
<1>4. ASSUME NEW o \in Opens, Netopen(u, o) PROVE Inv'
  <2>1. PICK id \in Id : kf[id].cnt = 0 /\ Become(netopen(w, u, id, o))
    BY <1>4 DEF Netopen, w
  <2>2. usr[u].st = "idle"
    BY <1>4 DEF Netopen
  <2>3. Good(netopen(w, u, id, o), NoSlot, 0)
    BY <1>1, <2>1, <2>2, NetopenGood
  <2> QED
    BY <2>1, <2>3, BecomeGood
<1> QED
  BY <1>2, <1>3, <1>4 DEF UserStep

(* The daemon reads an instruction to open.                                *)
LEMMA KrOpenInv ==
    ASSUME Inv, KrOpen
    PROVE  Inv'
<1> DEFINE c == Head(ncprq)
           o == c.o
           h == IF o.type = "serv" THEN host ELSE o.host
           t == Trip(h)
           w == [t EXCEPT !.ncprq = Tail(@)]
<1>1. PICK g \in IF grp = {} THEN {-1} ELSE grp :
        Become(IF o.type = "drct" THEN kr_odrct(Forget(w, c.id), c.id, o, g)
                                  ELSE kr_oicp(Forget(w, c.id), c.id, o, g))
  BY DEF KrOpen
<1>2. ncprq # <<>> /\ c.op = "open"
  BY DEF KrOpen
<1>3. c \in InstrT
  <2>1. ncprq \in Seq(InstrT)
    BY GoodTypes, WorldIs DEF Inv, W
  <2> QED
    BY <1>2, <2>1, HeadTailProperties
<1>4. c.id \in Id /\ o \in Opens /\ o \in OpenRec
  BY <1>2, <1>3, NcpOpenAssumption DEF InstrT
<1> HIDE DEF c
<1>5. h \in Int
  BY <1>4, HostInt, NcpOpenAssumption DEF OpenRec
<1> HIDE DEF h, o
<1>6. Good(t, NoSlot, 0) /\ t.ncprq = ncprq /\ t.grp = grp
  BY <1>5, TripGood
<1> HIDE DEF t
<1>7. Good(w, NoSlot, 0) /\ w.grp = grp /\ Opening(w, c.id)
  BY <1>2, <1>6, TailGood DEF c
<1> HIDE DEF w
<1>8. Forget(w, c.id) = w
  BY <1>4, <1>7, ForgetNothing
<1>9. g = -1 \/ g \in w.grp
  BY <1>7
<1>10. g \in Int
  <2>1. w.grp \in SUBSET Group
    BY <1>7, GoodTypes
  <2> QED
    BY <1>9, <2>1, SktMachineAssumption
<1>11. CASE o.type = "drct"
  <2>1. Good(kr_odrct(w, c.id, o, g), NoSlot, 0)
    BY <1>4, <1>7, <1>10, <1>11, OdrctGood
  <2> QED
    BY <1>1, <1>8, <1>11, <2>1, BecomeGood
<1>12. CASE o.type # "drct"
  <2>1. Good(kr_oicp(w, c.id, o, g), NoSlot, 0)
    BY <1>4, <1>7, <1>9, <1>12, OicpGood
  <2> QED
    BY <1>1, <1>8, <1>12, <2>1, BecomeGood
<1> QED
  BY <1>11, <1>12, SMTT(60)

(* The daemon reads an instruction to close.                               *)
LEMMA KrCloseInv ==
    ASSUME Inv, kr_close
    PROVE  Inv'
<1> DEFINE c == Head(ncprq)
           t == Trip(host)
           w == [t EXCEPT !.ncprq = Tail(@)]
           F == {f \in File : fil[f].st # "null" /\ fil[f].id = c.id}
           p == fil[Min(F)].x[c.i]
<1>1. ncprq # <<>> /\ c.op = "close"
      /\ Become(IF F = {} THEN w
                ELSE IF p = NoSlot THEN w
                ELSE CloseOp([w EXCEPT !.host = skt[p].host], p))
  BY Zenon DEF kr_close
<1>2. Good(t, NoSlot, 0) /\ t.ncprq = ncprq /\ t.skt = skt /\ t.fil = fil
  BY HostInt, TripGood
<1> HIDE DEF t
<1>3. Good(w, NoSlot, 0) /\ c \in InstrT /\ w.skt = skt /\ w.fil = fil
  BY <1>1, <1>2, TailGood, Zenon
<1> HIDE DEF w
<1>4. c.i \in Node
  BY <1>1, <1>3, Zenon DEF InstrT
<1> HIDE DEF c
<1>5. CASE F = {} \/ p = NoSlot
  BY <1>1, <1>3, <1>5, BecomeGood, Zenon
<1>6. CASE F # {} /\ p # NoSlot
  <2>1. Min(F) \in File
    <3>1. F \in SUBSET Nat
      BY SktMachineAssumption, SMTT(60) DEF File
    <3>2. Min(F) \in F
      BY <1>6, <3>1, MinIn
    <3> QED
      BY <3>2
  <2>2. p \in Slot
    <3> HIDE DEF F
    <3>1. w.fil \in [File -> FileT]
      BY <1>3, GoodTypes
    <3>2. w.fil[Min(F)].x \in [Node -> {NoSlot} \cup Slot]
      BY <2>1, <3>1, TableTypes
    <3> QED
      BY <1>3, <1>4, <1>6, <3>2
  <2> HIDE DEF F, p
  <2> DEFINE u == [w EXCEPT !.host = skt[p].host]
  <2>3. Good(u, NoSlot, 0)
    BY <1>3, <2>2, HostInt, HostGood
  <2> HIDE DEF u
  <2>4. Good(CloseOp(u, p), NoSlot, 0)
    BY <2>2, <2>3, CloseGood
  <2> QED
    BY <1>1, <1>6, <2>4, BecomeGood DEF u
<1> QED
  BY <1>5, <1>6

(* The timer of the daemon.                                                *)
LEMMA TimoInv ==
    ASSUME Inv, kr_timo
    PROVE  Inv'
<1>1. PICK F, P : Become(TimoSkts(TimoFiles(Trip(host), F), P))
  BY DEF kr_timo
<1>2. Good(Trip(host), NoSlot, 0)
  BY HostInt, TripGood
<1>3. Good(TimoFiles(Trip(host), F), NoSlot, 0)
  BY <1>2, TimoFilesGood
<1>4. Good(TimoSkts(TimoFiles(Trip(host), F), P), NoSlot, 0)
  BY <1>3, TimoSktsGood
<1> QED
  BY <1>1, <1>4, BecomeGood

(* A host dies, or an RFC or a CLS of his arrives.                         *)
LEMMA HostStepInv ==
    ASSUME Inv, NEW h \in Host, HostDead(h) \/ hr_rfc(h) \/ hr_cls(h)
    PROVE  Inv'
<1> DEFINE w == Trip(h)
<1>1. h \in Int
  BY NcpOpenAssumption DEF Host
<1>2. Good(w, NoSlot, 0) /\ w.skt = skt /\ w.ssn = ssn
  BY <1>1, TripGood
<1> HIDE DEF w
<1>3. CASE HostDead(h)
  BY <1>2, <1>3, HDeadGood, BecomeGood DEF HostDead, w
<1>4. CASE hr_rfc(h)
  <2>1. PICK pair \in Rfcs :
          Become(get_skt(w, [op |-> "rfc", lskt |-> pair[1], fskt |-> pair[2],
                             host |-> h, filep |-> NoFile, sinx |-> 0]))
    BY <1>4 DEF hr_rfc, w
  <2> DEFINE r == [op |-> "rfc", lskt |-> pair[1], fskt |-> pair[2],
                   host |-> h, filep |-> NoFile, sinx |-> 0]
  <2>2. pair[1] \in Int /\ pair[2] \in Int
    BY NcpOpenAssumption
  <2>3. r.op = "rfc" /\ r.filep = NoFile /\ r.sinx \in Node
        /\ r.lskt \in Int /\ r.fskt \in Int /\ r.host \in Int
    BY <1>1, <2>2 DEF Node
  <2>4. Become(get_skt(w, r))
    BY <2>1
  <2> HIDE DEF r
  <2>5. \A p \in w.ssn : w.skt[p].st # "null"
    BY <1>2 DEF Inv, Attachable
  <2>6. Good(get_skt(w, r), NoSlot, 0)
    BY <1>2, <2>3, <2>5, GetRfcGood
  <2> QED
    BY <2>4, <2>6, BecomeGood
<1>5. CASE hr_cls(h)
  <2>1. PICK p \in Slot :
          Become(get_skt(w, [op |-> "cls", lskt |-> skt[p].lskt,
                             fskt |-> skt[p].fskt, host |-> h]))
    BY <1>5 DEF hr_cls, w
  <2> DEFINE r == [op |-> "cls", lskt |-> skt[p].lskt, fskt |-> skt[p].fskt, host |-> h]
  <2>2. r.op = "cls" /\ Become(get_skt(w, r))
    BY <2>1
  <2> HIDE DEF r
  <2>3. Good(get_skt(w, r), NoSlot, 0)
    BY <1>2, <2>2, GetClsGood
  <2> QED
    BY <2>2, <2>3, BecomeGood
<1> QED
  BY <1>3, <1>4, <1>5

(* The RFNM of a socket, or the news that its message is lost.             *)
LEMMA AnsweredGood ==
    ASSUME NEW w, Good(w, NoSlot, 0), NEW p
    PROVE  LET v == [w EXCEPT !.ssn = @ \ {p}] IN
           Good(v, NoSlot, 0) /\ v.skt = w.skt
<1> DEFINE S == w.ssn \ {p}
           v == [w EXCEPT !.ssn = S]
<1>1. w \in W
  BY GoodTypes
<1>2. S \in SUBSET Slot /\ S \subseteq w.ssn
  BY <1>1 DEF W
<1>3. [w EXCEPT !.ssn = @ \ {p}] = v
  BY <1>1 DEF W
<1> HIDE DEF S
<1>4. /\ v \in W /\ v.skt = w.skt /\ v.fil = w.fil /\ v.nsl = w.nsl /\ v.nfl = w.nfl
      /\ v.grp = w.grp /\ v.died = w.died /\ v.ssn = S /\ v.kf = w.kf /\ v.usr = w.usr
      /\ v.ncprq = w.ncprq
  BY <1>1, <1>2 DEF W
<1> HIDE DEF v
<1>5. Good(v, NoSlot, 0)
  BY <1>2, <1>4, GoodElse
<1> QED
  BY <1>3, <1>4, <1>5

(* Allocations, data, RFNMs and errors for a socket.                       *)
LEMMA SocketStepInv ==
    ASSUME Inv, NEW p \in Slot, hr_all(p) \/ hr_data(p) \/ ir_rfnm(p) \/ ir_re_x(p)
    PROVE  Inv'
<1> DEFINE w == Trip(skt[p].host)
           v == [w EXCEPT !.ssn = @ \ {p}]
<1>1. Good(w, NoSlot, 0) /\ w.skt = skt
  BY HostInt, TripGood
<1> HIDE DEF w
<1>2. Good(v, NoSlot, 0) /\ v.skt = skt
  BY <1>1, AnsweredGood
<1> HIDE DEF v
<1>3. CASE hr_all(p)
  <2>1. PICK enough \in BOOLEAN : Become(fi_all(w, p, enough))
    BY <1>3 DEF hr_all, w
  <2>2. skt[p].st = "open" /\ Odd(skt[p].lskt)
    BY <1>3 DEF hr_all
  <2>3. Good(fi_all(w, p, enough), NoSlot, 0)
    BY <1>1, <2>2, AllGood
  <2> QED
    BY <2>1, <2>3, BecomeGood
<1>4. CASE hr_data(p)
  <2>1. skt[p].st = "open" /\ ~Odd(skt[p].lskt)
    BY <1>4 DEF hr_data
  <2>2. CASE \E n \in SktNums : Become(fi_sktnm(w, p, n))
    <3>1. PICK n \in SktNums : Become(fi_sktnm(w, p, n))
      BY <2>2
    <3>2. n \in Nat
      BY NcpOpenAssumption
    <3>3. Good(fi_sktnm(w, p, n), NoSlot, 0)
      BY <1>1, <2>1, <3>2, SktnmGood
    <3> QED
      BY <3>1, <3>3, BecomeGood
  <2>3. CASE Become(kill_skt(w, p))
    BY <1>1, <2>3, KillGood, BecomeGood
  <2> QED
    BY <1>4, <2>2, <2>3 DEF hr_data, w
<1>5. CASE ir_rfnm(p)
  <2>1. p \in ssn /\ Become(fi_rfnm(v, p))
    BY <1>5 DEF ir_rfnm, v, w
  <2>2. v.skt[p].st \in Attachable
    BY <1>2, <2>1 DEF Inv
  <2>3. Good(fi_rfnm(v, p), NoSlot, 0)
    BY <1>2, <2>2, RfnmGood
  <2> QED
    BY <2>1, <2>3, BecomeGood
<1>6. CASE ir_re_x(p)
  <2>1. Become(kill_skt(v, p))
    BY <1>6 DEF ir_re_x, v, w
  <2>2. Good(kill_skt(v, p), NoSlot, 0)
    BY <1>2, KillGood
  <2> QED
    BY <2>1, <2>2, BecomeGood
<1> QED
  BY <1>3, <1>4, <1>5, <1>6

(* Every step keeps the invariant.                                         *)
LEMMA NextInv == Inv /\ [Next]_vars => Inv'
<1> SUFFICES ASSUME Inv, [Next]_vars PROVE Inv'
  OBVIOUS
<1>1. CASE UNCHANGED vars
  BY <1>1 DEF Inv, World, vars
<1>2. CASE \E u \in User : UserStep(u)
  BY <1>2, UserStepInv
<1>3. CASE KrOpen
  BY <1>3, KrOpenInv
<1>4. CASE kr_close
  BY <1>4, KrCloseInv
<1>5. CASE kr_timo
  BY <1>5, TimoInv
<1>6. CASE \E h \in Host : HostDead(h) \/ hr_rfc(h) \/ hr_cls(h)
  BY <1>6, HostStepInv
<1>7. CASE \E p \in Slot : hr_all(p) \/ hr_data(p) \/ ir_rfnm(p) \/ ir_re_x(p)
  BY <1>7, SocketStepInv
<1> QED
  BY <1>1, <1>2, <1>3, <1>4, <1>5, <1>6, <1>7 DEF Next

-----------------------------------------------------------------------------
(* The beginning *)

(* The invariant holds at the beginning.                                   *)
LEMMA InitInv == Init => Inv
<1> SUFFICES ASSUME Init PROVE Inv
  OBVIOUS
<1> DEFINE w == World
<1>1. /\ w.skt = [p \in Slot |-> NullSkt] /\ w.fil = [f \in File |-> NullFile]
      /\ w.nsl = NSkt /\ w.nfl = NFile /\ w.grp = Group /\ w.host = 0 /\ w.out = {}
      /\ w.ssn = {} /\ w.died = FALSE /\ w.kf = [i \in Id |-> FreeFile] /\ w.ncprq = <<>>
      /\ w.usr = [u \in User |-> IdleUser] /\ w.wild = FALSE
  BY DEF Init, World
<1>2. w = [skt |-> w.skt, fil |-> w.fil, nsl |-> w.nsl, nfl |-> w.nfl, grp |-> w.grp,
           host |-> w.host, out |-> w.out, ssn |-> w.ssn, died |-> w.died,
           kf |-> w.kf, ncprq |-> w.ncprq, usr |-> w.usr, wild |-> w.wild]
  BY DEF World
<1> HIDE DEF w
<1>3. w \in W
  <2>1. FreeFile \in KfT
    BY DEF FreeFile, KfT, NoNode, NodeRec
  <2>2. w.skt \in [Slot -> SktT] /\ w.fil \in [File -> FileT] /\ w.nsl \in Int
        /\ w.nfl \in Int /\ w.kf \in [Id -> KfT] /\ w.usr \in [User -> UsrT]
    BY <1>1, <2>1, TableTypes, UserTypes, SktMachineAssumption
  <2>3. w.grp \in SUBSET Group /\ w.host \in Int /\ w.out \in SUBSET Cmd
        /\ w.ssn \in SUBSET Slot /\ w.died \in BOOLEAN /\ w.ncprq \in Seq(InstrT)
        /\ w.wild \in BOOLEAN
    <3>1. w.ncprq \in Seq(InstrT)
      BY <1>1, EmptySeq
    <3>2. w.died \in BOOLEAN /\ w.wild \in BOOLEAN
      BY <1>1, Zenon
    <3> QED
      BY <1>1, <3>1, <3>2
  <2> QED
    BY <1>2, <2>2, <2>3 DEF W
<1>4. \A p \in Slot : w.skt[p].st = "null" /\ w.skt[p].filep = NoFile
  BY <1>1, TableTypes
<1>5. \A f \in File : /\ w.fil[f].st = "null" /\ w.fil[f].nsatt = 0 /\ w.fil[f].nsrsrv = 0
                      /\ \A i \in Node : w.fil[f].x[i] = NoSlot
                      /\ w.fil[f].id = NoId
  BY <1>1, TableTypes, SMTT(60) DEF NullFile
<1>6. Tab(w.skt, w.fil, NoSlot)
  <2>1. \A f \in File : FileOK(w.fil, f)
    <3> SUFFICES ASSUME NEW f \in File PROVE FileOK(w.fil, f)
      OBVIOUS
    <3>1. w.fil[f].x[0] = NoSlot /\ w.fil[f].x[1] = NoSlot /\ w.fil[f].x[2] = NoSlot
      BY <1>5 DEF Node
    <3> QED
      BY <1>5, <3>1 DEF FileOK, In, Early
  <2> QED
    BY <1>4, <1>5, <2>1 DEF Tab, SktOK
<1>7. Acc(w.skt, w.fil, w.nsl, w.nfl, NoSlot, 0)
  <2>1. SeqSum(Rsrv(w.fil)) = 0
    <3> DEFINE s == Rsrv(w.fil)
    <3>1. s = [f \in 1 .. NFile |-> 0]
      BY <1>5 DEF Rsrv, File
    <3>2. NFile \in Nat
      BY SktMachineAssumption
    <3> HIDE DEF s
    <3>3. s \in Seq(Int) /\ Len(s) = NFile
      BY <3>1, <3>2
    <3> QED
      BY <3>1, <3>2, <3>3, SumZeros DEF s
  <2>2. Queue(w.skt, NoSlot) = {}
    BY <1>4 DEF Queue
  <2>3. Frees(w.fil) = 1 .. NFile
    BY <1>5 DEF Frees, File
  <2>4. Cardinality(Queue(w.skt, NoSlot)) = 0 /\ Cardinality(Frees(w.fil)) = NFile
    BY <2>2, <2>3, FS_EmptySet, FS_Interval, SktMachineAssumption
  <2>5. NSkt \in Int
    BY SktMachineAssumption
  <2> QED
    BY <1>1, <2>1, <2>4, <2>5 DEF Acc
<1>8. Refs(w.fil, w.kf, w.ncprq, w.usr)
  <2>1. Asked(w.ncprq) = {}
    BY <1>1 DEF Asked
  <2>2. \A u \in User : w.usr[u].st = "idle"
    BY <1>1, UserTypes
  <2>3. \A id \in Id : Cardinality(Holders(w.usr, id)) = 0 /\ w.kf[id].cnt = 0
    <3> SUFFICES ASSUME NEW id \in Id
                 PROVE  Cardinality(Holders(w.usr, id)) = 0 /\ w.kf[id].cnt = 0
      OBVIOUS
    <3>1. Holders(w.usr, id) = {}
      BY <2>2 DEF Holders
    <3>2. w.kf[id] = FreeFile
      BY <1>1
    <3>3. w.kf[id].cnt = 0
      BY <3>2 DEF FreeFile
    <3> QED
      BY <3>1, <3>3, FS_EmptySet
  <2>4. \A id \in Id : ~Known(w.fil, w.ncprq, id)
    BY <1>5, <2>1 DEF Known
  <2> QED
    BY <1>5, <2>1, <2>2, <2>3, <2>4 DEF Refs
<1>9. Owned(w.grp, w.fil)
  BY <1>1 DEF Owned
<1>10. Good(w, NoSlot, 0)
  BY <1>1, <1>3, <1>6, <1>7, <1>8, <1>9 DEF Good
<1>11. ssn = {}
  BY DEF Init
<1> QED
  BY <1>10, <1>11 DEF Inv, w

-----------------------------------------------------------------------------
(* Theorems *)

(* No step of a user, of the daemon, of the timer or of a foreign host     *)
(* takes the tables out of the inductive invariant.                        *)
THEOREM InvHolds == Spec => []Inv
<1>1. Init => Inv
  BY InitInv
<1>2. Inv /\ [Next]_vars => Inv'
  BY NextInv
<1> QED
  BY <1>1, <1>2, PTL DEF Spec

(* The invariant gives the types of the tables.                            *)
LEMMA InvTypes == Inv => TypeOK
<1> SUFFICES ASSUME Inv PROVE TypeOK
  BY SMTT(60)
<1>1. /\ skt \in [Slot -> SktT] /\ fil \in [File -> FileT] /\ nsl \in Int
      /\ grp \in SUBSET Group /\ kf \in [Id -> KfT]
      /\ nfl = Cardinality(Frees(fil)) /\ Refs(fil, kf, ncprq, usr)
  BY GoodTypes, WorldIs DEF Inv, W, Good, Acc
<1>2. \A p \in Slot : skt[p].st \in SktState /\ skt[p].filep \in {NoFile} \cup File
  BY <1>1 DEF SktT
<1>3. \A f \in File : fil[f].st \in FileState
  BY <1>1, TableTypes
<1>4. nfl \in 0 .. NFile
  <2>1. IsFiniteSet(1 .. NFile) /\ Cardinality(1 .. NFile) = NFile /\ NFile \in Nat
    BY FS_Interval, SktMachineAssumption
  <2>2. Frees(fil) \subseteq 1 .. NFile
    BY DEF Frees, File
  <2>3. Cardinality(Frees(fil)) <= NFile /\ Cardinality(Frees(fil)) \in Nat
    BY <2>1, <2>2, FS_Subset, FS_CardinalityType
  <2> QED
    BY <1>1, <2>1, <2>3
<1>5. ASSUME NEW i \in Id
      PROVE  kf[i].cnt \in Nat /\ \A j \in Node : kf[i].node[j] \in NodeRec
  <2>1. kf[i].cnt \in Int /\ kf[i].node \in [Node -> NodeRec]
    BY <1>1 DEF KfT
  <2>2. Cardinality(Holders(usr, i)) \in Nat /\ Cardinality(Holders(usr, i)) <= kf[i].cnt
    BY <1>1, UsersFinite DEF Refs
  <2> QED
    BY <2>1, <2>2
<1> QED
  BY <1>1, <1>2, <1>3, <1>4, <1>5 DEF TypeOK

(* The tables of sockets, files, kernel files and users hold values of     *)
(* their types after every step of skt.c, files.c and kread.c.             *)
THEOREM TypesHold == Spec => []TypeOK
BY InvHolds, InvTypes, PTL

(* The invariant gives the account of the sockets and files.               *)
LEMMA InvAccounts == Inv => SlotsAccounted
<1> SUFFICES ASSUME Inv PROVE SlotsAccounted
  OBVIOUS
<1>1. /\ nsl + 0 = NSkt - SeqSum(Rsrv(fil)) - Cardinality(Queue(skt, NoSlot))
      /\ nfl = Cardinality(Frees(fil)) /\ nsl \in Int
  BY GoodTypes, WorldIs DEF Inv, Good, Acc
<1>2. Queue(skt, NoSlot) = {p \in Slot : skt[p].st = "q"}
  BY SktMachineAssumption DEF Queue, Slot, NoSlot
<1> QED
  BY <1>1, <1>2 DEF SlotsAccounted, Rsrv, Frees

(* However opens, RFCs, closes, timeouts and deaths of hosts follow each   *)
(* other, n_s_left is what neither a file reserves nor a queued RFC has    *)
(* taken, and n_f_left the number of free files: no path of files.c,       *)
(* skt_oper.c, so_unm.c and skt_util.c gives back twice what it took once, *)
(* or not at all.                                                          *)
THEOREM SlotsAlwaysAccounted == Spec => []SlotsAccounted
BY InvHolds, InvAccounts, PTL

(* The number of sockets in the list of a file.                            *)
LEMMA ListCount ==
    ASSUME NEW x
    PROVE  Cardinality({i \in Node : x[i] # NoSlot}) = In(x[0]) + In(x[1]) + In(x[2])
<1> DEFINE A == IF x[0] # NoSlot THEN {0} ELSE {}
           B == IF x[1] # NoSlot THEN A \cup {1} ELSE A
           C == IF x[2] # NoSlot THEN B \cup {2} ELSE B
<1>1. {i \in Node : x[i] # NoSlot} = C
  BY DEF Node
<1>2. 1 \notin A /\ 2 \notin B
  OBVIOUS
<1>3. IsFiniteSet(A) /\ Cardinality(A) = In(x[0]) /\ In(x[0]) \in Int
  BY FS_EmptySet, FS_Singleton DEF In
<1> HIDE DEF A
<1>4. IsFiniteSet(B) /\ Cardinality(B) = In(x[0]) + In(x[1]) /\ In(x[1]) \in Int
  BY <1>2, <1>3, FS_AddElement DEF In
<1> HIDE DEF B
<1>5. Cardinality(C) = In(x[0]) + In(x[1]) + In(x[2])
  <2>1. CASE x[2] # NoSlot
    <3>1. Cardinality(B \cup {2}) = Cardinality(B) + 1
      BY <1>2, <1>4, FS_AddElement
    <3> QED
      BY <1>3, <1>4, <2>1, <3>1 DEF In
  <2>2. CASE x[2] = NoSlot
    BY <1>3, <1>4, <2>2 DEF In
  <2> QED
    BY <2>1, <2>2
<1> QED
  BY <1>1, <1>5

(* The invariant gives the agreement of the tables.                        *)
LEMMA InvAgrees == Inv => TablesAgree
<1> SUFFICES ASSUME Inv PROVE TablesAgree
  OBVIOUS
<1>1. Tab(skt, fil, NoSlot) /\ \A p \in Slot : FileOf(World, p) = fil[skt[p].filep]
  BY WorldIs DEF Inv, Good, FileOf
<1>2. NoSlot \notin Slot /\ NoFile \notin File
  BY SktMachineAssumption, SMTT(60) DEF Slot, NoSlot, File, NoFile
<1>3. ASSUME NEW p \in Slot, skt[p].st \in Attachable
      PROVE  skt[p].filep # NoFile /\ fil[skt[p].filep].st # "null"
             /\ fil[skt[p].filep].x[skt[p].sinx] = p
  <2>1. Good(World, NoSlot, 0) /\ p # NoSlot
    BY <1>2, SMTT(60) DEF Inv
  <2> QED
    BY <1>2, <1>3, <2>1, FileOfIt, WorldIs
<1>4. ASSUME NEW f \in File
      PROVE  /\ fil[f].nsatt = Cardinality({i \in Node : fil[f].x[i] # NoSlot})
             /\ fil[f].nsatt <= fil[f].nsrsrv
             /\ \A i \in Node : fil[f].x[i] # NoSlot =>
                    skt[fil[f].x[i]].filep = f /\ skt[fil[f].x[i]].st \in Attachable
  <2>1. FileOK(fil, f)
    BY <1>1 DEF Tab
  <2>2. fil[f].nsatt = Cardinality({i \in Node : fil[f].x[i] # NoSlot})
    BY <2>1, ListCount DEF FileOK
  <2> QED
    BY <1>1, <2>1, <2>2 DEF Tab, EntryOK, FileOK
<1>5. \A p \in Slot : skt[p].st \in Attachable =>
        /\ skt[p].filep # NoFile
        /\ FileOf(World, p).st # "null"
        /\ FileOf(World, p).x[skt[p].sinx] = p
  BY <1>1, <1>3
<1> QED
  BY <1>4, <1>5 DEF TablesAgree

(* A socket with a file is in his list at his place, a file's list holds   *)
(* only his own live sockets, and f_nsatt counts them and never exceeds    *)
(* what was reserved: no socket outlives his file, and none is freed while *)
(* the file still points at it.                                            *)
THEOREM TablesAlwaysAgree == Spec => []TablesAgree
BY InvHolds, InvAgrees, PTL

(* The invariant says that the daemon has not run out of a table he        *)
(* thought had room.                                                       *)
LEMMA InvLives == Inv => NeverDies
BY WorldIs DEF Inv, Good, NeverDies

(* No order of instructions, messages and timeouts leads f_make(),         *)
(* fi_sopn() or fi_all() to their die(): n_f_left above zero means a free  *)
(* file, a socket that opens belongs to a file that waits for it, and a    *)
(* server's ICP socket gets his allocation in the right state.             *)
THEOREM DaemonNeverDies == Spec => []NeverDies
BY InvHolds, InvLives, PTL

(* The invariant gives the owners of the groups.                           *)
LEMMA InvOwned == Inv /\ SocketsNamed => GroupsOwned
BY WorldIs DEF Inv, Good, Owned, GroupsOwned

(* Where every direct open names its socket or listens, a group of socket  *)
(* numbers that asn_sktn() has given out belongs to a file until f_rlse()  *)
(* gives it back. Where the daemon is to choose the number of a direct     *)
(* init, kr_odrct() takes a group before the checks that may refuse the    *)
(* open, and a refused one keeps it.                                       *)
THEOREM GroupsStayOwned == SocketsNamed => (Spec => []GroupsOwned)
<1> SUFFICES ASSUME SocketsNamed PROVE Spec => []GroupsOwned
  OBVIOUS
<1>1. Inv => GroupsOwned
  BY InvOwned
<1> QED
  BY <1>1, InvHolds, PTL

=============================================================================
