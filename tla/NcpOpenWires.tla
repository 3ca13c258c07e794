----------------------------- MODULE NcpOpenWires -----------------------------
(***************************************************************************)
(* A theorem on NcpOpen: the daemon never makes the kernel take the error  *)
(* number of a failed open for a pointer to a socket.                      *)
(*                                                                         *)
(* wf_ready() puts the number where the read socket of the file would be.  *)
(* That a later wf_mod() or iclean() does not find it there needs a second *)
(* invariant, Wired, of the daemon and the kernel together: the kernel has *)
(* a socket wherever the daemon has one that he may still change, unless   *)
(* the user, who has opened the file, has closed it meanwhile.  The module *)
(* goes through the procedures of the daemon in the order of               *)
(* NcpOpenProofs, whose lemmas say that the tables are good on the way.    *)
(***************************************************************************)
EXTENDS NcpOpenProofs

-----------------------------------------------------------------------------
(* The invariant *)

(* The states of a socket about which the daemon may still tell the kernel.*)
Living == {"glsn", "slsn", "rfcw", "open", "orfnmw"}

(* The read node of a kernel file K, when the read socket lives and is of  *)
(* host h: a socket that the daemon uses, or nothing because the user has  *)
(* closed the file.                                                        *)
Plug(K, h) ==
    \/ K.node[f_rdnode].st = "skt" /\ K.node[f_rdnode].ncpiu /\ K.node[f_rdnode].host = h
    \/ K.node[f_rdnode].st = "none" /\ K.fopen

(* A file F of the daemon and his file K of the kernel: the user has been  *)
(* told of the open only if it is open, and the read node is right, unless *)
(* the socket is q.                                                        *)
Line(F, skts, K, q) ==
    /\ K.fopen => F.st \in {"open", "gonew"}
    /\ F.x[f_rdnode] \notin {NoSlot, q} /\ skts[F.x[f_rdnode]].st \in Living =>
            Plug(K, skts[F.x[f_rdnode]].host)

(* That of all files of the daemon.                                        *)
Lines(fils, skts, k, q) ==
    \A f \in File : fils[f].st # "null" /\ fils[f].id # NoId =>
        Line(fils[f], skts, k[fils[f].id], q)

(* A file of the kernel: no daemon uses what is no socket, and an error    *)
(* number is in the read node only.                                        *)
KfOK(K) ==
    \A i \in Node : /\ K.node[i].st # "skt" => ~K.node[i].ncpiu
                    /\ i # f_rdnode => K.node[i].st # "err"

(* The user has been told of the open of every file he has, and of none    *)
(* that the daemon has still to make.                                      *)
Told(k, q, us) ==
    /\ \A i \in Asked(q) : ~k[q[i].id].fopen
    /\ \A u \in User : us[u].st = "open" => k[us[u].id].fopen

(* All of it, but for the read socket q.                                   *)
Wired(w, q) ==
    /\ ~w.wild
    /\ \A id \in Id : KfOK(w.kf[id])
    /\ Told(w.kf, w.ncprq, w.usr)
    /\ Lines(w.fil, w.skt, w.kf, q)

-----------------------------------------------------------------------------
(* How a world may change and remain wired *)

(* The procedure has changed neither the kernel's files nor who refers to  *)
(* them.                                                                   *)
SameKernel(v, w) ==
    /\ v.kf = w.kf /\ v.wild = w.wild
    /\ \A u \in User : v.usr[u].st = w.usr[u].st /\ v.usr[u].id = w.usr[u].id
    /\ Asked(v.ncprq) = Asked(w.ncprq)
    /\ \A k \in Asked(w.ncprq) : v.ncprq[k] = w.ncprq[k]

(* Neither the kernel nor the tables have changed.                         *)
LEMMA WiredSame ==
    ASSUME NEW v, NEW w, NEW q, Wired(w, q), SameKernel(v, w), v.fil = w.fil, v.skt = w.skt
    PROVE  Wired(v, q)
BY DEF Wired, SameKernel, Told

(* The socket q has changed.                                               *)
LEMMA WiredSocket ==
    ASSUME NEW v, NEW w, NEW q, Wired(w, q), SameKernel(v, w), v.fil = w.fil,
           w.fil \in [File -> FileT], \A o \in Slot \ {q} : v.skt[o] = w.skt[o]
    PROVE  Wired(v, q)
<1>1. Told(v.kf, v.ncprq, v.usr)
  BY DEF Wired, SameKernel, Told
<1>2. ASSUME NEW f \in File PROVE w.fil[f].x[f_rdnode] \in {NoSlot} \cup Slot
  BY DEF FileT, Node, f_rdnode
<1>3. Lines(v.fil, v.skt, v.kf, q)
  BY <1>2 DEF Wired, SameKernel, Lines, Line
<1> QED
  BY <1>1, <1>3 DEF Wired, SameKernel

(* A socket may be passed over.                                            *)
LEMMA WiredEnter ==
    ASSUME NEW w, NEW q, Wired(w, NoSlot)
    PROVE  Wired(w, q)
BY DEF Wired, Lines, Line

(* A socket that does not live any more need not be passed over.           *)
LEMMA WiredLeave ==
    ASSUME NEW w, NEW q, Wired(w, q), w.skt[q].st \notin Living
    PROVE  Wired(w, NoSlot)
BY DEF Wired, Lines, Line

(* Nor one that is not the read socket of a file.                          *)
LEMMA WiredAside ==
    ASSUME NEW w, NEW q, Wired(w, q), \A f \in File : w.fil[f].x[f_rdnode] # q
    PROVE  Wired(w, NoSlot)
BY DEF Wired, Lines, Line

(* Nor one whose node is as it should be: f is his file.                   *)
LEMMA WiredPlug ==
    ASSUME NEW w, NEW q, Wired(w, q), NEW f, w.fil[f].id # NoId =>
                Plug(w.kf[w.fil[f].id], w.skt[q].host),
           \A g \in File : w.fil[g].x[f_rdnode] = q => g = f
    PROVE  Wired(w, NoSlot)
<1>1. ASSUME NEW g \in File, w.fil[g].st # "null", w.fil[g].id # NoId
      PROVE  Line(w.fil[g], w.skt, w.kf[w.fil[g].id], NoSlot)
  <2>1. Line(w.fil[g], w.skt, w.kf[w.fil[g].id], q)
    BY <1>1 DEF Wired, Lines
  <2> QED
    BY <1>1, <2>1 DEF Line
<1> QED
  BY <1>1 DEF Wired, Lines

(* The kernel file of id has changed, and the user knows no more of him.   *)
LEMMA WiredKf ==
    ASSUME NEW v, NEW w, NEW q, Wired(w, q), Same(v, w), w \in W, ~v.wild, NEW id \in Id,
           \A j \in Id \ {id} : v.kf[j] = w.kf[j],
           KfOK(v.kf[id]), v.kf[id].fopen = w.kf[id].fopen,
           \A f \in File : w.fil[f].st # "null" /\ w.fil[f].id = id =>
                Line(w.fil[f], w.skt, v.kf[id], q),
           \A u \in User : w.usr[u].st # "idle" => w.usr[u].id \in Id
    PROVE  Wired(v, q)
<1>1. \A j \in Id : KfOK(v.kf[j]) /\ v.kf[j].fopen = w.kf[j].fopen
  BY DEF Wired
<1>2. Told(v.kf, v.ncprq, v.usr)
  <2>1. \A i \in Asked(w.ncprq) : w.ncprq[i].id \in Id
    BY DEF Asked, W, InstrT
  <2>2. Told(w.kf, w.ncprq, w.usr) /\ SameRefs(v, w)
    BY DEF Wired, Same
  <2> QED
    BY <1>1, <2>1, <2>2 DEF Told, SameRefs
<1>3. Lines(v.fil, v.skt, v.kf, q)
  <2> SUFFICES ASSUME NEW f \in File, w.fil[f].st # "null", w.fil[f].id # NoId
               PROVE  Line(w.fil[f], w.skt, v.kf[w.fil[f].id], q)
    BY DEF Lines, Same, SameTables
  <2>1. w.fil[f].id \in Id
    BY GoodTypes DEF W, FileT
  <2>2. Line(w.fil[f], w.skt, w.kf[w.fil[f].id], q)
    BY DEF Wired, Lines
  <2> QED
    BY <2>1, <2>2
<1> QED
  BY <1>1, <1>2, <1>3 DEF Wired

-----------------------------------------------------------------------------
(* The instructions to the kernel *)

(* v is w with one kernel file changed, in a node i only.                  *)
Renoded(v, w, id, i) ==
    /\ v.wild = w.wild
    /\ \A j \in Id \ {id} : v.kf[j] = w.kf[j]
    /\ v.kf[id].fopen = w.kf[id].fopen
    /\ \A j \in Node \ {i} : v.kf[id].node[j] = w.kf[id].node[j]

(* The node has been emptied, or holds a socket that only the user has, or *)
(* is as it was.                                                           *)
Cleaned(v, w, id, i) ==
    /\ Renoded(v, w, id, i)
    /\ v.kf[id].node[i] \in {w.kf[id].node[i], NoNode} \/ v.kf[id].node[i].st = "skt"

(* iclean() does that.                                                     *)
LEMMA IcleanNode ==
    ASSUME NEW w \in W, NEW id \in Id, NEW i \in Node, w.kf[id].node[i].st # "err"
    PROVE  Cleaned(iclean(w, id, i), w, id, i)
<1>1. CASE ~infiletab(w, id) \/ w.kf[id].node[i].st = "none"
  <2>1. iclean(w, id, i) = w
    BY <1>1, Zenon DEF iclean
  <2> QED
    BY <2>1, Zenon DEF Cleaned, Renoded
<1>2. CASE ~(~infiletab(w, id) \/ w.kf[id].node[i].st = "none")
  <2> DEFINE v == daecls(w, id, i)
             n == [w.kf[id].node[i] EXCEPT !.ncpiu = FALSE, !.host = 0]
             K == [w.kf[id] EXCEPT !.ferr = TRUE, !.node[i].ncpiu = FALSE, !.node[i].host = 0]
  <2>1. /\ w.kf[id] \in KfT /\ w.kf[id].node[i] \in NodeRec /\ w.kf[id].node[i].st = "skt"
        /\ v.kf = w.kf /\ v.wild = w.wild /\ v \in W
    <3>1. v \in W
      BY SameClose DEF Same
    <3>2. w.kf[id] \in KfT /\ w.kf[id].node[i] \in NodeRec
      BY KernelTypes
    <3>3. w.kf[id].node[i].st = "skt"
      BY <1>2, <3>2 DEF NodeRec
    <3>4. v.kf = w.kf /\ v.wild = w.wild
      BY DEF daecls, W
    <3> HIDE DEF v
    <3> QED
      BY <3>1, <3>2, <3>3, <3>4
  <2>2. K.fopen = w.kf[id].fopen /\ K.node = [w.kf[id].node EXCEPT ![i] = n]
    BY <2>1 DEF KfT, NodeRec
  <2>3. n.st = "skt"
    BY <2>1 DEF NodeRec
  <2> HIDE DEF v, K, n
  <2>4. CASE w.kf[id].node[i].usriu
    <3>1. iclean(w, id, i) = [v EXCEPT !.kf[id] = K]
      BY <1>2, <2>1, <2>4, ZenonT(60) DEF iclean, K, v
    <3>2. LET u == [v EXCEPT !.kf[id] = K] IN
          u.kf[id] = K /\ u.wild = w.wild /\ \A j \in Id \ {id} : u.kf[j] = w.kf[j]
      BY <2>1 DEF W
    <3>3. K.node[i].st = "skt" /\ \A j \in Node \ {i} : K.node[j] = w.kf[id].node[j]
      BY <2>1, <2>2, <2>3 DEF KfT
    <3> QED
      BY <2>2, <3>1, <3>2, <3>3, Zenon DEF Cleaned, Renoded
  <2>5. CASE ~w.kf[id].node[i].usriu
    <3>1. iclean(w, id, i) = [v EXCEPT !.kf[id].node[i] = NoNode]
      BY <1>2, <2>1, <2>5, ZenonT(60) DEF iclean, daedes, v
    <3>2. LET u == [v EXCEPT !.kf[id].node[i] = NoNode] IN
          /\ u.wild = w.wild /\ \A j \in Id \ {id} : u.kf[j] = w.kf[j]
          /\ u.kf[id] = [w.kf[id] EXCEPT !.node[i] = NoNode]
      BY <2>1 DEF W
    <3>3. LET N == [w.kf[id] EXCEPT !.node[i] = NoNode] IN
          /\ N.fopen = w.kf[id].fopen /\ N.node[i] = NoNode
          /\ \A j \in Node \ {i} : N.node[j] = w.kf[id].node[j]
      BY <2>1 DEF KfT
    <3> QED
      BY <3>1, <3>2, <3>3, Zenon DEF Cleaned, Renoded
  <2> QED
    BY <2>4, <2>5
<1> QED
  BY <1>1, <1>2

(* v is w with a node of a kernel file set to n.                           *)
NodeIs(v, w, id, i, n) == Renoded(v, w, id, i) /\ v.kf[id].node[i] = n

(* So is it when EXCEPT sets it.                                           *)
LEMMA NodeSet ==
    ASSUME NEW w \in W, NEW id \in Id, NEW i \in Node, NEW n
    PROVE  NodeIs([w EXCEPT !.kf[id].node[i] = n], w, id, i, n)
<1> DEFINE K == [w.kf[id] EXCEPT !.node[i] = n]
           v == [w EXCEPT !.kf[id].node[i] = n]
<1>1. w.kf[id] \in KfT
  BY KernelTypes
<1>2. v.kf[id] = K /\ v.wild = w.wild /\ \A j \in Id \ {id} : v.kf[j] = w.kf[j]
  BY DEF W
<1>3. K.fopen = w.kf[id].fopen /\ K.node[i] = n /\ \A j \in Node \ {i} : K.node[j] = w.kf[id].node[j]
  BY <1>1 DEF KfT
<1> HIDE DEF v, K
<1>4. NodeIs(v, w, id, i, n)
  BY <1>2, <1>3, Zenon DEF NodeIs, Renoded
<1> QED
  BY <1>4, Zenon DEF v

(* The node of a new socket of the daemon.                                 *)
Fitted(n, h) == n.st = "skt" /\ n.ncpiu /\ n.host = h

(* wf_setup() makes it.                                                    *)
LEMMA SetupNode ==
    ASSUME NEW w \in W, NEW id \in Id, NEW i \in Node, NEW h, w.kf[id].tab, id # NoId
    PROVE  /\ Renoded(wf_setup(w, id, i, h), w, id, i)
           /\ Fitted(wf_setup(w, id, i, h).kf[id].node[i], h)
<1> DEFINE n == [st |-> "skt", ncpiu |-> TRUE, usriu |-> FALSE, host |-> h]
<1>1. wf_setup(w, id, i, h) = [w EXCEPT !.kf[id].node[i] = n]
  BY Zenon DEF wf_setup, infiletab
<1>2. Fitted(n, h)
  BY DEF Fitted
<1> HIDE DEF n
<1>3. NodeIs(wf_setup(w, id, i, h), w, id, i, n)
  <2>1. NodeIs([w EXCEPT !.kf[id].node[i] = n], w, id, i, n)
    BY NodeSet, Zenon
  <2> QED
    BY <1>1, <2>1, Zenon
<1> QED
  BY <1>2, <1>3, Zenon DEF NodeIs

(* A node with a new host, if it is a socket.                              *)
Rehosted(n, m, h) ==
    n.st = m.st /\ n.ncpiu = m.ncpiu /\ (m.st = "none" \/ n.host = h)

(* wf_mod() gives it to it.                                                *)
LEMMA ModNode ==
    ASSUME NEW w \in W, NEW id \in Id, NEW i \in Node, NEW h \in Int, w.kf[id].tab, id # NoId,
           w.kf[id].node[i].st # "err"
    PROVE  /\ Renoded(wf_mod(w, id, i, h), w, id, i)
           /\ Rehosted(wf_mod(w, id, i, h).kf[id].node[i], w.kf[id].node[i], h)
<1> DEFINE m == w.kf[id].node[i]
           n == [m EXCEPT !.host = h]
<1>1. CASE m.st = "none"
  <2>1. wf_mod(w, id, i, h) = w
    BY <1>1, Zenon DEF wf_mod
  <2> QED
    BY <1>1, <2>1, Zenon DEF Renoded, Rehosted
<1>2. CASE m.st # "none"
  <2>1. m \in NodeRec
    BY KernelTypes
  <2>2. Rehosted(n, m, h)
    BY <2>1 DEF Rehosted, NodeRec
  <2>3. wf_mod(w, id, i, h) = [w EXCEPT !.kf[id].node[i].host = h]
    BY <1>2, Zenon DEF wf_mod, infiletab
  <2>4. [w EXCEPT !.kf[id].node[i].host = h] = [w EXCEPT !.kf[id].node[i] = n]
    BY KernelTypes DEF W
  <2> HIDE DEF n, m
  <2>5. NodeIs(wf_mod(w, id, i, h), w, id, i, n)
    <3>1. NodeIs([w EXCEPT !.kf[id].node[i] = n], w, id, i, n)
      BY NodeSet, Zenon
    <3> QED
      BY <2>3, <2>4, <3>1, Zenon
  <2> QED
    BY <2>2, <2>5, Zenon DEF m, NodeIs
<1> QED
  BY <1>1, <1>2

(* Waking changes nothing in the kernel's files.                           *)
LEMMA WakeKernel ==
    ASSUME NEW w \in W, NEW id
    PROVE  Wake(w, id).kf = w.kf /\ Wake(w, id).wild = w.wild
BY DEF Wake, W

(* wf_ready() of an error puts one in the read node if that is empty.      *)
LEMMA ErrorNode ==
    ASSUME NEW w \in W, NEW id \in Id, w.kf[id].tab, id # NoId
    PROVE  LET v == wf_ready(w, id, TRUE)
               m == w.kf[id].node[f_rdnode]
               n == v.kf[id].node[f_rdnode] IN
           /\ Renoded(v, w, id, f_rdnode)
           /\ n.ncpiu = m.ncpiu /\ (m.st # "none" => n = m)
<1> DEFINE m == w.kf[id].node[f_rdnode]
           n == IF m.st = "none" THEN [m EXCEPT !.st = "err"] ELSE m
           a == [w EXCEPT !.kf[id].ferr = TRUE]
           b == [a EXCEPT !.kf[id].node[f_rdnode] = n]
<1>1. w.kf[id] \in KfT /\ f_rdnode \in Node /\ m \in NodeRec
  BY KernelTypes DEF f_rdnode, Node
<1>2. wf_ready(w, id, TRUE) = Wake([w EXCEPT !.kf[id].ferr = TRUE,
                    !.kf[id].node[f_rdnode] =
                            IF @.st = "none" THEN [@ EXCEPT !.st = "err"] ELSE @], id)
  BY Zenon DEF wf_ready, infiletab
<1>3. a.kf[id].node = w.kf[id].node /\ a.kf[id].fopen = w.kf[id].fopen
      /\ a.wild = w.wild /\ \A j \in Id \ {id} : a.kf[j] = w.kf[j]
  BY <1>1 DEF W, KfT
<1>4. a \in W
  <2>1. [w.kf[id] EXCEPT !.ferr = TRUE] \in KfT
    BY <1>1 DEF KfT
  <2>2. a = [w EXCEPT !.kf[id] = [w.kf[id] EXCEPT !.ferr = TRUE]]
    BY <1>1 DEF W
  <2> QED
    BY <2>1, <2>2 DEF W
<1>5. [w EXCEPT !.kf[id].ferr = TRUE,
               !.kf[id].node[f_rdnode] = IF @.st = "none" THEN [@ EXCEPT !.st = "err"] ELSE @]
      = b
  BY <1>1, <1>3 DEF W
<1>6. n.ncpiu = m.ncpiu /\ (m.st # "none" => n = m) /\ n \in NodeRec
  BY <1>1 DEF NodeRec
<1> HIDE DEF a, n
<1>7. NodeIs(b, a, id, f_rdnode, n)
  BY <1>1, <1>4, NodeSet, Zenon
<1>8. b \in W
  <2>1. [a.kf[id] EXCEPT !.node[f_rdnode] = n] \in KfT
    BY <1>1, <1>4, <1>6, KernelTypes DEF KfT
  <2>2. b = [a EXCEPT !.kf[id] = [a.kf[id] EXCEPT !.node[f_rdnode] = n]]
    BY <1>4 DEF W
  <2> QED
    BY <1>4, <2>1, <2>2 DEF W
<1> HIDE DEF b, m
<1>9. Wake(b, id).kf = b.kf /\ Wake(b, id).wild = b.wild
  BY <1>8, WakeKernel
<1>10. wf_ready(w, id, TRUE) = Wake(b, id)
  BY <1>2, <1>5
<1> QED
  BY <1>3, <1>6, <1>7, <1>9, <1>10, ZenonT(60) DEF NodeIs, Renoded, m

-----------------------------------------------------------------------------
(* The same for the files of the daemon *)

(* A user who waits or has a file has a file of the kernel.                *)
LEMMA UsersNamed ==
    ASSUME NEW w, NEW z, NEW d, Good(w, z, d)
    PROVE  /\ \A u \in User : w.usr[u].st # "idle" => w.usr[u].id \in Id
           /\ \A f \in File : \A g \in File :
                w.fil[f].st # "null" /\ w.fil[g].st # "null" /\ w.fil[f].id = w.fil[g].id
                /\ w.fil[f].id # NoId => f = g
           /\ \A f \in File : w.fil[f].st # "null" /\ w.fil[f].id # NoId =>
                w.fil[f].id \in Id /\ w.kf[w.fil[f].id].tab
<1>1. Refs(w.fil, w.kf, w.ncprq, w.usr)
  BY Zenon DEF Good
<1>2. \A f \in File : w.fil[f].id \in {NoId} \cup Id
  BY GoodTypes, TableTypes
<1> QED
  BY <1>1, <1>2 DEF Refs, Known

(* id is the kernel file of the file f.                                    *)
Owns(w, f, id) ==
    f \in File /\ w.fil[f].st # "null" /\ id \in Id /\ id # NoId /\ w.fil[f].id = id

(* A file has one line, to the kernel file that is his.                    *)
LEMMA OwnLine ==
    ASSUME NEW w, NEW q, Wired(w, q), NEW f, NEW id, Owns(w, f, id)
    PROVE  Line(w.fil[f], w.skt, w.kf[id], q) /\ KfOK(w.kf[id]) /\ id \in Id /\ f \in File
BY ZenonT(60) DEF Wired, Lines, Owns

(* No other file has that kernel file.                                     *)
LEMMA OneOwner ==
    ASSUME NEW w, NEW z, NEW d, Good(w, z, d), NEW f, NEW id, Owns(w, f, id), NEW g \in File,
           w.fil[g].st # "null", w.fil[g].id = id
    PROVE  g = f
<1>1. f \in File /\ w.fil[f].st # "null" /\ w.fil[f].id = id /\ id # NoId
  BY Zenon DEF Owns
<1> QED
  BY <1>1, UsersNamed, Zenon

(* The node i of the kernel file K may be what it is, as far as the line   *)
(* of the file F is concerned.                                             *)
NodeOK(F, skts, K, i, q) ==
    /\ K.node[i].st # "skt" => ~K.node[i].ncpiu
    /\ IF i # f_rdnode THEN K.node[i].st # "err"
       ELSE F.x[f_rdnode] \notin {NoSlot, q} /\ skts[F.x[f_rdnode]].st \in Living =>
                Plug(K, skts[F.x[f_rdnode]].host)

(* Nothing but the node i has changed.                                     *)
But(K, M, i) == K.fopen = M.fopen /\ \A j \in Node \ {i} : K.node[j] = M.node[j]

(* The node has changed, and the line is right again.                      *)
LEMMA LineNode ==
    ASSUME NEW F, NEW skts, NEW K, NEW M, NEW i \in Node, NEW q, Line(F, skts, M, q),
           KfOK(M), But(K, M, i), NodeOK(F, skts, K, i, q)
    PROVE  Line(F, skts, K, q) /\ KfOK(K)
<1> USE DEF But
<1>1. KfOK(K)
  BY ZenonT(60) DEF KfOK, NodeOK
<1>2. f_rdnode \in Node
  BY DEF f_rdnode, Node
<1>3. CASE i = f_rdnode
  BY <1>1, <1>3, ZenonT(60) DEF Line, NodeOK
<1>4. CASE i # f_rdnode
  <2>1. K.node[f_rdnode] = M.node[f_rdnode]
    BY <1>2, <1>4
  <2> QED
    BY <1>1, <2>1, ZenonT(60) DEF Line, Plug
<1> QED
  BY <1>3, <1>4

(* A node of the kernel file of f has changed.                             *)
LEMMA Renode ==
    ASSUME NEW w, NEW z, NEW d, NEW q, Good(w, z, d), Wired(w, q), NEW v, Same(v, w),
           NEW f, NEW id, Owns(w, f, id), NEW i \in Node, Renoded(v, w, id, i),
           NodeOK(w.fil[f], w.skt, v.kf[id], i, q)
    PROVE  Wired(v, q)
<1>1. Line(w.fil[f], w.skt, v.kf[id], q) /\ KfOK(v.kf[id])
  <2>1. But(v.kf[id], w.kf[id], i)
    BY Zenon DEF Renoded, But
  <2>2. Line(w.fil[f], w.skt, w.kf[id], q) /\ KfOK(w.kf[id])
    BY OwnLine, Zenon
  <2> QED
    BY <2>1, <2>2, LineNode, Zenon
<1>2. ASSUME NEW g \in File, w.fil[g].st # "null", w.fil[g].id = id
      PROVE  Line(w.fil[g], w.skt, v.kf[id], q)
  <2>1. g = f
    BY <1>2, OneOwner, Zenon
  <2> QED
    BY <1>1, <2>1, Zenon
<1>3. ~v.wild /\ (\A j \in Id \ {id} : v.kf[j] = w.kf[j]) /\ v.kf[id].fopen = w.kf[id].fopen
  BY Zenon DEF Wired, Renoded
<1>4. w \in W /\ id \in Id /\ \A u \in User : w.usr[u].st # "idle" => w.usr[u].id \in Id
  BY GoodTypes, UsersNamed, OwnLine, Zenon
<1> QED
  BY <1>1, <1>2, <1>3, <1>4, WiredKf, Zenon

(* The read node, when the socket p in its place lives, is no error.       *)
LEMMA NodeFine ==
    ASSUME NEW w, Wired(w, NoSlot), NEW f, NEW id, Owns(w, f, id), NEW i \in Node,
           w.fil[f].x[i] # NoSlot, w.skt[w.fil[f].x[i]].st \in Living
    PROVE  w.kf[id].node[i].st # "err"
<1>1. Line(w.fil[f], w.skt, w.kf[id], NoSlot) /\ KfOK(w.kf[id])
  BY OwnLine, Zenon
<1>2. CASE i = f_rdnode
  BY <1>1, <1>2, ZenonT(60) DEF Line, Plug
<1>3. CASE i # f_rdnode
  BY <1>1, <1>3, ZenonT(60) DEF KfOK
<1> QED
  BY <1>2, <1>3

(* A living socket p of a file f, at the place i.                          *)
Held(w, p, f, i) ==
    /\ At(w, p, f, i) /\ f \in File /\ i \in Node /\ w.fil[f].x[i] = p
    /\ w.fil[f].id \in {NoId} \cup Id /\ w.fil[f].st # "null"

(* Every attached socket has a file.                                       *)
LEMMA HeldBy ==
    ASSUME NEW w, NEW z, NEW d, Good(w, z, d), NEW p \in Slot, p # z,
           w.skt[p].st \in Attachable
    PROVE  \E f \in File, i \in Node : Held(w, p, f, i)
<1> DEFINE f == w.skt[p].filep
           i == w.skt[p].sinx
<1>1. f \in File /\ i \in Node /\ w.fil[f].x[i] = p
      /\ w.fil[f].id \in {NoId} \cup Id /\ w.fil[f].st # "null"
  BY FileOfIt
<1>2. At(w, p, f, i)
  BY Zenon DEF At
<1> HIDE DEF f, i
<1> QED
  BY <1>1, <1>2, Zenon DEF Held

(* The file owns a kernel file, if he has one.                             *)
LEMMA HeldOwns ==
    ASSUME NEW w, NEW p, NEW f, NEW i, Held(w, p, f, i)
    PROVE  /\ f \in File /\ i \in Node /\ w.fil[f].x[i] = p /\ w.fil[f].st # "null"
           /\ w.skt[p].filep = f /\ w.skt[p].sinx = i
           /\ w.fil[f].id = NoId \/ Owns(w, f, w.fil[f].id)
<1>1. w.fil[f].id # NoId => w.fil[f].id \in Id
  BY Zenon DEF Held
<1> QED
  BY <1>1, Zenon DEF Held, At, Owns

(* The living sockets are among those that belong to a file.               *)
LEMMA LivingFact == Living \subseteq Attachable
BY DEF Living, Attachable, SktState

(* kw_clean(): the daemon is done with the socket in the kernel.           *)
LEMMA CleanAt ==
    ASSUME NEW w, NEW z, NEW d, Good(w, z, d), NEW p \in Slot, w.skt[p].st \in Living,
           Wired(w, NoSlot), NEW f, NEW i, Held(w, p, f, i), NEW v, v = kw_clean(w, p),
           Same(v, w)
    PROVE  Wired(v, p)
<1>1. f \in File /\ i \in Node /\ w.fil[f].x[i] = p /\ p # NoSlot
      /\ v = iclean(w, w.fil[f].id, i)
  <2>1. f \in File /\ i \in Node /\ w.fil[f].x[i] = p /\ w.skt[p].filep = f /\ w.skt[p].sinx = i
    BY Zenon DEF Held, At
  <2>2. kw_clean(w, p) = iclean(w, w.fil[f].id, i)
    BY <2>1, Zenon DEF kw_clean, FileOf
  <2> QED
    BY <2>1, <2>2, NoSlotFact, Zenon
<1>2. Wired(w, p)
  BY WiredEnter, Zenon
<1>3. CASE w.fil[f].id = NoId
  <2>1. iclean(w, w.fil[f].id, i) = w
    BY <1>3, Zenon DEF iclean, infiletab
  <2> QED
    BY <1>1, <1>2, <2>1, Zenon
<1>4. ASSUME NEW id, id = w.fil[f].id, Owns(w, f, id)
      PROVE  Wired(v, p)
  <2>1. v = iclean(w, id, i)
    BY <1>1, <1>4, Zenon
  <2>2. id \in Id /\ w \in W
    BY <1>4, GoodTypes DEF Owns
  <2>3. w.kf[id].node[i].st # "err"
    BY <1>1, <1>4, NodeFine, Zenon
  <2>4. Cleaned(v, w, id, i)
    BY <1>1, <2>1, <2>2, <2>3, IcleanNode, Zenon
  <2>5. Renoded(v, w, id, i) /\ KfOK(w.kf[id])
    BY <1>4, <2>4, OwnLine, WiredEnter, Zenon DEF Cleaned
  <2>6. /\ v.kf[id].node[i].st # "skt" => ~v.kf[id].node[i].ncpiu
        /\ i # f_rdnode => v.kf[id].node[i].st # "err"
    <3>1. NoNode.st = "none" /\ ~NoNode.ncpiu
      BY DEF NoNode
    <3> QED
      BY <1>1, <2>3, <2>4, <2>5, <3>1, ZenonT(60) DEF Cleaned, KfOK
  <2>7. NodeOK(w.fil[f], w.skt, v.kf[id], i, p)
    BY <1>1, <2>6, ZenonT(60) DEF NodeOK
  <2> QED
    BY <1>1, <1>2, <1>4, <2>5, <2>7, Renode, Zenon
<1>5. w.fil[f].id = NoId \/ Owns(w, f, w.fil[f].id)
  BY HeldOwns, Zenon
<1> QED
  BY <1>3, <1>4, <1>5, Zenon

(* Of any living socket.                                                   *)
LEMMA CleanWired ==
    ASSUME NEW w, NEW z, NEW d, Good(w, z, d), NEW p \in Slot, p # z, w.skt[p].st \in Living,
           Wired(w, NoSlot)
    PROVE  Wired(kw_clean(w, p), p)
<1>1. w.skt[p].st \in Attachable
  BY LivingFact
<1>2. Same(kw_clean(w, p), w)
  BY <1>1, KwSame, Zenon
<1>3. PICK f \in File, i \in Node : Held(w, p, f, i)
  BY <1>1, HeldBy, Zenon
<1> QED
  BY <1>2, <1>3, CleanAt, Zenon

(* The kernel's files have not changed.                                    *)
KSame(v, w) == v.kf = w.kf /\ v.wild = w.wild

(* A socket p that is passed over has changed.                             *)
LEMMA SocketOn ==
    ASSUME NEW v, NEW w, NEW z, NEW d, Good(w, z, d), NEW p \in Slot, Wired(w, p),
           Frame(v, w, p), KSame(v, w)
    PROVE  Wired(v, p)
<1>1. SameKernel(v, w) /\ v.fil = w.fil /\ \A o \in Slot \ {p} : v.skt[o] = w.skt[o]
  BY DEF Frame, SameRefs, KSame, SameKernel
<1>2. w.fil \in [File -> FileT]
  BY GoodTypes
<1> QED
  BY <1>1, <1>2, WiredSocket

(* He does not live any more.                                              *)
LEMMA SocketDone ==
    ASSUME NEW v, NEW w, NEW z, NEW d, Good(w, z, d), NEW p \in Slot, Wired(w, p),
           Frame(v, w, p), KSame(v, w), v.skt[p].st \notin Living
    PROVE  Wired(v, NoSlot)
BY SocketOn, WiredLeave

(* What changes no file of the kernel.                                     *)
LEMMA StKernel ==
    ASSUME NEW w \in W, NEW p, NEW s, NEW op
    PROVE  /\ KSame(SetSt(w, p, s), w) /\ KSame(clean_skt(w, p), w)
           /\ KSame(stimeout(w, p), w) /\ KSame(hw(w, op, p), w)
BY DEF KSame, SetSt, clean_skt, stimeout, hw, W

(* A command for the network changes nothing here.                         *)
LEMMA HwWired ==
    ASSUME NEW w, NEW z, NEW d, Good(w, z, d), NEW q, Wired(w, q), NEW p \in Slot,
           NEW op \in {"rfc", "cls", "all"}
    PROVE  Wired(hw(w, op, p), q) /\ Same(hw(w, op, p), w)
<1> DEFINE v == hw(w, op, p)
<1>1. w \in W /\ KSame(v, w) /\ Same(v, w)
  BY GoodTypes, StKernel, SameHw
<1> HIDE DEF v
<1>2. SameKernel(v, w) /\ v.fil = w.fil /\ v.skt = w.skt
  BY <1>1 DEF Same, SameTables, SameRefs, KSame, SameKernel
<1>3. Wired(v, q)
  BY <1>2, WiredSame
<1> QED
  BY <1>1, <1>3 DEF v

(* A file F as G was, or with fewer sockets, or free.                      *)
Less(F, G) == F.id \in {NoId, G.id} /\ F.x[f_rdnode] \in {NoSlot, G.x[f_rdnode]}

(* No socket has come to life, and no file has got one.                    *)
Calm(v, w) ==
    /\ \A o \in Slot : v.skt[o].st \in Living =>
            w.skt[o].st \in Living /\ v.skt[o].host = w.skt[o].host
    /\ \A f \in File : Less(v.fil[f], w.fil[f])

(* Calm steps compose.                                                     *)
LEMMA CalmTrans ==
    ASSUME NEW u, NEW v, NEW w, Calm(u, v), Calm(v, w)
    PROVE  Calm(u, w)
<1>1. ASSUME NEW f \in File PROVE Less(u.fil[f], w.fil[f])
  <2>1. Less(u.fil[f], v.fil[f]) /\ Less(v.fil[f], w.fil[f])
    BY DEF Calm
  <2> QED
    BY <2>1 DEF Less
<1> QED
  BY <1>1 DEF Calm

(* A world with the same sockets and files is calm.                        *)
LEMMA CalmSame ==
    ASSUME NEW v, NEW w, v.skt = w.skt, v.fil = w.fil
    PROVE  Calm(v, w)
BY DEF Calm, Less

(* A step on one socket that does not live is calm.                        *)
LEMMA CalmFrame ==
    ASSUME NEW v, NEW w, NEW p, Frame(v, w, p), v.skt[p].st \notin Living
    PROVE  Calm(v, w)
BY DEF Calm, Less, Frame

(* A socket begins to close without a word to the kernel.                  *)
LEMMA SetStWired ==
    ASSUME NEW w, NEW z, NEW d, Good(w, z, d), NEW p \in Slot, p # z, Wired(w, p),
           w.skt[p].st \in Attachable, NEW s \in Attachable \ Living
    PROVE  LET v == SetSt(w, p, s) IN Wired(v, NoSlot) /\ Goes(v, w, p, s, z, d)
<1>1. s \in Attachable \ Fresh /\ w \in W
  BY GoodTypes DEF Fresh, Living
<1>2. Goes(SetSt(w, p, s), w, p, s, z, d)
  BY <1>1, SetStMoves
<1>3. KSame(SetSt(w, p, s), w)
  BY <1>1, StKernel
<1> QED
  BY <1>2, <1>3, SocketDone DEF Goes

(* so_ut2() does so.                                                       *)
LEMMA Ut2Wired ==
    ASSUME NEW w, NEW z, NEW d, Good(w, z, d), NEW p \in Slot, p # z, Wired(w, p),
           w.skt[p].st \in Attachable
    PROVE  LET v == so_ut2(w, p) IN Wired(v, NoSlot) /\ Goes(v, w, p, "clow", z, d)
<1> DEFINE v == SetSt(w, p, "clow")
           u == clean_skt(v, p)
<1>1. "clow" \in Attachable \ Living
  BY DEF Attachable, Living, SktState
<1>2. Wired(v, NoSlot) /\ Goes(v, w, p, "clow", z, d)
  BY <1>1, SetStWired
<1> HIDE DEF v
<1>3. Good(v, z, d) /\ v \in W /\ v.skt[p].st = "clow"
  BY <1>2, GoodTypes DEF Goes
<1>4. Goes(u, v, p, "clow", z, d) /\ KSame(u, v)
  BY <1>3, CleanMoves, StKernel
<1>5. Wired(u, NoSlot)
  BY <1>1, <1>2, <1>3, <1>4, WiredEnter, SocketDone DEF Goes
<1>6. Goes(u, w, p, "clow", z, d)
  BY <1>2, <1>4, GoesTrans
<1> QED
  BY <1>5, <1>6 DEF so_ut2, v

(* so_ut1() tells the kernel first.                                        *)
LEMMA Ut1Wired ==
    ASSUME NEW w, NEW z, NEW d, Good(w, z, d), NEW p \in Slot, p # z, w.skt[p].st \in Living,
           Wired(w, NoSlot)
    PROVE  Wired(so_ut1(w, p), NoSlot) /\ Goes(so_ut1(w, p), w, p, "clow", z, d)
<1> DEFINE v == kw_clean(w, p)
<1>1. Wired(v, p) /\ w.skt[p].st \in Attachable
  BY CleanWired, LivingFact
<1>2. Goes(v, w, p, w.skt[p].st, z, d)
  BY <1>1, CleanKernelMoves
<1>3. so_ut1(w, p) = so_ut2(v, p)
  BY DEF so_ut1, so_ut2
<1> HIDE DEF v
<1>4. Wired(so_ut2(v, p), NoSlot) /\ Goes(so_ut2(v, p), v, p, "clow", z, d)
  BY <1>1, <1>2, Ut2Wired DEF Goes
<1>5. Goes(so_ut2(v, p), w, p, "clow", z, d)
  BY <1>2, <1>4, GoesTrans
<1> QED
  BY <1>3, <1>4, <1>5

(* A CLS is sent, the kernel told and the state changed.                   *)
LEMMA TellAndSet ==
    ASSUME NEW w, NEW z, NEW d, Good(w, z, d), NEW p \in Slot, p # z, w.skt[p].st \in Living,
           Wired(w, NoSlot), NEW s \in Attachable \ Living
    PROVE  LET v == SetSt(kw_clean(w, p), p, s)
               u == SetSt(kw_clean(hw(w, "cls", p), p), p, s) IN
           /\ Wired(v, NoSlot) /\ Goes(v, w, p, s, z, d)
           /\ Wired(u, NoSlot) /\ Goes(u, w, p, s, z, d)
<1>1. ASSUME NEW a, Goes(a, w, p, w.skt[p].st, z, d), Wired(a, NoSlot)
      PROVE  LET v == SetSt(kw_clean(a, p), p, s) IN
             Wired(v, NoSlot) /\ Goes(v, w, p, s, z, d)
  <2> DEFINE c == kw_clean(a, p)
  <2>1. Good(a, z, d) /\ a.skt[p].st \in Living
    BY <1>1 DEF Goes
  <2>2. Wired(c, p) /\ a.skt[p].st \in Attachable
    BY <1>1, <2>1, CleanWired, LivingFact
  <2>3. Goes(c, a, p, a.skt[p].st, z, d)
    BY <2>1, <2>2, CleanKernelMoves
  <2> HIDE DEF c
  <2>4. Wired(SetSt(c, p, s), NoSlot) /\ Goes(SetSt(c, p, s), c, p, s, z, d)
    BY <2>2, <2>3, SetStWired DEF Goes
  <2>5. Goes(SetSt(c, p, s), w, p, s, z, d)
    BY <1>1, <2>3, <2>4, GoesTrans
  <2> QED
    BY <2>4, <2>5 DEF c
<1>2. Goes(w, w, p, w.skt[p].st, z, d)
  BY GoesRefl
<1>3. Goes(hw(w, "cls", p), w, p, w.skt[p].st, z, d) /\ Wired(hw(w, "cls", p), NoSlot)
  BY HwMoves, HwWired
<1> QED
  BY <1>1, <1>2, <1>3

(* si_kill: the socket does not live afterwards.                           *)
LEMMA KillOpWired ==
    ASSUME NEW w, NEW z, NEW d, Good(w, z, d), NEW p \in Slot, p # z, Wired(w, NoSlot)
    PROVE  /\ Wired(KillOp(w, p), NoSlot) /\ Calm(KillOp(w, p), w)
           /\ KillOp(w, p).skt[p].st \notin Living
<1> DEFINE s == w.skt[p].st
           v == KillOp(w, p)
<1> USE DEF Living
<1>1. CASE s \in {"glsn", "slsn"}
  <2>1. v = so_ut1(w, p)
    BY <1>1 DEF KillOp
  <2> HIDE DEF v
  <2>2. Wired(v, NoSlot) /\ Goes(v, w, p, "clow", z, d)
    BY <1>1, <2>1, Ut1Wired
  <2> QED
    BY <2>2, CalmFrame DEF Goes, v
<1>2. CASE s \in {"rfcw", "open", "orfnmw"}
  <2>1. v = SetSt(kw_clean(hw(w, "cls", p), p), p, "cacw") /\ "cacw" \in Attachable \ Living
    BY <1>2 DEF KillOp, so_ut3, Attachable, SktState
  <2> HIDE DEF v
  <2>2. Wired(v, NoSlot) /\ Goes(v, w, p, "cacw", z, d)
    BY <1>2, <2>1, TellAndSet
  <2> QED
    BY <2>2, CalmFrame DEF Goes, v
<1>3. CASE s = "clorfnmw"
  <2>1. s \in Attachable /\ v = SetSt(w, p, "c2cw") /\ "c2cw" \in Attachable \ Living
    BY <1>3 DEF KillOp, Attachable, SktState
  <2> HIDE DEF v
  <2>2. Wired(v, NoSlot) /\ Goes(v, w, p, "c2cw", z, d)
    BY <2>1, WiredEnter, SetStWired
  <2> QED
    BY <2>2, CalmFrame DEF Goes, v
<1>4. CASE s \notin {"glsn", "slsn", "rfcw", "open", "orfnmw", "clorfnmw"}
  <2>1. v = w
    BY <1>4 DEF KillOp
  <2> QED
    BY <1>4, <2>1, CalmSame
<1> QED
  BY <1>1, <1>2, <1>3, <1>4

-----------------------------------------------------------------------------
(* The end of a file *)

(* The daemon or a user gives up a reference to the kernel file id, and    *)
(* perhaps the file; FOPEN goes only when nobody knows the file any more.  *)
LetGo(v, w, id) ==
    /\ v.wild = w.wild /\ v.skt = w.skt /\ v.ncprq = w.ncprq
    /\ \A u \in User : v.usr[u].st = "open" =>
            w.usr[u].st = "open" /\ v.usr[u].id = w.usr[u].id
    /\ \A f \in File : v.fil[f].st # "null" => v.fil[f] = w.fil[f]
    /\ \A j \in Id \ {id} : v.kf[j] = w.kf[j]
    /\ v.kf[id].node = w.kf[id].node
    /\ \/ v.kf[id].fopen = w.kf[id].fopen
       \/ /\ ~v.kf[id].fopen
          /\ \A u \in User : ~(v.usr[u].st = "open" /\ v.usr[u].id = id)
          /\ \A f \in File : ~(v.fil[f].st # "null" /\ v.fil[f].id = id)

(* Letting a reference to a kernel file go keeps the rest as it was: the   *)
(* last one clears FOPEN of a file that nobody has.                        *)
LEMMA LetGoWired ==
    ASSUME NEW w, NEW z, NEW d, Good(w, z, d), NEW q, Wired(w, q), NEW id \in Id, NEW v,
           LetGo(v, w, id)
    PROVE  Wired(v, q)
<1>0. w \in W
  BY GoodTypes
<1>1. ASSUME NEW j \in Id PROVE KfOK(v.kf[j]) /\ (v.kf[j].fopen => w.kf[j].fopen)
  <2>1. v.kf[j].node = w.kf[j].node /\ (v.kf[j].fopen => w.kf[j].fopen) /\ KfOK(w.kf[j])
    BY DEF LetGo, Wired
  <2> QED
    BY <2>1 DEF KfOK
<1>2. Told(v.kf, v.ncprq, v.usr)
  <2>1. \A i \in Asked(w.ncprq) : w.ncprq[i].id \in Id
    BY <1>0 DEF Asked, W, InstrT
  <2>2. \A i \in Asked(v.ncprq) : ~v.kf[v.ncprq[i].id].fopen
    BY <1>1, <2>1 DEF Wired, Told, LetGo
  <2>3. ASSUME NEW u \in User, v.usr[u].st = "open" PROVE v.kf[v.usr[u].id].fopen
    <3>1. w.usr[u].st = "open" /\ v.usr[u].id = w.usr[u].id
      BY <2>3, Zenon DEF LetGo
    <3>2. w.usr[u].id \in Id /\ w.kf[w.usr[u].id].fopen
      BY <3>1, UsersNamed DEF Wired, Told
    <3>3. w.usr[u].id # id => v.kf[w.usr[u].id] = w.kf[w.usr[u].id]
      BY <3>2, Zenon DEF LetGo
    <3>4. w.usr[u].id = id => v.kf[id].fopen = w.kf[id].fopen
      BY <2>3, <3>1, Zenon DEF LetGo
    <3> QED
      BY <3>1, <3>2, <3>3, <3>4, Zenon
  <2> QED
    BY <2>2, <2>3 DEF Told
<1>3. ASSUME NEW f \in File, v.fil[f].st # "null", v.fil[f].id # NoId
      PROVE  Line(v.fil[f], v.skt, v.kf[v.fil[f].id], q)
  <2>1. v.fil[f] = w.fil[f] /\ v.skt = w.skt
    BY <1>3 DEF LetGo
  <2>2. v.fil[f].id \in Id
    BY <1>0, <1>3, <2>1 DEF W, FileT
  <2>3. v.kf[v.fil[f].id].node = w.kf[v.fil[f].id].node
        /\ v.kf[v.fil[f].id].fopen = w.kf[v.fil[f].id].fopen
    BY <1>3, <2>2 DEF LetGo
  <2>4. Line(w.fil[f], w.skt, w.kf[w.fil[f].id], q)
    BY <1>3, <2>1 DEF Wired, Lines
  <2> QED
    BY <2>1, <2>3, <2>4, Zenon DEF Line, Plug
<1> QED
  BY <1>1, <1>2, <1>3 DEF Wired, Lines, LetGo

(* net_frlse() in the kernel.                                              *)
Frlsed(v, w, id) ==
    /\ v.wild = w.wild /\ v.skt = w.skt /\ v.ncprq = w.ncprq /\ v.usr = w.usr
    /\ v.fil = w.fil /\ \A j \in Id \ {id} : v.kf[j] = w.kf[j]
    /\ v.kf[id].node = w.kf[id].node
    /\ \/ v.kf[id].fopen = w.kf[id].fopen
       \/ w.kf[id].cnt = 1 /\ ~v.kf[id].fopen

(* net_frlse() leaves the nodes of every kernel file alone.                *)
LEMMA FrlseNode ==
    ASSUME NEW w \in W, NEW id \in Id
    PROVE  Frlsed(net_frlse(w, id), w, id)
<1> DEFINE a1 == [w.kf[id] EXCEPT !.cnt = 0]
           a2 == [a1 EXCEPT !.tab = FALSE]
           a3 == [a2 EXCEPT !.ferr = FALSE]
           a4 == [a3 EXCEPT !.fopen = FALSE]
           b == [w.kf[id] EXCEPT !.cnt = @ - 1]
           k == IF w.kf[id].cnt = 1 THEN a4 ELSE b
<1>1. w.kf[id] \in KfT
  BY KernelTypes
<1>2. a4.node = w.kf[id].node /\ ~a4.fopen
  <2>1. a1 \in KfT /\ a1.node = w.kf[id].node
    BY <1>1 DEF KfT
  <2> HIDE DEF a1
  <2>2. a2 \in KfT /\ a2.node = w.kf[id].node
    BY <2>1 DEF KfT
  <2> HIDE DEF a2
  <2>3. a3 \in KfT /\ a3.node = w.kf[id].node
    BY <2>2 DEF KfT
  <2> HIDE DEF a3
  <2> QED
    BY <2>3 DEF KfT
<1>3. b.node = w.kf[id].node /\ b.fopen = w.kf[id].fopen
  BY <1>1 DEF KfT
<1>4. net_frlse(w, id) = [w EXCEPT !.kf[id] = k]
  <2>1. [w EXCEPT !.kf[id].cnt = @ - 1] = [w EXCEPT !.kf[id] = b]
    BY DEF W
  <2>2. [w EXCEPT !.kf[id] = [@ EXCEPT !.cnt = 0, !.tab = FALSE,
                                       !.ferr = FALSE, !.fopen = FALSE]]
        = [w EXCEPT !.kf[id] = a4]
    BY DEF W
  <2> HIDE DEF a4, b
  <2> QED
    BY <2>1, <2>2 DEF net_frlse
<1>5. k.node = w.kf[id].node
      /\ (k.fopen = w.kf[id].fopen \/ (w.kf[id].cnt = 1 /\ ~k.fopen))
  <2> HIDE DEF a4, b
  <2>1. CASE w.kf[id].cnt = 1
    <3>1. k = a4
      BY <2>1
    <3> QED
      BY <1>2, <2>1, <3>1, Zenon
  <2>2. CASE w.kf[id].cnt # 1
    <3>1. k = b
      BY <2>2
    <3> HIDE DEF k
    <3> QED
      BY <1>3, <3>1, Zenon
  <2> QED
    BY <2>1, <2>2
<1> HIDE DEF k
<1> QED
  BY <1>4, <1>5 DEF W, Frlsed

(* f_rlse() *)
LEMMA RlseWired ==
    ASSUME NEW w, NEW z, NEW d, NEW q, Good(w, z, d), Wired(w, q), NEW f \in File,
           w.fil[f].st # "null", w.fil[f].nsatt = 0
    PROVE  Wired(f_rlse(w, f), q) /\ Calm(f_rlse(w, f), w)
<1> DEFINE v == f_rlse(w, f)
           id == w.fil[f].id
           new == [w.fil EXCEPT ![f] = NullFile]
           w1 == [w EXCEPT !.nsl = @ + w.fil[f].nsrsrv, !.nfl = @ + 1, !.fil[f] = NullFile,
                           !.grp = Groups(w, f)]
<1>1. w \in W /\ id \in {NoId} \cup Id
  BY GoodTypes DEF FileT
<1>2. v = wf_frlse(w1, id)
  BY <1>1, Zenon DEF f_rlse, Groups
<1>3. v.skt = w.skt /\ v.fil = new
  BY ReleaseGood
<1>4. new[f] = NullFile /\ \A g \in File \ {f} : new[g] = w.fil[g]
  BY <1>1 DEF W
<1>5. w1.kf = w.kf /\ w1.wild = w.wild /\ w1.usr = w.usr /\ w1.ncprq = w.ncprq
      /\ w1.skt = w.skt
  BY <1>1 DEF W
<1>6. NullFile.st = "null" /\ NullFile.id = NoId /\ NullFile.x[f_rdnode] = NoSlot
  BY TableTypes DEF Node, f_rdnode
<1> HIDE DEF new, v
<1>7. Calm(v, w)
  <2>1. \A g \in File : Less(v.fil[g], w.fil[g])
    BY <1>3, <1>4, <1>6 DEF Less
  <2> QED
    BY <1>3, <2>1 DEF Calm
<1>8. ASSUME NEW g \in File, v.fil[g].st # "null"
      PROVE  v.fil[g] = w.fil[g] /\ (id # NoId => v.fil[g].id # id)
  BY <1>3, <1>4, <1>6, <1>8, UsersNamed
<1>9. w1 \in W
  <2>1. w.nsl + w.fil[f].nsrsrv \in Int /\ w.nfl + 1 \in Int /\ Groups(w, f) \in SUBSET Group
    BY GoodTypes, <1>1 DEF Groups, FileT
  <2>2. new \in [File -> FileT]
    BY <1>1, TableTypes DEF new, W
  <2> QED
    BY <1>1, <2>1, <2>2 DEF W, new
<1> HIDE DEF w1
<1>10. CASE id = NoId
  <2>1. v = w1
    BY <1>2, <1>10, Zenon DEF wf_frlse, infiletab
  <2>2. ASSUME NEW j \in Id PROVE LetGo(v, w, j)
    BY <1>3, <1>5, <1>8, <2>1 DEF LetGo
  <2>3. CASE Id = {}
    <3>1. Told(v.kf, v.ncprq, v.usr) /\ ~v.wild
      BY <1>5, <2>1, Zenon DEF Wired
    <3>2. Lines(v.fil, v.skt, v.kf, q)
      BY <1>1, <2>3, <1>8 DEF Lines, W, FileT
    <3> QED
      BY <1>7, <2>3, <3>1, <3>2 DEF Wired, v
  <2> QED
    BY <1>7, <2>2, <2>3, LetGoWired DEF v
<1>11. CASE id # NoId
  <2>1. id \in Id /\ w.kf[id].tab
    BY <1>1, <1>11, UsersNamed
  <2>2. v = net_frlse(w1, id)
    BY <1>2, <1>5, <1>11, <2>1 DEF wf_frlse, infiletab
  <2>3. w.kf[id].cnt = 1 => \A u \in User : ~(w.usr[u].st = "open" /\ w.usr[u].id = id)
    <3>1. Known(w.fil, w.ncprq, id)
      BY DEF Known
    <3>2. Cardinality(Holders(w.usr, id)) + 1 <= w.kf[id].cnt
      BY <2>1, <3>1 DEF Good, Refs
    <3>3. IsFiniteSet(Holders(w.usr, id)) /\ Cardinality(Holders(w.usr, id)) \in Nat
      BY UsersFinite
    <3>4. w.kf[id].cnt = 1 => Holders(w.usr, id) = {}
      BY <3>2, <3>3, FS_EmptySet
    <3> QED
      BY <3>4 DEF Holders
  <2>4. LetGo(v, w, id)
    <3>1. /\ v.wild = w.wild /\ v.skt = w.skt /\ v.ncprq = w.ncprq /\ v.usr = w.usr
          /\ \A j \in Id \ {id} : v.kf[j] = w.kf[j]
          /\ v.kf[id].node = w.kf[id].node
          /\ v.kf[id].fopen = w.kf[id].fopen \/ (w.kf[id].cnt = 1 /\ ~v.kf[id].fopen)
      <4>1. Frlsed(v, w1, id)
        BY <1>9, <2>1, <2>2, FrlseNode, Zenon
      <4> QED
        BY <1>5, <4>1 DEF Frlsed
    <3>2. \A g \in File : v.fil[g].st # "null" => v.fil[g] = w.fil[g] /\ v.fil[g].id # id
      BY <1>8, <1>11
    <3> QED
      BY <2>3, <3>1, <3>2 DEF LetGo
  <2> QED
    BY <1>7, <2>1, <2>4, LetGoWired DEF v
<1> QED
  BY <1>10, <1>11

(* Gonechk *)
LEMMA GonechkWired ==
    ASSUME NEW w, NEW z, NEW d, NEW q, Good(w, z, d), Wired(w, q), NEW f \in File,
           w.fil[f].st # "null"
    PROVE  Wired(Gonechk(w, f), q) /\ Calm(Gonechk(w, f), w)
BY RlseWired, CalmSame DEF Gonechk

-----------------------------------------------------------------------------
(* The end of a socket *)

(* The file f has no read socket that lives, or is not open yet.           *)
Unready(w, f) ==
    \/ w.fil[f].x[f_rdnode] = NoSlot
    \/ w.skt[w.fil[f].x[f_rdnode]].st \notin Living
    \/ w.fil[f].st \notin {"open", "gonew"}

(* Then its open may be reported as failed.                                *)
LEMMA ReadyErr ==
    ASSUME NEW w, NEW z, NEW d, NEW q, Good(w, z, d), Wired(w, q), NEW f \in File,
           w.fil[f].st # "null", Unready(w, f)
    PROVE  LET v == kw_rdy(w, w.fil[f].id, TRUE) IN Wired(v, q) /\ Same(v, w)
<1>1. w \in W /\ w.fil[f].id \in {NoId} \cup Id
  BY GoodTypes DEF FileT
<1>2. Same(kw_rdy(w, w.fil[f].id, TRUE), w)
  BY <1>1, SameReady DEF kw_rdy
<1>3. CASE w.fil[f].id = NoId
  <2>1. kw_rdy(w, w.fil[f].id, TRUE) = w
    BY <1>3, Zenon DEF kw_rdy, wf_ready, infiletab
  <2> QED
    BY <1>2, <2>1
<1>4. ASSUME NEW id, id = w.fil[f].id, id # NoId, NEW v, v = kw_rdy(w, id, TRUE)
      PROVE  Wired(v, q)
  <2> DEFINE m == w.kf[id].node[f_rdnode]
             n == v.kf[id].node[f_rdnode]
  <2>1. id \in Id /\ w.kf[id].tab /\ Owns(w, f, id)
    <3>1. w.fil[f].id # NoId => w.fil[f].id \in Id /\ w.kf[w.fil[f].id].tab
      BY UsersNamed, Zenon
    <3> QED
      BY <1>4, <3>1, Zenon DEF Owns
  <2>2. Renoded(v, w, id, f_rdnode) /\ n.ncpiu = m.ncpiu /\ (m.st # "none" => n = m)
    BY <1>1, <1>4, <2>1, ErrorNode DEF kw_rdy
  <2>3. Line(w.fil[f], w.skt, w.kf[id], q) /\ KfOK(w.kf[id])
    BY <2>1, OwnLine, Zenon
  <2>4. f_rdnode \in Node
    BY DEF f_rdnode, Node
  <2>5. n.st # "skt" => ~n.ncpiu
    BY <2>2, <2>3, <2>4 DEF KfOK
  <2>6. ASSUME w.fil[f].x[f_rdnode] \notin {NoSlot, q},
               w.skt[w.fil[f].x[f_rdnode]].st \in Living
        PROVE  Plug(v.kf[id], w.skt[w.fil[f].x[f_rdnode]].host)
    <3>1. ~w.kf[id].fopen
      BY <2>3, <2>6 DEF Line, Unready
    <3>2. Plug(w.kf[id], w.skt[w.fil[f].x[f_rdnode]].host)
      BY <2>3, <2>6 DEF Line
    <3>3. n = m
      BY <2>2, <3>1, <3>2 DEF Plug
    <3> HIDE DEF n, m
    <3>4. m.st = "skt" /\ m.ncpiu /\ m.host = w.skt[w.fil[f].x[f_rdnode]].host
      BY <3>1, <3>2, Zenon DEF Plug, m
    <3> QED
      BY <3>3, <3>4, Zenon DEF Plug, n
  <2>7. NodeOK(w.fil[f], w.skt, v.kf[id], f_rdnode, q)
    BY <2>5, <2>6, Zenon DEF NodeOK
  <2>8. Same(v, w)
    BY <1>2, <1>4
  <2> QED
    BY <2>1, <2>2, <2>4, <2>7, <2>8, Renode, Zenon
<1> QED
  BY <1>2, <1>3, <1>4

(* A file that changes its state only, and is open if the user knows so.   *)
LEMMA FstWired ==
    ASSUME NEW w, NEW z, NEW d, NEW q, Good(w, z, d), Wired(w, q), NEW f \in File,
           w.fil[f].st # "null", NEW v, SameKernel(v, w), v.skt = w.skt,
           \A g \in File \ {f} : v.fil[g] = w.fil[g],
           v.fil[f].id = w.fil[f].id,
           v.fil[f].x[f_rdnode] \in {NoSlot, w.fil[f].x[f_rdnode]},
           w.fil[f].st \in {"open", "gonew"} => v.fil[f].st \in {"open", "gonew"}
    PROVE  Wired(v, q)
<1>1. ASSUME NEW g \in File, v.fil[g].st # "null", v.fil[g].id # NoId
      PROVE  Line(v.fil[g], v.skt, v.kf[v.fil[g].id], q)
  <2>1. CASE g = f
    <3>1. Line(w.fil[f], w.skt, w.kf[w.fil[f].id], q)
      BY <1>1, <2>1 DEF Wired, Lines
    <3>2. v.skt = w.skt /\ v.kf = w.kf
      BY DEF SameKernel
    <3> QED
      BY <2>1, <3>1, <3>2, Zenon DEF Line
  <2>2. CASE g # f
    <3>1. v.fil[g] = w.fil[g] /\ v.skt = w.skt /\ v.kf = w.kf
      BY <2>2 DEF SameKernel
    <3> QED
      BY <1>1, <3>1 DEF Wired, Lines
  <2> QED
    BY <2>1, <2>2
<1> QED
  BY <1>1 DEF Wired, SameKernel, Told, Lines

(* A socket is taken out of the list of its file.                          *)
LEMMA DropWired ==
    ASSUME NEW w, NEW p \in Slot, Good(w, NoSlot, 0), Wired(w, p), NEW f \in File,
           NEW i \in Node, At(w, p, f, i), w.skt[p].st \in Attachable,
           w.fil[f].x[i] = p, w.fil[f].st # "null", FileOK(w.fil, f),
           NEW F, F = Detach(w.fil[f], i)
    PROVE  LET v == [w EXCEPT !.fil[f] = F]
           IN  Dropped(v, w, p, f, i) /\ Wired(v, NoSlot) /\ Calm(v, w)
<1> DEFINE v == [w EXCEPT !.fil[f] = F]
<1>1. Dropped(v, w, p, f, i)
  BY DropAt, Zenon
<1>2. SameKernel(v, w)
  BY GoodTypes DEF W, SameKernel
<1> HIDE DEF v
<1>3. /\ v.skt = w.skt /\ \A g \in File \ {f} : v.fil[g] = w.fil[g]
      /\ v.fil[f].x = [w.fil[f].x EXCEPT ![i] = NoSlot]
      /\ v.fil[f].st = w.fil[f].st /\ v.fil[f].id = w.fil[f].id
  BY <1>1, Zenon DEF Dropped
<1>4. v.fil[f].x[f_rdnode] \in {NoSlot, w.fil[f].x[f_rdnode]}
      /\ (w.fil[f].x[f_rdnode] = p => v.fil[f].x[f_rdnode] = NoSlot)
  <2>1. w.fil[f].x \in [Node -> {NoSlot} \cup Slot]
    BY GoodTypes, TableTypes
  <2>2. f_rdnode \in Node
    BY DEF f_rdnode, Node
  <2>3. w.fil[f].x[f_rdnode] = p => f_rdnode = i
    <3>1. p # NoSlot
      BY NoSlotFact
    <3>2. w.fil[f].x[f_rdnode] = p => EntryOK(w.skt, w.fil, f, f_rdnode, NoSlot)
      BY <2>2, <3>1, Zenon DEF Good, Tab
    <3> QED
      BY <3>2, Zenon DEF EntryOK, At
  <2> QED
    BY <1>3, <2>1, <2>2, <2>3
<1>5. Wired(v, p)
  BY <1>2, <1>3, <1>4, FstWired
<1>6. ASSUME NEW g \in File PROVE v.fil[g].x[f_rdnode] # p
  <2>1. CASE g = f
    BY <1>4, <2>1, NoSlotFact
  <2>2. CASE g # f
    <3>1. p # NoSlot /\ f_rdnode \in Node
      BY NoSlotFact DEF f_rdnode, Node
    <3>2. w.fil[g].x[f_rdnode] = p => EntryOK(w.skt, w.fil, g, f_rdnode, NoSlot)
      BY <3>1, Zenon DEF Good, Tab
    <3> QED
      BY <1>3, <2>2, <3>2, ZenonT(60) DEF EntryOK, At
  <2> QED
    BY <2>1, <2>2
<1>7. Wired(v, NoSlot)
  BY <1>5, <1>6, WiredAside
<1>8. Calm(v, w)
  <2>1. ASSUME NEW g \in File PROVE Less(v.fil[g], w.fil[g])
    BY <1>3, <1>4 DEF Less
  <2> QED
    BY <1>3, <2>1 DEF Calm
<1> QED
  BY <1>1, <1>7, <1>8 DEF v

(* The other socket of a file is killed.                                   *)
LEMMA KillTwin ==
    ASSUME NEW w, NEW p, NEW v, Good(w, p, 1), Wired(w, NoSlot), NEW y \in Slot, y # p,
           v = KillOp(w, y)
    PROVE  /\ Good(v, p, 1) /\ Wired(v, NoSlot) /\ Calm(v, w) /\ v.fil = w.fil
           /\ v.skt[y].st \notin Fresh
<1>1. Good(KillOp(w, y), p, 1) /\ Frame(KillOp(w, y), w, y)
      /\ KillOp(w, y).skt[y].st \notin Fresh
  BY KillOpMoves
<1>2. Wired(KillOp(w, y), NoSlot) /\ Calm(KillOp(w, y), w)
  BY KillOpWired
<1> QED
  BY <1>1, <1>2, Zenon DEF Frame

(* LeaveTwin: w1 without the data socket becomes w2 and w3, in which y, if *)
(* there is such a socket, has been killed.                                *)
Twins(w3, w2, w1, f, y) ==
    /\ w1.fil[f].st \in {"dopnw", "open"}
    /\ y \in {NoSlot} \cup Slot
    /\ w2 = IF w1.fil[f].st = "dopnw" THEN kw_rdy(w1, w1.fil[f].id, TRUE) ELSE w1
    /\ w3 = IF y # NoSlot THEN KillOp(w2, y) ELSE w2

TwinGone(w3, w1, p, y) ==
    /\ Good(w3, p, 1) /\ Wired(w3, NoSlot) /\ Calm(w3, w1) /\ w3.fil = w1.fil
    /\ y # NoSlot => w3.skt[y].st \notin Fresh

(* The socket that is left goes the way of its twin, the files as before.  *)
LEMMA TwinWired ==
    ASSUME NEW w1, NEW p \in Slot, Good(w1, p, 1), Wired(w1, NoSlot), NEW f \in File,
           NEW y, y # p, NEW w2, NEW w3, Twins(w3, w2, w1, f, y)
    PROVE  TwinGone(w3, w1, p, y)
<1>1. Good(w2, p, 1) /\ Wired(w2, NoSlot) /\ w2.fil = w1.fil /\ w2.skt = w1.skt
  <2>1. CASE w1.fil[f].st = "dopnw"
    <3>1. Unready(w1, f) /\ w1.fil[f].st # "null"
      BY <2>1 DEF Unready
    <3>2. w2 = kw_rdy(w1, w1.fil[f].id, TRUE)
      BY <2>1, Zenon DEF Twins
    <3>3. Wired(w2, NoSlot) /\ Same(w2, w1)
      BY <3>1, <3>2, ReadyErr, Zenon
    <3> QED
      BY <3>3, GoodSame, Zenon DEF Same, SameTables
  <2>2. CASE w1.fil[f].st # "dopnw"
    BY <2>2, Zenon DEF Twins
  <2> QED
    BY <2>1, <2>2
<1>2. Calm(w2, w1)
  BY <1>1, CalmSame, Zenon
<1>3. CASE y # NoSlot
  <2>1. w3 = KillOp(w2, y) /\ y \in Slot
    BY <1>3, Zenon DEF Twins
  <2>2. /\ Good(w3, p, 1) /\ Wired(w3, NoSlot) /\ Calm(w3, w2) /\ w3.fil = w2.fil
        /\ w3.skt[y].st \notin Fresh
    BY <1>1, <2>1, KillTwin, ZenonT(60)
  <2>3. Calm(w3, w1)
    BY <1>2, <2>2, CalmTrans, Zenon
  <2> QED
    BY <1>1, <2>2, <2>3, Zenon DEF TwinGone
<1>4. CASE y = NoSlot
  <2>1. w3 = w2
    BY <1>4, Zenon DEF Twins
  <2> QED
    BY <1>1, <1>2, <1>4, <2>1, Zenon DEF TwinGone
<1> QED
  BY <1>3, <1>4

(* What fi_sgone() leaves.                                                 *)
Gone(v, w) == Wired(v, NoSlot) /\ Calm(v, w)

(* fi_sgone() with file f, the socket in the place i.                      *)
LEMMA SgoneAtWired ==
    ASSUME NEW w, Good(w, NoSlot, 0), NEW p \in Slot, w.skt[p].st \in Attachable, Wired(w, p),
           NEW f \in File, NEW i \in Node, At(w, p, f, i),
           w.fil[f].x[i] = p, w.fil[f].st # "null", FileOK(w.fil, f)
    PROVE  Gone(fi_sgone(w, p), w)
<1> DEFINE s == w.fil[f].st
           F == Detach(w.fil[f], i)
           w1 == [w EXCEPT !.fil[f] = F]
<1>0. F = Detach(w.fil[f], i)
  OBVIOUS
<1>1. /\ f \in File /\ i \in Node /\ s # "null" /\ w.fil[f] \in FileT
      /\ p # NoSlot
  BY NoSlotFact, GoodTypes, Zenon
<1> HIDE DEF F
<1>2. Dropped(w1, w, p, f, i) /\ Wired(w1, NoSlot) /\ Calm(w1, w)
  BY <1>0, DropWired, Zenon
<1> HIDE DEF w1
<1>3. /\ Good(w1, p, 1) /\ w1.fil[f].x = [w.fil[f].x EXCEPT ![i] = NoSlot]
      /\ w1.fil[f].st = s /\ w1.fil[f].id = w.fil[f].id /\ w1.skt = w.skt
  BY <1>2, Zenon DEF Dropped
<1>4. /\ w1.fil[f] \in FileT /\ w1.fil \in [File -> FileT] /\ FileOK(w1.fil, f)
      /\ w1.fil[f].x \in [Node -> {NoSlot} \cup Slot]
  BY <1>1, <1>3, GoodTypes, TableTypes, Zenon DEF Good, Tab
<1>5. CASE i = ksx_icp
  <2>1. CASE s \in {"uisnw", "sialw", "sirfw", "uiopw", "siopw"}
    <3>1. w1.fil[f].nsatt = 0 /\ w1.fil[f].x[f_rdnode] = NoSlot
      <4>1. w.fil[f].x[0] = NoSlot /\ w.fil[f].x[1] = NoSlot
        BY <1>1, <2>1, Zenon DEF FileOK, Early
      <4>2. \A j \in Node : w1.fil[f].x[j] = NoSlot
        <5>1. w.fil[f].x \in [Node -> {NoSlot} \cup Slot]
          BY <1>1, TableTypes
        <5>2. Node = {0, 1, 2} /\ i = 2
          BY <1>5 DEF Node, ksx_icp
        <5> QED
          BY <1>1, <1>3, <4>1, <5>1, <5>2, ZenonT(60)
      <4>3. w1.fil[f].nsatt = 0
        BY <1>1, <1>4, <4>2, NoneAttached
      <4> QED
        BY <4>2, <4>3 DEF f_rdnode, Node
    <3> DEFINE w2 == kw_rdy(w1, w.fil[f].id, TRUE)
    <3>2. Wired(w2, NoSlot) /\ Same(w2, w1)
      <4>1. Unready(w1, f) /\ w1.fil[f].st # "null"
        BY <1>1, <1>3, <3>1 DEF Unready
      <4> QED
        BY <1>2, <1>3, <4>1, ReadyErr
    <3>3. fi_sgone(w, p) = f_rlse(w2, f)
      BY <1>5, <2>1, Zenon DEF fi_sgone, At, w1, F
    <3> HIDE DEF w2
    <3>4. Good(w2, p, 1) /\ w2.fil = w1.fil /\ w2.skt = w1.skt
      BY <1>3, <3>2, GoodSame DEF Same, SameTables
    <3>5. w2.fil[f].st # "null" /\ w2.fil[f].nsatt = 0 /\ f \in File
      BY <1>1, <1>3, <3>1, <3>4
    <3>6. Wired(f_rlse(w2, f), NoSlot) /\ Calm(f_rlse(w2, f), w2)
      BY <3>2, <3>4, <3>5, RlseWired
    <3>7. Calm(w2, w1)
      BY <3>4, CalmSame, Zenon
    <3>8. Calm(f_rlse(w2, f), w)
      BY <1>2, <3>6, <3>7, CalmTrans, Zenon
    <3> QED
      BY <3>3, <3>6, <3>8, Zenon DEF Gone
  <2>2. CASE s = "gonew"
    <3>1. fi_sgone(w, p) = Gonechk(w1, f)
      BY <1>5, <2>2, ZenonT(60) DEF fi_sgone, At, w1, F
    <3>2. Wired(Gonechk(w1, f), NoSlot) /\ Calm(Gonechk(w1, f), w1)
      BY <1>1, <1>2, <1>3, GonechkWired
    <3>3. Calm(Gonechk(w1, f), w)
      BY <1>2, <3>2, CalmTrans, Zenon
    <3> QED
      BY <3>1, <3>2, <3>3 DEF Gone
  <2>3. CASE s \notin {"uisnw", "sialw", "sirfw", "uiopw", "siopw", "gonew"}
    <3>1. fi_sgone(w, p) = w1
      BY <1>5, <2>3, Zenon DEF fi_sgone, At, w1, F
    <3> QED
      BY <1>2, <3>1, Zenon DEF Gone
  <2> QED
    BY <2>1, <2>2, <2>3
<1>6. CASE i # ksx_icp
  <2>1. CASE s \in {"dopnw", "open"}
    <3> DEFINE w2 == IF s = "dopnw" THEN kw_rdy(w1, w.fil[f].id, TRUE) ELSE w1
               y == w1.fil[f].x[Other(i)]
               w3 == IF y # NoSlot THEN KillOp(w2, y) ELSE w2
               w4 == SetFst(w3, f, "gonew")
    <3>1. fi_sgone(w, p) = Gonechk(w4, f)
      <4>1. fi_sgone(w, p) = LeaveTwin(w, f, i)
        BY <1>6, <2>1, LeaveTwinIs, Zenon
      <4> QED
        BY <4>1, Zenon DEF LeaveTwin, w1, F
    <3>2. Other(i) \in Node /\ Node = {Other(i), i, ksx_icp} /\ Other(i) # i
      BY <1>1, <1>6, OtherFact, ZenonT(60)
    <3>3. y \in {NoSlot} \cup Slot /\ y # p
      <4>1. y \in {NoSlot} \cup Slot
        BY <1>4, <3>2
      <4>2. y # NoSlot => EntryOK(w1.skt, w1.fil, f, Other(i), p)
        BY <1>1, <1>3, <3>2, Zenon DEF Good, Tab
      <4> QED
        BY <1>1, <4>1, <4>2, ZenonT(60) DEF EntryOK
    <3> HIDE DEF y
    <3>4. /\ Good(w3, p, 1) /\ Wired(w3, NoSlot) /\ Calm(w3, w1) /\ w3.fil = w1.fil
          /\ (y # NoSlot => w3.skt[y].st \notin Fresh)
      <4>1. Twins(w3, w2, w1, f, y)
        BY <1>3, <2>1, <3>3 DEF Twins
      <4> HIDE DEF w2, w3
      <4>2. TwinGone(w3, w1, p, y)
        BY <1>1, <1>2, <1>3, <3>3, <4>1, TwinWired, Zenon
      <4> QED
        BY <4>2, Zenon DEF TwinGone
    <3> HIDE DEF w2, w3
    <3>5. ASSUME NEW j \in Node, w3.fil[f].x[j] # NoSlot
          PROVE  w3.skt[w3.fil[f].x[j]].st \notin Fresh
      <4>1. CASE j = i
        BY <1>1, <1>3, <1>4, <3>4, <3>5, <4>1, TableTypes, ZenonT(60)
      <4>2. CASE j = Other(i)
        BY <3>4, <3>5, <4>2, Zenon DEF y
      <4>3. CASE j = ksx_icp
        <5>1. EntryOK(w3.skt, w3.fil, f, j, p)
          BY <1>1, <3>4, <3>5, Zenon DEF Good, Tab
        <5>2. w3.fil[f].st \notin {"uiopw", "siopw"}
          BY <1>3, <2>1, <3>4, Zenon
        <5> QED
          BY <4>3, <5>1, <5>2, Zenon DEF EntryOK
      <4> QED
        BY <3>2, <4>1, <4>2, <4>3, Zenon
    <3>6. w3.fil[f].st # "null" /\ f \in File /\ Good(w3, p, 1)
      BY <1>1, <1>3, <3>4, Zenon
    <3>7. Good(w4, p, 1) /\ FileFrame(w4, w3, f) /\ w4.fil[f].st = "gonew"
      BY <3>5, <3>6, FstQuiet DEF FileState, Early
    <3>8. SameKernel(w4, w3)
      BY <3>6, GoodTypes DEF SetFst, SameKernel, W
    <3> HIDE DEF w4
    <3>9. Wired(w4, NoSlot)
      BY <3>4, <3>6, <3>7, <3>8, FstWired DEF FileFrame
    <3>10. Calm(w4, w3)
      BY <3>7 DEF Calm, Less, FileFrame
    <3>11. Wired(Gonechk(w4, f), NoSlot) /\ Calm(Gonechk(w4, f), w4)
      BY <1>1, <3>7, <3>9, GonechkWired
    <3>12. Calm(Gonechk(w4, f), w)
      BY <1>2, <3>4, <3>10, <3>11, CalmTrans, Zenon
    <3> QED
      BY <3>1, <3>11, <3>12, Zenon DEF Gone
  <2>2. CASE s = "gonew"
    <3>1. fi_sgone(w, p) = Gonechk(w1, f)
      BY <1>6, <2>2, ZenonT(60) DEF fi_sgone, At, w1, F
    <3>2. Wired(Gonechk(w1, f), NoSlot) /\ Calm(Gonechk(w1, f), w1)
      BY <1>1, <1>2, <1>3, GonechkWired
    <3>3. Calm(Gonechk(w1, f), w)
      BY <1>2, <3>2, CalmTrans, Zenon
    <3> QED
      BY <3>1, <3>2, <3>3 DEF Gone
  <2>3. CASE s \notin {"dopnw", "open", "gonew"}
    <3>1. fi_sgone(w, p) = w1
      BY <1>6, <2>3, ZenonT(60) DEF fi_sgone, At, w1, F
    <3> QED
      BY <1>2, <3>1, Zenon DEF Gone
  <2> QED
    BY <2>1, <2>2, <2>3
<1> QED
  BY <1>5, <1>6

(* free_skt(): the socket p is free.                                       *)
LEMMA FreeWired ==
    ASSUME NEW w, Good(w, NoSlot, 0), NEW p \in Slot, w.skt[p].st # "null", Wired(w, p)
    PROVE  Gone(free_skt(w, p), w) /\ free_skt(w, p).skt[p].st \notin Living
<1>1. ASSUME NEW v \in W, Gone(v, w), NEW u, u = [v EXCEPT !.nsl = @ + 1, !.skt[p] = NullSkt]
      PROVE  Gone(u, w) /\ u.skt[p].st \notin Living
  <2>1. SameKernel(u, v) /\ u.fil = v.fil /\ (\A o \in Slot \ {p} : u.skt[o] = v.skt[o])
        /\ u.skt[p] = NullSkt /\ v.fil \in [File -> FileT]
    BY <1>1 DEF W, SameKernel
  <2>2. NullSkt.st \notin Living
    BY DEF NullSkt, Living
  <2>3. Wired(u, p)
    BY <1>1, <2>1, WiredEnter, WiredSocket DEF Gone
  <2>4. Calm(u, v)
    BY <2>1, <2>2 DEF Calm, Less
  <2> QED
    BY <1>1, <2>1, <2>2, <2>3, <2>4, WiredLeave, CalmTrans DEF Gone
<1>2. CASE w.skt[p].st = "q"
  <2>1. w.skt[p].filep = NoFile
    BY <1>2, FreeQueued
  <2>2. free_skt(w, p) = [w EXCEPT !.nsl = @ + 1, !.skt[p] = NullSkt]
    BY <2>1 DEF free_skt
  <2>3. Gone(w, w) /\ w \in W
    BY <1>2, WiredLeave, CalmSame, GoodTypes DEF Gone, Living
  <2> QED
    BY <1>1, <2>2, <2>3
<1>3. CASE w.skt[p].st # "q"
  <2>1. w.skt[p].st \in Attachable
    BY <1>3, GoodTypes DEF SktT, Attachable
  <2>2. w.skt[p].filep # NoFile
    BY <2>1, FileOfIt DEF File, NoFile, Slot, NoSlot
  <2> DEFINE f == w.skt[p].filep
             i == w.skt[p].sinx
             v == fi_sgone(w, p)
  <2>3. free_skt(w, p) = [v EXCEPT !.nsl = @ + 1, !.skt[p] = NullSkt]
    BY <2>2 DEF free_skt
  <2>4. /\ f \in File /\ i \in Node /\ w.fil[f].x[i] = p /\ w.fil[f].st # "null"
        /\ FileOK(w.fil, f)
    BY <2>1, FileOfOne, Zenon
  <2>5. At(w, p, f, i)
    BY DEF At
  <2> HIDE DEF f, i
  <2>6. Gone(v, w)
    BY <2>1, <2>4, <2>5, SgoneAtWired, Zenon
  <2>7. v \in W
    BY <2>1, SgoneGood, GoodTypes
  <2> HIDE DEF v
  <2> QED
    BY <1>1, <2>3, <2>6, <2>7
<1> QED
  BY <1>2, <1>3

(* kill_skt() *)
LEMMA KillWired ==
    ASSUME NEW w, Good(w, NoSlot, 0), NEW p \in Slot, Wired(w, NoSlot)
    PROVE  Gone(kill_skt(w, p), w) /\ kill_skt(w, p).skt[p].st \notin Living
<1>1. p # NoSlot
  BY NoSlotFact
<1>2. CASE w.skt[p].st = "rfnmw"
  BY <1>2, WiredEnter, FreeWired DEF kill_skt
<1>3. CASE w.skt[p].st # "rfnmw"
  BY <1>1, <1>3, KillOpWired DEF kill_skt, Gone
<1> QED
  BY <1>2, <1>3

-----------------------------------------------------------------------------
(* The node of a socket in the kernel *)

(* Of all files only the one of p has p for a read socket.                 *)
LEMMA ReadOf ==
    ASSUME NEW w, NEW z, NEW d, Good(w, z, d), NEW p \in Slot, NEW f, NEW i, Held(w, p, f, i),
           NEW g \in File, w.fil[g].x[f_rdnode] = p
    PROVE  g = f /\ i = f_rdnode
<1>1. p # NoSlot /\ f_rdnode \in Node
  BY NoSlotFact DEF f_rdnode, Node
<1>2. EntryOK(w.skt, w.fil, g, f_rdnode, z)
  BY <1>1, Zenon DEF Good, Tab
<1>3. w.skt[p].filep = f /\ w.skt[p].sinx = i
  BY HeldOwns
<1> QED
  BY <1>2, <1>3, Zenon DEF EntryOK

(* If the socket is a read socket, the kernel knows it, of some host.      *)
Fed(w, f, i) ==
    w.fil[f].id # NoId /\ i = f_rdnode => \E h : Plug(w.kf[w.fil[f].id], h)

(* A read socket that lives is known.                                      *)
LEMMA LivingFed ==
    ASSUME NEW w, Wired(w, NoSlot), NEW p \in Slot, NEW f, NEW i, Held(w, p, f, i),
           w.skt[p].st \in Living
    PROVE  Fed(w, f, i)
<1>1. p # NoSlot /\ f \in File /\ w.fil[f].x[i] = p /\ w.fil[f].st # "null"
  BY NoSlotFact, HeldOwns
<1>2. w.fil[f].id # NoId => Line(w.fil[f], w.skt, w.kf[w.fil[f].id], NoSlot)
  BY <1>1, Zenon DEF Wired, Lines
<1> QED
  BY <1>1, <1>2, ZenonT(60) DEF Fed, Line

(* The node of p is that of a socket of his host.                          *)
LEMMA NodeWired ==
    ASSUME NEW w, NEW z, NEW d, Good(w, z, d), NEW p \in Slot, NEW f, NEW i, Held(w, p, f, i),
           Wired(w, p), NEW id, Owns(w, f, id), NEW v, Same(v, w), Renoded(v, w, id, i),
           v.kf[id].node[i].st # "skt" => ~v.kf[id].node[i].ncpiu,
           i # f_rdnode => v.kf[id].node[i].st # "err",
           i = f_rdnode => Plug(v.kf[id], w.skt[p].host)
    PROVE  Wired(v, NoSlot)
<1>1. f \in File /\ i \in Node /\ w.fil[f].x[i] = p
  BY HeldOwns
<1>2. NodeOK(w.fil[f], w.skt, v.kf[id], i, p)
  BY <1>1, Zenon DEF NodeOK
<1>3. Wired(v, p)
  BY <1>1, <1>2, Renode, Zenon
<1>4. v.fil = w.fil /\ v.skt = w.skt /\ id = w.fil[f].id
  BY Zenon DEF Same, SameTables, Owns
<1>5. CASE i = f_rdnode
  <2>1. v.fil[f].id # NoId => Plug(v.kf[v.fil[f].id], v.skt[p].host)
    BY <1>4, <1>5, Zenon
  <2>2. ASSUME NEW g \in File, v.fil[g].x[f_rdnode] = p PROVE g = f
    BY <1>4, <2>2, ReadOf
  <2> QED
    BY <1>3, <2>1, <2>2, WiredPlug, Zenon
<1>6. CASE i # f_rdnode
  <2>1. ASSUME NEW g \in File PROVE v.fil[g].x[f_rdnode] # p
    BY <1>4, <1>6, ReadOf
  <2> QED
    BY <1>3, <2>1, WiredAside, Zenon
<1> QED
  BY <1>5, <1>6

(* Nothing is to be done for a file that the kernel has forgotten.         *)
LEMMA NodeNone ==
    ASSUME NEW w, NEW z, NEW d, Good(w, z, d), NEW p \in Slot, NEW f, NEW i, Held(w, p, f, i),
           Wired(w, p), w.fil[f].id = NoId
    PROVE  Wired(w, NoSlot)
<1>1. \A g \in File : w.fil[g].x[f_rdnode] = p => g = f
  BY ReadOf, Zenon
<1> QED
  BY <1>1, WiredPlug, Zenon

(* kw_mod(): the kernel is told the host of the socket.                    *)
LEMMA ModWired ==
    ASSUME NEW w, NEW z, NEW d, Good(w, z, d), NEW p \in Slot, p # z,
           w.skt[p].st \in Attachable, NEW f, NEW i, Held(w, p, f, i), Wired(w, p),
           Fed(w, f, i)
    PROVE  Wired(kw_mod(w, p), NoSlot) /\ Same(kw_mod(w, p), w)
<1>1. /\ f \in File /\ i \in Node /\ w.fil[f].x[i] = p /\ w.skt[p].filep = f
      /\ w.skt[p].sinx = i /\ (w.fil[f].id = NoId \/ Owns(w, f, w.fil[f].id))
      /\ w.fil[f].st # "null"
  BY HeldOwns
<1>2. kw_mod(w, p) = wf_mod(w, w.fil[f].id, i, w.skt[p].host)
  BY <1>1, Zenon DEF kw_mod, FileOf
<1>3. Same(kw_mod(w, p), w)
  BY KwSame
<1>4. CASE w.fil[f].id = NoId
  <2>1. kw_mod(w, p) = w
    BY <1>2, <1>4, Zenon DEF wf_mod, infiletab
  <2> QED
    BY <1>3, <1>4, <2>1, NodeNone, Zenon
<1>5. ASSUME NEW id, w.fil[f].id = id, Owns(w, f, id)
      PROVE  Wired(kw_mod(w, p), NoSlot)
  <2> DEFINE v == kw_mod(w, p)
             h == w.skt[p].host
             m == w.kf[id].node[i]
             n == v.kf[id].node[i]
  <2>1. id \in Id /\ id # NoId /\ w.kf[id].tab /\ KfOK(w.kf[id])
    <3>1. id \in Id /\ id # NoId
      BY <1>5, Zenon DEF Owns
    <3> QED
      BY <1>1, <1>5, <3>1, UsersNamed, OwnLine, Zenon
  <2>2. h \in Int /\ w \in W
    BY FileOfIt, GoodTypes
  <2>3. m.st # "err"
    BY <1>1, <1>5, <2>1, ZenonT(60) DEF KfOK, Fed, Plug
  <2>4. Renoded(v, w, id, i) /\ Rehosted(n, m, h)
    BY <1>1, <1>2, <1>5, <2>1, <2>2, <2>3, ModNode, ZenonT(60)
  <2>5. n.st # "skt" => ~n.ncpiu
    BY <1>1, <2>1, <2>4, Zenon DEF KfOK, Rehosted
  <2>6. i # f_rdnode => n.st # "err"
    BY <2>3, <2>4, Zenon DEF Rehosted
  <2>7. ASSUME i = f_rdnode PROVE Plug(v.kf[id], h)
    <3>1. \E g : Plug(w.kf[id], g)
      BY <1>5, <2>1, <2>7, Zenon DEF Fed
    <3>2. (m.st = "skt" /\ m.ncpiu) \/ (m.st = "none" /\ w.kf[id].fopen)
      BY <2>7, <3>1, Zenon DEF Plug
    <3>3. v.kf[id].fopen = w.kf[id].fopen
      BY <2>4, Zenon DEF Renoded
    <3>4. (n.st = "skt" /\ n.ncpiu /\ n.host = h) \/ (n.st = "none" /\ v.kf[id].fopen)
      BY <2>4, <3>2, <3>3 DEF Rehosted
    <3> QED
      BY <2>7, <3>4, Zenon DEF Plug
  <2> HIDE DEF v, h, m
  <2> QED
    BY <1>3, <1>5, <2>4, <2>5, <2>6, <2>7, NodeWired, Zenon DEF v, h
<1> QED
  BY <1>1, <1>3, <1>4, <1>5, Zenon

(* kw_stup(): the kernel gets to know the socket.                          *)
LEMMA StupWired ==
    ASSUME NEW w, NEW z, NEW d, Good(w, z, d), NEW p \in Slot, p # z,
           w.skt[p].st \in Attachable, NEW f, NEW i, Held(w, p, f, i), Wired(w, p)
    PROVE  LET v == kw_stup(w, p) IN Wired(v, NoSlot) /\ Same(v, w) /\ Fed(v, f, i)
<1>1. /\ f \in File /\ i \in Node /\ w.fil[f].x[i] = p /\ w.skt[p].filep = f
      /\ w.skt[p].sinx = i /\ (w.fil[f].id = NoId \/ Owns(w, f, w.fil[f].id))
      /\ w.fil[f].st # "null"
  BY HeldOwns
<1>2. kw_stup(w, p) = wf_setup(w, w.fil[f].id, i, w.skt[p].host)
  BY <1>1, Zenon DEF kw_stup, FileOf
<1>3. Same(kw_stup(w, p), w)
  BY KwSame
<1>4. CASE w.fil[f].id = NoId
  <2>1. kw_stup(w, p) = w
    BY <1>2, <1>4, Zenon DEF wf_setup, infiletab
  <2> QED
    BY <1>3, <1>4, <2>1, NodeNone, Zenon DEF Fed
<1>5. ASSUME NEW id, w.fil[f].id = id, Owns(w, f, id)
      PROVE  Wired(kw_stup(w, p), NoSlot) /\ Fed(kw_stup(w, p), f, i)
  <2> DEFINE v == kw_stup(w, p)
             h == w.skt[p].host
             n == v.kf[id].node[i]
  <2>1. id \in Id /\ id # NoId /\ w.kf[id].tab
    <3>1. id \in Id /\ id # NoId
      BY <1>5, Zenon DEF Owns
    <3> QED
      BY <1>1, <1>5, <3>1, UsersNamed, Zenon
  <2>2. w \in W
    BY GoodTypes
  <2>3. Renoded(v, w, id, i) /\ Fitted(n, h)
    BY <1>1, <1>2, <1>5, <2>1, <2>2, SetupNode, ZenonT(60)
  <2>4. i = f_rdnode => Plug(v.kf[id], h)
    BY <2>3, Zenon DEF Fitted, Plug
  <2>5. n.st = "skt"
    BY <2>3, Zenon DEF Fitted
  <2> HIDE DEF v, h
  <2>6. Wired(v, NoSlot)
    BY <1>3, <1>5, <2>3, <2>4, <2>5, NodeWired, Zenon DEF v, h
  <2>7. v.fil = w.fil
    BY <1>3, Zenon DEF v, Same, SameTables
  <2>8. Fed(v, f, i)
    BY <1>5, <2>4, <2>7, Zenon DEF Fed
  <2> QED
    BY <2>6, <2>8, Zenon DEF v
<1> QED
  BY <1>1, <1>3, <1>4, <1>5, Zenon

-----------------------------------------------------------------------------
(* The user is told *)

(* FOPEN is set in the kernel file, and nothing else that matters here.    *)
Opened(v, w, id) ==
    /\ v.wild = w.wild /\ v.kf[id].fopen /\ v.kf[id].node = w.kf[id].node
    /\ \A j \in Id \ {id} : v.kf[j] = w.kf[j]

(* wf_ready() without an error opens the file and leaves its nodes alone.  *)
LEMMA OpenNode ==
    ASSUME NEW w \in W, NEW id \in Id, w.kf[id].tab, id # NoId
    PROVE  Opened(wf_ready(w, id, FALSE), w, id)
<1> DEFINE K == [w.kf[id] EXCEPT !.fopen = TRUE]
           a == [w EXCEPT !.kf[id].fopen = TRUE]
<1>1. w.kf[id] \in KfT
  BY KernelTypes
<1>2. K \in KfT /\ K.fopen /\ K.node = w.kf[id].node
  BY <1>1 DEF KfT
<1>3. a = [w EXCEPT !.kf[id] = K]
  BY <1>1 DEF W
<1> HIDE DEF K
<1>4. a.kf[id] = K /\ a.wild = w.wild /\ \A j \in Id \ {id} : a.kf[j] = w.kf[j]
  BY <1>3 DEF W
<1>5. a \in W
  BY <1>2, <1>3 DEF W
<1>6. wf_ready(w, id, FALSE) = Wake(a, id)
  BY Zenon DEF wf_ready, infiletab
<1> HIDE DEF a
<1>7. Wake(a, id).kf = a.kf /\ Wake(a, id).wild = a.wild
  BY <1>5, WakeKernel
<1> QED
  BY <1>2, <1>4, <1>6, <1>7 DEF Opened

(* A file that is open may be reported so.                                 *)
LEMMA ReadyOk ==
    ASSUME NEW w, NEW z, NEW d, NEW q, Good(w, z, d), Wired(w, q), NEW f \in File,
           w.fil[f].st = "open"
    PROVE  LET v == kw_rdy(w, w.fil[f].id, FALSE) IN Wired(v, q) /\ Same(v, w)
<1>1. w \in W /\ w.fil[f].id \in {NoId} \cup Id
  BY GoodTypes DEF FileT
<1>2. Same(kw_rdy(w, w.fil[f].id, FALSE), w)
  BY <1>1, SameReady DEF kw_rdy
<1>3. CASE w.fil[f].id = NoId
  <2>1. kw_rdy(w, w.fil[f].id, FALSE) = w
    BY <1>3, Zenon DEF kw_rdy, wf_ready, infiletab
  <2> QED
    BY <1>2, <2>1
<1>4. ASSUME NEW id, w.fil[f].id = id, id # NoId, NEW v, v = kw_rdy(w, id, FALSE)
      PROVE  Wired(v, q)
  <2>1. id \in Id /\ w.kf[id].tab
    BY <1>4, UsersNamed
  <2>2. Opened(v, w, id)
    BY <1>1, <1>4, <2>1, OpenNode DEF kw_rdy
  <2>3. Same(v, w)
    BY <1>2, <1>4
  <2>4. ASSUME NEW j \in Id
        PROVE  KfOK(v.kf[j]) /\ (w.kf[j].fopen => v.kf[j].fopen)
               /\ v.kf[j].node = w.kf[j].node /\ (j # id => v.kf[j] = w.kf[j])
    <3>1. v.kf[j].node = w.kf[j].node /\ (w.kf[j].fopen => v.kf[j].fopen)
          /\ (j # id => v.kf[j] = w.kf[j])
      BY <2>1, <2>2, <2>4 DEF Opened
    <3>2. KfOK(w.kf[j])
      BY <2>4, Zenon DEF Wired
    <3> QED
      BY <3>1, <3>2, Zenon DEF KfOK
  <2>5. Told(v.kf, v.ncprq, v.usr)
    <3>1. Told(w.kf, w.ncprq, w.usr) /\ SameRefs(v, w)
      BY <2>3 DEF Wired, Same
    <3>2. ASSUME NEW k \in Asked(w.ncprq)
          PROVE  w.ncprq[k].id \in Id /\ w.ncprq[k].id # id
      <4>1. w.ncprq[k].id \in Id
        BY <1>1 DEF Asked, W, InstrT
      <4>2. w.fil[f].st # "null" => w.fil[f].id # w.ncprq[k].id
        BY Zenon DEF Good, Refs
      <4> QED
        BY <1>4, <4>1, <4>2
    <3>3. ASSUME NEW u \in User, w.usr[u].st = "open" PROVE v.kf[w.usr[u].id].fopen
      <4>1. w.usr[u].id \in Id
        BY <3>3, UsersNamed
      <4> QED
        BY <2>4, <3>1, <3>3, <4>1 DEF Told
    <3> QED
      BY <2>4, <3>1, <3>2, <3>3 DEF Told, SameRefs
  <2>6. ASSUME NEW g \in File, w.fil[g].st # "null", w.fil[g].id # NoId
        PROVE  Line(w.fil[g], w.skt, v.kf[w.fil[g].id], q)
    <3>1. w.fil[g].id \in Id
      BY <2>6, UsersNamed
    <3>2. Line(w.fil[g], w.skt, w.kf[w.fil[g].id], q)
      BY <2>6 DEF Wired, Lines
    <3>3. CASE w.fil[g].id = id
      <4>1. g = f
        BY <1>4, <2>6, <3>3, UsersNamed
      <4>2. v.kf[id].node = w.kf[id].node /\ (w.kf[id].fopen => v.kf[id].fopen)
        BY <2>1, <2>4, Zenon
      <4>3. \A h : Plug(w.kf[id], h) => Plug(v.kf[id], h)
        BY <4>2, Zenon DEF Plug
      <4>4. Line(w.fil[f], w.skt, w.kf[id], q)
        BY <3>2, <3>3, <4>1
      <4>5. Line(w.fil[f], w.skt, v.kf[id], q)
        BY <4>3, <4>4, Zenon DEF Line
      <4> QED
        BY <3>3, <4>1, <4>5
    <3>4. CASE w.fil[g].id # id
      <4>1. v.kf[w.fil[g].id] = w.kf[w.fil[g].id]
        BY <2>4, <3>1, <3>4
      <4> QED
        BY <3>2, <4>1
    <3> QED
      BY <3>3, <3>4
  <2>7. Lines(v.fil, v.skt, v.kf, q)
    BY <2>3, <2>6 DEF Lines, Same, SameTables
  <2>8. ~v.wild
    BY <2>2 DEF Opened, Wired
  <2> QED
    BY <2>4, <2>5, <2>7, <2>8 DEF Wired
<1> QED
  BY <1>2, <1>3, <1>4

(* Nor is it wrong to report the failure of an open that has no file.      *)
LEMMA ReadyOrphan ==
    ASSUME NEW w, NEW z, NEW d, NEW q, Good(w, z, d), Wired(w, q), NEW id \in Id,
           \A f \in File : w.fil[f].st # "null" => w.fil[f].id # id
    PROVE  LET v == kw_rdy(w, id, TRUE) IN Wired(v, q) /\ Same(v, w)
<1> DEFINE v == kw_rdy(w, id, TRUE)
<1>1. w \in W /\ id \in {NoId} \cup Id
  BY GoodTypes
<1>2. Same(v, w)
  BY <1>1, SameReady DEF kw_rdy
<1>3. CASE ~infiletab(w, id)
  <2>1. v = w
    BY <1>3, Zenon DEF kw_rdy, wf_ready
  <2> QED
    BY <1>2, <2>1
<1>4. CASE infiletab(w, id)
  <2> DEFINE m == w.kf[id].node[f_rdnode]
             n == v.kf[id].node[f_rdnode]
  <2>1. Renoded(v, w, id, f_rdnode) /\ n.ncpiu = m.ncpiu /\ (m.st # "none" => n = m)
    BY <1>1, <1>4, ErrorNode DEF kw_rdy, infiletab
  <2> HIDE DEF v
  <2>2. KfOK(w.kf[id]) /\ f_rdnode \in Node
    BY DEF Wired, f_rdnode, Node
  <2>3. KfOK(v.kf[id])
    <3>1. n.st # "skt" => ~n.ncpiu
      BY <2>1, <2>2 DEF KfOK
    <3>2. \A j \in Node \ {f_rdnode} : v.kf[id].node[j] = w.kf[id].node[j]
      BY <2>1, Zenon DEF Renoded
    <3> HIDE DEF n, m
    <3>3. ASSUME NEW j \in Node
          PROVE  /\ v.kf[id].node[j].st # "skt" => ~v.kf[id].node[j].ncpiu
                 /\ j # f_rdnode => v.kf[id].node[j].st # "err"
      <4>1. CASE j = f_rdnode
        BY <3>1, <4>1, Zenon DEF n
      <4>2. CASE j # f_rdnode
        <5>1. v.kf[id].node[j] = w.kf[id].node[j]
          BY <3>2, <4>2
        <5> QED
          BY <2>2, <5>1, Zenon DEF KfOK
      <4> QED
        BY <4>1, <4>2
    <3> QED
      BY <3>3, Zenon DEF KfOK
  <2>4. ~v.wild /\ (\A j \in Id \ {id} : v.kf[j] = w.kf[j]) /\ v.kf[id].fopen = w.kf[id].fopen
    BY <2>1, Zenon DEF Wired, Renoded
  <2>5. \A u \in User : w.usr[u].st # "idle" => w.usr[u].id \in Id
    BY UsersNamed, Zenon
  <2>6. \A f \in File : w.fil[f].st # "null" /\ w.fil[f].id = id =>
            Line(w.fil[f], w.skt, v.kf[id], q)
    OBVIOUS
  <2>7. Same(v, w)
    BY <1>2 DEF v
  <2>8. Wired(v, q)
    BY <1>1, <2>3, <2>4, <2>5, <2>6, <2>7, WiredKf, Zenon
  <2> QED
    BY <1>2, <2>8 DEF v
<1> QED
  BY <1>3, <1>4

-----------------------------------------------------------------------------
(* fi_sopn() *)

(* v is w, but for the state and the timer of the file f.                  *)
Stated(v, w, f, s) ==
    /\ SameKernel(v, w) /\ v.skt = w.skt
    /\ \A g \in File \ {f} : v.fil[g] = w.fil[g]
    /\ v.fil[f].st = s /\ v.fil[f].id = w.fil[f].id /\ v.fil[f].x = w.fil[f].x

(* A new state of a file, and a timer for it, change nothing else.         *)
LEMMA StateSet ==
    ASSUME NEW w \in W, NEW f \in File, NEW s, NEW b
    PROVE  /\ Stated(SetFst(w, f, s), w, f, s)
           /\ Stated([SetFst(w, f, s) EXCEPT !.fil[f].timo = b], w, f, s)
<1> DEFINE F == [w.fil[f] EXCEPT !.st = s]
           G == [F EXCEPT !.timo = b]
           v == [w EXCEPT !.fil[f] = F]
           u == [v EXCEPT !.fil[f] = G]
<1>1. w.fil[f] \in FileT
  BY DEF W
<1>2. F.st = s /\ F.id = w.fil[f].id /\ F.x = w.fil[f].x
  BY <1>1 DEF FileT
<1>3. G.st = s /\ G.id = w.fil[f].id /\ G.x = w.fil[f].x
  BY <1>1 DEF FileT
<1>4. SetFst(w, f, s) = v
  BY DEF SetFst, W
<1>5. [v EXCEPT !.fil[f].timo = b] = u
  BY DEF W
<1> HIDE DEF F, G
<1>6. SameKernel(v, w) /\ v.skt = w.skt /\ (\A g \in File \ {f} : v.fil[g] = w.fil[g])
      /\ v.fil[f] = F
  BY DEF W, SameKernel
<1>7. SameKernel(u, w) /\ u.skt = w.skt /\ (\A g \in File \ {f} : u.fil[g] = w.fil[g])
      /\ u.fil[f] = G
  BY DEF W, SameKernel
<1> HIDE DEF v, u
<1>8. Stated(v, w, f, s)
  BY <1>2, <1>6, Zenon DEF Stated
<1>9. Stated(u, w, f, s)
  BY <1>3, <1>7, Zenon DEF Stated
<1> QED
  BY <1>4, <1>5, <1>8, <1>9, Zenon

(* A file that is open stays so, or goes.                                  *)
LEMMA StateWired ==
    ASSUME NEW w, NEW z, NEW d, NEW q, Good(w, z, d), Wired(w, q), NEW f \in File,
           w.fil[f].st # "null", NEW s, NEW v, Stated(v, w, f, s),
           w.fil[f].st \in {"open", "gonew"} => s \in {"open", "gonew"}
    PROVE  Wired(v, q)
BY FstWired, Zenon DEF Stated

(* The file of an open socket.                                             *)
LEMMA OpenHeld ==
    ASSUME NEW w, NEW z, NEW d, Good(w, z, d), NEW p \in Slot, p # z,
           w.skt[p].st \in Attachable, NEW f, f = w.skt[p].filep, NEW i, i = w.skt[p].sinx
    PROVE  Held(w, p, f, i)
<1>1. f \in File /\ i \in Node /\ w.fil[f].x[i] = p
      /\ w.fil[f].id \in {NoId} \cup Id /\ w.fil[f].st # "null"
  BY FileOfIt
<1>2. At(w, p, f, i)
  BY Zenon DEF At
<1> QED
  BY <1>1, <1>2, Zenon DEF Held

(* The user may be told that the file is open: no socket of his waits.     *)
LEMMA SopnReady ==
    ASSUME NEW w, Good(w, NoSlot, 0), NEW w2, Same(w2, w), Wired(w2, NoSlot), NEW f \in File,
           w.fil[f].st = "dopnw",
           \A j \in Node : w.fil[f].x[j] # NoSlot => w.skt[w.fil[f].x[j]].st \notin Fresh
    PROVE  Wired(kw_rdy([SetFst(w2, f, "open") EXCEPT !.fil[f].timo = FALSE],
                        w.fil[f].id, FALSE), NoSlot)
<1> DEFINE v == [SetFst(w2, f, "open") EXCEPT !.fil[f].timo = FALSE]
<1>1. Good(w2, NoSlot, 0) /\ w2.fil = w.fil /\ w2.skt = w.skt /\ w2 \in W
  BY GoodSame, Zenon DEF Same, SameTables
<1>2. "open" \in FileState \ {"null"} /\ "open" \notin {"siopw", "sialw", "sirfw"}
      /\ FALSE \in BOOLEAN /\ "open" \notin Early
  BY DEF FileState, Early
<1>3. w2.fil[f].st # "null"
      /\ \A j \in Node : w2.fil[f].x[j] # NoSlot => w2.skt[w2.fil[f].x[j]].st \notin Fresh
  BY <1>1, Zenon
<1>4. Good(v, NoSlot, 0)
  BY <1>1, <1>2, <1>3, FstTimoQuiet, ZenonT(60)
<1>5. Stated(v, w2, f, "open")
  BY <1>1, StateSet, Zenon
<1> HIDE DEF v
<1>6. Wired(v, NoSlot)
  BY <1>1, <1>3, <1>5, StateWired
<1>7. v.fil[f].st = "open" /\ v.fil[f].id = w.fil[f].id
  BY <1>1, <1>5, Zenon DEF Stated
<1>8. Wired(kw_rdy(v, w.fil[f].id, FALSE), NoSlot)
  BY <1>4, <1>6, <1>7, ReadyOk
<1> QED
  BY <1>8 DEF v

(* fi_sopn() leaves the kernel right if it knew the socket.                *)
LEMMA SopnWired ==
    ASSUME NEW w, Good(w, NoSlot, 0), NEW p \in Slot, w.skt[p].st = "open",
           NEW f, f = w.skt[p].filep, NEW i, i = w.skt[p].sinx,
           w.fil[f].st \in (IF i = ksx_icp THEN {"uiopw", "siopw"} ELSE {"dopnw"}),
           Wired(w, p), Fed(w, f, i)
    PROVE  Wired(fi_sopn(w, p), NoSlot)
<1> DEFINE s == w.fil[f].st
           other == w.fil[f].x[Other(i)]
           w1 == kw_mod(w, p)
           w2 == IF Odd(w.skt[p].lskt) THEN w1 ELSE hw(w1, "all", p)
           h1 == hw(w1, "all", p)
<1>0. p # NoSlot /\ w.skt[p].st \in Attachable /\ w.skt[p].st \notin Fresh
  BY DEF Slot, NoSlot, Attachable, SktState, Fresh
<1>1. Held(w, p, f, i)
  BY <1>0, OpenHeld
<1>2. f \in File /\ i \in Node /\ w.fil[f].x[i] = p /\ s # "null"
  BY <1>1, HeldOwns
<1>3. Wired(w1, NoSlot) /\ Same(w1, w)
  BY <1>0, <1>1, ModWired
<1> HIDE DEF w1
<1>4. Good(w1, NoSlot, 0) /\ w1.fil = w.fil /\ w1 \in W
  BY <1>3, GoodSame DEF Same, SameTables
<1>5. Wired(h1, NoSlot) /\ Same(h1, w1)
  BY <1>3, <1>4, HwWired
<1>6. Same(h1, w)
  BY <1>3, <1>5, SameTrans
<1>7. Wired(w2, NoSlot) /\ Same(w2, w)
  BY <1>3, <1>5, <1>6
<1> HIDE DEF w2, h1
<1>8. CASE i = ksx_icp
  <2>1. CASE s = "uiopw"
    <3>1. fi_sopn(w, p) = SetFst(h1, f, "uisnw")
      BY <1>8, <2>1, SMTT(60) DEF fi_sopn, h1, w1
    <3>2. Good(h1, NoSlot, 0) /\ h1.fil = w.fil /\ h1 \in W
      BY <1>6, GoodSame DEF Same, SameTables
    <3>3. Stated(SetFst(h1, f, "uisnw"), h1, f, "uisnw")
      BY <1>2, <3>2, StateSet
    <3>4. h1.fil[f].st = "uiopw"
      BY <2>1, <3>2
    <3>5. Wired(SetFst(h1, f, "uisnw"), NoSlot)
      BY <1>2, <1>5, <3>2, <3>3, <3>4, StateWired
    <3> QED
      BY <3>1, <3>5
  <2>2. CASE s = "siopw"
    <3> DEFINE v == [SetFst(w1, f, "sialw") EXCEPT !.fil[f].timo = TRUE]
    <3>1. fi_sopn(w, p) = v
      BY <1>8, <2>2 DEF fi_sopn, w1
    <3>2. Stated(v, w1, f, "sialw")
      BY <1>2, <1>4, StateSet
    <3> HIDE DEF v
    <3>3. w1.fil[f].st = "siopw"
      BY <1>4, <2>2
    <3>4. Wired(v, NoSlot)
      BY <1>2, <1>3, <1>4, <3>2, <3>3, StateWired
    <3> QED
      BY <3>1, <3>4
  <2> QED
    BY <1>8, <2>1, <2>2
<1>9. CASE i # ksx_icp
  <2>1. s = "dopnw"
    BY <1>9
  <2>2. CASE w.fil[f].nsatt = w.fil[f].nsrsrv /\ (other = NoSlot \/ w.skt[other].st = "open")
    <3> DEFINE v == [SetFst(w2, f, "open") EXCEPT !.fil[f].timo = FALSE]
    <3>1. fi_sopn(w, p) = kw_rdy(v, w.fil[f].id, FALSE)
      BY <1>9, <2>1, <2>2, ZenonT(60) DEF fi_sopn, w1, w2
    <3>2. \A j \in Node : w.fil[f].x[j] # NoSlot => w.skt[w.fil[f].x[j]].st \notin Fresh
      <4>1. Node = {i, Other(i), ksx_icp}
        BY <1>2, <1>9, OtherFact, Zenon
      <4>2. w.fil[f].x[ksx_icp] # NoSlot => EntryOK(w.skt, w.fil, f, ksx_icp, NoSlot)
        BY <1>2, <4>1, ZenonT(60) DEF Good, Tab
      <4>3. w.fil[f].x[ksx_icp] # NoSlot => w.skt[w.fil[f].x[ksx_icp]].st \notin Fresh
        BY <2>1, <4>2, Zenon DEF EntryOK
      <4>4. w.fil[f].x[Other(i)] # NoSlot => w.skt[w.fil[f].x[Other(i)]].st \notin Fresh
        BY <2>2, Zenon DEF Fresh
      <4> QED
        BY <1>0, <1>2, <4>1, <4>3, <4>4, ZenonT(60)
    <3>3. Wired(kw_rdy(v, w.fil[f].id, FALSE), NoSlot)
      BY <1>2, <1>7, <2>1, <3>2, SopnReady, Zenon
    <3> QED
      BY <3>1, <3>3, Zenon
  <2>3. CASE ~(w.fil[f].nsatt = w.fil[f].nsrsrv /\ (other = NoSlot \/ w.skt[other].st = "open"))
    <3>1. fi_sopn(w, p) = w2
      BY <1>9, <2>1, <2>3, Zenon DEF fi_sopn, w1, w2
    <3> QED
      BY <1>7, <3>1
  <2> QED
    BY <2>2, <2>3, Zenon
<1> QED
  BY <1>8, <1>9

-----------------------------------------------------------------------------
(* A socket is attached, opened or queued *)

(* att_skt(): the socket p, that may have become the read socket, is not   *)
(* known to the kernel yet.                                                *)
LEMMA JoinedWired ==
    ASSUME NEW w \in W, NEW f \in File, NEW i \in Node, NEW p \in Slot, NEW s, NEW ns, NEW h,
           Wired(w, NoSlot)
    PROVE  Wired(Joined(w, f, i, p, s, ns, h), p)
<1> DEFINE F == Attach(w.fil[f], i, p)
           v == [w EXCEPT !.skt[p] = s, !.fil[f] = F, !.nsl = ns, !.host = h]
<1>1. w.fil[f] \in FileT /\ w.fil[f].x \in [Node -> {NoSlot} \cup Slot]
  BY TableTypes DEF W
<1>2. F.st = w.fil[f].st /\ F.id = w.fil[f].id /\ F.x = [w.fil[f].x EXCEPT ![i] = p]
  BY <1>1, AttachTypes
<1>3. F.x[f_rdnode] \in {w.fil[f].x[f_rdnode], p}
  BY <1>1, <1>2 DEF Node, f_rdnode
<1> HIDE DEF F
<1>4. /\ SameKernel(v, w) /\ v.fil[f] = F
      /\ \A g \in File \ {f} : v.fil[g] = w.fil[g]
      /\ \A o \in Slot \ {p} : v.skt[o] = w.skt[o]
  BY DEF SameKernel, W
<1> HIDE DEF v
<1>5. ASSUME NEW g \in File, v.fil[g].st # "null", v.fil[g].id # NoId
      PROVE  Line(v.fil[g], v.skt, v.kf[v.fil[g].id], p)
  <2>1. v.fil[g].st = w.fil[g].st /\ v.fil[g].id = w.fil[g].id
        /\ v.fil[g].x[f_rdnode] \in {w.fil[g].x[f_rdnode], p}
    BY <1>2, <1>3, <1>4
  <2>2. Line(w.fil[g], w.skt, w.kf[w.fil[g].id], NoSlot)
    BY <1>5, <2>1 DEF Wired, Lines
  <2>3. w.fil[g].x[f_rdnode] \in {NoSlot} \cup Slot
    BY TableTypes DEF W, Node, f_rdnode
  <2>4. v.kf = w.kf
    BY <1>4 DEF SameKernel
  <2> QED
    BY <1>4, <2>1, <2>2, <2>3, <2>4 DEF Line
<1>6. Wired(v, p)
  BY <1>4, <1>5 DEF Wired, SameKernel, Told, Lines
<1> QED
  BY <1>6 DEF v, F, Joined

(* lsint_q() *)
LEMMA LsintWired ==
    ASSUME NEW w, Good(w, NoSlot, 0), NEW r, NEW f \in File, f = r.filep,
           NEW i \in Node, i = r.sinx, Ready(w, f, i),
           NEW p \in Slot, w.skt[p].st = "q", i = ksx_rcv => ~Odd(w.skt[p].lskt),
           Wired(w, NoSlot)
    PROVE  Wired(lsint_q(w, r, p), NoSlot)
<1> DEFINE a == Parked(w, f, i, p)
           b == kw_stup(a, p)
           c == hw(b, "rfc", p)
<1>1. lsint_q(w, r, p) = fi_sopn(c, p)
  BY LsintIs
<1>2. Good(a, NoSlot, 0) /\ Attached(a, w, f, i, p)
      /\ a.skt[p].st = "open" /\ a.skt[p].filep = f /\ a.skt[p].sinx = i
  BY LsintIs
<1>3. Wired(a, p)
  BY GoodTypes, JoinedWired DEF Parked
<1> HIDE DEF a
<1>4. a.skt[p].st \in Attachable /\ p # NoSlot
  BY <1>2, NoSlotFact DEF Attachable, SktState
<1>5. Held(a, p, f, i)
  BY <1>2, <1>4, OpenHeld
<1>6. Wired(b, NoSlot) /\ Same(b, a) /\ Fed(b, f, i)
  BY <1>2, <1>3, <1>4, <1>5, StupWired
<1> HIDE DEF b
<1>7. Good(b, NoSlot, 0) /\ b \in W
  BY <1>2, <1>6, GoodSame DEF Same
<1>8. Wired(c, NoSlot) /\ Same(c, b) /\ c.kf = b.kf
  BY <1>6, <1>7, HwWired, StKernel DEF KSame
<1> HIDE DEF c
<1>9. Same(c, a) /\ c.fil = a.fil /\ c.skt = a.skt /\ b.fil = a.fil
  BY <1>6, <1>8, SameTrans DEF Same, SameTables
<1>10. Good(c, NoSlot, 0) /\ Wired(c, p) /\ Fed(c, f, i)
  BY <1>2, <1>6, <1>8, <1>9, GoodSame, WiredEnter DEF Fed
<1>11. c.fil[f].st \in (IF i = ksx_icp THEN {"uiopw", "siopw"} ELSE {"dopnw"})
  BY <1>2, <1>9 DEF Attached, Ready
<1>12. c.skt[p].st = "open" /\ f = c.skt[p].filep /\ i = c.skt[p].sinx
  BY <1>2, <1>9
<1> QED
  BY <1>1, <1>10, <1>11, <1>12, SopnWired

(* so_unm() of a listen or an init *)
LEMMA UnmWired ==
    ASSUME NEW w, Good(w, NoSlot, 0), NEW r, r.op \in {"glsn", "slsn", "init"},
           NEW f \in File, f = r.filep, NEW i \in Node, i = r.sinx, Ready(w, f, i),
           r.lskt \in Int, r.fskt \in Int, r.host \in Int, i = ksx_rcv => ~Odd(r.lskt),
           Wired(w, NoSlot)
    PROVE  Wired(so_unm(w, r), NoSlot)
<1>1. CASE FreeSlots(w) = {}
  BY <1>1 DEF so_unm
<1>2. CASE FreeSlots(w) # {}
  <2> DEFINE p == Min(FreeSlots(w))
             a == Taken(w, r, f, i, p)
             b == kw_stup(a, p)
  <2>1. so_unm(w, r) = b \/ so_unm(w, r) = hw(b, "rfc", p)
    BY <1>2, UnmIs
  <2>2. p \in Slot /\ Good(a, NoSlot, 0) /\ Attached(a, w, f, i, p)
        /\ a.skt[p].st \in Attachable /\ a.skt[p].filep = f /\ a.skt[p].sinx = i
    BY <1>2, UnmIs
  <2> HIDE DEF p
  <2>3. Wired(a, p)
    BY <2>2, GoodTypes, JoinedWired DEF Taken
  <2> HIDE DEF a
  <2>4. p # NoSlot
    BY <2>2, NoSlotFact
  <2>5. Held(a, p, f, i)
    BY <2>2, <2>4, OpenHeld
  <2>6. Wired(b, NoSlot) /\ Same(b, a)
    BY <2>2, <2>3, <2>4, <2>5, StupWired
  <2> HIDE DEF b
  <2>7. Good(b, NoSlot, 0)
    BY <2>2, <2>6, GoodSame
  <2>8. Wired(hw(b, "rfc", p), NoSlot)
    BY <2>2, <2>6, <2>7, HwWired
  <2> QED
    BY <2>1, <2>6, <2>8
<1> QED
  BY <1>1, <1>2

(* get_skt() of a listen or an init *)
LEMMA GetWired ==
    ASSUME NEW w, Good(w, NoSlot, 0), NEW r, r.op \in {"glsn", "slsn", "init"},
           NEW f \in File, f = r.filep, NEW i \in Node, i = r.sinx, Ready(w, f, i),
           r.lskt \in Int, r.fskt \in Int, r.host \in Int, i = ksx_rcv => ~Odd(r.lskt),
           Wired(w, NoSlot)
    PROVE  Wired(get_skt(w, r), NoSlot)
<1> DEFINE M == {p \in Slot : w.skt[p].st # "null" /\ Matches(r, w.skt[p])}
<1>1. CASE M = {}
  <2>1. get_skt(w, r) = so_unm(w, r)
    BY <1>1 DEF get_skt
  <2> QED
    BY <2>1, UnmWired
<1>2. CASE M # {}
  <2>1. get_skt(w, r) = lsint_q(w, r, Min(M))
    BY <1>2 DEF get_skt
  <2>2. Min(M) \in Slot /\ Matches(r, w.skt[Min(M)])
    BY <1>2, FirstMatch
  <2> DEFINE p == Min(M)
  <2> HIDE DEF M, p
  <2>3. w.skt[p].st = "q" /\ w.skt[p].lskt = r.lskt
    BY <2>2 DEF Matches, p
  <2>4. Wired(lsint_q(w, r, p), NoSlot)
    BY <2>2, <2>3, LsintWired DEF p
  <2> QED
    BY <2>1, <2>4 DEF p
<1> QED
  BY <1>1, <1>2

(* sm_splx() *)
LEMMA SplxWired ==
    ASSUME NEW w, Good(w, NoSlot, 0), NEW f \in File, NEW i \in Node, Ready(w, f, i),
           NEW lskt \in Int, NEW fskt \in Int, NEW op \in {"glsn", "slsn", "init"},
           i = ksx_rcv => ~Odd(lskt), Wired(w, NoSlot)
    PROVE  Wired(sm_splx(w, f, lskt, fskt, i, op), NoSlot)
<1> DEFINE r == [op |-> op, lskt |-> lskt, fskt |-> fskt, host |-> w.host,
                 filep |-> f, sinx |-> i]
<1>1. /\ r.op \in {"glsn", "slsn", "init"} /\ f = r.filep /\ i = r.sinx
      /\ r.lskt \in Int /\ r.fskt \in Int /\ r.host \in Int
      /\ i = ksx_rcv => ~Odd(r.lskt)
  BY GoodTypes
<1> HIDE DEF r
<1>2. Wired(get_skt(w, r), NoSlot)
  BY <1>1, GetWired
<1> QED
  BY <1>2 DEF sm_splx, r

(* sm_dux() *)
LEMMA DuxWired ==
    ASSUME NEW w, Good(w, NoSlot, 0), NEW f \in File, TwoReady(w, f),
           NEW lskt \in Int, NEW fskt \in Int, NEW op \in {"glsn", "slsn", "init"},
           ~Odd(lskt), Wired(w, NoSlot)
    PROVE  Wired(sm_dux(w, f, lskt, fskt, op), NoSlot)
<1> DEFINE v == sm_splx(w, f, lskt + 1, fskt, ksx_xmit, op)
<1>1. Ready(w, f, ksx_xmit) /\ Good(v, NoSlot, 0) /\ Ready(v, f, ksx_rcv)
  BY DuxReady
<1>2. /\ ksx_rcv \in Node /\ ksx_xmit \in Node /\ ksx_xmit # ksx_rcv
      /\ lskt + 1 \in Int /\ fskt + 1 \in Int
  BY DEF ksx_rcv, ksx_xmit, Node
<1>3. Wired(v, NoSlot)
  BY <1>1, <1>2, SplxWired
<1> HIDE DEF v
<1>4. Wired(sm_splx(v, f, lskt, fskt + 1, ksx_rcv, op), NoSlot)
  BY <1>1, <1>2, <1>3, SplxWired
<1> QED
  BY <1>4 DEF sm_dux, v

(* The end of an ICP                                                       *)
LEMMA IcpDoneWired ==
    ASSUME NEW w, Good(w, NoSlot, 0), NEW f \in File, w.fil[f].st \in {"uisnw", "sialw", "sirfw"},
           NEW lskt \in Int, ~Odd(lskt), NEW fskt \in Int, NEW p \in Slot, Wired(w, NoSlot)
    PROVE  Wired(kill_skt(sm_dux(SetFst(w, f, "dopnw"), f, lskt, fskt, "init"), p), NoSlot)
<1> DEFINE v == SetFst(w, f, "dopnw")
           u == sm_dux(v, f, lskt, fskt, "init")
<1>1. Good(v, NoSlot, 0) /\ TwoReady(v, f)
  BY DopnGood DEF TwoReady
<1>2. Wired(v, NoSlot)
  <2>1. Stated(v, w, f, "dopnw")
    BY GoodTypes, StateSet
  <2> HIDE DEF v
  <2> QED
    BY <2>1, StateWired
<1> HIDE DEF v
<1>3. Good(u, NoSlot, 0) /\ Wired(u, NoSlot)
  BY <1>1, <1>2, DuxGood, DuxWired
<1> HIDE DEF u
<1>4. Wired(kill_skt(u, p), NoSlot)
  BY <1>3, KillWired DEF Gone
<1> QED
  BY <1>4 DEF u, v

(* fi_sktnm() *)
LEMMA SktnmWired ==
    ASSUME NEW w, Good(w, NoSlot, 0), NEW p \in Slot, w.skt[p].st = "open",
           ~Odd(w.skt[p].lskt), NEW n \in Nat, Wired(w, NoSlot)
    PROVE  Wired(fi_sktnm(w, p, n), NoSlot)
<1> DEFINE f == w.skt[p].filep
           lskt == w.skt[p].lskt + 2
<1>1. f \in File /\ w.skt[p].lskt \in Int
  BY NoSlotFact, FileOfIt DEF Attachable, SktState
<1>2. lskt \in Int /\ ~Odd(lskt)
  <2>1. \A k \in Int : ~Odd(k) => k + 2 \in Int /\ ~Odd(k + 2)
    BY OddSum
  <2> QED
    BY <1>1, <2>1, Zenon
<1>3. \/ fi_sktnm(w, p, n) = w
      \/ fi_sktnm(w, p, n) = kill_skt(w, p)
      \/ /\ w.fil[f].st = "uisnw"
         /\ fi_sktnm(w, p, n) = kill_skt(sm_dux(SetFst(w, f, "dopnw"), f, lskt, n, "init"), p)
  BY DEF fi_sktnm
<1> HIDE DEF f, lskt
<1>4. w.fil[f].st = "uisnw" =>
        Wired(kill_skt(sm_dux(SetFst(w, f, "dopnw"), f, lskt, n, "init"), p), NoSlot)
  BY <1>1, <1>2, IcpDoneWired
<1>5. Wired(kill_skt(w, p), NoSlot)
  BY KillWired DEF Gone
<1> QED
  BY <1>3, <1>4, <1>5, SMTT(60)

(* fi_rfnm() *)
LEMMA RfnmWired ==
    ASSUME NEW w, Good(w, NoSlot, 0), NEW p \in Slot, w.skt[p].st \in Attachable,
           Wired(w, NoSlot)
    PROVE  Wired(fi_rfnm(w, p), NoSlot)
<1> DEFINE f == w.skt[p].filep
           fskt == w.skt[p].fskt + 2
           base == w.fil[f].base
<1>1. f \in File /\ w.skt[p].fskt \in Int /\ FileOK(w.fil, f)
  BY NoSlotFact, FileOfIt
<1>2. fskt \in Int
  BY <1>1
<1>3. \/ fi_rfnm(w, p) = w
      \/ /\ w.fil[f].st = "sirfw"
         /\ fi_rfnm(w, p) = kill_skt(sm_dux(SetFst(w, f, "dopnw"), f, base, fskt, "init"), p)
  BY DEF fi_rfnm
<1> HIDE DEF f, fskt, base
<1>4. base \in Int /\ (w.fil[f].st = "sirfw" => ~Odd(base))
  <2>1. w.fil[f] \in FileT
    BY <1>1, GoodTypes
  <2> QED
    BY <1>1, <2>1, TableTypes DEF FileOK, base
<1>5. w.fil[f].st = "sirfw" =>
        Wired(kill_skt(sm_dux(SetFst(w, f, "dopnw"), f, base, fskt, "init"), p), NoSlot)
  BY <1>1, <1>2, <1>4, IcpDoneWired
<1> QED
  BY <1>3, <1>5, SMTT(60)

(* fi_all() *)
LEMMA AllWired ==
    ASSUME NEW w, Good(w, NoSlot, 0), NEW p \in Slot, w.skt[p].st = "open",
           Odd(w.skt[p].lskt), NEW enough \in BOOLEAN, Wired(w, NoSlot)
    PROVE  Wired(fi_all(w, p, enough), NoSlot)
<1> DEFINE f == w.skt[p].filep
           i == w.skt[p].sinx
<1>1. p # NoSlot /\ w.skt[p].st \in Attachable /\ w.skt[p].st \in Living
  BY SMTT(60) DEF Slot, NoSlot, Attachable, SktState, Living
<1>2. Held(w, p, f, i) /\ EntryOK(w.skt, w.fil, f, i, NoSlot)
  BY <1>1, OpenHeld, FileOfIt
<1> HIDE DEF f, i
<1>3. f \in File /\ i \in Node /\ w.fil[f].x[i] = p /\ w.fil[f].st # "null"
  BY <1>2, HeldOwns
<1>4. i # ksx_rcv
  BY <1>2, <1>3, ZenonT(60) DEF EntryOK
<1>5. CASE i = ksx_xmit
  <2>1. fi_all(w, p, enough) = kw_mod(w, p)
    BY <1>5 DEF fi_all, ksx_icp, ksx_rcv, ksx_xmit, i
  <2>2. Wired(w, p) /\ Fed(w, f, i)
    BY <1>1, <1>2, LivingFed, WiredEnter
  <2> QED
    BY <1>1, <1>2, <2>1, <2>2, ModWired
<1>6. CASE i = ksx_icp
  <2> DEFINE a == SetFst(w, f, "sirfw")
             b == SetSt(a, p, "orfnmw")
             c == [b EXCEPT !.ssn = b.ssn \cup {p}]
  <2>1. \/ fi_all(w, p, enough) = w
        \/ fi_all(w, p, enough) = kill_skt(w, p)
        \/ w.fil[f].st = "sialw" /\ fi_all(w, p, enough) = c
    BY <1>6 DEF fi_all, ksx_icp, ksx_rcv, ksx_xmit, f, i
  <2>2. ASSUME w.fil[f].st = "sialw" PROVE Wired(c, NoSlot)
    <3>1. w.fil[f].x[0] = NoSlot
      BY <1>3, <2>2, ZenonT(60) DEF Good, Tab, FileOK, Early
    <3>2. w \in W /\ w.fil \in [File -> FileT]
      BY GoodTypes
    <3>3. Stated(a, w, f, "sirfw")
      BY <1>3, <3>2, StateSet
    <3> HIDE DEF a
    <3>4. Wired(a, NoSlot)
      BY <1>3, <2>2, <3>3, StateWired
    <3>5. a \in W /\ (\A g \in File : a.fil[g].x = w.fil[g].x) /\ a.skt = w.skt
      <4>1. a = [w EXCEPT !.fil[f] = [@ EXCEPT !.st = "sirfw"]]
        BY <3>2 DEF a, SetFst, W
      <4>2. [w.fil[f] EXCEPT !.st = "sirfw"] \in FileT
        BY <1>3, <3>2 DEF FileT, FileState
      <4>3. a \in W
        BY <3>2, <4>1, <4>2 DEF W
      <4> QED
        BY <3>3, <4>3 DEF Stated
    <3>6. \A g \in File : a.fil[g].x[f_rdnode] # p
      <4>1. i # f_rdnode
        BY <1>6 DEF ksx_icp, f_rdnode
      <4>2. \A g \in File : w.fil[g].x[f_rdnode] # p
        BY <1>2, <4>1, ReadOf
      <4> QED
        BY <3>5, <4>2
    <3>7. /\ SameKernel(b, a) /\ b.fil = a.fil
          /\ \A o \in Slot \ {p} : b.skt[o] = a.skt[o]
      BY <3>5 DEF SetSt, SameKernel, W
    <3>8. b \in W
      <4>1. [a.skt[p] EXCEPT !.st = "orfnmw"] \in SktT
        <5>1. a.skt[p] \in SktT /\ "orfnmw" \in SktState
          BY <3>5 DEF W, SktState
        <5> HIDE DEF b, c
        <5> QED
          BY <5>1 DEF SktT
      <4> QED
        BY <3>5, <4>1 DEF SetSt, W
    <3> HIDE DEF b
    <3>9. a.fil \in [File -> FileT]
      BY <3>5 DEF W
    <3>10. Wired(b, p)
      BY <3>4, <3>7, <3>9, WiredEnter, WiredSocket
    <3>11. Wired(b, NoSlot)
      BY <3>6, <3>7, <3>10, WiredAside
    <3>12. SameKernel(c, b) /\ c.fil = b.fil /\ c.skt = b.skt
      BY <3>8 DEF SameKernel, W
    <3> HIDE DEF c
    <3> QED
      BY <3>11, <3>12, WiredSame
  <2>3. Wired(kill_skt(w, p), NoSlot)
    BY KillWired DEF Gone
  <2> HIDE DEF a, b, c
  <2> QED
    BY <2>1, <2>2, <2>3
<1> QED
  BY <1>3, <1>4, <1>5, <1>6 DEF Node, ksx_rcv, ksx_xmit, ksx_icp

-----------------------------------------------------------------------------
(* Messages from the network *)

(* rfc_glsn(), rfc_slsn(), rfc_rfcw()                                      *)
LEMMA RfcWired ==
    ASSUME NEW w, Good(w, NoSlot, 0), NEW r, r.fskt \in Int, r.host \in Int,
           NEW p \in Slot, w.skt[p].st \in Fresh, Wired(w, NoSlot)
    PROVE  Wired(RfcOp(w, r, p), NoSlot)
<1> DEFINE f == w.skt[p].filep
           i == w.skt[p].sinx
           v == Heard(w, r, p)
           b == IF w.skt[p].st = "rfcw" THEN v ELSE hw(v, "rfc", p)
<1>1. p # NoSlot /\ w.skt[p].st \in Living /\ w.skt[p].st \in Attachable
  BY LivingFact, NoSlotFact DEF Fresh, Living
<1>2. Fed(w, f, i)
  BY <1>1, OpenHeld, LivingFed
<1>3. Goes(v, w, p, "open", NoSlot, 0) /\ KSame(v, w)
  BY HeardGood DEF KSame
<1>4. RfcOp(w, r, p) = fi_sopn(b, p)
  BY RfcIs
<1>5. w.fil[f].st \in (IF i = ksx_icp THEN {"uiopw", "siopw"} ELSE {"dopnw"})
  BY FreshFile
<1> HIDE DEF v
<1>6. Good(v, NoSlot, 0) /\ v \in W /\ Wired(v, p)
  BY <1>3, WiredEnter, SocketOn, GoodTypes DEF Goes
<1>7. Wired(b, p) /\ Same(b, v) /\ b.kf = v.kf
  BY <1>6, HwWired, SameRefl, StKernel DEF KSame
<1> HIDE DEF b
<1>8. Good(b, NoSlot, 0) /\ b.skt = v.skt /\ b.fil = w.fil
  BY <1>3, <1>7, GoodSame DEF Same, SameTables, Goes, Frame
<1>9. b.skt[p].st = "open" /\ f = b.skt[p].filep /\ i = b.skt[p].sinx
  <2>1. v.skt[p].st = "open" /\ f = v.skt[p].filep /\ i = v.skt[p].sinx
    BY <1>3, Zenon DEF Goes, Frame
  <2> QED
    BY <1>8, <2>1, Zenon
<1>10. Fed(b, f, i)
  BY <1>2, <1>3, <1>7, <1>8 DEF Fed, KSame
<1> HIDE DEF f, i
<1> QED
  BY <1>4, <1>5, <1>7, <1>8, <1>9, <1>10, SopnWired

(* so_urfc()                                                               *)
LEMMA QueueWired ==
    ASSUME NEW w, Good(w, NoSlot, 0), NEW r, r.op = "rfc", Wired(w, NoSlot)
    PROVE  Wired(so_unm(w, r), NoSlot)
<1>1. CASE FreeSlots(w) = {}
  <2>1. so_unm(w, r) = w
    BY <1>1 DEF so_unm
  <2> QED
    BY <2>1
<1>2. CASE FreeSlots(w) # {}
  <2> DEFINE p == Min(FreeSlots(w))
             s == [st |-> NewState[r.op], lskt |-> r.lskt, fskt |-> r.fskt,
                   host |-> r.host, filep |-> r.filep, sinx |-> r.sinx, timo |-> FALSE]
             v == [[w EXCEPT !.skt[p] = s] EXCEPT !.nsl = @ - 1]
  <2>1. p \in Slot /\ so_unm(w, r) = v
    BY <1>2, FreeSlot DEF so_unm
  <2> HIDE DEF p
  <2>2. s.st \notin Living
    BY DEF NewState, Living
  <2> HIDE DEF s
  <2>3. w \in W /\ w.fil \in [File -> FileT]
    BY GoodTypes
  <2>4. /\ SameKernel(v, w) /\ v.fil = w.fil /\ v.skt[p] = s
        /\ \A o \in Slot \ {p} : v.skt[o] = w.skt[o]
    BY <2>1, <2>3 DEF W, SameKernel
  <2> HIDE DEF v
  <2> QED
    BY <2>1, <2>2, <2>3, <2>4, WiredEnter, WiredSocket, WiredLeave
<1> QED
  BY <1>1, <1>2

(* An RFC from the network                                                 *)
LEMMA GetRfcWired ==
    ASSUME NEW w, Good(w, NoSlot, 0), NEW r, r.op = "rfc", r.fskt \in Int, r.host \in Int,
           Wired(w, NoSlot)
    PROVE  Wired(get_skt(w, r), NoSlot)
<1> DEFINE M == {p \in Slot : w.skt[p].st # "null" /\ Matches(r, w.skt[p])}
<1>1. CASE M = {}
  <2>1. get_skt(w, r) = so_unm(w, r)
    BY <1>1 DEF get_skt
  <2> QED
    BY <2>1, QueueWired
<1>2. CASE M # {}
  <2> DEFINE p == Min(M)
  <2>1. get_skt(w, r) = RfcOp(w, r, p)
    BY <1>2 DEF get_skt
  <2>2. p \in Slot /\ Matches(r, w.skt[p])
    BY <1>2, FirstMatch
  <2> HIDE DEF p
  <2>3. w.skt[p].st \in Fresh
    BY <2>2 DEF Matches, Fresh
  <2> QED
    BY <2>1, <2>2, <2>3, RfcWired
<1> QED
  BY <1>1, <1>2

(* A socket that does not live has changed otherwise.                      *)
LEMMA QuietWired ==
    ASSUME NEW v, NEW w, NEW p \in Slot, NEW s, s \notin Living, Good(w, NoSlot, 0),
           Wired(w, NoSlot), Goes(v, w, p, s, NoSlot, 0), KSame(v, w)
    PROVE  Wired(v, NoSlot)
<1>1. Wired(w, p)
  BY WiredEnter
<1> QED
  BY <1>1, SocketDone DEF Goes

(* So do stimeout() and clean_skt() change him.                            *)
LEMMA QuietSteps ==
    ASSUME NEW w, NEW p \in Slot, w.skt[p].st \notin Living, Good(w, NoSlot, 0),
           Wired(w, NoSlot)
    PROVE  /\ Wired(stimeout(w, p), NoSlot) /\ Good(stimeout(w, p), NoSlot, 0)
           /\ stimeout(w, p).skt[p].st = w.skt[p].st
           /\ Wired(clean_skt(w, p), NoSlot)
<1> DEFINE s == w.skt[p].st
<1>1. p # NoSlot /\ w \in W
  BY NoSlotFact, GoodTypes
<1>2. /\ Goes(stimeout(w, p), w, p, s, NoSlot, 0) /\ KSame(stimeout(w, p), w)
      /\ Goes(clean_skt(w, p), w, p, s, NoSlot, 0) /\ KSame(clean_skt(w, p), w)
  BY <1>1, TimeoutMoves, CleanMoves, StKernel
<1> HIDE DEF s
<1>3. s \notin Living
  BY DEF s
<1>4. Wired(stimeout(w, p), NoSlot) /\ Wired(clean_skt(w, p), NoSlot)
  BY <1>2, <1>3, QuietWired
<1> QED
  BY <1>2, <1>4 DEF Goes, s

(* A CLS from the network meets the socket p.                              *)
LEMMA ClsWired ==
    ASSUME NEW w, Good(w, NoSlot, 0), NEW p \in Slot,
           w.skt[p].st \in {"rfcw", "q", "cacw", "clsw", "open", "orfnmw"}, Wired(w, NoSlot)
    PROVE  Wired(ClsOp(w, p), NoSlot)
<1> DEFINE s == w.skt[p].st
           k == kw_clean(w, p)
           h == hw(w, "cls", p)
<1>1. /\ {"rfcw", "open", "orfnmw"} \subseteq Living
      /\ {"clow", "c2cw", "clorfnmw"} \subseteq Attachable \ Living
      /\ "cacw" \in Attachable /\ p # NoSlot /\ w \in W
  BY NoSlotFact, GoodTypes DEF Attachable, SktState, Living
<1>2. Wired(w, p) /\ Goes(w, w, p, s, NoSlot, 0)
  BY WiredEnter, GoesRefl
<1>3. CASE s = "rfcw"
  <2> DEFINE a == hw(k, "cls", p)
             b == SetSt(a, p, "clow")
             c == stimeout(b, p)
  <2>1. ClsOp(w, p) = clean_skt(c, p)
    BY <1>3 DEF ClsOp
  <2>2. s \in Living /\ s \in Attachable
    BY <1>1, <1>3, LivingFact
  <2>3. Wired(k, p) /\ Goes(k, w, p, s, NoSlot, 0)
    BY <1>1, <1>2, <2>2, CleanWired, GoesKw
  <2> HIDE DEF k, s
  <2>4. Wired(a, p) /\ Goes(a, w, p, s, NoSlot, 0)
    BY <2>3, HwWired, GoesHw DEF Goes
  <2> HIDE DEF a
  <2>5. Wired(b, NoSlot) /\ Goes(b, a, p, "clow", NoSlot, 0)
    BY <1>1, <2>2, <2>4, SetStWired DEF Goes
  <2> HIDE DEF b
  <2>6. Good(b, NoSlot, 0) /\ b.skt[p].st \notin Living
    BY <1>1, <2>5 DEF Goes
  <2>7. Wired(c, NoSlot) /\ Good(c, NoSlot, 0) /\ c.skt[p].st \notin Living
    BY <2>5, <2>6, QuietSteps
  <2> HIDE DEF c
  <2> QED
    BY <2>1, <2>7, QuietSteps
<1>4. CASE s = "q"
  <2>1. ClsOp(w, p) = free_skt(h, p)
    BY <1>4 DEF ClsOp
  <2>2. Wired(h, p) /\ Goes(h, w, p, s, NoSlot, 0)
    BY <1>2, HwWired, GoesHw
  <2> HIDE DEF h, s
  <2> QED
    BY <1>4, <2>1, <2>2, FreeWired DEF Goes, Gone
<1>5. CASE s = "cacw"
  <2>1. ClsOp(w, p) = so_ut2(w, p)
    BY <1>5 DEF ClsOp
  <2> QED
    BY <1>1, <1>2, <1>5, <2>1, Ut2Wired
<1>6. CASE s = "clsw"
  <2>1. ClsOp(w, p) = free_skt(w, p)
    BY <1>6 DEF ClsOp
  <2> QED
    BY <1>2, <1>6, <2>1, FreeWired DEF Gone
<1>7. CASE s = "open"
  <2>1. ClsOp(w, p) = SetSt(k, p, "c2cw")
    BY <1>7 DEF ClsOp
  <2> QED
    BY <1>1, <1>7, <2>1, TellAndSet
<1>8. CASE s = "orfnmw"
  <2>1. ClsOp(w, p) = SetSt(k, p, "clorfnmw")
    BY <1>8 DEF ClsOp
  <2> QED
    BY <1>1, <1>8, <2>1, TellAndSet
<1> QED
  BY <1>3, <1>4, <1>5, <1>6, <1>7, <1>8

(* A CLS from the network                                                  *)
LEMMA GetClsWired ==
    ASSUME NEW w, Good(w, NoSlot, 0), NEW r, r.op = "cls", Wired(w, NoSlot)
    PROVE  Wired(get_skt(w, r), NoSlot)
<1> DEFINE M == {p \in Slot : w.skt[p].st # "null" /\ Matches(r, w.skt[p])}
<1>1. CASE M = {}
  <2>1. get_skt(w, r) = w
    BY <1>1 DEF get_skt, so_unm
  <2> QED
    BY <2>1
<1>2. CASE M # {}
  <2> DEFINE p == Min(M)
  <2>1. get_skt(w, r) = ClsOp(w, p)
    BY <1>2 DEF get_skt
  <2>2. p \in Slot /\ Matches(r, w.skt[p])
    BY <1>2, FirstMatch
  <2> HIDE DEF p
  <2>3. w.skt[p].st \in {"rfcw", "q", "cacw", "clsw", "open", "orfnmw"}
    BY <2>2 DEF Matches
  <2> QED
    BY <2>1, <2>2, <2>3, ClsWired
<1> QED
  BY <1>1, <1>2

(* The user closes the socket p.                                           *)
LEMMA CloseWired ==
    ASSUME NEW w, Good(w, NoSlot, 0), NEW p \in Slot, Wired(w, NoSlot)
    PROVE  Wired(CloseOp(w, p), NoSlot)
<1> DEFINE s == w.skt[p].st
           h == hw(w, "cls", p)
<1>1. /\ {"glsn", "slsn", "rfcw", "open", "orfnmw"} \subseteq Living
      /\ {"clsw", "rfnmw", "cacw", "clorfnmw"} \subseteq Attachable \ Living
      /\ p # NoSlot
  BY NoSlotFact DEF Attachable, SktState, Living
<1>2. Wired(w, p) /\ Wired(h, p) /\ Goes(h, w, p, s, NoSlot, 0) /\ Goes(w, w, p, s, NoSlot, 0)
  BY WiredEnter, HwWired, GoesRefl, GoesHw
<1>3. CASE s \in {"glsn", "slsn"}
  <2>1. CloseOp(w, p) = free_skt(kw_clean(w, p), p)
    BY <1>3 DEF CloseOp
  <2>2. s \in Living /\ s \in Attachable /\ s # "null"
    BY <1>1, <1>3, LivingFact
  <2>3. Wired(kw_clean(w, p), p) /\ Goes(kw_clean(w, p), w, p, s, NoSlot, 0)
    BY <1>1, <1>2, <2>2, CleanWired, GoesKw
  <2> HIDE DEF s
  <2> QED
    BY <2>1, <2>2, <2>3, FreeWired DEF Goes, Gone
<1>4. CASE s \in {"rfcw", "open", "orfnmw"}
  <2> DEFINE b == SetSt(kw_clean(h, p), p, "clsw")
  <2>1. CloseOp(w, p) = stimeout(b, p)
    BY <1>4 DEF CloseOp
  <2>2. Wired(b, NoSlot) /\ Goes(b, w, p, "clsw", NoSlot, 0)
    BY <1>1, <1>4, TellAndSet
  <2> HIDE DEF b
  <2> QED
    BY <1>1, <2>1, <2>2, QuietSteps DEF Goes
<1>5. CASE s = "cacw"
  <2> DEFINE b == SetSt(w, p, "clsw")
  <2>1. CloseOp(w, p) = stimeout(b, p)
    BY <1>5 DEF CloseOp
  <2>2. Wired(b, NoSlot) /\ Goes(b, w, p, "clsw", NoSlot, 0)
    BY <1>1, <1>2, <1>5, SetStWired
  <2> HIDE DEF b
  <2> QED
    BY <1>1, <2>1, <2>2, QuietSteps DEF Goes
<1>6. CASE s = "clow"
  <2>1. CloseOp(w, p) = free_skt(w, p)
    BY <1>6 DEF CloseOp
  <2> QED
    BY <1>2, <1>6, <2>1, FreeWired DEF Gone
<1>7. CASE s = "c2cw"
  <2>1. CloseOp(w, p) = free_skt(h, p)
    BY <1>7 DEF CloseOp
  <2> HIDE DEF h, s
  <2> QED
    BY <1>2, <1>7, <2>1, FreeWired DEF Goes, Gone
<1>8. CASE s = "clorfnmw"
  <2>1. CloseOp(w, p) = SetSt(h, p, "rfnmw")
    BY <1>8 DEF CloseOp
  <2> HIDE DEF h, s
  <2>2. Wired(SetSt(h, p, "rfnmw"), NoSlot)
    BY <1>1, <1>2, <1>8, SetStWired DEF Goes
  <2> QED
    BY <2>1, <2>2
<1>9. CASE s \notin {"glsn", "slsn", "rfcw", "open", "orfnmw", "cacw", "clow", "c2cw", "clorfnmw"}
  <2>1. CloseOp(w, p) = w
    BY <1>9 DEF CloseOp
  <2> QED
    BY <2>1
<1> QED
  BY <1>3, <1>4, <1>5, <1>6, <1>7, <1>8, <1>9

-----------------------------------------------------------------------------
(* A host is dead *)

(* si_dead: the socket does not live afterwards.                           *)
LEMMA DeadOpWired ==
    ASSUME NEW w, Good(w, NoSlot, 0), NEW p \in Slot, Wired(w, NoSlot)
    PROVE  Gone(DeadOp(w, p), w) /\ DeadOp(w, p).skt[p].st \notin Living
<1> DEFINE s == w.skt[p].st
<1>1. /\ {"cacw", "c2cw", "clorfnmw"} \subseteq Attachable
      /\ "clow" \notin Living /\ p # NoSlot
  BY NoSlotFact DEF Attachable, SktState, Living
<1>2. Wired(w, p)
  BY WiredEnter
<1>3. CASE s \in Living
  <2>1. DeadOp(w, p) = so_ut1(w, p)
    BY <1>3 DEF DeadOp, Living
  <2> QED
    BY <1>1, <1>3, <2>1, Ut1Wired, CalmFrame DEF Goes, Gone
<1>4. CASE s \in {"q", "clsw", "rfnmw"}
  <2>1. DeadOp(w, p) = free_skt(w, p) /\ s # "null"
    BY <1>4 DEF DeadOp
  <2> QED
    BY <1>2, <2>1, FreeWired
<1>5. CASE s \in {"cacw", "c2cw", "clorfnmw"}
  <2>1. DeadOp(w, p) = so_ut2(w, p)
    BY <1>5 DEF DeadOp
  <2> QED
    BY <1>1, <1>2, <1>5, <2>1, Ut2Wired, CalmFrame DEF Goes, Gone
<1>6. CASE s \notin Living \cup {"q", "clsw", "rfnmw", "cacw", "c2cw", "clorfnmw"}
  <2>1. DeadOp(w, p) = w
    BY <1>6 DEF DeadOp, Living
  <2> QED
    BY <1>6, <2>1, CalmSame DEF Gone
<1> QED
  BY <1>3, <1>4, <1>5, <1>6

(* The loop of h_dead() over the sockets: after it no socket of the host   *)
(* lives.                                                                  *)
NoneOf(w, S, h) == \A o \in S : ~(w.skt[o].st \in Living /\ w.skt[o].host = h)

(* One pass of the loop: the socket of a dead host no longer lives.        *)
LEMMA DeadSktWired ==
    ASSUME NEW w, Good(w, NoSlot, 0), NEW p \in Slot, Wired(w, NoSlot), NEW h,
           NoneOf(w, 1 .. p - 1, h)
    PROVE  LET v == DeadSkt(w, p, h) IN
           Good(v, NoSlot, 0) /\ Wired(v, NoSlot) /\ NoneOf(v, 1 .. p, h)
<1> DEFINE v == DeadSkt(w, p, h)
<1>1. Good(v, NoSlot, 0)
  BY DeadOpGood DEF DeadSkt
<1>2. Wired(v, NoSlot) /\ Calm(v, w) /\ ~(v.skt[p].st \in Living /\ v.skt[p].host = h)
  <2>1. CASE w.skt[p].st # "null" /\ w.skt[p].host = h
    <3>1. v = DeadOp(w, p)
      BY <2>1 DEF DeadSkt
    <3> QED
      BY <3>1, DeadOpWired DEF Gone
  <2>2. CASE ~(w.skt[p].st # "null" /\ w.skt[p].host = h)
    <3>1. v = w
      BY <2>2 DEF DeadSkt
    <3> QED
      BY <2>2, <3>1, CalmSame DEF Living
  <2> QED
    BY <2>1, <2>2
<1> HIDE DEF v
<1>3. \A o \in 1 .. p : o \in Slot /\ (o = p \/ o \in 1 .. p - 1)
  BY SktMachineAssumption DEF Slot
<1>4. NoneOf(v, 1 .. p, h)
  BY <1>2, <1>3 DEF NoneOf, Calm
<1> QED
  BY <1>1, <1>2, <1>4 DEF v

(* The whole loop of h_dead() over the sockets.                            *)
LEMMA DeadSktsWired ==
    ASSUME NEW w, Good(w, NoSlot, 0), Wired(w, NoSlot), NEW h
    PROVE  LET v == DeadSkts(w, h) IN Wired(v, NoSlot) /\ NoneOf(v, Slot, h)
<1> DEFINE Fine(v, p) == Good(v, NoSlot, 0) /\ Wired(v, NoSlot) /\ NoneOf(v, 1 .. p, h)
<1>1. PICK u : /\ u[0] = w /\ u[NSkt] = DeadSkts(w, h)
               /\ \A p \in 1 .. NSkt : u[p] = DeadSkt(u[p - 1], p, h)
  BY DeadSktsRuns
<1> DEFINE t == [p \in 0 .. NSkt |-> IF Fine(u[p], p) THEN 0 ELSE 1]
           A == {0}
<1>2. NSkt \in Nat /\ 0 \in 0 .. NSkt /\ NSkt \in 0 .. NSkt
  BY SktMachineAssumption
<1>3. Fine(u[0], 0)
  BY <1>1 DEF NoneOf
<1>4. ASSUME NEW p \in 1 .. NSkt, Fine(u[p - 1], p - 1) PROVE Fine(u[p], p)
  BY <1>1, <1>4, DeadSktWired DEF Slot
<1> HIDE DEF Fine
<1>5. t[0] \in A
  BY <1>2, <1>3
<1>6. ASSUME NEW p \in 1 .. NSkt PROVE t[p - 1] \in A => t[p] \in A
  BY <1>2, <1>4
<1>7. t[NSkt] \in A
  <2> HIDE DEF t, A
  <2> QED
    BY <1>2, <1>5, <1>6, LoopStays
<1>8. Fine(u[NSkt], NSkt)
  BY <1>2, <1>7
<1> QED
  BY <1>1, <1>8 DEF Fine, Slot

(* wf_reset() cleans a node of that host, which no living socket has.      *)
LEMMA ResetNode ==
    ASSUME NEW w, Good(w, NoSlot, 0), Wired(w, NoSlot), NEW h, NoneOf(w, Slot, h),
           NEW id \in Id, NEW i \in Node, w.kf[id].node[i].ncpiu, w.kf[id].node[i].host = h
    PROVE  LET v == iclean([w EXCEPT !.kf[id].ferr = TRUE], id, i) IN
           Wired(v, NoSlot) /\ Same(v, w) /\ Renoded(v, w, id, i)
<1> DEFINE k == [w.kf[id] EXCEPT !.ferr = TRUE]
           u == [w EXCEPT !.kf[id] = k]
           v == iclean(u, id, i)
<1>1. w \in W /\ w.kf[id] \in KfT
  BY GoodTypes, KernelTypes
<1>2. KfOK(w.kf[id]) /\ ~w.wild /\ w.kf[id].node[i].st = "skt"
  BY DEF Wired, KfOK
<1>3. k \in KfT /\ k.cnt = w.kf[id].cnt /\ k.tab = w.kf[id].tab /\ k.node = w.kf[id].node
      /\ k.fopen = w.kf[id].fopen
  BY <1>1 DEF KfT
<1>4. [w EXCEPT !.kf[id].ferr = TRUE] = u
  BY <1>1 DEF W
<1> HIDE DEF k
<1>5. /\ u.kf[id].node = w.kf[id].node /\ u.kf[id].fopen = w.kf[id].fopen /\ u.wild = w.wild
      /\ \A j \in Id \ {id} : u.kf[j] = w.kf[j]
  BY <1>1, <1>3 DEF W
<1>6. Same(u, w) /\ u \in W
  BY <1>1, <1>3, SameKf DEF Same
<1> HIDE DEF u
<1>7. Cleaned(v, u, id, i) /\ Same(v, u)
  BY <1>2, <1>5, <1>6, IcleanNode, SameIclean
<1> HIDE DEF v
<1>8. Same(v, w) /\ Renoded(v, w, id, i)
  BY <1>5, <1>6, <1>7, SameTrans DEF Cleaned, Renoded
<1>9. v.kf[id].node[i].st # "skt" => v.kf[id].node[i] = NoNode
  BY <1>2, <1>5, <1>7 DEF Cleaned
<1>10. KfOK(v.kf[id])
  BY <1>2, <1>8, <1>9 DEF KfOK, Renoded, NoNode
<1>11. ASSUME NEW f \in File, w.fil[f].st # "null", w.fil[f].id = id
       PROVE  Line(w.fil[f], w.skt, v.kf[id], NoSlot)
  <2> DEFINE p == w.fil[f].x[f_rdnode]
  <2>1. id # NoId
    BY NcpOpenAssumption
  <2>2. Line(w.fil[f], w.skt, w.kf[id], NoSlot)
    BY <1>11, <2>1, Zenon DEF Wired, Lines
  <2>3. v.kf[id].fopen = w.kf[id].fopen
    BY <1>8, Zenon DEF Renoded
  <2>4. CASE i # f_rdnode
    <3>1. v.kf[id].node[f_rdnode] = w.kf[id].node[f_rdnode]
      BY <1>8, <2>4 DEF Renoded, f_rdnode, Node
    <3> QED
      BY <2>2, <2>3, <3>1 DEF Line, Plug
  <2>5. CASE i = f_rdnode
    <3>1. p # NoSlot => p \in Slot
      <4>1. w.fil[f] \in FileT /\ f_rdnode \in Node
        BY GoodTypes DEF f_rdnode, Node
      <4> QED
        BY <4>1, TableTypes
    <3>2. p # NoSlot => w.skt[p].st \notin Living
      <4> SUFFICES ASSUME p # NoSlot, w.skt[p].st \in Living PROVE FALSE
        OBVIOUS
      <4>1. Plug(w.kf[id], w.skt[p].host)
        BY <2>2 DEF Line
      <4>2. w.skt[p].host = h
        BY <1>2, <2>5, <4>1 DEF Plug
      <4> QED
        BY <3>1, <4>2 DEF NoneOf
    <3> QED
      BY <2>2, <2>3, <3>2 DEF Line
  <2> QED
    BY <2>4, <2>5
<1>12. ~v.wild /\ \A j \in Id \ {id} : v.kf[j] = w.kf[j]
  BY <1>2, <1>8 DEF Renoded
<1>13. v.kf[id].fopen = w.kf[id].fopen
  BY <1>8 DEF Renoded
<1>14. \A x \in User : w.usr[x].st # "idle" => w.usr[x].id \in Id
  BY UsersNamed
<1>15. Wired(v, NoSlot)
  BY <1>1, <1>8, <1>10, <1>11, <1>12, <1>13, <1>14, WiredKf
<1> QED
  BY <1>4, <1>8, <1>15 DEF v

(* wf_reset() in one file of the kernel.                                   *)
LEMMA ResetFileWired ==
    ASSUME NEW w, Good(w, NoSlot, 0), Wired(w, NoSlot), NEW h, h # 0, NoneOf(w, Slot, h),
           NEW id \in Id
    PROVE  LET v == ResetFile(w, id, h) IN Wired(v, NoSlot) /\ Same(v, w)
<1> DEFINE Hit(i) == w.kf[id].node[i].ncpiu /\ h \in {0, w.kf[id].node[i].host}
           Clean(v, i) == IF Hit(i) THEN iclean([v EXCEPT !.kf[id].ferr = TRUE], id, i) ELSE v
           Kept(v, S) == /\ Wired(v, NoSlot) /\ Same(v, w)
                         /\ \A j \in S : v.kf[id].node[j] = w.kf[id].node[j]
<1>1. ASSUME NEW v, NEW S \in SUBSET Node, Kept(v, S), NEW i \in S
      PROVE  Kept(Clean(v, i), S \ {i})
  <2>1. CASE ~Hit(i)
    <3>1. Clean(v, i) = v
      BY <2>1
    <3> HIDE DEF Clean
    <3> QED
      BY <1>1, <3>1
  <2>2. CASE Hit(i)
    <3> DEFINE u == iclean([v EXCEPT !.kf[id].ferr = TRUE], id, i)
    <3>1. Clean(v, i) = u
      BY <2>2
    <3>2. v.kf[id].node[i].ncpiu /\ v.kf[id].node[i].host = h /\ i \in Node
      BY <1>1, <2>2
    <3>3. Good(v, NoSlot, 0) /\ NoneOf(v, Slot, h) /\ Wired(v, NoSlot)
      BY <1>1, GoodSame DEF Same, SameTables, NoneOf
    <3>4. Wired(u, NoSlot) /\ Same(u, v) /\ Renoded(u, v, id, i)
      BY <3>2, <3>3, ResetNode
    <3> HIDE DEF u, Clean, Hit
    <3>5. \A j \in S \ {i} : u.kf[id].node[j] = w.kf[id].node[j]
      BY <1>1, <3>4 DEF Renoded
    <3>6. Same(u, w)
      BY <1>1, <3>4, SameTrans
    <3> QED
      BY <3>1, <3>4, <3>5, <3>6
  <2> QED
    BY <2>1, <2>2
<1>2. ResetFile(w, id, h) = w \/ ResetFile(w, id, h) = Clean(Clean(Clean(w, 0), 1), 2)
  BY Zenon DEF ResetFile
<1>3. Kept(w, Node)
  BY SameRefl, GoodTypes
<1> HIDE DEF Hit, Clean, Kept
<1>4. Kept(Clean(w, 0), {1, 2})
  <2>1. 0 \in Node /\ Node \ {0} = {1, 2}
    BY DEF Node
  <2> QED
    BY <1>1, <1>3, <2>1
<1>5. Kept(Clean(Clean(w, 0), 1), {2})
  <2>1. {1, 2} \in SUBSET Node /\ {1, 2} \ {1} = {2}
    BY DEF Node
  <2> QED
    BY <1>1, <1>4, <2>1
<1>6. Kept(Clean(Clean(Clean(w, 0), 1), 2), {})
  <2>1. {2} \in SUBSET Node /\ {2} \ {2} = {}
    BY DEF Node
  <2> QED
    BY <1>1, <1>5, <2>1
<1> QED
  BY <1>2, <1>3, <1>6 DEF Kept

(* The loop of wf_reset() over the files of the kernel.                    *)
LEMMA ResetFilesWired ==
    ASSUME NEW w, Good(w, NoSlot, 0), Wired(w, NoSlot), NEW h, h # 0, NoneOf(w, Slot, h)
    PROVE  Wired(ResetFiles(w, h), NoSlot)
<1> DEFINE N == Cardinality(Id)
           A == {v \in Worlds : Wired(v, NoSlot) /\ NoneOf(v, Slot, h)}
<1>1. PICK u : /\ u[0] = w /\ u[N] = ResetFiles(w, h)
               /\ \A k \in 1 .. N : u[k] = ResetFile(u[k - 1], SetToSeq(Id)[k], h)
  BY ResetFilesRuns
<1>2. N \in Nat /\ \A k \in 1 .. N : SetToSeq(Id)[k] \in Id
  BY IdsListed
<1> HIDE DEF N
<1>3. u[0] \in A
  BY <1>1, WorldsGood
<1>4. ASSUME NEW k \in 1 .. N PROVE u[k - 1] \in A => u[k] \in A
  <2> SUFFICES ASSUME u[k - 1] \in A PROVE u[k] \in A
    OBVIOUS
  <2> DEFINE v == u[k - 1]
             id == SetToSeq(Id)[k]
  <2>1. Good(v, NoSlot, 0) /\ Wired(v, NoSlot) /\ NoneOf(v, Slot, h) /\ id \in Id
    BY <1>2, WorldsGood
  <2>2. u[k] = ResetFile(v, id, h)
    BY <1>1
  <2> HIDE DEF v, id
  <2>3. Wired(u[k], NoSlot) /\ Same(u[k], v)
    BY <2>1, <2>2, ResetFileWired
  <2>4. Good(u[k], NoSlot, 0) /\ NoneOf(u[k], Slot, h)
    BY <2>1, <2>3, GoodSame DEF Same, SameTables, NoneOf
  <2> QED
    BY <2>3, <2>4, WorldsGood
<1>5. u[N] \in A
  <2> HIDE DEF A
  <2> QED
    BY <1>2, <1>3, <1>4, LoopStays
<1> QED
  BY <1>1, <1>5

(* h_dead()                                                                *)
LEMMA HDeadWired ==
    ASSUME NEW w, Good(w, NoSlot, 0), Wired(w, NoSlot), NEW h, h # 0
    PROVE  Wired(h_dead(w, h), NoSlot)
<1> DEFINE a == DeadSkts(w, h)
           b == [a EXCEPT !.out = {}]
<1>1. Good(a, NoSlot, 0) /\ Wired(a, NoSlot) /\ NoneOf(a, Slot, h)
  BY DeadSktsGood, DeadSktsWired
<1>2. h_dead(w, h) = ResetFiles(b, h)
  BY DEF h_dead
<1> HIDE DEF a
<1>3. a \in W
  BY <1>1, GoodTypes
<1>4. /\ b \in W /\ b.skt = a.skt /\ b.fil = a.fil /\ b.nsl = a.nsl /\ b.nfl = a.nfl
      /\ b.grp = a.grp /\ b.died = a.died /\ b.ssn = a.ssn /\ b.kf = a.kf /\ b.usr = a.usr
      /\ b.ncprq = a.ncprq /\ b.wild = a.wild
  BY <1>3 DEF W
<1> HIDE DEF b
<1>5. Good(b, NoSlot, 0)
  BY <1>1, <1>4, GoodElse
<1>6. Wired(b, NoSlot)
  BY <1>1, <1>4, WiredSame DEF SameKernel
<1>7. NoneOf(b, Slot, h)
  BY <1>1, <1>4 DEF NoneOf
<1> QED
  BY <1>2, <1>5, <1>6, <1>7, ResetFilesWired

-----------------------------------------------------------------------------
(* The timer *)

(* The timer of a file is cleared.                                         *)
LEMMA TimerWired ==
    ASSUME NEW w, Good(w, NoSlot, 0), Wired(w, NoSlot), NEW f \in File
    PROVE  LET v == [w EXCEPT !.fil[f].timo = FALSE] IN
           /\ Wired(v, NoSlot) /\ v.skt = w.skt
           /\ v.fil[f].st = w.fil[f].st /\ v.fil[f].id = w.fil[f].id /\ v.fil[f].x = w.fil[f].x
<1> DEFINE F == [w.fil[f] EXCEPT !.timo = FALSE]
           v == [w EXCEPT !.fil[f] = F]
<1>1. w \in W /\ w.fil[f] \in FileT /\ w.fil \in [File -> FileT]
  BY GoodTypes
<1>2. F.st = w.fil[f].st /\ F.id = w.fil[f].id /\ F.x = w.fil[f].x
  BY <1>1 DEF FileT
<1>3. [w EXCEPT !.fil[f].timo = FALSE] = v
  BY <1>1 DEF W
<1> HIDE DEF F
<1>4. /\ v.skt = w.skt /\ SameKernel(v, w) /\ v.fil[f] = F
      /\ \A g \in File \ {f} : v.fil[g] = w.fil[g]
  BY <1>1 DEF W, SameKernel
<1> HIDE DEF v
<1>5. ASSUME NEW g \in File
      PROVE  v.fil[g].st = w.fil[g].st /\ v.fil[g].id = w.fil[g].id /\ v.fil[g].x = w.fil[g].x
  BY <1>2, <1>4
<1>6. Lines(v.fil, v.skt, v.kf, NoSlot)
  <2>1. ASSUME NEW g \in File, w.fil[g].st # "null", w.fil[g].id # NoId
        PROVE  Line(v.fil[g], v.skt, w.kf[w.fil[g].id], NoSlot)
    <3>1. Line(w.fil[g], w.skt, w.kf[w.fil[g].id], NoSlot)
      BY <2>1, Zenon DEF Wired, Lines
    <3> QED
      BY <1>4, <1>5, <3>1 DEF Line
  <2> QED
    BY <1>4, <1>5, <2>1 DEF Lines, SameKernel
<1>7. Wired(v, NoSlot)
  BY <1>4, <1>6 DEF Wired, SameKernel, Told
<1> QED
  BY <1>3, <1>4, <1>5, <1>7

(* The read socket of the file does not live.                              *)
Blank(v, f) == v.fil[f].x[f_rdnode] # NoSlot => v.skt[v.fil[f].x[f_rdnode]].st \notin Living

(* Nor does it later.                                                      *)
LEMMA BlankStays ==
    ASSUME NEW w, Good(w, NoSlot, 0), NEW v, Calm(v, w), NEW f \in File, Blank(w, f)
    PROVE  Blank(v, f)
<1>1. w.fil[f] \in FileT /\ f_rdnode \in Node
  BY GoodTypes DEF f_rdnode, Node
<1>2. w.fil[f].x[f_rdnode] \in {NoSlot} \cup Slot
  BY <1>1, TableTypes
<1> QED
  BY <1>2 DEF Blank, Calm, Less

(* One socket of the file is killed.                                       *)
LEMMA TimoKill ==
    ASSUME NEW w, Good(w, NoSlot, 0), Wired(w, NoSlot), NEW f \in File, NEW i \in Node,
           NEW p, p = w.fil[f].x[i], p # NoSlot
    PROVE  LET v == kill_skt([w EXCEPT !.host = w.skt[p].host], p) IN
           Good(v, NoSlot, 0) /\ Gone(v, w) /\ (i = f_rdnode => Blank(v, f))
<1> DEFINE a == [w EXCEPT !.host = w.skt[p].host]
           v == kill_skt(a, p)
<1>1. p \in Slot
  <2>1. w.fil[f] \in FileT
    BY GoodTypes
  <2> QED
    BY <2>1, TableTypes
<1>2. w.skt[p].host \in Int /\ w \in W
  <2>1. w.skt[p] \in SktT
    BY <1>1, GoodTypes
  <2> QED
    BY <2>1, GoodTypes DEF SktT
<1>3. Good(a, NoSlot, 0)
  BY <1>2, HostGood
<1>4. SameKernel(a, w) /\ a.fil = w.fil /\ a.skt = w.skt
  BY <1>2 DEF SameKernel, W
<1> HIDE DEF a
<1>5. Wired(a, NoSlot) /\ Calm(a, w)
  BY <1>4, WiredSame, CalmSame
<1>6. Good(v, NoSlot, 0) /\ Gone(v, a) /\ v.skt[p].st \notin Living
  BY <1>1, <1>3, <1>5, KillGood, KillWired
<1> HIDE DEF v
<1>7. Gone(v, w)
  BY <1>5, <1>6, CalmTrans, Zenon DEF Gone
<1>8. i = f_rdnode => Blank(v, f)
  <2>1. Less(v.fil[f], w.fil[f])
    BY <1>7, Zenon DEF Gone, Calm
  <2> QED
    BY <1>6, <2>1 DEF Blank, Less
<1> QED
  BY <1>6, <1>7, <1>8, Zenon DEF v, a

(* kr_timo() for a file                                                    *)
LEMMA TimoFileWired ==
    ASSUME NEW w, Good(w, NoSlot, 0), Wired(w, NoSlot), NEW f \in File
    PROVE  Wired(TimoFile(w, f), NoSlot)
<1> DEFINE Kill(v, i) == LET p == v.fil[f].x[i] IN
                IF p = NoSlot THEN v
                ELSE kill_skt([v EXCEPT !.host = v.skt[p].host], p)
           Fine(v) == Good(v, NoSlot, 0) /\ Wired(v, NoSlot)
           w1 == Kill(Kill(Kill(w, 0), 1), 2)
           u == [w1 EXCEPT !.fil[f].timo = FALSE]
<1>1. ASSUME NEW v, Fine(v), NEW i \in Node
      PROVE  Fine(Kill(v, i)) /\ Calm(Kill(v, i), v) /\ (i = f_rdnode => Blank(Kill(v, i), f))
  <2> DEFINE p == v.fil[f].x[i]
             k == kill_skt([v EXCEPT !.host = v.skt[p].host], p)
  <2>1. CASE p = NoSlot
    <3>1. Kill(v, i) = v
      BY <2>1
    <3> HIDE DEF Kill
    <3> QED
      BY <1>1, <2>1, <3>1, CalmSame DEF Blank
  <2>2. CASE p # NoSlot
    <3>1. Kill(v, i) = k
      BY <2>2
    <3>2. Good(k, NoSlot, 0) /\ Gone(k, v) /\ (i = f_rdnode => Blank(k, f))
      BY <1>1, <2>2, TimoKill
    <3> HIDE DEF Kill, k
    <3> QED
      BY <3>1, <3>2 DEF Gone
  <2> QED
    BY <2>1, <2>2
<1>2. TimoFile(w, f) = kw_rdy(u, w1.fil[f].id, TRUE)
  BY DEF TimoFile
<1>3. 0 \in Node /\ 1 \in Node /\ 2 \in Node /\ f_rdnode = 0 /\ Fine(w)
  BY DEF Node, f_rdnode
<1> HIDE DEF Kill, Fine
<1>4. Fine(Kill(w, 0)) /\ Blank(Kill(w, 0), f)
  BY <1>1, <1>3
<1>5. Fine(Kill(Kill(w, 0), 1)) /\ Blank(Kill(Kill(w, 0), 1), f)
  BY <1>1, <1>3, <1>4, BlankStays DEF Fine
<1>6. Fine(w1) /\ Blank(w1, f)
  BY <1>1, <1>3, <1>5, BlankStays DEF Fine
<1> HIDE DEF w1
<1>7. /\ Good(u, NoSlot, 0) /\ Wired(u, NoSlot) /\ u.skt = w1.skt
      /\ u.fil[f].id = w1.fil[f].id /\ u.fil[f].x = w1.fil[f].x
  BY <1>6, TimerOff, TimerWired DEF Fine
<1> HIDE DEF u
<1>8. CASE u.fil[f].st = "null"
  <2>1. u.fil[f].id = NoId
    BY <1>7, <1>8 DEF Good, Tab, FileOK
  <2>2. kw_rdy(u, NoId, TRUE) = u
    BY DEF kw_rdy, wf_ready, infiletab
  <2> QED
    BY <1>2, <1>7, <2>1, <2>2
<1>9. CASE u.fil[f].st # "null"
  <2>1. Unready(u, f)
    BY <1>6, <1>7 DEF Unready, Blank
  <2> QED
    BY <1>2, <1>7, <1>9, <2>1, ReadyErr
<1> QED
  BY <1>8, <1>9

(* kr_timo() for a socket                                                  *)
LEMMA TimoSktWired ==
    ASSUME NEW w, Good(w, NoSlot, 0), Wired(w, NoSlot), NEW p \in Slot
    PROVE  Wired(TimoSkt(w, p), NoSlot)
<1>1. CASE ~w.skt[p].timo
  <2>1. TimoSkt(w, p) = w
    BY <1>1 DEF TimoSkt
  <2> QED
    BY <2>1
<1>2. CASE w.skt[p].timo /\ w.skt[p].st = "clsw"
  <2>1. TimoSkt(w, p) = free_skt(w, p)
    BY <1>2 DEF TimoSkt
  <2> QED
    BY <1>2, <2>1, WiredEnter, FreeWired DEF Gone
<1>3. CASE w.skt[p].timo /\ w.skt[p].st # "clsw"
  <2> DEFINE r == [w.skt[p] EXCEPT !.timo = FALSE]
             v == [w EXCEPT !.skt[p] = r]
  <2>1. w.skt[p] \in SktT /\ w \in W /\ w.fil \in [File -> FileT]
    BY GoodTypes
  <2>2. r.st = w.skt[p].st /\ r.host = w.skt[p].host
    BY <2>1 DEF SktT
  <2>3. TimoSkt(w, p) = v
    BY <1>3, <2>1 DEF TimoSkt, W
  <2> HIDE DEF r
  <2>4. /\ SameKernel(v, w) /\ v.fil = w.fil /\ v.skt[p] = r
        /\ \A o \in Slot \ {p} : v.skt[o] = w.skt[o]
    BY <2>1 DEF W, SameKernel
  <2> HIDE DEF v
  <2>5. \A o \in Slot : v.skt[o].st = w.skt[o].st /\ v.skt[o].host = w.skt[o].host
    BY <2>2, <2>4
  <2>6. ASSUME NEW f \in File PROVE w.fil[f].x[f_rdnode] \in {NoSlot} \cup Slot
    <3>1. w.fil[f] \in FileT /\ f_rdnode \in Node
      BY <2>1 DEF f_rdnode, Node
    <3> QED
      BY <3>1, TableTypes
  <2>7. Lines(v.fil, v.skt, v.kf, NoSlot)
    <3>1. ASSUME NEW f \in File, w.fil[f].st # "null", w.fil[f].id # NoId
          PROVE  Line(w.fil[f], v.skt, w.kf[w.fil[f].id], NoSlot)
      <4>1. Line(w.fil[f], w.skt, w.kf[w.fil[f].id], NoSlot)
        BY <3>1, Zenon DEF Wired, Lines
      <4> QED
        BY <2>5, <2>6, <4>1 DEF Line
    <3> QED
      BY <2>4, <3>1 DEF Lines, SameKernel
  <2>8. Wired(v, NoSlot)
    BY <2>4, <2>7 DEF Wired, SameKernel, Told
  <2> QED
    BY <2>3, <2>8
<1> QED
  BY <1>1, <1>2, <1>3

(* The loops of the timer                                                  *)
LEMMA TimoFilesWired ==
    ASSUME NEW w, Good(w, NoSlot, 0), Wired(w, NoSlot), NEW F
    PROVE  Wired(TimoFiles(w, F), NoSlot)
<1> DEFINE A == {v \in Worlds : Wired(v, NoSlot)}
<1>1. PICK u : /\ u[0] = w /\ u[NFile] = TimoFiles(w, F)
               /\ \A k \in 1 .. NFile : u[k] = IF k \in F THEN TimoFile(u[k - 1], k) ELSE u[k - 1]
  BY TimoFilesRuns
<1>2. u[0] \in A /\ NFile \in Nat
  BY <1>1, WorldsGood, SktMachineAssumption
<1>3. ASSUME NEW k \in 1 .. NFile, u[k - 1] \in A PROVE u[k] \in A
  <2>1. k \in File /\ Good(u[k - 1], NoSlot, 0) /\ Wired(u[k - 1], NoSlot)
    BY <1>3, WorldsGood DEF File
  <2>2. Good(u[k], NoSlot, 0) /\ Wired(u[k], NoSlot)
    BY <1>1, <2>1, TimoFileGood, TimoFileWired
  <2> QED
    BY <2>2, WorldsGood
<1>4. u[NFile] \in A
  <2> HIDE DEF A
  <2> QED
    BY <1>2, <1>3, LoopStays
<1> QED
  BY <1>1, <1>4

(* The loop of the timer over the sockets of a set.                        *)
LEMMA TimoSktsWired ==
    ASSUME NEW w, Good(w, NoSlot, 0), Wired(w, NoSlot), NEW P
    PROVE  Wired(TimoSkts(w, P), NoSlot)
<1> DEFINE A == {v \in Worlds : Wired(v, NoSlot)}
<1>1. PICK u : /\ u[0] = w /\ u[NSkt] = TimoSkts(w, P)
               /\ \A k \in 1 .. NSkt : u[k] = IF k \in P THEN TimoSkt(u[k - 1], k) ELSE u[k - 1]
  BY TimoSktsRuns
<1>2. u[0] \in A /\ NSkt \in Nat
  BY <1>1, WorldsGood, SktMachineAssumption
<1>3. ASSUME NEW k \in 1 .. NSkt, u[k - 1] \in A PROVE u[k] \in A
  <2>1. k \in Slot /\ Good(u[k - 1], NoSlot, 0) /\ Wired(u[k - 1], NoSlot)
    BY <1>3, WorldsGood DEF Slot
  <2>2. Good(u[k], NoSlot, 0) /\ Wired(u[k], NoSlot)
    BY <1>1, <2>1, TimoSktGood, TimoSktWired
  <2> QED
    BY <2>2, WorldsGood
<1>4. u[NSkt] \in A
  <2> HIDE DEF A
  <2> QED
    BY <1>2, <1>3, LoopStays
<1> QED
  BY <1>1, <1>4

-----------------------------------------------------------------------------
(* kr_odrct() and kr_oicp() *)

(* The user has not been told of the open of the new file.                 *)
LEMMA MadeWired ==
    ASSUME NEW w, Wired(w, NoSlot), NEW v, NEW f, NEW F, NEW G, IsMade(v, w, f, F, G),
           w.fil \in [File -> FileT], ~w.kf[F.id].fopen
    PROVE  Wired(v, NoSlot)
<1>1. SameKernel(v, w) /\ v.skt = w.skt /\ f \in File
  BY DEF IsMade, SameKernel
<1>2. v.fil[f] = F /\ F.x[f_rdnode] = NoSlot /\ \A g \in File \ {f} : v.fil[g] = w.fil[g]
  BY DEF IsMade, Node, f_rdnode
<1>3. Line(F, w.skt, w.kf[F.id], NoSlot)
  BY <1>2 DEF Line
<1>4. ASSUME NEW g \in File, v.fil[g].st # "null", v.fil[g].id # NoId
      PROVE  Line(v.fil[g], v.skt, v.kf[v.fil[g].id], NoSlot)
  <2>1. CASE g = f
    BY <1>1, <1>2, <1>3, <2>1, Zenon DEF SameKernel
  <2>2. CASE g # f
    <3>1. v.fil[g] = w.fil[g]
      BY <1>2, <2>2
    <3>2. Line(w.fil[g], w.skt, w.kf[w.fil[g].id], NoSlot)
      BY <1>4, <3>1, Zenon DEF Wired, Lines
    <3> QED
      BY <1>1, <3>1, <3>2, Zenon DEF SameKernel
  <2> QED
    BY <2>1, <2>2
<1> QED
  BY <1>1, <1>4 DEF Wired, Lines, SameKernel, Told

(* No file has the id.                                                     *)
LEMMA OpeningNone ==
    ASSUME NEW w, NEW id, Opening(w, id)
    PROVE  \A f \in File : w.fil[f].st # "null" => w.fil[f].id # id
BY DEF Opening, Known

(* The group that an open takes is no matter of the kernel.                *)
LEMMA TookWired ==
    ASSUME NEW w \in W, NEW a, Took(a, w), Wired(w, NoSlot)
    PROVE  Wired(a, NoSlot) /\ a.kf = w.kf
<1>1. SameKernel(a, w) /\ a.fil = w.fil /\ a.skt = w.skt
  <2>1. CASE a = w
    BY <2>1 DEF SameKernel
  <2>2. ASSUME NEW G, a = [w EXCEPT !.grp = G]
        PROVE  SameKernel(a, w) /\ a.fil = w.fil /\ a.skt = w.skt
    BY <2>2 DEF W, SameKernel
  <2> QED
    BY <2>1, <2>2, Zenon DEF Took
<1> QED
  BY <1>1, WiredSame DEF SameKernel

(* f_make() of a new id                                                    *)
LEMMA FMakeWired ==
    ASSUME NEW w, Good(w, NoSlot, 0), NEW id \in Id, NEW n \in Int, w.nfl > 0,
           NEW st \in FileState, NEW base \in Int, NEW timo \in BOOLEAN, NEW G \in SUBSET w.grp,
           Wired(w, NoSlot), ~w.kf[id].fopen
    PROVE  Wired(Made(w, id, n, st, base, timo, G), NoSlot)
<1> DEFINE F == MadeFile(st, id, n, base, timo)
           v == Made(w, id, n, st, base, timo, G)
<1>1. IsMade(v, w, NewFile(w), F, G)
  BY MadeFields
<1>2. F.id = id
  BY MadeFileTypes
<1>3. w.fil \in [File -> FileT]
  BY GoodTypes
<1> HIDE DEF F, v
<1>4. Wired(v, NoSlot)
  BY <1>1, <1>2, <1>3, MadeWired
<1> QED
  BY <1>4 DEF v

(* kr_odrct()                                                              *)
LEMMA OdrctWired ==
    ASSUME NEW w, Good(w, NoSlot, 0), NEW id \in Id, Opening(w, id),
           NEW o \in OpenRec, o \in Opens, o.type = "drct", NEW g \in Int,
           Wired(w, NoSlot), ~w.kf[id].fopen
    PROVE  Wired(kr_odrct(w, id, o, g), NoSlot)
<1> DEFINE v == kr_odrct(w, id, o, g)
<1>1. PICK a : /\ Took(a, w) /\ Good(a, NoSlot, 0) /\ Opening(a, id)
               /\ \/ v = kw_rdy(a, id, TRUE)
                  \/ a.nfl > 0 /\ Direct(v, a, id, o.op)
  BY OdrctIs, Zenon
<1> HIDE DEF v
<1>2. w \in W
  BY GoodTypes
<1>3. Wired(a, NoSlot) /\ ~a.kf[id].fopen
  BY <1>1, <1>2, TookWired
<1>4. CASE v = kw_rdy(a, id, TRUE)
  <2>1. \A f \in File : a.fil[f].st # "null" => a.fil[f].id # id
    BY <1>1, OpeningNone
  <2>2. Wired(kw_rdy(a, id, TRUE), NoSlot)
    BY <1>1, <1>3, <2>1, ReadyOrphan
  <2> QED
    BY <1>4, <2>2, Zenon DEF v
<1>5. CASE a.nfl > 0 /\ Direct(v, a, id, o.op)
  <2> DEFINE m(n, base) == Made(a, id, n, "dopnw", base, FALSE, a.grp)
             f == NewFile(a)
  <2>1. PICK n \in {1, 2, 3}, base \in Int :
          Good(m(n, base), NoSlot, 0) /\ f \in File /\ Asks(v, m(n, base), f, o.op)
    BY <1>5, Zenon DEF Direct
  <2> DEFINE u == m(n, base)
  <2>2. Wired(u, NoSlot)
    <3>1. "dopnw" \in FileState /\ FALSE \in BOOLEAN /\ a.grp \in SUBSET a.grp /\ n \in Int
      BY DEF FileState
    <3> QED
      BY <1>1, <1>3, <1>5, <3>1, FMakeWired
  <2>3. o.op \in {"init", "slsn", "glsn"}
    BY DEF OpenRec
  <2>4. Good(u, NoSlot, 0) /\ Asks(v, u, f, o.op)
    BY <2>1
  <2> HIDE DEF u, f
  <2>5. CASE \E lskt \in Int, fskt \in Int :
                TwoReady(u, f) /\ ~Odd(lskt) /\ v = sm_dux(u, f, lskt, fskt, o.op)
    <3>1. PICK lskt \in Int, fskt \in Int :
            TwoReady(u, f) /\ ~Odd(lskt) /\ v = sm_dux(u, f, lskt, fskt, o.op)
      BY <2>5, Zenon
    <3>2. Wired(sm_dux(u, f, lskt, fskt, o.op), NoSlot)
      BY <2>1, <2>2, <2>3, <2>4, <3>1, DuxWired
    <3> QED
      BY <3>1, <3>2, Zenon DEF v
  <2>6. CASE \E lskt \in Int, fskt \in Int, i \in Node :
                /\ Ready(u, f, i) /\ (i = ksx_rcv => ~Odd(lskt))
                /\ v = sm_splx(u, f, lskt, fskt, i, o.op)
    <3>1. PICK lskt \in Int, fskt \in Int, i \in Node :
            /\ Ready(u, f, i) /\ (i = ksx_rcv => ~Odd(lskt))
            /\ v = sm_splx(u, f, lskt, fskt, i, o.op)
      BY <2>6, Zenon
    <3>2. Wired(sm_splx(u, f, lskt, fskt, i, o.op), NoSlot)
      BY <2>1, <2>2, <2>3, <2>4, <3>1, SplxWired
    <3> QED
      BY <3>1, <3>2, Zenon DEF v
  <2> QED
    BY <2>4, <2>5, <2>6, Zenon DEF Asks, v
<1> QED
  BY <1>1, <1>4, <1>5

(* The refusal of an ICP, whose file has been made.                        *)
LEMMA RefusedWired ==
    ASSUME NEW w, Good(w, NoSlot, 0), NEW id \in Id, Opening(w, id), w.nfl > 0,
           NEW st \in {"uiopw", "siopw"}, NEW base \in Int, NEW timo \in BOOLEAN,
           NEW G \in SUBSET w.grp, SocketsNamed => w.grp \ G \subseteq {base},
           Wired(w, NoSlot), ~w.kf[id].fopen
    PROVE  LET v == f_rlse(Made(w, id, 3, st, base, timo, G), NewFile(w)) IN
           Wired(kw_rdy(v, id, TRUE), NoSlot)
<1> DEFINE v == f_rlse(Made(w, id, 3, st, base, timo, G), NewFile(w))
           f == NewFile(w)
<1>1. PICK u, F : /\ IsMade(u, w, f, F, G) /\ F.st = "uiopw" /\ F.id = id
                  /\ Good(u, NoSlot, 0) /\ v = f_rlse(u, f)
  <2>1. MadeAndGone(v, w, id, f, G)
    BY RefusedIs, Zenon
  <2> HIDE DEF v, f
  <2> QED
    BY <2>1, Zenon DEF MadeAndGone
<1> HIDE DEF v, f
<1>2. w.fil \in [File -> FileT]
  BY GoodTypes
<1>3. Wired(u, NoSlot)
  BY <1>1, <1>2, MadeWired
<1>4. u.fil[f] = F /\ F.nsatt = 0 /\ f \in File /\ \A g \in File \ {f} : u.fil[g] = w.fil[g]
  BY <1>1, <1>2 DEF IsMade
<1>5. Good(v, NoSlot, 0) /\ v.fil = [u.fil EXCEPT ![f] = NullFile]
  <2>1. u.fil[f].st # "null" /\ u.fil[f].nsatt = 0
    BY <1>1, <1>4
  <2> QED
    BY <1>1, <1>4, <2>1, ReleaseGood
<1>6. Wired(v, NoSlot)
  <2>1. u.fil[f].st # "null" /\ u.fil[f].nsatt = 0
    BY <1>1, <1>4
  <2> QED
    BY <1>1, <1>3, <1>4, <2>1, RlseWired
<1>7. \A g \in File : v.fil[g].st # "null" => v.fil[g].id # id
  <2>1. u.fil \in [File -> FileT] /\ NullFile.st = "null"
    BY <1>1, GoodTypes, TableTypes
  <2> QED
    BY <1>4, <1>5, <2>1, OpeningNone
<1> QED
  BY <1>5, <1>6, <1>7, ReadyOrphan DEF v, f

(* kr_oicp()                                                               *)
LEMMA OicpWired ==
    ASSUME NEW w, Good(w, NoSlot, 0), NEW id \in Id, Opening(w, id),
           NEW o \in OpenRec, o.type # "drct", NEW g, g = -1 \/ g \in w.grp,
           Wired(w, NoSlot), ~w.kf[id].fopen
    PROVE  Wired(kr_oicp(w, id, o, g), NoSlot)
<1> DEFINE v == kr_oicp(w, id, o, g)
           m(st, timo) == Made(w, id, 3, st, g, timo, w.grp \ {g})
           f == NewFile(w)
<1>1. /\ g \in Int
      /\ \/ v = kw_rdy(w, id, TRUE)
         \/ w.nfl > 0 /\ Refused(v, w, id, g)
         \/ w.nfl > 0 /\ Logs(v, w, id, g)
  BY OicpIs, Zenon
<1> HIDE DEF v
<1>2. CASE v = kw_rdy(w, id, TRUE)
  <2>1. \A g1 \in File : w.fil[g1].st # "null" => w.fil[g1].id # id
    BY OpeningNone
  <2>2. Wired(kw_rdy(w, id, TRUE), NoSlot)
    BY <2>1, ReadyOrphan
  <2> QED
    BY <1>2, <2>2, Zenon DEF v
<1>3. w.grp \ {g} \in SUBSET w.grp /\ w.grp \ (w.grp \ {g}) \subseteq {g}
  OBVIOUS
<1>4. CASE w.nfl > 0 /\ Refused(v, w, id, g)
  <2>1. PICK st \in {"uiopw", "siopw"}, timo \in BOOLEAN :
          v = kw_rdy(f_rlse(m(st, timo), f), id, TRUE)
    BY <1>4, Zenon DEF Refused
  <2>2. Wired(kw_rdy(f_rlse(m(st, timo), f), id, TRUE), NoSlot)
    BY <1>1, <1>3, <1>4, RefusedWired, Zenon
  <2> QED
    BY <2>1, <2>2, Zenon DEF v
<1>5. CASE w.nfl > 0 /\ Logs(v, w, id, g)
  <2>0. PICK st \in {"uiopw", "siopw"}, timo \in BOOLEAN : \E r :
          Logged(v, m(st, timo), f, r)
    BY <1>5, Zenon DEF Logs
  <2>1. PICK r :
          /\ Good(m(st, timo), NoSlot, 0) /\ f \in File /\ Ready(m(st, timo), f, ksx_icp)
          /\ r.op \in {"glsn", "slsn", "init"} /\ r.filep = f /\ r.sinx = ksx_icp
          /\ r.lskt \in Int /\ r.fskt \in Int /\ r.host \in Int
          /\ v = get_skt(m(st, timo), r)
    BY <2>0, Zenon DEF Logged
  <2> DEFINE u == m(st, timo)
  <2>2. Wired(u, NoSlot)
    <3>1. st \in FileState /\ 3 \in Int
      BY DEF FileState
    <3> QED
      BY <1>1, <1>3, <1>5, <3>1, FMakeWired
  <2>3. ksx_icp \in Node /\ ksx_icp # ksx_rcv
    BY DEF ksx_icp, ksx_rcv, Node
  <2>4. Good(u, NoSlot, 0) /\ Ready(u, f, ksx_icp) /\ v = get_skt(u, r)
    BY <2>1
  <2> HIDE DEF u, f
  <2>5. Wired(get_skt(u, r), NoSlot)
    BY <2>1, <2>2, <2>3, <2>4, GetWired
  <2> QED
    BY <2>4, <2>5, Zenon DEF v
<1> QED
  BY <1>1, <1>2, <1>4, <1>5

-----------------------------------------------------------------------------
(* Reading instructions *)

(* What the user has been told has changed, not the files of the kernel.   *)
LEMMA WiredTold ==
    ASSUME NEW v, NEW w, NEW q, Wired(w, q), v.wild = w.wild, v.kf = w.kf, v.fil = w.fil,
           v.skt = w.skt, Told(v.kf, v.ncprq, v.usr)
    PROVE  Wired(v, q)
BY DEF Wired

(* The user has not been told of an open that has still to be read.        *)
LEMMA TailWired ==
    ASSUME NEW w, Good(w, NoSlot, 0), Wired(w, NoSlot), w.ncprq # <<>>
    PROVE  LET v == [w EXCEPT !.ncprq = Tail(@)]
               c == Head(w.ncprq) IN
           Wired(v, NoSlot) /\ (c.op = "open" => ~v.kf[c.id].fopen)
<1> DEFINE q == w.ncprq
           r == Tail(q)
           c == Head(q)
           v == [w EXCEPT !.ncprq = r]
<1>1. w \in W /\ q \in Seq(InstrT)
  BY GoodTypes DEF W
<1>2. /\ c = q[1]
      /\ \A k \in Asked(r) : k + 1 \in Asked(q) /\ r[k] = q[k + 1]
      /\ c.op = "open" => 1 \in Asked(q)
  BY <1>1, AskedTail
<1>3. [w EXCEPT !.ncprq = Tail(@)] = v
  BY <1>1 DEF W
<1> HIDE DEF r, c, q
<1>4. /\ v.wild = w.wild /\ v.kf = w.kf /\ v.fil = w.fil /\ v.skt = w.skt
      /\ v.ncprq = r /\ v.usr = w.usr
  BY <1>1 DEF W
<1> HIDE DEF v
<1>5. Told(w.kf, q, w.usr)
  BY DEF Wired, q
<1>6. Told(v.kf, v.ncprq, v.usr)
  BY <1>2, <1>4, <1>5 DEF Told
<1>7. Wired(v, NoSlot)
  BY <1>4, <1>6, WiredTold
<1>8. c.op = "open" => ~v.kf[c.id].fopen
  BY <1>2, <1>4, <1>5 DEF Told
<1> QED
  BY <1>3, <1>7, <1>8 DEF c, q

-----------------------------------------------------------------------------
(* netopen() and netclose() *)

(* netopen(): nobody knows the new file of the kernel.                     *)
LEMMA NetopenWired ==
    ASSUME NEW w, Good(w, NoSlot, 0), NEW u \in User, w.usr[u].st = "idle",
           NEW id \in Id, w.kf[id].cnt = 0, NEW o \in Opens, Wired(w, NoSlot)
    PROVE  Wired(netopen(w, u, id, o), NoSlot)
<1> DEFINE v == netopen(w, u, id, o)
           q == w.ncprq
<1>1. Requested(v, w, u, id)
  BY NetopenIs
<1> HIDE DEF v
<1>2. w \in W /\ \A i \in Asked(q) : q[i].id \in Id
  BY GoodTypes DEF W, Asked, InstrT
<1>3. v.fil = w.fil /\ v.skt = w.skt /\ ~v.wild
  BY <1>1 DEF Requested, SameTables, Wired
<1>4. ASSUME NEW j \in Id PROVE KfOK(v.kf[j])
  <2>1. CASE j = id
    BY <1>1, <2>1 DEF Requested, KfOK, NoNode
  <2>2. CASE j # id
    BY <1>1, <2>2 DEF Requested, Wired
  <2> QED
    BY <2>1, <2>2
<1>5. Told(v.kf, v.ncprq, v.usr)
  <2>1. PICK n \in Int : /\ Asked(v.ncprq) = Asked(q) \cup {n} /\ v.ncprq[n].id = id
                         /\ \A i \in Asked(q) : v.ncprq[i] = q[i]
    BY <1>1 DEF Requested
  <2>2. Told(w.kf, q, w.usr)
    BY DEF Wired
  <2> HIDE DEF q
  <2>3. ASSUME NEW i \in Asked(v.ncprq) PROVE ~v.kf[v.ncprq[i].id].fopen
    <3>1. CASE v.ncprq[i].id = id
      BY <1>1, <3>1 DEF Requested
    <3>2. CASE v.ncprq[i].id # id
      <4>1. i \in Asked(q) /\ v.ncprq[i] = q[i] /\ q[i].id \in Id \ {id}
        BY <1>2, <2>1, <3>2
      <4> QED
        BY <1>1, <2>2, <4>1 DEF Requested, Told
    <3> QED
      BY <3>1, <3>2
  <2>4. ASSUME NEW t \in User, v.usr[t].st = "open" PROVE v.kf[v.usr[t].id].fopen
    <3>1. t # u /\ v.usr[t] = w.usr[t]
      BY <1>1, <2>4 DEF Requested
    <3>2. w.usr[t].id \in Id /\ w.usr[t].id # id
      BY <1>1, <2>4, <3>1, UsersNamed DEF Requested, Holders
    <3>3. v.kf[w.usr[t].id] = w.kf[w.usr[t].id]
      BY <1>1, <3>2 DEF Requested
    <3> QED
      BY <2>2, <2>4, <3>1, <3>3 DEF Told
  <2> QED
    BY <2>3, <2>4 DEF Told
<1>6. Lines(v.fil, v.skt, v.kf, NoSlot)
  <2> SUFFICES ASSUME NEW f \in File, w.fil[f].st # "null", w.fil[f].id # NoId
               PROVE  Line(w.fil[f], w.skt, v.kf[w.fil[f].id], NoSlot)
    BY <1>3 DEF Lines
  <2>1. w.fil[f].id \in Id /\ w.fil[f].id # id
    BY <1>1, UsersNamed DEF Requested, Known
  <2>2. v.kf[w.fil[f].id] = w.kf[w.fil[f].id]
    BY <1>1, <2>1 DEF Requested
  <2> QED
    BY <2>2 DEF Wired, Lines
<1> QED
  BY <1>3, <1>4, <1>5, <1>6 DEF Wired, v

(* netopen() after the wakeup: the user gets only what he has been told of.*)
LEMMA WokenWired ==
    ASSUME NEW w, Good(w, NoSlot, 0), NEW u \in User, w.usr[u].st = "wait", Wired(w, NoSlot)
    PROVE  Wired(NetopenWoken(w, u), NoSlot)
<1> DEFINE id == w.usr[u].id
           v == NetopenWoken(w, u)
<1>1. w \in W /\ w.usr \in [User -> UsrT]
  BY GoodTypes DEF W
<1>2. id \in Id /\ (Stands(v, w, u, id) \/ Seated(v, w, u, id))
  BY WokenIs
<1>3. Told(w.kf, w.ncprq, w.usr)
  BY DEF Wired
<1> HIDE DEF id, v
<1>4. CASE Stands(v, w, u, id)
  <2>1. PICK r \in UsrT : r.st # "open" /\ v = [w EXCEPT !.usr[u] = r]
    BY <1>4 DEF Stands
  <2> DEFINE un == [w.usr EXCEPT ![u] = r]
  <2>2. un[u] = r /\ \A t \in User \ {u} : un[t] = w.usr[t]
    BY <1>1
  <2>3. v = [w EXCEPT !.usr = un]
    BY <1>1, <2>1 DEF W
  <2> HIDE DEF un
  <2>4. /\ v.usr = un /\ v.wild = w.wild /\ v.kf = w.kf /\ v.fil = w.fil /\ v.skt = w.skt
        /\ v.ncprq = w.ncprq
    BY <1>1, <2>3 DEF W
  <2>5. Told(v.kf, v.ncprq, v.usr)
    BY <1>3, <2>1, <2>2, <2>4 DEF Told
  <2> QED
    BY <2>4, <2>5, WiredTold DEF v
<1>5. CASE Seated(v, w, u, id)
  <2>1. PICK r \in UsrT : r.st = "open" /\ r.id = id /\ v.usr = [w.usr EXCEPT ![u] = r]
    BY <1>5 DEF Seated
  <2>2. v.usr[u] = r /\ \A t \in User \ {u} : v.usr[t] = w.usr[t]
    BY <1>1, <2>1
  <2>3. v.fil = w.fil /\ v.skt = w.skt /\ ~v.wild /\ v.ncprq = w.ncprq
    BY <1>5 DEF Seated, SameTables, Wired
  <2>4. ASSUME NEW j \in Id
        PROVE  /\ v.kf[j].fopen = w.kf[j].fopen
               /\ \A i \in Node : LET m == w.kf[j].node[i]
                                      n == v.kf[j].node[i] IN
                      n.st = m.st /\ n.ncpiu = m.ncpiu /\ n.host = m.host
    <3>1. CASE j = id
      <4>1. w.kf[j] \in KfT /\ v.kf[j] \in KfT
        BY <1>1, <1>5, KernelTypes DEF Seated
      <4> QED
        BY <1>5, <3>1, <4>1 DEF Seated, KfT
    <3>2. CASE j # id
      BY <1>5, <3>2 DEF Seated
    <3> QED
      BY <3>1, <3>2
  <2>5. \A j \in Id : KfOK(v.kf[j])
    BY <2>4 DEF Wired, KfOK
  <2>6. Told(v.kf, v.ncprq, v.usr)
    <3>1. \A i \in Asked(w.ncprq) : w.ncprq[i].id \in Id
      BY <1>1 DEF W, Asked, InstrT
    <3>2. ASSUME NEW t \in User, v.usr[t].st = "open" PROVE v.kf[v.usr[t].id].fopen
      <4>1. CASE t = u
        BY <1>5, <2>1, <2>2, <4>1 DEF Seated
      <4>2. CASE t # u
        <5>1. v.usr[t] = w.usr[t] /\ w.usr[t].st = "open"
          BY <2>2, <3>2, <4>2
        <5>2. w.usr[t].id \in Id
          BY <5>1, UsersNamed
        <5> QED
          BY <1>3, <2>4, <5>1, <5>2 DEF Told
      <4> QED
        BY <4>1, <4>2
    <3> QED
      BY <1>3, <2>3, <2>4, <3>1, <3>2 DEF Told
  <2>7. Lines(v.fil, v.skt, v.kf, NoSlot)
    <3> SUFFICES ASSUME NEW f \in File, w.fil[f].st # "null", w.fil[f].id # NoId
                 PROVE  Line(w.fil[f], w.skt, v.kf[w.fil[f].id], NoSlot)
      BY <2>3 DEF Lines
    <3>1. w.fil[f].id \in Id /\ f_rdnode \in Node
      BY UsersNamed DEF f_rdnode, Node
    <3>2. Line(w.fil[f], w.skt, w.kf[w.fil[f].id], NoSlot)
      BY DEF Wired, Lines
    <3> QED
      BY <2>4, <3>1, <3>2, Zenon DEF Line, Plug
  <2> QED
    BY <2>3, <2>5, <2>6, <2>7 DEF Wired, v
<1> QED
  BY <1>2, <1>4, <1>5

(* A user goes.                                                            *)
LEMMA LeftWired ==
    ASSUME NEW w, Good(w, NoSlot, 0), NEW u \in User, w.usr[u].st = "open", Wired(w, NoSlot)
    PROVE  LET v == Left(w, u) IN
           Wired(v, NoSlot) /\ v.kf[w.usr[u].id].fopen
<1> DEFINE v == Left(w, u)
<1>1. /\ SameTables(v, w) /\ v.kf = w.kf /\ v.wild = w.wild /\ v.ncprq = w.ncprq
      /\ v.usr[u].st = "idle" /\ \A t \in User \ {u} : v.usr[t] = w.usr[t]
  BY LeftGood
<1> HIDE DEF v
<1>2. Told(w.kf, w.ncprq, w.usr)
  BY DEF Wired
<1>3. Told(v.kf, v.ncprq, v.usr)
  BY <1>1, <1>2 DEF Told
<1>4. Wired(v, NoSlot)
  BY <1>1, <1>3, WiredTold DEF SameTables
<1>5. v.kf[w.usr[u].id].fopen
  BY <1>1, <1>2 DEF Told
<1> QED
  BY <1>4, <1>5 DEF v

(* The kernel closes a node for him: the file is open, so that it may be   *)
(* empty.                                                                  *)
LEMMA CloseNodeWired ==
    ASSUME NEW w, Good(w, NoSlot, 0), Wired(w, NoSlot), NEW id \in Id, NEW i \in Node,
           w.kf[id].fopen
    PROVE  LET v == CloseNode(w, id, i) IN
           Wired(v, NoSlot) /\ Good(v, NoSlot, 0) /\ v.kf[id].fopen
<1>1. w \in W
  BY GoodTypes
<1>2. CASE w.kf[id].node[i].st # "skt"
  BY <1>2 DEF CloseNode
<1>3. CASE w.kf[id].node[i].st = "skt"
  <2> DEFINE a == IF w.kf[id].node[i].ncpiu THEN daecls(w, id, i) ELSE w
             v == [a EXCEPT !.kf[id].node[i] = NoNode]
  <2>1. a \in W /\ a.kf = w.kf /\ a.wild = w.wild
    <3>1. daecls(w, id, i) \in W
      BY <1>1, SameClose DEF Same
    <3>2. daecls(w, id, i).kf = w.kf /\ daecls(w, id, i).wild = w.wild
      BY <1>1 DEF daecls, W
    <3> QED
      BY <1>1, <3>1, <3>2
  <2>2. CloseNode(w, id, i) = v
    BY <1>3 DEF CloseNode, daedes
  <2> HIDE DEF a
  <2>3. NodeIs(v, a, id, i, NoNode)
    BY <2>1, NodeSet
  <2> HIDE DEF v
  <2>4. Same(v, w)
    BY <1>1, <2>2, SameCloseNode
  <2>5. ~v.wild /\ \A j \in Id \ {id} : v.kf[j] = w.kf[j]
    BY <2>1, <2>3 DEF NodeIs, Renoded, Wired
  <2>6. /\ v.kf[id].fopen = w.kf[id].fopen /\ v.kf[id].node[i] = NoNode
        /\ \A j \in Node \ {i} : v.kf[id].node[j] = w.kf[id].node[j]
    BY <2>1, <2>3 DEF NodeIs, Renoded
  <2>7. KfOK(v.kf[id])
    <3>1. KfOK(w.kf[id]) /\ NoNode.st = "none" /\ ~NoNode.ncpiu
      BY DEF Wired, NoNode
    <3> QED
      BY <2>6, <3>1 DEF KfOK
  <2>8. ASSUME NEW f \in File, w.fil[f].st # "null", w.fil[f].id = id
        PROVE  Line(w.fil[f], w.skt, v.kf[id], NoSlot)
    <3>1. id # NoId /\ f_rdnode \in Node /\ NoNode.st = "none"
      BY NcpOpenAssumption DEF f_rdnode, Node, NoNode
    <3>2. Line(w.fil[f], w.skt, w.kf[id], NoSlot)
      BY <2>8, <3>1, Zenon DEF Wired, Lines
    <3>3. v.kf[id].fopen
      BY <2>6
    <3>4. CASE i = f_rdnode
      BY <2>6, <3>1, <3>2, <3>3, <3>4, Zenon DEF Line, Plug
    <3>5. CASE i # f_rdnode
      <4>1. v.kf[id].node[f_rdnode] = w.kf[id].node[f_rdnode]
        BY <2>6, <3>1, <3>5
      <4> QED
        BY <2>6, <3>2, <4>1, Zenon DEF Line, Plug
    <3> QED
      BY <3>4, <3>5
  <2>9. \A u \in User : w.usr[u].st # "idle" => w.usr[u].id \in Id
    BY UsersNamed
  <2>10. Wired(v, NoSlot)
    BY <1>1, <2>4, <2>5, <2>6, <2>7, <2>8, <2>9, WiredKf
  <2> QED
    BY <2>2, <2>4, <2>6, <2>10, GoodSame
<1> QED
  BY <1>2, <1>3

(* netclose()                                                              *)
LEMMA NetcloseWired ==
    ASSUME NEW w, Good(w, NoSlot, 0), NEW u \in User, w.usr[u].st = "open", Wired(w, NoSlot)
    PROVE  Wired(netclose(w, u), NoSlot)
<1> DEFINE id == w.usr[u].id
           w1 == Left(w, u)
           a == CloseNode(w1, id, 0)
           b == CloseNode(a, id, 1)
           c == CloseNode(b, id, 2)
           w2 == IF w.kf[id].cnt <= 2 THEN c ELSE w1
           v == net_frlse(w2, id)
<1>1. /\ id \in Id /\ Good(w1, NoSlot, 0) /\ Spare(w1, id)
      /\ Wired(w1, NoSlot) /\ w1.kf[id].fopen
  BY LeftGood, LeftWired
<1>2. netclose(w, u) = v
  BY Zenon DEF netclose, Left
<1> HIDE DEF id, w1
<1>3. Good(w2, NoSlot, 0) /\ Wired(w2, NoSlot) /\ Spare(w2, id)
  <2>1. 0 \in Node /\ 1 \in Node /\ 2 \in Node
    BY DEF Node
  <2>2. Good(a, NoSlot, 0) /\ Wired(a, NoSlot) /\ a.kf[id].fopen /\ Same(a, w1)
    BY <1>1, <2>1, CloseNodeWired, SameCloseNode, GoodTypes
  <2> HIDE DEF a
  <2>3. Good(b, NoSlot, 0) /\ Wired(b, NoSlot) /\ b.kf[id].fopen /\ Same(b, a)
    BY <1>1, <2>1, <2>2, CloseNodeWired, SameCloseNode, GoodTypes
  <2> HIDE DEF b
  <2>4. Good(c, NoSlot, 0) /\ Wired(c, NoSlot) /\ Same(c, b)
    BY <1>1, <2>1, <2>3, CloseNodeWired, SameCloseNode, GoodTypes
  <2> HIDE DEF c
  <2>5. Same(c, w1)
    BY <2>2, <2>3, <2>4, SameTrans
  <2>6. Spare(c, id)
    BY <1>1, <2>5, SpareSame
  <2> QED
    BY <1>1, <2>4, <2>6
<1> HIDE DEF w2
<1>4. w2 \in W /\ Frlsed(v, w2, id)
  BY <1>1, <1>3, FrlseNode, GoodTypes
<1> HIDE DEF v
<1>5. ASSUME w2.kf[id].cnt = 1
      PROVE  /\ \A t \in User : ~(w2.usr[t].st = "open" /\ w2.usr[t].id = id)
             /\ \A f \in File : ~(w2.fil[f].st # "null" /\ w2.fil[f].id = id)
  <2>1. IsFiniteSet(Holders(w2.usr, id)) /\ Cardinality(Holders(w2.usr, id)) \in Nat
    BY <1>3, UsersFinite
  <2>2. Cardinality(Holders(w2.usr, id)) = 0 /\ ~Known(w2.fil, w2.ncprq, id)
    BY <1>3, <1>5, <2>1 DEF Spare
  <2>3. Holders(w2.usr, id) = {}
    BY <2>1, <2>2, FS_EmptySet
  <2> QED
    BY <2>2, <2>3 DEF Holders, Known
<1>6. LetGo(v, w2, id)
  BY <1>4, <1>5 DEF Frlsed, LetGo
<1> QED
  BY <1>1, <1>2, <1>3, <1>6, LetGoWired

-----------------------------------------------------------------------------
(* The steps *)

(* Both invariants.                                                        *)
WiredInv == Inv /\ Wired(World, NoSlot)

(* The world in which a step starts is wired.                              *)
LEMMA TripWired ==
    ASSUME WiredInv, NEW h \in Int
    PROVE  Good(Trip(h), NoSlot, 0) /\ Wired(Trip(h), NoSlot)
<1> DEFINE u == World
           v == Trip(h)
<1>1. Good(v, NoSlot, 0) /\ u \in W /\ Wired(u, NoSlot)
  BY TripGood, GoodTypes DEF WiredInv, Inv
<1>2. v.skt = u.skt /\ v.fil = u.fil /\ v.kf = u.kf /\ v.ncprq = u.ncprq /\ v.usr = u.usr
      /\ v.wild = u.wild
  <2>1. v = [u EXCEPT !.host = h, !.out = {}]
    BY DEF Trip
  <2> HIDE DEF u, v
  <2> QED
    BY <1>1, <2>1 DEF W
<1> HIDE DEF u, v
<1>3. Wired(v, NoSlot)
  BY <1>1, <1>2, WiredSame DEF SameKernel
<1> QED
  BY <1>1, <1>3 DEF v

(* A step that ends in a wired world keeps the invariant.                  *)
LEMMA BecomeWired ==
    ASSUME NEW w, Wired(w, NoSlot), Become(w)
    PROVE  Wired(World, NoSlot)'
<1> DEFINE v == World'
<1>1. v.skt = w.skt /\ v.fil = w.fil /\ v.kf = w.kf /\ v.ncprq = w.ncprq /\ v.usr = w.usr
      /\ v.wild = w.wild
  BY DEF World, Become
<1> HIDE DEF v
<1>2. Wired(v, NoSlot)
  BY <1>1, WiredSame DEF SameKernel
<1> QED
  BY <1>2 DEF v

(* Opens, wakeups and closes of a user.                                    *)
LEMMA UserStepWired ==
    ASSUME WiredInv, NEW u \in User, UserStep(u)
    PROVE  Wired(World, NoSlot)'
<1> DEFINE w == Trip(host)
<1>1. Good(w, NoSlot, 0) /\ Wired(w, NoSlot) /\ w.kf = kf /\ w.usr = usr
  BY HostInt, TripGood, TripWired DEF WiredInv
<1> HIDE DEF w
<1>2. CASE NetopenReturn(u)
  BY <1>1, <1>2, WokenWired, BecomeWired DEF NetopenReturn, w
<1>3. CASE Netclose(u)
  BY <1>1, <1>3, NetcloseWired, BecomeWired DEF Netclose, w
<1>4. ASSUME NEW o \in Opens, Netopen(u, o) PROVE Wired(World, NoSlot)'
  <2>1. PICK id \in Id : kf[id].cnt = 0 /\ Become(netopen(w, u, id, o))
    BY <1>4 DEF Netopen, w
  <2>2. usr[u].st = "idle"
    BY <1>4 DEF Netopen
  <2>3. Wired(netopen(w, u, id, o), NoSlot)
    BY <1>1, <2>1, <2>2, NetopenWired
  <2> QED
    BY <2>1, <2>3, BecomeWired
<1> QED
  BY <1>2, <1>3, <1>4 DEF UserStep

(* The daemon reads an instruction to open.                                *)
LEMMA KrOpenWired ==
    ASSUME WiredInv, KrOpen
    PROVE  Wired(World, NoSlot)'
<1> DEFINE c == Head(ncprq)
           o == c.o
           h == IF o.type = "serv" THEN host ELSE o.host
           t == Trip(h)
           w == [t EXCEPT !.ncprq = Tail(@)]
<1>1. PICK g \in IF grp = {} THEN {-1} ELSE grp :
        Become(IF o.type = "drct" THEN kr_odrct(Forget(w, c.id), c.id, o, g)
                                  ELSE kr_oicp(Forget(w, c.id), c.id, o, g))
  BY DEF KrOpen
<1>2. ncprq # <<>> /\ c.op = "open"
  BY DEF KrOpen
<1>3. c \in InstrT
  <2>1. ncprq \in Seq(InstrT)
    BY GoodTypes, WorldIs DEF WiredInv, Inv, W
  <2> QED
    BY <1>2, <2>1, HeadTailProperties
<1>4. c.id \in Id /\ o \in Opens /\ o \in OpenRec
  BY <1>2, <1>3, NcpOpenAssumption DEF InstrT
<1> HIDE DEF c
<1>5. h \in Int
  BY <1>4, HostInt, NcpOpenAssumption DEF OpenRec, WiredInv
<1> HIDE DEF h, o
<1>6. Good(t, NoSlot, 0) /\ Wired(t, NoSlot) /\ t.ncprq = ncprq /\ t.grp = grp
  BY <1>5, TripGood, TripWired DEF WiredInv
<1> HIDE DEF t
<1>7. Good(w, NoSlot, 0) /\ w.grp = grp /\ Opening(w, c.id)
  BY <1>2, <1>6, TailGood DEF c
<1>8. Wired(w, NoSlot) /\ ~w.kf[c.id].fopen
  BY <1>2, <1>6, TailWired DEF c
<1> HIDE DEF w
<1>9. Forget(w, c.id) = w
  BY <1>4, <1>7, ForgetNothing
<1>10. g = -1 \/ g \in w.grp
  BY <1>7
<1>11. g \in Int
  <2>1. w.grp \in SUBSET Group
    BY <1>7, GoodTypes
  <2> QED
    BY <1>10, <2>1, SktMachineAssumption
<1>12. CASE o.type = "drct"
  <2>1. Wired(kr_odrct(w, c.id, o, g), NoSlot)
    BY <1>4, <1>7, <1>8, <1>11, <1>12, OdrctWired
  <2> QED
    BY <1>1, <1>9, <1>12, <2>1, BecomeWired
<1>13. CASE o.type # "drct"
  <2>1. Wired(kr_oicp(w, c.id, o, g), NoSlot)
    BY <1>4, <1>7, <1>8, <1>10, <1>13, OicpWired
  <2> QED
    BY <1>1, <1>9, <1>13, <2>1, BecomeWired
<1> QED
  BY <1>12, <1>13, SMTT(60)

(* The daemon reads an instruction to close.                               *)
LEMMA KrCloseWired ==
    ASSUME WiredInv, kr_close
    PROVE  Wired(World, NoSlot)'
<1> DEFINE c == Head(ncprq)
           t == Trip(host)
           w == [t EXCEPT !.ncprq = Tail(@)]
           F == {f \in File : fil[f].st # "null" /\ fil[f].id = c.id}
           p == fil[Min(F)].x[c.i]
<1>1. ncprq # <<>> /\ c.op = "close"
      /\ Become(IF F = {} THEN w
                ELSE IF p = NoSlot THEN w
                ELSE CloseOp([w EXCEPT !.host = skt[p].host], p))
  BY Zenon DEF kr_close
<1>2. /\ Good(t, NoSlot, 0) /\ Wired(t, NoSlot)
      /\ t.ncprq = ncprq /\ t.skt = skt /\ t.fil = fil
  BY HostInt, TripGood, TripWired DEF WiredInv
<1> HIDE DEF t
<1>3. /\ Good(w, NoSlot, 0) /\ c \in InstrT /\ w.skt = skt /\ w.fil = fil
  BY <1>1, <1>2, TailGood, Zenon
<1>4. Wired(w, NoSlot)
  BY <1>1, <1>2, TailWired, Zenon
<1> HIDE DEF w
<1>5. c.i \in Node
  BY <1>1, <1>3, Zenon DEF InstrT
<1> HIDE DEF c
<1>6. CASE F = {} \/ p = NoSlot
  BY <1>1, <1>4, <1>6, BecomeWired, Zenon
<1>7. CASE F # {} /\ p # NoSlot
  <2>1. Min(F) \in File
    <3>1. F \in SUBSET Nat
      BY SktMachineAssumption, SMTT(60) DEF File
    <3>2. Min(F) \in F
      BY <1>7, <3>1, MinIn
    <3> QED
      BY <3>2
  <2>2. p \in Slot
    <3> HIDE DEF F
    <3>1. w.fil \in [File -> FileT]
      BY <1>3, GoodTypes
    <3>2. w.fil[Min(F)].x \in [Node -> {NoSlot} \cup Slot]
      BY <2>1, <3>1, TableTypes
    <3> QED
      BY <1>3, <1>5, <1>7, <3>2
  <2> HIDE DEF F, p
  <2> DEFINE u == [w EXCEPT !.host = skt[p].host]
  <2>3. Good(u, NoSlot, 0)
    BY <1>3, <2>2, HostInt, HostGood DEF WiredInv
  <2>4. SameKernel(u, w) /\ u.fil = w.fil /\ u.skt = w.skt
    <3>1. w \in W
      BY <1>3, GoodTypes
    <3> QED
      BY <3>1 DEF SameKernel, W
  <2> HIDE DEF u
  <2>5. Wired(u, NoSlot)
    BY <1>4, <2>4, WiredSame
  <2>6. Wired(CloseOp(u, p), NoSlot)
    BY <2>2, <2>3, <2>5, CloseWired
  <2> QED
    BY <1>1, <1>7, <2>6, BecomeWired DEF u
<1> QED
  BY <1>6, <1>7

(* The timer of the daemon.                                                *)
LEMMA TimoWired ==
    ASSUME WiredInv, kr_timo
    PROVE  Wired(World, NoSlot)'
<1>1. PICK F, P : Become(TimoSkts(TimoFiles(Trip(host), F), P))
  BY DEF kr_timo
<1>2. Good(Trip(host), NoSlot, 0) /\ Wired(Trip(host), NoSlot)
  BY HostInt, TripWired DEF WiredInv
<1>3. Good(TimoFiles(Trip(host), F), NoSlot, 0) /\ Wired(TimoFiles(Trip(host), F), NoSlot)
  BY <1>2, TimoFilesGood, TimoFilesWired
<1>4. Wired(TimoSkts(TimoFiles(Trip(host), F), P), NoSlot)
  BY <1>3, TimoSktsWired
<1> QED
  BY <1>1, <1>4, BecomeWired

(* A host dies, or an RFC or a CLS of his arrives.                         *)
LEMMA HostStepWired ==
    ASSUME WiredInv, NEW h \in Host, HostDead(h) \/ hr_rfc(h) \/ hr_cls(h)
    PROVE  Wired(World, NoSlot)'
<1> DEFINE w == Trip(h)
<1>1. h \in Int /\ h # 0
  BY NcpOpenAssumption DEF Host
<1>2. Good(w, NoSlot, 0) /\ Wired(w, NoSlot) /\ w.skt = skt
  BY <1>1, TripGood, TripWired DEF WiredInv
<1> HIDE DEF w
<1>3. CASE HostDead(h)
  BY <1>1, <1>2, <1>3, HDeadWired, BecomeWired DEF HostDead, w
<1>4. CASE hr_rfc(h)
  <2>1. PICK pair \in Rfcs :
          Become(get_skt(w, [op |-> "rfc", lskt |-> pair[1], fskt |-> pair[2],
                             host |-> h, filep |-> NoFile, sinx |-> 0]))
    BY <1>4 DEF hr_rfc, w
  <2> DEFINE r == [op |-> "rfc", lskt |-> pair[1], fskt |-> pair[2],
                   host |-> h, filep |-> NoFile, sinx |-> 0]
  <2>2. pair[1] \in Int /\ pair[2] \in Int
    BY NcpOpenAssumption
  <2>3. r.op = "rfc" /\ r.fskt \in Int /\ r.host \in Int
    BY <1>1, <2>2
  <2>4. Become(get_skt(w, r))
    BY <2>1
  <2> HIDE DEF r
  <2>5. Wired(get_skt(w, r), NoSlot)
    BY <1>2, <2>3, GetRfcWired
  <2> QED
    BY <2>4, <2>5, BecomeWired
<1>5. CASE hr_cls(h)
  <2>1. PICK p \in Slot :
          Become(get_skt(w, [op |-> "cls", lskt |-> skt[p].lskt,
                             fskt |-> skt[p].fskt, host |-> h]))
    BY <1>5 DEF hr_cls, w
  <2> DEFINE r == [op |-> "cls", lskt |-> skt[p].lskt, fskt |-> skt[p].fskt, host |-> h]
  <2>2. r.op = "cls" /\ Become(get_skt(w, r))
    BY <2>1
  <2> HIDE DEF r
  <2>3. Wired(get_skt(w, r), NoSlot)
    BY <1>2, <2>2, GetClsWired
  <2> QED
    BY <2>2, <2>3, BecomeWired
<1> QED
  BY <1>3, <1>4, <1>5

(* Allocations, data, RFNMs and errors for a socket.                       *)
LEMMA SocketStepWired ==
    ASSUME WiredInv, NEW p \in Slot, hr_all(p) \/ hr_data(p) \/ ir_rfnm(p) \/ ir_re_x(p)
    PROVE  Wired(World, NoSlot)'
<1> DEFINE w == Trip(skt[p].host)
           v == [w EXCEPT !.ssn = @ \ {p}]
<1>1. Good(w, NoSlot, 0) /\ Wired(w, NoSlot) /\ w.skt = skt
  BY HostInt, TripGood, TripWired DEF WiredInv
<1> HIDE DEF w
<1>2. Good(v, NoSlot, 0) /\ v.skt = skt
  BY <1>1, AnsweredGood
<1>3. SameKernel(v, w) /\ v.fil = w.fil /\ v.skt = w.skt
  <2>1. w \in W
    BY <1>1, GoodTypes
  <2> QED
    BY <2>1 DEF SameKernel, W
<1> HIDE DEF v
<1>4. Wired(v, NoSlot)
  BY <1>1, <1>3, WiredSame
<1>5. CASE hr_all(p)
  <2>1. PICK enough \in BOOLEAN : Become(fi_all(w, p, enough))
    BY <1>5 DEF hr_all, w
  <2>2. skt[p].st = "open" /\ Odd(skt[p].lskt)
    BY <1>5 DEF hr_all
  <2>3. Wired(fi_all(w, p, enough), NoSlot)
    BY <1>1, <2>2, AllWired
  <2> QED
    BY <2>1, <2>3, BecomeWired
<1>6. CASE hr_data(p)
  <2>1. skt[p].st = "open" /\ ~Odd(skt[p].lskt)
    BY <1>6 DEF hr_data
  <2>2. CASE \E n \in SktNums : Become(fi_sktnm(w, p, n))
    <3>1. PICK n \in SktNums : Become(fi_sktnm(w, p, n))
      BY <2>2
    <3>2. n \in Nat
      BY NcpOpenAssumption
    <3>3. Wired(fi_sktnm(w, p, n), NoSlot)
      BY <1>1, <2>1, <3>2, SktnmWired
    <3> QED
      BY <3>1, <3>3, BecomeWired
  <2>3. CASE Become(kill_skt(w, p))
    BY <1>1, <2>3, KillWired, BecomeWired DEF Gone
  <2> QED
    BY <1>6, <2>2, <2>3 DEF hr_data, w
<1>7. CASE ir_rfnm(p)
  <2>1. p \in ssn /\ Become(fi_rfnm(v, p))
    BY <1>7 DEF ir_rfnm, v, w
  <2>2. v.skt[p].st \in Attachable
    BY <1>2, <2>1 DEF WiredInv, Inv
  <2>3. Wired(fi_rfnm(v, p), NoSlot)
    BY <1>2, <1>4, <2>2, RfnmWired
  <2> QED
    BY <2>1, <2>3, BecomeWired
<1>8. CASE ir_re_x(p)
  <2>1. Become(kill_skt(v, p))
    BY <1>8 DEF ir_re_x, v, w
  <2>2. Wired(kill_skt(v, p), NoSlot)
    BY <1>2, <1>4, KillWired DEF Gone
  <2> QED
    BY <2>1, <2>2, BecomeWired
<1> QED
  BY <1>5, <1>6, <1>7, <1>8

-----------------------------------------------------------------------------
(* Theorem *)

(* Every step keeps both invariants.                                       *)
LEMMA NextWired == WiredInv /\ [Next]_vars => WiredInv'
<1> SUFFICES ASSUME WiredInv, [Next]_vars PROVE WiredInv'
  OBVIOUS
<1>1. Inv'
  BY NextInv DEF WiredInv
<1>2. CASE UNCHANGED vars
  BY <1>2 DEF WiredInv, Inv, World, vars
<1>3. CASE \E u \in User : UserStep(u)
  BY <1>1, <1>3, UserStepWired DEF WiredInv
<1>4. CASE KrOpen
  BY <1>1, <1>4, KrOpenWired DEF WiredInv
<1>5. CASE kr_close
  BY <1>1, <1>5, KrCloseWired DEF WiredInv
<1>6. CASE kr_timo
  BY <1>1, <1>6, TimoWired DEF WiredInv
<1>7. CASE \E h \in Host : HostDead(h) \/ hr_rfc(h) \/ hr_cls(h)
  BY <1>1, <1>7, HostStepWired DEF WiredInv
<1>8. CASE \E p \in Slot : hr_all(p) \/ hr_data(p) \/ ir_rfnm(p) \/ ir_re_x(p)
  BY <1>1, <1>8, SocketStepWired DEF WiredInv
<1> QED
  BY <1>2, <1>3, <1>4, <1>5, <1>6, <1>7, <1>8 DEF Next

(* They hold at the beginning: there is no file yet.                       *)
LEMMA InitWired == Init => WiredInv
<1> SUFFICES ASSUME Init PROVE WiredInv
  OBVIOUS
<1> DEFINE w == World
<1>1. /\ w.fil = [f \in File |-> NullFile] /\ w.kf = [i \in Id |-> FreeFile]
      /\ w.ncprq = <<>> /\ w.usr = [u \in User |-> IdleUser] /\ w.wild = FALSE
  BY DEF Init, World
<1> HIDE DEF w
<1>2. ~w.wild
  BY <1>1
<1>3. \A id \in Id : KfOK(w.kf[id])
  BY <1>1 DEF KfOK, FreeFile, NoNode
<1>4. Told(w.kf, w.ncprq, w.usr)
  <2>1. Asked(w.ncprq) = {}
    BY <1>1 DEF Asked
  <2>2. \A u \in User : w.usr[u].st = "idle"
    BY <1>1, UserTypes
  <2> QED
    BY <2>1, <2>2 DEF Told
<1>5. Lines(w.fil, w.skt, w.kf, NoSlot)
  BY <1>1, TableTypes DEF Lines
<1> QED
  BY <1>2, <1>3, <1>4, <1>5, InitInv DEF Wired, WiredInv, w

(* wf_ready() stores an error number where the read socket is pointed to;  *)
(* the daemon never makes the kernel take it for a pointer.                *)
THEOREM PointersStaySockets == Spec => []NoWildPointer
<1>1. Init => WiredInv
  BY InitWired
<1>2. WiredInv /\ [Next]_vars => WiredInv'
  BY NextWired
<1>3. WiredInv => NoWildPointer
  BY WorldIs DEF WiredInv, Wired, NoWildPointer
<1> QED
  BY <1>1, <1>2, <1>3, PTL DEF Spec

=============================================================================
