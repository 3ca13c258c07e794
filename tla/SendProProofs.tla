---------------------------- MODULE SendProProofs ----------------------------
(***************************************************************************)
(* Proofs about the protocol output of SendPro, for every number of hosts, *)
(* every set of known hosts, message size and number of retries.           *)
(*                                                                         *)
(* The invariant is one per host (HostInv), and holds in two layers.  The  *)
(* RFNM discipline (LinkOK) needs nothing else.  What is in the queue, in  *)
(* the message in flight and at the host (OrderOK) hangs together as one   *)
(* run of numbered commands, and holds when x_retries is 1: a second try   *)
(* adds to h_pb_sent what it counts already.  A flush may leave a message  *)
(* of an earlier epoch in flight, and then nothing of the new epoch has    *)
(* been sent.  The hosts are related by the walk of rst_all() only, which  *)
(* needs room in the queues of the hosts before it (the bound MaxCmd).     *)
(***************************************************************************)
EXTENDS SendPro, FiniteSetTheorems, WellFoundedInduction, SequenceTheorems, TLAPS

(* The commands of a message: of one epoch, and numbered one after the     *)
(* other.                                                                  *)
Consecutive(m) ==
    \A i \in 1 .. Len(m) : m[i].ep = m[1].ep /\ m[i].n = m[1].n + i - 1

(* A host that has received g may receive c next.                          *)
Follows(g, c) ==
    IF g # <<>> /\ c.ep = g[Len(g)].ep
    THEN c.n = g[Len(g)].n + 1
    ELSE c.n = 1 /\ (g # <<>> => c.ep > g[Len(g)].ep)

(* InOrder, of what one host has received.                                 *)
InOrderSeq(g) ==
    \A i \in DOMAIN g :
        IF i > 1 /\ g[i].ep = g[i - 1].ep
        THEN g[i].n = g[i - 1].n + 1
        ELSE g[i].n = 1 /\ (i > 1 => g[i].ep > g[i - 1].ep)

(* The queue holds the last commands of the epoch.                         *)
QueueOK(r) ==
    /\ Len(r.q) <= r.n
    /\ \A i \in 1 .. Len(r.q) : r.q[i].ep = r.ep /\ r.q[i].n = r.n - Len(r.q) + i

SentOK(r) ==
    r.sent # 0 =>
        /\ r.rfnm
        /\ r.sent <= Len(r.q)
        /\ Head(r.wire) = SubSeq(r.q, 1, r.sent)

(* The message in flight comes next at its host.  When it is not counted,  *)
(* it is of an earlier epoch, and of this one nothing has been sent.       *)
WireOK(r, g) ==
    r.rfnm =>
        /\ Head(r.wire) # <<>>
        /\ Consecutive(Head(r.wire))
        /\ Follows(g, Head(r.wire)[1])
        /\ r.sent = 0 => Head(r.wire)[1].ep < r.ep /\ Len(r.q) = r.n

(* What the host has received last: the command before the queue, or, when *)
(* nothing of this epoch has left the queue, one of an earlier epoch.      *)
GotOK(r, g) ==
    /\ InOrderSeq(g)
    /\ IF Len(r.q) = r.n
       THEN g # <<>> => g[Len(g)].ep < r.ep
       ELSE g # <<>> /\ g[Len(g)].ep = r.ep /\ g[Len(g)].n = r.n - Len(r.q)

(* x_retries is 1, so that no message is sent twice.                       *)
RtryOK(r) == r.rtry \in {0, 1} /\ (r.rfnm => r.rtry = 1)

OrderOK(r, g) ==
    QueueOK(r) /\ SentOK(r) /\ WireOK(r, g) /\ GotOK(r, g) /\ RtryOK(r)

(* The RFNM discipline.                                                    *)
LinkOK(r) == r \in HostRec /\ Len(r.wire) = IF r.rfnm THEN 1 ELSE 0

(* A set of hosts has a least member.                                      *)
LEMMA MinHost ==
    ASSUME NEW S \in SUBSET Host, S # {}
    PROVE  Min(S) \in S
<1>1. S \subseteq Nat
  BY DEF Host
<1>2. PICK x \in S : \A y \in S : ~(<<y, x>> \in OpToRel(<, Nat))
  BY <1>1, NatLessThanWellFounded, WFMin
<1>3. \A y \in S : ~(y < x)
  BY <1>1, <1>2, Zenon DEF OpToRel
<1>4. \A y \in S : x <= y
  BY <1>1, <1>3
<1> QED
  BY <1>4 DEF Min

(* Min of two numbers, as send_pro() and ir_rfnm() use it.                 *)
LEMMA MinOfTwo ==
    ASSUME NEW a \in Nat, NEW b \in Nat
    PROVE  Min({a, b}) = IF a <= b THEN a ELSE b
BY DEF Min

(* A prefix does not change when the sequence grows.                       *)
LEMMA SubSeqPrefix ==
    ASSUME NEW S, NEW s \in Seq(S), NEW t \in Seq(S), NEW k \in 0 .. Len(s), Len(s) <= Len(t),
           \A i \in 1 .. Len(s) : t[i] = s[i]
    PROVE  SubSeq(t, 1, k) = SubSeq(s, 1, k)
<1>1. Len(s) \in Nat /\ Len(t) \in Nat
  OBVIOUS
<1>2. \A i \in 1 .. k : s[i] \in S /\ t[i] = s[i]
  BY <1>1
<1>3. /\ SubSeq(s, 1, k) \in Seq(S) /\ Len(SubSeq(s, 1, k)) = k
      /\ \A i \in 1 .. k : SubSeq(s, 1, k)[i] = s[i]
  BY <1>1, <1>2, SubSeqProperties
<1>4. /\ SubSeq(t, 1, k) \in Seq(S) /\ Len(SubSeq(t, 1, k)) = k
      /\ \A i \in 1 .. k : SubSeq(t, 1, k)[i] = t[i]
  BY <1>1, <1>2, SubSeqProperties
<1> QED
  BY <1>2, <1>3, <1>4, SeqEqual

(* What is left of a sequence when its first k elements go.                *)
LEMMA Suffix ==
    ASSUME NEW S, NEW s \in Seq(S), NEW k \in 0 .. Len(s),
           NEW t, t = SubSeq(s, k + 1, Len(s))
    PROVE  /\ Len(t) = Len(s) - k
           /\ \A i \in 1 .. Len(s) - k : t[i] = s[k + i]
<1>1. Len(s) \in Nat /\ k \in Nat /\ k <= Len(s)
  OBVIOUS
<1>2. Len(t) = Len(s) - k
  BY <1>1
<1>3. ASSUME NEW i \in 1 .. Len(s) - k PROVE t[i] = s[k + i]
  BY <1>1
<1> QED
  BY <1>2, <1>3

(* qup_pro() adds a command with the next number, and changes nothing      *)
(* else.                                                                   *)
LEMMA QupPro ==
    ASSUME NEW r \in HostRec, r.n < MaxCmd, NEW op \in {"rst", "rrp", "cmd"}
    PROVE  /\ qup_pro(r, op) \in HostRec
           /\ qup_pro(r, op).q = Append(r.q, [op |-> op, ep |-> r.ep, n |-> r.n + 1])
           /\ qup_pro(r, op).n = r.n + 1
           /\ qup_pro(r, op).sent = r.sent
           /\ qup_pro(r, op).rtry = r.rtry
           /\ qup_pro(r, op).up = r.up
           /\ qup_pro(r, op).rfnm = r.rfnm
           /\ qup_pro(r, op).wire = r.wire
           /\ qup_pro(r, op).ep = r.ep
<1>1. [op |-> op, ep |-> r.ep, n |-> r.n + 1] \in Cmd
  BY SendProAssumption DEF HostRec, Cmd
<1>2. r.n + 1 \in 0 .. MaxCmd
  BY SendProAssumption DEF HostRec
<1>3. Append(r.q, [op |-> op, ep |-> r.ep, n |-> r.n + 1]) \in Seq(Cmd)
  BY <1>1 DEF HostRec
<1> QED
  BY <1>2, <1>3 DEF HostRec, qup_pro

(* What send_pro() does when it may send.                                  *)
LEMMA SendHead ==
    ASSUME NEW r, LinkOK(r), ~r.rfnm, r.q # <<>>
    PROVE  \E k \in 1 .. Len(r.q) :
             /\ send_pro(r) \in HostRec
             /\ send_pro(r).rfnm
             /\ Len(send_pro(r).wire) = 1
             /\ Head(send_pro(r).wire) = SubSeq(r.q, 1, k)
             /\ send_pro(r).sent = r.sent + k
             /\ send_pro(r).rtry = IF r.rtry = 0 THEN XRetries ELSE r.rtry
             /\ send_pro(r).q = r.q
             /\ send_pro(r).up = r.up
             /\ send_pro(r).ep = r.ep
             /\ send_pro(r).n = r.n
<1> DEFINE k == Min({Len(r.q), PerMsg})
           m == SubSeq(r.q, 1, k)
           x == [r EXCEPT !.sent = @ + k,
                          !.rtry = IF @ = 0 THEN XRetries ELSE @,
                          !.wire = Append(@, m),
                          !.rfnm = TRUE]
<1>1. r \in HostRec /\ r.q \in Seq(Cmd) /\ r.sent \in Nat /\ Len(r.q) \in Nat \ {0}
  BY EmptySeq DEF LinkOK, HostRec
<1>2. k \in 1 .. Len(r.q)
  BY <1>1, MinOfTwo, SendProAssumption
<1>3. send_pro(r) = x
  BY DEF send_pro
<1> HIDE DEF k
<1>4. m \in Seq(Cmd)
  BY <1>1, <1>2
<1> HIDE DEF m
<1>5. r.wire \in Seq(Seq(Cmd)) /\ Len(r.wire) = 0
  BY DEF LinkOK, HostRec
<1>6. /\ Append(r.wire, m) \in Seq(Seq(Cmd)) /\ Len(Append(r.wire, m)) = 1
      /\ Head(Append(r.wire, m)) = m
  BY <1>4, <1>5, AppendProperties, HeadTailAppend, EmptySeq
<1>7. /\ r.sent + k \in Nat
      /\ (IF r.rtry = 0 THEN XRetries ELSE r.rtry) \in Int
  BY <1>1, <1>2, SendProAssumption DEF HostRec
<1>8. /\ x \in HostRec /\ x.rfnm /\ x.wire = Append(r.wire, m)
      /\ x.q = r.q /\ x.up = r.up /\ x.ep = r.ep /\ x.n = r.n
      /\ x.sent = r.sent + k /\ x.rtry = IF r.rtry = 0 THEN XRetries ELSE r.rtry
  BY <1>1, <1>6, <1>7 DEF HostRec
<1> HIDE DEF x
<1> QED
  BY <1>2, <1>3, <1>6, <1>8 DEF m

(* send_pro() keeps the RFNM discipline, and leaves nothing stranded.      *)
LEMMA SendLink ==
    ASSUME NEW r, LinkOK(r)
    PROVE  /\ LinkOK(send_pro(r))
           /\ send_pro(r).q # <<>> => send_pro(r).rfnm
           /\ send_pro(r).q = r.q
           /\ send_pro(r).up = r.up
           /\ send_pro(r).ep = r.ep
           /\ send_pro(r).n = r.n
<1>1. CASE r.rfnm \/ r.q = <<>>
  BY <1>1 DEF send_pro
<1>2. CASE ~r.rfnm /\ r.q # <<>>
  BY <1>2, SendHead DEF LinkOK
<1> QED
  BY <1>1, <1>2

(* h_dead() starts a new epoch with an empty queue.                        *)
LEMMA HDead ==
    ASSUME NEW r \in HostRec, CanFlush(r)
    PROVE  /\ h_dead(r) \in HostRec
           /\ h_dead(r).q = <<>> /\ h_dead(r).sent = 0 /\ h_dead(r).up = FALSE
           /\ h_dead(r).ep = r.ep + 1 /\ h_dead(r).n = 0
           /\ h_dead(r).rtry = r.rtry
           /\ h_dead(r).rfnm = r.rfnm
           /\ h_dead(r).wire = r.wire
<1>1. r.ep + 1 \in 0 .. MaxEpoch /\ 0 \in 0 .. MaxCmd /\ <<>> \in Seq(Cmd)
  BY SendProAssumption DEF HostRec, CanFlush
<1> QED
  BY <1>1 DEF HostRec, h_dead

(* The head of a message in flight, and what is left when it is answered.  *)
LEMMA Wire ==
    ASSUME NEW r, LinkOK(r), r.wire # <<>>
    PROVE  r.rfnm /\ Head(r.wire) \in Seq(Cmd) /\ Tail(r.wire) = <<>>
<1>1. r.wire \in Seq(Seq(Cmd))
  BY DEF LinkOK, HostRec
<1>2. r.rfnm /\ Len(r.wire) = 1
  BY <1>1, EmptySeq DEF LinkOK
<1>3. Tail(r.wire) \in Seq(Seq(Cmd)) /\ Len(Tail(r.wire)) = 0
  BY <1>1, <1>2, HeadTailProperties
<1> QED
  BY <1>1, <1>2, <1>3, HeadTailProperties, EmptySeq

(* The record after an RFNM has its type.                                  *)
LEMMA AnsweredRec ==
    ASSUME NEW r \in HostRec, NEW q \in Seq(Cmd), NEW w \in Seq(Seq(Cmd)), NEW t \in Int
    PROVE  [r EXCEPT !.rtry = t, !.rfnm = FALSE, !.wire = w, !.q = q, !.sent = 0] \in HostRec
BY DEF HostRec

(* An RFNM ends what is outstanding, and takes the head of the queue.      *)
LEMMA RfnmDoneLink ==
    ASSUME NEW r, LinkOK(r), r.wire # <<>>
    PROVE  /\ LinkOK(RfnmDone(r))
           /\ RfnmDone(r).q = SubSeq(r.q, Min({r.sent, Len(r.q)}) + 1, Len(r.q))
           /\ RfnmDone(r).sent = 0 /\ RfnmDone(r).rtry = 0
           /\ RfnmDone(r).rfnm = FALSE
           /\ RfnmDone(r).up = r.up
           /\ RfnmDone(r).ep = r.ep
           /\ RfnmDone(r).n = r.n
<1>1. r \in HostRec /\ r.q \in Seq(Cmd) /\ r.sent \in Nat /\ Len(r.q) \in Nat
  BY DEF LinkOK, HostRec
<1> DEFINE j == Min({r.sent, Len(r.q)})
<1>2. j \in 0 .. Len(r.q)
  BY <1>1, MinOfTwo
<1> HIDE DEF j
<1>3. SubSeq(r.q, j + 1, Len(r.q)) \in Seq(Cmd)
  BY <1>1, <1>2
<1>4. Tail(r.wire) = <<>> /\ <<>> \in Seq(Seq(Cmd)) /\ Len(<<>>) = 0
  BY Wire
<1> DEFINE u == SubSeq(r.q, j + 1, Len(r.q))
           x == [r EXCEPT !.rtry = 0, !.rfnm = FALSE, !.wire = <<>>, !.q = u, !.sent = 0]
<1>5. RfnmDone(r) = x
  BY <1>4 DEF RfnmDone, j
<1> HIDE DEF u
<1>6. /\ x.wire = <<>> /\ x.rfnm = FALSE
      /\ x.q = u /\ x.sent = 0 /\ x.rtry = 0
      /\ x.up = r.up /\ x.ep = r.ep /\ x.n = r.n
  BY <1>1 DEF HostRec
<1>7. x \in HostRec
  <2>1. u \in Seq(Cmd)
    BY <1>3 DEF u
  <2>2. r \in HostRec /\ <<>> \in Seq(Seq(Cmd))
    BY <1>1, <1>4
  <2> QED
    <3>1. 0 \in Int
      OBVIOUS
    <3> QED
      BY <2>1, <2>2, <3>1, AnsweredRec, Zenon
<1> HIDE DEF x
<1> QED
  BY <1>4, <1>5, <1>6, <1>7 DEF LinkOK, j, u

(* What holds of a host at any time: its record r, and what it received, g.*)
HostInv(r, g) ==
    /\ LinkOK(r)
    /\ g \in Seq(Cmd)
    /\ XRetries = 1 => OrderOK(r, g)

(* Not so between qup_pro() and send_pro().                                *)
NotStranded(r) == r.q # <<>> => r.rfnm

(* Types of the fields of a record.                                        *)
LEMMA RecTypes ==
    ASSUME NEW r \in HostRec
    PROVE  /\ r.q \in Seq(Cmd) /\ Len(r.q) \in Nat
           /\ \A i \in 1 .. Len(r.q) : r.q[i].ep \in Nat /\ r.q[i].n \in Nat
           /\ r.sent \in Nat /\ r.rtry \in Int /\ r.ep \in Nat /\ r.n \in Nat
           /\ r.wire \in Seq(Seq(Cmd))
<1>1. r.q \in Seq(Cmd) /\ Len(r.q) \in Nat
  BY DEF HostRec
<1>2. ASSUME NEW i \in 1 .. Len(r.q) PROVE r.q[i].ep \in Nat /\ r.q[i].n \in Nat
  <2>1. r.q[i] \in Cmd
    BY <1>1
  <2> QED
    BY <2>1, SendProAssumption DEF Cmd
<1> QED
  BY <1>1, <1>2, SendProAssumption DEF HostRec

(* Queueing a command keeps the invariant of its host.                     *)
LEMMA QupHost ==
    ASSUME NEW r, NEW g, HostInv(r, g), r.n < MaxCmd, NEW op \in {"rst", "rrp", "cmd"}
    PROVE  /\ HostInv(qup_pro(r, op), g)
           /\ qup_pro(r, op).n = r.n + 1 /\ qup_pro(r, op).ep = r.ep
<1> DEFINE c == [op |-> op, ep |-> r.ep, n |-> r.n + 1]
           x == qup_pro(r, op)
<1>1. r \in HostRec /\ LinkOK(r) /\ g \in Seq(Cmd)
  BY DEF HostInv, LinkOK
<1>2. /\ x \in HostRec /\ x.q = Append(r.q, c) /\ x.n = r.n + 1
      /\ x.sent = r.sent /\ x.rtry = r.rtry /\ x.rfnm = r.rfnm
      /\ x.wire = r.wire /\ x.ep = r.ep
  BY <1>1, QupPro
<1>3. c.ep = r.ep /\ c.n = r.n + 1
  OBVIOUS
<1> HIDE DEF x, c
<1>4. LinkOK(x)
  BY <1>1, <1>2 DEF LinkOK
<1>5. ASSUME OrderOK(r, g) PROVE OrderOK(x, g)
  <2>1. /\ r.q \in Seq(Cmd) /\ Len(r.q) \in Nat /\ r.n \in Nat /\ r.sent \in Nat
    BY <1>1, RecTypes
  <2>2. /\ Len(x.q) = Len(r.q) + 1
        /\ \A i \in 1 .. Len(r.q) : x.q[i] = r.q[i]
        /\ x.q[Len(r.q) + 1] = c
    BY <1>2, <2>1
  <2>3. QueueOK(x)
    <3>1. \A i \in 1 .. Len(x.q) : i \in 1 .. Len(r.q) \/ i = Len(r.q) + 1
      BY <2>1, <2>2
    <3>2. /\ Len(r.q) <= r.n
          /\ \A i \in 1 .. Len(r.q) : r.q[i].ep = r.ep /\ r.q[i].n = r.n - Len(r.q) + i
      BY <1>5 DEF QueueOK, OrderOK
    <3>3. Len(x.q) <= x.n
      BY <1>2, <2>1, <2>2, <3>2
    <3>4. ASSUME NEW i \in 1 .. Len(r.q)
          PROVE  x.q[i].ep = x.ep /\ x.q[i].n = x.n - Len(x.q) + i
      <4>1. r.q[i].ep = r.ep /\ r.q[i].n = r.n - Len(r.q) + i /\ x.q[i] = r.q[i]
        BY <2>2, <3>2
      <4>2. x.n = r.n + 1 /\ x.ep = r.ep /\ Len(x.q) = Len(r.q) + 1
        BY <1>2, <2>2
      <4>3. i \in Int /\ Len(r.q) \in Int /\ r.n \in Int
        BY <2>1
      <4> QED
        BY <4>1, <4>2, <4>3, SMTT(30)
    <3>5. x.q[Len(x.q)].ep = x.ep /\ x.q[Len(x.q)].n = x.n - Len(x.q) + Len(x.q)
      BY <1>2, <1>3, <2>1, <2>2
    <3> QED
      BY <2>2, <3>1, <3>3, <3>4, <3>5 DEF QueueOK
  <2>4. r.sent <= Len(r.q) => SubSeq(x.q, 1, r.sent) = SubSeq(r.q, 1, r.sent)
    <3>1. x.q \in Seq(Cmd) /\ Len(r.q) <= Len(x.q)
      BY <1>2, <2>1, <2>2 DEF HostRec
    <3> SUFFICES ASSUME r.sent <= Len(r.q)
                 PROVE  SubSeq(x.q, 1, r.sent) = SubSeq(r.q, 1, r.sent)
      OBVIOUS
    <3>2. r.sent \in 0 .. Len(r.q)
      BY <2>1
    <3> QED
      BY <2>1, <2>2, <3>1, <3>2, SubSeqPrefix
  <2>5. SentOK(x)
    BY <1>2, <1>5, <2>1, <2>2, <2>4 DEF SentOK, OrderOK
  <2>6. /\ x.n - Len(x.q) = r.n - Len(r.q)
        /\ Len(x.q) = x.n <=> Len(r.q) = r.n
    <3>1. x.n = r.n + 1 /\ Len(x.q) = Len(r.q) + 1
      BY <1>2, <2>2
    <3>2. Len(r.q) \in Int /\ r.n \in Int
      BY <2>1
    <3> QED
      BY <3>1, <3>2
  <2>7. WireOK(x, g)
    BY <1>2, <1>5, <2>6 DEF WireOK, OrderOK
  <2>8. GotOK(x, g)
    BY <1>2, <1>5, <2>6 DEF GotOK, OrderOK
  <2>9. RtryOK(x)
    BY <1>2, <1>5 DEF RtryOK, OrderOK
  <2> QED
    BY <2>3, <2>5, <2>7, <2>8, <2>9 DEF OrderOK
<1> QED
  BY <1>1, <1>2, <1>4, <1>5 DEF HostInv, x

(* A prefix of the queue is a message of consecutive commands.             *)
LEMMA PrefixConsecutive ==
    ASSUME NEW r \in HostRec, QueueOK(r), NEW k \in 1 .. Len(r.q),
           NEW m, m = SubSeq(r.q, 1, k)
    PROVE  /\ m \in Seq(Cmd) /\ Len(m) = k /\ m # <<>>
           /\ Consecutive(m)
           /\ m[1].ep = r.ep /\ m[1].n = r.n - Len(r.q) + 1
<1>1. r.q \in Seq(Cmd) /\ Len(r.q) \in Nat /\ r.n \in Nat
  BY RecTypes
<1>2. \A i \in 1 .. k : r.q[i] \in Cmd
  BY <1>1
<1>3. m \in Seq(Cmd) /\ Len(m) = k /\ \A i \in 1 .. k : m[i] = r.q[i]
  <2>1. m \in Seq(Cmd)
    BY <1>1
  <2>2. Len(m) = k
    BY <1>1
  <2>3. \A i \in 1 .. k : m[i] = r.q[i]
    BY <1>1
  <2> QED
    BY <2>1, <2>2, <2>3
<1>4. ASSUME NEW i \in 1 .. k
      PROVE  m[i].ep = r.ep /\ m[i].n = r.n - Len(r.q) + i
  <2>1. i \in 1 .. Len(r.q)
    BY <1>1
  <2> QED
    BY <1>3, <2>1 DEF QueueOK
<1>5. 1 \in 1 .. k /\ k \in Nat \ {0}
  BY <1>1
<1>6. m # <<>>
  BY <1>3, <1>5, EmptySeq
<1>7. m[1].ep = r.ep /\ m[1].n = r.n - Len(r.q) + 1
  BY <1>4, <1>5
<1>8. Consecutive(m)
  <2> SUFFICES ASSUME NEW i \in 1 .. k
               PROVE  m[i].ep = m[1].ep /\ m[i].n = m[1].n + i - 1
    BY <1>3 DEF Consecutive
  <2> QED
    BY <1>1, <1>4, <1>7
<1> QED
  BY <1>3, <1>6, <1>7, <1>8

(* So does sending: what is sent comes next at the host.                   *)
LEMMA SendHost ==
    ASSUME NEW r, NEW g, HostInv(r, g)
    PROVE  HostInv(send_pro(r), g)
<1> DEFINE x == send_pro(r)
<1>1. CASE r.rfnm \/ r.q = <<>>
  BY <1>1 DEF send_pro
<1>2. CASE ~r.rfnm /\ r.q # <<>>
  <2>1. LinkOK(x)
    BY SendLink DEF HostInv
  <2>2. PICK k \in 1 .. Len(r.q) :
             /\ x.rfnm
             /\ Head(x.wire) = SubSeq(r.q, 1, k)
             /\ x.sent = r.sent + k
             /\ x.rtry = IF r.rtry = 0 THEN XRetries ELSE r.rtry
             /\ x.q = r.q /\ x.ep = r.ep /\ x.n = r.n
    BY <1>2, SendHead DEF HostInv
  <2> HIDE DEF x
  <2>3. ASSUME XRetries = 1, OrderOK(r, g) PROVE OrderOK(x, g)
    <3>1. r \in HostRec
      BY DEF HostInv, LinkOK
    <3>2. r.q \in Seq(Cmd) /\ Len(r.q) \in Nat /\ r.n \in Nat /\ k \in Nat \ {0}
      BY <3>1, RecTypes
    <3>3. x.sent = k
      BY <1>2, <2>2, <2>3, <3>2 DEF OrderOK, SentOK
    <3>4. QueueOK(x)
      BY <2>2, <2>3 DEF OrderOK, QueueOK
    <3>5. SentOK(x)
      BY <2>2, <3>2, <3>3 DEF SentOK
    <3> DEFINE m == Head(x.wire)
    <3>6. /\ m # <<>> /\ Consecutive(m)
          /\ m[1].ep = r.ep /\ m[1].n = r.n - Len(r.q) + 1
      BY <2>2, <2>3, <3>1, PrefixConsecutive DEF OrderOK
    <3> HIDE DEF m
    <3>7. Follows(g, m[1])
      <4>1. QueueOK(r) /\ GotOK(r, g)
        BY <2>3 DEF OrderOK
      <4>2. CASE Len(r.q) = r.n
        <5>1. g # <<>> => g[Len(g)].ep < r.ep
          BY <4>1, <4>2 DEF GotOK
        <5>2. g # <<>> => g[Len(g)].ep \in Nat
          <6>1. g \in Seq(Cmd)
            BY DEF HostInv
          <6>2. g # <<>> => g[Len(g)] \in Cmd
            BY <6>1
          <6> QED
            BY <6>2, SendProAssumption DEF Cmd
        <5>3. r.ep \in Nat /\ m[1].n = 1
          BY <3>1, <3>2, <3>6, <4>2, RecTypes
        <5> QED
          BY <3>6, <5>1, <5>2, <5>3 DEF Follows
      <4>3. CASE Len(r.q) # r.n
        BY <3>2, <3>6, <4>1, <4>3 DEF Follows, GotOK
      <4> QED
        BY <4>2, <4>3
    <3>8. WireOK(x, g)
      BY <3>2, <3>3, <3>6, <3>7 DEF WireOK, m
    <3>9. GotOK(x, g)
      BY <2>2, <2>3 DEF OrderOK, GotOK
    <3>10. RtryOK(x)
      BY <2>2, <2>3 DEF OrderOK, RtryOK
    <3> QED
      BY <3>4, <3>5, <3>8, <3>9, <3>10 DEF OrderOK
  <2> QED
    BY <2>1, <2>3 DEF HostInv, x
<1> QED
  BY <1>1, <1>2

(* A message in flight is of this epoch or of an earlier one.              *)
LEMMA MsgEpoch ==
    ASSUME NEW r, NEW g, HostInv(r, g), OrderOK(r, g), r.rfnm
    PROVE  /\ Head(r.wire) \in Seq(Cmd)
           /\ Head(r.wire)[1].ep \in Nat /\ Head(r.wire)[1].ep < r.ep + 1
<1>1. r \in HostRec /\ LinkOK(r)
  BY DEF HostInv, LinkOK
<1>2. r.ep \in Nat /\ r.n \in Nat /\ r.sent \in Nat /\ Len(r.q) \in Nat
  BY <1>1, RecTypes
<1>3. Head(r.wire) \in Seq(Cmd) /\ Head(r.wire) # <<>>
  BY <1>1, EmptySeq, HeadTailProperties DEF OrderOK, WireOK, LinkOK, HostRec
<1>4. Head(r.wire)[1] \in Cmd
  BY <1>3
<1>5. Head(r.wire)[1].ep \in Nat
  BY <1>4, SendProAssumption DEF Cmd
<1>6. CASE r.sent = 0
  BY <1>2, <1>3, <1>5, <1>6 DEF OrderOK, WireOK
<1>7. CASE r.sent # 0
  <2>1. Head(r.wire) = SubSeq(r.q, 1, r.sent) /\ r.sent \in 1 .. Len(r.q)
    BY <1>2, <1>7 DEF OrderOK, SentOK
  <2>2. QueueOK(r)
    BY DEF OrderOK
  <2>3. Head(r.wire)[1].ep = r.ep
    BY <1>1, <2>1, <2>2, PrefixConsecutive, ZenonT(30)
  <2> QED
    BY <1>2, <1>3, <1>5, <2>3
<1> QED
  BY <1>6, <1>7

(* Flushing keeps it: a message that is in flight becomes one of an        *)
(* earlier epoch.                                                          *)
LEMMA DeadHost ==
    ASSUME NEW r, NEW g, HostInv(r, g), CanFlush(r)
    PROVE  HostInv(h_dead(r), g)
<1> DEFINE x == h_dead(r)
<1>1. r \in HostRec /\ LinkOK(r) /\ g \in Seq(Cmd)
  BY DEF HostInv, LinkOK
<1>2. /\ x \in HostRec /\ x.q = <<>> /\ x.sent = 0 /\ x.ep = r.ep + 1 /\ x.n = 0
      /\ x.rtry = r.rtry /\ x.rfnm = r.rfnm /\ x.wire = r.wire
  BY <1>1, HDead
<1> HIDE DEF x
<1>3. LinkOK(x)
  BY <1>1, <1>2 DEF LinkOK
<1>4. ASSUME OrderOK(r, g) PROVE OrderOK(x, g)
  <2>1. r.ep \in Nat /\ r.n \in Nat /\ r.sent \in Nat /\ Len(r.q) \in Nat
    BY <1>1, RecTypes
  <2>2. Len(x.q) = 0
    BY <1>2
  <2>3. QueueOK(x) /\ SentOK(x) /\ RtryOK(x)
    BY <1>2, <1>4, <2>2 DEF QueueOK, SentOK, RtryOK, OrderOK
  <2>4. g # <<>> => g[Len(g)].ep <= r.ep /\ g[Len(g)].ep \in Nat
    <3>1. g # <<>> => g[Len(g)] \in Cmd
      BY <1>1
    <3>2. g # <<>> => g[Len(g)].ep \in Nat
      BY <3>1, SendProAssumption DEF Cmd
    <3> QED
      BY <1>4, <2>1, <3>2 DEF OrderOK, GotOK
  <2>5. GotOK(x, g)
    BY <1>2, <1>4, <2>1, <2>2, <2>4 DEF GotOK, OrderOK
  <2>6. r.rfnm => Head(r.wire)[1].ep < r.ep + 1
    BY <1>4, MsgEpoch
  <2>7. WireOK(x, g)
    BY <1>2, <1>4, <2>2, <2>6 DEF WireOK, OrderOK
  <2> QED
    BY <2>3, <2>5, <2>7 DEF OrderOK
<1> QED
  BY <1>1, <1>3, <1>4 DEF HostInv, x

(* Marking a host alive or dead does not touch its queue.                  *)
LEMMA UpHost ==
    ASSUME NEW r, NEW g, HostInv(r, g), NEW b \in BOOLEAN
    PROVE  HostInv([r EXCEPT !.up = b], g)
<1> DEFINE x == [r EXCEPT !.up = b]
<1>1. r \in HostRec
  BY DEF HostInv, LinkOK
<1>2. /\ x \in HostRec /\ x.q = r.q /\ x.sent = r.sent /\ x.ep = r.ep /\ x.n = r.n
      /\ x.rtry = r.rtry /\ x.rfnm = r.rfnm /\ x.wire = r.wire
  BY <1>1 DEF HostRec
<1> HIDE DEF x
<1>3. LinkOK(x)
  BY <1>2 DEF LinkOK, HostInv
<1>4. OrderOK(r, g) => OrderOK(x, g)
  BY <1>2 DEF OrderOK, QueueOK, SentOK, WireOK, GotOK, RtryOK
<1> QED
  BY <1>3, <1>4 DEF HostInv, x

(* A command is queued and sent.                                           *)
LEMMA QueueAndSend ==
    ASSUME NEW r, NEW g, HostInv(r, g), r.n < MaxCmd, NEW op \in {"rst", "rrp", "cmd"}
    PROVE  /\ HostInv(send_pro(qup_pro(r, op)), g)
           /\ NotStranded(send_pro(qup_pro(r, op)))
           /\ send_pro(qup_pro(r, op)).n = r.n + 1
<1>1. HostInv(qup_pro(r, op), g) /\ qup_pro(r, op).n = r.n + 1
  BY QupHost
<1> QED
  BY <1>1, SendHost, SendLink DEF HostInv, NotStranded

(* chk_host() queues one reset at most.                                    *)
LEMMA ChkHost ==
    ASSUME NEW r, NEW g, HostInv(r, g), r.n < MaxCmd
    PROVE  /\ HostInv(chk_host(r), g)
           /\ chk_host(r).n \in r.n .. r.n + 1
           /\ NotStranded(r) => NotStranded(chk_host(r))
<1>1. r.n \in Nat
  BY RecTypes DEF HostInv, LinkOK
<1> DEFINE x == qup_pro(r, "rst")
<1>2. HostInv(x, g) /\ x.n = r.n + 1
  BY QupHost
<1> HIDE DEF x
<1>3. HostInv(send_pro(x), g) /\ send_pro(x).n = x.n /\ NotStranded(send_pro(x))
  BY <1>2, SendHost, SendLink DEF HostInv, NotStranded
<1> QED
  BY <1>1, <1>2, <1>3 DEF chk_host, x

(* A host receives a message that comes next.                              *)
LEMMA Receive ==
    ASSUME NEW g \in Seq(Cmd), NEW m \in Seq(Cmd), m # <<>>,
           InOrderSeq(g), Consecutive(m), Follows(g, m[1])
    PROVE  /\ g \o m \in Seq(Cmd) /\ g \o m # <<>>
           /\ InOrderSeq(g \o m)
           /\ (g \o m)[Len(g \o m)] = m[Len(m)]
           /\ m[Len(m)].ep = m[1].ep /\ m[Len(m)].n = m[1].n + Len(m) - 1
<1> DEFINE s == g \o m
<1>1. Len(g) \in Nat /\ Len(m) \in Nat \ {0}
  BY EmptySeq
<1>2. /\ s \in Seq(Cmd) /\ Len(s) = Len(g) + Len(m)
      /\ \A i \in 1 .. Len(g) : s[i] = g[i]
      /\ \A i \in 1 .. Len(m) : s[Len(g) + i] = m[i]
  BY <1>1
<1>3. s # <<>>
  BY <1>1, <1>2, EmptySeq
<1> HIDE DEF s
<1>4. ASSUME NEW i \in 1 .. Len(s)
      PROVE  IF i > 1 /\ s[i].ep = s[i - 1].ep
             THEN s[i].n = s[i - 1].n + 1
             ELSE s[i].n = 1 /\ (i > 1 => s[i].ep > s[i - 1].ep)
  <2>1. CASE i <= Len(g)
    <3>1. i \in DOMAIN g /\ s[i] = g[i] /\ (i > 1 => s[i - 1] = g[i - 1])
      BY <1>1, <1>2, <2>1
    <3> QED
      BY <3>1 DEF InOrderSeq
  <2>2. CASE i = Len(g) + 1
    <3>1. s[i] = m[1]
      BY <1>1, <1>2, <2>2
    <3>2. CASE g = <<>>
      BY <1>1, <2>2, <3>1, <3>2 DEF Follows
    <3>3. CASE g # <<>>
      <4>1. i > 1 /\ s[i - 1] = g[Len(g)]
        BY <1>1, <1>2, <2>2, <3>3, EmptySeq
      <4> QED
        BY <3>1, <3>3, <4>1 DEF Follows
    <3> QED
      BY <3>2, <3>3
  <2>3. CASE i > Len(g) + 1
    <3> DEFINE j == i - Len(g)
    <3>1. j \in 1 .. Len(m) /\ j - 1 \in 1 .. Len(m) /\ i > 1
      BY <1>1, <1>2, <2>3
    <3>2. s[i] = m[j] /\ s[i - 1] = m[j - 1]
      <4>1. i = Len(g) + j /\ i - 1 = Len(g) + (j - 1)
        BY <1>1, <2>3
      <4> QED
        BY <1>2, <3>1, <4>1
    <3>3. /\ m[j].ep = m[1].ep /\ m[j].n = m[1].n + j - 1
          /\ m[j - 1].ep = m[1].ep /\ m[j - 1].n = m[1].n + (j - 1) - 1
      BY <3>1 DEF Consecutive
    <3>4. m[1].n \in Int
      <4>1. m[1] \in Cmd
        BY <1>1
      <4> QED
        BY <4>1 DEF Cmd
    <3>5. m[j].n = m[j - 1].n + 1
      BY <3>1, <3>3, <3>4, SMTT(30)
    <3> QED
      BY <3>1, <3>2, <3>3, <3>5
  <2> QED
    BY <1>1, <1>2, <2>1, <2>2, <2>3
<1>5. InOrderSeq(s)
  BY <1>2, <1>4, SMTT(30) DEF InOrderSeq
<1>6. s[Len(s)] = m[Len(m)]
  BY <1>1, <1>2
<1>7. m[Len(m)].ep = m[1].ep /\ m[Len(m)].n = m[1].n + Len(m) - 1
  BY <1>1 DEF Consecutive
<1> QED
  BY <1>2, <1>3, <1>5, <1>6, <1>7 DEF s

(* The RFNM of the message in flight.                                      *)
LEMMA DoneHost ==
    ASSUME NEW r, NEW g, HostInv(r, g), r.wire # <<>>
    PROVE  /\ HostInv(RfnmDone(r), g \o Head(r.wire))
           /\ RfnmDone(r).n = r.n /\ RfnmDone(r).ep = r.ep
<1> DEFINE x == RfnmDone(r)
           m == Head(r.wire)
           j == Min({r.sent, Len(r.q)})
<1>1. r \in HostRec /\ LinkOK(r) /\ g \in Seq(Cmd)
  BY DEF HostInv, LinkOK
<1>2. /\ LinkOK(x) /\ x.q = SubSeq(r.q, j + 1, Len(r.q))
      /\ x.sent = 0 /\ x.rtry = 0 /\ x.rfnm = FALSE
      /\ x.ep = r.ep /\ x.n = r.n
  BY <1>1, RfnmDoneLink
<1>3. r.rfnm /\ m \in Seq(Cmd)
  BY <1>1, Wire
<1>4. g \o m \in Seq(Cmd)
  BY <1>1, <1>3
<1> HIDE DEF x, m, j
<1>5. ASSUME OrderOK(r, g) PROVE OrderOK(x, g \o m)
  <2>1. /\ r.q \in Seq(Cmd) /\ Len(r.q) \in Nat /\ r.n \in Nat /\ r.sent \in Nat /\ r.ep \in Nat
    BY <1>1, RecTypes
  <2>2. /\ Len(r.q) <= r.n
        /\ \A i \in 1 .. Len(r.q) : r.q[i].ep = r.ep /\ r.q[i].n = r.n - Len(r.q) + i
    BY <1>5 DEF OrderOK, QueueOK
  <2>3. j = r.sent /\ r.sent <= Len(r.q)
    <3>1. r.sent <= Len(r.q)
      BY <1>5, <2>1 DEF OrderOK, SentOK
    <3> QED
      BY <2>1, <3>1, MinOfTwo DEF j
  <2>4. /\ Len(x.q) = Len(r.q) - r.sent
        /\ \A i \in 1 .. Len(r.q) - r.sent : x.q[i] = r.q[r.sent + i]
    <3>1. r.sent \in 0 .. Len(r.q)
      BY <2>1, <2>3
    <3>2. x.q = SubSeq(r.q, r.sent + 1, Len(r.q))
      BY <1>2, <2>3
    <3> DEFINE s == r.q
               k == r.sent
               t == x.q
    <3>3. s \in Seq(Cmd) /\ k \in 0 .. Len(s) /\ t = SubSeq(s, k + 1, Len(s))
      BY <2>1, <3>1, <3>2
    <3> HIDE DEF s, k, t
    <3>4. Len(t) = Len(s) - k /\ \A i \in 1 .. Len(s) - k : t[i] = s[k + i]
      BY <3>3, Suffix
    <3> QED
      BY <3>4 DEF s, k, t
  <2>5. QueueOK(x)
    <3>1. Len(x.q) <= x.n
      <4>1. x.n = r.n /\ Len(x.q) = Len(r.q) - r.sent /\ Len(r.q) <= r.n
        BY <1>2, <2>2, <2>4
      <4> QED
        BY <2>1, <4>1
    <3>2. ASSUME NEW i \in 1 .. Len(x.q)
          PROVE  x.q[i].ep = x.ep /\ x.q[i].n = x.n - Len(x.q) + i
      <4>1. r.sent + i \in 1 .. Len(r.q) /\ x.q[i] = r.q[r.sent + i]
        BY <2>1, <2>3, <2>4
      <4>2. /\ r.q[r.sent + i].ep = r.ep
            /\ r.q[r.sent + i].n = r.n - Len(r.q) + (r.sent + i)
        BY <2>2, <4>1
      <4>3. x.n - Len(x.q) + i = r.n - Len(r.q) + (r.sent + i)
        <5>1. x.n = r.n /\ Len(x.q) = Len(r.q) - r.sent
          BY <1>2, <2>4
        <5>2. i \in Int
          OBVIOUS
        <5> QED
          BY <2>1, <5>1, <5>2
      <4> QED
        BY <1>2, <4>1, <4>2, <4>3
    <3> QED
      BY <3>1, <3>2 DEF QueueOK
  <2>6. /\ g \o m # <<>>
        /\ InOrderSeq(g \o m)
        /\ (g \o m)[Len(g \o m)] = m[Len(m)]
        /\ m[Len(m)].ep = m[1].ep /\ m[Len(m)].n = m[1].n + Len(m) - 1
    <3>1. m # <<>> /\ Consecutive(m) /\ Follows(g, m[1]) /\ InOrderSeq(g)
      BY <1>3, <1>5 DEF OrderOK, WireOK, GotOK, m
    <3> QED
      BY <1>1, <1>3, <3>1, Receive
  <2>7. GotOK(x, g \o m)
    <3>1. CASE r.sent = 0
      <4>1. m[1].ep < r.ep /\ Len(r.q) = r.n
        BY <1>3, <1>5, <3>1 DEF OrderOK, WireOK, m
      <4>2. Len(x.q) = x.n
        <5>1. x.n = r.n /\ Len(x.q) = Len(r.q) - r.sent
          BY <1>2, <2>4
        <5> QED
          BY <2>1, <3>1, <4>1, <5>1
      <4> QED
        BY <1>2, <2>6, <4>1, <4>2 DEF GotOK
    <3>2. CASE r.sent # 0
      <4>1. m = SubSeq(r.q, 1, r.sent) /\ r.sent \in 1 .. Len(r.q) /\ QueueOK(r)
        BY <1>5, <2>1, <3>2 DEF OrderOK, SentOK, m
      <4>2. Len(m) = r.sent /\ m[1].ep = r.ep /\ m[1].n = r.n - Len(r.q) + 1
        BY <1>1, <4>1, PrefixConsecutive, ZenonT(30)
      <4>3. m[Len(m)].ep = x.ep /\ m[Len(m)].n = x.n - Len(x.q) /\ Len(x.q) # x.n
        <5>1. x.n = r.n /\ x.ep = r.ep /\ Len(x.q) = Len(r.q) - r.sent /\ Len(r.q) <= r.n
          BY <1>2, <2>2, <2>4
        <5>2. m[Len(m)].ep = r.ep /\ m[Len(m)].n = r.n - Len(r.q) + 1 + r.sent - 1
          BY <2>6, <4>2
        <5>3. /\ r.n - Len(r.q) + 1 + r.sent - 1 = r.n - (Len(r.q) - r.sent)
              /\ Len(r.q) <= r.n => Len(r.q) - r.sent # r.n
          BY <2>1, <3>2, SMTT(30)
        <5> QED
          BY <5>1, <5>2, <5>3
      <4> QED
        BY <2>6, <4>3 DEF GotOK
    <3> QED
      BY <3>1, <3>2
  <2>8. SentOK(x) /\ WireOK(x, g \o m) /\ RtryOK(x)
    BY <1>2 DEF SentOK, WireOK, RtryOK
  <2> QED
    BY <2>5, <2>7, <2>8 DEF OrderOK
<1> QED
  BY <1>2, <1>4, <1>5 DEF HostInv, x, m

(* The message in flight was answered with an error.                       *)
ErrorTaken(r) == [r EXCEPT !.rfnm = FALSE, !.wire = Tail(@), !.rtry = @ - 1]

(* An error ends what is outstanding as well, and counts a retry.          *)
LEMMA ErrorLink ==
    ASSUME NEW r, LinkOK(r), r.wire # <<>>
    PROVE  /\ LinkOK(ErrorTaken(r))
           /\ ErrorTaken(r).q = r.q /\ ErrorTaken(r).ep = r.ep /\ ErrorTaken(r).n = r.n
           /\ ErrorTaken(r).rtry = r.rtry - 1 /\ ErrorTaken(r).rfnm = FALSE
<1>1. r \in HostRec /\ r.rtry - 1 \in Int
  BY DEF LinkOK, HostRec
<1>2. Tail(r.wire) = <<>> /\ <<>> \in Seq(Seq(Cmd)) /\ Len(<<>>) = 0
  BY Wire
<1> DEFINE x == [r EXCEPT !.rfnm = FALSE, !.wire = <<>>, !.rtry = @ - 1]
<1>3. ErrorTaken(r) = x
  BY <1>2 DEF ErrorTaken
<1>4. /\ x \in HostRec /\ x.wire = <<>> /\ x.rfnm = FALSE /\ x.rtry = r.rtry - 1
      /\ x.q = r.q /\ x.ep = r.ep /\ x.n = r.n
  BY <1>1, <1>2 DEF HostRec
<1> HIDE DEF x
<1> QED
  BY <1>2, <1>3, <1>4 DEF LinkOK

(* A host is given up after an error, whether its message arrived or not.  *)
LEMMA LostHost ==
    ASSUME NEW r, NEW g, HostInv(r, g), r.wire # <<>>, CanFlush(r),
           NEW g2 \in {g, g \o Head(r.wire)}
    PROVE  HostInv(h_dead(ErrorTaken(r)), g2)
<1> DEFINE m == Head(r.wire)
           y == ErrorTaken(r)
           x == h_dead(y)
<1>1. r \in HostRec /\ LinkOK(r) /\ g \in Seq(Cmd)
  BY DEF HostInv, LinkOK
<1>2. r.rfnm /\ m \in Seq(Cmd)
  BY <1>1, Wire
<1>3. LinkOK(y) /\ y.ep = r.ep /\ y.rtry = r.rtry - 1 /\ y.rfnm = FALSE
  BY <1>1, ErrorLink
<1>4. y \in HostRec /\ CanFlush(y)
  BY <1>3 DEF LinkOK, CanFlush
<1> HIDE DEF y
<1>5. /\ x \in HostRec /\ x.q = <<>> /\ x.sent = 0 /\ x.ep = r.ep + 1 /\ x.n = 0
      /\ x.rtry = r.rtry - 1 /\ x.rfnm = FALSE /\ x.wire = y.wire
  BY <1>3, <1>4, HDead
<1> HIDE DEF x
<1>6. LinkOK(x)
  BY <1>3, <1>5 DEF LinkOK
<1>7. g2 \in Seq(Cmd)
  <2>1. g \o m \in Seq(Cmd)
    BY <1>1, <1>2
  <2> QED
    BY <1>1, <2>1
<1>8. ASSUME OrderOK(r, g) PROVE OrderOK(x, g2)
  <2>1. Len(x.q) = 0 /\ r.ep \in Nat
    BY <1>1, <1>5, RecTypes
  <2>2. QueueOK(x) /\ SentOK(x) /\ WireOK(x, g2)
    BY <1>5, <2>1 DEF QueueOK, SentOK, WireOK
  <2>3. RtryOK(x)
    BY <1>2, <1>5, <1>8 DEF OrderOK, RtryOK
  <2>4. m \in Seq(Cmd) /\ m[1].ep < r.ep + 1
    BY <1>2, <1>8, MsgEpoch
  <2>5. GotOK(x, g2)
    <3>1. CASE g2 = g
      <4>1. g # <<>> => g[Len(g)].ep \in Nat
        <5>1. g # <<>> => g[Len(g)] \in Cmd
          BY <1>1
        <5> QED
          BY <5>1, SendProAssumption DEF Cmd
      <4>2. InOrderSeq(g) /\ (g # <<>> => g[Len(g)].ep < r.ep + 1)
        BY <1>8, <2>1, <4>1 DEF OrderOK, GotOK
      <4> QED
        BY <1>5, <2>1, <3>1, <4>2 DEF GotOK
    <3>2. CASE g2 = g \o m
      <4>1. m # <<>> /\ Consecutive(m) /\ Follows(g, m[1]) /\ InOrderSeq(g)
        BY <1>2, <1>8 DEF OrderOK, WireOK, GotOK
      <4>2. /\ InOrderSeq(g \o m)
            /\ (g \o m)[Len(g \o m)].ep = m[1].ep
        BY <1>1, <1>2, <4>1, Receive
      <4> QED
        BY <1>5, <2>1, <2>4, <3>2, <4>2 DEF GotOK
    <3> QED
      BY <3>1, <3>2
  <2> QED
    BY <2>2, <2>3, <2>5 DEF OrderOK
<1> QED
  BY <1>6, <1>7, <1>8 DEF HostInv, x, y

-----------------------------------------------------------------------------
(* The invariant and its proof *)

(* The inductive invariant.                                                *)
SendInv ==
    /\ hs \in [Host -> HostRec]
    /\ got \in [Host -> Seq(Cmd)]
    /\ init_host \in 0 .. NHosts + 1
    /\ \A h \in Host :
        /\ HostInv(hs[h], got[h])
        /\ h > init_host => hs[h].n < MaxCmd
        /\ TimoHosts <= 1 => NotStranded(hs[h])

(* What an action has to show when it gives host h the record r, and host  *)
(* h has received g.                                                       *)
LEMMA OneHost ==
    ASSUME SendInv, NEW h \in Host, NEW r, NEW g,
           HostInv(r, g), TimoHosts <= 1 => NotStranded(r),
           h > init_host => r.n < MaxCmd,
           hs' = [hs EXCEPT ![h] = r], got' = [got EXCEPT ![h] = g],
           UNCHANGED init_host
    PROVE  SendInv'
<1>1. r \in HostRec /\ g \in Seq(Cmd)
  BY DEF HostInv, LinkOK
<1>2. hs' \in [Host -> HostRec] /\ got' \in [Host -> Seq(Cmd)]
  BY <1>1 DEF SendInv
<1>3. /\ \A k \in Host : hs'[k] = IF k = h THEN r ELSE hs[k]
      /\ \A k \in Host : got'[k] = IF k = h THEN g ELSE got[k]
  BY DEF SendInv
<1>4. ASSUME NEW k \in Host
      PROVE  /\ HostInv(hs'[k], got'[k])
             /\ k > init_host' => hs'[k].n < MaxCmd
             /\ TimoHosts <= 1 => NotStranded(hs'[k])
  BY <1>3 DEF SendInv
<1> QED
  BY <1>2, <1>4 DEF SendInv

(* The walk of rst_all() from the host that was answered, whose record is  *)
(* r now.  Hosts beyond the walk have room for the reset it queues.        *)
LEMMA RstAll ==
    ASSUME NEW s \in [Host -> HostRec], NEW from \in 0 .. NHosts, rst_all(s, from)
    PROVE  \/ hs' = s /\ init_host' = NHosts + 1
           \/ \E k \in Host : /\ k > from
                              /\ hs' = [s EXCEPT ![k] = chk_host(@)]
                              /\ init_host' = k
<1> DEFINE todo == RstNext(s, from)
<1>1. CASE todo = {}
  BY <1>1 DEF rst_all
<1>2. CASE todo # {}
  <2>1. todo \in SUBSET Host
    BY SendProAssumption DEF RstNext
  <2>2. Min(todo) \in todo
    BY <1>2, <2>1, MinHost
  <2>3. Min(todo) \in Host /\ Min(todo) > from
    BY <2>1, <2>2 DEF RstNext
  <2>4. hs' = [s EXCEPT ![Min(todo)] = chk_host(@)] /\ init_host' = Min(todo)
    BY <1>2 DEF rst_all
  <2> QED
    BY <2>3, <2>4
<1> QED
  BY <1>1, <1>2

(* The walk keeps the invariant if what is left to walk has room.          *)
LEMMA WalkHost ==
    ASSUME NEW s \in [Host -> HostRec], NEW from \in 0 .. NHosts, rst_all(s, from),
           got' \in [Host -> Seq(Cmd)],
           \A h \in Host : /\ HostInv(s[h], got'[h])
                           /\ h > from => s[h].n < MaxCmd
                           /\ TimoHosts <= 1 => NotStranded(s[h])
    PROVE  SendInv'
<1>1. CASE hs' = s /\ init_host' = NHosts + 1
  <2>1. \A h \in Host : ~(h > NHosts + 1)
    BY SendProAssumption DEF Host
  <2>2. NHosts + 1 \in 0 .. NHosts + 1
    BY SendProAssumption
  <2> QED
    BY <1>1, <2>1, <2>2 DEF SendInv
<1>2. ASSUME NEW k \in Host, k > from, hs' = [s EXCEPT ![k] = chk_host(@)], init_host' = k
      PROVE  SendInv'
  <2> DEFINE r == chk_host(s[k])
  <2>1. HostInv(r, got'[k]) /\ (TimoHosts <= 1 => NotStranded(r))
    BY <1>2, ChkHost
  <2>2. r \in HostRec
    BY <2>1 DEF HostInv, LinkOK
  <2> HIDE DEF r
  <2>3. hs' \in [Host -> HostRec] /\ \A h \in Host : hs'[h] = IF h = k THEN r ELSE s[h]
    BY <1>2, <2>2 DEF r
  <2>4. k \in 0 .. NHosts + 1 /\ \A h \in Host : h > k => h > from /\ h # k
    BY <1>2, SendProAssumption DEF Host
  <2>5. ASSUME NEW h \in Host
        PROVE  /\ HostInv(hs'[h], got'[h])
               /\ h > init_host' => hs'[h].n < MaxCmd
               /\ TimoHosts <= 1 => NotStranded(hs'[h])
    BY <1>2, <2>1, <2>3, <2>4
  <2> QED
    BY <1>2, <2>3, <2>4, <2>5 DEF SendInv
<1> QED
  BY <1>1, <1>2, RstAll

(* It holds when the daemon starts.                                        *)
LEMMA InitInv == Init => SendInv
<1> SUFFICES ASSUME Init PROVE SendInv
  OBVIOUS
<1> DEFINE r == [q |-> <<>>, sent |-> 0, rtry |-> 0, up |-> FALSE,
                 rfnm |-> FALSE, wire |-> <<>>, ep |-> 0, n |-> 0]
<1>1. /\ hs = [h \in Host |-> r]
      /\ got = [h \in Host |-> <<>>]
      /\ init_host = 0
  BY DEF Init
<1>2. /\ 0 \in 0 .. MaxEpoch /\ 0 \in 0 .. MaxCmd /\ 0 < MaxCmd
      /\ <<>> \in Seq(Cmd) /\ <<>> \in Seq(Seq(Cmd)) /\ Len(<<>>) = 0
  BY SendProAssumption
<1>3. r \in HostRec
  BY <1>2 DEF HostRec
<1>4. /\ r.q = <<>> /\ r.sent = 0 /\ r.rtry = 0 /\ r.rfnm = FALSE
      /\ r.wire = <<>> /\ r.ep = 0 /\ r.n = 0
  OBVIOUS
<1> HIDE DEF r
<1>5. LinkOK(r)
  BY <1>2, <1>3, <1>4 DEF LinkOK
<1>6. OrderOK(r, <<>>)
  <2>1. Len(r.q) = 0 /\ DOMAIN <<>> = {}
    BY <1>4
  <2> QED
    BY <1>4, <2>1 DEF OrderOK, QueueOK, SentOK, WireOK, GotOK, RtryOK, InOrderSeq
<1>7. HostInv(r, <<>>) /\ NotStranded(r) /\ r.n < MaxCmd
  BY <1>2, <1>4, <1>5, <1>6 DEF HostInv, NotStranded
<1>8. init_host \in 0 .. NHosts + 1
  BY <1>1, SendProAssumption
<1> QED
  BY <1>1, <1>2, <1>3, <1>7, <1>8 DEF SendInv

(* What the invariant says of one host.                                    *)
LEMMA HostFacts ==
    ASSUME SendInv, NEW h \in Host
    PROVE  /\ hs[h] \in HostRec /\ HostInv(hs[h], got[h]) /\ hs[h].n \in Nat
           /\ h > init_host => hs[h].n < MaxCmd
           /\ TimoHosts <= 1 => NotStranded(hs[h])
           /\ [got EXCEPT ![h] = got[h]] = got
           /\ h \in Nat /\ init_host \in Nat
<1>1. hs[h] \in HostRec /\ [got EXCEPT ![h] = got[h]] = got
  BY DEF SendInv
<1>2. h \in Nat /\ init_host \in Nat
  BY SendProAssumption DEF SendInv, Host
<1> QED
  BY <1>1, <1>2, RecTypes DEF SendInv

(* A handler that queues one command keeps the invariant.                  *)
LEMMA CommandInv ==
    ASSUME SendInv, NEW h \in Host, Command(h)
    PROVE  SendInv'
<1>1. PICK alive \in {hs[h].up, TRUE} :
        hs' = [hs EXCEPT ![h] = send_pro(qup_pro([@ EXCEPT !.up = alive], "cmd"))]
  BY DEF Command
<1> DEFINE r == [hs[h] EXCEPT !.up = alive]
           x == send_pro(qup_pro(r, "cmd"))
<1>2. alive \in BOOLEAN
  BY HostFacts DEF HostRec
<1>3. HostInv(r, got[h]) /\ r.n = hs[h].n
  BY <1>2, HostFacts, UpHost DEF HostRec
<1>4. hs[h].n + 1 < MaxCmd /\ hs[h].n \in Nat
  BY HostFacts DEF Command, Room
<1>5. hs[h].n < MaxCmd
  BY <1>4, SendProAssumption
<1> HIDE DEF r
<1>6. HostInv(x, got[h]) /\ NotStranded(x) /\ x.n < MaxCmd
  BY <1>3, <1>4, <1>5, QueueAndSend
<1>7. hs' = [hs EXCEPT ![h] = x] /\ UNCHANGED <<init_host, got>>
  BY <1>1 DEF Command, r
<1> HIDE DEF x
<1> QED
  BY <1>6, <1>7, HostFacts, OneHost

(* So does opening a connection, which may queue a reset before.           *)
LEMMA OpenInv ==
    ASSUME SendInv, NEW h \in Host, Open(h)
    PROVE  SendInv'
<1> DEFINE r == chk_host(hs[h])
           x == send_pro(qup_pro(r, "cmd"))
<1>1. hs[h].n + 2 < MaxCmd /\ hs[h].n \in Nat
  BY HostFacts DEF Open, Room
<1>2. hs[h].n < MaxCmd
  BY <1>1, SendProAssumption
<1>3. HostInv(r, got[h]) /\ r.n \in hs[h].n .. hs[h].n + 1
  BY <1>2, HostFacts, ChkHost
<1>4. r.n < MaxCmd /\ r.n + 1 < MaxCmd
  BY <1>1, <1>3, SendProAssumption
<1> HIDE DEF r
<1>5. HostInv(x, got[h]) /\ NotStranded(x) /\ x.n < MaxCmd
  BY <1>3, <1>4, QueueAndSend
<1>6. hs' = [hs EXCEPT ![h] = x] /\ UNCHANGED <<init_host, got>>
  BY DEF Open, r
<1> HIDE DEF x
<1> QED
  BY <1>5, <1>6, HostFacts, OneHost

(* An RFNM for link 0, with the walk that may go on.                       *)
LEMMA RfnmInv ==
    ASSUME SendInv, NEW h \in Host, ir_rfnm(h)
    PROVE  SendInv'
<1> DEFINE g == got[h] \o Head(hs[h].wire)
           d == RfnmDone(hs[h])
           x == send_pro(d)
           s == [hs EXCEPT ![h] = x]
<1>1. HostInv(d, g) /\ d.n = hs[h].n
  BY HostFacts, DoneHost DEF ir_rfnm
<1>2. HostInv(x, g) /\ NotStranded(x) /\ x.n = hs[h].n
  BY <1>1, SendHost, SendLink DEF HostInv, NotStranded
<1>3. x \in HostRec /\ g \in Seq(Cmd)
  BY <1>2 DEF HostInv, LinkOK
<1>4. got' = [got EXCEPT ![h] = g]
  BY DEF ir_rfnm
<1>5. IF h = init_host THEN rst_all(s, h) ELSE hs' = s /\ UNCHANGED init_host
  BY DEF ir_rfnm
<1> HIDE DEF g, d, x
<1>6. CASE h = init_host
  <2>1. s \in [Host -> HostRec] /\ got' \in [Host -> Seq(Cmd)]
    BY <1>3, <1>4 DEF SendInv
  <2>2. \A k \in Host : /\ s[k] = IF k = h THEN x ELSE hs[k]
                        /\ got'[k] = IF k = h THEN g ELSE got[k]
    BY <1>4 DEF SendInv
  <2>3. h \in 0 .. NHosts /\ ~(h > h)
    BY SendProAssumption DEF Host
  <2> HIDE DEF s
  <2>4. \A k \in Host : /\ HostInv(s[k], got'[k])
                        /\ k > h => s[k].n < MaxCmd
                        /\ TimoHosts <= 1 => NotStranded(s[k])
    BY <1>2, <1>6, <2>2, <2>3, HostFacts
  <2> QED
    BY <1>5, <1>6, <2>1, <2>3, <2>4, WalkHost
<1>7. CASE h # init_host
  BY <1>2, <1>4, <1>5, <1>7, HostFacts, OneHost
<1> QED
  BY <1>6, <1>7

(* An error for link 0: with x_retries at 1 the host is given up.          *)
LEMMA ErrorInv ==
    ASSUME SendInv, NEW h \in Host, ir_re_x(h)
    PROVE  SendInv'
<1> DEFINE r == ErrorTaken(hs[h])
<1>1. PICK arrived \in BOOLEAN :
        got' = [got EXCEPT ![h] = IF arrived THEN @ \o Head(hs[h].wire) ELSE @]
  BY DEF ir_re_x
<1> DEFINE g == IF arrived THEN got[h] \o Head(hs[h].wire) ELSE got[h]
<1>2. hs[h].wire # <<>> /\ CanFlush(hs[h]) /\ got' = [got EXCEPT ![h] = g]
  BY <1>1 DEF ir_re_x
<1>3. LinkOK(r) /\ r.rtry = hs[h].rtry - 1 /\ r.n = hs[h].n
  BY <1>2, HostFacts, ErrorLink DEF HostInv
<1>4. g \in {got[h], got[h] \o Head(hs[h].wire)}
  OBVIOUS
<1>5. g \in Seq(Cmd)
  BY <1>2, <1>4, HostFacts, Wire DEF HostInv
<1>6. IF r.rtry <= 0
      THEN IF h = init_host THEN rst_all([hs EXCEPT ![h] = h_dead(r)], h)
           ELSE hs' = [hs EXCEPT ![h] = h_dead(r)] /\ UNCHANGED init_host
      ELSE hs' = [hs EXCEPT ![h] = send_pro(r)] /\ UNCHANGED init_host
  BY DEF ir_re_x, ErrorTaken
<1> HIDE DEF g
<1>7. CASE r.rtry <= 0
  <2> DEFINE x == h_dead(r)
             s == [hs EXCEPT ![h] = x]
  <2>1. HostInv(x, g)
    BY <1>2, <1>4, HostFacts, LostHost
  <2>2. x.q = <<>> /\ x.n = 0
    BY DEF h_dead, ErrorTaken, HostRec
  <2>3. NotStranded(x) /\ x.n < MaxCmd
    BY <2>2, SendProAssumption DEF NotStranded
  <2>4. x \in HostRec
    BY <2>1 DEF HostInv, LinkOK
  <2> HIDE DEF x, r
  <2>5. CASE h = init_host
    <3>1. s \in [Host -> HostRec] /\ got' \in [Host -> Seq(Cmd)]
      BY <1>2, <1>5, <2>4 DEF SendInv
    <3>2. \A k \in Host : /\ s[k] = IF k = h THEN x ELSE hs[k]
                          /\ got'[k] = IF k = h THEN g ELSE got[k]
      BY <1>2 DEF SendInv
    <3>3. h \in 0 .. NHosts /\ ~(h > h)
      BY SendProAssumption DEF Host
    <3>4. rst_all(s, h)
      BY <1>6, <1>7, <2>5 DEF x
    <3> HIDE DEF s
    <3>5. \A k \in Host : /\ HostInv(s[k], got'[k])
                          /\ k > h => s[k].n < MaxCmd
                          /\ TimoHosts <= 1 => NotStranded(s[k])
      BY <2>1, <2>3, <2>5, <3>2, <3>3, HostFacts
    <3> QED
      BY <3>1, <3>3, <3>4, <3>5, WalkHost
  <2>6. CASE h # init_host
    <3>1. hs' = [hs EXCEPT ![h] = x] /\ UNCHANGED init_host
      BY <1>6, <1>7, <2>6 DEF x
    <3> QED
      BY <1>2, <2>1, <2>3, <3>1, OneHost
  <2> QED
    BY <2>5, <2>6
<1>8. CASE ~(r.rtry <= 0)
  <2> DEFINE x == send_pro(r)
  <2>1. LinkOK(x) /\ NotStranded(x) /\ x.n = hs[h].n
    BY <1>3, SendLink DEF NotStranded
  <2>2. XRetries # 1
    <3> SUFFICES ASSUME XRetries = 1 PROVE FALSE
      OBVIOUS
    <3>1. RtryOK(hs[h]) /\ LinkOK(hs[h])
      BY HostFacts DEF HostInv, OrderOK
    <3>2. hs[h].rfnm
      BY <1>2, <3>1, Wire
    <3> QED
      BY <1>3, <1>8, <3>1, <3>2 DEF RtryOK
  <2>3. hs' = [hs EXCEPT ![h] = x] /\ UNCHANGED init_host
    BY <1>6, <1>8
  <2> HIDE DEF x, r
  <2>4. HostInv(x, g)
    BY <1>5, <2>1, <2>2 DEF HostInv
  <2>5. h > init_host => x.n < MaxCmd
    BY <2>1, HostFacts
  <2> QED
    BY <1>2, <2>1, <2>3, <2>4, <2>5, OneHost
<1> QED
  BY <1>7, <1>8

(* A reset from a host.                                                    *)
LEMMA RstInv ==
    ASSUME SendInv, NEW h \in Host, hr_rst(h)
    PROVE  SendInv'
<1> DEFINE d == h_dead(hs[h])
           r == [d EXCEPT !.up = TRUE]
           x == send_pro(qup_pro(r, "rrp"))
<1>1. HostInv(d, got[h]) /\ d.n = 0
  BY HostFacts, DeadHost, HDead DEF hr_rst
<1> HIDE DEF d
<1>2. HostInv(r, got[h]) /\ r.n = 0
  BY <1>1, UpHost DEF HostInv, LinkOK, HostRec
<1> HIDE DEF r
<1>3. HostInv(x, got[h]) /\ NotStranded(x) /\ x.n < MaxCmd
  <2>1. r.n < MaxCmd /\ r.n + 1 < MaxCmd
    BY <1>2, SendProAssumption
  <2> QED
    BY <1>2, <2>1, QueueAndSend
<1>4. hs' = [hs EXCEPT ![h] = x] /\ UNCHANGED <<init_host, got>>
  BY DEF hr_rst, r, d
<1> HIDE DEF x
<1> QED
  BY <1>3, <1>4, HostFacts, OneHost

(* A user's reset.                                                         *)
LEMMA ResetInv ==
    ASSUME SendInv, NEW h \in Host, kr_reset(h)
    PROVE  SendInv'
<1> DEFINE d == h_dead(hs[h])
           x == chk_host(d)
<1>1. HostInv(d, got[h]) /\ d.n = 0 /\ d.q = <<>>
  BY HostFacts, DeadHost, HDead DEF kr_reset
<1> HIDE DEF d
<1>2. d.n < MaxCmd /\ 1 < MaxCmd /\ NotStranded(d)
  BY <1>1, SendProAssumption DEF NotStranded
<1>3. HostInv(x, got[h]) /\ NotStranded(x) /\ x.n \in d.n .. d.n + 1
  BY <1>1, <1>2, ChkHost
<1>4. x.n < MaxCmd
  BY <1>1, <1>2, <1>3, SendProAssumption
<1>5. hs' = [hs EXCEPT ![h] = x] /\ UNCHANGED <<init_host, got>>
  BY DEF kr_reset, d
<1> HIDE DEF x
<1> QED
  BY <1>3, <1>4, <1>5, HostFacts, OneHost

(* A host reported dead.                                                   *)
LEMMA HdedsInv ==
    ASSUME SendInv, NEW h \in Host, ir_hdeds(h)
    PROVE  SendInv'
<1> DEFINE x == [hs[h] EXCEPT !.up = FALSE]
<1>1. HostInv(x, got[h])
  BY HostFacts, UpHost
<1>2. x.q = hs[h].q /\ x.rfnm = hs[h].rfnm /\ x.n = hs[h].n
  BY HostFacts DEF HostRec
<1>3. hs' = [hs EXCEPT ![h] = x] /\ UNCHANGED <<init_host, got>>
  BY DEF ir_hdeds
<1> HIDE DEF x
<1>4. TimoHosts <= 1 => NotStranded(x)
  BY <1>2, HostFacts DEF NotStranded
<1> QED
  BY <1>1, <1>2, <1>3, <1>4, HostFacts, OneHost

(* Of the hosts whose files expire, only the last is sent what was queued. *)
LEMMA TimoInv ==
    ASSUME SendInv, kr_timo
    PROVE  SendInv'
<1> DEFINE Queued(H, last) ==
                [h \in Host |->
                    IF h = last THEN send_pro(qup_pro(hs[h], "cmd"))
                    ELSE IF h \in H THEN qup_pro(hs[h], "cmd")
                    ELSE hs[h]]
<1>0. PICK H \in SUBSET Host : \E last \in H :
        /\ Cardinality(H) <= TimoHosts
        /\ \A h \in H : Room(hs[h], 1)
        /\ hs' = Queued(H, last)
  BY DEF kr_timo
<1>1. PICK last \in H :
        /\ Cardinality(H) <= TimoHosts
        /\ \A h \in H : Room(hs[h], 1)
        /\ hs' = Queued(H, last)
  BY <1>0
<1>2. UNCHANGED <<init_host, got>>
  BY DEF kr_timo
<1>3. ASSUME NEW h \in H
      PROVE  /\ HostInv(qup_pro(hs[h], "cmd"), got[h])
             /\ HostInv(send_pro(qup_pro(hs[h], "cmd")), got[h])
             /\ NotStranded(send_pro(qup_pro(hs[h], "cmd")))
             /\ qup_pro(hs[h], "cmd").n < MaxCmd
             /\ send_pro(qup_pro(hs[h], "cmd")).n < MaxCmd
  <2>1. hs[h].n + 1 < MaxCmd /\ hs[h].n \in Nat /\ HostInv(hs[h], got[h])
    BY <1>1, HostFacts DEF Room
  <2>2. hs[h].n < MaxCmd
    BY <2>1, SendProAssumption
  <2>3. HostInv(qup_pro(hs[h], "cmd"), got[h]) /\ qup_pro(hs[h], "cmd").n = hs[h].n + 1
    BY <2>1, <2>2, QupHost
  <2>4. /\ HostInv(send_pro(qup_pro(hs[h], "cmd")), got[h])
        /\ NotStranded(send_pro(qup_pro(hs[h], "cmd")))
        /\ send_pro(qup_pro(hs[h], "cmd")).n = hs[h].n + 1
    BY <2>1, <2>2, QueueAndSend
  <2> QED
    BY <2>1, <2>3, <2>4
<1>4. TimoHosts <= 1 => H = {last}
  <2> SUFFICES ASSUME TimoHosts <= 1, NEW h \in H, h # last PROVE FALSE
    OBVIOUS
  <2>1. IsFiniteSet(H)
    <3>1. IsFiniteSet(Host)
      BY SendProAssumption, FS_Interval DEF Host
    <3> QED
      BY <3>1, FS_Subset
  <2>2. IsFiniteSet({h, last}) /\ Cardinality({h, last}) = 2
    <3>1. IsFiniteSet({last}) /\ Cardinality({last}) = 1
      BY FS_Singleton
    <3>2. h \notin {last} /\ {h, last} = {last} \cup {h}
      OBVIOUS
    <3> QED
      BY <3>1, <3>2, FS_AddElement, SMTT(30)
  <2>3. Cardinality({h, last}) <= Cardinality(H)
    BY <2>1, FS_Subset
  <2>4. Cardinality(H) \in Nat
    BY <2>1, FS_CardinalityType
  <2> QED
    BY <1>1, <2>2, <2>3, <2>4, SendProAssumption
<1>5. ASSUME NEW h \in Host
      PROVE  /\ hs'[h] \in HostRec
             /\ HostInv(hs'[h], got[h])
             /\ h > init_host => hs'[h].n < MaxCmd
             /\ TimoHosts <= 1 => NotStranded(hs'[h])
  <2>1. CASE h \notin H
    <3>1. hs'[h] = hs[h]
      BY <1>1, <2>1
    <3> QED
      BY <3>1, HostFacts
  <2>2. CASE h \in H /\ h # last
    <3>1. hs'[h] = qup_pro(hs[h], "cmd") /\ ~(TimoHosts <= 1)
      BY <1>1, <1>4, <2>2
    <3> QED
      BY <1>3, <2>2, <3>1 DEF HostInv, LinkOK
  <2>3. CASE h = last
    <3>1. hs'[h] = send_pro(qup_pro(hs[h], "cmd"))
      BY <1>1, <2>3
    <3> QED
      BY <1>3, <2>3, <3>1 DEF HostInv, LinkOK
  <2> QED
    BY <2>1, <2>2, <2>3
<1>6. hs' \in [Host -> HostRec]
  <2>1. hs' = [h \in Host |-> hs'[h]]
    BY <1>1
  <2> QED
    BY <1>5, <2>1
<1> QED
  BY <1>2, <1>5, <1>6 DEF SendInv

(* A reset of the IMP interface: every host starts afresh.                 *)
LEMMA InterfaceInv ==
    ASSUME SendInv, ir_reset
    PROVE  SendInv'
<1> DEFINE X(h) == [h_dead(hs[h]) EXCEPT !.rfnm = FALSE, !.wire = <<>>]
           s == [h \in Host |-> X(h)]
<1>1. rst_all(s, 0) /\ UNCHANGED got
  BY DEF ir_reset
<1>2. ASSUME NEW h \in Host
      PROVE  X(h) \in HostRec /\ HostInv(X(h), got[h]) /\ X(h).n < MaxCmd /\ NotStranded(X(h))
  <2> DEFINE d == h_dead(hs[h])
             x == [d EXCEPT !.rfnm = FALSE, !.wire = <<>>]
  <2>1. HostInv(d, got[h]) /\ d \in HostRec /\ d.q = <<>> /\ d.sent = 0 /\ d.n = 0
    BY HostFacts, DeadHost, HDead DEF ir_reset
  <2> HIDE DEF d
  <2>2. <<>> \in Seq(Seq(Cmd)) /\ Len(<<>>) = 0
    OBVIOUS
  <2>3. /\ x \in HostRec /\ x.q = d.q /\ x.sent = 0 /\ x.n = 0
        /\ x.rtry = d.rtry /\ x.ep = d.ep
        /\ x.rfnm = FALSE /\ x.wire = <<>>
    BY <2>1, <2>2 DEF HostRec
  <2>4. x = X(h)
    BY DEF d
  <2> HIDE DEF x, X
  <2>5. OrderOK(d, got[h]) => OrderOK(x, got[h])
    BY <2>1, <2>3 DEF OrderOK, QueueOK, SentOK, WireOK, GotOK, RtryOK
  <2>6. HostInv(x, got[h])
    BY <2>1, <2>2, <2>3, <2>5 DEF HostInv, LinkOK
  <2> QED
    BY <2>1, <2>3, <2>4, <2>6, SendProAssumption DEF NotStranded
<1> HIDE DEF X
<1>3. s \in [Host -> HostRec] /\ \A h \in Host : s[h] = X(h)
  BY <1>2
<1>4. 0 \in 0 .. NHosts /\ got' \in [Host -> Seq(Cmd)]
  BY <1>1, SendProAssumption DEF SendInv
<1>5. \A h \in Host : /\ HostInv(s[h], got'[h])
                      /\ h > 0 => s[h].n < MaxCmd
                      /\ TimoHosts <= 1 => NotStranded(s[h])
  BY <1>1, <1>2, <1>3
<1> HIDE DEF s
<1> QED
  BY <1>1, <1>3, <1>4, <1>5, WalkHost

(* Every trip through the main loop keeps the invariant.                   *)
LEMMA NextInv == SendInv /\ [Next]_vars => SendInv'
<1> SUFFICES ASSUME SendInv, [Next]_vars PROVE SendInv'
  OBVIOUS
<1>1. ASSUME NEW h \in Host, Command(h) PROVE SendInv'
  BY <1>1, CommandInv
<1>2. ASSUME NEW h \in Host, Open(h) PROVE SendInv'
  BY <1>2, OpenInv
<1>3. ASSUME NEW h \in Host, ir_rfnm(h) PROVE SendInv'
  BY <1>3, RfnmInv
<1>4. ASSUME NEW h \in Host, ir_re_x(h) PROVE SendInv'
  BY <1>4, ErrorInv
<1>5. ASSUME NEW h \in Host, hr_rst(h) PROVE SendInv'
  BY <1>5, RstInv
<1>6. ASSUME NEW h \in Host, kr_reset(h) PROVE SendInv'
  BY <1>6, ResetInv
<1>7. ASSUME NEW h \in Host, ir_hdeds(h) PROVE SendInv'
  BY <1>7, HdedsInv
<1>8. CASE kr_timo
  BY <1>8, TimoInv
<1>9. CASE ir_reset
  BY <1>9, InterfaceInv
<1>10. CASE UNCHANGED vars
  BY <1>10 DEF vars, SendInv
<1> QED
  BY <1>1, <1>2, <1>3, <1>4, <1>5, <1>6, <1>7, <1>8, <1>9, <1>10 DEF Next

(* The invariant holds in every state that is reached.                     *)
LEMMA Inductive == Spec => []SendInv
<1> QED
  BY InitInv, NextInv, PTL DEF Spec

-----------------------------------------------------------------------------
(* Theorems *)

(* The daemon's tables have their types, whatever is sent, answered, lost  *)
(* and reset.                                                              *)
THEOREM TypeCorrect == Spec => []TypeOK
<1>1. SendInv => TypeOK
  BY DEF SendInv, TypeOK
<1> QED
  BY <1>1, Inductive, PTL

(* A host has one protocol message outstanding at most, exactly when its   *)
(* bit is set in rfnm_bm, for every number of retries.                     *)
THEOREM OneOutstandingHolds == Spec => []OneOutstanding
<1>1. SendInv => OneOutstanding
  BY DEF SendInv, OneOutstanding, HostInv, LinkOK
<1> QED
  BY <1>1, Inductive, PTL

(* With x_retries at 1, as send_pro.c has it, h_pb_sent counts what the    *)
(* outstanding message carries, and 0 when none is outstanding.            *)
THEOREM SentIsHeadHolds ==
    ASSUME XRetries = 1
    PROVE  Spec => []SentIsHead
<1>1. SendInv => SentIsHead
  BY DEF SendInv, SentIsHead, HostInv, OrderOK, SentOK
<1> QED
  BY <1>1, Inductive, PTL

(* With x_retries at 1, every host receives the commands of an epoch once  *)
(* each, in order and without a gap.                                       *)
THEOREM InOrderHolds ==
    ASSUME XRetries = 1
    PROVE  Spec => []InOrder
<1>1. SendInv => InOrder
  BY DEF SendInv, InOrder, HostInv, OrderOK, GotOK, InOrderSeq
<1> QED
  BY <1>1, Inductive, PTL

(* While the files that expire in one timeout instruction all lead to one  *)
(* host, protocol that is queued waits for an RFNM, for every number of    *)
(* retries.  kr_timo() breaks it with two hosts.                           *)
THEOREM NoneStrandedHolds ==
    ASSUME TimoHosts <= 1
    PROVE  Spec => []NoneStranded
<1>1. SendInv => NoneStranded
  BY DEF SendInv, NoneStranded, NotStranded
<1> QED
  BY <1>1, Inductive, PTL

=============================================================================
