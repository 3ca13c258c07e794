--------------------------- MODULE NcpFlowProofs ---------------------------
(***************************************************************************)
(* The books of the two hosts, proved: what the sender may send agrees     *)
(* with what the receiver has allocated, at every step of netwrite(),      *)
(* netread(), the input process and the daemons, whatever the sizes of     *)
(* messages, allocations, reads and writes.                                *)
(*                                                                         *)
(* The state is looked at through operators of its parts, one for each     *)
(* number that the argument counts with.  FlowInv is the inductive         *)
(* invariant; a lemma for each action shows that it is kept.  The last     *)
(* section shows with it that a connection is a pipe (BytePipe).           *)
(***************************************************************************)
EXTENDS NcpFlow, SeqSumProofs

(* The process that writes, and the one that reads.                        *)
wr == CHOOSE p \in Writers : TRUE

rd == CHOOSE p \in Readers : TRUE

(* What is assumed: one process at each end, a first allocation no larger  *)
(* than r_hiwat, and no signal in the sleep for an RFNM.  Without these    *)
(* the books do not agree: two writers spend an allocation twice;          *)
(* sendalloc() sends a negative difference as a huge allocation; a write   *)
(* interrupted in that sleep is not counted.                               *)
OnePair ==
    /\ Writers = {wr} /\ Readers = {rd}
    /\ NomBall <= HiWat
    /\ "rfnm" \notin Interrupted

W == pr[wr]
R == pr[rd]

(* netwrite(): where the writer is, its u_count and u_base, and the bytes  *)
(* of its message.  netread(): the bytes taken that r_qtotal still counts, *)
(* while the reader waits for the control link.                            *)
place == W.at
count == W.cnt
base == W.base
amount == W.n
held == IF R.at = "chan" THEN R.n ELSE 0

(* The bytes sent at least once, offered by the user, and read.            *)
sent == con.sent
offered == con.offered
taken == Len(con.out)

(* The write socket: w_msgs, w_falloc in bytes, and its flags.             *)
wMsgs == w.msgs
wBytes == w.falloc
wFlags == w.flags

(* The read socket: r_msgs, r_bytes, the bytes of r_msgq, and r_qtotal.    *)
rMsgs == r.msgs
rBytes == r.bytes
queued == Len(r.q)
due == r.qtotal

(* The network: the link's message and its answer; the messages of link 0, *)
(* and what the ALLs among them allocate.                                  *)
data == net.data
answers == net.dans
inData == Size(net.data)
ctl == net.ctl
allMsgs == Msgs(net.ctl)
allBytes == Bytes(net.ctl)

(* The writer's message has been delivered and he does not know it: what   *)
(* the sender's books still have to be charged with.                       *)
Del == place = "rfnm" /\ (answers = <<"rfnm">> \/ "rfnm" \in wFlags)
delMsgs == IF Del THEN 1 ELSE 0
delBytes == IF Del THEN amount ELSE 0

(* The sockets and what has become of the connection.                      *)
LinkInv ==
    /\ w.open <=> w.link
    /\ r.open => r.link
    /\ con.killed => ~(w.link /\ r.open)

(* Where the processes are, and how far the writer has come.               *)
PlaceInv ==
    /\ place \in {"idle", "alloc", "rfnm"}
    /\ R.at \in {"idle", "data", "lbolt", "chan"}
    /\ place = "idle" => sent <= offered
    /\ place # "idle" => base + count <= offered
    /\ place = "alloc" => sent <= base
    /\ place = "rfnm" => amount \in 1 .. count /\ sent = base + amount

(* One message, its answer or the flag that the answer sets.               *)
MessageInv ==
    /\ data = <<>> \/ (Len(data) = 1 /\ answers = <<>>)
    /\ answers = <<>> \/ Len(answers) = 1
    /\ w.link /\ place # "rfnm" => data = <<>> /\ answers = <<>> /\ wFlags = {}
    /\ w.link /\ place = "rfnm" =>
        \/ data # <<>> /\ inData = amount /\ wFlags = {}
        \/ data = <<>> /\ answers # <<>> /\ wFlags = {}
        \/ data = <<>> /\ answers = <<>> /\ wFlags \in {{"rfnm"}, {"xmterr"}}

(* The message on its way has been allocated, as have the bytes on their   *)
(* way and in the queue.                                                   *)
RoomInv ==
    /\ data # <<>> => rMsgs >= 1
    /\ queued + inData <= rBytes
    /\ rBytes <= HiWat

(* The sender never thinks that he may send more than the receiver has     *)
(* allocated, and his message was sent within it.                          *)
SpendInv ==
    w.link =>
        /\ wMsgs >= 0 /\ wBytes >= 0
        /\ place = "rfnm" => wMsgs >= 1 /\ wBytes >= amount
        /\ wMsgs + allMsgs <= rMsgs + delMsgs
        /\ wBytes + allBytes + queued <= rBytes + delBytes

(* The books balance, unless an ALL was lost: the part of the invariant    *)
(* that CreditAgrees is.                                                   *)
Balanced ==
    /\ wMsgs + allMsgs = rMsgs + delMsgs
    /\ wBytes + allBytes + queued = rBytes + delBytes

BalanceInv == w.link /\ r.open /\ ~AllLost => Balanced

(* The daemon's other messages on link 0 allocate nothing.                 *)
NoCredit(s) == \A i \in DOMAIN s : s[i].op = "other" => s[i].m = 0 /\ s[i].b = 0

OtherInv == NoCredit(ctl)

(* r_qtotal counts the bytes in the queue, and those taken for which an    *)
(* ALL is due; what is read, queued and on its way has been sent, and a    *)
(* message not yet delivered is none of it.                                *)
CountInv ==
    /\ queued + held <= due
    /\ due <= taken + queued
    /\ taken + queued + inData <= sent
    /\ w.link /\ place = "rfnm" /\ ~Del => taken + queued + amount <= sent

FlowInv ==
    /\ TypeOK /\ LinkInv /\ PlaceInv /\ MessageInv
    /\ RoomInv /\ SpendInv /\ BalanceInv /\ OtherInv /\ CountInv

-----------------------------------------------------------------------------
(* The constants, with one process at each end.                            *)
LEMMA Pair ==
    ASSUME OnePair
    PROVE  /\ wr # rd /\ Proc = {wr, rd}
           /\ Room = HiWat /\ Word > HiWat
           /\ HiWat \in Nat \ {0} /\ NomBall \in 1 .. HiWat
           /\ NomMsg \in Nat \ {0} /\ MaxMsg \in Nat \ {0}
           /\ MaxBytes \in Nat /\ MaxCount \in Nat
<1>1. wr # rd /\ Proc = {wr, rd}
  BY NcpFlowAssumption DEF OnePair, Proc
<1>2. NomBall \in 1 .. HiWat /\ Room = HiWat
  BY NcpFlowAssumption DEF OnePair, Room, Larger
<1> QED
  BY <1>1, <1>2, NcpFlowAssumption

(* The domain of a sequence.                                               *)
LEMMA DomSeq ==
    ASSUME NEW S, NEW s \in Seq(S)
    PROVE  DOMAIN s = 1 .. Len(s) /\ Len(s) \in Nat
OBVIOUS

(* The parts of a message on link 0.                                       *)
LEMMA CtlParts ==
    ASSUME NEW s \in Seq(Ctl), NEW i \in DOMAIN s
    PROVE  s[i] \in Ctl /\ s[i].m \in Nat /\ s[i].b \in Nat
<1>1. s[i] \in Ctl
  BY DomSeq
<1> QED
  BY <1>1 DEF Ctl

(* A message that is sent on link 0 adds what it allocates.                *)
LEMMA CtlAppend ==
    ASSUME NEW s \in Seq(Ctl), NEW c \in Ctl
    PROVE  /\ Msgs(Append(s, c)) = Msgs(s) + c.m
           /\ Bytes(Append(s, c)) = Bytes(s) + c.b
<1> DEFINE t == Append(s, c)
<1>1. c.m \in Int /\ c.b \in Int
  BY DEF Ctl
<1>2. \A i \in DOMAIN s : s[i].m \in Int /\ s[i].b \in Int
  BY CtlParts
<1> DEFINE sm == [i \in DOMAIN s |-> s[i].m]
           sb == [i \in DOMAIN s |-> s[i].b]
<1>3. sm \in Seq(Int) /\ sb \in Seq(Int)
  BY <1>2, DomSeq
<1>4. [i \in DOMAIN t |-> t[i].m] = Append(sm, c.m)
  BY <1>2
<1>5. [i \in DOMAIN t |-> t[i].b] = Append(sb, c.b)
  BY <1>2
<1> HIDE DEF sm, sb, t
<1>6. SeqSum(Append(sm, c.m)) = SeqSum(sm) + c.m
  BY <1>1, <1>3, SumAppend
<1>7. SeqSum(Append(sb, c.b)) = SeqSum(sb) + c.b
  BY <1>1, <1>3, SumAppend
<1> QED
  BY <1>4, <1>5, <1>6, <1>7 DEF Msgs, Bytes, sm, sb, t

(* The first message on link 0 and the rest: what they allocate adds up.   *)
LEMMA CtlTail ==
    ASSUME NEW s \in Seq(Ctl), s # <<>>
    PROVE  /\ Msgs(s) = Head(s).m + Msgs(Tail(s))
           /\ Bytes(s) = Head(s).b + Bytes(Tail(s))
<1> DEFINE t == Tail(s)
<1>2. \A i \in DOMAIN s : s[i].m \in Int /\ s[i].b \in Int
  BY CtlParts
<1> DEFINE sm == [i \in DOMAIN s |-> s[i].m]
           sb == [i \in DOMAIN s |-> s[i].b]
<1>3. sm \in Seq(Int) /\ sb \in Seq(Int) /\ sm # <<>> /\ sb # <<>>
  BY <1>2, DomSeq, SMTT(30)
<1>4. [i \in DOMAIN t |-> t[i].m] = Tail(sm) /\ sm[1] = Head(s).m
  BY <1>2
<1>5. [i \in DOMAIN t |-> t[i].b] = Tail(sb) /\ sb[1] = Head(s).b
  BY <1>2
<1> HIDE DEF sm, sb, t
<1>6. SeqSum(sm) = sm[1] + SeqSum(Tail(sm))
  BY <1>3, SumTail
<1>7. SeqSum(sb) = sb[1] + SeqSum(Tail(sb))
  BY <1>3, SumTail
<1> QED
  BY <1>4, <1>5, <1>6, <1>7 DEF Msgs, Bytes, sm, sb, t

(* What messages on link 0 allocate is not negative.                       *)
LEMMA CtlNat ==
    ASSUME NEW s \in Seq(Ctl)
    PROVE  Msgs(s) \in Nat /\ Bytes(s) \in Nat
<1> DEFINE sm == [i \in DOMAIN s |-> s[i].m]
           sb == [i \in DOMAIN s |-> s[i].b]
<1>1. sm \in Seq(Nat) /\ sb \in Seq(Nat)
  BY CtlParts, DomSeq
<1> HIDE DEF sm, sb
<1>2. SeqSum(sm) \in Nat /\ SeqSum(sb) \in Nat
  BY <1>1, SumNat
<1> QED
  BY <1>2 DEF Msgs, Bytes, sm, sb

(* The only member of a sequence, and what is left without it.             *)
LEMMA OnlyOne ==
    ASSUME NEW S, NEW s \in Seq(S), s # <<>>, Len(s) <= 1
    PROVE  Len(s) = 1 /\ Head(s) = s[1] /\ s[1] \in S /\ Tail(s) = <<>>
<1>1. Len(s) = 1
  <2>1. Len(s) \in Nat \ {0}
    BY EmptySeq
  <2> QED
    BY <2>1
<1>2. Tail(s) \in Seq(S) /\ Len(Tail(s)) = 0
  BY <1>1
<1>3. Tail(s) = <<>>
  BY <1>2, EmptySeq
<1> QED
  BY <1>1, <1>3

(* No messages have no bytes.                                              *)
LEMMA SizeNone ==
    Size(<<>>) = 0
<1>1. [i \in DOMAIN << >> |-> Len(<< >>[i])] = <<>>
  OBVIOUS
<1> QED
  BY <1>1, SumEmpty DEF Size

(* The bytes of the only message on a link.                                *)
LEMMA SizeOne ==
    ASSUME NEW S, NEW d \in Seq(Seq(S)), Len(d) = 1
    PROVE  Size(d) = Len(d[1])
<1> DEFINE t == [i \in DOMAIN d |-> Len(d[i])]
<1>1. \A i \in 1 .. 1 : Len(d[i]) \in Int
  OBVIOUS
<1>2. t = [i \in 1 .. 1 |-> Len(d[i])]
  OBVIOUS
<1>3. t = Append(<< >>, Len(d[1]))
  BY <1>1, <1>2
<1> HIDE DEF t
<1>4. SeqSum(Append(<< >>, Len(d[1]))) = 0 + Len(d[1])
  <2>1. Len(d[1]) \in Int /\ << >> \in Seq(Int)
    BY <1>1
  <2> QED
    BY <2>1, SumAppend, SumEmpty
<1> QED
  BY <1>1, <1>3, <1>4 DEF Size, t
-----------------------------------------------------------------------------
(* The types of the parts of the sockets, the network and the connection.  *)
LEMMA Types ==
    ASSUME TypeOK
    PROVE  /\ w.msgs \in Int /\ w.falloc \in Int /\ w.flags \in SUBSET {"rfnm", "xmterr", "eof"}
           /\ w.open \in BOOLEAN /\ w.link \in BOOLEAN
           /\ r.msgs \in 0 .. NomMsg /\ r.bytes \in 0 .. Room /\ r.q \in Seq(Byte)
           /\ r.qtotal \in 0 .. MaxBytes /\ r.open \in BOOLEAN /\ r.link \in BOOLEAN
           /\ net.data \in Seq(Seq(Byte)) /\ net.dans \in Seq(Answer)
           /\ net.ctl \in Seq(Ctl) /\ net.cans \in Seq(Answer)
           /\ con.offered \in 0 .. MaxBytes /\ con.sent \in 0 .. MaxBytes
           /\ con.out \in Seq(Byte)
           /\ con.eof \in BOOLEAN /\ con.closed \in BOOLEAN /\ con.killed \in BOOLEAN
           /\ con.told \in SUBSET {"sender", "receiver"}
<1>1. /\ w.msgs \in Int /\ w.falloc \in Int /\ w.flags \in SUBSET {"rfnm", "xmterr", "eof"}
      /\ w.open \in BOOLEAN /\ w.link \in BOOLEAN
  BY DEF TypeOK, WrtSkt
<1>2. /\ r.msgs \in 0 .. NomMsg /\ r.bytes \in 0 .. Room /\ r.q \in Seq(Byte)
      /\ r.qtotal \in 0 .. MaxBytes /\ r.open \in BOOLEAN /\ r.link \in BOOLEAN
  BY DEF TypeOK, RdSkt
<1>3. /\ net.data \in Seq(Seq(Byte)) /\ net.dans \in Seq(Answer)
      /\ net.ctl \in Seq(Ctl) /\ net.cans \in Seq(Answer)
  BY DEF TypeOK, Net
<1>4. /\ con.offered \in 0 .. MaxBytes /\ con.sent \in 0 .. MaxBytes
      /\ con.out \in Seq(Byte)
      /\ con.eof \in BOOLEAN /\ con.closed \in BOOLEAN /\ con.killed \in BOOLEAN
      /\ con.told \in SUBSET {"sender", "receiver"}
  BY DEF TypeOK, Connection
<1> QED
  BY <1>1, <1>2, <1>3, <1>4

(* The types of the parts of a process.                                    *)
LEMMA ProcTypes ==
    ASSUME TypeOK, NEW p \in Proc
    PROVE  /\ pr[p] \in Process
           /\ pr[p].cnt \in 0 .. MaxCount /\ pr[p].base \in 0 .. MaxBytes
           /\ pr[p].n \in 0 .. MaxCount /\ pr[p].run \in BOOLEAN /\ pr[p].tried \in BOOLEAN
           /\ pr[p].at \in {"idle", "alloc", "rfnm", "data", "lbolt", "chan"}
<1>1. pr[p] \in Process
  BY DEF TypeOK
<1> QED
  BY <1>1 DEF Process

(* The types of the numbers, for the arithmetic of the steps.              *)
NumbersOK ==
    /\ count \in 0 .. MaxCount /\ base \in 0 .. MaxBytes /\ amount \in 0 .. MaxCount
    /\ held \in 0 .. MaxCount
    /\ sent \in 0 .. MaxBytes /\ offered \in 0 .. MaxBytes /\ taken \in Nat
    /\ wMsgs \in Int /\ wBytes \in Int
    /\ rMsgs \in 0 .. NomMsg /\ rBytes \in 0 .. HiWat /\ queued \in Nat
    /\ due \in 0 .. MaxBytes /\ inData \in Nat
    /\ allMsgs \in Nat /\ allBytes \in Nat
    /\ HiWat \in Nat /\ NomMsg \in Nat /\ MaxBytes \in Nat /\ MaxCount \in Nat

(* The numbers have the types that NumbersOK gives them.                   *)
LEMMA Numbers ==
    OnePair /\ TypeOK /\ MessageInv => NumbersOK
<1> SUFFICES ASSUME OnePair, TypeOK, MessageInv PROVE NumbersOK
  OBVIOUS
<1>1. /\ wMsgs \in Int /\ wBytes \in Int
      /\ rMsgs \in 0 .. NomMsg /\ rBytes \in 0 .. HiWat
      /\ due \in 0 .. MaxBytes
      /\ sent \in 0 .. MaxBytes /\ offered \in 0 .. MaxBytes
  BY Types, Pair DEF wMsgs, wBytes, rMsgs, rBytes, due, sent, offered
<1>2. taken \in Nat /\ queued \in Nat
  BY Types, DomSeq DEF taken, queued
<1>3. allMsgs \in Nat /\ allBytes \in Nat
  BY Types, CtlNat DEF allMsgs, allBytes
<1>4. count \in 0 .. MaxCount /\ base \in 0 .. MaxBytes /\ amount \in 0 .. MaxCount
  BY Pair, ProcTypes DEF count, base, amount, W
<1>5. held \in 0 .. MaxCount
  <2>1. R.n \in 0 .. MaxCount /\ 0 \in 0 .. MaxCount
    BY Pair, ProcTypes DEF R
  <2> QED
    BY <2>1 DEF held
<1>6. inData \in Nat
  <2>1. CASE data = <<>>
    BY <2>1, SizeNone DEF inData, data
  <2>2. CASE data # <<>>
    <3>1. Len(net.data) = 1 /\ net.data \in Seq(Seq(Byte))
      BY <2>2, Types DEF MessageInv, data
    <3>2. net.data[1] \in Seq(Byte)
      BY <3>1
    <3> QED
      BY <3>1, <3>2, SizeOne, DomSeq DEF inData
  <2> QED
    BY <2>1, <2>2
<1> QED
  BY <1>1, <1>2, <1>3, <1>4, <1>5, <1>6, Pair DEF NumbersOK

-----------------------------------------------------------------------------
(* What a process is doing is not changed by what only wakes it up.        *)
SamePlaces ==
    /\ pr' \in [Proc -> Process]
    /\ place' = place /\ count' = count /\ base' = base /\ amount' = amount
    /\ held' = held /\ R'.at = R.at

(* wakeup() moves no process.                                              *)
LEMMA Woken ==
    ASSUME OnePair, TypeOK, NEW P, pr' = Wakeup(P)
    PROVE  SamePlaces
<1>1. \A p \in Proc : pr[p] \in Process
  BY DEF TypeOK
<1>2. ASSUME NEW p \in Proc
      PROVE  /\ pr'[p] \in Process
             /\ pr'[p].at = pr[p].at /\ pr'[p].cnt = pr[p].cnt
             /\ pr'[p].base = pr[p].base /\ pr'[p].n = pr[p].n
  <2>1. pr'[p] = IF pr[p].at \in P THEN [pr[p] EXCEPT !.run = TRUE] ELSE pr[p]
    BY DEF Wakeup
  <2> QED
    BY <1>1, <2>1 DEF Process
<1>3. pr' \in [Proc -> Process]
  BY <1>2 DEF Wakeup
<1> QED
  BY <1>2, <1>3, Pair DEF SamePlaces, place, count, base, amount, held, W, R

(* Nor does a step that leaves the processes alone.                        *)
LEMMA Unmoved ==
    ASSUME TypeOK, UNCHANGED pr
    PROVE  SamePlaces
BY DEF TypeOK, SamePlaces, place, count, base, amount, held, W, R

(* A step that sends, delivers, takes and allocates nothing.               *)
Quiet ==
    /\ sent' = sent /\ taken' = taken /\ queued' = queued /\ due' = due
    /\ rMsgs' = rMsgs /\ rBytes' = rBytes
    /\ held' = held \/ held' = 0
    /\ inData' = inData \/ inData' = 0
    /\ data' # <<>> => data # <<>>
    /\ \E i, j \in Nat : allMsgs' = allMsgs - i /\ allBytes' = allBytes - j
    /\ w'.link => /\ w.link /\ wMsgs' = wMsgs /\ wBytes' = wBytes /\ (Del' <=> Del)
                  /\ place' = "rfnm" <=> place = "rfnm"
                  /\ place' = "rfnm" => amount' = amount
    /\ w'.link /\ r'.open /\ ~AllLost' =>
        /\ r.open /\ ~AllLost /\ allMsgs' = allMsgs /\ allBytes' = allBytes

(* A step that moves no bytes and no allocation keeps what is said of the  *)
(* numbers.                                                                *)
LEMMA QuietInv ==
    ASSUME OnePair, FlowInv, Quiet,
           TypeOK', LinkInv', PlaceInv', MessageInv', OtherInv'
    PROVE  FlowInv'
<1>1. /\ TypeOK /\ LinkInv /\ PlaceInv /\ MessageInv
      /\ RoomInv /\ SpendInv /\ BalanceInv /\ OtherInv /\ CountInv
  BY DEF FlowInv
<1>2. NumbersOK
  BY <1>1, Numbers
<1>3. RoomInv'
  BY <1>1, <1>2 DEF Quiet, RoomInv, NumbersOK
<1>4. w'.link => /\ w.link /\ place' = "rfnm" <=> place = "rfnm"
                 /\ place = "rfnm" => amount' = amount
                 /\ delMsgs' = delMsgs /\ delBytes' = delBytes
  BY DEF Quiet, delMsgs, delBytes, Del
<1>5. SpendInv'
  <2>1. PICK i \in Nat, j \in Nat : allMsgs' = allMsgs - i /\ allBytes' = allBytes - j
    BY DEF Quiet
  <2>2. delMsgs \in Int /\ delBytes \in Int
    BY <1>2 DEF delMsgs, delBytes, NumbersOK
  <2> QED
    BY <1>1, <1>2, <1>4, <2>1, <2>2 DEF Quiet, SpendInv, NumbersOK
<1>6. BalanceInv'
  <2>1. SUFFICES ASSUME w'.link, r'.open, ~AllLost' PROVE Balanced'
    BY DEF BalanceInv
  <2>2. Balanced
    BY <1>1, <2>1 DEF Quiet, BalanceInv
  <2>3. /\ wMsgs' = wMsgs /\ wBytes' = wBytes /\ rMsgs' = rMsgs /\ rBytes' = rBytes
        /\ allMsgs' = allMsgs /\ allBytes' = allBytes /\ queued' = queued
    BY <2>1 DEF Quiet
  <2> QED
    BY <1>4, <2>1, <2>2, <2>3 DEF Balanced
<1>7. CountInv'
  BY <1>1, <1>2 DEF Quiet, CountInv, NumbersOK
<1> QED
  BY <1>1, <1>3, <1>5, <1>6, <1>7 DEF FlowInv

(* The message on the link is the only one, and has not been answered.     *)
LEMMA OneData ==
    ASSUME TypeOK, MessageInv, net.data # <<>>
    PROVE  /\ answers = <<>>
           /\ net.data[1] \in Seq(Byte) /\ Head(net.data) = net.data[1] /\ Tail(net.data) = <<>>
           /\ inData = Len(net.data[1])
<1>1. net.data \in Seq(Seq(Byte)) /\ Len(net.data) = 1 /\ answers = <<>>
  BY Types DEF MessageInv, data
<1>2. net.data[1] \in Seq(Byte) /\ Head(net.data) = net.data[1] /\ Tail(net.data) = <<>>
  <2>1. Len(net.data) <= 1
    BY <1>1
  <2> QED
    BY <1>1, <2>1, OnlyOne
<1> QED
  BY <1>1, <1>2, SizeOne DEF inData

(* The answer is the only one, and its message is no longer on the link.   *)
LEMMA OneAnswer ==
    ASSUME TypeOK, MessageInv, net.dans # <<>>
    PROVE  /\ data = <<>>
           /\ net.dans = <<Head(net.dans)>> /\ Tail(net.dans) = <<>> /\ Head(net.dans) \in Answer
<1>1. net.dans \in Seq(Answer) /\ Len(net.dans) = 1 /\ data = <<>>
  BY Types DEF MessageInv, answers
<1>2. Tail(net.dans) = <<>> /\ Head(net.dans) = net.dans[1] /\ net.dans[1] \in Answer
  <2>1. Len(net.dans) <= 1
    BY <1>1
  <2> QED
    BY <1>1, <2>1, OnlyOne
<1>3. net.dans = <<net.dans[1]>>
  BY <1>1
<1> QED
  BY <1>1, <1>2, <1>3

(* hh(): the bytes go from the link to the queue, and from then on the     *)
(* sender's books differ by them.                                          *)
LEMMA DataArrivesInv ==
    ASSUME OnePair, FlowInv, DataArrives
    PROVE  FlowInv'
<1> DEFINE m == net.data[1]
<1>1. TypeOK /\ MessageInv /\ LinkInv /\ PlaceInv /\ RoomInv /\ SpendInv /\ BalanceInv /\ OtherInv /\ CountInv
  BY DEF FlowInv
<1>2. /\ data # <<>> /\ answers = <<>>
      /\ m \in Seq(Byte) /\ Head(net.data) = m /\ Tail(net.data) = <<>> /\ inData = Len(m)
  BY <1>1, OneData DEF DataArrives, data
<1> HIDE DEF m
<1>3. net' = [net EXCEPT !.data = <<>>, !.dans = <<"rfnm">>]
  <2>1. Append(<< >>, "rfnm") = <<"rfnm">>
    OBVIOUS
  <2> QED
    BY <1>2, <2>1 DEF DataArrives, answers
<1>4. net'.data = <<>> /\ net'.dans = <<"rfnm">> /\ net'.ctl = net.ctl /\ net'.cans = net.cans
  BY <1>1, <1>3 DEF TypeOK, Net
<1>5. /\ data' = <<>> /\ answers' = <<"rfnm">> /\ inData' = 0 /\ ctl' = ctl
      /\ allMsgs' = allMsgs /\ allBytes' = allBytes
  BY <1>4, SizeNone DEF data, answers, inData, ctl, allMsgs, allBytes
<1>6. SamePlaces
  BY <1>1, Woken, Unmoved DEF DataArrives
<1>7. wMsgs' = wMsgs /\ wBytes' = wBytes /\ wFlags' = wFlags /\ w'.open = w.open /\ w'.link = w.link /\ sent' = sent /\ offered' = offered /\ taken' = taken
      /\ con'.killed = con.killed
  BY DEF DataArrives, wMsgs, wBytes, wFlags, sent, offered, taken
<1>8. r'.open = r.open /\ r'.link = r.link /\ rBytes' = rBytes
  BY <1>1 DEF DataArrives, TypeOK, RdSkt, rBytes
<1>9. /\ rMsgs' = IF r.link THEN rMsgs - 1 ELSE rMsgs
      /\ due' = IF r.link THEN due + inData ELSE due
      /\ r'.q = IF r.link THEN r.q \o m ELSE r.q
  BY <1>1, <1>2 DEF DataArrives, TypeOK, RdSkt, rMsgs, due
<1>10. queued' = (IF r.link THEN queued + inData ELSE queued) /\ r'.q \in Seq(Byte)
  BY <1>1, <1>2, <1>9, Types DEF queued
<1>11. NumbersOK
  BY <1>1, Numbers
<1>12. PlaceInv' /\ LinkInv' /\ MessageInv' /\ OtherInv'
  <2>1. LinkInv'
    BY <1>1, <1>7, <1>8 DEF LinkInv
  <2>2. PlaceInv'
    BY <1>1, <1>6, <1>7 DEF PlaceInv, SamePlaces
  <2>3. MessageInv'
    BY <1>1, <1>2, <1>5, <1>6, <1>7 DEF MessageInv, SamePlaces
  <2>4. OtherInv'
    BY <1>1, <1>5 DEF OtherInv
  <2> QED
    BY <2>1, <2>2, <2>3, <2>4
<1>13. CountInv'
  BY <1>1, <1>2, <1>5, <1>6, <1>7, <1>9, <1>10, <1>11 DEF CountInv, SamePlaces, Del, PlaceInv, MessageInv, NumbersOK
<1>14. RoomInv'
  BY <1>1, <1>2, <1>5, <1>8, <1>9, <1>10, <1>11 DEF RoomInv, NumbersOK
<1>15. w.link => /\ delMsgs = 0 /\ delMsgs' = 1 
                 /\ delBytes = 0 /\ delBytes' = inData /\ amount = inData
  BY <1>1, <1>2, <1>5, <1>6, <1>7 DEF MessageInv, delMsgs, delBytes, Del, SamePlaces
<1>16. SpendInv'
  BY <1>1, <1>5, <1>6, <1>7, <1>8, <1>9, <1>10, <1>11, <1>15 DEF SpendInv, SamePlaces, NumbersOK
<1>17. BalanceInv'
  <2>1. AllLost' = AllLost
    BY <1>4 DEF AllLost, DataArrives
  <2> QED
    BY <1>1, <1>5, <1>6, <1>7, <1>8, <1>9, <1>10, <1>11, <1>15, <2>1 DEF BalanceInv, Balanced, LinkInv, SamePlaces, NumbersOK
<1>18. TypeOK'
  <2>1. net' \in Net
    <3>1. << >> \in Seq(Seq(Byte)) /\ <<"rfnm">> \in Seq(Answer)
      BY DEF Answer
    <3> QED
      BY <1>1, <1>3, <3>1 DEF TypeOK, Net
  <2>2. r' \in RdSkt
    <3>1. rMsgs' \in 0 .. NomMsg /\ due' \in 0 .. MaxBytes
      <4>1. rMsgs' \in 0 .. NomMsg
        <5>1. rMsgs >= 1
          BY <1>1, <1>2 DEF RoomInv
        <5>2. NomMsg \in Nat
          BY Pair
        <5>3. rMsgs \in 0 .. NomMsg
          BY <1>11 DEF NumbersOK
        <5> QED
          BY <1>9, <5>1, <5>2, <5>3
      <4>2. due' <= sent /\ due' >= 0 /\ due' \in Int
        BY <1>5, <1>6, <1>7, <1>9, <1>10, <1>11, <1>13 DEF CountInv, SamePlaces, NumbersOK
      <4> QED
        BY <1>11, <4>1, <4>2, Pair DEF NumbersOK
    <3>2. r'.q \in Seq(Byte) /\ r'.bytes \in 0 .. Room
      BY <1>1, <1>8, <1>10, Types DEF rBytes
    <3> QED
      BY <3>1, <3>2, <1>1, <1>9 DEF TypeOK, RdSkt, rMsgs, due, DataArrives
  <2> QED
    BY <1>1, <1>6, <2>1, <2>2 DEF TypeOK, DataArrives, SamePlaces
<1> QED
  BY <1>12, <1>13, <1>14, <1>16, <1>17, <1>18 DEF FlowInv

(* What a step leaves alone.                                               *)
KeptW == wMsgs' = wMsgs /\ wBytes' = wBytes

KeptR == rMsgs' = rMsgs /\ rBytes' = rBytes /\ queued' = queued /\ due' = due

KeptNet ==
    /\ data' = data /\ answers' = answers /\ inData' = inData
    /\ ctl' = ctl /\ allMsgs' = allMsgs /\ allBytes' = allBytes

KeptCon == sent' = sent /\ offered' = offered /\ taken' = taken

(* What is kept by a step that leaves a variable alone.                    *)
LEMMA Kept ==
    /\ UNCHANGED w => KeptW /\ wFlags' = wFlags /\ w'.link = w.link /\ w'.open = w.open
    /\ UNCHANGED r => KeptR /\ r'.link = r.link /\ r'.open = r.open
    /\ UNCHANGED net => KeptNet
    /\ UNCHANGED con => KeptCon /\ con'.killed = con.killed
BY DEF KeptW, KeptR, KeptNet, KeptCon, wMsgs, wBytes, wFlags, rMsgs, rBytes, queued, due,
   data, answers, inData, ctl, allMsgs, allBytes, sent, offered, taken

(* What becomes of the connection changes nothing that has been counted.   *)
LEMMA KeptGiveUp ==
    ASSUME TypeOK, con' \in {con, GiveUp, Told("sender"), Told("receiver"), [con EXCEPT !.closed = TRUE]}
    PROVE  /\ con' \in Connection /\ KeptCon
           /\ con' # GiveUp => con'.killed = con.killed
<1>1. con \in Connection
  BY DEF TypeOK
<1>2. CASE con' = con
  BY <1>1, <1>2 DEF KeptCon, sent, offered, taken
<1>3. CASE con' = GiveUp
  BY <1>1, <1>3 DEF Connection, GiveUp, KeptCon, sent, offered, taken
<1>4. CASE con' = Told("sender")
  BY <1>1, <1>4 DEF Connection, Told, KeptCon, sent, offered, taken
<1>5. CASE con' = Told("receiver")
  BY <1>1, <1>5 DEF Connection, Told, KeptCon, sent, offered, taken
<1>6. CASE con' = [con EXCEPT !.closed = TRUE]
  BY <1>1, <1>6 DEF Connection, KeptCon, sent, offered, taken
<1> QED
  BY <1>2, <1>3, <1>4, <1>5, <1>6

(* A step that keeps all the numbers is quiet, if it revives nothing.      *)
LEMMA KeptQuiet ==
    ASSUME NumbersOK, SamePlaces, KeptW, KeptR, KeptNet, KeptCon,
           w'.link => w.link /\ wFlags' = wFlags,
           w'.link /\ r'.open /\ ~AllLost' => r.open /\ ~AllLost
    PROVE  Quiet
<1>1. allMsgs' = allMsgs - 0 /\ allBytes' = allBytes - 0
  BY DEF NumbersOK, KeptNet
<1> QED
  BY <1>1 DEF Quiet, SamePlaces, KeptW, KeptR, KeptNet, KeptCon, Del

(* What is said of the places depends on nothing else.                     *)
LEMMA PlacesKept ==
    ASSUME PlaceInv, SamePlaces, sent' = sent, offered' = offered
    PROVE  PlaceInv'
BY DEF PlaceInv, SamePlaces

(* A message received leaves ordinary ones.                                *)
LEMMA NoCreditTail ==
    ASSUME NEW s \in Seq(Ctl), s # <<>>, NoCredit(s)
    PROVE  NoCredit(Tail(s))
BY DEF NoCredit

(* And so does one sent.                                                   *)
LEMMA NoCreditAppend ==
    ASSUME NEW s \in Seq(Ctl), NEW c \in Ctl, NoCredit(s), c.op = "other" => c.m = 0 /\ c.b = 0
    PROVE  NoCredit(Append(s, c))
BY DEF NoCredit

(* FlowInv, for the steps that do not go through it part by part.          *)
LEMMA Parts ==
    ASSUME OnePair, FlowInv
    PROVE  /\ TypeOK /\ LinkInv /\ PlaceInv /\ MessageInv
           /\ RoomInv /\ SpendInv /\ BalanceInv /\ OtherInv /\ CountInv
           /\ NumbersOK
BY Numbers DEF FlowInv

(* iclean() at the sending host: from then on no books are kept there.     *)
LEMMA CleanSenderInv ==
    ASSUME OnePair, FlowInv, CleanSender
    PROVE  FlowInv' /\ Quiet
<1>1. TypeOK /\ LinkInv /\ PlaceInv /\ MessageInv /\ OtherInv /\ NumbersOK
  BY Parts
<1>2. w'.link = FALSE /\ w'.open = FALSE /\ w' \in WrtSkt /\ KeptW
  BY <1>1 DEF CleanSender, TypeOK, WrtSkt, KeptW, wMsgs, wBytes
<1>3. con' \in Connection /\ KeptCon
  BY <1>1, KeptGiveUp DEF CleanSender
<1>4. SamePlaces
  BY <1>1, Woken DEF CleanSender
<1>5. UNCHANGED <<r, hmap, drfnm, net>>
  BY DEF CleanSender
<1>6. KeptR /\ KeptNet
  BY <1>5, Kept
<1>7. TypeOK'
  BY <1>1, <1>2, <1>3, <1>4, <1>5 DEF TypeOK, SamePlaces
<1>8. LinkInv' /\ MessageInv'
  BY <1>1, <1>2, <1>5, <1>6 DEF LinkInv, MessageInv, KeptNet
<1>9. PlaceInv' /\ OtherInv'
  BY <1>1, <1>3, <1>4, <1>6, PlacesKept DEF OtherInv, KeptCon, KeptNet
<1>10. Quiet
  BY <1>1, <1>2, <1>3, <1>4, <1>6, KeptQuiet
<1> QED
  BY <1>7, <1>8, <1>9, <1>10, QuietInv

(* iclean() and the end of shared use at the receiving host.               *)
LEMMA CleanReceiverInv ==
    ASSUME OnePair, FlowInv, CleanReceiver \/ CloseShared
    PROVE  FlowInv' /\ Quiet
<1>1. TypeOK /\ LinkInv /\ PlaceInv /\ MessageInv /\ OtherInv /\ NumbersOK
  BY Parts
<1>2. r'.open = FALSE /\ r' \in RdSkt /\ KeptR
  BY <1>1 DEF CleanReceiver, CloseShared, TypeOK, RdSkt, KeptR, rMsgs, rBytes, queued, due
<1>3. con' \in Connection /\ KeptCon
  BY <1>1, KeptGiveUp DEF CleanReceiver, CloseShared
<1>4. SamePlaces
  BY <1>1, Woken DEF CleanReceiver, CloseShared
<1>5. UNCHANGED <<w, hmap, drfnm, net>>
  BY DEF CleanReceiver, CloseShared
<1>6. KeptW /\ KeptNet /\ wFlags' = wFlags /\ w'.link = w.link /\ w'.open = w.open
  BY <1>5, Kept
<1>7. TypeOK'
  BY <1>1, <1>2, <1>3, <1>4, <1>5 DEF TypeOK, SamePlaces
<1>8. LinkInv' /\ MessageInv'
  BY <1>1, <1>2, <1>4, <1>6 DEF LinkInv, MessageInv, KeptNet, SamePlaces
<1>9. PlaceInv' /\ OtherInv'
  BY <1>1, <1>3, <1>4, <1>6, PlacesKept DEF OtherInv, KeptCon, KeptNet
<1>10. Quiet
  BY <1>1, <1>2, <1>3, <1>4, <1>6, KeptQuiet
<1> QED
  BY <1>7, <1>8, <1>9, <1>10, QuietInv

(* netclose() by the last writer.                                          *)
LEMMA CloseSenderInv ==
    ASSUME OnePair, FlowInv, CloseSender
    PROVE  FlowInv' /\ Quiet
<1>1. TypeOK /\ LinkInv /\ PlaceInv /\ MessageInv /\ OtherInv /\ NumbersOK
  BY Parts
<1>2. w'.link = FALSE /\ w'.open = FALSE /\ w' \in WrtSkt /\ KeptW
  BY <1>1 DEF CloseSender, TypeOK, WrtSkt, KeptW, wMsgs, wBytes
<1>3. con' \in Connection /\ KeptCon
  BY <1>1, KeptGiveUp DEF CloseSender
<1>4. SamePlaces
  BY <1>1, Unmoved DEF CloseSender
<1>5. UNCHANGED <<r, hmap, drfnm, net>>
  BY DEF CloseSender
<1>6. KeptR /\ KeptNet
  BY <1>5, Kept
<1>7. TypeOK'
  BY <1>1, <1>2, <1>3, <1>4, <1>5 DEF TypeOK, SamePlaces
<1>8. LinkInv' /\ MessageInv'
  BY <1>1, <1>2, <1>5, <1>6 DEF LinkInv, MessageInv, KeptNet
<1>9. PlaceInv' /\ OtherInv'
  BY <1>1, <1>3, <1>4, <1>6, PlacesKept DEF OtherInv, KeptCon, KeptNet
<1>10. Quiet
  BY <1>1, <1>2, <1>3, <1>4, <1>6, KeptQuiet
<1> QED
  BY <1>7, <1>8, <1>9, <1>10, QuietInv

(* netsleep() with no flag on.                                             *)
LEMMA RfnmSleepInv ==
    ASSUME OnePair, FlowInv, NEW p \in Proc, RfnmSleep(p)
    PROVE  FlowInv' /\ Quiet
<1>1. TypeOK /\ LinkInv /\ PlaceInv /\ MessageInv /\ OtherInv /\ NumbersOK
  BY Parts
<1>2. UNCHANGED <<w, r, hmap, drfnm, net, con>>
  BY DEF RfnmSleep
<1>3. SamePlaces
  <2>1. pr' = [pr EXCEPT ![p] = [pr[p] EXCEPT !.run = FALSE]]
    BY <1>1 DEF RfnmSleep
  <2>2. pr[p] \in Process /\ [pr[p] EXCEPT !.run = FALSE] \in Process
    BY <1>1, ProcTypes DEF Process
  <2>3. pr' \in [Proc -> Process]
    BY <1>1, <2>1, <2>2 DEF TypeOK
  <2>4. \A q \in Proc : /\ pr'[q].at = pr[q].at /\ pr'[q].cnt = pr[q].cnt
                        /\ pr'[q].base = pr[q].base /\ pr'[q].n = pr[q].n
    BY <1>1, <2>1, <2>2 DEF TypeOK, Process
  <2> QED
    BY <2>3, <2>4, Pair DEF SamePlaces, place, count, base, amount, held, W, R
<1>4. KeptW /\ KeptR /\ KeptNet /\ KeptCon /\ wFlags' = wFlags
  BY <1>2, Kept
<1>5. TypeOK'
  BY <1>1, <1>2, <1>3 DEF TypeOK, SamePlaces
<1>6. LinkInv' /\ MessageInv'
  BY <1>1, <1>2, <1>3, <1>4 DEF LinkInv, MessageInv, KeptNet, SamePlaces
<1>7. PlaceInv' /\ OtherInv'
  BY <1>1, <1>3, <1>4, PlacesKept DEF OtherInv, KeptCon, KeptNet
<1>8. Quiet
  BY <1>1, <1>2, <1>3, <1>4, KeptQuiet DEF AllLost
<1> QED
  BY <1>5, <1>6, <1>7, <1>8, QuietInv

(* ih() on link 0: an error that is no longer an answer is known to the    *)
(* daemon, so an ALL that was lost stays known.                            *)
LEMMA CtlAnsweredInv ==
    ASSUME OnePair, FlowInv, CtlAnswered
    PROVE  FlowInv' /\ Quiet
<1>1. TypeOK /\ LinkInv /\ PlaceInv /\ MessageInv /\ OtherInv /\ NumbersOK
  BY Parts
<1>2. /\ net.cans # <<>> /\ net' = [net EXCEPT !.cans = Tail(@)]
      /\ con' = IF Head(net.cans) = "err" THEN Told("receiver") ELSE con
      /\ UNCHANGED <<w, r>>
  BY DEF CtlAnswered
<1>3. net.cans \in Seq(Answer) /\ Tail(net.cans) \in Seq(Answer)
  BY <1>1, <1>2, Types
<1>4. /\ net' \in Net /\ net'.cans = Tail(net.cans) /\ KeptNet
  BY <1>1, <1>2, <1>3 DEF TypeOK, Net, KeptNet, data, answers, inData, ctl, allMsgs, allBytes
<1>5. con' \in Connection /\ KeptCon /\ con'.killed = con.killed
  <2>1. CASE con' = con
    BY <1>1, <2>1, KeptGiveUp
  <2>2. CASE con' = Told("receiver")
    BY <1>1, <2>2, KeptGiveUp DEF Told, TypeOK, Connection
  <2> QED
    BY <1>2, <2>1, <2>2
<1>6. SamePlaces
  BY <1>1, Woken, Unmoved DEF CtlAnswered
<1>7. KeptW /\ KeptR /\ wFlags' = wFlags
  BY <1>2, Kept
<1>8. TypeOK'
  <2>1. hmap' \in BOOLEAN /\ drfnm' \in BOOLEAN
    BY <1>1 DEF CtlAnswered, TypeOK
  <2> QED
    BY <1>1, <1>2, <1>4, <1>5, <1>6, <2>1 DEF TypeOK, SamePlaces
<1>9. LinkInv' /\ MessageInv'
  BY <1>1, <1>2, <1>4, <1>5, <1>6, <1>7 DEF LinkInv, MessageInv, KeptNet, SamePlaces
<1>10. PlaceInv' /\ OtherInv'
  BY <1>1, <1>4, <1>5, <1>6, PlacesKept DEF OtherInv, KeptCon, KeptNet
<1>11. ASSUME w'.link, r'.open, AllLost PROVE AllLost'
  <2>1. ~con.killed
    BY <1>1, <1>2, <1>11 DEF LinkInv
  <2>2. CASE "receiver" \in con.told
    BY <1>1, <1>2, <2>2 DEF AllLost, Told, TypeOK, Connection
  <2>3. CASE Head(net.cans) = "err"
    BY <1>1, <1>2, <2>1, <2>3 DEF AllLost, Told, TypeOK, Connection
  <2>4. ASSUME NEW i \in DOMAIN net.cans, net.cans[i] = "err", Head(net.cans) # "err"
        PROVE  AllLost'
    <3>1. i - 1 \in DOMAIN Tail(net.cans) /\ Tail(net.cans)[i - 1] = net.cans[i]
      BY <1>3, <2>4
    <3> QED
      BY <1>4, <2>4, <3>1 DEF AllLost
  <2> QED
    BY <1>11, <2>2, <2>3, <2>4 DEF AllLost
<1>12. Quiet
  BY <1>1, <1>2, <1>4, <1>5, <1>6, <1>7, <1>11, KeptQuiet
<1> QED
  BY <1>8, <1>9, <1>10, <1>12, QuietInv

(* send_pro() at the receiving host.                                       *)
LEMMA DaemonSendsInv ==
    ASSUME OnePair, FlowInv, DaemonSends
    PROVE  FlowInv' /\ Quiet
<1> DEFINE c == [op |-> "other", m |-> 0, b |-> 0]
<1>1. TypeOK /\ LinkInv /\ PlaceInv /\ MessageInv /\ OtherInv /\ NumbersOK
  BY Parts
<1>2. /\ net' = [net EXCEPT !.ctl = Append(@, c)] /\ drfnm' = TRUE
      /\ UNCHANGED <<w, r, hmap, pr, con>>
  BY DEF DaemonSends
<1>3. c \in Ctl /\ c.m = 0 /\ c.b = 0
  BY DEF Ctl
<1> HIDE DEF c
<1>4. net.ctl \in Seq(Ctl) /\ Append(net.ctl, c) \in Seq(Ctl)
  BY <1>1, <1>3, Types
<1>5. /\ net' \in Net /\ net'.ctl = Append(net.ctl, c) /\ net'.cans = net.cans
      /\ data' = data /\ answers' = answers /\ inData' = inData
  BY <1>1, <1>2, <1>4 DEF TypeOK, Net, data, answers, inData
<1>6. allMsgs' = allMsgs - 0 /\ allBytes' = allBytes - 0
  <2>1. allMsgs' = allMsgs + c.m /\ allBytes' = allBytes + c.b
    BY <1>3, <1>4, <1>5, CtlAppend DEF allMsgs, allBytes
  <2> QED
    BY <1>1, <1>3, <2>1 DEF NumbersOK
<1>7. SamePlaces
  BY <1>1, <1>2, Unmoved
<1>8. KeptW /\ KeptR /\ KeptCon /\ wFlags' = wFlags
  BY <1>2, Kept
<1>9. TypeOK'
  BY <1>1, <1>2, <1>5, <1>7 DEF TypeOK, SamePlaces
<1>10. LinkInv' /\ MessageInv'
  BY <1>1, <1>2, <1>5, <1>7, <1>8 DEF LinkInv, MessageInv, SamePlaces
<1>11. PlaceInv'
  BY <1>1, <1>7, <1>8, PlacesKept DEF KeptCon
<1>12. OtherInv'
  BY <1>1, <1>3, <1>4, <1>5, NoCreditAppend DEF OtherInv, ctl
<1>13. Quiet
  <2>1. AllLost' = AllLost
    BY <1>2, <1>5 DEF AllLost
  <2>2. allMsgs' = allMsgs /\ allBytes' = allBytes
    BY <1>1, <1>6 DEF NumbersOK
  <2> QED
    BY <1>1, <1>2, <1>5, <1>6, <1>7, <1>8, <2>1, <2>2 DEF Quiet, SamePlaces, KeptW, KeptR, KeptCon, Del
<1> QED
  BY <1>9, <1>10, <1>11, <1>12, <1>13, QuietInv

(* A lost ALL leaves the sender less than was allocated, and an error      *)
(* among the answers.                                                      *)
LEMMA CtlLostInv ==
    ASSUME OnePair, FlowInv, CtlLost
    PROVE  FlowInv' /\ Quiet
<1>1. TypeOK /\ LinkInv /\ PlaceInv /\ MessageInv /\ OtherInv /\ NumbersOK
  BY Parts
<1>2. /\ net.ctl # <<>>
      /\ net' = [net EXCEPT !.ctl = Tail(@), !.cans = Append(@, "err")]
      /\ UNCHANGED <<w, r, hmap, drfnm, pr, con>>
  BY DEF CtlLost
<1>3. /\ net.ctl \in Seq(Ctl) /\ Tail(net.ctl) \in Seq(Ctl) /\ Head(net.ctl) \in Ctl
      /\ net.cans \in Seq(Answer) /\ Append(net.cans, "err") \in Seq(Answer)
  BY <1>1, <1>2, Types DEF Answer
<1>4. /\ net' \in Net /\ net'.ctl = Tail(net.ctl) /\ net'.cans = Append(net.cans, "err")
      /\ data' = data /\ answers' = answers /\ inData' = inData
  BY <1>1, <1>2, <1>3 DEF TypeOK, Net, data, answers, inData
<1>5. PICK i \in Nat, j \in Nat : allMsgs' = allMsgs - i /\ allBytes' = allBytes - j
  <2>1. Head(net.ctl).m \in Nat /\ Head(net.ctl).b \in Nat
    BY <1>3 DEF Ctl
  <2>2. allMsgs = Head(net.ctl).m + Msgs(Tail(net.ctl)) /\ allBytes = Head(net.ctl).b + Bytes(Tail(net.ctl))
    BY <1>2, <1>3, CtlTail DEF allMsgs, allBytes
  <2>3. Msgs(Tail(net.ctl)) \in Nat /\ Bytes(Tail(net.ctl)) \in Nat
    BY <1>3, CtlNat
  <2>4. /\ Msgs(Tail(net.ctl)) = allMsgs - Head(net.ctl).m
        /\ Bytes(Tail(net.ctl)) = allBytes - Head(net.ctl).b
    BY <1>1, <2>1, <2>2, <2>3 DEF NumbersOK
  <2> QED
    BY <1>4, <2>1, <2>4 DEF allMsgs, allBytes
<1>6. SamePlaces
  BY <1>1, <1>2, Unmoved
<1>7. KeptW /\ KeptR /\ KeptCon /\ wFlags' = wFlags
  BY <1>2, Kept
<1>8. TypeOK'
  BY <1>1, <1>2, <1>4, <1>6 DEF TypeOK, SamePlaces
<1>9. LinkInv' /\ MessageInv'
  BY <1>1, <1>2, <1>4, <1>6, <1>7 DEF LinkInv, MessageInv, SamePlaces
<1>10. PlaceInv'
  BY <1>1, <1>6, <1>7, PlacesKept DEF KeptCon
<1>11. OtherInv'
  BY <1>1, <1>2, <1>3, <1>4, NoCreditTail DEF OtherInv, ctl
<1>12. Quiet
  <2>1. AllLost'
    <3>1. Len(net.cans) + 1 \in DOMAIN net'.cans /\ net'.cans[Len(net.cans) + 1] = "err"
      BY <1>3, <1>4
    <3> QED
      BY <3>1 DEF AllLost
  <2> QED
    BY <1>1, <1>2, <1>4, <1>5, <1>6, <1>7, <2>1 DEF Quiet, SamePlaces, KeptW, KeptR, KeptCon, Del
<1> QED
  BY <1>8, <1>9, <1>10, <1>11, <1>12, QuietInv

(* A lost message is answered with an error; its bytes have not been       *)
(* charged at either end.                                                  *)
LEMMA DataLostInv ==
    ASSUME OnePair, FlowInv, DataLost
    PROVE  FlowInv' /\ Quiet
<1>1. TypeOK /\ LinkInv /\ PlaceInv /\ MessageInv /\ OtherInv /\ NumbersOK
  BY Parts
<1>2. net.data # <<>> /\ answers = <<>> /\ Tail(net.data) = <<>>
  BY <1>1, OneData DEF DataLost
<1>3. net' = [net EXCEPT !.data = <<>>, !.dans = <<"err">>]
  <2>1. Append(<< >>, "err") = <<"err">>
    OBVIOUS
  <2> QED
    BY <1>2, <2>1 DEF DataLost, answers
<1>4. net' \in Net
  <2>1. << >> \in Seq(Seq(Byte)) /\ <<"err">> \in Seq(Answer)
    BY DEF Answer
  <2> QED
    BY <1>1, <1>3, <2>1 DEF TypeOK, Net
<1>5. net'.data = <<>> /\ net'.dans = <<"err">> /\ net'.ctl = net.ctl /\ net'.cans = net.cans
  BY <1>1, <1>3 DEF TypeOK, Net
<1>6. /\ data' = <<>> /\ answers' = <<"err">> /\ inData' = 0 /\ ctl' = ctl
      /\ allMsgs' = allMsgs /\ allBytes' = allBytes
  BY <1>5, SizeNone DEF data, answers, inData, ctl, allMsgs, allBytes
<1>7. UNCHANGED <<w, r, hmap, drfnm, pr, con>>
  BY DEF DataLost
<1>8. SamePlaces /\ KeptW /\ KeptR /\ KeptCon /\ wFlags' = wFlags
  BY <1>1, <1>7, Unmoved, Kept
<1>9. TypeOK'
  BY <1>1, <1>4, <1>7, <1>8 DEF TypeOK, SamePlaces
<1>10. LinkInv' /\ PlaceInv' /\ OtherInv'
  BY <1>1, <1>6, <1>7, <1>8, PlacesKept DEF LinkInv, OtherInv, KeptCon
<1>11. data # <<>>
  BY <1>2 DEF data
<1>12. MessageInv'
  <2>1. Len(<<"err">>) = 1 /\ <<"err">> # <<>>
    OBVIOUS
  <2> QED
    BY <1>1, <1>2, <1>6, <1>7, <1>8, <1>11, <2>1 DEF MessageInv, SamePlaces
<1>13. Quiet
  <2>1. AllLost' = AllLost
    BY <1>5, <1>7 DEF AllLost
  <2>2. allMsgs' = allMsgs - 0 /\ allBytes' = allBytes - 0
    BY <1>1, <1>6 DEF NumbersOK
  <2>3. w'.link => (Del' <=> Del)
    BY <1>1, <1>2, <1>6, <1>7, <1>8, <1>11 DEF Del, MessageInv, SamePlaces
  <2> QED
    BY <1>6, <1>7, <1>8, <1>11, <2>1, <2>2, <2>3 DEF Quiet, SamePlaces, KeptW, KeptR, KeptCon
<1> QED
  BY <1>9, <1>10, <1>12, <1>13, QuietInv

(* siguser(): an answer becomes a flag.                                    *)
LEMMA DataAnsweredInv ==
    ASSUME OnePair, FlowInv, DataAnswered
    PROVE  FlowInv' /\ Quiet
<1> DEFINE a == Head(net.dans)
           flag == IF a = "rfnm" THEN "rfnm" ELSE "xmterr"
<1>1. TypeOK /\ LinkInv /\ PlaceInv /\ MessageInv /\ OtherInv /\ NumbersOK
  BY Parts
<1>2. /\ data = <<>> /\ answers # <<>> /\ answers = <<a>> /\ Tail(net.dans) = <<>>
      /\ a \in {"rfnm", "err"}
  BY <1>1, OneAnswer DEF DataAnswered, answers, Answer
<1>3. net' = [net EXCEPT !.dans = <<>>]
  BY <1>2 DEF DataAnswered
<1>4. net' \in Net
  BY <1>1, <1>3, EmptySeq DEF TypeOK, Net
<1>5. net'.data = net.data /\ net'.dans = <<>> /\ net'.ctl = net.ctl /\ net'.cans = net.cans
  BY <1>1, <1>3 DEF TypeOK, Net
<1>6. /\ data' = data /\ answers' = <<>> /\ inData' = inData /\ ctl' = ctl
      /\ allMsgs' = allMsgs /\ allBytes' = allBytes
  BY <1>5 DEF data, answers, inData, ctl, allMsgs, allBytes
<1>7. SamePlaces
  BY <1>1, Woken, Unmoved DEF DataAnswered
<1>8. UNCHANGED <<r, hmap, drfnm>> /\ KeptR
  BY Kept DEF DataAnswered
<1>9. con' \in Connection /\ KeptCon /\ con'.killed = con.killed
  <2>1. con' = con \/ con' = Told("sender")
    BY DEF DataAnswered
  <2>2. CASE con' = con
    BY <1>1, <2>2, KeptGiveUp
  <2>3. CASE con' = Told("sender")
    BY <1>1, <2>3, KeptGiveUp DEF Told, TypeOK, Connection
  <2> QED
    BY <2>1, <2>2, <2>3
<1>10. /\ w' \in WrtSkt /\ KeptW /\ w'.link = w.link /\ w'.open = w.open
       /\ w.link => wFlags' = wFlags \cup {flag}
  <2>1. CASE w.link
    <3>1. w' = [w EXCEPT !.flags = @ \cup {flag}]
      BY <2>1 DEF DataAnswered
    <3>2. w.flags \cup {flag} \in SUBSET {"rfnm", "xmterr", "eof"}
      BY <1>1, Types
    <3> HIDE DEF flag
    <3> QED
      BY <1>1, <3>1, <3>2 DEF TypeOK, WrtSkt, KeptW, wMsgs, wBytes, wFlags
  <2>2. CASE ~w.link
    BY <1>1, <2>2, Kept DEF TypeOK, DataAnswered
  <2> QED
    BY <2>1, <2>2
<1>11. TypeOK'
  BY <1>1, <1>4, <1>7, <1>8, <1>9, <1>10 DEF TypeOK, SamePlaces
<1>12. LinkInv' /\ PlaceInv' /\ OtherInv'
  BY <1>1, <1>6, <1>7, <1>8, <1>9, <1>10, PlacesKept DEF LinkInv, OtherInv, KeptCon
<1>13. w.link => wFlags = {} /\ place = "rfnm" /\ wFlags' = {flag}
  BY <1>1, <1>2, <1>10 DEF MessageInv
<1>14. flag = "rfnm" <=> answers = <<"rfnm">>
  BY <1>2
<1>15. flag \in {"rfnm", "xmterr"}
  OBVIOUS
<1> HIDE DEF flag
<1>16. MessageInv'
  BY <1>1, <1>2, <1>6, <1>7, <1>10, <1>13, <1>15 DEF MessageInv, SamePlaces
<1>17. Quiet
  <2>1. w'.link /\ r'.open /\ ~AllLost' => r.open /\ ~AllLost
    <3>1. con'.told = con.told \/ con'.told = con.told \cup {"sender"}
      BY <1>1 DEF DataAnswered, Told, TypeOK, Connection
    <3> QED
      BY <1>5, <1>8, <3>1 DEF AllLost
  <2>2. allMsgs' = allMsgs - 0 /\ allBytes' = allBytes - 0
    BY <1>1, <1>6 DEF NumbersOK
  <2>3. w'.link => (Del' <=> Del)
    BY <1>6, <1>7, <1>10, <1>13, <1>14 DEF Del, SamePlaces
  <2> QED
    BY <1>6, <1>7, <1>8, <1>9, <1>10, <2>1, <2>2, <2>3 DEF Quiet, SamePlaces, KeptW, KeptR, KeptCon
<1> QED
  BY <1>11, <1>12, <1>16, <1>17, QuietInv

(* A signal, in any sleep but that for an RFNM.                            *)
LEMMA SignalInv ==
    ASSUME OnePair, FlowInv, NEW p \in Proc, Signal(p)
    PROVE  FlowInv' /\ Quiet
<1>1. TypeOK /\ LinkInv /\ PlaceInv /\ MessageInv /\ OtherInv /\ NumbersOK
  BY Parts
<1>2. UNCHANGED <<w, r, hmap, drfnm, net, con>> /\ pr' = [pr EXCEPT ![p] = Idle]
  BY DEF Signal
<1>3. pr[p].at # "rfnm" /\ pr[p].at # "idle"
  BY NcpFlowAssumption DEF Signal, OnePair
<1>4. Idle \in Process /\ Idle.at = "idle" /\ Idle.n = 0
  BY NcpFlowAssumption DEF Idle, Process
<1>5. pr' \in [Proc -> Process] /\ pr'[p] = Idle /\ \A q \in Proc : q # p => pr'[q] = pr[q]
  BY <1>1, <1>2, <1>4 DEF TypeOK
<1>6. KeptW /\ KeptR /\ KeptNet /\ KeptCon /\ wFlags' = wFlags
  BY <1>2, Kept
<1>7. TypeOK'
  BY <1>1, <1>2, <1>5 DEF TypeOK
<1>8. (place' = "rfnm" <=> place = "rfnm") /\ (place' = "rfnm" => amount' = amount)
  BY <1>3, <1>4, <1>5, Pair DEF place, amount, W
<1>9. held' = held \/ held' = 0
  BY <1>3, <1>4, <1>5, Pair DEF held, R
<1>10. PlaceInv'
  <2>1. CASE p = wr
    <3>1. place' = "idle" /\ R'.at = R.at
      BY <1>4, <1>5, <2>1, Pair DEF place, W, R
    <3>2. place = "alloc"
      BY <1>1, <1>3, <2>1 DEF PlaceInv, place, W
    <3>3. sent <= offered
      BY <1>1, <3>2 DEF PlaceInv, NumbersOK
    <3> QED
      BY <1>1, <1>6, <3>1, <3>3 DEF PlaceInv, KeptCon
  <2>2. CASE p = rd
    <3>1. /\ place' = place /\ base' = base /\ count' = count /\ amount' = amount
          /\ R'.at = "idle"
      BY <1>4, <1>5, <2>2, Pair DEF place, W, R, base, count, amount
    <3> QED
      BY <1>1, <1>6, <3>1 DEF PlaceInv, KeptCon
  <2> QED
    BY <2>1, <2>2, Pair
<1>11. LinkInv' /\ MessageInv' /\ OtherInv'
  BY <1>1, <1>2, <1>6, <1>8 DEF LinkInv, MessageInv, OtherInv, KeptNet
<1>12. Quiet
  <2>1. allMsgs' = allMsgs - 0 /\ allBytes' = allBytes - 0
    BY <1>1, <1>6 DEF NumbersOK, KeptNet
  <2> QED
    BY <1>2, <1>6, <1>8, <1>9, <2>1 DEF Quiet, KeptW, KeptR, KeptNet, KeptCon, AllLost, Del
<1> QED
  BY <1>7, <1>10, <1>11, <1>12, QuietInv

(* allocate(): what the ALL says moves from the link to the sender's       *)
(* books.                                                                  *)
LEMMA CtlArrivesInv ==
    ASSUME OnePair, FlowInv, CtlArrives
    PROVE  FlowInv'
<1> DEFINE c == Head(net.ctl)
           i == c.m
           j == c.b
<1>1. /\ TypeOK /\ LinkInv /\ PlaceInv /\ MessageInv /\ OtherInv /\ NumbersOK
      /\ RoomInv /\ SpendInv /\ BalanceInv /\ CountInv
  BY Parts
<1>2. /\ net.ctl # <<>>
      /\ net' = [net EXCEPT !.ctl = Tail(@), !.cans = Append(@, "rfnm")]
      /\ UNCHANGED <<r, hmap, drfnm, con>>
  BY DEF CtlArrives
<1>3. /\ net.ctl \in Seq(Ctl) /\ Tail(net.ctl) \in Seq(Ctl) /\ c \in Ctl /\ c = net.ctl[1]
      /\ net.cans \in Seq(Answer) /\ Append(net.cans, "rfnm") \in Seq(Answer)
      /\ 1 \in DOMAIN net.ctl
  BY <1>1, <1>2, Types DEF Answer
<1>4. /\ net' \in Net /\ net'.ctl = Tail(net.ctl) /\ net'.cans = Append(net.cans, "rfnm")
      /\ data' = data /\ answers' = answers /\ inData' = inData
  BY <1>1, <1>2, <1>3 DEF TypeOK, Net, data, answers, inData
<1>5. c.m \in Nat /\ c.b \in Nat /\ (c.op = "other" => c.m = 0 /\ c.b = 0) /\ c.op \in {"all", "other"}
  BY <1>1, <1>3 DEF Ctl, OtherInv, NoCredit, ctl
<1>6. allMsgs' = allMsgs - i /\ allBytes' = allBytes - j
  <2>1. allMsgs = c.m + Msgs(Tail(net.ctl)) /\ allBytes = c.b + Bytes(Tail(net.ctl))
    BY <1>2, <1>3, CtlTail DEF allMsgs, allBytes
  <2>2. Msgs(Tail(net.ctl)) \in Nat /\ Bytes(Tail(net.ctl)) \in Nat
    BY <1>3, CtlNat
  <2>3. Msgs(Tail(net.ctl)) = allMsgs - c.m /\ Bytes(Tail(net.ctl)) = allBytes - c.b
    BY <1>1, <1>5, <2>1, <2>2 DEF NumbersOK
  <2> QED
    BY <1>4, <2>3 DEF allMsgs, allBytes
<1>7. SamePlaces
  BY <1>1, Woken, Unmoved DEF CtlArrives
<1>8. KeptR /\ KeptCon /\ r'.open = r.open /\ r'.link = r.link
  BY <1>2, Kept
<1>9. /\ w' \in WrtSkt /\ wFlags' = wFlags /\ w'.link = w.link /\ w'.open = w.open
      /\ wMsgs' = IF c.op = "all" /\ w.link THEN wMsgs + i ELSE wMsgs
      /\ wBytes' = IF c.op = "all" /\ w.link THEN wBytes + j ELSE wBytes
  <2>1. CASE c.op = "all" /\ w.link
    <3>1. w' = [w EXCEPT !.msgs = w.msgs + c.m, !.falloc = w.falloc + c.b]
      BY <2>1 DEF CtlArrives
    <3>2. w.msgs + c.m \in Int /\ w.falloc + c.b \in Int
      <4>1. w.msgs \in Int /\ w.falloc \in Int
        BY <1>1, Types
      <4> HIDE DEF c
      <4> QED
        BY <1>5, <4>1
    <3> HIDE DEF c
    <3> QED
      BY <1>1, <2>1, <3>1, <3>2 DEF TypeOK, WrtSkt, wMsgs, wBytes, wFlags
  <2>2. CASE ~(c.op = "all" /\ w.link)
    <3>1. w' = w
      BY <2>2 DEF CtlArrives
    <3> QED
      BY <1>1, <2>2, <3>1 DEF TypeOK, wMsgs, wBytes, wFlags
  <2> QED
    BY <2>1, <2>2
<1>10. i \in Nat /\ j \in Nat /\ (w.link /\ c.op # "all" => i = 0 /\ j = 0)
  BY <1>5
<1> HIDE DEF i, j
<1>11. w.link => wMsgs' = wMsgs + i /\ wBytes' = wBytes + j
  BY <1>1, <1>9, <1>10 DEF NumbersOK
<1>12. TypeOK'
  BY <1>1, <1>2, <1>4, <1>7, <1>9 DEF TypeOK, SamePlaces
<1>13. LinkInv' /\ MessageInv'
  BY <1>1, <1>2, <1>4, <1>7, <1>9 DEF LinkInv, MessageInv, SamePlaces
<1>14. PlaceInv'
  BY <1>1, <1>7, <1>8, PlacesKept DEF KeptCon
<1>15. OtherInv'
  BY <1>1, <1>2, <1>3, <1>4, NoCreditTail DEF OtherInv, ctl
<1>16. (Del' <=> Del) /\ delMsgs' = delMsgs /\ delBytes' = delBytes
  BY <1>4, <1>7, <1>9 DEF Del, delMsgs, delBytes, SamePlaces
<1>17. RoomInv' /\ CountInv'
  <2>1. RoomInv'
    BY <1>1, <1>4, <1>8 DEF RoomInv, KeptR
  <2>2. CountInv'
    BY <1>1, <1>4, <1>7, <1>8, <1>9, <1>16 DEF CountInv, KeptR, KeptCon, SamePlaces
  <2> QED
    BY <2>1, <2>2
<1>18. delMsgs \in Int /\ delBytes \in Int
  BY <1>1 DEF delMsgs, delBytes, NumbersOK
<1>19. SpendInv'
  BY <1>1, <1>6, <1>7, <1>8, <1>9, <1>10, <1>11, <1>16, <1>18 DEF SpendInv, KeptR, SamePlaces, NumbersOK
<1>20. BalanceInv'
  <2>1. SUFFICES ASSUME w.link, r.open, ~AllLost' PROVE Balanced'
    BY <1>8, <1>9 DEF BalanceInv
  <2>2. ~AllLost
    <3>1. ASSUME NEW k \in DOMAIN net.cans PROVE k \in DOMAIN net'.cans /\ net'.cans[k] = net.cans[k]
      BY <1>3, <1>4
    <3> QED
      BY <1>2, <2>1, <3>1 DEF AllLost
  <2>3. Balanced
    BY <1>1, <2>1, <2>2 DEF BalanceInv
  <2>4. /\ wMsgs' = wMsgs + i /\ wBytes' = wBytes + j
        /\ rMsgs' = rMsgs /\ rBytes' = rBytes /\ queued' = queued
        /\ delMsgs' = delMsgs /\ delBytes' = delBytes
    BY <1>8, <1>11, <1>16, <2>1 DEF KeptR
  <2> QED
    BY <1>1, <1>6, <1>10, <1>18, <2>3, <2>4 DEF Balanced, NumbersOK
<1> QED
  BY <1>12, <1>13, <1>14, <1>15, <1>17, <1>19, <1>20 DEF FlowInv

(* A message of the given bytes.                                           *)
LEMMA NewMessage ==
    ASSUME NEW b \in 0 .. MaxBytes, NEW n \in Nat \ {0}, b + n <= MaxBytes
    PROVE  \E d : /\ d \in Seq(Seq(Byte)) /\ d # <<>> /\ Len(d) = 1 /\ Size(d) = n
                 /\ Append(<< >>, [i \in 1 .. n |-> b + i]) = d
                 /\ d[1] = [i \in 1 .. n |-> b + i]
<1> DEFINE m == [i \in 1 .. n |-> b + i]
           d == <<m>>
<1>1. m \in Seq(Byte) /\ Len(m) = n
  BY NcpFlowAssumption DEF Byte
<1> HIDE DEF m
<1>2. d \in Seq(Seq(Byte)) /\ d # <<>> /\ Len(d) = 1 /\ d[1] = m /\ Append(<< >>, m) = d
  BY <1>1
<1>3. Size(d) = Len(m)
  BY <1>2, SizeOne
<1> QED
  BY <1>1, <1>2, <1>3 DEF m

(* netwrite() sends the message again after an error: it is still within   *)
(* the allocation.                                                         *)
LEMMA RetryInv ==
    ASSUME OnePair, FlowInv, Retry(wr)
    PROVE  FlowInv'
<1>1. /\ TypeOK /\ LinkInv /\ PlaceInv /\ MessageInv /\ OtherInv /\ NumbersOK
      /\ RoomInv /\ SpendInv /\ BalanceInv /\ CountInv
  BY Parts
<1>2. /\ place = "rfnm" /\ "xmterr" \in wFlags
      /\ w' = [w EXCEPT !.flags = {}]
      /\ net' = IF w.link THEN [net EXCEPT !.data = Append(@, [i \in 1 .. amount |-> base + i])] ELSE net
      /\ UNCHANGED <<r, hmap, drfnm, con>>
  BY DEF Retry, Runs, Failed, SndData, place, amount, base, W, wFlags
<1>3. w' \in WrtSkt /\ KeptW /\ wFlags' = {} /\ w'.link = w.link /\ w'.open = w.open
  BY <1>1, <1>2 DEF TypeOK, WrtSkt, KeptW, wMsgs, wBytes, wFlags
<1>4. SamePlaces
  <2>1. pr' = [pr EXCEPT ![wr] = [pr[wr] EXCEPT !.run = FALSE]]
    BY <1>1 DEF Retry
  <2>2. pr[wr] \in Process /\ [pr[wr] EXCEPT !.run = FALSE] \in Process
    <3>1. pr[wr] \in Process
      BY <1>1, Pair, ProcTypes
    <3> QED
      BY <3>1 DEF Process
  <2>3. pr' \in [Proc -> Process]
    BY <1>1, <2>1, <2>2 DEF TypeOK
  <2>4. \A q \in Proc : /\ pr'[q].at = pr[q].at /\ pr'[q].cnt = pr[q].cnt
                        /\ pr'[q].base = pr[q].base /\ pr'[q].n = pr[q].n
    BY <1>1, <2>1, <2>2 DEF TypeOK, Process
  <2> QED
    BY <2>3, <2>4, Pair DEF SamePlaces, place, count, base, amount, held, W, R
<1>5. KeptR /\ KeptCon
  BY <1>2, Kept
<1>6. LinkInv' /\ PlaceInv'
  BY <1>1, <1>2, <1>3, <1>4, <1>5, PlacesKept DEF LinkInv, KeptCon
<1>7. CASE ~w.link
  <2>1. net' = net /\ KeptNet
    BY <1>2, <1>7, Kept
  <2>2. TypeOK' /\ MessageInv' /\ OtherInv'
    BY <1>1, <1>2, <1>3, <1>4, <1>7, <2>1 DEF TypeOK, MessageInv, OtherInv, KeptNet, SamePlaces
  <2>3. Quiet
    BY <1>1, <1>3, <1>4, <1>5, <1>7, <2>1, KeptQuiet
  <2> QED
    BY <1>6, <2>2, <2>3, QuietInv
<1>8. CASE w.link
  <2>0. data = <<>> /\ answers = <<>> /\ ~Del
    BY <1>1, <1>2, <1>8 DEF MessageInv, Del
  <2>1. amount \in Nat \ {0} /\ base + amount <= MaxBytes /\ base \in 0 .. MaxBytes
    BY <1>1, <1>2 DEF PlaceInv, NumbersOK
  <2>2. PICK d : /\ d \in Seq(Seq(Byte)) /\ d # <<>> /\ Len(d) = 1 /\ Size(d) = amount
                 /\ Append(<< >>, [i \in 1 .. amount |-> base + i]) = d
    BY <2>1, NewMessage
  <2>3. net' = [net EXCEPT !.data = d]
    BY <1>2, <1>8, <2>0, <2>2 DEF data
  <2>4. net' \in Net /\ net'.data = d /\ net'.dans = net.dans /\ net'.ctl = net.ctl /\ net'.cans = net.cans
    BY <1>1, <2>2, <2>3 DEF TypeOK, Net
  <2>5. /\ data' = d /\ answers' = <<>> /\ inData' = amount /\ ctl' = ctl
        /\ allMsgs' = allMsgs /\ allBytes' = allBytes
    BY <2>0, <2>2, <2>4 DEF data, answers, inData, ctl, allMsgs, allBytes
  <2>6. TypeOK' /\ OtherInv'
    BY <1>1, <1>2, <1>3, <1>4, <2>4, <2>5 DEF TypeOK, OtherInv, SamePlaces
  <2>7. MessageInv'
    BY <1>2, <1>3, <1>4, <2>2, <2>5 DEF MessageInv, SamePlaces
  <2>8. delMsgs = 0 /\ delBytes = 0 /\ ~Del' /\ delMsgs' = 0 /\ delBytes' = 0
    <3>1. ~Del'
      <4>1. << >> # <<"rfnm">>
        OBVIOUS
      <4> QED
        BY <1>3, <2>5, <4>1 DEF Del
    <3> QED
      BY <2>0, <3>1 DEF delMsgs, delBytes
  <2>9. /\ wMsgs >= 1 /\ wBytes >= amount
        /\ wMsgs + allMsgs <= rMsgs
        /\ wBytes + allBytes + queued <= rBytes
    <3>1. /\ wMsgs >= 1 /\ wBytes >= amount
          /\ wMsgs + allMsgs <= rMsgs + delMsgs
          /\ wBytes + allBytes + queued <= rBytes + delBytes
      BY <1>1, <1>2, <1>8 DEF SpendInv
    <3> QED
      BY <1>1, <2>8, <3>1 DEF NumbersOK
  <2>10. RoomInv'
    <3>1. rMsgs >= 1 /\ queued + amount <= rBytes
      BY <1>1, <2>9 DEF NumbersOK
    <3> QED
      BY <1>1, <1>5, <2>5, <3>1 DEF RoomInv, KeptR
  <2>11. SpendInv'
    BY <1>1, <1>3, <1>4, <1>5, <2>5, <2>8 DEF SpendInv, KeptW, KeptR, SamePlaces
  <2>12. BalanceInv'
    <3>1. AllLost' = AllLost /\ r'.open = r.open
      BY <1>2, <2>4 DEF AllLost
    <3> QED
      BY <1>1, <1>3, <1>5, <2>5, <2>8, <3>1 DEF BalanceInv, Balanced, KeptW, KeptR
  <2>13. CountInv'
    <3>1. taken + queued + amount <= sent
      BY <1>1, <1>2, <1>8, <2>0 DEF CountInv
    <3> QED
      BY <1>1, <1>2, <1>4, <1>5, <2>5, <3>1 DEF CountInv, KeptR, KeptCon, SamePlaces
  <2> QED
    BY <1>6, <2>6, <2>7, <2>10, <2>11, <2>12, <2>13 DEF FlowInv
<1> QED
  BY <1>7, <1>8

(* The socket, the process and the connection that WriteLoop starts from.  *)
Ready(c, ws, k) ==
    /\ ws \in WrtSkt /\ ws.link = w.link /\ ws.open = w.open
    /\ c \in Process /\ sent <= c.base /\ c.base + c.cnt <= k.offered
    /\ k \in Connection /\ k.sent = con.sent /\ k.out = con.out
    /\ k.killed = con.killed /\ k.told = con.told
    /\ w.link =>
        /\ ws.flags = {} /\ data = <<>> /\ answers = <<>>
        /\ ws.msgs >= 0 /\ ws.falloc >= 0
        /\ ws.msgs + allMsgs <= rMsgs
        /\ ws.falloc + allBytes + queued <= rBytes
    /\ w.link /\ r.open /\ ~AllLost =>
        /\ ws.msgs + allMsgs = rMsgs
        /\ ws.falloc + allBytes + queued = rBytes

(* anyalloc() permits no more than the allocation, if that is not          *)
(* negative.                                                               *)
LEMMA Permitted ==
    ASSUME NEW ws \in WrtSkt, NEW k \in Nat, ws.msgs >= 0, ws.falloc >= 0,
           NEW n, n = Smaller(anyalloc(ws), k), MaxMsg \in Nat
    PROVE  n \in Nat /\ n <= k /\ n <= ws.falloc /\ (n # 0 => ws.msgs >= 1)
<1>1. ws.msgs \in Int /\ ws.falloc \in Int
  BY DEF WrtSkt
<1>2. anyalloc(ws) \in Nat /\ anyalloc(ws) <= ws.falloc /\ (anyalloc(ws) # 0 => ws.msgs >= 1)
  BY <1>1 DEF anyalloc
<1> HIDE DEF anyalloc
<1> QED
  BY <1>1, <1>2 DEF Smaller

(* A step of the writer moves him only.                                    *)
LEMMA WriterMoves ==
    ASSUME OnePair, TypeOK, NEW c \in Process, pr' = [pr EXCEPT ![wr] = c]
    PROVE  /\ pr' \in [Proc -> Process]
           /\ place' = c.at /\ count' = c.cnt /\ base' = c.base /\ amount' = c.n
           /\ held' = held /\ R'.at = R.at
<1>1. pr' \in [Proc -> Process] /\ pr'[wr] = c /\ pr'[rd] = pr[rd]
  BY Pair DEF TypeOK
<1> QED
  BY <1>1 DEF place, count, base, amount, held, W, R

(* netwrite() fails, ends, or sleeps for an allocation.                    *)
LEMMA WriterRests ==
    ASSUME OnePair, FlowInv, NEW c, NEW ws, NEW k, Ready(c, ws, k),
           NEW c1 \in Process, c1.at = "idle" \/ (c1.at = "alloc" /\ c1.base = c.base /\ c1.cnt = c.cnt),
           pr' = [pr EXCEPT ![wr] = c1], w' = ws, con' = k, UNCHANGED <<net, r, hmap, drfnm>>
    PROVE  FlowInv'
<1>1. /\ TypeOK /\ LinkInv /\ PlaceInv /\ MessageInv /\ OtherInv /\ NumbersOK
      /\ RoomInv /\ SpendInv /\ BalanceInv /\ CountInv
  BY Parts
<1>2. KeptR /\ KeptNet
  BY Kept
<1>3. /\ ws \in WrtSkt /\ ws.link = w.link /\ ws.open = w.open
      /\ c \in Process /\ k \in Connection
      /\ k.sent = con.sent /\ k.out = con.out /\ k.killed = con.killed /\ k.told = con.told
  BY DEF Ready
<1>4. /\ c.cnt \in Nat /\ c.base \in Nat /\ sent <= c.base
      /\ c.base + c.cnt <= k.offered /\ k.offered \in 0 .. MaxBytes
      /\ c.n \in 0 .. MaxCount /\ c.cnt \in 0 .. MaxCount
  <2>1. c.cnt \in 0 .. MaxCount /\ c.base \in 0 .. MaxBytes /\ c.n \in 0 .. MaxCount /\ k.offered \in 0 .. MaxBytes
    BY <1>3 DEF Process, Connection
  <2>2. sent <= c.base /\ c.base + c.cnt <= k.offered
    BY DEF Ready
  <2> QED
    BY <1>1, <2>1, <2>2 DEF NumbersOK
<1>5. PICK m \in Int, b \in Int : m = ws.msgs /\ b = ws.falloc
  BY <1>3 DEF WrtSkt
<1>6. wMsgs' = m /\ wBytes' = b /\ wFlags' = ws.flags
  BY <1>2, <1>5 DEF wMsgs, wBytes, wFlags
<1>7. w.link => /\ ws.flags = {} /\ data = <<>> /\ answers = <<>>
                 /\ m >= 0 /\ b >= 0
                 /\ m + allMsgs <= rMsgs /\ b + allBytes + queued <= rBytes
  BY <1>5 DEF Ready
<1>8. w.link /\ r.open /\ ~AllLost =>
            m + allMsgs = rMsgs /\ b + allBytes + queued = rBytes
  BY <1>5 DEF Ready
<1>9. /\ pr' \in [Proc -> Process] /\ place' = c1.at /\ count' = c1.cnt /\ base' = c1.base
      /\ held' = held /\ R'.at = R.at
  BY <1>1, WriterMoves
<1>10. sent' = sent /\ taken' = taken /\ offered' = k.offered
  BY <1>3 DEF sent, taken, offered
<1>11. TypeOK'
  BY <1>1, <1>3, <1>9 DEF TypeOK
<1>12. PlaceInv'
  <2>1. sent <= k.offered
    BY <1>1, <1>4 DEF NumbersOK
  <2> QED
    BY <1>1, <1>4, <1>9, <1>10, <2>1 DEF PlaceInv
<1>13. place' # "rfnm" /\ ~Del' /\ delMsgs' = 0 /\ delBytes' = 0
  BY <1>9 DEF Del, delMsgs, delBytes
<1>14. LinkInv' /\ MessageInv' /\ OtherInv' /\ RoomInv'
  BY <1>1, <1>2, <1>3, <1>6, <1>7, <1>13 DEF LinkInv, MessageInv, OtherInv, RoomInv, KeptNet, KeptR
<1>15. SpendInv'
  <2>1. w.link => m + allMsgs <= rMsgs + 0 /\ b + allBytes + queued <= rBytes + 0
    BY <1>1, <1>7 DEF NumbersOK
  <2> QED
    BY <1>2, <1>3, <1>6, <1>7, <1>13, <2>1 DEF SpendInv, KeptR, KeptNet
<1>16. BalanceInv'
  <2>1. AllLost' = AllLost
    BY <1>3 DEF AllLost
  <2>2. w.link /\ r.open /\ ~AllLost =>
          m + allMsgs = rMsgs + 0 /\ b + allBytes + queued = rBytes + 0
    BY <1>1, <1>8 DEF NumbersOK
  <2> QED
    BY <1>2, <1>3, <1>6, <1>13, <2>1, <2>2 DEF BalanceInv, Balanced, KeptR, KeptNet
<1>17. CountInv'
  BY <1>1, <1>2, <1>9, <1>10, <1>13 DEF CountInv, KeptR, KeptNet
<1> QED
  BY <1>11, <1>12, <1>14, <1>15, <1>16, <1>17 DEF FlowInv

(* The loop of netwrite(), from a state in which no message is out: what   *)
(* it sends has been allocated.                                            *)
LEMMA WriteLoopInv ==
    ASSUME OnePair, FlowInv, NEW c, NEW ws, NEW k, Ready(c, ws, k), WriteLoop(wr, c, ws, k)
    PROVE  FlowInv'
<1> DEFINE n == Smaller(anyalloc(ws), c.cnt)
<1>1. /\ TypeOK /\ LinkInv /\ PlaceInv /\ MessageInv /\ OtherInv /\ NumbersOK
      /\ RoomInv /\ SpendInv /\ BalanceInv /\ CountInv
  BY Parts
<1>2. w' = ws /\ UNCHANGED <<r, hmap, drfnm>> /\ KeptR
  BY Kept DEF WriteLoop
<1>3. /\ ws \in WrtSkt /\ ws.link = w.link /\ ws.open = w.open
      /\ c \in Process /\ k \in Connection
      /\ k.sent = con.sent /\ k.out = con.out /\ k.killed = con.killed /\ k.told = con.told
  BY DEF Ready
<1>4. /\ c.cnt \in Nat /\ c.base \in Nat /\ sent <= c.base
      /\ c.base + c.cnt <= k.offered /\ k.offered \in 0 .. MaxBytes
      /\ c.n \in 0 .. MaxCount /\ c.cnt \in 0 .. MaxCount
  <2>1. c.cnt \in 0 .. MaxCount /\ c.base \in 0 .. MaxBytes /\ c.n \in 0 .. MaxCount /\ k.offered \in 0 .. MaxBytes
    BY <1>3 DEF Process, Connection
  <2>2. sent <= c.base /\ c.base + c.cnt <= k.offered
    BY DEF Ready
  <2> QED
    BY <1>1, <2>1, <2>2 DEF NumbersOK
<1>5. PICK m \in Int, b \in Int : m = ws.msgs /\ b = ws.falloc
  BY <1>3 DEF WrtSkt
<1>6. wMsgs' = m /\ wBytes' = b /\ wFlags' = ws.flags
  BY <1>2, <1>5 DEF wMsgs, wBytes, wFlags
<1>7. w.link => /\ ws.flags = {} /\ data = <<>> /\ answers = <<>>
                 /\ m >= 0 /\ b >= 0
                 /\ m + allMsgs <= rMsgs /\ b + allBytes + queued <= rBytes
  BY <1>5 DEF Ready
<1>8. w.link /\ r.open /\ ~AllLost =>
            m + allMsgs = rMsgs /\ b + allBytes + queued = rBytes
  BY <1>5 DEF Ready
<1>9. Idle \in Process /\ Idle.at = "idle"
  BY NcpFlowAssumption DEF Idle, Process
<1>10. CASE ~ws.open
  <2>1. pr' = [pr EXCEPT ![wr] = Idle] /\ con' = k /\ net' = net
    BY <1>10 DEF WriteLoop
  <2> QED
    BY <1>2, <1>9, <2>1, WriterRests
<1>11. CASE ws.open /\ n = 0
  <2>1. pr' = [pr EXCEPT ![wr] = Asleep(c, "alloc")] /\ con' = k /\ net' = net
    BY <1>11 DEF WriteLoop
  <2>2. /\ Asleep(c, "alloc") \in Process /\ Asleep(c, "alloc").at = "alloc"
        /\ Asleep(c, "alloc").cnt = c.cnt /\ Asleep(c, "alloc").base = c.base
    BY <1>3 DEF Asleep, Process
  <2> QED
    BY <1>2, <2>1, <2>2, WriterRests
<1>12. CASE ws.open /\ n # 0
  <2>1. /\ net' = IF w.link THEN [net EXCEPT !.data = Append(@, [i \in 1 .. n |-> c.base + i])] ELSE net
        /\ pr' = [pr EXCEPT ![wr] = [c EXCEPT !.at = "rfnm", !.n = n, !.run = (ws.flags # {})]]
        /\ con' = [k EXCEPT !.sent = Larger(@, c.base + n)]
    BY <1>12 DEF WriteLoop, SndData
  <2>2. w.link /\ w'.link
    BY <1>1, <1>2, <1>3, <1>12 DEF LinkInv
  <2>3. n \in Nat \ {0} /\ n <= c.cnt /\ n <= b /\ m >= 1
    <3>1. ws.msgs >= 0 /\ ws.falloc >= 0 /\ MaxMsg \in Nat /\ c.cnt \in Nat
      BY <1>4, <1>5, <1>7, <2>2, Pair
    <3>2. n \in Nat /\ n <= c.cnt /\ n <= ws.falloc /\ (n # 0 => ws.msgs >= 1)
      BY <1>3, <3>1, Permitted
    <3> QED
      BY <1>5, <1>12, <3>2
  <2> HIDE DEF n
  <2>4. c.base + n \in 0 .. MaxBytes /\ sent <= c.base + n /\ c.base + n <= k.offered /\ n \in 0 .. MaxCount
    BY <1>1, <1>4, <2>3 DEF NumbersOK
  <2>5. Larger(k.sent, c.base + n) = c.base + n
    <3>1. sent \in Nat /\ c.base + n \in Nat
      BY <1>1, <2>4 DEF NumbersOK
    <3> QED
      BY <1>3, <2>4, <3>1 DEF Larger, sent
  <2> DEFINE c1 == [c EXCEPT !.at = "rfnm", !.n = n, !.run = (ws.flags # {})]
  <2>6. /\ c1 \in Process /\ c1.at = "rfnm" /\ c1.cnt = c.cnt /\ c1.base = c.base /\ c1.n = n
    BY <1>3, <2>4 DEF Process
  <2> HIDE DEF c1
  <2>7. /\ pr' \in [Proc -> Process] /\ place' = "rfnm" /\ count' = c.cnt /\ base' = c.base
        /\ amount' = n /\ held' = held /\ R'.at = R.at
    <3>1. pr' = [pr EXCEPT ![wr] = c1]
      BY <2>1 DEF c1
    <3> QED
      BY <1>1, <2>6, <3>1, WriterMoves
  <2>8. /\ con' \in Connection /\ sent' = c.base + n /\ taken' = taken /\ offered' = k.offered
        /\ con'.killed = con.killed /\ con'.told = con.told
    <3>1. con' = [k EXCEPT !.sent = c.base + n]
      BY <2>1, <2>5
    <3> QED
      BY <1>3, <2>4, <3>1 DEF Connection, sent, taken, offered
  <2>9. data = <<>> /\ answers = <<>> /\ wFlags' = {} /\ b >= 0
        /\ m + allMsgs <= rMsgs /\ b + allBytes + queued <= rBytes
    BY <1>6, <1>7, <2>2
  <2>10. PICK d : /\ d \in Seq(Seq(Byte)) /\ d # <<>> /\ Len(d) = 1 /\ Size(d) = n
                  /\ Append(<< >>, [i \in 1 .. n |-> c.base + i]) = d
    <3>1. c.base \in 0 .. MaxBytes /\ n \in Nat \ {0} /\ c.base + n <= MaxBytes
      BY <1>1, <1>4, <2>3, <2>4 DEF NumbersOK
    <3> QED
      BY <3>1, NewMessage
  <2>11. net' = [net EXCEPT !.data = d]
    BY <2>1, <2>2, <2>9, <2>10 DEF data
  <2>12. net' \in Net /\ net'.data = d /\ net'.dans = net.dans /\ net'.ctl = net.ctl /\ net'.cans = net.cans
    BY <1>1, <2>10, <2>11 DEF TypeOK, Net
  <2>13. /\ data' = d /\ answers' = <<>> /\ inData' = n /\ ctl' = ctl
         /\ allMsgs' = allMsgs /\ allBytes' = allBytes
    BY <2>9, <2>10, <2>12 DEF data, answers, inData, ctl, allMsgs, allBytes
  <2>14. TypeOK' /\ OtherInv' /\ LinkInv'
    BY <1>1, <1>2, <1>3, <2>7, <2>8, <2>12, <2>13 DEF TypeOK, OtherInv, LinkInv
  <2>15. PlaceInv'
    BY <1>1, <1>4, <2>3, <2>4, <2>7, <2>8 DEF PlaceInv
  <2>16. MessageInv'
    BY <2>7, <2>9, <2>10, <2>13 DEF MessageInv
  <2>17. ~Del' /\ delMsgs' = 0 /\ delBytes' = 0
    <3>1. << >> # <<"rfnm">>
      OBVIOUS
    <3> QED
      BY <2>9, <2>13, <3>1 DEF Del, delMsgs, delBytes
  <2>18. RoomInv'
    <3>1. rMsgs >= 1 /\ queued + n <= rBytes /\ rBytes <= HiWat
      BY <1>1, <2>3, <2>9 DEF RoomInv, NumbersOK
    <3> QED
      BY <1>2, <2>13, <3>1 DEF RoomInv, KeptR
  <2>19. SpendInv'
    <3>1. m + allMsgs <= rMsgs + 0 /\ b + allBytes + queued <= rBytes + 0 /\ m >= 0 /\ b >= n
      BY <1>1, <2>3, <2>9 DEF NumbersOK
    <3> QED
      BY <1>2, <1>6, <2>3, <2>7, <2>9, <2>13, <2>17, <3>1 DEF SpendInv, KeptR
  <2>20. BalanceInv'
    <3>1. AllLost' = AllLost
      BY <2>8, <2>12 DEF AllLost
    <3>2. r.open /\ ~AllLost => m + allMsgs = rMsgs + 0 /\ b + allBytes + queued = rBytes + 0
      BY <1>1, <1>8, <2>2 DEF NumbersOK
    <3> QED
      BY <1>2, <1>6, <2>2, <2>13, <2>17, <3>1, <3>2 DEF BalanceInv, Balanced, KeptR
  <2>21. CountInv'
    <3>1. taken + queued + n <= c.base + n
      BY <1>1, <1>4, <2>3, SizeNone DEF CountInv, NumbersOK
    <3> QED
      BY <1>1, <1>2, <2>7, <2>8, <2>13, <3>1 DEF CountInv, KeptR
  <2> QED
    BY <2>14, <2>15, <2>16, <2>18, <2>19, <2>20, <2>21 DEF FlowInv
<1> QED
  BY <1>10, <1>11, <1>12

(* No message is out when netwrite() is called, or has been woken with an  *)
(* allocation.                                                             *)
LEMMA NoneOut ==
    ASSUME OnePair, FlowInv, place # "rfnm", NEW c \in Process, NEW k \in Connection,
           sent <= c.base, c.base + c.cnt <= k.offered,
           k.sent = con.sent, k.out = con.out, k.killed = con.killed, k.told = con.told
    PROVE  Ready(c, w, k)
<1>1. TypeOK /\ MessageInv /\ SpendInv /\ BalanceInv /\ NumbersOK
  BY Parts
<1>2. w \in WrtSkt
  BY <1>1 DEF TypeOK
<1>3. ~Del /\ delMsgs = 0 /\ delBytes = 0
  BY DEF Del, delMsgs, delBytes
<1>4. w.link => /\ w.flags = {} /\ data = <<>> /\ answers = <<>>
                /\ wMsgs >= 0 /\ wBytes >= 0
                /\ wMsgs + allMsgs <= rMsgs + 0
                /\ wBytes + allBytes + queued <= rBytes + 0
  BY <1>1, <1>3 DEF MessageInv, SpendInv, wFlags
<1>5. w.link /\ r.open /\ ~AllLost =>
         wMsgs + allMsgs = rMsgs + 0 /\ wBytes + allBytes + queued = rBytes + 0
  BY <1>1, <1>3 DEF BalanceInv, Balanced
<1>6. rMsgs + 0 = rMsgs /\ rBytes + 0 = rBytes
  BY <1>1 DEF NumbersOK
<1> QED
  BY <1>2, <1>4, <1>5, <1>6 DEF Ready, wMsgs, wBytes

(* netwrite() is woken with an allocation.                                 *)
LEMMA AllocReady ==
    ASSUME OnePair, FlowInv, AllocWoken(wr)
    PROVE  place = "alloc" /\ Ready(W, w, con) /\ WriteLoop(wr, W, w, con)
<1>1. TypeOK /\ PlaceInv
  BY Parts
<1>2. W \in Process /\ con \in Connection
  BY <1>1, Pair, ProcTypes DEF W, TypeOK
<1>3. place = "alloc" /\ WriteLoop(wr, W, w, con)
  BY DEF AllocWoken, Runs, place, W
<1>4. sent <= W.base /\ W.base + W.cnt <= con.offered
  BY <1>1, <1>3 DEF PlaceInv, base, count, offered
<1>5. place # "rfnm"
  BY <1>3
<1> QED
  BY <1>2, <1>3, <1>4, <1>5, NoneOut

(* What SendDone goes on with.                                             *)
Rest == [W EXCEPT !.cnt = W.cnt - W.n, !.base = W.base + W.n, !.n = 0]

Settled == Settle(w, amount)

(* The RFNM came, or the end of the connection: both books are charged     *)
(* with the message.                                                       *)
LEMMA DoneReady ==
    ASSUME OnePair, FlowInv, SendDone(wr)
    PROVE  /\ Ready(Rest, Settled, con)
           /\ Rest.cnt = count - amount /\ Rest.base = base + amount
           /\ Settled.falloc = wBytes - amount
           /\ place = "rfnm" /\ (w.link => Del)
           /\ \/ /\ count = amount /\ w' = Settled /\ pr' = [pr EXCEPT ![wr] = Idle]
                 /\ UNCHANGED <<r, hmap, drfnm, net, con>>
              \/ count # amount /\ WriteLoop(wr, Rest, Settled, con)
<1>1. /\ TypeOK /\ PlaceInv /\ MessageInv /\ NumbersOK
      /\ SpendInv /\ BalanceInv
  BY Parts
<1>2. W \in Process /\ w \in WrtSkt /\ con \in Connection
  BY <1>1, Pair, ProcTypes DEF W, TypeOK
<1> DEFINE ws == Settle(w, amount)
           c == [W EXCEPT !.cnt = W.cnt - W.n, !.base = W.base + W.n, !.n = 0]
<1>3. place = "rfnm" /\ wFlags # {} /\ "xmterr" \notin wFlags
  BY DEF SendDone, Runs, Failed, place, W, wFlags
<1>4. amount \in 1 .. count /\ sent = base + amount /\ base + count <= offered
  BY <1>1, <1>3 DEF PlaceInv
<1>5. /\ count \in Nat /\ base \in Nat /\ amount \in Nat /\ offered \in 0 .. MaxBytes
      /\ sent \in Nat /\ count \in 0 .. MaxCount
  BY <1>1 DEF NumbersOK
<1>6. /\ count - amount \in 0 .. MaxCount /\ base + amount \in 0 .. MaxBytes
      /\ (base + amount) + (count - amount) <= offered
  BY <1>1, <1>4, <1>5 DEF NumbersOK
<1>7. c \in Process /\ c.cnt = count - amount /\ c.base = base + amount
  <2>1. 0 \in 0 .. MaxCount
    BY Pair
  <2> QED
    BY <1>2, <1>6, <2>1 DEF Process, count, amount, base
<1>8. /\ ws \in WrtSkt /\ ws.link = w.link /\ ws.open = w.open /\ ws.flags = {}
      /\ ws.msgs = wMsgs - 1 /\ ws.falloc = wBytes - amount
  <2>1. wMsgs - 1 \in Int /\ wBytes - amount \in Int
    BY <1>1, <1>5 DEF NumbersOK
  <2> QED
    BY <1>2, <2>1 DEF Settle, WrtSkt, wMsgs, wBytes
<1>9. w.link => data = <<>> /\ answers = <<>> /\ Del /\ delMsgs = 1 /\ delBytes = amount
  BY <1>1, <1>3 DEF MessageInv, Del, delMsgs, delBytes
<1>10. w.link => /\ wMsgs - 1 >= 0 /\ wBytes - amount >= 0
                /\ (wMsgs - 1) + allMsgs <= rMsgs
                /\ (wBytes - amount) + allBytes + queued <= rBytes
  <2>1. w.link => /\ wMsgs >= 1 /\ wBytes >= amount
                  /\ wMsgs + allMsgs <= rMsgs + 1
                  /\ wBytes + allBytes + queued <= rBytes + amount
    BY <1>1, <1>3, <1>9 DEF SpendInv
  <2> QED
    BY <1>1, <2>1 DEF NumbersOK
<1>11. w.link /\ r.open /\ ~AllLost =>
        (wMsgs - 1) + allMsgs = rMsgs /\ (wBytes - amount) + allBytes + queued = rBytes
  <2>1. w.link /\ r.open /\ ~AllLost =>
          wMsgs + allMsgs = rMsgs + 1 /\ wBytes + allBytes + queued = rBytes + amount
    BY <1>1, <1>9 DEF BalanceInv, Balanced
  <2> QED
    BY <1>1, <2>1 DEF NumbersOK
<1> HIDE DEF ws, c
<1>12. Ready(c, ws, con)
  <2>1. sent <= c.base /\ c.base + c.cnt <= con.offered
    BY <1>4, <1>5, <1>6, <1>7 DEF offered
  <2> QED
    BY <1>2, <1>7, <1>8, <1>9, <1>10, <1>11, <2>1 DEF Ready
<1>13. \/ /\ count = amount /\ w' = ws /\ pr' = [pr EXCEPT ![wr] = Idle]
          /\ UNCHANGED <<r, hmap, drfnm, net, con>>
       \/ count # amount /\ WriteLoop(wr, c, ws, con)
  BY DEF SendDone, ws, c, W, amount, count
<1>14. Rest = c /\ Settled = ws
  BY DEF Rest, Settled, c, ws
<1> QED
  BY <1>3, <1>7, <1>8, <1>9, <1>12, <1>13, <1>14

(* What netwrite() does when it is woken.                                  *)
LEMMA NetwriteInv ==
    ASSUME OnePair, FlowInv, Netwrite(wr)
    PROVE  FlowInv'
<1>1. CASE AllocWoken(wr)
  BY <1>1, AllocReady, WriteLoopInv
<1>2. CASE RfnmSleep(wr)
  BY <1>2, Pair, RfnmSleepInv
<1>3. CASE Retry(wr)
  BY <1>3, RetryInv
<1>4. CASE SendDone(wr)
  <2>1. Idle \in Process /\ Idle.at = "idle"
    BY NcpFlowAssumption DEF Idle, Process
  <2> QED
    BY <1>4, <2>1, DoneReady, WriteLoopInv, WriterRests
<1> QED
  BY <1>1, <1>2, <1>3, <1>4 DEF Netwrite

(* What NetwriteBegin starts with.                                         *)
First(n) == [Idle EXCEPT !.cnt = n, !.base = con.offered]

Offer(n) == [con EXCEPT !.offered = @ + n]

(* netwrite() is called.                                                   *)
LEMMA BeginReady ==
    ASSUME OnePair, FlowInv, NEW n \in 1 .. MaxCount, NetwriteBegin(wr, n)
    PROVE  /\ Ready(First(n), w, Offer(n)) /\ WriteLoop(wr, First(n), w, Offer(n))
           /\ First(n).base = offered /\ First(n).cnt = n /\ Offer(n).offered = offered + n
           /\ Offer(n).sent = con.sent /\ Offer(n).out = con.out
           /\ Offer(n).killed = con.killed /\ Offer(n).closed = con.closed
           /\ Offer(n).eof = con.eof /\ place = "idle"
<1> DEFINE c == First(n)
           k == Offer(n)
<1>1. TypeOK /\ PlaceInv /\ NumbersOK
  BY Parts
<1>2. con \in Connection
  BY <1>1 DEF TypeOK
<1>3. place = "idle" /\ offered + n <= MaxBytes /\ WriteLoop(wr, c, w, k)
  BY DEF NetwriteBegin, place, W, offered, First, Offer
<1>4. offered + n \in 0 .. MaxBytes /\ offered \in 0 .. MaxBytes /\ n \in 0 .. MaxCount /\ 0 \in 0 .. MaxCount
  BY <1>1, <1>3 DEF NumbersOK
<1>5. c \in Process /\ c.cnt = n /\ c.base = offered
  BY <1>4 DEF Process, Idle, offered, First
<1>6. /\ k \in Connection /\ k.offered = offered + n /\ k.sent = con.sent /\ k.out = con.out
      /\ k.killed = con.killed /\ k.told = con.told /\ k.closed = con.closed /\ k.eof = con.eof
  BY <1>2, <1>4 DEF Connection, offered, Offer
<1> HIDE DEF c, k
<1>7. sent <= c.base /\ c.base + c.cnt <= k.offered /\ place # "rfnm"
  <2>1. sent <= offered
    BY <1>1, <1>3 DEF PlaceInv
  <2> QED
    BY <1>1, <1>3, <1>4, <1>5, <1>6, <2>1 DEF NumbersOK
<1>8. Ready(c, w, k)
  BY <1>5, <1>6, <1>7, NoneOut
<1> QED
  BY <1>3, <1>5, <1>6, <1>8 DEF c, k

(* A call of netwrite() keeps the invariant.                               *)
LEMMA NetwriteBeginInv ==
    ASSUME OnePair, FlowInv, NEW n \in 1 .. MaxCount, NetwriteBegin(wr, n)
    PROVE  FlowInv'
BY BeginReady, WriteLoopInv

(* A step of the reader moves him only.                                    *)
LEMMA ReaderMoves ==
    ASSUME OnePair, TypeOK, NEW c \in Process, pr' = [pr EXCEPT ![rd] = c]
    PROVE  /\ pr' \in [Proc -> Process]
           /\ place' = place /\ count' = count /\ base' = base /\ amount' = amount
           /\ R'.at = c.at /\ held' = (IF c.at = "chan" THEN c.n ELSE 0)
<1>1. pr' \in [Proc -> Process] /\ pr'[rd] = c /\ pr'[wr] = pr[wr]
  BY Pair DEF TypeOK
<1> QED
  BY <1>1 DEF place, count, base, amount, held, W, R

(* The reader takes t bytes from the queue, counts u of them out of what   *)
(* it has allocated, g out of r_qtotal, has h still to count, and sends an *)
(* ALL of m messages and b bytes if "more".                                *)
Reads(t, u, g, h, more, m, b) ==
    /\ t \in Nat /\ u \in Nat /\ g \in Nat /\ h \in Nat /\ m \in Nat /\ b \in Nat
    /\ t <= queued /\ u = (IF r.open THEN t ELSE 0) /\ g + h = held + t
    /\ queued' = queued - t /\ taken' = taken + t /\ due' = due - g /\ held' = h
    /\ ~more => m = 0 /\ b = 0 /\ rMsgs' = rMsgs /\ rBytes' = rBytes - u
    /\ more => /\ rMsgs' = NomMsg /\ rBytes' = HiWat
               /\ \/ m = NomMsg - rMsgs /\ b = HiWat - (rBytes - u)
                  \/ ~r.link /\ m = 0 /\ b = 0
    /\ allMsgs' = allMsgs + m /\ allBytes' = allBytes + b

(* What the step of a reader is that takes n bytes.                        *)
Took(n) ==
    /\ \E u, g, h, m, b \in Nat, more \in BOOLEAN : Reads(n, u, g, h, more, m, b)
    /\ data' = data /\ answers' = answers /\ UNCHANGED w
    /\ place' = place /\ count' = count /\ base' = base /\ amount' = amount
    /\ R'.at \in {"idle", "chan"} /\ r'.open = r.open /\ r'.link = r.link

(* What the reader takes and allocates keeps the books.                    *)
LEMMA ReadsInv ==
    ASSUME OnePair, FlowInv, NEW t, NEW u, NEW g, NEW h, NEW more \in BOOLEAN, NEW m, NEW b,
           Reads(t, u, g, h, more, m, b),
           data' = data, answers' = answers, inData' = inData, UNCHANGED <<w, drfnm>>,
           place' = place, count' = count, base' = base, amount' = amount,
           sent' = sent, offered' = offered, con'.killed = con.killed,
           r'.open = r.open, r'.link = r.link, AllLost' = AllLost,
           R'.at \in {"idle", "data", "lbolt", "chan"},
           TypeOK', OtherInv'
    PROVE  FlowInv'
<1>1. /\ TypeOK /\ LinkInv /\ PlaceInv /\ MessageInv /\ OtherInv /\ NumbersOK
      /\ RoomInv /\ SpendInv /\ BalanceInv /\ CountInv
  BY Parts
<1>2. KeptW /\ wFlags' = wFlags /\ w'.link = w.link /\ w'.open = w.open
  BY Kept
<1>3. LinkInv' /\ PlaceInv' /\ MessageInv'
  BY <1>1, <1>2 DEF LinkInv, PlaceInv, MessageInv
<1>4. delMsgs' = delMsgs /\ delBytes' = delBytes /\ (Del' <=> Del)
  BY <1>2 DEF delMsgs, delBytes, Del
<1>5. /\ t \in Nat /\ u \in Nat /\ g \in Nat /\ h \in Nat /\ m \in Nat /\ b \in Nat
      /\ t <= queued /\ u <= t /\ g + h = held + t /\ (r.open => u = t)
  BY DEF Reads
<1>6. /\ queued' = queued - t /\ taken' = taken + t /\ due' = due - g /\ held' = h
      /\ allMsgs' = allMsgs + m /\ allBytes' = allBytes + b
  BY DEF Reads
<1>7. delMsgs \in Int /\ delBytes \in Int
  BY <1>1 DEF delMsgs, delBytes, NumbersOK
<1>8. CountInv'
  <2>1. /\ (queued - t) + h <= due - g
        /\ due - g <= (taken + t) + (queued - t)
        /\ (taken + t) + (queued - t) + inData <= sent
        /\ w.link /\ place = "rfnm" /\ ~Del => (taken + t) + (queued - t) + amount <= sent
    BY <1>1, <1>5 DEF CountInv, NumbersOK
  <2> QED
    BY <1>2, <1>4, <1>6, <2>1 DEF CountInv
<1>9. /\ data # <<>> => rMsgs >= 1
      /\ queued + inData <= rBytes /\ rBytes <= HiWat /\ rMsgs <= NomMsg /\ NomMsg >= 1
  BY <1>1, Pair DEF RoomInv, NumbersOK
<1>10. w.link => /\ wMsgs >= 0 /\ wBytes >= 0
                 /\ place = "rfnm" => wMsgs >= 1 /\ wBytes >= amount
                 /\ wMsgs + allMsgs <= rMsgs + delMsgs
                 /\ wBytes + allBytes + queued <= rBytes + delBytes
  BY <1>1 DEF SpendInv
<1>11. w.link /\ r.open /\ ~AllLost => 
                 /\ wMsgs + allMsgs = rMsgs + delMsgs
                 /\ wBytes + allBytes + queued = rBytes + delBytes
  BY <1>1 DEF BalanceInv, Balanced
<1>12. CASE ~more
  <2>1. m = 0 /\ b = 0 /\ rMsgs' = rMsgs /\ rBytes' = rBytes - u
    BY <1>12 DEF Reads
  <2>2. RoomInv'
    <3>1. (queued - t) + inData <= rBytes - u /\ rBytes - u <= HiWat
      BY <1>1, <1>5, <1>9 DEF NumbersOK
    <3> QED
      BY <1>6, <1>9, <2>1, <3>1 DEF RoomInv
  <2>3. SpendInv'
    <3>1. w.link => /\ wMsgs + (allMsgs + m) <= rMsgs + delMsgs
                    /\ wBytes + (allBytes + b) + (queued - t) <= (rBytes - u) + delBytes
      BY <1>1, <1>5, <1>7, <1>10, <2>1 DEF NumbersOK
    <3> QED
      BY <1>2, <1>4, <1>6, <1>10, <2>1, <3>1 DEF SpendInv, KeptW
  <2>4. BalanceInv'
    <3>1. w.link /\ r.open /\ ~AllLost =>
             /\ wMsgs + (allMsgs + m) = rMsgs + delMsgs
             /\ wBytes + (allBytes + b) + (queued - t) = (rBytes - u) + delBytes
      BY <1>1, <1>5, <1>7, <1>11, <2>1 DEF NumbersOK
    <3> QED
      BY <1>2, <1>4, <1>6, <2>1, <3>1 DEF BalanceInv, Balanced, KeptW
  <2> QED
    BY <1>1, <1>3, <1>8, <2>2, <2>3, <2>4 DEF FlowInv
<1>13. CASE more
  <2>1. /\ rMsgs' = NomMsg /\ rBytes' = HiWat
        /\ \/ m = NomMsg - rMsgs /\ b = HiWat - (rBytes - u)
           \/ ~r.open /\ m = 0 /\ b = 0
    BY <1>1, <1>13 DEF Reads, LinkInv
  <2>2. RoomInv'
    <3>1. (queued - t) + inData <= HiWat
      BY <1>1, <1>5, <1>9 DEF NumbersOK
    <3>2. HiWat <= HiWat
      BY <1>1 DEF NumbersOK
    <3> QED
      BY <1>6, <1>9, <2>1, <3>1, <3>2 DEF RoomInv
  <2>3. SpendInv'
    <3>1. w.link => /\ wMsgs + (allMsgs + m) <= NomMsg + delMsgs
                    /\ wBytes + (allBytes + b) + (queued - t) <= HiWat + delBytes
      BY <1>1, <1>5, <1>7, <1>9, <1>10, <2>1 DEF NumbersOK
    <3> QED
      BY <1>2, <1>4, <1>6, <1>10, <2>1, <3>1 DEF SpendInv, KeptW
  <2>4. BalanceInv'
    <3>1. w.link /\ r.open /\ ~AllLost =>
             /\ wMsgs + (allMsgs + m) = NomMsg + delMsgs
             /\ wBytes + (allBytes + b) + (queued - t) = HiWat + delBytes
      BY <1>1, <1>5, <1>7, <1>11, <2>1 DEF NumbersOK
    <3> QED
      BY <1>2, <1>4, <1>6, <2>1, <3>1 DEF BalanceInv, Balanced, KeptW
  <2> QED
    BY <1>1, <1>3, <1>8, <2>2, <2>3, <2>4 DEF FlowInv
<1> QED
  BY <1>12, <1>13

(* An ALL on its way, if the socket still has a host.                      *)
LEMMA AllOnItsWay ==
    ASSUME OnePair, TypeOK, OtherInv, NumbersOK, NEW rs, NEW v \in 0 .. HiWat,
           rs.msgs = rMsgs, rs.bytes = v, rs.link \in BOOLEAN,
           net' = IF rs.link
                  THEN [net EXCEPT !.ctl = Append(@, [op |-> "all", m |-> NomMsg - rs.msgs,
                                                      b |-> (HiWat - rs.bytes) % Word])]
                  ELSE net
    PROVE  /\ net' \in Net /\ OtherInv' /\ net'.cans = net.cans
           /\ data' = data /\ answers' = answers /\ inData' = inData
           /\ \E m, b \in Nat :
                /\ allMsgs' = allMsgs + m /\ allBytes' = allBytes + b
                /\ \/ m = NomMsg - rMsgs /\ b = HiWat - v
                   \/ ~rs.link /\ m = 0 /\ b = 0
<1>1. /\ allMsgs \in Nat /\ allBytes \in Nat /\ rMsgs \in 0 .. NomMsg
      /\ NomMsg \in Nat /\ HiWat \in Nat
  BY DEF NumbersOK
<1>2. CASE ~rs.link
  <2>1. net' = net
    BY <1>2
  <2>2. KeptNet
    BY <2>1, Kept
  <2>3. allMsgs + 0 = allMsgs /\ allBytes + 0 = allBytes
    BY <1>1
  <2> QED
    BY <1>2, <2>1, <2>2, <2>3, Zenon DEF TypeOK, OtherInv, KeptNet
<1>3. CASE rs.link
  <2> DEFINE m == NomMsg - rMsgs
             b == HiWat - v
             c == [op |-> "all", m |-> m, b |-> b]
  <2>1. m \in Nat /\ b \in Nat
    BY <1>1
  <2>2. b % Word = b
    <3>1. Word \in Nat /\ HiWat < Word /\ HiWat \in Nat
      BY Pair, NcpFlowAssumption
    <3>2. b < Word
      BY <3>1
    <3> QED
      BY <2>1, <3>1, <3>2
  <2>3. net' = [net EXCEPT !.ctl = Append(@, c)]
    BY <1>3, <2>2
  <2>4. c \in Ctl /\ c.m = m /\ c.b = b /\ c.op = "all"
    BY <2>1 DEF Ctl
  <2> HIDE DEF m, b, c
  <2>5. net.ctl \in Seq(Ctl)
    BY Types
  <2>6. /\ net' \in Net /\ net'.cans = net.cans /\ net'.data = net.data /\ net'.dans = net.dans
        /\ net'.ctl = Append(net.ctl, c)
    <3>1. Append(net.ctl, c) \in Seq(Ctl) /\ net \in Net
      BY <2>4, <2>5 DEF TypeOK
    <3> QED
      BY <2>3, <3>1 DEF Net
  <2>7. data' = data /\ answers' = answers /\ inData' = inData
    BY <2>6 DEF data, answers, inData
  <2>8. allMsgs' = allMsgs + m /\ allBytes' = allBytes + b
    BY <2>4, <2>5, <2>6, CtlAppend DEF allMsgs, allBytes
  <2>9. OtherInv'
    <3>1. NoCredit(Append(net.ctl, c))
      BY <2>4, <2>5, NoCreditAppend DEF OtherInv, ctl
    <3> QED
      BY <2>6, <3>1 DEF OtherInv, ctl
  <2> QED
    BY <2>1, <2>6, <2>7, <2>8, <2>9 DEF m, b
<1> QED
  BY <1>2, <1>3

(* netread() takes bytes, and allocates or waits for the control link.     *)
LEMMA TakeInv ==
    ASSUME OnePair, FlowInv, NEW c \in Process, NEW amt \in Nat, amt <= MaxCount,
           held = 0, Take(rd, c, amt), UNCHANGED <<w, drfnm>>
    PROVE  FlowInv' /\ Took(Smaller(amt, Len(r.q)))
<1> DEFINE n == Smaller(amt, Len(r.q))
           v == IF r.open THEN rBytes - n ELSE rBytes
           rs == [r EXCEPT !.q = SubSeq(@, n + 1, Len(@)),
                           !.bytes = IF r.open THEN @ - n ELSE @]
<1>1. /\ TypeOK /\ LinkInv /\ PlaceInv /\ MessageInv /\ OtherInv /\ NumbersOK
      /\ RoomInv /\ SpendInv /\ BalanceInv /\ CountInv
  BY Parts
<1>2. n \in Nat /\ n <= queued /\ n <= amt /\ n \in 0 .. MaxCount
  <2>1. queued \in Nat /\ MaxCount \in Nat
    BY <1>1 DEF NumbersOK
  <2> QED
    BY <2>1 DEF Smaller, queued
<1>3. /\ con' = [con EXCEPT !.out = @ \o SubSeq(r.q, 1, n), !.eof = @ \/ n = 0]
      /\ IF r.open /\ Low(rs) /\ hmap
         THEN /\ r' = rs
              /\ pr' = [pr EXCEPT ![rd] = [Asleep(c, "chan") EXCEPT !.n = n]]
              /\ UNCHANGED <<hmap, net>>
         ELSE /\ pr' = [pr EXCEPT ![rd] = Idle]
              /\ IF r.open /\ Low(rs)
                 THEN SendAll(rs, n)
                 ELSE r' = [rs EXCEPT !.qtotal = @ - n] /\ UNCHANGED <<hmap, net>>
  BY DEF Take
<1> SUFFICES FlowInv' /\ Took(n)
  OBVIOUS
<1> HIDE DEF n
<1>4. /\ r.q \in Seq(Byte) /\ Len(r.q) = queued /\ con.out \in Seq(Byte)
      /\ r \in RdSkt /\ con \in Connection /\ r.open \in BOOLEAN
      /\ r.link \in BOOLEAN
  BY <1>1, Types DEF queued, TypeOK
<1>5. SubSeq(r.q, n + 1, Len(r.q)) \in Seq(Byte) /\ Len(SubSeq(r.q, n + 1, Len(r.q))) = queued - n
  BY <1>2, <1>4
<1>6. SubSeq(r.q, 1, n) \in Seq(Byte) /\ Len(SubSeq(r.q, 1, n)) = n
  BY <1>2, <1>4
<1>7. /\ con.out \o SubSeq(r.q, 1, n) \in Seq(Byte)
      /\ Len(con.out \o SubSeq(r.q, 1, n)) = taken + n
  BY <1>4, <1>6 DEF taken
<1>8. /\ con' \in Connection /\ sent' = sent /\ offered' = offered /\ taken' = taken + n
      /\ con'.killed = con.killed /\ con'.told = con.told
  BY <1>3, <1>4, <1>7 DEF Connection, sent, offered, taken
<1>9. v \in 0 .. HiWat /\ v \in 0 .. Room /\ v = rBytes - (IF r.open THEN n ELSE 0)
  BY <1>1, <1>2, <1>4, Pair DEF RoomInv, NumbersOK
<1>10. due - n \in 0 .. MaxBytes /\ NomMsg \in 0 .. NomMsg /\ HiWat \in 0 .. Room
  BY <1>1, <1>2, Pair DEF CountInv, NumbersOK
<1>11. /\ rs \in RdSkt /\ rs.open = r.open /\ rs.link = r.link /\ rs.msgs = rMsgs /\ rs.bytes = v
       /\ Len(rs.q) = queued - n /\ rs.qtotal = due
  BY <1>4, <1>5, <1>9 DEF RdSkt, rMsgs, rBytes, due
<1> HIDE DEF rs, v
<1>12. Idle \in Process /\ Idle.at = "idle"
  BY NcpFlowAssumption DEF Idle, Process
<1>13. CASE r.open /\ Low(rs) /\ hmap
  <2>1. /\ r' = rs /\ UNCHANGED <<hmap, net>>
        /\ pr' = [pr EXCEPT ![rd] = [Asleep(c, "chan") EXCEPT !.n = n]]
    BY <1>3, <1>13
  <2> DEFINE c1 == [Asleep(c, "chan") EXCEPT !.n = n]
  <2>2. c1 \in Process /\ c1.at = "chan" /\ c1.n = n
    BY <1>2 DEF Asleep, Process
  <2> HIDE DEF c1
  <2>3. /\ pr' \in [Proc -> Process]
        /\ place' = place /\ count' = count /\ base' = base /\ amount' = amount
        /\ R'.at = "chan" /\ held' = n
    BY <1>1, <2>1, <2>2, ReaderMoves DEF c1
  <2>4. KeptNet
    BY <2>1, Kept
  <2>5. rMsgs' = rMsgs /\ rBytes' = v /\ queued' = queued - n /\ due' = due
    BY <1>11, <2>1 DEF rMsgs, rBytes, queued, due
  <2>6. Reads(n, IF r.open THEN n ELSE 0, 0, n, FALSE, 0, 0)
    <3>1. allMsgs' = allMsgs + 0 /\ allBytes' = allBytes + 0 /\ due - 0 = due /\ 0 + n = 0 + n
      BY <1>1, <1>2, <2>4 DEF KeptNet, NumbersOK
    <3> QED
      BY <1>2, <1>8, <1>9, <2>3, <2>5, <3>1 DEF Reads
  <2>7. TypeOK'
    BY <1>1, <1>8, <1>11, <2>1, <2>3 DEF TypeOK
  <2>8. Took(n)
    BY <1>2, <1>9, <1>11, <2>1, <2>3, <2>4, <2>6 DEF Took, KeptNet
  <2> QED
    BY <2>8, <1>1, <1>8, <1>11, <2>1, <2>3, <2>4, <2>6, <2>7, ReadsInv DEF KeptNet, OtherInv, AllLost
<1>14. ASSUME pr' = [pr EXCEPT ![rd] = Idle]
       PROVE  /\ pr' \in [Proc -> Process]
              /\ place' = place /\ count' = count /\ base' = base /\ amount' = amount
              /\ R'.at = "idle" /\ held' = 0
  BY <1>1, <1>12, <1>14, ReaderMoves
<1>15. CASE r.open /\ Low(rs) /\ ~hmap
  <2>1. SendAll(rs, n) /\ pr' = [pr EXCEPT ![rd] = Idle]
    BY <1>3, <1>15
  <2>2. PICK m \in Nat, b \in Nat :
                 /\ net' \in Net /\ OtherInv' /\ net'.cans = net.cans
                 /\ data' = data /\ answers' = answers /\ inData' = inData
                 /\ allMsgs' = allMsgs + m /\ allBytes' = allBytes + b
                 /\ \/ m = NomMsg - rMsgs /\ b = HiWat - v
                    \/ ~rs.link /\ m = 0 /\ b = 0
    BY <1>1, <1>4, <1>9, <1>11, <2>1, AllOnItsWay DEF SendAll
  <2>3. r' = [rs EXCEPT !.msgs = NomMsg, !.bytes = HiWat, !.qtotal = due - n]
    BY <1>11, <2>1 DEF SendAll
  <2>4. /\ r' \in RdSkt /\ r'.open = r.open /\ r'.link = r.link
        /\ rMsgs' = NomMsg /\ rBytes' = HiWat /\ queued' = queued - n /\ due' = due - n
    BY <1>10, <1>11, <2>3 DEF RdSkt, rMsgs, rBytes, queued, due
  <2>5. Reads(n, IF r.open THEN n ELSE 0, n, 0, TRUE, m, b)
    <3>1. n + 0 = 0 + n
      BY <1>2
    <3> QED
      BY <1>2, <1>8, <1>9, <1>11, <1>14, <2>1, <2>2, <2>4, <3>1 DEF Reads
  <2>6. TypeOK'
    <3>1. hmap' \in BOOLEAN
      BY <2>1 DEF SendAll
    <3> QED
      BY <1>1, <1>8, <1>14, <2>1, <2>2, <2>4, <3>1 DEF TypeOK
  <2>7. AllLost' = AllLost
    BY <1>8, <2>2 DEF AllLost
  <2>8. Took(n)
    BY <1>2, <1>9, <1>14, <2>1, <2>2, <2>4, <2>5 DEF Took
  <2> QED
    BY <2>8, <1>1, <1>8, <1>14, <2>1, <2>2, <2>4, <2>5, <2>6, <2>7, ReadsInv
<1>16. CASE ~(r.open /\ Low(rs))
  <2>1. /\ r' = [rs EXCEPT !.qtotal = @ - n] /\ UNCHANGED <<hmap, net>>
        /\ pr' = [pr EXCEPT ![rd] = Idle]
    BY <1>3, <1>16
  <2>2. r' = [rs EXCEPT !.qtotal = due - n]
    BY <1>11, <2>1
  <2>3. /\ r' \in RdSkt /\ r'.open = r.open /\ r'.link = r.link
        /\ rMsgs' = rMsgs /\ rBytes' = v /\ queued' = queued - n /\ due' = due - n
    BY <1>10, <1>11, <2>2 DEF RdSkt, rMsgs, rBytes, queued, due
  <2>4. KeptNet
    BY <2>1, Kept
  <2>5. Reads(n, IF r.open THEN n ELSE 0, n, 0, FALSE, 0, 0)
    <3>1. allMsgs' = allMsgs + 0 /\ allBytes' = allBytes + 0 /\ n + 0 = 0 + n
      BY <1>1, <1>2, <2>4 DEF KeptNet, NumbersOK
    <3> QED
      BY <1>2, <1>8, <1>9, <1>14, <2>1, <2>3, <3>1 DEF Reads
  <2>6. TypeOK'
    BY <1>1, <1>8, <1>14, <2>1, <2>3 DEF TypeOK
  <2>7. Took(n)
    BY <1>2, <1>9, <1>14, <2>1, <2>3, <2>4, <2>5 DEF Took, KeptNet
  <2> QED
    BY <2>7, <1>1, <1>8, <1>14, <2>1, <2>3, <2>4, <2>5, <2>6, ReadsInv DEF KeptNet, OtherInv, AllLost
<1> QED
  BY <1>13, <1>15, <1>16, <1>1 DEF TypeOK

(* The reader sleeps or returns, and takes nothing.                        *)
LEMMA ReaderRestsInv ==
    ASSUME OnePair, FlowInv, NEW c \in Process, c.at \in {"idle", "data", "lbolt"},
           pr' = [pr EXCEPT ![rd] = c], NEW e \in BOOLEAN, con' = [con EXCEPT !.eof = e],
           UNCHANGED <<w, r, hmap, drfnm, net>>
    PROVE  FlowInv' /\ Quiet
<1>1. TypeOK /\ LinkInv /\ PlaceInv /\ MessageInv /\ OtherInv /\ NumbersOK
  BY Parts
<1>2. /\ pr' \in [Proc -> Process]
      /\ place' = place /\ count' = count /\ base' = base /\ amount' = amount
      /\ R'.at \in {"idle", "data", "lbolt"} /\ held' = 0
  BY <1>1, ReaderMoves
<1>3. con' \in Connection /\ KeptCon /\ con'.killed = con.killed /\ con'.told = con.told
  BY <1>1 DEF TypeOK, Connection, KeptCon, sent, offered, taken
<1>4. KeptW /\ wFlags' = wFlags /\ KeptR /\ KeptNet
  BY Kept
<1>5. TypeOK'
  BY <1>1, <1>2, <1>3 DEF TypeOK
<1>6. LinkInv' /\ PlaceInv' /\ MessageInv' /\ OtherInv'
  BY <1>1, <1>2, <1>3, <1>4 DEF LinkInv, PlaceInv, MessageInv, OtherInv, KeptNet, KeptCon
<1>7. Quiet
  <2>1. allMsgs' = allMsgs - 0 /\ allBytes' = allBytes - 0
    BY <1>1, <1>4 DEF NumbersOK, KeptNet
  <2>2. AllLost' = AllLost
    BY <1>3 DEF AllLost
  <2> QED
    BY <1>2, <1>3, <1>4, <2>1, <2>2 DEF Quiet, KeptW, KeptR, KeptNet, KeptCon, Del
<1> QED
  BY <1>5, <1>6, <1>7, QuietInv

(* The loop of netread().                                                  *)
LEMMA ReadLoopInv ==
    ASSUME OnePair, FlowInv, NEW c \in Process, held = 0, ReadLoop(rd, c)
    PROVE  FlowInv'
<1> DEFINE amt == Smaller(r.qtotal, c.cnt)
<1>1. TypeOK /\ NumbersOK
  BY Parts
<1>2. amt \in Nat /\ amt <= MaxCount
  <2>1. r.qtotal \in Nat /\ c.cnt \in 0 .. MaxCount /\ MaxCount \in Nat
    BY <1>1, Types, Pair, SMTT(30) DEF Process
  <2> QED
    BY <2>1 DEF Smaller
<1>3. UNCHANGED <<w, drfnm>>
  BY DEF ReadLoop
<1>4. CASE amt # 0
  <2>1. Take(rd, c, amt)
    BY <1>4 DEF ReadLoop
  <2> HIDE DEF amt
  <2> QED
    BY <1>2, <1>3, <2>1, TakeInv
<1>5. CASE amt = 0
  <2> DEFINE c1 == IF r.open THEN Asleep(c, "data") ELSE IF c.tried THEN Idle ELSE Asleep(c, "lbolt")
             e == con.eof \/ (~r.open /\ c.tried)
  <2>1. pr' = [pr EXCEPT ![rd] = c1] /\ con' = [con EXCEPT !.eof = e] /\ UNCHANGED <<r, hmap, net>>
    BY <1>5 DEF ReadLoop
  <2>2. /\ Idle \in Process /\ Idle.at = "idle"
        /\ Asleep(c, "data") \in Process /\ Asleep(c, "data").at = "data"
        /\ Asleep(c, "lbolt") \in Process /\ Asleep(c, "lbolt").at = "lbolt"
    <3>1. Idle \in Process /\ Idle.at = "idle"
      BY NcpFlowAssumption DEF Idle, Process
    <3>2. Asleep(c, "data") \in Process /\ Asleep(c, "data").at = "data"
      BY DEF Process, Asleep
    <3>3. Asleep(c, "lbolt") \in Process /\ Asleep(c, "lbolt").at = "lbolt"
      BY DEF Process, Asleep
    <3> QED
      BY <3>1, <3>2, <3>3
  <2>3. c1 \in Process /\ c1.at \in {"idle", "data", "lbolt"} /\ e \in BOOLEAN
    BY <2>2
  <2> HIDE DEF c1, e
  <2> QED
    BY <1>3, <2>1, <2>3, ReaderRestsInv
<1> QED
  BY <1>4, <1>5

(* netread() is called.                                                    *)
LEMMA NetreadBeginInv ==
    ASSUME OnePair, FlowInv, NEW n \in 1 .. MaxCount, NetreadBegin(rd, n)
    PROVE  FlowInv'
<1>1. held = 0
  BY DEF NetreadBegin, held, R
<1>2. [Idle EXCEPT !.cnt = n] \in Process
  <2>1. Idle \in Process /\ n \in 0 .. MaxCount
    BY NcpFlowAssumption DEF Idle, Process
  <2> QED
    BY <2>1 DEF Process
<1> QED
  BY <1>1, <1>2, ReadLoopInv DEF NetreadBegin

(* sendalloc() after the wait for the control link.                        *)
LEMMA ChanWokenInv ==
    ASSUME OnePair, FlowInv, ChanWoken(rd)
    PROVE  /\ FlowInv' /\ UNCHANGED con /\ r'.q = r.q
           /\ (Quiet /\ SamePlaces /\ UNCHANGED <<w, r, net>>) \/ Took(0)
<1>1. /\ TypeOK /\ LinkInv /\ PlaceInv /\ MessageInv /\ OtherInv /\ NumbersOK
      /\ RoomInv /\ SpendInv /\ BalanceInv /\ CountInv
  BY Parts
<1>2. R.at = "chan" /\ held = R.n /\ R \in Process /\ UNCHANGED <<w, drfnm, con>>
  BY <1>1, Pair, ProcTypes DEF ChanWoken, Runs, held, R
<1>3. KeptCon /\ con'.killed = con.killed /\ con'.told = con.told
  BY <1>2, Kept
<1>4. CASE hmap
  <2> DEFINE c == [R EXCEPT !.run = FALSE]
  <2>1. UNCHANGED <<r, hmap, net>> /\ pr' = [pr EXCEPT ![rd] = c]
    BY <1>1, <1>4 DEF ChanWoken, R, TypeOK
  <2>2. c \in Process /\ c.at = "chan" /\ c.n = R.n
    BY <1>2 DEF Process
  <2> HIDE DEF c
  <2>3. /\ pr' \in [Proc -> Process]
        /\ place' = place /\ count' = count /\ base' = base /\ amount' = amount
        /\ R'.at = "chan" /\ held' = held
    BY <1>1, <1>2, <2>1, <2>2, ReaderMoves
  <2>4. SamePlaces
    BY <1>2, <2>3 DEF SamePlaces
  <2>5. KeptW /\ wFlags' = wFlags /\ KeptR /\ KeptNet
    BY <1>2, <2>1, Kept
  <2>6. TypeOK'
    BY <1>1, <1>2, <2>1, <2>3 DEF TypeOK
  <2>7. LinkInv' /\ PlaceInv' /\ MessageInv' /\ OtherInv'
    BY <1>1, <1>2, <1>3, <2>1, <2>3, <2>5 DEF LinkInv, PlaceInv, MessageInv, OtherInv, KeptNet, KeptCon
  <2>8. Quiet
    BY <1>1, <1>2, <1>3, <2>1, <2>4, <2>5, KeptQuiet DEF AllLost
  <2> QED
    BY <1>2, <2>1, <2>4, <2>6, <2>7, <2>8, QuietInv
<1>5. CASE ~hmap
  <2>1. pr' = [pr EXCEPT ![rd] = Idle] /\ SendAll(r, R.n)
    BY <1>5 DEF ChanWoken, R
  <2>2. Idle \in Process /\ Idle.at = "idle"
    BY NcpFlowAssumption DEF Idle, Process
  <2>3. /\ pr' \in [Proc -> Process]
        /\ place' = place /\ count' = count /\ base' = base /\ amount' = amount
        /\ R'.at = "idle" /\ held' = 0
    BY <1>1, <2>1, <2>2, ReaderMoves
  <2>4. rBytes \in 0 .. HiWat /\ r.msgs = rMsgs /\ r.bytes = rBytes /\ r.link \in BOOLEAN /\ r \in RdSkt
    BY <1>1, Types DEF NumbersOK, rMsgs, rBytes, TypeOK
  <2>5. PICK m \in Nat, b \in Nat :
                 /\ net' \in Net /\ OtherInv' /\ net'.cans = net.cans
                 /\ data' = data /\ answers' = answers /\ inData' = inData
                 /\ allMsgs' = allMsgs + m /\ allBytes' = allBytes + b
                 /\ \/ m = NomMsg - rMsgs /\ b = HiWat - rBytes
                    \/ ~r.link /\ m = 0 /\ b = 0
    BY <1>1, <2>1, <2>4, AllOnItsWay DEF SendAll
  <2>6. due - held \in 0 .. MaxBytes /\ NomMsg \in 0 .. NomMsg /\ HiWat \in 0 .. Room
    BY <1>1, Pair DEF CountInv, NumbersOK
  <2>7. r' = [r EXCEPT !.msgs = NomMsg, !.bytes = HiWat, !.qtotal = due - held]
    BY <1>2, <2>1 DEF SendAll, due
  <2>8. /\ r' \in RdSkt /\ r'.open = r.open /\ r'.link = r.link
        /\ rMsgs' = NomMsg /\ rBytes' = HiWat /\ queued' = queued /\ due' = due - held
    BY <2>4, <2>6, <2>7 DEF RdSkt, rMsgs, rBytes, queued, due
  <2>9. Reads(0, 0, held, 0, TRUE, m, b)
    <3>1. /\ held + 0 = held + 0 /\ queued - 0 = queued /\ taken + 0 = taken /\ rBytes - 0 = rBytes
          /\ 0 <= queued /\ held \in Nat
      BY <1>1 DEF NumbersOK
    <3> QED
      BY <1>3, <2>3, <2>5, <2>8, <3>1 DEF Reads, KeptCon
  <2>10. TypeOK'
    <3>1. hmap' \in BOOLEAN
      BY <2>1 DEF SendAll
    <3> QED
      BY <1>1, <1>2, <2>3, <2>5, <2>8, <3>1 DEF TypeOK
  <2>11. AllLost' = AllLost
    BY <1>3, <2>5 DEF AllLost
  <2>12. r'.q = r.q
    BY <2>4, <2>7 DEF RdSkt
  <2>13. Took(0)
    <3>1. held \in Nat /\ 0 \in Nat
      BY <1>1 DEF NumbersOK
    <3> QED
      BY <1>2, <2>3, <2>5, <2>8, <2>9, <3>1 DEF Took
  <2> QED
    BY <2>12, <2>13, <1>1, <1>2, <1>3, <2>3, <2>5, <2>8, <2>9, <2>10, <2>11, ReadsInv DEF KeptCon
<1> QED
  BY <1>4, <1>5

(* What netread() does when it is woken.                                   *)
LEMMA NetreadInv ==
    ASSUME OnePair, FlowInv, Netread(rd)
    PROVE  FlowInv'
<1>1. R \in Process /\ TypeOK
  BY Parts, Pair, ProcTypes DEF R
<1>2. CASE DataWoken(rd)
  <2>1. held = 0 /\ ReadLoop(rd, R)
    BY <1>2 DEF DataWoken, Runs, held, R
  <2> QED
    BY <1>1, <2>1, ReadLoopInv
<1>3. CASE Lbolt(rd)
  <2>1. R.at = "lbolt" /\ held = 0
    BY <1>3 DEF Lbolt, held, R
  <2>2. CASE r.qtotal # 0
    <3>1. ReadLoop(rd, [R EXCEPT !.tried = TRUE]) /\ [R EXCEPT !.tried = TRUE] \in Process
      BY <1>1, <1>3, <2>2 DEF Lbolt, R, Process
    <3> QED
      BY <2>1, <3>1, ReadLoopInv
  <2>3. CASE r.qtotal = 0
    <3>1. /\ pr' = [pr EXCEPT ![rd] = Idle] /\ con' = [con EXCEPT !.eof = TRUE]
          /\ UNCHANGED <<w, r, hmap, drfnm, net>>
      BY <1>3, <2>3 DEF Lbolt
    <3>2. Idle \in Process /\ Idle.at = "idle"
      BY NcpFlowAssumption DEF Idle, Process
    <3> QED
      BY <3>1, <3>2, ReaderRestsInv
  <2> QED
    BY <2>2, <2>3
<1>4. CASE ChanWoken(rd)
  BY <1>4, ChanWokenInv
<1> QED
  BY <1>2, <1>3, <1>4 DEF Netread

(* The connection has just been opened.                                    *)
LEMMA InitInv ==
    OnePair /\ Init => FlowInv
<1> SUFFICES ASSUME OnePair, Init PROVE FlowInv
  OBVIOUS
<1> DEFINE c == [op |-> "all", m |-> NomMsg, b |-> NomBall]
<1>1. Idle \in Process
  BY NcpFlowAssumption DEF Idle, Process
<1>2. /\ pr \in [Proc -> Process] /\ place = "idle" /\ R.at = "idle" /\ held = 0
      /\ count = 0 /\ base = 0
  BY <1>1, Pair DEF Init, place, R, W, held, count, base, Idle
<1>3. c \in Ctl /\ c.m = NomMsg /\ c.b = NomBall /\ c.op = "all"
  BY NcpFlowAssumption DEF Ctl
<1> HIDE DEF c
<1>4. net = [data |-> <<>>, dans |-> <<>>, cans |-> <<>>, ctl |-> <<c>>]
  BY DEF Init, c
<1>5. net.data = <<>> /\ net.dans = <<>> /\ net.cans = <<>> /\ net.ctl = <<c>>
  BY <1>4
<1>6. net \in Net
  <2>1. << >> \in Seq(Seq(Byte)) /\ << >> \in Seq(Answer) /\ <<c>> \in Seq(Ctl)
    BY <1>3
  <2> QED
    BY <1>4, <2>1 DEF Net
<1>7. w \in WrtSkt /\ wMsgs = 0 /\ wBytes = 0 /\ wFlags = {} /\ w.open = TRUE /\ w.link = TRUE
  BY DEF Init, WrtSkt, wMsgs, wBytes, wFlags
<1>8. /\ r = [msgs |-> NomMsg, bytes |-> NomBall, q |-> <<>>, qtotal |-> 0, open |-> TRUE, link |-> TRUE]
      /\ r.q = <<>>
  BY DEF Init
<1>9. /\ r \in RdSkt /\ rMsgs = NomMsg /\ rBytes = NomBall /\ queued = 0 /\ due = 0
      /\ r.open = TRUE /\ r.link = TRUE
  <2>1. /\ NomMsg \in 0 .. NomMsg /\ NomBall \in 0 .. Room /\ 0 \in 0 .. MaxBytes
        /\ << >> \in Seq(Byte) /\ Len(<< >>) = 0
    BY Pair
  <2> QED
    BY <1>8, <2>1 DEF RdSkt, rMsgs, rBytes, queued, due
<1>10. /\ con \in Connection /\ sent = 0 /\ offered = 0 /\ taken = 0 /\ con.killed = FALSE
       /\ con.told = {}
  <2>1. 0 \in 0 .. MaxBytes /\ << >> \in Seq(Byte) /\ Len(<< >>) = 0
    BY Pair
  <2> QED
    BY <2>1 DEF Init, Connection, sent, offered, taken
<1>11. /\ data = <<>> /\ answers = <<>> /\ inData = 0 /\ ctl = <<c>>
       /\ allMsgs = NomMsg /\ allBytes = NomBall
  <2>1. << >> \in Seq(Ctl) /\ <<c>> = Append(<< >>, c)
    BY <1>3
  <2>2. Msgs(<< >>) = 0 /\ Bytes(<< >>) = 0
    <3>1. [i \in DOMAIN << >> |-> << >>[i].m] = <<>> /\ [i \in DOMAIN << >> |-> << >>[i].b] = <<>>
      OBVIOUS
    <3> QED
      BY <3>1, SumEmpty DEF Msgs, Bytes
  <2>3. Msgs(<<c>>) = 0 + NomMsg /\ Bytes(<<c>>) = 0 + NomBall
    BY <1>3, <2>1, <2>2, CtlAppend
  <2>4. 0 + NomMsg = NomMsg /\ 0 + NomBall = NomBall
    BY Pair
  <2> QED
    BY <1>5, <2>3, <2>4, SizeNone DEF data, answers, inData, ctl, allMsgs, allBytes
<1>12. TypeOK
  BY <1>2, <1>6, <1>7, <1>9, <1>10 DEF TypeOK, Init
<1>13. LinkInv /\ MessageInv /\ PlaceInv
  BY <1>2, <1>7, <1>9, <1>10, <1>11 DEF LinkInv, MessageInv, PlaceInv
<1>14. NumbersOK
  BY <1>12, <1>13, Numbers
<1>15. ~Del /\ delMsgs = 0 /\ delBytes = 0
  BY <1>2 DEF Del, delMsgs, delBytes
<1>16. NomBall <= HiWat /\ NomBall \in Nat /\ NomMsg \in Nat
  BY Pair
<1>17. RoomInv /\ CountInv
  BY <1>2, <1>9, <1>10, <1>11, <1>16 DEF RoomInv, CountInv
<1>18. SpendInv /\ BalanceInv
  BY <1>2, <1>7, <1>9, <1>11, <1>15, <1>16 DEF SpendInv, BalanceInv, Balanced
<1>19. OtherInv
  <2>1. NoCredit(<<c>>)
    BY <1>3 DEF NoCredit
  <2> QED
    BY <1>11, <2>1 DEF OtherInv
<1> QED
  BY <1>12, <1>13, <1>17, <1>18, <1>19 DEF FlowInv

(* Nothing happens.                                                        *)
LEMMA StutterInv ==
    ASSUME OnePair, FlowInv, UNCHANGED vars
    PROVE  FlowInv' /\ Quiet
<1>1. TypeOK /\ LinkInv /\ PlaceInv /\ MessageInv /\ OtherInv /\ NumbersOK
  BY Parts
<1>2. UNCHANGED <<w, r, hmap, drfnm, net, pr, con>>
  BY DEF vars
<1>3. SamePlaces
  BY <1>1, <1>2, Unmoved
<1>4. KeptW /\ wFlags' = wFlags /\ KeptR /\ KeptNet /\ KeptCon
  BY <1>2, Kept
<1>5. TypeOK'
  BY <1>1, <1>2 DEF TypeOK
<1>6. LinkInv' /\ PlaceInv' /\ MessageInv' /\ OtherInv'
  BY <1>1, <1>2, <1>3, <1>4, PlacesKept DEF LinkInv, MessageInv, OtherInv, KeptNet, KeptCon, SamePlaces
<1>7. Quiet
  BY <1>1, <1>2, <1>3, <1>4, KeptQuiet DEF AllLost
<1> QED
  BY <1>5, <1>6, <1>7, QuietInv

(* Every step keeps the invariant.                                         *)
LEMMA NextInv ==
    OnePair /\ FlowInv /\ [Next]_vars => FlowInv'
<1> SUFFICES ASSUME OnePair, FlowInv, [Next]_vars PROVE FlowInv'
  OBVIOUS
<1>1. ASSUME NEW p \in Writers, Netwrite(p) PROVE FlowInv'
  BY <1>1, NetwriteInv DEF OnePair
<1>2. ASSUME NEW p \in Writers, NEW n \in 1 .. MaxCount, NetwriteBegin(p, n) PROVE FlowInv'
  BY <1>2, NetwriteBeginInv DEF OnePair
<1>3. ASSUME NEW p \in Readers, Netread(p) PROVE FlowInv'
  BY <1>3, NetreadInv DEF OnePair
<1>4. ASSUME NEW p \in Readers, NEW n \in 1 .. MaxCount, NetreadBegin(p, n) PROVE FlowInv'
  BY <1>4, NetreadBeginInv DEF OnePair
<1>5. ASSUME NEW p \in Proc, Signal(p) PROVE FlowInv'
  BY <1>5, SignalInv
<1>6. CASE DataArrives
  BY <1>6, DataArrivesInv
<1>7. CASE DataLost
  BY <1>7, DataLostInv
<1>8. CASE DataAnswered
  BY <1>8, DataAnsweredInv
<1>9. CASE CtlArrives
  BY <1>9, CtlArrivesInv
<1>10. CASE CtlLost
  BY <1>10, CtlLostInv
<1>11. CASE CtlAnswered
  BY <1>11, CtlAnsweredInv
<1>12. CASE DaemonSends
  BY <1>12, DaemonSendsInv
<1>13. CASE CleanSender
  BY <1>13, CleanSenderInv
<1>14. CASE CleanReceiver \/ CloseShared
  BY <1>14, CleanReceiverInv
<1>15. CASE CloseSender
  BY <1>15, CloseSenderInv
<1>16. CASE UNCHANGED vars
  BY <1>16, StutterInv
<1> QED
  BY <1>1, <1>2, <1>3, <1>4, <1>5, <1>6, <1>7, <1>8, <1>9, <1>10, <1>11, <1>12, <1>13,
     <1>14, <1>15, <1>16 DEF Next

(* What the inductive invariant says of the properties.                    *)
LEMMA BooksAgree ==
    ASSUME OnePair, FlowInv
    PROVE  CreditAgrees
<1>1. TypeOK /\ LinkInv /\ PlaceInv /\ BalanceInv /\ NumbersOK
  BY Parts
<1> SUFFICES ASSUME Lasts, ~AllLost
             PROVE  /\ \A p \in Writers : Delivered(p) => Agree(1, pr[p].n)
                    /\ (\A p \in Writers : ~Delivered(p)) => Agree(0, 0)
  BY DEF CreditAgrees
<1>2. /\ wMsgs + allMsgs = rMsgs + delMsgs
      /\ wBytes + allBytes + queued = rBytes + delBytes
  BY <1>1 DEF Lasts, BalanceInv, Balanced
<1>3. Delivered(wr) <=> Del
  BY DEF Delivered, Del, place, W, answers, wFlags
<1>4. CASE Del
  <2>1. Agree(1, pr[wr].n)
    BY <1>2, <1>4 DEF Agree, delMsgs, delBytes, wMsgs, wBytes, allMsgs, allBytes, rMsgs, rBytes,
       queued, amount, W
  <2> QED
    BY <1>3, <1>4, <2>1 DEF OnePair
<1>5. CASE ~Del
  <2>1. Agree(0, 0)
    BY <1>2, <1>5 DEF Agree, delMsgs, delBytes, wMsgs, wBytes, allMsgs, allBytes, rMsgs, rBytes,
       queued
  <2> QED
    BY <1>3, <1>5, <2>1 DEF OnePair
<1> QED
  BY <1>4, <1>5

(* The one message on the link has been allocated.                         *)
LEMMA MessagesFit ==
    ASSUME OnePair, FlowInv
    PROVE  NeverOverrun /\ OnePerLink
<1>1. TypeOK /\ MessageInv /\ RoomInv /\ NumbersOK
  BY Parts
<1>2. CASE net.data = <<>>
  <2>1. Len(net.data) = 0 /\ r.msgs >= 0 /\ Len(net.dans) <= 1 /\ Len(net.dans) \in Nat
    <3>1. answers = <<>> \/ Len(answers) = 1
      BY <1>1 DEF MessageInv
    <3>2. net.data \in Seq(Seq(Byte)) /\ net.dans \in Seq(Answer)
      BY <1>1, Types
    <3>3. Len(net.dans) <= 1 /\ Len(net.dans) \in Nat
      <4>1. CASE net.dans = <<>>
        BY <4>1
      <4>2. CASE net.dans # <<>>
        <5>1. Len(net.dans) = 1
          BY <3>1, <4>2 DEF answers
        <5> QED
          BY <5>1
      <4> QED
        BY <4>1, <4>2
    <3> QED
      <4>1. Len(<< >>) = 0
        OBVIOUS
      <4>2. r.msgs >= 0
        BY <1>1 DEF NumbersOK, rMsgs
      <4> QED
        BY <1>2, <3>3, <4>1, <4>2
  <2>2. queued + inData <= Room
    BY <1>1, Pair DEF RoomInv, NumbersOK
  <2> QED
    BY <2>1, <2>2 DEF NeverOverrun, OnePerLink, queued, inData
<1>3. CASE net.data # <<>>
  <2>1. Len(net.data) = 1 /\ net.dans = <<>> /\ Len(net.dans) = 0
    BY <1>1, <1>3 DEF MessageInv, data, answers
  <2>2. queued + inData <= Room /\ rMsgs >= 1
    BY <1>1, <1>3, Pair DEF RoomInv, NumbersOK, data
  <2> QED
    BY <2>1, <2>2 DEF NeverOverrun, OnePerLink, queued, inData, rMsgs
<1> QED
  BY <1>2, <1>3

(* The inductive invariant of the data path.                               *)
THEOREM FlowInvHolds ==
    ASSUME OnePair
    PROVE  Spec => []FlowInv
<1>1. Init => FlowInv
  BY InitInv
<1>2. FlowInv /\ [Next]_vars => FlowInv'
  BY NextInv
<1> QED
  BY <1>1, <1>2, PTL DEF Spec

(* The sockets, messages and processes of netwrite() and netread() have    *)
(* their types; r_msgs and r_bytes never leave the range of what was       *)
(* allocated.                                                              *)
THEOREM TypeCorrect ==
    ASSUME OnePair
    PROVE  Spec => []TypeOK
<1>1. FlowInv => TypeOK
  BY DEF FlowInv
<1> QED
  BY <1>1, FlowInvHolds, PTL

(* What netwrite() may send, with the ALLs on their way, is what netread() *)
(* has allocated, but for the one message delivered without the writer's   *)
(* knowledge; across every loss, retry, sleep and close.                   *)
THEOREM CreditAgreesHolds ==
    ASSUME OnePair
    PROVE  Spec => []CreditAgrees
<1>1. FlowInv => CreditAgrees
  BY BooksAgree
<1> QED
  BY <1>1, FlowInvHolds, PTL

(* hh() always finds a message allocated, and what is queued and on its    *)
(* way fits what was allocated.                                            *)
THEOREM NeverOverrunHolds ==
    ASSUME OnePair
    PROVE  Spec => []NeverOverrun
<1>1. FlowInv => NeverOverrun
  BY MessagesFit
<1> QED
  BY <1>1, FlowInvHolds, PTL

(* netwrite() has one message outstanding on the link, whatever was sent   *)
(* again after an error.                                                   *)
THEOREM OnePerLinkHolds ==
    ASSUME OnePair
    PROVE  Spec => []OnePerLink
<1>1. FlowInv => OnePerLink
  BY MessagesFit
<1> QED
  BY <1>1, FlowInvHolds, PTL

-----------------------------------------------------------------------------
(* The pipe.  An open connection is a pipe of bytes: every step of the     *)
(* data path is a step of BytePipe or changes nothing of the pipe,         *)
(* whatever the sizes of messages, allocations, reads and writes.  PipeInv *)
(* says where the bytes are: read, in the queue, on their way, and not yet *)
(* sent, one after the other.  It is inductive with FlowInv.               *)

(* What is assumed besides OnePair: no signal in the sleep for an          *)
(* allocation, after which bytes that the user offered are never sent, and *)
(* none in sendalloc(), after which r_qtotal counts bytes that are gone    *)
(* and a read returns none.                                                *)
NoLoss == OnePair /\ "alloc" \notin Interrupted /\ "chan" \notin Interrupted

(* s is the bytes k + 1, k + 2 and so on.                                  *)
InTurn(s, k) == \A i \in DOMAIN s : s[i] = k + i

(* The bytes that the receiver has got.                                    *)
rcvd == taken + queued

(* The bytes of a message that the sender's books do not count yet.        *)
pending == IF place = "rfnm" THEN amount ELSE 0

(* The bytes read, those in the queue and those on their way follow on     *)
(* each other.                                                             *)
OrderInv ==
    /\ InTurn(con.out, 0)
    /\ InTurn(r.q, taken)
    /\ r.link /\ data # <<>> => InTurn(data[1], rcvd)

(* r_qtotal is right, but for what it counts until sendalloc() is done.    *)
DueInv == due = queued + held

(* The writer goes on where he was.                                        *)
SenderInv ==
    w.link =>
        /\ place = "alloc" => base = sent
        /\ place = "idle" => offered = sent
        /\ place # "idle" => base + count = offered

(* The receiver has all that was sent but the message on its way.          *)
HeardInv ==
    r.link /\ w.link =>
        /\ place = "rfnm" /\ ~Del => rcvd = base
        /\ ~(place = "rfnm" /\ ~Del) => rcvd = sent

(* What has been sent and may be sent, and is not yet read, fits what the  *)
(* receiver has allocated, also when the receiver's socket was cleaned.    *)
FitInv == w.link => wBytes + allBytes + sent <= rBytes + taken + pending

(* How the connection ends.                                                *)
EndInv ==
    /\ con.killed \/ con.closed \/ (w.link /\ r.link /\ r.open)
    /\ con.closed => ~w.link
    /\ con.closed /\ ~con.killed => rcvd = sent /\ data = <<>>

(* Who sleeps in netread() wants bytes, and waits for data still trickling *)
(* in on a closed connection only.                                         *)
ReaderInv ==
    /\ R.at \in {"data", "lbolt"} => R.cnt >= 1
    /\ R.at = "lbolt" => ~r.open

(* The invariant of the pipe, inductive with FlowInv.                      *)
PipeInv ==
    /\ OrderInv /\ DueInv /\ SenderInv /\ HeardInv
    /\ FitInv /\ EndInv /\ ReaderInv

(* A step of the pipe, or of nothing in it.                                *)
PipeStep == [Pipe!Next]_Pipe!pipeVars

-----------------------------------------------------------------------------
(* The pipe is not touched.                                                *)
LEMMA PipeStutter ==
    ASSUME con'.sent = con.sent, con'.out = con.out, con'.closed = con.closed,
           con'.killed = con.killed, con'.eof = con.eof
    PROVE  PipeStep
BY DEF PipeStep, Pipe!pipeVars

(* The connection is given up.                                             *)
LEMMA PipeBreak ==
    ASSUME TypeOK, con' = GiveUp
    PROVE  PipeStep
<1>1. /\ con'.sent = con.sent /\ con'.out = con.out /\ con'.closed = con.closed
      /\ con'.killed = TRUE /\ con'.eof = con.eof
  BY DEF TypeOK, Connection, GiveUp
<1>2. Pipe!Break
  BY <1>1 DEF Pipe!Break
<1> QED
  BY <1>2 DEF PipeStep, Pipe!Next

(* A step in which no byte is sent, delivered or read, and no allocation   *)
(* made.                                                                   *)
Still ==
    /\ con'.out = con.out /\ r'.q = r.q
    /\ data' = data \/ data' = <<>>
    /\ due' = due /\ held' = held
    /\ sent' = sent /\ offered' = offered
    /\ r'.link => r.link
    /\ w'.link => /\ w.link /\ place' = place /\ base' = base /\ amount' = amount
                  /\ count' = count /\ (Del' <=> Del)
                  /\ \E i \in Int, j \in Nat :
                        wBytes' = wBytes + i /\ allBytes' = allBytes - i - j
    /\ rBytes' = rBytes

(* Such a step keeps what is said of the bytes.                            *)
LEMMA StillInv ==
    ASSUME OnePair, FlowInv, PipeInv, Still, EndInv', ReaderInv'
    PROVE  PipeInv'
<1>1. /\ OrderInv /\ DueInv /\ SenderInv /\ HeardInv /\ FitInv
      /\ NumbersOK
  BY Parts DEF PipeInv
<1>2. taken' = taken /\ queued' = queued /\ rcvd' = rcvd
  BY DEF Still, taken, queued, rcvd
<1>3. OrderInv'
  <2>1. data' # <<>> => data' = data
    BY DEF Still
  <2> QED
    BY <1>1, <1>2, <2>1 DEF Still, OrderInv
<1>4. DueInv'
  BY <1>1, <1>2 DEF Still, DueInv
<1>5. SenderInv'
  BY <1>1 DEF Still, SenderInv
<1>6. HeardInv'
  BY <1>1, <1>2 DEF Still, HeardInv
<1>7. FitInv'
  <2> SUFFICES ASSUME w'.link PROVE wBytes' + allBytes' + sent' <= rBytes' + taken' + pending'
    BY DEF FitInv
  <2>1. PICK i \in Int, j \in Nat : wBytes' = wBytes + i /\ allBytes' = allBytes - i - j
    BY DEF Still
  <2>2. w.link /\ pending' = pending
    BY DEF Still, pending
  <2>3. pending \in Int
    BY <1>1 DEF NumbersOK, pending
  <2>4. w.link => (wBytes + i) + (allBytes - i - j) + sent <= rBytes + taken + pending
    BY <1>1, <2>3 DEF FitInv, NumbersOK
  <2> QED
    BY <1>2, <2>1, <2>2, <2>4 DEF FitInv, Still
<1> QED
  BY <1>3, <1>4, <1>5, <1>6, <1>7 DEF PipeInv

(* wakeup() leaves the reader's count alone.                               *)
LEMMA WokenReader ==
    ASSUME OnePair, TypeOK, NEW P, pr' = Wakeup(P)
    PROVE  R'.cnt = R.cnt /\ R'.at = R.at
<1>1. pr[rd] \in Process /\ rd \in Proc
  BY Pair, ProcTypes
<1>2. pr'[rd] = IF pr[rd].at \in P THEN [pr[rd] EXCEPT !.run = TRUE] ELSE pr[rd]
  BY <1>1 DEF Wakeup
<1> QED
  BY <1>1, <1>2 DEF R, Process

(* Nothing of the connection's end changes.                                *)
LEMMA EndsKept ==
    ASSUME EndInv, Still, con'.closed = con.closed, con'.killed = con.killed,
           w'.link = w.link, r'.link = r.link, r'.open = r.open
    PROVE  EndInv'
<1>1. rcvd' = rcvd
  BY DEF Still, rcvd, taken, queued
<1> QED
  BY <1>1 DEF Still, EndInv

(* A step that is quiet for the books is still for the bytes, if it loses  *)
(* none.                                                                   *)
LEMMA QuietStill ==
    ASSUME NumbersOK, Quiet, con'.out = con.out, r'.q = r.q, data' = data \/ data' = <<>>,
           held' = held, offered' = offered, r'.link => r.link,
           w'.link => place' = place /\ base' = base /\ count' = count /\ amount' = amount
    PROVE  Still
<1>1. PICK i \in Nat, j \in Nat : allMsgs' = allMsgs - i /\ allBytes' = allBytes - j
  BY DEF Quiet
<1>2. w'.link => wBytes' = wBytes + 0 /\ allBytes' = allBytes - 0 - j
  BY <1>1 DEF Quiet, NumbersOK
<1> QED
  BY <1>2 DEF Quiet, Still

(* What the steps keep of the pipe that only wake processes, or tell the   *)
(* daemon.                                                                 *)
LEMMA AsideInv ==
    ASSUME OnePair, FlowInv, PipeInv, Quiet, SamePlaces, R'.cnt = R.cnt,
           data' = data \/ data' = <<>>, r'.q = r.q,
           KeptCon, con'.out = con.out, con'.closed = con.closed, con'.killed = con.killed,
           con'.eof = con.eof, con'.sent = con.sent,
           w'.link = w.link, r'.link = r.link, r'.open = r.open
    PROVE  PipeInv' /\ PipeStep
<1>1. NumbersOK /\ EndInv /\ ReaderInv
  BY Parts DEF PipeInv
<1>2. Still
  BY <1>1, QuietStill DEF SamePlaces, KeptCon
<1>3. EndInv' /\ ReaderInv'
  BY <1>1, <1>2, EndsKept DEF ReaderInv, SamePlaces
<1> QED
  BY <1>2, <1>3, StillInv, PipeStutter

(* send_pro() at the receiving host, and the answers and losses on link 0. *)
LEMMA CtlPipe ==
    ASSUME OnePair, FlowInv, PipeInv, DaemonSends \/ CtlLost \/ CtlAnswered
    PROVE  PipeInv' /\ PipeStep
<1>1. TypeOK
  BY Parts
<1>2. Quiet
  BY DaemonSendsInv, CtlLostInv, CtlAnsweredInv
<1>3. SamePlaces /\ R'.cnt = R.cnt
  BY <1>1, Unmoved, Woken, WokenReader DEF DaemonSends, CtlLost, CtlAnswered, R
<1>4. UNCHANGED <<w, r>> /\ net'.data = net.data
  BY <1>1 DEF DaemonSends, CtlLost, CtlAnswered, TypeOK, Net
<1>5. con' = con \/ con' = Told("receiver")
  BY DEF DaemonSends, CtlLost, CtlAnswered
<1>6. /\ con'.sent = con.sent /\ con'.out = con.out /\ con'.closed = con.closed
      /\ con'.killed = con.killed /\ con'.eof = con.eof /\ con'.offered = con.offered
  BY <1>1, <1>5 DEF Told, TypeOK, Connection
<1>7. KeptCon
  BY <1>6 DEF KeptCon, sent, offered, taken
<1> QED
  BY <1>2, <1>3, <1>4, <1>6, <1>7, AsideInv DEF data

(* A message is lost, or its answer comes.                                 *)
LEMMA AnswerPipe ==
    ASSUME OnePair, FlowInv, PipeInv, DataLost \/ DataAnswered
    PROVE  PipeInv' /\ PipeStep
<1>1. TypeOK /\ MessageInv
  BY Parts
<1>2. Quiet
  BY DataLostInv, DataAnsweredInv
<1>3. SamePlaces /\ R'.cnt = R.cnt
  BY <1>1, Unmoved, Woken, WokenReader DEF DataLost, DataAnswered, R
<1>4. UNCHANGED r /\ w'.link = w.link
  BY <1>1 DEF DataLost, DataAnswered, TypeOK, WrtSkt
<1>5. data' = data \/ data' = <<>>
  <2>1. CASE DataLost
    <3>1. net'.data = <<>>
      BY <1>1, <2>1, OneData DEF DataLost, TypeOK, Net
    <3> QED
      BY <3>1 DEF data
  <2>2. CASE DataAnswered
    BY <1>1, <2>2 DEF DataAnswered, TypeOK, Net, data
  <2> QED
    BY <2>1, <2>2
<1>6. con' = con \/ con' = Told("sender")
  BY DEF DataLost, DataAnswered
<1>7. /\ con'.sent = con.sent /\ con'.out = con.out /\ con'.closed = con.closed
      /\ con'.killed = con.killed /\ con'.eof = con.eof /\ con'.offered = con.offered
  BY <1>1, <1>6 DEF Told, TypeOK, Connection
<1>8. KeptCon
  BY <1>7 DEF KeptCon, sent, offered, taken
<1> QED
  BY <1>2, <1>3, <1>4, <1>5, <1>7, <1>8, AsideInv

(* netsleep() with no flag on, and no step at all.                         *)
LEMMA RestPipe ==
    ASSUME OnePair, FlowInv, PipeInv, RfnmSleep(wr) \/ UNCHANGED vars
    PROVE  PipeInv' /\ PipeStep
<1>1. TypeOK
  BY Parts
<1>2. UNCHANGED <<w, r, hmap, drfnm, net, con>>
  BY DEF RfnmSleep, vars
<1>3. Quiet
  BY Pair, RfnmSleepInv, StutterInv
<1>4. SamePlaces /\ R'.cnt = R.cnt
  <2>1. CASE UNCHANGED vars
    BY <1>1, <2>1, Unmoved DEF vars, R
  <2>2. CASE RfnmSleep(wr)
    <3> DEFINE c == [pr[wr] EXCEPT !.run = FALSE]
    <3>1. pr[wr] \in Process /\ pr' = [pr EXCEPT ![wr] = c]
      BY <1>1, <2>2, Pair, ProcTypes DEF RfnmSleep, TypeOK
    <3>2. /\ c \in Process /\ c.at = place /\ c.cnt = count /\ c.base = base
          /\ c.n = amount
      BY <3>1 DEF Process, place, count, base, amount, W
    <3> HIDE DEF c
    <3>3. /\ pr' \in [Proc -> Process]
          /\ place' = c.at /\ count' = c.cnt /\ base' = c.base /\ amount' = c.n
          /\ held' = held /\ R'.at = R.at
      BY <1>1, <3>1, <3>2, WriterMoves
    <3>4. pr'[rd] = pr[rd]
      BY <1>1, <3>1, Pair DEF TypeOK
    <3> QED
      BY <3>2, <3>3, <3>4 DEF SamePlaces, R
  <2> QED
    BY <2>1, <2>2
<1>5. KeptCon /\ data' = data
  BY <1>2, Kept DEF KeptNet
<1> QED
  BY <1>2, <1>3, <1>4, <1>5, AsideInv

(* allocate(): what the ALL says moves from the link to the sender's       *)
(* books.                                                                  *)
LEMMA CtlArrivesPipe ==
    ASSUME OnePair, FlowInv, PipeInv, CtlArrives
    PROVE  PipeInv' /\ PipeStep
<1> DEFINE c == Head(net.ctl)
           i == c.m
           j == c.b
<1>1. TypeOK /\ NumbersOK /\ OtherInv /\ EndInv /\ ReaderInv
  BY Parts DEF PipeInv
<1>2. /\ net.ctl # <<>>
      /\ net' = [net EXCEPT !.ctl = Tail(@), !.cans = Append(@, "rfnm")]
      /\ UNCHANGED <<r, hmap, drfnm, con>>
  BY DEF CtlArrives
<1>3. /\ net.ctl \in Seq(Ctl) /\ Tail(net.ctl) \in Seq(Ctl) /\ c \in Ctl
      /\ c.op = "other" => c.m = 0 /\ c.b = 0
  <2>1. net.ctl \in Seq(Ctl)
    BY <1>1, Types
  <2>2. 1 \in DOMAIN net.ctl /\ c = net.ctl[1] /\ c \in Ctl /\ Tail(net.ctl) \in Seq(Ctl)
    BY <1>2, <2>1
  <2> QED
    BY <1>1, <2>1, <2>2 DEF OtherInv, NoCredit, ctl
<1>4. /\ net'.ctl = Tail(net.ctl) /\ data' = data /\ answers' = answers
  BY <1>1, <1>2 DEF TypeOK, Net, data, answers
<1>5. c.b \in Nat /\ c.op \in {"all", "other"}
  BY <1>3 DEF Ctl
<1>6. allBytes' = allBytes - j
  <2>1. allBytes = c.b + Bytes(Tail(net.ctl)) /\ Bytes(Tail(net.ctl)) \in Nat
    BY <1>2, <1>3, CtlTail, CtlNat DEF allBytes
  <2>2. Bytes(Tail(net.ctl)) = allBytes - c.b
    BY <1>1, <1>5, <2>1 DEF NumbersOK
  <2> QED
    BY <1>4, <2>2 DEF allBytes
<1>7. w'.link = w.link /\ wFlags' = wFlags /\ (w.link => wBytes' = wBytes + j)
  <2>1. CASE c.op = "all" /\ w.link
    BY <1>1, <2>1 DEF CtlArrives, TypeOK, WrtSkt, wFlags, wBytes
  <2>2. CASE ~(c.op = "all" /\ w.link)
    <3>1. w' = w /\ (w.link => j = 0)
      BY <1>3, <1>5, <2>2 DEF CtlArrives
    <3>2. wBytes + 0 = wBytes
      BY <1>1 DEF NumbersOK
    <3> QED
      BY <3>1, <3>2 DEF wFlags, wBytes
  <2> QED
    BY <2>1, <2>2
<1> HIDE DEF i, j
<1>8. SamePlaces /\ R'.cnt = R.cnt
  BY <1>1, Unmoved, Woken, WokenReader DEF CtlArrives, R
<1>9. KeptR /\ KeptCon
  BY <1>2, Kept
<1>10. Still
  <2>1. w.link => wBytes' = wBytes + j /\ allBytes' = allBytes - j - 0
    <3>1. j \in Nat
      BY <1>5 DEF j
    <3> QED
      BY <1>1, <1>6, <1>7, <3>1 DEF NumbersOK
  <2>2. Del' <=> Del
    BY <1>4, <1>7, <1>8 DEF Del, SamePlaces
  <2>3. j \in Int
    BY <1>5 DEF j
  <2> QED
    BY <1>2, <1>4, <1>7, <1>8, <1>9, <2>1, <2>2, <2>3 DEF Still, SamePlaces, KeptR, KeptCon
<1>11. EndInv' /\ ReaderInv'
  BY <1>1, <1>2, <1>7, <1>8, <1>10, EndsKept DEF ReaderInv, SamePlaces
<1> QED
  BY <1>2, <1>10, <1>11, StillInv, PipeStutter

(* iclean() at the sending host.                                           *)
LEMMA CleanSenderPipe ==
    ASSUME OnePair, FlowInv, PipeInv, CleanSender
    PROVE  PipeInv' /\ PipeStep
<1>1. TypeOK /\ NumbersOK /\ EndInv /\ ReaderInv
  BY Parts DEF PipeInv
<1>2. Quiet /\ con' = GiveUp /\ UNCHANGED <<r, net>>
  BY CleanSenderInv DEF CleanSender
<1>3. SamePlaces /\ R'.cnt = R.cnt
  BY <1>1, Woken, WokenReader DEF CleanSender
<1>4. w'.link = FALSE
  BY <1>1 DEF CleanSender, TypeOK, WrtSkt
<1>5. /\ con'.sent = con.sent /\ con'.out = con.out /\ con'.closed = con.closed
      /\ con'.killed = TRUE /\ con'.offered = con.offered
  BY <1>1, <1>2 DEF TypeOK, Connection, GiveUp
<1>6. Still
  BY <1>1, <1>2, <1>3, <1>4, <1>5, QuietStill DEF SamePlaces, data, offered
<1>7. EndInv' /\ ReaderInv'
  BY <1>1, <1>2, <1>3, <1>4, <1>5 DEF EndInv, ReaderInv, SamePlaces
<1> QED
  BY <1>1, <1>2, <1>6, <1>7, StillInv, PipeBreak

(* iclean() and the end of shared use at the receiving host.  A close that *)
(* the sender asked for breaks nothing.                                    *)
LEMMA CleanReceiverPipe ==
    ASSUME OnePair, FlowInv, PipeInv, CleanReceiver \/ CloseShared
    PROVE  PipeInv' /\ PipeStep
<1>1. TypeOK /\ NumbersOK /\ EndInv /\ ReaderInv
  BY Parts DEF PipeInv
<1>2. Quiet /\ UNCHANGED <<w, net>>
  BY CleanReceiverInv DEF CleanReceiver, CloseShared
<1>3. SamePlaces /\ R'.cnt = R.cnt
  BY <1>1, Woken, WokenReader DEF CleanReceiver, CloseShared
<1>4. r'.q = r.q /\ r'.open = FALSE /\ (r'.link => r.link)
  BY <1>1 DEF CleanReceiver, CloseShared, TypeOK, RdSkt
<1>5. (con' = con /\ con.closed) \/ con' = GiveUp
  BY DEF CleanReceiver, CloseShared
<1>6. /\ con'.sent = con.sent /\ con'.out = con.out /\ con'.closed = con.closed
      /\ con'.offered = con.offered
      /\ con'.killed = TRUE \/ (con'.killed = con.killed /\ con.closed)
  BY <1>1, <1>5 DEF TypeOK, Connection, GiveUp
<1>7. Still
  BY <1>1, <1>2, <1>3, <1>4, <1>6, QuietStill DEF SamePlaces, data, offered
<1>8. rcvd' = rcvd /\ sent' = sent /\ data' = data
  BY <1>2, <1>4, <1>6 DEF rcvd, taken, queued, sent, data
<1>9. EndInv' /\ ReaderInv'
  BY <1>1, <1>2, <1>3, <1>4, <1>6, <1>8 DEF EndInv, ReaderInv, SamePlaces
<1>10. PipeStep
  BY <1>1, <1>5, PipeBreak, PipeStutter
<1> QED
  BY <1>7, <1>9, <1>10, StillInv

(* netclose() by the last writer: everything he sent has arrived, unless   *)
(* the connection is broken.                                               *)
LEMMA CloseSenderPipe ==
    ASSUME OnePair, FlowInv, PipeInv, CloseSender
    PROVE  PipeInv' /\ PipeStep
<1>1. TypeOK /\ NumbersOK /\ MessageInv /\ EndInv /\ ReaderInv /\ HeardInv
  BY Parts DEF PipeInv
<1>2. /\ Quiet /\ con' = [con EXCEPT !.closed = TRUE] /\ UNCHANGED <<r, net, pr>>
      /\ ~con.closed
  BY CloseSenderInv DEF CloseSender
<1>3. SamePlaces /\ R'.cnt = R.cnt
  BY <1>1, <1>2, Unmoved DEF R
<1>4. w'.link = FALSE
  BY <1>1 DEF CloseSender, TypeOK, WrtSkt
<1>5. /\ con'.sent = con.sent /\ con'.out = con.out /\ con'.closed = TRUE
      /\ con'.offered = con.offered /\ con'.killed = con.killed /\ con'.eof = con.eof
  BY <1>1, <1>2 DEF TypeOK, Connection
<1>6. Still
  BY <1>1, <1>2, <1>3, <1>4, <1>5, QuietStill DEF SamePlaces, data, offered
<1>7. rcvd' = rcvd /\ sent' = sent /\ data' = data
  BY <1>2, <1>5 DEF rcvd, taken, queued, sent, data
<1>8. ~con.killed => rcvd = sent /\ data = <<>>
  <2>1. place = "idle"
    BY DEF CloseSender, OnePair, place, W
  <2> QED
    BY <1>1, <1>2, <2>1 DEF EndInv, HeardInv, MessageInv
<1>9. EndInv' /\ ReaderInv'
  BY <1>1, <1>2, <1>3, <1>4, <1>5, <1>7, <1>8 DEF EndInv, ReaderInv, SamePlaces
<1>10. Pipe!Close
  BY <1>5 DEF Pipe!Close
<1> QED
  BY <1>6, <1>9, <1>10, StillInv DEF PipeStep, Pipe!Next

(* A signal ends a read that has taken nothing.                            *)
LEMMA SignalPipe ==
    ASSUME NoLoss, FlowInv, PipeInv, NEW p \in Proc, Signal(p)
    PROVE  PipeInv' /\ PipeStep
<1>1. OnePair /\ "alloc" \notin Interrupted /\ "chan" \notin Interrupted
  BY DEF NoLoss
<1>2. TypeOK /\ NumbersOK /\ PlaceInv /\ EndInv
  BY <1>1, Parts DEF PipeInv
<1>3. /\ UNCHANGED <<w, r, hmap, drfnm, net, con>> /\ pr' = [pr EXCEPT ![p] = Idle]
      /\ pr[p].at \notin {"idle", "alloc", "rfnm", "chan"}
  BY <1>1, NcpFlowAssumption DEF Signal, OnePair
<1>4. p = rd
  <2>1. place \in {"idle", "alloc", "rfnm"}
    BY <1>2 DEF PlaceInv
  <2> QED
    BY <1>1, <1>3, <2>1, Pair DEF place, W
<1>5. Idle \in Process /\ Idle.at = "idle"
  BY NcpFlowAssumption DEF Idle, Process
<1>6. /\ place' = place /\ count' = count /\ base' = base /\ amount' = amount
      /\ R'.at = "idle" /\ held' = 0
  BY <1>1, <1>2, <1>3, <1>4, <1>5, ReaderMoves
<1>7. held = 0
  BY <1>3, <1>4 DEF held, R
<1>8. Quiet
  BY <1>1, SignalInv
<1>9. Still
  BY <1>2, <1>3, <1>6, <1>7, <1>8, QuietStill DEF data, offered
<1>10. EndInv' /\ ReaderInv'
  BY <1>2, <1>3, <1>6, <1>9, EndsKept DEF ReaderInv
<1> QED
  BY <1>1, <1>3, <1>9, <1>10, StillInv, PipeStutter

-----------------------------------------------------------------------------
(* Bytes in turn after others are in turn, and so are parts of them.       *)
LEMMA InTurnConcat ==
    ASSUME NEW s \in Seq(Byte), NEW t \in Seq(Byte), NEW k \in Nat,
           InTurn(s, k), InTurn(t, k + Len(s))
    PROVE  InTurn(s \o t, k)
<1> DEFINE u == s \o t
           m == Len(s)
<1>1. m \in Nat /\ Len(t) \in Nat /\ DOMAIN s = 1 .. m /\ DOMAIN t = 1 .. Len(t)
  OBVIOUS
<1>2. DOMAIN u = 1 .. m + Len(t)
  BY <1>1
<1>3. ASSUME NEW i \in DOMAIN u PROVE u[i] = k + i
  <2>1. CASE i <= m
    <3>1. i \in DOMAIN s /\ u[i] = s[i]
      BY <1>1, <1>2, <2>1
    <3> QED
      BY <3>1 DEF InTurn
  <2>2. CASE ~(i <= m)
    <3>1. i - m \in DOMAIN t /\ u[i] = t[i - m] /\ i \in Nat
      BY <1>1, <1>2, <2>2
    <3>2. t[i - m] = (k + m) + (i - m)
      BY <3>1 DEF InTurn
    <3> HIDE DEF u, m
    <3> QED
      BY <1>1, <3>1, <3>2
  <2> QED
    BY <2>1, <2>2
<1> QED
  BY <1>3 DEF InTurn

(* The first n of them, and the rest.                                      *)
LEMMA InTurnParts ==
    ASSUME NEW s \in Seq(Byte), NEW k \in Nat, InTurn(s, k), NEW n \in 0 .. Len(s)
    PROVE  /\ SubSeq(s, 1, n) = [i \in 1 .. n |-> k + i]
           /\ InTurn(SubSeq(s, n + 1, Len(s)), k + n)
<1>1. DOMAIN s = 1 .. Len(s) /\ Len(s) \in Nat /\ n \in Nat
  OBVIOUS
<1>2. \A i \in 1 .. n : s[i] = k + i
  BY <1>1 DEF InTurn
<1>3. SubSeq(s, 1, n) = [i \in 1 .. n |-> s[i]]
  BY <1>1
<1> DEFINE t == SubSeq(s, n + 1, Len(s))
<1>4. ASSUME NEW i \in DOMAIN t PROVE t[i] = (k + n) + i
  <2>1. i \in 1 .. (Len(s) - n) /\ t[i] = s[n + i] /\ n + i \in DOMAIN s
    BY <1>1
  <2>2. s[n + i] = k + (n + i)
    BY <2>1 DEF InTurn
  <2> HIDE DEF t
  <2> QED
    BY <1>1, <2>1, <2>2
<1> QED
  BY <1>2, <1>3, <1>4 DEF InTurn

(* hh(): the bytes of the message are the next ones.                       *)
LEMMA DataArrivesPipe ==
    ASSUME OnePair, FlowInv, PipeInv, DataArrives
    PROVE  PipeInv' /\ PipeStep
<1> DEFINE m == net.data[1]
<1>1. /\ TypeOK /\ NumbersOK /\ MessageInv /\ PlaceInv
      /\ OrderInv /\ DueInv /\ SenderInv /\ HeardInv /\ FitInv /\ EndInv /\ ReaderInv
  BY Parts DEF PipeInv
<1>2. /\ data # <<>> /\ answers = <<>> /\ data[1] = m
      /\ m \in Seq(Byte) /\ Head(net.data) = m /\ Tail(net.data) = <<>> /\ inData = Len(m)
  BY <1>1, OneData DEF DataArrives, data
<1> HIDE DEF m
<1>3. net' = [net EXCEPT !.data = <<>>, !.dans = <<"rfnm">>]
  <2>1. Append(<< >>, "rfnm") = <<"rfnm">>
    OBVIOUS
  <2> QED
    BY <1>2, <2>1 DEF DataArrives, answers
<1>4. net'.data = <<>> /\ net'.dans = <<"rfnm">> /\ net'.ctl = net.ctl
  BY <1>1, <1>3 DEF TypeOK, Net
<1>5. data' = <<>> /\ answers' = <<"rfnm">> /\ allBytes' = allBytes
  BY <1>4 DEF data, answers, allBytes
<1>6. SamePlaces /\ R'.cnt = R.cnt
  BY <1>1, Woken, WokenReader, Unmoved DEF DataArrives, R
<1>7. UNCHANGED <<w, con>>
  BY DEF DataArrives
<1>8. wBytes' = wBytes /\ sent' = sent /\ offered' = offered /\ taken' = taken /\ pending' = pending
  BY <1>6, <1>7 DEF wBytes, sent, offered, taken, pending, SamePlaces
<1>9. r'.open = r.open /\ r'.link = r.link /\ rBytes' = rBytes
  BY <1>1 DEF DataArrives, TypeOK, RdSkt, rBytes
<1>10. /\ due' = IF r.link THEN due + inData ELSE due
       /\ r'.q = IF r.link THEN r.q \o m ELSE r.q
  BY <1>1, <1>2 DEF DataArrives, TypeOK, RdSkt, due
<1>11. queued' = (IF r.link THEN queued + inData ELSE queued) /\ r.q \in Seq(Byte)
  BY <1>1, <1>2, <1>10, Types DEF queued
<1>12. OrderInv'
  <2>1. InTurn(r'.q, taken)
    <3>1. CASE r.link
      <4>1. InTurn(r.q, taken) /\ InTurn(m, taken + Len(r.q)) /\ taken \in Nat
        BY <1>1, <1>2, <3>1 DEF OrderInv, rcvd, queued, NumbersOK
      <4>2. InTurn(r.q \o m, taken)
        BY <1>2, <1>11, <4>1, InTurnConcat
      <4> QED
        BY <1>10, <3>1, <4>2
    <3>2. CASE ~r.link
      BY <1>1, <1>10, <3>2 DEF OrderInv
    <3> QED
      BY <3>1, <3>2
  <2> QED
    BY <1>1, <1>5, <1>7, <1>8, <2>1 DEF OrderInv
<1>13. DueInv'
  <2>1. due = queued + held
    BY <1>1 DEF DueInv
  <2>2. due + inData = (queued + inData) + held
    BY <1>1, <2>1 DEF NumbersOK
  <2> QED
    BY <1>6, <1>10, <1>11, <2>1, <2>2 DEF DueInv, SamePlaces
<1>14. SenderInv'
  BY <1>1, <1>6, <1>7, <1>8 DEF SenderInv, SamePlaces
<1>15. HeardInv'
  <2> SUFFICES ASSUME r'.link, w'.link PROVE Del' /\ rcvd' = sent'
    BY DEF HeardInv
  <2>1. r.link /\ w.link
    BY <1>7, <1>9
  <2>2. place = "rfnm" /\ inData = amount /\ wFlags = {}
    BY <1>1, <1>2, <2>1 DEF MessageInv
  <2>3. ~Del /\ Del'
    <3>1. << >> # <<"rfnm">>
      OBVIOUS
    <3> QED
      BY <1>2, <1>5, <1>6, <2>2, <3>1 DEF Del, SamePlaces
  <2>4. rcvd = base /\ sent = base + amount
    BY <1>1, <2>1, <2>2, <2>3 DEF HeardInv, PlaceInv
  <2>5. taken + (queued + inData) = sent
    BY <1>1, <2>2, <2>4 DEF rcvd, NumbersOK
  <2> QED
    BY <1>8, <1>11, <2>1, <2>3, <2>5 DEF rcvd
<1>16. FitInv'
  BY <1>1, <1>5, <1>7, <1>8, <1>9 DEF FitInv
<1>17. EndInv'
  BY <1>1, <1>2, <1>7, <1>9 DEF EndInv
<1>18. ReaderInv'
  BY <1>1, <1>6, <1>9 DEF ReaderInv, SamePlaces
<1>19. PipeStep
  BY <1>7, PipeStutter
<1> QED
  BY <1>12, <1>13, <1>14, <1>15, <1>16, <1>17, <1>18, <1>19 DEF PipeInv

(* netwrite() sends the same bytes again.                                  *)
LEMMA RetryPipe ==
    ASSUME OnePair, FlowInv, PipeInv, Retry(wr)
    PROVE  PipeInv' /\ PipeStep
<1>1. /\ TypeOK /\ NumbersOK /\ MessageInv /\ PlaceInv
      /\ OrderInv /\ DueInv /\ SenderInv /\ HeardInv /\ FitInv /\ EndInv /\ ReaderInv
  BY Parts DEF PipeInv
<1>2. /\ place = "rfnm" /\ "xmterr" \in wFlags
      /\ w' = [w EXCEPT !.flags = {}]
      /\ net' = IF w.link THEN [net EXCEPT !.data = Append(@, [i \in 1 .. amount |-> base + i])] ELSE net
      /\ pr' = [pr EXCEPT ![wr].run = FALSE]
      /\ UNCHANGED <<r, hmap, drfnm, con>>
  BY DEF Retry, Runs, Failed, SndData, place, amount, base, W, wFlags
<1>3. wBytes' = wBytes /\ wFlags' = {} /\ w'.link = w.link
  BY <1>1, <1>2 DEF TypeOK, WrtSkt, wBytes, wFlags
<1> DEFINE c == [pr[wr] EXCEPT !.run = FALSE]
<1>4. pr[wr] \in Process /\ pr' = [pr EXCEPT ![wr] = c] /\ pr'[rd] = pr[rd]
  BY <1>1, <1>2, Pair, ProcTypes DEF TypeOK
<1>5. c \in Process /\ c.at = place /\ c.cnt = count /\ c.base = base /\ c.n = amount
  BY <1>4 DEF Process, place, count, base, amount, W
<1> HIDE DEF c
<1>6. /\ place' = place /\ count' = count /\ base' = base /\ amount' = amount
      /\ held' = held /\ R'.at = R.at /\ R'.cnt = R.cnt
  BY <1>1, <1>4, <1>5, WriterMoves DEF R
<1>7. KeptR /\ r'.link = r.link /\ r'.open = r.open /\ KeptCon
  BY <1>2, Kept
<1>8. rcvd' = rcvd /\ pending' = pending
  BY <1>6, <1>7 DEF rcvd, pending, KeptR, KeptCon
<1>9. PipeStep
  BY <1>2, PipeStutter
<1>10. DueInv' /\ SenderInv' /\ ReaderInv'
  BY <1>1, <1>3, <1>6, <1>7 DEF DueInv, SenderInv, ReaderInv, KeptR, KeptCon
<1>11. CASE ~w.link
  <2>1. net' = net
    BY <1>2, <1>11
  <2>2. OrderInv' /\ HeardInv' /\ FitInv' /\ EndInv'
    BY <1>1, <1>2, <1>3, <1>7, <1>8, <1>11, <2>1 DEF OrderInv, HeardInv, FitInv, EndInv, data, KeptR, KeptCon
  <2> QED
    BY <1>9, <1>10, <2>2 DEF PipeInv
<1>12. CASE w.link
  <2>1. data = <<>> /\ answers = <<>> /\ ~Del
    BY <1>1, <1>2, <1>12 DEF MessageInv, Del
  <2>2. amount \in Nat \ {0} /\ base + amount <= MaxBytes /\ base \in 0 .. MaxBytes
    BY <1>1, <1>2 DEF PlaceInv, NumbersOK
  <2>3. PICK d : /\ d \in Seq(Seq(Byte)) /\ d # <<>>
                 /\ Append(<< >>, [i \in 1 .. amount |-> base + i]) = d
                 /\ d[1] = [i \in 1 .. amount |-> base + i]
    BY <2>2, NewMessage
  <2>4. net' = [net EXCEPT !.data = d]
    BY <1>2, <1>12, <2>1, <2>3 DEF data
  <2>5. data' = d /\ answers' = <<>> /\ allBytes' = allBytes
    BY <1>1, <2>1, <2>4 DEF TypeOK, Net, data, answers, allBytes
  <2>6. ~Del'
    <3>1. << >> # <<"rfnm">>
      OBVIOUS
    <3> QED
      BY <1>3, <2>5, <3>1 DEF Del
  <2>7. r.link => rcvd = base
    BY <1>1, <1>2, <1>12, <2>1 DEF HeardInv
  <2>8. InTurn(d[1], base)
    BY <2>3 DEF InTurn
  <2>9. OrderInv'
    BY <1>1, <1>2, <1>7, <1>8, <2>5, <2>7, <2>8 DEF OrderInv, KeptCon
  <2>10. HeardInv' /\ FitInv'
    BY <1>1, <1>2, <1>3, <1>6, <1>7, <1>8, <1>12, <2>1, <2>5, <2>6, <2>7 DEF HeardInv, FitInv, KeptR, KeptCon
  <2>11. EndInv'
    BY <1>1, <1>2, <1>3, <1>7, <1>12 DEF EndInv
  <2> QED
    BY <1>9, <1>10, <2>9, <2>10, <2>11 DEF PipeInv
<1> QED
  BY <1>11, <1>12

-----------------------------------------------------------------------------
(* What the writer knows when he has no message out, and the pipe of him:  *)
(* his next byte is the first that was not sent, and all that was sent has *)
(* been received.                                                          *)
Caught(ws) ==
    /\ r.link => rcvd = sent
    /\ ws.falloc + allBytes + sent <= rBytes + taken

(* What a step of the writer leaves of the connection.                     *)
SameEnds(k) ==
    /\ k.sent = con.sent /\ k.out = con.out /\ k.killed = con.killed
    /\ k.closed = con.closed /\ k.eof = con.eof

(* netwrite() fails, ends, or sleeps for an allocation.                    *)
LEMMA WriterRestsPipe ==
    ASSUME OnePair, FlowInv, PipeInv,
           NEW c \in Process, NEW ws \in WrtSkt, NEW k \in Connection,
           ws.link = w.link, SameEnds(k),
           pr' = [pr EXCEPT ![wr] = c], w' = ws, con' = k, UNCHANGED <<r, net>>,
           w.link => /\ c.at \in {"idle", "alloc"} /\ Caught(ws)
                     /\ c.at = "idle" => k.offered = sent
                     /\ c.at = "alloc" => c.base = sent /\ c.base + c.cnt = k.offered
    PROVE  PipeInv' /\ PipeStep
<1>1. /\ TypeOK /\ NumbersOK
      /\ OrderInv /\ DueInv /\ EndInv /\ ReaderInv
  BY Parts DEF PipeInv
<1>2. /\ place' = c.at /\ count' = c.cnt /\ base' = c.base
      /\ held' = held /\ R'.at = R.at
  BY <1>1, WriterMoves
<1>3. R'.cnt = R.cnt
  <2>1. pr'[rd] = pr[rd]
    BY <1>1, Pair DEF TypeOK
  <2> QED
    BY <2>1 DEF R
<1>4. sent' = sent /\ taken' = taken /\ offered' = k.offered
  BY DEF SameEnds, sent, taken, offered
<1>5. KeptR /\ data' = data /\ allBytes' = allBytes
  BY Kept DEF KeptNet
<1>6. rcvd' = rcvd
  BY <1>4, <1>5 DEF rcvd, KeptR
<1>7. OrderInv' /\ DueInv' /\ ReaderInv'
  BY <1>1, <1>2, <1>3, <1>4, <1>5, <1>6 DEF OrderInv, DueInv, ReaderInv, KeptR, SameEnds
<1>8. SenderInv'
  BY <1>2, <1>4 DEF SenderInv
<1>9. HeardInv'
  BY <1>2, <1>4, <1>6 DEF HeardInv, Caught
<1>10. FitInv'
  <2> SUFFICES ASSUME w.link PROVE wBytes' + allBytes' + sent' <= rBytes' + taken' + pending'
    BY DEF FitInv
  <2>1. place' # "rfnm"
    BY <1>2
  <2>2. pending' = 0 /\ wBytes' = ws.falloc
    BY <2>1 DEF pending, wBytes
  <2>3. ws.falloc + allBytes + sent <= rBytes + taken + 0
    BY <1>1 DEF Caught, NumbersOK
  <2> QED
    BY <1>4, <1>5, <2>2, <2>3 DEF KeptR
<1>11. EndInv'
  BY <1>1, <1>4, <1>5, <1>6 DEF EndInv, SameEnds
<1>12. PipeStep
  BY PipeStutter DEF SameEnds
<1> QED
  BY <1>7, <1>8, <1>9, <1>10, <1>11, <1>12 DEF PipeInv

(* The loop of netwrite(): the bytes that it sends are the next to go into *)
(* the pipe, and there is room for them.                                   *)
LEMMA WriteLoopPipe ==
    ASSUME OnePair, FlowInv, PipeInv, NEW c, NEW ws, NEW k,
           Ready(c, ws, k), SameEnds(k),
           w.link => Caught(ws) /\ c.base = sent /\ c.base + c.cnt = k.offered,
           WriteLoop(wr, c, ws, k)
    PROVE  PipeInv' /\ PipeStep
<1> DEFINE n == Smaller(anyalloc(ws), c.cnt)
<1>1. /\ TypeOK /\ NumbersOK /\ LinkInv /\ CountInv /\ RoomInv
      /\ OrderInv /\ DueInv /\ EndInv /\ ReaderInv
  BY Parts DEF PipeInv
<1>2. w' = ws /\ UNCHANGED <<r, hmap, drfnm>> /\ KeptR
  BY Kept DEF WriteLoop
<1>3. /\ ws \in WrtSkt /\ ws.link = w.link /\ ws.open = w.open
      /\ c \in Process /\ k \in Connection /\ k.sent = con.sent
  BY DEF Ready
<1>4. Idle \in Process /\ Idle.at = "idle"
  BY NcpFlowAssumption DEF Idle, Process
<1>5. CASE ~ws.open
  <2>1. pr' = [pr EXCEPT ![wr] = Idle] /\ con' = k /\ net' = net
    BY <1>5 DEF WriteLoop
  <2>2. ~w.link
    BY <1>1, <1>3, <1>5 DEF LinkInv
  <2> QED
    BY <1>2, <1>3, <1>4, <2>1, <2>2, WriterRestsPipe
<1>6. CASE ws.open /\ n = 0
  <2>1. pr' = [pr EXCEPT ![wr] = Asleep(c, "alloc")] /\ con' = k /\ net' = net
    BY <1>6 DEF WriteLoop
  <2> DEFINE c1 == Asleep(c, "alloc")
  <2>2. c1 \in Process /\ c1.at = "alloc" /\ c1.cnt = c.cnt /\ c1.base = c.base
    BY <1>3 DEF Asleep, Process
  <2> HIDE DEF c1
  <2>3. pr' = [pr EXCEPT ![wr] = c1]
    BY <2>1 DEF c1
  <2> QED
    BY <1>2, <1>3, <2>1, <2>2, <2>3, WriterRestsPipe
<1>7. CASE ws.open /\ n # 0
  <2>1. /\ net' = IF w.link THEN [net EXCEPT !.data = Append(@, [i \in 1 .. n |-> c.base + i])] ELSE net
        /\ pr' = [pr EXCEPT ![wr] = [c EXCEPT !.at = "rfnm", !.n = n, !.run = (ws.flags # {})]]
        /\ con' = [k EXCEPT !.sent = Larger(@, c.base + n)]
    BY <1>7 DEF WriteLoop, SndData
  <2>2. w.link /\ w'.link
    BY <1>1, <1>2, <1>3, <1>7 DEF LinkInv
  <2>3. /\ ws.flags = {} /\ data = <<>> /\ answers = <<>> /\ ws.msgs >= 0 /\ ws.falloc >= 0
        /\ c.base = sent /\ c.base + c.cnt = k.offered /\ Caught(ws)
    BY <2>2 DEF Ready
  <2>4. /\ c.cnt \in 0 .. MaxCount /\ c.base \in 0 .. MaxBytes /\ k.offered \in 0 .. MaxBytes
        /\ ws.falloc \in Int /\ MaxCount \in Nat /\ MaxBytes \in Nat
    BY <1>1, <1>3 DEF Process, Connection, WrtSkt, NumbersOK
  <2>5. n \in Nat \ {0} /\ n <= c.cnt /\ n <= ws.falloc
    <3>1. c.cnt \in Nat /\ MaxMsg \in Nat
      BY <2>4, Pair
    <3>2. n \in Nat /\ n <= c.cnt /\ n <= ws.falloc
      BY <1>3, <2>3, <3>1, Permitted
    <3> QED
      BY <1>7, <3>2
  <2> HIDE DEF n
  <2>6. sent + n \in 0 .. MaxBytes /\ c.base + n = sent + n /\ n \in 0 .. MaxCount
    <3>1. sent \in Nat /\ sent + n <= k.offered /\ n <= MaxCount
      <4>1. sent \in Nat
        BY <1>1 DEF NumbersOK
      <4>2. sent + n <= sent + c.cnt
        BY <2>4, <2>5, <4>1
      <4> QED
        BY <2>3, <2>4, <2>5, <4>1, <4>2
    <3>2. sent + n \in Nat /\ sent + n <= MaxBytes
      BY <2>4, <2>5, <3>1
    <3> QED
      BY <2>3, <2>4, <2>5, <3>1, <3>2
  <2>7. Larger(k.sent, c.base + n) = sent + n
    <3>1. sent \in Nat /\ n \in Nat /\ sent + n >= sent
      BY <1>1, <2>5 DEF NumbersOK
    <3> QED
      BY <1>3, <2>6, <3>1 DEF Larger, sent
  <2> DEFINE c1 == [c EXCEPT !.at = "rfnm", !.n = n, !.run = (ws.flags # {})]
  <2>8. c1 \in Process /\ c1.at = "rfnm" /\ c1.cnt = c.cnt /\ c1.base = c.base /\ c1.n = n
    BY <1>3, <2>6 DEF Process
  <2> HIDE DEF c1
  <2>9. pr' = [pr EXCEPT ![wr] = c1]
    BY <2>1 DEF c1
  <2>10. /\ place' = "rfnm" /\ count' = c.cnt /\ base' = c.base
         /\ amount' = n /\ held' = held /\ R'.at = R.at /\ R'.cnt = R.cnt
    <3>1. pr'[rd] = pr[rd]
      BY <1>1, <2>9, Pair DEF TypeOK
    <3> QED
      BY <1>1, <2>8, <2>9, <3>1, WriterMoves DEF R
  <2>11. /\ con'.sent = sent + n /\ con'.out = con.out /\ con'.closed = con.closed
         /\ con'.killed = con.killed /\ con'.eof = con.eof /\ con'.offered = k.offered
    <3>1. con' = [k EXCEPT !.sent = sent + n]
      BY <2>1, <2>7
    <3> QED
      BY <1>3, <3>1 DEF Connection, SameEnds
  <2>12. PICK d : /\ d \in Seq(Seq(Byte)) /\ d # <<>>
                  /\ Append(<< >>, [i \in 1 .. n |-> c.base + i]) = d
                  /\ d[1] = [i \in 1 .. n |-> c.base + i]
    <3>1. c.base \in 0 .. MaxBytes /\ n \in Nat \ {0} /\ c.base + n <= MaxBytes
      BY <2>4, <2>5, <2>6
    <3> QED
      BY <3>1, NewMessage
  <2>13. net' = [net EXCEPT !.data = d]
    BY <2>1, <2>2, <2>3, <2>12 DEF data
  <2>14. data' = d /\ answers' = <<>> /\ allBytes' = allBytes
    BY <1>1, <2>3, <2>13 DEF TypeOK, Net, data, answers, allBytes
  <2>15. sent' = sent + n /\ taken' = taken /\ offered' = k.offered /\ rcvd' = rcvd /\ pending' = n
    BY <1>2, <2>10, <2>11 DEF sent, taken, offered, rcvd, KeptR, pending
  <2>16. ~Del'
    <3>1. << >> # <<"rfnm">>
      OBVIOUS
    <3> QED
      BY <1>2, <2>3, <2>14, <3>1 DEF Del, wFlags
  <2>17. OrderInv'
    <3>1. InTurn(d[1], sent)
      BY <2>3, <2>12 DEF InTurn
    <3> QED
      BY <1>1, <1>2, <2>3, <2>11, <2>14, <2>15, <3>1 DEF OrderInv, Caught
  <2>18. DueInv' /\ SenderInv' /\ HeardInv' /\ ReaderInv'
    BY <1>1, <1>2, <2>3, <2>10, <2>15, <2>16 DEF DueInv, SenderInv, HeardInv, ReaderInv, KeptR, Caught
  <2>19. FitInv'
    <3>1. wBytes' = ws.falloc
      BY <1>2 DEF wBytes
    <3>2. ws.falloc + allBytes + (sent + n) <= rBytes + taken + n
      BY <1>1, <2>3, <2>4, <2>5, SMTT(30) DEF Caught, NumbersOK
    <3> QED
      BY <1>2, <2>14, <2>15, <3>1, <3>2 DEF FitInv, KeptR
  <2>20. EndInv'
    BY <1>1, <1>2, <2>2, <2>11 DEF EndInv
  <2>21. PipeStep
    <3>1. ~con.closed
      BY <1>1, <2>2 DEF EndInv
    <3>2. n + sent <= HiWat + taken /\ taken <= sent
      BY <1>1, <2>3, <2>4, <2>5 DEF Caught, RoomInv, CountInv, NumbersOK
    <3>3. n \in 1 .. Room /\ sent + n - taken <= Room
      BY <1>1, <2>5, <3>2, Pair DEF NumbersOK
    <3>4. Pipe!Put(n)
      BY <2>11, <3>1, <3>3 DEF Pipe!Put, sent, taken
    <3> QED
      BY <3>3, <3>4 DEF PipeStep, Pipe!Next
  <2> QED
    BY <2>17, <2>18, <2>19, <2>20, <2>21 DEF PipeInv
<1> QED
  BY <1>5, <1>6, <1>7

(* netwrite() starts from where all that was sent has arrived.             *)
LEMMA NetwriteBeginPipe ==
    ASSUME OnePair, FlowInv, PipeInv, NEW n \in 1 .. MaxCount, NetwriteBegin(wr, n)
    PROVE  PipeInv' /\ PipeStep
<1>1. NumbersOK /\ SenderInv /\ HeardInv /\ FitInv
  BY Parts DEF PipeInv
<1>2. /\ Ready(First(n), w, Offer(n)) /\ WriteLoop(wr, First(n), w, Offer(n))
      /\ First(n).base = offered /\ First(n).cnt = n /\ Offer(n).offered = offered + n
      /\ SameEnds(Offer(n)) /\ place = "idle"
  BY BeginReady DEF SameEnds
<1>3. w.link => Caught(w) /\ sent = offered
  <2>1. pending = 0
    BY <1>2 DEF pending
  <2>2. w.link => wBytes + allBytes + sent <= rBytes + taken + 0
    BY <1>1, <2>1 DEF FitInv
  <2>3. rBytes + taken + 0 = rBytes + taken
    BY <1>1 DEF NumbersOK
  <2> QED
    BY <1>1, <1>2, <2>2, <2>3 DEF SenderInv, HeardInv, Caught, wBytes
<1> QED
  BY <1>2, <1>3, WriteLoopPipe

(* netwrite() is woken.                                                    *)
LEMMA NetwritePipe ==
    ASSUME OnePair, FlowInv, PipeInv, Netwrite(wr)
    PROVE  PipeInv' /\ PipeStep
<1>1. NumbersOK /\ SenderInv /\ HeardInv /\ FitInv /\ PlaceInv /\ TypeOK
  BY Parts DEF PipeInv
<1>2. SameEnds(con)
  BY DEF SameEnds
<1>3. CASE AllocWoken(wr)
  <2>1. place = "alloc" /\ Ready(W, w, con) /\ WriteLoop(wr, W, w, con)
    BY <1>3, AllocReady
  <2>2. pending = 0
    BY <2>1 DEF pending
  <2>3. w.link => wBytes + allBytes + sent <= rBytes + taken + 0
    BY <1>1, <2>2 DEF FitInv
  <2>4. rBytes + taken + 0 = rBytes + taken
    BY <1>1 DEF NumbersOK
  <2>5. w.link => Caught(w) /\ W.base = sent /\ W.base + W.cnt = con.offered
    BY <1>1, <2>1, <2>3, <2>4 DEF SenderInv, HeardInv, Caught, wBytes, base, count, offered
  <2> QED
    BY <1>2, <2>1, <2>5, WriteLoopPipe
<1>4. CASE RfnmSleep(wr)
  BY <1>4, RestPipe
<1>5. CASE Retry(wr)
  BY <1>5, RetryPipe
<1>6. CASE SendDone(wr)
  <2>1. /\ Ready(Rest, Settled, con)
        /\ Rest.cnt = count - amount /\ Rest.base = base + amount
        /\ Settled.falloc = wBytes - amount
        /\ place = "rfnm" /\ (w.link => Del)
        /\ \/ /\ count = amount /\ w' = Settled /\ pr' = [pr EXCEPT ![wr] = Idle]
              /\ UNCHANGED <<r, hmap, drfnm, net, con>>
           \/ count # amount /\ WriteLoop(wr, Rest, Settled, con)
    BY <1>6, DoneReady
  <2>2. sent = base + amount /\ (w.link => base + count = offered)
    BY <1>1, <2>1 DEF PlaceInv, SenderInv
  <2>3. w.link => Caught(Settled)
    <3>1. pending = amount
      BY <2>1 DEF pending
    <3>2. w.link => wBytes + allBytes + sent <= rBytes + taken + amount
      BY <1>1, <3>1 DEF FitInv
    <3>3. w.link => (wBytes - amount) + allBytes + sent <= rBytes + taken
      BY <1>1, <3>2 DEF NumbersOK
    <3> QED
      BY <1>1, <2>1, <3>3 DEF HeardInv, Caught
  <2>4. w.link => Rest.base = sent /\ Rest.base + Rest.cnt = con.offered
    <3>1. w.link => (base + amount) + (count - amount) = offered
      BY <1>1, <2>2 DEF NumbersOK
    <3> QED
      BY <2>1, <2>2, <3>1 DEF offered
  <2>5. CASE count # amount /\ WriteLoop(wr, Rest, Settled, con)
    BY <1>2, <2>1, <2>3, <2>4, <2>5, WriteLoopPipe
  <2>6. CASE /\ count = amount /\ w' = Settled /\ pr' = [pr EXCEPT ![wr] = Idle]
             /\ UNCHANGED <<r, hmap, drfnm, net, con>>
    <3>1. Idle \in Process /\ Idle.at = "idle" /\ con \in Connection
      BY <1>1, NcpFlowAssumption DEF Idle, Process, TypeOK
    <3>2. Settled \in WrtSkt /\ Settled.link = w.link
      BY <2>1 DEF Ready
    <3>3. w.link => con.offered = sent
      BY <2>2, <2>6 DEF offered
    <3> QED
      BY <1>2, <2>3, <2>6, <3>1, <3>2, <3>3, WriterRestsPipe
  <2> QED
    BY <2>1, <2>5, <2>6
<1> QED
  BY <1>3, <1>4, <1>5, <1>6 DEF Netwrite

-----------------------------------------------------------------------------
(* netread() takes n bytes: the rest of the queue follows on them.         *)
LEMMA TookPipe ==
    ASSUME OnePair, FlowInv, PipeInv, NEW n \in Nat, Took(n),
           InTurn(con'.out, 0), InTurn(r'.q, taken'),
           con'.sent = con.sent, con'.offered = con.offered,
           con'.closed = con.closed, con'.killed = con.killed
    PROVE  PipeInv'
<1>1. /\ TypeOK /\ NumbersOK /\ RoomInv
      /\ OrderInv /\ DueInv /\ SenderInv /\ HeardInv /\ FitInv /\ EndInv
  BY Parts DEF PipeInv
<1>2. /\ data' = data /\ answers' = answers /\ UNCHANGED w
      /\ place' = place /\ count' = count /\ base' = base /\ amount' = amount
      /\ R'.at \in {"idle", "chan"} /\ r'.open = r.open /\ r'.link = r.link
  BY DEF Took
<1>3. PICK u, g, h, m, b \in Nat, more \in BOOLEAN : Reads(n, u, g, h, more, m, b)
  BY DEF Took
<1>4. /\ n <= queued /\ u <= n /\ g + h = held + n
      /\ queued' = queued - n /\ taken' = taken + n /\ due' = due - g /\ held' = h
      /\ allBytes' = allBytes + b
  BY <1>3 DEF Reads
<1>5. sent' = sent /\ offered' = offered /\ wBytes' = wBytes /\ pending' = pending
  BY <1>2 DEF sent, offered, wBytes, pending
<1>6. rcvd' = rcvd
  <2>1. (taken + n) + (queued - n) = taken + queued
    BY <1>1 DEF NumbersOK
  <2> QED
    BY <1>4, <2>1 DEF rcvd
<1>7. OrderInv'
  BY <1>1, <1>2, <1>6 DEF OrderInv
<1>8. DueInv'
  <2>1. due - g = (queued - n) + h
    BY <1>1, <1>4 DEF DueInv, NumbersOK
  <2> QED
    BY <1>4, <2>1 DEF DueInv
<1>9. SenderInv' /\ HeardInv'
  BY <1>1, <1>2, <1>5, <1>6 DEF SenderInv, HeardInv, Del, wFlags
<1>10. FitInv'
  <2> SUFFICES ASSUME w.link PROVE wBytes' + allBytes' + sent' <= rBytes' + taken' + pending'
    BY <1>2 DEF FitInv
  <2>1. wBytes + allBytes + sent <= rBytes + taken + pending /\ pending \in Int
    BY <1>1 DEF FitInv, pending, NumbersOK
  <2>2. CASE ~more
    <3>1. b = 0 /\ rBytes' = rBytes - u
      BY <1>3, <2>2 DEF Reads
    <3>2. wBytes + (allBytes + b) + sent <= (rBytes - u) + (taken + n) + pending
      BY <1>1, <1>4, <2>1, <3>1 DEF NumbersOK
    <3> QED
      BY <1>4, <1>5, <3>1, <3>2
  <2>3. CASE more
    <3>1. rBytes' = HiWat /\ (b = HiWat - (rBytes - u) \/ b = 0)
      BY <1>3, <2>3 DEF Reads
    <3>2. wBytes + (allBytes + b) + sent <= HiWat + (taken + n) + pending
      BY <1>1, <1>4, <2>1, <3>1 DEF RoomInv, NumbersOK
    <3> QED
      BY <1>4, <1>5, <3>1, <3>2
  <2> QED
    BY <2>2, <2>3
<1>11. EndInv' /\ ReaderInv'
  BY <1>1, <1>2, <1>5, <1>6 DEF EndInv, ReaderInv
<1> QED
  BY <1>7, <1>8, <1>9, <1>10, <1>11 DEF PipeInv

(* The bytes that netread() gives its user are the next to come out.       *)
LEMMA TakePipe ==
    ASSUME OnePair, FlowInv, PipeInv, NEW c \in Process, NEW amt \in Nat \ {0},
           amt <= MaxCount, amt <= due, held = 0, Take(rd, c, amt), UNCHANGED <<w, drfnm>>
    PROVE  PipeInv' /\ PipeStep
<1> DEFINE n == Smaller(amt, Len(r.q))
<1>1. TypeOK /\ NumbersOK /\ RoomInv /\ CountInv /\ OrderInv /\ DueInv
  BY Parts DEF PipeInv
<1>2. n = amt /\ n \in 1 .. queued
  <2>1. due = queued + 0
    BY <1>1 DEF DueInv
  <2>2. amt <= queued /\ queued \in Nat
    BY <1>1, <2>1 DEF NumbersOK
  <2> QED
    BY <2>2 DEF Smaller, queued
<1>3. Took(n)
  BY TakeInv
<1>4. con' = [con EXCEPT !.out = @ \o SubSeq(r.q, 1, n), !.eof = @ \/ n = 0]
  BY DEF Take
<1>5. r'.q = SubSeq(r.q, n + 1, Len(r.q))
  BY <1>1 DEF Take, SendAll, TypeOK, RdSkt
<1> HIDE DEF n
<1>6. /\ r.q \in Seq(Byte) /\ con.out \in Seq(Byte) /\ con \in Connection /\ con.eof \in BOOLEAN
      /\ taken \in Nat /\ n \in 0 .. Len(r.q) /\ n \in Nat
  BY <1>1, <1>2, Types DEF TypeOK, NumbersOK, queued
<1>7. /\ SubSeq(r.q, 1, n) = [i \in 1 .. n |-> taken + i]
      /\ InTurn(SubSeq(r.q, n + 1, Len(r.q)), taken + n)
  BY <1>1, <1>6, InTurnParts DEF OrderInv
<1>8. /\ con'.out = con.out \o [i \in 1 .. n |-> taken + i]
      /\ con'.eof = con.eof /\ con'.sent = con.sent /\ con'.offered = con.offered
      /\ con'.closed = con.closed /\ con'.killed = con.killed
  <2>1. n # 0
    BY <1>2
  <2> QED
    BY <1>4, <1>6, <1>7, <2>1 DEF Connection
<1>9. taken' = taken + n
  <2>1. \E u, g, h, m, b \in Nat, more \in BOOLEAN : Reads(n, u, g, h, more, m, b)
    BY <1>3 DEF Took
  <2> QED
    BY <2>1 DEF Reads
<1>10. InTurn(con'.out, 0)
  <2> DEFINE t == [i \in 1 .. n |-> taken + i]
  <2>1. t \in Seq(Byte)
    <3>1. SubSeq(r.q, 1, n) \in Seq(Byte)
      BY <1>6
    <3> QED
      BY <1>7, <3>1
  <2>2. InTurn(t, 0 + Len(con.out))
    BY <1>6 DEF InTurn, taken
  <2> HIDE DEF t
  <2>3. InTurn(con.out \o t, 0)
    BY <1>1, <1>6, <2>1, <2>2, InTurnConcat DEF OrderInv
  <2> QED
    BY <1>8, <2>3 DEF t
<1>11. PipeInv'
  BY <1>3, <1>5, <1>6, <1>7, <1>8, <1>9, <1>10, TookPipe
<1>12. n \in 1 .. Room
  BY <1>1, <1>2, Pair DEF RoomInv, NumbersOK
<1>13. taken + n <= sent
  BY <1>1, <1>2 DEF CountInv, NumbersOK
<1>14. Pipe!Get(n)
  BY <1>8, <1>13 DEF Pipe!Get, taken, sent
<1> QED
  BY <1>11, <1>12, <1>14 DEF PipeStep, Pipe!Next

(* The reader sleeps, or is told that it is at the end: then nothing is    *)
(* left, or the connection broke.                                          *)
LEMMA ReaderRestsPipe ==
    ASSUME OnePair, FlowInv, PipeInv, held = 0, NEW c \in Process, NEW e \in BOOLEAN,
           c.at \in {"idle", "data", "lbolt"}, c.at # "idle" => c.cnt >= 1,
           c.at = "lbolt" => ~r.open, e # con.eof => e /\ ~r.open /\ due = 0,
           pr' = [pr EXCEPT ![rd] = c], con' = [con EXCEPT !.eof = e],
           UNCHANGED <<w, r, hmap, drfnm, net>>
    PROVE  PipeInv' /\ PipeStep
<1>1. TypeOK /\ NumbersOK /\ DueInv /\ EndInv
  BY Parts DEF PipeInv
<1>2. Quiet
  BY ReaderRestsInv
<1>3. /\ place' = place /\ count' = count /\ base' = base /\ amount' = amount
      /\ R'.at = c.at /\ held' = 0
  BY <1>1, ReaderMoves
<1>4. R'.cnt = c.cnt
  <2>1. pr'[rd] = c
    BY <1>1, Pair DEF TypeOK
  <2> QED
    BY <2>1 DEF R
<1>5. /\ con'.sent = con.sent /\ con'.out = con.out /\ con'.closed = con.closed
      /\ con'.killed = con.killed /\ con'.offered = con.offered /\ con'.eof = e
  BY <1>1 DEF TypeOK, Connection
<1>6. Still
  BY <1>1, <1>2, <1>3, <1>5, QuietStill DEF data, offered
<1>7. EndInv' /\ ReaderInv'
  BY <1>1, <1>3, <1>4, <1>5, <1>6, EndsKept DEF ReaderInv
<1>8. PipeStep
  <2>1. CASE e = con.eof
    BY <1>5, <2>1, PipeStutter
  <2>2. CASE e # con.eof
    <3>1. con.killed \/ (con.closed /\ taken = sent)
      <4>1. con.killed \/ (con.closed /\ rcvd = sent)
        BY <1>1, <2>2 DEF EndInv
      <4>2. queued = 0
        BY <1>1, <2>2 DEF DueInv, NumbersOK
      <4>3. rcvd = taken
        BY <1>1, <4>2 DEF rcvd, NumbersOK
      <4> QED
        BY <4>1, <4>3
    <3>2. con'.eof = TRUE
      BY <1>5, <2>2
    <3>3. Pipe!End
      BY <1>5, <3>1, <3>2 DEF Pipe!End, taken, sent
    <3> QED
      BY <3>3 DEF PipeStep, Pipe!Next
  <2> QED
    BY <2>1, <2>2
<1> QED
  BY <1>6, <1>7, <1>8, StillInv

(* The loop of netread().                                                  *)
LEMMA ReadLoopPipe ==
    ASSUME OnePair, FlowInv, PipeInv, NEW c \in Process, c.cnt >= 1, held = 0, ReadLoop(rd, c)
    PROVE  PipeInv' /\ PipeStep
<1> DEFINE amt == Smaller(r.qtotal, c.cnt)
<1>1. TypeOK /\ NumbersOK
  BY Parts
<1>2. /\ c.cnt \in 0 .. MaxCount /\ MaxCount \in Nat /\ due \in Nat /\ r.qtotal = due
  BY <1>1, Pair DEF Process, NumbersOK, due
<1>3. amt \in Nat /\ amt <= MaxCount /\ amt <= due /\ (amt = 0 => due = 0)
  BY <1>2 DEF Smaller
<1>4. UNCHANGED <<w, drfnm>>
  BY DEF ReadLoop
<1>5. CASE amt # 0
  <2>1. Take(rd, c, amt)
    BY <1>5 DEF ReadLoop
  <2> HIDE DEF amt
  <2> QED
    BY <1>3, <1>4, <1>5, <2>1, TakePipe
<1>6. CASE amt = 0
  <2> DEFINE c1 == IF r.open THEN Asleep(c, "data") ELSE IF c.tried THEN Idle ELSE Asleep(c, "lbolt")
             e == con.eof \/ (~r.open /\ c.tried)
  <2>1. pr' = [pr EXCEPT ![rd] = c1] /\ con' = [con EXCEPT !.eof = e] /\ UNCHANGED <<r, hmap, net>>
    BY <1>6 DEF ReadLoop
  <2>2. Idle \in Process /\ Idle.at = "idle"
    BY NcpFlowAssumption DEF Idle, Process
  <2>3. /\ Asleep(c, "data") \in Process /\ Asleep(c, "data").at = "data"
        /\ Asleep(c, "data").cnt = c.cnt
    BY DEF Process, Asleep
  <2>4. /\ Asleep(c, "lbolt") \in Process /\ Asleep(c, "lbolt").at = "lbolt"
        /\ Asleep(c, "lbolt").cnt = c.cnt
    BY DEF Process, Asleep
  <2>5. con.eof \in BOOLEAN /\ r.open \in BOOLEAN /\ c.tried \in BOOLEAN
    BY <1>1, Types DEF Process
  <2>6. /\ c1 \in Process /\ c1.at \in {"idle", "data", "lbolt"}
        /\ c1.at # "idle" => c1.cnt >= 1
        /\ c1.at = "lbolt" => ~r.open
    BY <2>2, <2>3, <2>4
  <2>7. e \in BOOLEAN /\ (e # con.eof => e /\ ~r.open /\ due = 0)
    BY <1>3, <1>6, <2>5
  <2> HIDE DEF c1, e
  <2> QED
    BY <1>4, <2>1, <2>6, <2>7, ReaderRestsPipe
<1> QED
  BY <1>5, <1>6

(* netread() is called.                                                    *)
LEMMA NetreadBeginPipe ==
    ASSUME OnePair, FlowInv, PipeInv, NEW n \in 1 .. MaxCount, NetreadBegin(rd, n)
    PROVE  PipeInv' /\ PipeStep
<1>1. held = 0
  BY DEF NetreadBegin, held, R
<1>2. [Idle EXCEPT !.cnt = n] \in Process /\ [Idle EXCEPT !.cnt = n].cnt >= 1
  <2>1. Idle \in Process /\ n \in 0 .. MaxCount
    BY NcpFlowAssumption DEF Idle, Process
  <2> QED
    BY <2>1 DEF Process
<1> QED
  BY <1>1, <1>2, ReadLoopPipe DEF NetreadBegin

(* netread() is woken.                                                     *)
LEMMA NetreadPipe ==
    ASSUME OnePair, FlowInv, PipeInv, Netread(rd)
    PROVE  PipeInv' /\ PipeStep
<1>1. /\ R \in Process /\ TypeOK /\ NumbersOK
      /\ OrderInv /\ EndInv /\ ReaderInv
  BY Parts, Pair, ProcTypes DEF R, PipeInv
<1>2. CASE DataWoken(rd)
  <2>1. held = 0 /\ ReadLoop(rd, R) /\ R.cnt >= 1
    BY <1>1, <1>2 DEF DataWoken, Runs, held, R, ReaderInv
  <2> QED
    BY <1>1, <2>1, ReadLoopPipe
<1>3. CASE Lbolt(rd)
  <2>1. R.at = "lbolt" /\ held = 0 /\ R.cnt >= 1 /\ ~r.open
    BY <1>1, <1>3 DEF Lbolt, held, R, ReaderInv
  <2>2. CASE r.qtotal # 0
    <3> DEFINE c == [R EXCEPT !.tried = TRUE]
    <3>1. ReadLoop(rd, c) /\ c \in Process /\ c.cnt = R.cnt
      BY <1>1, <1>3, <2>2 DEF Lbolt, R, Process
    <3> HIDE DEF c
    <3> QED
      BY <2>1, <3>1, ReadLoopPipe
  <2>3. CASE r.qtotal = 0
    <3>1. /\ pr' = [pr EXCEPT ![rd] = Idle] /\ con' = [con EXCEPT !.eof = TRUE]
          /\ UNCHANGED <<w, r, hmap, drfnm, net>>
      BY <1>3, <2>3 DEF Lbolt
    <3>2. Idle \in Process /\ Idle.at = "idle"
      BY NcpFlowAssumption DEF Idle, Process
    <3> QED
      BY <2>1, <2>3, <3>1, <3>2, ReaderRestsPipe DEF due
  <2> QED
    BY <2>2, <2>3
<1>4. CASE ChanWoken(rd)
  <2>1. /\ UNCHANGED con /\ r'.q = r.q
        /\ (Quiet /\ SamePlaces /\ UNCHANGED <<w, r, net>>) \/ Took(0)
    BY <1>4, ChanWokenInv
  <2>2. PipeStep
    BY <2>1, PipeStutter
  <2>3. CASE Took(0)
    <3>1. taken' = taken
      BY <2>1 DEF taken
    <3>2. InTurn(con'.out, 0) /\ InTurn(r'.q, taken')
      BY <1>1, <2>1, <3>1 DEF OrderInv
    <3> QED
      BY <2>1, <2>2, <2>3, <3>2, TookPipe
  <2>4. CASE Quiet /\ SamePlaces /\ UNCHANGED <<w, r, net>>
    <3>1. Still
      BY <1>1, <2>1, <2>4, QuietStill DEF SamePlaces, data, offered
    <3>2. EndInv' /\ ReaderInv'
      <4>1. R'.at = "chan"
        BY <1>4, <2>4 DEF ChanWoken, Runs, SamePlaces, R
      <4> QED
        BY <1>1, <2>1, <2>4, <3>1, <4>1, EndsKept DEF ReaderInv
    <3> QED
      BY <2>2, <3>1, <3>2, StillInv
  <2> QED
    BY <2>1, <2>3, <2>4
<1> QED
  BY <1>2, <1>3, <1>4 DEF Netread

-----------------------------------------------------------------------------
(* The connection has just been opened: the pipe is empty.                 *)
LEMMA InitPipe ==
    OnePair /\ Init => PipeInv /\ Pipe!Init
<1> SUFFICES ASSUME OnePair, Init PROVE PipeInv /\ Pipe!Init
  OBVIOUS
<1>1. FlowInv
  BY InitInv
<1>2. NumbersOK /\ SpendInv
  BY <1>1, Parts
<1>3. /\ con.sent = 0 /\ con.out = <<>> /\ con.closed = FALSE /\ con.killed = FALSE
      /\ con.eof = FALSE /\ con.offered = 0
  BY DEF Init
<1>4. r.q = <<>> /\ r.qtotal = 0 /\ r.open = TRUE /\ r.link = TRUE /\ w.link = TRUE /\ net.data = <<>>
  BY DEF Init
<1>5. place = "idle" /\ R.at = "idle" /\ held = 0
  BY Pair DEF Init, place, W, R, held, Idle
<1>6. Len(<< >>) = 0 /\ \A i \in DOMAIN << >> : FALSE
  OBVIOUS
<1>7. sent = 0 /\ taken = 0 /\ offered = 0 /\ queued = 0 /\ due = 0 /\ data = <<>>
  BY <1>3, <1>4, <1>6 DEF sent, taken, offered, queued, due, data
<1>8. rcvd = sent /\ pending = 0 /\ ~Del /\ delBytes = 0
  BY <1>5, <1>7 DEF rcvd, pending, Del, delBytes
<1>9. OrderInv
  BY <1>3, <1>4, <1>6, <1>7 DEF OrderInv, InTurn
<1>10. DueInv /\ SenderInv /\ HeardInv /\ EndInv /\ ReaderInv
  BY <1>3, <1>4, <1>5, <1>7, <1>8 DEF DueInv, SenderInv, HeardInv, EndInv, ReaderInv
<1>11. FitInv
  <2>1. wBytes + allBytes + queued <= rBytes + delBytes
    BY <1>2, <1>4 DEF SpendInv
  <2> QED
    BY <1>2, <1>7, <1>8, <2>1 DEF FitInv, NumbersOK
<1>12. Pipe!Init
  BY <1>3 DEF Pipe!Init
<1> QED
  BY <1>9, <1>10, <1>11, <1>12 DEF PipeInv

(* Every step of the data path is a step of the pipe, or none.             *)
LEMMA NextPipe ==
    NoLoss /\ FlowInv /\ PipeInv /\ [Next]_vars => PipeInv' /\ PipeStep
<1> SUFFICES ASSUME NoLoss, FlowInv, PipeInv, [Next]_vars PROVE PipeInv' /\ PipeStep
  OBVIOUS
<1>1. OnePair /\ Writers = {wr} /\ Readers = {rd}
  BY DEF NoLoss, OnePair
<1>2. ASSUME NEW p \in Writers, Netwrite(p) PROVE PipeInv' /\ PipeStep
  BY <1>1, <1>2, NetwritePipe
<1>3. ASSUME NEW p \in Writers, NEW n \in 1 .. MaxCount, NetwriteBegin(p, n)
      PROVE  PipeInv' /\ PipeStep
  BY <1>1, <1>3, NetwriteBeginPipe
<1>4. ASSUME NEW p \in Readers, Netread(p) PROVE PipeInv' /\ PipeStep
  BY <1>1, <1>4, NetreadPipe
<1>5. ASSUME NEW p \in Readers, NEW n \in 1 .. MaxCount, NetreadBegin(p, n)
      PROVE  PipeInv' /\ PipeStep
  BY <1>1, <1>5, NetreadBeginPipe
<1>6. ASSUME NEW p \in Proc, Signal(p) PROVE PipeInv' /\ PipeStep
  BY <1>6, SignalPipe
<1>7. CASE DataArrives
  BY <1>1, <1>7, DataArrivesPipe
<1>8. CASE DataLost \/ DataAnswered
  BY <1>1, <1>8, AnswerPipe
<1>9. CASE CtlArrives
  BY <1>1, <1>9, CtlArrivesPipe
<1>10. CASE CtlLost \/ CtlAnswered \/ DaemonSends
  BY <1>1, <1>10, CtlPipe
<1>11. CASE CleanSender
  BY <1>1, <1>11, CleanSenderPipe
<1>12. CASE CleanReceiver \/ CloseShared
  BY <1>1, <1>12, CleanReceiverPipe
<1>13. CASE CloseSender
  BY <1>1, <1>13, CloseSenderPipe
<1>14. CASE UNCHANGED vars
  BY <1>1, <1>14, RestPipe
<1> QED
  BY <1>2, <1>3, <1>4, <1>5, <1>6, <1>7, <1>8, <1>9, <1>10, <1>11, <1>12, <1>13, <1>14 DEF Next

(* What an open connection promises its users: the bytes that netread()    *)
(* returns are those given to netwrite(), in order, none lost or repeated; *)
(* no more are inside than the receiver has room for; and a read ends only *)
(* when the writers have closed and all was read, or when the connection   *)
(* was given up.                                                           *)
THEOREM ImplementsPipe ==
    ASSUME NoLoss
    PROVE  Spec => IsPipe
<1>1. OnePair
  BY DEF NoLoss
<1>2. Init => PipeInv /\ Pipe!Init
  BY <1>1, InitPipe
<1>3. FlowInv /\ PipeInv /\ [Next]_vars => PipeInv' /\ [Pipe!Next]_Pipe!pipeVars
  BY NextPipe DEF PipeStep
<1>4. Spec => []FlowInv
  BY <1>1, FlowInvHolds
<1> QED
  BY <1>2, <1>3, <1>4, PTL DEF Spec, IsPipe, Pipe!Spec

=============================================================================
