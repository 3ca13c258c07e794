---------------------------- MODULE TcpConnProofs ----------------------------
(***************************************************************************)
(* Theorems on TcpConn: control blocks, segments and buffers keep their    *)
(* types whatever users, networks and timers do.  Sequence numbers,        *)
(* windows and lengths are unsigned in tcp.h, and many are differences:    *)
(* the lemmas follow the procedures in the order in which they call each   *)
(* other and show of each that what it subtracts is not the larger one.    *)
(***************************************************************************)
EXTENDS TcpConn, SeqSumProofs, FiniteSetTheorems

(* What send() means to send, as Plan computes it.                         *)
SegmentPlan ==
    [lst : Nat, fin : BOOLEAN, dat : Seq(Byte), forced : BOOLEAN, persist : BOOLEAN]

-----------------------------------------------------------------------------
(* Control blocks *)

(* The fields of a control block.                                          *)
LEMMA Fields ==
    ASSUME NEW s \in Tcb
    PROVE  /\ s.state \in State /\ s.iss \in Nat /\ s.irs \in Nat /\ s.rcv_nxt \in Nat
           /\ s.una \in Nat /\ s.nxt \in Nat /\ s.hi \in Nat /\ s.lst \in Nat
           /\ s.fin \in Nat /\ s.wl \in Nat /\ s.wnd \in Nat /\ s.rval \in Nat
           /\ s.lval \in Nat /\ s.maxseg \in Nat /\ s.on \in SUBSET Flag
           /\ s.tm \in SUBSET Timer /\ s.rq \in Seq(Piece) /\ s.rcv \in Nat
           /\ s.sbuf \in Seq(Byte) /\ s.rbuf \in Seq(Byte) /\ s.told \in SUBSET Status
           /\ s.out \in Seq(Segment)
BY DEF Tcb

(* An assignment to one of them.                                           *)
LEMMA Assigned ==
    ASSUME NEW s \in Tcb
    PROVE  /\ \A v \in State : [s EXCEPT !.state = v] \in Tcb
           /\ \A v \in Nat : /\ [s EXCEPT !.rcv_nxt = v] \in Tcb
                             /\ [s EXCEPT !.nxt = v] \in Tcb
           /\ \A v \in SUBSET Flag : [s EXCEPT !.on = v] \in Tcb
           /\ \A v \in SUBSET Timer : [s EXCEPT !.tm = v] \in Tcb
           /\ \A v \in Seq(Piece) : [s EXCEPT !.rq = v] \in Tcb
           /\ \A v \in Seq(Byte) : /\ [s EXCEPT !.sbuf = v] \in Tcb
                                   /\ [s EXCEPT !.rbuf = v] \in Tcb
           /\ \A v \in SUBSET Status : [s EXCEPT !.told = v] \in Tcb
           /\ \A v \in Seq(Segment) : [s EXCEPT !.out = v] \in Tcb
BY DEF Tcb

(* Flags are set and reset, timers started and cancelled.                  *)
LEMMA FlagsTyped ==
    ASSUME NEW s \in Tcb, NEW F \in SUBSET Flag
    PROVE  Set(s, F) \in Tcb /\ Reset(s, F) \in Tcb
BY Fields, Assigned DEF Set, Reset

(* Timers are started and cancelled.                                        *)
LEMMA TimersTyped ==
    ASSUME NEW s \in Tcb, NEW T \in SUBSET Timer
    PROVE  Start(s, T) \in Tcb /\ Cancel(s, T) \in Tcb
BY Fields, Assigned DEF Start, Cancel

(* The state of the connection changes.                                     *)
LEMMA GoTyped ==
    ASSUME NEW s \in Tcb, NEW st \in State
    PROVE  Go(s, st) \in Tcb
BY Assigned DEF Go

(* The user is told.                                                        *)
LEMMA ToUserTyped ==
    ASSUME NEW s \in Tcb, NEW why \in Status
    PROVE  to_user(s, why) \in Tcb
BY Fields, Assigned DEF to_user

(* A fresh control block.                                                   *)
LEMMA ZeroedTyped ==
    ASSUME NEW i \in Nat, NEW m \in Nat, NEW r \in Nat
    PROVE  Zeroed(i, m, r) \in Tcb
BY DEF Zeroed, Tcb, State

(* t_close() leaves a tcb that has only what is still to be sent or told.  *)
LEMMA CloseTyped ==
    ASSUME NEW s \in Tcb, NEW why \in Status
    PROVE  t_close(s, why) \in Tcb
<1> DEFINE z == Zeroed(s.iss, s.maxseg, s.rcv)
           on == s.on \cap {"usr_abort"}
           told == IF Is(s, "usr_abort") THEN s.told ELSE s.told \cup {why}
<1>1. z \in Tcb
  BY Fields, ZeroedTyped
<1>2. on \in SUBSET Flag /\ told \in SUBSET Status /\ s.out \in Seq(Segment)
  BY Fields
<1>3. t_close(s, why) = [z EXCEPT !.state = "CLOSED", !.out = s.out, !.on = on, !.told = told]
  BY DEF t_close
<1>4. "CLOSED" \in State
  BY DEF State
<1> HIDE DEF z, on, told
<1>5. \A o \in Seq(Segment) :
        [z EXCEPT !.state = "CLOSED", !.out = o, !.on = on, !.told = told] \in Tcb
  BY <1>1, <1>2, <1>4 DEF Tcb
<1> QED
  BY <1>2, <1>3, <1>5

-----------------------------------------------------------------------------
(* Numbers, queues and buffers *)

(* The smaller and the larger of two numbers.                              *)
LEMMA LowerHigher ==
    ASSUME NEW i \in Int, NEW j \in Int
    PROVE  /\ Lower(i, j) \in {i, j} /\ Lower(i, j) <= i /\ Lower(i, j) <= j
           /\ Higher(i, j) \in {i, j} /\ Higher(i, j) >= i /\ Higher(i, j) >= j
BY DEF Lower, Higher

(* Sets of natural numbers have a minimum, and a maximum if bounded.       *)
LEMMA MinIn ==
    ASSUME NEW S \in SUBSET Nat, S # {}
    PROVE  Min(S) \in S
<1>1. \E x \in S : \A y \in S : x <= y
  BY LeastNat
<1> QED
  BY <1>1 DEF Min

(* A set of numbers of 1 .. n has a maximum: n minus the least distance to it.*)
LEMMA MaxIn ==
    ASSUME NEW n \in Nat, NEW S \in SUBSET (1 .. n), S # {}
    PROVE  Max(S) \in S
<1> DEFINE D == {n - x : x \in S}
<1>1. D \in SUBSET Nat /\ D # {}
  <2>1. ASSUME NEW x \in S PROVE n - x \in Nat
    BY x \in 1 .. n
  <2>2. PICK x : x \in S
    OBVIOUS
  <2> QED
    BY <2>1, <2>2
<1>2. PICK d \in D : \A e \in D : d <= e
  BY <1>1, LeastNat
<1>3. PICK x \in S : d = n - x
  BY <1>2
<1>4. ASSUME NEW y \in S PROVE x >= y
  <2>1. n - y \in D /\ x \in Int /\ y \in Int
    OBVIOUS
  <2>2. n - x <= n - y
    BY <1>2, <1>3, <2>1
  <2> QED
    BY <2>1, <2>2
<1> QED
  BY <1>4 DEF Max

(* What SubSeq cuts from a sequence.                                       *)
LEMMA CutTyped ==
    ASSUME NEW A, NEW q \in Seq(A), NEW i \in Nat, NEW j \in Int, i >= 1, j <= Len(q)
    PROVE  SubSeq(q, i, j) \in Seq(A)
<1>1. \A k \in i .. j : q[k] \in A
  BY LenProperties
<1> QED
  BY <1>1, SubSeqProperties

(* The first k elements, and those after them.                             *)
LEMMA TopDropTyped ==
    ASSUME NEW A, NEW q \in Seq(A), NEW k \in Nat
    PROVE  (k <= Len(q) => Top(q, k) \in Seq(A)) /\ Drop(q, k) \in Seq(A)
BY CutTyped DEF Top, Drop

(* A piece ends where it begins or later, but for an empty one.            *)
LEMMA PieceEnd ==
    ASSUME NEW p \in Piece
    PROVE  /\ p.seq \in Nat /\ p.dat \in Seq(Byte) /\ Len(p.dat) \in Nat
           /\ t_end(p) \in Int /\ t_end(p) + 1 \in Nat /\ t_end(p) + 1 >= p.seq
BY DEF Piece, t_end

(* firstempty() returns a sequence number: the run that begins a queue     *)
(* has a last piece.                                                       *)
LEMMA FirstEmptyTyped ==
    ASSUME NEW s \in Tcb
    PROVE  firstempty(s) \in Nat
<1> DEFINE q == s.rq
           R == {k \in DOMAIN q : \A i \in 1 .. k - 1 : t_end(q[i]) + 1 = q[i + 1].seq}
<1>1. q \in Seq(Piece) /\ s.rcv_nxt \in Nat
  BY Fields
<1>2. CASE q = <<>>
  BY <1>1, <1>2 DEF firstempty
<1>3. CASE q # <<>>
  <2>1. Len(q) \in Nat /\ Len(q) >= 1 /\ DOMAIN q = 1 .. Len(q)
    BY <1>1, <1>3, EmptySeq
  <2>2. 1 \in R /\ R \in SUBSET (1 .. Len(q))
    BY <2>1
  <2>3. Max(R) \in DOMAIN q
    <3> HIDE DEF R
    <3> QED
      BY <2>1, <2>2, MaxIn
  <2>4. q[Run(q)] \in Piece
    <3>1. Max(R) = Run(q)
      BY DEF Run
    <3> HIDE DEF R
    <3> QED
      BY <1>1, <2>1, <2>3, <3>1
  <2>5. t_end(q[Run(q)]) + 1 \in Nat
    BY <2>4, PieceEnd
  <2> QED
    BY <1>1, <2>5 DEF firstempty
<1> QED
  BY <1>2, <1>3

(* Known() is typed with it.                                               *)
LEMMA KnownTyped ==
    ASSUME NEW s \in Tcb
    PROVE  Known(s) \in Tcb
BY FirstEmptyTyped, Assigned DEF Known

(* The window that is offered is never negative.                           *)
LEMMA ResourceTyped ==
    ASSUME NEW s \in Tcb
    PROVE  rcv_resource(s) \in Nat
<1>1. s.rcv - Len(s.rbuf) \in Int
  BY Fields
<1> QED
  BY <1>1, LowerHigher DEF rcv_resource

-----------------------------------------------------------------------------
(* Sending *)

(* send_tcp() adds a segment to those sent, unless there is no buffer.     *)
LEMMA SendTcpTyped ==
    ASSUME NEW s \in Tcb, NEW syn \in BOOLEAN, NEW fin \in BOOLEAN, NEW dat \in Seq(Byte)
    PROVE  send_tcp(s, syn, fin, dat) \in Tcb
<1> DEFINE n == [seq |-> s.nxt, ackno |-> s.rcv_nxt, ack |-> Is(s, "syn_rcvd"),
                 syn |-> syn, fin |-> fin, rst |-> Is(s, "snd_rst"),
                 win |-> rcv_resource(s), dat |-> dat]
<1>1. n \in Segment
  BY Fields, ResourceTyped DEF Segment, Is
<1> HIDE DEF n
<1>2. Append(s.out, n) \in Seq(Segment)
  BY <1>1, Fields
<1>3. send_tcp(s, syn, fin, dat) = IF Is(s, "failing") THEN s
                                   ELSE [s EXCEPT !.out = Append(s.out, n)]
  BY DEF send_tcp, n
<1> QED
  BY <1>2, <1>3, Assigned

(* What is copied from the send buffer, or what lies behind it.            *)
LEMMA CopyTyped ==
    ASSUME NEW s \in Tcb, NEW start \in Nat, NEW end \in Nat
    PROVE  snd_copy(s, start, end) \in Seq(Byte)
<1> DEFINE off == IF Is(s, "syn_acked") THEN s.una ELSE s.una + 1
<1>1. off \in Nat /\ s.sbuf \in Seq(Byte) /\ Len(s.sbuf) \in Nat
  BY Fields
<1> HIDE DEF off
<1>2. ASSUME off <= start, end <= off + Len(s.sbuf)
      PROVE  SubSeq(s.sbuf, start - off + 1, end - off) \in Seq(Byte)
  BY <1>1, <1>2, CutTyped
<1>3. [i \in 1 .. end - start |-> Junk] \in Seq(Byte)
  <2>1. Junk \in Byte
    BY DEF Junk, Byte
  <2>2. CASE end - start \in Nat
    BY <2>1, <2>2
  <2>3. CASE end - start \notin Nat
    <3>1. 1 .. end - start = 1 .. 0
      BY <2>3
    <3> QED
      BY <2>1, <3>1
  <2> QED
    BY <2>2, <2>3
<1> QED
  BY <1>2, <1>3 DEF snd_copy, off

(* The end of what is buffered, and of the window.                         *)
LEMMA LastTyped ==
    ASSUME NEW s \in Tcb
    PROVE  SndLast(s) \in Nat /\ Window(s) \in Nat
<1>1. Len(s.sbuf) \in Nat
  BY Fields
<1> QED
  BY <1>1, Fields DEF SndLast, Window

(* Plan: a FIN has a sequence number of its own, so that lst - 1 is one.   *)
LEMMA PlanTyped ==
    ASSUME NEW s \in Tcb
    PROVE  Plan(s) \in SegmentPlan /\ (Plan(s).fin => Plan(s).lst > 0)
<1>1. s.nxt \in Nat /\ s.iss \in Nat /\ s.maxseg \in Nat /\ s.fin \in Nat
      /\ SndLast(s) \in Nat /\ Window(s) \in Nat
  BY Fields, LastTyped
<1>2. FinDue(s) \in BOOLEAN /\ Is(s, "force_one") \in BOOLEAN
  BY DEF FinDue, Is
<1>3. ASSUME NEW lst \in Nat
      PROVE  NoData(s, lst) \in SegmentPlan /\ (NoData(s, lst).fin => NoData(s, lst).lst > 0)
  <2> DEFINE fin == FinDue(s) /\ s.nxt > SndLast(s)
             end == lst + (IF fin THEN 1 ELSE 0)
  <2>1. fin \in BOOLEAN /\ end \in Nat /\ (fin => end > 0)
    BY <1>2
  <2>2. NoData(s, lst) = [lst |-> end, fin |-> fin, dat |-> <<>>, forced |-> FALSE,
                          persist |-> FALSE]
    BY DEF NoData
  <2>3. <<>> \in Seq(Byte)
    OBVIOUS
  <2> HIDE DEF fin, end
  <2> QED
    BY <2>1, <2>2, <2>3 DEF SegmentPlan
<1>4. Data(s) \in SegmentPlan /\ (Data(s).fin => Data(s).lst > 0)
  <2> DEFINE fits == Lower(Lower(SndLast(s), Window(s)), s.nxt + s.maxseg)
             forced == Is(s, "force_one") /\ fits = Window(s)
             end == IF forced THEN s.nxt + 1 ELSE fits
             fin == FinDue(s) /\ ~forced /\ end = SndLast(s)
             lst == IF fin THEN end + 1 ELSE end
             dat == snd_copy(s, Higher(s.iss + 1, s.nxt), end)
             persist == fits >= Window(s)
  <2>1. fits \in Nat
    BY <1>1 DEF Lower
  <2>2. end \in Nat /\ Higher(s.iss + 1, s.nxt) \in Nat
    BY <1>1, <2>1 DEF Higher
  <2>3. dat \in Seq(Byte)
    BY <2>2, CopyTyped
  <2>4. fin \in BOOLEAN /\ forced \in BOOLEAN /\ persist \in BOOLEAN
    BY <1>2
  <2>5. lst \in Nat /\ (fin => lst > 0)
    BY <2>2
  <2>6. Data(s) = [lst |-> lst, fin |-> fin, dat |-> dat, forced |-> forced,
                   persist |-> persist]
    BY DEF Data
  <2> HIDE DEF fits, forced, end, fin, lst, dat, persist
  <2> QED
    BY <2>3, <2>4, <2>5, <2>6 DEF SegmentPlan
<1>5. (IF s.nxt = s.iss THEN s.nxt + 1 ELSE s.nxt) \in Nat
  BY <1>1
<1> QED
  BY <1>3, <1>4, <1>5 DEF Plan

(* The steps of send(), for what it has planned.                           *)
LEMMA TimeSegmentTyped ==
    ASSUME NEW s \in Tcb, NEW p \in SegmentPlan
    PROVE  TimeSegment(s, p) \in Tcb
<1> DEFINE T == IF Is(s, "rexmt") THEN {"rexmt"} ELSE {"rexmt", "rexmttl"}
           r == Start(s, T)
           lval == IF Is(s, "rexmt") THEN r.lval ELSE p.lst
<1>1. r \in Tcb
  <2>1. T \in SUBSET Timer
    BY DEF Timer
  <2> QED
    BY <2>1, TimersTyped
<1>2. p.lst \in Nat /\ lval \in Nat
  BY <1>1, Fields DEF SegmentPlan
<1>3. TimeSegment(s, p) = IF p.forced THEN s ELSE [r EXCEPT !.rval = p.lst, !.lval = lval]
  BY DEF TimeSegment
<1> HIDE DEF T, r, lval
<1>4. \A v \in Nat : [r EXCEPT !.rval = v, !.lval = lval] \in Tcb
  BY <1>1, <1>2 DEF Tcb
<1> QED
  BY <1>2, <1>3, <1>4

(* Advance: s.nxt and s.hi move to the end of what was sent.                *)
LEMMA AdvanceTyped ==
    ASSUME NEW s \in Tcb, NEW lst \in Nat
    PROVE  Advance(s, lst) \in Tcb
<1> DEFINE nxt == IF Is(s, "failing") THEN s.nxt ELSE lst
           r == Reset(s, {"ack_due", "rexmt", "force_one"})
           hi == Higher(nxt, r.hi)
<1>1. r \in Tcb
  BY FlagsTyped DEF Flag
<1>2. nxt \in Nat
  BY Fields
<1>3. hi \in Nat
  BY <1>1, <1>2, Fields DEF Higher
<1>4. Advance(s, lst) = [r EXCEPT !.nxt = nxt, !.hi = hi]
  BY DEF Advance
<1> HIDE DEF nxt, r, hi
<1>5. \A v \in Nat : [r EXCEPT !.nxt = v, !.hi = hi] \in Tcb
  BY <1>1, <1>3 DEF Tcb
<1> QED
  BY <1>2, <1>4, <1>5

(* Prepare: the place of a FIN is one before the end of its segment.        *)
LEMMA PrepareTyped ==
    ASSUME NEW s \in Tcb, NEW p \in SegmentPlan, p.fin => p.lst > 0
    PROVE  Prepare(s, p) \in Tcb
<1> DEFINE r == Start(s, IF p.persist THEN {"persist"} ELSE {})
           fin == IF p.fin THEN p.lst - 1 ELSE r.fin
<1>1. r \in Tcb
  BY TimersTyped DEF Timer
<1>2. p.lst \in Nat /\ fin \in Nat
  BY <1>1, Fields DEF SegmentPlan
<1>3. Prepare(s, p) = [r EXCEPT !.lst = p.lst, !.fin = fin]
  BY DEF Prepare
<1> HIDE DEF r, fin
<1>4. \A v \in Nat : [r EXCEPT !.lst = v, !.fin = fin] \in Tcb
  BY <1>1, <1>2 DEF Tcb
<1> QED
  BY <1>2, <1>3, <1>4

(* send() itself.                                                          *)
LEMMA SendTyped ==
    ASSUME NEW s \in Tcb
    PROVE  send(s) \in Tcb
<1> DEFINE p == Plan(s)
           r == Prepare(s, p)
           t == send_tcp(r, r.nxt = r.iss, p.fin, p.dat)
<1>1. p \in SegmentPlan /\ (p.fin => p.lst > 0)
  BY PlanTyped
<1>2. p.lst \in Nat /\ p.fin \in BOOLEAN /\ p.dat \in Seq(Byte)
  BY <1>1 DEF SegmentPlan
<1>3. r \in Tcb
  BY <1>1, PrepareTyped
<1>4. send(s) = IF r.nxt >= p.lst THEN r ELSE Advance(TimeSegment(t, p), p.lst)
  BY DEF send, SendPlan
<1> HIDE DEF p, r
<1>5. t \in Tcb
  BY <1>2, <1>3, SendTcpTyped
<1> HIDE DEF t
<1>6. Advance(TimeSegment(t, p), p.lst) \in Tcb
  BY <1>1, <1>2, <1>5, TimeSegmentTyped, AdvanceTyped
<1> QED
  BY <1>3, <1>4, <1>6

(* A segment without data, an ack, and a reset.                            *)
LEMMA SendNullTyped ==
    ASSUME NEW s \in Tcb
    PROVE  send_null(s) \in Tcb
<1>1. FALSE \in BOOLEAN /\ <<>> \in Seq(Byte)
  OBVIOUS
<1>2. send_tcp(s, FALSE, FALSE, <<>>) \in Tcb
  BY <1>1, SendTcpTyped, Zenon
<1> QED
  BY <1>2, FlagsTyped DEF send_null, Flag

(* send_ctl(): as send() and send_null().                                   *)
LEMMA SendCtlTyped ==
    ASSUME NEW s \in Tcb
    PROVE  send_ctl(s) \in Tcb
BY SendTyped, SendNullTyped DEF send_ctl

(* send_rst(): the reset is sent at the number that was acknowledged.       *)
LEMMA SendRstTyped ==
    ASSUME NEW s \in Tcb, NEW n \in Segment
    PROVE  send_rst(s, n) \in Tcb
<1> DEFINE nxt == IF n.ack THEN n.ackno ELSE s.nxt
           on == (s.on \ {"syn_rcvd"}) \cup {"snd_rst"}
           r == [s EXCEPT !.nxt = nxt, !.on = on]
<1>1. nxt \in Nat
  BY Fields DEF Segment
<1>2. on \in SUBSET Flag
  BY Fields DEF Flag
<1>3. r \in Tcb
  <2> HIDE DEF nxt, on
  <2>1. \A v \in Nat : [s EXCEPT !.nxt = v, !.on = on] \in Tcb
    BY <1>2 DEF Tcb
  <2> QED
    BY <1>1, <2>1
<1>4. send_rst(s, n) = IF n.rst THEN s ELSE Reset(send_null(r), {"snd_rst"})
  BY DEF send_rst
<1> HIDE DEF r
<1>5. Reset(send_null(r), {"snd_rst"}) \in Tcb
  BY <1>3, SendNullTyped, FlagsTyped DEF Flag
<1> QED
  BY <1>4, <1>5

-----------------------------------------------------------------------------
(* The sequencing queue *)

(* Concatenation and insertion.                                            *)
LEMMA InsertTyped ==
    ASSUME NEW q \in Seq(Piece), NEW k \in 1 .. Len(q) + 1, NEW p \in Piece
    PROVE  Insert(q, k, p) \in Seq(Piece)
<1>1. k - 1 \in Nat /\ k - 1 <= Len(q)
  BY LenProperties
<1>2. Top(q, k - 1) \in Seq(Piece) /\ Drop(q, k - 1) \in Seq(Piece)
  BY <1>1, TopDropTyped
<1>3. <<p>> \in Seq(Piece)
  OBVIOUS
<1> QED
  BY <1>2, <1>3, ConcatProperties DEF Insert

(* A piece that is cut is a piece.                                         *)
LEMMA CutFrontTyped ==
    ASSUME NEW p \in Piece, NEW i \in Nat
    PROVE  CutFront(p, i) \in Piece
<1>1. p.seq + i \in Nat /\ p.dat \in Seq(Byte)
  BY PieceEnd
<1>2. Drop(p.dat, i) \in Seq(Byte)
  BY <1>1, TopDropTyped
<1> QED
  BY <1>1, <1>2 DEF CutFront, Piece

(* A piece is cut at its end by no more than its length.                    *)
LEMMA CutEndTyped ==
    ASSUME NEW p \in Piece, NEW i \in Nat, i <= Len(p.dat)
    PROVE  CutEnd(p, i) \in Piece
<1>1. p.dat \in Seq(Byte) /\ Len(p.dat) - i \in Nat /\ Len(p.dat) - i <= Len(p.dat)
  BY PieceEnd
<1>2. Top(p.dat, Len(p.dat) - i) \in Seq(Byte)
  BY <1>1, TopDropTyped
<1> QED
  BY <1>2 DEF CutEnd, Piece

(* The pieces that PutOver removes are counted, and what it cuts from p    *)
(* is no more than p has.                                                  *)
LEMMA PutOverTyped ==
    ASSUME NEW q \in Seq(Piece), NEW k \in 1 .. Len(q) + 1, NEW p \in Piece, NEW last \in Int
    PROVE  PutOver(q, k, p, last) \in Seq(Piece)
<1> DEFINE over == {j \in k .. Len(q) :
                       \A i \in k .. j : q[i].seq < last /\ t_end(q[i]) <= last}
           rest == Drop(q, k - 1 + Cardinality(over))
           part == IF rest # <<>> /\ rest[1].seq < last
                   THEN Lower(last - rest[1].seq + 1, Len(p.dat)) ELSE 0
           top == Top(q, k - 1)
<1>1. Cardinality(over) \in Nat
  <2>1. IsFiniteSet(k .. Len(q)) /\ over \in SUBSET (k .. Len(q))
    BY LenProperties, FS_Interval
  <2> HIDE DEF over
  <2> QED
    BY <2>1, FS_Subset, FS_CardinalityType
<1>2. k - 1 \in Nat /\ k - 1 <= Len(q)
  BY LenProperties
<1>3. top \in Seq(Piece) /\ rest \in Seq(Piece)
  <2> HIDE DEF over
  <2>1. k - 1 + Cardinality(over) \in Nat
    BY <1>1, <1>2
  <2> QED
    BY <1>2, <2>1, TopDropTyped
<1>4. PutOver(q, k, p, last) =
        IF p.dat = <<>> THEN q
        ELSE IF part = Len(p.dat) THEN top \o rest
        ELSE top \o <<CutEnd(p, part)>> \o rest
  BY DEF PutOver
<1> HIDE DEF over, rest
<1>5. part \in Nat /\ part <= Len(p.dat)
  <2>1. Len(p.dat) \in Nat
    BY PieceEnd
  <2>2. rest # <<>> => rest[1].seq \in Nat
    <3>1. rest # <<>> => rest[1] \in Piece
      BY <1>3, EmptySeq
    <3> QED
      BY <3>1, PieceEnd
  <2> QED
    BY <2>1, <2>2 DEF Lower
<1> HIDE DEF part, top
<1>6. CutEnd(p, part) \in Piece
  BY <1>5, CutEndTyped
<1>7. top \o rest \in Seq(Piece) /\ top \o <<CutEnd(p, part)>> \o rest \in Seq(Piece)
  BY <1>3, <1>6, ConcatProperties
<1> QED
  BY <1>4, <1>7

(* A queue stays one when a piece is merged into it.  What PutOver gets    *)
(* begins not before zero, since the piece in front of it ends before p.   *)
LEMMA MergeTyped ==
    ASSUME NEW q \in Seq(Piece), NEW p \in Piece
    PROVE  Merge(q, p) \in Seq(Piece)
<1> DEFINE last == t_end(p)
           ends == {j \in DOMAIN q : p.seq <= t_end(q[j])}
           k == IF ends = {} THEN Len(q) + 1 ELSE Min(ends)
           part == last - q[k].seq + 1
           gap == t_end(q[k]) - p.seq + 1
           rest == Top(q, k - 1) \o Drop(q, k)
<1>1. Len(q) \in Nat /\ DOMAIN q = 1 .. Len(q) /\ last \in Int
  BY LenProperties, PieceEnd
<1>2. k \in 1 .. Len(q) + 1 /\ (k # Len(q) + 1 => k \in ends)
  <2>1. ends # {} => Min(ends) \in ends
    <3>1. ends \in SUBSET Nat
      BY <1>1
    <3> HIDE DEF ends
    <3> QED
      BY <3>1, MinIn
  <2>2. ends \in SUBSET (1 .. Len(q))
    BY <1>1
  <2>3. CASE ends = {}
    BY <1>1, <2>3
  <2>4. CASE ends # {}
    <3>1. k = Min(ends)
      BY <2>4
    <3> HIDE DEF ends, k
    <3>2. k \in ends
      BY <2>1, <2>4, <3>1
    <3>3. k \in 1 .. Len(q)
      BY <2>2, <3>2
    <3> QED
      BY <1>1, <3>2, <3>3
  <2> QED
    BY <2>3, <2>4
<1>3. k # Len(q) + 1 => /\ k \in 1 .. Len(q) /\ q[k] \in Piece
                        /\ q[k].seq \in Nat /\ t_end(q[k]) \in Int /\ gap \in Nat
  <2> SUFFICES ASSUME k # Len(q) + 1
               PROVE  /\ k \in 1 .. Len(q) /\ q[k] \in Piece
                      /\ q[k].seq \in Nat /\ t_end(q[k]) \in Int /\ gap \in Nat
    OBVIOUS
  <2>1. k \in 1 .. Len(q) /\ p.seq <= t_end(q[k])
    BY <1>1, <1>2
  <2> HIDE DEF k
  <2>2. q[k] \in Piece
    BY <1>1, <2>1
  <2> QED
    BY <2>1, <2>2, PieceEnd
<1>4. Merge(q, p) =
        IF k = Len(q) + 1 \/ last < q[k].seq THEN Insert(q, k, p)
        ELSE IF last < t_end(q[k])
        THEN IF part < Len(p.dat) THEN Insert(q, k, CutEnd(p, part)) ELSE q
        ELSE IF p.seq <= q[k].seq THEN PutOver(rest, k, p, last)
        ELSE PutOver(q, k + 1, CutFront(p, gap), last)
  BY DEF Merge
<1> HIDE DEF ends, k, last
<1>5. Insert(q, k, p) \in Seq(Piece)
  BY <1>2, InsertTyped
<1>6. ASSUME k # Len(q) + 1, ~(last < q[k].seq), part < Len(p.dat)
      PROVE  Insert(q, k, CutEnd(p, part)) \in Seq(Piece)
  <2>0. q[k].seq \in Nat /\ Len(p.dat) \in Nat
    BY <1>3, <1>6, PieceEnd
  <2>1. part \in Nat /\ part <= Len(p.dat)
    BY <1>1, <1>6, <2>0
  <2> HIDE DEF part
  <2> QED
    BY <1>2, <2>1, CutEndTyped, InsertTyped
<1>7. ASSUME k # Len(q) + 1 PROVE PutOver(rest, k, p, last) \in Seq(Piece)
  <2>1. k \in 1 .. Len(q) /\ k - 1 \in Nat /\ k - 1 <= Len(q) /\ k \in Nat
    BY <1>1, <1>3, <1>7
  <2>2. Top(q, k - 1) \in Seq(Piece) /\ Drop(q, k) \in Seq(Piece)
    BY <1>1, <2>1, TopDropTyped
  <2>3. rest \in Seq(Piece) /\ Len(rest) = Len(Top(q, k - 1)) + Len(Drop(q, k))
    BY <2>2, ConcatProperties
  <2>4. Len(Top(q, k - 1)) = k - 1
    <3>1. \A i \in 1 .. k - 1 : q[i] \in Piece
      BY <1>1, <2>1
    <3>2. Len(SubSeq(q, 1, k - 1)) = IF 1 <= k - 1 THEN k - 1 - 1 + 1 ELSE 0
      BY <2>1, <3>1, SubSeqProperties
    <3> QED
      BY <2>1, <3>2 DEF Top
  <2>5. k \in 1 .. Len(rest) + 1
    <3>1. Len(Drop(q, k)) \in Nat
      BY <2>2
    <3> QED
      BY <2>1, <2>3, <2>4, <3>1
  <2> HIDE DEF rest
  <2> QED
    BY <1>1, <2>3, <2>5, PutOverTyped
<1>8. ASSUME k # Len(q) + 1 PROVE PutOver(q, k + 1, CutFront(p, gap), last) \in Seq(Piece)
  <2>1. k + 1 \in 1 .. Len(q) + 1 /\ gap \in Nat
    BY <1>1, <1>3, <1>8
  <2> HIDE DEF gap
  <2>2. CutFront(p, gap) \in Piece
    BY <2>1, CutFrontTyped
  <2> QED
    BY <1>1, <2>1, <2>2, PutOverTyped
<1> QED
  BY <1>4, <1>5, <1>6, <1>7, <1>8

-----------------------------------------------------------------------------
(* Receiving *)

(* What has come already is cut off a segment's text.                      *)
LEMMA RcvTextTyped ==
    ASSUME NEW s \in Tcb, NEW p \in Piece
    PROVE  rcv_text(s, p) \in Tcb
<1> DEFINE old == Higher(s.rcv_nxt - p.seq, 0)
           q == Merge(s.rq, CutFront(p, old))
           r == [s EXCEPT !.rq = q]
<1>1. old \in Nat
  <2>1. s.rcv_nxt - p.seq \in Int
    BY Fields, PieceEnd
  <2> QED
    BY <2>1 DEF Higher
<1>2. rcv_text(s, p) = IF old >= Len(p.dat) THEN Set(s, {"ack_due"})
                       ELSE Set(Known(r), {"ack_due"})
  BY DEF rcv_text
<1> HIDE DEF old
<1>3. q \in Seq(Piece)
  BY <1>1, Fields, CutFrontTyped, MergeTyped
<1> HIDE DEF q
<1>4. r \in Tcb
  BY <1>3, Assigned
<1> HIDE DEF r
<1>5. Known(r) \in Tcb /\ {"ack_due"} \in SUBSET Flag
  BY <1>4, KnownTyped DEF Flag
<1> QED
  BY <1>2, <1>5, FlagsTyped

(* rcv_syn(): the peer's first sequence number is taken.                    *)
LEMMA RcvSynTyped ==
    ASSUME NEW s \in Tcb, NEW n \in Segment
    PROVE  rcv_syn(s, n) \in Tcb
<1>1. n.seq \in Nat /\ n.seq + 1 \in Nat
  BY DEF Segment
<1>2. \A i \in Nat : \A j \in Nat : [s EXCEPT !.irs = i, !.rcv_nxt = j, !.wl = i] \in Tcb
  BY DEF Tcb
<1>3. [s EXCEPT !.irs = n.seq, !.rcv_nxt = n.seq + 1, !.wl = n.seq] \in Tcb
  BY <1>1, <1>2
<1> QED
  BY <1>3, FlagsTyped DEF rcv_syn, Flag

(* Of what is acknowledged the send buffer loses what it has: an ack that  *)
(* rcv_data() takes is above una, and a SYN is no byte.                    *)
LEMMA RcvAckTyped ==
    ASSUME NEW s \in Tcb, NEW n \in Segment, n.ackno > s.una
    PROVE  rcv_ack(s, n) \in Tcb
<1> DEFINE syn == ~Is(s, "syn_acked") /\ n.ackno > s.iss
           len == n.ackno - s.una - (IF syn THEN 1 ELSE 0)
           nxt == Higher(s.nxt, n.ackno)
           buf == Drop(s.sbuf, Lower(len, Len(s.sbuf)))
           r == [s EXCEPT !.una = n.ackno, !.nxt = nxt, !.sbuf = buf]
           a == Set(Cancel(r, {"rexmt", "rexmttl"}), {"cancelled"})
           b == IF syn THEN Set(Cancel(a, {"init"}), {"syn_acked"}) ELSE a
<1>1. n.ackno \in Nat /\ s.sbuf \in Seq(Byte) /\ Len(s.sbuf) \in Nat
      /\ s.una \in Nat /\ s.nxt \in Nat
  BY Fields DEF Segment
<1>2. nxt \in Nat
  BY <1>1 DEF Higher
<1>3. len \in Nat
  BY <1>1
<1>4. rcv_ack(s, n) = IF s.fin # s.iss /\ n.ackno > s.fin THEN Reset(b, {"snd_fin"}) ELSE b
  BY DEF rcv_ack
<1> HIDE DEF syn, len, nxt
<1>5. Lower(len, Len(s.sbuf)) \in Nat
  BY <1>1, <1>3 DEF Lower
<1>6. buf \in Seq(Byte)
  BY <1>1, <1>5, TopDropTyped
<1> HIDE DEF buf
<1>7. r \in Tcb
  <2>1. \A v \in Nat : [s EXCEPT !.una = v, !.nxt = nxt, !.sbuf = buf] \in Tcb
    BY <1>2, <1>6 DEF Tcb
  <2> QED
    BY <1>1, <2>1
<1> HIDE DEF r
<1>8. a \in Tcb
  <2>1. {"rexmt", "rexmttl"} \in SUBSET Timer /\ {"cancelled"} \in SUBSET Flag
    BY DEF Timer, Flag
  <2> QED
    BY <1>7, <2>1, FlagsTyped, TimersTyped
<1> HIDE DEF a
<1>9. b \in Tcb
  <2>1. {"init"} \in SUBSET Timer /\ {"syn_acked"} \in SUBSET Flag
    BY DEF Timer, Flag
  <2> QED
    BY <1>8, <2>1, FlagsTyped, TimersTyped
<1> HIDE DEF b
<1>10. Reset(b, {"snd_fin"}) \in Tcb
  BY <1>9, FlagsTyped DEF Flag
<1> QED
  BY <1>4, <1>9, <1>10

(* rcv_window(): the window as the segment has it.                          *)
LEMMA RcvWindowTyped ==
    ASSUME NEW s \in Tcb, NEW n \in Segment
    PROVE  rcv_window(s, n) \in Tcb
<1>1. n.seq \in Nat /\ n.win \in Nat
  BY DEF Segment
<1>2. \A i \in Nat : \A j \in Nat : [s EXCEPT !.wl = i, !.wnd = j] \in Tcb
  BY DEF Tcb
<1>3. [s EXCEPT !.wl = n.seq, !.wnd = n.win] \in Tcb
  BY <1>1, <1>2
<1>4. {"persist"} \in SUBSET Timer /\ {"new_window"} \in SUBSET Flag
  BY DEF Timer, Flag
<1> QED
  BY <1>3, <1>4, FlagsTyped, TimersTyped DEF rcv_window

(* rcv_fin(): the FIN stands behind what firstempty() finds.                *)
LEMMA RcvFinTyped ==
    ASSUME NEW s \in Tcb
    PROVE  rcv_fin(s) \in Tcb
<1> DEFINE r == [s EXCEPT !.rcv_nxt = firstempty(s) + 1]
<1>1. r \in Tcb
  <2>1. firstempty(s) + 1 \in Nat
    BY FirstEmptyTyped
  <2> QED
    BY <2>1, Assigned
<1>2. /\ {"ack_due"} \in SUBSET Flag /\ {"fin_rcvd"} \in SUBSET Flag
      /\ {"fin_rcvd", "ack_due"} \in SUBSET Flag
  BY DEF Flag
<1>3. rcv_fin(s) \in {s, Set(s, {"ack_due"}), Set(s, {"fin_rcvd"}),
                      Set(r, {"fin_rcvd", "ack_due"})}
  BY DEF rcv_fin
<1> HIDE DEF r
<1>4. Set(s, {"ack_due"}) \in Tcb /\ Set(s, {"fin_rcvd"}) \in Tcb
      /\ Set(r, {"fin_rcvd", "ack_due"}) \in Tcb
  BY <1>1, <1>2, FlagsTyped
<1> QED
  BY <1>3, <1>4

(* The end of rcv_data().                                                  *)
LEMMA TimeRestTyped ==
    ASSUME NEW s \in Tcb, NEW sent
    PROVE  TimeRest(s, sent) \in Tcb
<1> DEFINE r == [s EXCEPT !.rval = s.lst, !.lval = s.lst]
<1>1. r \in Tcb
  <2>1. \A v \in Nat : [s EXCEPT !.rval = v, !.lval = v] \in Tcb
    BY DEF Tcb
  <2> QED
    BY <2>1, Fields
<1>2. TimeRest(s, sent) \in {s, Reset(Start(r, {"rexmt", "rexmttl"}), {"cancelled"})}
  BY DEF TimeRest
<1> HIDE DEF r
<1>3. Reset(Start(r, {"rexmt", "rexmttl"}), {"cancelled"}) \in Tcb
  <2>1. {"rexmt", "rexmttl"} \in SUBSET Timer /\ {"cancelled"} \in SUBSET Flag
    BY DEF Timer, Flag
  <2> QED
    BY <1>1, <2>1, FlagsTyped, TimersTyped
<1> QED
  BY <1>2, <1>3

(* The end of rcv_data(): it sends, and times what is not acknowledged.     *)
LEMMA AnswerTyped ==
    ASSUME NEW s \in Tcb
    PROVE  Answer(s) \in Tcb
<1>1. send_ctl(s) \in Tcb /\ send(s) \in Tcb
  BY SendCtlTyped, SendTyped
<1>2. /\ TimeRest(send_ctl(s), Sends(s)) \in Tcb
      /\ TimeRest(send(s), Sends(s)) \in Tcb
      /\ TimeRest(s, FALSE) \in Tcb
  BY <1>1, TimeRestTyped
<1>3. Answer(s) \in {TimeRest(send_ctl(s), Sends(s)), TimeRest(send(s), Sends(s)),
                     TimeRest(s, FALSE)}
  BY DEF Answer
<1> QED
  BY <1>2, <1>3

(* What rcv_data() takes from a segment.                                   *)
LEMMA TakesTyped ==
    ASSUME NEW s \in Tcb, NEW n \in Segment
    PROVE  /\ TakeSyn(s, n) \in Tcb /\ TakeAck(s, n) \in Tcb /\ TakeWindow(s, n) \in Tcb
           /\ TakeText(s, n) \in Tcb /\ TakeFin(s, n) \in Tcb
<1>1. TakeSyn(s, n) \in Tcb
  BY RcvSynTyped DEF TakeSyn
<1>2. TakeAck(s, n) \in Tcb
  BY RcvAckTyped DEF TakeAck
<1>3. TakeWindow(s, n) \in Tcb
  BY RcvWindowTyped DEF TakeWindow
<1>4. TakeText(s, n) \in Tcb
  <2>1. [seq |-> n.seq, dat |-> n.dat] \in Piece
    BY DEF Segment, Piece
  <2> QED
    BY <2>1, RcvTextTyped DEF TakeText
<1>5. TakeFin(s, n) \in Tcb
  BY RcvFinTyped DEF TakeFin
<1> QED
  BY <1>1, <1>2, <1>3, <1>4, <1>5

(* rcv_data() and rcv_ctl() on any segment.                                 *)
LEMMA RcvDataTyped ==
    ASSUME NEW s \in Tcb, NEW n \in Segment
    PROVE  rcv_data(s, n) \in Tcb /\ rcv_ctl(s, n) \in Tcb
<1>1. ASSUME NEW m \in Segment PROVE rcv_data(s, m) \in Tcb
  <2> DEFINE a == Reset(s, {"ack_due", "new_window"})
             b == TakeSyn(a, m)
             c == TakeAck(b, m)
             d == TakeWindow(c, m)
             e == TakeText(d, m)
             f == TakeFin(e, m)
  <2>1. a \in Tcb
    BY FlagsTyped DEF Flag
  <2>2. rcv_data(s, m) = Answer(f)
    BY DEF rcv_data
  <2> HIDE DEF a
  <2>3. b \in Tcb
    BY <2>1, TakesTyped
  <2> HIDE DEF b
  <2>4. c \in Tcb
    BY <2>3, TakesTyped
  <2> HIDE DEF c
  <2>5. d \in Tcb
    BY <2>4, TakesTyped
  <2> HIDE DEF d
  <2>6. e \in Tcb
    BY <2>5, TakesTyped
  <2> HIDE DEF e
  <2>7. f \in Tcb
    BY <2>6, TakesTyped
  <2> HIDE DEF f
  <2> QED
    BY <2>2, <2>7, AnswerTyped
<1>2. [n EXCEPT !.dat = <<>>] \in Segment
  <2>1. \A v \in Seq(Byte) : [n EXCEPT !.dat = v] \in Segment
    BY DEF Segment
  <2>2. <<>> \in Seq(Byte)
    OBVIOUS
  <2> QED
    BY <2>1, <2>2
<1> QED
  BY <1>1, <1>2 DEF rcv_ctl

(* The receive buffer with the pieces that are moved up: the recursive     *)
(* function of MoveUp() exists and has sequences of bytes for values.      *)
BufferOf(s, g) == g = [k \in 0 .. Len(s.rq) |->
                          IF k = 0 THEN s.rbuf ELSE g[k - 1] \o s.rq[k].dat]

(* What present_data() copies for the user is made of bytes, by rounds.     *)
LEMMA BufferTyped ==
    ASSUME NEW s \in Tcb, NEW k \in 0 .. Len(s.rq)
    PROVE  (CHOOSE g : BufferOf(s, g))[k] \in Seq(Byte)
<1> DEFINE n == Len(s.rq)
           buf == CHOOSE g : BufferOf(s, g)
           step == [i \in 1 .. n |-> [v \in Seq(Byte) |-> v \o s.rq[i].dat]]
<1>1. s.rbuf \in Seq(Byte) /\ s.rq \in Seq(Piece) /\ n \in Nat
  BY Fields
<1>2. ASSUME NEW i \in 1 .. n, NEW v \in Seq(Byte) PROVE v \o s.rq[i].dat \in Seq(Byte)
  <2>1. s.rq[i] \in Piece
    BY <1>1
  <2>2. s.rq[i].dat \in Seq(Byte)
    BY <2>1, PieceEnd
  <2> QED
    BY <2>2, ConcatProperties
<1>3. step \in [1 .. n -> [Seq(Byte) -> Seq(Byte)]]
  BY <1>2
<1>4. PICK u : Rounds(n, Seq(Byte), s.rbuf, step, u)
  <2> HIDE DEF step, n
  <2> QED
    BY <1>1, <1>3, LoopExists
<1>5. BufferOf(s, u)
  <2>1. ASSUME NEW i \in 0 .. n
        PROVE  u[i] = IF i = 0 THEN s.rbuf ELSE u[i - 1] \o s.rq[i].dat
    <3>1. CASE i = 0
      BY <1>4, <3>1 DEF Rounds
    <3>2. CASE i # 0
      <4>1. i \in 1 .. n /\ i - 1 \in 0 .. n
        BY <1>1, <3>2
      <4>2. u[i - 1] \in Seq(Byte)
        BY <1>4, <4>1 DEF Rounds
      <4>3. u[i] = step[i][u[i - 1]]
        BY <1>4, <4>1 DEF Rounds
      <4> QED
        BY <3>2, <4>1, <4>2, <4>3
    <3> QED
      BY <3>1, <3>2
  <2>2. u = [i \in 0 .. n |-> u[i]]
    BY <1>4 DEF Rounds
  <2> HIDE DEF step
  <2> QED
    BY <2>1, <2>2 DEF BufferOf
<1>6. BufferOf(s, buf)
  BY <1>5, Zenon
<1> HIDE DEF buf
<1>7. buf[0] = s.rbuf
  BY <1>1, <1>6 DEF BufferOf
<1>8. ASSUME NEW i \in 1 .. k, buf[i - 1] \in Seq(Byte) PROVE buf[i] \in Seq(Byte)
  <2>1. i \in 0 .. n /\ i # 0 /\ i \in 1 .. n
    <3>1. k \in 0 .. n /\ n \in Nat
      BY <1>1
    <3> HIDE DEF n
    <3> QED
      BY <3>1
  <2>2. buf[i] = buf[i - 1] \o s.rq[i].dat
    BY <1>6, <2>1, Zenon DEF BufferOf
  <2> QED
    BY <1>2, <1>8, <2>1, <2>2
<1>9. k \in Nat
  BY <1>1
<1> HIDE DEF n
<1>10. buf[k] \in Seq(Byte)
  BY <1>1, <1>7, <1>8, <1>9, LoopStays
<1> QED
  BY <1>10 DEF buf

(* MoveUp(): no more pieces are moved up than there are.                   *)
LEMMA MoveUpTyped ==
    ASSUME NEW s \in Tcb, NEW ready
    PROVE  MoveUp(s, ready) \in Tcb
<1> DEFINE buf == CHOOSE g : BufferOf(s, g)
           M == {k \in DOMAIN s.rq :
                   \A j \in 1 .. k : Len(buf[j - 1]) < s.rcv /\ t_end(s.rq[j]) < ready}
           n == Cardinality(M)
           q == Drop(s.rq, n)
<1>1. s.rq \in Seq(Piece) /\ Len(s.rq) \in Nat /\ DOMAIN s.rq = 1 .. Len(s.rq)
  BY Fields
<1>2. M \in SUBSET (1 .. Len(s.rq))
  BY <1>1
<1>3. MoveUp(s, ready) = [s EXCEPT !.rbuf = buf[n], !.rq = q]
  BY DEF MoveUp, BufferOf
<1> HIDE DEF M
<1>4. n \in Nat /\ n <= Len(s.rq)
  <2>1. IsFiniteSet(1 .. Len(s.rq)) /\ Cardinality(1 .. Len(s.rq)) = Len(s.rq)
    BY <1>1, FS_Interval
  <2> QED
    BY <1>2, <2>1, FS_Subset, FS_CardinalityType
<1>5. n \in 0 .. Len(s.rq)
  BY <1>1, <1>4
<1> HIDE DEF n
<1>6. buf[n] \in Seq(Byte)
  BY <1>5, BufferTyped
<1>7. q \in Seq(Piece)
  BY <1>1, <1>4, TopDropTyped
<1> HIDE DEF buf, q
<1>8. \A b \in Seq(Byte) : [s EXCEPT !.rbuf = b, !.rq = q] \in Tcb
  BY <1>7 DEF Tcb
<1> QED
  BY <1>3, <1>6, <1>8

(* present_data() moves bytes or does nothing, and may tell the user.       *)
LEMMA PresentTyped ==
    ASSUME NEW s \in Tcb
    PROVE  present_data(s) \in Tcb
<1> DEFINE r == MoveUp(s, firstempty(s))
<1>1. r \in Tcb
  BY MoveUpTyped
<1>2. present_data(s) \in {s, TellEnd(r)}
  BY DEF present_data
<1> HIDE DEF r
<1>3. TellEnd(r) \in Tcb
  <2>1. "UCLOSED" \in Status
    BY DEF Status
  <2> QED
    BY <1>1, <2>1, ToUserTyped DEF TellEnd
<1> QED
  BY <1>2, <1>3

(* rcv_data() and present_data().                                          *)
LEMMA TakeTyped ==
    ASSUME NEW s \in Tcb, NEW n \in Segment
    PROVE  Take(s, n) \in Tcb
BY RcvDataTyped, PresentTyped DEF Take

-----------------------------------------------------------------------------
(* The action routines *)

(* The states and reasons by name.                                         *)
LEMMA Names ==
    /\ {"LISTEN", "SYN_SENT", "SYN_RCVD", "L_SYN_RCVD", "ESTAB", "FIN_W1", "FIN_W2",
        "TIME_WAIT", "CLOSE_WAIT", "CLOSING1", "CLOSING2", "RCV_WAIT"} \in SUBSET State
    /\ \A st \in State : st \in {"NEW", "CLOSED", "LISTEN", "SYN_SENT", "SYN_RCVD",
            "L_SYN_RCVD", "ESTAB", "FIN_W1", "FIN_W2", "TIME_WAIT", "CLOSE_WAIT",
            "CLOSING1", "CLOSING2", "RCV_WAIT"}
    /\ {"UCLOSED", "UABORT", "URESET", "UINTIMO", "URXTIMO", "UNRCH"} \in SUBSET Status
    /\ \A f \in {"snd_fin", "usr_closed", "usr_abort", "snd_rst", "waited_2_ml",
                 "rexmt", "force_one", "failing", "no_if"} : {f} \in SUBSET Flag
    /\ {"ack_due", "new_window", "failing", "no_if"} \in SUBSET Flag
    /\ {"init"} \in SUBSET Timer /\ {"finack"} \in SUBSET Timer
    /\ {"rexmt", "rexmttl", "persist"} \in SUBSET Timer
BY DEF State, Status, Flag, Timer

(* What the user asks for.                                                 *)
LEMMA CallsTyped ==
    ASSUME NEW s \in Tcb
    PROVE  /\ lis_cls(s) \in Tcb /\ sys_cls(s) \in Tcb /\ cls_rwt(s) \in Tcb
           /\ UserClose(s) \in Tcb /\ cls_nsy(s) \in Tcb /\ cls_syn(s) \in Tcb
<1>1. lis_cls(s) \in Tcb
  BY GoTyped, Names DEF lis_cls
<1>2. sys_cls(s) \in Tcb
  <2>1. send_ctl(Start(s, {"init"})) \in Tcb
    BY Names, TimersTyped, SendCtlTyped
  <2> QED
    BY <2>1, GoTyped, Names DEF sys_cls
<1>3. cls_rwt(s) \in Tcb
  <2>1. present_data(s) \in Tcb
    BY PresentTyped
  <2>2. cls_rwt(s) \in {present_data(s), t_close(present_data(s), "UCLOSED")}
    BY DEF cls_rwt
  <2> QED
    BY <2>1, <2>2, CloseTyped, Names
<1>4. SendFin(s) \in Tcb
  <2>1. send_ctl(Set(s, {"snd_fin"})) \in Tcb
    BY Names, FlagsTyped, SendCtlTyped
  <2> QED
    BY <2>1, FlagsTyped, Names DEF SendFin
<1>5. UserClose(s) \in Tcb
  <2>1. UserClose(s) \in {t_close(s, "UCLOSED"), Go(SendFin(s), "FIN_W1"),
                          Go(SendFin(s), "CLOSING2"), s}
    BY DEF UserClose, cls_opn, fw1_syr, cl2_clw
  <2> QED
    BY <1>4, <2>1, CloseTyped, GoTyped, Names
<1>6. cls_nsy(s) \in Tcb
  BY CloseTyped, Names DEF cls_nsy
<1>7. cls_syn(s) \in Tcb
  <2>1. send_null(Set(s, {"snd_rst"})) \in Tcb
    BY Names, FlagsTyped, SendNullTyped
  <2>2. Reset(send_null(Set(s, {"snd_rst"})), {"snd_rst"}) \in Tcb
    BY <2>1, FlagsTyped, Names
  <2> QED
    BY <2>2, CloseTyped, Names DEF cls_syn
<1> QED
  BY <1>1, <1>2, <1>3, <1>5, <1>6, <1>7

(* The wait at the end, and the end.                                       *)
LEMMA EndsTyped ==
    ASSUME NEW s \in Tcb
    PROVE  /\ Wait2ML(s) \in Tcb /\ Finish(s) \in Tcb
           /\ \A st \in State : AtFin(s, st) \in Tcb /\ AtFinWait(s, st) \in Tcb
<1>1. Wait2ML(s) \in Tcb
  <2>1. Reset(s, {"waited_2_ml"}) \in Tcb
    BY FlagsTyped, Names
  <2> QED
    BY <2>1, TimersTyped, Names DEF Wait2ML
<1>2. Finish(s) \in Tcb
  BY CloseTyped, GoTyped, Names DEF Finish
<1>3. ASSUME NEW st \in State PROVE AtFin(s, st) \in Tcb /\ AtFinWait(s, st) \in Tcb
  BY <1>1, GoTyped DEF AtFin, AtFinWait
<1> QED
  BY <1>1, <1>2, <1>3

(* A segment for a listener, or for one who has sent a SYN.                *)
LEMMA OpenersTyped ==
    ASSUME NEW s \in Tcb, NEW n \in Segment
    PROVE  lis_netr(s, n) \in Tcb /\ sys_netr(s, n) \in Tcb
<1> DEFINE r == rcv_data(s, n)
           w == Wait2ML(r)
           p == present_data(r)
<1>1. r \in Tcb
  BY RcvDataTyped
<1>2. lis_netr(s, n) \in {t_close(s, "UNRCH"), Go(w, "CLOSE_WAIT"),
                          Go(Start(r, {"init"}), "L_SYN_RCVD")}
  BY DEF lis_netr
<1>3. sys_netr(s, n) \in {Go(w, "CLOSE_WAIT"), Go(p, "CLOSE_WAIT"), Go(r, "CLOSE_WAIT"),
                          Go(p, "ESTAB"), Go(r, "SYN_RCVD")}
  BY DEF sys_netr
<1> HIDE DEF r
<1>4. w \in Tcb /\ p \in Tcb /\ Start(r, {"init"}) \in Tcb
  BY <1>1, EndsTyped, PresentTyped, TimersTyped, Names
<1> HIDE DEF w, p
<1>5. \A st \in State : /\ Go(w, st) \in Tcb /\ Go(p, st) \in Tcb /\ Go(r, st) \in Tcb
                        /\ Go(Start(r, {"init"}), st) \in Tcb
  BY <1>1, <1>4, GoTyped
<1>6. t_close(s, "UNRCH") \in Tcb
  BY CloseTyped, Names
<1> QED
  BY <1>2, <1>3, <1>5, <1>6, Names

(* A segment for a connection that both ends know of.                      *)
LEMMA EstablishedTyped ==
    ASSUME NEW s \in Tcb, NEW n \in Segment
    PROVE  /\ syr_netr(s, n) \in Tcb /\ est_netr(s, n) \in Tcb
           /\ fw1_netr(s, n) \in Tcb /\ fw2_netr(s, n) \in Tcb
<1> DEFINE t == Take(s, n)
           r == send(t)
           w == Wait2ML(r)
<1>1. t \in Tcb
  BY TakeTyped
<1>2. fw1_netr(s, n) \in {Go(w, "TIME_WAIT"), Go(w, "CLOSING1"), Go(r, "FIN_W2"), r}
  BY DEF fw1_netr
<1>3. /\ syr_netr(s, n) \in {s, AtFin(Go(t, "ESTAB"), "CLOSE_WAIT")}
      /\ est_netr(s, n) = AtFin(t, "CLOSE_WAIT")
      /\ fw2_netr(s, n) = AtFinWait(t, "TIME_WAIT")
  BY DEF syr_netr, est_netr, fw2_netr
<1> HIDE DEF t
<1>4. r \in Tcb
  BY <1>1, SendTyped
<1> HIDE DEF r
<1>5. w \in Tcb
  BY <1>4, EndsTyped
<1> HIDE DEF w
<1>6. \A st \in State : Go(w, st) \in Tcb /\ Go(r, st) \in Tcb /\ Go(t, st) \in Tcb
  BY <1>1, <1>4, <1>5, GoTyped
<1>7. fw1_netr(s, n) \in Tcb
  BY <1>2, <1>4, <1>6, Names
<1>8. Go(t, "ESTAB") \in Tcb
  BY <1>6, Names
<1>9. /\ AtFin(Go(t, "ESTAB"), "CLOSE_WAIT") \in Tcb /\ AtFin(t, "CLOSE_WAIT") \in Tcb
      /\ AtFinWait(t, "TIME_WAIT") \in Tcb
  BY <1>1, <1>8, EndsTyped, Names
<1> QED
  BY <1>3, <1>7, <1>9

(* A segment for an end that has closed, or whose peer has.                *)
LEMMA ClosersTyped ==
    ASSUME NEW s \in Tcb, NEW n \in Segment
    PROVE  /\ cl1_netr(s, n) \in Tcb /\ cl2_netr(s, n) \in Tcb
           /\ cwt_netr(s, n) \in Tcb /\ rwt_netr(s, n) \in Tcb
<1> DEFINE t == Take(s, n)
           c == rcv_ctl(s, n)
           w == Wait2ML(c)
<1>1. t \in Tcb /\ c \in Tcb
  BY TakeTyped, RcvDataTyped
<1>2. /\ cl1_netr(s, n) \in {Go(w, "TIME_WAIT"), Finish(s), Go(s, "TIME_WAIT"), w, t}
      /\ cl2_netr(s, n) \in {Finish(s), send_ctl(s), t}
      /\ cwt_netr(s, n) \in {w, send_ctl(s), t}
      /\ rwt_netr(s, n) \in {w, s}
  <2>1. cl1_netr(s, n) \in {Go(w, "TIME_WAIT"), Finish(s), Go(s, "TIME_WAIT"), w, t}
    BY DEF cl1_netr
  <2> QED
    BY <2>1 DEF cl2_netr, cwt_netr, rwt_netr
<1> HIDE DEF t, c
<1>3. w \in Tcb
  BY <1>1, EndsTyped
<1> HIDE DEF w
<1>4. Go(w, "TIME_WAIT") \in Tcb /\ Go(s, "TIME_WAIT") \in Tcb
  BY <1>3, GoTyped, Names
<1>5. Finish(s) \in Tcb /\ send_ctl(s) \in Tcb
  BY EndsTyped, SendCtlTyped
<1> QED
  BY <1>1, <1>2, <1>3, <1>4, <1>5

(* The column N:RECEIVE of fstab has an entry for every state in which     *)
(* netprepr() gets that far.                                               *)
LEMMA ReceiveTyped ==
    ASSUME NEW s \in Tcb, NEW n \in Segment,
           s.state \notin {"NEW", "CLOSED", "LISTEN", "SYN_SENT"}
    PROVE  INRECV(s, n) \in Tcb
<1>1. s.state \in {"SYN_RCVD", "L_SYN_RCVD", "ESTAB", "FIN_W1", "FIN_W2", "TIME_WAIT",
                   "CLOSE_WAIT", "CLOSING1", "CLOSING2", "RCV_WAIT"}
  BY Fields, Names
<1>2. INRECV(s, n) \in {syr_netr(s, n), est_netr(s, n), fw1_netr(s, n), fw2_netr(s, n),
                        Take(s, n), cwt_netr(s, n), cl1_netr(s, n), cl2_netr(s, n),
                        rwt_netr(s, n)}
  BY <1>1 DEF INRECV
<1> QED
  BY <1>2, EstablishedTyped, ClosersTyped, TakeTyped

(* netprepr() and what follows.                                            *)
LEMMA PreprTyped ==
    ASSUME NEW s \in Tcb, NEW n \in Segment, s.state \notin {"NEW", "CLOSED"}
    PROVE  netprepr(s, n) \in Tcb
<1>1. send_rst(s, n) \in Tcb /\ t_close(s, "URESET") \in Tcb
  BY SendRstTyped, CloseTyped, Names
<1>2. t_close(send_rst(s, n), "URESET") \in Tcb
  BY <1>1, CloseTyped, Names
<1>3. GoodReset(s, n) \in Tcb
  <2>1. Cancel(s, {"rexmt", "rexmttl", "persist"}) \in Tcb
    BY TimersTyped, Names
  <2>2. Go(Cancel(s, {"rexmt", "rexmttl", "persist"}), "LISTEN") \in Tcb
    BY <2>1, GoTyped, Names
  <2> QED
    BY <1>1, <2>2 DEF GoodReset
<1>4. Unsynced(s, n) \in Tcb /\ Listening(s, n) \in Tcb
  BY <1>1, OpenersTyped DEF Unsynced, Listening
<1>5. ASSUME s.state \notin {"LISTEN", "SYN_SENT"} PROVE Others(s, n) \in Tcb
  <2>1. INRECV(s, n) \in Tcb
    BY <1>5, ReceiveTyped
  <2> QED
    BY <1>1, <1>2, <1>3, <2>1 DEF Others
<1>6. CASE s.state = "LISTEN"
  BY <1>4, <1>6 DEF netprepr
<1>7. CASE s.state = "SYN_SENT"
  BY <1>4, <1>7 DEF netprepr
<1>8. CASE s.state \notin {"LISTEN", "SYN_SENT"}
  <2>1. netprepr(s, n) = Others(s, n)
    BY <1>8 DEF netprepr
  <2> QED
    BY <1>5, <1>8, <2>1
<1> QED
  BY <1>6, <1>7, <1>8

(* A segment that is sent back as a reset.                                 *)
LEMMA RefusalTyped ==
    ASSUME NEW n \in Segment
    PROVE  Refusal(n) \in Segment
<1> DEFINE seq == IF n.ack THEN n.ackno ELSE 0
           ackno == IF n.ack THEN n.ackno
                    ELSE n.seq + Len(n.dat) + (IF n.syn THEN 1 ELSE 0)
           ack == ~n.ack
<1>1. n.seq \in Nat /\ n.ackno \in Nat /\ n.ack \in BOOLEAN /\ Len(n.dat) \in Nat
  BY DEF Segment
<1>2. seq \in Nat /\ ackno \in Nat /\ ack \in BOOLEAN /\ <<>> \in Seq(Byte)
  BY <1>1
<1>3. Refusal(n) = [n EXCEPT !.seq = seq, !.ackno = ackno, !.ack = ack, !.rst = TRUE,
                             !.syn = FALSE, !.fin = FALSE, !.dat = <<>>]
  BY DEF Refusal
<1> HIDE DEF seq, ackno, ack
<1>4. \A d \in Seq(Byte) :
        [n EXCEPT !.seq = seq, !.ackno = ackno, !.ack = ack, !.rst = TRUE,
                  !.syn = FALSE, !.fin = FALSE, !.dat = d] \in Segment
  BY <1>2 DEF Segment
<1> QED
  BY <1>2, <1>3, <1>4

(* What a timer does when it runs out.                                     *)
LEMMA TimersExpireTyped ==
    ASSUME NEW s \in Tcb, NEW t \in Timer
    PROVE  timers(s, t) \in Tcb
<1>1. InitExpires(s) \in Tcb
  BY CloseTyped, Names DEF InitExpires
<1>2. FinAckExpires(s) \in Tcb
  <2>1. FinAckExpires(s) \in {Finish(s), Set(s, {"waited_2_ml"}), s}
    BY DEF FinAckExpires
  <2> QED
    BY <2>1, EndsTyped, FlagsTyped, Names
<1>3. RexmtExpires(s) \in Tcb
  <2> DEFINE r == [s EXCEPT !.nxt = s.una]
  <2>1. r \in Tcb
    BY Fields, Assigned
  <2>2. RexmtExpires(s) \in {s, send(Set(r, {"rexmt"}))}
    BY DEF RexmtExpires
  <2> HIDE DEF r
  <2>3. Set(r, {"rexmt"}) \in Tcb
    BY <2>1, FlagsTyped, Names
  <2> QED
    BY <2>2, <2>3, SendTyped
<1>4. RexmtTooLong(s) \in Tcb
  <2>1. to_user(s, "URXTIMO") \in Tcb
    BY ToUserTyped, Names
  <2>2. /\ t_close(s, "URXTIMO") \in Tcb
        /\ t_close(to_user(s, "URXTIMO"), "URXTIMO") \in Tcb
    BY <2>1, CloseTyped, Names
  <2>3. RexmtTooLong(s) \in {s, to_user(s, "URXTIMO"), t_close(s, "URXTIMO"),
                             t_close(to_user(s, "URXTIMO"), "URXTIMO")}
    BY DEF RexmtTooLong
  <2> QED
    BY <2>1, <2>2, <2>3
<1>5. PersistExpires(s) \in Tcb
  <2>1. Set(s, {"force_one"}) \in Tcb
    BY FlagsTyped, Names
  <2> QED
    BY <2>1, SendTyped DEF PersistExpires
<1>6. timers(s, t) \in {InitExpires(s), FinAckExpires(s), RexmtExpires(s), RexmtTooLong(s),
                        PersistExpires(s)}
  BY DEF timers, Timer
<1> QED
  BY <1>1, <1>2, <1>3, <1>4, <1>5, <1>6

-----------------------------------------------------------------------------
(* The actions *)

(* What h has at the beginning of an action.                               *)
LEMMA EnterTyped ==
    ASSUME TypeOK, NEW h \in Host, NEW s \in Enter(h)
    PROVE  s \in Tcb /\ s.state = tcb[h].state
<1>1. tcb[h] \in Tcb
  BY DEF TypeOK
<1>2. s = tcb[h] \/ \E f \in {"failing", "no_if"} : s = Set(tcb[h], {f})
  BY DEF Enter
<1>3. \A f \in {"failing", "no_if"} : Set(tcb[h], {f}) \in Tcb
  BY <1>1, FlagsTyped, Names
<1>4. \A f \in {"failing", "no_if"} : Set(tcb[h], {f}).state = tcb[h].state
  BY <1>1 DEF Set, Tcb
<1> QED
  BY <1>1, <1>2, <1>3, <1>4

(* The end of an action.                                                   *)
LEMMA LeaveTyped ==
    ASSUME TypeOK, NEW h \in Host, NEW s \in Tcb, Leave(h, s)
    PROVE  tcb' \in [Host -> Tcb] /\ net' \in [Host -> SUBSET Segment]
<1> DEFINE r == Reset(s, {"ack_due", "new_window", "failing", "no_if"})
           t == [r EXCEPT !.out = <<>>]
<1>1. r \in Tcb
  BY FlagsTyped, Names
<1>2. tcb' = [tcb EXCEPT ![h] = t] /\ net' = [net EXCEPT ![h] = @ \cup ToSet(s.out)]
  BY DEF Leave
<1> HIDE DEF r
<1>3. t \in Tcb
  <2>1. <<>> \in Seq(Segment)
    OBVIOUS
  <2> QED
    BY <1>1, <2>1, Assigned
<1> HIDE DEF t
<1>4. ToSet(s.out) \in SUBSET Segment
  <2>1. s.out \in Seq(Segment)
    BY Fields
  <2> QED
    BY <2>1 DEF ToSet
<1>5. tcb \in [Host -> Tcb] /\ net \in [Host -> SUBSET Segment]
  BY DEF TypeOK
<1>6. net[h] \cup ToSet(s.out) \in SUBSET Segment
  BY <1>4, <1>5
<1> QED
  BY <1>2, <1>3, <1>5, <1>6

(* Most actions enter, make something of the control block, and leave.     *)
LEMMA StepTyped ==
    ASSUME TypeOK, NEW h \in Host, NEW s \in Tcb, Leave(h, s), UNCHANGED <<wrote, got>>
    PROVE  TypeOK'
BY LeaveTyped DEF TypeOK

(* The calls of the user.                                                  *)
LEMMA OpenType ==
    ASSUME TypeOK, NEW h \in Host, Open(h)
    PROVE  TypeOK'
<1>1. PICK s \in Enter(h) : Leave(h, IF plan.opens[h] = "active" THEN sys_cls(s) ELSE lis_cls(s))
  BY DEF Open
<1>2. sys_cls(s) \in Tcb /\ lis_cls(s) \in Tcb
  BY EnterTyped, CallsTyped
<1>3. UNCHANGED <<wrote, got>>
  BY DEF Open
<1> QED
  BY <1>1, <1>2, <1>3, StepTyped

(* sss_snd(): the byte written is the next one of the send buffer.          *)
LEMMA WriteType ==
    ASSUME TypeOK, NEW h \in Host, Write(h)
    PROVE  TypeOK'
<1>1. PICK s \in Enter(h) : Leave(h, send([s EXCEPT !.sbuf = Append(@, wrote[h] + 1)]))
  BY DEF Write
<1>2. wrote \in [Host -> Nat] /\ wrote' = [wrote EXCEPT ![h] = @ + 1] /\ got' = got
  BY DEF Write, TypeOK
<1>3. s \in Tcb
  BY EnterTyped
<1>4. Append(s.sbuf, wrote[h] + 1) \in Seq(Byte)
  <2>1. s.sbuf \in Seq(Byte) /\ wrote[h] + 1 \in Byte
    BY <1>2, <1>3, Fields DEF Byte
  <2> QED
    BY <2>1
<1>5. [s EXCEPT !.sbuf = Append(s.sbuf, wrote[h] + 1)] \in Tcb
  BY <1>3, <1>4, Assigned
<1>6. send([s EXCEPT !.sbuf = Append(s.sbuf, wrote[h] + 1)]) \in Tcb
  BY <1>5, SendTyped
<1>7. tcb' \in [Host -> Tcb] /\ net' \in [Host -> SUBSET Segment]
  BY <1>1, <1>6, LeaveTyped
<1>8. wrote' \in [Host -> Nat] /\ got' \in [Host -> Seq(Byte)]
  BY <1>2 DEF TypeOK
<1> QED
  BY <1>7, <1>8 DEF TypeOK

(* tcp_read(): the byte leaves the receive buffer for the user.             *)
LEMMA ReadType ==
    ASSUME TypeOK, NEW h \in Host, Read(h)
    PROVE  TypeOK'
<1> DEFINE b == tcb[h].rbuf
           s == [tcb[h] EXCEPT !.rbuf = Tail(b)]
<1>1. tcb[h] \in Tcb /\ b # <<>> /\ got[h] \in Seq(Byte)
  BY DEF TypeOK, Read
<1>2. b \in Seq(Byte)
  BY <1>1, Fields
<1>3. Head(b) \in Byte /\ Tail(b) \in Seq(Byte)
  BY <1>1, <1>2, HeadTailProperties
<1>4. tcb' = [tcb EXCEPT ![h] = s] /\ got' = [got EXCEPT ![h] = Append(got[h], Head(b))]
      /\ net' = net /\ wrote' = wrote
  BY DEF Read, TypeOK
<1> HIDE DEF b
<1>5. s \in Tcb
  BY <1>1, <1>3, Assigned
<1>6. Append(got[h], Head(b)) \in Seq(Byte)
  BY <1>1, <1>3
<1> HIDE DEF s
<1> QED
  BY <1>4, <1>5, <1>6 DEF TypeOK

(* The user's receive request.                                              *)
LEMMA ReceiveType ==
    ASSUME TypeOK, NEW h \in Host, Receive(h)
    PROVE  TypeOK'
<1>1. PICK s \in Enter(h) : Leave(h, IF s.state = "RCV_WAIT" THEN cls_rwt(s) ELSE present_data(s))
  BY DEF Receive
<1>2. cls_rwt(s) \in Tcb /\ present_data(s) \in Tcb
  BY EnterTyped, CallsTyped, PresentTyped
<1>3. UNCHANGED <<wrote, got>>
  BY DEF Receive
<1> QED
  BY <1>1, <1>2, <1>3, StepTyped

(* The four ways in which a user ends the connection.                       *)
LEMMA CloseType ==
    ASSUME TypeOK, NEW h \in Host, NetClose(h) \/ FileClose(h) \/ Abort(h) \/ Clear(h)
    PROVE  TypeOK'
<1>1. UNCHANGED <<wrote, got>>
  BY DEF NetClose, FileClose, Abort, Clear
<1>2. CASE NetClose(h)
  <2>1. PICK s \in Enter(h) : Leave(h, UserClose(s))
    BY <1>2 DEF NetClose
  <2> QED
    BY <1>1, <2>1, EnterTyped, CallsTyped, StepTyped
<1>3. CASE FileClose(h)
  <2>1. PICK s \in Enter(h) :
          LET r == Set(s, {"usr_abort"})
          IN  Leave(h, IF Is(s, "usr_closed") THEN r ELSE UserClose(r))
    BY <1>3 DEF FileClose
  <2>2. Set(s, {"usr_abort"}) \in Tcb
    BY EnterTyped, FlagsTyped, Names
  <2>3. UserClose(Set(s, {"usr_abort"})) \in Tcb
    BY <2>2, CallsTyped
  <2> QED
    BY <1>1, <2>1, <2>2, <2>3, StepTyped
<1>4. CASE Abort(h)
  <2>1. PICK s \in Enter(h) : Leave(h, IF s.state \in Synced THEN cls_syn(s) ELSE cls_nsy(s))
    BY <1>4 DEF Abort
  <2>2. cls_syn(s) \in Tcb /\ cls_nsy(s) \in Tcb
    BY EnterTyped, CallsTyped
  <2> QED
    BY <1>1, <2>1, <2>2, StepTyped
<1>5. CASE Clear(h)
  <2>1. t_close(tcb[h], "UABORT") \in Tcb
    BY CloseTyped, Names DEF TypeOK
  <2> QED
    BY <1>1, <1>5, <2>1, StepTyped DEF Clear
<1> QED
  BY <1>2, <1>3, <1>4, <1>5

(* A segment comes, or is refused.                                         *)
LEMMA ArriveType ==
    ASSUME TypeOK, NEW h \in Host, NEW n \in net[Peer(h)], Arrive(h, n) \/ Refuse(h, n)
    PROVE  TypeOK'
<1>1. n \in Segment
  <2>1. Peer(h) \in Host
    BY DEF Peer, Host
  <2> QED
    BY <2>1 DEF TypeOK
<1>2. CASE Arrive(h, n)
  <2>1. PICK s \in Enter(h) : Leave(h, netprepr(s, n))
    BY <1>2 DEF Arrive, Handled
  <2>2. s \in Tcb /\ s.state \notin {"NEW", "CLOSED"}
    BY <1>2, EnterTyped DEF Arrive, Exists
  <2>3. netprepr(s, n) \in Tcb
    BY <1>1, <2>2, PreprTyped
  <2>4. UNCHANGED <<wrote, got>>
    BY <1>2 DEF Arrive
  <2> QED
    BY <2>1, <2>3, <2>4, StepTyped
<1>3. CASE Refuse(h, n)
  <2>1. net' = [net EXCEPT ![h] = @ \cup {Refusal(n)}] /\ UNCHANGED <<tcb, wrote, got>>
    BY <1>3 DEF Refuse
  <2>2. Refusal(n) \in Segment
    BY <1>1, RefusalTyped
  <2> QED
    BY <2>1, <2>2 DEF TypeOK
<1> QED
  BY <1>2, <1>3

(* A timer runs out.                                                       *)
LEMMA ExpireType ==
    ASSUME TypeOK, NEW h \in Host, NEW t \in Timer, Expire(h, t)
    PROVE  TypeOK'
<1>1. PICK s \in Enter(h) : Leave(h, timers(Cancel(s, {t}), t))
  BY DEF Expire
<1>2. Cancel(s, {t}) \in Tcb
  BY EnterTyped, TimersTyped
<1>3. timers(Cancel(s, {t}), t) \in Tcb
  BY <1>2, TimersExpireTyped
<1>4. UNCHANGED <<wrote, got>>
  BY DEF Expire
<1> QED
  BY <1>1, <1>3, <1>4, StepTyped

(* A connection that nobody has opened yet.                                *)
LEMMA InitType == Init => TypeOK
<1> SUFFICES ASSUME Init PROVE TypeOK
  OBVIOUS
<1>1. plan.maxseg \in Nat /\ plan.rcv \in Nat
  BY ConnAssumption DEF Init
<1>2. ASSUME NEW h \in Host PROVE Zeroed(Iss[h], plan.maxseg, plan.rcv) \in Tcb
  <2>1. Iss[h] \in Nat
    BY ConnAssumption
  <2> QED
    BY <1>1, <2>1, ZeroedTyped
<1>3. <<>> \in Seq(Byte) /\ 0 \in Nat
  OBVIOUS
<1> QED
  BY <1>2, <1>3 DEF Init, TypeOK

(* Every action of either host keeps the types.                             *)
LEMMA NextType == TypeOK /\ [Next]_vars => TypeOK'
<1> SUFFICES ASSUME TypeOK, [Next]_vars PROVE TypeOK'
  OBVIOUS
<1>1. CASE UNCHANGED vars
  BY <1>1 DEF vars, TypeOK
<1>2. CASE Next
  <2>1. PICK h \in Host :
          \/ Open(h) \/ Write(h) \/ Read(h) \/ Receive(h)
          \/ NetClose(h) \/ FileClose(h) \/ Abort(h) \/ Clear(h)
          \/ \E n \in net[Peer(h)] : Arrive(h, n) \/ Refuse(h, n)
          \/ \E t \in Timer : Expire(h, t)
    BY <1>2 DEF Next
  <2>2. CASE Open(h) \/ Write(h) \/ Read(h) \/ Receive(h)
    BY <2>2, OpenType, WriteType, ReadType, ReceiveType
  <2>3. CASE NetClose(h) \/ FileClose(h) \/ Abort(h) \/ Clear(h)
    BY <2>3, CloseType
  <2>4. CASE \E n \in net[Peer(h)] : Arrive(h, n) \/ Refuse(h, n)
    BY <2>4, ArriveType
  <2>5. CASE \E t \in Timer : Expire(h, t)
    BY <2>5, ExpireType
  <2> QED
    BY <2>1, <2>2, <2>3, <2>4, <2>5
<1> QED
  BY <1>1, <1>2

(* Whatever users, networks and timers do, control blocks, segments and    *)
(* buffers keep their types, and no window, length or sequence number is a *)
(* negative difference.                                                    *)
THEOREM TypeCorrect == Spec => []TypeOK
BY InitType, NextType, PTL DEF Spec

=============================================================================
