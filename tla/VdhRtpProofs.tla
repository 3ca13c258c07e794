---------------------------- MODULE VdhRtpProofs ----------------------------
(***************************************************************************)
(* Theorems on VdhRtp: first what is true of each driver, new beginnings   *)
(* included, and then of the link that two of them make.                   *)
(***************************************************************************)
EXTENDS VdhRtp, TLAPS

(* What impoq holds: a message has a piece.                                *)
Message == Seq(Piece) \ {<<>>}

(* What is true of the variables of a driver besides their types: no       *)
(* message is empty; a hello is always due, unless the line has been given *)
(* up, which then waits to be initialised.                                 *)
DriverOK(s) ==
    /\ s \in End
    /\ s.q \in Seq(Message)
    /\ s.hellonext > 0
    /\ s.open /\ "VDHILAST" \in s.st => s.imsg # <<>>
    /\ s.open /\ s.hellonext = Never => s.needinit

(* The flags that output leaves alone.                                     *)
Lasting == {"UP", "TRYING", "VDHILAST", "VDHINEED"}

(* From s to t, only what has to do with output has changed.               *)
Kept(s, t) ==
    /\ t.open = s.open /\ t.needinit = s.needinit
    /\ t.ichn = s.ichn /\ t.ack = s.ack /\ t.prv = s.prv /\ t.imsg = s.imsg
    /\ t.hellonext = s.hellonext /\ t.inarow = s.inarow
    /\ t.st \cap Lasting = s.st \cap Lasting

-----------------------------------------------------------------------------
(* Types *)

(* The constants, in the form in which the proofs need them.               *)
LEMMA Numbers ==
    /\ HoldOff \in Nat /\ HoldOff > 0 /\ R \in Nat /\ R > 0 /\ T \in Nat /\ T > 0
    /\ Silence \in Nat /\ Silence > 0 /\ Never \in Nat /\ Silence < Never /\ R < Never
    /\ Nops \in Nat /\ CharMax \in Nat /\ K \in Nat
<1> DEFINE x == T * R
<1>1. HoldOff \in Nat /\ HoldOff > 0 /\ R \in Nat /\ R > 0 /\ T \in Nat /\ T > 0
        /\ Nops \in Nat /\ CharMax \in Nat /\ K \in Nat
  BY VdhAssumption
<1>2. x \in Nat /\ x > 0 /\ x >= R
  BY <1>1
<1>3. 2 * T * R = 2 * x
  BY <1>1
<1> HIDE DEF x
<1>4. QED
  BY <1>1, <1>2, <1>3 DEF Silence, Never

(* One turn of the loop of fillochans(): the types, and what it leaves.    *)
LEMMA FillType ==
    ASSUME NEW s, DriverOK(s)
    PROVE  DriverOK(FillChan(s)) /\ Kept(s, FillChan(s)) /\ FillChan(s).wire = s.wire
            /\ FillChan(s).st = s.st
<1> DEFINE c == s.ofill
           m == IF s.msg = <<>> THEN Head(s.q) ELSE s.msg
           t == FillChan(s)
<1>1. CASE s.use[c] # Free \/ (s.msg = <<>> /\ s.q = <<>>)
  BY <1>1 DEF FillChan, DriverOK, Kept
<1>2. CASE ~(s.use[c] # Free \/ (s.msg = <<>> /\ s.q = <<>>))
  <2>1. c \in Chan /\ 1 - c \in Chan
    BY DEF DriverOK, End, Chan
  <2>2. m \in Seq(Piece) /\ m # <<>>
    BY <1>2 DEF DriverOK, End, Message
  <2>3. Head(m) \in Piece /\ Tail(m) \in Seq(Piece)
    BY <2>2
  <2>4. s.prv[c] \in Bit
    BY <2>1 DEF DriverOK, End
  <2> DEFINE b == [t |-> "data", ack |-> NoBits, ch |-> c, bit |-> s.prv[c], pc |-> Head(m)]
             u == IF s.msg = <<>> THEN Tail(s.q) ELSE s.q
  <2>5. b \in Packet
    BY <2>1, <2>3, <2>4 DEF Packet, NoBits, Bit
  <2>6. u \in Seq(Message) /\ u \in Seq(Seq(Piece))
    BY <1>2 DEF DriverOK, End, Message
  <2>7. t = [s EXCEPT !.q = u, !.msg = Tail(m), !.buf[c] = b, !.use[c] = 0, !.ofill = 1 - c]
    BY <1>2 DEF FillChan
  <2>8. 0 \in Free .. HoldOff
    BY Numbers DEF Free
  <2> HIDE DEF c, m, t, b, u
  <2>9. t \in End
    BY <2>1, <2>3, <2>5, <2>6, <2>7, <2>8 DEF DriverOK, End
  <2>10. QED
    BY <2>6, <2>7, <2>9, ZenonT(30) DEF DriverOK, Kept, End, t
<1>3. QED
  BY <1>1, <1>2

(* fillochans() as a whole.                                                *)
LEMMA FillBothType ==
    ASSUME NEW s, DriverOK(s)
    PROVE  DriverOK(fillochans(s)) /\ Kept(s, fillochans(s))
            /\ fillochans(s).wire = s.wire /\ fillochans(s).st = s.st
<1> DEFINE t == FillChan(s)
<1>1. DriverOK(t) /\ Kept(s, t) /\ t.wire = s.wire /\ t.st = s.st
  BY FillType
<1> HIDE DEF t
<1>2. DriverOK(FillChan(t)) /\ Kept(t, FillChan(t)) /\ FillChan(t).wire = t.wire
        /\ FillChan(t).st = t.st
  BY <1>1, FillType
<1>3. fillochans(s) = FillChan(t)
  BY DEF fillochans, t
<1>4. QED
  BY <1>1, <1>2, <1>3 DEF Kept

(* A packet goes out.                                                      *)
LEMMA SendType ==
    ASSUME NEW s, DriverOK(s), NEW p \in Packet
    PROVE  DriverOK(vdhsnd(s, p)) /\ Kept(s, vdhsnd(s, p))
<1>1. s.st \cup {"OUTBUSY"} \in SUBSET Flag
  BY DEF DriverOK, End, Flag
<1>2. Append(s.wire, p) \in Seq(Packet)
  BY DEF DriverOK, End
<1>3. vdhsnd(s, p) \in End
  BY <1>1, <1>2 DEF vdhsnd, With, DriverOK, End
<1>4. QED
  BY <1>3 DEF vdhsnd, With, DriverOK, End, Kept, Lasting

(* Flags of the output are set or cleared.                                 *)
LEMMA FlagType ==
    ASSUME NEW s, DriverOK(s), NEW F \in SUBSET Flag, F \cap Lasting = {}
    PROVE  /\ DriverOK(With(s, F)) /\ Kept(s, With(s, F))
           /\ DriverOK(Without(s, F)) /\ Kept(s, Without(s, F))
<1>1. s.st \cup F \in SUBSET Flag /\ s.st \ F \in SUBSET Flag
  BY DEF DriverOK, End
<1>2. With(s, F) \in End /\ Without(s, F) \in End
  BY <1>1 DEF With, Without, DriverOK, End
<1>3. "VDHILAST" \notin F
  BY DEF Lasting
<1>4. (s.st \cup F) \cap Lasting = s.st \cap Lasting
        /\ (s.st \ F) \cap Lasting = s.st \cap Lasting
  OBVIOUS
<1>5. QED
  BY <1>2, <1>3, <1>4 DEF With, Without, DriverOK, End, Kept

(* The words that are sent without data.                                   *)
LEMMA WordType ==
    ASSUME NEW t \in {"hello", "ihy", "null"}, NEW a \in [Chan -> Bit]
    PROVE  Word(t, a) \in Packet
BY DEF Word, Packet, NoPiece, Piece, Chan, Bit

(* What vdhostart() sends of the data.                                     *)
LEMMA SendChanType ==
    ASSUME NEW s, DriverOK(s), NEW c \in Chan
    PROVE  DriverOK(SendChan(s, c)) /\ Kept(s, SendChan(s, c))
<1> DEFINE p == [s.buf[c] EXCEPT !.ack = s.ack]
           t == vdhsnd(s, p)
           u == [t EXCEPT !.osnd = c, !.use[c] = HoldOff]
<1>1. p \in Packet
  <2>1. s.buf[c] \in Packet /\ s.ack \in [Chan -> Bit]
    BY DEF DriverOK, End
  <2>2. QED
    BY <2>1 DEF Packet
<1> HIDE DEF p
<1>2. DriverOK(t) /\ Kept(s, t)
  BY <1>1, SendType
<1> HIDE DEF t
<1>3. HoldOff \in Free .. HoldOff
  BY Numbers DEF Free
<1>4. u \in End
  BY <1>2, <1>3 DEF DriverOK, End
<1>5. DriverOK(u) /\ Kept(s, u)
  BY <1>2, <1>4 DEF DriverOK, Kept, End
<1>6. SendChan(s, c) = Without(u, {"ACK2SND"})
  BY DEF SendChan, t, p
<1> HIDE DEF u
<1>7. QED
  BY <1>5, <1>6, FlagType DEF Flag, Lasting, Kept

(* SendData() sends a packet of a channel, or an ack, or nothing.          *)
LEMMA SendDataType ==
    ASSUME NEW s, DriverOK(s)
    PROVE  DriverOK(SendData(s)) /\ Kept(s, SendData(s))
<1>1. s.osnd \in Chan /\ 1 - s.osnd \in Chan /\ s.ack \in [Chan -> Bit]
  BY DEF DriverOK, End, Chan
<1> DEFINE p == Word("null", s.ack)
           t == vdhsnd(s, p)
<1>2. p \in Packet
  BY <1>1, WordType
<1> HIDE DEF p
<1>3. DriverOK(t) /\ Kept(s, t)
  BY <1>2, SendType
<1> HIDE DEF t
<1>4. DriverOK(Without(t, {"ACK2SND"})) /\ Kept(t, Without(t, {"ACK2SND"}))
  BY <1>3, FlagType DEF Flag, Lasting
<1>5. Kept(s, s) /\ Kept(s, Without(t, {"ACK2SND"}))
  BY <1>3, <1>4 DEF Kept
<1>6. QED
  BY <1>1, <1>4, <1>5, SendChanType DEF SendData, t, p

(* vdhostart(), of which every case is a word, or data.                    *)
LEMMA StartType ==
    ASSUME NEW s, DriverOK(s)
    PROVE  /\ DriverOK(vdhostart(s)) /\ Kept(s, vdhostart(s))
           /\ DriverOK(StartIfIdle(s)) /\ Kept(s, StartIfIdle(s))
<1> DEFINE ihy == Word("ihy", NoBits)
           hello == Word("hello", NoBits)
           h == vdhsnd(s, hello)
           g == [h EXCEPT !.unacked = IF @ > T THEN @ ELSE @ + 1]
<1>1. ihy \in Packet /\ hello \in Packet
  BY WordType DEF NoBits, Bit
<1> HIDE DEF ihy, hello
<1>2. DriverOK(Without(vdhsnd(s, ihy), {"SAWHELLO"}))
        /\ Kept(s, Without(vdhsnd(s, ihy), {"SAWHELLO"}))
  <2> DEFINE v == vdhsnd(s, ihy)
  <2>1. DriverOK(v) /\ Kept(s, v)
    BY <1>1, SendType
  <2> HIDE DEF v
  <2>2. DriverOK(Without(v, {"SAWHELLO"})) /\ Kept(v, Without(v, {"SAWHELLO"}))
    BY <2>1, FlagType DEF Flag, Lasting
  <2>3. QED
    BY <2>1, <2>2 DEF v, Kept
<1>3. DriverOK(Without(g, {"SENDHELLO"})) /\ Kept(s, Without(g, {"SENDHELLO"}))
  <2>1. DriverOK(h) /\ Kept(s, h)
    BY <1>1, SendType
  <2> HIDE DEF h
  <2>2. (IF h.unacked > T THEN h.unacked ELSE h.unacked + 1) \in 0 .. T + 1
    <3>1. h.unacked \in 0 .. T + 1 /\ T \in Nat
      BY <2>1, Numbers DEF DriverOK, End
    <3>2. QED
      BY <3>1
  <2>3. g \in End
    BY <2>1, <2>2 DEF DriverOK, End
  <2>4. DriverOK(g) /\ Kept(s, g)
    BY <2>1, <2>3 DEF DriverOK, Kept
  <2> HIDE DEF g
  <2>5. QED
    BY <2>4, FlagType DEF Flag, Lasting, Kept
<1>4. DriverOK(SendData(fillochans(s))) /\ Kept(s, SendData(fillochans(s)))
  BY FillBothType, SendDataType DEF Kept
<1>5. Kept(s, s)
  BY DEF Kept
<1>6. DriverOK(vdhostart(s)) /\ Kept(s, vdhostart(s))
  <2>1. CASE "TRYING" \notin s.st
    BY <2>1, <1>5 DEF vdhostart
  <2>2. CASE "TRYING" \in s.st /\ "SAWHELLO" \in s.st
    BY <2>2, <1>2 DEF vdhostart, ihy
  <2>3. CASE "TRYING" \in s.st /\ "SAWHELLO" \notin s.st /\ "SENDHELLO" \in s.st
    BY <2>3, <1>3 DEF vdhostart, hello
  <2>4. CASE "TRYING" \in s.st /\ "SAWHELLO" \notin s.st /\ "SENDHELLO" \notin s.st
    BY <2>4, <1>4, <1>5 DEF vdhostart
  <2>5. QED
    BY <2>1, <2>2, <2>3, <2>4
<1>7. QED
  BY <1>5, <1>6 DEF StartIfIdle

(* From s to t, only what has to do with packets has changed.              *)
KeptIn(s, t) ==
    /\ t.open = s.open /\ t.needinit = s.needinit /\ t.hellonext = s.hellonext
    /\ t.wire = s.wire
    /\ t.st \cap {"UP", "TRYING"} = s.st \cap {"UP", "TRYING"}
    /\ s.st \cap {"VDHILAST", "VDHINEED"} \subseteq t.st

(* What comes in: the acks of a packet ...                                 *)
LEMMA AcksType ==
    ASSUME NEW s, DriverOK(s), NEW a \in [Chan -> Bit]
    PROVE  DriverOK(TakeAcks(s, a)) /\ KeptIn(s, TakeAcks(s, a))
<1> DEFINE A == Turned(s, a)
           u == [c \in Chan |-> IF c \in A THEN Free ELSE s.use[c]]
           f == IF A = {} THEN s.st ELSE s.st \cup {"OUT2GO"}
           t == TakeAcks(s, a)
<1>1. u \in [Chan -> Free .. HoldOff]
  <2>1. Free \in Free .. HoldOff /\ s.use \in [Chan -> Free .. HoldOff]
    BY Numbers DEF Free, DriverOK, End
  <2>2. QED
    BY <2>1
<1>2. /\ f \in SUBSET Flag /\ s.st \subseteq f
      /\ f \cap {"UP", "TRYING"} = s.st \cap {"UP", "TRYING"}
      /\ "VDHILAST" \in f => "VDHILAST" \in s.st
  BY DEF DriverOK, End, Flag
<1>3. t = [s EXCEPT !.use = u, !.prv = a, !.st = f]
  BY DEF TakeAcks
<1> HIDE DEF u, f, t
<1>4. t \in End
  BY <1>1, <1>2, <1>3 DEF DriverOK, End
<1>5. /\ t.st = f /\ t.q = s.q /\ t.hellonext = s.hellonext /\ t.imsg = s.imsg
      /\ t.open = s.open /\ t.needinit = s.needinit /\ t.wire = s.wire
  BY <1>3 DEF DriverOK, End
<1>6. DriverOK(t)
  BY <1>2, <1>4, <1>5 DEF DriverOK
<1>7. KeptIn(s, t)
  BY <1>2, <1>5 DEF KeptIn
<1>8. QED
  BY <1>6, <1>7 DEF t

(* ... the packet itself, when it is the next one ...                      *)
LEMMA PacketType ==
    ASSUME NEW s, DriverOK(s), NEW p \in Packet
    PROVE  DriverOK(TakePacket(s, p)) /\ KeptIn(s, TakePacket(s, p))
<1> DEFINE c == s.ichn
           f == IF p.pc.last THEN s.st \cup {"VDHILAST"} ELSE s.st
           t == TakePacket(s, p)
<1>1. c \in Chan /\ 1 - c \in Chan /\ s.ack \in [Chan -> Bit]
  BY DEF DriverOK, End, Chan
<1>2. 1 - s.ack[c] \in Bit
  BY <1>1 DEF Bit
<1>3. p.pc \in Piece
  BY DEF Packet
<1>4. Append(s.imsg, p.pc) \in Seq(Piece) /\ Append(s.imsg, p.pc) # <<>>
  <2>1. s.imsg \in Seq(Piece)
    BY DEF DriverOK, End
  <2>2. Len(Append(s.imsg, p.pc)) = Len(s.imsg) + 1
    BY <1>3, <2>1
  <2>3. QED
    BY <1>3, <2>1, <2>2
<1>5. /\ f \in SUBSET Flag /\ s.st \subseteq f
      /\ f \cap {"UP", "TRYING"} = s.st \cap {"UP", "TRYING"}
  BY DEF DriverOK, End, Flag
<1>6. t = [s EXCEPT !.imsg = Append(s.imsg, p.pc), !.ack[c] = 1 - s.ack[c],
                    !.ichn = 1 - c, !.st = f]
  BY DEF TakePacket
<1> HIDE DEF c, f, t
<1>7. t \in End
  BY <1>1, <1>2, <1>4, <1>5, <1>6 DEF DriverOK, End
<1>8. /\ t.st = f /\ t.q = s.q /\ t.hellonext = s.hellonext
      /\ t.imsg = Append(s.imsg, p.pc)
      /\ t.open = s.open /\ t.needinit = s.needinit /\ t.wire = s.wire
  BY <1>6 DEF DriverOK, End
<1>9. DriverOK(t)
  BY <1>4, <1>7, <1>8 DEF DriverOK
<1>10. KeptIn(s, t)
  BY <1>5, <1>8 DEF KeptIn
<1>11. QED
  BY <1>9, <1>10 DEF t

(* ... the flags that only the input process and the output read ...       *)
LEMMA WithType ==
    ASSUME NEW s, DriverOK(s), NEW F \in SUBSET Flag,
           F \cap {"UP", "TRYING", "VDHILAST"} = {}
    PROVE  DriverOK(With(s, F)) /\ KeptIn(s, With(s, F))
<1>1. s.st \cup F \in SUBSET Flag
  BY DEF DriverOK, End
<1>2. With(s, F) \in End
  BY <1>1 DEF With, DriverOK, End
<1>3. QED
  BY <1>1, <1>2 DEF With, DriverOK, KeptIn, End

(* ... and a data packet as a whole.                                       *)
LEMMA DataType ==
    ASSUME NEW s, DriverOK(s), NEW p \in Packet, NEW short \in BOOLEAN
    PROVE  DriverOK(TakeData(s, p, short)) /\ KeptIn(s, TakeData(s, p, short))
<1> DEFINE a == With(s, {"ACK2SND", "OUT2GO"})
<1>1. DriverOK(a) /\ KeptIn(s, a)
  BY WithType DEF Flag
<1> HIDE DEF a
<1>2. DriverOK(With(a, {"VDHINEED"})) /\ KeptIn(a, With(a, {"VDHINEED"}))
  BY <1>1, WithType DEF Flag
<1>3. DriverOK(TakePacket(a, p)) /\ KeptIn(a, TakePacket(a, p))
  BY <1>1, PacketType
<1>4. KeptIn(s, With(a, {"VDHINEED"})) /\ KeptIn(s, TakePacket(a, p))
  BY <1>1, <1>2, <1>3 DEF KeptIn
<1>5. TakeData(s, p, short) \in {a, With(a, {"VDHINEED"}), TakePacket(a, p)}
  BY DEF TakeData, a
<1>6. QED
  BY <1>1, <1>2, <1>3, <1>4, <1>5

(* One turn of the loop of vdhiint().                                      *)
LEMMA ReceiveType ==
    ASSUME NEW s, DriverOK(s), NEW p \in Packet, NEW short \in BOOLEAN
    PROVE  DriverOK(Receive(s, p, short)) /\ KeptIn(s, Receive(s, p, short))
<1>1. CASE p.t = "hello"
  <2>1. Receive(s, p, short) = With(s, {"SAWHELLO", "OUT2GO"})
    BY <1>1 DEF Receive
  <2>2. QED
    BY <2>1, WithType DEF Flag
<1>2. CASE p.t = "ihy"
  <2> DEFINE t == [s EXCEPT !.unacked = 0, !.inarow = IncChar(s.inarow)]
  <2>1. IncChar(s.inarow) \in (-CharMax - 1) .. CharMax
    <3>1. s.inarow \in (-CharMax - 1) .. CharMax /\ CharMax \in Nat
      BY Numbers DEF DriverOK, End
    <3>2. QED
      BY <3>1 DEF IncChar
  <2>2. 0 \in 0 .. T + 1
    BY Numbers
  <2>3. t \in End
    BY <2>1, <2>2 DEF DriverOK, End
  <2>4. Receive(s, p, short) = t
    BY <1>2 DEF Receive
  <2>5. QED
    BY <2>3, <2>4 DEF DriverOK, KeptIn
<1>3. CASE p.t \notin {"hello", "ihy"}
  <2> DEFINE a == TakeAcks(s, p.ack)
  <2>1. p.ack \in [Chan -> Bit]
    BY DEF Packet
  <2>2. DriverOK(a) /\ KeptIn(s, a)
    BY <2>1, AcksType
  <2> HIDE DEF a
  <2>3. DriverOK(TakeData(a, p, short)) /\ KeptIn(s, TakeData(a, p, short))
    BY <2>2, DataType DEF KeptIn
  <2>4. KeptIn(s, s)
    BY DEF KeptIn
  <2>5. Receive(s, p, short) \in {s, a, TakeData(a, p, short)}
    BY <1>3 DEF Receive, a
  <2>6. QED
    BY <2>2, <2>3, <2>4, <2>5
<1>4. QED
  BY <1>1, <1>2, <1>3

(* What the clock does to the driver, before any output is started.        *)
ClockOK(s, t) ==
    /\ DriverOK(t)
    /\ t.open = s.open /\ t.wire = s.wire
    /\ t.st \cap {"VDHILAST", "VDHINEED"} = s.st \cap {"VDHILAST", "VDHINEED"}
    /\ t.open /\ t.hellonext = Never => s.hellonext = Never \/ Wakes(s, t)

(* A hello is due, at the end s that the clock has made h.                 *)
LEMMA HelloType ==
    ASSUME NEW s, DriverOK(s), s.open
    PROVE  ClockOK(s, HelloDue(s))
<1> DEFINE h == [s EXCEPT !.hellonext = R]
           t == HelloDue(s)
<1>1. R \in 0 .. Never /\ Never \in 0 .. Never /\ R # Never /\ R > 0 /\ Never > 0
  BY Numbers
<1>2. h \in End /\ h.st = s.st /\ h.st \in SUBSET Flag
  BY <1>1 DEF DriverOK, End
<1>3. /\ h.open = s.open /\ h.wire = s.wire /\ h.imsg = s.imsg /\ h.q = s.q
      /\ h.hellonext = R /\ h.needinit = s.needinit
  BY <1>1 DEF DriverOK, End
<1> HIDE DEF h
<1>4. CASE "TRYING" \notin h.st
  <2> DEFINE f == (h.st \ {"SAWHELLO", "UP"}) \cup {"TRYING", "SENDHELLO"}
  <2>1. /\ f \in SUBSET Flag
        /\ f \cap {"VDHILAST", "VDHINEED"} = h.st \cap {"VDHILAST", "VDHINEED"}
        /\ "VDHILAST" \in f <=> "VDHILAST" \in h.st
    BY <1>2 DEF Flag
  <2>2. t = [h EXCEPT !.st = f]
    BY <1>2, <1>4 DEF HelloDue, HelloDown, With, Without, h
  <2> HIDE DEF f, t
  <2>3. t \in End
    BY <1>2, <2>1, <2>2 DEF End
  <2>4. /\ t.st = f /\ t.open = h.open /\ t.wire = h.wire /\ t.imsg = h.imsg /\ t.q = h.q
        /\ t.hellonext = h.hellonext /\ t.needinit = h.needinit
    BY <1>2, <2>2 DEF End
  <2>5. DriverOK(t)
    BY <1>1, <1>2, <1>3, <2>1, <2>3, <2>4 DEF DriverOK
  <2>6. QED
    BY <1>1, <1>2, <1>3, <2>1, <2>4, <2>5 DEF ClockOK, t
<1>5. CASE "TRYING" \in h.st /\ "UP" \in h.st /\ h.unacked > T
  <2> DEFINE f == h.st \ {"TRYING", "UP"}
  <2>1. /\ f \in SUBSET Flag /\ "UP" \notin f
        /\ f \cap {"VDHILAST", "VDHINEED"} = h.st \cap {"VDHILAST", "VDHINEED"}
        /\ "VDHILAST" \in f <=> "VDHILAST" \in h.st
    BY <1>2 DEF Flag
  <2>2. t = [h EXCEPT !.st = f, !.hellonext = Never, !.needinit = TRUE]
    BY <1>2, <1>5 DEF HelloDue, HelloUp, With, Without, h
  <2> HIDE DEF f, t
  <2>3. t \in End
    BY <1>1, <1>2, <2>1, <2>2 DEF End
  <2>4. /\ t.st = f /\ t.open = h.open /\ t.wire = h.wire /\ t.imsg = h.imsg /\ t.q = h.q
        /\ t.hellonext = Never /\ t.needinit
    BY <1>2, <2>2 DEF End
  <2>5. DriverOK(t)
    BY <1>1, <1>2, <1>3, <2>1, <2>3, <2>4 DEF DriverOK
  <2>6. Wakes(s, t)
    BY <1>2, <1>3, <1>5, <2>1, <2>4 DEF Wakes
  <2>7. QED
    BY <1>2, <1>3, <2>1, <2>4, <2>5, <2>6 DEF ClockOK, t
<1>6. CASE "TRYING" \in h.st /\ ("UP" \notin h.st \/ ~(h.unacked > T))
  <2> DEFINE g == IF "UP" \in h.st \/ h.unacked = 0 THEN h ELSE [h EXCEPT !.inarow = 0]
             F == IF "UP" \notin h.st /\ h.unacked = 0 /\ h.inarow >= K
                  THEN {"UP", "SENDHELLO"} ELSE {"SENDHELLO"}
  <2>1. /\ h.st \cup F \in SUBSET Flag
        /\ (h.st \cup F) \cap {"VDHILAST", "VDHINEED"} = h.st \cap {"VDHILAST", "VDHINEED"}
        /\ "VDHILAST" \in (h.st \cup F) <=> "VDHILAST" \in h.st
    BY <1>2 DEF Flag
  <2>2. 0 \in (-CharMax - 1) .. CharMax
    BY Numbers
  <2>3. g \in End
    BY <1>2, <2>2 DEF End
  <2>4. /\ g.st = h.st /\ g.open = h.open /\ g.wire = h.wire /\ g.imsg = h.imsg /\ g.q = h.q
        /\ g.hellonext = h.hellonext /\ g.needinit = h.needinit
    BY <1>2 DEF End
  <2>5. t = [g EXCEPT !.st = h.st \cup F]
    <3>1. CASE "UP" \in h.st
      BY <1>2, <1>6, <3>1 DEF HelloDue, HelloUp, With, h
    <3>2. CASE "UP" \notin h.st /\ h.unacked # 0
      BY <1>2, <1>6, <3>2 DEF HelloDue, HelloTrying, With, h
    <3>3. CASE "UP" \notin h.st /\ h.unacked = 0 /\ h.inarow >= K
      <4>1. t = With(With(h, {"UP"}), {"SENDHELLO"})
        BY <1>2, <1>6, <3>3 DEF HelloDue, HelloTrying, h
      <4>2. (h.st \cup {"UP"}) \cup {"SENDHELLO"} = h.st \cup F
        BY <3>3
      <4>3. With(h, {"UP"}).st = h.st \cup {"UP"}
        BY <1>2 DEF With, End
      <4>4. With(With(h, {"UP"}), {"SENDHELLO"}) = [h EXCEPT !.st = (h.st \cup {"UP"}) \cup {"SENDHELLO"}]
        BY <1>2, <4>3 DEF With, End
      <4>5. QED
        BY <3>3, <4>1, <4>2, <4>4
    <3>4. CASE "UP" \notin h.st /\ h.unacked = 0 /\ ~(h.inarow >= K)
      BY <1>2, <1>6, <3>4 DEF HelloDue, HelloTrying, With, h
    <3>5. QED
      BY <3>1, <3>2, <3>3, <3>4
  <2> HIDE DEF F, g, t
  <2>6. t \in End
    BY <2>1, <2>3, <2>5 DEF End
  <2>7. /\ t.st = h.st \cup F
        /\ t.open = h.open /\ t.wire = h.wire /\ t.imsg = h.imsg /\ t.q = h.q
        /\ t.hellonext = h.hellonext /\ t.needinit = h.needinit
    BY <2>3, <2>4, <2>5 DEF End
  <2>8. DriverOK(t)
    BY <1>1, <1>2, <1>3, <2>1, <2>6, <2>7 DEF DriverOK
  <2>9. QED
    BY <1>1, <1>2, <1>3, <2>1, <2>7, <2>8 DEF ClockOK, t
<1>7. QED
  BY <1>4, <1>5, <1>6

(* vdhoint() from the clock, before it starts any output.                  *)
LEMMA ClockType ==
    ASSUME NEW s, DriverOK(s)
    PROVE  ClockOK(s, Clock(s))
<1>1. CASE ~s.open
  <2> DEFINE f == s.st \ {"UP", "TRYING"}
             t == Clock(s)
  <2>1. /\ f \in SUBSET Flag
        /\ f \cap {"VDHILAST", "VDHINEED"} = s.st \cap {"VDHILAST", "VDHINEED"}
    BY DEF DriverOK, End, Flag
  <2>2. t = [s EXCEPT !.st = f]
    BY <1>1 DEF Clock, Without
  <2> HIDE DEF f, t
  <2>3. t \in End
    BY <2>1, <2>2 DEF DriverOK, End
  <2>4. /\ t.st = f /\ t.open = s.open /\ t.wire = s.wire /\ t.q = s.q
        /\ t.hellonext = s.hellonext
    BY <2>2 DEF DriverOK, End
  <2>5. QED
    BY <1>1, <2>1, <2>3, <2>4 DEF ClockOK, DriverOK, t
<1>2. CASE s.open
  <2> DEFINE u == [c \in Chan |-> IF s.use[c] > 0 THEN s.use[c] - 1 ELSE s.use[c]]
             x == IF s.hellonext = Never \/ Rests(s) THEN s.hellonext ELSE s.hellonext - 1
             h == [s EXCEPT !.use = u, !.hellonext = x]
             g == [h EXCEPT !.hellonext = R]
  <2>1. u \in [Chan -> Free .. HoldOff]
    <3>1. s.use \in [Chan -> Free .. HoldOff] /\ HoldOff \in Nat
      BY Numbers DEF DriverOK, End
    <3>2. QED
      BY <3>1 DEF Free
  <2>2. x \in 0 .. Never /\ (x = Never => s.hellonext = Never)
    <3>1. s.hellonext \in 0 .. Never /\ s.hellonext > 0 /\ Never \in Nat
      BY Numbers DEF DriverOK, End
    <3>2. QED
      BY <3>1
  <2>3. h = [s EXCEPT !.use = u, !.hellonext = x]
    OBVIOUS
  <2>4. Clock(s) = IF h.hellonext > 0 THEN h ELSE HelloDue(h)
    BY <1>2 DEF Clock
  <2> HIDE DEF u, x, h
  <2>5. h \in End
    BY <2>1, <2>2, <2>3 DEF DriverOK, End
  <2>6. /\ h.st = s.st /\ h.open = s.open /\ h.wire = s.wire /\ h.imsg = s.imsg /\ h.q = s.q
        /\ h.hellonext = x /\ h.needinit = s.needinit
    BY <2>3 DEF DriverOK, End
  <2>7. CASE h.hellonext > 0
    <3>1. DriverOK(h)
      BY <2>2, <2>5, <2>6, <2>7 DEF DriverOK
    <3>2. ClockOK(s, h)
      BY <2>2, <2>6, <3>1 DEF ClockOK
    <3>3. QED
      BY <2>4, <2>7, <3>2
  <2>8. CASE ~(h.hellonext > 0)
    <3>1. R \in 0 .. Never /\ R > 0 /\ R # Never
      BY Numbers
    <3>2. g \in End
      BY <2>5, <3>1 DEF End
    <3>3. /\ g.st = h.st /\ g.open = h.open /\ g.wire = h.wire /\ g.imsg = h.imsg
          /\ g.q = h.q /\ g.hellonext = R /\ g.needinit = h.needinit
      BY <2>5 DEF End
    <3>4. HelloDue(h) = HelloDue(g)
      BY <2>5 DEF HelloDue, End
    <3> HIDE DEF g
    <3>5. DriverOK(g)
      BY <2>6, <3>1, <3>2, <3>3 DEF DriverOK
    <3>6. ClockOK(g, HelloDue(g))
      BY <1>2, <2>6, <3>3, <3>5, HelloType
    <3>7. ClockOK(s, HelloDue(g))
      BY <2>6, <3>1, <3>3, <3>6 DEF ClockOK, Wakes
    <3>8. QED
      BY <2>4, <2>8, <3>4, <3>7
  <2>9. QED
    BY <2>7, <2>8
<1>3. QED
  BY <1>1, <1>2

(* The NOPs of imp_init(), and any other message.                          *)
LEMMA PiecesType ==
    ASSUME NEW m \in Nat, NEW k \in Nat \ {0}
    PROVE  Pieces(m, k) \in Message /\ Len(Pieces(m, k)) = k
<1>1. \A i \in 1 .. k : [m |-> m, i |-> i, last |-> i = k] \in Piece
  BY DEF Piece
<1>2. Pieces(m, k) \in [1 .. k -> Piece]
  BY <1>1 DEF Pieces
<1>3. Pieces(m, k) \in Seq(Piece) /\ Len(Pieces(m, k)) = k
  BY <1>2
<1>4. QED
  BY <1>3 DEF Message

(* imp_init() leaves a driver that waits in silence, with nothing pending. *)
LEMMA InitType ==
    ASSUME NEW s \in End, s.q \in Seq(Message), NEW in \in Nat
    PROVE  LET t == imp_init(s, in)
           IN  /\ DriverOK(t) /\ t.st = {} /\ t.hellonext = Silence
               /\ t.open = s.open /\ t.wire = s.wire /\ t.needinit = s.needinit
<1> DEFINE N == [i \in 1 .. Nops |-> Pieces(in + i, 1)]
           q == s.q \o N
           t == imp_init(s, in)
           u == [c \in Chan |-> Free]
<1>1. N \in Seq(Message)
  <2>1. \A i \in 1 .. Nops : Pieces(in + i, 1) \in Message
    BY PiecesType, Numbers
  <2>2. N \in [1 .. Nops -> Message] /\ Nops \in Nat
    BY <2>1, Numbers
  <2>3. QED
    BY <2>2
<1>2. q \in Seq(Message) /\ Message \subseteq Seq(Piece)
  BY <1>1 DEF Message
<1>3. q \in Seq(Seq(Piece))
  BY <1>2
<1>4. /\ Silence \in 0 .. Never /\ Silence > 0 /\ Silence # Never
      /\ NoBits \in [Chan -> Bit] /\ 0 \in Chan /\ 1 \in Chan
      /\ u \in [Chan -> Free .. HoldOff]
  BY Numbers DEF NoBits, Bit, Chan, Free
<1>5. t = [s EXCEPT !.st = {}, !.ichn = 0, !.prv = NoBits, !.hellonext = Silence,
                    !.osnd = 1, !.ofill = 0, !.ack = NoBits, !.imsg = <<>>,
                    !.q = q, !.use = u]
  BY DEF imp_init, FreeChans
<1> HIDE DEF N, q, t, u
<1>6. t \in End
  <2> DEFINE v == [s EXCEPT !.st = {}, !.ichn = 0, !.prv = NoBits, !.hellonext = Silence]
  <2>1. v \in End
    BY <1>4 DEF End
  <2>2. t = [v EXCEPT !.osnd = 1, !.ofill = 0, !.ack = NoBits, !.imsg = <<>>,
                      !.q = q, !.use = u]
    BY <1>5
  <2>3. <<>> \in Seq(Piece)
    OBVIOUS
  <2> HIDE DEF v
  <2>4. QED
    BY <1>3, <1>4, <2>1, <2>2, <2>3 DEF End
<1>7. /\ t.st = {} /\ t.q = q /\ t.hellonext = Silence
      /\ t.open = s.open /\ t.wire = s.wire /\ t.needinit = s.needinit
  BY <1>5 DEF End
<1>8. DriverOK(t)
  BY <1>2, <1>4, <1>6, <1>7 DEF DriverOK
<1>9. QED
  BY <1>7, <1>8 DEF t

(* The driver has its types, and the input process is attended to.         *)
VdhInv ==
    /\ TypeOK
    /\ \A n \in Node : DriverOK(nd[n])
    /\ Attended

(* Work for the input process.                                             *)
Work(s) == {"VDHILAST", "VDHINEED"} \cap s.st # {} \/ s.hellonext = Never

(* One end, n, changes from what it was: if that makes new work for the    *)
(* input process, nobody sleeps.                                           *)
LEMMA OneEnd ==
    ASSUME VdhInv, NEW n \in Node, NEW e, DriverOK(e), NEW a,
           a \in [Node -> [Proc -> {"sleep", "run", "getkb", "gone"}]],
           nd' = [nd EXCEPT ![n] = e], at' = a,
           log' \in [Node -> Log], skew' \in {0, 1},
           faults' \in 0 .. MaxFaults, lost' \in 0 .. MaxLost,
           \A m \in Node \ {n} : a[m] = at[m],
           \A p \in Proc : e.open /\ a[n][p] = "sleep" => ~Work(e)
    PROVE  VdhInv'
<1>1. nd \in [Node -> End] /\ e \in End
  BY DEF VdhInv, TypeOK, DriverOK
<1>2. nd' \in [Node -> End] /\ nd'[n] = e /\ \A m \in Node \ {n} : nd'[m] = nd[m]
  BY <1>1
<1>3. TypeOK'
  BY <1>2 DEF VdhInv, TypeOK
<1>4. \A m \in Node : DriverOK(nd'[m])
  BY <1>2 DEF VdhInv
<1>5. Attended'
  <2> SUFFICES ASSUME NEW m \in Node, NEW p \in Proc, nd'[m].open, at'[m][p] = "sleep"
               PROVE  {"VDHILAST", "VDHINEED"} \cap nd'[m].st = {} /\ nd'[m].hellonext # Never
    BY DEF Attended
  <2>1. CASE m = n
    BY <1>2, <2>1 DEF Work
  <2>2. CASE m # n
    BY <1>2, <2>2 DEF VdhInv, Attended
  <2>3. QED
    BY <2>1, <2>2
<1>6. QED
  BY <1>3, <1>4, <1>5 DEF VdhInv

-----------------------------------------------------------------------------
(* The input process is attended to: one lemma per action                  *)

(* There are two ends.                                                     *)
LEMMA PeerType ==
    ASSUME NEW n \in Node
    PROVE  Peer(n) \in Node /\ Peer(n) # n /\ Peer(Peer(n)) = n /\ Node = {n, Peer(n)}
BY DEF Node, Peer

(* wakeup(&imp) leaves no input process of the end asleep.                 *)
LEMMA Places ==
    ASSUME VdhInv, NEW n \in Node
    PROVE  /\ at \in [Node -> [Proc -> {"sleep", "run", "getkb", "gone"}]]
           /\ Wakeup(n) \in [Node -> [Proc -> {"sleep", "run", "getkb", "gone"}]]
           /\ \A m \in Node \ {n} : Wakeup(n)[m] = at[m]
           /\ \A p \in Proc : Wakeup(n)[n][p] # "sleep"
BY DEF VdhInv, TypeOK, Wakeup

(* What imp_input() gets keeps the types of the log: the number of the     *)
(* message is one of a piece, or Mixed.                                    *)
LEMMA HandedType ==
    ASSUME VdhInv, NEW n \in Node, nd[n].imsg # <<>>
    PROVE  Handed(n, nd[n].imsg) \in [Node -> Log]
<1> DEFINE m == nd[n].imsg
<1>1. m[1].m \in Nat
  <2>1. m \in Seq(Piece)
    BY DEF VdhInv, DriverOK, End
  <2>2. m[1] \in Piece
    BY <2>1
  <2>3. QED
    BY <2>2 DEF Piece
<1>2. log \in [Node -> Log]
  BY DEF VdhInv, TypeOK
<1> DEFINE x == IF Whole(m) THEN m[1].m
                ELSE IF Part(m) /\ m[1].m <= log[Peer(n)].init THEN log[n].newest ELSE Mixed
           y == log[n].torn \/ ~Whole(m)
<1>3. log[n] \in Log /\ x \in Int /\ y \in BOOLEAN
  BY <1>1, <1>2 DEF Log, Mixed
<1>4. Handed(n, m) = [log EXCEPT ![n] = [log[n] EXCEPT !.newest = x, !.torn = y]]
  BY <1>2 DEF Handed
<1> HIDE DEF x, y, m
<1>5. [log[n] EXCEPT !.newest = x, !.torn = y] \in Log
  BY <1>3 DEF Log
<1>6. QED
  BY <1>2, <1>4, <1>5 DEF m

(* imp_init() keeps the types of the log.                                  *)
LEMMA InitLogType ==
    ASSUME VdhInv, NEW n \in Node
    PROVE  InitLog(n) \in [Node -> Log]
<1>1. \A e \in Node : [log[e] EXCEPT !.init = log[e].in, !.in = IF e = n THEN @ + Nops ELSE @]
                        \in Log
  <2> SUFFICES ASSUME NEW e \in Node
               PROVE  [log[e] EXCEPT !.init = log[e].in, !.in = IF e = n THEN @ + Nops ELSE @]
                        \in Log
    OBVIOUS
  <2>1. log[e] \in Log
    BY DEF VdhInv, TypeOK
  <2>2. log[e].in \in Nat /\ (IF e = n THEN log[e].in + Nops ELSE log[e].in) \in Nat
    BY <2>1, Numbers DEF Log
  <2>3. QED
    BY <2>1, <2>2 DEF Log
<1>2. QED
  BY <1>1 DEF InitLog

(* Both ends begin with nothing to do for their input processes.           *)
THEOREM InitVdh == Init => VdhInv
<1> SUFFICES ASSUME Init PROVE VdhInv
  OBVIOUS
<1> DEFINE t == imp_init(Fresh, 0)
<1>1. Fresh \in End /\ Fresh.open /\ Fresh.q = <<>> /\ Fresh.q \in Seq(Message)
  <2>1. <<>> \in Seq(Piece) /\ <<>> \in Seq(Seq(Piece)) /\ <<>> \in Seq(Packet)
            /\ <<>> \in Seq(Message) /\ {} \in SUBSET Flag
    OBVIOUS
  <2>2. NoBits \in [Chan -> Bit] /\ Word("null", NoBits) \in Packet
    BY WordType DEF NoBits, Bit
  <2>3. /\ 0 \in Chan /\ 1 \in Chan /\ 0 \in 0 .. Never /\ 0 \in 0 .. T + 1
        /\ 0 \in (-CharMax - 1) .. CharMax /\ Free \in Free .. HoldOff
    BY Numbers DEF Chan, Free
  <2>4. QED
    BY <2>1, <2>2, <2>3 DEF Fresh, End
<1>2. DriverOK(t) /\ t.st = {} /\ t.hellonext = Silence
  BY <1>1, InitType
<1>3. nd = [n \in Node |-> t]
  BY DEF Init
<1> HIDE DEF t
<1>4. \A n \in Node : nd[n] = t
  BY <1>3
<1>5. nd \in [Node -> End]
  BY <1>2, <1>3 DEF DriverOK
<1>6. at \in [Node -> [Proc -> {"sleep", "run", "getkb", "gone"}]]
  BY DEF Init
<1>7. log \in [Node -> Log]
  <2>1. [in |-> Nops, users |-> 0, init |-> 0, newest |-> 0, torn |-> FALSE] \in Log
    BY Numbers DEF Log
  <2>2. QED
    BY <2>1 DEF Init
<1>8. TypeOK
  <2>1. skew = 0 /\ faults = 0 /\ lost = 0
    BY DEF Init
  <2>2. MaxFaults \in Nat /\ MaxLost \in Nat
    BY VdhAssumption
  <2>3. skew \in {0, 1} /\ faults \in 0 .. MaxFaults /\ lost \in 0 .. MaxLost
    BY <2>1, <2>2
  <2>4. QED
    BY <1>5, <1>6, <1>7, <2>3 DEF TypeOK
<1>9. Attended
  BY <1>2, <1>4, Numbers DEF Attended
<1>10. QED
  BY <1>2, <1>4, <1>8, <1>9 DEF VdhInv

(* Every action keeps VdhInv.  imp_output() does: it adds to impoq.        *)
LEMMA OutputVdh == ASSUME VdhInv, NEW n \in Node, ImpOutput(n) PROVE VdhInv'
<1> DEFINE x == log[n].in + 1
           k == Sizes[n][log[n].users + 1]
           s == [nd[n] EXCEPT !.q = Append(@, Pieces(x, k))]
           e == IF "UP" \in s.st THEN StartIfIdle(s) ELSE s
<1>1. log[n] \in Log /\ DriverOK(nd[n])
  BY DEF VdhInv, TypeOK
<1>2. x \in Nat /\ k \in Nat \ {0}
  <2>1. Sizes[n] \in Seq(Nat \ {0}) /\ log[n].users \in Nat /\ log[n].in \in Nat
    BY <1>1, VdhAssumption DEF Log
  <2>2. log[n].users + 1 \in 1 .. Len(Sizes[n])
    BY <2>1 DEF ImpOutput
  <2>3. QED
    BY <2>1, <2>2
<1>3. nd' = [nd EXCEPT ![n] = e]
  BY DEF ImpOutput
<1> HIDE DEF x, k
<1>4. Append(nd[n].q, Pieces(x, k)) \in Seq(Message) /\ Message \subseteq Seq(Piece)
  BY <1>1, <1>2, PiecesType DEF DriverOK, Message
<1>5. Append(nd[n].q, Pieces(x, k)) \in Seq(Seq(Piece))
  BY <1>4
<1>6. DriverOK(s) /\ Kept(nd[n], s) /\ s.hellonext = nd[n].hellonext
  <2>1. s \in End
    BY <1>1, <1>5 DEF DriverOK, End
  <2>2. QED
    BY <1>1, <1>4, <2>1 DEF DriverOK, End, Kept
<1> HIDE DEF s
<1>7. DriverOK(e) /\ Kept(nd[n], e)
  BY <1>6, StartType DEF Kept
<1> HIDE DEF e
<1>8. \A p \in Proc : e.open /\ at[n][p] = "sleep" => ~Work(e)
  BY <1>7 DEF VdhInv, Attended, Work, Kept, Lasting
<1>9. log' \in [Node -> Log]
  <2> DEFINE l == [log[n] EXCEPT !.in = @ + 1, !.users = @ + 1]
  <2>1. log \in [Node -> Log]
    BY DEF VdhInv, TypeOK
  <2>2. l \in Log
    <3>1. log[n].in + 1 \in Nat /\ log[n].users + 1 \in Nat
      BY <1>1 DEF Log
    <3>2. l = [log[n] EXCEPT !.in = log[n].in + 1, !.users = log[n].users + 1]
      OBVIOUS
    <3> HIDE DEF l
    <3>3. QED
      BY <1>1, <3>1, <3>2 DEF Log
  <2>3. log' = [log EXCEPT ![n] = l]
    BY <2>1 DEF ImpOutput
  <2>4. QED
    BY <2>1, <2>2, <2>3
<1>10. QED
  BY <1>3, <1>7, <1>8, <1>9, OneEnd DEF ImpOutput, VdhInv, TypeOK

(* The interrupt at the end of a transmission.                             *)
LEMMA OutputDoneVdh == ASSUME VdhInv, NEW n \in Node, OutputDone(n) PROVE VdhInv'
<1> DEFINE s == Without(nd[n], {"OUTBUSY"})
           e == vdhostart(s)
<1>1. DriverOK(nd[n])
  BY DEF VdhInv
<1>2. DriverOK(s) /\ Kept(nd[n], s)
  BY <1>1, FlagType DEF Flag, Lasting
<1>3. nd' = [nd EXCEPT ![n] = e]
  BY DEF OutputDone
<1> HIDE DEF s
<1>4. DriverOK(e) /\ Kept(nd[n], e)
  BY <1>2, StartType DEF Kept
<1> HIDE DEF e
<1>5. \A p \in Proc : e.open /\ at[n][p] = "sleep" => ~Work(e)
  BY <1>4 DEF VdhInv, Attended, Work, Kept, Lasting
<1>6. QED
  BY <1>3, <1>4, <1>5, OneEnd DEF OutputDone, VdhInv, TypeOK

(* What is left on a line when k packets have been taken from it.          *)
LEMMA WireType ==
    ASSUME NEW s, DriverOK(s), NEW w \in Seq(Packet)
    PROVE  DriverOK([s EXCEPT !.wire = w]) /\ Kept(s, [s EXCEPT !.wire = w])
<1>1. [s EXCEPT !.wire = w] \in End
  BY DEF DriverOK, End
<1>2. QED
  BY <1>1 DEF DriverOK, End, Kept

(* A packet goes from the line.                                            *)
LEMMA LoseVdh == ASSUME VdhInv, NEW n \in Node, Lose(n) PROVE VdhInv'
<1> DEFINE e == [nd[n] EXCEPT !.wire = Tail(nd[n].wire)]
<1>1. DriverOK(nd[n])
  BY DEF VdhInv
<1>2. Tail(nd[n].wire) \in Seq(Packet)
  <2>1. nd[n].wire \in Seq(Packet) /\ nd[n].wire # <<>>
    BY <1>1 DEF DriverOK, End, Lose
  <2>2. QED
    BY <2>1
<1>3. DriverOK(e) /\ Kept(nd[n], e)
  BY <1>1, <1>2, WireType
<1>4. nd' = [nd EXCEPT ![n] = e]
  BY DEF Lose
<1> HIDE DEF e
<1>5. \A p \in Proc : e.open /\ at[n][p] = "sleep" => ~Work(e)
  BY <1>3 DEF VdhInv, Attended, Work, Kept, Lasting
<1>6. lost' \in 0 .. MaxLost
  BY VdhAssumption DEF Lose, VdhInv, TypeOK
<1>7. QED
  BY <1>3, <1>4, <1>5, <1>6, OneEnd DEF Lose, VdhInv, TypeOK

(* The end of vdhiint() starts the output, if there is a reason to.        *)
LEMMA InputEndType ==
    ASSUME NEW s, DriverOK(s)
    PROVE  DriverOK(InputEnd(s)) /\ Kept(s, InputEnd(s))
<1> DEFINE t == IF "OUT2GO" \in s.st THEN StartIfIdle(s) ELSE s
<1>1. DriverOK(t) /\ Kept(s, t)
  BY StartType DEF Kept
<1>2. InputEnd(s) = Without(t, {"OUT2GO"})
  BY DEF InputEnd
<1> HIDE DEF t
<1>3. DriverOK(Without(t, {"OUT2GO"})) /\ Kept(t, Without(t, {"OUT2GO"}))
  BY <1>1, FlagType DEF Flag, Lasting
<1>4. QED
  BY <1>1, <1>2, <1>3 DEF Kept

(* vdhiint() changes both ends: the one that gets the packets, and the     *)
(* line on which they were.                                                *)
LEMMA InputVdh == ASSUME VdhInv, NEW n \in Node, NEW k \in 1 .. 2, Vdhiint(n, k) PROVE VdhInv'
<1> DEFINE w == nd[Peer(n)].wire
<1>1. /\ DriverOK(nd[n]) /\ DriverOK(nd[Peer(n)]) /\ w \in Seq(Packet)
      /\ Peer(n) \in Node /\ Peer(n) # n
  BY PeerType DEF VdhInv, DriverOK, End
<1>2. PICK short \in BOOLEAN :
        LET one == Receive(nd[n], w[1], short)
            s == IF k = 1 THEN one ELSE Receive(one, w[2], short)
        IN  /\ nd' = [nd EXCEPT ![n] = InputEnd(s),
                                ![Peer(n)].wire = SubSeq(@, k + 1, Len(@))]
            /\ at' = IF {"VDHILAST", "VDHINEED"} \cap s.st = {} THEN at ELSE Wakeup(n)
  BY DEF Vdhiint
<1> DEFINE one == Receive(nd[n], w[1], short)
           s == IF k = 1 THEN one ELSE Receive(one, w[2], short)
           e == InputEnd(s)
           f == [nd[Peer(n)] EXCEPT !.wire = SubSeq(w, k + 1, Len(w))]
<1>3. k <= Len(w) /\ w[1] \in Packet /\ (k = 2 => w[2] \in Packet)
  BY <1>1 DEF Vdhiint
<1>4. SubSeq(w, k + 1, Len(w)) \in Seq(Packet)
  BY <1>1, <1>3
<1>5. DriverOK(one) /\ KeptIn(nd[n], one)
  BY <1>1, <1>3, ReceiveType
<1>6. /\ nd' = [nd EXCEPT ![n] = e, ![Peer(n)] = f]
      /\ at' = IF {"VDHILAST", "VDHINEED"} \cap s.st = {} THEN at ELSE Wakeup(n)
  BY <1>1, <1>2
<1> HIDE DEF one
<1>7. DriverOK(s) /\ KeptIn(nd[n], s)
  BY <1>3, <1>5, ReceiveType DEF KeptIn
<1> HIDE DEF s
<1>8. DriverOK(e) /\ Kept(s, e)
  BY <1>7, InputEndType
<1>9. DriverOK(f) /\ Kept(nd[Peer(n)], f)
  BY <1>1, <1>4, WireType
<1> HIDE DEF e, f, w
<1>10. nd' \in [Node -> End] /\ nd'[n] = e /\ nd'[Peer(n)] = f /\ Node = {n, Peer(n)}
  BY <1>1, <1>6, <1>8, <1>9 DEF VdhInv, TypeOK, DriverOK, Node, Peer
<1>11. TypeOK'
  BY <1>6, <1>10, Places DEF Vdhiint, VdhInv, TypeOK
<1>12. ASSUME NEW p \in Proc, e.open, at'[n][p] = "sleep" PROVE ~Work(e)
  BY <1>6, <1>7, <1>8, <1>12, Places DEF VdhInv, Attended, Work, Kept, KeptIn, Lasting
<1>13. ASSUME NEW p \in Proc, f.open, at'[Peer(n)][p] = "sleep" PROVE ~Work(f)
  <2>1. at'[Peer(n)] = at[Peer(n)]
    BY <1>1, <1>6, Places
  <2>2. QED
    BY <1>1, <1>9, <1>13, <2>1, ZenonT(30) DEF VdhInv, Attended, Work, Kept, Lasting
<1>14. Attended'
  <2> SUFFICES ASSUME NEW m \in Node, NEW p \in Proc, nd'[m].open, at'[m][p] = "sleep"
               PROVE  ~Work(nd'[m])
    BY DEF Attended, Work
  <2>1. CASE m = n
    BY <1>10, <1>12, <2>1
  <2>2. CASE m = Peer(n)
    BY <1>10, <1>13, <2>2
  <2>3. QED
    BY <1>10, <2>1, <2>2
<1>15. QED
  BY <1>8, <1>9, <1>10, <1>11, <1>14 DEF VdhInv

(* When the clock finds the line up or down, it wakes the input process.   *)
LEMMA TickVdh == ASSUME VdhInv, NEW n \in Node, Tick(n) PROVE VdhInv'
<1> DEFINE s == Clock(nd[n])
           e == StartIfIdle(s)
           a == IF Wakes(nd[n], s) THEN Wakeup(n) ELSE at
<1>1. DriverOK(nd[n]) /\ ClockOK(nd[n], s)
  BY ClockType DEF VdhInv
<1>2. /\ nd' = [nd EXCEPT ![n] = e] /\ at' = a
      /\ faults' = (IF s.needinit /\ ~nd[n].needinit THEN faults + 1 ELSE faults)
      /\ faults' <= MaxFaults
  BY DEF Tick
<1> HIDE DEF s
<1>3. DriverOK(e) /\ Kept(s, e)
  BY <1>1, StartType DEF ClockOK
<1> HIDE DEF e
<1>4. a \in [Node -> [Proc -> {"sleep", "run", "getkb", "gone"}]]
        /\ \A m \in Node \ {n} : a[m] = at[m]
  BY Places
<1>5. ASSUME NEW p \in Proc, e.open, a[n][p] = "sleep" PROVE ~Work(e)
  BY <1>1, <1>3, <1>5, Places, ZenonT(30) DEF VdhInv, Attended, Work, Kept, Lasting, ClockOK
<1> HIDE DEF a
<1>6. faults' \in 0 .. MaxFaults /\ skew' \in {0, 1} /\ log' \in [Node -> Log] /\ lost' \in 0 .. MaxLost
  <2>1. faults' \in 0 .. MaxFaults
    BY <1>2, VdhAssumption DEF VdhInv, TypeOK
  <2>2. skew' \in {0, 1}
    BY DEF Tick, Timely, VdhInv, TypeOK
  <2>3. QED
    BY <2>1, <2>2 DEF Tick, VdhInv, TypeOK
<1>7. nd' = [nd EXCEPT ![n] = e] /\ at' = a
  BY <1>2
<1>8. \A p \in Proc : e.open /\ a[n][p] = "sleep" => ~Work(e)
  BY <1>5
<1>9. QED
  BY <1>3, <1>4, <1>6, <1>7, <1>8, OneEnd

(* A message is handed over, and VDHILAST cleared.                         *)
LEMMA ImpInputVdh ==
    ASSUME VdhInv, NEW n \in Node, NEW p \in Proc, ImpInput(n, p) PROVE VdhInv'
<1> DEFINE f == nd[n].st \ {"VDHILAST"}
           e == [nd[n] EXCEPT !.st = f, !.imsg = <<>>]
<1>1. DriverOK(nd[n])
  BY DEF VdhInv
<1>2. nd' = [nd EXCEPT ![n] = e]
  BY DEF ImpInput, impldrd, Without
<1>3. f \in SUBSET Flag /\ "VDHILAST" \notin f
  BY <1>1 DEF DriverOK, End
<1>4. nd[n].imsg # <<>>
  BY <1>1 DEF ImpInput, DriverOK
<1>5. e \in End
  <2>1. <<>> \in Seq(Piece)
    OBVIOUS
  <2>2. QED
    BY <1>1, <1>3, <2>1 DEF DriverOK, End
<1>6. /\ e.st = f /\ e.q = nd[n].q /\ e.hellonext = nd[n].hellonext
      /\ e.open = nd[n].open /\ e.needinit = nd[n].needinit
  BY <1>1 DEF DriverOK, End
<1>7. DriverOK(e)
  BY <1>1, <1>3, <1>5, <1>6 DEF DriverOK
<1>8. \A r \in Proc : e.open /\ at[n][r] = "sleep" => ~Work(e)
  BY <1>6 DEF VdhInv, Attended, Work
<1> HIDE DEF e
<1>9. log' \in [Node -> Log]
  BY <1>4, HandedType DEF ImpInput
<1>10. QED
  BY <1>2, <1>7, <1>8, <1>9, OneEnd DEF ImpInput, VdhInv, TypeOK

(* The process goes to sleep in getkb(), which is not the sleep in         *)
(* impopen().                                                              *)
LEMMA ImpNeedVdh ==
    ASSUME VdhInv, NEW n \in Node, NEW p \in Proc, ImpNeed(n, p) PROVE VdhInv'
<1> DEFINE a == [at EXCEPT ![n][p] = "getkb"]
<1>1. /\ a \in [Node -> [Proc -> {"sleep", "run", "getkb", "gone"}]]
      /\ \A m \in Node : \A r \in Proc : a[m][r] = "sleep" => at[m][r] = "sleep"
  BY DEF VdhInv, TypeOK
<1>2. at' = a /\ UNCHANGED <<nd, log, skew, faults, lost>>
  BY DEF ImpNeed
<1> HIDE DEF a
<1>3. TypeOK' /\ \A m \in Node : DriverOK(nd'[m])
  BY <1>1, <1>2 DEF VdhInv, TypeOK
<1>4. Attended'
  BY <1>1, <1>2 DEF VdhInv, Attended
<1>5. QED
  BY <1>3, <1>4 DEF VdhInv

(* The end of the loop: the process sleeps only when there is nothing to   *)
(* do, since the line that has gone down is begun anew at once.            *)
LEMMA LoopEndVdh ==
    ASSUME VdhInv, NEW n \in Node, NEW p \in Proc, NEW s, DriverOK(s),
           s.open = nd[n].open, s.hellonext = nd[n].hellonext,
           s.st \subseteq nd[n].st, "VDHINEED" \notin s.st,
           LoopEnd(n, p, s), log' \in [Node -> Log], UNCHANGED <<skew, faults, lost>>
    PROVE  VdhInv'
<1> DEFINE z == [s EXCEPT !.needinit = FALSE]
           r == IF s.needinit THEN imp_init(z, log[n].in) ELSE s
           a == [at EXCEPT ![n][p] = LoopTop(r)]
<1>1. nd' = [nd EXCEPT ![n] = r] /\ at' = a
  BY DEF LoopEnd
<1>2. z \in End /\ z.q \in Seq(Message) /\ z.open = s.open
  BY DEF DriverOK, End
<1>3. log[n].in \in Nat
  BY DEF VdhInv, TypeOK, Log
<1> HIDE DEF z
<1>4. /\ DriverOK(r) /\ r.open = s.open
      /\ r.st \subseteq s.st
      /\ r.open => r.hellonext # Never
  <2>1. CASE s.needinit
    <3>1. DriverOK(r) /\ r.st = {} /\ r.hellonext = Silence /\ r.open = s.open
      BY <1>2, <1>3, <2>1, InitType
    <3>2. QED
      BY <3>1, Numbers
  <2>2. CASE ~s.needinit
    BY <2>2 DEF DriverOK
  <2>3. QED
    BY <2>1, <2>2
<1> HIDE DEF r
<1>5. /\ a \in [Node -> [Proc -> {"sleep", "run", "getkb", "gone"}]]
      /\ \A m \in Node \ {n} : a[m] = at[m]
      /\ \A q \in Proc : q # p => a[n][q] = at[n][q]
      /\ a[n][p] = LoopTop(r)
  BY DEF VdhInv, TypeOK, LoopTop
<1> HIDE DEF a
<1>6. ASSUME NEW q \in Proc, r.open, a[n][q] = "sleep" PROVE ~Work(r)
  <2>1. CASE q = p
    <3>1. "VDHILAST" \notin r.st
      BY <1>5, <1>6, <2>1 DEF LoopTop
    <3>2. QED
      BY <1>4, <1>6, <3>1 DEF Work
  <2>2. CASE q # p
    <3>1. {"VDHILAST", "VDHINEED"} \cap nd[n].st = {}
      BY <1>4, <1>5, <1>6, <2>2 DEF VdhInv, Attended
    <3>2. QED
      BY <1>4, <1>6, <3>1 DEF Work
  <2>3. QED
    BY <2>1, <2>2
<1>7. \A q \in Proc : r.open /\ a[n][q] = "sleep" => ~Work(r)
  BY <1>6
<1>8. skew' \in {0, 1} /\ faults' \in 0 .. MaxFaults /\ lost' \in 0 .. MaxLost
  BY DEF VdhInv, TypeOK
<1>9. DriverOK(r) /\ nd' = [nd EXCEPT ![n] = r] /\ at' = a
  BY <1>1, <1>4
<1>10. /\ a \in [Node -> [Proc -> {"sleep", "run", "getkb", "gone"}]]
       /\ \A m \in Node \ {n} : a[m] = at[m]
  BY <1>5
<1>11. QED
  BY <1>7, <1>8, <1>9, <1>10, OneEnd, ZenonT(30)

(* getkb() has returned: the end of the loop, without VDHINEED.            *)
LEMMA ImpGetkbVdh ==
    ASSUME VdhInv, NEW n \in Node, NEW p \in Proc, ImpGetkb(n, p) PROVE VdhInv'
<1> DEFINE s == Without(nd[n], {"VDHINEED"})
<1>1. DriverOK(nd[n])
  BY DEF VdhInv
<1>2. nd[n].st \ {"VDHINEED"} \in SUBSET Flag
  BY <1>1 DEF DriverOK, End
<1>3. s \in End
  BY <1>1, <1>2 DEF Without, DriverOK, End
<1>4. /\ s.st = nd[n].st \ {"VDHINEED"} /\ s.q = nd[n].q /\ s.hellonext = nd[n].hellonext
      /\ s.open = nd[n].open /\ s.needinit = nd[n].needinit /\ s.imsg = nd[n].imsg
  BY <1>1 DEF Without, DriverOK, End
<1>5. LoopEnd(n, p, s)
  BY DEF ImpGetkb
<1> HIDE DEF s
<1>6. DriverOK(s)
  BY <1>1, <1>3, <1>4 DEF DriverOK
<1>7. log' \in [Node -> Log]
  BY InitLogType DEF ImpGetkb, VdhInv, TypeOK
<1>8. UNCHANGED <<skew, faults, lost>>
  BY DEF ImpGetkb
<1>9. QED
  BY <1>4, <1>5, <1>6, <1>7, <1>8, LoopEndVdh

(* The end of the loop, when there is neither a message nor VDHINEED.      *)
LEMMA ImpLoopVdh ==
    ASSUME VdhInv, NEW n \in Node, NEW p \in Proc, ImpLoop(n, p) PROVE VdhInv'
<1>1. DriverOK(nd[n])
  BY DEF VdhInv
<1>2. log' \in [Node -> Log]
  BY InitLogType DEF ImpLoop, VdhInv, TypeOK
<1>3. LoopEnd(n, p, nd[n]) /\ UNCHANGED <<skew, faults, lost>> /\ "VDHINEED" \notin nd[n].st
  BY DEF ImpLoop
<1>4. QED
  BY <1>1, <1>2, <1>3, LoopEndVdh

(* The interface has been closed: there is no work any more.               *)
LEMMA ImpDownVdh ==
    ASSUME VdhInv, NEW n \in Node, NEW p \in Proc, ImpDown(n, p) PROVE VdhInv'
<1> DEFINE e == [nd[n] EXCEPT !.imsg = <<>>, !.q = <<>>]
           a == [at EXCEPT ![n][p] = "gone"]
<1>1. DriverOK(nd[n]) /\ ~nd[n].open
  BY DEF VdhInv, ImpDown
<1>2. <<>> \in Seq(Piece) /\ <<>> \in Seq(Seq(Piece)) /\ <<>> \in Seq(Message)
  OBVIOUS
<1>3. e \in End
  BY <1>1, <1>2 DEF DriverOK, End
<1>4. e.q = <<>> /\ e.hellonext = nd[n].hellonext /\ ~e.open
  BY <1>1 DEF DriverOK, End
<1>5. DriverOK(e)
  BY <1>1, <1>2, <1>3, <1>4 DEF DriverOK
<1>6. nd' = [nd EXCEPT ![n] = e] /\ at' = a
  BY DEF ImpDown
<1>7. /\ a \in [Node -> [Proc -> {"sleep", "run", "getkb", "gone"}]]
      /\ \A m \in Node \ {n} : a[m] = at[m]
  BY DEF VdhInv, TypeOK
<1>8. log' \in [Node -> Log]
  <2> SUFFICES \A m \in Node : [log[m] EXCEPT !.init = log[m].in] \in Log
    BY DEF ImpDown
  <2>1. QED
    BY DEF VdhInv, TypeOK, Log
<1> HIDE DEF e, a
<1>9. \A q \in Proc : e.open /\ a[n][q] = "sleep" => ~Work(e)
  BY <1>4
<1>10. skew' \in {0, 1} /\ faults' \in 0 .. MaxFaults /\ lost' \in 0 .. MaxLost
  BY DEF ImpDown, VdhInv, TypeOK
<1>11. QED
  BY <1>5, <1>6, <1>7, <1>8, <1>9, <1>10, OneEnd

(* ncpclose() wakes the process, which then finds the interface closed.    *)
LEMMA StopVdh == ASSUME VdhInv, Stop PROVE VdhInv'
<1> DEFINE n == "host"
           e == [nd[n] EXCEPT !.open = FALSE]
<1>1. DriverOK(nd[n]) /\ n \in Node
  BY DEF VdhInv, Node
<1>2. e \in End
  BY <1>1 DEF DriverOK, End
<1>3. e.q = nd[n].q /\ e.hellonext = nd[n].hellonext /\ e.open = FALSE
  BY <1>1 DEF DriverOK, End
<1>4. DriverOK(e)
  BY <1>1, <1>2, <1>3 DEF DriverOK
<1>5. nd' = [nd EXCEPT ![n] = e] /\ at' = Wakeup(n)
  BY DEF Stop
<1>6. /\ log' \in [Node -> Log]
      /\ skew' \in {0, 1} /\ faults' \in 0 .. MaxFaults /\ lost' \in 0 .. MaxLost
  BY VdhAssumption DEF Stop, VdhInv, TypeOK
<1> HIDE DEF e, n
<1>7. \A q \in Proc : e.open /\ Wakeup(n)[n][q] = "sleep" => ~Work(e)
  BY <1>3
<1>8. /\ Wakeup(n) \in [Node -> [Proc -> {"sleep", "run", "getkb", "gone"}]]
      /\ \A m \in Node \ {n} : Wakeup(n)[m] = at[m]
  BY <1>1, Places
<1>9. n \in Node
  BY <1>1
<1>10. QED
  BY <1>4, <1>5, <1>6, <1>7, <1>8, <1>9, OneEnd

(* impopen() initialises the driver before its process sleeps.             *)
LEMMA RestartVdh == ASSUME VdhInv, Restart PROVE VdhInv'
<1> DEFINE n == "host"
           t == imp_init(nd[n], log[n].in)
           e == [t EXCEPT !.open = TRUE]
<1>1. DriverOK(nd[n]) /\ n \in Node
  BY DEF VdhInv, Node
<1>2. log[n].in \in Nat
  BY <1>1 DEF VdhInv, TypeOK, Log
<1>3. nd' = [nd EXCEPT ![n] = e]
  BY DEF Restart
<1>4. PICK p \in Proc : at' = [at EXCEPT ![n][p] = "sleep"]
  BY DEF Restart
<1> DEFINE a == [at EXCEPT ![n][p] = "sleep"]
<1>5. DriverOK(t) /\ t.st = {} /\ t.hellonext = Silence
  BY <1>1, <1>2, InitType DEF DriverOK
<1> HIDE DEF t
<1>6. e \in End
  BY <1>5 DEF DriverOK, End
<1>7. /\ e.st = {} /\ e.q = t.q /\ e.hellonext = Silence /\ e.needinit = t.needinit
      /\ Silence # Never /\ Silence > 0
  <2>1. Silence # Never /\ Silence > 0
    BY Numbers
  <2>2. QED
    BY <1>5, <2>1 DEF DriverOK, End
<1>8. DriverOK(e) /\ ~Work(e)
  BY <1>5, <1>6, <1>7 DEF DriverOK, Work
<1>9. /\ a \in [Node -> [Proc -> {"sleep", "run", "getkb", "gone"}]]
      /\ \A m \in Node \ {n} : a[m] = at[m]
  BY DEF VdhInv, TypeOK
<1>10. /\ log' \in [Node -> Log]
       /\ skew' \in {0, 1} /\ faults' \in 0 .. MaxFaults /\ lost' \in 0 .. MaxLost
  BY <1>1, InitLogType DEF Restart, VdhInv, TypeOK
<1> HIDE DEF e, n, a
<1>11. \A q \in Proc : e.open /\ a[n][q] = "sleep" => ~Work(e)
  BY <1>8
<1>12. at' = a
  BY <1>4 DEF a
<1>13. QED
  BY <1>1, <1>3, <1>8, <1>9, <1>10, <1>11, <1>12, OneEnd

(* The invariant is inductive.                                             *)
LEMMA NextVdh == VdhInv /\ [Next]_vars => VdhInv'
<1> SUFFICES ASSUME VdhInv, [Next]_vars PROVE VdhInv'
  OBVIOUS
<1>1. CASE UNCHANGED vars
  BY <1>1 DEF vars, VdhInv, TypeOK, Attended
<1>2. CASE Next
  BY <1>2, OutputVdh, OutputDoneVdh, LoseVdh, TickVdh, InputVdh, ImpInputVdh, ImpNeedVdh,
     ImpGetkbVdh, ImpLoopVdh, ImpDownVdh, StopVdh, RestartVdh DEF Next, InputProcess
<1>3. QED
  BY <1>1, <1>2

(* It holds in every state.                                                *)
LEMMA VdhInvHolds == Spec => []VdhInv
BY InitVdh, NextVdh, PTL DEF Spec

(* The variables of both drivers keep their types: the counters and the    *)
(* hold-offs of vdh.c stay in their ranges, whatever comes in.             *)
THEOREM TypeCorrect == Spec => []TypeOK
<1>1. VdhInv => TypeOK
  BY DEF VdhInv
<1>2. QED
  BY <1>1, VdhInvHolds, PTL

(* The input process, impopen() of vdhio.c, does not sleep while a message *)
(* or a want of buffers waits for it, or on a line that has gone down.     *)
THEOREM AttendedHolds == Spec => []Attended
<1>1. VdhInv => Attended
  BY DEF VdhInv
<1>2. QED
  BY <1>1, VdhInvHolds, PTL

-----------------------------------------------------------------------------
(* The link.  As long as neither end begins anew, messages are handed over *)
(* in order and once, with their leaders, whatever the line loses, however *)
(* often a packet is sent and whatever the sizes of the messages.          *)
(*                                                                         *)
(* The argument is that of the alternating bit, for two channels that are  *)
(* used in turn.  A packet on the line is the one its channel holds, or    *)
(* its even/odd bit tells the receiver that he has taken it; an ack on the *)
(* line is of that packet only if he has.  Hence the piece that comes next *)
(* is in the channel whose turn it is.                                     *)

(* The driver is not stopped, and does not find the line down.             *)
NoFaults == MaxFaults = 0

(* Where a piece is in the sequence of all pieces.                         *)
Pos(pc) == <<pc.m, pc.i>>
(* The place after that of a piece.                                        *)
After(pc) == IF pc.last THEN <<pc.m + 1, 1>> ELSE <<pc.m, pc.i + 1>>

(* x is message m from its part i on.                                      *)
From(x, m, i) ==
    /\ x # <<>>
    /\ \A k \in DOMAIN x : x[k].m = m /\ x[k].i = i + k - 1 /\ (x[k].last <=> k = Len(x))

(* The place of the piece that end s puts into a channel next; in: the     *)
(* messages that were given to s.                                          *)
Next2Send(s, in) ==
    IF s.msg # <<>> THEN <<in - Len(s.q), s.msg[1].i>> ELSE <<in - Len(s.q) + 1, 1>>

(* The place of the piece that end r needs; newest: the last message that  *)
(* was handed over at r.                                                   *)
Next2Take(r, newest) ==
    IF "VDHILAST" \in r.st THEN <<newest + 2, 1>> ELSE <<newest + 1, Len(r.imsg) + 1>>

(* Channel c has a packet of s that r has not taken.                       *)
Due(s, r, c) == s.use[c] # Free /\ s.prv[c] = r.ack[c]

(* What s has not yet put into a channel.                                  *)
QueueInv(s, in) ==
    /\ in - Len(s.q) \in Nat
    /\ \A j \in DOMAIN s.q : From(s.q[j], in - Len(s.q) + j, 1)
    /\ s.msg # <<>> => From(s.msg, in - Len(s.q), s.msg[1].i)

(* The part of a message that r has.                                       *)
PartInv(r, newest) ==
    /\ newest \in Nat
    /\ \A k \in DOMAIN r.imsg : r.imsg[k].m = newest + 1 /\ r.imsg[k].i = k
    /\ "VDHILAST" \in r.st => r.imsg # <<>>

(* The packets in the channels; one that is free has been acknowledged.    *)
ChanInv(s, r) ==
    \A c \in Chan :
        /\ s.use[c] # Free => /\ s.buf[c].t = "data" /\ s.buf[c].ch = c
                              /\ s.buf[c].bit = s.prv[c]
        /\ s.use[c] = Free => r.ack[c] = s.prv[c]

(* The pieces due are those between what r needs and what s puts into a    *)
(* channel next, and are in the channels whose turn it is.                 *)
TurnInv(s, r, in, newest) ==
    LET e == s.ofill
        l == 1 - s.ofill
        need == Next2Take(r, newest)
        next == Next2Send(s, in)
    IN  /\ r.ichn = e /\ ~Due(s, r, e) => ~Due(s, r, l) /\ need = next
        /\ r.ichn = e /\ Due(s, r, e) =>
                /\ Due(s, r, l)
                /\ Pos(s.buf[e].pc) = need
                /\ Pos(s.buf[l].pc) = After(s.buf[e].pc)
                /\ After(s.buf[l].pc) = next
        /\ r.ichn # e =>
                /\ Due(s, r, l) /\ ~Due(s, r, e)
                /\ Pos(s.buf[l].pc) = need
                /\ After(s.buf[l].pc) = next

(* v: the line from s to r.  A packet that r would not take for an old one *)
(* is the one in its channel, and no older one is behind it.               *)
DataInv(s, r, v) ==
    \A i \in DOMAIN v :
        LET c == v[i].ch
        IN  v[i].t = "data" /\ v[i].bit = r.ack[c] =>
                /\ s.use[c] # Free /\ s.prv[c] = v[i].bit /\ s.buf[c].pc = v[i].pc
                /\ \A j \in DOMAIN v : j > i /\ v[j].t = "data" /\ v[j].ch = c
                                        => v[j].bit = v[i].bit

(* A packet that has ack bits: a hello and its answer have none.           *)
Acks(p) == p.t \in {"null", "data"}

(* w: the line from r to s.  What s has not seen, no packet acknowledges   *)
(* that r has not taken, and no older ack is behind a newer one.           *)
AckInv(s, r, w) ==
    \A i \in DOMAIN w : \A c \in Chan :
        Acks(w[i]) =>
            /\ r.ack[c] = s.prv[c] => w[i].ack[c] = r.ack[c]
            /\ w[i].ack[c] = r.ack[c] =>
                    \A j \in DOMAIN w : j > i /\ Acks(w[j]) => w[j].ack[c] = r.ack[c]

(* The way from s to r.                                                    *)
Way(s, r, v, w, in, newest) ==
    /\ QueueInv(s, in)
    /\ PartInv(r, newest)
    /\ ChanInv(s, r)
    /\ TurnInv(s, r, in, newest)
    /\ DataInv(s, r, v)
    /\ AckInv(s, r, w)

(* Both ways, between an end s with its log and an end r with its own.     *)
Ways(s, r, v, w, ls, lr) ==
    /\ Way(s, r, v, w, ls.in, lr.newest)
    /\ Way(r, s, w, v, lr.in, ls.newest)

(* Nobody has begun anew.                                                  *)
Calm == \A n \in Node : nd[n].open /\ ~nd[n].needinit /\ log[n].init = 0 /\ ~log[n].torn

(* Seen from each of the ends.                                             *)
WaysInv ==
    \A n \in Node :
        Ways(nd[n], nd[Peer(n)], nd[n].wire, nd[Peer(n)].wire, log[n], log[Peer(n)])

(* What holds as long as no end begins anew.                               *)
LinkInv == Calm /\ WaysInv

-----------------------------------------------------------------------------
(* Steps that leave the packets alone                                      *)

(* From s to t nothing has changed that matters for the ways.              *)
Same(s, t) ==
    /\ t.q = s.q /\ t.msg = s.msg /\ t.buf = s.buf /\ t.ofill = s.ofill
    /\ t.prv = s.prv /\ t.ack = s.ack /\ t.ichn = s.ichn /\ t.imsg = s.imsg
    /\ "VDHILAST" \in t.st <=> "VDHILAST" \in s.st
    /\ \A c \in Chan : t.use[c] = Free <=> s.use[c] = Free

(* The channel numbers of a driver.                                        *)
LEMMA ChanType ==
    ASSUME NEW s, DriverOK(s)
    PROVE  /\ s.ofill \in Chan /\ 1 - s.ofill \in Chan /\ 1 - s.ofill # s.ofill
           /\ s.ichn \in Chan /\ 1 - s.ichn \in Chan
           /\ s.osnd \in Chan /\ 1 - s.osnd \in Chan
           /\ \A c \in Chan : c = s.ofill \/ c = 1 - s.ofill
<1>1. s.ofill \in Chan /\ s.ichn \in Chan /\ s.osnd \in Chan
  BY DEF DriverOK, End
<1>2. \A c \in Chan : 1 - c \in Chan /\ 1 - c # c
  BY DEF Chan
<1>3. \A c \in Chan : \A d \in Chan : c = d \/ c = 1 - d
  BY DEF Chan
<1>4. QED
  BY <1>1, <1>2, <1>3

(* The parts of a packet on the line.                                      *)
LEMMA LineType ==
    ASSUME NEW v \in Seq(Packet), NEW i \in DOMAIN v
    PROVE  /\ v[i] \in Packet /\ v[i].ch \in Chan /\ v[i].bit \in Bit
           /\ v[i].ack \in [Chan -> Bit] /\ v[i].pc \in Piece
<1>1. v[i] \in Packet
  OBVIOUS
<1>2. QED
  BY <1>1 DEF Packet

(* If nothing has changed that matters, the ways hold on.                  *)
LEMMA SameWay ==
    ASSUME NEW s, DriverOK(s), NEW t, NEW r, DriverOK(r), Same(s, t),
           NEW v \in Seq(Packet), NEW w \in Seq(Packet), NEW in, NEW newest
    PROVE  /\ Way(s, r, v, w, in, newest) => Way(t, r, v, w, in, newest)
           /\ Way(r, s, v, w, in, newest) => Way(r, t, v, w, in, newest)
<1>1. /\ s.ofill \in Chan /\ 1 - s.ofill \in Chan
      /\ r.ofill \in Chan /\ 1 - r.ofill \in Chan
  BY ChanType
<1>2. ASSUME Way(s, r, v, w, in, newest) PROVE Way(t, r, v, w, in, newest)
  <2>1. QueueInv(t, in) /\ PartInv(r, newest)
    BY <1>2 DEF Way, QueueInv, Same
  <2>2. ChanInv(t, r)
    BY <1>2 DEF Way, ChanInv, Same
  <2>3. \A c \in Chan : Due(t, r, c) <=> Due(s, r, c)
    BY DEF Due, Same
  <2>4. TurnInv(t, r, in, newest)
    BY <1>1, <1>2, <2>3 DEF Way, TurnInv, Next2Send, Same
  <2>5. DataInv(t, r, v)
    <3> SUFFICES ASSUME NEW i \in DOMAIN v, v[i].t = "data", v[i].bit = r.ack[v[i].ch]
                 PROVE  /\ t.use[v[i].ch] # Free /\ t.prv[v[i].ch] = v[i].bit
                        /\ t.buf[v[i].ch].pc = v[i].pc
                        /\ \A j \in DOMAIN v : j > i /\ v[j].t = "data" /\ v[j].ch = v[i].ch
                                                => v[j].bit = v[i].bit
      BY DEF DataInv
    <3>1. v[i].ch \in Chan
      BY LineType
    <3>2. QED
      BY <1>2, <3>1 DEF Way, DataInv, Same
  <2>6. AckInv(t, r, w)
    BY <1>2 DEF Way, AckInv, Same
  <2>7. QED
    BY <2>1, <2>2, <2>4, <2>5, <2>6 DEF Way
<1>3. ASSUME Way(r, s, v, w, in, newest) PROVE Way(r, t, v, w, in, newest)
  <2>1. QueueInv(r, in) /\ PartInv(t, newest)
    BY <1>3 DEF Way, PartInv, Same
  <2>2. ChanInv(r, t)
    BY <1>3 DEF Way, ChanInv, Same
  <2>3. \A c \in Chan : Due(r, t, c) <=> Due(r, s, c)
    BY DEF Due, Same
  <2>4. TurnInv(r, t, in, newest)
    BY <1>1, <1>3, <2>3 DEF Way, TurnInv, Next2Take, Same
  <2>5. DataInv(r, t, v)
    BY <1>3 DEF Way, DataInv, Same
  <2>6. AckInv(r, t, w)
    BY <1>3 DEF Way, AckInv, Same
  <2>7. QED
    BY <2>1, <2>2, <2>4, <2>5, <2>6 DEF Way
<1>4. QED
  BY <1>2, <1>3

(* Both of them at once.                                                   *)
LEMMA SameWays ==
    ASSUME NEW s, DriverOK(s), NEW t, NEW r, DriverOK(r), Same(s, t),
           NEW v \in Seq(Packet), NEW w \in Seq(Packet), NEW ls, NEW lr,
           Ways(s, r, v, w, ls, lr)
    PROVE  Ways(t, r, v, w, ls, lr)
BY SameWay DEF Ways

(* Both ways are the same from either end.                                 *)
LEMMA Mirror ==
    ASSUME NEW s, NEW r, NEW v, NEW w, NEW ls, NEW lr, Ways(s, r, v, w, ls, lr)
    PROVE  Ways(r, s, w, v, lr, ls)
BY DEF Ways

-----------------------------------------------------------------------------
(* A channel is filled                                                     *)

(* A sequence is empty if and only if its length is zero.                  *)
LEMMA Empty ==
    ASSUME NEW S, NEW x \in Seq(S)
    PROVE  Len(x) \in Nat /\ (x = <<>> <=> Len(x) = 0)
<1>1. Len(<<>>) = 0
  OBVIOUS
<1>2. Len(x) = 0 => x = <<>>
  OBVIOUS
<1>3. QED
  BY <1>1, <1>2

(* The first piece of a message, and the rest of it.                       *)
LEMMA FromHead ==
    ASSUME NEW x \in Seq(Piece), NEW m \in Nat, NEW i \in Nat, From(x, m, i)
    PROVE  /\ Pos(Head(x)) = <<m, i>>
           /\ Head(x).last <=> Tail(x) = <<>>
           /\ Tail(x) # <<>> => From(Tail(x), m, i + 1) /\ Tail(x)[1].i = i + 1
<1>1. Len(x) \in Nat /\ Len(x) > 0 /\ 1 \in DOMAIN x /\ x # <<>>
  <2>1. x # <<>>
    BY DEF From
  <2>2. QED
    BY <2>1, Empty
<1>2. Head(x) = x[1] /\ x[1].m = m /\ x[1].i = i /\ (x[1].last <=> 1 = Len(x))
  <2>1. Head(x) = x[1]
    BY <1>1
  <2>2. x[1].m = m /\ x[1].i = i + 1 - 1 /\ (x[1].last <=> 1 = Len(x))
    BY <1>1 DEF From
  <2>3. i + 1 - 1 = i
    OBVIOUS
  <2>4. QED
    BY <2>1, <2>2, <2>3
<1>3. Pos(Head(x)) = <<m, i>>
  BY <1>2 DEF Pos
<1>4. Len(Tail(x)) = Len(x) - 1 /\ Tail(x) \in Seq(Piece)
        /\ \A k \in 1 .. Len(x) - 1 : Tail(x)[k] = x[k + 1]
  BY <1>1
<1>5. Tail(x) = <<>> <=> Len(x) = 1
  <2>1. Tail(x) = <<>> <=> Len(Tail(x)) = 0
    BY <1>4, Empty
  <2>2. QED
    BY <1>1, <1>4, <2>1
<1>6. ASSUME Tail(x) # <<>>
      PROVE  From(Tail(x), m, i + 1) /\ Tail(x)[1].i = i + 1
  <2>1. Len(x) - 1 > 0
    BY <1>1, <1>5, <1>6
  <2>2. ASSUME NEW k \in DOMAIN Tail(x)
        PROVE  /\ Tail(x)[k].m = m /\ Tail(x)[k].i = i + 1 + k - 1
               /\ Tail(x)[k].last <=> k = Len(Tail(x))
    <3>1. k \in 1 .. Len(x) - 1 /\ k + 1 \in DOMAIN x
      BY <1>1, <1>4, <2>2
    <3>2. x[k + 1].m = m /\ x[k + 1].i = i + (k + 1) - 1 /\ (x[k + 1].last <=> k + 1 = Len(x))
      BY <3>1 DEF From
    <3>3. Tail(x)[k] = x[k + 1] /\ k \in Int
      BY <1>4, <3>1
    <3>4. i + (k + 1) - 1 = i + 1 + k - 1 /\ (k + 1 = Len(x) <=> k = Len(x) - 1)
      BY <1>1, <3>3
    <3>5. QED
      BY <1>4, <3>2, <3>3, <3>4
  <2>3. From(Tail(x), m, i + 1)
    BY <1>6, <2>2 DEF From
  <2>4. 1 \in DOMAIN Tail(x)
    BY <1>4, <2>1
  <2>5. Tail(x)[1].i = i + 1
    <3>1. Tail(x)[1].i = i + 1 + 1 - 1
      BY <2>2, <2>4
    <3>2. i + 1 + 1 - 1 = i + 1
      OBVIOUS
    <3>3. QED
      BY <3>1, <3>2
  <2>6. QED
    BY <2>3, <2>5
<1>7. QED
  BY <1>2, <1>3, <1>5, <1>6

(* fillochans() takes the piece that comes next.                           *)
LEMMA FillQueue ==
    ASSUME NEW s, DriverOK(s), NEW in \in Nat, QueueInv(s, in),
           s.use[s.ofill] = Free, ~(s.msg = <<>> /\ s.q = <<>>)
    PROVE  LET t == FillChan(s)
               c == s.ofill
           IN  /\ QueueInv(t, in)
               /\ Pos(t.buf[c].pc) = Next2Send(s, in)
               /\ After(t.buf[c].pc) = Next2Send(t, in)
               /\ t.use = [s.use EXCEPT ![c] = 0] /\ t.ofill = 1 - c
               /\ t.prv = s.prv
               /\ \A d \in Chan : d # c => t.buf[d] = s.buf[d]
               /\ t.buf[c].t = "data" /\ t.buf[c].ch = c /\ t.buf[c].bit = s.prv[c]
<1> DEFINE c == s.ofill
           m == IF s.msg = <<>> THEN Head(s.q) ELSE s.msg
           u == IF s.msg = <<>> THEN Tail(s.q) ELSE s.q
           t == FillChan(s)
           b == [t |-> "data", ack |-> NoBits, ch |-> c, bit |-> s.prv[c], pc |-> Head(m)]
           n == IF s.msg = <<>> THEN in - Len(s.q) + 1 ELSE in - Len(s.q)
           i == IF s.msg = <<>> THEN 1 ELSE s.msg[1].i
<1>1. s.q \in Seq(Message) /\ s.msg \in Seq(Piece) /\ c \in Chan
  BY DEF DriverOK, End
<1>2. t = [s EXCEPT !.q = u, !.msg = Tail(m), !.buf[c] = b, !.use[c] = 0, !.ofill = 1 - c]
  BY DEF FillChan
<1>3. Len(s.q) \in Nat /\ in - Len(s.q) \in Nat
  BY <1>1 DEF QueueInv
<1>4. /\ m \in Seq(Piece) /\ n \in Nat /\ i \in Nat /\ From(m, n, i)
      /\ Next2Send(s, in) = <<n, i>>
      /\ in - Len(u) = n /\ u \in Seq(Message)
      /\ \A j \in DOMAIN u : From(u[j], n + j, 1)
  <2>1. CASE s.msg = <<>>
    <3>1. s.q # <<>> /\ Len(s.q) > 0 /\ 1 \in DOMAIN s.q
      BY <1>1, <2>1
    <3>2. m = s.q[1] /\ m \in Message /\ m \in Seq(Piece)
      BY <1>1, <2>1, <3>1 DEF Message
    <3>3. From(s.q[1], in - Len(s.q) + 1, 1)
      BY <3>1 DEF QueueInv
    <3>4. u = Tail(s.q) /\ Len(u) = Len(s.q) - 1 /\ u \in Seq(Message)
            /\ \A j \in 1 .. Len(s.q) - 1 : u[j] = s.q[j + 1]
      BY <1>1, <2>1, <3>1
    <3>5. n = in - Len(s.q) + 1 /\ i = 1 /\ Next2Send(s, in) = <<n, i>>
      BY <2>1 DEF Next2Send
    <3> HIDE DEF u, m, n, i
    <3>6. in - Len(u) = n /\ n \in Nat
      <4>1. in - (Len(s.q) - 1) = in - Len(s.q) + 1
        BY <1>3
      <4>2. in - Len(s.q) + 1 \in Nat
        BY <1>3
      <4>3. QED
        BY <3>4, <3>5, <4>1, <4>2
    <3>7. ASSUME NEW j \in DOMAIN u PROVE From(u[j], n + j, 1)
      <4>1. j \in 1 .. Len(s.q) - 1 /\ j + 1 \in DOMAIN s.q
        BY <1>1, <1>3, <3>4, <3>7
      <4>2. From(s.q[j + 1], in - Len(s.q) + (j + 1), 1)
        BY <4>1 DEF QueueInv
      <4>3. in - Len(s.q) + (j + 1) = n + j
        <5>1. j \in Int /\ Len(s.q) \in Int /\ in \in Int
          BY <1>3, <4>1
        <5>2. \A x, y, z \in Int : x - y + (z + 1) = x - y + 1 + z
          OBVIOUS
        <5>3. in - Len(s.q) + (j + 1) = in - Len(s.q) + 1 + j
          BY <5>1, <5>2
        <5>4. QED
          BY <3>5, <5>3
      <4>4. QED
        BY <3>4, <4>1, <4>2, <4>3
    <3>8. QED
      BY <3>2, <3>3, <3>4, <3>5, <3>6, <3>7
  <2>2. CASE s.msg # <<>>
    <3>1. 1 \in DOMAIN s.msg
      BY <1>1, <2>2
    <3>2. s.msg[1].i \in Nat
      <4>1. s.msg[1] \in Piece
        BY <1>1, <3>1
      <4>2. QED
        BY <4>1 DEF Piece
    <3>3. QED
      BY <1>1, <1>3, <2>2, <3>2 DEF QueueInv, Next2Send
  <2>3. QED
    BY <2>1, <2>2
<1>5. /\ t.q = u /\ t.msg = Tail(m) /\ t.ofill = 1 - c /\ t.prv = s.prv
      /\ t.use = [s.use EXCEPT ![c] = 0] /\ t.buf = [s.buf EXCEPT ![c] = b]
  BY <1>2 DEF DriverOK, End
<1>6. t.buf[c] = b /\ \A d \in Chan : d # c => t.buf[d] = s.buf[d]
  BY <1>1, <1>5 DEF DriverOK, End
<1>7. b.pc = Head(m) /\ b.t = "data" /\ b.ch = c /\ b.bit = s.prv[c]
  OBVIOUS
<1> HIDE DEF b, u, m, n, i, c, t
<1>8. /\ Pos(Head(m)) = <<n, i>>
      /\ Head(m).last <=> Tail(m) = <<>>
      /\ Tail(m) # <<>> => From(Tail(m), n, i + 1) /\ Tail(m)[1].i = i + 1
  BY <1>4, FromHead
<1>9. QueueInv(t, in)
  BY <1>4, <1>5, <1>8 DEF QueueInv
<1>10. After(Head(m)) = Next2Send(t, in)
  <2>1. Head(m).m = n /\ Head(m).i = i
    BY <1>8 DEF Pos
  <2>2. QED
    BY <1>4, <1>5, <1>8, <2>1 DEF After, Next2Send
<1>11. QED
  BY <1>4, <1>5, <1>6, <1>7, <1>8, <1>9, <1>10 DEF c, t

(* A channel that is free and whose turn it is gets a packet, which the    *)
(* other end has not taken.                                                *)
LEMMA FillWay ==
    ASSUME NEW s, DriverOK(s), NEW r, DriverOK(r), NEW v \in Seq(Packet), NEW w,
           NEW in \in Nat, NEW newest, Way(s, r, v, w, in, newest)
    PROVE  Way(FillChan(s), r, v, w, in, newest)
<1> DEFINE t == FillChan(s)
           c == s.ofill
           d == 1 - s.ofill
<1>1. CASE s.use[c] # Free \/ (s.msg = <<>> /\ s.q = <<>>)
  BY <1>1 DEF FillChan
<1>2. CASE s.use[c] = Free /\ ~(s.msg = <<>> /\ s.q = <<>>)
  <2>1. c \in Chan /\ d \in Chan /\ d # c /\ 1 - d = c /\ \A x \in Chan : x = c \/ x = d
    <3>1. c \in Chan
      BY ChanType
    <3>2. CASE c = 0
      BY <3>2 DEF Chan
    <3>3. CASE c = 1
      BY <3>3 DEF Chan
    <3>4. QED
      BY <3>1, <3>2, <3>3 DEF Chan
  <2>2. /\ QueueInv(t, in)
        /\ Pos(t.buf[c].pc) = Next2Send(s, in)
        /\ After(t.buf[c].pc) = Next2Send(t, in)
        /\ t.use = [s.use EXCEPT ![c] = 0] /\ t.ofill = d
        /\ t.prv = s.prv
        /\ t.buf[d] = s.buf[d]
        /\ t.buf[c].t = "data" /\ t.buf[c].ch = c /\ t.buf[c].bit = s.prv[c]
    BY <1>2, <2>1, FillQueue DEF Way
  <2>3. t.use[c] = 0 /\ t.use[d] = s.use[d] /\ 0 # Free
    BY <2>1, <2>2 DEF DriverOK, End, Free
  <2>4. r.ack[c] = s.prv[c]
    BY <1>2, <2>1 DEF Way, ChanInv
  <2> HIDE DEF t, c, d
  <2>5. PartInv(r, newest) /\ AckInv(t, r, w)
    BY <2>2 DEF Way, AckInv
  <2>6. ChanInv(t, r)
    BY <2>1, <2>2, <2>3 DEF Way, ChanInv
  <2>7. Due(t, r, c) /\ ~Due(s, r, c) /\ (Due(t, r, d) <=> Due(s, r, d))
    BY <1>2, <2>2, <2>3, <2>4 DEF Due, c
  <2>8. TurnInv(t, r, in, newest)
    <3>1. /\ r.ichn = c /\ ~Due(s, r, c) => ~Due(s, r, d) /\ Next2Take(r, newest) = Next2Send(s, in)
          /\ r.ichn # c => /\ Due(s, r, d)
                           /\ Pos(s.buf[d].pc) = Next2Take(r, newest)
                           /\ After(s.buf[d].pc) = Next2Send(s, in)
      BY DEF Way, TurnInv, c, d
    <3>2. CASE r.ichn = c
      BY <2>1, <2>2, <2>7, <3>1, <3>2 DEF TurnInv
    <3>3. CASE r.ichn # c
      <4>1. r.ichn = d
        BY <2>1, <3>3, ChanType
      <4>2. QED
        BY <2>1, <2>2, <2>7, <3>1, <3>3, <4>1 DEF TurnInv
    <3>4. QED
      BY <3>2, <3>3
  <2>9. DataInv(t, r, v)
    <3> SUFFICES ASSUME NEW i \in DOMAIN v, v[i].t = "data", v[i].bit = r.ack[v[i].ch]
                 PROVE  /\ t.use[v[i].ch] # Free /\ t.prv[v[i].ch] = v[i].bit
                        /\ t.buf[v[i].ch].pc = v[i].pc
                        /\ \A j \in DOMAIN v : j > i /\ v[j].t = "data" /\ v[j].ch = v[i].ch
                                                => v[j].bit = v[i].bit
      BY DEF DataInv
    <3>1. v[i].ch \in Chan
      BY LineType
    <3>2. /\ s.use[v[i].ch] # Free /\ s.prv[v[i].ch] = v[i].bit
          /\ s.buf[v[i].ch].pc = v[i].pc
          /\ \A j \in DOMAIN v : j > i /\ v[j].t = "data" /\ v[j].ch = v[i].ch
                                  => v[j].bit = v[i].bit
      BY DEF Way, DataInv
    <3>3. v[i].ch = d
      BY <1>2, <2>1, <3>1, <3>2 DEF c
    <3>4. QED
      BY <2>2, <2>3, <3>2, <3>3
  <2>10. QED
    BY <2>2, <2>5, <2>6, <2>8, <2>9 DEF Way, t
<1>3. QED
  BY <1>1, <1>2

(* What goes out has nothing to do with what comes in.                     *)
LEMMA RecvWay ==
    ASSUME NEW s, NEW t, t.ack = s.ack, t.ichn = s.ichn, t.imsg = s.imsg,
           "VDHILAST" \in t.st <=> "VDHILAST" \in s.st,
           NEW r, NEW v, NEW w, NEW in, NEW newest, Way(r, s, v, w, in, newest)
    PROVE  Way(r, t, v, w, in, newest)
<1>1. PartInv(t, newest)
  BY DEF Way, PartInv
<1>2. ChanInv(r, t) /\ DataInv(r, t, v) /\ AckInv(r, t, w)
  BY DEF Way, ChanInv, DataInv, AckInv
<1>3. TurnInv(r, t, in, newest)
  BY DEF Way, TurnInv, Due, Next2Take
<1>4. QED
  BY <1>1, <1>2, <1>3 DEF Way

(* What output leaves alone is all that the way to its end needs.          *)
LEMMA KeptWay ==
    ASSUME NEW s, NEW t, Kept(s, t), NEW r, NEW v, NEW w, NEW in, NEW newest,
           Way(r, s, v, w, in, newest)
    PROVE  Way(r, t, v, w, in, newest)
<1>1. "VDHILAST" \in t.st <=> "VDHILAST" \in s.st
  BY DEF Kept, Lasting
<1>2. t.ack = s.ack /\ t.ichn = s.ichn /\ t.imsg = s.imsg
  BY DEF Kept
<1>3. QED
  BY <1>1, <1>2, RecvWay

(* fillochans() fills up to two channels.                                  *)
LEMMA FillWays ==
    ASSUME NEW s, DriverOK(s), NEW r, DriverOK(r),
           NEW v \in Seq(Packet), NEW w \in Seq(Packet), NEW ls \in Log, NEW lr \in Log,
           Ways(s, r, v, w, ls, lr)
    PROVE  Ways(fillochans(s), r, v, w, ls, lr)
<1> DEFINE t == FillChan(s)
<1>1. DriverOK(t) /\ Kept(s, t)
  BY FillType
<1>2. ls.in \in Nat
  BY DEF Log
<1>3. Way(t, r, v, w, ls.in, lr.newest) /\ Way(r, t, w, v, lr.in, ls.newest)
  BY <1>1, <1>2, FillWay, KeptWay DEF Ways
<1> HIDE DEF t
<1>4. Kept(t, FillChan(t))
  BY <1>1, FillType
<1>5. Way(FillChan(t), r, v, w, ls.in, lr.newest) /\ Way(r, FillChan(t), w, v, lr.in, ls.newest)
  BY <1>1, <1>2, <1>3, <1>4, FillWay, KeptWay
<1>6. QED
  BY <1>5 DEF Ways, fillochans, t

-----------------------------------------------------------------------------
(* A packet is sent                                                        *)

(* A packet at the end of the line.                                        *)
LEMMA AppendType ==
    ASSUME NEW v \in Seq(Packet), NEW p \in Packet
    PROVE  /\ Append(v, p) \in Seq(Packet) /\ Len(v) \in Nat
           /\ DOMAIN Append(v, p) = 1 .. Len(v) + 1 /\ DOMAIN v = 1 .. Len(v)
           /\ \A i \in 1 .. Len(v) : Append(v, p)[i] = v[i]
           /\ Append(v, p)[Len(v) + 1] = p
OBVIOUS

(* The packet is one that its channel holds, or has no data.               *)
LEMMA AppendData ==
    ASSUME NEW s, NEW r, NEW v \in Seq(Packet), NEW p \in Packet, DataInv(s, r, v),
           p.t = "data" => /\ s.use[p.ch] # Free /\ p.bit = s.prv[p.ch]
                           /\ p.pc = s.buf[p.ch].pc
    PROVE  DataInv(s, r, Append(v, p))
<1> DEFINE x == Append(v, p)
           n == Len(v) + 1
<1>1. /\ DOMAIN x = 1 .. n /\ DOMAIN v = 1 .. Len(v) /\ Len(v) \in Nat
      /\ \A i \in 1 .. Len(v) : x[i] = v[i]
      /\ x[n] = p
  BY AppendType
<1> HIDE DEF x
<1> SUFFICES ASSUME NEW i \in DOMAIN x, x[i].t = "data", x[i].bit = r.ack[x[i].ch]
             PROVE  /\ s.use[x[i].ch] # Free /\ s.prv[x[i].ch] = x[i].bit
                    /\ s.buf[x[i].ch].pc = x[i].pc
                    /\ \A j \in DOMAIN x : j > i /\ x[j].t = "data" /\ x[j].ch = x[i].ch
                                            => x[j].bit = x[i].bit
  BY DEF DataInv, x
<1>2. CASE i = n
  BY <1>1, <1>2
<1>3. CASE i # n
  <2>1. i \in DOMAIN v /\ x[i] = v[i]
    BY <1>1, <1>3
  <2>2. /\ s.use[x[i].ch] # Free /\ s.prv[x[i].ch] = x[i].bit
        /\ s.buf[x[i].ch].pc = x[i].pc
        /\ \A j \in DOMAIN v : j > i /\ v[j].t = "data" /\ v[j].ch = x[i].ch
                                => v[j].bit = x[i].bit
    BY <2>1 DEF DataInv
  <2>3. ASSUME NEW j \in DOMAIN x, j > i, x[j].t = "data", x[j].ch = x[i].ch
        PROVE  x[j].bit = x[i].bit
    <3>1. CASE j = n
      BY <1>1, <2>2, <2>3, <3>1
    <3>2. CASE j # n
      BY <1>1, <2>2, <2>3, <3>2
    <3>3. QED
      BY <3>1, <3>2
  <2>4. QED
    BY <2>2, <2>3
<1>4. QED
  BY <1>2, <1>3

(* Its ack bits are those that its sender has now.                         *)
LEMMA AppendAcks ==
    ASSUME NEW r, NEW s, NEW v \in Seq(Packet), NEW p \in Packet, AckInv(r, s, v),
           Acks(p) => p.ack = s.ack
    PROVE  AckInv(r, s, Append(v, p))
<1> DEFINE x == Append(v, p)
           n == Len(v) + 1
<1>1. /\ DOMAIN x = 1 .. n /\ DOMAIN v = 1 .. Len(v) /\ Len(v) \in Nat
      /\ \A i \in 1 .. Len(v) : x[i] = v[i]
      /\ x[n] = p
  BY AppendType
<1> HIDE DEF x
<1> SUFFICES ASSUME NEW i \in DOMAIN x, NEW c \in Chan, Acks(x[i])
             PROVE  /\ s.ack[c] = r.prv[c] => x[i].ack[c] = s.ack[c]
                    /\ x[i].ack[c] = s.ack[c] =>
                        \A j \in DOMAIN x : j > i /\ Acks(x[j]) => x[j].ack[c] = s.ack[c]
  BY DEF AckInv, x
<1>2. CASE i = n
  BY <1>1, <1>2
<1>3. CASE i # n
  <2>1. i \in DOMAIN v /\ x[i] = v[i]
    BY <1>1, <1>3
  <2>2. /\ s.ack[c] = r.prv[c] => x[i].ack[c] = s.ack[c]
        /\ x[i].ack[c] = s.ack[c] =>
            \A j \in DOMAIN v : j > i /\ Acks(v[j]) => v[j].ack[c] = s.ack[c]
    BY <2>1 DEF AckInv
  <2>3. ASSUME NEW j \in DOMAIN x, j > i, Acks(x[j]), x[i].ack[c] = s.ack[c]
        PROVE  x[j].ack[c] = s.ack[c]
    <3>1. CASE j = n
      BY <1>1, <2>3, <3>1
    <3>2. CASE j # n
      BY <1>1, <2>2, <2>3, <3>2
    <3>3. QED
      BY <3>1, <3>2
  <2>4. QED
    BY <2>2, <2>3
<1>4. QED
  BY <1>2, <1>3

(* s sends p, and is t after that.                                         *)
LEMMA SendWays ==
    ASSUME NEW s, DriverOK(s), NEW r, DriverOK(r), NEW w \in Seq(Packet), NEW ls, NEW lr,
           Ways(s, r, s.wire, w, ls, lr), NEW p \in Packet,
           p.t = "data" => /\ s.use[p.ch] # Free /\ p.bit = s.prv[p.ch]
                           /\ p.pc = s.buf[p.ch].pc,
           Acks(p) => p.ack = s.ack,
           NEW t, Same(s, t), t.wire = Append(s.wire, p)
    PROVE  Ways(t, r, t.wire, w, ls, lr)
<1>1. s.wire \in Seq(Packet) /\ t.wire \in Seq(Packet)
  BY AppendType DEF DriverOK, End
<1>2. Way(s, r, t.wire, w, ls.in, lr.newest)
  BY <1>1, AppendData DEF Ways, Way
<1>3. Way(r, s, w, t.wire, lr.in, ls.newest)
  BY <1>1, AppendAcks DEF Ways, Way
<1>4. QED
  BY <1>1, <1>2, <1>3, SameWays DEF Ways

(* The packet of a channel goes out with the acks of the moment, for the   *)
(* first time or again.                                                    *)
LEMMA SendChanWays ==
    ASSUME NEW s, DriverOK(s), NEW r, DriverOK(r), NEW w \in Seq(Packet), NEW ls, NEW lr,
           Ways(s, r, s.wire, w, ls, lr), NEW c \in Chan, s.use[c] = 0
    PROVE  Ways(SendChan(s, c), r, SendChan(s, c).wire, w, ls, lr)
<1> DEFINE p == [s.buf[c] EXCEPT !.ack = s.ack]
           t == SendChan(s, c)
<1>1. s.buf[c] \in Packet /\ s.ack \in [Chan -> Bit] /\ s.use \in [Chan -> Free .. HoldOff]
  BY DEF DriverOK, End
<1>2. p \in Packet
  BY <1>1 DEF Packet
<1>3. /\ s.buf[c].t = "data" /\ s.buf[c].ch = c /\ s.buf[c].bit = s.prv[c]
      /\ 0 # Free /\ HoldOff # Free
  BY Numbers DEF Ways, Way, ChanInv, Free
<1>4. p.ack = s.ack /\ p.ch = c /\ p.bit = s.prv[c] /\ p.pc = s.buf[c].pc
  BY <1>1, <1>3 DEF Packet
<1>5. /\ t.wire = Append(s.wire, p)
      /\ t.st = (s.st \cup {"OUTBUSY"}) \ {"ACK2SND"}
      /\ t.use = [s.use EXCEPT ![c] = HoldOff]
      /\ t.q = s.q /\ t.msg = s.msg /\ t.buf = s.buf /\ t.ofill = s.ofill
      /\ t.prv = s.prv /\ t.ack = s.ack /\ t.ichn = s.ichn /\ t.imsg = s.imsg
  BY DEF SendChan, vdhsnd, With, Without, DriverOK, End
<1> HIDE DEF p, t
<1>6. \A d \in Chan : t.use[d] = Free <=> s.use[d] = Free
  BY <1>1, <1>3, <1>5
<1>7. Same(s, t)
  BY <1>5, <1>6 DEF Same
<1>8. QED
  BY <1>2, <1>3, <1>4, <1>5, <1>7, SendWays DEF t

(* A word goes out, and flags of the output change.                        *)
LEMMA WordWays ==
    ASSUME NEW s, DriverOK(s), NEW r, DriverOK(r), NEW w \in Seq(Packet), NEW ls, NEW lr,
           Ways(s, r, s.wire, w, ls, lr),
           NEW k \in {"hello", "ihy", "null"}, NEW a \in [Chan -> Bit],
           k = "null" => a = s.ack,
           NEW F, F \cap Lasting = {}
    PROVE  LET t == Without(vdhsnd(s, Word(k, a)), F) IN Ways(t, r, t.wire, w, ls, lr)
<1> DEFINE p == Word(k, a)
           t == Without(vdhsnd(s, p), F)
<1>1. p \in Packet /\ p.t = k /\ p.ack = a
  BY WordType DEF Word
<1> HIDE DEF p
<1>2. /\ t.wire = Append(s.wire, p)
      /\ t.st = (s.st \cup {"OUTBUSY"}) \ F
      /\ t.use = s.use
      /\ t.q = s.q /\ t.msg = s.msg /\ t.buf = s.buf /\ t.ofill = s.ofill
      /\ t.prv = s.prv /\ t.ack = s.ack /\ t.ichn = s.ichn /\ t.imsg = s.imsg
  BY DEF vdhsnd, With, Without, DriverOK, End
<1>3. "VDHILAST" \notin F
  BY DEF Lasting
<1> HIDE DEF t
<1>4. Same(s, t)
  BY <1>2, <1>3 DEF Same
<1>5. (p.t = "data" => FALSE) /\ (Acks(p) => p.ack = s.ack)
  BY <1>1 DEF Acks
<1>6. QED
  BY <1>1, <1>2, <1>4, <1>5, SendWays DEF t, p

(* SendData() sends a packet of a channel, or an ack, or nothing.          *)
LEMMA SendDataWays ==
    ASSUME NEW s, DriverOK(s), NEW r, DriverOK(r), NEW w \in Seq(Packet), NEW ls, NEW lr,
           Ways(s, r, s.wire, w, ls, lr)
    PROVE  Ways(SendData(s), r, SendData(s).wire, w, ls, lr)
<1>1. s.osnd \in Chan /\ 1 - s.osnd \in Chan /\ s.ack \in [Chan -> Bit]
  <2>1. s.ack \in [Chan -> Bit]
    BY DEF DriverOK, End
  <2>2. QED
    BY <2>1, ChanType
<1>2. CASE s.use[1 - s.osnd] = 0
  BY <1>1, <1>2, SendChanWays DEF SendData
<1>3. CASE s.use[1 - s.osnd] # 0 /\ s.use[s.osnd] = 0
  BY <1>1, <1>3, SendChanWays DEF SendData
<1>4. CASE s.use[1 - s.osnd] # 0 /\ s.use[s.osnd] # 0 /\ "ACK2SND" \in s.st
  <2>1. SendData(s) = Without(vdhsnd(s, Word("null", s.ack)), {"ACK2SND"})
    BY <1>4 DEF SendData
  <2>2. QED
    BY <1>1, <2>1, WordWays DEF Lasting
<1>5. CASE s.use[1 - s.osnd] # 0 /\ s.use[s.osnd] # 0 /\ "ACK2SND" \notin s.st
  BY <1>5 DEF SendData
<1>6. QED
  BY <1>2, <1>3, <1>4, <1>5

(* vdhostart(): what it sends is the packet of a channel, or no data.      *)
LEMMA StartWays ==
    ASSUME NEW s, DriverOK(s), NEW r, DriverOK(r), NEW w \in Seq(Packet),
           NEW ls \in Log, NEW lr \in Log, Ways(s, r, s.wire, w, ls, lr)
    PROVE  /\ Ways(vdhostart(s), r, vdhostart(s).wire, w, ls, lr)
           /\ Ways(StartIfIdle(s), r, StartIfIdle(s).wire, w, ls, lr)
<1> DEFINE t == vdhostart(s)
<1>1. Ways(t, r, t.wire, w, ls, lr)
  <2>1. CASE "TRYING" \notin s.st
    BY <2>1 DEF vdhostart
  <2>2. CASE "TRYING" \in s.st /\ "SAWHELLO" \in s.st
    <3>1. t = Without(vdhsnd(s, Word("ihy", NoBits)), {"SAWHELLO"})
      BY <2>2 DEF vdhostart
    <3>2. NoBits \in [Chan -> Bit]
      BY DEF NoBits, Bit
    <3> HIDE DEF t
    <3>3. QED
      BY <3>1, <3>2, WordWays DEF Lasting
  <2>3. CASE "TRYING" \in s.st /\ "SAWHELLO" \notin s.st /\ "SENDHELLO" \in s.st
    <3> DEFINE h == Without(vdhsnd(s, Word("hello", NoBits)), {"SENDHELLO"})
               n == IF s.unacked > T THEN s.unacked ELSE s.unacked + 1
    <3>1. NoBits \in [Chan -> Bit]
      BY DEF NoBits, Bit
    <3>2. Ways(h, r, h.wire, w, ls, lr)
      BY <3>1, WordWays DEF Lasting
    <3>3. t = [h EXCEPT !.unacked = n]
      BY <2>3 DEF vdhostart, vdhsnd, With, Without, DriverOK, End
    <3>4. DriverOK(h)
      <4> DEFINE g == vdhsnd(s, Word("hello", NoBits))
      <4>1. Word("hello", NoBits) \in Packet
        BY <3>1, WordType
      <4>2. DriverOK(g)
        BY <4>1, SendType
      <4> HIDE DEF g
      <4>3. DriverOK(Without(g, {"SENDHELLO"}))
        BY <4>2, FlagType DEF Flag, Lasting
      <4>4. QED
        BY <4>3 DEF g
    <3> HIDE DEF h, n, t
    <3>5. Same(h, t) /\ t.wire = h.wire /\ h.wire \in Seq(Packet)
      BY <3>3, <3>4 DEF Same, DriverOK, End
    <3>6. QED
      BY <3>2, <3>4, <3>5, SameWays
  <2>4. CASE "TRYING" \in s.st /\ "SAWHELLO" \notin s.st /\ "SENDHELLO" \notin s.st
    <3> DEFINE f == fillochans(s)
    <3>1. DriverOK(f) /\ f.wire = s.wire /\ s.wire \in Seq(Packet)
      BY FillBothType DEF DriverOK, End
    <3>2. Ways(f, r, f.wire, w, ls, lr)
      BY <3>1, FillWays
    <3>3. t = IF "UP" \in s.st THEN SendData(f) ELSE s
      BY <2>4 DEF vdhostart
    <3> HIDE DEF f, t
    <3>4. QED
      BY <3>1, <3>2, <3>3, SendDataWays
  <2>5. QED
    BY <2>1, <2>2, <2>3, <2>4
<1>2. QED
  BY <1>1 DEF StartIfIdle

-----------------------------------------------------------------------------
(* A packet comes in                                                       *)

(* The acks of the first packet on the line to a are true: a bit that has  *)
(* turned over is of a packet that b has taken.                            *)
LEMMA AcksWays ==
    ASSUME NEW a, DriverOK(a), NEW b, DriverOK(b),
           NEW v \in Seq(Packet), NEW w \in Seq(Packet), NEW la, NEW lb,
           Ways(a, b, v, w, la, lb), w # <<>>, Acks(w[1])
    PROVE  Ways(TakeAcks(a, w[1].ack), b, v, w, la, lb)
<1> DEFINE k == w[1].ack
           A == Turned(a, k)
           t == TakeAcks(a, k)
           in == la.in
           new == lb.newest
<1>1. 1 \in DOMAIN w
  BY Empty
<1>2. k \in [Chan -> Bit] /\ a.prv \in [Chan -> Bit] /\ b.ack \in [Chan -> Bit]
  BY <1>1, LineType DEF DriverOK, End
<1>3. /\ t.q = a.q /\ t.msg = a.msg /\ t.buf = a.buf /\ t.ofill = a.ofill /\ t.prv = k
      /\ t.use = [c \in Chan |-> IF c \in A THEN Free ELSE a.use[c]]
      /\ t.ack = a.ack /\ t.ichn = a.ichn /\ t.imsg = a.imsg
      /\ "VDHILAST" \in t.st <=> "VDHILAST" \in a.st
  BY DEF TakeAcks, DriverOK, End
<1> HIDE DEF t
<1>4. Way(b, t, w, v, lb.in, la.newest)
  BY <1>3, RecvWay DEF Ways
<1>5. Way(a, b, v, w, in, new)
  BY DEF Ways
<1> HIDE DEF in, new
<1>6. \A c \in Chan : /\ b.ack[c] = a.prv[c] => k[c] = b.ack[c]
                      /\ k[c] = b.ack[c] =>
                            \A j \in DOMAIN w : j > 1 /\ Acks(w[j]) => w[j].ack[c] = b.ack[c]
  BY <1>1, <1>5 DEF Way, AckInv
<1>7. ASSUME NEW c \in A
      PROVE  c \in Chan /\ t.use[c] = Free /\ b.ack[c] = k[c] /\ b.ack[c] # a.prv[c]
  <2>1. c \in Chan /\ k[c] # a.prv[c]
    BY DEF Turned
  <2>2. b.ack[c] # a.prv[c]
    BY <1>6, <2>1
  <2>3. b.ack[c] = k[c]
    BY <1>2, <2>1, <2>2 DEF Bit
  <2>4. QED
    BY <1>3, <2>1, <2>2, <2>3
<1>8. ASSUME NEW c \in Chan, c \notin A PROVE t.use[c] = a.use[c] /\ k[c] = a.prv[c]
  BY <1>3, <1>8 DEF Turned
<1> HIDE DEF A, k
<1>9. QueueInv(t, in) /\ PartInv(b, new)
  BY <1>3, <1>5 DEF Way, QueueInv
<1>10. ChanInv(t, b)
  <2> SUFFICES ASSUME NEW c \in Chan
               PROVE  /\ t.use[c] # Free => /\ t.buf[c].t = "data" /\ t.buf[c].ch = c
                                            /\ t.buf[c].bit = t.prv[c]
                      /\ t.use[c] = Free => b.ack[c] = t.prv[c]
    BY DEF ChanInv
  <2>1. CASE c \in A
    BY <1>3, <1>7, <2>1
  <2>2. CASE c \notin A
    BY <1>3, <1>5, <1>8, <2>2 DEF Way, ChanInv
  <2>3. QED
    BY <2>1, <2>2
<1>11. ASSUME NEW c \in Chan PROVE Due(t, b, c) <=> Due(a, b, c)
  <2>1. CASE c \in A
    BY <1>7, <2>1 DEF Due
  <2>2. CASE c \notin A
    BY <1>3, <1>8, <2>2 DEF Due
  <2>3. QED
    BY <2>1, <2>2
<1>12. TurnInv(t, b, in, new)
  BY <1>3, <1>5, <1>11, ChanType DEF Way, TurnInv, Next2Send
<1>13. DataInv(t, b, v)
  <2> SUFFICES ASSUME NEW i \in DOMAIN v, v[i].t = "data", v[i].bit = b.ack[v[i].ch]
               PROVE  /\ t.use[v[i].ch] # Free /\ t.prv[v[i].ch] = v[i].bit
                      /\ t.buf[v[i].ch].pc = v[i].pc
                      /\ \A j \in DOMAIN v : j > i /\ v[j].t = "data" /\ v[j].ch = v[i].ch
                                              => v[j].bit = v[i].bit
    BY DEF DataInv
  <2>1. v[i].ch \in Chan
    BY LineType
  <2>2. /\ a.use[v[i].ch] # Free /\ a.prv[v[i].ch] = v[i].bit
        /\ a.buf[v[i].ch].pc = v[i].pc
        /\ \A j \in DOMAIN v : j > i /\ v[j].t = "data" /\ v[j].ch = v[i].ch
                                => v[j].bit = v[i].bit
    BY <1>5 DEF Way, DataInv
  <2>3. v[i].ch \notin A
    BY <1>7, <2>2
  <2>4. QED
    BY <1>3, <1>8, <2>1, <2>2, <2>3
<1>14. AckInv(t, b, w)
  <2> SUFFICES ASSUME NEW i \in DOMAIN w, NEW c \in Chan, Acks(w[i])
               PROVE  /\ b.ack[c] = k[c] => w[i].ack[c] = b.ack[c]
                      /\ w[i].ack[c] = b.ack[c] =>
                           \A j \in DOMAIN w : j > i /\ Acks(w[j]) => w[j].ack[c] = b.ack[c]
    BY <1>3 DEF AckInv
  <2>1. b.ack[c] = k[c] => w[i].ack[c] = b.ack[c]
    <3>1. CASE i = 1
      BY <3>1 DEF k
    <3>2. CASE i # 1
      <4>1. i > 1
        BY <3>2
      <4>2. QED
        BY <1>6, <4>1
    <3>3. QED
      BY <3>1, <3>2
  <2>2. QED
    BY <1>5, <2>1 DEF Way, AckInv
<1>15. Way(t, b, v, w, in, new)
  BY <1>9, <1>10, <1>12, <1>13, <1>14 DEF Way
<1>16. QED
  BY <1>4, <1>15 DEF Ways, in, new, t, k

(* A packet is taken off a line.                                           *)
LEMMA PopWays ==
    ASSUME NEW a, NEW b, NEW v \in Seq(Packet), NEW w \in Seq(Packet), NEW la, NEW lb,
           Ways(a, b, v, w, la, lb), w # <<>>
    PROVE  Ways(a, b, v, Tail(w), la, lb) /\ Tail(w) \in Seq(Packet)
<1> DEFINE x == Tail(w)
<1>1. Len(w) \in Nat /\ Len(w) > 0
  BY Empty
<1>2. /\ x \in Seq(Packet) /\ Len(x) = Len(w) - 1
      /\ \A i \in 1 .. Len(w) - 1 : x[i] = w[i + 1]
  BY <1>1
<1>3. DOMAIN x = 1 .. Len(w) - 1 /\ DOMAIN w = 1 .. Len(w)
  BY <1>2
<1> HIDE DEF x
<1>4. ASSUME NEW i \in DOMAIN x
      PROVE  x[i] = w[i + 1] /\ i + 1 \in DOMAIN w /\ i \in Int
  BY <1>1, <1>2, <1>3
<1>5. DataInv(b, a, x)
  <2> SUFFICES ASSUME NEW i \in DOMAIN x, x[i].t = "data", x[i].bit = a.ack[x[i].ch]
               PROVE  /\ b.use[x[i].ch] # Free /\ b.prv[x[i].ch] = x[i].bit
                      /\ b.buf[x[i].ch].pc = x[i].pc
                      /\ \A j \in DOMAIN x : j > i /\ x[j].t = "data" /\ x[j].ch = x[i].ch
                                              => x[j].bit = x[i].bit
    BY DEF DataInv
  <2>1. x[i] = w[i + 1] /\ i + 1 \in DOMAIN w /\ i \in Int
    BY <1>4
  <2>2. /\ b.use[x[i].ch] # Free /\ b.prv[x[i].ch] = x[i].bit
        /\ b.buf[x[i].ch].pc = x[i].pc
        /\ \A j \in DOMAIN w : j > i + 1 /\ w[j].t = "data" /\ w[j].ch = x[i].ch
                                => w[j].bit = x[i].bit
    BY <2>1 DEF Ways, Way, DataInv
  <2>3. ASSUME NEW j \in DOMAIN x, j > i, x[j].t = "data", x[j].ch = x[i].ch
        PROVE  x[j].bit = x[i].bit
    <3>1. x[j] = w[j + 1] /\ j + 1 \in DOMAIN w /\ j \in Int
      BY <1>4
    <3>2. j + 1 > i + 1
      BY <2>1, <2>3, <3>1
    <3>3. QED
      BY <2>2, <2>3, <3>1, <3>2
  <2>4. QED
    BY <2>2, <2>3
<1>6. AckInv(a, b, x)
  <2> SUFFICES ASSUME NEW i \in DOMAIN x, NEW c \in Chan, Acks(x[i])
               PROVE  /\ b.ack[c] = a.prv[c] => x[i].ack[c] = b.ack[c]
                      /\ x[i].ack[c] = b.ack[c] =>
                           \A j \in DOMAIN x : j > i /\ Acks(x[j]) => x[j].ack[c] = b.ack[c]
    BY DEF AckInv
  <2>1. x[i] = w[i + 1] /\ i + 1 \in DOMAIN w /\ i \in Int
    BY <1>4
  <2>2. /\ b.ack[c] = a.prv[c] => x[i].ack[c] = b.ack[c]
        /\ x[i].ack[c] = b.ack[c] =>
              \A j \in DOMAIN w : j > i + 1 /\ Acks(w[j]) => w[j].ack[c] = b.ack[c]
    BY <2>1 DEF Ways, Way, AckInv
  <2>3. ASSUME NEW j \in DOMAIN x, j > i, Acks(x[j]), x[i].ack[c] = b.ack[c]
        PROVE  x[j].ack[c] = b.ack[c]
    <3>1. x[j] = w[j + 1] /\ j + 1 \in DOMAIN w /\ j \in Int
      BY <1>4
    <3>2. j + 1 > i + 1
      BY <2>1, <2>3, <3>1
    <3>3. QED
      BY <2>2, <2>3, <3>1, <3>2
  <2>4. QED
    BY <2>2, <2>3
<1>7. QED
  BY <1>2, <1>5, <1>6 DEF Ways, Way, x

(* What comes in has nothing to do with what goes out.                     *)
LEMMA SentWay ==
    ASSUME NEW s, NEW t, t.q = s.q, t.msg = s.msg, t.buf = s.buf, t.use = s.use,
           t.ofill = s.ofill, t.prv = s.prv,
           NEW r, NEW v, NEW w, NEW in, NEW newest, Way(s, r, v, w, in, newest)
    PROVE  Way(t, r, v, w, in, newest)
<1>1. QueueInv(t, in)
  BY DEF Way, QueueInv
<1>2. ChanInv(t, r) /\ DataInv(t, r, v) /\ AckInv(t, r, w)
  BY DEF Way, ChanInv, DataInv, AckInv
<1>3. TurnInv(t, r, in, newest)
  BY DEF Way, TurnInv, Due, Next2Send
<1>4. QED
  BY <1>1, <1>2, <1>3 DEF Way

(* The piece that r takes is the one that it needs.                        *)
LEMMA PartTaken ==
    ASSUME NEW r, DriverOK(r), NEW p \in Packet, NEW newest, PartInv(r, newest),
           "VDHILAST" \notin r.st, Pos(p.pc) = Next2Take(r, newest)
    PROVE  PartInv(TakePacket(r, p), newest)
            /\ Next2Take(TakePacket(r, p), newest) = After(p.pc)
<1> DEFINE t == TakePacket(r, p)
           n == Len(r.imsg)
<1>1. r.imsg \in Seq(Piece) /\ p.pc \in Piece /\ newest \in Nat
  BY DEF DriverOK, End, Packet, PartInv
<1>2. t.imsg = Append(r.imsg, p.pc)
        /\ ("VDHILAST" \in t.st <=> p.pc.last)
  BY DEF TakePacket, DriverOK, End
<1>3. p.pc.m = newest + 1 /\ p.pc.i = n + 1
  BY DEF Pos, Next2Take
<1> HIDE DEF t
<1>4. /\ n \in Nat /\ Len(t.imsg) = n + 1 /\ DOMAIN t.imsg = 1 .. n + 1
      /\ \A k \in 1 .. n : t.imsg[k] = r.imsg[k]
      /\ t.imsg[n + 1] = p.pc
      /\ t.imsg \in Seq(Piece)
  BY <1>1, <1>2
<1>5. t.imsg # <<>>
  BY <1>4, Empty
<1>6. ASSUME NEW k \in DOMAIN t.imsg
      PROVE  t.imsg[k].m = newest + 1 /\ t.imsg[k].i = k
  <2>1. CASE k = n + 1
    BY <1>3, <1>4, <2>1
  <2>2. CASE k # n + 1
    <3>1. k \in DOMAIN r.imsg /\ k \in 1 .. n
      BY <1>1, <1>4, <1>6, <2>2
    <3>2. QED
      BY <1>4, <3>1 DEF PartInv
  <2>3. QED
    BY <2>1, <2>2
<1>7. PartInv(t, newest)
  BY <1>1, <1>5, <1>6 DEF PartInv
<1>8. Next2Take(t, newest) = After(p.pc)
  <2>1. CASE p.pc.last
    <3>1. p.pc.m + 1 = newest + 2
      BY <1>1, <1>3
    <3>2. QED
      BY <1>2, <2>1, <3>1 DEF After, Next2Take
  <2>2. CASE ~p.pc.last
    BY <1>2, <1>3, <1>4, <2>2 DEF After, Next2Take
  <2>3. QED
    BY <2>1, <2>2
<1>9. QED
  BY <1>7, <1>8 DEF t

(* r takes the first packet on the line to it, since its channel has its   *)
(* turn and its bit is that of r: the packet is the one that s has in that *)
(* channel, and that r needs next.                                         *)
LEMMA TakeWays ==
    ASSUME NEW r, DriverOK(r), NEW s, DriverOK(s),
           NEW v \in Seq(Packet), NEW w \in Seq(Packet), NEW lr, NEW ls,
           Ways(r, s, v, w, lr, ls), w # <<>>, w[1].t = "data",
           Expected(r, w[1]), "VDHILAST" \notin r.st
    PROVE  Ways(TakePacket(r, w[1]), s, v, w, lr, ls)
<1> DEFINE p == w[1]
           c == r.ichn
           d == 1 - r.ichn
           t == TakePacket(r, p)
           in == ls.in
           new == lr.newest
<1>1. 1 \in DOMAIN w
  BY Empty
<1>2. p \in Packet /\ c \in Chan /\ d \in Chan /\ d # c /\ 1 - d = c
  <2>1. p \in Packet /\ c \in Chan
    BY <1>1, LineType, ChanType
  <2>2. d \in Chan /\ d # c /\ 1 - d = c
    BY <2>1 DEF Chan
  <2>3. QED
    BY <2>1, <2>2
<1>3. r.ack \in [Chan -> Bit]
  BY DEF DriverOK, End
<1>4. /\ t.q = r.q /\ t.msg = r.msg /\ t.buf = r.buf /\ t.use = r.use
      /\ t.ofill = r.ofill /\ t.prv = r.prv
      /\ t.ack = [r.ack EXCEPT ![c] = 1 - r.ack[c]] /\ t.ichn = d
  BY DEF TakePacket, DriverOK, End
<1>5. Way(t, s, v, w, lr.in, ls.newest)
  BY <1>4, SentWay DEF Ways
<1>6. t.ack[c] # r.ack[c] /\ t.ack[d] = r.ack[d]
  <2>1. t.ack[c] = 1 - r.ack[c] /\ t.ack[d] = r.ack[d] /\ r.ack[c] \in Bit
    BY <1>2, <1>3, <1>4
  <2>2. 1 - r.ack[c] # r.ack[c]
    BY <2>1 DEF Bit
  <2>3. QED
    BY <2>1, <2>2
<1>7. Way(s, r, w, v, in, new)
  BY DEF Ways
<1>8. p.ch = c /\ p.bit = r.ack[c]
  BY DEF Expected
<1>9. /\ s.use[c] # Free /\ s.prv[c] = r.ack[c] /\ s.buf[c].pc = p.pc
      /\ \A j \in DOMAIN w : j > 1 /\ w[j].t = "data" /\ w[j].ch = c => w[j].bit = r.ack[c]
  BY <1>1, <1>7, <1>8 DEF Way, DataInv
<1> HIDE DEF t, in, new, c, d
<1>10. Due(s, r, c) /\ ~Due(s, t, c) /\ (Due(s, t, d) <=> Due(s, r, d))
  BY <1>6, <1>9 DEF Due
<1>11. s.ofill = c \/ s.ofill = d
  BY <1>2, ChanType
<1>12. Pos(p.pc) = Next2Take(r, new)
  <2>1. CASE s.ofill = c
    BY <1>2, <1>7, <1>9, <1>10, <2>1 DEF Way, TurnInv, c
  <2>2. CASE s.ofill = d
    BY <1>2, <1>7, <1>9, <1>10, <2>2 DEF Way, TurnInv, c
  <2>3. QED
    BY <1>11, <2>1, <2>2
<1>13. PartInv(t, new) /\ Next2Take(t, new) = After(p.pc)
  BY <1>2, <1>7, <1>12, PartTaken DEF Way, t
<1>14. TurnInv(s, t, in, new)
  <2>1. CASE s.ofill = c
    <3>1. /\ Due(s, r, d)
          /\ Pos(s.buf[d].pc) = After(s.buf[c].pc)
          /\ After(s.buf[d].pc) = Next2Send(s, in)
      BY <1>7, <1>10, <2>1 DEF Way, TurnInv, c, d
    <3>2. 1 - s.ofill = d
      BY <2>1 DEF c, d
    <3>3. QED
      BY <1>2, <1>4, <1>9, <1>10, <1>13, <2>1, <3>1, <3>2 DEF TurnInv
  <2>2. CASE s.ofill = d
    <3>1. ~Due(s, r, d) /\ After(s.buf[c].pc) = Next2Send(s, in)
      BY <1>2, <1>7, <1>10, <2>2 DEF Way, TurnInv, c
    <3>2. QED
      BY <1>2, <1>4, <1>9, <1>10, <1>13, <2>2, <3>1 DEF TurnInv
  <2>3. QED
    BY <1>11, <2>1, <2>2
<1>15. ChanInv(s, t)
  <2> SUFFICES ASSUME NEW x \in Chan
               PROVE  /\ s.use[x] # Free => /\ s.buf[x].t = "data" /\ s.buf[x].ch = x
                                            /\ s.buf[x].bit = s.prv[x]
                      /\ s.use[x] = Free => t.ack[x] = s.prv[x]
    BY DEF ChanInv
  <2>1. x = c \/ x = d
    BY <1>2 DEF Chan
  <2>2. QED
    BY <1>6, <1>7, <1>9, <2>1 DEF Way, ChanInv
<1>16. DataInv(s, t, w)
  <2> SUFFICES ASSUME NEW i \in DOMAIN w, w[i].t = "data", w[i].bit = t.ack[w[i].ch]
               PROVE  /\ s.use[w[i].ch] # Free /\ s.prv[w[i].ch] = w[i].bit
                      /\ s.buf[w[i].ch].pc = w[i].pc
                      /\ \A j \in DOMAIN w : j > i /\ w[j].t = "data" /\ w[j].ch = w[i].ch
                                              => w[j].bit = w[i].bit
    BY DEF DataInv
  <2>1. w[i].ch \in Chan
    BY LineType
  <2>2. w[i].ch # c
    <3>1. CASE i = 1
      BY <1>6, <1>8, <3>1
    <3>2. CASE i # 1
      <4>1. i > 1
        BY <3>2
      <4>2. QED
        BY <1>6, <1>9, <4>1
    <3>3. QED
      BY <3>1, <3>2
  <2>3. w[i].ch = d
    BY <1>2, <2>1, <2>2 DEF Chan
  <2>4. QED
    BY <1>6, <1>7, <2>3 DEF Way, DataInv
<1>17. AckInv(s, t, v)
  <2> SUFFICES ASSUME NEW i \in DOMAIN v, NEW x \in Chan, Acks(v[i])
               PROVE  /\ t.ack[x] = s.prv[x] => v[i].ack[x] = t.ack[x]
                      /\ v[i].ack[x] = t.ack[x] =>
                           \A j \in DOMAIN v : j > i /\ Acks(v[j]) => v[j].ack[x] = t.ack[x]
    BY DEF AckInv
  <2>1. x = c \/ x = d
    BY <1>2 DEF Chan
  <2>2. CASE x = c
    <3>1. v[i].ack[c] = r.ack[c]
      BY <1>2, <1>7, <1>9 DEF Way, AckInv
    <3>2. QED
      BY <1>6, <1>9, <2>2, <3>1
  <2>3. CASE x = d
    BY <1>6, <1>7, <2>3 DEF Way, AckInv
  <2>4. QED
    BY <2>1, <2>2, <2>3
<1>18. Way(s, t, w, v, in, new)
  BY <1>7, <1>13, <1>14, <1>15, <1>16, <1>17 DEF Way
<1>19. QED
  BY <1>5, <1>18 DEF Ways, in, new, t

(* One turn of the loop of vdhiint().                                      *)
LEMMA ReceiveWays ==
    ASSUME NEW r, DriverOK(r), NEW s, DriverOK(s),
           NEW v \in Seq(Packet), NEW w \in Seq(Packet), NEW lr, NEW ls,
           Ways(r, s, v, w, lr, ls), w # <<>>, NEW short \in BOOLEAN
    PROVE  Ways(Receive(r, w[1], short), s, v, Tail(w), lr, ls)
<1> DEFINE p == w[1]
           t == Receive(r, p, short)
<1>1. p \in Packet /\ p.ack \in [Chan -> Bit]
  <2>1. 1 \in DOMAIN w
    BY Empty
  <2>2. QED
    BY <2>1, LineType
<1>2. Ways(t, s, v, w, lr, ls)
  <2>1. CASE p.t = "hello"
    <3>1. t = With(r, {"SAWHELLO", "OUT2GO"})
      BY <2>1 DEF Receive
    <3> HIDE DEF t
    <3>2. Same(r, t)
      BY <3>1 DEF Same, With, DriverOK, End
    <3>3. QED
      BY <3>2, SameWays
  <2>2. CASE p.t = "ihy"
    <3>1. t = [r EXCEPT !.unacked = 0, !.inarow = IncChar(r.inarow)]
      BY <2>2 DEF Receive
    <3> HIDE DEF t
    <3>2. Same(r, t)
      BY <3>1 DEF Same, DriverOK, End
    <3>3. QED
      BY <3>2, SameWays
  <2>3. CASE p.t \in {"null", "data"}
    <3> DEFINE a == TakeAcks(r, p.ack)
               b == With(a, {"ACK2SND", "OUT2GO"})
    <3>1. DriverOK(a) /\ Ways(a, s, v, w, lr, ls)
      BY <1>1, <2>3, AcksType, AcksWays DEF Acks
    <3>2. t = IF "UP" \notin r.st THEN r ELSE IF p.t = "null" THEN a ELSE TakeData(a, p, short)
      BY <2>3 DEF Receive
    <3> HIDE DEF a, p, t
    <3>3. DriverOK(b) /\ b.st = a.st \cup {"ACK2SND", "OUT2GO"}
      BY <3>1, WithType DEF With, Flag, DriverOK, End
    <3>4. Same(a, b)
      BY <3>1, <3>3 DEF Same, With, DriverOK, End
    <3> HIDE DEF b
    <3>5. Ways(b, s, v, w, lr, ls)
      BY <3>1, <3>4, SameWays
    <3>6. Ways(With(b, {"VDHINEED"}), s, v, w, lr, ls)
      <4>1. Same(b, With(b, {"VDHINEED"}))
        BY <3>3 DEF Same, With, DriverOK, End
      <4>2. QED
        BY <3>3, <3>5, <4>1, SameWays
    <3>7. ASSUME p.t = "data", Expected(a, p), "VDHILAST" \notin a.st
          PROVE  Ways(TakePacket(b, p), s, v, w, lr, ls)
      <4>1. Expected(b, p) /\ "VDHILAST" \notin b.st
        BY <3>3, <3>4, <3>7 DEF Expected, Same
      <4>2. QED
        BY <3>3, <3>5, <3>7, <4>1, TakeWays DEF p
    <3>8. p.t = "data" => Ways(TakeData(a, p, short), s, v, w, lr, ls)
      BY <3>5, <3>6, <3>7 DEF TakeData, b
    <3>9. QED
      BY <2>3, <3>1, <3>2, <3>8
  <2>4. QED
    BY <1>1, <2>1, <2>2, <2>3 DEF Packet
<1>3. QED
  BY <1>2, PopWays

-----------------------------------------------------------------------------
(* The actions                                                             *)

(* What the invariants say of an end and its peer.                         *)
LEMMA Known ==
    ASSUME VdhInv, LinkInv, NEW n \in Node
    PROVE  /\ nd[n] \in End /\ DriverOK(nd[n]) /\ DriverOK(nd[Peer(n)])
           /\ nd[n].wire \in Seq(Packet) /\ nd[Peer(n)].wire \in Seq(Packet)
           /\ log[n] \in Log /\ log[Peer(n)] \in Log
           /\ nd[n].open /\ ~nd[n].needinit
           /\ Ways(nd[n], nd[Peer(n)], nd[n].wire, nd[Peer(n)].wire, log[n], log[Peer(n)])
<1>1. Peer(n) \in Node
  BY PeerType
<1>2. DriverOK(nd[n]) /\ DriverOK(nd[Peer(n)])
  BY <1>1 DEF VdhInv
<1>3. nd[n] \in End /\ nd[n].wire \in Seq(Packet) /\ nd[Peer(n)].wire \in Seq(Packet)
  BY <1>2 DEF DriverOK, End
<1>4. log[n] \in Log /\ log[Peer(n)] \in Log
  BY <1>1 DEF VdhInv, TypeOK
<1>5. QED
  BY <1>2, <1>3, <1>4 DEF LinkInv, Calm, WaysInv

(* It is enough to look at the ways from one end.                          *)
LEMMA OneSide ==
    ASSUME NEW n \in Node, NEW e, NEW f, NEW ln, NEW lp,
           nd'[n] = e, nd'[Peer(n)] = f, log'[n] = ln, log'[Peer(n)] = lp,
           e.open, ~e.needinit, f.open, ~f.needinit,
           ln.init = 0, lp.init = 0, ~ln.torn, ~lp.torn,
           Ways(e, f, e.wire, f.wire, ln, lp)
    PROVE  LinkInv'
<1>1. Peer(Peer(n)) = n /\ Node = {n, Peer(n)}
  BY PeerType
<1>2. Ways(f, e, f.wire, e.wire, lp, ln)
  BY Mirror
<1>3. Calm'
  BY <1>1 DEF Calm
<1>4. WaysInv'
  BY <1>1, <1>2 DEF WaysInv
<1>5. QED
  BY <1>3, <1>4 DEF LinkInv

(* One end changes, and neither its log nor its peer does.                 *)
LEMMA OneChanged ==
    ASSUME VdhInv, LinkInv, NEW n \in Node, NEW e, nd' = [nd EXCEPT ![n] = e], log' = log,
           e.open, ~e.needinit,
           Ways(e, nd[Peer(n)], e.wire, nd[Peer(n)].wire, log[n], log[Peer(n)])
    PROVE  LinkInv'
<1>1. Peer(n) \in Node /\ Peer(n) # n
  BY PeerType
<1>2. nd'[n] = e /\ nd'[Peer(n)] = nd[Peer(n)]
  BY <1>1 DEF VdhInv, TypeOK
<1>3. /\ nd[Peer(n)].open /\ ~nd[Peer(n)].needinit
      /\ log[n].init = 0 /\ log[Peer(n)].init = 0 /\ ~log[n].torn /\ ~log[Peer(n)].torn
  BY <1>1 DEF LinkInv, Calm
<1>4. log'[n] = log[n] /\ log'[Peer(n)] = log[Peer(n)]
  OBVIOUS
<1>5. QED
  BY <1>2, <1>3, <1>4, OneSide

(* Every action keeps LinkInv.  The interrupt at the end of a transmission *)
(* does: it starts the next one.                                           *)
LEMMA OutputDoneLink ==
    ASSUME VdhInv, LinkInv, NEW n \in Node, OutputDone(n) PROVE LinkInv'
<1> DEFINE s == Without(nd[n], {"OUTBUSY"})
           e == vdhostart(s)
<1>1. DriverOK(s) /\ Kept(nd[n], s)
  BY Known, FlagType DEF Flag, Lasting
<1>2. Same(nd[n], s) /\ s.wire = nd[n].wire
  BY Known DEF Same, Without, End
<1> HIDE DEF s
<1>3. Ways(s, nd[Peer(n)], s.wire, nd[Peer(n)].wire, log[n], log[Peer(n)])
  BY <1>2, Known, SameWays
<1>4. Ways(e, nd[Peer(n)], e.wire, nd[Peer(n)].wire, log[n], log[Peer(n)])
  BY <1>1, <1>3, Known, StartWays
<1>5. e.open /\ ~e.needinit
  BY <1>1, Known, StartType DEF Kept
<1>6. nd' = [nd EXCEPT ![n] = e] /\ log' = log
  BY DEF OutputDone, s
<1> HIDE DEF e
<1>7. QED
  BY <1>4, <1>5, <1>6, OneChanged

(* A packet goes from the line; the ones behind it stay as they are.       *)
LEMMA LoseLink ==
    ASSUME VdhInv, LinkInv, NEW n \in Node, Lose(n) PROVE LinkInv'
<1> DEFINE e == [nd[n] EXCEPT !.wire = Tail(nd[n].wire)]
           v == Tail(nd[n].wire)
           w == nd[Peer(n)].wire
           r == nd[Peer(n)]
<1>1. Peer(n) \in Node /\ Peer(Peer(n)) = n
  BY PeerType
<1>2. Ways(nd[Peer(n)], nd[n], w, nd[n].wire, log[Peer(n)], log[n])
  BY Known, Mirror
<1>3. Ways(nd[Peer(n)], nd[n], w, Tail(nd[n].wire), log[Peer(n)], log[n])
        /\ Tail(nd[n].wire) \in Seq(Packet)
  BY <1>2, Known, PopWays DEF Lose
<1>4. Ways(nd[n], nd[Peer(n)], Tail(nd[n].wire), w, log[n], log[Peer(n)])
  BY <1>3, Mirror
<1>5. Same(nd[n], e) /\ e.wire = Tail(nd[n].wire) /\ e.open /\ ~e.needinit
  BY Known DEF Same, End
<1>6. nd' = [nd EXCEPT ![n] = e] /\ log' = log
  BY DEF Lose
<1>7. DriverOK(nd[n]) /\ DriverOK(r) /\ w \in Seq(Packet) /\ v \in Seq(Packet)
  BY <1>3, Known
<1> HIDE DEF e, v
<1>8. Ways(nd[n], r, v, w, log[n], log[Peer(n)]) /\ Same(nd[n], e) /\ e.wire = v
  BY <1>4, <1>5 DEF v
<1> HIDE DEF w, r
<1>9. Ways(e, r, v, w, log[n], log[Peer(n)])
  BY <1>7, <1>8, SameWays
<1>10. QED
  BY <1>5, <1>6, <1>8, <1>9, OneChanged DEF w, r

(* vdhiint() takes one or two packets from the line.                       *)
LEMMA InputLink ==
    ASSUME VdhInv, LinkInv, NEW n \in Node, NEW k \in 1 .. 2, Vdhiint(n, k) PROVE LinkInv'
<1> DEFINE r == nd[n]
           s == nd[Peer(n)]
           w == nd[Peer(n)].wire
           v == nd[n].wire
           lr == log[n]
           ls == log[Peer(n)]
<1>1. PICK short \in BOOLEAN :
        LET one == Receive(r, w[1], short)
            two == IF k = 1 THEN one ELSE Receive(one, w[2], short)
        IN  nd' = [nd EXCEPT ![n] = InputEnd(two),
                             ![Peer(n)].wire = SubSeq(@, k + 1, Len(@))]
  BY DEF Vdhiint
<1> DEFINE one == Receive(r, w[1], short)
           two == IF k = 1 THEN one ELSE Receive(one, w[2], short)
           e == InputEnd(two)
           x == Tail(w)
           y == SubSeq(w, k + 1, Len(w))
           f == [s EXCEPT !.wire = y]
<1>2. /\ DriverOK(r) /\ DriverOK(s) /\ v \in Seq(Packet) /\ w \in Seq(Packet)
      /\ lr \in Log /\ ls \in Log /\ Ways(r, s, v, w, lr, ls)
      /\ r.open /\ ~r.needinit
  BY Known
<1>3. k <= Len(w) /\ Len(w) \in Nat
  BY <1>2 DEF Vdhiint
<1>4. w # <<>> /\ w[1] \in Packet
  BY <1>2, <1>3, Empty
<1>5. nd' = [nd EXCEPT ![n] = e, ![Peer(n)] = f] /\ log' = log
  <2>1. Peer(n) \in Node /\ Peer(n) # n
    BY PeerType
  <2>2. nd' = [nd EXCEPT ![n] = e, ![Peer(n)] = f]
    BY <1>1, <2>1
  <2>3. QED
    BY <2>2 DEF Vdhiint
<1> HIDE DEF r, s, v, w, lr, ls
<1>6. Ways(one, s, v, x, lr, ls) /\ DriverOK(one) /\ KeptIn(r, one) /\ x \in Seq(Packet)
  BY <1>2, <1>4, ReceiveWays, ReceiveType, PopWays
<1>7. Ways(two, s, v, y, lr, ls) /\ DriverOK(two) /\ KeptIn(r, two) /\ y \in Seq(Packet)
  <2>1. CASE k = 1
    <3>1. y = x
      BY <1>2, <1>3, <1>4, <2>1
    <3>2. QED
      BY <1>6, <2>1, <3>1
  <2>2. CASE k = 2
    <3>1. x # <<>> /\ w[2] = x[1] /\ y = Tail(x) /\ w[2] \in Packet
      <4>1. Len(x) = Len(w) - 1 /\ Len(w) >= 2
        BY <1>2, <1>3, <1>4, <2>2
      <4>2. x # <<>>
        BY <1>3, <1>6, <4>1, Empty
      <4>3. w[2] = x[1] /\ w[2] \in Packet
        BY <1>2, <1>3, <1>4, <4>1
      <4>4. y = Tail(x)
        BY <1>2, <1>3, <1>4, <2>2, <4>1
      <4>5. QED
        BY <4>2, <4>3, <4>4
    <3>2. two = Receive(one, x[1], short)
      BY <2>2, <3>1
    <3> HIDE DEF one, x, y, two
    <3>3. Ways(two, s, v, y, lr, ls) /\ y \in Seq(Packet)
      BY <1>2, <1>6, <3>1, <3>2, ReceiveWays, PopWays
    <3>4. DriverOK(two) /\ KeptIn(one, two)
      BY <1>6, <3>1, <3>2, ReceiveType
    <3>5. QED
      BY <1>6, <3>3, <3>4 DEF KeptIn
  <2>3. QED
    BY <2>1, <2>2
<1> HIDE DEF two, y
<1> DEFINE g == IF "OUT2GO" \in two.st THEN StartIfIdle(two) ELSE two
<1>8. DriverOK(g) /\ Kept(two, g) /\ g.wire \in Seq(Packet)
  BY <1>7, StartType, ZenonT(30) DEF Kept, DriverOK, End
<1>9. two.wire = v
  BY <1>7 DEF KeptIn, v, r
<1>10. Ways(g, s, g.wire, y, lr, ls)
  BY <1>2, <1>7, <1>9, StartWays
<1> HIDE DEF g
<1>11. Same(g, Without(g, {"OUT2GO"})) /\ Without(g, {"OUT2GO"}).wire = g.wire
  BY <1>8 DEF Same, Without, DriverOK, End
<1>12. Ways(Without(g, {"OUT2GO"}), s, g.wire, y, lr, ls)
  BY <1>2, <1>7, <1>8, <1>10, <1>11, SameWays
<1>13. e = Without(g, {"OUT2GO"})
  BY DEF InputEnd, g
<1>14. e.open /\ ~e.needinit
  BY <1>2, <1>7, <1>8, InputEndType DEF Kept, KeptIn
<1> HIDE DEF e
<1>15. Ways(e, s, e.wire, y, lr, ls)
  BY <1>11, <1>12, <1>13
<1>16. Same(s, f) /\ f.wire = y /\ f.open = s.open /\ f.needinit = s.needinit
  BY <1>2 DEF Same, DriverOK, End
<1> HIDE DEF f
<1>17. e.wire \in Seq(Packet) /\ DriverOK(e)
  BY <1>7, <1>13, <1>8, InputEndType DEF e, DriverOK, End
<1>18. Ways(e, f, e.wire, f.wire, lr, ls)
  <2>1. Ways(s, e, y, e.wire, ls, lr)
    BY <1>15, Mirror
  <2>2. Ways(f, e, y, e.wire, ls, lr)
    BY <1>2, <1>7, <1>16, <1>17, <2>1, SameWays
  <2>3. QED
    BY <1>16, <2>2, Mirror
<1>19. Peer(n) \in Node /\ Peer(n) # n
  BY PeerType
<1>20. nd'[n] = e /\ nd'[Peer(n)] = f
  BY <1>5, <1>19 DEF VdhInv, TypeOK
<1>21. /\ s.open /\ ~s.needinit
       /\ lr.init = 0 /\ ls.init = 0 /\ ~lr.torn /\ ~ls.torn
  BY <1>19 DEF LinkInv, Calm, s, lr, ls
<1>22. log'[n] = lr /\ log'[Peer(n)] = ls
  BY <1>5 DEF lr, ls
<1>23. QED
  BY <1>14, <1>16, <1>18, <1>20, <1>21, <1>22, OneSide

(* The clock changes neither what is in the channels nor what has come.    *)
LEMMA ClockSame ==
    ASSUME NEW s, DriverOK(s), s.open
    PROVE  Same(s, Clock(s))
<1> DEFINE u == [c \in Chan |-> IF s.use[c] > 0 THEN s.use[c] - 1 ELSE s.use[c]]
           x == IF s.hellonext = Never \/ Rests(s) THEN s.hellonext ELSE s.hellonext - 1
           h == [s EXCEPT !.use = u, !.hellonext = x]
           g == [h EXCEPT !.hellonext = R]
<1>1. \A c \in Chan : u[c] = Free <=> s.use[c] = Free
  <2>1. s.use \in [Chan -> Free .. HoldOff] /\ HoldOff \in Nat
    BY Numbers DEF DriverOK, End
  <2>2. QED
    BY <2>1 DEF Free
<1>2. h = [s EXCEPT !.use = u, !.hellonext = x]
  OBVIOUS
<1>3. Clock(s) = IF h.hellonext > 0 THEN h ELSE HelloDue(h)
  BY DEF Clock
<1> HIDE DEF u, x
<1>4. Same(s, h)
  BY <1>1, <1>2 DEF Same, DriverOK, End
<1>5. Same(h, HelloDue(h))
  <2>1. /\ g.q = h.q /\ g.msg = h.msg /\ g.buf = h.buf /\ g.ofill = h.ofill
        /\ g.prv = h.prv /\ g.ack = h.ack /\ g.ichn = h.ichn /\ g.imsg = h.imsg
        /\ g.st = h.st /\ g.use = h.use /\ g.unacked = h.unacked /\ g.inarow = h.inarow
    BY DEF DriverOK, End
  <2>2. HelloDue(h) = IF "TRYING" \notin g.st THEN HelloDown(g)
                      ELSE IF "UP" \in g.st THEN HelloUp(g) ELSE HelloTrying(g)
    BY DEF HelloDue
  <2> DEFINE i == IF g.unacked # 0 THEN [g EXCEPT !.inarow = 0]
                  ELSE IF g.inarow >= K THEN With(g, {"UP"}) ELSE g
  <2>3. Same(g, HelloDown(g)) /\ Same(g, HelloUp(g)) /\ Same(g, i)
    BY DEF Same, HelloDown, HelloUp, With, Without, DriverOK, End
  <2>4. Same(i, HelloTrying(g))
    BY DEF Same, HelloTrying, With, DriverOK, End
  <2>5. Same(h, g)
    BY <2>1 DEF Same
  <2> HIDE DEF g, h, i
  <2>6. Same(h, HelloDown(g)) /\ Same(h, HelloUp(g)) /\ Same(h, HelloTrying(g))
    BY <2>3, <2>4, <2>5 DEF Same
  <2>7. QED
    BY <2>2, <2>6
<1>6. Same(s, HelloDue(h))
  BY <1>4, <1>5 DEF Same
<1>7. QED
  BY <1>3, <1>4, <1>6

(* The clock sends packets again; without faults it does not give the line *)
(* up.                                                                     *)
LEMMA TickLink ==
    ASSUME NoFaults, VdhInv, LinkInv, NEW n \in Node, Tick(n) PROVE LinkInv'
<1> DEFINE s == Clock(nd[n])
           e == StartIfIdle(s)
<1>1. /\ DriverOK(nd[n]) /\ DriverOK(nd[Peer(n)]) /\ nd[n].wire \in Seq(Packet)
      /\ nd[Peer(n)].wire \in Seq(Packet) /\ log[n] \in Log /\ log[Peer(n)] \in Log
      /\ nd[n].open /\ ~nd[n].needinit
      /\ Ways(nd[n], nd[Peer(n)], nd[n].wire, nd[Peer(n)].wire, log[n], log[Peer(n)])
  BY Known
<1>2. Same(nd[n], s) /\ ClockOK(nd[n], s)
  BY <1>1, ClockSame, ClockType
<1>3. nd' = [nd EXCEPT ![n] = e] /\ log' = log
  BY DEF Tick
<1>4. ~s.needinit
  <2>1. faults = 0 /\ faults' <= 0
    BY DEF Tick, NoFaults, VdhInv, TypeOK
  <2>2. s.needinit /\ ~nd[n].needinit => faults' = faults + 1
    BY DEF Tick
  <2>3. QED
    BY <1>1, <2>1, <2>2
<1> HIDE DEF s
<1>5. DriverOK(s) /\ s.open /\ s.wire = nd[n].wire
  BY <1>1, <1>2 DEF ClockOK
<1>6. Ways(s, nd[Peer(n)], s.wire, nd[Peer(n)].wire, log[n], log[Peer(n)])
  BY <1>1, <1>2, <1>5, SameWays
<1>7. Ways(e, nd[Peer(n)], e.wire, nd[Peer(n)].wire, log[n], log[Peer(n)])
  BY <1>1, <1>5, <1>6, StartWays
<1>8. e.open /\ ~e.needinit
  BY <1>4, <1>5, StartType DEF Kept
<1> HIDE DEF e
<1>9. QED
  BY <1>3, <1>7, <1>8, OneChanged

(* A message is put at the end of the queue.                               *)
LEMMA PutWays ==
    ASSUME NEW s, DriverOK(s), NEW r, NEW v, NEW w, NEW ls \in Log, NEW lr, NEW lt,
           Ways(s, r, v, w, ls, lr), NEW k \in Nat \ {0},
           lt.in = ls.in + 1, lt.newest = ls.newest,
           NEW t, t = [s EXCEPT !.q = Append(s.q, Pieces(ls.in + 1, k))]
    PROVE  Ways(t, r, v, w, lt, lr)
<1> DEFINE in == ls.in
           x == Pieces(in + 1, k)
           q == Append(s.q, x)
           n == Len(s.q)
<1>1. in \in Nat /\ s.q \in Seq(Message) /\ n \in Nat
  BY DEF Log, DriverOK, End
<1>2. x \in Message /\ x \in Seq(Piece) /\ Len(x) = k /\ x # <<>>
  <2>1. in + 1 \in Nat
    BY <1>1
  <2>2. x \in Message /\ Len(x) = k
    BY <2>1, PiecesType
  <2>3. QED
    BY <2>2 DEF Message
<1>3. From(x, in + 1, 1)
  <2>1. \A i \in 1 .. k : x[i].m = in + 1 /\ x[i].i = i /\ (x[i].last <=> i = k)
    BY DEF Pieces
  <2>2. DOMAIN x = 1 .. k
    BY DEF Pieces
  <2> HIDE DEF x
  <2>3. ASSUME NEW i \in 1 .. k PROVE x[i].i = 1 + i - 1
    BY <2>1
  <2>4. QED
    BY <1>2, <2>1, <2>2, <2>3 DEF From
<1> HIDE DEF x
<1>4. /\ q \in Seq(Message) /\ Len(q) = n + 1 /\ DOMAIN q = 1 .. n + 1 /\ DOMAIN s.q = 1 .. n
      /\ \A j \in 1 .. n : q[j] = s.q[j]
      /\ q[n + 1] = x
  BY <1>1, <1>2
<1>5. /\ t.q = q /\ t.msg = s.msg /\ t.buf = s.buf /\ t.use = s.use /\ t.ofill = s.ofill
      /\ t.prv = s.prv /\ t.ack = s.ack /\ t.ichn = s.ichn /\ t.imsg = s.imsg /\ t.st = s.st
  BY DEF x, DriverOK, End
<1> HIDE DEF q
<1>6. in - n \in Nat /\ lt.in - Len(t.q) = in - n
  <2>1. in - n \in Nat
    BY DEF Ways, Way, QueueInv
  <2>2. QED
    BY <1>1, <1>4, <1>5, <2>1
<1>7. QueueInv(t, lt.in)
  <2>1. ASSUME NEW j \in DOMAIN t.q PROVE From(t.q[j], in - n + j, 1)
    <3>1. CASE j = n + 1
      <4>1. in - n + j = in + 1
        BY <1>1, <3>1
      <4>2. QED
        BY <1>3, <1>4, <1>5, <3>1, <4>1
    <3>2. CASE j # n + 1
      <4>1. j \in DOMAIN s.q /\ t.q[j] = s.q[j]
        BY <1>1, <1>4, <1>5, <2>1, <3>2
      <4>2. QED
        BY <4>1 DEF Ways, Way, QueueInv
    <3>3. QED
      BY <3>1, <3>2
  <2>2. s.msg # <<>> => From(s.msg, in - n, s.msg[1].i)
    BY DEF Ways, Way, QueueInv
  <2>3. QED
    BY <1>5, <1>6, <2>1, <2>2 DEF QueueInv
<1>8. Next2Send(t, lt.in) = Next2Send(s, in)
  <2>1. lt.in - Len(t.q) = in - Len(s.q)
    BY <1>6
  <2>2. CASE s.msg # <<>>
    BY <1>5, <2>1, <2>2 DEF Next2Send
  <2>3. CASE s.msg = <<>>
    BY <1>5, <2>1, <2>3 DEF Next2Send
  <2>4. QED
    BY <2>2, <2>3
<1>9. Way(t, r, v, w, lt.in, lr.newest)
  <2>1. ChanInv(t, r) /\ DataInv(t, r, v) /\ AckInv(t, r, w) /\ PartInv(r, lr.newest)
    BY <1>5 DEF Ways, Way, ChanInv, DataInv, AckInv
  <2>2. TurnInv(t, r, lt.in, lr.newest)
    BY <1>5, <1>8 DEF Ways, Way, TurnInv, Due
  <2>3. QED
    BY <1>7, <2>1, <2>2 DEF Way
<1>10. Way(r, t, w, v, lr.in, lt.newest)
  BY <1>5, RecvWay, ZenonT(30) DEF Ways
<1>11. QED
  BY <1>9, <1>10 DEF Ways

(* A message is given to an end.                                           *)
LEMMA ImpOutputLink ==
    ASSUME VdhInv, LinkInv, NEW n \in Node, ImpOutput(n) PROVE LinkInv'
<1> DEFINE k == Sizes[n][log[n].users + 1]
           s == [nd[n] EXCEPT !.q = Append(nd[n].q, Pieces(log[n].in + 1, k))]
           e == IF "UP" \in s.st THEN StartIfIdle(s) ELSE s
           l == [log[n] EXCEPT !.in = log[n].in + 1, !.users = log[n].users + 1]
           f == nd[Peer(n)]
           lf == log[Peer(n)]
<1>1. /\ DriverOK(nd[n]) /\ DriverOK(f) /\ nd[n].wire \in Seq(Packet) /\ f.wire \in Seq(Packet)
      /\ log[n] \in Log /\ lf \in Log /\ nd[n].open /\ ~nd[n].needinit
      /\ Ways(nd[n], f, nd[n].wire, f.wire, log[n], lf)
  BY Known
<1>2. k \in Nat \ {0} /\ log[n].in + 1 \in Nat /\ log[n].users + 1 \in Nat
  <2>1. Sizes[n] \in Seq(Nat \ {0}) /\ log[n].users \in Nat /\ log[n].in \in Nat
    BY <1>1, VdhAssumption DEF Log
  <2>2. log[n].users + 1 \in 1 .. Len(Sizes[n])
    BY <2>1 DEF ImpOutput
  <2>3. QED
    BY <2>1, <2>2
<1>3. nd' = [nd EXCEPT ![n] = e]
  BY DEF ImpOutput
<1>4. log \in [Node -> Log] /\ Peer(n) \in Node /\ Peer(n) # n
  BY PeerType DEF VdhInv, TypeOK
<1>5. log' = [log EXCEPT ![n] = l]
  BY <1>4 DEF ImpOutput
<1> HIDE DEF k
<1>6. l \in Log /\ l.in = log[n].in + 1 /\ l.newest = log[n].newest
        /\ l.init = log[n].init /\ l.torn = log[n].torn
  BY <1>1, <1>2 DEF Log
<1>7. DriverOK(s) /\ s.wire = nd[n].wire /\ s.open /\ ~s.needinit
  <2>1. Append(nd[n].q, Pieces(log[n].in + 1, k)) \in Seq(Message) /\ Message \subseteq Seq(Piece)
    <3> DEFINE x == log[n].in + 1
    <3>1. nd[n].q \in Seq(Message) /\ x \in Nat
      BY <1>1, <1>2 DEF DriverOK
    <3> HIDE DEF x
    <3>2. Pieces(x, k) \in Message
      BY <1>2, <3>1, PiecesType
    <3>3. Append(nd[n].q, Pieces(x, k)) \in Seq(Message)
      BY <3>1, <3>2
    <3>4. QED
      BY <3>3 DEF Message, x
  <2>2. Append(nd[n].q, Pieces(log[n].in + 1, k)) \in Seq(Seq(Piece))
    BY <2>1
  <2>3. s \in End
    BY <1>1, <2>2 DEF DriverOK, End
  <2>4. QED
    BY <1>1, <2>1, <2>3 DEF DriverOK, End
<1>8. Ways(s, f, s.wire, f.wire, l, lf)
  BY <1>1, <1>2, <1>6, <1>7, PutWays
<1> HIDE DEF s, l, f, lf
<1>9. Ways(e, f, e.wire, f.wire, l, lf)
  BY <1>1, <1>6, <1>7, <1>8, StartWays
<1>10. e.open /\ ~e.needinit
  BY <1>7, StartType DEF Kept
<1> HIDE DEF e
<1>11. nd'[n] = e /\ nd'[Peer(n)] = f /\ log'[n] = l /\ log'[Peer(n)] = lf
  BY <1>3, <1>4, <1>5 DEF VdhInv, TypeOK, f, lf
<1>12. f.open /\ ~f.needinit /\ l.init = 0 /\ lf.init = 0 /\ ~l.torn /\ ~lf.torn
  BY <1>4, <1>6 DEF LinkInv, Calm, f, lf
<1>13. QED
  BY <1>9, <1>10, <1>11, <1>12, OneSide

(* What has come in whole when VDHILAST is set is the message after the    *)
(* newest, and it has been given to the other end.                         *)
LEMMA Arrived ==
    ASSUME NEW s, DriverOK(s), NEW r, DriverOK(r), NEW v, NEW w, NEW in \in Nat, NEW newest,
           Way(s, r, v, w, in, newest), "VDHILAST" \in r.st
    PROVE  /\ newest \in Nat /\ newest + 1 <= in
           /\ Whole(r.imsg) /\ r.imsg[1].m = newest + 1
<1>1. newest \in Nat /\ r.imsg # <<>> /\ r.imsg \in Seq(Piece)
        /\ \A k \in DOMAIN r.imsg : r.imsg[k].m = newest + 1 /\ r.imsg[k].i = k
  BY DEF Way, PartInv, DriverOK, End
<1>2. 1 \in DOMAIN r.imsg
  BY <1>1, Empty
<1>3. r.imsg[1].m = newest + 1 /\ r.imsg[1].i = 1
  BY <1>1, <1>2
<1>4. Whole(r.imsg)
  <2>1. ASSUME NEW k \in DOMAIN r.imsg
        PROVE  r.imsg[k].m = r.imsg[1].m /\ r.imsg[k].i = r.imsg[1].i + k - 1
    <3>1. k \in Nat
      BY <1>1
    <3>2. k = 1 + k - 1
      BY <3>1
    <3>3. QED
      BY <1>1, <1>3, <3>2
  <2>2. QED
    BY <1>3, <2>1 DEF Whole, Part
<1> DEFINE e == s.ofill
           l == 1 - s.ofill
           a == s.buf[e].pc
           b == s.buf[l].pc
           next == Next2Send(s, in)
           need == Next2Take(r, newest)
<1>5. need = <<newest + 2, 1>>
  BY DEF Next2Take
<1>6. a \in Piece /\ b \in Piece
  <2>1. s.buf[e] \in Packet /\ s.buf[l] \in Packet
    BY ChanType DEF DriverOK, End
  <2>2. QED
    BY <2>1 DEF Packet
<1>7. next[1] \in Nat /\ next[1] <= in + 1
  <2>1. in - Len(s.q) \in Nat /\ Len(s.q) \in Nat
    BY DEF Way, QueueInv, DriverOK, End
  <2>2. in - Len(s.q) <= in + 1 /\ in - Len(s.q) + 1 <= in + 1
    <3>1. \A x, y \in Nat : x - y <= x + 1 /\ x - y + 1 <= x + 1
      OBVIOUS
    <3>2. QED
      BY <2>1, <3>1
  <2>3. CASE s.msg # <<>>
    <3>1. next[1] = in - Len(s.q)
      BY <2>3 DEF Next2Send
    <3>2. QED
      BY <2>1, <2>2, <3>1
  <2>4. CASE s.msg = <<>>
    <3>1. next[1] = in - Len(s.q) + 1
      BY <2>4 DEF Next2Send
    <3>2. QED
      BY <2>1, <2>2, <3>1
  <2>5. QED
    BY <2>3, <2>4
<1>8. \/ need = next
      \/ Pos(b) = need /\ After(b) = next
      \/ Pos(a) = need /\ Pos(b) = After(a) /\ After(b) = next
  BY DEF Way, TurnInv
<1>9. \A pc \in Piece : Pos(pc)[1] <= After(pc)[1] /\ After(pc)[1] \in Nat /\ Pos(pc)[1] \in Nat
  BY DEF Piece, Pos, After
<1> HIDE DEF need, next, a, b
<1>10. need[1] <= next[1]
  <2>1. CASE need = next
    BY <1>7, <2>1
  <2>2. CASE Pos(b) = need /\ After(b) = next
    BY <1>6, <1>9, <2>2
  <2>3. CASE Pos(a) = need /\ Pos(b) = After(a) /\ After(b) = next
    <3>1. Pos(a)[1] <= After(a)[1] /\ Pos(b)[1] <= After(b)[1]
      BY <1>6, <1>9
    <3>2. Pos(a)[1] \in Nat /\ Pos(b)[1] \in Nat /\ After(b)[1] \in Nat
      BY <1>6, <1>9
    <3>3. Pos(a)[1] <= After(b)[1]
      BY <2>3, <3>1, <3>2
    <3>4. QED
      BY <2>3, <3>3
  <2>4. QED
    BY <1>8, <2>1, <2>2, <2>3
<1>11. need[1] = newest + 2
  BY <1>5
<1>12. newest + 1 <= in
  <2>1. newest + 2 <= next[1]
    BY <1>10, <1>11
  <2>2. QED
    BY <1>1, <1>7, <2>1
<1>13. QED
  BY <1>1, <1>3, <1>4, <1>12

(* A message has been handed over: r waits for the first piece of the next *)
(* one.                                                                    *)
LEMMA HandWays ==
    ASSUME NEW r, DriverOK(r), NEW s, NEW v, NEW w, NEW lr, NEW ls, NEW lt,
           Ways(r, s, v, w, lr, ls), "VDHILAST" \in r.st,
           lt.in = lr.in, lt.newest = lr.newest + 1
    PROVE  Ways(impldrd(r), s, v, w, lt, ls)
<1> DEFINE t == impldrd(r)
           new == lr.newest
<1>1. /\ t.q = r.q /\ t.msg = r.msg /\ t.buf = r.buf /\ t.use = r.use
      /\ t.ofill = r.ofill /\ t.prv = r.prv /\ t.ack = r.ack /\ t.ichn = r.ichn
      /\ t.imsg = <<>> /\ "VDHILAST" \notin t.st
  BY DEF impldrd, Without, DriverOK, End
<1> HIDE DEF t
<1>2. new \in Nat
  BY DEF Ways, Way, PartInv
<1>3. PartInv(t, new + 1)
  <2>1. DOMAIN t.imsg = {}
    BY <1>1
  <2>2. QED
    BY <1>1, <1>2, <2>1 DEF PartInv
<1>4. Next2Take(t, new + 1) = Next2Take(r, new)
  <2>1. Len(t.imsg) + 1 = 1
    BY <1>1
  <2>2. new + 1 + 1 = new + 2
    BY <1>2
  <2>3. QED
    BY <1>1, <2>1, <2>2 DEF Next2Take
<1>5. Way(s, t, w, v, ls.in, new + 1)
  <2>1. QueueInv(s, ls.in) /\ ChanInv(s, t) /\ DataInv(s, t, w) /\ AckInv(s, t, v)
    BY <1>1 DEF Ways, Way, ChanInv, DataInv, AckInv
  <2>2. TurnInv(s, t, ls.in, new + 1)
    BY <1>1, <1>4 DEF Ways, Way, TurnInv, Due
  <2>3. QED
    BY <1>3, <2>1, <2>2 DEF Way
<1>6. Way(t, s, v, w, lr.in, ls.newest)
  BY <1>1, SentWay DEF Ways
<1>7. QED
  BY <1>5, <1>6 DEF Ways, t

(* What becomes of the log when a message is handed over.                  *)
LEMMA HandedNext ==
    ASSUME VdhInv, LinkInv, NEW n \in Node, "VDHILAST" \in nd[n].st
    PROVE  /\ log[n].newest \in Nat /\ log[n].newest + 1 \in 1 .. log[Peer(n)].in
           /\ Handed(n, nd[n].imsg) = [log EXCEPT ![n] = [log[n] EXCEPT !.newest = log[n].newest + 1,
                                                                       !.torn = FALSE]]
<1> DEFINE m == nd[n].imsg
           new == log[n].newest
<1>1. /\ DriverOK(nd[n]) /\ DriverOK(nd[Peer(n)]) /\ log[n] \in Log /\ log[Peer(n)] \in Log
      /\ Ways(nd[n], nd[Peer(n)], nd[n].wire, nd[Peer(n)].wire, log[n], log[Peer(n)])
  BY Known
<1>2. log[Peer(n)].in \in Nat
  BY <1>1 DEF Log
<1>3. /\ new \in Nat /\ new + 1 <= log[Peer(n)].in
      /\ Whole(m) /\ m[1].m = new + 1
  BY <1>1, <1>2, Arrived DEF Ways
<1>4. log \in [Node -> Log] /\ log[n].torn = FALSE
  BY DEF VdhInv, TypeOK, LinkInv, Calm, Log
<1> HIDE DEF m, new
<1>5. Handed(n, m) = [log EXCEPT ![n] = [log[n] EXCEPT !.newest = new + 1, !.torn = FALSE]]
  BY <1>3, <1>4 DEF Handed
<1>6. new + 1 \in 1 .. log[Peer(n)].in
  BY <1>2, <1>3
<1>7. QED
  BY <1>3, <1>5, <1>6 DEF m, new

(* A message is handed over.                                               *)
LEMMA ImpInputLink ==
    ASSUME VdhInv, LinkInv, NEW n \in Node, NEW p \in Proc, ImpInput(n, p) PROVE LinkInv'
<1> DEFINE e == impldrd(nd[n])
           l == [log[n] EXCEPT !.newest = log[n].newest + 1, !.torn = FALSE]
           f == nd[Peer(n)]
           lf == log[Peer(n)]
<1>1. /\ DriverOK(nd[n]) /\ DriverOK(f) /\ log[n] \in Log /\ nd[n].open /\ ~nd[n].needinit
      /\ Ways(nd[n], f, nd[n].wire, f.wire, log[n], lf)
  BY Known
<1>2. "VDHILAST" \in nd[n].st /\ nd' = [nd EXCEPT ![n] = e]
  BY DEF ImpInput
<1>3. log' = [log EXCEPT ![n] = l] /\ log[n].newest \in Nat
  BY <1>2, HandedNext DEF ImpInput
<1>4. l.in = log[n].in /\ l.newest = log[n].newest + 1 /\ l.init = log[n].init /\ l.torn = FALSE
  BY <1>1 DEF Log
<1>5. e.open /\ ~e.needinit /\ e.wire = nd[n].wire
  BY <1>1 DEF impldrd, Without, DriverOK, End
<1> HIDE DEF l, f, lf
<1>6. Ways(e, f, e.wire, f.wire, l, lf)
  BY <1>1, <1>2, <1>4, <1>5, HandWays
<1> HIDE DEF e
<1>7. Peer(n) \in Node /\ Peer(n) # n /\ log \in [Node -> Log]
  BY PeerType DEF VdhInv, TypeOK
<1>8. nd'[n] = e /\ nd'[Peer(n)] = f /\ log'[n] = l /\ log'[Peer(n)] = lf
  BY <1>2, <1>3, <1>7 DEF VdhInv, TypeOK, f, lf
<1>9. f.open /\ ~f.needinit /\ l.init = 0 /\ lf.init = 0 /\ ~l.torn /\ ~lf.torn
  BY <1>4, <1>7 DEF LinkInv, Calm, f, lf
<1>10. QED
  BY <1>5, <1>6, <1>8, <1>9, OneSide

(* The end of the loop, when the driver need not be initialised.           *)
LEMMA LoopLink ==
    ASSUME VdhInv, LinkInv, NEW n \in Node, NEW p \in Proc,
           NEW F \in {{}, {"VDHINEED"}}, LoopEnd(n, p, Without(nd[n], F)), log' = log
    PROVE  LinkInv'
<1> DEFINE e == Without(nd[n], F)
<1>1. /\ Same(nd[n], e) /\ e.wire = nd[n].wire
      /\ e.open = nd[n].open /\ e.needinit = nd[n].needinit
  BY Known DEF Same, Without, End
<1>2. nd[n].open /\ ~nd[n].needinit
  BY Known
<1>3. nd' = [nd EXCEPT ![n] = e]
  BY <1>1, <1>2 DEF LoopEnd
<1> HIDE DEF e
<1>4. Ways(e, nd[Peer(n)], e.wire, nd[Peer(n)].wire, log[n], log[Peer(n)])
  BY <1>1, Known, SameWays
<1>5. QED
  BY <1>1, <1>2, <1>3, <1>4, OneChanged

(* The turns of the input process.                                         *)
LEMMA InputProcessLink ==
    ASSUME VdhInv, LinkInv, NEW n \in Node, NEW p \in Proc, InputProcess(n, p)
    PROVE  LinkInv'
<1>1. nd[n].open /\ ~nd[n].needinit
  BY Known
<1>2. CASE ImpInput(n, p)
  BY <1>2, ImpInputLink
<1>3. CASE ImpNeed(n, p)
  BY <1>3 DEF ImpNeed, LinkInv, Calm, WaysInv
<1>4. CASE ImpGetkb(n, p)
  BY <1>1, <1>4, LoopLink DEF ImpGetkb
<1>5. CASE ImpLoop(n, p)
  <2>1. nd[n] = Without(nd[n], {})
    BY Known DEF Without, End
  <2>2. LoopEnd(n, p, Without(nd[n], {})) /\ log' = log
    BY <1>1, <1>5, <2>1 DEF ImpLoop
  <2>3. QED
    BY <2>2, LoopLink
<1>6. CASE ImpDown(n, p)
  BY <1>1, <1>6 DEF ImpDown
<1>7. QED
  BY <1>2, <1>3, <1>4, <1>5, <1>6 DEF InputProcess

(* The invariant is inductive, as long as no end begins anew.              *)
LEMMA NextLink ==
    ASSUME NoFaults, VdhInv, LinkInv, [Next]_vars
    PROVE  LinkInv'
<1>1. CASE UNCHANGED vars
  BY <1>1 DEF vars, LinkInv, Calm, WaysInv
<1>2. ASSUME Stop PROVE FALSE
  BY <1>2 DEF Stop, NoFaults, VdhInv, TypeOK
<1>3. ASSUME Restart PROVE FALSE
  BY <1>3 DEF Restart, LinkInv, Calm, Node
<1>4. CASE Next
  BY <1>2, <1>3, <1>4, ImpOutputLink, OutputDoneLink, LoseLink, TickLink, InputLink,
     InputProcessLink DEF Next
<1>5. QED
  BY <1>1, <1>4

-----------------------------------------------------------------------------
(* The theorems                                                            *)

(* Both ends begin with their NOPs queued and everything else empty.       *)
LEMMA InitLink == Init => LinkInv
<1> SUFFICES ASSUME Init PROVE LinkInv
  OBVIOUS
<1> DEFINE N == [i \in 1 .. Nops |-> Pieces(0 + i, 1)]
           t == imp_init(Fresh, 0)
<1>1. Nops \in Nat /\ Chan = {0, 1}
  BY Numbers DEF Chan
<1>2. /\ t.q = <<>> \o N /\ t.msg = <<>> /\ t.imsg = <<>> /\ t.wire = <<>> /\ t.st = {}
      /\ t.ichn = 0 /\ t.ofill = 0 /\ t.ack = NoBits /\ t.prv = NoBits
      /\ t.open = TRUE /\ t.needinit = FALSE
      /\ t.use = [c \in Chan |-> Free]
  BY DEF imp_init, FreeChans, Fresh
<1>3. \A n \in Node : nd[n] = t /\ log[n].in = Nops /\ log[n].newest = 0
                        /\ log[n].init = 0 /\ log[n].torn = FALSE
  BY DEF Init
<1>4. \A n \in Node : Peer(n) \in Node
  BY PeerType
<1>5. /\ Len(t.q) = Nops /\ DOMAIN t.q = 1 .. Nops
      /\ \A j \in 1 .. Nops : t.q[j] = Pieces(j, 1)
  <2>1. ASSUME NEW j \in 1 .. Nops PROVE Pieces(0 + j, 1) \in Message /\ 0 + j = j
    BY <1>1, <2>1, PiecesType
  <2>2. N \in [1 .. Nops -> Message]
    BY <2>1
  <2>3. N \in Seq(Message) /\ Len(N) = Nops
    BY <1>1, <2>2
  <2>4. \A j \in 1 .. Nops : N[j] = Pieces(j, 1)
    BY <2>1
  <2> HIDE DEF N, t
  <2>5. <<>> \o N = N
    BY <2>3
  <2>6. QED
    BY <1>1, <1>2, <2>3, <2>4, <2>5
<1> HIDE DEF N, t
<1>6. QueueInv(t, Nops)
  <2>1. Nops - Len(t.q) = 0
    BY <1>1, <1>5
  <2>2. ASSUME NEW j \in DOMAIN t.q PROVE From(t.q[j], 0 + j, 1)
    <3>1. j \in Nat /\ j \in 1 .. Nops /\ t.q[j] = Pieces(j, 1) /\ 0 + j = j
      BY <1>1, <1>5, <2>2
    <3> DEFINE x == Pieces(j, 1)
    <3>2. Len(x) = 1 /\ DOMAIN x = 1 .. 1 /\ x[1].m = j /\ x[1].i = 1 /\ x[1].last
      <4>1. x \in Message /\ Len(x) = 1
        <5>1. 1 \in Nat \ {0} /\ j \in Nat
          BY <3>1
        <5>2. Pieces(j, 1) \in Message /\ Len(Pieces(j, 1)) = 1
          BY ONLY <5>1, PiecesType
        <5>3. QED
          BY <5>2
      <4>2. DOMAIN x = 1 .. 1 /\ 1 \in 1 .. 1
        BY DEF Pieces
      <4>3. x[1] = [m |-> j, i |-> 1, last |-> TRUE]
        BY <4>2 DEF Pieces
      <4> HIDE DEF x
      <4>4. x[1].m = j /\ x[1].i = 1 /\ x[1].last
        BY <4>3
      <4>5. QED
        BY <4>1, <4>2, <4>4
    <3>3. x # <<>>
      BY <3>2
    <3> HIDE DEF x
    <3>4. \A k \in DOMAIN x : x[k].m = j /\ x[k].i = 1 + k - 1 /\ (x[k].last <=> k = Len(x))
      BY <3>2
    <3>5. From(x, j, 1)
      BY <3>3, <3>4 DEF From
    <3>6. QED
      BY <3>1, <3>5 DEF x
  <2>3. QED
    BY <1>2, <2>1, <2>2 DEF QueueInv
<1>7. PartInv(t, 0)
  BY <1>2 DEF PartInv
<1>8. ChanInv(t, t) /\ DataInv(t, t, t.wire) /\ AckInv(t, t, t.wire)
  BY <1>2 DEF ChanInv, DataInv, AckInv
<1>9. TurnInv(t, t, Nops, 0)
  <2>1. ~Due(t, t, 0) /\ ~Due(t, t, 1)
    BY <1>1, <1>2 DEF Due
  <2>2. Next2Take(t, 0) = <<1, 1>>
    BY <1>2 DEF Next2Take
  <2>3. Next2Send(t, Nops) = <<1, 1>>
    BY <1>1, <1>2, <1>5 DEF Next2Send
  <2>4. QED
    BY <1>2, <2>1, <2>2, <2>3 DEF TurnInv
<1>10. Ways(t, t, t.wire, t.wire, [in |-> Nops, newest |-> 0], [in |-> Nops, newest |-> 0])
  BY <1>6, <1>7, <1>8, <1>9 DEF Ways, Way
<1>11. WaysInv
  BY <1>3, <1>4, <1>10 DEF WaysInv, Ways
<1>12. Calm
  BY <1>2, <1>3 DEF Calm
<1>13. QED
  BY <1>11, <1>12 DEF LinkInv

(* It holds in every state, with the types.                                *)
LEMMA LinkInvHolds == ASSUME NoFaults PROVE Spec => [](VdhInv /\ LinkInv)
<1>1. Init => VdhInv /\ LinkInv
  BY InitVdh, InitLink
<1>2. VdhInv /\ LinkInv /\ [Next]_vars => (VdhInv /\ LinkInv)'
  BY NextVdh, NextLink
<1>3. QED
  BY <1>1, <1>2, PTL DEF Spec

(* When an end has nothing left to send, the piece that its peer waits for *)
(* is the first one of a message that has not been given.                  *)
LEMMA NothingLeft ==
    ASSUME NEW s, DriverOK(s), NEW r, DriverOK(r), NEW v, NEW w, NEW in \in Nat, NEW newest,
           Way(s, r, v, w, in, newest),
           s.q = <<>>, s.msg = <<>>, \A c \in Chan : s.use[c] = Free
    PROVE  Next2Take(r, newest) = <<in + 1, 1>>
<1>1. Next2Send(s, in) = <<in + 1, 1>>
  BY DEF Next2Send
<1>2. \A c \in Chan : ~Due(s, r, c)
  BY DEF Due
<1>3. QED
  BY <1>1, <1>2, ChanType DEF Way, TurnInv

(* An ack is not taken for another: when an end has nothing left to send,  *)
(* the bits in impoq, vdhmsg and vdhouse[] say that its last message has   *)
(* come in whole at its peer, as long as no end begins anew.               *)
THEOREM AckedIsTakenHolds == ASSUME NoFaults PROVE Spec => []AckedIsTaken
<1>1. ASSUME VdhInv, LinkInv PROVE AckedIsTaken
  <2> SUFFICES ASSUME NEW n \in Node, nd[n].q = <<>>, nd[n].msg = <<>>,
                      \A c \in Chan : nd[n].use[c] = Free
               PROVE  \/ log[n].in = log[Peer(n)].newest
                      \/ /\ "VDHILAST" \in nd[Peer(n)].st
                         /\ nd[Peer(n)].imsg[1].m = log[n].in
    BY DEF AckedIsTaken
  <2> DEFINE s == nd[n]
             r == nd[Peer(n)]
             in == log[n].in
             new == log[Peer(n)].newest
             v == nd[n].wire
             w == nd[Peer(n)].wire
  <2>1. DriverOK(s) /\ DriverOK(r) /\ in \in Nat /\ Way(s, r, v, w, in, new)
    BY <1>1, Known DEF Ways, Log
  <2>2. new \in Nat
    BY <2>1 DEF Way, PartInv
  <2> HIDE DEF v, w, s, r, in, new
  <2>3. Next2Take(r, new) = <<in + 1, 1>>
    BY <2>1, NothingLeft DEF s
  <2>4. CASE "VDHILAST" \in r.st
    <3>1. new + 2 = in + 1
      BY <2>3, <2>4 DEF Next2Take
    <3>2. r.imsg[1].m = new + 1
      BY <2>1, <2>4, Arrived
    <3>3. new + 1 = in
      BY <2>1, <2>2, <3>1
    <3>4. QED
      BY <2>4, <3>2, <3>3 DEF r, in
  <2>5. CASE "VDHILAST" \notin r.st
    <3>1. new + 1 = in + 1
      BY <2>3, <2>5 DEF Next2Take
    <3>2. new = in
      BY <2>1, <2>2, <3>1
    <3>3. QED
      BY <3>2 DEF new, in
  <2>6. QED
    BY <2>4, <2>5
<1>2. QED
  BY <1>1, LinkInvHolds, PTL

(* What imp_input() gets begins with its leader: no message is handed over *)
(* without the parts that came before, as long as no end begins anew.      *)
THEOREM LeaderFirstHolds == ASSUME NoFaults PROVE Spec => []LeaderFirst
<1>1. LinkInv => LeaderFirst
  BY DEF LinkInv, Calm, LeaderFirst
<1>2. QED
  BY <1>1, LinkInvHolds, PTL

(* A message is given to end n.                                            *)
LogPut(n) == log' = [log EXCEPT ![n].in = @ + 1, ![n].users = @ + 1]

(* The message after the newest one is handed over at end n, whole.        *)
LogGet(n) ==
    /\ log[n].newest \in Nat /\ log[n].newest + 1 \in 1 .. log[Peer(n)].in
    /\ log' = [log EXCEPT ![n] = [log[n] EXCEPT !.newest = log[n].newest + 1, !.torn = FALSE]]

(* A message is given to an end, or the next one is handed over, or        *)
(* neither; nothing else changes the log as long as no end begins anew.    *)
LEMMA LogStep ==
    ASSUME NoFaults, VdhInv, LinkInv, [Next]_vars
    PROVE  log' = log \/ \E n \in Node : LogPut(n) \/ LogGet(n)
<1>1. CASE UNCHANGED vars
  BY <1>1 DEF vars
<1>2. ASSUME Stop PROVE FALSE
  BY <1>2 DEF Stop, NoFaults, VdhInv, TypeOK
<1>3. ASSUME Restart PROVE FALSE
  BY <1>3 DEF Restart, LinkInv, Calm, Node
<1>4. ASSUME NEW n \in Node, ImpOutput(n) PROVE LogPut(n)
  BY <1>4 DEF ImpOutput, LogPut
<1>5. ASSUME NEW n \in Node,
             OutputDone(n) \/ Lose(n) \/ Tick(n) \/ \E k \in 1 .. 2 : Vdhiint(n, k)
      PROVE  log' = log
  BY <1>5 DEF OutputDone, Lose, Tick, Vdhiint
<1>6. ASSUME NEW n \in Node, NEW p \in Proc, InputProcess(n, p)
      PROVE  log' = log \/ LogGet(n)
  <2>1. nd[n].open /\ ~nd[n].needinit
    BY Known
  <2>2. CASE ImpInput(n, p)
    BY <2>2, HandedNext DEF ImpInput, LogGet
  <2>3. CASE ImpNeed(n, p) \/ ImpGetkb(n, p) \/ ImpLoop(n, p)
    BY <2>1, <2>3 DEF ImpNeed, ImpGetkb, ImpLoop
  <2>4. CASE ImpDown(n, p)
    BY <2>1, <2>4 DEF ImpDown
  <2>5. QED
    BY <1>6, <2>2, <2>3, <2>4 DEF InputProcess
<1>7. CASE Next
  BY <1>2, <1>3, <1>4, <1>5, <1>6, <1>7 DEF Next
<1>8. QED
  BY <1>1, <1>7

(* The direction from end n to its peer, seen as a MsgLink: nothing moves, *)
(* a message is given, or the next one is handed over.                     *)
LEMMA OneWay ==
    ASSUME NoFaults, VdhInv, LinkInv, [Next]_vars, NEW n \in Node
    PROVE  LET r == Peer(n)
           IN  /\ log'[n].init = log[n].init
               /\ \/ log'[n].in = log[n].in /\ log'[r].newest = log[r].newest
                  \/ log'[n].in = log[n].in + 1 /\ log'[r].newest = log[r].newest
                  \/ /\ log'[n].in = log[n].in
                     /\ log[r].newest + 1 \in 1 .. log[n].in
                     /\ log[r].newest \in Nat
                     /\ log'[r].newest = log[r].newest + 1
<1>1. Peer(n) \in Node /\ Peer(n) # n /\ Peer(Peer(n)) = n /\ Node = {n, Peer(n)}
  BY PeerType
<1>2. log \in [Node -> Log]
  BY DEF VdhInv, TypeOK
<1>3. CASE log' = log
  BY <1>3
<1>4. ASSUME NEW m \in Node, LogPut(m)
      PROVE  /\ \A e \in Node : log'[e].init = log[e].init /\ log'[e].newest = log[e].newest
             /\ log'[m].in = log[m].in + 1
             /\ \A e \in Node : e # m => log'[e].in = log[e].in
  BY <1>2, <1>4 DEF LogPut, Log
<1>5. ASSUME NEW m \in Node, LogGet(m)
      PROVE  /\ \A e \in Node : log'[e].init = log[e].init /\ log'[e].in = log[e].in
             /\ log'[m].newest = log[m].newest + 1
             /\ \A e \in Node : e # m => log'[e].newest = log[e].newest
             /\ log[m].newest \in Nat /\ log[m].newest + 1 \in 1 .. log[Peer(m)].in
  BY <1>2, <1>5 DEF LogGet, Log
<1>6. CASE \E m \in Node : LogPut(m)
  <2>1. PICK m \in Node : LogPut(m)
    BY <1>6
  <2>2. CASE m = n
    BY <1>1, <1>4, <2>1, <2>2
  <2>3. CASE m # n
    BY <1>1, <1>4, <2>1, <2>3
  <2>4. QED
    BY <2>2, <2>3
<1>7. CASE \E m \in Node : LogGet(m)
  <2>1. PICK m \in Node : LogGet(m)
    BY <1>7
  <2>2. CASE m = n
    BY <1>1, <1>5, <2>1, <2>2
  <2>3. CASE m # n
    <3>1. m = Peer(n) /\ Peer(m) = n
      BY <1>1, <2>3
    <3>2. QED
      BY <1>1, <1>5, <2>1, <3>1
  <2>4. QED
    BY <2>2, <2>3
<1>8. QED
  BY <1>3, <1>6, <1>7, LogStep

(* imp_output() of an end and imp_input() of its peer are a link for       *)
(* messages: they come in the order in which they were given, once and     *)
(* none missing, as long as no end begins anew.                            *)
THEOREM ImplementsLink == ASSUME NoFaults PROVE Spec => IsLink
<1>1. Init => ToImp!Init /\ ToHost!Init
  <2> SUFFICES ASSUME Init PROVE ToImp!Init /\ ToHost!Init
    OBVIOUS
  <2>1. \A n \in Node : log[n].in = Nops /\ log[n].newest = 0 /\ log[n].init = 0
    BY DEF Init
  <2>2. QED
    BY <2>1, Numbers DEF ToImp!Init, ToHost!Init, Node
<1>2. ASSUME VdhInv, LinkInv, [Next]_vars
      PROVE  [ToImp!Next]_ToImp!linkVars /\ [ToHost!Next]_ToHost!linkVars
  <2>1. "host" \in Node /\ "imp" \in Node /\ Peer("host") = "imp" /\ Peer("imp") = "host"
    BY DEF Node, Peer
  <2>2. \A x \in Nat : x < x + 1
    OBVIOUS
  <2>3. [ToImp!Next]_ToImp!linkVars
    <3>1. /\ log'["host"].init = log["host"].init
          /\ \/ /\ log'["host"].in = log["host"].in
                /\ log'["imp"].newest = log["imp"].newest
             \/ /\ log'["host"].in = log["host"].in + 1
                /\ log'["imp"].newest = log["imp"].newest
             \/ /\ log'["host"].in = log["host"].in
                /\ log["imp"].newest + 1 \in 1 .. log["host"].in
                /\ log["imp"].newest \in Nat
                /\ log'["imp"].newest = log["imp"].newest + 1
      BY <1>2, <2>1, OneWay
    <3>2. QED
      BY <2>2, <3>1 DEF ToImp!Next, ToImp!Put, ToImp!Get, ToImp!linkVars
  <2>4. [ToHost!Next]_ToHost!linkVars
    <3>1. /\ log'["imp"].init = log["imp"].init
          /\ \/ /\ log'["imp"].in = log["imp"].in
                /\ log'["host"].newest = log["host"].newest
             \/ /\ log'["imp"].in = log["imp"].in + 1
                /\ log'["host"].newest = log["host"].newest
             \/ /\ log'["imp"].in = log["imp"].in
                /\ log["host"].newest + 1 \in 1 .. log["imp"].in
                /\ log["host"].newest \in Nat
                /\ log'["host"].newest = log["host"].newest + 1
      BY <1>2, <2>1, OneWay
    <3>2. QED
      BY <2>2, <3>1 DEF ToHost!Next, ToHost!Put, ToHost!Get, ToHost!linkVars
  <2>5. QED
    BY <2>3, <2>4
<1>3. VdhInv /\ LinkInv /\ [Next]_vars =>
          [ToImp!Next]_ToImp!linkVars /\ [ToHost!Next]_ToHost!linkVars
  BY <1>2
<1>4. QED
  BY <1>1, <1>3, LinkInvHolds, PTL DEF Spec, IsLink, ToImp!Spec, ToHost!Spec

=============================================================================
