------------------------------- MODULE VdhRtp -------------------------------
(***************************************************************************)
(* The driver of a Very Distant Host interface: nosc-files/ncpk/drivers    *)
(* vdh.c, and in vdhio.c the input process that it serves.                 *)
(*                                                                         *)
(* A message leaves in packets over two channels.  A packet is sent again  *)
(* after a hold-off until the ack bit of its channel, which every packet   *)
(* of the other side carries, has turned over; the receiver takes the      *)
(* packets of the channels in turn, and one whose even/odd bit differs     *)
(* from its own ack bit is a duplicate.  Hellos tell whether the line is   *)
(* up, and when it has gone down both sides begin anew.  The line loses    *)
(* packets and keeps their order.                                          *)
(*                                                                         *)
(* The imp at the other end is taken to run the same program.  An action   *)
(* is an interrupt, a call from the kernel, or a turn of the input         *)
(* process, which holds off interrupts except where it sleeps.             *)
(***************************************************************************)
EXTENDS Integers, Sequences

CONSTANTS
    Proc,       \* input processes of an end; one, unless the daemon restarts
    Sizes,      \* for each end, the packets of each message that it sends
    Nops,       \* NOPs that imp_init() sends, 3
    HoldOff,    \* ticks between two transmissions of a packet
    R, T, K,    \* VDH_R, VDH_T, VDH_K
    CharMax,    \* the largest char, 127
    BuffersFail,\* the ends whose input interrupt may find no buffers
    LineFails,  \* so many hellos may be lost that the line goes down
    MaxFaults,  \* bound: times that an end begins anew
    MaxLost,    \* bound: packets lost while LineFails
    MaxLine     \* bound: packets on the line in one direction

Node == {"host", "imp"}
Peer(n) == IF n = "host" THEN "imp" ELSE "host"

Chan == {0, 1}          \* NCHNS is 2
Bit == {0, 1}

ASSUME VdhAssumption ==
    /\ Proc # {}
    /\ Sizes \in [Node -> Seq(Nat \ {0})]
    /\ Nops \in Nat
    /\ HoldOff \in Nat \ {0} /\ R \in Nat \ {0} /\ T \in Nat \ {0}
    /\ K \in Nat \ {0} /\ CharMax \in Nat /\ K <= CharMax
    /\ BuffersFail \subseteq Node /\ LineFails \in BOOLEAN
    /\ MaxFaults \in Nat /\ MaxLost \in Nat /\ MaxLine \in Nat \ {0}

VARIABLES
    nd,         \* the two ends: see End
    at,         \* for each end, where its input processes are
    log,        \* for each end, what its kernel has given and got: see Log
    skew,       \* the ticks by which the host's clock is ahead of the imp's
    faults,     \* times that the daemon stopped or an end found the line down
    lost        \* packets lost so far, if LineFails

vars == <<nd, at, log, skew, faults, lost>>

(* Part i of message m.                                                    *)
Piece == [m : Nat, i : Nat, last : BOOLEAN]

(* ack: the ack bits; ch and bit: the channel and the even/odd bit.        *)
Packet == [t : {"hello", "ihy", "null", "data"}, ack : [Chan -> Bit],
           ch : Chan, bit : Bit, pc : Piece]

Flag == {"TRYING", "UP", "SAWHELLO", "SENDHELLO", "VDHILAST", "VDHINEED",
         "OUTBUSY", "ACK2SND", "OUT2GO"}

Free == -1              \* in vdhouse[]; 0: to be sent; else ticks to hold off
Never == 2 * T * R + 1  \* 077777 in hellonext: nine minutes

(* The variables of vdh.c, without the prefix vdh: st vstatebits, ack the  *)
(* bits of vdhoack, prv those of prvictl, q impoq, msg the rest of vdhmsg, *)
(* imsg impi_msg with its leader, open ncpopnstate.  wire: the packets     *)
(* that were sent and have not arrived.                                    *)
End == [st : SUBSET Flag, open : BOOLEAN, needinit : BOOLEAN,
        use : [Chan -> Free .. HoldOff], buf : [Chan -> Packet],
        ichn : Chan, osnd : Chan, ofill : Chan,
        ack : [Chan -> Bit], prv : [Chan -> Bit],
        hellonext : 0 .. Never, unacked : 0 .. T + 1,
        inarow : (-CharMax - 1) .. CharMax,
        q : Seq(Seq(Piece)), msg : Seq(Piece), imsg : Seq(Piece),
        wire : Seq(Packet)]

(* in: the messages given to imp_output(), users: those that are not NOPs, *)
(* init: those given before an end was last initialised.  newest: the last *)
(* message handed to imp_input() whole, torn: one was handed over that was *)
(* not whole.                                                              *)
Log == [in : Nat, users : Nat, init : Nat, newest : Int, torn : BOOLEAN]

With(s, F) == [s EXCEPT !.st = @ \cup F]
Without(s, F) == [s EXCEPT !.st = @ \ F]

(* The pieces of message m: "only header in first packet".                 *)
Pieces(m, size) == [i \in 1 .. size |-> [m |-> m, i |-> i, last |-> i = size]]

NoBits == [c \in Chan |-> 0]
NoPiece == [m |-> 0, i |-> 0, last |-> FALSE]

Word(t, ack) == [t |-> t, ack |-> ack, ch |-> 0, bit |-> 0, pc |-> NoPiece]

BugSilence == R

(* The ticks in which an end that begins anew says nothing: the other one  *)
(* is to find the line down.                                               *)
Silence == 2 * T * R

BugFreeChans(s) == s

FreeChans(s) == [s EXCEPT !.use = [c \in Chan |-> Free]]

(* imp_init(), with the NOPs, which are numbered from in.  impldrd()       *)
(* drops a message that has come in part.  vdhmsg, hellounacked and        *)
(* helloinarow stay as they are.                                           *)
imp_init(s, in) ==
    FreeChans([s EXCEPT !.st = {}, !.ichn = 0, !.prv = NoBits, !.hellonext = Silence,
                        !.osnd = 1, !.ofill = 0, !.ack = NoBits, !.imsg = <<>>,
                        !.q = @ \o [i \in 1 .. Nops |-> Pieces(in + i, 1)]])

(* What becomes of the log when end n is initialised.                      *)
InitLog(n) ==
    [e \in Node |-> [log[e] EXCEPT !.init = log[e].in,
                                   !.in = IF e = n THEN @ + Nops ELSE @]]

(* Both daemons have opened the interface.                                 *)
Fresh == [st |-> {}, open |-> TRUE, needinit |-> FALSE,
          use |-> [c \in Chan |-> Free], buf |-> [c \in Chan |-> Word("null", NoBits)],
          ichn |-> 0, osnd |-> 1, ofill |-> 0, ack |-> NoBits, prv |-> NoBits,
          hellonext |-> 0, unacked |-> 0, inarow |-> 0,
          q |-> <<>>, msg |-> <<>>, imsg |-> <<>>, wire |-> <<>>]

Init ==
    /\ nd = [n \in Node |-> imp_init(Fresh, 0)]
    /\ \E p \in Proc :
        at = [n \in Node |-> [r \in Proc |-> IF r = p THEN "sleep" ELSE "gone"]]
    /\ log = [n \in Node |-> [in |-> Nops, users |-> 0, init |-> 0, newest |-> 0,
                              torn |-> FALSE]]
    /\ skew = 0
    /\ faults = 0
    /\ lost = 0

(* wakeup(&imp)                                                            *)
Wakeup(n) == [at EXCEPT ![n] = [p \in Proc |-> IF @[p] = "sleep" THEN "run" ELSE @[p]]]

-----------------------------------------------------------------------------
(* Output *)

vdhsnd(s, p) == [With(s, {"OUTBUSY"}) EXCEPT !.wire = Append(@, p)]

BugFillChan(s) ==
    IF s.use[s.ofill] # Free \/ s.q = <<>> THEN s
    ELSE [s EXCEPT !.q = Tail(@), !.buf[s.ofill].pc = Head(Head(s.q)), !.use[s.ofill] = 0,
                   !.ofill = s.ofill + 1]

(* One turn of the loop of fillochans(): the next piece goes into the next *)
(* channel, if that is free.                                               *)
FillChan(s) ==
    LET c == s.ofill
        m == IF s.msg = <<>> THEN Head(s.q) ELSE s.msg
    IN  IF s.use[c] # Free \/ (s.msg = <<>> /\ s.q = <<>>) THEN s
        ELSE [s EXCEPT !.q = IF s.msg = <<>> THEN Tail(@) ELSE @,
                       !.msg = Tail(m),
                       !.buf[c] = [t |-> "data", ack |-> NoBits, ch |-> c,
                                   bit |-> s.prv[c], pc |-> Head(m)],
                       !.use[c] = 0,
                       !.ofill = 1 - c]

fillochans(s) == FillChan(FillChan(s))

(* Send the packet of channel c, again or for the first time.              *)
SendChan(s, c) ==
    Without([vdhsnd(s, [s.buf[c] EXCEPT !.ack = s.ack])
             EXCEPT !.osnd = c, !.use[c] = HoldOff], {"ACK2SND"})

(* The channel after the last one sent is preferred; without data to send, *)
(* an ack goes by itself.                                                  *)
SendData(s) ==
    IF s.use[1 - s.osnd] = 0 THEN SendChan(s, 1 - s.osnd)
    ELSE IF s.use[s.osnd] = 0 THEN SendChan(s, s.osnd)
    ELSE IF "ACK2SND" \in s.st THEN Without(vdhsnd(s, Word("null", s.ack)), {"ACK2SND"})
    ELSE s

vdhostart(s) ==
    CASE "TRYING" \notin s.st -> s
      [] "TRYING" \in s.st /\ "SAWHELLO" \in s.st ->
            Without(vdhsnd(s, Word("ihy", NoBits)), {"SAWHELLO"})
      [] "TRYING" \in s.st /\ "SAWHELLO" \notin s.st /\ "SENDHELLO" \in s.st ->
            Without([vdhsnd(s, Word("hello", NoBits))
                     EXCEPT !.unacked = IF @ > T THEN @ ELSE @ + 1], {"SENDHELLO"})
      [] OTHER -> IF "UP" \in s.st THEN SendData(fillochans(s)) ELSE s

StartIfIdle(s) == IF "OUTBUSY" \in s.st THEN s ELSE vdhostart(s)

(* imp_output(): the kernel sends its next message.                        *)
ImpOutput(n) ==
    /\ nd[n].open
    /\ log[n].users < Len(Sizes[n])
    /\ LET s == [nd[n] EXCEPT !.q = Append(@, Pieces(log[n].in + 1,
                                                     Sizes[n][log[n].users + 1]))]
       IN  nd' = [nd EXCEPT ![n] = IF "UP" \in s.st THEN StartIfIdle(s) ELSE s]
    /\ log' = [log EXCEPT ![n].in = @ + 1, ![n].users = @ + 1]
    /\ UNCHANGED <<at, skew, faults, lost>>

(* vdhoint() at the end of a transmission.                                 *)
OutputDone(n) ==
    /\ "OUTBUSY" \in nd[n].st
    /\ Len(nd[n].wire) < MaxLine
    /\ nd' = [nd EXCEPT ![n] = vdhostart(Without(@, {"OUTBUSY"}))]
    /\ UNCHANGED <<at, log, skew, faults, lost>>

-----------------------------------------------------------------------------
(* Input *)

IncChar(c) == IF c = CharMax THEN -CharMax - 1 ELSE c + 1

BugTurned(s, ack) == IF ack = s.prv THEN {} ELSE Chan

(* The channels of which the ack bit has turned over.                      *)
Turned(s, ack) == {c \in Chan : ack[c] # s.prv[c]}

(* The acks of a packet: a bit that has turned over frees its channel.     *)
TakeAcks(s, ack) ==
    LET acked == Turned(s, ack)
    IN  [s EXCEPT !.use = [c \in Chan |-> IF c \in acked THEN Free ELSE @[c]],
                  !.prv = ack,
                  !.st = IF acked = {} THEN @ ELSE @ \cup {"OUT2GO"}]

BugExpected(s, p) == p.ch = s.ichn

(* The packet is the next one: its channel has its turn, and it is not a   *)
(* duplicate of one that was taken.                                        *)
Expected(s, p) == p.ch = s.ichn /\ p.bit = s.ack[p.ch]

(* A packet that was taken joins the message, and is acknowledged.         *)
TakePacket(s, p) ==
    [s EXCEPT !.imsg = Append(@, p.pc),
              !.ack[s.ichn] = 1 - @,
              !.ichn = 1 - @,
              !.st = IF p.pc.last THEN @ \cup {"VDHILAST"} ELSE @]

BugTakeData(s, p, short) ==
    IF ~Expected(s, p) \/ "VDHILAST" \in s.st THEN s
    ELSE IF short THEN With(s, {"VDHINEED"})
    ELSE TakePacket(With(s, {"ACK2SND", "OUT2GO"}), p)

(* A data packet, when its acks have been taken.  It is not acknowledged,  *)
(* and so will come again, if the last message has not been handled yet or *)
(* there are no buffers.                                                   *)
TakeData(s, p, short) ==
    LET a == With(s, {"ACK2SND", "OUT2GO"})
    IN  IF ~Expected(s, p) \/ "VDHILAST" \in s.st THEN a
        ELSE IF short THEN With(a, {"VDHINEED"})
        ELSE TakePacket(a, p)

(* One turn of the loop of vdhiint().                                      *)
Receive(s, p, short) ==
    CASE p.t = "hello" -> With(s, {"SAWHELLO", "OUT2GO"})
      [] p.t = "ihy" -> [s EXCEPT !.unacked = 0, !.inarow = IncChar(@)]
      [] OTHER -> IF "UP" \notin s.st THEN s
                  ELSE IF p.t = "null" THEN TakeAcks(s, p.ack)
                  ELSE TakeData(TakeAcks(s, p.ack), p, short)

(* The end of vdhiint().                                                   *)
InputEnd(s) ==
    Without(IF "OUT2GO" \in s.st THEN StartIfIdle(s) ELSE s, {"OUT2GO"})

(* vdhiint(): the packets of one or of both input buffers.  The input      *)
(* process is woken if there is something for it to do.                    *)
Vdhiint(n, k) ==
    LET w == nd[Peer(n)].wire
    IN  /\ "TRYING" \in nd[n].st
        /\ k <= Len(w)
        /\ \E short \in (IF n \in BuffersFail THEN BOOLEAN ELSE {FALSE}) :
            LET one == Receive(nd[n], w[1], short)
                s == IF k = 1 THEN one ELSE Receive(one, w[2], short)
            IN  /\ nd' = [nd EXCEPT ![n] = InputEnd(s),
                                    ![Peer(n)].wire = SubSeq(@, k + 1, Len(@))]
                /\ at' = IF {"VDHILAST", "VDHINEED"} \cap s.st = {} THEN at ELSE Wakeup(n)
        /\ UNCHANGED <<log, skew, faults, lost>>

(* Bound: unless the line may go down, no more hellos are due once it is   *)
(* up.                                                                     *)
Rests(s) == ~LineFails /\ "UP" \in s.st

(* No more hellos are due at either end.                                   *)
Rest == \A n \in Node : Rests(nd[n])

(* A packet is damaged, or the interface is not ready for it.  Unless the  *)
(* line may go down, it loses nothing while it is coming up.               *)
Lose(n) ==
    /\ nd[n].wire # <<>>
    /\ LineFails \/ Rest \/ "TRYING" \notin nd[Peer(n)].st
    /\ lost' = IF LineFails /\ "TRYING" \in nd[Peer(n)].st THEN lost + 1 ELSE lost
    /\ lost' <= MaxLost
    /\ nd' = [nd EXCEPT ![n].wire = Tail(@)]
    /\ UNCHANGED <<at, log, skew, faults>>

-----------------------------------------------------------------------------
(* The clock *)

(* A hello is due.  The three cases are the line that is up, the one that  *)
(* is coming up, and the one that is down, whose input is started.         *)
HelloUp(s) ==
    IF s.unacked > T
    THEN [Without(s, {"TRYING", "UP"}) EXCEPT !.hellonext = Never, !.needinit = TRUE]
    ELSE With(s, {"SENDHELLO"})

HelloTrying(s) ==
    With(IF s.unacked # 0 THEN [s EXCEPT !.inarow = 0]
         ELSE IF s.inarow >= K THEN With(s, {"UP"})
         ELSE s, {"SENDHELLO"})

HelloDown(s) == With(Without(s, {"SAWHELLO", "UP"}), {"TRYING", "SENDHELLO"})

HelloDue(s) ==
    LET h == [s EXCEPT !.hellonext = R]
    IN  IF "TRYING" \notin s.st THEN HelloDown(h)
        ELSE IF "UP" \in s.st THEN HelloUp(h) ELSE HelloTrying(h)

Clock(s) ==
    IF ~s.open THEN Without(s, {"UP", "TRYING"})
    ELSE LET h == [s EXCEPT !.use = [c \in Chan |-> IF @[c] > 0 THEN @[c] - 1 ELSE @[c]],
                            !.hellonext = IF @ = Never \/ Rests(s) THEN @ ELSE @ - 1]
         IN  IF h.hellonext > 0 THEN h ELSE HelloDue(h)

Quiet == \A n \in Node : nd[n].wire = <<>> /\ "OUTBUSY" \notin nd[n].st

(* How time passes.  The clocks of the two ends tick at the same rate, and *)
(* a packet takes less than a hello's period: a hello stays unanswered     *)
(* only if it or its answer is lost.  When no more hellos are due, a tick  *)
(* may come at any time.                                                   *)
Timely(step) ==
    IF Rest THEN UNCHANGED skew
    ELSE Quiet /\ skew + step \in {0, 1} /\ skew' = skew + step

BugWakes(s, r) == r.open /\ "UP" \in r.st \ s.st

(* The clock changes s to r: the line has come up, or gone down.           *)
Wakes(s, r) == r.open /\ ("UP" \in s.st) # ("UP" \in r.st)

(* vdhoint() from the clock.                                               *)
Tick(n) ==
    /\ Timely(IF n = "host" THEN 1 ELSE -1)
    /\ LET s == Clock(nd[n]) IN
        /\ nd' = [nd EXCEPT ![n] = StartIfIdle(s)]
        /\ at' = IF Wakes(nd[n], s) THEN Wakeup(n) ELSE at
        /\ faults' = IF s.needinit /\ ~nd[n].needinit THEN faults + 1 ELSE faults
        /\ faults' <= MaxFaults
    /\ UNCHANGED <<log, lost>>

-----------------------------------------------------------------------------
(* The input process: the loop of impopen() *)

(* Where the process is when it has gone round: it sleeps, unless there is *)
(* another message.                                                        *)
LoopTop(s) == IF "VDHILAST" \in s.st THEN "run" ELSE "sleep"

(* imp_input() gets a message, and impldrd() makes room for the next.      *)
impldrd(s) == [Without(s, {"VDHILAST"}) EXCEPT !.imsg = <<>>]

Part(m) == \A i \in DOMAIN m : m[i].m = m[1].m /\ m[i].i = m[1].i + i - 1

Whole(m) == Part(m) /\ m[1].i = 1

Mixed == -1     \* a message of which the parts do not belong together

(* End n gets the message m.  It may be the end of one that its peer began *)
(* before it was initialised.                                              *)
Handed(n, m) ==
    [log EXCEPT ![n].newest = IF Whole(m) THEN m[1].m
                              ELSE IF Part(m) /\ m[1].m <= log[Peer(n)].init THEN @
                              ELSE Mixed,
                ![n].torn = @ \/ ~Whole(m)]

(* The end of the loop, from s: begin anew if the line has gone down.      *)
LoopEnd(n, p, s) ==
    LET r == IF s.needinit THEN imp_init([s EXCEPT !.needinit = FALSE], log[n].in) ELSE s
    IN  /\ nd' = [nd EXCEPT ![n] = r]
        /\ at' = [at EXCEPT ![n][p] = LoopTop(r)]

(* A message has come.                                                     *)
ImpInput(n, p) ==
    /\ at[n][p] = "run" /\ nd[n].open
    /\ "VDHILAST" \in nd[n].st
    /\ nd' = [nd EXCEPT ![n] = impldrd(@)]
    /\ log' = Handed(n, nd[n].imsg)
    /\ UNCHANGED <<at, skew, faults, lost>>

(* "interrupt needs buffer": the process sleeps until there is one.        *)
ImpNeed(n, p) ==
    /\ at[n][p] = "run" /\ nd[n].open
    /\ "VDHILAST" \notin nd[n].st /\ "VDHINEED" \in nd[n].st
    /\ at' = [at EXCEPT ![n][p] = "getkb"]
    /\ UNCHANGED <<nd, log, skew, faults, lost>>

ImpGetkb(n, p) ==
    /\ at[n][p] = "getkb"
    /\ LoopEnd(n, p, Without(nd[n], {"VDHINEED"}))
    /\ log' = IF nd[n].needinit THEN InitLog(n) ELSE log
    /\ UNCHANGED <<skew, faults, lost>>

(* Nothing, or only the line, needs attention.                             *)
ImpLoop(n, p) ==
    /\ at[n][p] = "run" /\ nd[n].open
    /\ {"VDHILAST", "VDHINEED"} \cap nd[n].st = {}
    /\ LoopEnd(n, p, nd[n])
    /\ log' = IF nd[n].needinit THEN InitLog(n) ELSE log
    /\ UNCHANGED <<skew, faults, lost>>

(* The daemon has closed the interface: imp_dwn(), and the process exits.  *)
(* impoq is emptied, and vdhmsg is not.                                    *)
ImpDown(n, p) ==
    /\ at[n][p] = "run" /\ ~nd[n].open
    /\ nd' = [nd EXCEPT ![n].imsg = <<>>, ![n].q = <<>>]
    /\ at' = [at EXCEPT ![n][p] = "gone"]
    /\ log' = [e \in Node |-> [log[e] EXCEPT !.init = log[e].in]]
    /\ UNCHANGED <<skew, faults, lost>>

InputProcess(n, p) ==
    ImpInput(n, p) \/ ImpNeed(n, p) \/ ImpGetkb(n, p) \/ ImpLoop(n, p) \/ ImpDown(n, p)

(* ncpclose(): "wakeup the input process so it can die".                   *)
Stop ==
    /\ faults < MaxFaults
    /\ nd["host"].open
    /\ nd' = [nd EXCEPT !["host"].open = FALSE]
    /\ at' = Wakeup("host")
    /\ faults' = faults + 1
    /\ UNCHANGED <<log, skew, lost>>

(* ncpopen() and impopen(), which start a new process.                     *)
Restart ==
    /\ ~nd["host"].open
    /\ \E p \in Proc :
        /\ at["host"][p] = "gone"
        /\ at' = [at EXCEPT !["host"][p] = "sleep"]
    /\ nd' = [nd EXCEPT !["host"] = [imp_init(@, log["host"].in) EXCEPT !.open = TRUE]]
    /\ log' = InitLog("host")
    /\ UNCHANGED <<skew, faults, lost>>

Next ==
    \/ \E n \in Node :
        \/ ImpOutput(n) \/ OutputDone(n) \/ Lose(n) \/ Tick(n)
        \/ \E k \in 1 .. 2 : Vdhiint(n, k)
        \/ \E p \in Proc : InputProcess(n, p)
    \/ Stop
    \/ Restart

Spec == Init /\ [][Next]_vars

(* The k-th packet that comes in matters: it has new data or a new ack, or *)
(* it asks again for an ack that its sender has not seen.                  *)
Matters(n, k) ==
    /\ k <= Len(nd[Peer(n)].wire)
    /\ LET p == nd[Peer(n)].wire[k]
           s == nd[n]
       IN  /\ "UP" \in s.st
           /\ p.t \in {"null", "data"}
           /\ \/ p.ack # s.prv
              \/ p.t = "data" /\ (Expected(s, p) \/ s.ack[p.ch] # nd[Peer(n)].prv[p.ch])

(* vdhiint() gets a packet that matters, and has the buffers for it.       *)
Progress(n) ==
    /\ \E k \in 1 .. 2 : Matters(n, k) /\ Vdhiint(n, k)
    /\ "VDHINEED" \notin nd'[n].st

(* Interrupts come and the process runs; getkb() returns, as buffers are   *)
(* given back in time; and not every packet that matters is lost, or finds *)
(* no buffers.                                                             *)
Fairness ==
    \A n \in Node :
        /\ WF_vars(OutputDone(n))
        /\ WF_vars(Tick(n))
        /\ WF_vars(\E p \in Proc : InputProcess(n, p))
        /\ WF_vars(Vdhiint(n, 1) \/ Lose(Peer(n)))
        /\ SF_vars(Progress(n))

FairSpec == Spec /\ Fairness

-----------------------------------------------------------------------------
(* Properties *)

(* The variables of both drivers have their types.                         *)
TypeOK ==
    /\ nd \in [Node -> End]
    /\ at \in [Node -> [Proc -> {"sleep", "run", "getkb", "gone"}]]
    /\ log \in [Node -> Log]
    /\ skew \in {0, 1}
    /\ faults \in 0 .. MaxFaults /\ lost \in 0 .. MaxLost

ToImp == INSTANCE MsgLink WITH
    in <- log["host"].in, newest <- log["imp"].newest, init <- log["host"].init

ToHost == INSTANCE MsgLink WITH
    in <- log["imp"].in, newest <- log["host"].newest, init <- log["imp"].init

(* Whatever the line loses and however often a packet is sent, messages    *)
(* are handed over in order and once, and lost only when an end begins     *)
(* anew.                                                                   *)
IsLink == ToImp!Spec /\ ToHost!Spec

(* An ack is not taken for another: when an end has nothing left to send,  *)
(* its last message has come in whole at its peer, unless it was given to  *)
(* it before an end was initialised.                                       *)
AckedIsTaken ==
    \A n \in Node :
        LET s == nd[n]
            r == nd[Peer(n)]
        IN  (s.q = <<>> /\ s.msg = <<>> /\ \A c \in Chan : s.use[c] = Free) =>
                \/ log[n].in \in {log[n].init, log[Peer(n)].newest}
                \/ "VDHILAST" \in r.st /\ r.imsg[1].m = log[n].in

(* A message that is handed to imp_input() begins with its leader.         *)
LeaderFirst == \A n \in Node : ~log[n].torn

(* The input process of an end does not sleep while there is work for it:  *)
(* a message, a want of buffers, or a line that has gone down, and that    *)
(* nothing else brings up again.                                           *)
Attended ==
    \A n \in Node : \A p \in Proc :
        nd[n].open /\ at[n][p] = "sleep" =>
            {"VDHILAST", "VDHINEED"} \cap nd[n].st = {} /\ nd[n].hellonext # Never

(* Once the line is up, messages get through.                              *)
Delivers == \A n \in Node : []<>(Rest => log[Peer(n)].newest = log[n].in)

=============================================================================
