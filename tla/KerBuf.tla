------------------------------- MODULE KerBuf -------------------------------
(***************************************************************************)
(* The network buffer pool of the NCP kernel (nosc-files/ncpk/kerbuf.c).   *)
(*                                                                         *)
(* The pool borrows system buffers ("kernel buffers") from the block I/O   *)
(* cache, cuts each into net_b_per_k_b small network buffers and keeps the *)
(* small ones on a free list.  Processes take buffers with getbuf(), which *)
(* may sleep twice: in getblk() for a system buffer, and on the free list. *)
(* Every other piece of the code runs with IMP interrupts locked out and   *)
(* cannot be preempted, so one such piece is one action.                   *)
(*                                                                         *)
(* The free list is a ring in the code; which free buffer is handed out is *)
(* not observable, so the ring is a set here.                              *)
(***************************************************************************)
EXTENDS Integers, FiniteSets

CONSTANTS
    Proc,       \* processes that may be inside getbuf() at the same time
    Daemon,     \* the NCP daemon, which opens /dev/ncpkernel
    KbHiwat,    \* kb_hiwat: most kernel buffers the pool may borrow
    NetPerKb,   \* net_b_per_k_b: network buffers cut from one kernel buffer
    Hyster      \* init_b_hyster: kernel buffers borrowed at open and the
                \* surplus kept before any is given back

ASSUME KerBufAssumption ==
    /\ Daemon \in Proc
    /\ IsFiniteSet(Proc)
    /\ KbHiwat \in Nat \ {0}
    /\ NetPerKb \in Nat \ {0}
    /\ Hyster \in 1 .. KbHiwat

VARIABLES
    kb,       \* net_b.kb_: the slots that hold a kernel buffer
    freel,    \* net_b.b_freel: the network buffers on the free list
    freect,   \* b_freect of the kernel buffer in each slot
    cntfree,  \* net_b.b_cntfree
    alloc,    \* net_b.b_alloc
    need,     \* net_b.b_need & proc_need
    up,       \* the NCP has been opened, so sockets may exist
    inuse,    \* network buffers handed out and not yet freed
    rathole,  \* the buffer impopen() takes for flushed input, never freed
    pc        \* where each process is: see PcStates

vars == <<kb, freel, freect, cntfree, alloc, need, up, inuse, rathole, pc>>

Slot == 0 .. KbHiwat - 1
Netbuf == Slot \X (1 .. NetPerKb)

(* b_resv & b_memberof: the slot of the kernel buffer a netbuf lies in.    *)
MemberOf(b) == b[1]

BufsOf(s) == {s} \X (1 .. NetPerKb)

(* idle    not in the pool code                                            *)
(* want    woken from the free-list sleep, about to look again             *)
(* getblk  in getkb() called by getbuf(), asleep in getblk()               *)
(* sleep   asleep on the free list                                         *)
(* open    in ncpopen(), before the test of its loop over getkb()          *)
(* openblk in getkb() called by ncpopen(), asleep in getblk()              *)
PcStates == {"idle", "want", "getblk", "sleep", "open", "openblk"}

InGetblk == {p \in Proc : pc[p] \in {"getblk", "openblk"}}

Init ==
    /\ kb = {}
    /\ freel = {}
    /\ freect = [s \in Slot |-> 0]
    /\ cntfree = 0
    /\ alloc = 0
    /\ need = FALSE
    /\ up = FALSE
    /\ inuse = {}
    /\ rathole = {}
    /\ pc = [p \in Proc |-> IF p = Daemon THEN "open" ELSE "idle"]

-----------------------------------------------------------------------------
(* wakeup(&net_b.b_freel), which freeb() does when some process needs a    *)
(* buffer: it makes every sleeper on the free list runnable.               *)
BugWoken == pc

BugWokenOne ==
    IF need /\ \E p \in Proc : pc[p] = "sleep"
    THEN [pc EXCEPT ![CHOOSE p \in Proc : pc[p] = "sleep"] = "want"] ELSE pc

Woken == [p \in Proc |-> IF need /\ pc[p] = "sleep" THEN "want" ELSE pc[p]]

(* getkb() before its sleep: the count is raised before getblk(), so that  *)
(* two processes asleep in getblk() cannot both take the last slot.        *)
BugGetkbBegin(p, where) ==
    /\ alloc < KbHiwat
    /\ pc' = [pc EXCEPT ![p] = where]
    /\ UNCHANGED <<kb, freel, freect, cntfree, alloc, need, inuse, rathole, up>>

BugGetkbOverHiwat(p, where) ==
    /\ alloc <= KbHiwat
    /\ alloc' = alloc + 1
    /\ pc' = [pc EXCEPT ![p] = where]
    /\ UNCHANGED <<kb, freel, freect, cntfree, need, inuse, rathole, up>>

GetkbBegin(p, where) ==
    /\ alloc < KbHiwat
    /\ alloc' = alloc + 1
    /\ pc' = [pc EXCEPT ![p] = where]
    /\ UNCHANGED <<kb, freel, freect, cntfree, need, inuse, rathole, up>>

Holes == Slot \ kb

FirstHole == CHOOSE s \in Holes : \A t \in Holes : s <= t

(* ncpopen(): borrow Hyster kernel buffers, one getkb() after the other.   *)
OpenGetkb ==
    /\ pc[Daemon] = "open"
    /\ alloc < Hyster
    /\ GetkbBegin(Daemon, "openblk")

OpenGetkbEnd ==
    /\ pc[Daemon] = "openblk"
    /\ Holes # {}
    /\ kb' = kb \cup {FirstHole}
    /\ freel' = freel \cup BufsOf(FirstHole)
    /\ freect' = [freect EXCEPT ![FirstHole] = NetPerKb]
    /\ cntfree' = cntfree + NetPerKb
    /\ pc' = [Woken EXCEPT ![Daemon] = "open"]
    /\ need' = FALSE
    /\ UNCHANGED <<alloc, inuse, rathole, up>>

(* The loop of ncpopen() is done: ncpopnstate++, then impopen() takes the  *)
(* buffer it reads unwanted input into and keeps it for ever.              *)
OpenDone ==
    /\ pc[Daemon] = "open"
    /\ alloc >= Hyster
    /\ up' = TRUE
    /\ \E b \in freel :
        /\ freel' = freel \ {b}
        /\ inuse' = inuse \cup {b}
        /\ rathole' = {b}
        /\ freect' = [freect EXCEPT ![MemberOf(b)] = @ - 1]
    /\ cntfree' = cntfree - 1
    /\ pc' = [pc EXCEPT ![Daemon] = "idle"]
    /\ UNCHANGED <<kb, alloc, need>>

-----------------------------------------------------------------------------
(* getbuf(): the test at the top of its loop, reached by the call and      *)
(* again after every wakeup.  Nobody has a reason to call it before the    *)
(* NCP was opened.                                                         *)
InGetbuf(p) == up /\ pc[p] \in {"idle", "want"}

GetbufTake(p) ==
    /\ InGetbuf(p)
    /\ \E b \in freel :
        /\ freel' = freel \ {b}
        /\ inuse' = inuse \cup {b}
        /\ freect' = [freect EXCEPT ![MemberOf(b)] = @ - 1]
    /\ cntfree' = cntfree - 1
    /\ pc' = [pc EXCEPT ![p] = "idle"]
    /\ UNCHANGED <<kb, alloc, need, rathole, up>>

GetbufGetkb(p) ==
    /\ InGetbuf(p)
    /\ freel = {}
    /\ GetkbBegin(p, "getblk")

(* getkb() returned 0: note the need and sleep on the free list.           *)
GetbufSleep(p) ==
    /\ InGetbuf(p)
    /\ freel = {}
    /\ alloc >= KbHiwat
    /\ need' = TRUE
    /\ pc' = [pc EXCEPT ![p] = "sleep"]
    /\ UNCHANGED <<kb, freel, freect, cntfree, alloc, inuse, rathole, up>>

(* getblk() returned inside getbuf(): finish getkb(), break out of the     *)
(* loop and take a buffer, all without leaving the IMP priority level.     *)
GetbufGetkbEnd(p) ==
    /\ pc[p] = "getblk"
    /\ Holes # {}
    /\ kb' = kb \cup {FirstHole}
    /\ \E b \in freel \cup BufsOf(FirstHole) :
        /\ freel' = (freel \cup BufsOf(FirstHole)) \ {b}
        /\ inuse' = inuse \cup {b}
        /\ freect' = [[freect EXCEPT ![FirstHole] = NetPerKb]
                         EXCEPT ![MemberOf(b)] = @ - 1]
    /\ cntfree' = cntfree + NetPerKb - 1
    /\ pc' = [Woken EXCEPT ![p] = "idle"]
    /\ need' = FALSE
    /\ UNCHANGED <<alloc, rathole, up>>

-----------------------------------------------------------------------------
(* freekb(): when the free list holds more than the hysteresis value, give *)
(* back every kernel buffer all of whose pieces are free.                  *)
BugReleasable(ct, n) ==
    IF n > Hyster * NetPerKb THEN {s \in kb : ct[s] >= NetPerKb - 1} ELSE {}

Releasable(ct, n) ==
    IF n > Hyster * NetPerKb THEN {s \in kb : ct[s] = NetPerKb} ELSE {}

(* freebuf(): freeb() the buffer, then freekb().  Any owner of a buffer    *)
(* may free it: a process, the IMP input process or the output interrupt.  *)
Freebuf(b) ==
    /\ b \in inuse \ rathole
    /\ LET ct == [freect EXCEPT ![MemberOf(b)] = @ + 1]
           gone == Releasable(ct, cntfree + 1)
       IN  /\ kb' = kb \ gone
           /\ freel' = (freel \cup {b}) \ (gone \X (1 .. NetPerKb))
           /\ freect' = [s \in Slot |-> IF s \in gone THEN 0 ELSE ct[s]]
           /\ cntfree' = (cntfree + 1) - NetPerKb * Cardinality(gone)
           /\ alloc' = alloc - Cardinality(gone)
    /\ inuse' = inuse \ {b}
    /\ pc' = Woken
    /\ need' = FALSE
    /\ UNCHANGED <<rathole, up>>

-----------------------------------------------------------------------------
Next ==
    \/ OpenGetkb
    \/ OpenGetkbEnd
    \/ OpenDone
    \/ \E p \in Proc :
        \/ GetbufTake(p)
        \/ GetbufGetkb(p)
        \/ GetbufSleep(p)
        \/ GetbufGetkbEnd(p)
    \/ \E b \in Netbuf : Freebuf(b)

Spec == Init /\ [][Next]_vars

(* A process woken from the free list is scheduled again, getblk() gives a *)
(* system buffer in the end, and a buffer that was handed out is freed in  *)
(* the end (its message is transmitted, read or flushed).                  *)
Fairness ==
    /\ WF_vars(OpenGetkb) /\ WF_vars(OpenGetkbEnd) /\ WF_vars(OpenDone)
    /\ \A p \in Proc :
        /\ WF_vars(pc[p] = "want" /\ (GetbufTake(p) \/ GetbufGetkb(p)))
        /\ WF_vars(GetbufGetkbEnd(p))
    /\ \A b \in Netbuf : WF_vars(Freebuf(b))

FairSpec == Spec /\ Fairness

-----------------------------------------------------------------------------
(* Properties *)

(* Every field of net_b and of the processes has its type.                 *)
TypeOK ==
    /\ kb \subseteq Slot
    /\ freel \subseteq Netbuf
    /\ freect \in [Slot -> 0 .. NetPerKb]
    /\ cntfree \in Nat
    /\ alloc \in 0 .. KbHiwat
    /\ need \in BOOLEAN
    /\ up \in BOOLEAN
    /\ inuse \subseteq Netbuf
    /\ rathole \subseteq inuse
    /\ pc \in [Proc -> PcStates]
    /\ \A p \in Proc \ {Daemon} : pc[p] \notin {"open", "openblk"}

(* Conservation: each piece of a borrowed kernel buffer is either free or  *)
(* in use, never both, and no piece of a returned one is either.  This is  *)
(* what makes the brelse() of freekb() and the freeb() of any owner safe.  *)
Conservation ==
    /\ freel \cap inuse = {}
    /\ freel \cup inuse = kb \X (1 .. NetPerKb)

(* The three counters kept beside the free list agree with it: b_cntfree   *)
(* with its length, each b_freect with the pieces of that kernel buffer    *)
(* on it, and b_alloc with the slots taken or promised to a process that   *)
(* sleeps in getblk().                                                     *)
CountersAgree ==
    /\ cntfree = Cardinality(freel)
    /\ \A s \in Slot :
        freect[s] = Cardinality({b \in freel : MemberOf(b) = s})
    /\ alloc = Cardinality(kb) + Cardinality(InGetblk)

(* The panic("getkb") is not reached: a process asleep in getblk() finds a *)
(* hole in net_b.kb_ when it returns, whatever the others did meanwhile.   *)
HoleForEverySleeper == Cardinality(InGetblk) <= Cardinality(Holes)

(* No lost wakeup in getbuf(): a process sleeps on the free list only as   *)
(* long as the list is empty, its need is recorded, and no more kernel     *)
(* buffers may be borrowed.                                                *)
NoSleeperWhileFree ==
    (\E p \in Proc : pc[p] = "sleep") =>
        /\ freel = {}
        /\ need
        /\ alloc >= KbHiwat

(* Every process that sleeps on the free list is woken in the end.         *)
SleeperWoken ==
    \A p \in Proc : pc[p] = "sleep" ~> pc[p] # "sleep"

=============================================================================
