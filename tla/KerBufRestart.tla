--------------------------- MODULE KerBufRestart ---------------------------
(***************************************************************************)
(* The buffer pool across a restart of the NCP daemon.  When the daemon's  *)
(* channel is closed, ncpclose() empties the two queues of messages for    *)
(* the daemon and tells the IMP input process, which runs imp_dwn(): it    *)
(* frees the message being received and the output queue and calls         *)
(* ncp_bfrdwn(), by which the pool forgets its free list and counters and  *)
(* gives every kernel buffer back to the system.  Nothing in that path     *)
(* looks for buffers in the read queues of sockets or in messages that a   *)
(* process is building, for processes that sleep in getblk() or for        *)
(* sleepers on the free list.                                              *)
(***************************************************************************)
EXTENDS KerBuf

VARIABLES
    ncpopnstate,  \* the daemon has its channel open
    queued,       \* buffers on the queues that a shutdown empties: ncpirq,
                  \* ncprq, the input message, the IMP output queue
    dangling      \* pieces of returned kernel buffers still in use

rvars == <<vars, ncpopnstate, queued, dangling>>

RInit ==
    /\ Init
    /\ ncpopnstate = FALSE
    /\ queued = {}
    /\ dangling = {}

(* A step of the pool; a freed buffer leaves its queue, and the daemon     *)
(* that leaves ncpopen() has its channel open.                             *)
PoolStep ==
    /\ Next
    /\ ncpopnstate' = (ncpopnstate \/ (pc[Daemon] = "open" /\ pc'[Daemon] = "idle"))
    /\ queued' = queued \cap inuse'
    /\ UNCHANGED dangling

(* to_ncp(), imp_output() and ihbget() queue a buffer; hh() takes it off   *)
(* the input message and onto the read queue of a socket.                  *)
Enqueue ==
    /\ \E b \in inuse \ (queued \cup rathole) : queued' = queued \cup {b}
    /\ UNCHANGED <<vars, ncpopnstate, dangling>>

ToSocket ==
    /\ \E b \in queued : queued' = queued \ {b}
    /\ UNCHANGED <<vars, ncpopnstate, dangling>>

(* The daemon dies; its successor starts with ncpopen().                   *)
ncpclose ==
    /\ ncpopnstate
    /\ pc[Daemon] = "idle"
    /\ ncpopnstate' = FALSE
    /\ pc' = [pc EXCEPT ![Daemon] = "open"]
    /\ UNCHANGED <<kb, freel, freect, cntfree, alloc, need, up, inuse,
                   rathole, queued, dangling>>

(* imp_dwn(): the queues are freed (ncpclose() did its own already, with   *)
(* the same result), then ncp_bfrdwn() forgets the pool.                   *)
imp_dwn ==
    /\ ~ncpopnstate
    /\ rathole # {}
    /\ kb' = {}
    /\ freel' = {}
    /\ freect' = [s \in Slot |-> 0]
    /\ cntfree' = 0
    /\ alloc' = 0
    /\ need' = FALSE
    /\ dangling' = dangling \cup (inuse \ (queued \cup rathole))
    /\ inuse' = {}
    /\ rathole' = {}
    /\ queued' = {}
    /\ UNCHANGED <<pc, up, ncpopnstate>>

RNext ==
    \/ PoolStep
    \/ Enqueue
    \/ ToSocket
    \/ ncpclose
    \/ imp_dwn

RSpec == RInit /\ [][RNext]_rvars

(* "Panic added, tho it should never be reached" (getkb): also with        *)
(* restarts, and even if each of them found every buffer on a queue that   *)
(* it empties, a process that returns from getblk() finds a hole.          *)
PanicNotReached == dangling = {} /\ InGetblk # {} => Holes # {}

=============================================================================
