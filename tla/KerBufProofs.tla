---------------------------- MODULE KerBufProofs ----------------------------
(***************************************************************************)
(* Proofs about the buffer pool of KerBuf, for every number of processes,  *)
(* every high-water mark, every number of pieces per kernel buffer and     *)
(* every hysteresis value.                                                 *)
(*                                                                         *)
(* The three counters are the difficulty.  b_freect of a kernel buffer is  *)
(* compared with net_b_per_k_b to decide that all its pieces are free, so  *)
(* Conservation rests on the counters, and the counters rest on            *)
(* Conservation: a buffer that is freed was not on the free list.  The     *)
(* invariant is therefore proved as one conjunction.                       *)
(***************************************************************************)
EXTENDS KerBuf, FiniteSetTheorems, TLAPS

(* The buffers of F that lie in the kernel buffer of slot s.               *)
FreeIn(F, s) == {b \in F : MemberOf(b) = s}

PoolInv ==
    /\ TypeOK
    /\ Conservation
    /\ CountersAgree
    /\ NoSleeperWhileFree

-----------------------------------------------------------------------------
(* Facts about finite sets of network buffers *)

(* A kernel buffer has NetPerKb pieces.                                    *)
LEMMA BufsOfCard ==
    ASSUME NEW s \in Slot
    PROVE  /\ IsFiniteSet(BufsOf(s))
           /\ Cardinality(BufsOf(s)) = NetPerKb
<1> DEFINE A == {s}
           B == 1 .. NetPerKb
<1>1. IsFiniteSet(A) /\ Cardinality(A) = 1
  BY FS_Singleton
<1>2. IsFiniteSet(B) /\ Cardinality(B) = NetPerKb
  BY FS_Interval, KerBufAssumption
<1>3. BufsOf(s) = A \X B
  BY DEF BufsOf
<1> HIDE DEF A, B
<1>4. IsFiniteSet(A \X B) /\ Cardinality(A \X B) = Cardinality(A) * Cardinality(B)
  BY <1>1, <1>2, FS_Product
<1> QED
  BY <1>1, <1>2, <1>3, <1>4, KerBufAssumption

(* The pool as a whole is finite.                                          *)
LEMMA NetbufFinite ==
    /\ IsFiniteSet(Slot)
    /\ Cardinality(Slot) = KbHiwat
    /\ IsFiniteSet(Netbuf)
<1>1. IsFiniteSet(Slot) /\ Cardinality(Slot) = KbHiwat
  BY FS_Interval, KerBufAssumption DEF Slot
<1>2. IsFiniteSet(1 .. NetPerKb)
  BY FS_Interval, KerBufAssumption
<1> QED
  BY <1>1, <1>2, FS_Product DEF Netbuf

(* What b_freect counts lies between 0 and net_b_per_k_b, and it is        *)
(* net_b_per_k_b exactly when every piece of the kernel buffer is free.    *)
LEMMA FreeInCard ==
    ASSUME NEW F \in SUBSET Netbuf, NEW s \in Slot
    PROVE  /\ IsFiniteSet(FreeIn(F, s))
           /\ Cardinality(FreeIn(F, s)) \in 0 .. NetPerKb
           /\ Cardinality(FreeIn(F, s)) = NetPerKb => BufsOf(s) \subseteq F
<1>1. FreeIn(F, s) \in SUBSET BufsOf(s)
  BY DEF FreeIn, BufsOf, Netbuf, MemberOf
<1>2. /\ IsFiniteSet(FreeIn(F, s))
      /\ Cardinality(FreeIn(F, s)) <= NetPerKb
      /\ Cardinality(FreeIn(F, s)) = NetPerKb => FreeIn(F, s) = BufsOf(s)
  BY <1>1, BufsOfCard, FS_Subset
<1>3. Cardinality(FreeIn(F, s)) \in Nat
  BY <1>2, FS_CardinalityType
<1>4. FreeIn(F, s) \subseteq F
  BY DEF FreeIn
<1> QED
  BY <1>2, <1>3, <1>4, KerBufAssumption

(* Adding a buffer raises the count of its own kernel buffer only.         *)
LEMMA FreeInAdd ==
    ASSUME NEW F \in SUBSET Netbuf, NEW s \in Slot, NEW b \in Netbuf, b \notin F
    PROVE  Cardinality(FreeIn(F \cup {b}, s)) =
             IF MemberOf(b) = s THEN Cardinality(FreeIn(F, s)) + 1
                                ELSE Cardinality(FreeIn(F, s))
<1>1. CASE MemberOf(b) = s
  <2>1. FreeIn(F \cup {b}, s) = FreeIn(F, s) \cup {b}
    BY <1>1 DEF FreeIn
  <2>2. b \notin FreeIn(F, s)
    BY DEF FreeIn
  <2> QED
    BY <1>1, <2>1, <2>2, FreeInCard, FS_AddElement
<1>2. CASE MemberOf(b) # s
  <2>1. FreeIn(F \cup {b}, s) = FreeIn(F, s)
    BY <1>2 DEF FreeIn
  <2> QED
    BY <1>2, <2>1
<1> QED
  BY <1>1, <1>2

(* Taking a buffer lowers the count of its own kernel buffer only.         *)
LEMMA FreeInRemove ==
    ASSUME NEW F \in SUBSET Netbuf, NEW s \in Slot, NEW b \in F
    PROVE  Cardinality(FreeIn(F \ {b}, s)) =
             IF MemberOf(b) = s THEN Cardinality(FreeIn(F, s)) - 1
                                ELSE Cardinality(FreeIn(F, s))
<1>1. CASE MemberOf(b) = s
  <2>1. FreeIn(F \ {b}, s) = FreeIn(F, s) \ {b}
    BY <1>1 DEF FreeIn
  <2>2. b \in FreeIn(F, s)
    BY <1>1 DEF FreeIn
  <2>3. IsFiniteSet(FreeIn(F, s))
    BY FreeInCard
  <2>4. Cardinality(FreeIn(F, s) \ {b}) = Cardinality(FreeIn(F, s)) - 1
    BY <2>2, <2>3, FS_RemoveElement
  <2> QED
    BY <1>1, <2>1, <2>4
<1>2. CASE MemberOf(b) # s
  <2>1. FreeIn(F \ {b}, s) = FreeIn(F, s)
    BY <1>2 DEF FreeIn
  <2> QED
    BY <1>2, <2>1
<1> QED
  BY <1>1, <1>2

(* Cutting up a kernel buffer for slot h makes all its pieces free.        *)
LEMMA FreeInCut ==
    ASSUME NEW F \in SUBSET Netbuf, NEW s \in Slot, NEW h \in Slot,
           FreeIn(F, h) = {}
    PROVE  Cardinality(FreeIn(F \cup BufsOf(h), s)) =
             IF s = h THEN NetPerKb ELSE Cardinality(FreeIn(F, s))
<1>1. CASE s = h
  <2>1. FreeIn(F \cup BufsOf(h), s) = BufsOf(h)
    BY <1>1 DEF FreeIn, BufsOf, MemberOf
  <2> QED
    BY <1>1, <2>1, BufsOfCard
<1>2. CASE s # h
  <2>1. FreeIn(F \cup BufsOf(h), s) = FreeIn(F, s)
    BY <1>2 DEF FreeIn, BufsOf, MemberOf
  <2> QED
    BY <1>2, <2>1
<1> QED
  BY <1>1, <1>2

-----------------------------------------------------------------------------
(* The counters along the four things that happen to the free list *)

(* F, ct and n agree, and have the types of b_freel, b_freect, b_cntfree.  *)
Counts(F, ct, n) ==
    /\ F \subseteq Netbuf
    /\ ct \in [Slot -> 0 .. NetPerKb]
    /\ n \in Nat
    /\ n = Cardinality(F)
    /\ \A s \in Slot : ct[s] = Cardinality(FreeIn(F, s))

(* getbuf() takes a buffer off the free list.                              *)
LEMMA CountsTake ==
    ASSUME NEW F, NEW ct, NEW n, Counts(F, ct, n), NEW b \in F
    PROVE  Counts(F \ {b}, [ct EXCEPT ![MemberOf(b)] = @ - 1], n - 1)
<1> DEFINE G == F \ {b}
           ct2 == [ct EXCEPT ![MemberOf(b)] = @ - 1]
<1>1. F \in SUBSET Netbuf /\ G \in SUBSET Netbuf /\ MemberOf(b) \in Slot
  BY DEF Counts, Netbuf, MemberOf
<1>2. IsFiniteSet(F)
  BY <1>1, NetbufFinite, FS_Subset
<1>3. n - 1 = Cardinality(G) /\ IsFiniteSet(G)
  BY <1>2, FS_RemoveElement DEF Counts
<1>4. n - 1 \in Nat
  BY <1>3, FS_CardinalityType
<1>5. \A s \in Slot : ct2[s] = Cardinality(FreeIn(G, s))
  BY <1>1, FreeInRemove DEF Counts
<1>6. ct2 \in [Slot -> 0 .. NetPerKb]
  <2>1. \A s \in Slot : ct2[s] \in 0 .. NetPerKb
    BY <1>1, <1>5, FreeInCard
  <2> QED
    BY <2>1 DEF Counts
<1> QED
  BY <1>1, <1>3, <1>4, <1>5, <1>6 DEF Counts

(* freeb() puts a buffer on the free list.                                 *)
LEMMA CountsPut ==
    ASSUME NEW F, NEW ct, NEW n, Counts(F, ct, n), NEW b \in Netbuf, b \notin F
    PROVE  Counts(F \cup {b}, [ct EXCEPT ![MemberOf(b)] = @ + 1], n + 1)
<1> DEFINE G == F \cup {b}
           ct2 == [ct EXCEPT ![MemberOf(b)] = @ + 1]
<1>1. F \in SUBSET Netbuf /\ G \in SUBSET Netbuf /\ MemberOf(b) \in Slot
  BY DEF Counts, Netbuf, MemberOf
<1>2. IsFiniteSet(F)
  BY <1>1, NetbufFinite, FS_Subset
<1>3. n + 1 = Cardinality(G)
  BY <1>2, FS_AddElement DEF Counts
<1>4. n + 1 \in Nat
  BY DEF Counts
<1>5. \A s \in Slot : ct2[s] = Cardinality(FreeIn(G, s))
  BY <1>1, FreeInAdd DEF Counts
<1>6. ct2 \in [Slot -> 0 .. NetPerKb]
  <2>1. \A s \in Slot : ct2[s] \in 0 .. NetPerKb
    BY <1>1, <1>5, FreeInCard
  <2> QED
    BY <2>1 DEF Counts
<1> QED
  BY <1>1, <1>3, <1>4, <1>5, <1>6 DEF Counts

(* getkb() cuts up a kernel buffer for the empty slot h.                   *)
LEMMA CountsCut ==
    ASSUME NEW F, NEW ct, NEW n, Counts(F, ct, n), NEW h \in Slot,
           F \cap BufsOf(h) = {}
    PROVE  Counts(F \cup BufsOf(h), [ct EXCEPT ![h] = NetPerKb], n + NetPerKb)
<1> DEFINE G == F \cup BufsOf(h)
           ct2 == [ct EXCEPT ![h] = NetPerKb]
<1>1. F \in SUBSET Netbuf /\ G \in SUBSET Netbuf
  BY DEF Counts, Netbuf, BufsOf
<1>2. IsFiniteSet(F)
  BY <1>1, NetbufFinite, FS_Subset
<1>3. n + NetPerKb = Cardinality(G)
  <2>1. Cardinality(G) = Cardinality(F) + Cardinality(BufsOf(h))
                           - Cardinality(F \cap BufsOf(h))
    BY <1>2, BufsOfCard, FS_Union
  <2>2. Cardinality(F \cap BufsOf(h)) = 0
    BY FS_EmptySet
  <2> QED
    BY <2>1, <2>2, BufsOfCard, KerBufAssumption DEF Counts
<1>4. n + NetPerKb \in Nat
  BY KerBufAssumption DEF Counts
<1>5. FreeIn(F, h) = {}
  BY <1>1 DEF FreeIn, BufsOf, MemberOf, Netbuf
<1>6. \A s \in Slot : ct2[s] = Cardinality(FreeIn(G, s))
  BY <1>1, <1>5, FreeInCut DEF Counts
<1>7. ct2 \in [Slot -> 0 .. NetPerKb]
  BY KerBufAssumption DEF Counts
<1> QED
  BY <1>1, <1>3, <1>4, <1>6, <1>7 DEF Counts

(* freekb() gives back the kernel buffers of gone, which are wholly free.  *)
LEMMA CountsRelease ==
    ASSUME NEW F, NEW ct, NEW n, Counts(F, ct, n),
           NEW gone \in SUBSET Slot, \A s \in gone : ct[s] = NetPerKb
    PROVE  /\ gone \X (1 .. NetPerKb) \subseteq F
           /\ Counts(F \ (gone \X (1 .. NetPerKb)),
                     [s \in Slot |-> IF s \in gone THEN 0 ELSE ct[s]],
                     n - NetPerKb * Cardinality(gone))
<1> DEFINE B == 1 .. NetPerKb
           D == gone \X B
           G == F \ D
           ct2 == [s \in Slot |-> IF s \in gone THEN 0 ELSE ct[s]]
<1>1. F \in SUBSET Netbuf /\ G \in SUBSET Netbuf
  BY DEF Counts
<1>2. IsFiniteSet(F)
  BY <1>1, NetbufFinite, FS_Subset
<1>3. \A s \in gone : BufsOf(s) \subseteq F
  BY <1>1, FreeInCard DEF Counts
<1>4. D \subseteq F
  BY <1>3 DEF BufsOf
<1>5. IsFiniteSet(gone) /\ Cardinality(gone) \in Nat
  BY NetbufFinite, FS_Subset, FS_CardinalityType
<1>6. IsFiniteSet(B) /\ Cardinality(B) = NetPerKb
  BY FS_Interval, KerBufAssumption
<1>7. Cardinality(D) = NetPerKb * Cardinality(gone)
  <2> HIDE DEF B
  <2>1. Cardinality(gone \X B) = Cardinality(gone) * Cardinality(B)
    BY <1>5, <1>6, FS_Product
  <2> QED
    BY <2>1, <1>5, <1>6, KerBufAssumption
<1>8. /\ IsFiniteSet(G)
      /\ Cardinality(G) = n - NetPerKb * Cardinality(gone)
  <2> HIDE DEF D
  <2>1. F \cap D = D
    BY <1>4
  <2>2. IsFiniteSet(F \ D) /\ Cardinality(F \ D) = Cardinality(F) - Cardinality(F \cap D)
    BY <1>2, FS_Difference
  <2> QED
    BY <2>1, <2>2, <1>7 DEF Counts
<1>9. Cardinality(G) \in Nat
  BY <1>8, FS_CardinalityType
<1>10. \A s \in Slot : ct2[s] = Cardinality(FreeIn(G, s))
  <2> TAKE s \in Slot
  <2>1. CASE s \in gone
    <3>1. FreeIn(G, s) = {}
      BY <1>1, <2>1 DEF FreeIn, MemberOf, Netbuf
    <3> QED
      BY <3>1, <2>1, FS_EmptySet
  <2>2. CASE s \notin gone
    <3>1. FreeIn(G, s) = FreeIn(F, s)
      BY <1>1, <2>2 DEF FreeIn, MemberOf, Netbuf
    <3> QED
      BY <3>1, <2>2 DEF Counts
  <2> QED
    BY <2>1, <2>2
<1>11. ct2 \in [Slot -> 0 .. NetPerKb]
  BY KerBufAssumption DEF Counts
<1> QED
  BY <1>1, <1>4, <1>8, <1>9, <1>10, <1>11 DEF Counts

-----------------------------------------------------------------------------
(* The processes that sleep in getblk() *)

Blk(q) == {p \in Proc : q[p] \in {"getblk", "openblk"}}

LEMMA BlkFinite ==
    ASSUME NEW q
    PROVE  IsFiniteSet(Blk(q)) /\ Cardinality(Blk(q)) \in Nat
BY KerBufAssumption, FS_Subset, FS_CardinalityType DEF Blk

(* A process that enters getblk() is one more, one that leaves one less.   *)
LEMMA BlkEnter ==
    ASSUME NEW q \in [Proc -> PcStates], NEW p \in Proc, p \notin Blk(q),
           NEW w \in {"getblk", "openblk"}
    PROVE  Cardinality(Blk([q EXCEPT ![p] = w])) = Cardinality(Blk(q)) + 1
<1>1. Blk([q EXCEPT ![p] = w]) = Blk(q) \cup {p}
  BY DEF Blk
<1> QED
  BY <1>1, BlkFinite, FS_AddElement

LEMMA BlkLeave ==
    ASSUME NEW q \in [Proc -> PcStates], NEW p \in Blk(q), NEW w,
           w \notin {"getblk", "openblk"}
    PROVE  Cardinality(Blk([q EXCEPT ![p] = w])) = Cardinality(Blk(q)) - 1
<1>1. Blk([q EXCEPT ![p] = w]) = Blk(q) \ {p}
  BY DEF Blk
<1>2. Cardinality(Blk(q) \ {p}) = Cardinality(Blk(q)) - 1
  BY BlkFinite, FS_RemoveElement
<1> QED
  BY <1>1, <1>2

(* A wakeup moves nobody into or out of getblk().                          *)
LEMMA BlkWoken ==
    ASSUME pc \in [Proc -> PcStates]
    PROVE  /\ Woken \in [Proc -> PcStates]
           /\ Blk(Woken) = Blk(pc)
           /\ \A p \in Proc : Woken[p] = "sleep" => ~need
BY DEF Woken, Blk, PcStates

(* getkb() finds the first hole; no buffer of that slot is in the pool.    *)
LEMMA HoleIsFresh ==
    ASSUME Conservation, Holes # {}
    PROVE  /\ FirstHole \in Slot \ kb
           /\ freel \cap BufsOf(FirstHole) = {}
           /\ inuse \cap BufsOf(FirstHole) = {}
<1>1. FirstHole \in Holes
  <2>1. Holes \in SUBSET Nat /\ Holes # {}
    BY KerBufAssumption DEF Holes, Slot
  <2>2. \E s \in Holes : \A t \in Holes : s <= t
    <3> DEFINE R == OpToRel(<, Nat)
    <3>1. IsWellFoundedOn(R, Nat)
      BY NatLessThanWellFounded
    <3>2. \A x, y \in Nat : x < y => <<x, y>> \in R
      BY DEF OpToRel
    <3> HIDE DEF R
    <3>3. PICK s \in Holes : \A t \in Holes : ~ (<<t, s>> \in R)
      BY <2>1, <3>1, WFMin
    <3>4. ASSUME NEW t \in Holes PROVE s <= t
      <4>1. s \in Nat /\ t \in Nat
        BY <2>1
      <4>2. <<t, s>> \notin R
        BY <3>3
      <4>3. ~(t < s)
        BY <4>1, <4>2, <3>2
      <4> QED
        BY <4>1, <4>3
    <3> QED
      BY <3>4
  <2> QED
    BY <2>2 DEF FirstHole
<1> QED
  BY <1>1 DEF Conservation, Holes, BufsOf

-----------------------------------------------------------------------------
(* The invariant *)

(* PoolInv with the counters gathered into Counts.                         *)
LEMMA PoolInvParts ==
    ASSUME PoolInv
    PROVE  /\ Counts(freel, freect, cntfree)
           /\ IsFiniteSet(kb) /\ Cardinality(kb) \in Nat
           /\ InGetblk = Blk(pc)
           /\ IsFiniteSet(InGetblk) /\ Cardinality(InGetblk) \in Nat
<1>1. Counts(freel, freect, cntfree)
  BY DEF PoolInv, TypeOK, CountersAgree, Counts, FreeIn
<1>2. kb \in SUBSET Slot
  BY DEF PoolInv, TypeOK
<1>3. IsFiniteSet(kb) /\ Cardinality(kb) \in Nat
  BY <1>2, NetbufFinite, FS_Subset, FS_CardinalityType
<1>4. InGetblk = Blk(pc)
  BY DEF InGetblk, Blk
<1> QED
  BY <1>1, <1>3, <1>4, BlkFinite

(* getkb() up to getblk(): b_alloc grows with the processes in getblk().   *)
LEMMA GetkbBeginInv ==
    ASSUME PoolInv, NEW p \in Proc, NEW w \in {"getblk", "openblk"},
           w = "openblk" => p = Daemon,
           pc[p] \notin {"getblk", "openblk"},
           GetkbBegin(p, w)
    PROVE  PoolInv'
<1> USE DEF GetkbBegin
<1>1. pc \in [Proc -> PcStates] /\ pc' = [pc EXCEPT ![p] = w]
  BY DEF PoolInv, TypeOK
<1>2. Cardinality(Blk(pc')) = Cardinality(Blk(pc)) + 1
  <2>1. p \notin Blk(pc)
    BY DEF Blk
  <2> QED
    BY <1>1, <2>1, BlkEnter, ZenonT(30)
<1>3. TypeOK'
  BY <1>1, KerBufAssumption DEF PoolInv, TypeOK, PcStates
<1>4. Conservation'
  BY DEF PoolInv, Conservation
<1>5. CountersAgree'
  <2>1. alloc = Cardinality(kb) + Cardinality(Blk(pc))
    BY DEF PoolInv, CountersAgree, InGetblk, Blk
  <2>2. alloc' = Cardinality(kb') + Cardinality(Blk(pc'))
    BY <1>2, <2>1, PoolInvParts
  <2>3. InGetblk' = Blk(pc')
    BY DEF InGetblk, Blk
  <2> QED
    BY <2>2, <2>3 DEF PoolInv, CountersAgree
<1>6. NoSleeperWhileFree'
  <2>1. \A q \in Proc : pc[q] # "sleep"
    BY KerBufAssumption DEF PoolInv, NoSleeperWhileFree, TypeOK
  <2>2. \A q \in Proc : pc'[q] # "sleep"
    BY <1>1, <2>1
  <2> QED
    BY <2>2 DEF NoSleeperWhileFree
<1> QED
  BY <1>3, <1>4, <1>5, <1>6 DEF PoolInv

(* What an action must establish for PoolInv', the counters in one piece.  *)
LEMMA PoolInvFromParts ==
    ASSUME kb' \subseteq Slot, Counts(freel', freect', cntfree'),
           alloc' \in 0 .. KbHiwat, need' \in BOOLEAN, up' \in BOOLEAN,
           inuse' \subseteq Netbuf, rathole' \subseteq inuse',
           pc' \in [Proc -> PcStates],
           \A p \in Proc \ {Daemon} : pc'[p] \notin {"open", "openblk"},
           Conservation',
           alloc' = Cardinality(kb') + Cardinality(Blk(pc')),
           NoSleeperWhileFree'
    PROVE  PoolInv'
<1>1. TypeOK'
  BY DEF TypeOK, Counts
<1>2. CountersAgree'
  BY DEF CountersAgree, Counts, FreeIn, InGetblk, Blk
<1> QED
  BY <1>1, <1>2 DEF PoolInv

(* A step that only takes a buffer b off the free list, moves the process  *)
(* p, which is not in getblk(), to idle, and perhaps records the rathole.  *)
LEMMA TakeInv ==
    ASSUME PoolInv, NEW p \in Proc, pc[p] \notin {"getblk", "openblk"},
           NEW b \in freel,
           freel' = freel \ {b},
           inuse' = inuse \cup {b},
           freect' = [freect EXCEPT ![MemberOf(b)] = @ - 1],
           cntfree' = cntfree - 1,
           pc' = [pc EXCEPT ![p] = "idle"],
           rathole' = {b} \/ rathole' = rathole,
           up' \in BOOLEAN,
           UNCHANGED <<kb, alloc, need>>
    PROVE  PoolInv'
<1>1. Counts(freel', freect', cntfree')
  BY PoolInvParts, CountsTake
<1>2. pc \in [Proc -> PcStates] /\ b \in Netbuf
  BY DEF PoolInv, TypeOK
<1>3. pc' \in [Proc -> PcStates]
  BY <1>2 DEF PcStates
<1>4. Blk(pc') = Blk(pc)
  BY <1>2 DEF Blk
<1>5. alloc' = Cardinality(kb') + Cardinality(Blk(pc'))
  BY <1>4, PoolInvParts DEF PoolInv, CountersAgree
<1>6. Conservation'
  BY DEF PoolInv, Conservation
<1>7. NoSleeperWhileFree'
  <2>1. \A q \in Proc : pc[q] # "sleep"
    BY DEF PoolInv, NoSleeperWhileFree
  <2>2. \A q \in Proc : pc'[q] # "sleep"
    BY <1>2, <2>1
  <2> QED
    BY <2>2 DEF NoSleeperWhileFree
<1>8. rathole' \subseteq inuse' /\ inuse' \subseteq Netbuf
  BY <1>2 DEF PoolInv, TypeOK
<1>9. \A q \in Proc \ {Daemon} : pc'[q] \notin {"open", "openblk"}
  BY <1>2 DEF PoolInv, TypeOK
<1> QED
  BY <1>1, <1>3, <1>5, <1>6, <1>7, <1>8, <1>9, PoolInvFromParts DEF PoolInv, TypeOK

(* The rest of getkb(), after getblk() has returned to process p: the      *)
(* free list has the pieces of the new kernel buffer, and all sleepers     *)
(* are awake.                                                              *)
LEMMA GetkbEndParts ==
    ASSUME PoolInv, NEW p \in Blk(pc), Holes # {}, NEW w \in {"open", "idle"},
           w = "open" => p = Daemon,
           kb' = kb \cup {FirstHole},
           pc' = [Woken EXCEPT ![p] = w]
    PROVE  /\ kb' \subseteq Slot
           /\ Counts(freel \cup BufsOf(FirstHole),
                     [freect EXCEPT ![FirstHole] = NetPerKb],
                     cntfree + NetPerKb)
           /\ pc' \in [Proc -> PcStates]
           /\ \A q \in Proc \ {Daemon} : pc'[q] \notin {"open", "openblk"}
           /\ alloc = Cardinality(kb') + Cardinality(Blk(pc'))
           /\ NoSleeperWhileFree'
<1>1. /\ FirstHole \in Slot \ kb
      /\ freel \cap BufsOf(FirstHole) = {}
  BY HoleIsFresh DEF PoolInv
<1>2. kb \subseteq Slot /\ pc \in [Proc -> PcStates] /\ p \in Proc
  BY DEF PoolInv, TypeOK, Blk
<1>3. kb' \subseteq Slot
  BY <1>1, <1>2
<1>4. Counts(freel \cup BufsOf(FirstHole),
             [freect EXCEPT ![FirstHole] = NetPerKb], cntfree + NetPerKb)
  BY <1>1, PoolInvParts, CountsCut
<1>5. pc' \in [Proc -> PcStates]
  BY <1>2, BlkWoken DEF PcStates
<1>6. \A q \in Proc \ {Daemon} : pc'[q] \notin {"open", "openblk"}
  BY <1>2 DEF PoolInv, TypeOK, Woken
<1>7. Cardinality(Blk(pc')) = Cardinality(Blk(pc)) - 1
  <2>1. Woken \in [Proc -> PcStates] /\ p \in Blk(Woken) /\ Blk(Woken) = Blk(pc)
    BY <1>2, BlkWoken
  <2>2. w \notin {"getblk", "openblk"}
    OBVIOUS
  <2>3. Cardinality(Blk([Woken EXCEPT ![p] = w])) = Cardinality(Blk(Woken)) - 1
    BY <2>1, <2>2, BlkLeave
  <2> QED
    BY <2>1, <2>3
<1>8. Cardinality(kb') = Cardinality(kb) + 1
  BY <1>1, PoolInvParts, FS_AddElement
<1>9. alloc = Cardinality(kb') + Cardinality(Blk(pc'))
  BY <1>7, <1>8, PoolInvParts DEF PoolInv, CountersAgree
<1>10. NoSleeperWhileFree'
  <2>1. \A q \in Proc : Woken[q] # "sleep"
    BY BlkWoken, <1>2 DEF PoolInv, NoSleeperWhileFree, Woken
  <2>2. \A q \in Proc : pc'[q] # "sleep"
    BY <1>2, <2>1, BlkWoken
  <2> QED
    BY <2>2 DEF NoSleeperWhileFree
<1> QED
  BY <1>3, <1>4, <1>5, <1>6, <1>9, <1>10

(* freebuf(): the buffer goes onto the free list and every kernel buffer   *)
(* given back was wholly free, so no buffer in use is lost.                *)
LEMMA FreebufInv ==
    ASSUME PoolInv, NEW b \in Netbuf, Freebuf(b)
    PROVE  PoolInv'
<1> DEFINE ct == [freect EXCEPT ![MemberOf(b)] = @ + 1]
           gone == Releasable(ct, cntfree + 1)
           D == gone \X (1 .. NetPerKb)
<1>1. /\ b \in inuse /\ b \notin rathole
      /\ kb' = kb \ gone
      /\ freel' = (freel \cup {b}) \ D
      /\ freect' = [s \in Slot |-> IF s \in gone THEN 0 ELSE ct[s]]
      /\ cntfree' = (cntfree + 1) - NetPerKb * Cardinality(gone)
      /\ alloc' = alloc - Cardinality(gone)
      /\ inuse' = inuse \ {b}
      /\ pc' = Woken
      /\ need' = FALSE
      /\ UNCHANGED <<rathole, up>>
  BY DEF Freebuf
<1>2. /\ pc \in [Proc -> PcStates] /\ kb \subseteq Slot
      /\ inuse \subseteq Netbuf /\ b \notin freel
  BY <1>1 DEF PoolInv, TypeOK, Conservation
<1>3. Counts(freel \cup {b}, ct, cntfree + 1)
  BY <1>2, PoolInvParts, CountsPut
<1>4. gone \in SUBSET kb /\ \A s \in gone : ct[s] = NetPerKb
  BY DEF Releasable
<1> HIDE DEF gone, ct
<1>5. D \subseteq freel \cup {b} /\ Counts(freel', freect', cntfree')
  <2> DEFINE F == freel \cup {b}
             n == cntfree + 1
  <2>1. Counts(F, ct, n) /\ gone \in SUBSET Slot
    BY <1>2, <1>3, <1>4
  <2> HIDE DEF F, n
  <2>2. /\ gone \X (1 .. NetPerKb) \subseteq F
        /\ Counts(F \ (gone \X (1 .. NetPerKb)),
                  [s \in Slot |-> IF s \in gone THEN 0 ELSE ct[s]],
                  n - NetPerKb * Cardinality(gone))
    BY <2>1, <1>4, CountsRelease
  <2>3. freel' = F \ (gone \X (1 .. NetPerKb))
    BY <1>1 DEF F
  <2>4. freect' = [s \in Slot |-> IF s \in gone THEN 0 ELSE ct[s]]
    BY <1>1
  <2>5. cntfree' = n - NetPerKb * Cardinality(gone)
    BY <1>1 DEF n
  <2>6. Counts(freel', freect', cntfree')
    BY <2>2, <2>3, <2>4, <2>5, Zenon
  <2> QED
    BY <2>2, <2>6 DEF F
<1>6. /\ IsFiniteSet(gone) /\ Cardinality(gone) \in Nat
      /\ Cardinality(kb') = Cardinality(kb) - Cardinality(gone)
      /\ Cardinality(kb') \in Nat
  <2>1. IsFiniteSet(gone) /\ Cardinality(gone) \in Nat
    BY <1>4, PoolInvParts, FS_Subset, FS_CardinalityType
  <2>2. kb \cap gone = gone
    BY <1>4
  <2>3. IsFiniteSet(kb \ gone)
        /\ Cardinality(kb \ gone) = Cardinality(kb) - Cardinality(kb \cap gone)
    BY PoolInvParts, FS_Difference
  <2>4. Cardinality(kb \ gone) \in Nat
    BY <2>3, FS_CardinalityType
  <2> QED
    BY <1>1, <2>1, <2>2, <2>3, <2>4
<1>7. pc' \in [Proc -> PcStates] /\ Blk(pc') = Blk(pc)
  BY <1>1, <1>2, BlkWoken
<1>8. \A q \in Proc \ {Daemon} : pc'[q] \notin {"open", "openblk"}
  BY <1>1, <1>2 DEF PoolInv, TypeOK, Woken
<1>9. /\ alloc' = Cardinality(kb') + Cardinality(Blk(pc'))
      /\ alloc' \in 0 .. KbHiwat
  <2>1. alloc = Cardinality(kb) + Cardinality(Blk(pc)) /\ alloc \in 0 .. KbHiwat
    BY PoolInvParts DEF PoolInv, CountersAgree, TypeOK
  <2>2. Cardinality(Blk(pc)) \in Nat /\ Cardinality(kb) \in Nat
    BY PoolInvParts, BlkFinite
  <2> QED
    BY <1>1, <1>6, <1>7, <2>1, <2>2, KerBufAssumption
<1>10. Conservation'
  <2>1. freel \cup inuse = kb \X (1 .. NetPerKb) /\ freel \cap inuse = {}
    BY DEF PoolInv, Conservation
  <2>2. inuse \cap D \subseteq {b}
    BY <1>5, <2>1
  <2>3. inuse' \cap D = {}
    BY <1>1, <2>2
  <2>4. freel' \cup inuse' = (kb \X (1 .. NetPerKb)) \ D
    BY <1>1, <2>1, <2>3
  <2>5. (kb \X (1 .. NetPerKb)) \ D = (kb \ gone) \X (1 .. NetPerKb)
    OBVIOUS
  <2> QED
    BY <1>1, <2>1, <2>4, <2>5 DEF Conservation
<1>11. NoSleeperWhileFree'
  <2>1. \A q \in Proc : Woken[q] # "sleep"
    BY <1>2, BlkWoken DEF PoolInv, NoSleeperWhileFree, Woken
  <2> QED
    BY <1>1, <2>1 DEF NoSleeperWhileFree
<1> QED
  BY <1>1, <1>2, <1>4, <1>5, <1>7, <1>8, <1>9, <1>10, <1>11, PoolInvFromParts
     DEF PoolInv, TypeOK

(* Every step of the pool keeps the invariant.                             *)
LEMMA PoolInvStep ==
    PoolInv /\ [Next]_vars => PoolInv'
<1> SUFFICES ASSUME PoolInv, [Next]_vars PROVE PoolInv'
  OBVIOUS
<1>1. CASE OpenGetkb
  BY <1>1, GetkbBeginInv, KerBufAssumption DEF OpenGetkb
<1>2. CASE OpenGetkbEnd
  <2>1. Daemon \in Blk(pc) /\ Holes # {}
    BY <1>2, KerBufAssumption DEF OpenGetkbEnd, Blk
  <2>2. FirstHole \in Slot \ kb /\ inuse \cap BufsOf(FirstHole) = {}
    BY <2>1, HoleIsFresh DEF PoolInv
  <2>3. Conservation'
    BY <1>2, <2>2, HoleIsFresh DEF OpenGetkbEnd, PoolInv, Conservation, BufsOf
  <2> QED
    BY <1>2, <2>1, <2>3, GetkbEndParts, PoolInvFromParts
       DEF OpenGetkbEnd, PoolInv, TypeOK
<1>3. CASE OpenDone
  <2>1. PICK b \in freel :
          /\ freel' = freel \ {b}
          /\ inuse' = inuse \cup {b}
          /\ rathole' = {b}
          /\ freect' = [freect EXCEPT ![MemberOf(b)] = @ - 1]
    BY <1>3 DEF OpenDone
  <2> QED
    BY <1>3, <2>1, TakeInv, KerBufAssumption DEF OpenDone
<1>4. ASSUME NEW p \in Proc, GetbufTake(p) PROVE PoolInv'
  <2>1. PICK b \in freel :
          /\ freel' = freel \ {b}
          /\ inuse' = inuse \cup {b}
          /\ freect' = [freect EXCEPT ![MemberOf(b)] = @ - 1]
    BY <1>4 DEF GetbufTake
  <2>2. up' \in BOOLEAN
    BY <1>4 DEF GetbufTake, PoolInv, TypeOK
  <2> QED
    BY <1>4, <2>1, <2>2, TakeInv DEF GetbufTake, InGetbuf
<1>5. ASSUME NEW p \in Proc, GetbufGetkb(p) PROVE PoolInv'
  BY <1>5, GetkbBeginInv DEF GetbufGetkb, InGetbuf
<1>6. ASSUME NEW p \in Proc, GetbufSleep(p) PROVE PoolInv'
  <2> USE <1>6 DEF GetbufSleep, InGetbuf
  <2>1. pc \in [Proc -> PcStates] /\ pc' = [pc EXCEPT ![p] = "sleep"]
    BY DEF PoolInv, TypeOK
  <2>2. pc' \in [Proc -> PcStates] /\ Blk(pc') = Blk(pc)
    BY <2>1 DEF Blk, PcStates
  <2>3. \A q \in Proc \ {Daemon} : pc'[q] \notin {"open", "openblk"}
    BY <2>1 DEF PoolInv, TypeOK
  <2>4. Conservation' /\ NoSleeperWhileFree'
    BY DEF PoolInv, Conservation, NoSleeperWhileFree
  <2>5. Counts(freel', freect', cntfree')
        /\ alloc' = Cardinality(kb') + Cardinality(Blk(pc'))
    BY <2>2, PoolInvParts DEF PoolInv, CountersAgree
  <2> QED
    BY <2>2, <2>3, <2>4, <2>5, PoolInvFromParts DEF PoolInv, TypeOK
<1>7. ASSUME NEW p \in Proc, GetbufGetkbEnd(p) PROVE PoolInv'
  <2> USE <1>7 DEF GetbufGetkbEnd
  <2>1. p \in Blk(pc) /\ Holes # {}
    BY DEF Blk
  <2>2. /\ FirstHole \in Slot \ kb
        /\ freel \cap BufsOf(FirstHole) = {}
        /\ inuse \cap BufsOf(FirstHole) = {}
    BY <2>1, HoleIsFresh DEF PoolInv
  <2> DEFINE G == freel \cup BufsOf(FirstHole)
             ct == [freect EXCEPT ![FirstHole] = NetPerKb]
  <2>3. PICK b \in G :
          /\ freel' = G \ {b}
          /\ inuse' = inuse \cup {b}
          /\ freect' = [ct EXCEPT ![MemberOf(b)] = @ - 1]
    OBVIOUS
  <2>4. Counts(G, ct, cntfree + NetPerKb)
    BY <2>1, GetkbEndParts
  <2>5. Counts(freel', freect', (cntfree + NetPerKb) - 1)
    <3> HIDE DEF G, ct
    <3> QED
      BY <2>3, <2>4, CountsTake
  <2>6. (cntfree + NetPerKb) - 1 = cntfree'
    BY KerBufAssumption DEF PoolInv, TypeOK
  <2>7. Conservation'
    <3>1. freel \cup inuse = kb \X (1 .. NetPerKb) /\ freel \cap inuse = {}
      BY DEF PoolInv, Conservation
    <3>2. kb' \X (1 .. NetPerKb) = (kb \X (1 .. NetPerKb)) \cup BufsOf(FirstHole)
      BY DEF BufsOf
    <3> HIDE DEF GetbufGetkbEnd
    <3> QED
      BY <2>2, <2>3, <3>1, <3>2 DEF Conservation
  <2>8. inuse' \subseteq Netbuf
    BY <2>2, <2>3 DEF PoolInv, TypeOK, BufsOf, Netbuf
  <2> QED
    BY <2>1, <2>3, <2>5, <2>6, <2>7, <2>8, GetkbEndParts, PoolInvFromParts
       DEF PoolInv, TypeOK
<1>8. ASSUME NEW b \in Netbuf, Freebuf(b) PROVE PoolInv'
  BY <1>8, FreebufInv
<1>9. CASE UNCHANGED vars
  BY <1>9 DEF vars, PoolInv, TypeOK, Conservation, CountersAgree, InGetblk,
              NoSleeperWhileFree
<1> QED
  BY <1>1, <1>2, <1>3, <1>4, <1>5, <1>6, <1>7, <1>8, <1>9 DEF Next

LEMMA PoolInvInit ==
    Init => PoolInv
<1> SUFFICES ASSUME Init PROVE PoolInv
  OBVIOUS
<1>1. TypeOK
  <2>1. pc \in [Proc -> PcStates]
        /\ \A p \in Proc \ {Daemon} : pc[p] \notin {"open", "openblk"}
    BY DEF Init, PcStates
  <2>2. freect \in [Slot -> 0 .. NetPerKb] /\ alloc \in 0 .. KbHiwat /\ cntfree \in Nat
    BY KerBufAssumption DEF Init
  <2>3. /\ kb \subseteq Slot /\ freel \subseteq Netbuf
        /\ inuse \subseteq Netbuf /\ rathole \subseteq inuse
        /\ need \in BOOLEAN /\ up \in BOOLEAN
    BY DEF Init
  <2> QED
    BY <2>1, <2>2, <2>3 DEF TypeOK
<1>2. Conservation
  BY DEF Init, Conservation
<1>3. CountersAgree
  <2>1. InGetblk = {}
    BY DEF Init, InGetblk
  <2>2. \A s \in Slot : {b \in freel : MemberOf(b) = s} = {}
    BY DEF Init
  <2> QED
    BY <2>1, <2>2, FS_EmptySet DEF Init, CountersAgree
<1>4. NoSleeperWhileFree
  BY DEF Init, NoSleeperWhileFree
<1> QED
  BY <1>1, <1>2, <1>3, <1>4 DEF PoolInv

-----------------------------------------------------------------------------
(* Theorems *)

(* The fields of net_b keep their types; in particular b_alloc never       *)
(* exceeds kb_hiwat and b_freect never exceeds net_b_per_k_b.              *)
THEOREM TypeCorrect == Spec => []TypeOK
BY PoolInvInit, PoolInvStep, PTL DEF Spec, PoolInv

(* getbuf(), freebuf() and freekb() neither lose nor duplicate a network   *)
(* buffer, and freekb() never gives back a kernel buffer in use.           *)
THEOREM BuffersConserved == Spec => []Conservation
BY PoolInvInit, PoolInvStep, PTL DEF Spec, PoolInv

(* b_cntfree, b_freect and b_alloc are exact whenever the IMP priority     *)
(* level is left.                                                          *)
THEOREM CountersExact == Spec => []CountersAgree
BY PoolInvInit, PoolInvStep, PTL DEF Spec, PoolInv

(* No process sleeps on a free list that is not empty.                     *)
THEOREM NoLostWakeup == Spec => []NoSleeperWhileFree
BY PoolInvInit, PoolInvStep, PTL DEF Spec, PoolInv

(* As long as the NCP is not shut down, the panic in getkb() cannot be     *)
(* reached: there is a hole for every process asleep in getblk().          *)
THEOREM PanicUnreachable == Spec => []HoleForEverySleeper
<1>1. PoolInv => HoleForEverySleeper
  <2> SUFFICES ASSUME PoolInv PROVE HoleForEverySleeper
    OBVIOUS
  <2>1. Slot \cap kb = kb
    BY DEF PoolInv, TypeOK
  <2>2. Cardinality(Holes) = KbHiwat - Cardinality(kb)
    BY <2>1, NetbufFinite, FS_Difference, ZenonT(30) DEF Holes
  <2> QED
    BY <2>2, PoolInvParts, KerBufAssumption
       DEF PoolInv, CountersAgree, TypeOK, HoleForEverySleeper
<1> QED
  BY <1>1, PoolInvInit, PoolInvStep, PTL DEF Spec
=============================================================================
