------------------------- MODULE DualClockFifo_proof -------------------------
(***************************************************************************)
(* TLAPS proofs about DualClockFifo, for every Depth and every number of   *)
(* synchronizer stages: its types, and that Inv is inductive and implies   *)
(* Occupancy and UsedWordsSafe.                                            *)
(***************************************************************************)
EXTENDS DualClockFifo, TLAPS

(* The two ends of a synchronizer are stages of it. *)
LEMMA StageFacts == /\ 1 \in Stage
                    /\ SYNC_STAGES \in Stage
                    /\ \A s \in Stage : s \in Nat /\ 1 <= s /\ s <= SYNC_STAGES
                    /\ \A s \in Stage : s # 1 => s - 1 \in Stage
BY StagesAssumption DEF Stage

(* Shifting a pointer that is not older than any held into a synchronizer  *)
(* keeps it ordered, and moves no stage backwards.                         *)
LEMMA ShiftOrdered ==
    ASSUME NEW syn \in [Stage -> Nat], NEW p \in Nat,
           Older(syn), \A s \in Stage : syn[s] <= p
    PROVE  /\ Shift(syn, p) \in [Stage -> Nat]
           /\ Older(Shift(syn, p))
           /\ \A s \in Stage : /\ Shift(syn, p)[s] <= p
                               /\ syn[s] <= Shift(syn, p)[s]
<1>1. Shift(syn, p) \in [Stage -> Nat]
  BY StageFacts DEF Shift
<1>2. \A s \in Stage : Shift(syn, p)[s] = IF s = 1 THEN p ELSE syn[s - 1]
  BY DEF Shift
<1>3. ASSUME NEW s \in Stage, NEW t \in Stage, s <= t
      PROVE  Shift(syn, p)[t] <= Shift(syn, p)[s]
  <2>1. CASE s = 1
    <3>1. CASE t = 1
      BY <1>2, <2>1, <3>1
    <3>2. CASE t # 1
      BY <1>2, <2>1, <3>2, StageFacts
    <3> QED BY <3>1, <3>2
  <2>2. CASE s # 1
    <3>1. t # 1 /\ s - 1 \in Stage /\ t - 1 \in Stage /\ s - 1 <= t - 1
      BY <1>3, <2>2, StageFacts
    <3> QED BY <1>2, <2>2, <3>1 DEF Older
  <2> QED BY <2>1, <2>2
<1>4. ASSUME NEW s \in Stage
      PROVE  Shift(syn, p)[s] <= p /\ syn[s] <= Shift(syn, p)[s]
  <2>1. CASE s = 1
    BY <1>2, <2>1
  <2>2. CASE s # 1
    <3>1. s - 1 \in Stage /\ s - 1 <= s
      BY <2>2, StageFacts
    <3> QED BY <1>2, <2>2, <3>1 DEF Older
  <2> QED BY <2>1, <2>2
<1> QED BY <1>1, <1>3, <1>4 DEF Older
------------------------------------------------------------------------------
(* Every register holds a value of its type. *)
LEMMA TypeInit == Init => TypeOK
BY DEF Init, TypeOK

LEMMA TypeWrDomain ==
    ASSUME TypeOK, NEW wrreq \in BOOLEAN, NEW p \in Nat, WrDomain(wrreq, p)
    PROVE  /\ wrfilter' \in 0..2 /\ wr' \in Nat
           /\ wrgray_rr' \in Nat /\ wrgray_r' \in Nat
           /\ syn0' \in [Stage -> Nat] /\ sync_rdptr_bin' \in Nat
           /\ wrused' \in Int /\ wrfull' \in BOOLEAN
<1>1. wrfilter' \in 0..2
  BY DEF WrDomain, TypeOK, Filter
<1>2. CASE wrarst
  BY <1>1, <1>2 DEF WrDomain, TypeOK, wrPointers
<1>3. CASE ~wrarst
  <2>1. wr' \in Nat /\ wrused' \in Int /\ wrgray_rr' \in Nat /\ wrgray_r' \in Nat
    BY <1>3 DEF WrDomain, TypeOK, wrbin_next
  <2>2. syn0' \in [Stage -> Nat] /\ sync_rdptr_bin' \in Nat
    BY <1>3, StageFacts DEF WrDomain, TypeOK, Shift, sync_rdptr
  <2>3. wrfull' \in BOOLEAN
    BY <1>3 DEF WrDomain
  <2> QED BY <1>1, <2>1, <2>2, <2>3
<1> QED BY <1>2, <1>3

LEMMA TypeRdDomain ==
    ASSUME TypeOK, NEW rdreq \in BOOLEAN, NEW p \in Nat, RdDomain(rdreq, p)
    PROVE  /\ rdfilter' \in 0..2 /\ rd' \in Nat
           /\ syn1' \in [Stage -> Nat] /\ sync_wrptr_bin' \in Nat
           /\ rdused' \in Int /\ rdempty' \in BOOLEAN
<1>1. rdfilter' \in 0..2 /\ rdempty' \in BOOLEAN
  BY DEF RdDomain, TypeOK, Filter
<1>2. CASE rdarst
  BY <1>1, <1>2 DEF RdDomain, TypeOK, rdPointers
<1>3. CASE ~rdarst
  <2>1. rd' \in Nat /\ rdused' \in Int
    BY <1>3 DEF RdDomain, TypeOK, rdbin_next
  <2>2. syn1' \in [Stage -> Nat] /\ sync_wrptr_bin' \in Nat
    BY <1>3, StageFacts DEF RdDomain, TypeOK, Shift, sync_wrptr
  <2> QED BY <1>1, <2>1, <2>2
<1> QED BY <1>2, <1>3

(* What a simultaneous edge may sample is a pointer. *)
LEMMA BothSamples ==
    ASSUME TypeOK, NEW rdreq \in BOOLEAN
    PROVE  /\ {rd, IF rdarst THEN rd ELSE rdbin_next(rdreq)} \subseteq Nat
           /\ {wrgray_r, IF wrarst THEN wrgray_r ELSE wrgray_rr} \subseteq Nat
           /\ ReadRequest \subseteq BOOLEAN
<1>1. rd \in Nat /\ rdbin_next(rdreq) \in Nat
  BY DEF TypeOK, rdbin_next
<1>2. wrgray_r \in Nat /\ wrgray_rr \in Nat
  BY DEF TypeOK
<1>3. ReadRequest \subseteq BOOLEAN
  BY DEF ReadRequest
<1> QED BY <1>1, <1>2, <1>3

LEMMA TypeNext == TypeOK /\ [Next]_vars => TypeOK'
<1> SUFFICES ASSUME TypeOK, [Next]_vars PROVE TypeOK'
  OBVIOUS
<1>1. CASE WrEdge
  <2>1. PICK wrreq \in BOOLEAN : WrDomain(wrreq, rd)
    BY <1>1 DEF WrEdge
  <2>2. rd \in Nat
    BY DEF TypeOK
  <2> QED BY <1>1, <2>1, <2>2, TypeWrDomain DEF WrEdge, TypeOK, rdVars, rdPointers
<1>2. CASE RdEdge
  <2>1. PICK rdreq \in BOOLEAN : RdDomain(rdreq, wrgray_r)
    BY <1>2 DEF RdEdge, ReadRequest
  <2>2. wrgray_r \in Nat
    BY DEF TypeOK
  <2> QED BY <1>2, <2>1, <2>2, TypeRdDomain DEF RdEdge, TypeOK, wrVars, wrPointers
<1>3. CASE BothEdges
  <2>1. PICK wrreq \in BOOLEAN, rdreq \in BOOLEAN, p \in Nat, q \in Nat :
               WrDomain(wrreq, p) /\ RdDomain(rdreq, q)
    BY <1>3, BothSamples DEF BothEdges
  <2> QED BY <1>3, <2>1, TypeWrDomain, TypeRdDomain DEF BothEdges, TypeOK
<1>4. CASE AssertReset
  BY <1>4 DEF AssertReset, TypeOK
<1>5. CASE ReleaseReset
  BY <1>5 DEF ReleaseReset, TypeOK, wrVars, rdVars, wrPointers, rdPointers
<1>6. CASE UNCHANGED vars
  BY <1>6 DEF TypeOK, vars, wrVars, rdVars, wrPointers, rdPointers
<1> QED BY <1>1, <1>2, <1>3, <1>4, <1>5, <1>6 DEF Next

(* The registers of DualClockFifo keep their types for ever. *)
THEOREM TypeCorrect == Spec => []TypeOK
<1> QED BY TypeInit, TypeNext, PTL DEF Spec
------------------------------------------------------------------------------
LEMMA InvInit == Init => Inv
BY DepthAssumption, StageFacts
DEF Init, Inv, WritePointersOrdered, ReadPointersOrdered, FlagsLate, CountsLate,
    InReset, Older, sync_rdptr, sync_wrptr, wrarst, rdarst

(* Every pointer is at least as old as the one it is sampled from. *)
LEMMA PointerFacts ==
    ASSUME TypeOK, Inv
    PROVE  /\ sync_rdptr_bin <= sync_rdptr /\ sync_rdptr <= rd
           /\ rd <= sync_wrptr_bin /\ sync_wrptr_bin <= sync_wrptr
           /\ sync_wrptr <= wr /\ wr <= sync_rdptr_bin + Depth
           /\ sync_rdptr \in Nat /\ sync_wrptr \in Nat /\ Depth \in Nat \ {0}
<1>1. sync_rdptr \in Nat /\ sync_wrptr \in Nat /\ Depth \in Nat \ {0}
  BY StageFacts, DepthAssumption DEF TypeOK, sync_rdptr, sync_wrptr
<1>2. sync_rdptr <= rd /\ sync_wrptr <= wrgray_r
  BY StageFacts DEF Inv, ReadPointersOrdered, WritePointersOrdered, sync_rdptr, sync_wrptr
<1>3. wrgray_r <= wr
  BY DEF TypeOK, Inv, WritePointersOrdered
<1>4. wr \in Nat /\ wrgray_r \in Nat
  BY DEF TypeOK
<1>5. sync_wrptr <= wr
  BY <1>1, <1>2, <1>3, <1>4
<1> QED BY <1>1, <1>2, <1>5 DEF Inv, ReadPointersOrdered, WritePointersOrdered, FlagsLate

(* What an edge of the write clock leaves true of the write domain. *)
LEMMA WrDomainInv ==
    ASSUME TypeOK, Inv, NEW wrreq \in BOOLEAN, NEW p \in Nat,
           \A s \in Stage : syn0[s] <= p, WrDomain(wrreq, p)
    PROVE  /\ wr <= wr' /\ wrgray_rr' <= wr' /\ wrgray_r' <= wrgray_rr'
           /\ wrgray_r <= wrgray_r'
           /\ \A s \in Stage : syn0'[s] <= p
           /\ Older(syn0)' /\ sync_rdptr_bin' <= sync_rdptr'
           /\ wr' <= sync_rdptr_bin' + Depth
           /\ ~wrfull' => wr' < sync_rdptr_bin' + Depth
           /\ wrused' \in 0..Depth /\ wrused' + 1 + sync_rdptr_bin' >= wr'
           /\ arst => wrfilter' = 0
           /\ wrarst' => wr' = 0 /\ wrfull'
<1>0. /\ wr \in Nat /\ wrgray_rr \in Nat /\ wrgray_r \in Nat /\ rd \in Nat
      /\ syn0 \in [Stage -> Nat] /\ sync_rdptr_bin \in Nat /\ sync_wrptr_bin \in Nat
      /\ wrused \in Int /\ wrfilter \in 0..2
  BY DEF TypeOK
<1>1. (arst => wrfilter' = 0) /\ (wrarst' => wrarst)
  BY <1>0 DEF WrDomain, Filter, Inv, InReset, wrarst
<1>2. CASE wrarst
  <2>1. UNCHANGED wrPointers
    BY <1>2 DEF WrDomain
  <2> QED BY <1>0, <1>1, <1>2, <2>1
          DEF wrPointers, Inv, WritePointersOrdered, ReadPointersOrdered, FlagsLate,
              CountsLate, InReset, Older, sync_rdptr
<1>3. CASE ~wrarst
  <2>1. /\ wr' = wrbin_next(wrreq)
        /\ wrfull' = (wrbin_next(wrreq) = sync_rdptr + Depth)
        /\ wrgray_rr' = wr /\ wrgray_r' = wrgray_rr
        /\ syn0' = Shift(syn0, p) /\ sync_rdptr_bin' = sync_rdptr
        /\ wrused' = wr - sync_rdptr_bin
    BY <1>3 DEF WrDomain
  <2>2. /\ Older(syn0') /\ \A s \in Stage : syn0'[s] <= p
        /\ sync_rdptr <= syn0'[SYNC_STAGES]
    <3>1. Older(syn0)
      BY DEF Inv, ReadPointersOrdered
    <3> QED BY <1>0, <2>1, <3>1, ShiftOrdered, StageFacts DEF sync_rdptr
  <2>3. wr <= wr' /\ wr' <= wr + 1 /\ wr' \in Nat
    BY <1>0, <2>1 DEF wrbin_next
  <2>4. wr' <= sync_rdptr + Depth
    <3>1. wrfull \/ wr < sync_rdptr_bin + Depth
      BY DEF Inv, FlagsLate
    <3> QED BY <1>0, <2>1, <3>1, PointerFacts DEF wrbin_next
  <2>5. ~wrfull' => wr' < sync_rdptr + Depth
    <3>1. ~wrfull' => wr' # sync_rdptr + Depth
      BY <2>1, Zenon
    <3> QED BY <2>3, <2>4, <3>1, PointerFacts
  <2>6. wrused' \in 0..Depth /\ wrused' + 1 + sync_rdptr >= wr'
    BY <1>0, <2>1, <2>3, PointerFacts
  <2>7. wrgray_rr' <= wr' /\ wrgray_r' <= wrgray_rr' /\ wrgray_r <= wrgray_r'
    BY <2>1, <2>3 DEF Inv, WritePointersOrdered
  <2> QED BY <1>1, <1>3, <2>1, <2>2, <2>3, <2>4, <2>5, <2>6, <2>7 DEF sync_rdptr, Older
<1> QED BY <1>2, <1>3

(* What an edge of the read clock leaves true of the read domain. *)
LEMMA RdDomainInv ==
    ASSUME TypeOK, Inv, NEW rdreq \in ReadRequest, NEW q \in Nat,
           \A s \in Stage : syn1[s] <= q, RdDomain(rdreq, q)
    PROVE  /\ rd <= rd'
           /\ rd' = IF rdarst THEN rd ELSE rdbin_next(rdreq)
           /\ \A s \in Stage : syn1'[s] <= q
           /\ Older(syn1)' /\ sync_wrptr_bin' <= sync_wrptr'
           /\ rd' <= sync_wrptr_bin'
           /\ ~rdempty' /\ ~rdarst' => rd' < sync_wrptr_bin'
           /\ rdused' \in 0..Depth /\ rdused' + rd' <= sync_wrptr_bin' + 1
           /\ arst => rdfilter' = 0
           /\ rdarst' => /\ rd' = 0 /\ sync_wrptr_bin' = 0 /\ rdused' = 0
                         /\ \A s \in Stage : syn1'[s] = 0
           /\ rdfilter' = 1 => rdempty'
<1>0. /\ wr \in Nat /\ rd \in Nat /\ syn1 \in [Stage -> Nat]
      /\ sync_rdptr_bin \in Nat /\ sync_wrptr_bin \in Nat
      /\ rdused \in Int /\ rdfilter \in 0..2 /\ rdempty \in BOOLEAN
  BY DEF TypeOK
<1>1. (arst => rdfilter' = 0) /\ (rdarst' => rdarst) /\ (rdfilter' = 1 => rdarst)
  BY <1>0 DEF RdDomain, Filter, Inv, InReset, rdarst
<1>2. CASE rdarst
  <2>1. UNCHANGED rdPointers
    BY <1>2 DEF RdDomain
  <2>2. rd = 0 /\ sync_wrptr = 0 /\ rdreq = FALSE
    BY <1>2, StageFacts DEF Inv, InReset, sync_wrptr, ReadRequest
  <2>3. rdempty'
    BY <2>2 DEF RdDomain, rdbin_next
  <2> QED BY <1>0, <1>1, <1>2, <2>1, <2>3
          DEF rdPointers, Inv, WritePointersOrdered, FlagsLate, CountsLate, InReset,
              Older, sync_wrptr
<1>3. CASE ~rdarst
  <2>1. /\ rd' = rdbin_next(rdreq)
        /\ rdempty' = (rdbin_next(rdreq) = sync_wrptr)
        /\ syn1' = Shift(syn1, q) /\ sync_wrptr_bin' = sync_wrptr
        /\ rdused' = sync_wrptr_bin - rd
    BY <1>3 DEF RdDomain
  <2>2. /\ Older(syn1') /\ \A s \in Stage : syn1'[s] <= q
        /\ sync_wrptr <= syn1'[SYNC_STAGES]
    <3>1. Older(syn1)
      BY DEF Inv, WritePointersOrdered
    <3> QED BY <1>0, <2>1, <3>1, ShiftOrdered, StageFacts DEF sync_wrptr
  <2>3. rd <= rd' /\ rd' <= rd + 1 /\ rd' \in Nat
    BY <1>0, <2>1 DEF rdbin_next
  <2>4. rd' <= sync_wrptr
    <3>1. rdempty \/ rd < sync_wrptr_bin
      BY <1>3 DEF Inv, FlagsLate
    <3> QED BY <1>0, <2>1, <3>1, PointerFacts DEF rdbin_next
  <2>5. ~rdempty' => rd' < sync_wrptr
    <3>1. ~rdempty' => rd' # sync_wrptr
      BY <2>1, Zenon
    <3> QED BY <2>3, <2>4, <3>1, PointerFacts
  <2>6. rdused' \in 0..Depth /\ rdused' + rd' <= sync_wrptr + 1
    BY <1>0, <2>1, <2>3, PointerFacts
  <2> QED BY <1>1, <1>3, <2>1, <2>2, <2>3, <2>4, <2>5, <2>6 DEF sync_wrptr, Older
<1> QED BY <1>2, <1>3

LEMMA InvNext == TypeOK /\ Inv /\ [Next]_vars => Inv'
<1> SUFFICES ASSUME TypeOK, Inv, [Next]_vars PROVE Inv'
  OBVIOUS
<1> USE DEF Inv
<1>0. /\ wr \in Nat /\ wrgray_rr \in Nat /\ wrgray_r \in Nat /\ rd \in Nat
      /\ syn0 \in [Stage -> Nat] /\ syn1 \in [Stage -> Nat]
      /\ \A s \in Stage : syn0[s] <= rd
      /\ \A s \in Stage : syn1[s] <= wrgray_r
  BY DEF TypeOK, ReadPointersOrdered, WritePointersOrdered
<1>a. TypeOK'
  BY TypeNext
<1>1. CASE WrEdge
  <2>1. PICK wrreq \in BOOLEAN : WrDomain(wrreq, rd)
    BY <1>1 DEF WrEdge
  <2>2. UNCHANGED <<arst, rdfilter, rdempty, rd, syn1, sync_wrptr_bin, rdused>>
    BY <1>1 DEF WrEdge, rdVars, rdPointers
  <2>3. WritePointersOrdered'
    <3>1. \A s \in Stage : syn1'[s] <= wrgray_r'
      <4>1. wrgray_r' \in Nat /\ wrgray_r <= wrgray_r' /\ syn1' = syn1
        BY <1>0, <1>a, <2>1, <2>2, WrDomainInv DEF TypeOK
      <4> QED BY <1>0, <4>1
    <3>2. Older(syn1)' /\ sync_wrptr_bin' <= sync_wrptr'
      BY <2>2 DEF WritePointersOrdered, Older, sync_wrptr
    <3> QED BY <1>0, <2>1, <3>1, <3>2, WrDomainInv DEF WritePointersOrdered
  <2>4. ReadPointersOrdered'
    BY <1>0, <2>1, <2>2, WrDomainInv DEF ReadPointersOrdered
  <2>5. FlagsLate'
    BY <1>0, <2>1, <2>2, WrDomainInv DEF FlagsLate, rdarst
  <2>6. CountsLate'
    BY <1>0, <2>1, <2>2, WrDomainInv DEF CountsLate
  <2>7. InReset'
    BY <1>0, <2>1, <2>2, WrDomainInv DEF InReset, rdarst
  <2> QED BY <2>3, <2>4, <2>5, <2>6, <2>7
<1>2. CASE RdEdge
  <2>1. PICK rdreq \in ReadRequest : RdDomain(rdreq, wrgray_r)
    BY <1>2 DEF RdEdge
  <2>2. UNCHANGED <<arst, wrfilter, wr, wrfull, wrgray_rr, wrgray_r, syn0, sync_rdptr_bin, wrused>>
    BY <1>2 DEF RdEdge, wrVars, wrPointers
  <2>3. WritePointersOrdered'
    BY <1>0, <2>1, <2>2, RdDomainInv DEF WritePointersOrdered
  <2>4. ReadPointersOrdered'
    <3>1. \A s \in Stage : syn0'[s] <= rd'
      <4>1. rd' \in Nat /\ rd <= rd' /\ syn0' = syn0
        BY <1>0, <1>a, <2>1, <2>2, RdDomainInv DEF TypeOK
      <4> QED BY <1>0, <4>1
    <3>2. Older(syn0)' /\ sync_rdptr_bin' <= sync_rdptr'
      BY <2>2 DEF ReadPointersOrdered, Older, sync_rdptr
    <3> QED BY <3>1, <3>2 DEF ReadPointersOrdered
  <2>5. FlagsLate'
    BY <1>0, <2>1, <2>2, RdDomainInv DEF FlagsLate
  <2>6. CountsLate'
    BY <1>0, <2>1, <2>2, RdDomainInv DEF CountsLate
  <2>7. InReset'
    BY <1>0, <2>1, <2>2, RdDomainInv DEF InReset, wrarst
  <2> QED BY <2>3, <2>4, <2>5, <2>6, <2>7
<1>3. CASE BothEdges
  <2>0. PICK wrreq \in BOOLEAN, rdreq \in ReadRequest :
               \E p \in {rd, IF rdarst THEN rd ELSE rdbin_next(rdreq)},
                  q \in {wrgray_r, IF wrarst THEN wrgray_r ELSE wrgray_rr} :
                    WrDomain(wrreq, p) /\ RdDomain(rdreq, q)
    BY <1>3 DEF BothEdges
  <2>1. PICK p \in {rd, IF rdarst THEN rd ELSE rdbin_next(rdreq)},
             q \in {wrgray_r, IF wrarst THEN wrgray_r ELSE wrgray_rr} :
               WrDomain(wrreq, p) /\ RdDomain(rdreq, q)
    BY <2>0
  <2>2. arst' = arst
    BY <1>3 DEF BothEdges
  <2>3. rdreq \in BOOLEAN /\ p \in Nat /\ q \in Nat
    BY BothSamples
  <2>4. rd <= p /\ wrgray_r <= q
    BY <1>0, <2>1 DEF rdbin_next, WritePointersOrdered
  <2>5. /\ \A s \in Stage : syn0[s] <= p
        /\ \A s \in Stage : syn1[s] <= q
    BY <1>0, <2>3, <2>4
  <2>6. q <= wrgray_r'
    <3>1. wrgray_r' = IF wrarst THEN wrgray_r ELSE wrgray_rr
      BY <2>1 DEF WrDomain, wrPointers
    <3> QED BY <1>0, <2>1, <3>1 DEF WritePointersOrdered
  <2>7. p <= rd'
    <3>1. rd <= rd' /\ rd' = IF rdarst THEN rd ELSE rdbin_next(rdreq)
      BY <2>1, <2>3, <2>5, RdDomainInv
    <3>2. rd' \in Nat
      BY <1>a DEF TypeOK
    <3> QED BY <1>0, <2>1, <3>1, <3>2
  <2>8. WritePointersOrdered'
    <3>1. \A s \in Stage : syn1'[s] <= wrgray_r'
      <4>1. /\ \A s \in Stage : syn1'[s] <= q
            /\ wrgray_r' \in Nat /\ \A s \in Stage : syn1'[s] \in Nat
        BY <1>a, <2>1, <2>3, <2>5, RdDomainInv DEF TypeOK
      <4> QED BY <2>3, <2>6, <4>1
    <3> QED BY <2>1, <2>3, <2>5, <3>1, WrDomainInv, RdDomainInv DEF WritePointersOrdered
  <2>9. ReadPointersOrdered'
    <3>1. \A s \in Stage : syn0'[s] <= rd'
      <4>1. /\ \A s \in Stage : syn0'[s] <= p
            /\ rd' \in Nat /\ \A s \in Stage : syn0'[s] \in Nat
        BY <1>a, <2>1, <2>3, <2>5, WrDomainInv DEF TypeOK
      <4> QED BY <2>3, <2>7, <4>1
    <3> QED BY <2>1, <2>3, <2>5, <3>1, WrDomainInv, RdDomainInv DEF ReadPointersOrdered
  <2>10. FlagsLate'
    BY <2>1, <2>3, <2>5, WrDomainInv, RdDomainInv DEF FlagsLate
  <2>11. CountsLate'
    BY <2>1, <2>3, <2>5, WrDomainInv, RdDomainInv DEF CountsLate
  <2>12. InReset'
    BY <2>1, <2>2, <2>3, <2>5, WrDomainInv, RdDomainInv DEF InReset
  <2> QED BY <2>8, <2>9, <2>10, <2>11, <2>12
<1>4. CASE AssertReset
  BY <1>4, DepthAssumption, StageFacts
  DEF AssertReset, WritePointersOrdered, ReadPointersOrdered, FlagsLate, CountsLate,
      InReset, Older, sync_rdptr, sync_wrptr, wrarst, rdarst
<1>5. CASE ReleaseReset
  BY <1>5
  DEF ReleaseReset, wrVars, rdVars, wrPointers, rdPointers, WritePointersOrdered,
      ReadPointersOrdered, FlagsLate, CountsLate, InReset, Older, sync_rdptr, sync_wrptr,
      wrarst, rdarst
<1>6. CASE UNCHANGED vars
  BY <1>6
  DEF vars, wrVars, rdVars, wrPointers, rdPointers, WritePointersOrdered,
      ReadPointersOrdered, FlagsLate, CountsLate, InReset, Older, sync_rdptr, sync_wrptr,
      wrarst, rdarst
<1> QED BY <1>1, <1>2, <1>3, <1>4, <1>5, <1>6 DEF Next

(* Inv is an inductive invariant relative to the types. *)
THEOREM InvCorrect == Spec => []Inv
<1> QED BY TypeInit, TypeNext, InvInit, InvNext, PTL DEF Spec

(* Neither pointer ever passes the other, for every depth and every number *)
(* of synchronizer stages, under every interleaving of the clocks.         *)
THEOREM OccupancyCorrect == Spec => []Occupancy
<1>1. TypeOK /\ Inv => Occupancy
  <2> SUFFICES ASSUME TypeOK, Inv PROVE Occupancy
    OBVIOUS
  <2>1. wr \in Nat /\ rd \in Nat /\ sync_rdptr_bin \in Nat /\ sync_wrptr_bin \in Nat
    BY DEF TypeOK
  <2> QED BY <2>1, PointerFacts DEF Occupancy
<1> QED BY <1>1, TypeCorrect, InvCorrect, PTL

(* The used-word counts never wrap and err on the safe side. *)
THEOREM UsedWordsCorrect == Spec => []UsedWordsSafe
<1>1. TypeOK /\ Inv => UsedWordsSafe
  <2> SUFFICES ASSUME TypeOK, Inv PROVE UsedWordsSafe
    OBVIOUS
  <2>1. /\ wr \in Nat /\ rd \in Nat /\ sync_rdptr_bin \in Nat /\ sync_wrptr_bin \in Nat
        /\ wrused \in Int /\ rdused \in Int
    BY DEF TypeOK
  <2>2. /\ rdused \in 0..Depth /\ rdused + rd <= sync_wrptr_bin + 1
        /\ wrused \in 0..Depth /\ wrused + 1 + sync_rdptr_bin >= wr
    BY DEF Inv, CountsLate
  <2> QED BY <2>1, <2>2, PointerFacts DEF UsedWordsSafe
<1> QED BY <1>1, TypeCorrect, InvCorrect, PTL
=============================================================================
