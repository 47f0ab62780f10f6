---------------------------- MODULE DualClockFifo ----------------------------
(***************************************************************************)
(* The protocol of the dual clock FIFO of                                  *)
(* "Advanced Synthesis Cookbook/storage/mlab_dcfifo.v", above the coding   *)
(* of its pointers: a pointer is the number of words moved since the last  *)
(* reset, where the code keeps that number modulo twice the depth, in      *)
(* binary and in gray code.  MlabDcFifo models the bits and implements     *)
(* this module; DualClockFifo_proof proves its invariants for every depth  *)
(* and every number of synchronizer stages.                                *)
(*                                                                         *)
(* Each domain moves on its own clock: a step is an edge of the write      *)
(* clock, an edge of the read clock, both at once, or a change of arst.    *)
(* A write edge carries wrgray through wrgray_rr to wrgray_r and shifts    *)
(* the read pointer into syn0; a read edge shifts wrgray_r into syn1.      *)
(***************************************************************************)
EXTENDS Integers

CONSTANTS Depth,        \* words in the RAM: 1 << RAM_ADDR_WIDTH
          SYNC_STAGES   \* flip-flops of a domain synchronizer

ASSUME DepthAssumption == Depth \in Nat \ {0}
ASSUME StagesAssumption == SYNC_STAGES \in Nat \ {0}

VARIABLES
    arst,               \* the asynchronous reset
    wrfilter, rdfilter, \* edges seen by each domain since arst was released: 0..2
    wr,                 \* wrbin and wrgray: words written
    wrfull,
    wrgray_rr, wrgray_r,\* the write pointer, one and two write edges later
    syn0,               \* the read pointer on its way into the write domain
    sync_rdptr_bin,     \* the last of them, one write edge later
    wrused,             \* words in the FIFO, as the write domain counts them
    rd,                 \* rdbin and rdgray: words read
    rdempty,
    syn1,               \* the write pointer on its way into the read domain
    sync_wrptr_bin,     \* the last of them, one read edge later
    rdused              \* words in the FIFO, as the read domain counts them

wrPointers == <<wr, wrfull, wrgray_rr, wrgray_r, syn0, sync_rdptr_bin, wrused>>
wrVars == <<wrfilter, wrPointers>>
rdPointers == <<rd, syn1, sync_wrptr_bin, rdused>>
rdVars == <<rdfilter, rdempty, rdPointers>>
vars == <<arst, wrVars, rdVars>>

Stage == 1..SYNC_STAGES
wrarst == wrfilter < 2
rdarst == rdfilter < 2
sync_rdptr == syn0[SYNC_STAGES]
sync_wrptr == syn1[SYNC_STAGES]
Filter(f) == IF arst \/ f = 2 THEN f ELSE f + 1
Shift(syn, p) == [s \in Stage |-> IF s = 1 THEN p ELSE syn[s - 1]]

Init ==
    /\ arst \in BOOLEAN
    /\ wrfilter = 0 /\ wr = 0 /\ wrfull = TRUE
    /\ wrgray_rr = 0 /\ wrgray_r = 0
    /\ syn0 = [s \in Stage |-> 0] /\ sync_rdptr_bin = 0 /\ wrused = 0
    /\ rdfilter = 0 /\ rd = 0 /\ rdempty = TRUE
    /\ syn1 = [s \in Stage |-> 0] /\ sync_wrptr_bin = 0 /\ rdused = 0

(* Mutant: a write request moves the pointer of a full FIFO. *)
wrbin_next_unguarded(wrreq) == IF wrreq THEN wr + 1 ELSE wr
wrbin_next(wrreq) == IF wrreq /\ ~wrfull THEN wr + 1 ELSE wr
rdbin_next(rdreq) == IF rdreq /\ ~rdempty THEN rd + 1 ELSE rd

(* An edge of the write clock that samples p of the read pointer. *)
WrDomain(wrreq, p) ==
    /\ wrfilter' = Filter(wrfilter)
    /\ IF wrarst
         THEN UNCHANGED wrPointers
         ELSE /\ wr' = wrbin_next(wrreq)
              /\ wrfull' = (wrbin_next(wrreq) = sync_rdptr + Depth)
              /\ wrgray_rr' = wr
              /\ wrgray_r' = wrgray_rr
              /\ syn0' = Shift(syn0, p)
              /\ sync_rdptr_bin' = sync_rdptr
              /\ wrused' = wr - sync_rdptr_bin

(* An edge of the read clock that samples p of the write pointer.  rdempty *)
(* alone has no reset: it follows its inputs also while rdarst is high.    *)
RdDomain(rdreq, p) ==
    /\ rdfilter' = Filter(rdfilter)
    /\ rdempty' = (rdbin_next(rdreq) = sync_wrptr)
    /\ IF rdarst
         THEN UNCHANGED rdPointers
         ELSE /\ rd' = rdbin_next(rdreq)
              /\ syn1' = Shift(syn1, p)
              /\ sync_wrptr_bin' = sync_wrptr
              /\ rdused' = sync_wrptr_bin - rd

(* The reader keeps rdreq low while its domain is in reset; rdempty would  *)
(* otherwise survive the reset (MlabDcFifo shows it).                      *)
ReadRequest == IF rdarst THEN {FALSE} ELSE BOOLEAN

WrEdge == /\ \E wrreq \in BOOLEAN : WrDomain(wrreq, rd)
          /\ UNCHANGED <<arst, rdVars>>

RdEdge == /\ \E rdreq \in ReadRequest : RdDomain(rdreq, wrgray_r)
          /\ UNCHANGED <<arst, wrVars>>

(* Both edges at once: a synchronizer settles on the value before the edge *)
(* or on the value after it.                                               *)
BothEdges ==
    /\ \E wrreq \in BOOLEAN, rdreq \in ReadRequest :
         \E p \in {rd, IF rdarst THEN rd ELSE rdbin_next(rdreq)},
            q \in {wrgray_r, IF wrarst THEN wrgray_r ELSE wrgray_rr} :
              WrDomain(wrreq, p) /\ RdDomain(rdreq, q)
    /\ UNCHANGED arst

(* arst clears both filters, and through wrarst and rdarst every pointer,  *)
(* at once; of all the registers rdempty is the one that keeps its value.  *)
AssertReset ==
    /\ ~arst /\ arst' = TRUE
    /\ wrfilter' = 0 /\ wr' = 0 /\ wrfull' = TRUE
    /\ wrgray_rr' = 0 /\ wrgray_r' = 0
    /\ syn0' = [s \in Stage |-> 0] /\ sync_rdptr_bin' = 0 /\ wrused' = 0
    /\ rdfilter' = 0 /\ rd' = 0 /\ UNCHANGED rdempty
    /\ syn1' = [s \in Stage |-> 0] /\ sync_wrptr_bin' = 0 /\ rdused' = 0

ReleaseReset == arst /\ arst' = FALSE /\ UNCHANGED <<wrVars, rdVars>>

Next == WrEdge \/ RdEdge \/ BothEdges \/ AssertReset \/ ReleaseReset

Spec == Init /\ [][Next]_vars
------------------------------------------------------------------------------
TypeOK ==
    /\ arst \in BOOLEAN /\ wrfilter \in 0..2 /\ rdfilter \in 0..2
    /\ wr \in Nat /\ wrgray_rr \in Nat /\ wrgray_r \in Nat /\ rd \in Nat
    /\ syn0 \in [Stage -> Nat] /\ syn1 \in [Stage -> Nat]
    /\ sync_rdptr_bin \in Nat /\ sync_wrptr_bin \in Nat
    /\ wrused \in Int /\ rdused \in Int
    /\ wrfull \in BOOLEAN /\ rdempty \in BOOLEAN

(***************************************************************************)
(* Neither pointer passes the other: a word that has not been read is      *)
(* never overwritten, and no word is read that has not been written, in    *)
(* whatever order the edges of the two clocks and of arst come.            *)
(***************************************************************************)
Occupancy == rd <= wr /\ wr <= rd + Depth

(***************************************************************************)
(* The used-word counts never wrap, and each errs on its safe side but for *)
(* the word its own domain moved at the last edge.                         *)
(***************************************************************************)
UsedWordsSafe ==
    /\ rdused \in 0..Depth /\ rdused <= (wr - rd) + 1
    /\ wrused \in 0..Depth /\ wrused + 1 >= wr - rd

(***************************************************************************)
(* Why: everything one domain knows of the other's pointer is old, and the *)
(* further down the synchronizer the older.  So a flag or a count that is  *)
(* computed from it may be late to allow a move, never to forbid one.      *)
(***************************************************************************)
Older(syn) == \A s, t \in Stage : s <= t => syn[t] <= syn[s]

WritePointersOrdered ==
    /\ wrgray_rr <= wr /\ wrgray_r <= wrgray_rr
    /\ \A s \in Stage : syn1[s] <= wrgray_r
    /\ Older(syn1)
    /\ sync_wrptr_bin <= sync_wrptr

ReadPointersOrdered ==
    /\ \A s \in Stage : syn0[s] <= rd
    /\ Older(syn0)
    /\ sync_rdptr_bin <= sync_rdptr

FlagsLate ==
    /\ rd <= sync_wrptr_bin
    /\ wr <= sync_rdptr_bin + Depth
    /\ ~wrfull => wr < sync_rdptr_bin + Depth
    /\ ~rdempty /\ ~rdarst => rd < sync_wrptr_bin

CountsLate ==
    /\ rdused \in 0..Depth /\ rdused + rd <= sync_wrptr_bin + 1
    /\ wrused \in 0..Depth /\ wrused + 1 + sync_rdptr_bin >= wr

InReset ==
    /\ arst => wrfilter = 0 /\ rdfilter = 0
    /\ wrarst => wr = 0 /\ wrfull
    /\ rdarst => /\ rd = 0 /\ sync_wrptr_bin = 0 /\ rdused = 0
                 /\ \A s \in Stage : syn1[s] = 0
    /\ rdfilter = 1 => rdempty

Inv == /\ WritePointersOrdered
       /\ ReadPointersOrdered
       /\ FlagsLate
       /\ CountsLate
       /\ InReset
=============================================================================
