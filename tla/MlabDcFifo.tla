------------------------------ MODULE MlabDcFifo ------------------------------
(***************************************************************************)
(* The registers of "Advanced Synthesis Cookbook/storage/mlab_dcfifo.v":   *)
(* binary pointers modulo twice the depth, the gray words that cross       *)
(* between the clock domains, the RAM of "mlab_fifo_cells.v" with its      *)
(* write pipeline, and the used-word counts.                               *)
(*                                                                         *)
(* A gray word is a function from bit positions to bits.  When both clocks *)
(* tick at once each bit of the word being sampled settles by itself on    *)
(* the value before or after the edge.  A RAM word that is being written   *)
(* reads as Junk (mixed_port_feed_through_mode = "dont_care"), and so does *)
(* everything the RAM held when the FIFO was last reset.                   *)
(*                                                                         *)
(* The writer sends the numbers 0, 1, 2 ... as mlab_dcfifo_tb.sv does; the *)
(* numbering restarts at a reset and stops at MaxWords.                    *)
(***************************************************************************)
EXTENDS Integers

CONSTANTS RAM_ADDR_WIDTH,  \* 5 in the code
          SYNC_STAGES,     \* 3 in the code
          RequestInReset,  \* may rdreq be high while rdarst is?
          MaxWords         \* bound of the model: words written between resets

ASSUME WidthAssumption == RAM_ADDR_WIDTH \in Nat /\ RAM_ADDR_WIDTH >= 2
ASSUME StagesAssumption == SYNC_STAGES \in Nat \ {0}
ASSUME BoundAssumption == RequestInReset \in BOOLEAN /\ MaxWords \in Nat

VARIABLES
    arst,
    wrfilter, wrbin, wrgray, wrfull, wrgray_rr, wrgray_r, syn0,
    sync_rdptr_bin, wrused,
    we_reg, wraddr_reg, din_reg,       \* mlab_fifo_cells: first input registers
    writing, wraddr2_reg, din2_reg,    \* second ones; the cell is being written
    ram,
    rdfilter, rdbin, rdgray, rdempty, syn1, sync_wrptr_bin, rdused, dout_reg,
    written, read,                     \* history: words accepted, words taken
    delivered                          \* history: dout_reg after the last pop

wrPointers == <<wrbin, wrgray, wrfull, wrgray_rr, wrgray_r, sync_rdptr_bin, wrused>>
wrCells == <<we_reg, wraddr_reg, din_reg, writing, wraddr2_reg, din2_reg, ram>>
wrVars == <<wrfilter, wrPointers, wrCells, written>>
rdPointers == <<rdbin, rdgray, sync_wrptr_bin, rdused>>
rdVars == <<rdfilter, rdPointers, rdempty, dout_reg, read, delivered>>
vars == <<arst, wrVars, syn0, rdVars, syn1>>
------------------------------------------------------------------------------
(* 1 << n *)
Power[n \in Nat] == IF n = 0 THEN 1 ELSE 2 * Power[n - 1]

Depth == Power[RAM_ADDR_WIDTH]
Modulus == 2 * Depth
Bits == 0..RAM_ADDR_WIDTH
Pointer == 0..(Modulus - 1)
GrayWord == [Bits -> {0, 1}]
Stage == 1..SYNC_STAGES
Junk == -1
Data == 0..(MaxWords - 1)

Bit(b, i) == (b \div Power[i]) % 2

(* The bits of a binary pointer (mutant of bin_to_gray: the pointers cross *)
(* the domains uncoded).                                                   *)
bin_uncoded == [b \in Pointer |-> [i \in Bits |-> Bit(b, i)]]

(* (bin >> 1) ^ bin, tabulated. *)
bin_to_gray ==
    [b \in Pointer |-> [i \in Bits |-> (Bit(b, i) + Bit(b, i + 1)) % 2]]

(* From the top bit down, bin[i] = bin[i+1] ^ gray[i]. *)
gray_to_bin ==
    [g \in GrayWord |->
        CHOOSE b \in Pointer :
            /\ bin_uncoded[b][RAM_ADDR_WIDTH] = g[RAM_ADDR_WIDTH]
            /\ \A i \in 0..(RAM_ADDR_WIDTH - 1) :
                  bin_uncoded[b][i] = (bin_uncoded[b][i + 1] + g[i]) % 2]

zero == [i \in Bits |-> 0]
Slot(b) == b % Depth
Inc(b) == (b + 1) % Modulus
Filter(f) == IF arst \/ f = 2 THEN f ELSE f + 1
(* Mutant: the synchronizer never moves. *)
ShiftStuck(syn, g) == syn
Shift(syn, g) == [s \in Stage |-> IF s = 1 THEN g ELSE syn[s - 1]]
Sampled(old, new) == {g \in GrayWord : \A i \in Bits : g[i] \in {old[i], new[i]}}

wrarst == wrfilter < 2
rdarst == rdfilter < 2
sync_rdptr == syn0[SYNC_STAGES]
sync_wrptr == syn1[SYNC_STAGES]

(* Mutant: one top bit inverted. *)
FullMarkTopBit(g) == [i \in Bits |-> IF i = RAM_ADDR_WIDTH THEN 1 - g[i] ELSE g[i]]
(* The gray word of the pointer Depth words further: two top bits inverted. *)
FullMark(g) == [i \in Bits |-> IF i >= RAM_ADDR_WIDTH - 1 THEN 1 - g[i] ELSE g[i]]

wrbin_next(wrreq) == IF ~wrfull /\ wrreq THEN Inc(wrbin) ELSE wrbin
rdbin_next(rdreq) == IF rdreq /\ ~rdempty THEN Inc(rdbin) ELSE rdbin
------------------------------------------------------------------------------
Init ==
    /\ arst \in BOOLEAN
    /\ wrfilter = 0 /\ wrbin = 0 /\ wrgray = zero /\ wrfull = TRUE
    /\ wrgray_rr = zero /\ wrgray_r = zero
    /\ syn0 = [s \in Stage |-> zero] /\ sync_rdptr_bin = 0 /\ wrused = 0
    /\ we_reg = FALSE /\ wraddr_reg = 0 /\ din_reg = Junk
    /\ writing = FALSE /\ wraddr2_reg = 0 /\ din2_reg = Junk
    /\ ram = [a \in 0..(Depth - 1) |-> Junk]
    /\ rdfilter = 0 /\ rdbin = 0 /\ rdgray = zero /\ rdempty = TRUE
    /\ syn1 = [s \in Stage |-> zero] /\ sync_wrptr_bin = 0 /\ rdused = 0
    /\ dout_reg = Junk /\ delivered = Junk
    /\ written = 0 /\ read = 0

(* The write pipeline of the RAM: the word of an accepted request is in    *)
(* din2_reg after the second edge, and in the RAM by the third.            *)
Cells(wrreq) ==
    /\ we_reg' = (wrreq /\ ~wrfull)
    /\ wraddr_reg' = Slot(wrbin)
    /\ din_reg' = IF wrreq /\ ~wrfull THEN written ELSE Junk
    /\ writing' = we_reg
    /\ wraddr2_reg' = wraddr_reg
    /\ din2_reg' = din_reg
    /\ ram' = IF writing THEN [ram EXCEPT ![wraddr2_reg] = din2_reg] ELSE ram

(* An edge of the write clock, except for what it samples into syn0. *)
WrDomain(wrreq) ==
    /\ wrreq => written < MaxWords
    /\ wrfilter' = Filter(wrfilter)
    /\ Cells(wrreq)
    /\ IF wrarst
         THEN UNCHANGED <<wrPointers, written>>
         ELSE /\ wrbin' = wrbin_next(wrreq)
              /\ wrgray' = bin_to_gray[wrbin_next(wrreq)]
              /\ wrfull' = (bin_to_gray[wrbin_next(wrreq)] = FullMark(sync_rdptr))
              /\ wrgray_rr' = wrgray
              /\ wrgray_r' = wrgray_rr
              /\ sync_rdptr_bin' = gray_to_bin[sync_rdptr]
              /\ wrused' = (wrbin - sync_rdptr_bin) % Modulus
              /\ written' = IF wrreq /\ ~wrfull THEN written + 1 ELSE written

(* What the RAM returns for the word at rdbin. *)
RamWord == IF writing /\ wraddr2_reg = Slot(rdbin) THEN Junk ELSE ram[Slot(rdbin)]

(* An edge of the read clock, except for what it samples into syn1. *)
RdDomain(rdreq) ==
    /\ rdfilter' = Filter(rdfilter)
    /\ dout_reg' = RamWord
    /\ rdempty' = (bin_to_gray[rdbin_next(rdreq)] = sync_wrptr)
    /\ IF rdarst
         THEN UNCHANGED <<rdPointers, read, delivered>>
         ELSE /\ rdbin' = rdbin_next(rdreq)
              /\ rdgray' = bin_to_gray[rdbin_next(rdreq)]
              /\ sync_wrptr_bin' = gray_to_bin[sync_wrptr]
              /\ rdused' = (sync_wrptr_bin - rdbin) % Modulus
              /\ IF rdreq /\ ~rdempty
                   THEN read' = read + 1 /\ delivered' = RamWord
                   ELSE UNCHANGED <<read, delivered>>

SampleRead(g) == syn0' = IF wrarst THEN syn0 ELSE Shift(syn0, g)
SampleWrite(g) == syn1' = IF rdarst THEN syn1 ELSE Shift(syn1, g)

ReadRequest == IF rdarst /\ ~RequestInReset THEN {FALSE} ELSE BOOLEAN

WrEdge == /\ \E wrreq \in BOOLEAN : WrDomain(wrreq)
          /\ SampleRead(rdgray)
          /\ UNCHANGED <<arst, rdVars, syn1>>

RdEdge == /\ \E rdreq \in ReadRequest : RdDomain(rdreq)
          /\ SampleWrite(wrgray_r)
          /\ UNCHANGED <<arst, wrVars, syn0>>

BothEdges ==
    /\ \E wrreq \in BOOLEAN : WrDomain(wrreq)
    /\ \E rdreq \in ReadRequest : RdDomain(rdreq)
    /\ \E g \in Sampled(rdgray, rdgray') : SampleRead(g)
    /\ \E g \in Sampled(wrgray_r, wrgray_r') : SampleWrite(g)
    /\ UNCHANGED arst

(* Every register with a reset is cleared at once.  The RAM, its input and *)
(* output registers and rdempty keep their values; what the former hold is *)
(* of no further use, and reads as Junk.                                   *)
AssertReset ==
    /\ ~arst /\ arst' = TRUE
    /\ wrfilter' = 0 /\ wrbin' = 0 /\ wrgray' = zero /\ wrfull' = TRUE
    /\ wrgray_rr' = zero /\ wrgray_r' = zero
    /\ syn0' = [s \in Stage |-> zero] /\ sync_rdptr_bin' = 0 /\ wrused' = 0
    /\ UNCHANGED <<we_reg, wraddr_reg, writing, wraddr2_reg>>
    /\ din_reg' = Junk /\ din2_reg' = Junk
    /\ ram' = [a \in DOMAIN ram |-> Junk]
    /\ rdfilter' = 0 /\ rdbin' = 0 /\ rdgray' = zero /\ UNCHANGED rdempty
    /\ syn1' = [s \in Stage |-> zero] /\ sync_wrptr_bin' = 0 /\ rdused' = 0
    /\ dout_reg' = Junk /\ UNCHANGED delivered
    /\ written' = 0 /\ read' = 0

ReleaseReset == arst /\ arst' = FALSE /\ UNCHANGED <<wrVars, syn0, rdVars, syn1>>

Next == WrEdge \/ RdEdge \/ BothEdges \/ AssertReset \/ ReleaseReset

(* Both clocks keep running, and arst is not held for ever.  An edge that  *)
(* changes nothing is a stuttering step, so that a clock may seem to stop  *)
(* once an edge without a request would change nothing; the requests       *)
(* themselves are never forced.                                            *)
WrQuiet == WrDomain(FALSE) /\ SampleRead(rdgray) /\ UNCHANGED <<arst, rdVars, syn1>>
RdQuiet == RdDomain(FALSE) /\ SampleWrite(wrgray_r) /\ UNCHANGED <<arst, wrVars, syn0>>
Fairness ==
    /\ []<>~ENABLED <<WrQuiet>>_vars \/ []<><<WrEdge \/ BothEdges>>_vars
    /\ []<>~ENABLED <<RdQuiet>>_vars \/ []<><<RdEdge \/ BothEdges>>_vars
    /\ WF_vars(ReleaseReset)

Spec == Init /\ [][Next]_vars /\ Fairness
------------------------------------------------------------------------------
(***************************************************************************)
(* The FIFO keeps the promise of a queue of Depth words: no word lost,     *)
(* repeated, reordered or read before the RAM has it.                      *)
(***************************************************************************)
Queue == INSTANCE BoundedQueue WITH
    Word <- Data, Capacity <- Depth, offered <- written - 1,
    queue <- [i \in 1..(written - read) |-> read + i - 1],
    delivered <- delivered, reset <- arst
RefinesQueue == Queue!Spec

(***************************************************************************)
(* The coding of the pointers is sound: what a synchronizer holds, read as *)
(* the youngest count with that gray code, is a pointer the other domain   *)
(* really had, so that the bits behave as the counts of DualClockFifo.     *)
(***************************************************************************)
Count(g) ==
    LET lag == (written - gray_to_bin[g]) % Modulus IN written - lag
Protocol == INSTANCE DualClockFifo WITH
    wr <- written, rd <- read,
    wrgray_rr <- Count(wrgray_rr), wrgray_r <- Count(wrgray_r),
    syn0 <- [s \in Stage |-> Count(syn0[s])],
    syn1 <- [s \in Stage |-> Count(syn1[s])],
    sync_rdptr_bin <- Count(bin_to_gray[sync_rdptr_bin]),
    sync_wrptr_bin <- Count(bin_to_gray[sync_wrptr_bin])
RefinesProtocol == Protocol!Spec

(* A word written is eventually offered to the reader or reset away, and   *)
(* while nothing waits in the FIFO the writer is eventually let in.        *)
FlagsMove == /\ (written > read) ~> (~rdempty \/ arst)
             /\ (written = read) ~> (~wrfull \/ arst)
=============================================================================
