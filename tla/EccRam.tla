-------------------------------- MODULE EccRam --------------------------------
(***************************************************************************)
(* Advanced Synthesis Cookbook/ecc: soft_ecc_ram_8bit, the memory that     *)
(* ecc_generate.cpp wraps in its encoder and decoder, while bits of the    *)
(* memory flip; and, as in ecc_8bit_tb and ecc_2bit_tb, the codes alone,   *)
(* with wrong bits that come one after the other.                          *)
(*                                                                         *)
(* A cell holds the code word and, as history, the word that was given and *)
(* the bits that have flipped.                                             *)
(* The ports have clocks of their own; read is the memory's own register,  *)
(* out the word that leaves the decoder.  The two registers between, of    *)
(* ram_block and MIDDLE_REG, delay a word and change nothing: left out.    *)
(***************************************************************************)
EXTENDS EccCode

CONSTANTS NUM_WORDS,
          PORT_B_ERROR_INJECT,      \* bits of the code inverted at port b; none at port a
          Words,                    \* what the ports are given to write
          UpsetBits, MaxEvents      \* bound on the writes and upsets

ASSUME RamAssumption ==
    /\ NUM_WORDS \in Nat \ {0} /\ Words \subseteq SUBSET (0..7) /\ MaxEvents \in Nat
    /\ PORT_B_ERROR_INJECT \subseteq 0..12 /\ UpsetBits \subseteq 0..12

VARIABLES memory, data_reg, read, out, events,
          bench     \* a code word on trial
ramVars == <<memory, data_reg, read, out, events>>
eccVars == <<ramVars, bench>>

Sides == {"a", "b"}
Addresses == 0..(NUM_WORDS - 1)
Blank == [code |-> encode(8, {}), word |-> {}, flips |-> {}]     \* all zeroes are a word of the code

(* One word of every kind: each bit alone and all of them. *)
Patterns(bits) == {{bit} : bit \in 0..(bits - 1)} \cup {{}, 0..(bits - 1)}
TrialWords == [bits \in Sizes \cup {2} |->
    IF bits \in {2, 8} THEN SUBSET (0..(bits - 1))
    ELSE IF bits = 16 THEN Patterns(16) ELSE {{}, {bits - 1}, 0..(bits - 1)}]
Length(bits) == IF bits = 2 THEN 6 ELSE TOTAL_BITS[bits]
MaxHits(bits) == IF bits \in {32, 64} THEN 2 ELSE 3

EccInit == /\ memory = [addr \in Addresses |-> Blank]
        /\ data_reg = [side \in Sides |-> {}]
        /\ read = [side \in Sides |-> Blank] /\ out = [side \in Sides |-> Blank]
        /\ events = 0
        /\ bench \in UNION {{[bits |-> bits, word |-> word, hits |-> {}] : word \in TrialWords[bits]}
                               : bits \in Sizes \cup {2}}
------------------------------------------------------------------------------
Injected(side) == IF side = "b" THEN PORT_B_ERROR_INJECT ELSE {}

(* Mutant: the register is bypassed. *)
StoredNow(side, word) == word
Stored(side, word) == data_reg[side]

(* A clock of one port.  The word stored is the one that was given a clock *)
(* before its address; the port that writes reads what it has written.     *)
Clock(side, addr, wren, word) ==
    /\ wren => events < MaxEvents
    /\ events' = IF wren THEN events + 1 ELSE events
    /\ data_reg' = [data_reg EXCEPT ![side] = word]
    /\ memory' = IF ~wren THEN memory ELSE
           [memory EXCEPT ![addr] = [code |-> encode(8, Stored(side, word)),
                                     word |-> data_reg[side], flips |-> {}]]
    /\ read' = [read EXCEPT ![side] = memory'[addr]]
    /\ out' = [out EXCEPT ![side] = read[side]]

(* A bit of the memory flips. *)
Upset(addr, bit) ==
    /\ events < MaxEvents /\ events' = events + 1
    /\ memory' = [memory EXCEPT ![addr].code = SymDiff(@, {bit}), ![addr].flips = SymDiff(@, {bit})]
    /\ UNCHANGED <<data_reg, read, out>>

NoTrial == bench.bits = 8 /\ bench.word = {} /\ bench.hits = {}
Ram == /\ NoTrial /\ UNCHANGED bench
       /\ \/ \E side \in Sides, addr \in Addresses, wren \in BOOLEAN, word \in Words :
               Clock(side, addr, wren, word)
          \/ \E addr \in Addresses, bit \in UpsetBits : Upset(addr, bit)

(* A further wrong bit in the code word on trial. *)
Hit == /\ Cardinality(bench.hits) < MaxHits(bench.bits) /\ events = 0 /\ UNCHANGED ramVars
       /\ \E bit \in 0..(Length(bench.bits) - 1) :
            bit \notin bench.hits /\ bench' = [bench EXCEPT !.hits = @ \cup {bit}]

EccNext == Ram \/ Hit
EccSpec == EccInit /\ [][EccNext]_eccVars
------------------------------------------------------------------------------
Received ==
    IF bench.bits = 2 THEN decode2(SymDiff(encode2(bench.word), bench.hits))
    ELSE decode(bench.bits, SymDiff(encode(bench.bits, bench.word), bench.hits))
Flags(answer) == <<answer.no_err, answer.err_corrected, answer.err_fatal>>

(* With at most one wrong bit, in whichever place of a data or check bit,  *)
(* the decoders of every width give back the word and tell the two cases   *)
(* apart, from tables that the programs build separately from the encoder. *)
SingleFixed ==
    Cardinality(bench.hits) <= 1 =>
        /\ Received.d = bench.word
        /\ Flags(Received) = IF bench.hits = {} THEN <<TRUE, FALSE, FALSE>> ELSE <<FALSE, TRUE, FALSE>>

(* Two wrong bits are never taken for fewer and the data is not made       *)
(* worse; three are seen as an error of parity, and taken for one.         *)
MoreSeen ==
    /\ Cardinality(bench.hits) = 2 =>
         /\ Flags(Received) = <<FALSE, FALSE, TRUE>>
         /\ bench.bits # 2 => Cardinality(SymDiff(Received.d, bench.word)) <= 2
    /\ Cardinality(bench.hits) = 3 /\ bench.bits # 2 => Flags(Received) = <<FALSE, TRUE, FALSE>>

(***************************************************************************)
(* Both ports read the word that was last written at the address through   *)
(* either port, as long as the bits that have flipped since, and those the *)
(* port itself inverts, are one or none; at two the reader is told.        *)
(* Nothing writes a corrected word back.                                   *)
(***************************************************************************)
ReadBack == \A side \in Sides :
    LET answer == decode(8, SymDiff(out[side].code, Injected(side)))
        hits == Cardinality(SymDiff(out[side].flips, Injected(side)))
    IN /\ hits <= 1 => answer.d = out[side].word /\ ~answer.err_fatal /\ answer.err_corrected = (hits = 1)
       /\ hits = 2 => answer.err_fatal
=============================================================================
