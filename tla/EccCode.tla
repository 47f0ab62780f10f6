------------------------------- MODULE EccCode -------------------------------
(***************************************************************************)
(* Advanced Synthesis Cookbook/ecc: what ecc_generate.cpp prints for       *)
(* DATA_BITS of 8, 16, 32 and 64 (ecc_matrix_8bit.v and its siblings) and  *)
(* what ecc_2bit.cpp prints: an encoder, and a decoder that corrects one   *)
(* wrong bit and reports two.  A word is the set of its bits that are 1.   *)
(***************************************************************************)
EXTENDS Integers, Sequences, SequencesExt, FiniteSets, FiniteSetsExt

Sizes == {8, 16, 32, 64}
SYN_BITS == [bits \in Sizes |-> CASE bits = 8 -> 5 [] bits = 16 -> 6 [] bits = 32 -> 7 [] bits = 64 -> 8]
TOTAL_BITS == [bits \in Sizes |-> bits + SYN_BITS[bits]]

Two == [place \in 0..7 |-> <<1, 2, 4, 8, 16, 32, 64, 128>>[place + 1]]     \* 1 << place
Odd(set) == Cardinality(set) % 2 = 1
BitOf(val, place) == (val \div Two[place]) % 2 = 1
BitsOf(val) == {place \in 0..6 : BitOf(val, place)}
Ascending(set) == [rank \in 1..Cardinality(set) |->
                      CHOOSE val \in set : Cardinality({less \in set : less < val}) = rank - 1]

(* The table of the program, checked row by row against this rule: the row *)
(* of a data bit has a 1 in the column of its place in the code word, and  *)
(* in those of the check bits that cover the place, the powers of two.     *)
Places == Ascending((1..71) \ {Two[place] : place \in 0..6})
matrix == [bit \in 0..63 |->
    {Places[bit + 1] - 1} \cup {Two[place] - 1 : place \in BitsOf(Places[bit + 1])}]

(* XORs of many terms are trees of helpers with six terms each. *)
lutsize == 6
Helpers(terms) ==
    LET order == Ascending(terms) IN
    {{order[at] : at \in {k \in 1..Len(order) : (k - 1) \div lutsize = helper}}
        : helper \in 0..(Len(order) \div lutsize)}
Xor(helpers, inputs) == Odd({terms \in helpers : Odd(terms \cap inputs)})

(* "the MSB of the code is the parity of the other code outs": its column  *)
(* is filled in from the others.                                           *)
Column(bits, col) ==
    IF col < TOTAL_BITS[bits] - 1
      THEN {bit \in 0..(bits - 1) : col \in matrix[bit]}
      ELSE {bit \in 0..(bits - 1) : Odd(matrix[bit] \cap (0..(TOTAL_BITS[bits] - 2)))}
EncodeTerms == [bits \in Sizes |->
    [col \in 0..(TOTAL_BITS[bits] - 1) |-> Helpers(Column(bits, col))]]
encode(bits, word) == {col \in 0..(TOTAL_BITS[bits] - 1) : Xor(EncodeTerms[bits][col], word)}
------------------------------------------------------------------------------
(* "the hamming distance matrix, which is a slightly odd counter". *)
matrix_h(bits, col) == Two[SYN_BITS[bits] - 1] + (IF col = TOTAL_BITS[bits] - 1 THEN 0 ELSE col + 1)
SyndromeTerms == [bits \in Sizes |->
    [place \in 0..(SYN_BITS[bits] - 1) |->
        Helpers({col \in 0..(TOTAL_BITS[bits] - 1) : BitOf(matrix_h(bits, col), place)})]]
syndrome(bits, code) == {place \in 0..(SYN_BITS[bits] - 1) : Xor(SyndromeTerms[bits][place], code)}

(* Mutant: the ranges take in the check bits. *)
bit_syndromeFull == [bits \in Sizes |-> Ascending(3..(TOTAL_BITS[bits] - 1))]
(* The syndromes that point to data bits, in ranges between the powers. *)
bit_syndrome == [bits \in Sizes |-> Ascending(UNION
    {(Two[place] + 1)..(IF place = SYN_BITS[bits] - 2 THEN TOTAL_BITS[bits] - 1
                        ELSE Two[place + 1] - 1) : place \in 1..(SYN_BITS[bits] - 2)})]

(* Mutant: a double error is corrected as well. *)
errFlipAlways(bits, syn) ==
    {bit \in 0..(bits - 1) : BitsOf(bit_syndrome[bits][bit + 1]) = syn \ {SYN_BITS[bits] - 1}}
(* The syndrome without its parity is the number of a place.  The decoder  *)
(* for 64 bits is split at s[6], see fatal_s6_hot and _cold.               *)
err_flip(bits, syn) ==
    LET parity == SYN_BITS[bits] - 1 \in syn
        at == [bit \in 0..(bits - 1) |-> BitsOf(bit_syndrome[bits][bit + 1])]
        or_syn50 == syn \cap (0..5) # {}
    IN {bit \in 0..(bits - 1) :
          IF bits = 64
            THEN /\ at[bit] \cap (0..5) = syn \cap (0..5)
                 /\ (6 \in at[bit]) = (6 \in syn)
                 /\ parity \/ (6 \notin at[bit] /\ ~or_syn50)
            ELSE parity /\ at[bit] = syn \ {SYN_BITS[bits] - 1}}
fatal(bits, syn) == syn \cap (0..(SYN_BITS[bits] - 2)) # {} /\ SYN_BITS[bits] - 1 \notin syn

raw_data(bits, code) == {bit \in 0..(bits - 1) : bit_syndrome[bits][bit + 1] - 1 \in code}
decode(bits, code) ==
    LET syn == syndrome(bits, code) IN
    [d |-> SymDiff(err_flip(bits, syn), raw_data(bits, code)),
     no_err |-> syn = {}, err_corrected |-> SYN_BITS[bits] - 1 \in syn, err_fatal |-> fatal(bits, syn)]
------------------------------------------------------------------------------
(* ecc_2bit.cpp: {d[1],d[1],d[0],d[0],^d,^d}, and the nearest code word,   *)
(* the first of them when there are several.                               *)
encode2(word) == (IF 1 \in word THEN {5, 4} ELSE {}) \cup (IF 0 \in word THEN {3, 2} ELSE {})
                   \cup (IF Odd(word) THEN {1, 0} ELSE {})
Codes2 == <<{}, {0}, {1}, {0, 1}>>
diff(code, index) == Cardinality(SymDiff(code, encode2(Codes2[index])))
best_diff(code) == CHOOSE index \in 1..4 :
    /\ \A other \in 1..4 : diff(code, index) <= diff(code, other)
    /\ \A other \in 1..(index - 1) : diff(code, index) < diff(code, other)
decode2(code) ==
    LET wrong == diff(code, best_diff(code)) IN
    [d |-> Codes2[best_diff(code)], no_err |-> wrong = 0, err_corrected |-> wrong = 1, err_fatal |-> wrong >= 2]
=============================================================================
