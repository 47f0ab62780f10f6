---------------------------- MODULE GaloisField ----------------------------
(***************************************************************************)
(* The symbol arithmetic that ecc/reed_sol.cpp computes with (gf_mult) and *)
(* the arithmetic circuits it writes out: a multiplier for every constant, *)
(* one general multiplier in three forms, the inverse table, the divider.  *)
(* A symbol is a number of SYMBOL_SIZE bits; a circuit is described by the *)
(* sets of bit positions that each of its gates reads.                     *)
(***************************************************************************)
EXTENDS Naturals, Sequences, FiniteSets
LOCAL INSTANCE FiniteSetsExt

CONSTANTS SYMBOL_SIZE,  \* bits of a symbol
          MOD_POLY      \* the field's polynomial, top bit included

ASSUME FieldAssumption ==
    /\ SYMBOL_SIZE \in Nat \ {0}
    /\ MOD_POLY \in 2^SYMBOL_SIZE .. 2^(SYMBOL_SIZE + 1) - 1

m == SYMBOL_SIZE
Symbol == 0 .. 2^m - 1
n == 2^m - 1
LUT_SIZE == 6
ModBits == MOD_POLY - 2^m

Bit(a, i) == (a \div 2^i) % 2 = 1
OneBits(a) == {i \in 0 .. 2 * m : Bit(a, i)}
ValueOf(S) == SumSet({2^i : i \in S})
Odd(S) == Cardinality(S) % 2 = 1

XorTable == [a \in Symbol |-> [b \in Symbol |-> ValueOf(SymDiff(OneBits(a), OneBits(b)))]]
a ++ b == XorTable[a][b]

\* the exclusive or of f[0] .. f[last], bit by bit a parity
XorUpTo(f, last) == ValueOf({j \in 0 .. m - 1 : Odd({i \in 0 .. last : Bit(f[i], j)})})

\* one shift to the left, brought back into the field
Doubled == [a \in Symbol |-> IF 2 * a <= n THEN 2 * a ELSE (2 * a - 2^m) ++ ModBits]

\* a, 2a, 4a ... in the field
Shifted == LET s[i \in 0 .. m - 1] == IF i = 0 THEN [a \in Symbol |-> a]
                                      ELSE [a \in Symbol |-> Doubled[s[i - 1][a]]]
           IN  [i \in 0 .. m - 1 |-> s[i]]

gf_mult(a, b) == XorUpTo([i \in 0 .. m - 1 |-> IF Bit(b, i) THEN Shifted[i][a] ELSE 0], m - 1)

Mult == [a \in Symbol |-> [b \in Symbol |-> gf_mult(a, b)]]

\* the powers of alpha, from alpha^0 to alpha^n
alpha == LET p[i \in 0 .. n] == IF i = 0 THEN 1 ELSE Mult[p[i - 1]][2]
         IN  [i \in 0 .. n |-> p[i]]

-----------------------------------------------------------------------------
\* gf_mult_by_<c>: output bit i is the parity of the input bits whose toggling toggles it
xor_ins(c, i) == {j \in 0 .. m - 1 : Bit(Mult[0][c], i) # Bit(Mult[2^j][c], i)}

ConstMult ==
    [c \in Symbol \ {0} |->
        LET ins == [i \in 0 .. m - 1 |-> xor_ins(c, i)]
        IN  [x \in Symbol |-> ValueOf({i \in 0 .. m - 1 : Odd(OneBits(x) \cap ins[i])})]]

\* METHOD 0: a_i, the input bits of each bit of 2^i * a, then a sum over the bits of b
PowerMasks ==
    LET table[i \in 0 .. m - 1] ==
            IF i = 0 THEN [j \in 0 .. m - 1 |-> {j}]
            ELSE [j \in 0 .. m - 1 |->
                    SymDiff(IF j = 0 THEN {} ELSE table[i - 1][j - 1],
                            IF Bit(MOD_POLY, j) THEN table[i - 1][m - 1] ELSE {})]
    IN  [i \in 0 .. m - 1 |-> table[i]]

Method0(a, b) ==
    XorUpTo([i \in 0 .. m - 1 |->
               IF Bit(b, i)
               THEN ValueOf({j \in 0 .. m - 1 : Odd(OneBits(a) \cap PowerMasks[i][j])})
               ELSE 0], m - 1)

\* the remainders of 2^m .. 2^(2m-2), that fold the bits above the symbol back into it
Feedback == LET fbk[i \in m .. 2 * m - 2] == IF i = m THEN ModBits ELSE Doubled[fbk[i - 1]]
            IN  [i \in m .. 2 * m - 2 |-> fbk[i]]

\* METHOD 1: the full sum of shifted copies of a, then the modulus
Method1(a, b) ==
    LET inSum(i) == Odd({j \in 0 .. m - 1 : Bit(b, j) /\ i >= j /\ i - j < m /\ Bit(a, i - j)})
        low == ValueOf({i \in 0 .. m - 1 : inSum(i)})
    IN  low ++ XorUpTo([i \in 0 .. m - 2 |-> IF inSum(m + i) THEN Feedback[m + i] ELSE 0], m - 2)

-----------------------------------------------------------------------------
(* METHOD 2: an array of m * m AND gates, term j being b[j / m] & a[j % m]. *)
(* helper_tab: the terms that each output bit is the parity of.            *)
helper_tab ==
    LET row(i) == {j \in 0 .. m * m - 1 : (j \div m) + (j % m) = i}
    IN  [i \in 0 .. m - 1 |->
            {j \in 0 .. m * m - 1 :
                Odd({r \in {i} \cup {q \in m .. 2 * m - 2 : Bit(Feedback[q], i)} : j \in row(r)})}]

\* the operand bits a set of terms reads: a's are 0 .. m-1, b's are m .. 2m-1
signal_use(terms) == {j % m : j \in terms} \cup {(j \div m) + m : j \in terms}

MostPopular(terms) ==
    LET uses(s) == Cardinality({j \in terms : s \in {j % m, (j \div m) + m}})
    IN  CHOOSE s \in 0 .. 2 * m - 1 :
            /\ \A r \in 0 .. 2 * m - 1 : uses(r) <= uses(s)
            /\ \A r \in 0 .. s - 1 : uses(r) < uses(s)

\* Mutant: a helper that takes more terms forgets those it had
MergeOverwrite(helper, terms) == terms
Merge(helper, terms) == helper \cup terms

\* one round of the greedy packing: the terms of the most popular signal go to the first
\* helper they fit in together, or to a new one
PackRound(p) ==
    LET s    == MostPopular(p.left)
        bin  == {j \in p.left : s \in {j % m, (j \div m) + m}}
        fits == {h \in 1 .. Len(p.bins) : Cardinality(signal_use(p.bins[h] \cup bin)) <= LUT_SIZE}
    IN  [left |-> p.left \ bin,
         bins |-> IF fits # {}
                  THEN [p.bins EXCEPT ![Min(fits)] = Merge(@, bin)]
                  ELSE Append(p.bins, bin),
         adding |-> bin # {}]

\* the rounds go on until one adds nothing; 2m + 1 of them always suffice
Helpers ==
    LET pack[r \in 0 .. 2 * m + 1] ==
            IF r = 0
            THEN [i \in 0 .. m - 1 |-> [left |-> helper_tab[i], bins |-> << >>, adding |-> TRUE]]
            ELSE LET before == pack[r - 1]
                 IN  [i \in 0 .. m - 1 |->
                        IF before[i].adding THEN PackRound(before[i]) ELSE before[i]]
        packed == pack[2 * m + 1]
    IN  [i \in 0 .. m - 1 |-> packed[i].bins]

Method2(a, b) ==
    LET on == {j \in 0 .. m * m - 1 : Bit(b, j \div m) /\ Bit(a, j % m)}
    IN  ValueOf({i \in 0 .. m - 1 :
                    Odd({h \in DOMAIN Helpers[i] : Odd(Helpers[i][h] \cap on)})})

-----------------------------------------------------------------------------
gf_inverse ==
    [x \in Symbol |-> IF x = 0 THEN 0
                      ELSE alpha[(n - (CHOOSE i \in 0 .. n - 1 : alpha[i] = x)) % n]]

gf_divide(a, d) == Mult[a][gf_inverse[d]]

\* what build_gf_math_tb asks of every pair of operands
MathTb(a, b) ==
    LET om0 == Method0(a, b)
    IN  /\ om0 = Method1(a, b)
        /\ om0 = Method0(b, a)
        /\ om0 = Method1(b, a)
        /\ om0 = Method2(a, b)
        /\ a # 0 => Method0(om0, gf_inverse[a]) = b
        /\ b # 0 => Method0(om0, gf_inverse[b]) = a

\* what the generated text must have to be compiled: no helper without a term
HelpersNonEmpty == \A i \in 0 .. m - 1 : \A h \in DOMAIN Helpers[i] : Helpers[i][h] # {}
=============================================================================
