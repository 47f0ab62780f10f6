-------------------------- MODULE ReedSolomonCode --------------------------
(***************************************************************************)
(* The Reed Solomon circuits that ecc/reed_sol.cpp writes out: the encoder,*)
(* the two syndrome units, one round of the Berlekamp iteration for the    *)
(* error location polynomial, the Chien root search, the error magnitude   *)
(* polynomial, the error value and the decoder without latency that joins  *)
(* them.  A bus of symbols is a function from symbol index, 0 at the right.*)
(***************************************************************************)
EXTENDS GaloisField

CONSTANT DATA_SYMBOLS    \* data symbols of a code word

k == DATA_SYMBOLS
t == (n - k) \div 2
T2 == 2 * t

ASSUME CodeAssumption == DATA_SYMBOLS \in 1 .. n - 2 /\ (n - DATA_SYMBOLS) % 2 = 0

Bus(count) == [0 .. count - 1 -> Symbol]
Zeros(count) == [i \in 0 .. count - 1 |-> 0]
XorBus(x, y) == [i \in DOMAIN x |-> x[i] ++ y[i]]
\* the exclusive or of a bus multiplied symbol by symbol with another
DotProduct(x, y, count) == XorUpTo([i \in 0 .. count - 1 |-> Mult[x[i]][y[i]]], count - 1)
\* {x, low}: x moved up by one symbol, its top symbol dropped, low in the place left
ShiftIn(x, low) == [i \in DOMAIN x |-> IF i = 0 THEN low ELSE x[i - 1]]
\* {high, x[top:1]}
ShiftOut(x, high) == [i \in DOMAIN x |-> IF i + 1 \in DOMAIN x THEN x[i + 1] ELSE high]
\* the width of a counter that the program gives log_2(v) bits
log_2(v) == CHOOSE w \in 0 .. 16 : 2^w > v /\ \A u \in 0 .. w - 1 : 2^u <= v

-----------------------------------------------------------------------------
\* Mutant: the roots start at alpha^1, as the program's comment says of the product
gen_polyFromOne ==
    LET g[i \in 0 .. T2] ==
            IF i = 0 THEN [j \in 0 .. T2 |-> IF j = 0 THEN 1 ELSE 0]
            ELSE LET p == g[i - 1]
                 IN  [j \in 0 .. T2 |->
                        Mult[p[j]][alpha[i]] ++ (IF j = 0 THEN 0 ELSE p[j - 1])]
    IN  g[T2]

\* the product of (x + alpha^0) .. (x + alpha^(2t-1)), lowest coefficient first
gen_poly ==
    LET g[i \in 0 .. T2] ==
            IF i = 0 THEN [j \in 0 .. T2 |-> IF j = 0 THEN 1 ELSE 0]
            ELSE LET p == g[i - 1]
                 IN  [j \in 0 .. T2 |->
                        Mult[p[j]][alpha[i - 1]] ++ (IF j = 0 THEN 0 ELSE p[j - 1])]
    IN  g[T2]

\* one enabled clock of the encoder: its parity register afterwards
EncoderNext(parity, shift, first_din, din) ==
    LET feedback == din ++ (IF first_din THEN 0 ELSE parity[T2 - 1])
        kept     == IF ~shift /\ first_din THEN Zeros(T2) ELSE ShiftIn(parity, 0)
    IN  IF shift THEN kept
        ELSE XorBus(kept, [i \in 0 .. T2 - 1 |-> ConstMult[gen_poly[i]][feedback]])

\* the constant multipliers the encoder instantiates are among those written out, 1 .. n
EncoderBuilds == \A i \in 0 .. T2 - 1 : gen_poly[i] \in 1 .. n

syndrome_flat(rx_data) ==
    [i \in 0 .. T2 - 1 |->
        XorUpTo([j \in 0 .. n - 1 |-> ConstMult[alpha[(i * j) % n]][rx_data[j]]], n - 1)]

syndrome_round(rx_data, syndrome_in, skip_mult) ==
    [i \in 0 .. T2 - 1 |->
        LET syn_in == rx_data ++ syndrome_in[i]
        IN  IF skip_mult THEN syn_in ELSE ConstMult[alpha[i]][syn_in]]

-----------------------------------------------------------------------------
(* One round of the Berlekamp iteration in one tick.  step, order and twice *)
(* order are compared in the width of step.                                *)
StepWidth == log_2(T2)
OrderWidth == log_2(T2 - 1)

OrderGrows(discrepancy, order_in, step) ==
    discrepancy # 0 /\ (2 * order_in) % 2^StepWidth < step % 2^StepWidth

NextOrder(discrepancy, order_in, step) ==
    IF OrderGrows(discrepancy, order_in, step)
    THEN (2^OrderWidth + step - order_in) % 2^OrderWidth
    ELSE order_in

\* Mutant: the polynomial is only multiplied by x when it is replaced
NextCorrectionUnshifted(discrepancy, order_in, step, elp_div_disc, correction_in) ==
    IF OrderGrows(discrepancy, order_in, step) THEN ShiftIn(elp_div_disc, 0) ELSE correction_in

NextCorrection(discrepancy, order_in, step, elp_div_disc, correction_in) ==
    ShiftIn(IF OrderGrows(discrepancy, order_in, step) THEN elp_div_disc ELSE correction_in, 0)

error_loc_poly_round(step, order_in, elp_in, step_syndrome, correction_in) ==
    LET discrepancy == DotProduct(elp_in, step_syndrome, T2)
        inv == gf_inverse[discrepancy]
        elp_div_disc == [i \in 0 .. T2 - 1 |-> Mult[elp_in[i]][inv]]
    IN  [order |-> NextOrder(discrepancy, order_in, step),
         elp |-> XorBus(elp_in, [i \in 0 .. T2 - 1 |-> Mult[discrepancy][correction_in[i]]]),
         correction |-> NextCorrection(discrepancy, order_in, step, elp_div_disc, correction_in)]

-----------------------------------------------------------------------------
\* one step of the root search: coefficient i is multiplied by alpha^i
NextPowers(poly) == [i \in 0 .. t |-> ConstMult[alpha[i]][poly[i]]]
RootMatch(poly) == XorUpTo(NextPowers(poly), t) = 0
\* the sum of the odd terms, the derivative of the polynomial
OddTerms(poly) == XorUpTo([i \in 0 .. t |-> IF i % 2 = 1 THEN poly[i] ELSE 0], t)

error_mag_poly_round(step_elp, syndrome) == DotProduct(step_elp, syndrome, t + 1)

error_value_round(emp_in, deriv_term, error_pos) ==
    IF error_pos THEN gf_divide(XorUpTo(NextPowers(emp_in), t), deriv_term) ELSE 0

-----------------------------------------------------------------------------
(* The decoder without latency: the same circuits, an instance for every   *)
(* round and every position.  elp_0, the two polynomials each round i sees, *)
(* the magnitude polynomial, and the correction of position i from the root *)
(* search's signals elprt_i and val_emp_i.                                 *)
elp_0 == [order |-> 0, elp |-> [Zeros(T2) EXCEPT ![0] = 1],
          correction |-> [Zeros(T2) EXCEPT ![1] = 1]]

step_syn(syndrome, i) == [j \in 0 .. T2 - 1 |-> IF j <= i THEN syndrome[i - j] ELSE 0]

FlatRound(p, syndrome, i) ==
    error_loc_poly_round(i + 1, p.order, p.elp, step_syn(syndrome, i), p.correction)

FlatEmp(elp, syndrome) ==
    [i \in 0 .. t |->
        error_mag_poly_round([j \in 0 .. t |-> IF j <= i THEN elp[i - j] ELSE 0], syndrome)]

FlatErrorVal(elprt, val_emp) ==
    error_value_round(val_emp, OddTerms(NextPowers(elprt)), RootMatch(elprt))

\* position i of the root search corrects symbol n - 1 - i
Corrected(rx_data, error_val) == [i \in 0 .. n - 1 |-> rx_data[i] ++ error_val[n - 1 - i]]
=============================================================================
