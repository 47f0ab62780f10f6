-------------------------- MODULE ReedSolomonLink --------------------------
(***************************************************************************)
(* reed_sol_tx and reed_sol_rx, the clocked transmitter and receiver that  *)
(* ecc/reed_sol.cpp writes out, joined over a noisy line as in its         *)
(* reed_sol_tb.  A step is one clock of the whole bench.  The receiver is  *)
(* a pipeline of four parts that hand a word on: syndrome, location        *)
(* polynomial (seven clocks a round), magnitude polynomial, root search;   *)
(* the data wait for the correction in a delay line of fixed length.  The  *)
(* source may leave clocks out, between two words or within one.           *)
(***************************************************************************)
EXTENDS ReedSolomonCode

CONSTANTS NoisyWords,    \* bound: words that the line may damage
          Clocks,        \* bound: length of a run
          Pause,         \* clocks that the source leaves between two words
          GapClocks           \* bound: clocks that it leaves out within the words

\* the receiver selects symbols 1 .. t + 1 of a syndrome, which a code with t = 1 does not have
ASSUME LinkAssumption == t >= 2

VARIABLES tx,            \* registers of reed_sol_tx and its encoder
          rx,            \* registers of reed_sol_rx
          delayed,       \* data_delay, each symbol with what the bench knows of it
          shown,         \* the entry of the delay line that dout was made from
          bytes_sent, bytes_rxd,
          message,       \* c: the bench sends symbol c * (i + 1) as data symbol i
          line_noise,    \* the damage of the word now received
          heard,         \* the damage of the last complete word
          located,       \* the damage of the word with the last location polynomial
          searched,      \* the damage of the word whose errors are now searched
          words, clocks, gaps, paused

line_vars == <<line_noise, heard, located, searched, words>>
rsVars == <<tx, rx, delayed, shown, bytes_sent, bytes_rxd, message, line_vars, clocks, gaps, paused>>

-----------------------------------------------------------------------------
(* The transmitter.                                                        *)
enc_ena(din_valid) == ~tx.ready_for_din \/ din_valid

TxInit == [ready_for_din |-> TRUE, symbol_cntr |-> 0, dout |-> 0, dout_valid |-> FALSE,
           parity |-> Zeros(T2)]

\* the last data symbol closes the input
TxTakesData(first_din, din) ==
    [ready_for_din |-> tx.symbol_cntr # k - 1,
     symbol_cntr |-> tx.symbol_cntr + 1,
     dout |-> din,
     dout_valid |-> TRUE,
     parity |-> EncoderNext(tx.parity, FALSE, first_din, din)]

TxStarves == [tx EXCEPT !.dout_valid = FALSE]

\* Mutant: the parity register is not shifted while it is read out
TxSendsParityUnshifted(first_din, din) ==
    [ready_for_din |-> tx.symbol_cntr = n - 1,
     symbol_cntr |-> IF tx.symbol_cntr = n - 1 THEN 0 ELSE tx.symbol_cntr + 1,
     dout |-> tx.parity[T2 - 1],
     dout_valid |-> TRUE,
     parity |-> tx.parity]

TxSendsParity(first_din, din) ==
    [ready_for_din |-> tx.symbol_cntr = n - 1,
     symbol_cntr |-> IF tx.symbol_cntr = n - 1 THEN 0 ELSE tx.symbol_cntr + 1,
     dout |-> tx.parity[T2 - 1],
     dout_valid |-> TRUE,
     parity |-> EncoderNext(tx.parity, TRUE, first_din, din)]

-----------------------------------------------------------------------------
(* The receiver's syndrome part; ready_for_din is set by reset and never   *)
(* cleared, so syndrome_ena is din_valid.                                  *)
NextSyndrome(first_din, din) ==
    syndrome_round(din, IF first_din THEN Zeros(T2) ELSE rx.syndrome, rx.leading_syndrome_ready)

SyndromeRegs(first_din, din, ena) ==
    IF ena
    THEN [syndrome |-> NextSyndrome(first_din, din),
          symbol_cntr |-> IF rx.symbol_cntr = n - 1 THEN 0 ELSE rx.symbol_cntr + 1,
          leading |-> \/ rx.symbol_cntr = n - 2
                      \/ rx.leading_syndrome_ready /\ rx.symbol_cntr # n - 1]
    ELSE [syndrome |-> rx.syndrome, symbol_cntr |-> rx.symbol_cntr,
          leading |-> rx.leading_syndrome_ready]

-----------------------------------------------------------------------------
(* One round of the location polynomial in seven clocks, with a multiplier *)
(* of half the width: the upper halves first, then the lower.              *)
elpr_wait == rx.wait_state # 6
Half(bus, upper) == [j \in 0 .. t - 1 |-> bus[IF upper THEN j + t ELSE j]]
inv_or_disc == IF rx.wait_state \in {4, 5} THEN rx.inv_discrepancy ELSE rx.discrepancy_reg

mult_o ==
    LET upper == rx.wait_state \in {0, 2, 4}
        in_a  == IF rx.wait_state \in {0, 1, 4, 5} THEN Half(rx.elp, upper)
                 ELSE Half(rx.correction, upper)
        in_b  == IF rx.wait_state \in {0, 1} THEN Half(rx.step_syndrome, upper)
                 ELSE [j \in 0 .. t - 1 |-> inv_or_disc]
    IN  [j \in 0 .. t - 1 |-> Mult[in_a[j]][in_b[j]]]

\* reg[2t*m-1 : t*m] <= mult_o, and reg[t*m : 0] <= mult_o: one bit more than mult_o has, so that
\* the lowest bit of the upper half is cleared with it
Captured(reg, upperState, lowerState) ==
    CASE rx.wait_state = upperState -> [j \in 0 .. T2 - 1 |-> IF j >= t THEN mult_o[j - t] ELSE reg[j]]
      [] rx.wait_state = lowerState -> [j \in 0 .. T2 - 1 |->
                                          IF j < t THEN mult_o[j]
                                          ELSE IF j = t THEN (reg[j] \div 2) * 2 ELSE reg[j]]
      [] OTHER -> reg

ElprRegs ==
    LET discrepancy == XorUpTo(mult_o, t - 1)
    IN  [wait_state |-> IF rx.leading_syndrome_ready THEN 0 ELSE (rx.wait_state + 1) % 7,
         discrepancy_reg |-> CASE rx.wait_state = 0 -> discrepancy
                               [] rx.wait_state = 1 -> discrepancy ++ rx.discrepancy_reg
                               [] OTHER -> rx.discrepancy_reg,
         disc_cor_reg |-> Captured(rx.disc_cor_reg, 2, 3),
         elp_div_disc_reg |-> Captured(rx.elp_div_disc_reg, 4, 5),
         inv_discrepancy |-> gf_inverse[rx.discrepancy_reg]]

next_order == NextOrder(rx.discrepancy_reg, rx.order, rx.step)
next_elp == XorBus(rx.elp, rx.disc_cor_reg)
next_correction ==
    NextCorrection(rx.discrepancy_reg, rx.order, rx.step, rx.elp_div_disc_reg, rx.correction)

final_elp == rx.step = T2
first_elp_next == rx.leading_syndrome_ready \/ (rx.first_elp /\ elpr_wait)

\* the round that a new word starts, its first completed round, a later one, or waiting
ElpRegs(first_din, din) ==
    IF rx.leading_syndrome_ready
    THEN [step |-> 1, order |-> 0, elp_ready |-> FALSE,
          correction |-> [Zeros(T2) EXCEPT ![1] = 1],
          elp |-> [Zeros(T2) EXCEPT ![0] = 1],
          step_syndrome |-> [Zeros(T2) EXCEPT ![0] = NextSyndrome(first_din, din)[0]],
          saved_syndrome |-> rx.saved_syndrome]
    ELSE IF ~elpr_wait /\ rx.first_elp
    THEN [step |-> 2, order |-> next_order, elp_ready |-> rx.elp_ready,
          correction |-> next_correction, elp |-> next_elp,
          step_syndrome |-> [Zeros(T2) EXCEPT ![0] = rx.syndrome[1], ![1] = rx.syndrome[0]],
          saved_syndrome |-> rx.syndrome]
    ELSE IF ~elpr_wait /\ ~rx.elp_ready
    THEN [step |-> (rx.step + 1) % 2^StepWidth, order |-> next_order,
          elp_ready |-> final_elp,
          correction |-> next_correction, elp |-> next_elp,
          step_syndrome |-> ShiftIn(rx.step_syndrome, rx.saved_syndrome[2]),
          saved_syndrome |-> ShiftOut(rx.saved_syndrome, rx.saved_syndrome[0])]
    ELSE [step |-> rx.step, order |-> rx.order, elp_ready |-> rx.elp_ready,
          correction |-> rx.correction, elp |-> rx.elp, step_syndrome |-> rx.step_syndrome,
          saved_syndrome |-> rx.saved_syndrome]

-----------------------------------------------------------------------------
(* The magnitude polynomial, a term a clock.                               *)
final_emp == rx.emp_cntr = t - 1

EmpRegs ==
    IF final_elp
    THEN [emp_ready |-> FALSE, emp_cntr |-> 0, emp |-> rx.emp,
          elp_mirror |-> [j \in 0 .. t |-> next_elp[j]],
          step_elp |-> [Zeros(t + 1) EXCEPT ![0] = next_elp[0]]]
    ELSE IF ~rx.emp_ready
    THEN [emp_ready |-> final_emp, emp_cntr |-> (rx.emp_cntr + 1) % 2^log_2(t),
          emp |-> ShiftOut(rx.emp, error_mag_poly_round(rx.step_elp,
                                       [j \in 0 .. t |-> rx.saved_syndrome[j + 1]])),
          elp_mirror |-> ShiftOut(rx.elp_mirror, 0),
          step_elp |-> ShiftIn(rx.step_elp, rx.elp_mirror[1])]
    ELSE [emp_ready |-> TRUE, emp_cntr |-> rx.emp_cntr, emp |-> rx.emp,
          elp_mirror |-> rx.elp_mirror, step_elp |-> rx.step_elp]

(* The root search, a position a clock, and one clock behind it the value  *)
(* of the error there.                                                     *)
RootRegs ==
    IF final_emp
    THEN [root_step_elp |-> [j \in 0 .. t |-> rx.elp[j]], root_cntr |-> 0, roots_pending |-> TRUE]
    ELSE IF rx.roots_pending
    THEN [root_step_elp |-> NextPowers(rx.root_step_elp),
          root_cntr |-> IF rx.root_cntr = n THEN 0 ELSE (rx.root_cntr + 1) % 2^log_2(k),
          roots_pending |-> rx.root_cntr # n]
    ELSE [root_step_elp |-> rx.root_step_elp, root_cntr |-> rx.root_cntr, roots_pending |-> FALSE]

\* Mutant: the polynomial is loaded a clock early, with its last term
NextStepEmpEarly ==
    IF final_emp
    THEN [j \in 0 .. t |-> IF j < t THEN rx.emp[j] ELSE 0]
    ELSE NextPowers(rx.step_emp)

NextStepEmp ==
    IF rx.emp_ready /\ ~rx.last_emp_ready
    THEN [j \in 0 .. t |-> IF j < t THEN rx.emp[j] ELSE 0]
    ELSE NextPowers(rx.step_emp)

error_val == error_value_round(rx.step_emp, OddTerms(rx.root_step_elp), rx.last_root_match)

\* the codeword, the lag of the magnitude polynomial and of the location polynomial
delay_sym == n + t + 7 * T2 + 7

-----------------------------------------------------------------------------
\* registers without a reset hold anything at first: here all zeros or all ones
RxInit(junk, cntr) ==
    [symbol_cntr |-> 0, syndrome |-> Zeros(T2), leading_syndrome_ready |-> FALSE,
     wait_state |-> 0, discrepancy_reg |-> 0, disc_cor_reg |-> Zeros(T2),
     elp_div_disc_reg |-> Zeros(T2), inv_discrepancy |-> 0,
     step |-> 0, order |-> 0, correction |-> Zeros(T2), step_syndrome |-> Zeros(T2),
     first_elp |-> FALSE, elp_ready |-> FALSE,
     elp |-> [j \in 0 .. T2 - 1 |-> junk], saved_syndrome |-> [j \in 0 .. T2 - 1 |-> junk],
     emp_ready |-> FALSE, emp_cntr |-> cntr, emp |-> Zeros(t), step_elp |-> Zeros(t + 1),
     elp_mirror |-> [j \in 0 .. t |-> junk],
     last_emp_ready |-> FALSE, root_step_elp |-> Zeros(t + 1), root_cntr |-> 0,
     roots_pending |-> FALSE, last_root_match |-> FALSE, step_emp |-> Zeros(t + 1),
     dout |-> 0, dout_valid |-> FALSE, corrected_bits |-> junk]

\* one clock of the receiver, with the line's symbol on its input
RxNext(din) ==
    LET ena == tx.dout_valid
        first_din == bytes_rxd = 0
        sr == SyndromeRegs(first_din, din, ena)
        pr == ElprRegs
        er == ElpRegs(first_din, din)
        mr == EmpRegs
        rr == RootRegs
    IN  [symbol_cntr |-> sr.symbol_cntr, syndrome |-> sr.syndrome,
         leading_syndrome_ready |-> sr.leading,
         wait_state |-> pr.wait_state, discrepancy_reg |-> pr.discrepancy_reg,
         disc_cor_reg |-> pr.disc_cor_reg, elp_div_disc_reg |-> pr.elp_div_disc_reg,
         inv_discrepancy |-> pr.inv_discrepancy,
         step |-> er.step, order |-> er.order, correction |-> er.correction,
         step_syndrome |-> er.step_syndrome, first_elp |-> first_elp_next,
         elp_ready |-> er.elp_ready, elp |-> er.elp, saved_syndrome |-> er.saved_syndrome,
         emp_ready |-> mr.emp_ready, emp_cntr |-> mr.emp_cntr, emp |-> mr.emp,
         step_elp |-> mr.step_elp, elp_mirror |-> mr.elp_mirror,
         last_emp_ready |-> rx.emp_ready, root_step_elp |-> rr.root_step_elp,
         root_cntr |-> rr.root_cntr, roots_pending |-> rr.roots_pending,
         last_root_match |-> RootMatch(rx.root_step_elp), step_emp |-> NextStepEmp,
         dout |-> IF rx.root_cntr # 0 THEN Head(delayed).received ++ error_val ELSE rx.dout,
         dout_valid |-> rx.dout_valid \/ rx.root_cntr # 0,
         corrected_bits |-> IF rx.root_cntr # 0 THEN error_val ELSE rx.corrected_bits]

-----------------------------------------------------------------------------
CONSTANTS NoisePlaces, NoiseValues, MaxErrors    \* what the line may do to one word

Noises == UNION {[P -> NoiseValues] : P \in {Q \in SUBSET NoisePlaces : Cardinality(Q) <= MaxErrors}}
Quiet == [p \in {} |-> 0]
\* before the first word: as if every symbol were damaged
NoWord == [p \in 0 .. n - 1 |-> 0]

\* the noise is drawn with the first symbol of a word, in the first words of a run
NoiseChoice ==
    IF ~(tx.dout_valid /\ bytes_rxd = 0) THEN {line_noise}
    ELSE IF words < NoisyWords THEN Noises ELSE {Quiet}

Entry(received, clean, index, damaged) ==
    [received |-> received, clean |-> clean, index |-> index, damaged |-> damaged]
Filler == Entry(0, 0, n, 0)

RxClock ==
    \E noise \in NoiseChoice :
        LET din == tx.dout ++ (IF bytes_rxd \in DOMAIN noise THEN noise[bytes_rxd] ELSE 0)
        IN  /\ rx' = RxNext(din)
            /\ line_noise' = noise
            /\ heard' = IF tx.dout_valid /\ bytes_rxd = n - 1 THEN noise ELSE heard
            /\ located' = IF final_elp THEN heard ELSE located
            /\ searched' = IF final_emp THEN located ELSE searched
            /\ shown' = IF rx.root_cntr # 0 THEN Head(delayed) ELSE shown
            /\ IF tx.dout_valid
               THEN /\ delayed' = Append(Tail(delayed), Entry(din, tx.dout, bytes_rxd,
                                                              Cardinality(DOMAIN noise)))
                    /\ bytes_rxd' = (bytes_rxd + 1) % n
                    /\ words' = IF bytes_rxd = 0 THEN words + 1 ELSE words
               ELSE UNCHANGED <<delayed, bytes_rxd, words>>
    /\ clocks < Clocks
    /\ clocks' = clocks + 1

tx_din == (message * (bytes_sent + 1)) % 2^m

RsInit ==
    /\ tx = TxInit
    /\ \E junk \in {0, n}, cntr \in 0 .. 2^log_2(t) - 1 : rx = RxInit(junk, cntr)
    /\ delayed = [p \in 1 .. delay_sym |-> Filler]
    /\ shown = Filler
    /\ bytes_sent = 0 /\ bytes_rxd = 0
    /\ message = 1 /\ line_noise = Quiet
    /\ heard = NoWord /\ located = NoWord /\ searched = NoWord
    /\ words = 0 /\ clocks = 0 /\ gaps = 0 /\ paused = Pause

DataClock ==
    /\ tx.ready_for_din
    /\ bytes_sent = 0 => paused = Pause
    /\ tx' = TxTakesData(bytes_sent = 0, tx_din)
    /\ bytes_sent' = (bytes_sent + 1) % k
    /\ message' = IF bytes_sent = k - 1 THEN 7 - message ELSE message
    /\ paused' = 0
    /\ RxClock
    /\ UNCHANGED gaps

PauseClock ==
    /\ tx.ready_for_din
    /\ bytes_sent = 0 /\ paused < Pause
    /\ paused' = paused + 1
    /\ tx' = TxStarves
    /\ RxClock
    /\ UNCHANGED <<bytes_sent, message, gaps>>

GapClock ==
    /\ tx.ready_for_din
    /\ bytes_sent \in {1, k - 1} /\ words <= 1 /\ gaps < GapClocks
    /\ gaps' = gaps + 1
    /\ tx' = TxStarves
    /\ RxClock
    /\ UNCHANGED <<bytes_sent, message, paused>>

ParityClock ==
    /\ ~tx.ready_for_din
    /\ tx' = TxSendsParity(bytes_sent = 0, tx_din)
    /\ RxClock
    /\ UNCHANGED <<bytes_sent, message, gaps, paused>>

RsNext == DataClock \/ PauseClock \/ GapClock \/ ParityClock

RsSpec == RsInit /\ [][RsNext]_rsVars

-----------------------------------------------------------------------------
(* When the last symbol of a word is in, the receiver's syndrome is zero   *)
(* exactly if the line left the word alone, whatever clocks the source     *)
(* left out (reed_sol_tx: the parity follows the data; leading_syndrome_   *)
(* ready: the last symbol is not multiplied).                              *)
SyndromeJudges ==
    words > 0 /\ bytes_rxd = 0 => (rx.syndrome = Zeros(T2) <=> line_noise = Quiet)

\* the root search counts the symbols of the word as they were received, from 1 on
SearchedDamage == IF rx.root_cntr - 1 \in DOMAIN searched THEN searched[rx.root_cntr - 1] ELSE 0

(* While the root counter runs, the error value it brings for a symbol is  *)
(* what the line did to that symbol, for words with fewer than t damaged   *)
(* symbols: location polynomial, magnitude polynomial and root search hand *)
(* a word on at the right clocks although the next word is being received. *)
(* The source leaves 6 clocks between words here: see Repaired.            *)
SearchFindsDamage ==
    rx.root_cntr # 0 /\ Cardinality(DOMAIN searched) < t => error_val = SearchedDamage

(* The same for every word that the program says can be repaired (it prints *)
(* t as the number of errors corrected): not so, see the README.           *)
SearchFindsAllDamage ==
    rx.root_cntr # 0 /\ Cardinality(DOMAIN searched) <= t => error_val = SearchedDamage

(* The test bench's check: a data symbol of a word with one damaged symbol *)
(* at most is shown as it was sent.  The bench leaves no clocks out.       *)
Repaired ==
    rx.dout_valid /\ gaps = 0 /\ shown.index < k /\ shown.damaged <= 1 => rx.dout = shown.clean
=============================================================================
