-------------------------- MODULE ReedSolomonFlat --------------------------
(***************************************************************************)
(* The three test benches of the Reed Solomon circuits without control:    *)
(* gf_math_tb draws operands for the arithmetic, syndrome_tb and           *)
(* flat_decoder_tb clock a message through the encoder and then damage the *)
(* code word.  The operands vary only before the message is started, so    *)
(* that the states of the benches add up instead of multiplying.           *)
(***************************************************************************)
EXTENDS ReedSolomonCode
LOCAL INSTANCE FiniteSetsExt

CONSTANTS ErrorValues,   \* what a damaged symbol is changed by
          MaxErrors      \* bound: damaged symbols of a word

VARIABLES om_a, om_b,          \* operands of gf_math_tb
          msg,           \* the symbols that $random gives, first symbol at k - 1
          sent,          \* clocks since the first symbol
          parity, tx_buffer, syndrome_reg,
          err,           \* the difference between received and transmitted word
          stage, position,      \* how far the decoder's signals have settled
          loc,           \* order, ELP and correction polynomial of a round
          elprt, val_emp, error_val

encoder_vars == <<msg, sent, parity, tx_buffer, syndrome_reg, err>>
decoder_vars == <<stage, position, loc, elprt, val_emp, error_val>>
vars == <<om_a, om_b, encoder_vars, decoder_vars>>

Messages == {[j \in 0 .. k - 1 |-> (c * (j + 1)) % 2^m] : c \in {1, 6}}

tx_data == [j \in 0 .. n - 1 |-> IF j < T2 THEN parity[j] ELSE tx_buffer[j - T2]]
rx_data == XorBus(tx_data, err)
ErrorCount == Cardinality({j \in 0 .. n - 1 : err[j] # 0})

Init ==
    /\ om_a = 0 /\ om_b = 0
    /\ msg \in Messages
    /\ sent = 0
    /\ parity = Zeros(T2) /\ tx_buffer = Zeros(k) /\ syndrome_reg = Zeros(T2)
    /\ err = Zeros(n)
    /\ stage = "encode" /\ position = 0
    /\ loc = elp_0 /\ elprt = Zeros(t + 1) /\ val_emp = Zeros(t + 1) /\ error_val = Zeros(n)

MathPair ==
    /\ sent = 0
    /\ om_a' \in Symbol /\ om_b' \in Symbol
    /\ UNCHANGED <<encoder_vars, decoder_vars>>

SendData ==
    LET din == msg[k - 1 - sent]
    IN  /\ om_a = 0 /\ om_b = 0
        /\ sent < k
        /\ parity' = EncoderNext(parity, FALSE, sent = 0, din)
        /\ tx_buffer' = ShiftIn(tx_buffer, din)
        /\ syndrome_reg' = syndrome_round(din, syndrome_reg, FALSE)
        /\ sent' = sent + 1
        /\ UNCHANGED <<om_a, om_b, msg, err, decoder_vars>>

\* the transmitter's clock is stopped; the receiver gets the parity, top symbol first
SendParity ==
    /\ sent \in k .. n - 1
    /\ syndrome_reg' = syndrome_round(parity[T2 - 1 - (sent - k)], syndrome_reg, FALSE)
    /\ sent' = sent + 1
    /\ UNCHANGED <<om_a, om_b, msg, parity, tx_buffer, err, decoder_vars>>

\* the word on the decoder's input, intact or damaged
Damage ==
    /\ sent = n
    /\ stage = "encode"
    /\ \E P \in UNION {kSubset(c, 0 .. n - 1) : c \in 0 .. MaxErrors} :
         \E e \in [P -> ErrorValues] : err' = [j \in 0 .. n - 1 |-> IF j \in P THEN e[j] ELSE 0]
    /\ stage' = "elp"
    /\ UNCHANGED <<om_a, om_b, msg, sent, parity, tx_buffer, syndrome_reg,
                   position, loc, elprt, val_emp, error_val>>

\* the decoder's signals settle: the rounds of the location polynomial ...
SettleRound ==
    /\ stage = "elp"
    /\ loc' = FlatRound(loc, syndrome_flat(rx_data), position)
    /\ position' = (position + 1) % T2
    /\ stage' = IF position = T2 - 1 THEN "emp" ELSE "elp"
    /\ UNCHANGED <<om_a, om_b, encoder_vars, elprt, val_emp, error_val>>

\* ... the magnitude polynomial ...
SettleMagnitude ==
    /\ stage = "emp"
    /\ val_emp' = FlatEmp(loc.elp, syndrome_flat(rx_data))
    /\ elprt' = [j \in 0 .. t |-> loc.elp[j]]
    /\ stage' = "roots"
    /\ UNCHANGED <<om_a, om_b, encoder_vars, position, loc, error_val>>

\* ... and the corrections, one after the other
SettlePosition ==
    /\ stage = "roots"
    /\ error_val' = [error_val EXCEPT ![position] = FlatErrorVal(elprt, val_emp)]
    /\ elprt' = NextPowers(elprt)
    /\ val_emp' = NextPowers(val_emp)
    /\ position' = (position + 1) % n
    /\ stage' = IF position = n - 1 THEN "done" ELSE "roots"
    /\ UNCHANGED <<om_a, om_b, encoder_vars, loc>>

Next == MathPair \/ SendData \/ SendParity \/ Damage \/ SettleRound \/ SettleMagnitude \/ SettlePosition

Spec == Init /\ [][Next]_vars

-----------------------------------------------------------------------------
(* The three forms of the general multiplier (build_gf_general_mult), with *)
(* operands in either order, and the inverse agree on every pair, and the  *)
(* greedy packing of the third form leaves no helper without a term.       *)
MathPasses == MathTb(om_a, om_b) /\ HelpersNonEmpty

(* An intact code word has a zero syndrome in the unit without latency and *)
(* in the one that takes a symbol a clock; up to 2t damaged symbols never  *)
(* do (build_encoder, build_syndrome_flat, build_syndrome_round).          *)
SyndromesDetect ==
    sent = n /\ position = 0 =>
        /\ EncoderBuilds
        /\ syndrome_reg = Zeros(T2)
        /\ ErrorCount <= T2 => (syndrome_flat(rx_data) = Zeros(T2) <=> ErrorCount = 0)

(* Every word with at most t damaged symbols leaves the decoder as it was  *)
(* sent, and so does an intact one (build_flat_decoder, its test bench).   *)
ErrorsCorrected == stage = "done" /\ ErrorCount <= t => Corrected(rx_data, error_val) = tx_data
=============================================================================
