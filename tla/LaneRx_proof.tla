----------------------------- MODULE LaneRx_proof -----------------------------
(***************************************************************************)
(* TLAPS proofs about LaneRx, for windows, error limits, metaframes and    *)
(* gaps of any size: the lane's locks are earned and lost for the reasons  *)
(* the code names, and a receiver that follows the frame counts with the   *)
(* transmitter.                                                            *)
(***************************************************************************)
EXTENDS LaneRx, FiniteSetTheorems, TLAPS

(* What is assumed of the sizes. *)
LEMMA Sizes == /\ Window \in Nat /\ Limit \in Nat /\ Limit >= 1 /\ Limit < Window
               /\ META_FRAME_LEN \in Nat /\ META_FRAME_LEN >= 4
               /\ MinGap \in Nat /\ MinGap >= 1
BY LaneAssumption

(* Counting round. *)
LEMMA NextOf ==
    ASSUME NEW n \in Nat, n >= 1, NEW i \in 0..(n - 1)
    PROVE  (i + 1) % n = IF i = n - 1 THEN 0 ELSE i + 1
OBVIOUS
------------------------------------------------------------------------------
(* The word machine: its counters; that a verification has seen only       *)
(* framed words since it began; that errors are counted from the start of  *)
(* a window, and that a lock survives a window only if they were few.      *)
AlignType ==
    /\ align \in {"RESET", "SLIP", "VERIFY", "LOCKED"}
    /\ word_cntr \in 0..(Window - 1)
    /\ word_cntr_max \in BOOLEAN /\ (word_cntr_max <=> word_cntr = Window - 1)
    /\ sync_err_cntr \in 0..Limit
    /\ run \in -Longest..Window

Deaf ==
    /\ word_cntr < Window - 1 =>
         /\ -run <= Limit + word_cntr
         /\ sync_err_cntr = Limit \/ sync_err_cntr >= -run \/ sync_err_cntr >= word_cntr
    /\ word_cntr = Window - 1 =>
         /\ -run < Longest
         /\ sync_err_cntr = Limit \/ -run < Limit

AlignInv == /\ AlignType
            /\ align = "VERIFY" => run >= word_cntr + 1
            /\ align = "LOCKED" => Deaf

(* What one clock does to the word machine. *)
LEMMA AlignMoves ==
    ASSUME AlignType, NEW din_valid \in BOOLEAN, NEW is_sync \in BOOLEAN, NEW framed \in BOOLEAN,
           Machines(din_valid, is_sync, framed)
    PROVE  /\ word_cntr' = IF align = "SLIP" THEN 0
                           ELSE IF din_valid THEN IF word_cntr = Window - 1 THEN 0 ELSE word_cntr + 1
                           ELSE word_cntr
           /\ align = "SLIP" => word_cntr_max' = FALSE
           /\ align # "SLIP" /\ din_valid => word_cntr_max' = (word_cntr = Window - 2)
           /\ align # "SLIP" /\ ~din_valid => word_cntr_max' = word_cntr_max
           /\ sync_err_cntr' = IF align = "LOCKED" /\ word_cntr_max THEN 0
                               ELSE IF din_valid /\ ~framed /\ sync_err_cntr < Limit
                                 THEN sync_err_cntr + 1 ELSE sync_err_cntr
           /\ align = "RESET" => align' = "SLIP"
           /\ align = "SLIP" => align' = IF din_valid /\ framed THEN "VERIFY" ELSE "SLIP"
           /\ align = "VERIFY" => align' = IF din_valid /\ ~framed THEN "SLIP"
                                           ELSE IF word_cntr_max THEN "LOCKED" ELSE "VERIFY"
           /\ align = "LOCKED" => align' = IF word_cntr_max /\ sync_err_cntr = Limit
                                           THEN "SLIP" ELSE "LOCKED"
           /\ run' = IF ~din_valid THEN run
                     ELSE IF framed THEN IF run < 0 THEN 1
                                         ELSE IF run + 1 < Window THEN run + 1 ELSE Window
                     ELSE IF run > 0 THEN -1 ELSE -(IF 1 - run < Longest THEN 1 - run ELSE Longest)
<1>1. W!Clock(din_valid, framed) /\ History(din_valid, framed)
  BY DEF Machines
<1>2. (word_cntr + 1) % Window = IF word_cntr = Window - 1 THEN 0 ELSE word_cntr + 1
  BY NextOf, Sizes DEF AlignType
<1>3. /\ word_cntr' = IF align = "SLIP" THEN 0
                      ELSE IF din_valid THEN IF word_cntr = Window - 1 THEN 0 ELSE word_cntr + 1
                      ELSE word_cntr
      /\ align = "SLIP" => word_cntr_max' = FALSE
      /\ align # "SLIP" /\ din_valid => word_cntr_max' = (word_cntr = Window - 2)
      /\ align # "SLIP" /\ ~din_valid => word_cntr_max' = word_cntr_max
  BY <1>1, <1>2 DEF W!Clock, W!CountWords, W!rst_word_cntr
<1>4. sync_err_cntr' = IF align = "LOCKED" /\ word_cntr_max THEN 0
                       ELSE IF din_valid /\ ~framed /\ sync_err_cntr < Limit
                         THEN sync_err_cntr + 1 ELSE sync_err_cntr
  BY <1>1 DEF W!Clock, W!CountErrors
<1>5. /\ align = "RESET" => align' = "SLIP"
      /\ align = "SLIP" => align' = IF din_valid /\ framed THEN "VERIFY" ELSE "SLIP"
      /\ align = "VERIFY" => align' = IF din_valid /\ ~framed THEN "SLIP"
                                      ELSE IF word_cntr_max THEN "LOCKED" ELSE "VERIFY"
      /\ align = "LOCKED" => align' = IF word_cntr_max /\ sync_err_cntr = Limit
                                      THEN "SLIP" ELSE "LOCKED"
  BY <1>1 DEF W!Clock, W!next_state, W!TooMany
<1>6. run' = IF ~din_valid THEN run
             ELSE IF framed THEN IF run < 0 THEN 1 ELSE IF run + 1 < Window THEN run + 1 ELSE Window
             ELSE IF run > 0 THEN -1 ELSE -(IF 1 - run < Longest THEN 1 - run ELSE Longest)
  BY <1>1 DEF History, Least
<1> QED BY <1>3, <1>4, <1>5, <1>6

(* A clock keeps what is known of the word machine. *)
LEMMA AlignStep ==
    ASSUME AlignInv, NEW din_valid \in BOOLEAN, NEW is_sync \in BOOLEAN, NEW framed \in BOOLEAN,
           Machines(din_valid, is_sync, framed)
    PROVE  AlignInv'
<1>1. /\ word_cntr' = IF align = "SLIP" THEN 0
                      ELSE IF din_valid THEN IF word_cntr = Window - 1 THEN 0 ELSE word_cntr + 1
                      ELSE word_cntr
      /\ align = "SLIP" => word_cntr_max' = FALSE
      /\ align # "SLIP" /\ din_valid => word_cntr_max' = (word_cntr = Window - 2)
      /\ align # "SLIP" /\ ~din_valid => word_cntr_max' = word_cntr_max
      /\ sync_err_cntr' = IF align = "LOCKED" /\ word_cntr_max THEN 0
                          ELSE IF din_valid /\ ~framed /\ sync_err_cntr < Limit
                            THEN sync_err_cntr + 1 ELSE sync_err_cntr
      /\ align = "RESET" => align' = "SLIP"
      /\ align = "SLIP" => align' = IF din_valid /\ framed THEN "VERIFY" ELSE "SLIP"
      /\ align = "VERIFY" => align' = IF din_valid /\ ~framed THEN "SLIP"
                                      ELSE IF word_cntr_max THEN "LOCKED" ELSE "VERIFY"
      /\ align = "LOCKED" => align' = IF word_cntr_max /\ sync_err_cntr = Limit
                                      THEN "SLIP" ELSE "LOCKED"
      /\ run' = IF ~din_valid THEN run
                ELSE IF framed THEN IF run < 0 THEN 1
                                    ELSE IF run + 1 < Window THEN run + 1 ELSE Window
                ELSE IF run > 0 THEN -1 ELSE -(IF 1 - run < Longest THEN 1 - run ELSE Longest)
  BY AlignMoves DEF AlignInv
<1>7. AlignType'
  <2>1. word_cntr' \in 0..(Window - 1) /\ sync_err_cntr' \in 0..Limit
    BY <1>1, Sizes DEF AlignInv, AlignType
  <2>2. word_cntr_max' \in BOOLEAN /\ (word_cntr_max' <=> word_cntr' = Window - 1)
    <3>1. CASE align = "SLIP"
      <4>1. word_cntr' # Window - 1
        BY <1>1, <3>1, Sizes
      <4> QED BY <1>1, <3>1, <4>1, Zenon
    <3>2. CASE align # "SLIP" /\ din_valid
      <4>1. word_cntr = Window - 2 <=> word_cntr' = Window - 1
        BY <1>1, <3>2, Sizes DEF AlignInv, AlignType
      <4> QED BY <1>1, <3>2, <4>1, Zenon
    <3>3. CASE align # "SLIP" /\ ~din_valid
      <4>1. word_cntr' = word_cntr /\ word_cntr_max' = word_cntr_max
        BY <1>1, <3>3
      <4>2. word_cntr_max \in BOOLEAN /\ (word_cntr_max <=> word_cntr = Window - 1)
        BY DEF AlignInv, AlignType
      <4> QED BY <4>1, <4>2
    <3> QED BY <3>1, <3>2, <3>3
  <2>3. align' \in {"RESET", "SLIP", "VERIFY", "LOCKED"}
    BY <1>1 DEF AlignInv, AlignType
  <2>4. run' \in -Longest..Window
    BY <1>1, Sizes DEF AlignInv, AlignType, Longest
  <2> QED BY <2>1, <2>2, <2>3, <2>4 DEF AlignType
<1>8. align' = "VERIFY" => run' >= word_cntr' + 1
  BY <1>1, Sizes DEF AlignInv, AlignType, Longest
<1>9. ASSUME align' = "LOCKED" PROVE Deaf'
  <2>1. CASE align = "VERIFY"
    BY <1>1, <1>9, <2>1, Sizes DEF AlignInv, AlignType, Deaf, Longest
  <2>2. CASE align = "LOCKED"
    BY <1>1, <1>9, <2>2, Sizes DEF AlignInv, AlignType, Deaf, Longest
  <2> QED BY <1>1, <1>9, <2>1, <2>2 DEF AlignInv, AlignType
<1> QED BY <1>7, <1>8, <1>9 DEF AlignInv
------------------------------------------------------------------------------
(* The frame machine: its counters; that the words it counts towards its   *)
(* lock, and the missing ones it counts afterwards, came in a row.         *)
FrameType ==
    /\ frame \in {"RESET", "SEARCH", "VERIFY", "LOCKED"}
    /\ meta_cntr \in 0..(META_FRAME_LEN - 1)
    /\ meta_cntr_max \in BOOLEAN /\ (meta_cntr_max <=> meta_cntr = META_FRAME_LEN - 1)
    /\ sync_tally \in 0..7
    /\ goods \in 0..4 /\ misses \in Nat

FrameInv == /\ FrameType
            /\ frame = "VERIFY" => sync_tally <= 3 /\ goods >= sync_tally + 1
            /\ frame = "LOCKED" => sync_tally <= 4 /\ misses = sync_tally

(* A clock keeps what is known of the frame machine. *)
LEMMA FrameStep ==
    ASSUME FrameInv, NEW din_valid \in BOOLEAN, NEW is_sync \in BOOLEAN, NEW framed \in BOOLEAN,
           Machines(din_valid, is_sync, framed)
    PROVE  FrameInv'
<1>1. /\ F!Clock(din_valid, is_sync, word_locked, last_verify /\ match, last_verify /\ ~match)
      /\ History(din_valid, framed)
  BY DEF Machines
<1>2. (meta_cntr + 1) % META_FRAME_LEN = IF meta_cntr = META_FRAME_LEN - 1 THEN 0 ELSE meta_cntr + 1
  BY NextOf, Sizes DEF FrameInv, FrameType
<1>3. /\ meta_cntr' = IF frame = "SEARCH" THEN 1
                      ELSE IF din_valid THEN IF meta_cntr_max THEN 0 ELSE meta_cntr + 1
                      ELSE meta_cntr
      /\ frame = "SEARCH" => meta_cntr_max' = FALSE
      /\ frame # "SEARCH" /\ din_valid => meta_cntr_max' = (meta_cntr = META_FRAME_LEN - 2)
      /\ frame # "SEARCH" /\ ~din_valid => meta_cntr_max' = meta_cntr_max
  BY <1>1 DEF F!Clock, F!MetaFrame, F!Frozen
<1>4. F!good_sync => ~F!missing_sync
  BY DEF F!good_sync, F!missing_sync
<1>5. sync_tally' = IF F!rst_sync_tally THEN 0
                    ELSE IF F!inc_sync_tally THEN (sync_tally + 1) % 8 ELSE sync_tally
  BY <1>1 DEF F!Clock, F!Tally
<1>6. /\ ~word_locked => frame' = "RESET"
      /\ word_locked =>
           /\ frame = "RESET" => frame' = "SEARCH"
           /\ frame = "SEARCH" => frame' = IF F!good_sync THEN "VERIFY" ELSE "SEARCH"
           /\ frame = "VERIFY" => frame' = IF F!missing_sync THEN "SEARCH"
                                           ELSE IF sync_tally = 3 THEN "LOCKED" ELSE "VERIFY"
           /\ frame = "LOCKED" => frame' = IF ~F!good_sync /\ (sync_tally = 4 \/ scramble_miss_cntr = 3)
                                           THEN "SEARCH" ELSE "LOCKED"
  BY <1>1 DEF F!Clock, F!next_state, F!Verified, F!Failed
<1>7. /\ goods' = IF ~word_locked \/ F!missing_sync THEN 0
                  ELSE IF F!good_sync THEN IF goods + 1 < 4 THEN goods + 1 ELSE 4 ELSE goods
      /\ misses' = IF frame # "LOCKED" \/ F!good_sync THEN 0
                   ELSE IF F!missing_sync THEN misses + 1 ELSE misses
  BY <1>1 DEF History, Least, sync_locked, F!sync_locked
<1>8. FrameType'
  <2>1. meta_cntr' \in 0..(META_FRAME_LEN - 1)
    BY <1>3, Sizes DEF FrameInv, FrameType
  <2>2. meta_cntr_max' \in BOOLEAN /\ (meta_cntr_max' <=> meta_cntr' = META_FRAME_LEN - 1)
    <3>1. CASE frame = "SEARCH"
      <4>1. meta_cntr' # META_FRAME_LEN - 1
        BY <1>3, <3>1, Sizes
      <4> QED BY <1>3, <3>1, <4>1, Zenon
    <3>2. CASE frame # "SEARCH" /\ din_valid
      <4>1. meta_cntr = META_FRAME_LEN - 2 <=> meta_cntr' = META_FRAME_LEN - 1
        BY <1>3, <3>2, Sizes DEF FrameInv, FrameType
      <4> QED BY <1>3, <3>2, <4>1, Zenon
    <3>3. CASE frame # "SEARCH" /\ ~din_valid
      <4>1. meta_cntr' = meta_cntr /\ meta_cntr_max' = meta_cntr_max
        BY <1>3, <3>3
      <4>2. meta_cntr_max \in BOOLEAN /\ (meta_cntr_max <=> meta_cntr = META_FRAME_LEN - 1)
        BY DEF FrameInv, FrameType
      <4> QED BY <4>1, <4>2
    <3> QED BY <3>1, <3>2, <3>3
  <2>3. sync_tally' \in 0..7 /\ goods' \in 0..4 /\ misses' \in Nat
    BY <1>5, <1>7 DEF FrameInv, FrameType
  <2>4. frame' \in {"RESET", "SEARCH", "VERIFY", "LOCKED"}
    BY <1>6 DEF FrameInv, FrameType
  <2> QED BY <2>1, <2>2, <2>3, <2>4 DEF FrameType
<1>9. frame' = "VERIFY" => sync_tally' <= 3 /\ goods' >= sync_tally' + 1
  BY <1>4, <1>5, <1>6, <1>7 DEF FrameInv, FrameType, F!rst_sync_tally, F!inc_sync_tally
<1>10. frame' = "LOCKED" => sync_tally' <= 4 /\ misses' = sync_tally'
  BY <1>4, <1>5, <1>6, <1>7 DEF FrameInv, FrameType, F!rst_sync_tally, F!inc_sync_tally
<1> QED BY <1>8, <1>9, <1>10 DEF FrameInv
------------------------------------------------------------------------------
(* The errors a settled lock has counted are misframed words that came     *)
(* since the window began.                                                 *)
Late == recent \cap 1..word_cntr

ErrInv == /\ recent \subseteq 1..Window
          /\ settled => align = "LOCKED" /\ sync_err_cntr <= Cardinality(Late)

(* The late words are finitely many, and are recent ones. *)
LEMMA LateFinite ==
    ASSUME ErrInv, AlignType
    PROVE  /\ IsFiniteSet(recent) /\ IsFiniteSet(Late)
           /\ Cardinality(Late) \in Nat /\ Cardinality(recent) \in Nat
           /\ Cardinality(Late) <= Cardinality(recent)
<1>1. IsFiniteSet(1..Window)
  BY FS_Interval, Sizes
<1>2. IsFiniteSet(recent)
  BY <1>1, FS_Subset DEF ErrInv
<1>3. Late \subseteq recent
  BY DEF Late
<1>4. IsFiniteSet(Late) /\ Cardinality(Late) <= Cardinality(recent)
  BY <1>2, <1>3, FS_Subset
<1> QED BY <1>2, <1>4, FS_CardinalityType

(* A word makes the late ones older, and is late itself if misframed.      *)
LEMMA LateGrows ==
    ASSUME ErrInv, AlignType, word_cntr < Window - 1, NEW framed \in BOOLEAN,
           word_cntr' = word_cntr + 1,
           recent' = {i + 1 : i \in recent \ {Window}} \cup (IF framed THEN {} ELSE {1})
    PROVE  Cardinality(Late') = IF framed THEN Cardinality(Late) ELSE Cardinality(Late) + 1
<1> DEFINE Older == {i + 1 : i \in Late}
           f == [i \in Late |-> i + 1]
<1>1. Late \subseteq Int /\ IsFiniteSet(Late)
  BY LateFinite DEF Late
<1>2. f \in Bijection(Late, Older)
  <2>1. f \in [Late -> Older]
    OBVIOUS
  <2>2. IsInjective(f)
    BY <1>1 DEF IsInjective
  <2>3. \A t \in Older : \E s \in Late : f[s] = t
    OBVIOUS
  <2> QED BY <2>1, <2>2, <2>3 DEF Bijection, Injection, Surjection
<1>3. IsFiniteSet(Older) /\ Cardinality(Older) = Cardinality(Late)
  <2> HIDE DEF f, Older
  <2>1. ExistsBijection(Late, Older)
    BY <1>2 DEF ExistsBijection
  <2> QED BY <1>1, <2>1, FS_Bijection
<1>4. Late' = Older \cup (IF framed THEN {} ELSE {1})
  BY Sizes DEF Late, ErrInv, AlignType
<1>5. 1 \notin Older
  BY DEF Late
<1> HIDE DEF Older
<1>6. CASE framed
  BY <1>3, <1>4, <1>6
<1>7. CASE ~framed
  <2>1. Late' = Older \cup {1}
    BY <1>4, <1>7
  <2> QED BY <1>3, <1>5, <1>7, <2>1, FS_AddElement
<1> QED BY <1>6, <1>7

(* A clock keeps the error count below the late words. *)
LEMMA ErrStep ==
    ASSUME AlignInv, ErrInv, NEW din_valid \in BOOLEAN, NEW is_sync \in BOOLEAN, NEW framed \in BOOLEAN,
           Machines(din_valid, is_sync, framed), AlignInv'
    PROVE  ErrInv'
<1>1. /\ align # "SLIP" => word_cntr' = IF din_valid THEN IF word_cntr = Window - 1 THEN 0 ELSE word_cntr + 1
                                        ELSE word_cntr
      /\ sync_err_cntr' = IF align = "LOCKED" /\ word_cntr_max THEN 0
                          ELSE IF din_valid /\ ~framed /\ sync_err_cntr < Limit
                            THEN sync_err_cntr + 1 ELSE sync_err_cntr
  BY AlignMoves DEF AlignInv
<1>2. /\ recent' = IF ~din_valid THEN recent
                   ELSE {i + 1 : i \in recent \ {Window}} \cup (IF framed THEN {} ELSE {1})
      /\ settled' => align' = "LOCKED" /\ (settled \/ (align = "LOCKED" /\ word_cntr_max))
  BY DEF Machines, History, word_locked, W!word_locked
<1>3. recent' \subseteq 1..Window
  <2>1. ASSUME NEW a \in recent' PROVE a \in 1..Window
    <3>1. CASE a \in recent
      BY <3>1 DEF ErrInv
    <3>2. CASE \E i \in recent \ {Window} : a = i + 1
      BY <3>2, Sizes DEF ErrInv
    <3>3. CASE a = 1
      BY <3>3, Sizes
    <3> QED BY <1>2, <2>1, <3>1, <3>2, <3>3
  <2> QED BY <2>1
<1>4. AlignType /\ AlignType'
  BY DEF AlignInv
<1>5. Cardinality(Late) \in Nat
  BY <1>4, LateFinite
<1>6. ASSUME settled' PROVE sync_err_cntr' <= Cardinality(Late')
  <2>1. align = "LOCKED"
    BY <1>2, <1>6 DEF ErrInv
  <2>2. CASE word_cntr_max
    <3>1. sync_err_cntr' = 0
      BY <1>1, <2>1, <2>2
    <3>2. IsFiniteSet(Late')
      <4>1. IsFiniteSet(1..Window) /\ Late' \subseteq 1..Window
        BY <1>3, FS_Interval, Sizes DEF Late
      <4> QED BY <4>1, FS_Subset
    <3>3. Cardinality(Late') \in Nat
      BY <3>2, FS_CardinalityType
    <3> QED BY <3>1, <3>3
  <2>3. CASE ~word_cntr_max /\ ~din_valid
    <3>1. recent' = recent /\ word_cntr' = word_cntr /\ sync_err_cntr' = sync_err_cntr
      BY <1>1, <1>2, <2>1, <2>3
    <3>2. settled
      BY <1>2, <1>6, <2>3
    <3>3. Late' = Late
      BY <3>1 DEF Late
    <3> QED BY <3>1, <3>2, <3>3 DEF ErrInv
  <2>4. CASE ~word_cntr_max /\ din_valid
    <3>1. settled /\ word_cntr # Window - 1
      BY <1>2, <1>6, <2>4, <1>4 DEF AlignType
    <3>2. word_cntr < Window - 1 /\ word_cntr' = word_cntr + 1
      BY <1>1, <1>4, <2>1, <2>4, <3>1, Sizes DEF AlignType
    <3>3. recent' = {i + 1 : i \in recent \ {Window}} \cup (IF framed THEN {} ELSE {1})
      BY <1>2, <2>4
    <3>4. Cardinality(Late') = IF framed THEN Cardinality(Late) ELSE Cardinality(Late) + 1
      BY <1>4, <3>2, <3>3, LateGrows
    <3>5. sync_err_cntr' = IF ~framed /\ sync_err_cntr < Limit THEN sync_err_cntr + 1 ELSE sync_err_cntr
      BY <1>1, <2>4
    <3>6. sync_err_cntr <= Cardinality(Late) /\ sync_err_cntr \in Nat
      BY <1>4, <3>1, Sizes DEF ErrInv, AlignType
    <3> QED BY <1>5, <3>4, <3>5, <3>6
  <2> QED BY <2>2, <2>3, <2>4
<1> QED BY <1>2, <1>3, <1>6 DEF ErrInv
------------------------------------------------------------------------------
(* The line: the word after a received sync word is the state word, and no *)
(* word arrives in the clock after another.                                *)
LineInv == /\ aligned \in BOOLEAN /\ tx_pos \in 0..(META_FRAME_LEN - 1) /\ gap \in 0..MinGap
           /\ last_din_valid => gap = 0 /\ (sync_detected => aligned /\ tx_pos = 1)
           /\ InStep

(* What one clock does to the frame machine, as far as counting goes.      *)
LEMMA FrameMoves ==
    ASSUME FrameType, NEW din_valid \in BOOLEAN, NEW is_sync \in BOOLEAN, NEW framed \in BOOLEAN,
           Machines(din_valid, is_sync, framed)
    PROVE  /\ last_din_valid' = din_valid
           /\ din_valid => sync_detected' = is_sync
           /\ meta_cntr' = IF frame = "SEARCH" THEN 1
                           ELSE IF din_valid THEN IF meta_cntr = META_FRAME_LEN - 1 THEN 0 ELSE meta_cntr + 1
                           ELSE meta_cntr
           /\ frame' \in {"VERIFY", "LOCKED"} =>
                 /\ align = "LOCKED"
                 /\ \/ frame \in {"VERIFY", "LOCKED"}
                    \/ frame = "SEARCH" /\ last_din_valid /\ sync_detected
<1>1. F!Clock(din_valid, is_sync, word_locked, last_verify /\ match, last_verify /\ ~match)
  BY DEF Machines
<1>2. last_din_valid' = din_valid /\ (din_valid => sync_detected' = is_sync)
  BY <1>1 DEF F!Clock
<1>3. meta_cntr' = IF frame = "SEARCH" THEN 1
                   ELSE IF din_valid THEN IF meta_cntr_max THEN 0 ELSE meta_cntr + 1
                   ELSE meta_cntr
  BY <1>1 DEF F!Clock, F!MetaFrame, F!Frozen
<1>4. meta_cntr_max <=> meta_cntr = META_FRAME_LEN - 1
  BY DEF FrameType
<1>5. frame' \in {"VERIFY", "LOCKED"} =>
         word_locked /\ (frame \in {"VERIFY", "LOCKED"} \/ (frame = "SEARCH" /\ F!good_sync))
  BY <1>1 DEF F!Clock, F!next_state, F!Verified, F!Failed, FrameType
<1> QED BY <1>2, <1>3, <1>4, <1>5 DEF word_locked, W!word_locked, F!good_sync

(* A clock keeps the receiver in step with the line. *)
LEMMA LineStep ==
    ASSUME FrameType, LineInv, Word \/ Idle \/ Slip
    PROVE  LineInv'
<1>1. CASE Word
  <2>1. PICK ok \in BOOLEAN, framed \in BOOLEAN :
           /\ gap = MinGap
           /\ Machines(TRUE, aligned /\ ok /\ tx_pos = 0, framed)
           /\ gap' = 0
           /\ tx_pos' = IF aligned THEN (tx_pos + 1) % META_FRAME_LEN ELSE tx_pos
           /\ aligned' = aligned
    BY <1>1 DEF Word
  <2>2. tx_pos' = IF aligned THEN IF tx_pos = META_FRAME_LEN - 1 THEN 0 ELSE tx_pos + 1 ELSE tx_pos
    BY <2>1, NextOf, Sizes DEF LineInv
  <2>3. ~last_din_valid
    BY <2>1, Sizes DEF LineInv
  <2>4. /\ last_din_valid' = TRUE
        /\ sync_detected' = (aligned /\ ok /\ tx_pos = 0)
        /\ meta_cntr' = IF frame = "SEARCH" THEN 1
                        ELSE IF meta_cntr = META_FRAME_LEN - 1 THEN 0 ELSE meta_cntr + 1
        /\ frame' \in {"VERIFY", "LOCKED"} => align = "LOCKED" /\ frame \in {"VERIFY", "LOCKED"}
    <3> DEFINE s == aligned /\ ok /\ tx_pos = 0
    <3>1. s \in BOOLEAN /\ Machines(TRUE, s, framed)
      BY <2>1
    <3> HIDE DEF s
    <3>2. /\ last_din_valid' = TRUE /\ sync_detected' = s
          /\ meta_cntr' = IF frame = "SEARCH" THEN 1
                          ELSE IF meta_cntr = META_FRAME_LEN - 1 THEN 0 ELSE meta_cntr + 1
          /\ frame' \in {"VERIFY", "LOCKED"} =>
                 /\ align = "LOCKED"
                 /\ \/ frame \in {"VERIFY", "LOCKED"}
                    \/ frame = "SEARCH" /\ last_din_valid /\ sync_detected
      BY <3>1, FrameMoves
    <3> QED BY <2>3, <3>2 DEF s
  <2>5. tx_pos' \in 0..(META_FRAME_LEN - 1) /\ gap' \in 0..MinGap
    BY <2>1, <2>2, Sizes DEF LineInv
  <2>6. aligned' \in BOOLEAN
    BY <2>1 DEF LineInv
  <2>7. sync_detected' => aligned' /\ tx_pos' = 1
    <3>1. ASSUME aligned, tx_pos = 0 PROVE tx_pos' = 1
      BY <2>2, <3>1, Sizes
    <3> QED BY <2>1, <2>4, <3>1
  <2>8. InStep'
    <3> SUFFICES ASSUME frame' \in {"VERIFY", "LOCKED"} PROVE aligned' /\ meta_cntr' = tx_pos'
      BY DEF InStep
    <3>1. frame \in {"VERIFY", "LOCKED"} /\ aligned /\ meta_cntr = tx_pos
      BY <2>4 DEF LineInv, InStep, word_locked, W!word_locked
    <3>2. meta_cntr' = tx_pos'
      BY <2>2, <2>4, <3>1
    <3> QED BY <2>1, <3>1, <3>2
  <2> QED BY <2>1, <2>5, <2>6, <2>7, <2>8 DEF LineInv
<1>2. ASSUME Machines(FALSE, FALSE, FALSE)
      PROVE  /\ ~last_din_valid'
             /\ meta_cntr' = IF frame = "SEARCH" THEN 1 ELSE meta_cntr
             /\ frame' \in {"VERIFY", "LOCKED"} =>
                 /\ align = "LOCKED"
                 /\ \/ frame \in {"VERIFY", "LOCKED"}
                    \/ frame = "SEARCH" /\ last_din_valid /\ sync_detected
  BY <1>2, FrameMoves
<1>3. CASE Idle
  <2>1. /\ Machines(FALSE, FALSE, FALSE) /\ aligned' = aligned /\ tx_pos' = tx_pos
        /\ gap' = IF gap + 1 < MinGap THEN gap + 1 ELSE MinGap
    BY <1>3 DEF Idle, Least
  <2>3. gap' \in 0..MinGap
    BY <2>1, Sizes DEF LineInv
  <2>2. InStep'
    <3> SUFFICES ASSUME frame' \in {"VERIFY", "LOCKED"} PROVE aligned' /\ meta_cntr' = tx_pos'
      BY DEF InStep
    <3>1. CASE frame \in {"VERIFY", "LOCKED"}
      BY <1>2, <2>1, <3>1 DEF LineInv, InStep, word_locked, W!word_locked
    <3>2. CASE frame = "SEARCH" /\ last_din_valid /\ sync_detected
      BY <1>2, <2>1, <3>2 DEF LineInv
    <3> QED BY <1>2, <2>1, <3>1, <3>2
  <2> QED BY <1>2, <2>1, <2>2, <2>3 DEF LineInv
<1>4. CASE Slip
  <2>1. /\ Machines(FALSE, FALSE, FALSE) /\ align = "SLIP"
        /\ aligned' \in BOOLEAN /\ tx_pos' \in TxPlaces(aligned')
        /\ gap' = IF gap + 1 < MinGap THEN gap + 1 ELSE MinGap
    BY <1>4 DEF Slip, Least, W!slip_to_frame
  <2>3. tx_pos' \in 0..(META_FRAME_LEN - 1)
    BY <2>1, Sizes DEF TxPlaces
  <2>4. gap' \in 0..MinGap
    BY <2>1, Sizes DEF LineInv
  <2>2. InStep'
    BY <1>2, <2>1 DEF InStep
  <2> QED BY <1>2, <2>1, <2>2, <2>3, <2>4 DEF LineInv
<1> QED BY <1>1, <1>3, <1>4
------------------------------------------------------------------------------
(* The inductive invariant. *)
Inv == AlignInv /\ FrameInv /\ ErrInv /\ LineInv

(* The lane starts in the invariant, in reset. *)
LEMMA InvInit == Init => Inv
<1> SUFFICES ASSUME Init PROVE Inv
  OBVIOUS
<1>1. AlignInv
  <2>1. align = "RESET" /\ word_cntr = 0 /\ word_cntr_max = FALSE /\ sync_err_cntr = 0 /\ run = 0
    BY DEF Init, W!Init
  <2>2. word_cntr # Window - 1 /\ word_cntr \in 0..(Window - 1) /\ sync_err_cntr \in 0..Limit
    BY <2>1, Sizes
  <2>3. run \in -Longest..Window
    BY <2>1, Sizes DEF Longest
  <2> QED BY <2>1, <2>2, <2>3 DEF AlignInv, AlignType
<1>2. FrameInv
  <2>1. /\ frame = "RESET" /\ meta_cntr = 0 /\ meta_cntr_max = FALSE
        /\ sync_tally = 0 /\ goods = 0 /\ misses = 0
    BY DEF Init, F!Init
  <2>2. /\ meta_cntr # META_FRAME_LEN - 1 /\ meta_cntr \in 0..(META_FRAME_LEN - 1)
        /\ sync_tally \in 0..7 /\ goods \in 0..4 /\ misses \in Nat
    BY <2>1, Sizes
  <2> QED BY <2>1, <2>2 DEF FrameInv, FrameType
<1>3. ErrInv
  BY DEF Init, ErrInv
<1>4. LineInv
  BY Sizes DEF Init, F!Init, LineInv, InStep, TxPlaces
<1> QED BY <1>1, <1>2, <1>3, <1>4 DEF Inv

(* A reset, its release and a clock of the machines all keep it. *)
LEMMA InvNext == Inv /\ [Next]_vars => Inv'
<1> SUFFICES ASSUME Inv, [Next]_vars PROVE Inv'
  OBVIOUS
<1>1. CASE AssertArst
  <2>1. AlignInv'
    <3>1. /\ align' = "RESET" /\ word_cntr' = 0 /\ word_cntr_max' = FALSE
          /\ sync_err_cntr' = 0 /\ run' = 0
      BY <1>1 DEF AssertArst, W!Reset
    <3>2. word_cntr' # Window - 1 /\ word_cntr' \in 0..(Window - 1) /\ sync_err_cntr' \in 0..Limit
      BY <3>1, Sizes
    <3>3. run' \in -Longest..Window
      BY <3>1, Sizes DEF Longest
    <3> QED BY <3>1, <3>2, <3>3 DEF AlignInv, AlignType
  <2>2. FrameInv'
    <3>1. /\ frame' = "RESET" /\ meta_cntr' = 0 /\ meta_cntr_max' = FALSE
          /\ sync_tally' = 0 /\ goods' = 0 /\ misses' = 0
      BY <1>1 DEF AssertArst, F!Reset
    <3>2. /\ meta_cntr' # META_FRAME_LEN - 1 /\ meta_cntr' \in 0..(META_FRAME_LEN - 1)
          /\ sync_tally' \in 0..7 /\ goods' \in 0..4 /\ misses' \in Nat
      BY <3>1, Sizes
    <3> QED BY <3>1, <3>2 DEF FrameInv, FrameType
  <2>3. ErrInv'
    BY <1>1 DEF AssertArst, ErrInv
  <2>4. LineInv'
    BY <1>1, Sizes DEF AssertArst, F!Reset, LineInv, InStep, TxPlaces
  <2> QED BY <2>1, <2>2, <2>3, <2>4 DEF Inv
<1>2. CASE ReleaseArst \/ UNCHANGED vars
  <2>1. UNCHANGED <<alignVars, frameVars, scrVars, lineVars, hist>>
    BY <1>2 DEF ReleaseArst, vars
  <2>2. AlignInv'
    BY <2>1 DEF Inv, alignVars, hist, AlignInv, AlignType, Deaf
  <2>3. FrameInv'
    BY <2>1 DEF Inv, frameVars, hist, FrameInv, FrameType
  <2>4. ErrInv'
    BY <2>1 DEF Inv, alignVars, hist, ErrInv, Late
  <2>5. LineInv'
    BY <2>1 DEF Inv, alignVars, frameVars, lineVars, LineInv, InStep, word_locked, W!word_locked
  <2> QED BY <2>2, <2>3, <2>4, <2>5 DEF Inv
<1>3. CASE Word \/ Idle \/ Slip
  <2>1. \E din_valid, is_sync, framed \in BOOLEAN : Machines(din_valid, is_sync, framed)
    BY <1>3 DEF Word, Idle, Slip, Inv, LineInv
  <2>2. PICK din_valid \in BOOLEAN, is_sync \in BOOLEAN, framed \in BOOLEAN :
            Machines(din_valid, is_sync, framed)
    BY <2>1
  <2>3. AlignInv'
    BY <2>2, AlignStep DEF Inv
  <2>4. FrameInv'
    BY <2>2, FrameStep DEF Inv
  <2>5. ErrInv'
    BY <2>2, <2>3, ErrStep DEF Inv
  <2>6. LineInv'
    BY <1>3, LineStep DEF Inv, FrameInv
  <2> QED BY <2>3, <2>4, <2>5, <2>6 DEF Inv
<1> QED BY <1>1, <1>2, <1>3 DEF Next

(* Both machines, the counted errors and the line keep to their invariants. *)
THEOREM InvCorrect == Spec => []Inv
BY InvInit, InvNext, PTL DEF Spec
------------------------------------------------------------------------------
(* A lane that has received nothing but misframed words for as long as a   *)
(* window and the errors it still forgives is not locked.                  *)
THEOREM DeafLockLeftCorrect == Spec => []DeafLockLeft
<1>1. Inv => DeafLockLeft
  BY Sizes DEF Inv, AlignInv, AlignType, Deaf, DeafLockLeft, Longest, word_locked, W!word_locked
<1> QED BY <1>1, InvCorrect, PTL

(* A receiver that verifies or has locked the frame counts the words of    *)
(* the metaframe with the transmitter.                                     *)
THEOREM InStepCorrect == Spec => []InStep
<1>1. Inv => InStep
  BY DEF Inv, LineInv
<1> QED BY <1>1, InvCorrect, PTL

(* A step leaves or enters a lock only as a clock of both machines.        *)
LEMMA LockMoves ==
    ASSUME Inv, [Next]_vars
    PROVE  \/ align' = "RESET" /\ frame' = "RESET" /\ arst'
           \/ align' = align /\ frame' = frame
           \/ \E din_valid, is_sync, framed \in BOOLEAN : Machines(din_valid, is_sync, framed)
<1>1. CASE AssertArst
  BY <1>1 DEF AssertArst, W!Reset, F!Reset
<1>2. CASE ReleaseArst \/ UNCHANGED vars
  BY <1>2 DEF ReleaseArst, vars, alignVars, frameVars
<1>3. CASE Word \/ Idle \/ Slip
  BY <1>3 DEF Word, Idle, Slip, Inv, LineInv
<1> QED BY <1>1, <1>2, <1>3 DEF Next

(* When the frame machine moves in and out of its lock.                    *)
LEMMA FrameLocks ==
    ASSUME FrameType, NEW din_valid \in BOOLEAN, NEW is_sync \in BOOLEAN, NEW framed \in BOOLEAN,
           Machines(din_valid, is_sync, framed)
    PROVE  /\ frame # "LOCKED" /\ frame' = "LOCKED" => frame = "VERIFY" /\ sync_tally = 3
           /\ frame = "LOCKED" /\ frame' # "LOCKED" =>
                 ~word_locked \/ sync_tally = 4 \/ scramble_miss_cntr = 3
BY DEF Machines, F!Clock, F!next_state, F!Verified, F!Failed, FrameType

(* A word lock is given after Window framed words in a row, and a sync     *)
(* lock after four good sync words in a row.                               *)
THEOREM LocksEarnedCorrect == Spec => LocksEarned
<1>1. Inv /\ [Next]_vars => [~word_locked /\ word_locked' => run = Window]_vars
  <2> SUFFICES ASSUME Inv, [Next]_vars, align # "LOCKED", align' = "LOCKED" PROVE run = Window
    BY DEF word_locked, W!word_locked
  <2>1. PICK din_valid \in BOOLEAN, is_sync \in BOOLEAN, framed \in BOOLEAN :
            Machines(din_valid, is_sync, framed)
    BY LockMoves
  <2>2. align = "VERIFY" /\ word_cntr_max
    BY <2>1, AlignMoves DEF Inv, AlignInv, AlignType
  <2> QED BY <2>2, Sizes DEF Inv, AlignInv, AlignType
<1>2. Inv /\ [Next]_vars => [~sync_locked /\ sync_locked' => goods = 4]_vars
  <2> SUFFICES ASSUME Inv, [Next]_vars, frame # "LOCKED", frame' = "LOCKED" PROVE goods = 4
    BY DEF sync_locked, F!sync_locked
  <2>1. PICK din_valid \in BOOLEAN, is_sync \in BOOLEAN, framed \in BOOLEAN :
            Machines(din_valid, is_sync, framed)
    BY LockMoves
  <2>2. frame = "VERIFY" /\ sync_tally = 3
    BY <2>1, FrameLocks DEF Inv, FrameInv
  <2> QED BY <2>2 DEF Inv, FrameInv, FrameType
<1> QED BY <1>1, <1>2, InvCorrect, PTL DEF Spec, LocksEarned

(* A settled word lock is lost for Limit misframed words of one window, a  *)
(* sync lock for four missing sync words in a row, three wrong scrambler   *)
(* states or the loss of the word lock.                                    *)
THEOREM LossesJustifiedCorrect == Spec => LossesJustified
<1>1. Inv /\ [Next]_vars => [Lost /\ settled => Cardinality(recent) >= Limit]_vars
  <2> SUFFICES ASSUME Inv, [Next]_vars, align = "LOCKED", align' # "LOCKED", ~arst', settled
               PROVE  Cardinality(recent) >= Limit
    BY DEF Lost, word_locked, W!word_locked
  <2>1. PICK din_valid \in BOOLEAN, is_sync \in BOOLEAN, framed \in BOOLEAN :
            Machines(din_valid, is_sync, framed)
    BY LockMoves
  <2>2. sync_err_cntr = Limit
    BY <2>1, AlignMoves DEF Inv, AlignInv
  <2>3. sync_err_cntr <= Cardinality(Late)
    BY DEF Inv, ErrInv
  <2>4. /\ Cardinality(Late) \in Nat /\ Cardinality(recent) \in Nat
        /\ Cardinality(Late) <= Cardinality(recent)
    BY LateFinite DEF Inv, AlignInv
  <2> QED BY <2>2, <2>3, <2>4, Sizes
<1>2. Inv /\ [Next]_vars =>
        [sync_locked /\ ~sync_locked' =>
             arst' \/ ~word_locked \/ misses = 4 \/ scramble_miss_cntr = 3]_vars
  <2> SUFFICES ASSUME Inv, [Next]_vars, frame = "LOCKED", frame' # "LOCKED", ~arst'
               PROVE  ~word_locked \/ misses = 4 \/ scramble_miss_cntr = 3
    BY DEF sync_locked, F!sync_locked
  <2>1. PICK din_valid \in BOOLEAN, is_sync \in BOOLEAN, framed \in BOOLEAN :
            Machines(din_valid, is_sync, framed)
    BY LockMoves
  <2>2. ~word_locked \/ sync_tally = 4 \/ scramble_miss_cntr = 3
    BY <2>1, FrameLocks DEF Inv, FrameInv
  <2> QED BY <2>2 DEF Inv, FrameInv
<1> QED BY <1>1, <1>2, InvCorrect, PTL DEF Spec, LossesJustified
=============================================================================
