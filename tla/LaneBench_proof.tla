---------------------------- MODULE LaneBench_proof ----------------------------
(***************************************************************************)
(* TLAPS proofs about LaneBench: what the program of LaneTraffic writes,   *)
(* and what lane_rx reads back, for metaframes, words and lane blocks of   *)
(* any size.                                                               *)
(***************************************************************************)
EXTENDS LaneBench, SequenceTheorems, TLAPS

(* What is assumed of the sizes. *)
LEMMA Sizes == /\ lane_bits \in Nat /\ lane_bits >= 8 /\ Nybbles \in Nat /\ Nybbles >= 1
               /\ WordBits \in Nat /\ WordBits = 3 + 4 * Nybbles
BY TrafficAssumption DEF WordBits, FramingBits
------------------------------------------------------------------------------
(* The bits of the file that lane_tx_gearbox has taken from it.            *)
Taken == (line - 1) * WordBits + (IF nybble = 0 THEN 0 ELSE FramingBits + 4 * (nybble - 1))

(* The residue holds the last bits taken, in order, and with them all that *)
(* are not sent; after the framing bits of a word these may be up to three *)
(* more than a block leaves, because the program does not look for a block *)
(* there.                                                                  *)
Numbered(bits, last) == \A k \in 1..Len(bits) : bits[k] = last - Len(bits) + k

GearType == /\ line \in Nat \ {0} /\ nybble \in 0..Nybbles
            /\ sent \in Nat /\ bits_residue \in Nat

GearInv ==
    /\ GearType
    /\ sent + bits_residue = Taken
    /\ bits_residue < lane_bits + (IF nybble = 1 THEN FramingBits ELSE 0)
    /\ residue \in Seq(Nat) /\ bits_residue <= Len(residue)
    /\ Numbered(residue, Taken)
    /\ block # <<>> => block = [k \in 1..lane_bits |-> sent - lane_bits + k]

(* What a nybble adds to the bits taken.                                   *)
LEMMA TakenGrows ==
    ASSUME GearType, nybble' = (nybble + 1) % (Nybbles + 1),
           line' = IF nybble = Nybbles THEN line + 1 ELSE line
    PROVE  /\ Taken \in Nat /\ Taken' = Taken + BitsOf(nybble) /\ BitsOf(nybble) \in {3, 4}
           /\ line' \in Nat \ {0} /\ nybble' \in 0..Nybbles
           /\ (nybble' = 1) = (nybble = 0)
           /\ Taken = (line - 1) * WordBits
                      + (IF nybble = 0 THEN 0 ELSE FramingBits + 4 * (nybble - 1))
<1>1. /\ line \in Nat \ {0} /\ nybble \in 0..Nybbles /\ Nybbles \in Nat /\ Nybbles >= 1
      /\ WordBits \in Nat /\ WordBits = 3 + 4 * Nybbles
  BY Sizes DEF GearType
<1>2. (nybble + 1) % (Nybbles + 1) = IF nybble = Nybbles THEN 0 ELSE nybble + 1
  BY <1>1
<1>3. nybble' = IF nybble = Nybbles THEN 0 ELSE nybble + 1
  BY <1>2
<1>4. line' \in Nat \ {0} /\ nybble' \in 0..Nybbles /\ (nybble' = 1) = (nybble = 0)
  BY <1>1, <1>3
<1>5. PICK base \in Nat : base = (line - 1) * WordBits
  BY <1>1
<1>6. line * WordBits = base + WordBits
  BY <1>1, <1>5
<1>7. (line' - 1) * WordBits = IF nybble = Nybbles THEN base + WordBits ELSE base
  <2>1. CASE nybble = Nybbles
    <3>1. line' - 1 = line
      BY <1>1, <2>1
    <3> QED BY <1>6, <2>1, <3>1
  <2>2. CASE nybble # Nybbles
    BY <1>5, <2>2
  <2> QED BY <2>1, <2>2
<1>8. Taken = base + (IF nybble = 0 THEN 0 ELSE 3 + 4 * (nybble - 1))
  BY <1>5 DEF Taken, FramingBits
<1>9. Taken' = (IF nybble = Nybbles THEN base + WordBits ELSE base)
               + (IF nybble' = 0 THEN 0 ELSE 3 + 4 * (nybble' - 1))
  <2>1. Taken' = (line' - 1) * WordBits + (IF nybble' = 0 THEN 0 ELSE 3 + 4 * (nybble' - 1))
    BY DEF Taken, FramingBits, WordBits
  <2> QED BY <1>7, <2>1
<1>10. Taken' = Taken + BitsOf(nybble) /\ Taken \in Nat
  BY <1>1, <1>3, <1>5, <1>8, <1>9 DEF BitsOf, FramingBits
<1> QED BY <1>4, <1>10 DEF BitsOf, FramingBits, Taken

(* A piece of a sequence of numbered bits.                                 *)
LEMMA Piece ==
    ASSUME NEW bits \in Seq(Nat), NEW last \in Nat, Numbered(bits, last),
           NEW m \in 1..Len(bits), NEW n \in m..Len(bits)
    PROVE  /\ SubSeq(bits, m, n) \in Seq(Nat)
           /\ Len(SubSeq(bits, m, n)) = (n - m) + 1
           /\ \A k \in 1..((n - m) + 1) :
                SubSeq(bits, m, n)[k] = (last - Len(bits)) + (m + (k - 1))
<1>1. PICK length \in Nat : length = Len(bits)
  OBVIOUS
<1>2. m \in 1..length /\ n \in m..length
  BY <1>1
<1>3. \A i \in m..n : bits[i] \in Nat
  <2>1. \A i \in m..n : i \in 1..length
    BY <1>2
  <2> QED BY <1>1, <2>1, ElementOfSeq
<1>4. /\ SubSeq(bits, m, n) \in Seq(Nat)
      /\ Len(SubSeq(bits, m, n)) = IF m <= n THEN n - m + 1 ELSE 0
      /\ \A k \in 1..(n - m + 1) : SubSeq(bits, m, n)[k] = bits[m + k - 1]
  BY <1>2, <1>3, SubSeqProperties
<1>5. ASSUME NEW k \in 1..((n - m) + 1)
      PROVE  bits[m + k - 1] = (last - length) + (m + (k - 1))
  <2>1. PICK i \in 1..length : i = m + k - 1 /\ i = m + (k - 1)
    BY <1>2
  <2>2. bits[i] = (last - length) + i
    BY <1>1, <2>1 DEF Numbered
  <2> QED BY <2>1, <2>2
<1> DEFINE piece == SubSeq(bits, m, n)
<1>6. /\ piece \in Seq(Nat) /\ Len(piece) = (n - m) + 1
      /\ \A k \in 1..((n - m) + 1) : piece[k] = bits[m + k - 1]
  <2>1. m <= n /\ n - m + 1 = (n - m) + 1
    BY <1>2
  <2> QED BY <1>4, <2>1, Zenon
<1> HIDE DEF piece
<1>7. \A k \in 1..((n - m) + 1) : piece[k] = (last - Len(bits)) + (m + (k - 1))
  BY <1>1, <1>5, <1>6
<1> QED BY <1>6, <1>7 DEF piece

(* Bits appended to a sequence of numbered bits.                           *)
LEMMA Longer ==
    ASSUME NEW old \in Seq(Nat), NEW taken \in Nat, NEW bits \in Nat, Numbered(old, taken)
    PROVE  LET both == old \o [k \in 1..bits |-> taken + k] IN
           both \in Seq(Nat) /\ Len(both) = Len(old) + bits /\ Numbered(both, taken + bits)
<1> DEFINE add == [k \in 1..bits |-> taken + k]
           both == old \o add
<1>1. add \in Seq(Nat) /\ Len(add) = bits /\ \A k \in 1..bits : add[k] = taken + k
  OBVIOUS
<1> HIDE DEF add
<1>2. /\ both \in Seq(Nat) /\ Len(both) = Len(old) + bits
      /\ \A k \in 1..(Len(old) + bits) :
            both[k] = IF k <= Len(old) THEN old[k] ELSE add[k - Len(old)]
  BY <1>1, ConcatProperties
<1> HIDE DEF both
<1>3. PICK length \in Nat : length = Len(old)
  OBVIOUS
<1>4. ASSUME NEW k \in 1..(length + bits)
      PROVE  both[k] = (taken + bits) - (length + bits) + k
  <2>1. CASE k <= length
    <3>1. k \in 1..length
      BY <2>1
    <3>2. old[k] = (taken - length) + k
      BY <1>3, <3>1 DEF Numbered
    <3>3. both[k] = old[k]
      BY <1>2, <1>3, <2>1
    <3> QED BY <3>2, <3>3
  <2>2. CASE k > length
    <3>1. PICK i \in 1..bits : i = k - length
      BY <2>2
    <3>2. both[k] = add[i]
      BY <1>2, <1>3, <2>2, <3>1
    <3>3. both[k] = taken + i
      BY <1>1, <3>2
    <3> QED BY <3>1, <3>3
  <2> QED BY <2>1, <2>2
<1>5. Numbered(both, taken + bits)
  BY <1>2, <1>3, <1>4 DEF Numbered
<1> QED BY <1>2, <1>5 DEF both, add

(* The oldest bits are shifted out of the residue when it has 64: what is  *)
(* kept are still the last bits taken.                                     *)
LEMMA LatestBits ==
    ASSUME NEW both \in Seq(Nat), NEW last \in Nat, Numbered(both, last)
    PROVE  /\ Latest(both) \in Seq(Nat) /\ Numbered(Latest(both), last)
           /\ Len(Latest(both)) = IF Len(both) <= 64 THEN Len(both) ELSE 64
<1>1. PICK length \in Nat : length = Len(both)
  OBVIOUS
<1>2. CASE length <= 64
  BY <1>1, <1>2 DEF Latest
<1>3. CASE length > 64
  <2>1. PICK low \in 1..length : low = length - 63 /\ length \in low..length
    BY <1>3
  <2>2. Latest(both) = SubSeq(both, low, length)
    <3>1. ~(Len(both) <= 64) /\ Len(both) - 63 = low
      BY <1>1, <1>3, <2>1
    <3>2. Latest(both) = SubSeq(both, Len(both) - 63, Len(both))
      BY <3>1 DEF Latest
    <3> QED BY <1>1, <3>1, <3>2
  <2> DEFINE kept == SubSeq(both, low, length)
  <2>3. (length - low) + 1 = 64
    BY <2>1
  <2>4. /\ kept \in Seq(Nat) /\ Len(kept) = (length - low) + 1
        /\ \A k \in 1..((length - low) + 1) : kept[k] = (last - length) + (low + (k - 1))
    BY <1>1, <2>1, Piece
  <2> HIDE DEF kept
  <2>5. \A k \in 1..64 : kept[k] = (last - 64) + k
    BY <2>1, <2>3, <2>4
  <2>6. Len(kept) = 64 /\ Numbered(kept, last)
    BY <2>3, <2>4, <2>5 DEF Numbered
  <2> QED BY <1>1, <1>3, <2>2, <2>4, <2>6 DEF kept
<1> QED BY <1>2, <1>3

(* The block cut from the residue is the oldest bits not sent.             *)
LEMMA CutOldest ==
    ASSUME NEW bits \in Seq(Nat), NEW last \in Nat, NEW held \in Nat, NEW done \in Nat,
           Numbered(bits, last), lane_bits <= held, held <= Len(bits), done + held = last
    PROVE  Cut(bits, held) = [k \in 1..lane_bits |-> done + k]
<1>1. PICK length \in Nat, size \in Nat : length = Len(bits) /\ size = lane_bits /\ size >= 8
  BY Sizes
<1>7. held \in Nat /\ done \in Nat /\ size <= held /\ held <= length /\ done + held = last
  BY <1>1
<1>8. PICK low \in Int : low = (length - held) + 1
  BY <1>7
<1>9. PICK high \in Int : high = (length - held) + size
  BY <1>7
<1>2. /\ low \in 1..length /\ high \in low..length /\ (high - low) + 1 = size
      /\ low = (length - held) + 1 /\ high = (length - held) + size
  BY <1>1, <1>7, <1>8, <1>9
<1> DEFINE cut == SubSeq(bits, low, high)
<1>3. Cut(bits, held) = cut
  <2>1. Len(bits) - held + 1 = low /\ Len(bits) - held + lane_bits = high
    BY <1>1, <1>2
  <2> QED BY <2>1 DEF Cut
<1>4. /\ cut \in Seq(Nat) /\ Len(cut) = size
      /\ \A k \in 1..size : cut[k] = (last - length) + (low + (k - 1))
  <2>1. low \in 1..Len(bits) /\ high \in low..Len(bits)
    BY <1>1, <1>2
  <2>2. /\ cut \in Seq(Nat) /\ Len(cut) = (high - low) + 1
        /\ \A k \in 1..((high - low) + 1) : cut[k] = (last - Len(bits)) + (low + (k - 1))
    BY <2>1, Piece
  <2> HIDE DEF cut
  <2> QED BY <1>1, <1>2, <2>2
<1> HIDE DEF cut
<1>10. \A k \in 1..size : (last - length) + (low + (k - 1)) = done + k
  BY <1>1, <1>7, <1>8
<1>5. \A k \in 1..size : cut[k] = done + k
  BY <1>4, <1>10
<1>6. cut = [k \in 1..size |-> done + k]
  BY <1>4, <1>5
<1> QED BY <1>1, <1>3, <1>6

(* The residue has 64 bits, and up to six more than a block may be held in *)
(* it: blocks of up to 58 bits.  A step of the gearbox keeps the order.    *)
LEMMA NybbleStep ==
    ASSUME GearInv, Nybble, lane_bits <= 58
    PROVE  GearInv'
<1> DEFINE add == BitsOf(nybble)
           held == bits_residue + add
           bits == Latest(residue \o [k \in 1..add |-> Taken + k])
<1>1. GearType /\ lane_bits \in Nat /\ lane_bits >= 8
  BY Sizes DEF GearInv
<1>2. /\ nybble' = (nybble + 1) % (Nybbles + 1)
      /\ line' = IF nybble = Nybbles THEN line + 1 ELSE line
  BY DEF Nybble
<1>3. /\ residue' = bits
      /\ IF nybble # 0 /\ held >= lane_bits
           THEN /\ block' = Cut(bits, held) /\ sent' = sent + lane_bits
                /\ bits_residue' = held - lane_bits
           ELSE bits_residue' = held /\ block' = block /\ sent' = sent
  BY DEF Nybble, Enough, Taken
<1>4. /\ Taken \in Nat /\ Taken' = Taken + add /\ add \in {3, 4}
      /\ line' \in Nat \ {0} /\ nybble' \in 0..Nybbles /\ (nybble' = 1) = (nybble = 0)
      /\ add = IF nybble = 0 THEN 3 ELSE 4
  BY <1>1, <1>2, TakenGrows DEF BitsOf, FramingBits
<1>5. /\ sent \in Nat /\ bits_residue \in Nat /\ sent + bits_residue = Taken
      /\ bits_residue < lane_bits + (IF nybble = 1 THEN 3 ELSE 0)
      /\ residue \in Seq(Nat) /\ bits_residue <= Len(residue)
      /\ Numbered(residue, Taken)
      /\ block # <<>> => block = [k \in 1..lane_bits |-> sent - lane_bits + k]
  BY DEF GearInv, GearType, FramingBits
<1> HIDE DEF add
<1>12. add \in Nat /\ add <= 64 /\ Taken + add = Taken'
  BY <1>4
<1>6. /\ bits \in Seq(Nat) /\ Len(bits) \in Nat
      /\ Len(bits) = IF Len(residue) + add <= 64 THEN Len(residue) + add ELSE 64
      /\ Numbered(bits, Taken')
  <2> DEFINE both == residue \o [k \in 1..add |-> Taken + k]
  <2>1. both \in Seq(Nat) /\ Len(both) = Len(residue) + add /\ Numbered(both, Taken')
    <3>1. PICK taken \in Nat : taken = Taken
      BY <1>4
    <3>2. both = residue \o [k \in 1..add |-> taken + k]
      BY <3>1
    <3>3. /\ both \in Seq(Nat) /\ Len(both) = Len(residue) + add
          /\ Numbered(both, taken + add)
      BY <1>5, <1>12, <3>1, <3>2, Longer
    <3> QED BY <1>12, <3>1, <3>3
  <2>2. bits = Latest(both)
    OBVIOUS
  <2> HIDE DEF both, bits
  <2>3. Taken' \in Nat
    BY <1>4
  <2> QED BY <2>1, <2>2, <2>3, LatestBits
<1> HIDE DEF bits
<1>7. held \in Nat /\ sent + held = Taken' /\ held <= lane_bits + 6 /\ held <= Len(bits)
  BY <1>1, <1>4, <1>5, <1>6
<1>8. nybble # 0 => held < 2 * lane_bits
  BY <1>1, <1>4, <1>5
<1>9. /\ nybble' \in 0..Nybbles /\ line' \in Nat \ {0} /\ residue' \in Seq(Nat)
      /\ Numbered(residue', Taken') /\ Taken' \in Nat
  BY <1>3, <1>4, <1>6
<1>10. CASE nybble # 0 /\ held >= lane_bits
  <2>1. block' = Cut(bits, held) /\ sent' = sent + lane_bits /\ bits_residue' = held - lane_bits
    BY <1>3, <1>10
  <2>2. Cut(bits, held) = [k \in 1..lane_bits |-> sent + k]
    <3>1. PICK last \in Nat, all \in Nat : last = Taken' /\ all = held
      BY <1>7, <1>9
    <3>2. /\ Numbered(bits, last) /\ lane_bits <= all /\ all <= Len(bits) /\ sent + all = last
          /\ Cut(bits, held) = Cut(bits, all)
      BY <1>6, <1>7, <1>10, <3>1
    <3>3. bits \in Seq(Nat) /\ sent \in Nat
      BY <1>5, <1>6
    <3> QED BY <3>1, <3>2, <3>3, CutOldest
  <2>3. block' = [k \in 1..lane_bits |-> sent' - lane_bits + k]
    BY <1>1, <1>5, <2>1, <2>2
  <2>4. /\ sent' \in Nat /\ bits_residue' \in Nat /\ sent' + bits_residue' = Taken'
        /\ bits_residue' < lane_bits /\ bits_residue' <= Len(residue')
    BY <1>1, <1>3, <1>5, <1>7, <1>8, <1>10, <2>1
  <2>5. bits_residue' < lane_bits + (IF nybble' = 1 THEN FramingBits ELSE 0)
    BY <1>1, <2>4 DEF FramingBits
  <2> QED BY <1>9, <2>3, <2>4, <2>5 DEF GearInv, GearType
<1>11. CASE ~(nybble # 0 /\ held >= lane_bits)
  <2>1. bits_residue' = held /\ block' = block /\ sent' = sent
    BY <1>3, <1>11
  <2>2. /\ sent' \in Nat /\ bits_residue' \in Nat /\ sent' + bits_residue' = Taken'
        /\ bits_residue' <= Len(residue')
    BY <1>3, <1>5, <1>7, <2>1
  <2>3. bits_residue' < lane_bits + (IF nybble' = 1 THEN FramingBits ELSE 0)
    BY <1>1, <1>4, <1>5, <1>7, <1>11, <2>1 DEF FramingBits
  <2>4. block' # <<>> => block' = [k \in 1..lane_bits |-> sent' - lane_bits + k]
    BY <1>5, <2>1
  <2> QED BY <1>9, <2>2, <2>3, <2>4 DEF GearInv, GearType
<1> QED BY <1>10, <1>11

(* No other step of the program or of the bench touches the gearbox.       *)
LEMMA GearStep ==
    ASSUME GearInv, [Next]_vars, lane_bits <= 58
    PROVE  GearInv'
<1>1. CASE Nybble
  BY <1>1, NybbleStep
<1>2. CASE UNCHANGED gearVars
  BY <1>2 DEF GearInv, GearType, Taken, Numbered, gearVars
<1>3. Nybble \/ UNCHANGED gearVars
  BY DEF Next, Traffic, SyncWord, StateWord, SkipWord, DiagWord, PayloadWord, NoMoreLines,
         Framing, Framed, BalanceWord, Balanced, Geared, Word, Idle, Running, vars, trafficVars
<1> QED BY <1>1, <1>2, <1>3

(* The gearbox starts with an empty residue.                             *)
LEMMA GearStart == LaneInitial => GearInv
BY Sizes DEF LaneInitial, Init, GearInv, GearType, Taken, FramingBits, Numbered

(* The blocks written are the bits of the words in order, none left out,   *)
(* repeated or overwritten in the 64 bit residue, and at the end of a word *)
(* less than a block is left: for blocks of 8 to 58 bits and words of any  *)
(* number of nybbles.                                                      *)
THEOREM BitsInOrderCorrect ==
    ASSUME lane_bits <= 58
    PROVE  Spec => []BitsInOrder
<1>1. GearInv => BitsInOrder
  <2>1. ASSUME GearInv, nybble = 0
        PROVE  sent + bits_residue = (line - 1) * WordBits /\ bits_residue < lane_bits
    <3>1. PICK base \in Nat : base = (line - 1) * WordBits
      BY <2>1, Sizes DEF GearInv, GearType
    <3>3. Taken = base + 0
      BY <2>1, <3>1 DEF Taken
    <3>4. sent + bits_residue = (line - 1) * WordBits
      BY <2>1, <3>1, <3>3 DEF GearInv
    <3>2. bits_residue < lane_bits
      BY <2>1, Sizes DEF GearInv, GearType
    <3> QED BY <3>4, <3>2
  <2> QED BY <2>1 DEF GearInv, BitsInOrder
<1>2. LaneInitial => GearInv
  BY GearStart
<1>3. GearInv /\ [Next]_vars => GearInv'
  BY GearStep
<1> QED BY <1>1, <1>2, <1>3, PTL DEF Spec
------------------------------------------------------------------------------
(***************************************************************************)
(* The words of lane_tx_frame.  The place of word k in its frame; the kind *)
(* it has there; the state word that word k is scrambled from, or, for a   *)
(* synchronization word, the words before it.                              *)
(***************************************************************************)
Phase(k) == (k - 1) % meta_frame_len
Kind(p) == IF p = 0 THEN "sync" ELSE IF p = 1 THEN "state" ELSE IF p = 2 THEN "skip"
           ELSE IF p = meta_frame_len - 1 THEN "diag" ELSE "data"
StateOf(k) == IF Phase(k) = 0 THEN k - meta_frame_len + 1 ELSE k - Phase(k) + 1

(* A metaframe has room for its four kinds of words and data.            *)
LEMMA FrameSize == meta_frame_len \in Nat /\ meta_frame_len >= 5
BY TrafficAssumption

(* Division with remainder has one answer.                                 *)
LEMMA Remainder ==
    ASSUME NEW x \in Nat, NEW m \in Nat \ {0}, NEW q \in Nat, NEW r \in 0..(m - 1), x = q * m + r
    PROVE  x % m = r
<1>1. PICK d \in Nat, s \in 0..(m - 1) : s = x % m /\ x = d * m + s
  <2>1. x \div m \in Nat /\ x % m \in 0..(m - 1) /\ x = (x \div m) * m + (x % m)
    OBVIOUS
  <2> QED BY <2>1
<1>2. CASE d < q
  <2>1. PICK e \in Nat : q = d + 1 + e
    <3>1. q - d - 1 \in Nat /\ q = d + 1 + (q - d - 1)
      BY <1>2
    <3> QED BY <3>1
  <2>2. q * m = d * m + m + e * m /\ e * m \in Nat /\ d * m \in Nat
    BY <2>1
  <2> QED BY <1>1, <2>2
<1>3. CASE q < d
  <2>1. PICK e \in Nat : d = q + 1 + e
    <3>1. d - q - 1 \in Nat /\ d = q + 1 + (d - q - 1)
      BY <1>3
    <3> QED BY <3>1
  <2>2. d * m = q * m + m + e * m /\ e * m \in Nat /\ q * m \in Nat
    BY <2>1
  <2> QED BY <1>1, <2>2
<1>4. CASE d = q
  <2>1. q * m \in Nat
    OBVIOUS
  <2> QED BY <1>1, <1>4, <2>1
<1> QED BY <1>2, <1>3, <1>4

(* Words come phase by phase, and each frame has one state word.           *)
LEMMA PhaseStep ==
    ASSUME NEW k \in Nat \ {0}
    PROVE  /\ Phase(k) \in 0..(meta_frame_len - 1) /\ Phase(1) = 0
           /\ Phase(k + 1) = IF Phase(k) = meta_frame_len - 1 THEN 0 ELSE Phase(k) + 1
           /\ k >= 2 => StateOf(k) \in 2..k
           /\ Phase(k) = 1 => k >= 2 /\ StateOf(k) = k
           /\ Phase(k + 1) # 1 => StateOf(k + 1) = StateOf(k)
<1>1. PICK m \in Nat : m = meta_frame_len /\ m >= 5
  BY FrameSize
<1>2. PICK i \in Nat : i = k - 1 /\ k = i + 1
  OBVIOUS
<1>3. PICK p \in Nat, q \in Nat : p = i % m /\ q = i \div m /\ p \in 0..(m - 1) /\ i = q * m + p
  <2>1. i % m \in 0..(m - 1) /\ i \div m \in Nat /\ i = (i \div m) * m + (i % m)
    BY <1>1
  <2> QED BY <1>1, <2>1
<1>4. PICK t \in Nat : t = q * m /\ (q = 0 => t = 0) /\ (q >= 1 => t >= m)
  <2>1. q * m \in Nat /\ (q = 0 => q * m = 0) /\ (q >= 1 => q * m >= m)
    BY <1>1, <1>3
  <2> QED BY <2>1
<1>5. (i + 1) % m = IF p = m - 1 THEN 0 ELSE p + 1
  <2> PICK x \in Nat : x = i + 1
    OBVIOUS
  <2>1. CASE p = m - 1
    <3>1. PICK d \in Nat : d = q + 1
      BY <1>3
    <3>2. x = d * m + 0
      BY <1>1, <1>3, <2>1, <3>1
    <3>3. x % m = 0
      <4>1. m \in Nat \ {0} /\ 0 \in 0..(m - 1)
        BY <1>1
      <4> QED BY <3>1, <3>2, <4>1, Remainder, Zenon
    <3> QED BY <2>1, <3>3
  <2>2. CASE p # m - 1
    <3>1. PICK r \in 0..(m - 1) : r = p + 1
      BY <1>1, <1>3, <2>2
    <3>2. x = q * m + r
      BY <1>3, <3>1
    <3>3. x % m = r
      <4>1. m \in Nat \ {0} /\ q \in Nat /\ r \in 0..(m - 1)
        BY <1>1, <1>3, <3>1
      <4> QED BY <3>2, <4>1, Remainder, Zenon
    <3> QED BY <2>2, <3>1, <3>3
  <2> QED BY <2>1, <2>2
<1>6. Phase(k) = p
  BY <1>1, <1>2, <1>3 DEF Phase
<1>7. Phase(k + 1) = IF p = m - 1 THEN 0 ELSE p + 1
  <2>1. (k + 1) - 1 = i + 1
    BY <1>2
  <2> QED BY <1>1, <1>5, <2>1 DEF Phase
<1>8. Phase(1) = 0
  <2>1. 0 % m = 0
    BY <1>1
  <2> QED BY <1>1, <2>1 DEF Phase
<1>9. k = (t + p) + 1 /\ (p = 0 /\ k >= 2 => t >= m)
  BY <1>2, <1>3, <1>4
<1>10. StateOf(k) = IF p = 0 THEN k - m + 1 ELSE k - p + 1
  BY <1>1, <1>6 DEF StateOf
<1>11. k >= 2 => StateOf(k) \in 2..k
  BY <1>1, <1>3, <1>9, <1>10
<1>12. Phase(k) = 1 => k >= 2 /\ StateOf(k) = k
  BY <1>6, <1>9, <1>10
<1>13. Phase(k + 1) # 1 => StateOf(k + 1) = StateOf(k)
  <2>1. StateOf(k + 1) = IF Phase(k + 1) = 0 THEN (k + 1) - m + 1 ELSE (k + 1) - Phase(k + 1) + 1
    BY <1>1 DEF StateOf
  <2> QED BY <1>1, <1>3, <1>7, <1>10, <2>1
<1> QED BY <1>1, <1>3, <1>6, <1>7, <1>8, <1>11, <1>12, <1>13

(***************************************************************************)
(* What is known of a word, and of the scrambler state from word to word:  *)
(* After(k) is the state that the word after k is scrambled with.  A new   *)
(* sequence begins at a state word, and only once; a damaged state word is *)
(* followed by a damaged synchronization word, and there is one at most.   *)
(***************************************************************************)
Seeds == {Started.seed, Reseeded.seed, Noise.scr.seed}
States == [seed : Seeds, age : Nat]
Kinds == {"sync", "state", "skip", "diag", "data"}
Covers == [kind : Kinds, n : Nat, hurt : BOOLEAN]
Words == [kind : Kinds, bits : Nat, n : Nat, crc : Seq(Covers), scr : States,
          hurt : BOOLEAN, inv : BOOLEAN]
Older(scr) == [scr EXCEPT !.age = @ + 1]

Fits(word, p) == word.kind = Kind(p) /\ word.bits \in {Data, Control} /\ word.inv = FALSE
After(k) == IF Phase(k) = 0 THEN Older(framed[k - 1].scr)
            ELSE IF Phase(k) = 1 THEN framed[k].scr ELSE Older(framed[k].scr)
Follows(k) ==
    /\ Phase(k + 1) >= 2 => framed[k + 1].scr = After(k)
    /\ Phase(k + 1) = 1 => \/ framed[k + 1].scr = After(k)
                           \/ /\ framed[k + 1].scr.seed = Reseeded.seed
                              /\ After(k).seed = Started.seed

WordsFit ==
    /\ framed \in Seq(Words)
    /\ \A k \in 1..Len(framed) : Fits(framed[k], Phase(k)) /\ framed[k].scr.seed # Noise.scr.seed
    /\ \A k \in 2..Len(framed) :
         Phase(k) = 0 /\ framed[StateOf(k)].hurt => framed[k].hurt
    /\ \A j, k \in 1..Len(framed) :
         Phase(j) = 1 /\ framed[j].hurt /\ Phase(k) = 1 /\ framed[k].hurt => j = k
    /\ \A k \in 2..(Len(framed) - 1) : Follows(k)

(* What the program knows while it writes them.                            *)
Writing ==
    /\ meta_cntr = Phase(Len(framed) + 1)
    /\ scrambler \in States /\ error_schedule \in Nat /\ crc32 \in Seq(Covers)
    /\ left \in Nat /\ left <= WordsWanted
    /\ scrambler.seed \in {Started.seed, Reseeded.seed}
    /\ scrambler.seed = Reseeded.seed => error_schedule >= 10
    /\ Len(framed) >= 2 => scrambler = After(Len(framed))
    /\ Len(framed) >= 2 /\ meta_cntr # 1 /\ framed[StateOf(Len(framed))].hurt => error_schedule = 7
    /\ \A k \in 1..Len(framed) : Phase(k) = 1 /\ framed[k].hurt => error_schedule >= 7

(* What any of the five kinds of word does to all this.                    *)
Adds(word) ==
    /\ framed' = Append(framed, word) /\ word \in Words /\ Fits(word, meta_cntr)
    /\ word.scr.seed # Noise.scr.seed
    /\ meta_cntr' = IF meta_cntr = meta_frame_len - 1 THEN 0 ELSE meta_cntr + 1
    /\ meta_cntr = 0 => scrambler' = scrambler /\ (error_schedule = 7 => word.hurt)
    /\ meta_cntr = 1 => /\ word.scr = scrambler'
                        /\ \/ scrambler' = scrambler
                           \/ scrambler' = Reseeded /\ error_schedule = 9 /\ error_schedule' = 10
                        /\ word.hurt => error_schedule = 6 /\ error_schedule' = 7
    /\ meta_cntr >= 2 => word.scr = scrambler /\ scrambler' = Older(scrambler)
    /\ meta_cntr # 0 /\ error_schedule = 7 => error_schedule' = 7
    /\ error_schedule' \in Nat /\ error_schedule' >= error_schedule
    /\ crc32' \in Seq(Covers) /\ left' \in Nat /\ left' <= WordsWanted

(* And in a lane without errors; the sum goes into the diagnostic word.    *)
CleanAdds(word) ==
    ~error_injection /\ error_schedule = 0 /\ scrambler.seed = Started.seed =>
        /\ ~word.hurt /\ word.scr.seed = Started.seed
        /\ error_schedule' = 0 /\ scrambler'.seed = Started.seed
        /\ LET sum == Append(crc32, Covered(word.kind, word.n, FALSE)) IN
           IF meta_cntr = meta_frame_len - 1 THEN word.crc = sum /\ crc32' = <<>>
                                             ELSE crc32' = sum

(* Such a word keeps what is known of the frame.                         *)
LEMMA WordAdded ==
    ASSUME WordsFit, Writing, NEW word, Adds(word)
    PROVE  WordsFit' /\ Writing'
<1>1. PICK m \in Nat : m = meta_frame_len /\ m >= 5
  BY FrameSize
<1>2. PICK n \in Nat : n = Len(framed)
  BY DEF WordsFit
<1>3. /\ framed' \in Seq(Words) /\ Len(framed') = n + 1 /\ framed'[n + 1] = word
      /\ \A k \in 1..n : framed'[k] = framed[k]
  <2>1. framed \in Seq(Words) /\ word \in Words /\ framed' = Append(framed, word)
    BY DEF WordsFit, Adds
  <2> QED BY <1>2, <2>1, AppendProperties
<1>4. /\ meta_cntr \in 0..(m - 1) /\ meta_cntr = Phase(n + 1) /\ meta_cntr' = Phase(n + 2)
  <2>1. /\ Phase(n + 1) \in 0..(m - 1)
        /\ Phase((n + 1) + 1) = IF Phase(n + 1) = m - 1 THEN 0 ELSE Phase(n + 1) + 1
    <3>1. PICK k \in Nat \ {0} : k = n + 1
      BY <1>2
    <3> QED BY <1>1, <3>1, PhaseStep
  <2>2. (n + 1) + 1 = n + 2
    BY <1>2
  <2> QED BY <1>1, <1>2, <2>1, <2>2 DEF Writing, Adds
<1>5. \A k \in 1..n : k >= 2 => After(k)' = After(k)
  <2>1. SUFFICES ASSUME NEW k \in 1..n, k >= 2 PROVE After(k)' = After(k)
    OBVIOUS
  <2>2. framed'[k] = framed[k] /\ framed'[k - 1] = framed[k - 1]
    BY <1>2, <1>3, <2>1
  <2> QED BY <2>2 DEF After, Phase, Older
<1>6. \A k \in 1..(n + 1) : Fits(framed'[k], Phase(k)) /\ framed'[k].scr.seed # Noise.scr.seed
  <2>1. SUFFICES ASSUME NEW k \in 1..(n + 1)
                 PROVE  Fits(framed'[k], Phase(k)) /\ framed'[k].scr.seed # Noise.scr.seed
    OBVIOUS
  <2>2. CASE k = n + 1
    BY <1>3, <1>4, <2>2 DEF Adds
  <2>3. CASE k # n + 1
    <3>1. k \in 1..n
      BY <2>3
    <3> QED BY <1>2, <1>3, <3>1 DEF WordsFit
  <2> QED BY <2>2, <2>3
<1>7. \A k \in 2..(n + 1) : Phase(k) = 0 /\ framed'[StateOf(k)].hurt => framed'[k].hurt
  <2>1. SUFFICES ASSUME NEW k \in 2..(n + 1), Phase(k) = 0, framed'[StateOf(k)].hurt
                 PROVE  framed'[k].hurt
    OBVIOUS
  <2>2. CASE k = n + 1
    <3>1. n \in Nat \ {0} /\ Phase(n + 1) = 0 /\ meta_cntr = 0
      BY <1>4, <2>1, <2>2
    <3>2. StateOf(n + 1) = StateOf(n) /\ n >= 2 /\ StateOf(n) \in 2..n
      <4>1. /\ Phase(1) = 0 /\ Phase(n + 1) = IF Phase(n) = m - 1 THEN 0 ELSE Phase(n) + 1
            /\ Phase(n + 1) # 1 => StateOf(n + 1) = StateOf(n)
            /\ n >= 2 => StateOf(n) \in 2..n
            /\ Phase(n) \in 0..(m - 1)
        BY <1>1, <3>1, PhaseStep
      <4>2. n # 1
        BY <1>1, <3>1, <4>1
      <4> QED BY <3>1, <4>1, <4>2
    <3>3. framed[StateOf(n)].hurt
      BY <1>3, <2>1, <2>2, <3>2
    <3>4. error_schedule = 7
      BY <1>2, <3>1, <3>2, <3>3 DEF Writing
    <3> QED BY <1>3, <2>2, <3>1, <3>4 DEF Adds
  <2>3. CASE k # n + 1
    <3>1. k \in 2..n /\ k \in 1..n
      BY <2>3
    <3>2. StateOf(k) \in 2..k /\ StateOf(k) \in 1..n
      <4>1. StateOf(k) \in 2..k
        BY <3>1, PhaseStep
      <4> QED BY <3>1, <4>1
    <3> QED BY <1>2, <1>3, <2>1, <3>1, <3>2 DEF WordsFit
  <2> QED BY <2>2, <2>3
<1>8. \A k \in 1..n : Phase(k) = 1 /\ framed[k].hurt => error_schedule >= 7
  BY <1>2 DEF Writing
<1>9. Phase(n + 1) = 1 /\ word.hurt => error_schedule = 6 /\ error_schedule' = 7
  BY <1>4 DEF Adds
<1>10. \A j, k \in 1..(n + 1) :
         Phase(j) = 1 /\ framed'[j].hurt /\ Phase(k) = 1 /\ framed'[k].hurt => j = k
  <2>1. SUFFICES ASSUME NEW j \in 1..(n + 1), NEW k \in 1..(n + 1),
                        Phase(j) = 1, framed'[j].hurt, Phase(k) = 1, framed'[k].hurt, j # k
                 PROVE  FALSE
    OBVIOUS
  <2>2. CASE j = n + 1
    <3>1. k \in 1..n
      BY <2>1, <2>2
    <3> QED BY <1>3, <1>8, <1>9, <2>1, <2>2, <3>1
  <2>3. CASE k = n + 1
    <3>1. j \in 1..n
      BY <2>1, <2>3
    <3> QED BY <1>3, <1>8, <1>9, <2>1, <2>3, <3>1
  <2>4. CASE j # n + 1 /\ k # n + 1
    <3>1. j \in 1..n /\ k \in 1..n
      BY <2>4
    <3> QED BY <1>2, <1>3, <2>1, <3>1 DEF WordsFit
  <2> QED BY <2>2, <2>3, <2>4
<1>11. error_schedule \in Nat /\ error_schedule' \in Nat /\ error_schedule' >= error_schedule
  BY DEF Writing, Adds
<1>12. \A k \in 1..(n + 1) : Phase(k) = 1 /\ framed'[k].hurt => error_schedule' >= 7
  <2>1. SUFFICES ASSUME NEW k \in 1..(n + 1), Phase(k) = 1, framed'[k].hurt
                 PROVE  error_schedule' >= 7
    OBVIOUS
  <2>2. CASE k = n + 1
    BY <1>3, <1>9, <2>1, <2>2
  <2>3. CASE k # n + 1
    <3>1. k \in 1..n
      BY <2>3
    <3> QED BY <1>3, <1>8, <1>11, <2>1, <3>1
  <2> QED BY <2>2, <2>3
<1>13. /\ scrambler \in States /\ scrambler.seed \in {Started.seed, Reseeded.seed}
       /\ scrambler.seed = Reseeded.seed => error_schedule >= 10
       /\ n >= 2 => scrambler = After(n)
  BY <1>2 DEF Writing
<1>14. \A k \in 2..n : Follows(k)'
  <2>1. SUFFICES ASSUME NEW k \in 2..n PROVE Follows(k)'
    OBVIOUS
  <2>2. After(k)' = After(k)
    BY <1>5, <2>1
  <2>3. CASE k = n
    <3>1. framed'[k + 1] = word /\ Phase(k + 1) = meta_cntr /\ After(k) = scrambler
      BY <1>3, <1>4, <1>13, <2>1, <2>3
    <3>2. Phase(k + 1) >= 2 => framed'[k + 1].scr = After(k)
      BY <3>1 DEF Adds
    <3>3. Phase(k + 1) = 1 => \/ framed'[k + 1].scr = After(k)
                              \/ /\ framed'[k + 1].scr.seed = Reseeded.seed
                                 /\ After(k).seed = Started.seed
      BY <1>11, <1>13, <3>1 DEF Adds
    <3> QED BY <2>2, <3>2, <3>3 DEF Follows, Phase, Started, Reseeded
  <2>4. CASE k # n
    <3>1. k \in 2..(n - 1) /\ k + 1 \in 1..n
      BY <2>1, <2>4
    <3>2. framed'[k + 1] = framed[k + 1]
      BY <1>3, <3>1
    <3>3. Follows(k)
      BY <1>2, <3>1 DEF WordsFit
    <3> QED BY <2>2, <3>2, <3>3 DEF Follows, Phase, Started, Reseeded
  <2> QED BY <2>3, <2>4
<1>15. /\ scrambler' \in States /\ scrambler'.seed \in {Started.seed, Reseeded.seed}
       /\ scrambler'.seed = Reseeded.seed => error_schedule' >= 10
  <2>1. \/ scrambler' = scrambler \/ scrambler' = Older(scrambler)
        \/ scrambler' = Reseeded /\ error_schedule' = 10
    BY <1>1, <1>4 DEF Adds
  <2>2. CASE scrambler' = scrambler
    BY <1>11, <1>13, <2>2
  <2>3. CASE scrambler' = Older(scrambler)
    BY <1>11, <1>13, <2>3 DEF Older, States
  <2>4. CASE scrambler' = Reseeded /\ error_schedule' = 10
    BY <2>4 DEF States, Seeds, Reseeded
  <2> QED BY <2>1, <2>2, <2>3, <2>4
<1>16. n + 1 >= 2 => scrambler' = After(n + 1)'
  <2>1. SUFFICES ASSUME n >= 1 PROVE scrambler' = After(n + 1)'
    BY <1>2
  <2>2. After(n + 1)' = IF meta_cntr = 0 THEN Older(framed'[n].scr)
                        ELSE IF meta_cntr = 1 THEN word.scr ELSE Older(word.scr)
    BY <1>2, <1>3, <1>4 DEF After, Phase, Older
  <2>3. CASE meta_cntr = 0
    <3>1. /\ n \in Nat \ {0} /\ Phase(1) = 0 /\ Phase(n) \in 0..(m - 1)
          /\ Phase(n + 1) = IF Phase(n) = m - 1 THEN 0 ELSE Phase(n) + 1
      BY <1>1, <2>1, PhaseStep
    <3>2. Phase(n) = m - 1 /\ n >= 2
      BY <1>1, <1>4, <2>3, <3>1
    <3>3. After(n) = Older(framed[n].scr)
      BY <1>1, <3>2 DEF After
    <3>4. scrambler' = scrambler
      BY <2>3 DEF Adds
    <3> QED BY <1>3, <1>13, <2>1, <2>2, <2>3, <3>2, <3>3, <3>4
  <2>4. CASE meta_cntr = 1
    BY <2>2, <2>4 DEF Adds
  <2>5. CASE meta_cntr >= 2
    BY <1>1, <1>4, <2>2, <2>5 DEF Adds
  <2> QED BY <1>1, <1>4, <2>3, <2>4, <2>5
<1>17. n + 1 >= 2 /\ meta_cntr' # 1 /\ framed'[StateOf(n + 1)].hurt => error_schedule' = 7
  <2>1. SUFFICES ASSUME n >= 1, meta_cntr' # 1, framed'[StateOf(n + 1)].hurt
                 PROVE  error_schedule' = 7
    BY <1>2
  <2>2. meta_cntr # 0
    BY <1>1, <1>4, <2>1 DEF Adds
  <2>3. /\ n \in Nat \ {0} /\ Phase(1) = 0 /\ Phase(n) \in 0..(m - 1)
        /\ Phase(n + 1) = IF Phase(n) = m - 1 THEN 0 ELSE Phase(n) + 1
        /\ n >= 2 => StateOf(n) \in 2..n
        /\ Phase(n + 1) # 1 => StateOf(n + 1) = StateOf(n)
    BY <1>1, <2>1, PhaseStep
  <2>4. CASE meta_cntr = 1
    <3>1. StateOf(n + 1) = n + 1
      BY <1>2, <1>4, <2>4, PhaseStep
    <3> QED BY <1>3, <1>4, <1>9, <2>1, <2>4, <3>1
  <2>5. CASE meta_cntr # 1
    <3>1. StateOf(n + 1) = StateOf(n) /\ n >= 2 /\ StateOf(n) \in 1..n
      BY <1>1, <1>4, <2>1, <2>2, <2>3, <2>5
    <3>2. framed[StateOf(n)].hurt
      BY <1>3, <2>1, <3>1
    <3>3. error_schedule = 7
      BY <1>2, <2>5, <3>1, <3>2 DEF Writing
    <3> QED BY <2>2, <3>3 DEF Adds
  <2> QED BY <2>4, <2>5
<1>18. WordsFit'
  <2>1. (n + 1) - 1 = n
    BY <1>2
  <2>2. \A k \in 2..(Len(framed') - 1) : Follows(k)'
    BY <1>3, <1>14, <2>1
  <2> QED BY <1>3, <1>6, <1>7, <1>10, <2>2 DEF WordsFit, Phase, StateOf, Fits, Kind
<1>19. Writing'
  <2>1. meta_cntr' = Phase(Len(framed') + 1)
    <3>1. Len(framed') + 1 = n + 2
      BY <1>2, <1>3
    <3> QED BY <1>4, <3>1
  <2>2. crc32' \in Seq(Covers) /\ left' \in Nat /\ left' <= WordsWanted
    BY DEF Adds
  <2> QED BY <1>2, <1>3, <1>11, <1>12, <1>15, <1>16, <1>17, <2>1, <2>2
          DEF Writing, Phase, StateOf, Started, Reseeded
<1> QED BY <1>18, <1>19

(* What each of the five actions writes.                                   *)
LEMMA ScheduleGrows ==
    ASSUME error_schedule \in Nat, NEW at, NEW schedule \in {error_schedule, Schedule},
           Damage(schedule, at)
    PROVE  /\ Schedule \in Nat /\ Schedule >= error_schedule
           /\ error_schedule # 0 => Schedule = error_schedule
           /\ error_schedule' \in Nat /\ error_schedule' >= error_schedule
           /\ error_schedule' = IF schedule \in at THEN schedule + 1 ELSE schedule
<1>1. /\ Schedule \in Nat /\ Schedule >= error_schedule
      /\ error_schedule # 0 => Schedule = error_schedule
  BY DEF Schedule
<1>2. error_schedule' = IF schedule \in at THEN schedule + 1 ELSE schedule
  BY DEF Damage
<1> QED BY <1>1, <1>2

(* Synchronization words.                                                *)
LEMMA SyncAdds ==
    ASSUME Writing, SyncWord
    PROVE  \E word : Adds(word) /\ CleanAdds(word)
<1> DEFINE hurt == Schedule \in SyncErrors
           word == [kind |-> "sync", bits |-> Control, n |-> 0, crc |-> <<>>, scr |-> Started,
                    hurt |-> hurt, inv |-> FALSE]
<1>1. /\ meta_cntr = 0 /\ framed' = Append(framed, word)
      /\ crc32' = Append(crc32, Covered("sync", 0, hurt))
      /\ meta_cntr' = 1 /\ left' = left /\ scrambler' = scrambler
  BY DEF SyncWord, Write
<1>2. /\ Schedule \in Nat /\ (error_schedule # 0 => Schedule = error_schedule)
      /\ error_schedule' \in Nat /\ error_schedule' >= error_schedule
  BY ScheduleGrows DEF SyncWord, Writing
<1>3. hurt \in BOOLEAN /\ (error_schedule = 7 => hurt)
  BY <1>2 DEF SyncErrors
<1>c. CleanAdds(word)
  <2>1. ASSUME ~error_injection, error_schedule = 0, scrambler.seed = Started.seed
        PROVE  /\ ~word.hurt /\ word.scr.seed = Started.seed
               /\ error_schedule' = 0 /\ scrambler'.seed = Started.seed
               /\ crc32' = Append(crc32, Covered(word.kind, word.n, FALSE))
    <3>1. Schedule = 0
      BY <2>1 DEF Schedule
    <3>2. hurt = FALSE /\ error_schedule' = 0
      BY <2>1, <3>1 DEF SyncErrors, SyncWord, Damage
    <3> QED BY <2>1, <1>1, <3>2
  <2>2. meta_cntr # meta_frame_len - 1
    BY <1>1, FrameSize
  <2> HIDE DEF word
  <2> QED BY <2>1, <2>2, Zenon DEF CleanAdds
<1> HIDE DEF hurt
<1>4. word \in Words /\ word.scr.seed # Noise.scr.seed
  BY <1>3 DEF Words, Kinds, States, Seeds, Control, Started, Noise
<1>5. Fits(word, meta_cntr)
  BY <1>1 DEF Fits, Kind
<1>6. crc32' \in Seq(Covers)
  BY <1>1, <1>3 DEF Covered, Covers, Kinds, Writing
<1>7. Adds(word)
  BY <1>1, <1>2, <1>3, <1>4, <1>5, <1>6, FrameSize DEF Adds, Writing
<1> QED BY <1>7, <1>c

(* State words.                                                          *)
LEMMA StateAdds ==
    ASSUME Writing, StateWord
    PROVE  \E word : Adds(word) /\ CleanAdds(word)
<1> DEFINE hurt == error_schedule = 6
           scr == IF error_schedule = 9 THEN Reseeded ELSE scrambler
           word == [kind |-> "state", bits |-> Control, n |-> 0, crc |-> <<>>, scr |-> scr,
                    hurt |-> hurt, inv |-> FALSE]
<1>1. /\ meta_cntr = 1 /\ framed' = Append(framed, word) /\ scrambler' = scr
      /\ crc32' = Append(crc32, Covered("state", 0, FALSE))
      /\ meta_cntr' = 2 /\ left' = left
  BY DEF StateWord, Write
<1>2. error_schedule \in Nat
  BY DEF Writing
<1>3. error_schedule' = IF error_schedule \in {6, 9} THEN error_schedule + 1 ELSE error_schedule
  BY DEF StateWord, Damage
<1>4. scr \in States /\ scr.seed # Noise.scr.seed
  BY DEF Writing, States, Seeds, Started, Reseeded, Noise
<1>5. \/ scrambler' = scrambler
      \/ scrambler' = Reseeded /\ error_schedule = 9 /\ error_schedule' = 10
  BY <1>1, <1>3
<1>h. hurt \in BOOLEAN /\ (hurt => error_schedule = 6 /\ error_schedule' = 7)
  BY <1>2, <1>3
<1>c. CleanAdds(word)
  <2>1. ASSUME ~error_injection, error_schedule = 0, scrambler.seed = Started.seed
        PROVE  /\ ~word.hurt /\ word.scr.seed = Started.seed
               /\ error_schedule' = 0 /\ scrambler'.seed = Started.seed
               /\ crc32' = Append(crc32, Covered(word.kind, word.n, FALSE))
    <3>1. hurt = FALSE /\ error_schedule' = 0 /\ scr = scrambler
      BY <2>1, <1>3
    <3> QED BY <2>1, <1>1, <3>1
  <2>2. meta_cntr # meta_frame_len - 1
    BY <1>1, FrameSize
  <2> HIDE DEF word
  <2> QED BY <2>1, <2>2, Zenon DEF CleanAdds
<1> HIDE DEF scr, hurt
<1>6. word \in Words /\ word.scr = scr /\ word.hurt = hurt
  BY <1>4, <1>h DEF Words, Kinds, Control
<1>7. Fits(word, meta_cntr)
  BY <1>1 DEF Fits, Kind
<1>8. crc32' \in Seq(Covers)
  BY <1>1 DEF Covered, Covers, Kinds, Writing
<1>9. left' \in Nat /\ left' <= WordsWanted
  BY <1>1 DEF Writing
<1>10. word.hurt => error_schedule = 6 /\ error_schedule' = 7
  BY <1>h
<1>11. /\ error_schedule' \in Nat /\ error_schedule' >= error_schedule
       /\ error_schedule = 7 => error_schedule' = 7
  BY <1>2, <1>3
<1>12. Adds(word)
  <2>1. framed' = Append(framed, word) /\ word \in Words /\ Fits(word, meta_cntr)
    BY <1>1, <1>6, <1>7
  <2>2. word.scr.seed # Noise.scr.seed
    BY <1>4, <1>6
  <2>3. meta_cntr = 1 => /\ word.scr = scrambler'
                         /\ \/ scrambler' = scrambler
                            \/ scrambler' = Reseeded /\ error_schedule = 9 /\ error_schedule' = 10
                         /\ word.hurt => error_schedule = 6 /\ error_schedule' = 7
    BY <1>1, <1>5, <1>6, <1>10
  <2>4. meta_cntr' = IF meta_cntr = meta_frame_len - 1 THEN 0 ELSE meta_cntr + 1
    BY <1>1, FrameSize
  <2>5. ~(meta_cntr >= 2) /\ ~(meta_cntr = 0)
    BY <1>1
  <2> HIDE DEF word
  <2> QED BY <1>8, <1>9, <1>11, <2>1, <2>2, <2>3, <2>4, <2>5, Zenon DEF Adds
<1> QED BY <1>12, <1>c

(* Skip words.                                                           *)
LEMMA SkipAdds ==
    ASSUME Writing, SkipWord
    PROVE  \E word : Adds(word) /\ CleanAdds(word)
<1> DEFINE hurt == error_schedule = 5
           word == [kind |-> "skip", bits |-> Control, n |-> 0, crc |-> <<>>, scr |-> scrambler,
                    hurt |-> hurt, inv |-> FALSE]
<1>1. /\ meta_cntr = 2 /\ framed' = Append(framed, word) /\ scrambler' = Older(scrambler)
      /\ crc32' = Append(crc32, Covered("skip", 0, FALSE))
      /\ meta_cntr' = 3 /\ left' = left
  BY DEF SkipWord, Write, Evolved, Older
<1>2. error_schedule \in Nat
  BY DEF Writing
<1>3. error_schedule' = IF error_schedule = 5 THEN error_schedule + 1 ELSE error_schedule
  BY DEF SkipWord, Damage
<1>h. hurt \in BOOLEAN
  OBVIOUS
<1>c. CleanAdds(word)
  <2>1. ASSUME ~error_injection, error_schedule = 0, scrambler.seed = Started.seed
        PROVE  /\ ~word.hurt /\ word.scr.seed = Started.seed
               /\ error_schedule' = 0 /\ scrambler'.seed = Started.seed
               /\ crc32' = Append(crc32, Covered(word.kind, word.n, FALSE))
    <3>1. hurt = FALSE /\ error_schedule' = 0 /\ scrambler'.seed = scrambler.seed
      BY <2>1, <1>1, <1>3 DEF Older, Writing, States
    <3> QED BY <2>1, <1>1, <3>1
  <2>2. meta_cntr # meta_frame_len - 1
    BY <1>1, FrameSize
  <2> HIDE DEF word
  <2> QED BY <2>1, <2>2, Zenon DEF CleanAdds
<1> HIDE DEF hurt
<1>4. word \in Words /\ word.scr = scrambler /\ word.scr.seed # Noise.scr.seed
  BY <1>h DEF Writing, Words, Kinds, Control, Seeds, States, Started, Reseeded, Noise
<1>5. Fits(word, meta_cntr)
  BY <1>1 DEF Fits, Kind
<1>6. crc32' \in Seq(Covers)
  BY <1>1 DEF Covered, Covers, Kinds, Writing
<1>7. Adds(word)
  <2>1. framed' = Append(framed, word) /\ word \in Words /\ Fits(word, meta_cntr)
    BY <1>1, <1>4, <1>5
  <2>2. /\ meta_cntr' = IF meta_cntr = meta_frame_len - 1 THEN 0 ELSE meta_cntr + 1
        /\ ~(meta_cntr = 0) /\ ~(meta_cntr = 1)
    BY <1>1, FrameSize
  <2>3. left' \in Nat /\ left' <= WordsWanted
    BY <1>1 DEF Writing
  <2>4. /\ error_schedule' \in Nat /\ error_schedule' >= error_schedule
        /\ error_schedule = 7 => error_schedule' = 7
    BY <1>1, <1>2, <1>3 DEF Writing
  <2>5. word.scr = scrambler /\ scrambler' = Older(scrambler)
    BY <1>1, <1>4
  <2> HIDE DEF word
  <2> QED BY <1>4, <1>6, <2>1, <2>2, <2>3, <2>4, <2>5, Zenon DEF Adds
<1> QED BY <1>7, <1>c

(* Diagnostic words.                                                     *)
LEMMA DiagAdds ==
    ASSUME Writing, DiagWord
    PROVE  \E word : Adds(word) /\ CleanAdds(word)
<1> DEFINE sum == Append(crc32, Covered("diag", 0, FALSE))
           word == [kind |-> "diag", bits |-> Control, n |-> 0, crc |-> sum, scr |-> scrambler,
                    hurt |-> Schedule = 4, inv |-> FALSE]
<1>1. /\ meta_cntr = meta_frame_len - 1 /\ framed' = Append(framed, word)
      /\ scrambler' = Older(scrambler) /\ crc32' = <<>>
      /\ meta_cntr' = 0 /\ left' = left
  BY DEF DiagWord, Write, Evolved, Older
<1>2. /\ Schedule \in Nat /\ (error_schedule # 0 => Schedule = error_schedule)
      /\ error_schedule' \in Nat /\ error_schedule' >= error_schedule
      /\ error_schedule' = IF Schedule = 4 THEN Schedule + 1 ELSE Schedule
  BY ScheduleGrows DEF DiagWord, Writing
<1>3. sum \in Seq(Covers)
  BY DEF Covered, Covers, Kinds, Writing
<1>c. CleanAdds(word)
  <2>1. ASSUME ~error_injection, error_schedule = 0, scrambler.seed = Started.seed
        PROVE  /\ ~word.hurt /\ word.scr.seed = Started.seed
               /\ error_schedule' = 0 /\ scrambler'.seed = Started.seed
               /\ word.crc = Append(crc32, Covered(word.kind, word.n, FALSE))
               /\ crc32' = <<>>
    <3>1. Schedule = 0
      BY <2>1 DEF Schedule
    <3>2. (Schedule = 4) = FALSE /\ error_schedule' = 0 /\ scrambler'.seed = scrambler.seed
      BY <2>1, <1>1, <1>2, <3>1 DEF Older, Writing, States
    <3> QED BY <2>1, <1>1, <3>2
  <2>2. meta_cntr = meta_frame_len - 1
    BY <1>1, FrameSize
  <2> HIDE DEF word
  <2> QED BY <2>1, <2>2, Zenon DEF CleanAdds
<1> HIDE DEF sum
<1>4. word \in Words /\ word.scr = scrambler /\ word.scr.seed # Noise.scr.seed
  BY <1>3 DEF Writing, Words, Kinds, Control, Seeds, States, Started, Reseeded, Noise
<1>5. Fits(word, meta_cntr)
  BY <1>1, FrameSize DEF Fits, Kind
<1>6. crc32' \in Seq(Covers)
  BY <1>1
<1>7. Adds(word)
  BY <1>1, <1>2, <1>4, <1>5, <1>6, FrameSize DEF Adds, Writing
<1> QED BY <1>7, <1>c

(* Payload words.                                                        *)
LEMMA PayloadAdds ==
    ASSUME Writing, PayloadWord
    PROVE  \E word : Adds(word) /\ CleanAdds(word)
<1> DEFINE n == WordsWanted - left
           word == [kind |-> "data", bits |-> Data, n |-> n, crc |-> <<>>, scr |-> scrambler,
                    hurt |-> FALSE, inv |-> FALSE]
<1>1. /\ meta_cntr \in 3..(meta_frame_len - 2) /\ left > 0 /\ framed' = Append(framed, word)
      /\ scrambler' = Older(scrambler) /\ crc32' = Append(crc32, Covered("data", n, FALSE))
      /\ meta_cntr' = meta_cntr + 1 /\ left' = left - 1 /\ error_schedule' = Schedule
  BY DEF PayloadWord, Write, Evolved, Older
<1>2. /\ Schedule \in Nat /\ Schedule >= error_schedule
      /\ error_schedule # 0 => Schedule = error_schedule
  BY DEF Schedule, Writing
<1>3. n \in Nat /\ left' \in Nat /\ left' <= WordsWanted
  BY <1>1, TrafficAssumption DEF Writing
<1>c. CleanAdds(word)
  <2>1. ASSUME ~error_injection, error_schedule = 0, scrambler.seed = Started.seed
        PROVE  /\ ~word.hurt /\ word.scr.seed = Started.seed
               /\ error_schedule' = 0 /\ scrambler'.seed = Started.seed
               /\ crc32' = Append(crc32, Covered(word.kind, word.n, FALSE))
    <3>1. error_schedule' = 0 /\ scrambler'.seed = scrambler.seed
      BY <2>1, <1>1 DEF Schedule, Older, Writing, States
    <3> QED BY <2>1, <1>1, <3>1
  <2>2. meta_cntr # meta_frame_len - 1
    BY <1>1, FrameSize
  <2> HIDE DEF word
  <2> QED BY <2>1, <2>2, Zenon DEF CleanAdds
<1> HIDE DEF n
<1>4. word \in Words /\ word.scr = scrambler /\ word.scr.seed # Noise.scr.seed
  BY <1>3 DEF Writing, Words, Kinds, Data, Seeds, States, Started, Reseeded, Noise
<1>5. Fits(word, meta_cntr)
  BY <1>1, FrameSize DEF Fits, Kind
<1>6. crc32' \in Seq(Covers)
  BY <1>1, <1>3 DEF Covered, Covers, Kinds, Writing
<1>7. Adds(word)
  <2>1. framed' = Append(framed, word) /\ word \in Words /\ Fits(word, meta_cntr)
    BY <1>1, <1>4, <1>5
  <2>2. /\ meta_cntr' = IF meta_cntr = meta_frame_len - 1 THEN 0 ELSE meta_cntr + 1
        /\ ~(meta_cntr = 0) /\ ~(meta_cntr = 1)
    BY <1>1, FrameSize
  <2>3. left' \in Nat /\ left' <= WordsWanted
    BY <1>1, <1>3 DEF Writing
  <2>4. /\ error_schedule' \in Nat /\ error_schedule' >= error_schedule
        /\ error_schedule = 7 => error_schedule' = 7
    BY <1>1, <1>2 DEF Writing
  <2>5. word.scr = scrambler /\ scrambler' = Older(scrambler)
    BY <1>1, <1>4
  <2> HIDE DEF word
  <2> QED BY <1>4, <1>6, <2>1, <2>2, <2>3, <2>4, <2>5, Zenon DEF Adds
<1> QED BY <1>7, <1>c
------------------------------------------------------------------------------
(***************************************************************************)
(* The passes of the program: a word on the lane is a word of the frame or *)
(* its inversion, and all of them are there when the gearbox begins; the   *)
(* gearbox reads no further than the words go.                             *)
(***************************************************************************)
Carried ==
    /\ pass \in {"frame", "disparity", "gearbox", "bench"}
    /\ lane_words \in Seq(Words) /\ Len(lane_words) <= Len(framed)
    /\ \A k \in 1..Len(lane_words) : lane_words[k] \in {framed[k], Invert(framed[k])}
    /\ pass = "frame" => lane_words = <<>>
    /\ pass \in {"gearbox", "bench"} => Len(lane_words) = Len(framed)
    /\ line <= Len(lane_words) + 1 /\ (line = Len(lane_words) + 1 => nybble = 0)

TxInv == /\ WordsFit /\ (pass = "frame" /\ ~eof => Writing)
         /\ Carried /\ GearInv

(* The program starts with no words.                                     *)
LEMMA TxStart == LaneInitial => TxInv
<1> SUFFICES ASSUME LaneInitial PROVE TxInv
  OBVIOUS
<1>1. /\ framed = <<>> /\ lane_words = <<>> /\ pass = "frame" /\ eof = FALSE /\ meta_cntr = 0
      /\ scrambler = Started /\ error_schedule = 0 /\ crc32 = <<>> /\ left = WordsWanted
      /\ line = 1 /\ nybble = 0
  BY DEF LaneInitial, Init
<1>2. Len(framed) = 0 /\ framed \in Seq(Words) /\ Len(lane_words) = 0 /\ lane_words \in Seq(Words)
      /\ crc32 \in Seq(Covers)
  BY <1>1
<1>3. WordsFit
  BY <1>2 DEF WordsFit
<1>4. Writing
  <2>1. Phase(1) = 0
    BY PhaseStep
  <2>2. scrambler \in States
    BY <1>1 DEF States, Seeds, Started
  <2>3. scrambler.seed = Started.seed /\ Started.seed # Reseeded.seed
    BY <1>1 DEF Started, Reseeded
  <2> QED BY <1>1, <1>2, <2>1, <2>2, <2>3, TrafficAssumption DEF Writing
<1>5. Carried
  BY <1>1, <1>2 DEF Carried
<1> QED BY <1>3, <1>4, <1>5, GearStart DEF TxInv

(* A word of the frame, and its inversion, come back from the decoder.     *)
LEMMA DecodedBack ==
    ASSUME NEW word \in Words, NEW p \in Nat, Fits(word, p), NEW got \in {word, Invert(word)}
    PROVE  /\ Decoded(got) = got /\ got \in Words
           /\ got.kind = word.kind /\ got.n = word.n /\ got.crc = word.crc
           /\ got.scr = word.scr /\ got.hurt = word.hurt
<1>1. word.bits \in {1, 2} /\ word.inv = FALSE
  BY DEF Fits, Data, Control
<1>2. CASE got = word
  BY <1>1, <1>2 DEF Decoded
<1>3. CASE got = Invert(word)
  <2>3. PICK b \in Nat : b = word.bits + 4
    BY <1>1
  <2>1. got = [word EXCEPT !.inv = TRUE, !.bits = b]
    BY <1>3, <2>3 DEF Invert
  <2>2. /\ got \in Words /\ got.inv = TRUE /\ got.bits = word.bits + 4
        /\ got.kind = word.kind /\ got.n = word.n /\ got.crc = word.crc
        /\ got.scr = word.scr /\ got.hurt = word.hurt
    BY <2>1, <2>3 DEF Words
  <2> QED BY <1>1, <2>2 DEF Decoded
<1> QED BY <1>2, <1>3

(* Every pass of the program keeps its part.                               *)
LEMMA TxStep ==
    ASSUME TxInv, Traffic, lane_bits <= 58
    PROVE  TxInv'
<1>1. GearInv'
  <2>1. CASE Nybble
    BY <2>1, NybbleStep DEF TxInv
  <2>2. CASE ~Nybble
    <3>1. UNCHANGED gearVars
      BY <2>2 DEF Traffic, SyncWord, StateWord, SkipWord, DiagWord, PayloadWord, NoMoreLines,
                  Framing, Framed, BalanceWord, Balanced, Geared
    <3> QED BY <3>1 DEF TxInv, GearInv, GearType, Taken, Numbered, gearVars
  <2> QED BY <2>1, <2>2
<1>2. CASE SyncWord \/ StateWord \/ SkipWord \/ DiagWord \/ PayloadWord
  <2>1. Framing
    BY <1>2 DEF SyncWord, StateWord, SkipWord, DiagWord, PayloadWord
  <2>2. Writing /\ WordsFit /\ Carried
    BY <2>1 DEF TxInv, Framing
  <2>3. PICK word : Adds(word)
    BY <1>2, <2>2, SyncAdds, StateAdds, SkipAdds, DiagAdds, PayloadAdds
  <2>4. WordsFit' /\ Writing'
    BY <2>2, <2>3, WordAdded
  <2>5. Carried'
    <3>1. /\ pass = "frame" /\ pass' = pass /\ lane_words' = lane_words /\ lane_words = <<>>
          /\ line' = line /\ nybble' = nybble
      BY <2>1, <2>2 DEF Framing, disparityVars, gearVars, Carried
    <3>2. Len(lane_words) = 0 /\ Len(framed') \in Nat
      BY <2>4, <3>1 DEF WordsFit
    <3> QED BY <2>2, <3>1, <3>2 DEF Carried
  <2> QED BY <1>1, <2>4, <2>5 DEF TxInv
<1>3. CASE NoMoreLines \/ Framed
  <2>1. /\ framed' = framed /\ lane_words' = lane_words /\ line' = line /\ nybble' = nybble
        /\ pass = "frame" /\ (pass' = "frame" => eof') /\ pass' \in {"frame", "disparity"}
    BY <1>3 DEF NoMoreLines, Framed, Framing, frameVars, disparityVars, gearVars
  <2>2. WordsFit'
    BY <2>1 DEF TxInv, WordsFit, Follows, After, Phase, StateOf, Fits, Kind, Older
  <2>3. Carried'
    BY <2>1 DEF TxInv, Carried, Invert
  <2> QED BY <1>1, <2>1, <2>2, <2>3 DEF TxInv
<1>4. CASE BalanceWord \/ Balanced \/ Nybble \/ Geared
  <2>1. framed' = framed /\ pass # "frame" /\ pass' # "frame"
    BY <1>4 DEF BalanceWord, Balanced, Nybble, Geared, frameVars
  <2>2. WordsFit'
    BY <2>1 DEF TxInv, WordsFit, Follows, After, Phase, StateOf, Fits, Kind, Older
  <2>3. Carried /\ WordsFit /\ GearType
    BY DEF TxInv, GearInv
  <2>4. Carried'
    <3>1. CASE BalanceWord
      <4> DEFINE k == Len(lane_words) + 1
                 word == IF Heavy(k) THEN Invert(framed[k]) ELSE framed[k]
      <4>1. /\ pass = "disparity" /\ k <= Len(framed) /\ lane_words' = Append(lane_words, word)
            /\ pass' = pass /\ line' = line /\ nybble' = nybble
        BY <3>1 DEF BalanceWord, gearVars
      <4>2. /\ k \in 1..Len(framed) /\ framed[k] \in Words
            /\ Fits(framed[k], Phase(k)) /\ Phase(k) \in Nat
        <5>1. k \in Nat \ {0} /\ Len(framed) \in Nat /\ k \in 1..Len(framed)
          BY <2>3, <4>1 DEF Carried, WordsFit
        <5>2. Phase(k) \in 0..(meta_frame_len - 1)
          BY <5>1, PhaseStep
        <5>3. Phase(k) \in Nat
          BY <5>2, FrameSize
        <5> QED BY <2>3, <5>1, <5>3, ElementOfSeq DEF WordsFit
      <4>3. word \in {framed[k], Invert(framed[k])} /\ word \in Words
        BY <4>2, DecodedBack
      <4> HIDE DEF word
      <4>4. /\ lane_words' \in Seq(Words) /\ Len(lane_words') = k
            /\ lane_words'[k] = word /\ \A i \in 1..Len(lane_words) : lane_words'[i] = lane_words[i]
        BY <2>3, <4>1, <4>3, AppendProperties DEF Carried
      <4>5. \A i \in 1..k : lane_words'[i] \in {framed'[i], Invert(framed'[i])}
        BY <2>1, <2>3, <4>3, <4>4 DEF Carried
      <4>6. line \in Nat /\ Len(lane_words) \in Nat
        BY <2>3 DEF Carried, GearType
      <4> QED BY <2>1, <2>3, <4>1, <4>4, <4>5, <4>6 DEF Carried
    <3>2. CASE Balanced
      BY <2>1, <2>3, <3>2 DEF Carried, Balanced, disparityVars, gearVars, Invert
    <3>3. CASE Nybble
      <4>1. /\ pass' = pass /\ lane_words' = lane_words /\ line <= Len(lane_words)
            /\ nybble' = (nybble + 1) % (Nybbles + 1)
            /\ line' = IF nybble = Nybbles THEN line + 1 ELSE line
        BY <3>3 DEF Nybble, disparityVars
      <4>2. nybble = Nybbles => nybble' = 0
        BY <4>1, Sizes
      <4>3. line \in Nat /\ Len(lane_words) \in Nat
        BY <2>3 DEF Carried, GearType
      <4>4. line' <= Len(lane_words') + 1 /\ (line' = Len(lane_words') + 1 => nybble' = 0)
        BY <4>1, <4>2, <4>3
      <4> QED BY <2>1, <2>3, <4>1, <4>4 DEF Carried, Invert
    <3>4. CASE Geared
      BY <2>1, <2>3, <3>4 DEF Carried, Geared, disparityVars, gearVars, Invert
    <3> QED BY <1>4, <3>1, <3>2, <3>3, <3>4
  <2> QED BY <1>1, <2>1, <2>2, <2>4 DEF TxInv
<1> QED BY <1>2, <1>3, <1>4 DEF Traffic

(* While the bench runs, the program has ended.                          *)
LEMMA TxKept ==
    ASSUME TxInv, UNCHANGED trafficVars
    PROVE  TxInv'
<1>1. UNCHANGED <<pass, frameVars, lane_words, gearVars>>
  BY DEF trafficVars, disparityVars
<1>2. UNCHANGED <<pass, lane_words, framed, line, nybble, eof, meta_cntr, scrambler, crc32,
                  error_schedule, left>>
  BY <1>1 DEF frameVars, gearVars
<1>3. GearInv'
  BY <1>1 DEF TxInv, GearInv, GearType, Taken, Numbered, gearVars
<1>4. Carried'
  BY <1>2 DEF TxInv, Carried, Invert
<1>5. WordsFit'
  BY <1>2 DEF TxInv, WordsFit, Follows, After, Phase, StateOf, Fits, Kind, Older
<1>6. pass = "frame" /\ ~eof /\ Writing => Writing'
  BY <1>2 DEF Writing, After, Phase, StateOf, Older
<1> QED BY <1>2, <1>3, <1>4, <1>5, <1>6 DEF TxInv

(* The bench never reads past the words.                                   *)
LEMMA WholeWords ==
    ASSUME TxInv
    PROVE  Whole \in Nat /\ Whole <= Len(lane_words)
<1>1. PICK size \in Nat : size = WordBits /\ size >= 7
  BY Sizes
<1>2. PICK words \in Nat : words = Len(lane_words)
  BY DEF TxInv, Carried
<1>3. line \in Nat \ {0} /\ nybble \in 0..Nybbles /\ sent \in Nat /\ bits_residue \in Nat
      /\ sent + bits_residue = Taken /\ line <= words + 1 /\ (line = words + 1 => nybble = 0)
  BY <1>2 DEF TxInv, GearInv, GearType, Carried
<1>4. PICK base \in Nat : base = (line - 1) * size
  BY <1>1, <1>3
<1>5. Taken = base + (IF nybble = 0 THEN 0 ELSE 3 + 4 * (nybble - 1))
  BY <1>1, <1>4 DEF Taken, FramingBits
<1>6. Taken \in Nat /\ Taken <= words * size
  <2>1. CASE line = words + 1
    <3>1. line - 1 = words
      BY <1>2, <2>1
    <3> QED BY <1>3, <1>4, <1>5, <2>1, <3>1
  <2>2. CASE line <= words
    <3>1. PICK more \in Nat : words = line + more
      <4>1. words - line \in Nat /\ words = line + (words - line)
        BY <1>3, <2>2
      <4> QED BY <4>1
    <3>2. words * size = base + size + more * size /\ more * size \in Nat
      BY <1>1, <1>3, <1>4, <3>1
    <3>3. Taken < base + size /\ Taken \in Nat
      BY <1>1, <1>3, <1>4, <1>5, Sizes
    <3>4. words * size \in Nat
      BY <1>1, <1>2
    <3> QED BY <1>1, <1>4, <3>2, <3>3, <3>4
  <2> QED BY <1>2, <1>3, <2>1, <2>2
<1>7. sent <= words * size /\ words * size \in Nat
  BY <1>1, <1>2, <1>3, <1>6
<1>8. Whole \in Nat /\ sent = Whole * size + (sent % size) /\ sent % size \in Nat
  BY <1>1, <1>3 DEF Whole
<1>9. Whole <= words
  <2>1. SUFFICES ASSUME Whole > words PROVE FALSE
    BY <1>2, <1>8
  <2>2. PICK more \in Nat : Whole = (words + 1) + more
    <3>1. Whole - (words + 1) \in Nat /\ Whole = (words + 1) + (Whole - (words + 1))
      BY <1>2, <1>8, <2>1
    <3> QED BY <3>1
  <2>3. Whole * size = words * size + size + more * size /\ more * size \in Nat
    BY <1>1, <1>2, <2>2
  <2> QED BY <1>1, <1>7, <1>8, <2>3
<1> QED BY <1>2, <1>8, <1>9
------------------------------------------------------------------------------
(***************************************************************************)
(* The receiver.  The word it got last is word pos - 1 of the frame, and   *)
(* Ref is the scrambler state that the next scrambled word needs.  The     *)
(* lock holds two places for it: the scrambler is Tuned, or the sequence   *)
(* has begun anew under a lock that loads no state any more (Stale).       *)
(***************************************************************************)
Ref == IF gap = 0 THEN After(pos - 2) ELSE After(pos - 1)
Tuned == lfsr = Ref
Restarted == Ref.seed = Reseeded.seed
Stale == lfsr.seed = Started.seed /\ Restarted
At == Phase(pos - 1)
Locking == state \in {"VERIFY", "LOCKED"}

RxType ==
    /\ pos \in Nat \ {0} /\ gap \in Nat /\ lfsr \in States
    /\ state \in {"RESET", "SEARCH", "VERIFY", "LOCKED"}
    /\ sync_tally \in Nat /\ step \in Nat
    /\ (pass # "bench" => pos = 1) /\ pos <= Len(framed) + 1

(* The registers hold the last word, and lane_rx answers one clock later.  *)
Heard ==
    /\ last_din_valid <=> gap = 0 /\ pos > 1
    /\ dout_valid => gap = 1 /\ pos > 1
    /\ sync_detected <=> pos > 1 /\ At = 0 /\ ~framed[pos - 1].hurt
    /\ pos = 1 => last_valid_word = Noise
    /\ pos > 1 => /\ last_valid_word \in Words
                  /\ last_valid_word.kind = framed[pos - 1].kind
                  /\ last_valid_word.n = framed[pos - 1].n
                  /\ last_valid_word.crc = framed[pos - 1].crc
                  /\ last_valid_word.scr = framed[pos - 1].scr
                  /\ (last_valid_word.hurt <=> framed[pos - 1].hurt)

(* While it looks for the lock, or has it, the frame counter is right.     *)
InFrame ==
    Locking => /\ pos > 1 /\ rx_cntr = Phase(pos)
               /\ (meta_cntr_max <=> rx_cntr = meta_frame_len - 1)
               /\ (expect_sync_word <=> At = 0) /\ (expect_scram_state <=> At = 1)

(* Three good words, and the lock follows at the next edge.                *)
Counted == state = "VERIFY" => sync_tally <= 3 /\ (sync_tally = 3 => At = 0 /\ gap = 1)

(* The scrambler holds the state it loaded, unless that word was damaged:  *)
(* then the synchronization word after it fails, and the search begins.    *)
Loaded == sync_tally >= 1 \/ At >= 2 \/ (At = 1 /\ gap # 0) \/ (At = 0 /\ gap = 0)
HurtFrame == framed[StateOf(pos - 1)].hurt /\ ~(At = 0 /\ gap # 0) /\ ~(At = 1 /\ gap = 0)
LongEnough == pos > 2 /\ (gap = 0 => pos > 3)
Verifying == state = "VERIFY" /\ Loaded => LongEnough /\ (Tuned \/ HurtFrame)
Locked == state = "LOCKED" => LongEnough /\ (Tuned \/ Stale)

(* What a locked lane hands out.                                           *)
HandedOut ==
    state = "LOCKED" /\ dout_valid
    => \/ dout.kind = framed[pos - 1].kind /\ dout.n = framed[pos - 1].n
       \/ At >= 2 /\ Stale

(* The steps of the bench: the first mismatch comes from the damaged state *)
(* word or from the new sequence, the second from the new sequence; and    *)
(* once the lock was lost after that, it comes back in tune.               *)
HurtPast == \E k \in 1..(pos - 1) : Phase(k) = 1 /\ framed[k].hurt /\ (k = pos - 1 => gap # 0)
Steps ==
    /\ step >= 1 => LongEnough
    /\ step >= 7 => Restarted \/ HurtPast
    /\ step >= 10 => Restarted
    /\ step >= 13 => state # "LOCKED" \/ Tuned

RxInv == /\ RxType /\ Heard /\ InFrame /\ Counted
         /\ Verifying /\ Locked /\ HandedOut /\ Steps

(* The state machine of frame_sync_control.                                *)
LEMMA StateMoves ==
    ASSUME RxType, NEW din_valid \in BOOLEAN, Receive(din_valid)
    PROVE  /\ state' \in {"RESET", "SEARCH", "VERIFY", "LOCKED"} /\ sync_tally' \in Nat
           /\ state' = "LOCKED" => \/ state = "LOCKED"
                                   \/ state = "VERIFY" /\ sync_tally = 3 /\ ~F!missing_sync
           /\ state' = "VERIFY" =>
                \/ state = "SEARCH" /\ F!good_sync /\ sync_tally' = 0
                \/ /\ state = "VERIFY" /\ ~F!missing_sync /\ sync_tally # 3
                   /\ sync_tally <= 2 => sync_tally' = IF F!good_sync THEN sync_tally + 1
                                                       ELSE sync_tally
<1>1. /\ state' = "RESET" \/ state' = F!next_state
      /\ sync_tally' = IF F!rst_sync_tally THEN 0
                       ELSE IF F!inc_sync_tally THEN (sync_tally + 1) % 8 ELSE sync_tally
  BY DEF Receive, F!Clock, F!Tally
<1>2. state \in {"RESET", "SEARCH", "VERIFY", "LOCKED"} /\ sync_tally \in Nat
  BY DEF RxType
<1>3. (sync_tally + 1) % 8 \in Nat /\ (sync_tally <= 2 => (sync_tally + 1) % 8 = sync_tally + 1)
  BY <1>2
<1>4. sync_tally' \in Nat
  BY <1>1, <1>2, <1>3
<1>5. CASE state = "RESET"
  BY <1>1, <1>4, <1>5 DEF F!next_state
<1>6. CASE state = "SEARCH"
  <2>1. sync_tally' = 0
    BY <1>1, <1>6 DEF F!rst_sync_tally
  <2>2. state' = "RESET" \/ state' = "SEARCH" \/ (state' = "VERIFY" /\ F!good_sync)
    BY <1>1, <1>6 DEF F!next_state
  <2> QED BY <1>6, <2>1, <2>2
<1>7. CASE state = "VERIFY"
  <2>1. \/ state' = "RESET" \/ state' = "SEARCH"
        \/ state' = "LOCKED" /\ ~F!missing_sync /\ sync_tally = 3
        \/ state' = "VERIFY" /\ ~F!missing_sync /\ sync_tally # 3
    BY <1>1, <1>7 DEF F!next_state, F!Verified
  <2>2. ASSUME sync_tally # 3, sync_tally <= 2
        PROVE  sync_tally' = IF F!good_sync THEN sync_tally + 1 ELSE sync_tally
    <3>1. ~F!rst_sync_tally /\ (F!inc_sync_tally <=> F!good_sync)
      BY <1>7, <2>2 DEF F!rst_sync_tally, F!inc_sync_tally
    <3> QED BY <1>1, <1>3, <2>2, <3>1
  <2> QED BY <1>4, <1>7, <2>1, <2>2
<1>8. CASE state = "LOCKED"
  BY <1>1, <1>4, <1>8 DEF F!next_state, F!Failed
<1> QED BY <1>2, <1>5, <1>6, <1>7, <1>8

(* The bench moves on with the signal it waits for.                        *)
LEMMA StepMoves ==
    ASSUME step \in Nat, Respond
    PROVE  /\ step' \in Nat /\ (step' = step \/ step' = step + 1)
           /\ step = 0 /\ step' = 1 => state' = "LOCKED"
           /\ step \in {6, 9} /\ step' = step + 1 => last_verify' /\ ~match'
           /\ step = 12 /\ step' = 13 => state' # "LOCKED"
<1>1. step' = step \/ (step' = step + 1 /\ Expected[step + 1] \in Rising)
  BY DEF Respond
<1>2. step' \in Nat
  BY <1>1
<1>3. ASSUME step = 0, step' = 1 PROVE state' = "LOCKED"
  <2>1. "locked" \in Rising
    BY <1>1, <1>3 DEF Expected
  <2> QED BY <2>1 DEF Rising, sync_locked, F!sync_locked
<1>4. ASSUME step \in {6, 9}, step' = step + 1 PROVE last_verify' /\ ~match'
  <2>1. "scrambler_mismatch" \in Rising
    BY <1>1, <1>4 DEF Expected
  <2> QED BY <2>1 DEF Rising, scrambler_mismatch
<1>5. ASSUME step = 12, step' = 13 PROVE state' # "LOCKED"
  <2>1. "lost" \in Rising
    BY <1>1, <1>5 DEF Expected
  <2> QED BY <2>1 DEF Rising, sync_locked, F!sync_locked
<1> QED BY <1>1, <1>2, <1>3, <1>4, <1>5

(* What the receiver sees of the word it got last.                         *)
LEMMA Signals ==
    ASSUME RxType, Heard, InFrame
    PROVE  /\ F!good_sync \/ F!missing_sync \/ F!scrambler_load \/ F!scrambler_evolve
              => last_din_valid /\ gap = 0 /\ pos > 1
           /\ F!good_sync => At = 0
           /\ Locking /\ gap = 0 =>
                /\ At = 0 /\ framed[pos - 1].hurt => F!missing_sync
                /\ F!good_sync <=> At = 0 /\ ~framed[pos - 1].hurt
                /\ F!scrambler_load <=> At = 1
                /\ F!scrambler_evolve <=> At # 0 /\ At # 1
<1>1. last_din_valid <=> gap = 0 /\ pos > 1
  BY DEF Heard
<1>2. sync_detected <=> pos > 1 /\ At = 0 /\ ~framed[pos - 1].hurt
  BY DEF Heard
<1>3. Locking => pos > 1 /\ (expect_sync_word <=> At = 0) /\ (expect_scram_state <=> At = 1)
  BY DEF InFrame
<1>4. ~(At = 0 /\ At = 1)
  OBVIOUS
<1> QED BY <1>1, <1>2, <1>3, <1>4, Zenon
        DEF F!good_sync, F!missing_sync, F!scrambler_load, F!scrambler_evolve

(* A word arrives.                                                         *)
LEMMA Arrives ==
    ASSUME TxInv, RxType, Heard, InFrame, Word
    PROVE  /\ pass = "bench" /\ framed' = framed /\ pass' = pass
           /\ gap \in Nat \ {0} /\ gap' = 0 /\ pos' = pos + 1 /\ pos <= Len(framed)
           /\ last_din_valid' /\ ~dout_valid' /\ lfsr' = lfsr /\ ~last_verify'
           /\ last_valid_word' \in Words
           /\ last_valid_word'.kind = framed[pos].kind /\ last_valid_word'.n = framed[pos].n
           /\ last_valid_word'.crc = framed[pos].crc /\ last_valid_word'.scr = framed[pos].scr
           /\ (last_valid_word'.hurt <=> framed[pos].hurt)
           /\ (sync_detected' <=> Phase(pos) = 0 /\ ~framed[pos].hurt)
<1>1. /\ pass = "bench" /\ pos <= Whole /\ UNCHANGED trafficVars /\ gap \in Gaps
      /\ Receive(TRUE) /\ pos' = pos + 1 /\ gap' = 0
  BY DEF Word, Running
<1>2. gap \in Nat \ {0}
  BY <1>1, BenchAssumption
<1>3. framed' = framed /\ pass' = pass
  BY <1>1 DEF trafficVars, frameVars
<1>4. pos \in 1..Len(framed) /\ pos \in 1..Len(lane_words)
  <2>1. Whole \in Nat /\ Whole <= Len(lane_words) /\ Len(lane_words) \in Nat
        /\ Len(lane_words) = Len(framed)
    BY <1>1, WholeWords DEF TxInv, Carried
  <2> QED BY <1>1, <2>1 DEF RxType
<1>5. PICK word, got : /\ word = framed[pos] /\ got = lane_words[pos] /\ word \in Words
                       /\ got \in {word, Invert(word)} /\ Fits(word, Phase(pos))
  BY <1>4, ElementOfSeq DEF TxInv, WordsFit, Carried
<1>6. Phase(pos) \in Nat
  <2>1. pos \in Nat \ {0}
    BY <1>4
  <2>2. Phase(pos) \in 0..(meta_frame_len - 1)
    BY <2>1, PhaseStep
  <2> QED BY <2>2, FrameSize
<1>7. /\ Decoded(got) = got /\ got \in Words /\ got.kind = word.kind /\ got.n = word.n
      /\ got.crc = word.crc /\ got.scr = word.scr /\ got.hurt = word.hurt
  BY <1>5, <1>6, DecodedBack
<1>8. /\ last_valid_word' = got
      /\ sync_detected' = (got.kind = "sync" /\ ~got.hurt) /\ last_din_valid' = TRUE
      /\ dout_valid' = last_din_valid /\ last_verify' = (F!scrambler_load /\ sync_locked)
      /\ lfsr' = IF F!scrambler_load /\ ~sync_locked THEN LoadVal(last_valid_word)
                 ELSE IF F!scrambler_evolve THEN [lfsr EXCEPT !.age = @ + 1] ELSE lfsr
  BY <1>1, <1>5, <1>7 DEF Receive, F!Clock, Scrambler, Dout, Incoming
<1>9. ~F!scrambler_load /\ ~F!scrambler_evolve /\ ~last_din_valid
  BY <1>2, Signals DEF Heard
<1>10. word.kind = "sync" <=> Phase(pos) = 0
  BY <1>5, <1>6 DEF Fits, Kind
<1>11. last_din_valid' /\ ~dout_valid' /\ lfsr' = lfsr /\ ~last_verify'
  BY <1>8, <1>9
<1>12. sync_detected' <=> Phase(pos) = 0 /\ ~framed[pos].hurt
  BY <1>5, <1>7, <1>8, <1>10, Zenon
<1>13. /\ last_valid_word' \in Words
       /\ last_valid_word'.kind = framed[pos].kind /\ last_valid_word'.n = framed[pos].n
       /\ last_valid_word'.crc = framed[pos].crc /\ last_valid_word'.scr = framed[pos].scr
       /\ (last_valid_word'.hurt <=> framed[pos].hurt)
  BY <1>5, <1>7, <1>8, Zenon
<1> QED BY <1>1, <1>2, <1>3, <1>4, <1>11, <1>12, <1>13

(* The clocks between two words; the first after a word settles it.        *)
LEMMA Settles ==
    ASSUME RxType, Heard, InFrame, Idle
    PROVE  /\ pass = "bench" /\ framed' = framed /\ pass' = pass
           /\ gap \in Nat /\ gap' = gap + 1 /\ pos' = pos
           /\ ~last_din_valid' /\ (dout_valid' <=> last_din_valid)
           /\ (sync_detected' <=> sync_detected) /\ last_valid_word' = last_valid_word
           /\ last_verify' = (F!scrambler_load /\ sync_locked)
           /\ match' = (lfsr = LoadVal(last_valid_word))
           /\ lfsr' = IF F!scrambler_load /\ ~sync_locked THEN LoadVal(last_valid_word)
                      ELSE IF F!scrambler_evolve THEN Older(lfsr) ELSE lfsr
           /\ gap # 0 \/ pos = 1 => lfsr' = lfsr /\ ~last_verify' /\ ~dout_valid'
<1>1. /\ pass = "bench" /\ UNCHANGED trafficVars /\ Receive(FALSE) /\ pos' = pos /\ gap' = gap + 1
  BY DEF Idle, Running
<1>2. framed' = framed /\ pass' = pass
  BY <1>1 DEF trafficVars, frameVars
<1>3. /\ last_valid_word' = last_valid_word
      /\ sync_detected' = sync_detected /\ last_din_valid' = FALSE
      /\ dout_valid' = last_din_valid /\ last_verify' = (F!scrambler_load /\ sync_locked)
      /\ match' = (lfsr = LoadVal(last_valid_word))
      /\ lfsr' = IF F!scrambler_load /\ ~sync_locked THEN LoadVal(last_valid_word)
                 ELSE IF F!scrambler_evolve THEN Older(lfsr) ELSE lfsr
  BY <1>1 DEF Receive, F!Clock, Scrambler, Dout, Older
<1>4. gap # 0 \/ pos = 1 => ~F!scrambler_load /\ ~F!scrambler_evolve /\ ~last_din_valid
  BY Signals DEF Heard, RxType
<1> QED BY <1>1, <1>2, <1>3, <1>4 DEF RxType

(* Where the receiver is at the next clock, in the same frame.           *)
LEMMA RefMoves ==
    ASSUME framed' = framed
    PROVE  /\ Ref' = IF gap' = 0 THEN After(pos' - 2) ELSE After(pos' - 1)
           /\ At' = Phase(pos' - 1)
           /\ HurtFrame' <=> /\ framed[StateOf(pos' - 1)].hurt /\ ~(At' = 0 /\ gap' # 0)
                             /\ ~(At' = 1 /\ gap' = 0)
           /\ HurtPast' <=> \E k \in 1..(pos' - 1) :
                               Phase(k) = 1 /\ framed[k].hurt /\ (k = pos' - 1 => gap' # 0)
<1>1. Ref' = IF gap' = 0 THEN After(pos' - 2) ELSE After(pos' - 1)
  BY DEF Ref, After, Phase, Older
<1>2. At' = Phase(pos' - 1)
  BY DEF At, Phase
<1>3. StateOf(pos - 1)' = StateOf(pos' - 1)
  BY DEF StateOf, Phase
<1>4. HurtFrame' <=> /\ framed'[StateOf(pos - 1)'].hurt /\ ~(At' = 0 /\ gap' # 0)
                     /\ ~(At' = 1 /\ gap' = 0)
  BY DEF HurtFrame
<1>5. HurtPast' <=> \E k \in 1..(pos' - 1) :
                       Phase(k) = 1 /\ framed'[k].hurt /\ (k = pos' - 1 => gap' # 0)
  BY Zenon DEF HurtPast, Phase
<1> QED BY <1>1, <1>2, <1>3, <1>4, <1>5

(* A word that arrives keeps all of this.                                *)
LEMMA WordKeeps ==
    ASSUME TxInv, RxInv, Word
    PROVE  RxInv'
<1>1. /\ pass = "bench" /\ framed' = framed /\ pass' = pass
      /\ gap \in Nat \ {0} /\ gap' = 0 /\ pos' = pos + 1 /\ pos <= Len(framed)
      /\ last_din_valid' /\ ~dout_valid' /\ lfsr' = lfsr /\ ~last_verify'
      /\ last_valid_word' \in Words
      /\ last_valid_word'.kind = framed[pos].kind /\ last_valid_word'.n = framed[pos].n
      /\ last_valid_word'.crc = framed[pos].crc /\ last_valid_word'.scr = framed[pos].scr
      /\ (last_valid_word'.hurt <=> framed[pos].hurt)
      /\ (sync_detected' <=> Phase(pos) = 0 /\ ~framed[pos].hurt)
  BY Arrives DEF RxInv
<1>2. PICK c \in Nat : c = pos - 1 /\ pos = c + 1
  BY DEF RxInv, RxType
<1>3. PICK m \in Nat : m = meta_frame_len /\ m >= 5
  BY FrameSize
<1>4. /\ At' = Phase(c + 1) /\ At = Phase(c) /\ Ref' = Ref /\ pos' - 1 = pos
      /\ (HurtFrame' <=> framed[StateOf(c + 1)].hurt /\ At' # 1)
      /\ (HurtFrame <=> framed[StateOf(c)].hurt /\ At # 0)
      /\ (HurtPast => HurtPast')
  <2>1. pos' - 1 = c + 1 /\ pos' - 2 = c
    BY <1>1, <1>2
  <2>2. /\ Ref' = After(c) /\ At' = Phase(c + 1)
        /\ (HurtFrame' <=> framed[StateOf(c + 1)].hurt /\ At' # 1)
        /\ HurtPast' <=> \E k \in 1..(c + 1) :
                            Phase(k) = 1 /\ framed[k].hurt /\ (k = c + 1 => FALSE)
    <3>1. /\ Ref' = IF gap' = 0 THEN After(pos' - 2) ELSE After(pos' - 1)
          /\ At' = Phase(pos' - 1)
          /\ (HurtFrame' <=> /\ framed[StateOf(pos' - 1)].hurt /\ ~(At' = 0 /\ gap' # 0)
                             /\ ~(At' = 1 /\ gap' = 0))
          /\ (HurtPast' <=> \E k \in 1..(pos' - 1) :
                               Phase(k) = 1 /\ framed[k].hurt /\ (k = pos' - 1 => gap' # 0))
      BY <1>1, RefMoves
    <3> QED BY <1>1, <2>1, <3>1, Zenon
  <2>3. /\ Ref = After(c) /\ At = Phase(c)
        /\ (HurtFrame <=> framed[StateOf(c)].hurt /\ At # 0)
        /\ HurtPast => \E k \in 1..c : Phase(k) = 1 /\ framed[k].hurt
    BY <1>1, <1>2 DEF Ref, At, HurtFrame, HurtPast
  <2>4. HurtPast => HurtPast'
    <3>1. SUFFICES ASSUME NEW k \in 1..c, Phase(k) = 1, framed[k].hurt PROVE HurtPast'
      BY <2>3
    <3>2. k \in 1..(c + 1) /\ k # c + 1
      BY <1>2
    <3> QED BY <2>2, <3>1, <3>2
  <2> QED BY <1>2, <2>1, <2>2, <2>3, <2>4
<1>5. c >= 1 => /\ At \in 0..(m - 1) /\ At' = IF At = m - 1 THEN 0 ELSE At + 1
                /\ At' # 1 => StateOf(c + 1) = StateOf(c)
  BY <1>2, <1>3, <1>4, PhaseStep
<1>6. (Tuned' <=> Tuned) /\ (Restarted' <=> Restarted) /\ (Stale' <=> Stale)
  BY <1>1, <1>4 DEF Tuned, Restarted, Stale, Reseeded, Started
<1>7. Receive(TRUE) /\ Respond
  BY DEF Word
<1>8. /\ ~F!good_sync /\ ~F!missing_sync
      /\ pos \in Nat \ {0} /\ step \in Nat /\ sync_tally \in Nat
  BY <1>1, Signals DEF RxInv, RxType
<1>9. /\ state' \in {"RESET", "SEARCH", "VERIFY", "LOCKED"} /\ sync_tally' \in Nat
      /\ state' = "LOCKED" => state = "LOCKED" \/ (state = "VERIFY" /\ sync_tally = 3)
      /\ state' = "VERIFY" => /\ state = "VERIFY" /\ sync_tally # 3
                              /\ (sync_tally <= 2 => sync_tally' = sync_tally)
  BY <1>7, <1>8, StateMoves DEF RxInv
<1>10. /\ step' \in Nat /\ (step' = step \/ step' = step + 1)
       /\ step = 0 /\ step' = 1 => state' = "LOCKED"
       /\ ~(step \in {6, 9} /\ step' = step + 1)
       /\ step = 12 /\ step' = 13 => state' # "LOCKED"
  BY <1>1, <1>7, <1>8, StepMoves
<1>11. RxType'
  BY <1>1, <1>8, <1>9, <1>10 DEF RxInv, RxType
<1>12. Heard'
  <2>1. pos' > 1 /\ framed'[pos' - 1] = framed[pos] /\ At' = Phase(pos)
    BY <1>1, <1>2, <1>4
  <2>2. /\ last_din_valid' <=> gap' = 0 /\ pos' > 1
        /\ dout_valid' => gap' = 1 /\ pos' > 1
        /\ sync_detected' <=> pos' > 1 /\ At' = 0 /\ ~framed'[pos' - 1].hurt
    BY <1>1, <2>1, Zenon
  <2> QED BY <1>1, <2>1, <2>2 DEF Heard
<1>13. Counted'
  BY <1>8, <1>9 DEF RxInv, Counted
<1>14. InFrame'
  <2>1. SUFFICES ASSUME Locking' PROVE InFrame'
    BY DEF InFrame
  <2>2. Locking /\ state # "SEARCH"
    BY <1>9, <2>1 DEF Locking
  <2>3. /\ pos > 1 /\ rx_cntr = Phase(pos) /\ (meta_cntr_max <=> rx_cntr = m - 1)
        /\ (expect_sync_word <=> At = 0)
    BY <1>3, <2>2 DEF RxInv, InFrame
  <2>4. /\ meta_cntr_max' = (rx_cntr = m - 2)
        /\ rx_cntr' = IF meta_cntr_max THEN 0 ELSE rx_cntr + 1
        /\ expect_sync_word' = (rx_cntr = 0) /\ expect_scram_state' = expect_sync_word
    BY <1>3, <1>7, <2>2 DEF Receive, F!Clock, F!MetaFrame
  <2>5. /\ Phase(pos) \in 0..(m - 1)
        /\ Phase(pos') = IF Phase(pos) = m - 1 THEN 0 ELSE Phase(pos) + 1
    BY <1>1, <1>3, <1>8, PhaseStep
  <2>6. rx_cntr' = Phase(pos')
    BY <2>3, <2>4, <2>5
  <2>7. meta_cntr_max' <=> rx_cntr' = m - 1
    <3>1. rx_cntr = m - 2 <=> Phase(pos') = m - 1
      BY <1>3, <2>3, <2>5
    <3> QED BY <2>4, <2>6, <3>1, Zenon
  <2>8. (expect_sync_word' <=> At' = 0) /\ (expect_scram_state' <=> At' = 1)
    <3>1. At' = Phase(pos)
      BY <1>2, <1>4
    <3>2. At = 0 <=> At' = 1
      BY <1>2, <1>3, <1>5, <2>3
    <3> QED BY <2>3, <2>4, <3>1, <3>2, Zenon
  <2>9. Phase(pos)' = Phase(pos') /\ pos' > 1
    BY <1>1, <1>8 DEF Phase
  <2> QED BY <1>3, <2>6, <2>7, <2>8, <2>9 DEF InFrame
<1>15. LongEnough => LongEnough'
  BY <1>1, <1>8 DEF LongEnough
<1>16. Verifying'
  <2>1. SUFFICES ASSUME state' = "VERIFY", Loaded' PROVE LongEnough' /\ (Tuned' \/ HurtFrame')
    BY DEF Verifying
  <2>2. state = "VERIFY" /\ sync_tally' = sync_tally
    BY <1>8, <1>9, <2>1 DEF RxInv, Counted
  <2>3. c >= 1
    BY <1>2, <2>2 DEF RxInv, InFrame, Locking
  <2>4. Loaded
    BY <1>1, <1>3, <1>5, <2>1, <2>2, <2>3 DEF Loaded
  <2>5. LongEnough /\ (Tuned \/ HurtFrame)
    BY <2>2, <2>4 DEF RxInv, Verifying
  <2>6. HurtFrame => HurtFrame'
    BY <1>3, <1>4, <1>5, <2>3
  <2> QED BY <1>6, <1>15, <2>5, <2>6
<1>17. state = "VERIFY" /\ sync_tally = 3 => LongEnough /\ Tuned
  <2>1. SUFFICES ASSUME state = "VERIFY", sync_tally = 3 PROVE LongEnough /\ Tuned
    OBVIOUS
  <2>2. At = 0 /\ Loaded
    BY <2>1 DEF RxInv, Counted, Loaded
  <2> QED BY <1>4, <2>1, <2>2 DEF RxInv, Verifying
<1>18. Locked'
  BY <1>6, <1>9, <1>15, <1>17 DEF RxInv, Locked
<1>19. HandedOut'
  BY <1>1 DEF HandedOut
<1>20. Steps'
  <2>1. step' >= 1 => LongEnough'
    BY <1>8, <1>10, <1>15, <1>18 DEF RxInv, Steps, Locked
  <2>2. step' >= 7 => Restarted' \/ HurtPast'
    BY <1>4, <1>6, <1>8, <1>10 DEF RxInv, Steps
  <2>3. step' >= 10 => Restarted'
    BY <1>6, <1>8, <1>10 DEF RxInv, Steps
  <2>4. step' >= 13 => state' # "LOCKED" \/ Tuned'
    <3>1. CASE step >= 13
      BY <1>6, <1>9, <1>17, <3>1 DEF RxInv, Steps
    <3>2. CASE ~(step >= 13)
      BY <1>8, <1>10, <3>2
    <3> QED BY <3>1, <3>2
  <2> QED BY <2>1, <2>2, <2>3, <2>4 DEF Steps
<1> QED BY <1>11, <1>12, <1>13, <1>14, <1>16, <1>18, <1>19, <1>20 DEF RxInv

(* The registers between two words.                                        *)
LEMMA IdleFollows ==
    ASSUME TxInv, RxInv, Idle
    PROVE  RxType' /\ Heard' /\ InFrame' /\ Counted'
<1>1. /\ pass = "bench" /\ framed' = framed /\ pass' = pass
      /\ gap \in Nat /\ gap' = gap + 1 /\ pos' = pos
      /\ ~last_din_valid' /\ (dout_valid' <=> last_din_valid)
      /\ (sync_detected' <=> sync_detected) /\ last_valid_word' = last_valid_word
      /\ lfsr' = IF F!scrambler_load /\ ~sync_locked THEN LoadVal(last_valid_word)
                 ELSE IF F!scrambler_evolve THEN Older(lfsr) ELSE lfsr
  BY Settles DEF RxInv
<1>2. Receive(FALSE) /\ Respond
  BY DEF Idle
<1>3. PICK m \in Nat : m = meta_frame_len /\ m >= 5
  BY FrameSize
<1>4. pos \in Nat \ {0} /\ step \in Nat /\ sync_tally \in Nat /\ lfsr \in States
  BY DEF RxInv, RxType
<1>5. /\ state' \in {"RESET", "SEARCH", "VERIFY", "LOCKED"} /\ sync_tally' \in Nat
      /\ state' = "LOCKED" => state = "LOCKED" \/ state = "VERIFY"
      /\ state' = "VERIFY" =>
           \/ state = "SEARCH" /\ F!good_sync /\ sync_tally' = 0
           \/ /\ state = "VERIFY" /\ sync_tally # 3
              /\ sync_tally <= 2 => sync_tally' = IF F!good_sync THEN sync_tally + 1
                                                  ELSE sync_tally
  BY <1>2, StateMoves DEF RxInv
<1>6. At' = At
  BY <1>1 DEF At, Phase
<1>7. F!good_sync => At = 0 /\ gap = 0 /\ pos > 1
  BY Signals DEF RxInv
<1>8. RxType'
  <2>1. lfsr' \in States
    <3>1. LoadVal(last_valid_word) \in States
      <4>1. Noise.scr \in States
        BY DEF States, Seeds, Noise
      <4>2. last_valid_word.kind = "state" => last_valid_word.scr \in States
        <5>1. CASE pos = 1
          BY <5>1 DEF RxInv, Heard, Noise
        <5>2. CASE pos > 1
          <6>1. framed[pos - 1] \in Words
            <7>1. framed \in Seq(Words) /\ pos - 1 \in 1..Len(framed)
              BY <1>4, <5>2 DEF RxInv, RxType, Heard, TxInv, WordsFit
            <7> QED BY <7>1, ElementOfSeq
          <6> QED BY <5>2, <6>1 DEF RxInv, Heard, Words
        <5> QED BY <1>4, <5>1, <5>2
      <4> QED BY <4>1, <4>2 DEF LoadVal
    <3>2. Older(lfsr) \in States
      BY <1>4 DEF Older, States
    <3> QED BY <1>1, <1>4, <3>1, <3>2
  <2>2. step' \in Nat
    BY <1>2, <1>4, StepMoves
  <2> QED BY <1>1, <1>4, <1>5, <2>1, <2>2 DEF RxInv, RxType
<1>9. Heard'
  <2>1. framed'[pos' - 1] = framed[pos - 1]
    BY <1>1
  <2>2. last_din_valid <=> gap = 0 /\ pos > 1
    BY DEF RxInv, Heard
  <2>3. gap' # 0 /\ (gap = 0 => gap' = 1)
    BY <1>1
  <2>4. /\ last_din_valid' <=> gap' = 0 /\ pos' > 1
        /\ dout_valid' => gap' = 1 /\ pos' > 1
    BY <1>1, <2>2, <2>3
  <2>5. sync_detected' <=> pos' > 1 /\ At' = 0 /\ ~framed'[pos' - 1].hurt
    BY <1>1, <1>6, <2>1 DEF RxInv, Heard
  <2> QED BY <1>1, <2>1, <2>4, <2>5 DEF RxInv, Heard
<1>10. InFrame'
  <2>1. SUFFICES ASSUME Locking' PROVE InFrame'
    BY DEF InFrame
  <2>2. Phase(pos)' = Phase(pos)
    BY <1>1 DEF Phase
  <2>3. CASE Locking
    <3>1. /\ pos > 1 /\ rx_cntr = Phase(pos) /\ (meta_cntr_max <=> rx_cntr = meta_frame_len - 1)
          /\ (expect_sync_word <=> At = 0) /\ (expect_scram_state <=> At = 1)
      BY <2>3 DEF RxInv, InFrame
    <3>2. /\ rx_cntr' = rx_cntr /\ meta_cntr_max' = meta_cntr_max
          /\ expect_sync_word' = expect_sync_word /\ expect_scram_state' = expect_scram_state
      BY <1>2, <2>3 DEF Receive, F!Clock, F!MetaFrame, Locking
    <3> QED BY <1>1, <1>6, <2>2, <3>1, <3>2 DEF InFrame
  <2>4. CASE ~Locking
    <3>1. state = "SEARCH" /\ F!good_sync
      BY <1>5, <2>1, <2>4 DEF Locking
    <3>2. /\ rx_cntr' = 1 /\ meta_cntr_max' = FALSE
          /\ expect_sync_word' = TRUE /\ expect_scram_state' = FALSE
      BY <1>2, <3>1 DEF Receive, F!Clock, F!MetaFrame, F!Frozen
    <3>3. At = 0 /\ pos > 1
      BY <1>7, <3>1
    <3>4. Phase(pos) = 1
      <4>1. PICK c \in Nat \ {0} : c = pos - 1 /\ pos = c + 1
        BY <1>4, <3>3
      <4>2. Phase(c) = 0
        BY <3>3, <4>1 DEF At
      <4> QED BY <1>3, <4>1, <4>2, PhaseStep
    <3> QED BY <1>1, <1>3, <1>6, <2>2, <3>2, <3>3, <3>4 DEF InFrame
  <2> QED BY <2>3, <2>4
<1>11. Counted'
  <2>1. SUFFICES ASSUME state' = "VERIFY"
                 PROVE  sync_tally' <= 3 /\ (sync_tally' = 3 => At' = 0 /\ gap' = 1)
    BY DEF Counted
  <2>2. CASE sync_tally' = 0
    BY <2>2
  <2>3. CASE /\ state = "VERIFY" /\ sync_tally # 3
             /\ sync_tally <= 2 => sync_tally' = IF F!good_sync THEN sync_tally + 1
                                                 ELSE sync_tally
    <3>1. sync_tally <= 2
      BY <1>4, <2>3 DEF RxInv, Counted
    <3>2. sync_tally' = IF F!good_sync THEN sync_tally + 1 ELSE sync_tally
      BY <2>3, <3>1
    <3>3. sync_tally' <= 3 /\ (sync_tally' = 3 => F!good_sync)
      BY <1>4, <3>1, <3>2
    <3> QED BY <1>1, <1>6, <1>7, <3>3
  <2> QED BY <1>5, <2>1, <2>2, <2>3
<1> QED BY <1>8, <1>9, <1>10, <1>11

(* A clock without a word or anything to settle does so too.             *)
LEMMA WaitKeeps ==
    ASSUME TxInv, RxInv, Idle, gap # 0 \/ pos = 1
    PROVE  RxInv'
<1>1. /\ framed' = framed /\ gap \in Nat /\ gap' = gap + 1 /\ pos' = pos
      /\ lfsr' = lfsr /\ ~last_verify' /\ ~dout_valid'
  BY Settles DEF RxInv
<1>2. RxType' /\ Heard' /\ InFrame' /\ Counted'
  BY IdleFollows
<1>3. Receive(FALSE) /\ Respond
  BY DEF Idle
<1>4. ~F!good_sync /\ pos \in Nat \ {0} /\ step \in Nat /\ sync_tally \in Nat
  BY <1>1, Signals DEF RxInv, RxType
<1>5. /\ state' = "LOCKED" => state = "LOCKED" \/ (state = "VERIFY" /\ sync_tally = 3)
      /\ state' = "VERIFY" => /\ state = "VERIFY" /\ sync_tally # 3
                              /\ (sync_tally <= 2 => sync_tally' = sync_tally)
  BY <1>3, <1>4, StateMoves DEF RxInv
<1>6. /\ step' \in Nat /\ (step' = step \/ step' = step + 1)
      /\ step = 0 /\ step' = 1 => state' = "LOCKED"
      /\ ~(step \in {6, 9} /\ step' = step + 1)
      /\ step = 12 /\ step' = 13 => state' # "LOCKED"
  BY <1>1, <1>3, <1>4, StepMoves
<1>7. HandedOut'
  BY <1>1 DEF HandedOut
<1>8. CASE pos = 1
  <2>1. ~Locking /\ step = 0
    BY <1>4, <1>8 DEF RxInv, InFrame, Steps, LongEnough
  <2>2. state' # "VERIFY" /\ state' # "LOCKED" /\ step' = 0
    BY <1>5, <1>6, <2>1 DEF Locking
  <2>3. Verifying' /\ Locked' /\ Steps'
    BY <2>2 DEF Verifying, Locked, Steps
  <2> QED BY <1>2, <1>7, <2>3 DEF RxInv
<1>9. CASE gap # 0
  <2>1. gap' # 0 /\ pos \in Nat
    BY <1>1, <1>4
  <2>2. /\ At' = At /\ Ref' = Ref /\ (HurtFrame' <=> HurtFrame) /\ (HurtPast' <=> HurtPast)
    <3>1. Ref' = After(pos - 1) /\ At' = Phase(pos - 1)
          /\ (HurtFrame' <=> framed[StateOf(pos - 1)].hurt /\ At' # 0)
          /\ (HurtPast' <=> \E k \in 1..(pos - 1) : Phase(k) = 1 /\ framed[k].hurt)
      BY <1>1, <2>1, RefMoves
    <3>2. Ref = After(pos - 1) /\ At = Phase(pos - 1)
          /\ (HurtFrame <=> framed[StateOf(pos - 1)].hurt /\ At # 0)
          /\ (HurtPast <=> \E k \in 1..(pos - 1) : Phase(k) = 1 /\ framed[k].hurt)
      BY <1>9 DEF Ref, At, HurtFrame, HurtPast
    <3> QED BY <3>1, <3>2
  <2>3. (Tuned' <=> Tuned) /\ (Restarted' <=> Restarted) /\ (Stale' <=> Stale)
    BY <1>1, <2>2 DEF Tuned, Restarted, Stale, Reseeded, Started
  <2>4. LongEnough => LongEnough'
    BY <1>1, <2>1 DEF LongEnough
  <2>5. Verifying'
    <3>1. SUFFICES ASSUME state' = "VERIFY", Loaded' PROVE LongEnough' /\ (Tuned' \/ HurtFrame')
      BY DEF Verifying
    <3>2. state = "VERIFY" /\ sync_tally' = sync_tally
      BY <1>4, <1>5, <3>1 DEF RxInv, Counted
    <3>3. Loaded
      BY <1>9, <2>1, <2>2, <3>1, <3>2 DEF Loaded
    <3> QED BY <2>2, <2>3, <2>4, <3>2, <3>3 DEF RxInv, Verifying
  <2>6. state = "VERIFY" /\ sync_tally = 3 => LongEnough /\ Tuned
    <3>1. SUFFICES ASSUME state = "VERIFY", sync_tally = 3 PROVE LongEnough /\ Tuned
      OBVIOUS
    <3>2. At = 0 /\ Loaded
      BY <3>1 DEF RxInv, Counted, Loaded
    <3> QED BY <1>9, <3>1, <3>2 DEF RxInv, Verifying, HurtFrame
  <2>7. Locked'
    BY <1>5, <2>3, <2>4, <2>6 DEF RxInv, Locked
  <2>8. Steps'
    <3>1. step' >= 1 => LongEnough'
      BY <1>4, <1>6, <2>4, <2>7 DEF RxInv, Steps, Locked
    <3>2. step' >= 7 => Restarted' \/ HurtPast'
      BY <1>4, <1>6, <2>2, <2>3 DEF RxInv, Steps
    <3>3. step' >= 10 => Restarted'
      BY <1>4, <1>6, <2>3 DEF RxInv, Steps
    <3>4. step' >= 13 => state' # "LOCKED" \/ Tuned'
      <4>1. CASE step >= 13
        BY <1>5, <2>3, <2>6, <4>1 DEF RxInv, Steps
      <4>2. CASE ~(step >= 13)
        BY <1>4, <1>6, <4>2
      <4> QED BY <4>1, <4>2
    <3> QED BY <3>1, <3>2, <3>3, <3>4 DEF Steps
  <2> QED BY <1>2, <1>7, <2>5, <2>7, <2>8 DEF RxInv
<1> QED BY <1>8, <1>9

(* How the scrambler state goes from word to word of the frame.            *)
LEMMA Changes ==
    ASSUME WordsFit, NEW c \in 3..Len(framed)
    PROVE  /\ Phase(c) = 0 => After(c) = After(c - 1)
           /\ Phase(c) = 1 => /\ After(c) = framed[c].scr
                              /\ \/ After(c) = After(c - 1)
                                 \/ /\ After(c).seed = Reseeded.seed
                                    /\ After(c - 1).seed = Started.seed
           /\ Phase(c) >= 2 => framed[c].scr = After(c - 1) /\ After(c) = Older(After(c - 1))
<1>1. PICK m \in Nat : m = meta_frame_len /\ m >= 5
  BY FrameSize
<1>2. PICK b \in 2..(Len(framed) - 1) : c = b + 1 /\ b = c - 1
  BY DEF WordsFit
<1>3. b \in Nat \ {0} /\ Phase(b) \in 0..(m - 1)
      /\ Phase(c) = IF Phase(b) = m - 1 THEN 0 ELSE Phase(b) + 1
  <2>1. b \in Nat \ {0}
    BY <1>2 DEF WordsFit
  <2>2. /\ Phase(b) \in 0..(meta_frame_len - 1)
        /\ Phase(b + 1) = IF Phase(b) = meta_frame_len - 1 THEN 0 ELSE Phase(b) + 1
    BY <2>1, PhaseStep
  <2> QED BY <1>1, <1>2, <2>1, <2>2
<1>4. Follows(b)
  BY <1>2 DEF WordsFit
<1>5. ASSUME Phase(c) = 0 PROVE After(c) = After(c - 1)
  <2>1. Phase(b) = m - 1
    BY <1>1, <1>3, <1>5
  <2>2. After(b) = Older(framed[b].scr)
    BY <1>1, <2>1 DEF After
  <2> QED BY <1>2, <1>5, <2>2 DEF After
<1>6. ASSUME Phase(c) = 1
      PROVE  /\ After(c) = framed[c].scr
             /\ \/ After(c) = After(c - 1)
                \/ After(c).seed = Reseeded.seed /\ After(c - 1).seed = Started.seed
  <2>1. After(c) = framed[c].scr
    BY <1>6 DEF After
  <2> QED BY <1>2, <1>4, <1>6, <2>1 DEF Follows
<1>7. ASSUME Phase(c) >= 2
      PROVE  framed[c].scr = After(c - 1) /\ After(c) = Older(After(c - 1))
  <2>1. After(c) = Older(framed[c].scr)
    BY <1>7 DEF After
  <2> QED BY <1>2, <1>4, <1>7, <2>1 DEF Follows
<1> QED BY <1>5, <1>6, <1>7

(* The clock after a word: the scrambler loads or moves on.                *)
LEMMA SettleKeeps ==
    ASSUME TxInv, RxInv, Idle, gap = 0, pos > 1
    PROVE  RxInv'
<1>1. /\ framed' = framed /\ gap' = 1 /\ pos' = pos
      /\ last_verify' = (F!scrambler_load /\ sync_locked)
      /\ match' = (lfsr = LoadVal(last_valid_word))
      /\ lfsr' = IF F!scrambler_load /\ ~sync_locked THEN LoadVal(last_valid_word)
                 ELSE IF F!scrambler_evolve THEN Older(lfsr) ELSE lfsr
  BY Settles DEF RxInv
<1>2. RxType' /\ Heard' /\ InFrame' /\ Counted'
  BY IdleFollows
<1>3. Receive(FALSE) /\ Respond
  BY DEF Idle
<1>4. PICK m \in Nat : m = meta_frame_len /\ m >= 5
  BY FrameSize
<1>5. PICK c \in Nat \ {0} : c = pos - 1 /\ pos = c + 1 /\ c \in 1..Len(framed)
  <2>1. pos \in Nat \ {0} /\ pos <= Len(framed) + 1 /\ Len(framed) \in Nat
    BY DEF RxInv, RxType, TxInv, WordsFit
  <2>2. pos - 1 \in Nat \ {0} /\ pos = (pos - 1) + 1 /\ pos - 1 \in 1..Len(framed)
    BY <2>1
  <2> QED BY <2>2
<1>6. /\ step \in Nat /\ sync_tally \in Nat /\ lfsr \in States
      /\ last_valid_word.kind = framed[c].kind /\ last_valid_word.n = framed[c].n
      /\ last_valid_word.crc = framed[c].crc /\ last_valid_word.scr = framed[c].scr
      /\ (last_valid_word.hurt <=> framed[c].hurt)
  BY <1>5 DEF RxInv, RxType, Heard
<1>7. /\ At = Phase(c) /\ At' = At /\ At \in 0..(m - 1)
      /\ At = 1 => c >= 2 /\ StateOf(c) = c
      /\ (LongEnough <=> c >= 3) /\ (LongEnough' <=> c >= 2)
  <2>1. At = Phase(c) /\ At' = At
    BY <1>1, <1>5 DEF At, Phase
  <2>2. (LongEnough <=> c >= 3) /\ (LongEnough' <=> c >= 2)
    BY <1>1, <1>5 DEF LongEnough
  <2>3. Phase(c) \in 0..(meta_frame_len - 1) /\ (Phase(c) = 1 => c >= 2 /\ StateOf(c) = c)
    BY <1>5, PhaseStep
  <2> QED BY <1>4, <2>1, <2>2, <2>3
<1>8. /\ Ref = After(c - 1) /\ Ref' = After(c)
      /\ HurtFrame <=> framed[StateOf(c)].hurt /\ At # 1
      /\ HurtFrame' <=> framed[StateOf(c)].hurt /\ At # 0
      /\ HurtPast => \E k \in 1..(c - 1) : Phase(k) = 1 /\ framed[k].hurt
      /\ HurtPast' <=> \E k \in 1..c : Phase(k) = 1 /\ framed[k].hurt
  <2>1. pos - 2 = c - 1 /\ pos - 1 = c /\ pos' - 2 = c - 1 /\ pos' - 1 = c
    BY <1>1, <1>5
  <2>2. /\ Ref = After(c - 1)
        /\ HurtFrame <=> framed[StateOf(c)].hurt /\ At # 1
    BY <2>1 DEF Ref, HurtFrame
  <2>3. /\ Ref' = After(c)
        /\ HurtFrame' <=> framed[StateOf(c)].hurt /\ At # 0
        /\ HurtPast' <=> \E k \in 1..c : Phase(k) = 1 /\ framed[k].hurt
    BY <1>1, <1>7, <2>1, RefMoves
  <2>4. ASSUME HurtPast PROVE \E k \in 1..(c - 1) : Phase(k) = 1 /\ framed[k].hurt
    <3>1. PICK k \in 1..c : Phase(k) = 1 /\ framed[k].hurt /\ k # c
      BY <2>1, <2>4 DEF HurtPast
    <3>2. k \in 1..(c - 1)
      BY <1>5, <3>1
    <3> QED BY <3>1, <3>2
  <2> QED BY <2>2, <2>3, <2>4
<1>9. c >= 3 =>
        /\ At = 0 => After(c) = After(c - 1)
        /\ At = 1 => /\ After(c) = framed[c].scr
                     /\ \/ After(c) = After(c - 1)
                        \/ /\ After(c).seed = Reseeded.seed
                           /\ After(c - 1).seed = Started.seed
        /\ At >= 2 => framed[c].scr = After(c - 1) /\ After(c) = Older(After(c - 1))
  <2>1. SUFFICES ASSUME c >= 3
                 PROVE  /\ At = 0 => After(c) = After(c - 1)
                        /\ At = 1 => /\ After(c) = framed[c].scr
                                     /\ \/ After(c) = After(c - 1)
                                        \/ /\ After(c).seed = Reseeded.seed
                                           /\ After(c - 1).seed = Started.seed
                        /\ At >= 2 => /\ framed[c].scr = After(c - 1)
                                      /\ After(c) = Older(After(c - 1))
    OBVIOUS
  <2>2. c \in 3..Len(framed) /\ WordsFit
    BY <1>5, <2>1 DEF TxInv
  <2> QED BY <1>7, <2>2, Changes
<1>10. /\ framed[c] \in Words /\ framed[c].kind = Kind(At)
       /\ At = 0 /\ c >= 2 /\ framed[StateOf(c)].hurt => framed[c].hurt
  <2>1. framed \in Seq(Words) /\ Fits(framed[c], Phase(c))
    BY <1>5 DEF TxInv, WordsFit
  <2>2. framed[c] \in Words
    BY <1>5, <2>1, ElementOfSeq
  <2>3. ASSUME At = 0, c >= 2, framed[StateOf(c)].hurt PROVE framed[c].hurt
    <3>1. c \in 2..Len(framed)
      BY <1>5, <2>3
    <3> QED BY <1>7, <2>3, <3>1 DEF TxInv, WordsFit
  <2> QED BY <1>7, <2>1, <2>2, <2>3 DEF Fits
<1>11. Locking =>
         /\ At = 0 /\ framed[c].hurt => F!missing_sync
         /\ F!good_sync <=> At = 0 /\ ~framed[c].hurt
         /\ F!scrambler_load <=> At = 1
         /\ F!scrambler_evolve <=> At # 0 /\ At # 1
  BY <1>5, Signals DEF RxInv
<1>12. /\ state' = "LOCKED" => state = "LOCKED"
       /\ state' = "VERIFY" =>
            \/ At = 0 /\ sync_tally' = 0
            \/ state = "VERIFY" /\ ~F!missing_sync
  <2>1. /\ state' = "LOCKED" => state = "LOCKED" \/ (state = "VERIFY" /\ sync_tally = 3)
        /\ state' = "VERIFY" => \/ F!good_sync /\ sync_tally' = 0
                                \/ state = "VERIFY" /\ ~F!missing_sync
    BY <1>3, StateMoves DEF RxInv
  <2>2. F!good_sync => At = 0
    BY Signals DEF RxInv
  <2>3. ~(state = "VERIFY" /\ sync_tally = 3)
    BY DEF RxInv, Counted
  <2> QED BY <2>1, <2>2, <2>3
<1>13. LoadVal(last_valid_word) = IF At = 1 /\ ~framed[c].hurt THEN framed[c].scr ELSE Noise.scr
  <2>1. framed[c].kind = "state" <=> At = 1
    BY <1>4, <1>7, <1>10 DEF Kind
  <2> QED BY <1>6, <2>1 DEF LoadVal
<1>14. Started.seed # Reseeded.seed
  BY DEF Started, Reseeded
<1>15. c >= 3 /\ Restarted => Restarted'
  <2>1. SUFFICES ASSUME c >= 3, After(c - 1).seed = Reseeded.seed
                 PROVE  After(c).seed = Reseeded.seed
    BY <1>8 DEF Restarted, Reseeded
  <2> PICK scr : scr = After(c - 1)
    OBVIOUS
  <2>2. CASE At = 0
    BY <1>9, <2>1, <2>2
  <2>3. CASE At = 1
    BY <1>9, <2>1, <2>3
  <2>4. CASE At >= 2
    <3>1. After(c - 1) \in States
      BY <1>9, <1>10, <2>1, <2>4 DEF Words
    <3> QED BY <1>9, <2>1, <2>4, <3>1 DEF Older, States
  <2> QED BY <1>4, <1>7, <2>2, <2>3, <2>4
<1>16. Verifying'
  <2>1. SUFFICES ASSUME state' = "VERIFY", Loaded' PROVE c >= 2 /\ (Tuned' \/ HurtFrame')
    BY <1>7 DEF Verifying
  <2>2. state = "VERIFY" /\ ~F!missing_sync /\ Locking
    <3>1. At = 0 => sync_tally' # 0
      BY <1>1, <1>2, <1>7, <2>1 DEF Loaded, RxType
    <3> QED BY <1>12, <2>1, <3>1 DEF Locking
  <2>3. Loaded => c >= 3 /\ (lfsr = After(c - 1) \/ (framed[StateOf(c)].hurt /\ At # 1))
    BY <1>7, <1>8, <2>2 DEF RxInv, Verifying, Tuned
  <2>4. lfsr' = After(c) => Tuned'
    BY <1>8 DEF Tuned
  <2>5. CASE At = 0
    <3>1. c >= 3 /\ (lfsr = After(c - 1) \/ framed[StateOf(c)].hurt)
      BY <2>3, <2>5 DEF Loaded
    <3>2. ~framed[c].hurt
      BY <1>11, <2>2, <2>5
    <3>3. lfsr = After(c - 1) /\ lfsr' = lfsr
      BY <1>1, <1>10, <1>11, <2>2, <2>5, <3>1, <3>2
    <3> QED BY <1>9, <2>4, <2>5, <3>1, <3>3
  <2>6. CASE At = 1
    <3>1. c >= 2 /\ StateOf(c) = c
      BY <1>7, <2>6
    <3>2. lfsr' = IF framed[c].hurt THEN Noise.scr ELSE framed[c].scr
      BY <1>1, <1>11, <1>13, <2>2, <2>6 DEF sync_locked, F!sync_locked
    <3>3. After(c) = framed[c].scr
      BY <1>7, <2>6 DEF After
    <3> QED BY <1>8, <2>4, <2>6, <3>1, <3>2, <3>3
  <2>7. CASE At >= 2
    <3>1. c >= 3 /\ (lfsr = After(c - 1) \/ framed[StateOf(c)].hurt)
      BY <2>3, <2>7 DEF Loaded
    <3>2. At # 0 /\ At # 1
      BY <2>7
    <3>3. lfsr' = Older(lfsr)
      BY <1>1, <1>11, <2>2, <3>2
    <3> QED BY <1>8, <1>9, <2>4, <2>7, <3>1, <3>2, <3>3
  <2> QED BY <1>4, <1>7, <2>5, <2>6, <2>7
<1>17. state' = "LOCKED" =>
         /\ state = "LOCKED" /\ Locking /\ c >= 3 /\ (Tuned \/ Stale)
         /\ lfsr' = IF At >= 2 THEN Older(lfsr) ELSE lfsr
  <2>1. SUFFICES ASSUME state' = "LOCKED"
                 PROVE  /\ state = "LOCKED" /\ Locking /\ c >= 3 /\ (Tuned \/ Stale)
                        /\ lfsr' = IF At >= 2 THEN Older(lfsr) ELSE lfsr
    OBVIOUS
  <2>2. state = "LOCKED" /\ Locking /\ c >= 3 /\ (Tuned \/ Stale)
    BY <1>7, <1>12, <2>1 DEF RxInv, Locked, Locking
  <2>3. At >= 2 <=> At # 0 /\ At # 1
    BY <1>4, <1>7
  <2> QED BY <1>1, <1>11, <2>2, <2>3 DEF sync_locked, F!sync_locked
<1>18. ASSUME state' = "LOCKED", Stale PROVE Stale'
  <2>1. Restarted'
    BY <1>15, <1>17, <1>18 DEF Stale
  <2>2. lfsr'.seed = lfsr.seed
    BY <1>6, <1>17, <1>18 DEF Older, States
  <2> QED BY <1>18, <2>1, <2>2 DEF Stale, Started
<1>19. ASSUME state' = "LOCKED", Tuned PROVE Tuned' \/ (Stale' /\ ~Restarted)
  <2>1. lfsr = After(c - 1) /\ c >= 3
    BY <1>8, <1>17, <1>19 DEF Tuned
  <2>2. CASE After(c) = IF At >= 2 THEN Older(After(c - 1)) ELSE After(c - 1)
    BY <1>8, <1>17, <1>19, <2>1, <2>2 DEF Tuned
  <2>3. CASE At = 1 /\ After(c).seed = Reseeded.seed /\ After(c - 1).seed = Started.seed
    <3>1. lfsr' = After(c - 1)
      BY <1>17, <1>19, <2>1, <2>3
    <3> QED BY <1>8, <1>14, <2>3, <3>1 DEF Stale, Restarted, Started, Reseeded
  <2> QED BY <1>4, <1>7, <1>9, <2>1, <2>2, <2>3
<1>20. Locked'
  BY <1>7, <1>17, <1>18, <1>19 DEF Locked
<1>21. HandedOut'
  <2>1. SUFFICES ASSUME state' = "LOCKED", dout_valid'
                 PROVE  \/ dout'.kind = framed[c].kind /\ dout'.n = framed[c].n
                        \/ At >= 2 /\ Stale'
    BY <1>1, <1>5, <1>7 DEF HandedOut
  <2>2. /\ expect_sync_word <=> At = 0
        /\ expect_scram_state <=> At = 1
    BY <1>17, <2>1 DEF RxInv, InFrame
  <2>3. dout' = IF expect_sync_word THEN RawSync(last_valid_word)
                ELSE IF expect_scram_state THEN Blanked(last_valid_word)
                ELSE Descrambled(last_valid_word)
    <3>1. last_din_valid
      BY <1>5 DEF RxInv, Heard
    <3> QED BY <1>3, <3>1 DEF Receive, Dout
  <2>4. CASE At = 0
    <3>1. dout' = last_valid_word
      BY <1>6, <1>10, <2>2, <2>3, <2>4 DEF RawSync, Kind
    <3> QED BY <1>6, <3>1
  <2>5. CASE At = 1
    <3>1. last_valid_word.kind = "state"
      BY <1>6, <1>10, <2>5 DEF Kind
    <3>2. dout' = [last_valid_word EXCEPT !.hurt = FALSE]
      BY <2>2, <2>3, <2>5, <3>1 DEF Blanked
    <3> QED BY <1>6, <3>1, <3>2
  <2>6. CASE At >= 2
    <3>1. last_valid_word.kind \in {"skip", "diag", "data"}
      BY <1>6, <1>10, <2>6 DEF Kind
    <3>2. dout' = IF last_valid_word.scr = lfsr THEN last_valid_word ELSE Noise
      BY <2>2, <2>3, <2>6, <3>1 DEF Descrambled
    <3>3. last_valid_word.scr = After(c - 1) /\ c >= 3
      BY <1>6, <1>9, <1>17, <2>1, <2>6
    <3>4. CASE Tuned
      BY <1>6, <1>8, <3>2, <3>3, <3>4 DEF Tuned
    <3>5. CASE Stale
      BY <1>18, <2>1, <2>6, <3>5
    <3> QED BY <1>17, <2>1, <3>4, <3>5
  <2> QED BY <1>4, <1>7, <2>4, <2>5, <2>6
<1>22. /\ step' \in Nat /\ (step' = step \/ step' = step + 1)
       /\ step = 0 /\ step' = 1 => state' = "LOCKED"
       /\ step \in {6, 9} /\ step' = step + 1 => last_verify' /\ ~match'
       /\ step = 12 /\ step' = 13 => state' # "LOCKED"
  BY <1>3, <1>6, StepMoves
<1>23. step >= 1 => c >= 3
  BY <1>7 DEF RxInv, Steps
<1>24. HurtPast => HurtPast'
  <2>1. SUFFICES ASSUME NEW k \in 1..(c - 1), Phase(k) = 1, framed[k].hurt PROVE HurtPast'
    BY <1>8
  <2>2. k \in 1..c
    BY <2>1
  <2> QED BY <1>8, <2>1, <2>2
<1>25. ASSUME step \in {6, 9}, step' = step + 1
       PROVE  At = 1 /\ (framed[c].hurt \/ Restarted')
  <2>1. c >= 3 /\ last_verify' /\ ~match'
    BY <1>22, <1>23, <1>25
  <2>2. F!scrambler_load /\ state = "LOCKED" /\ lfsr # LoadVal(last_valid_word)
    BY <1>1, <2>1 DEF sync_locked, F!sync_locked
  <2>3. At = 1
    BY <1>11, <2>2 DEF Locking
  <2>4. ASSUME ~framed[c].hurt PROVE Restarted'
    <3>1. lfsr # After(c)
      BY <1>9, <1>13, <2>1, <2>2, <2>3, <2>4
    <3>2. CASE Stale
      BY <1>15, <2>1, <3>2 DEF Stale
    <3>3. CASE Tuned
      <4>1. After(c).seed = Reseeded.seed
        BY <1>8, <1>9, <2>1, <2>3, <3>1, <3>3 DEF Tuned
      <4> QED BY <1>8, <4>1 DEF Restarted, Reseeded
    <3> QED BY <2>2, <3>2, <3>3 DEF RxInv, Locked
  <2> QED BY <2>3, <2>4
<1>26. Steps'
  <2>1. step' >= 1 => LongEnough'
    BY <1>6, <1>7, <1>17, <1>22, <1>23
  <2>2. step' >= 7 => Restarted' \/ HurtPast'
    <3>1. CASE step >= 7
      BY <1>6, <1>15, <1>23, <1>24, <3>1 DEF RxInv, Steps
    <3>2. CASE step = 6 /\ step' = 7
      <4>1. At = 1 /\ (framed[c].hurt \/ Restarted')
        BY <1>25, <3>2
      <4>2. At = 1 /\ framed[c].hurt => HurtPast'
        BY <1>5, <1>7, <1>8
      <4> QED BY <4>1, <4>2
    <3>3. step' >= 7 => step >= 7 \/ (step = 6 /\ step' = 7)
      BY <1>6, <1>22
    <3> QED BY <3>1, <3>2, <3>3
  <2>3. step' >= 10 => Restarted'
    <3>1. CASE step >= 10
      BY <1>6, <1>15, <1>23, <3>1 DEF RxInv, Steps
    <3>2. CASE step = 9 /\ step' = 10
      <4>1. At = 1 /\ (framed[c].hurt \/ Restarted') /\ (Restarted \/ HurtPast) /\ c >= 3
        BY <1>23, <1>25, <3>2 DEF RxInv, Steps
      <4>2. CASE Restarted
        BY <1>15, <4>1, <4>2
      <4>3. CASE HurtPast
        <5>1. PICK k \in 1..(c - 1) : Phase(k) = 1 /\ framed[k].hurt
          BY <1>8, <4>3
        <5>2. k \in 1..Len(framed) /\ k # c
          BY <1>5, <5>1
        <5>3. ~framed[c].hurt
          BY <1>5, <1>7, <4>1, <5>1, <5>2 DEF TxInv, WordsFit
        <5> QED BY <4>1, <5>3
      <4> QED BY <4>1, <4>2, <4>3
    <3>3. step' >= 10 => step >= 10 \/ (step = 9 /\ step' = 10)
      BY <1>6, <1>22
    <3> QED BY <3>1, <3>2, <3>3
  <2>4. step' >= 13 => state' # "LOCKED" \/ Tuned'
    <3>1. CASE step >= 13
      <4>1. SUFFICES ASSUME state' = "LOCKED" PROVE Tuned'
        OBVIOUS
      <4>2. Tuned /\ Restarted
        BY <1>6, <1>17, <3>1, <4>1 DEF RxInv, Steps
      <4> QED BY <1>19, <4>1, <4>2
    <3>2. CASE ~(step >= 13)
      BY <1>6, <1>22, <3>2
    <3> QED BY <3>1, <3>2
  <2> QED BY <2>1, <2>2, <2>3, <2>4 DEF Steps
<1> QED BY <1>2, <1>16, <1>20, <1>21, <1>26 DEF RxInv

(* The receiver starts searching.                                        *)
LEMMA RxStart == LaneInitial => RxInv
<1> SUFFICES ASSUME LaneInitial PROVE RxInv
  OBVIOUS
<1>1. /\ pos = 1 /\ gap = 0 /\ lfsr = Noise.scr /\ state = "RESET" /\ sync_tally = 0 /\ step = 0
      /\ last_din_valid = FALSE /\ dout_valid = FALSE /\ sync_detected = FALSE
      /\ last_valid_word = Noise /\ framed = <<>>
  BY DEF LaneInitial, LaneInit, Init, F!Init
<1>2. RxType
  <2>1. lfsr \in States
    BY <1>1 DEF States, Seeds, Noise
  <2>2. pos <= Len(framed) + 1
    BY <1>1
  <2> QED BY <1>1, <2>1, <2>2 DEF RxType
<1>3. Heard
  BY <1>1 DEF Heard
<1>4. InFrame /\ Counted /\ Verifying /\ Locked /\ HandedOut
  BY <1>1 DEF InFrame, Locking, Counted, Verifying, Locked, HandedOut
<1>5. Steps
  BY <1>1 DEF Steps
<1> QED BY <1>2, <1>3, <1>4, <1>5 DEF RxInv

(* While the program runs, the receiver has seen nothing.                  *)
LEMMA TrafficKeeps ==
    ASSUME TxInv, RxInv, TxInv', Traffic, UNCHANGED laneVars
    PROVE  RxInv'
<1>1. /\ pos' = pos /\ gap' = gap /\ lfsr' = lfsr /\ state' = state /\ sync_tally' = sync_tally
      /\ step' = step /\ last_din_valid' = last_din_valid /\ dout_valid' = dout_valid
      /\ sync_detected' = sync_detected /\ last_valid_word' = last_valid_word
  BY DEF laneVars, lineVars, syncVars, rxVars, benchVars
<1>2. pos = 1
  <2>1. pass # "bench"
    BY DEF Traffic, SyncWord, StateWord, SkipWord, DiagWord, PayloadWord, NoMoreLines,
           Framing, Framed, BalanceWord, Balanced, Nybble, Geared
  <2> QED BY <2>1 DEF RxInv, RxType
<1>3. ~Locking /\ step = 0 /\ ~dout_valid /\ ~last_din_valid /\ ~sync_detected
  BY <1>2 DEF RxInv, RxType, InFrame, Heard, Steps, LongEnough
<1>4. RxType'
  <2>1. pos' <= Len(framed') + 1
    <3>1. Len(framed') \in Nat
      BY DEF TxInv, WordsFit
    <3> QED BY <1>1, <1>2, <3>1
  <2> QED BY <1>1, <1>2, <2>1 DEF RxInv, RxType
<1>5. Heard'
  BY <1>1, <1>2, <1>3 DEF RxInv, Heard
<1>6. InFrame' /\ Counted' /\ Verifying' /\ Locked' /\ HandedOut'
  BY <1>1, <1>3 DEF InFrame, Locking, Counted, Verifying, Locked, HandedOut
<1>7. Steps'
  BY <1>1, <1>3 DEF Steps
<1> QED BY <1>4, <1>5, <1>6, <1>7 DEF RxInv

(* Stuttering steps.                                                     *)
LEMMA RxUnchanged ==
    ASSUME RxInv, UNCHANGED vars
    PROVE  RxInv'
<1>1. /\ UNCHANGED <<pass, framed>>
      /\ UNCHANGED <<pos, gap, lfsr, state, sync_tally, step, last_din_valid, dout_valid, dout,
                     sync_detected, last_valid_word, rx_cntr, meta_cntr_max,
                     expect_sync_word, expect_scram_state>>
  BY DEF vars, trafficVars, frameVars, laneVars, lineVars, syncVars, rxVars, benchVars
<1>2. /\ RxType' /\ Heard' /\ InFrame' /\ Counted'
  BY <1>1 DEF RxInv, RxType, Heard, InFrame, Counted, Locking, At, Phase
<1>3. Ref' = Ref /\ At' = At /\ (HurtFrame' <=> HurtFrame) /\ (HurtPast' <=> HurtPast)
  BY <1>1, RefMoves DEF Ref, At, HurtFrame, HurtPast
<1>4. (Tuned' <=> Tuned) /\ (Stale' <=> Stale) /\ (Restarted' <=> Restarted)
      /\ (Loaded' <=> Loaded) /\ (LongEnough' <=> LongEnough)
  BY <1>1, <1>3 DEF Tuned, Stale, Restarted, Loaded, LongEnough, Started, Reseeded
<1>5. Verifying' /\ Locked' /\ HandedOut' /\ Steps'
  BY <1>1, <1>3, <1>4 DEF RxInv, Verifying, Locked, HandedOut, Steps
<1> QED BY <1>2, <1>5 DEF RxInv

(* A locked lane hands out the words of the frame.                         *)
LEMMA RxRecovers ==
    ASSUME TxInv, RxInv
    PROVE  Recovered
<1>1. SUFFICES ASSUME state = "LOCKED", dout_valid,
                      step = 14 \/ framed[pos - 1].scr.seed = Started.seed
               PROVE  dout.kind = framed[pos - 1].kind /\ dout.n = framed[pos - 1].n
  BY DEF Recovered, sync_locked, F!sync_locked, Expected
<1>2. SUFFICES ASSUME At >= 2, Stale PROVE FALSE
  BY <1>1 DEF RxInv, HandedOut
<1>3. gap = 1
  BY <1>1 DEF RxInv, Heard
<1>4. Ref = Older(framed[pos - 1].scr)
  BY <1>2, <1>3 DEF Ref, After, At
<1>5. Started.seed # Reseeded.seed
  BY DEF Started, Reseeded
<1>6. ~(step = 14)
  BY <1>1, <1>2, <1>5 DEF RxInv, Steps, Stale, Restarted, Tuned
<1>7. framed[pos - 1].scr.seed = Started.seed
  BY <1>1, <1>6
<1>8. framed[pos - 1].scr \in States
  <2>1. framed \in Seq(Words) /\ pos - 1 \in 1..Len(framed)
    BY <1>1 DEF RxInv, RxType, Heard, TxInv, WordsFit
  <2>2. framed[pos - 1] \in Words
    BY <2>1, ElementOfSeq
  <2> QED BY <2>2 DEF Words
<1>9. Ref.seed = framed[pos - 1].scr.seed
  BY <1>4, <1>8 DEF Older, States
<1> QED BY <1>2, <1>5, <1>7, <1>9 DEF Stale, Restarted

(* Every step keeps what is known of the words and of the receiver.        *)
LEMMA LaneStep ==
    ASSUME TxInv, RxInv, [Next]_vars, lane_bits <= 58
    PROVE  TxInv' /\ RxInv'
<1>1. CASE Traffic /\ UNCHANGED laneVars
  <2>1. TxInv'
    BY <1>1, TxStep
  <2> QED BY <1>1, <2>1, TrafficKeeps
<1>2. CASE Word
  <2>1. UNCHANGED trafficVars
    BY <1>2 DEF Word, Running
  <2> QED BY <1>2, <2>1, TxKept, WordKeeps
<1>3. CASE Idle
  <2>1. UNCHANGED trafficVars
    BY <1>3 DEF Idle, Running
  <2>2. TxInv'
    BY <2>1, TxKept
  <2>3. gap \in Nat /\ pos \in Nat \ {0}
    BY DEF RxInv, RxType
  <2>4. CASE gap = 0 /\ pos > 1
    BY <1>3, <2>2, <2>4, SettleKeeps
  <2>5. CASE gap # 0 \/ pos = 1
    BY <1>3, <2>2, <2>5, WaitKeeps
  <2> QED BY <2>3, <2>4, <2>5
<1>4. CASE UNCHANGED vars
  <2>1. UNCHANGED trafficVars
    BY <1>4 DEF vars
  <2> QED BY <1>4, <2>1, TxKept, RxUnchanged
<1> QED BY <1>1, <1>2, <1>3, <1>4 DEF Next

(***************************************************************************)
(* For every frame length, gap and time of the word lock, a lane_rx that   *)
(* is in lock hands out the words the program framed, unless the scrambler *)
(* sequence began anew under the lock; and after the lane has lost that    *)
(* lock and found the next, it does so again.  (The gearbox of             *)
(* make_lane_traffic.cpp keeps a residue of at most 64 bits.)              *)
(***************************************************************************)
THEOREM RecoveredCorrect ==
    ASSUME lane_bits <= 58
    PROVE  Spec => []Recovered
<1>1. LaneInitial => TxInv /\ RxInv
  BY TxStart, RxStart
<1>2. TxInv /\ RxInv /\ [Next]_vars => (TxInv /\ RxInv)'
  BY LaneStep
<1>3. TxInv /\ RxInv => Recovered
  BY RxRecovers
<1> QED BY <1>1, <1>2, <1>3, PTL DEF Spec
------------------------------------------------------------------------------
(***************************************************************************)
(* The lane without errors.  Sum(words, k) is the CRC of the frame of word *)
(* k up to that word, Kept(words, k) what is left of it for the next word. *)
(***************************************************************************)
Summand(word) == Covered(word.kind, word.n, FALSE)
Sum(words, k) == [i \in 1..(Phase(k) + 1) |-> Summand(words[k - Phase(k) - 1 + i])]
Kept(words, k) == IF Phase(k) = meta_frame_len - 1 THEN <<>> ELSE Sum(words, k)

CleanWords ==
    /\ \A k \in 1..Len(framed) : ~framed[k].hurt /\ framed[k].scr.seed = Started.seed
    /\ \A k \in 1..Len(framed) : Phase(k) = meta_frame_len - 1 => framed[k].crc = Sum(framed, k)
CleanWriting ==
    /\ error_schedule = 0 /\ scrambler.seed = Started.seed
    /\ crc32 = IF meta_cntr = 0 THEN <<>> ELSE Sum(framed, Len(framed))

CleanTx == ~error_injection => CleanWords /\ (pass = "frame" /\ ~eof => CleanWriting)

(* The stages of lane_rx_crc, one word at a time: the CRC of a word is     *)
(* there four clocks after it, and that of a frame is cleared in the fifth,*)
(* before the next word needs it if two clocks lie between words.          *)
Ticks ==
    /\ check_schedule \in Seq(BOOLEAN) /\ Len(check_schedule) = 4
    /\ dout_valid <=> gap = 1 /\ pos > 1
    /\ last_diag_word => dout_valid
    /\ fresh[1] <=> gap = 2 /\ pos > 1
    /\ fresh[2] => gap \in {0, 3}
    /\ gap = 3 /\ pos > 1 => fresh[2]
    /\ check_schedule[1] => fresh[1]
    /\ check_schedule[2] => fresh[2]
    /\ check_schedule[3] => gap \in {0, 1, 4} /\ ~fresh[2]
    /\ check_schedule[4] => gap \in {0, 1, 2, 5}

(* From the word lock to the sync lock.                                    *)
SinceLock == words_to_sync_lock + (IF gap >= 2 THEN 0 ELSE 1)
Times(n) == IF n = 0 THEN 0 ELSE IF n = 1 THEN meta_frame_len
            ELSE IF n = 2 THEN 2 * meta_frame_len ELSE 3 * meta_frame_len
FramesSeen == sync_tally + (IF At = 0 /\ gap = 0 THEN 1 ELSE 0)

Unlocked ==
    ~word_locked => /\ state = "RESET" /\ words_to_sync_lock = 0 /\ ~acquired /\ ~on_sync
                    /\ pos <= AlignWords + (IF gap = 0 THEN 1 ELSE 0)
Resetting ==
    word_locked /\ state = "RESET" => /\ gap = 1 /\ words_to_sync_lock = 0 /\ pos > 1
                                      /\ (on_sync <=> At = 0)
Searching ==
    state = "SEARCH" =>
        /\ pos > 1
        /\ gap = 0 => expect_sync_word /\ ~expect_diag
        /\ IF gap = 0 /\ At = 0
             THEN /\ SinceLock \in 2..(meta_frame_len + 1)
                  /\ on_sync <=> SinceLock = meta_frame_len + 1
             ELSE SinceLock \in 1..(At + 1) /\ (on_sync <=> SinceLock = At + 1)
Confirming ==
    state = "VERIFY" =>
        \E d \in 1..meta_frame_len : /\ SinceLock = d + 1 + At + Times(FramesSeen)
                                     /\ (on_sync <=> d = meta_frame_len)
Keeping == /\ acquired <=> state = "LOCKED"
           /\ state = "LOCKED" => sync_tally = 0
           /\ scramble_miss_cntr = 0
Acquiring ==
    /\ words_to_sync_lock \in Nat
    /\ word_locked /\ ~acquired => pos <= AlignWords + SinceLock
    /\ Unlocked /\ Resetting /\ Searching /\ Confirming /\ Keeping

(* The words in the stages, while the lock is sought or held.              *)
Holds(word, k) == /\ word \in Words /\ ~word.hurt
                  /\ word.kind = framed[k].kind /\ word.n = framed[k].n /\ word.crc = framed[k].crc
Staged ==
    Locking =>
        /\ expect_diag <=> At = meta_frame_len - 1
        /\ gap = 1 => /\ last_diag_word <=> At = meta_frame_len - 1
                      /\ Holds(dout, pos - 1)
        /\ gap = 2 => /\ check_schedule[1] <=> At = meta_frame_len - 1
                      /\ Holds(din_r, pos - 1)
                      /\ check_schedule[1] => Holds(expect_crc, pos - 1)

(* The word in the last stages; from the second frame of the search on the *)
(* CRC there is the sum of the words.                                      *)
Summed == IF gap >= 3 THEN pos - 1 ELSE pos - 2
EndsFrame == Phase(Summed) = meta_frame_len - 1
InStages == Locking /\ ~(state = "VERIFY" /\ sync_tally = 0 /\ At = 0 /\ gap \in {1, 2})
Scheduled ==
    InStages =>
        /\ fresh[2] => (check_schedule[2] <=> EndsFrame)
        /\ check_schedule[3] => EndsFrame
        /\ EndsFrame /\ ~fresh[2] /\ ~check_schedule[3] => crc = <<>>
Second == state = "LOCKED" \/ (state = "VERIFY" /\ sync_tally >= 2)
OneFrame == Second \/ (state = "VERIFY" /\ sync_tally = 1 /\ ~(At = 0 /\ gap = 1))
InSum ==
    OneFrame =>
        /\ fresh[2] => crc = Kept(framed, Summed - 1) /\ evolved = Sum(framed, Summed)
        /\ ~fresh[2] =>
             crc = IF check_schedule[3] THEN Sum(framed, Summed) ELSE Kept(framed, Summed)
        /\ check_schedule[2] \/ check_schedule[3] => Holds(expect_crc, Summed)
        /\ check_schedule[4] =>
             crc_match \/ (state = "VERIFY" /\ sync_tally = 1 /\ At = 0 /\ gap = 2)
NoError == /\ Second => ~crc_error
           /\ state = "LOCKED" => ~(last_verify /\ ~match)
           /\ ~fail /\ (late => on_sync)

(* All of it; the rules of the bench are not for the damaged lane.         *)
CleanInv ==
    /\ error_injection => ~fail /\ ~late
    /\ ~error_injection => /\ Ticks /\ Acquiring /\ Staged /\ Scheduled /\ InSum /\ NoError

(* A sum goes on with the word appended to it.                             *)
LEMMA AppendHolds ==
    ASSUME NEW T, NEW n, NEW f, NEW e, n \in Nat, f \in [1..n -> T], e \in T
    PROVE  /\ Append(f, e) \in [1..(n + 1) -> T]
           /\ \A i \in 1..n : Append(f, e)[i] = f[i]
           /\ Append(f, e)[n + 1] = e
<1>1. f \in Seq(T) /\ Len(f) = n
  OBVIOUS
<1>2. /\ Append(f, e) \in Seq(T) /\ Len(Append(f, e)) = n + 1
      /\ \A i \in 1..n : Append(f, e)[i] = f[i]
      /\ Append(f, e)[n + 1] = e
  BY <1>1, AppendProperties
<1>3. PICK s \in Seq(T) : s = Append(f, e) /\ Len(s) = n + 1
  BY <1>2
<1>4. s \in [1..(n + 1) -> T]
  BY <1>3, LenProperties
<1> QED BY <1>2, <1>3, <1>4

(* The sum of a frame goes on, or begins, with the next word.              *)
LEMMA SumStep ==
    ASSUME NEW words, NEW k \in Nat \ {0}
    PROVE  /\ Sum(words, k + 1) = Append(Kept(words, k), Summand(words[k + 1]))
           /\ Sum(words, 1) = Append(<<>>, Summand(words[1]))
<1>1. PICK m \in Nat : m = meta_frame_len /\ m >= 5
  BY FrameSize
<1>2. PICK p \in Nat : p = Phase(k) /\ p \in 0..(m - 1) /\ Phase(1) = 0
                       /\ Phase(k + 1) = IF p = m - 1 THEN 0 ELSE p + 1
  <2>1. /\ Phase(k) \in 0..(meta_frame_len - 1) /\ Phase(1) = 0
        /\ Phase(k + 1) = IF Phase(k) = meta_frame_len - 1 THEN 0 ELSE Phase(k) + 1
    BY PhaseStep
  <2> QED BY <1>1, <2>1
<1>3. ASSUME NEW j \in Nat, Phase(j) = 0 PROVE Sum(words, j) = Append(<<>>, Summand(words[j]))
  <2> DEFINE T == {Summand(words[j])}
             e == Summand(words[j])
  <2>1. <<>> \in [1..0 -> T] /\ e \in T
    OBVIOUS
  <2> PICK f : f = <<>>
    OBVIOUS
  <2>2. Append(f, e) \in [1..(0 + 1) -> T] /\ Append(f, e)[0 + 1] = e
    <3>1. f \in [1..0 -> T] /\ e \in T
      BY <2>1
    <3> HIDE DEF T, e
    <3>2. 0 \in Nat
      OBVIOUS
    <3> QED BY <3>1, <3>2, AppendHolds
  <2>3. Sum(words, j) = [i \in 1..1 |-> Summand(words[j - 0 - 1 + i])]
    BY <1>3 DEF Sum
  <2>4. \A i \in 1..1 : i = 1 /\ j - 0 - 1 + i = j
    OBVIOUS
  <2>5. Sum(words, j) = [i \in 1..1 |-> e]
    BY <2>3, <2>4
  <2> HIDE DEF T, e
  <2>6. Append(f, e) \in [1..1 -> T] /\ Append(f, e)[1] = e
    BY <2>2
  <2>7. Append(f, e) = [i \in 1..1 |-> e]
    BY <2>4, <2>6
  <2> QED BY <2>5, <2>7 DEF e
<1>4. CASE p = m - 1
  BY <1>1, <1>2, <1>3, <1>4 DEF Kept
<1>5. CASE p # m - 1
  <2> DEFINE T == {Summand(words[k - p - 1 + i]) : i \in 1..(p + 2)}
             f == [i \in 1..(p + 1) |-> Summand(words[k - p - 1 + i])]
             e == Summand(words[k + 1])
  <2>1. Kept(words, k) = f
    BY <1>1, <1>2, <1>5 DEF Kept, Sum
  <2>2. f \in [1..(p + 1) -> T]
    <3>1. \A i \in 1..(p + 1) : i \in 1..(p + 2)
      BY <1>2
    <3> QED BY <3>1
  <2>3. e \in T
    <3>1. p + 2 \in 1..(p + 2) /\ k - p - 1 + (p + 2) = k + 1
      BY <1>2
    <3> QED BY <3>1
  <2>4. \A i \in 1..(p + 1) : f[i] = Summand(words[k - p - 1 + i])
    OBVIOUS
  <2>5. Sum(words, k + 1) = [i \in 1..(p + 2) |-> Summand(words[k - p - 1 + i])]
    <3>1. Sum(words, k + 1) = [i \in 1..((p + 1) + 1) |-> Summand(words[(k + 1) - (p + 1) - 1 + i])]
      BY <1>2, <1>5 DEF Sum
    <3>2. (p + 1) + 1 = p + 2 /\ \A i \in 1..(p + 2) : (k + 1) - (p + 1) - 1 + i = k - p - 1 + i
      BY <1>2
    <3> QED BY <3>1, <3>2
  <2>6. Summand(words[k - p - 1 + (p + 2)]) = e
    <3>1. k - p - 1 + (p + 2) = k + 1
      BY <1>2
    <3> QED BY <3>1
  <2> HIDE DEF T, f, e
  <2>7. /\ Append(f, e) \in [1..(p + 2) -> T]
        /\ \A i \in 1..(p + 1) : Append(f, e)[i] = f[i]
        /\ Append(f, e)[p + 2] = e
    <3>1. PICK n \in Nat : n = p + 1 /\ n + 1 = p + 2
      BY <1>2
    <3>2. n \in Nat /\ f \in [1..n -> T] /\ e \in T
      BY <2>2, <2>3, <3>1
    <3>3. Append(f, e) \in [1..(n + 1) -> T]
      BY ONLY <3>2, AppendHolds
    <3>4. \A i \in 1..n : Append(f, e)[i] = f[i]
      BY ONLY <3>2, AppendHolds
    <3>5. Append(f, e)[n + 1] = e
      BY ONLY <3>2, AppendHolds
    <3> QED BY <3>1, <3>3, <3>4, <3>5
  <2>8. \A i \in 1..(p + 2) : Append(f, e)[i] = Summand(words[k - p - 1 + i])
    <3>1. SUFFICES ASSUME NEW i \in 1..(p + 2) PROVE Append(f, e)[i] = Summand(words[k - p - 1 + i])
      OBVIOUS
    <3>2. CASE i = p + 2
      BY <2>6, <2>7, <3>2
    <3>3. CASE i # p + 2
      <4>1. i \in 1..(p + 1)
        BY <1>2, <3>3
      <4> QED BY <2>4, <2>7, <4>1
    <3> QED BY <3>2, <3>3
  <2>9. Append(f, e) = [i \in 1..(p + 2) |-> Summand(words[k - p - 1 + i])]
    BY <2>7, <2>8
  <2> QED BY <1>2, <1>3, <2>1, <2>5, <2>9 DEF e
<1> QED BY <1>4, <1>5

(* The sum of a frame is that of the words so far.                         *)
LEMMA SumSame ==
    ASSUME NEW words, NEW others, NEW k \in Nat \ {0}, \A i \in 1..k : others[i] = words[i]
    PROVE  Sum(others, k) = Sum(words, k) /\ Kept(others, k) = Kept(words, k)
<1>1. PICK p \in Nat : p = Phase(k) /\ p <= k - 1
  <2>1. Phase(k) \in 0..(meta_frame_len - 1) /\ (k >= 2 => StateOf(k) \in 2..k) /\ Phase(1) = 0
    BY PhaseStep
  <2>2. Phase(k) <= k - 1
    BY <2>1, FrameSize DEF StateOf
  <2> QED BY <2>1, <2>2, FrameSize
<1>2. \A i \in 1..(p + 1) : k - p - 1 + i \in 1..k
  BY <1>1
<1>3. Sum(others, k) = Sum(words, k)
  BY <1>1, <1>2 DEF Sum, Summand
<1> QED BY <1>3 DEF Kept

(* What the program writes without errors.                                 *)
LEMMA CleanTxStep ==
    ASSUME TxInv, CleanTx, Traffic, TxInv'
    PROVE  CleanTx'
<1>1. error_injection' = error_injection
  BY DEF Traffic, SyncWord, StateWord, SkipWord, DiagWord, PayloadWord, NoMoreLines, Framing,
         Framed, BalanceWord, Balanced, Nybble, Geared, frameVars
<1> SUFFICES ASSUME ~error_injection PROVE CleanWords' /\ (pass = "frame" /\ ~eof => CleanWriting)'
  BY <1>1 DEF CleanTx
<1>2. CASE SyncWord \/ StateWord \/ SkipWord \/ DiagWord \/ PayloadWord
  <2>1. pass = "frame" /\ ~eof
    BY <1>2 DEF SyncWord, StateWord, SkipWord, DiagWord, PayloadWord, Framing
  <2>2. Writing /\ WordsFit /\ CleanWords /\ CleanWriting
    BY <2>1 DEF TxInv, CleanTx
  <2>3. PICK word : Adds(word) /\ CleanAdds(word)
    BY <1>2, <2>2, SyncAdds, StateAdds, SkipAdds, DiagAdds, PayloadAdds
  <2>4. PICK n \in Nat, m \in Nat : n = Len(framed) /\ m = meta_frame_len /\ m >= 5
    BY <2>2, FrameSize DEF WordsFit
  <2>5. /\ framed \in Seq(Words) /\ framed' = Append(framed, word) /\ word \in Words
        /\ meta_cntr = Phase(n + 1) /\ meta_cntr' = IF meta_cntr = m - 1 THEN 0 ELSE meta_cntr + 1
        /\ meta_cntr \in 0..(m - 1) /\ error_schedule = 0 /\ scrambler.seed = Started.seed
        /\ crc32 = IF meta_cntr = 0 THEN <<>> ELSE Sum(framed, n)
    <3>1. Phase(n + 1) \in 0..(meta_frame_len - 1)
      <4>1. n + 1 \in Nat \ {0}
        BY <2>4
      <4> QED BY <4>1, PhaseStep
    <3> QED BY <2>2, <2>3, <2>4, <3>1 DEF WordsFit, Writing, Adds, CleanWriting
  <2>6. /\ Len(framed') = n + 1 /\ framed'[n + 1] = word
        /\ \A i \in 1..n : framed'[i] = framed[i]
    BY <2>4, <2>5, AppendProperties
  <2>7. /\ ~word.hurt /\ word.scr.seed = Started.seed
        /\ error_schedule' = 0 /\ scrambler'.seed = Started.seed
        /\ meta_cntr = m - 1 => word.crc = Append(crc32, Summand(word)) /\ crc32' = <<>>
        /\ meta_cntr # m - 1 => crc32' = Append(crc32, Summand(word))
    BY <2>3, <2>4, <2>5 DEF CleanAdds, Summand
  <2>8. Sum(framed', n + 1) = Append(crc32, Summand(word))
    <3>1. CASE n = 0
      <4>1. Phase(1) = 0 /\ n + 1 = 1
        BY <3>1, PhaseStep
      <4>2. Sum(framed', 1) = Append(<<>>, Summand(framed'[1]))
        <5>1. 1 \in Nat \ {0}
          OBVIOUS
        <5> QED BY <5>1, SumStep
      <4> QED BY <2>5, <2>6, <4>1, <4>2
    <3>2. CASE n # 0
      <4>1. n \in Nat \ {0}
        BY <3>2
      <4>2. Sum(framed', n + 1) = Append(Kept(framed', n), Summand(framed'[n + 1]))
        BY <4>1, SumStep
      <4>3. Kept(framed', n) = Kept(framed, n)
        BY <2>6, <4>1, SumSame
      <4>4. Kept(framed, n) = crc32
        <5>1. /\ Phase(n) \in 0..(meta_frame_len - 1)
              /\ Phase(n + 1) = IF Phase(n) = meta_frame_len - 1 THEN 0 ELSE Phase(n) + 1
          BY <4>1, PhaseStep
        <5> QED BY <2>4, <2>5, <5>1 DEF Kept
      <4> QED BY <2>6, <4>2, <4>3, <4>4
    <3> QED BY <3>1, <3>2
  <2>9. CleanWords'
    <3>1. ASSUME NEW k \in 1..(n + 1)
          PROVE  /\ ~framed'[k].hurt /\ framed'[k].scr.seed = Started.seed
                 /\ Phase(k) = m - 1 => framed'[k].crc = Sum(framed', k)
      <4>1. CASE k = n + 1
        BY <2>5, <2>6, <2>7, <2>8, <4>1
      <4>2. CASE k # n + 1
        <5>1. k \in 1..n /\ k \in Nat \ {0}
          BY <4>2
        <5>2. framed'[k] = framed[k] /\ \A i \in 1..k : framed'[i] = framed[i]
          BY <2>6, <5>1
        <5>3. Sum(framed', k) = Sum(framed, k)
          BY <5>1, <5>2, SumSame
        <5> QED BY <2>2, <2>4, <5>1, <5>2, <5>3 DEF CleanWords
      <4> QED BY <4>1, <4>2
    <3> QED BY <2>4, <2>6, <3>1 DEF CleanWords, Phase
  <2>10. CleanWriting'
    <3>1. crc32' = IF meta_cntr' = 0 THEN <<>> ELSE Sum(framed', Len(framed'))
      <4>1. CASE meta_cntr = m - 1
        BY <2>4, <2>5, <2>7, <4>1
      <4>2. CASE meta_cntr # m - 1
        <5>1. meta_cntr' # 0 /\ crc32' = Append(crc32, Summand(word))
          BY <2>4, <2>5, <2>7, <4>2
        <5> QED BY <2>6, <2>8, <5>1
      <4> QED BY <4>1, <4>2
    <3>2. Sum(framed, Len(framed))' = Sum(framed', Len(framed'))
      BY DEF Sum, Phase
    <3> QED BY <2>7, <3>1, <3>2 DEF CleanWriting
  <2> QED BY <2>9, <2>10
<1>3. CASE ~(SyncWord \/ StateWord \/ SkipWord \/ DiagWord \/ PayloadWord)
  <2>1. framed' = framed /\ (pass = "frame" /\ ~eof => (pass' = "frame" => eof'))
        /\ (pass # "frame" \/ eof => (pass' # "frame" \/ eof'))
    BY <1>3 DEF Traffic, NoMoreLines, Framing, Framed, BalanceWord, Balanced, Nybble, Geared,
                frameVars
  <2> QED BY <2>1 DEF CleanTx, CleanWords, Sum, Phase
<1> QED BY <1>2, <1>3

(* While the bench runs, nothing is written.                               *)
LEMMA CleanTxKept ==
    ASSUME CleanTx, UNCHANGED trafficVars
    PROVE  CleanTx'
<1>1. UNCHANGED <<pass, eof, error_injection, error_schedule, scrambler, crc32, meta_cntr, framed>>
  BY DEF trafficVars, frameVars
<1>2. CleanWords => CleanWords'
  BY <1>1 DEF CleanWords, Sum, Phase
<1>3. CleanWriting => CleanWriting'
  BY <1>1 DEF CleanWriting, Sum, Phase
<1> QED BY <1>1, <1>2, <1>3 DEF CleanTx

(* The program starts with no words.                                     *)
LEMMA CleanTxStart == LaneInitial => CleanTx
<1> SUFFICES ASSUME LaneInitial PROVE CleanWords /\ CleanWriting
  BY DEF CleanTx
<1>1. framed = <<>> /\ meta_cntr = 0 /\ scrambler = Started /\ error_schedule = 0 /\ crc32 = <<>>
  BY DEF LaneInitial, Init
<1>2. Len(framed) = 0
  BY <1>1
<1> QED BY <1>1, <1>2 DEF CleanWords, CleanWriting, Started

(* The schedule of the comparison moves on by one place.                   *)
LEMMA ScheduleShifts ==
    ASSUME NEW s \in Seq(BOOLEAN), Len(s) = 4, NEW x \in BOOLEAN
    PROVE  LET t == <<x>> \o SubSeq(s, 1, 3) IN
           /\ t \in Seq(BOOLEAN) /\ Len(t) = 4
           /\ t[1] = x /\ t[2] = s[1] /\ t[3] = s[2] /\ t[4] = s[3]
<1> DEFINE r == SubSeq(s, 1, 3)
           h == <<x>>
           t == h \o r
<1>1. /\ r \in Seq(BOOLEAN) /\ Len(r) = 3
      /\ r[1] = s[1] /\ r[2] = s[2] /\ r[3] = s[3]
  <2>1. 1 \in Int /\ 3 \in Int /\ \A i \in 1..3 : s[i] \in BOOLEAN
    <3>1. \A i \in 1..3 : i \in 1..Len(s)
      OBVIOUS
    <3>2. \A i \in 1..3 : s[i] \in BOOLEAN
      BY <3>1, ElementOfSeq
    <3> QED BY <3>2
  <2>2. r \in Seq(BOOLEAN)
    BY <2>1, SubSeqProperties
  <2>3. Len(r) = 3 /\ \A i \in 1..3 : r[i] = s[i]
    BY <2>1, SubSeqProperties
  <2> QED BY <2>2, <2>3
<1>2. h \in Seq(BOOLEAN) /\ Len(h) = 1 /\ h[1] = x
  OBVIOUS
<1> HIDE DEF r, h
<1>3. t \in Seq(BOOLEAN) /\ Len(t) = 4
  <2>1. t \in Seq(BOOLEAN)
    BY <1>1, <1>2, ConcatProperties
  <2>2. Len(t) = Len(h) + Len(r)
    BY <1>1, <1>2, ConcatProperties
  <2> QED BY <1>1, <1>2, <2>1, <2>2
<1>4. t[1] = h[1] /\ t[2] = r[1] /\ t[3] = r[2] /\ t[4] = r[3]
  <2>1. \A i \in 1..(Len(h) + Len(r)) : t[i] = IF i <= Len(h) THEN h[i] ELSE r[i - Len(h)]
    BY <1>1, <1>2, ConcatProperties
  <2>2. t[1] = h[1]
    BY <1>1, <1>2, <2>1
  <2>3. t[2] = r[1]
    <3>1. 2 \in 1..(Len(h) + Len(r)) /\ ~(2 <= Len(h)) /\ 2 - Len(h) = 1
      BY <1>1, <1>2
    <3> QED BY <2>1, <3>1
  <2>4. t[3] = r[2]
    <3>1. 3 \in 1..(Len(h) + Len(r)) /\ ~(3 <= Len(h)) /\ 3 - Len(h) = 2
      BY <1>1, <1>2
    <3> QED BY <2>1, <3>1
  <2>5. t[4] = r[3]
    <3>1. 4 \in 1..(Len(h) + Len(r)) /\ ~(4 <= Len(h)) /\ 4 - Len(h) = 3
      BY <1>1, <1>2
    <3> QED BY <2>1, <3>1
  <2> HIDE DEF t
  <2> QED BY <2>2, <2>3, <2>4, <2>5
<1> QED BY <1>1, <1>2, <1>3, <1>4 DEF h, r

(* The registers of lane_rx_crc at the next clock.                         *)
LEMMA Shifts ==
    ASSUME Ticks, Heard, NEW din_valid \in BOOLEAN, Receive(din_valid)
    PROVE  /\ check_schedule' \in Seq(BOOLEAN) /\ Len(check_schedule') = 4
           /\ dout_valid' <=> gap = 0 /\ pos > 1
           /\ last_diag_word' <=> gap = 0 /\ pos > 1 /\ expect_diag
           /\ fresh'[1] <=> gap = 1 /\ pos > 1
           /\ fresh'[2] <=> gap = 2 /\ pos > 1
           /\ check_schedule'[1] <=> last_diag_word
           /\ check_schedule'[2] <=> check_schedule[1]
           /\ check_schedule'[3] <=> check_schedule[2]
           /\ check_schedule'[4] <=> check_schedule[3]
<1>1. /\ dout_valid' = last_din_valid /\ fresh' = <<dout_valid, fresh[1]>>
      /\ last_diag_word' = (last_din_valid /\ expect_diag)
      /\ check_schedule' = <<last_diag_word /\ dout_valid>> \o SubSeq(check_schedule, 1, 3)
  BY DEF Receive, Dout, CheckCrc, check_crc32
<1>2. fresh'[1] = dout_valid /\ fresh'[2] = fresh[1]
  BY <1>1
<1>3. PICK x \in BOOLEAN : x = (last_diag_word /\ dout_valid)
  OBVIOUS
<1>4. check_schedule \in Seq(BOOLEAN) /\ Len(check_schedule) = 4
  BY DEF Ticks
<1>5. /\ check_schedule' \in Seq(BOOLEAN) /\ Len(check_schedule') = 4
      /\ check_schedule'[1] = x /\ check_schedule'[2] = check_schedule[1]
      /\ check_schedule'[3] = check_schedule[2] /\ check_schedule'[4] = check_schedule[3]
  BY <1>1, <1>3, <1>4, ScheduleShifts
<1>6. /\ last_din_valid <=> gap = 0 /\ pos > 1
      /\ dout_valid <=> gap = 1 /\ pos > 1
      /\ fresh[1] <=> gap = 2 /\ pos > 1
      /\ last_diag_word => dout_valid
  BY DEF Ticks, Heard
<1> QED BY <1>1, <1>2, <1>3, <1>5, <1>6, Zenon

(* A clock of the bench: a word comes two clocks after the last, or more.  *)
LEMMA Clocks ==
    ASSUME RxType, Word \/ Idle, 1 \notin Gaps
    PROVE  /\ framed' = framed /\ error_injection' = error_injection /\ Rules
           /\ gap \in Nat /\ pos \in Nat /\ pos >= 1
           /\ \E din_valid \in BOOLEAN : Receive(din_valid) /\ (din_valid <=> gap' = 0)
           /\ \/ gap >= 2 /\ gap' = 0 /\ pos' = pos + 1
              \/ gap' = gap + 1 /\ pos' = pos
           /\ \/ word_locked' = word_locked /\ on_sync' = on_sync
                 /\ (word_locked \/ gap >= 2 \/ pos <= AlignWords)
              \/ gap' = 1 /\ Aligning
<1>1. framed' = framed /\ error_injection' = error_injection /\ Rules
  BY DEF Word, Idle, Running, trafficVars, frameVars
<1>2. gap \in Nat /\ pos \in Nat /\ pos >= 1
  BY DEF RxType
<1>3. CASE Word
  <2>1. gap >= 2 /\ gap' = 0 /\ pos' = pos + 1 /\ word_locked' = word_locked /\ on_sync' = on_sync
    <3>1. gap \in Nat \ {0} /\ gap # 1
      BY <1>3, BenchAssumption DEF Word
    <3>2. gap >= 2
      BY <3>1
    <3> QED BY <1>3, <3>2 DEF Word
  <2>2. TRUE \in BOOLEAN /\ Receive(TRUE)
    BY <1>3 DEF Word
  <2> QED BY <1>1, <1>2, <2>1, <2>2
<1>4. CASE Idle
  <2>1. gap' = gap + 1 /\ pos' = pos
    BY <1>4 DEF Idle
  <2>2. FALSE \in BOOLEAN /\ Receive(FALSE)
    BY <1>4 DEF Idle
  <2>3. Aligning \/ ((word_locked \/ pos <= AlignWords) /\ UNCHANGED <<word_locked, on_sync>>)
    BY <1>4 DEF Idle
  <2>4. Aligning => gap' = 1
    BY <1>2, <2>1 DEF Aligning
  <2>5. gap' # 0
    BY <1>2, <2>1
  <2> QED BY <1>1, <1>2, <2>1, <2>2, <2>3, <2>4, <2>5
<1> QED BY <1>3, <1>4

(* The stages keep their rhythm.                                           *)
LEMMA TicksKept ==
    ASSUME Ticks, Heard, RxType, Word \/ Idle, 1 \notin Gaps
    PROVE  Ticks'
<1>1. PICK din_valid \in BOOLEAN : Receive(din_valid)
  BY Clocks
<1>2. /\ gap \in Nat /\ pos \in Nat /\ pos >= 1
      /\ \/ gap >= 2 /\ gap' = 0 /\ pos' = pos + 1
         \/ gap' = gap + 1 /\ pos' = pos
  BY Clocks
<1>3. /\ check_schedule' \in Seq(BOOLEAN) /\ Len(check_schedule') = 4
      /\ dout_valid' <=> gap = 0 /\ pos > 1
      /\ last_diag_word' <=> gap = 0 /\ pos > 1 /\ expect_diag
      /\ fresh'[1] <=> gap = 1 /\ pos > 1
      /\ fresh'[2] <=> gap = 2 /\ pos > 1
      /\ check_schedule'[1] <=> last_diag_word
      /\ check_schedule'[2] <=> check_schedule[1]
      /\ check_schedule'[3] <=> check_schedule[2]
      /\ check_schedule'[4] <=> check_schedule[3]
  BY <1>1, Shifts
<1>4. /\ last_diag_word => gap = 1 /\ pos > 1
      /\ check_schedule[1] => gap = 2 /\ pos > 1
      /\ check_schedule[2] => gap \in {0, 3}
      /\ check_schedule[3] => gap \in {0, 1, 4}
  BY DEF Ticks
<1>5. CASE gap >= 2 /\ gap' = 0 /\ pos' = pos + 1
  <2>1. gap' # 1 /\ gap' # 2 /\ gap' # 3 /\ gap # 0 /\ gap # 1
    BY <1>2, <1>5
  <2>2. /\ check_schedule'[2] => fresh'[2]
        /\ ~last_diag_word' /\ ~check_schedule'[1] /\ ~dout_valid' /\ ~fresh'[1]
        /\ check_schedule'[3] => ~fresh'[2]
    BY <1>3, <1>4, <2>1
  <2> QED BY <1>3, <1>5, <2>1, <2>2 DEF Ticks
<1>6. CASE gap' = gap + 1 /\ pos' = pos
  <2>1. /\ gap' = 1 <=> gap = 0
        /\ gap' = 2 <=> gap = 1
        /\ gap' = 3 <=> gap = 2
    BY <1>2, <1>6
  <2>2. /\ check_schedule'[3] => gap' \in {1, 4} /\ ~fresh'[2]
        /\ check_schedule'[4] => gap' \in {1, 2, 5}
        /\ check_schedule'[2] => fresh'[2]
        /\ check_schedule'[1] => fresh'[1]
        /\ last_diag_word' => dout_valid'
    BY <1>2, <1>3, <1>4, <1>6
  <2>3. /\ dout_valid' <=> gap' = 1 /\ pos' > 1
        /\ fresh'[1] <=> gap' = 2 /\ pos' > 1
        /\ fresh'[2] <=> gap' = 3 /\ pos' > 1
    BY <1>3, <1>6, <2>1
  <2> QED BY <1>3, <2>2, <2>3 DEF Ticks
<1> QED BY <1>2, <1>5, <1>6

(* Without errors the scrambler is in tune as soon as it counts.           *)
LEMMA NoDamage ==
    ASSUME TxInv, RxInv, CleanTx, ~error_injection
    PROVE  /\ framed \in Seq(Words) /\ (pos > 1 => pos - 1 \in 1..Len(framed))
           /\ \A k \in 1..Len(framed) : ~framed[k].hurt /\ framed[k].scr.seed = Started.seed
           /\ \A k \in 2..Len(framed) : After(k).seed = Started.seed
           /\ state = "LOCKED" \/ (state = "VERIFY" /\ Loaded) => LongEnough /\ Tuned
<1>1. /\ framed \in Seq(Words) /\ Len(framed) \in Nat /\ pos \in Nat \ {0} /\ pos <= Len(framed) + 1
      /\ \A k \in 1..Len(framed) : ~framed[k].hurt /\ framed[k].scr.seed = Started.seed
  BY DEF TxInv, WordsFit, RxInv, RxType, CleanTx, CleanWords
<1>2. pos > 1 => pos - 1 \in 1..Len(framed)
  BY <1>1
<1>3. ASSUME NEW k \in 2..Len(framed) PROVE After(k).seed = Started.seed
  <2>1. k \in 1..Len(framed) /\ k - 1 \in 1..Len(framed)
    BY <1>1
  <2>2. framed[k].scr \in States /\ framed[k - 1].scr \in States
    <3>1. framed[k] \in Words /\ framed[k - 1] \in Words
      BY <1>1, <2>1, ElementOfSeq
    <3> QED BY <3>1 DEF Words
  <2>3. \A scr \in States : Older(scr).seed = scr.seed
    BY DEF States, Older
  <2> QED BY <1>1, <2>1, <2>2, <2>3 DEF After
<1>4. ASSUME state = "LOCKED" \/ (state = "VERIFY" /\ Loaded) PROVE LongEnough /\ Tuned
  <2>1. /\ state = "LOCKED" => LongEnough /\ (Tuned \/ Stale)
        /\ state = "VERIFY" => LongEnough /\ (Tuned \/ HurtFrame)
    BY <1>4 DEF RxInv, Verifying, Locked
  <2>2. LongEnough
    BY <1>4, <2>1
  <2>3. ~Stale
    <3>1. Ref.seed = Started.seed
      <4>1. CASE gap = 0
        <5>1. pos - 2 \in 2..Len(framed)
          BY <1>1, <2>2, <4>1 DEF LongEnough
        <5> QED BY <1>3, <4>1, <5>1 DEF Ref
      <4>2. CASE gap # 0
        <5>1. pos - 1 \in 2..Len(framed)
          BY <1>1, <2>2 DEF LongEnough
        <5> QED BY <1>3, <4>2, <5>1 DEF Ref
      <4> QED BY <4>1, <4>2
    <3> QED BY <3>1 DEF Stale, Restarted, Started, Reseeded
  <2>4. ~HurtFrame
    <3>1. PICK k \in Nat \ {0} : k = pos - 1 /\ k >= 2 /\ k \in 1..Len(framed)
      <4>1. pos - 1 \in Nat \ {0} /\ pos - 1 >= 2 /\ pos - 1 \in 1..Len(framed)
        BY <1>1, <2>2 DEF LongEnough
      <4> QED BY <4>1
    <3>2. StateOf(k) \in 2..k
      BY <3>1, PhaseStep
    <3>3. StateOf(k) \in 1..Len(framed)
      BY <1>1, <3>1, <3>2
    <3> QED BY <1>1, <3>1, <3>3 DEF HurtFrame
  <2> QED BY <1>4, <2>1, <2>2, <2>3, <2>4
<1> QED BY <1>1, <1>2, <1>3, <1>4

(* Every synchronization word is good.                                     *)
LEMMA AllGood ==
    ASSUME TxInv, RxInv, CleanTx, ~error_injection
    PROVE  /\ Locking => ~F!missing_sync /\ (F!good_sync <=> gap = 0 /\ At = 0)
           /\ state = "SEARCH" /\ pos > 1 /\ (gap = 0 => expect_sync_word)
              => (F!good_sync <=> gap = 0 /\ At = 0)
<1>1. pos > 1 => ~framed[pos - 1].hurt
  BY NoDamage
<1>2. /\ last_din_valid <=> gap = 0 /\ pos > 1
      /\ sync_detected <=> pos > 1 /\ At = 0 /\ ~framed[pos - 1].hurt
      /\ Locking => pos > 1 /\ (expect_sync_word <=> At = 0)
  BY DEF RxInv, Heard, InFrame
<1> QED BY <1>1, <1>2, Zenon DEF F!missing_sync, F!good_sync

(* What is left of the state machine without errors.                       *)
LEMMA CleanMoves ==
    ASSUME TxInv, RxInv, CleanTx, ~error_injection, Unlocked, Searching, Keeping, NoError,
           NEW din_valid \in BOOLEAN, Receive(din_valid)
    PROVE  /\ ~word_locked => state' = "RESET"
           /\ word_locked /\ state = "RESET" => state' = "SEARCH"
           /\ state = "SEARCH" => IF gap = 0 /\ At = 0 THEN state' = "VERIFY" /\ sync_tally' = 0
                                  ELSE state' = "SEARCH"
           /\ state = "VERIFY" /\ sync_tally = 3 => state' = "LOCKED" /\ sync_tally' = 0
           /\ state = "VERIFY" /\ sync_tally # 3 =>
                state' = "VERIFY" /\ sync_tally' = IF gap = 0 /\ At = 0 THEN sync_tally + 1
                                                   ELSE sync_tally
           /\ state = "LOCKED" => state' = "LOCKED" /\ sync_tally' = 0
           /\ scramble_miss_cntr' = 0
<1>1. /\ state' = IF word_locked THEN F!next_state ELSE "RESET"
      /\ F!Tally /\ F!ScramblerMisses(last_verify /\ match, scrambler_mismatch)
  BY DEF Receive, F!Clock
<1>2. /\ Locking => ~F!missing_sync /\ (F!good_sync <=> gap = 0 /\ At = 0)
      /\ state = "SEARCH" => (F!good_sync <=> gap = 0 /\ At = 0)
  BY AllGood DEF Searching
<1>3. /\ state \in {"RESET", "SEARCH", "VERIFY", "LOCKED"}
      /\ sync_tally \in Nat /\ (state = "VERIFY" => sync_tally <= 3)
      /\ state # "RESET" => word_locked
      /\ state = "LOCKED" => sync_tally = 0
      /\ scramble_miss_cntr = 0
  BY DEF RxInv, RxType, Counted, Unlocked, Keeping
<1>4. ~word_locked => state' = "RESET"
  BY <1>1
<1>5. word_locked /\ state = "RESET" => state' = "SEARCH"
  BY <1>1 DEF F!next_state
<1>6. ASSUME state = "SEARCH"
      PROVE  IF gap = 0 /\ At = 0 THEN state' = "VERIFY" /\ sync_tally' = 0 ELSE state' = "SEARCH"
  BY <1>1, <1>2, <1>3, <1>6 DEF F!next_state, F!Tally, F!rst_sync_tally
<1>7. ASSUME state = "VERIFY", sync_tally = 3 PROVE state' = "LOCKED" /\ sync_tally' = 0
  BY <1>1, <1>2, <1>3, <1>7 DEF Locking, F!next_state, F!Verified, F!Tally, F!rst_sync_tally
<1>8. ASSUME state = "VERIFY", sync_tally # 3
      PROVE  state' = "VERIFY" /\ sync_tally' = IF gap = 0 /\ At = 0 THEN sync_tally + 1
                                                ELSE sync_tally
  <2>1. state' = "VERIFY"
    BY <1>1, <1>2, <1>3, <1>8 DEF Locking, F!next_state, F!Verified
  <2>2. ~F!rst_sync_tally /\ (F!inc_sync_tally <=> gap = 0 /\ At = 0)
    BY <1>2, <1>8 DEF Locking, F!rst_sync_tally, F!inc_sync_tally
  <2>3. (sync_tally + 1) % 8 = sync_tally + 1
    BY <1>3, <1>8
  <2> QED BY <1>1, <2>1, <2>2, <2>3 DEF F!Tally
<1>9. ASSUME state = "LOCKED" PROVE state' = "LOCKED" /\ sync_tally' = 0
  BY <1>1, <1>2, <1>3, <1>9 DEF Locking, F!next_state, F!Failed, F!Tally, F!rst_sync_tally,
     F!inc_sync_tally
<1>10. scramble_miss_cntr' = 0
  BY <1>1, <1>3 DEF F!ScramblerMisses, F!sync_locked, NoError, scrambler_mismatch
<1> QED BY <1>4, <1>5, <1>6, <1>7, <1>8, <1>9, <1>10

(* Where a clock leaves the receiver.                                      *)
LEMMA AtMoves ==
    ASSUME RxType, pos > 1
    PROVE  /\ At \in 0..(meta_frame_len - 1)
           /\ pos' = pos => At' = At
           /\ pos' = pos + 1 => At' = IF At = meta_frame_len - 1 THEN 0 ELSE At + 1
<1>1. PICK k \in Nat \ {0} : k = pos - 1 /\ k + 1 = pos
  <2>1. pos - 1 \in Nat \ {0} /\ (pos - 1) + 1 = pos
    BY DEF RxType
  <2> QED BY <2>1
<1>2. /\ Phase(k) \in 0..(meta_frame_len - 1)
      /\ Phase(k + 1) = IF Phase(k) = meta_frame_len - 1 THEN 0 ELSE Phase(k) + 1
  BY PhaseStep
<1>3. At' = Phase(pos' - 1) /\ At = Phase(k)
  BY <1>1 DEF At, Phase
<1>4. pos' = pos => pos' - 1 = k
  BY <1>1
<1>5. pos' = pos + 1 => pos' - 1 = k + 1
  BY <1>1
<1> QED BY <1>2, <1>3, <1>4, <1>5

(* The words since the word lock are counted until the frame is locked.    *)
LEMMA SinceLockMoves ==
    ASSUME Ticks, RxType, words_to_sync_lock \in Nat, Word \/ Idle, 1 \notin Gaps,
           word_locked, state # "LOCKED", pos > 1
    PROVE  /\ SinceLock \in Nat /\ word_locked' /\ on_sync' = on_sync
           /\ SinceLock' = IF gap' = 0 THEN SinceLock + 1 ELSE SinceLock
<1>1. /\ Rules /\ gap \in Nat
      /\ \/ gap >= 2 /\ gap' = 0 /\ pos' = pos + 1
         \/ gap' = gap + 1 /\ pos' = pos
      /\ word_locked' = word_locked /\ on_sync' = on_sync
  BY Clocks DEF Aligning
<1>2. words_to_sync_lock' = IF gap = 1 THEN words_to_sync_lock + 1 ELSE words_to_sync_lock
  BY <1>1 DEF Rules, Ticks, sync_locked, F!sync_locked
<1>3. SinceLock' = words_to_sync_lock' + (IF gap' >= 2 THEN 0 ELSE 1)
  BY DEF SinceLock
<1>4. SinceLock \in Nat /\ SinceLock = words_to_sync_lock + (IF gap >= 2 THEN 0 ELSE 1)
  BY DEF SinceLock
<1>5. CASE gap >= 2 /\ gap' = 0
  BY <1>1, <1>2, <1>3, <1>4, <1>5
<1>6. CASE gap' = gap + 1
  BY <1>1, <1>2, <1>3, <1>4, <1>6
<1> QED BY <1>1, <1>4, <1>5, <1>6

(* Before the frame is locked the count stays within four frames.          *)
LEMMA SinceLockBound ==
    ASSUME RxType, InFrame, Counted, Acquiring, gap \in Nat, word_locked, state # "LOCKED"
    PROVE  SinceLock \in Nat /\ SinceLock <= 4 * meta_frame_len + 1 /\ pos > 1
<1>1. PICK m \in Nat : m = meta_frame_len /\ m >= 5
  BY FrameSize
<1>2. SinceLock \in Nat
  BY DEF SinceLock, Acquiring
<1>3. pos > 1
  BY DEF Acquiring, Resetting, Searching, InFrame, Locking, RxType
<1>4. PICK at \in Nat : at = At /\ at <= m - 1
  <2>1. At \in 0..(meta_frame_len - 1)
    BY <1>3, AtMoves
  <2> QED BY <1>1, <2>1
<1>5. CASE state = "RESET"
  BY <1>1, <1>2, <1>3, <1>5 DEF Acquiring, Resetting, SinceLock
<1>6. CASE state = "SEARCH"
  BY <1>1, <1>2, <1>3, <1>4, <1>6 DEF Acquiring, Searching
<1>7. CASE state = "VERIFY"
  <2>1. PICK d \in 1..m : SinceLock = d + 1 + at + Times(FramesSeen)
    BY <1>1, <1>4, <1>7 DEF Acquiring, Confirming
  <2>2. sync_tally \in Nat /\ sync_tally <= 3 /\ (sync_tally = 3 => at = 0 /\ gap = 1)
    BY <1>4, <1>7 DEF RxType, Counted
  <2>3. \/ FramesSeen \in {0, 1, 2}
        \/ FramesSeen = 3 /\ at = 0
    BY <1>4, <2>2 DEF FramesSeen
  <2>4. PICK t \in Nat : t = Times(FramesSeen) /\ at + t <= 3 * m
    <3>1. Times(FramesSeen) \in Nat /\ at + Times(FramesSeen) <= 3 * m
      BY <1>1, <1>4, <2>3 DEF Times
    <3> QED BY <3>1
  <2>5. d + 1 + at + t <= 4 * m + 1
    BY <1>1, <1>4, <2>4
  <2> QED BY <1>1, <1>2, <1>3, <2>1, <2>4, <2>5
<1> QED BY <1>5, <1>6, <1>7 DEF RxType

(* The way from the word lock to the sync lock is kept.                    *)
LEMMA AcquiringKept ==
    ASSUME TxInv, RxInv, CleanTx, ~error_injection, Ticks, Acquiring, NoError,
           Word \/ Idle, 1 \notin Gaps
    PROVE  Acquiring'
<1>1. PICK m \in Nat : m = meta_frame_len /\ m >= 5
  BY FrameSize
<1>2. PICK din_valid \in BOOLEAN : Receive(din_valid) /\ (din_valid <=> gap' = 0)
  BY Clocks DEF RxInv
<1>3. /\ Rules /\ gap \in Nat /\ pos \in Nat /\ pos >= 1 /\ framed' = framed
      /\ \/ gap >= 2 /\ gap' = 0 /\ pos' = pos + 1
         \/ gap' = gap + 1 /\ pos' = pos
      /\ \/ word_locked' = word_locked /\ on_sync' = on_sync
            /\ (word_locked \/ gap >= 2 \/ pos <= AlignWords)
         \/ gap' = 1 /\ Aligning
  BY Clocks DEF RxInv
<1>4. /\ state \in {"RESET", "SEARCH", "VERIFY", "LOCKED"} /\ sync_tally \in Nat
      /\ state = "VERIFY" => sync_tally <= 3 /\ (sync_tally = 3 => At = 0 /\ gap = 1)
      /\ words_to_sync_lock \in Nat /\ AlignWords \in Nat
      /\ state # "RESET" => word_locked
      /\ RxType /\ InFrame /\ Counted
  BY BenchAssumption DEF RxInv, RxType, Counted, Acquiring, Unlocked
<1>5. /\ ~word_locked => state' = "RESET"
      /\ word_locked /\ state = "RESET" => state' = "SEARCH"
      /\ state = "SEARCH" => IF gap = 0 /\ At = 0 THEN state' = "VERIFY" /\ sync_tally' = 0
                             ELSE state' = "SEARCH"
      /\ state = "VERIFY" /\ sync_tally = 3 => state' = "LOCKED" /\ sync_tally' = 0
      /\ state = "VERIFY" /\ sync_tally # 3 =>
           state' = "VERIFY" /\ sync_tally' = IF gap = 0 /\ At = 0 THEN sync_tally + 1
                                              ELSE sync_tally
      /\ state = "LOCKED" => state' = "LOCKED" /\ sync_tally' = 0
      /\ scramble_miss_cntr' = 0
  BY <1>2, CleanMoves DEF Acquiring
<1>6. word_locked => pos > 1
  BY <1>4 DEF Acquiring, Resetting, Searching, InFrame, Locking
<1>7. word_locked /\ state # "LOCKED" =>
        /\ SinceLock \in Nat /\ SinceLock' = IF gap' = 0 THEN SinceLock + 1 ELSE SinceLock
        /\ on_sync' = on_sync /\ word_locked'
  BY <1>4, <1>6, SinceLockMoves
<1>8. pos > 1 => /\ At \in 0..(m - 1)
                 /\ pos' = pos => At' = At
                 /\ pos' = pos + 1 => At' = IF At = m - 1 THEN 0 ELSE At + 1
  BY <1>1, <1>4, AtMoves
<1>9. /\ acquired' = (acquired \/ state' = "LOCKED")
      /\ words_to_sync_lock' = IF ~word_locked THEN 0
                               ELSE IF state # "LOCKED" /\ dout_valid THEN words_to_sync_lock + 1
                               ELSE words_to_sync_lock
  BY <1>3 DEF Rules, sync_locked, F!sync_locked
<1>10. words_to_sync_lock' \in Nat
  BY <1>4, <1>9
<1>11. /\ acquired' <=> state' = "LOCKED"
       /\ state' = "LOCKED" => sync_tally' = 0
  BY <1>4, <1>5, <1>9 DEF Acquiring, Keeping
<1>12. Unlocked'
  <2> SUFFICES ASSUME ~word_locked'
               PROVE  /\ state' = "RESET" /\ words_to_sync_lock' = 0 /\ ~acquired' /\ ~on_sync'
                      /\ pos' <= AlignWords + (IF gap' = 0 THEN 1 ELSE 0)
    BY DEF Unlocked
  <2>1. /\ ~word_locked /\ ~on_sync' /\ pos <= AlignWords + (IF gap = 0 THEN 1 ELSE 0)
        /\ gap >= 2 \/ pos <= AlignWords
    BY <1>3, <1>7, <1>4, <1>5, <1>11 DEF Acquiring, Unlocked, Aligning, Keeping
  <2>2. pos' <= AlignWords + (IF gap' = 0 THEN 1 ELSE 0)
    BY <1>3, <1>4, <2>1
  <2> QED BY <1>5, <1>9, <1>11, <2>1, <2>2
<1>13. Resetting'
  <2> SUFFICES ASSUME word_locked', state' = "RESET"
               PROVE  gap' = 1 /\ words_to_sync_lock' = 0 /\ pos' > 1 /\ (on_sync' <=> At' = 0)
    BY DEF Resetting
  <2>1. ~word_locked
    BY <1>4, <1>5
  <2>2. gap' = 1 /\ Aligning
    BY <1>3, <2>1
  <2>3. pos > 1 /\ pos' = pos /\ gap = 0 /\ on_sync' = (framed[pos - 1].kind = "sync")
    BY <1>3, <2>2 DEF Aligning
  <2>4. framed[pos - 1].kind = "sync" <=> At = 0
    <3>1. PICK k \in 1..Len(framed) : k = pos - 1
      BY <2>3, NoDamage
    <3>2. framed[k].kind = Kind(Phase(k))
      BY DEF TxInv, WordsFit, Fits
    <3> QED BY <3>1, <3>2 DEF Kind, At
  <2> QED BY <1>8, <1>9, <2>1, <2>2, <2>3, <2>4
<1>14. Searching'
  <2> SUFFICES ASSUME state' = "SEARCH" PROVE Searching'
    BY DEF Searching
  <2>1. word_locked /\ state \in {"RESET", "SEARCH"} /\ pos > 1 /\ pos' > 1
        /\ SinceLock \in Nat /\ on_sync' = on_sync
        /\ SinceLock' = IF gap' = 0 THEN SinceLock + 1 ELSE SinceLock
    BY <1>3, <1>4, <1>5, <1>6, <1>7
  <2>2. CASE state = "RESET"
    <3>1. gap = 1 /\ words_to_sync_lock = 0 /\ (on_sync <=> At = 0)
      BY <2>1, <2>2 DEF Acquiring, Resetting
    <3>2. gap' = 2 /\ At' = At /\ SinceLock' = 1
      BY <1>3, <1>8, <2>1, <3>1 DEF SinceLock
    <3> QED BY <1>8, <2>1, <3>1, <3>2 DEF Searching
  <2>3. CASE state = "SEARCH"
    <3>1. ~(gap = 0 /\ At = 0)
      BY <1>5, <2>3
    <3>2. SinceLock \in 1..(At + 1) /\ (on_sync <=> SinceLock = At + 1)
      BY <2>3, <3>1 DEF Acquiring, Searching
    <3>3. expect_sync_word' /\ ~expect_diag'
      BY <1>2, <2>3 DEF Receive, F!Clock, F!MetaFrame
    <3>4. CASE gap' = 0
      <4>1. At' = (IF At = m - 1 THEN 0 ELSE At + 1) /\ SinceLock' = SinceLock + 1
        BY <1>3, <1>8, <2>1, <3>4
      <4>2. CASE At = m - 1
        <5>1. SinceLock' \in 2..(m + 1) /\ (on_sync' <=> SinceLock' = m + 1)
          BY <1>1, <1>8, <2>1, <3>2, <4>1, <4>2
        <5> QED BY <1>1, <2>1, <3>3, <3>4, <4>1, <4>2, <5>1 DEF Searching
      <4>3. CASE At # m - 1
        <5>1. At' # 0 /\ SinceLock' \in 1..(At' + 1) /\ (on_sync' <=> SinceLock' = At' + 1)
          BY <1>1, <1>8, <2>1, <3>2, <4>1, <4>3
        <5> QED BY <2>1, <3>3, <3>4, <5>1 DEF Searching
      <4> QED BY <4>2, <4>3
    <3>5. CASE gap' # 0
      <4>1. At' = At /\ SinceLock' = SinceLock
        BY <1>3, <1>8, <2>1, <3>5
      <4> QED BY <2>1, <3>2, <3>5, <4>1 DEF Searching
    <3> QED BY <3>4, <3>5
  <2> QED BY <2>1, <2>2, <2>3
<1>15. Confirming'
  <2> SUFFICES ASSUME state' = "VERIFY"
               PROVE  \E d \in 1..m : /\ SinceLock' = d + 1 + At' + Times(FramesSeen')
                                      /\ (on_sync' <=> d = m)
    <3>1. Times(FramesSeen)' = Times(FramesSeen')
      BY DEF Times
    <3> QED BY <1>1, <3>1 DEF Confirming
  <2>1. /\ word_locked /\ pos > 1 /\ SinceLock \in Nat /\ on_sync' = on_sync
        /\ SinceLock' = IF gap' = 0 THEN SinceLock + 1 ELSE SinceLock
        /\ \/ state = "SEARCH" /\ gap = 0 /\ At = 0 /\ sync_tally' = 0
           \/ /\ state = "VERIFY" /\ sync_tally <= 2
              /\ sync_tally' = IF gap = 0 /\ At = 0 THEN sync_tally + 1 ELSE sync_tally
    BY <1>3, <1>4, <1>5, <1>6, <1>7
  <2>2. FramesSeen' = sync_tally' + (IF At' = 0 /\ gap' = 0 THEN 1 ELSE 0)
    BY DEF FramesSeen
  <2>3. CASE state = "SEARCH" /\ gap = 0 /\ At = 0 /\ sync_tally' = 0
    <3>1. SinceLock \in 2..(m + 1) /\ (on_sync <=> SinceLock = m + 1)
      BY <1>1, <2>3 DEF Acquiring, Searching
    <3>2. gap' = 1 /\ At' = 0
      BY <1>3, <1>8, <2>1, <2>3
    <3>3. SinceLock' = SinceLock /\ FramesSeen' = 0
      BY <2>1, <2>2, <2>3, <3>2
    <3>4. Times(FramesSeen') = 0
      BY <3>3 DEF Times
    <3>5. PICK d \in 1..m : d = SinceLock - 1
      <4>1. SinceLock - 1 \in 1..m
        BY <1>1, <2>1, <3>1
      <4> QED BY <4>1
    <3>6. SinceLock' = d + 1 + At' + 0 /\ (on_sync' <=> d = m)
      BY <1>1, <2>1, <3>1, <3>2, <3>3, <3>5
    <3> QED BY <3>4, <3>6
  <2>4. CASE /\ state = "VERIFY" /\ sync_tally <= 2
             /\ sync_tally' = IF gap = 0 /\ At = 0 THEN sync_tally + 1 ELSE sync_tally
    <3>1. PICK d \in 1..m : SinceLock = d + 1 + At + Times(FramesSeen) /\ (on_sync <=> d = m)
      BY <1>1, <2>4 DEF Acquiring, Confirming
    <3>2. PICK at \in 0..(m - 1) : at = At
      BY <1>8, <2>1
    <3>3. CASE gap' = 0
      <4>1. gap >= 2 /\ At' = (IF at = m - 1 THEN 0 ELSE at + 1) /\ SinceLock' = SinceLock + 1
        BY <1>3, <1>8, <2>1, <3>2, <3>3
      <4>2. FramesSeen = sync_tally /\ sync_tally' = sync_tally
        BY <1>3, <1>4, <2>4, <4>1 DEF FramesSeen
      <4>3. FramesSeen' = IF at = m - 1 THEN sync_tally + 1 ELSE sync_tally
        BY <1>1, <1>4, <2>2, <3>2, <3>3, <4>1, <4>2
      <4>4. Times(FramesSeen') = Times(FramesSeen) + (IF at = m - 1 THEN m ELSE 0)
            /\ Times(FramesSeen) \in Nat
        BY <1>1, <1>4, <2>4, <4>2, <4>3 DEF Times
      <4>5. SinceLock' = d + 1 + At' + Times(FramesSeen')
        BY <1>1, <3>1, <3>2, <4>1, <4>4
      <4> QED BY <2>1, <3>1, <4>5
    <3>4. CASE gap' # 0
      <4>1. At' = at /\ SinceLock' = SinceLock
        BY <1>3, <1>8, <2>1, <3>2, <3>4
      <4>2. FramesSeen' = FramesSeen
        BY <1>3, <1>4, <2>2, <2>4, <3>2, <3>4, <4>1 DEF FramesSeen
      <4> QED BY <2>1, <3>1, <3>2, <4>1, <4>2
    <3> QED BY <3>3, <3>4
  <2> QED BY <2>1, <2>3, <2>4
<1>16. Keeping'
  BY <1>5, <1>11 DEF Keeping
<1>17. word_locked' /\ ~acquired' => pos' <= AlignWords + SinceLock'
  <2> SUFFICES ASSUME word_locked', ~acquired' PROVE pos' <= AlignWords + SinceLock'
    OBVIOUS
  <2>1. CASE word_locked
    <3>1. state # "LOCKED" /\ ~acquired
      BY <1>5, <1>9, <2>1
    <3>2. pos <= AlignWords + SinceLock
      BY <2>1, <3>1 DEF Acquiring
    <3> QED BY <1>3, <1>4, <1>7, <2>1, <3>1, <3>2
  <2>2. CASE ~word_locked
    <3>1. gap' = 1 /\ gap = 0 /\ pos' = pos /\ words_to_sync_lock' = 0
      <4>1. gap' = 1
        BY <1>3, <2>2
      <4> QED BY <1>3, <1>9, <2>2, <4>1
    <3>2. pos <= AlignWords + 1
      BY <2>2, <3>1 DEF Acquiring, Unlocked
    <3> QED BY <3>1, <3>2 DEF SinceLock
  <2> QED BY <2>1, <2>2
<1> QED BY <1>10, <1>12, <1>13, <1>14, <1>15, <1>16, <1>17 DEF Acquiring

(* What lane_rx hands out of the word it got last.                         *)
LEMMA HandsOut ==
    ASSUME TxInv, RxInv, CleanTx, ~error_injection, gap = 0, pos > 1,
           NEW din_valid \in BOOLEAN, Receive(din_valid),
           \/ Locking
           \/ state = "SEARCH" /\ At = 0 /\ expect_sync_word
    PROVE  /\ dout' \in Words /\ ~dout'.hurt
           /\ dout'.kind = framed[pos - 1].kind /\ dout'.n = framed[pos - 1].n
           /\ dout'.crc = framed[pos - 1].crc
<1>1. PICK c \in 1..Len(framed) : c = pos - 1
  BY NoDamage
<1>2. framed[c].kind = Kind(Phase(c)) /\ ~framed[c].hurt
  BY NoDamage DEF TxInv, WordsFit, Fits
<1>3. /\ last_din_valid /\ last_valid_word \in Words
      /\ last_valid_word.kind = framed[c].kind /\ last_valid_word.n = framed[c].n
      /\ last_valid_word.crc = framed[c].crc /\ last_valid_word.scr = framed[c].scr
      /\ ~last_valid_word.hurt
  BY <1>1, <1>2 DEF RxInv, Heard
<1>4. dout' = IF expect_sync_word THEN RawSync(last_valid_word)
              ELSE IF expect_scram_state THEN Blanked(last_valid_word)
              ELSE Descrambled(last_valid_word)
  BY <1>3 DEF Receive, Dout
<1>5. At = Phase(c) /\ At \in 0..(meta_frame_len - 1)
  BY <1>1, AtMoves DEF At, RxInv
<1>6. /\ Locking \/ (expect_sync_word /\ At = 0)
      /\ Locking => /\ (expect_sync_word <=> At = 0)
                    /\ (expect_scram_state <=> At = 1)
  BY DEF RxInv, InFrame
<1>7. dout' \in Words /\ dout'.kind = last_valid_word.kind /\ dout'.n = last_valid_word.n
      /\ dout'.crc = last_valid_word.crc /\ ~dout'.hurt
  <2>1. CASE At = 0
    <3>1. dout' = last_valid_word
      BY <1>2, <1>3, <1>4, <1>5, <1>6, <2>1 DEF RawSync, Kind
    <3> QED BY <1>3, <3>1
  <2>2. CASE At = 1
    <3>1. last_valid_word.kind = "state"
      BY <1>2, <1>3, <1>5, <2>2 DEF Kind
    <3>2. dout' = [last_valid_word EXCEPT !.hurt = FALSE]
      BY <1>4, <1>6, <2>2, <3>1 DEF Blanked
    <3> QED BY <1>3, <3>2 DEF Words
  <2>3. CASE At >= 2
    <3>1. last_valid_word.kind \in {"skip", "diag", "data"}
      BY <1>2, <1>3, <1>5, <2>3 DEF Kind
    <3>2. Locking /\ Tuned /\ LongEnough
      BY <1>5, <1>6, <2>3, NoDamage DEF Loaded, Locking
    <3>3. c \in 3..Len(framed) /\ c - 1 = pos - 2
      BY <1>1, <3>2 DEF LongEnough, RxInv, RxType
    <3>4. framed[c].scr = After(c - 1)
      BY <1>5, <2>3, <3>3, Changes DEF TxInv
    <3>5. lfsr = last_valid_word.scr
      BY <1>3, <3>2, <3>3, <3>4 DEF Tuned, Ref
    <3>6. dout' = last_valid_word
      BY <1>4, <1>6, <2>3, <3>1, <3>2, <3>5 DEF Descrambled
    <3> QED BY <1>3, <3>6
  <2> QED BY <1>5, <2>1, <2>2, <2>3, FrameSize
<1> QED BY <1>1, <1>3, <1>7

(* The words go through the stages.                                        *)
LEMMA StagedKept ==
    ASSUME TxInv, RxInv, CleanTx, ~error_injection, Ticks, Acquiring, Staged, NoError,
           Word \/ Idle, 1 \notin Gaps
    PROVE  Staged'
<1>1. PICK din_valid \in BOOLEAN : Receive(din_valid) /\ (din_valid <=> gap' = 0)
  BY Clocks DEF RxInv
<1>2. /\ gap \in Nat /\ pos \in Nat /\ pos >= 1 /\ framed' = framed
      /\ \/ gap >= 2 /\ gap' = 0 /\ pos' = pos + 1
         \/ gap' = gap + 1 /\ pos' = pos
  BY Clocks DEF RxInv
<1>3. /\ dout_valid' <=> gap = 0 /\ pos > 1
      /\ last_diag_word' <=> gap = 0 /\ pos > 1 /\ expect_diag
      /\ check_schedule'[1] <=> last_diag_word
  BY <1>1, Shifts DEF RxInv
<1>4. PICK m \in Nat : m = meta_frame_len /\ m >= 5
  BY FrameSize
<1> SUFFICES ASSUME Locking'
             PROVE  /\ expect_diag' <=> At' = m - 1
                    /\ gap' = 1 => (last_diag_word' <=> At' = m - 1) /\ Holds(dout, pos - 1)'
                    /\ gap' = 2 => /\ check_schedule'[1] <=> At' = m - 1
                                   /\ Holds(din_r, pos - 1)'
                                   /\ check_schedule'[1] => Holds(expect_crc, pos - 1)'
  BY <1>4 DEF Staged
<1>5. Locking \/ (state = "SEARCH" /\ gap = 0 /\ At = 0 /\ expect_sync_word /\ ~expect_diag)
  <2>1. /\ ~word_locked => state' = "RESET"
        /\ word_locked /\ state = "RESET" => state' = "SEARCH"
        /\ state = "SEARCH" /\ ~(gap = 0 /\ At = 0) => state' = "SEARCH"
    BY <1>1, CleanMoves DEF Acquiring
  <2> QED BY <2>1 DEF Locking, RxInv, RxType, Acquiring, Searching
<1>6. pos > 1
  BY <1>5 DEF RxInv, InFrame, Acquiring, Searching
<1>7. /\ At \in 0..(m - 1)
      /\ pos' = pos => At' = At
  BY <1>4, <1>6, AtMoves DEF RxInv
<1>8. expect_diag' <=> At' = m - 1
  <2>1. CASE Locking
    <3>1. /\ rx_cntr = Phase(pos) /\ (expect_diag <=> At = m - 1) /\ state # "SEARCH"
      BY <1>4, <2>1 DEF RxInv, InFrame, Staged, Locking
    <3>2. CASE gap' = 0
      <4>1. expect_diag' = (rx_cntr = m - 1)
        BY <1>1, <1>4, <3>1, <3>2 DEF Receive, F!Clock, F!MetaFrame
      <4>2. pos' - 1 = pos /\ At' = Phase(pos' - 1)
        BY <1>2, <3>2 DEF At, Phase
      <4> QED BY <3>1, <4>1, <4>2
    <3>3. CASE gap' # 0
      <4>1. expect_diag' = expect_diag
        BY <1>1, <3>1, <3>3 DEF Receive, F!Clock, F!MetaFrame
      <4>2. At' = At
        BY <1>2, <1>7, <3>3
      <4> QED BY <3>1, <4>1, <4>2
    <3> QED BY <3>2, <3>3
  <2>2. CASE state = "SEARCH" /\ gap = 0 /\ At = 0
    <3>1. expect_diag' = FALSE
      BY <1>1, <2>2 DEF Receive, F!Clock, F!MetaFrame
    <3>2. At' = 0
      BY <1>2, <1>7, <2>2
    <3> QED BY <1>4, <3>1, <3>2
  <2> QED BY <1>5, <2>1, <2>2
<1>9. ASSUME gap' = 1 PROVE (last_diag_word' <=> At' = m - 1) /\ Holds(dout, pos - 1)'
  <2>1. gap = 0 /\ pos' = pos /\ At' = At
    BY <1>2, <1>7, <1>9
  <2>2. expect_diag <=> At = m - 1
    BY <1>4, <1>5 DEF Staged
  <2>3. /\ dout' \in Words /\ ~dout'.hurt
        /\ dout'.kind = framed[pos - 1].kind /\ dout'.n = framed[pos - 1].n
        /\ dout'.crc = framed[pos - 1].crc
    BY <1>1, <1>5, <1>6, <2>1, HandsOut
  <2> QED BY <1>2, <1>3, <1>6, <2>1, <2>2, <2>3 DEF Holds
<1>10. ASSUME gap' = 2
       PROVE  /\ check_schedule'[1] <=> At' = m - 1
              /\ Holds(din_r, pos - 1)'
              /\ check_schedule'[1] => Holds(expect_crc, pos - 1)'
  <2>1. gap = 1 /\ pos' = pos /\ At' = At /\ Locking
    BY <1>2, <1>5, <1>7, <1>10
  <2>2. (last_diag_word <=> At = m - 1) /\ Holds(dout, pos - 1) /\ dout_valid
    BY <1>4, <1>6, <2>1 DEF Staged, Ticks
  <2>3. /\ din_r' = IF last_diag_word THEN [dout EXCEPT !.hurt = FALSE] ELSE dout
        /\ last_diag_word => expect_crc' = dout
    BY <1>1, <2>2 DEF Receive, CheckCrc
  <2>4. /\ din_r' \in Words /\ ~din_r'.hurt
        /\ din_r'.kind = dout.kind /\ din_r'.n = dout.n /\ din_r'.crc = dout.crc
    BY <2>2, <2>3 DEF Holds, Words
  <2> QED BY <1>2, <1>3, <2>1, <2>2, <2>3, <2>4 DEF Holds
<1> QED BY <1>8, <1>9, <1>10

(* While the search lasts nothing is expected of the stages.               *)
LEMMA StageMoves ==
    ASSUME TxInv, RxInv, CleanTx, ~error_injection, Ticks, Acquiring, NoError,
           Word \/ Idle, 1 \notin Gaps
    PROVE  /\ gap = 2 /\ Locking' => Locking /\ Summed' = pos - 1
           /\ gap # 2 => Summed' = Summed
           /\ gap # 2 /\ InStages' => InStages
           /\ OneFrame' => OneFrame \/ (state = "VERIFY" /\ sync_tally = 1 /\ At = 0 /\ gap = 1
                                         /\ state' = "VERIFY" /\ sync_tally' = 1 /\ At' = 0 /\ gap' = 2)
           /\ Second' => OneFrame /\ ~(state = "VERIFY" /\ sync_tally = 1 /\ At = 0 /\ gap = 2)
<1>1. PICK din_valid \in BOOLEAN : Receive(din_valid)
  BY Clocks DEF RxInv
<1>2. /\ gap \in Nat /\ pos \in Nat /\ pos >= 1
      /\ \/ gap >= 2 /\ gap' = 0 /\ pos' = pos + 1
         \/ gap' = gap + 1 /\ pos' = pos
  BY Clocks DEF RxInv
<1>3. /\ ~word_locked => state' = "RESET"
      /\ word_locked /\ state = "RESET" => state' = "SEARCH"
      /\ state = "SEARCH" => IF gap = 0 /\ At = 0 THEN state' = "VERIFY" /\ sync_tally' = 0
                             ELSE state' = "SEARCH"
      /\ state = "VERIFY" /\ sync_tally = 3 => state' = "LOCKED" /\ sync_tally' = 0
      /\ state = "VERIFY" /\ sync_tally # 3 =>
           state' = "VERIFY" /\ sync_tally' = IF gap = 0 /\ At = 0 THEN sync_tally + 1
                                              ELSE sync_tally
      /\ state = "LOCKED" => state' = "LOCKED" /\ sync_tally' = 0
  BY <1>1, CleanMoves DEF Acquiring
<1>4. /\ state \in {"RESET", "SEARCH", "VERIFY", "LOCKED"} /\ sync_tally \in Nat
      /\ state = "VERIFY" => sync_tally <= 3 /\ (sync_tally = 3 => At = 0 /\ gap = 1)
      /\ Locking => pos > 1
      /\ state = "SEARCH" => pos > 1
      /\ state # "RESET" => word_locked
  BY DEF RxInv, RxType, InFrame, Counted, Acquiring, Searching, Unlocked
<1>5. pos > 1 => (pos' = pos => At' = At)
  BY AtMoves DEF RxInv
<1>6. Summed' = IF gap' >= 3 THEN pos' - 1 ELSE pos' - 2
  BY DEF Summed
<1>7. gap = 2 => Summed' = pos - 1
  BY <1>2, <1>6
<1>8. gap # 2 => Summed' = Summed
  BY <1>2, <1>6 DEF Summed
<1>9. gap = 2 /\ Locking' => Locking
  BY <1>3, <1>4 DEF Locking
<1>10. ASSUME gap # 2, InStages' PROVE InStages
  <2>1. \/ state = "SEARCH" /\ gap = 0 /\ At = 0 /\ state' = "VERIFY" /\ sync_tally' = 0
        \/ Locking
    BY <1>3, <1>4, <1>10 DEF InStages, Locking
  <2>2. CASE state = "SEARCH" /\ gap = 0 /\ At = 0 /\ state' = "VERIFY" /\ sync_tally' = 0
    <3>1. gap' = 1 /\ At' = 0
      BY <1>2, <1>4, <1>5, <2>2
    <3> QED BY <1>10, <2>2, <3>1 DEF InStages
  <2>3. CASE Locking
    <3>1. SUFFICES ASSUME state = "VERIFY", sync_tally = 0, At = 0, gap = 1 PROVE FALSE
      BY <1>10, <2>3 DEF InStages
    <3>2. gap' = 2 /\ At' = 0 /\ state' = "VERIFY" /\ sync_tally' = 0
      <4>1. gap' = 2 /\ pos' = pos
        BY <1>2, <3>1
      <4>2. At' = 0
        BY <1>4, <1>5, <2>3, <3>1, <4>1
      <4> QED BY <1>3, <3>1, <4>1, <4>2
    <3> QED BY <1>10, <3>2 DEF InStages
  <2> QED BY <2>1, <2>2, <2>3
<1>11. ASSUME OneFrame', ~OneFrame
       PROVE  /\ state = "VERIFY" /\ sync_tally = 1 /\ At = 0 /\ gap = 1
              /\ state' = "VERIFY" /\ sync_tally' = 1 /\ At' = 0 /\ gap' = 2
  <2>1. state = "VERIFY"
    BY <1>3, <1>4, <1>11 DEF OneFrame, Second
  <2>2. sync_tally \in {0, 1}
    BY <1>4, <1>11, <2>1 DEF OneFrame, Second
  <2>3. sync_tally # 0
    <3>1. SUFFICES ASSUME sync_tally = 0 PROVE FALSE
      OBVIOUS
    <3>2. state' = "VERIFY" /\ sync_tally' = IF gap = 0 /\ At = 0 THEN 1 ELSE 0
      BY <1>3, <2>1, <3>1
    <3>3. sync_tally' = 1 /\ ~(At' = 0 /\ gap' = 1)
      BY <1>11, <3>2 DEF OneFrame, Second
    <3>4. gap = 0 /\ At = 0
      BY <3>2, <3>3
    <3>5. gap' = 1 /\ At' = 0
      BY <1>2, <1>4, <1>5, <2>1, <3>4 DEF Locking
    <3> QED BY <3>3, <3>5
  <2>4. sync_tally = 1 /\ At = 0 /\ gap = 1
    BY <1>11, <2>1, <2>2, <2>3 DEF OneFrame
  <2>5. gap' = 2 /\ At' = 0
    BY <1>2, <1>4, <1>5, <2>1, <2>4 DEF Locking
  <2> QED BY <1>3, <2>1, <2>4, <2>5
<1>12. ASSUME Second'
       PROVE  OneFrame /\ ~(state = "VERIFY" /\ sync_tally = 1 /\ At = 0 /\ gap = 2)
  <2>1. state = "LOCKED" \/ (state = "VERIFY" /\ sync_tally >= 2)
        \/ (state = "VERIFY" /\ sync_tally = 1 /\ At = 0 /\ gap = 0)
    BY <1>3, <1>4, <1>12 DEF Second
  <2> QED BY <2>1 DEF OneFrame, Second
<1> QED BY <1>7, <1>8, <1>9, <1>10, <1>11, <1>12

(* The sum is compared, and cleared, at the end of a frame.                *)
LEMMA ScheduledKept ==
    ASSUME TxInv, RxInv, CleanTx, ~error_injection, Ticks, Acquiring, Staged, Scheduled, NoError,
           Word \/ Idle, 1 \notin Gaps
    PROVE  Scheduled'
<1>1. PICK din_valid \in BOOLEAN : Receive(din_valid)
  BY Clocks DEF RxInv
<1>2. /\ fresh'[2] <=> gap = 2 /\ pos > 1
      /\ check_schedule'[2] <=> check_schedule[1]
      /\ check_schedule'[3] <=> check_schedule[2]
  BY <1>1, Shifts DEF RxInv
<1>3. crc' = IF check_schedule[3] THEN <<>> ELSE IF fresh[2] THEN evolved ELSE crc
  BY <1>1 DEF Receive, CheckCrc
<1>4. EndsFrame' <=> Phase(Summed') = meta_frame_len - 1
  BY DEF EndsFrame, Phase
<1> SUFFICES ASSUME InStages'
             PROVE  /\ fresh'[2] => (check_schedule'[2] <=> EndsFrame')
                    /\ check_schedule'[3] => EndsFrame'
                    /\ EndsFrame' /\ ~fresh'[2] /\ ~check_schedule'[3] => crc' = <<>>
  BY DEF Scheduled
<1>5. /\ gap \in Nat
      /\ check_schedule[2] => fresh[2]
      /\ fresh[2] => gap \in {0, 3}
  BY Clocks DEF Ticks, RxInv
<1>6. CASE gap = 2
  <2>1. Locking /\ Summed' = pos - 1 /\ pos > 1
    BY <1>6, StageMoves DEF InStages, RxInv, InFrame
  <2>2. fresh'[2] /\ (check_schedule[1] <=> At = meta_frame_len - 1) /\ ~check_schedule[2]
    BY <1>2, <1>5, <1>6, <2>1 DEF Staged
  <2> QED BY <1>2, <1>4, <2>1, <2>2 DEF At
<1>7. CASE gap # 2
  <2>1. InStages /\ Summed' = Summed
    BY <1>7, StageMoves
  <2>2. /\ fresh[2] => (check_schedule[2] <=> EndsFrame)
        /\ check_schedule[3] => EndsFrame
        /\ EndsFrame /\ ~fresh[2] /\ ~check_schedule[3] => crc = <<>>
        /\ EndsFrame' <=> EndsFrame
    BY <1>4, <2>1 DEF Scheduled, EndsFrame
  <2> QED BY <1>2, <1>3, <1>5, <1>7, <2>2
<1> QED BY <1>6, <1>7

(* From the second frame on the CRC in the stages is the sum of the words. *)
LEMMA InSumKept ==
    ASSUME TxInv, RxInv, CleanTx, ~error_injection, Ticks, Acquiring, Staged, Scheduled, InSum,
           NoError, Word \/ Idle, 1 \notin Gaps
    PROVE  InSum'
<1>1. PICK din_valid \in BOOLEAN : Receive(din_valid)
  BY Clocks DEF RxInv
<1>2. /\ fresh'[2] <=> gap = 2 /\ pos > 1
      /\ check_schedule'[2] <=> check_schedule[1]
      /\ check_schedule'[3] <=> check_schedule[2]
      /\ check_schedule'[4] <=> check_schedule[3]
  BY <1>1, Shifts DEF RxInv
<1>3. /\ crc' = IF check_schedule[3] THEN <<>> ELSE IF fresh[2] THEN evolved ELSE crc
      /\ evolved' = Append(crc, Covered(din_r.kind, din_r.n, din_r.hurt))
      /\ crc_match' = (expect_crc.kind = "diag" /\ ~expect_crc.hurt /\ crc = expect_crc.crc)
      /\ ~(dout_valid /\ last_diag_word) => expect_crc' = expect_crc
  BY <1>1 DEF Receive, CheckCrc
<1>4. /\ gap \in Nat /\ pos \in Nat /\ pos >= 1 /\ framed' = framed
      /\ dout_valid <=> gap = 1 /\ pos > 1
      /\ check_schedule[1] => gap = 2
      /\ check_schedule[2] => fresh[2]
      /\ fresh[2] => gap \in {0, 3}
      /\ check_schedule[3] => gap \in {0, 1, 4} /\ ~fresh[2]
  BY Clocks DEF Ticks, RxInv
<1>5. ASSUME NEW word, NEW k PROVE Holds(word, k)' <=> Holds(word', k')
  BY <1>4 DEF Holds
<1> DEFINE Exception == state' = "VERIFY" /\ sync_tally' = 1 /\ At' = 0 /\ gap' = 2
           s == Summed'
<1> SUFFICES ASSUME OneFrame'
             PROVE  /\ fresh'[2] => crc' = Kept(framed, s - 1) /\ evolved' = Sum(framed, s)
                    /\ ~fresh'[2] => crc' = IF check_schedule'[3] THEN Sum(framed, s)
                                            ELSE Kept(framed, s)
                    /\ check_schedule'[2] \/ check_schedule'[3] =>
                         /\ expect_crc' \in Words /\ ~expect_crc'.hurt
                         /\ expect_crc'.kind = framed[s].kind /\ expect_crc'.n = framed[s].n
                         /\ expect_crc'.crc = framed[s].crc
                    /\ check_schedule'[4] => crc_match' \/ Exception
  <2>1. Kept(framed, Summed - 1)' = Kept(framed, s - 1) /\ Sum(framed, Summed)' = Sum(framed, s)
        /\ Kept(framed, Summed)' = Kept(framed, s)
    BY <1>4 DEF Kept, Sum, Phase
  <2> HIDE DEF s
  <2> QED BY <1>4, <2>1 DEF InSum, Holds, s
<1>6. CASE gap = 2
  <2>1. OneFrame /\ s = pos - 1
    <3>1. Locking'
      BY DEF OneFrame, Second, Locking
    <3> QED BY <1>6, <3>1, StageMoves
  <2>2. Locking /\ pos > 1 /\ LongEnough
    <3>1. Locking
      BY <2>1 DEF OneFrame, Second, Locking
    <3>2. state = "LOCKED" \/ (state = "VERIFY" /\ Loaded)
      BY <2>1 DEF OneFrame, Second, Loaded, RxInv, RxType
    <3> QED BY <3>1, <3>2, NoDamage DEF RxInv, InFrame
  <2>3. PICK k \in Nat \ {0} : k = pos - 2 /\ k + 1 = pos - 1 /\ k + 1 \in 1..Len(framed)
    <3>1. pos - 2 \in Nat \ {0} /\ (pos - 2) + 1 = pos - 1 /\ pos - 1 \in 1..Len(framed)
      BY <1>4, <2>2, NoDamage DEF LongEnough
    <3> QED BY <3>1
  <2>4. ~fresh[2] /\ ~check_schedule[2] /\ ~check_schedule[3] /\ Summed = k
    BY <1>4, <1>6, <2>3 DEF Summed
  <2>5. crc = Kept(framed, k) /\ crc' = crc /\ expect_crc' = expect_crc
    BY <1>3, <1>4, <1>6, <2>1, <2>4 DEF InSum
  <2>6. Holds(din_r, k + 1)
    BY <1>6, <2>2, <2>3 DEF Staged
  <2>7. evolved' = Sum(framed, k + 1)
    <3>1. din_r.hurt = FALSE
      BY <2>6 DEF Holds, Words
    <3>2. Covered(din_r.kind, din_r.n, din_r.hurt) = Summand(framed[k + 1])
      BY <2>6, <3>1 DEF Holds, Summand
    <3>3. Sum(framed, k + 1) = Append(Kept(framed, k), Summand(framed[k + 1]))
      BY SumStep
    <3> QED BY <1>3, <2>5, <3>2, <3>3
  <2>8. check_schedule[1] => Holds(expect_crc, k + 1)
    BY <1>6, <2>2, <2>3 DEF Staged
  <2>9. s = k + 1 /\ s - 1 = k
    BY <2>1, <2>3
  <2> HIDE DEF s
  <2> QED BY <1>2, <1>6, <2>2, <2>4, <2>5, <2>7, <2>8, <2>9 DEF Holds
<1>7. CASE gap # 2 /\ OneFrame
  <2>1. s = Summed /\ InStages /\ ~fresh'[2] /\ ~check_schedule'[2]
    <3>1. InStages
      BY <1>7 DEF OneFrame, Second, InStages, Locking
    <3> QED BY <1>2, <1>4, <1>7, <3>1, StageMoves
  <2>2. /\ fresh[2] => evolved = Sum(framed, s)
        /\ ~fresh[2] => crc = IF check_schedule[3] THEN Sum(framed, s) ELSE Kept(framed, s)
        /\ check_schedule[2] \/ check_schedule[3] => Holds(expect_crc, s)
    BY <1>7, <2>1 DEF InSum
  <2>3. /\ fresh[2] => (check_schedule[2] <=> Phase(s) = meta_frame_len - 1)
        /\ check_schedule[3] => Phase(s) = meta_frame_len - 1
    BY <2>1 DEF Scheduled, EndsFrame
  <2>4. crc' = IF check_schedule'[3] THEN Sum(framed, s) ELSE Kept(framed, s)
    <3>1. CASE fresh[2]
      <4>1. crc' = Sum(framed, s)
        BY <1>3, <1>4, <2>2, <3>1
      <4> QED BY <1>2, <2>3, <3>1, <4>1 DEF Kept
    <3>2. CASE ~fresh[2]
      <4>1. ~check_schedule'[3]
        BY <1>2, <1>4, <3>2
      <4>2. CASE check_schedule[3]
        BY <1>3, <2>3, <4>1, <4>2 DEF Kept
      <4>3. CASE ~check_schedule[3]
        BY <1>3, <2>2, <3>2, <4>1, <4>3
      <4> QED BY <4>2, <4>3
    <3> QED BY <3>1, <3>2
  <2>5. check_schedule'[3] => expect_crc' = expect_crc /\ Holds(expect_crc, s)
    BY <1>2, <1>3, <1>4, <2>2
  <2>6. check_schedule'[4] => crc_match'
    <3>1. SUFFICES ASSUME check_schedule[3] PROVE crc_match'
      BY <1>2
    <3>2. ~fresh[2] /\ crc = Sum(framed, s) /\ Holds(expect_crc, s) /\ Phase(s) = meta_frame_len - 1
      BY <1>4, <2>2, <2>3, <3>1
    <3>3. s \in 1..Len(framed)
      <4>1. state = "LOCKED" \/ (state = "VERIFY" /\ Loaded)
        BY <1>7 DEF OneFrame, Second, Loaded, RxInv, RxType
      <4>2. pos > 2 /\ pos - 1 \in 1..Len(framed)
        BY <1>4, <4>1, NoDamage DEF LongEnough
      <4> QED BY <1>4, <2>1, <4>2 DEF Summed
    <3>4. framed[s].crc = Sum(framed, s) /\ framed[s].kind = "diag"
      BY <3>2, <3>3, FrameSize DEF CleanTx, CleanWords, TxInv, WordsFit, Fits, Kind
    <3> HIDE DEF s
    <3> QED BY <1>3, <3>2, <3>4 DEF Holds
  <2> HIDE DEF s
  <2> QED BY <2>1, <2>4, <2>5, <2>6 DEF Holds
<1>8. CASE ~OneFrame
  <2>1. Exception /\ state = "VERIFY" /\ sync_tally = 1 /\ At = 0 /\ gap = 1
    BY <1>8, StageMoves
  <2>2. s = Summed /\ ~fresh[2] /\ ~fresh'[2] /\ ~check_schedule'[2] /\ ~check_schedule'[3]
    BY <1>2, <1>4, <2>1, StageMoves
  <2>3. PICK k \in Nat \ {0} : k = Summed /\ k + 1 = pos - 1
    <3>1. pos > 2
      BY <2>1, NoDamage DEF Loaded, LongEnough
    <3>2. Summed = pos - 2 /\ pos - 2 \in Nat \ {0} /\ (pos - 2) + 1 = pos - 1
      BY <1>4, <2>1, <3>1 DEF Summed
    <3> QED BY <3>2
  <2>4. Phase(k) = meta_frame_len - 1
    <3>1. Phase(k + 1) = 0
      BY <2>1, <2>3 DEF At
    <3>2. Phase(k) \in 0..(meta_frame_len - 1)
          /\ Phase(k + 1) = IF Phase(k) = meta_frame_len - 1 THEN 0 ELSE Phase(k) + 1
      BY PhaseStep
    <3> QED BY <3>1, <3>2, FrameSize
  <2>5. InStages
    BY <2>1 DEF InStages, Locking
  <2>6. crc' = <<>>
    BY <1>3, <2>2, <2>3, <2>4, <2>5 DEF Scheduled, EndsFrame
  <2> HIDE DEF s, Exception
  <2> QED BY <2>1, <2>2, <2>3, <2>4, <2>6 DEF Kept
<1> QED BY <1>6, <1>7, <1>8

(* The bench finds nothing to report but a late lock, and that only when   *)
(* the word lock came with a synchronization word.                         *)
LEMMA NoErrorKept ==
    ASSUME TxInv, RxInv, RxInv', CleanTx, CleanTx', ~error_injection, Ticks, Acquiring, Acquiring',
           InSum, NoError, Word \/ Idle, 1 \notin Gaps
    PROVE  NoError'
<1>1. PICK din_valid \in BOOLEAN : Receive(din_valid)
  BY Clocks DEF RxInv
<1>2. PICK m \in Nat : m = meta_frame_len /\ m >= 5
  BY FrameSize
<1>3. /\ Rules /\ gap \in Nat /\ pos \in Nat /\ pos >= 1 /\ framed' = framed
      /\ error_injection' = error_injection
      /\ \/ gap >= 2 /\ gap' = 0 /\ pos' = pos + 1
         \/ gap' = gap + 1 /\ pos' = pos
      /\ \/ word_locked' = word_locked /\ on_sync' = on_sync
         \/ gap' = 1 /\ Aligning
  BY Clocks DEF RxInv
<1>4. Second' => ~crc_error'
  <2> SUFFICES ASSUME Second' PROVE ~crc_error'
    OBVIOUS
  <2>1. OneFrame /\ ~(state = "VERIFY" /\ sync_tally = 1 /\ At = 0 /\ gap = 2)
    BY StageMoves
  <2>2. check_schedule[4] => crc_match
    BY <2>1 DEF InSum
  <2>3. crc_error' = (~crc_match /\ check_schedule[4])
    BY <1>1 DEF Receive, CheckCrc
  <2> QED BY <2>2, <2>3
<1>5. state' = "LOCKED" => ~(last_verify' /\ ~match')
  <2> SUFFICES ASSUME last_verify' PROVE match'
    OBVIOUS
  <2>1. F!scrambler_load /\ state = "LOCKED" /\ match' = (lfsr = LoadVal(last_valid_word))
    BY <1>1 DEF Receive, Scrambler, sync_locked, F!sync_locked
  <2>2. gap = 0 /\ At = 1 /\ LongEnough /\ Tuned
    BY <2>1, Signals, NoDamage DEF RxInv, Locking
  <2>3. PICK c \in 3..Len(framed) : c = pos - 1 /\ c - 1 = pos - 2
    <3>1. pos - 1 \in 3..Len(framed) /\ (pos - 1) - 1 = pos - 2
      BY <1>3, <2>2, NoDamage DEF LongEnough
    <3> QED BY <3>1
  <2>4. framed[c].kind = "state" /\ ~framed[c].hurt /\ After(c).seed = Started.seed
    <3>1. c \in 1..Len(framed) /\ c \in 2..Len(framed)
      BY <2>3
    <3>2. framed[c].kind = Kind(1)
      BY <2>2, <2>3, <3>1 DEF TxInv, WordsFit, Fits, At
    <3> QED BY <3>1, <3>2, NoDamage DEF Kind
  <2>5. framed[c].scr = After(c - 1)
    <3>1. /\ After(c) = framed[c].scr
          /\ After(c) = After(c - 1) \/ After(c).seed = Reseeded.seed
      BY <2>2, <2>3, Changes DEF TxInv, At
    <3> QED BY <2>4, <3>1 DEF Started, Reseeded
  <2>6. LoadVal(last_valid_word) = framed[c].scr
    <3>1. /\ last_valid_word.kind = framed[c].kind /\ last_valid_word.scr = framed[c].scr
          /\ (last_valid_word.hurt <=> framed[c].hurt)
      BY <1>3, <2>3 DEF RxInv, Heard
    <3> QED BY <2>4, <3>1 DEF LoadVal
  <2>7. lfsr = After(c - 1)
    BY <2>2, <2>3 DEF Tuned, Ref
  <2> QED BY <2>1, <2>5, <2>6, <2>7
<1>6. ~acquired /\ state' = "LOCKED" =>
        \E d \in 1..m : /\ words_to_sync_lock' = d + 3 * m + 1
                      /\ on_sync' = on_sync /\ (on_sync <=> d = m)
  <2> SUFFICES ASSUME ~acquired, state' = "LOCKED"
               PROVE  \E d \in 1..m : /\ words_to_sync_lock' = d + 3 * m + 1
                                     /\ on_sync' = on_sync /\ (on_sync <=> d = m)
    OBVIOUS
  <2>1. state = "VERIFY" /\ sync_tally = 3 /\ At = 0 /\ gap = 1 /\ pos > 1 /\ word_locked
    <3>1. state # "LOCKED" /\ (state # "RESET" => word_locked)
      BY DEF Acquiring, Keeping, Unlocked
    <3>2. state = "VERIFY" /\ sync_tally = 3
      BY <1>1, <3>1, StateMoves DEF RxInv
    <3> QED BY <3>1, <3>2 DEF RxInv, Counted, InFrame, Locking
  <2>2. PICK d \in 1..m : SinceLock = d + 1 + At + Times(FramesSeen) /\ (on_sync <=> d = m)
    BY <1>2, <2>1 DEF Acquiring, Confirming
  <2>3. FramesSeen = 3 /\ SinceLock = words_to_sync_lock + 1 /\ words_to_sync_lock \in Nat
    BY <2>1 DEF FramesSeen, SinceLock, Acquiring
  <2>4. words_to_sync_lock = d + 3 * m
    BY <1>2, <2>1, <2>2, <2>3 DEF Times
  <2>5. words_to_sync_lock' = words_to_sync_lock + 1 /\ on_sync' = on_sync
    BY <1>3, <2>1 DEF Rules, Ticks, sync_locked, F!sync_locked, Aligning
  <2> QED BY <2>2, <2>4, <2>5
<1>7. ~fail'
  <2>1. \/ ~acquired /\ state' = "LOCKED" /\ TooEarly
        \/ state' = "LOCKED" /\ (F!missing_sync \/ crc_error \/ scrambler_mismatch)'
        \/ pos > AlignWords + 4 * meta_frame_len + 1 /\ ~acquired
        \/ ~fail'
    BY <1>3 DEF Rules, sync_locked, F!sync_locked, NoError
  <2>2. CASE ~acquired /\ state' = "LOCKED" /\ TooEarly
    BY <1>2, <1>6, <2>2 DEF TooEarly
  <2>3. CASE state' = "LOCKED" /\ (F!missing_sync \/ crc_error \/ scrambler_mismatch)'
    <3>1. ~crc_error' /\ ~(last_verify' /\ ~match')
      BY <1>4, <1>5, <2>3 DEF Second
    <3>2. F!missing_sync'
      BY <2>3, <3>1 DEF scrambler_mismatch
    <3>3. /\ last_din_valid' /\ expect_sync_word' /\ ~sync_detected'
          /\ pos' > 1 /\ pos' <= Len(framed) + 1 /\ pos' \in Nat
          /\ expect_sync_word' <=> At' = 0
          /\ sync_detected' <=> pos' > 1 /\ At' = 0 /\ ~framed[pos' - 1].hurt
      BY <1>3, <2>3, <3>2 DEF F!missing_sync, RxInv, InFrame, Locking, Heard, RxType
    <3>4. pos' - 1 \in 1..Len(framed)
      BY <3>3, NoDamage
    <3>5. ~framed[pos' - 1].hurt
      BY <3>4, NoDamage
    <3> QED BY <3>3, <3>5
  <2>4. CASE pos > AlignWords + 4 * meta_frame_len + 1 /\ ~acquired
    <3>1. AlignWords \in Nat /\ state # "LOCKED"
      BY <2>4, BenchAssumption DEF Acquiring, Keeping
    <3>2. CASE ~word_locked
      <4>1. pos <= AlignWords + 1
        BY <1>3, <3>1, <3>2 DEF Acquiring, Unlocked
      <4> QED BY <1>2, <1>3, <2>4, <3>1, <4>1
    <3>3. CASE word_locked
      <4>1. pos <= AlignWords + SinceLock
        BY <2>4, <3>3 DEF Acquiring
      <4>2. SinceLock \in Nat /\ SinceLock <= 4 * m + 1
        BY <1>2, <1>3, <3>1, <3>3, SinceLockBound DEF RxInv
      <4> QED BY <1>2, <1>3, <2>4, <3>1, <4>1, <4>2
    <3> QED BY <3>2, <3>3
  <2> QED BY <2>1, <2>2, <2>3, <2>4
<1>8. late' => on_sync'
  <2>1. CASE late
    <3>1. on_sync
      BY <2>1 DEF NoError
    <3>2. word_locked
      BY <3>1 DEF Acquiring, Unlocked
    <3> QED BY <1>3, <3>1, <3>2 DEF Aligning
  <2>2. CASE ~acquired /\ state' = "LOCKED" /\ TooLate
    BY <1>2, <1>6, <2>2 DEF TooLate
  <2>3. late' => \/ late
                 \/ ~acquired /\ state' = "LOCKED" /\ TooLate
    BY <1>3 DEF Rules, sync_locked, F!sync_locked
  <2> QED BY <2>1, <2>2, <2>3
<1> QED BY <1>4, <1>5, <1>7, <1>8 DEF NoError

(* A clock of the bench keeps all of it.                                   *)
LEMMA CleanClock ==
    ASSUME TxInv, RxInv, RxInv', CleanTx, CleanTx', CleanInv, Word \/ Idle, 1 \notin Gaps
    PROVE  CleanInv'
<1>1. error_injection' = error_injection /\ Rules
  BY Clocks DEF RxInv
<1>2. CASE error_injection
  BY <1>1, <1>2 DEF CleanInv, Rules
<1>3. CASE ~error_injection
  <2>1. Ticks /\ Acquiring /\ Staged /\ Scheduled /\ InSum /\ NoError
    BY <1>3 DEF CleanInv
  <2>2. Ticks'
    BY <2>1, TicksKept DEF RxInv
  <2>3. Acquiring'
    BY <1>3, <2>1, AcquiringKept
  <2>4. Staged'
    BY <1>3, <2>1, StagedKept
  <2>5. Scheduled'
    BY <1>3, <2>1, ScheduledKept
  <2>6. InSum'
    BY <1>3, <2>1, InSumKept
  <2>7. NoError'
    BY <1>3, <2>1, <2>3, NoErrorKept
  <2> QED BY <1>1, <1>3, <2>2, <2>3, <2>4, <2>5, <2>6, <2>7 DEF CleanInv
<1> QED BY <1>2, <1>3

(* The program does nothing to a lane_rx that has heard nothing.           *)
LEMMA CleanStill ==
    ASSUME RxInv, CleanInv, UNCHANGED laneVars, error_injection' = error_injection,
           pos = 1 \/ framed' = framed
    PROVE  CleanInv'
<1>1. /\ UNCHANGED <<pos, gap, word_locked, on_sync, state, expect_sync_word, expect_diag,
                     sync_tally, scramble_miss_cntr>>
      /\ UNCHANGED <<dout, dout_valid, last_verify, match, din_r, expect_crc, fresh,
                     last_diag_word, check_schedule, evolved, crc, crc_match, crc_error>>
      /\ UNCHANGED <<words_to_sync_lock, acquired, fail, late>>
  BY DEF laneVars, lineVars, syncVars, rxVars, crcVars, benchVars
<1>2. Ticks => Ticks'
  BY <1>1 DEF Ticks
<1>3. At' = At
  BY <1>1 DEF At, Phase
<1>4. Acquiring => Acquiring'
  <2>1. SinceLock' = SinceLock /\ FramesSeen' = FramesSeen /\ Times(FramesSeen)' = Times(FramesSeen)
    BY <1>1, <1>3 DEF SinceLock, FramesSeen, Times
  <2>2. Unlocked /\ Resetting /\ Searching /\ Keeping
        => Unlocked' /\ Resetting' /\ Searching' /\ Keeping'
    BY <1>1, <1>3, <2>1 DEF Unlocked, Resetting, Searching, Keeping
  <2>3. Confirming => Confirming'
    BY <1>1, <1>3, <2>1 DEF Confirming
  <2> QED BY <1>1, <2>1, <2>2, <2>3 DEF Acquiring
<1>5. NoError => NoError'
  BY <1>1 DEF NoError, Second
<1>6. CASE pos = 1
  <2>1. ~Locking
    BY <1>6 DEF RxInv, InFrame
  <2>2. ~Locking' /\ ~InStages' /\ ~OneFrame'
    BY <1>1, <2>1 DEF Locking, InStages, OneFrame, Second
  <2>3. Staged' /\ Scheduled' /\ InSum'
    BY <2>2 DEF Staged, Scheduled, InSum
  <2> QED BY <1>1, <1>2, <1>4, <1>5, <2>3 DEF CleanInv
<1>7. CASE framed' = framed
  <2>1. (Locking' <=> Locking) /\ Summed' = Summed
    BY <1>1 DEF Locking, Summed
  <2>2. /\ (EndsFrame' <=> EndsFrame) /\ (InStages' <=> InStages) /\ (OneFrame' <=> OneFrame)
        /\ Kept(framed, Summed - 1)' = Kept(framed, Summed - 1)
        /\ Sum(framed, Summed)' = Sum(framed, Summed)
        /\ Kept(framed, Summed)' = Kept(framed, Summed)
    BY <1>1, <1>3, <1>7, <2>1 DEF EndsFrame, InStages, OneFrame, Second, Kept, Sum, Phase
  <2>3. Staged => Staged'
    BY <1>1, <1>3, <1>7, <2>1 DEF Staged, Holds
  <2>4. Scheduled => Scheduled'
    BY <1>1, <2>2 DEF Scheduled
  <2>5. InSum => InSum'
    BY <1>1, <1>3, <1>7, <2>1, <2>2 DEF InSum, Holds
  <2> QED BY <1>1, <1>2, <1>4, <1>5, <2>3, <2>4, <2>5 DEF CleanInv
<1> QED BY <1>6, <1>7

(* The receiver starts with empty stages.                                  *)
LEMMA CleanStart == LaneInitial => CleanInv
<1> SUFFICES ASSUME LaneInitial PROVE CleanInv
  OBVIOUS
<1>1. /\ pos = 1 /\ gap = 0 /\ word_locked = FALSE /\ on_sync = FALSE /\ state = "RESET"
      /\ sync_tally = 0 /\ scramble_miss_cntr = 0 /\ dout_valid = FALSE /\ last_verify = FALSE
      /\ fresh = <<FALSE, FALSE>> /\ last_diag_word = FALSE
      /\ check_schedule = <<FALSE, FALSE, FALSE, FALSE>> /\ crc_error = FALSE
      /\ words_to_sync_lock = 0 /\ acquired = FALSE /\ fail = FALSE /\ late = FALSE
  BY DEF LaneInitial, LaneInit, F!Init
<1>2. Ticks
  <2>1. check_schedule \in Seq(BOOLEAN) /\ Len(check_schedule) = 4
    BY <1>1
  <2>2. ~fresh[1] /\ ~fresh[2]
    BY <1>1
  <2>3. ~check_schedule[1] /\ ~check_schedule[2] /\ ~check_schedule[3] /\ ~check_schedule[4]
    BY <1>1
  <2> QED BY <1>1, <2>1, <2>2, <2>3 DEF Ticks
<1>3. Acquiring
  <2>1. pos <= AlignWords + 1
    BY <1>1, BenchAssumption
  <2> QED BY <1>1, <2>1 DEF Acquiring, Unlocked, Resetting, Searching, Confirming, Keeping
<1>4. Staged /\ Scheduled /\ InSum /\ NoError
  BY <1>1 DEF Locking, Staged, InStages, Scheduled, Second, OneFrame, InSum, NoError
<1> QED BY <1>1, <1>2, <1>3, <1>4 DEF CleanInv

(***************************************************************************)
(* For every frame length, with two clocks or more between words, and for  *)
(* any word lock, one that comes with a sync word included: a lane without *)
(* errors locks within the window and after three frames at least, and no  *)
(* CRC error, scrambler mismatch or missing sync word follows, because the *)
(* program and lane_rx agree word by word on the place in the frame, the   *)
(* scrambler state and the CRC.  Only after a word lock that came with a   *)
(* sync word is the sync lock more than four frames away.                  *)
(***************************************************************************)
THEOREM CleanLanesPassCorrect ==
    ASSUME lane_bits <= 58, 1 \notin Gaps
    PROVE  Spec => []CleanLanesPass
<1> DEFINE IInv == TxInv /\ RxInv /\ CleanTx /\ CleanInv
<1>1. LaneInitial => IInv
  BY TxStart, RxStart, CleanTxStart, CleanStart
<1>2. IInv /\ [Next]_vars => IInv'
  <2>1. SUFFICES ASSUME TxInv, RxInv, CleanTx, CleanInv, [Next]_vars
                 PROVE  TxInv' /\ RxInv' /\ CleanTx' /\ CleanInv'
    OBVIOUS
  <2>2. TxInv' /\ RxInv'
    BY <2>1, LaneStep
  <2>3. CASE Traffic /\ UNCHANGED laneVars
    <3>1. CleanTx'
      BY <2>1, <2>2, <2>3, CleanTxStep
    <3>2. error_injection' = error_injection /\ pass # "bench"
      BY <2>3 DEF Traffic, SyncWord, StateWord, SkipWord, DiagWord, PayloadWord, NoMoreLines,
         Framing, Framed, BalanceWord, Balanced, Nybble, Geared, frameVars
    <3>3. pos = 1
      BY <2>1, <3>2 DEF RxInv, RxType
    <3> QED BY <2>1, <2>2, <2>3, <3>1, <3>2, <3>3, CleanStill
  <2>4. CASE Word \/ Idle
    <3>1. UNCHANGED trafficVars
      BY <2>4 DEF Word, Idle, Running
    <3>2. CleanTx'
      BY <2>1, <3>1, CleanTxKept
    <3> QED BY <2>1, <2>2, <2>4, <3>2, CleanClock
  <2>5. CASE UNCHANGED vars
    <3>1. UNCHANGED trafficVars /\ UNCHANGED laneVars
      BY <2>5 DEF vars
    <3>2. framed' = framed /\ error_injection' = error_injection
      BY <3>1 DEF trafficVars, frameVars
    <3>3. CleanTx'
      BY <2>1, <3>1, CleanTxKept
    <3> QED BY <2>1, <2>2, <3>1, <3>2, <3>3, CleanStill
  <2> QED BY <2>1, <2>3, <2>4, <2>5 DEF Next
<1>3. IInv => CleanLanesPass
  BY DEF CleanInv, NoError, CleanLanesPass
<1> QED BY <1>1, <1>2, <1>3, PTL DEF Spec
=============================================================================
