--------------------------- MODULE MCBuffers_proof ---------------------------
(***************************************************************************)
(* TLAPS proofs about the buffers of MCBuffers, for every set of data      *)
(* words and every DEPTH: the receive buffer loses a word exactly when it  *)
(* says so, ready_skid, the transmit buffer and the single clock FIFOs are *)
(* queues, cdc_strobe keeps every paced event, and the single clock FIFOs  *)
(* look alike from outside.  Each part is an inductive invariant of one    *)
(* unit; the last part puts the units together.                            *)
(***************************************************************************)
EXTENDS MCBuffers, DualClockFifo_proof, SequenceTheorems, TLAPS

(***************************************************************************)
(* A queue kept as a function of positions: how what it becomes shows that *)
(* a word entered, left, or both.                                          *)
(***************************************************************************)
LEMMA QueuePush ==
    ASSUME NEW D, NEW n \in Nat, NEW q \in [1..n -> D], NEW w \in D,
           NEW r \in [1..(n + 1) -> D],
           \A i \in 1..n : r[i] = q[i], r[n + 1] = w
    PROVE  Len(q) = n /\ r = Append(q, w)
<1>1. q \in Seq(D) /\ Len(q) = n
  OBVIOUS
<1>2. /\ Append(q, w) \in Seq(D) /\ Len(Append(q, w)) = n + 1
      /\ \A i \in 1..n : Append(q, w)[i] = q[i]
      /\ Append(q, w)[n + 1] = w
  BY <1>1, AppendProperties
<1>3. r \in Seq(D) /\ Len(r) = n + 1
  OBVIOUS
<1>4. \A i \in 1..(n + 1) : r[i] = Append(q, w)[i]
  BY <1>2
<1> QED BY <1>1, <1>2, <1>3, <1>4, SeqEqual

(* A word left: the others are one place nearer to the front.              *)
LEMMA QueuePop ==
    ASSUME NEW D, NEW n \in Nat \ {0}, NEW q \in [1..n -> D],
           NEW r \in [1..(n - 1) -> D],
           \A i \in 1..(n - 1) : r[i] = q[i + 1]
    PROVE  q # <<>> /\ Len(q) = n /\ Head(q) = q[1] /\ r = Tail(q) /\ q[1] \in D
<1>1. q \in Seq(D) /\ Len(q) = n /\ q[1] \in D
  OBVIOUS
<1>2. q # <<>> /\ Head(q) = q[1]
  BY <1>1
<1>3. /\ Tail(q) \in Seq(D) /\ Len(Tail(q)) = n - 1
      /\ \A i \in 1..(n - 1) : Tail(q)[i] = q[i + 1]
  BY <1>1, <1>2, HeadTailProperties
<1>4. r \in Seq(D) /\ Len(r) = n - 1
  <2>1. n - 1 \in Nat
    OBVIOUS
  <2> QED BY <2>1
<1>5. r = Tail(q)
  BY <1>3, <1>4, SeqEqual
<1> QED BY <1>1, <1>2, <1>5

(* Both at once.                                                           *)
LEMMA QueuePushPop ==
    ASSUME NEW D, NEW n \in Nat \ {0}, NEW q \in [1..n -> D], NEW w \in D,
           NEW r \in [1..n -> D],
           \A i \in 1..(n - 1) : r[i] = q[i + 1], r[n] = w
    PROVE  q # <<>> /\ Len(q) = n /\ Head(q) = q[1] /\ r = Append(Tail(q), w)
<1> DEFINE t == [i \in 1..(n - 1) |-> q[i + 1]]
<1>1. t \in [1..(n - 1) -> D] /\ \A i \in 1..(n - 1) : t[i] = q[i + 1]
  OBVIOUS
<1> HIDE DEF t
<1>2. q # <<>> /\ Len(q) = n /\ Head(q) = q[1] /\ t = Tail(q)
  BY <1>1, QueuePop
<1>3. n - 1 \in Nat /\ n - 1 + 1 = n /\ \A i \in 1..(n - 1) : r[i] = t[i]
  BY <1>1
<1>4. r = Append(t, w)
  BY <1>1, <1>3, QueuePush
<1> QED BY <1>2, <1>4
------------------------------------------------------------------------------

(* What the two bit pointers of the receive buffer can count to: after an  *)
(* edge with din_valid or read_now or both.                                *)
LEMMA PointerSteps ==
    ASSUME NEW w \in 0..3, NEW r \in 0..3
    PROVE  LET n == (w + 4 - r) % 4 IN
           /\ n \in 0..3
           /\ (((w + 1) % 4) + 4 - r) % 4 = (n + 1) % 4
           /\ (w + 4 - ((r + 1) % 4)) % 4 = (n + 3) % 4
           /\ (((w + 1) % 4) + 4 - ((r + 1) % 4)) % 4 = n
           /\ (w = r) = (n = 0)
           /\ (w = (r + 2) % 4) = (n = 2)
<1>1. w \in {0, 1, 2, 3} /\ r \in {0, 1, 2, 3}
  OBVIOUS
<1>2. CASE w = 0
  BY <1>1, <1>2
<1>3. CASE w = 1
  BY <1>1, <1>3
<1>4. CASE w = 2
  BY <1>1, <1>4
<1>5. CASE w = 3
  BY <1>1, <1>5
<1> QED BY <1>1, <1>2, <1>3, <1>4, <1>5

(***************************************************************************)
(* The receive buffer: words in the stores, words inside, and the k-th of  *)
(* them, oldest first.                                                     *)
(***************************************************************************)
RxStored == (rx_wr_ptr + 4 - rx_rd_ptr) % 4
RxInside == RxStored + (IF dout_content_valid THEN 1 ELSE 0)
RxWord(k) == IF dout_content_valid
               THEN IF k = 1 THEN dout ELSE rx_store[(rx_rd_ptr + k - 2) % 2]
               ELSE rx_store[(rx_rd_ptr + k - 1) % 2]

RxInv == /\ Rx!TypeOK
         /\ RxStored <= 2
         /\ ~dout_content_valid => RxStored <= 1
         /\ Rx!Content = rx_owed

(* Content, written position by position.                                  *)
LEMMA RxContent ==
    ASSUME Rx!TypeOK, RxStored <= 2
    PROVE  /\ Rx!Content \in Seq(Word) /\ Len(Rx!Content) = RxInside
           /\ \A k \in 1..RxInside : Rx!Content[k] = RxWord(k)
           /\ Len(Rx!Stored) = RxStored
<1>1. RxStored \in Nat /\ rx_rd_ptr \in Nat
  BY DEF Rx!TypeOK, RxStored
<1>2. \A i \in 1..RxStored : rx_store[(rx_rd_ptr + i - 1) % 2] \in Word
  BY <1>1 DEF Rx!TypeOK
<1>3. Rx!Stored = [i \in 1..RxStored |-> rx_store[(rx_rd_ptr + i - 1) % 2]]
  BY DEF Rx!Stored, Rx!Low, RxStored
<1>4. Rx!Stored \in [1..RxStored -> Word]
  BY <1>2, <1>3
<1>5. Rx!Stored \in Seq(Word) /\ Len(Rx!Stored) = RxStored
  <2> HIDE DEF RxStored
  <2> QED BY <1>1, <1>4
<1> DEFINE head == IF dout_content_valid THEN <<dout>> ELSE <<>>
<1>6. /\ head \in Seq(Word) /\ Len(head) = (IF dout_content_valid THEN 1 ELSE 0)
      /\ dout_content_valid => head[1] = dout
  BY DEF Rx!TypeOK
<1>7. Rx!Content = head \o Rx!Stored
  BY DEF Rx!Content
<1> HIDE DEF head
<1>8. /\ Rx!Content \in Seq(Word) /\ Len(Rx!Content) = Len(head) + RxStored
      /\ \A k \in 1..(Len(head) + RxStored) :
            Rx!Content[k] = IF k <= Len(head) THEN head[k] ELSE Rx!Stored[k - Len(head)]
  BY <1>5, <1>6, <1>7, ConcatProperties
<1>9. \A k \in 1..RxInside : Rx!Content[k] = RxWord(k)
  <2> SUFFICES ASSUME NEW k \in 1..RxInside PROVE Rx!Content[k] = RxWord(k)
    OBVIOUS
  <2>1. CASE dout_content_valid
    <3>1. CASE k = 1
      BY <2>1, <3>1, <1>6, <1>8, <1>1 DEF RxInside, RxWord
    <3>2. CASE k # 1
      <4>1. Rx!Content[k] = Rx!Stored[k - 1] /\ k - 1 \in 1..RxStored
        BY <2>1, <3>2, <1>6, <1>8, <1>1 DEF RxInside
      <4>2. Rx!Stored[k - 1] = rx_store[(rx_rd_ptr + (k - 1) - 1) % 2]
        BY <4>1, <1>3
      <4>3. (rx_rd_ptr + (k - 1) - 1) = rx_rd_ptr + k - 2
        BY <1>1
      <4> QED BY <4>1, <4>2, <4>3, <3>2, <2>1 DEF RxWord
    <3> QED BY <3>1, <3>2
  <2>2. CASE ~dout_content_valid
    <3>1. Rx!Content[k] = Rx!Stored[k] /\ k \in 1..RxStored
      BY <2>2, <1>6, <1>8, <1>1 DEF RxInside
    <3> QED BY <3>1, <2>2, <1>3 DEF RxWord
  <2> QED BY <2>1, <2>2
<1> QED BY <1>5, <1>6, <1>8, <1>9 DEF RxInside

(* What is left of a sequence whose first words go and one word comes. *)
LEMMA WordsLeft ==
    ASSUME NEW D, NEW s \in Seq(D), NEW gone \in 0..Len(s), NEW b \in BOOLEAN, NEW w \in D
    PROVE  LET r == SubSeq(s, gone + 1, Len(s)) \o (IF b THEN <<w>> ELSE <<>>)
           IN /\ r \in Seq(D)
              /\ Len(r) = Len(s) - gone + (IF b THEN 1 ELSE 0)
              /\ \A k \in 1..(Len(s) - gone) : r[k] = s[k + gone]
              /\ b => r[Len(s) - gone + 1] = w
<1> DEFINE t == SubSeq(s, gone + 1, Len(s))
           u == IF b THEN <<w>> ELSE <<>>
           r == t \o u
<1>1. Len(s) \in Nat /\ \A i \in (gone + 1)..Len(s) : s[i] \in D
  BY LenProperties
<1>2. /\ t \in Seq(D) /\ Len(t) = Len(s) - gone
      /\ \A k \in 1..(Len(s) - gone) : t[k] = s[k + gone]
  <2>1. /\ t \in Seq(D)
        /\ Len(t) = IF gone + 1 <= Len(s) THEN Len(s) - (gone + 1) + 1 ELSE 0
        /\ \A i \in 1..(Len(s) - (gone + 1) + 1) : t[i] = s[gone + 1 + i - 1]
    BY <1>1, SubSeqProperties
  <2> HIDE DEF t
  <2> QED BY <1>1, <2>1
<1>3. u \in Seq(D) /\ Len(u) = (IF b THEN 1 ELSE 0) /\ (b => u[1] = w)
  OBVIOUS
<1> HIDE DEF t, u
<1>4. /\ r \in Seq(D) /\ Len(r) = Len(t) + Len(u)
      /\ \A i \in 1..(Len(t) + Len(u)) : r[i] = IF i <= Len(t) THEN t[i] ELSE u[i - Len(t)]
  BY <1>2, <1>3, ConcatProperties
<1> HIDE DEF r
<1>5. \A k \in 1..(Len(s) - gone) : r[k] = s[k + gone]
  BY <1>1, <1>2, <1>3, <1>4
<1>6. b => r[Len(s) - gone + 1] = w
  BY <1>1, <1>2, <1>3, <1>4
<1>7. r \in Seq(D) /\ Len(r) = Len(s) - gone + (IF b THEN 1 ELSE 0)
  BY <1>1, <1>2, <1>3, <1>4
<1> QED BY <1>5, <1>6, <1>7 DEF r, t, u

(* A clock edge keeps the words inside equal to the words owed: with full  *)
(* stores and a new word the oldest one moves on to dout, and the word it  *)
(* displaces is reported by overflow exactly when nobody takes it.         *)
LEMMA RxEdge ==
    ASSUME RxInv, NEW din_valid \in BOOLEAN, NEW dout_wait \in BOOLEAN, NEW din \in Word,
           Rx!Edge(din_valid, din, dout_wait)
    PROVE  RxInv'
<1> DEFINE read == Rx!read_now(din_valid, dout_wait)
           gone == Rx!Count(Rx!dout_valid(dout_wait)) + Rx!Count(overflow')
<1>1. /\ rx_wr_ptr' = IF din_valid THEN (rx_wr_ptr + 1) % 4 ELSE rx_wr_ptr
      /\ rx_store' = IF din_valid THEN [rx_store EXCEPT ![rx_wr_ptr % 2] = din] ELSE rx_store
      /\ rx_rd_ptr' = IF read THEN (rx_rd_ptr + 1) % 4 ELSE rx_rd_ptr
      /\ dout' = IF read THEN rx_store[rx_rd_ptr % 2] ELSE dout
      /\ dout_content_valid' = (read \/ (dout_content_valid /\ dout_wait))
      /\ overflow' = Rx!lost(din_valid, dout_wait)
      /\ rx_arst' = rx_arst /\ ~rx_arst
      /\ rx_owed' = SubSeq(rx_owed, gone + 1, Len(rx_owed))
                      \o (IF din_valid THEN <<din>> ELSE <<>>)
  BY DEF Rx!Edge, Rx!Inc, Rx!Low
<1>2. /\ Rx!TypeOK /\ RxStored \in 0..2 /\ (~dout_content_valid => RxStored <= 1)
      /\ Rx!Content = rx_owed
  BY DEF RxInv, Rx!TypeOK, RxStored
<1>3. /\ rx_wr_ptr \in 0..3 /\ rx_rd_ptr \in 0..3 /\ dout_content_valid \in BOOLEAN
      /\ rx_store \in [0..1 -> Word] /\ dout \in Word
      /\ dout_content_valid \in BOOLEAN /\ overflow \in BOOLEAN /\ rx_arst \in BOOLEAN
  BY <1>2 DEF Rx!TypeOK
<1>4. /\ read = ((RxStored > 0 /\ (~dout_content_valid \/ ~dout_wait))
                   \/ (din_valid /\ RxStored = 2))
      /\ overflow' = (din_valid /\ RxStored = 2 /\ dout_content_valid /\ dout_wait)
  <2>1. /\ (rx_wr_ptr = rx_rd_ptr) = (RxStored = 0)
        /\ (rx_wr_ptr = (rx_rd_ptr + 2) % 4) = (RxStored = 2)
    BY <1>3, PointerSteps DEF RxStored
  <2>2. RxStored > 0 <=> ~(RxStored = 0)
    BY <1>2
  <2> HIDE DEF RxStored
  <2> QED BY <1>1, <2>1, <2>2, Zenon
       DEF Rx!read_now, Rx!Wanted, Rx!empty, Rx!full, Rx!lost
<1> HIDE DEF read
<1>t. read \in BOOLEAN /\ overflow' \in BOOLEAN
  BY <1>4
<1>5. gone = (IF dout_content_valid /\ ~dout_wait THEN 1 ELSE 0) + (IF overflow' THEN 1 ELSE 0)
  BY DEF Rx!Count, Rx!dout_valid
<1> HIDE DEF gone
<1>6. Rx!TypeOK'
  <2>1. rx_store' \in [0..1 -> Word] /\ dout' \in Word
    BY <1>1, <1>3
  <2>2. rx_wr_ptr' \in 0..3 /\ rx_rd_ptr' \in 0..3
    BY <1>1, <1>3
  <2>3. {rx_arst', dout_content_valid', overflow'} \subseteq BOOLEAN
    BY <1>1, <1>3, <1>t
  <2> QED BY <2>1, <2>2, <2>3 DEF Rx!TypeOK
<1>7. RxStored' = RxStored + (IF din_valid THEN 1 ELSE 0) - (IF read THEN 1 ELSE 0)
  <2>1. /\ (((rx_wr_ptr + 1) % 4) + 4 - rx_rd_ptr) % 4 = (RxStored + 1) % 4
        /\ (rx_wr_ptr + 4 - ((rx_rd_ptr + 1) % 4)) % 4 = (RxStored + 3) % 4
        /\ (((rx_wr_ptr + 1) % 4) + 4 - ((rx_rd_ptr + 1) % 4)) % 4 = RxStored
    BY <1>3, PointerSteps DEF RxStored
  <2>2. RxStored' = (rx_wr_ptr' + 4 - rx_rd_ptr') % 4
    BY DEF RxStored
  <2>3. /\ din_valid /\ ~read => RxStored \in 0..1
        /\ read /\ ~din_valid => RxStored \in 1..2
    BY <1>2, <1>4
  <2>4. rx_wr_ptr + 4 - rx_rd_ptr \in Nat /\ RxStored = (rx_wr_ptr + 4 - rx_rd_ptr) % 4
    BY <1>3 DEF RxStored
  <2>5. /\ rx_wr_ptr' = IF din_valid THEN (rx_wr_ptr + 1) % 4 ELSE rx_wr_ptr
        /\ rx_rd_ptr' = IF read THEN (rx_rd_ptr + 1) % 4 ELSE rx_rd_ptr
    BY <1>1
  <2>6. CASE din_valid /\ read
    <3>1. rx_wr_ptr' = (rx_wr_ptr + 1) % 4 /\ rx_rd_ptr' = (rx_rd_ptr + 1) % 4
      BY <2>6, <2>5
    <3> QED BY <2>6, <3>1, <2>1, <2>2, <1>2, <1>3
  <2>7. CASE din_valid /\ ~read
    <3>1. rx_wr_ptr' = (rx_wr_ptr + 1) % 4 /\ rx_rd_ptr' = rx_rd_ptr
      BY <2>7, <2>5
    <3> QED BY <2>7, <3>1, <2>1, <2>2, <2>3
  <2>8. CASE ~din_valid /\ read
    <3>1. rx_wr_ptr' = rx_wr_ptr /\ rx_rd_ptr' = (rx_rd_ptr + 1) % 4
      BY <2>8, <2>5
    <3>2. RxStored' = (RxStored + 3) % 4
      BY <3>1, <2>1, <2>2, <1>3
    <3>3. RxStored = 1 \/ RxStored = 2
      BY <2>8, <2>3
    <3> QED BY <2>8, <3>2, <3>3
  <2>9. CASE ~din_valid /\ ~read
    BY <2>9, <2>2, <2>4, <2>5, <1>2
  <2> QED BY <2>6, <2>7, <2>8, <2>9, <1>t
<1>8. RxStored' <= 2 /\ (~dout_content_valid' => RxStored' <= 1)
  BY <1>7, <1>2, <1>1, <1>4, <1>3
<1>9. gone \in 0..RxInside /\ RxInside \in Nat
      /\ RxInside' = RxInside - gone + (IF din_valid THEN 1 ELSE 0)
  BY <1>2, <1>1, <1>4, <1>5, <1>7, <1>3 DEF RxInside
<1>10. /\ Rx!Content \in Seq(Word) /\ Len(Rx!Content) = RxInside
       /\ \A k \in 1..RxInside : Rx!Content[k] = RxWord(k)
  BY <1>2, RxContent
<1>11. /\ rx_owed' \in Seq(Word) /\ Len(rx_owed') = RxInside'
       /\ \A k \in 1..(RxInside - gone) : rx_owed'[k] = RxWord(k + gone)
       /\ din_valid => rx_owed'[RxInside - gone + 1] = din
  <2>1. LET r == SubSeq(rx_owed, gone + 1, Len(rx_owed)) \o (IF din_valid THEN <<din>> ELSE <<>>)
        IN /\ r \in Seq(Word)
           /\ Len(r) = Len(rx_owed) - gone + (IF din_valid THEN 1 ELSE 0)
           /\ \A k \in 1..(Len(rx_owed) - gone) : r[k] = rx_owed[k + gone]
           /\ din_valid => r[Len(rx_owed) - gone + 1] = din
    BY <1>2, <1>9, <1>10, WordsLeft
  <2>2. \A k \in 1..(RxInside - gone) : k + gone \in 1..RxInside
    BY <1>9
  <2> QED BY <2>1, <2>2, <1>1, <1>2, <1>9, <1>10
<1>12. \A k \in 1..RxInside' :
          RxWord(k)' = IF k <= RxInside - gone THEN RxWord(k + gone) ELSE din
  <2> SUFFICES ASSUME NEW k \in 1..RxInside'
               PROVE  RxWord(k)' = IF k <= RxInside - gone THEN RxWord(k + gone) ELSE din
    OBVIOUS
  <2>1. k \in {1, 2, 3}
    BY <1>9, <1>8, <1>7, <1>2 DEF RxInside
  <2> DEFINE a == (rx_rd_ptr) % 2
             b == (rx_rd_ptr + 1) % 2
  <2>2. CASE RxStored = 0
    BY <2>1, <2>2, <1>1, <1>2, <1>3, <1>4, <1>5, <1>7 DEF RxInside, RxWord, RxStored
  <2>3. CASE RxStored = 1
    BY <2>1, <2>3, <1>1, <1>2, <1>3, <1>4, <1>5, <1>7 DEF RxInside, RxWord, RxStored
  <2>4. CASE RxStored = 2
    BY <2>1, <2>4, <1>1, <1>2, <1>3, <1>4, <1>5, <1>7 DEF RxInside, RxWord, RxStored
  <2> QED BY <2>2, <2>3, <2>4, <1>2
<1>13. /\ Rx!Content' \in Seq(Word) /\ Len(Rx!Content') = RxInside'
       /\ \A k \in 1..RxInside' : Rx!Content'[k] = RxWord(k)'
  <2>1. (Rx!TypeOK /\ RxStored <= 2
           => /\ Rx!Content \in Seq(Word) /\ Len(Rx!Content) = RxInside
              /\ \A k \in 1..RxInside : Rx!Content[k] = RxWord(k))'
    BY RxContent, PTL
  <2> QED BY <2>1, <1>6, <1>8
<1>14. Rx!Content' = rx_owed'
  <2>1. \A k \in 1..RxInside' : Rx!Content'[k] = rx_owed'[k]
    BY <1>9, <1>11, <1>12, <1>13
  <2> QED BY <2>1, <1>11, <1>13, SeqEqual
<1> QED BY <1>6, <1>8, <1>14 DEF RxInv

(* In reset the buffer is empty and owes nothing.                          *)
LEMMA RxInit == Rx!Init => RxInv
<1> SUFFICES ASSUME Rx!Init PROVE RxInv
  OBVIOUS
<1>1. Rx!TypeOK
  BY WordAssumption DEF Rx!Init, Rx!TypeOK
<1>2. RxStored = 0 /\ ~dout_content_valid /\ rx_owed = <<>>
  BY DEF Rx!Init, RxStored
<1>3. Rx!Content = <<>>
  <2>1. Rx!Content \in Seq(Word) /\ Len(Rx!Content) = 0
    BY <1>1, <1>2, RxContent DEF RxInside
  <2> QED BY <2>1, EmptySeq
<1> QED BY <1>1, <1>2, <1>3 DEF RxInv

(* Every step of the receive buffer keeps RxInv.                           *)
LEMMA RxInvNext == RxInv /\ [Rx!Next]_rxVars => RxInv'
<1> SUFFICES ASSUME RxInv, [Rx!Next]_rxVars PROVE RxInv'
  OBVIOUS
<1>1. CASE Rx!AssertArst
  <2>1. (Rx!Init => RxInv)'
    BY RxInit, PTL
  <2>2. Rx!Init'
    BY <1>1 DEF Rx!AssertArst, Rx!Init
  <2> QED BY <2>1, <2>2
<1>2. CASE Rx!ReleaseArst
  <2>1. /\ rx_wr_ptr' = rx_wr_ptr /\ rx_rd_ptr' = rx_rd_ptr /\ rx_store' = rx_store
        /\ dout' = dout /\ dout_content_valid' = dout_content_valid
        /\ overflow' = overflow /\ rx_owed' = rx_owed /\ rx_arst' \in BOOLEAN
    BY <1>2 DEF Rx!ReleaseArst
  <2> QED BY <2>1 DEF RxInv, Rx!TypeOK, RxStored, Rx!Content, Rx!Stored, Rx!Low
<1>3. CASE \E din_valid, dout_wait \in BOOLEAN, din \in Word : Rx!Edge(din_valid, din, dout_wait)
  BY <1>3, RxEdge
<1>4. CASE UNCHANGED rxVars
  BY <1>4 DEF rxVars, RxInv, Rx!TypeOK, RxStored, Rx!Content, Rx!Stored, Rx!Low
<1> QED BY <1>1, <1>2, <1>3, <1>4 DEF Rx!Next

(* RxInv contains what the run checks.                                     *)
LEMMA RxInvGives == RxInv => LossIffOverflow
<1> SUFFICES ASSUME RxInv PROVE LossIffOverflow
  OBVIOUS
<1>1. Rx!TypeOK /\ RxStored <= 2 /\ Rx!LossIffOverflow
  BY DEF RxInv, Rx!LossIffOverflow
<1>2. Rx!OutputFirst
  BY <1>1, RxContent DEF RxInv, Rx!OutputFirst
<1> QED BY <1>1, <1>2 DEF LossIffOverflow
------------------------------------------------------------------------------

(* The four bit pointers of the transmit buffer: the words between them    *)
(* after an edge that writes, reads or does both.                          *)
LEMMA TxPointers ==
    ASSUME NEW w \in 0..15, NEW r \in 0..15
    PROVE  LET n == (w - r) % 16 IN
           /\ n \in 0..15
           /\ (((w + 1) % 16) - r) % 16 = IF n = 15 THEN 0 ELSE n + 1
           /\ (w - ((r + 1) % 16)) % 16 = IF n = 0 THEN 15 ELSE n - 1
           /\ (((w + 1) % 16) - ((r + 1) % 16)) % 16 = n
           /\ w % 8 = (r + n) % 8
<1>1. (w - r) % 16 = IF r <= w THEN w - r ELSE w - r + 16
  OBVIOUS
<1>2. (w + 1) % 16 = IF w = 15 THEN 0 ELSE w + 1
  OBVIOUS
<1>3. (r + 1) % 16 = IF r = 15 THEN 0 ELSE r + 1
  OBVIOUS
<1>4. \A a, b \in 0..15 : (a - b) % 16 = IF b <= a THEN a - b ELSE a - b + 16
  OBVIOUS
<1> QED BY <1>1, <1>2, <1>3, <1>4

(* Eight slots behind sixteen pointer values: words at different places    *)
(* are in different slots, and a read leaves the later ones where they are. *)
LEMMA TxSlots ==
    ASSUME NEW r \in 0..15, NEW n \in 0..7, NEW j \in 0..7
    PROVE  /\ j < n => (r + j) % 8 # (r + n) % 8
           /\ (((r + 1) % 16) + j) % 8 = (r + j + 1) % 8
           /\ (r + j) % 8 \in 0..7
  OBVIOUS

(* The transmit buffer: its invariants together are inductive.             *)
TxInv == Tx!TypeOK /\ Tx!ReadyHasRoom /\ Tx!AnswerOrUnderflow

(* In reset nothing is stored, asked or due.                               *)
LEMMA TxInit == Tx!Init => TxInv
<1> SUFFICES ASSUME Tx!Init PROVE TxInv
  OBVIOUS
<1>1. Tx!words_used = 0
  BY DEF Tx!Init, Tx!words_used
<1>2. Tx!TypeOK
  <2>1. store \in [Tx!Slots -> Word] /\ {rdmux, last_dout, tx_offered} \subseteq Word
    BY WordAssumption DEF Tx!Init
  <2>2. {tx_arst, last_read_now, din_ready, hungry, underflow} \subseteq BOOLEAN
    BY DEF Tx!Init
  <2>3. {wr_ptr, rd_ptr} \subseteq Tx!Pointer
    BY DEF Tx!Init, Tx!Pointer
  <2> QED BY <2>1, <2>2, <2>3 DEF Tx!TypeOK
<1>3. Tx!ReadyHasRoom
  BY <1>1 DEF Tx!Init, Tx!ReadyHasRoom, Tx!full
<1>4. Tx!AnswerOrUnderflow
  BY DEF Tx!Init, Tx!AnswerOrUnderflow
<1> QED BY <1>2, <1>3, <1>4 DEF TxInv

(* What an edge does to the pointers, the count and the stores. *)
LEMMA TxMoves ==
    ASSUME TxInv, NEW din_valid \in BOOLEAN, NEW dout_ready \in BOOLEAN, NEW din \in Word,
           Tx!Edge(din_valid, din, dout_ready)
    PROVE  /\ Tx!words_used \in 0..8 /\ wr_ptr % 8 = (rd_ptr + Tx!words_used) % 8
           /\ wr_ptr' \in 0..15 /\ rd_ptr' \in 0..15
           /\ Tx!read_now(din_valid, dout_ready) <=> (dout_ready /\ Tx!words_used > 0)
           /\ Tx!write_now(din_valid) => Tx!words_used <= 7
           /\ Tx!words_used' = Tx!words_used
                + (IF Tx!write_now(din_valid) THEN 1 ELSE 0)
                - (IF Tx!read_now(din_valid, dout_ready) THEN 1 ELSE 0)
<1> DEFINE write == Tx!write_now(din_valid)
           read == Tx!read_now(din_valid, dout_ready)
           n == (wr_ptr - rd_ptr) % 16
<1>1. wr_ptr \in 0..15 /\ rd_ptr \in 0..15
  BY DEF TxInv, Tx!TypeOK, Tx!Pointer
<1>2. /\ n \in 0..15
      /\ (((wr_ptr + 1) % 16) - rd_ptr) % 16 = IF n = 15 THEN 0 ELSE n + 1
      /\ (wr_ptr - ((rd_ptr + 1) % 16)) % 16 = IF n = 0 THEN 15 ELSE n - 1
      /\ (((wr_ptr + 1) % 16) - ((rd_ptr + 1) % 16)) % 16 = n
      /\ wr_ptr % 8 = (rd_ptr + n) % 8
  BY <1>1, TxPointers
<1>3. Tx!words_used = n /\ Tx!words_used' = (wr_ptr' - rd_ptr') % 16
  BY DEF Tx!words_used
<1> HIDE DEF n
<1>4. n <= 8 /\ (write => n <= 7)
  BY <1>2, <1>3 DEF TxInv, Tx!ReadyHasRoom, Tx!full, Tx!write_now
<1>5. read <=> (dout_ready /\ n > 0)
  <2>1. Tx!full <=> n = 8
    BY <1>3 DEF Tx!full
  <2>2. ~Tx!empty <=> n > 0
    BY <1>2, <1>3 DEF Tx!empty
  <2>3. ~(write /\ Tx!full)
    BY <1>4, <2>1
  <2> QED BY <2>2, <2>3 DEF Tx!read_now
<1>6. /\ wr_ptr' = IF write THEN (wr_ptr + 1) % 16 ELSE wr_ptr
      /\ rd_ptr' = IF read THEN (rd_ptr + 1) % 16 ELSE rd_ptr
  BY DEF Tx!Edge, Tx!Inc
<1> HIDE DEF write, read
<1>7. wr_ptr' \in 0..15 /\ rd_ptr' \in 0..15
  BY <1>1, <1>6
<1>8. (wr_ptr' - rd_ptr') % 16 = n + (IF write THEN 1 ELSE 0) - (IF read THEN 1 ELSE 0)
  <2>1. CASE write /\ read
    BY <2>1, <1>2, <1>6, <1>1
  <2>2. CASE write /\ ~read
    BY <2>2, <1>2, <1>4, <1>6, <1>1
  <2>3. CASE ~write /\ read
    <3>1. n # 0
      BY <2>3, <1>5, <1>2
    <3> QED BY <2>3, <3>1, <1>2, <1>6, <1>1
  <2>4. CASE ~write /\ ~read
    BY <2>4, <1>6, <1>1, <1>2 DEF n
  <2> QED BY <2>1, <2>2, <2>3, <2>4
<1>9. n \in 0..8
  BY <1>2, <1>4
<1> QED BY <1>2, <1>3, <1>4, <1>5, <1>7, <1>8, <1>9 DEF write, read

(* A clock edge: din_ready was decided an edge ago, with a word to spare    *)
(* for the write that it may still admit, and the answer comes one edge    *)
(* after the request, or the underflow flag.                               *)
LEMMA TxEdge ==
    ASSUME TxInv, NEW din_valid \in BOOLEAN, NEW dout_ready \in BOOLEAN, NEW din \in Word,
           Tx!Edge(din_valid, din, dout_ready)
    PROVE  TxInv'
<1> DEFINE n == Tx!words_used
           write == Tx!write_now(din_valid)
           read == Tx!read_now(din_valid, dout_ready)
<1>1. /\ n \in 0..8 /\ wr_ptr' \in 0..15 /\ rd_ptr' \in 0..15
      /\ (read <=> (dout_ready /\ n > 0)) /\ (write => n <= 7)
      /\ n' = n + (IF write THEN 1 ELSE 0) - (IF read THEN 1 ELSE 0)
  BY TxMoves
<1>2. /\ (~Tx!empty <=> n > 0) /\ (Tx!empty <=> n = 0)
      /\ (Tx!few_words <=> n < 4) /\ (Tx!almost_full <=> n >= 7)
      /\ Tx!full' <=> n' = 8
  BY <1>1 DEF Tx!empty, Tx!few_words, Tx!almost_full, Tx!full
<1>3. /\ din_ready' <=> ~Tx!almost_full
      /\ hungry' <=> Tx!few_words
      /\ underflow' <=> (dout_ready /\ Tx!empty)
      /\ last_read_now' <=> read
  BY DEF Tx!Edge, Tx!starved
<1>t. wr_ptr \in 0..15 /\ rd_ptr \in 0..15 /\ store \in [0..7 -> Word] /\ Tx!TypeOK
  BY DEF TxInv, Tx!TypeOK, Tx!Pointer, Tx!Slots
<1>d. Tx!dout \in Word
  BY <1>t DEF Tx!TypeOK, Tx!dout
<1>4. Tx!ReadyHasRoom'
  <2>1. n' <= 8 /\ (n <= 6 => n' <= 7) /\ (n < 4 => n' <= 4 /\ n <= 6)
    <3> HIDE DEF n, read, write
    <3> QED BY <1>1
  <2>2. din_ready' => ~Tx!full'
    BY <1>1, <1>2, <1>3, <2>1
  <2>3. hungry' => n' <= 4 /\ din_ready'
    BY <1>1, <1>2, <1>3, <2>1
  <2> QED BY <2>1, <2>2, <2>3 DEF Tx!ReadyHasRoom
<1>5. Tx!AnswerOrUnderflow'
  <2> SUFFICES ASSUME asked'
               PROVE  due' = IF underflow' THEN <<>> ELSE <<Tx!dout'>>
    BY DEF Tx!AnswerOrUnderflow
  <2>1. /\ asked' = dout_ready
        /\ due' = IF Tx!empty THEN <<>> ELSE <<store[Tx!Slot(rd_ptr)]>>
        /\ rdmux' = store[Tx!Slot(rd_ptr)]
        /\ Tx!dout' = IF last_read_now' THEN rdmux' ELSE last_dout'
    BY DEF Tx!Edge, Tx!dout
  <2>2. CASE Tx!empty
    BY <2>1, <2>2, <1>3
  <2>3. CASE ~Tx!empty
    <3>1. last_read_now' /\ ~underflow'
      BY <2>1, <2>3, <1>1, <1>2, <1>3
    <3> QED BY <2>1, <2>3, <3>1
  <2> QED BY <2>2, <2>3
<1>6. Tx!TypeOK'
  <2>1. {wr_ptr', rd_ptr'} \subseteq Tx!Pointer
    BY <1>1 DEF Tx!Pointer
  <2>2. store' \in [Tx!Slots -> Word]
    BY <1>t DEF Tx!Edge, Tx!Slots
  <2>3. {rdmux', last_dout'} \subseteq Word
    <3>1. rd_ptr % 8 \in 0..7
      BY <1>t
    <3> QED BY <3>1, <1>t, <1>d DEF Tx!Edge, Tx!Slot, Tx!TypeOK
  <2>4. {tx_arst', last_read_now', din_ready', hungry', underflow'} \subseteq BOOLEAN
    BY <1>t DEF Tx!Edge, Tx!TypeOK, Tx!starved, Tx!read_now, Tx!few_words, Tx!almost_full, Tx!write_now
  <2>5. tx_offered' \in Word
    BY <1>t DEF Tx!Edge, Tx!TypeOK
  <2> QED BY <2>1, <2>2, <2>3, <2>4, <2>5 DEF Tx!TypeOK
<1> QED BY <1>4, <1>5, <1>6 DEF TxInv

(* Every step of the transmit buffer keeps TxInv.                          *)
LEMMA TxInvNext == TxInv /\ [Tx!Next]_txVars => TxInv'
<1> SUFFICES ASSUME TxInv, [Tx!Next]_txVars PROVE TxInv'
  OBVIOUS
<1>1. CASE Tx!AssertArst
  <2>1. Tx!words_used' = 0
    BY <1>1 DEF Tx!AssertArst, Tx!words_used
  <2>2. Tx!TypeOK'
    <3>1. store' \in [Tx!Slots -> Word] /\ {rdmux', last_dout', tx_offered'} \subseteq Word
      BY <1>1, WordAssumption DEF Tx!AssertArst
    <3>2. {tx_arst', last_read_now', din_ready', hungry', underflow'} \subseteq BOOLEAN
      BY <1>1 DEF Tx!AssertArst
    <3>3. {wr_ptr', rd_ptr'} \subseteq Tx!Pointer
      BY <1>1 DEF Tx!AssertArst, Tx!Pointer
    <3> QED BY <3>1, <3>2, <3>3 DEF Tx!TypeOK
  <2>3. Tx!ReadyHasRoom'
    BY <1>1, <2>1 DEF Tx!AssertArst, Tx!ReadyHasRoom, Tx!full
  <2>4. Tx!AnswerOrUnderflow'
    BY <1>1 DEF Tx!AssertArst, Tx!AnswerOrUnderflow
  <2> QED BY <2>2, <2>3, <2>4 DEF TxInv
<1>2. CASE Tx!ReleaseArst
  BY <1>2 DEF Tx!ReleaseArst, Tx!regs, Tx!hist, TxInv, Tx!TypeOK, Tx!ReadyHasRoom,
              Tx!AnswerOrUnderflow, Tx!words_used, Tx!full, Tx!dout
<1>3. CASE \E din_valid, dout_ready \in BOOLEAN, din \in Word :
              Tx!Edge(din_valid, din, dout_ready)
  BY <1>3, TxEdge
<1>4. CASE UNCHANGED txVars
  BY <1>4 DEF txVars, TxInv, Tx!TypeOK, Tx!ReadyHasRoom,
              Tx!AnswerOrUnderflow, Tx!words_used, Tx!full, Tx!dout
<1> QED BY <1>1, <1>2, <1>3, <1>4 DEF Tx!Next

(***************************************************************************)
(* The words in the transmit buffer, oldest first.                         *)
(***************************************************************************)
TxWords == [i \in 1..Tx!words_used |-> store[Tx!Slot(rd_ptr + i - 1)]]

(* They are a queue, read out of the slots behind the read pointer.        *)
LEMMA TxWordsType ==
    ASSUME TxInv
    PROVE  /\ Tx!words_used \in Nat
           /\ TxWords \in [1..Tx!words_used -> Word]
           /\ \A i \in 1..Tx!words_used : TxWords[i] = store[(rd_ptr + i - 1) % 8]
<1>1. wr_ptr \in 0..15 /\ rd_ptr \in 0..15 /\ store \in [0..7 -> Word]
  BY DEF TxInv, Tx!TypeOK, Tx!Pointer, Tx!Slots
<1>2. Tx!words_used \in Nat
  BY <1>1 DEF Tx!words_used
<1>3. \A i \in 1..Tx!words_used : store[(rd_ptr + i - 1) % 8] \in Word
  BY <1>1, <1>2
<1> QED BY <1>2, <1>3 DEF TxWords, Tx!Slot

(* The transmit buffer starts as an empty queue,                           *)
LEMMA TxQueueInit == Tx!Init => Tx!Queue!Init
BY DEF Tx!Queue!Init, Tx!Init, Tx!words_used

(* an edge takes its oldest word, adds a newest one, or both,              *)
LEMMA TxQueueEdge ==
    ASSUME TxInv, TxInv', NEW din_valid \in BOOLEAN, NEW dout_ready \in BOOLEAN, NEW din \in Word,
           Tx!Edge(din_valid, din, dout_ready)
    PROVE  [Tx!Queue!Next]_<<TxWords, Tx!dout>>
<1> DEFINE n == Tx!words_used
           write == Tx!write_now(din_valid)
           read == Tx!read_now(din_valid, dout_ready)
<1>1. /\ n \in 0..8 /\ wr_ptr % 8 = (rd_ptr + n) % 8
      /\ (read <=> (dout_ready /\ n > 0)) /\ (write => n <= 7)
      /\ n' = n + (IF write THEN 1 ELSE 0) - (IF read THEN 1 ELSE 0)
  BY TxMoves
<1>2. wr_ptr \in 0..15 /\ rd_ptr \in 0..15 /\ store \in [0..7 -> Word] /\ Tx!dout \in Word
  BY DEF TxInv, Tx!TypeOK, Tx!Pointer, Tx!Slots, Tx!dout
<1>3. /\ TxWords \in [1..n -> Word]
      /\ \A i \in 1..n : TxWords[i] = store[(rd_ptr + i - 1) % 8]
  BY TxWordsType
<1>4. /\ store' = IF write THEN [store EXCEPT ![wr_ptr % 8] = din] ELSE store
      /\ rd_ptr' = IF read THEN (rd_ptr + 1) % 16 ELSE rd_ptr
      /\ Tx!dout' = IF read THEN store[rd_ptr % 8] ELSE Tx!dout
      /\ write => tx_offered' = din
  BY DEF Tx!Edge, Tx!Slot, Tx!Inc, Tx!dout, Tx!write_now
<1>5. /\ n' \in Nat /\ TxWords' \in [1..n' -> Word]
      /\ \A i \in 1..n' : TxWords'[i] = store'[(rd_ptr' + i - 1) % 8]
  <2>1. (TxInv => /\ Tx!words_used \in Nat
                  /\ TxWords \in [1..Tx!words_used -> Word]
                  /\ \A i \in 1..Tx!words_used : TxWords[i] = store[(rd_ptr + i - 1) % 8])'
    BY TxWordsType, PTL
  <2> QED BY <2>1
<1> HIDE DEF n, write, read
<1>6. (* the words that stay keep their places, the new one comes behind them *)
      /\ \A i \in 1..n : store'[(rd_ptr + i - 1) % 8] = TxWords[i]
      /\ write => store'[(rd_ptr + n) % 8] = din
  <2>1. ASSUME write, NEW i \in 1..n PROVE store'[(rd_ptr + i - 1) % 8] = TxWords[i]
    <3>1. i - 1 \in 0..7 /\ n \in 0..7 /\ i - 1 < n
      BY <1>1, <2>1
    <3>2. (rd_ptr + (i - 1)) % 8 # (rd_ptr + n) % 8 /\ (rd_ptr + (i - 1)) % 8 \in 0..7
      BY <3>1, <1>2, TxSlots
    <3>3. rd_ptr + (i - 1) = rd_ptr + i - 1
      BY <1>2
    <3> QED BY <3>2, <3>3, <1>1, <1>2, <1>3, <1>4, <2>1
  <2>2. CASE ~write
    BY <2>2, <1>3, <1>4
  <2>3. write => store'[(rd_ptr + n) % 8] = din
    BY <1>1, <1>2, <1>4
  <2> QED BY <2>1, <2>2, <2>3
<1>7. (* after a read every word is one place nearer to the output *)
      read => /\ n \in 1..8 /\ TxWords[1] = store[rd_ptr % 8]
              /\ \A i \in 1..n : (rd_ptr' + i - 1) % 8 = (rd_ptr + i) % 8
  <2> SUFFICES ASSUME read
               PROVE  /\ n \in 1..8 /\ TxWords[1] = store[rd_ptr % 8]
                      /\ \A i \in 1..n : (rd_ptr' + i - 1) % 8 = (rd_ptr + i) % 8
    OBVIOUS
  <2>1. n \in 1..8
    BY <1>1
  <2>2. TxWords[1] = store[rd_ptr % 8]
    <3>1. rd_ptr + 1 - 1 = rd_ptr
      BY <1>2
    <3> QED BY <2>1, <1>3, <3>1
  <2>3. ASSUME NEW i \in 1..n PROVE (rd_ptr' + i - 1) % 8 = (rd_ptr + i) % 8
    <3>1. i - 1 \in 0..7
      BY <2>1
    <3>2. (((rd_ptr + 1) % 16) + (i - 1)) % 8 = (rd_ptr + (i - 1) + 1) % 8
      BY <3>1, <1>2, TxSlots
    <3>3. rd_ptr' = (rd_ptr + 1) % 16
      BY <1>4
    <3> QED BY <3>2, <3>3, <1>2
  <2> QED BY <2>1, <2>2, <2>3
<1>8. /\ Tx!Queue!Push = /\ Len(TxWords) < 8 /\ tx_offered' \in Word
                         /\ TxWords' = Append(TxWords, tx_offered')
                         /\ Tx!dout' = Tx!dout
      /\ Tx!Queue!PushPop = /\ TxWords # <<>> /\ Len(TxWords) < 8 /\ tx_offered' \in Word
                            /\ Tx!dout' = Head(TxWords)
                            /\ TxWords' = Append(Tail(TxWords), tx_offered')
      /\ Tx!Queue!Pop = /\ TxWords # <<>> /\ Tx!dout' = Head(TxWords)
                        /\ TxWords' = Tail(TxWords)
  BY DEF Tx!Queue!Push, Tx!Queue!Pop, Tx!Queue!PushPop, TxWords
<1>9. CASE write /\ read
  <2>1. n \in 1..7 /\ n \in Nat \ {0} /\ n' = n /\ tx_offered' = din /\ Tx!dout' = TxWords[1]
    BY <1>1, <1>4, <1>7, <1>9
  <2>2. \A i \in 1..(n - 1) : TxWords'[i] = TxWords[i + 1]
    <3> SUFFICES ASSUME NEW i \in 1..(n - 1) PROVE TxWords'[i] = TxWords[i + 1]
      OBVIOUS
    <3>1. i \in 1..n /\ i + 1 \in 1..n /\ rd_ptr + (i + 1) - 1 = rd_ptr + i
      BY <2>1, <1>2
    <3>2. TxWords'[i] = store'[(rd_ptr + i) % 8]
      BY <3>1, <2>1, <1>5, <1>7, <1>9
    <3>3. store'[(rd_ptr + (i + 1) - 1) % 8] = TxWords[i + 1]
      BY <3>1, <1>6
    <3> QED BY <3>1, <3>2, <3>3
  <2>3. TxWords'[n] = din
    BY <2>1, <1>5, <1>6, <1>7, <1>9
  <2>4. TxWords' \in [1..n -> Word]
    BY <2>1, <1>5
  <2>5. /\ TxWords # <<>> /\ Len(TxWords) = n /\ Head(TxWords) = TxWords[1]
        /\ TxWords' = Append(Tail(TxWords), din)
    BY <2>1, <2>2, <2>3, <2>4, <1>3, QueuePushPop
  <2>6. Tx!Queue!PushPop
    BY <2>1, <2>5, <1>8
  <2> QED BY <2>6 DEF Tx!Queue!Next
<1>10. CASE write /\ ~read
  <2>1. n \in 0..7 /\ n \in Nat /\ n' = n + 1 /\ tx_offered' = din /\ Tx!dout' = Tx!dout /\ rd_ptr' = rd_ptr
    BY <1>1, <1>4, <1>10
  <2>2. \A i \in 1..n : TxWords'[i] = TxWords[i]
    BY <2>1, <1>5, <1>6, <1>10
  <2>3. TxWords'[n + 1] = din
    <3>1. n + 1 \in 1..n' /\ rd_ptr + (n + 1) - 1 = rd_ptr + n
      BY <2>1, <1>2
    <3> QED BY <3>1, <2>1, <1>5, <1>6, <1>10
  <2>4. TxWords' \in [1..(n + 1) -> Word]
    BY <2>1, <1>5
  <2>5. Len(TxWords) = n /\ TxWords' = Append(TxWords, din)
    BY <2>1, <2>2, <2>3, <2>4, <1>3, QueuePush
  <2>6. Tx!Queue!Push
    BY <2>1, <2>5, <1>8
  <2> QED BY <2>6 DEF Tx!Queue!Next
<1>11. CASE ~write /\ read
  <2>1. n \in 1..8 /\ n \in Nat \ {0} /\ n' = n - 1 /\ Tx!dout' = TxWords[1]
    BY <1>1, <1>4, <1>7, <1>11
  <2>2. \A i \in 1..(n - 1) : TxWords'[i] = TxWords[i + 1]
    <3> SUFFICES ASSUME NEW i \in 1..(n - 1) PROVE TxWords'[i] = TxWords[i + 1]
      OBVIOUS
    <3>1. i \in 1..n /\ i + 1 \in 1..n /\ rd_ptr + (i + 1) - 1 = rd_ptr + i
      BY <2>1, <1>2
    <3>2. TxWords'[i] = store'[(rd_ptr + i) % 8]
      BY <3>1, <2>1, <1>5, <1>7, <1>11
    <3>3. store'[(rd_ptr + (i + 1) - 1) % 8] = TxWords[i + 1]
      BY <3>1, <1>6
    <3> QED BY <3>1, <3>2, <3>3
  <2>3. TxWords' \in [1..(n - 1) -> Word]
    BY <2>1, <1>5
  <2>4. TxWords # <<>> /\ Head(TxWords) = TxWords[1] /\ TxWords' = Tail(TxWords)
    BY <2>1, <2>2, <2>3, <1>3, QueuePop
  <2>5. Tx!Queue!Pop
    BY <2>1, <2>4, <1>8
  <2> QED BY <2>5 DEF Tx!Queue!Next
<1>12. CASE ~write /\ ~read
  <2>1. Tx!words_used' = Tx!words_used /\ store' = store /\ rd_ptr' = rd_ptr /\ Tx!dout' = Tx!dout
    BY <1>1, <1>4, <1>12 DEF n
  <2> QED BY <2>1 DEF TxWords
<1> QED BY <1>9, <1>10, <1>11, <1>12

(* and only a reset discards words.                                        *)
LEMMA TxQueueNext ==
    TxInv /\ TxInv' /\ [Tx!Next]_txVars => [Tx!Queue!Next]_<<TxWords, Tx!dout>>
<1> SUFFICES ASSUME TxInv, TxInv', [Tx!Next]_txVars
             PROVE  [Tx!Queue!Next]_<<TxWords, Tx!dout>>
  OBVIOUS
<1>1. CASE Tx!AssertArst
  <2>1. tx_arst' /\ Tx!words_used' = 0
    BY <1>1 DEF Tx!AssertArst, Tx!words_used
  <2>2. TxWords' = <<>>
    BY <2>1 DEF TxWords
  <2> QED BY <2>1, <2>2 DEF Tx!Queue!Next, Tx!Queue!Discard, TxWords
<1>2. CASE Tx!ReleaseArst
  BY <1>2 DEF Tx!ReleaseArst, Tx!regs, Tx!hist, TxWords, Tx!words_used, Tx!dout
<1>3. CASE \E din_valid, dout_ready \in BOOLEAN, din \in Word :
              Tx!Edge(din_valid, din, dout_ready)
  BY <1>3, TxQueueEdge
<1>4. CASE UNCHANGED txVars
  BY <1>4 DEF txVars, TxWords, Tx!words_used, Tx!dout
<1> QED BY <1>1, <1>2, <1>3, <1>4 DEF Tx!Next

(* So TxInv holds at all times,                                            *)
LEMMA TxInvCorrect == Tx!Init /\ [][Tx!Next]_txVars => []TxInv
BY TxInit, TxInvNext, PTL

(* and the transmit buffer is a queue of eight words.                      *)
LEMMA TxQueue == Tx!Init /\ [][Tx!Next]_txVars => Tx!RefinesQueue
BY TxInvCorrect, TxQueueInit, TxQueueNext, PTL DEF Tx!RefinesQueue, Tx!Queue!Spec, Tx!Queue!vars, TxWords
------------------------------------------------------------------------------
StrobeInv == /\ Strobe!TypeOK
             /\ owed + Strobe!Torn >= Strobe!Pending
             /\ paced => owed + Strobe!Torn = Strobe!Pending
             /\ torn => Strobe!strb2
             /\ seen => gc = gc_b[0]

(* A step of the counter changes one of its bits, so that whatever a flop  *)
(* samples during the step is the old or the new value.                    *)
LEMMA StrobeSampled ==
    ASSUME NEW g \in Strobe!Gray
    PROVE  /\ Strobe!Inc(g) \in Strobe!Gray /\ Strobe!Inc(g) # g
           /\ \A h \in Strobe!Sampled(g, Strobe!Inc(g)) : h \in {g, Strobe!Inc(g)}
           /\ \A h \in Strobe!Sampled(g, g) : h = g
<1> DEFINE n == Strobe!Inc(g)
<1>1. g[0] \in {0, 1} /\ g[1] \in {0, 1}
  BY DEF Strobe!Gray, Strobe!Bits
<1>2. n \in Strobe!Gray /\ n[0] = 1 - g[1] /\ n[1] = g[0]
  BY <1>1 DEF Strobe!Gray, Strobe!Bits, Strobe!Inc
<1> HIDE DEF n
<1>3. \A a, b \in Strobe!Gray : a[0] = b[0] /\ a[1] = b[1] => a = b
  BY DEF Strobe!Gray, Strobe!Bits
<1>4. n # g
  BY <1>1, <1>2
<1>5. ASSUME NEW h \in Strobe!Sampled(g, n) PROVE h \in {g, n}
  <2>1. h \in Strobe!Gray /\ h[0] \in {g[0], n[0]} /\ h[1] \in {g[1], n[1]}
    BY <1>5 DEF Strobe!Sampled, Strobe!Bits
  <2>2. CASE g[0] = g[1]
    <3>1. n[1] = g[1] /\ h[1] = g[1]
      BY <2>1, <2>2, <1>2
    <3> QED BY <3>1, <2>1, <1>2, <1>3
  <2>3. CASE g[0] # g[1]
    <3>1. n[0] = g[0] /\ h[0] = g[0]
      BY <2>1, <2>3, <1>1, <1>2
    <3> QED BY <3>1, <2>1, <1>2, <1>3
  <2> QED BY <2>2, <2>3
<1>6. ASSUME NEW h \in Strobe!Sampled(g, g) PROVE h = g
  BY <1>3, <1>6 DEF Strobe!Sampled, Strobe!Bits
<1> QED BY <1>2, <1>4, <1>5, <1>6 DEF n

(* Both clock domains start with equal counters and nothing owed.          *)
LEMMA StrobeInit == Strobe!Init => StrobeInv
<1> SUFFICES ASSUME Strobe!Init PROVE StrobeInv
  OBVIOUS
<1>1. gc \in Strobe!Gray /\ gc_b \in [0..1 -> Strobe!Gray] /\ gc_b[0] = gc /\ gc_b[1] = gc
  BY DEF Strobe!Init, Strobe!Gray, Strobe!Bits
<1>2. Strobe!TypeOK
  <2>1. {strobe_arst, strb1_b, paced, seen, torn} \subseteq BOOLEAN
    BY DEF Strobe!Init
  <2>2. owed \in 0..MaxOwed
    BY BuffersAssumption DEF Strobe!Init
  <2> QED BY <1>1, <2>1, <2>2 DEF Strobe!TypeOK
<1> QED BY <1>1, <1>2 DEF Strobe!Init, StrobeInv, Strobe!Pending, Strobe!Taken, Strobe!Torn, Strobe!strb2

(* A clk1 edge counts an event in the gray counter. *)
LEMMA StrobeClk1 ==
    ASSUME StrobeInv, ~StrobeInReset, NEW r \in Strobe!Sender, Strobe!Clk1(r.nrst1, r.strb1)
    PROVE  LET e == Strobe!Event(r.nrst1, r.strb1) IN
           /\ e \in BOOLEAN /\ strb1_b' \in BOOLEAN
           /\ gc' = IF e THEN Strobe!Inc(gc) ELSE gc
           /\ gc' \in Strobe!Gray /\ (e => gc' # gc)
           /\ \A h \in Strobe!Sampled(gc, gc') : h \in {gc, gc'}
           /\ e => owed < MaxOwed
<1> DEFINE e == Strobe!Event(r.nrst1, r.strb1)
<1>1. /\ r.nrst1 \in BOOLEAN /\ r.strb1 \in BOOLEAN
      /\ r.strb1 => r.nrst1
      /\ e => owed < MaxOwed
  BY DEF Strobe!Sender
<1>2. strobe_arst \in BOOLEAN /\ strb1_b \in BOOLEAN /\ gc \in Strobe!Gray
  BY DEF StrobeInv, Strobe!TypeOK
<1>3. e <=> (~strobe_arst /\ Strobe!strb1_ed(r.strb1))
  BY <1>1, <1>2 DEF Strobe!Event, Strobe!strb1_ed
<1>4. e \in BOOLEAN /\ strb1_b' \in BOOLEAN
  BY <1>1, <1>2 DEF Strobe!Event, Strobe!Clk1
<1>5. gc' = IF e THEN Strobe!Inc(gc) ELSE gc
  BY <1>3 DEF Strobe!Clk1
<1> HIDE DEF e
<1>6. gc' \in Strobe!Gray /\ (e => gc' # gc) /\ \A h \in Strobe!Sampled(gc, gc') : h \in {gc, gc'}
  BY <1>2, <1>5, StrobeSampled
<1> QED BY <1>1, <1>4, <1>5, <1>6 DEF e

(* A clk1 edge alone: an event is owed, and its step of the counter is     *)
(* still to be sampled.                                                    *)
LEMMA StrobeClk1Edge ==
    ASSUME StrobeInv, ~StrobeInReset, Strobe!Clk1Edge
    PROVE  StrobeInv'
<1>1. PICK r \in Strobe!Sender :
         /\ Strobe!Clk1(r.nrst1, r.strb1)
         /\ owed' = IF Strobe!Event(r.nrst1, r.strb1) THEN owed + 1 ELSE owed
         /\ paced' = (paced /\ (Strobe!Event(r.nrst1, r.strb1) => seen))
         /\ seen' = (seen /\ ~Strobe!Event(r.nrst1, r.strb1))
         /\ UNCHANGED <<strobe_arst, gc_b, torn>>
  BY DEF Strobe!Clk1Edge
<1> DEFINE e == Strobe!Event(r.nrst1, r.strb1)
<1>2. /\ e \in BOOLEAN /\ strb1_b' \in BOOLEAN
      /\ gc' = IF e THEN Strobe!Inc(gc) ELSE gc
      /\ gc' \in Strobe!Gray /\ (e => gc' # gc) /\ (e => owed < MaxOwed)
  BY <1>1, StrobeClk1
<1> HIDE DEF e
<1>3. /\ Strobe!TypeOK /\ owed + Strobe!Torn >= Strobe!Pending
      /\ paced => owed + Strobe!Torn = Strobe!Pending
      /\ torn => Strobe!strb2
      /\ seen => gc = gc_b[0]
  BY DEF StrobeInv
<1>4. owed \in 0..MaxOwed /\ MaxOwed \in Nat /\ paced \in BOOLEAN /\ seen \in BOOLEAN
      /\ torn \in BOOLEAN /\ strobe_arst \in BOOLEAN /\ gc_b \in [0..1 -> Strobe!Gray]
  BY <1>3, BuffersAssumption DEF Strobe!TypeOK
<1>5. /\ owed' = IF e THEN owed + 1 ELSE owed
      /\ paced' <=> (paced /\ (e => seen))
      /\ seen' <=> (seen /\ ~e)
      /\ {paced', seen'} \subseteq BOOLEAN
      /\ strobe_arst' = strobe_arst /\ gc_b' = gc_b /\ torn' = torn
  BY <1>1 DEF e
<1>6. Strobe!TypeOK'
  BY <1>2, <1>4, <1>5 DEF Strobe!TypeOK
<1>7. /\ Strobe!Pending = Strobe!Taken + (IF gc # gc_b[0] THEN 1 ELSE 0)
      /\ Strobe!Pending' = Strobe!Taken + (IF gc' # gc_b[0] THEN 1 ELSE 0)
      /\ Strobe!Torn' = Strobe!Torn /\ Strobe!Torn \in 0..1 /\ Strobe!Taken \in 0..1
      /\ torn' => Strobe!strb2'
  BY <1>3, <1>5 DEF Strobe!Pending, Strobe!Taken, Strobe!Torn, Strobe!strb2
<1>8. /\ owed' + Strobe!Torn' >= Strobe!Pending'
      /\ paced' => owed' + Strobe!Torn' = Strobe!Pending'
  BY <1>2, <1>3, <1>4, <1>5, <1>7
<1>9. seen' => gc' = gc_b'[0]
  BY <1>2, <1>3, <1>5
<1> QED BY <1>6, <1>7, <1>8, <1>9 DEF StrobeInv

(* A clk2 edge, whose stages sample g0 and, in reset, g1, when the counter *)
(* goes from old to new: what is owed and torn then accounts for the       *)
(* strobe in the stages and for the step still to be sampled.              *)
LEMMA StrobeClk2 ==
    ASSUME StrobeInv, NEW nrst2 \in BOOLEAN, NEW new \in Strobe!Gray,
           NEW g0 \in {gc, new}, NEW g1 \in {gc, new}, NEW e \in BOOLEAN,
           e => new # gc /\ owed < MaxOwed, ~e => new = gc,
           strobe_arst => ~e,
           gc' = new, Strobe!Clk2(nrst2, g0, g1),
           Strobe!Account(nrst2, g0, g1, new, IF e THEN 1 ELSE 0)
    PROVE  /\ gc_b' \in [0..1 -> Strobe!Gray] /\ gc_b'[0] = g0
           /\ owed' \in 0..MaxOwed /\ torn' \in BOOLEAN
           /\ torn' => Strobe!strb2'
           /\ owed' + Strobe!Torn' >= Strobe!Pending'
           /\ paced /\ (e => seen) => owed' + Strobe!Torn' = Strobe!Pending'
<1>1. /\ Strobe!TypeOK /\ owed + Strobe!Torn >= Strobe!Pending
      /\ paced => owed + Strobe!Torn = Strobe!Pending
      /\ torn => Strobe!strb2
      /\ seen => gc = gc_b[0]
  BY DEF StrobeInv
<1>2. /\ owed \in 0..MaxOwed /\ MaxOwed \in Nat /\ torn \in BOOLEAN
      /\ gc \in Strobe!Gray /\ gc_b \in [0..1 -> Strobe!Gray]
  BY <1>1, BuffersAssumption DEF Strobe!TypeOK
<1>3. /\ gc_b' \in [0..1 -> Strobe!Gray] /\ gc_b'[0] = g0
      /\ gc_b'[1] = IF Strobe!InReset(nrst2) THEN g1 ELSE gc_b[0]
  BY <1>2 DEF Strobe!Clk2
<1>4. CASE Strobe!InReset(nrst2)
  <2>1. /\ owed' = IF g0 # new \/ g1 # new THEN 1 ELSE 0
        /\ torn' <=> (g0 # g1 /\ g0 # new)
        /\ torn' \in BOOLEAN
    BY <1>4 DEF Strobe!Account
  <2>2. Strobe!strb2' <=> g0 # g1
    BY <1>3, <1>4 DEF Strobe!strb2
  <2>3. Strobe!Pending' = (IF g0 # g1 THEN 1 ELSE 0) + (IF new # g0 THEN 1 ELSE 0)
    BY <1>3, <2>2 DEF Strobe!Pending, Strobe!Taken
  <2>4. Strobe!Torn' = IF g0 # g1 /\ g0 # new THEN 1 ELSE 0
    BY <2>1 DEF Strobe!Torn
  <2>5. owed' \in 0..MaxOwed
    BY <1>2, <2>1
  <2>6. owed' + Strobe!Torn' = Strobe!Pending'
    BY <2>1, <2>3, <2>4
  <2>7. Strobe!Pending' \in Nat
    BY <2>3
  <2>8. owed' + Strobe!Torn' >= Strobe!Pending'
    BY <2>6, <2>7
  <2> QED BY <1>3, <2>1, <2>2, <2>5, <2>6, <2>8
<1>5. CASE ~Strobe!InReset(nrst2)
  <2>1. /\ owed' = owed - (IF torn THEN 0 ELSE Strobe!Taken) + (IF e THEN 1 ELSE 0)
        /\ torn' = FALSE
    BY <1>5 DEF Strobe!Account
  <2>2. /\ Strobe!Pending' = (IF g0 # gc_b[0] THEN 1 ELSE 0) + (IF new # g0 THEN 1 ELSE 0)
        /\ Strobe!Torn' = 0
    BY <1>3, <1>5, <2>1 DEF Strobe!Pending, Strobe!Taken, Strobe!Torn, Strobe!strb2
  <2>3. /\ Strobe!Pending = Strobe!Taken + (IF gc # gc_b[0] THEN 1 ELSE 0)
        /\ Strobe!Taken \in 0..1
        /\ Strobe!Torn = (IF torn THEN 1 ELSE 0) /\ (torn => Strobe!Taken = 1)
    BY <1>1 DEF Strobe!Pending, Strobe!Taken, Strobe!Torn
  <2>4. Strobe!Pending' <= Strobe!Pending - Strobe!Taken + (IF e THEN 1 ELSE 0)
    BY <2>2, <2>3
  <2>5. owed' \in 0..MaxOwed
    BY <1>1, <1>2, <2>1, <2>3
  <2>6. owed' + Strobe!Torn' >= Strobe!Pending'
    BY <1>1, <1>2, <2>1, <2>2, <2>3, <2>4
  <2>7. paced /\ (e => seen) => owed' + Strobe!Torn' = Strobe!Pending'
    <3> SUFFICES ASSUME paced, e => seen PROVE owed' + Strobe!Torn' = Strobe!Pending'
      OBVIOUS
    <3>1. Strobe!Pending' = Strobe!Pending - Strobe!Taken + (IF e THEN 1 ELSE 0)
      BY <1>1, <2>2, <2>3
    <3> QED BY <1>1, <1>2, <2>1, <2>2, <2>3, <3>1
  <2>8. torn' \in BOOLEAN /\ ~torn'
    BY <2>1
  <2> QED BY <1>3, <1>5, <2>5, <2>6, <2>7, <2>8
<1> QED BY <1>4, <1>5

(* A clk2 edge alone: the strobe is taken, the sampled step takes its      *)
(* place, and the sender is seen.                                          *)
LEMMA StrobeClk2Edge ==
    ASSUME StrobeInv, Strobe!Clk2Edge
    PROVE  StrobeInv'
<1>1. PICK nrst2 \in BOOLEAN :
         /\ Strobe!Clk2(nrst2, gc, gc) /\ Strobe!Account(nrst2, gc, gc, gc, 0)
         /\ seen' = TRUE
         /\ paced' = (paced \/ owed' = 0)
         /\ UNCHANGED <<strobe_arst, strb1_b, gc>>
  BY DEF Strobe!Clk2Edge
<1>2. Strobe!TypeOK /\ gc \in Strobe!Gray /\ paced \in BOOLEAN
  BY DEF StrobeInv, Strobe!TypeOK
<1>3. /\ gc_b' \in [0..1 -> Strobe!Gray] /\ gc_b'[0] = gc
      /\ owed' \in 0..MaxOwed /\ torn' \in BOOLEAN
      /\ torn' => Strobe!strb2'
      /\ owed' + Strobe!Torn' >= Strobe!Pending'
      /\ paced => owed' + Strobe!Torn' = Strobe!Pending'
  <2> DEFINE e == FALSE
             n == gc
  <2>1. /\ Strobe!Clk2(nrst2, n, n) /\ Strobe!Account(nrst2, n, n, n, IF e THEN 1 ELSE 0)
        /\ gc' = n /\ n = gc /\ n \in Strobe!Gray
        /\ e \in BOOLEAN /\ ~e
    BY <1>1, <1>2
  <2> HIDE DEF e, n
  <2>2. /\ n \in {gc, n} /\ (e => n # gc /\ owed < MaxOwed) /\ (~e => n = gc)
        /\ strobe_arst => ~e
        /\ e => seen
    BY <2>1
  <2>3. /\ gc_b' \in [0..1 -> Strobe!Gray] /\ gc_b'[0] = n
        /\ owed' \in 0..MaxOwed /\ torn' \in BOOLEAN
        /\ torn' => Strobe!strb2'
        /\ owed' + Strobe!Torn' >= Strobe!Pending'
        /\ paced /\ (e => seen) => owed' + Strobe!Torn' = Strobe!Pending'
    BY <2>1, <2>2, StrobeClk2
  <2> QED BY <2>1, <2>2, <2>3
<1>4. ~torn'
  BY <1>1 DEF Strobe!Account
<1>5. paced' => owed' + Strobe!Torn' = Strobe!Pending'
  <2>1. Strobe!Pending' \in Nat /\ Strobe!Torn' = 0
    BY <1>4 DEF Strobe!Pending, Strobe!Taken, Strobe!Torn
  <2>2. paced' => paced \/ owed' = 0
    BY <1>1
  <2>3. owed' = 0 => owed' + Strobe!Torn' = Strobe!Pending'
    BY <1>3, <2>1
  <2> QED BY <1>3, <2>2, <2>3
<1>6. Strobe!TypeOK'
  BY <1>1, <1>2, <1>3 DEF Strobe!TypeOK
<1> QED BY <1>1, <1>3, <1>5, <1>6 DEF StrobeInv

(* Both edges at once: each sample may hold the event of this edge or miss *)
(* it, and a first stage that misses it still has it to come.              *)
LEMMA StrobeBothEdges ==
    ASSUME StrobeInv, ~StrobeInReset, Strobe!BothEdges
    PROVE  StrobeInv'
<1>1. PICK r \in Strobe!Sender, nrst2 \in BOOLEAN :
         /\ Strobe!Clk1(r.nrst1, r.strb1)
         /\ \E g0, g1 \in Strobe!Sampled(gc, gc') :
              /\ Strobe!Clk2(nrst2, g0, g1)
              /\ Strobe!Account(nrst2, g0, g1, gc',
                                IF Strobe!Event(r.nrst1, r.strb1) THEN 1 ELSE 0)
         /\ paced' = (paced /\ (Strobe!Event(r.nrst1, r.strb1) => seen))
         /\ seen' = ~Strobe!Event(r.nrst1, r.strb1)
         /\ UNCHANGED strobe_arst
  BY DEF Strobe!BothEdges
<1> DEFINE e == Strobe!Event(r.nrst1, r.strb1)
<1>2. /\ e \in BOOLEAN /\ strb1_b' \in BOOLEAN
      /\ gc' = IF e THEN Strobe!Inc(gc) ELSE gc
      /\ gc' \in Strobe!Gray /\ (e => gc' # gc) /\ (e => owed < MaxOwed)
      /\ \A h \in Strobe!Sampled(gc, gc') : h \in {gc, gc'}
  BY <1>1, StrobeClk1
<1>3. PICK g0 \in Strobe!Sampled(gc, gc'), g1 \in Strobe!Sampled(gc, gc') :
         /\ Strobe!Clk2(nrst2, g0, g1)
         /\ Strobe!Account(nrst2, g0, g1, gc', IF e THEN 1 ELSE 0)
  BY <1>1
<1>4. strobe_arst => ~e
  BY DEF Strobe!Event
<1>5. /\ strobe_arst' = strobe_arst
      /\ paced' = (paced /\ (e => seen))
      /\ seen' = ~e
  BY <1>1
<1> HIDE DEF e
<1>6. Strobe!TypeOK /\ strobe_arst \in BOOLEAN /\ paced \in BOOLEAN
  BY DEF StrobeInv, Strobe!TypeOK
<1>7. g0 \in {gc, gc'} /\ g1 \in {gc, gc'}
  BY <1>2
<1>8. /\ gc_b' \in [0..1 -> Strobe!Gray] /\ gc_b'[0] = g0
      /\ owed' \in 0..MaxOwed /\ torn' \in BOOLEAN
      /\ torn' => Strobe!strb2'
      /\ owed' + Strobe!Torn' >= Strobe!Pending'
      /\ paced /\ (e => seen) => owed' + Strobe!Torn' = Strobe!Pending'
  BY <1>2, <1>3, <1>4, <1>7, StrobeClk2
<1>9. {paced', seen'} \subseteq BOOLEAN
  BY <1>2, <1>5
<1>10. Strobe!TypeOK'
  BY <1>2, <1>5, <1>6, <1>8, <1>9 DEF Strobe!TypeOK
<1>11. seen' => gc' = gc_b'[0]
  BY <1>2, <1>5, <1>7, <1>8
<1> QED BY <1>5, <1>8, <1>10, <1>11 DEF StrobeInv

(* Every step of cdc_strobe keeps StrobeInv, if strb1 is low in reset.     *)
LEMMA StrobeInvNext == ~StrobeInReset /\ StrobeInv /\ [Strobe!Next]_strobeVars => StrobeInv'
<1> SUFFICES ASSUME ~StrobeInReset, StrobeInv, [Strobe!Next]_strobeVars PROVE StrobeInv'
  OBVIOUS
<1>1. CASE Strobe!Clk1Edge
  BY <1>1, StrobeClk1Edge
<1>2. CASE Strobe!Clk2Edge
  BY <1>2, StrobeClk2Edge
<1>3. CASE Strobe!BothEdges
  BY <1>3, StrobeBothEdges
<1>4. CASE Strobe!AssertArst
  <2>1. gc' \in Strobe!Gray /\ gc_b' \in [0..1 -> Strobe!Gray] /\ gc_b'[0] = gc' /\ gc_b'[1] = gc'
    BY <1>4 DEF Strobe!AssertArst, StrobeInv, Strobe!TypeOK
  <2>2. Strobe!TypeOK'
    <3>1. {strobe_arst', strb1_b', paced', seen', torn'} \subseteq BOOLEAN
      BY <1>4 DEF Strobe!AssertArst
    <3>2. owed' \in 0..MaxOwed
      BY <1>4, BuffersAssumption DEF Strobe!AssertArst
    <3> QED BY <2>1, <3>1, <3>2 DEF Strobe!TypeOK
  <2> QED BY <1>4, <2>1, <2>2 DEF Strobe!AssertArst, StrobeInv, Strobe!Pending,
       Strobe!Taken, Strobe!Torn, Strobe!strb2
<1>5. CASE Strobe!ReleaseArst
  BY <1>5 DEF Strobe!ReleaseArst, StrobeInv, Strobe!TypeOK, Strobe!Pending,
       Strobe!Taken, Strobe!Torn, Strobe!strb2
<1>6. CASE UNCHANGED strobeVars
  BY <1>6 DEF strobeVars, StrobeInv, Strobe!TypeOK, Strobe!Pending,
       Strobe!Taken, Strobe!Torn, Strobe!strb2
<1> QED BY <1>1, <1>2, <1>3, <1>4, <1>5, <1>6 DEF Strobe!Next

(* So StrobeInv holds at all times.                                        *)
LEMMA StrobeInvCorrect ==
    ASSUME ~StrobeInReset PROVE Strobe!Init /\ [][Strobe!Next]_strobeVars => []StrobeInv
BY StrobeInit, StrobeInvNext, PTL
------------------------------------------------------------------------------
(* The position p places behind the start of a ring of DEPTH slots. *)
Ring(p) == IF p < DEPTH THEN p ELSE p - DEPTH

(* inc_ptr of the code, on a pointer within its range, is a step round the *)
(* ring.                                                                   *)
LEMMA IncPtr ==
    ASSUME NEW ptr \in 0..(DEPTH - 1)
    PROVE  /\ (IF ptr = DEPTH - 1 THEN 0 ELSE (ptr + 1) % (4 * DEPTH)) = Ring(ptr + 1)
           /\ ptr % DEPTH = ptr
<1>1. DEPTH \in Nat /\ DEPTH >= 2
  BY BuffersAssumption
<1>2. ptr \in Nat /\ ptr < DEPTH /\ ptr + 1 < 4 * DEPTH
  BY <1>1
<1>3. \A m \in Nat, d \in Nat \ {0} : m < d => m % d = m
  OBVIOUS
<1>4. (ptr + 1) % (4 * DEPTH) = ptr + 1
  BY <1>1, <1>2, <1>3
<1>5. ptr % DEPTH = ptr
  BY <1>1, <1>2, <1>3
<1> QED BY <1>1, <1>2, <1>4, <1>5 DEF Ring

(* Of c places from rp on, the first q go and p more come: the pointers,   *)
LEMMA RingEdge ==
    ASSUME NEW c \in 0..DEPTH, NEW rp \in 0..(DEPTH - 1),
           NEW p \in 0..1, NEW q \in 0..1, c + p <= DEPTH, q <= c
    PROVE  /\ c + p - q \in 0..DEPTH /\ Ring(rp + q) \in 0..(DEPTH - 1)
           /\ Ring(rp + c) \in 0..(DEPTH - 1)
           /\ Ring(Ring(rp + c) + p) = Ring(Ring(rp + q) + (c + p - q))
<1>1. DEPTH \in Nat /\ DEPTH >= 2
  BY BuffersAssumption
<1>2. c + p - q \in 0..DEPTH /\ Ring(rp + q) \in 0..(DEPTH - 1) /\ Ring(rp + c) \in 0..(DEPTH - 1)
  BY <1>1 DEF Ring
<1>3. Ring(Ring(rp + c) + p) = Ring(Ring(rp + q) + (c + p - q))
  BY <1>1 DEF Ring
<1> QED BY <1>2, <1>3

(* and where the word is that comes out as number i: at a place that it    *)
(* had before, or at the place that was free.                              *)
LEMMA RingPlace ==
    ASSUME NEW c \in 0..DEPTH, NEW rp \in 0..(DEPTH - 1),
           NEW p \in 0..1, NEW q \in 0..1, c + p <= DEPTH, q <= c,
           NEW rn \in 0..(DEPTH - 1), rn = Ring(rp + q),
           NEW i \in 0..((c + p - q) - 1)
    PROVE  /\ Ring(rn + i) = Ring(rp + (i + q))
           /\ Ring(rp + (i + q)) \in 0..(DEPTH - 1)
           /\ \/ i + q \in 0..(c - 1) /\ (p = 1 => Ring(rp + (i + q)) # Ring(rp + c))
                 /\ ~(p = 1 /\ i = (c + p - q) - 1)
              \/ p = 1 /\ i = (c + p - q) - 1 /\ i + q = c
<1>1. DEPTH \in Nat /\ DEPTH >= 2
  BY BuffersAssumption
<1>2. Ring(rn + i) = Ring(rp + (i + q)) /\ Ring(rp + (i + q)) \in 0..(DEPTH - 1)
  BY <1>1 DEF Ring
<1>3. i < c - q => /\ i + q \in 0..(c - 1) /\ (p = 1 => Ring(rp + (i + q)) # Ring(rp + c))
                   /\ ~(p = 1 /\ i = (c + p - q) - 1)
  BY <1>1 DEF Ring
<1>4. i >= c - q => p = 1 /\ i = (c + p - q) - 1 /\ i + q = c
  BY <1>1
<1> QED BY <1>2, <1>3, <1>4

Places == 0..(DEPTH - 1)

(***************************************************************************)
(* v1 and v2: the same count, and the same words, which v2 finds in a ring *)
(* that starts at its read pointer.                                        *)
(***************************************************************************)
PairInv ==
    /\ cnt1 \in 0..DEPTH /\ data1 \in [Places -> Word] /\ buf1 \in Word
    /\ cnt2 = cnt1 /\ buf2 = buf1 /\ data2 \in [Places -> Word]
    /\ rp2 \in Places /\ wp2 = Ring(rp2 + cnt1)
    /\ \A i \in 0..(cnt1 - 1) : data2[Ring(rp2 + i)] = data1[i]

(* The RAM variant likewise, with its own pointers.                        *)
RamInv ==
    /\ cnt3 = cnt1 /\ mem3 \in [Places -> Word] /\ out3 \in Word
    /\ rp3 \in Places /\ wp3 = Ring(rp3 + cnt1)
    /\ \A i \in 0..(cnt1 - 1) : mem3[Ring(rp3 + i)] = data1[i]
    /\ just_read => out3 = buf1

(* What one edge out of reset does to v1, request by request: the queue of *)
(* its words loses the first and gains a last one.                         *)
V1After(w_req, r_req, w) ==
    LET push == w_req /\ cnt1 < DEPTH
        pop == r_req /\ cnt1 > 0
    IN /\ cnt1' = cnt1 + (IF push THEN 1 ELSE 0) - (IF pop THEN 1 ELSE 0)
       /\ cnt1' \in 0..DEPTH
       /\ data1' \in [Places -> Word]
       /\ buf1' = IF pop THEN data1[0] ELSE buf1
       /\ \A i \in 0..(cnt1' - 1) :
             data1'[i] = IF push /\ i = cnt1' - 1 THEN w
                         ELSE IF pop THEN data1[i + 1] ELSE data1[i]

(* So it does, whichever branch of the case the requests select.           *)
LEMMA V1Moves ==
    ASSUME cnt1 \in 0..DEPTH, data1 \in [Places -> Word], buf1 \in Word,
           NEW rst \in BOOLEAN, rst, NEW w_req \in BOOLEAN, NEW r_req \in BOOLEAN, NEW w \in Word,
           Fifos!V1!Edge(rst, w_req, w, r_req)
    PROVE  V1After(w_req, r_req, w)
<1> DEFINE push == w_req /\ cnt1 < DEPTH
           pop == r_req /\ cnt1 > 0
<1>1. DEPTH \in Nat /\ DEPTH >= 2
  BY BuffersAssumption
<1>2. (Fifos!V1!empty <=> cnt1 = 0) /\ (Fifos!V1!full <=> cnt1 = DEPTH)
  BY DEF Fifos!V1!empty, Fifos!V1!full
<1>3. /\ push /\ pop => Fifos!V1!ReadWrite(w)
      /\ ~push /\ pop => Fifos!V1!ReadOut
      /\ push /\ ~pop => Fifos!V1!WriteIn(w)
      /\ ~push /\ ~pop => UNCHANGED <<cnt1, data1, buf1>>
  <2>1. (cnt1 > 0 <=> ~(cnt1 = 0)) /\ (cnt1 < DEPTH <=> ~(cnt1 = DEPTH)) /\ ~(cnt1 = 0 /\ cnt1 = DEPTH)
    BY <1>1
  <2> QED BY <2>1, <1>2, Zenon DEF Fifos!V1!Edge, Fifos!V1!vars
<1> HIDE DEF push, pop
<1>4. Fifos!V1!Shifted \in [Places -> Word]
      /\ \A i \in 0..(DEPTH - 2) : Fifos!V1!Shifted[i] = data1[i + 1]
  BY <1>1 DEF Fifos!V1!Shifted, Fifos!V1!Slots, Places
<1>p. (push => w_req /\ cnt1 < DEPTH) /\ (pop => cnt1 > 0)
  BY DEF push, pop
<1>5. CASE push /\ pop
  <2>1. /\ data1' = [Fifos!V1!Shifted EXCEPT ![cnt1 - 1] = w]
        /\ buf1' = data1[0] /\ cnt1' = cnt1
    BY <1>3, <1>5 DEF Fifos!V1!ReadWrite
  <2>2. cnt1 \in 1..(DEPTH - 1)
    BY <1>1, <1>5, <1>p
  <2>3. \A i \in 0..(cnt1' - 1) : data1'[i] = IF i = cnt1' - 1 THEN w ELSE data1[i + 1]
    BY <1>1, <1>4, <2>1, <2>2 DEF Places
  <2>4. data1' \in [Places -> Word]
    BY <1>4, <2>1
  <2> QED BY <1>5, <2>1, <2>2, <2>3, <2>4 DEF push, pop, V1After
<1>6. CASE ~push /\ pop
  <2>1. data1' = Fifos!V1!Shifted /\ buf1' = data1[0] /\ cnt1' = cnt1 - 1
    BY <1>3, <1>6 DEF Fifos!V1!ReadOut
  <2>2. cnt1 \in 1..DEPTH
    BY <1>1, <1>6, <1>p
  <2>3. \A i \in 0..(cnt1' - 1) : data1'[i] = data1[i + 1]
    BY <1>1, <1>4, <2>1, <2>2
  <2>4. cnt1' \in 0..DEPTH /\ cnt1' = cnt1 + 0 - 1
    BY <1>1, <2>1, <2>2
  <2> QED BY <1>6, <1>4, <2>1, <2>3, <2>4 DEF push, pop, V1After
<1>7. CASE push /\ ~pop
  <2>1. data1' = [data1 EXCEPT ![cnt1] = w] /\ buf1' = buf1 /\ cnt1' = cnt1 + 1
    BY <1>3, <1>7 DEF Fifos!V1!WriteIn
  <2>2. cnt1 \in 0..(DEPTH - 1)
    BY <1>1, <1>7, <1>p
  <2>3. \A i \in 0..(cnt1' - 1) : data1'[i] = IF i = cnt1' - 1 THEN w ELSE data1[i]
    BY <1>1, <2>1, <2>2 DEF Places
  <2>4. cnt1' \in 0..DEPTH /\ cnt1' = cnt1 + 1 - 0
    BY <1>1, <2>1, <2>2
  <2>5. data1' \in [Places -> Word]
    BY <2>1
  <2> QED BY <1>7, <2>1, <2>3, <2>4, <2>5 DEF push, pop, V1After
<1>8. CASE ~push /\ ~pop
  <2>1. data1' = data1 /\ buf1' = buf1 /\ cnt1' = cnt1 /\ cnt1 = cnt1 + 0 - 0
    BY <1>1, <1>3, <1>8
  <2> QED BY <1>8, <2>1 DEF push, pop, V1After
<1> QED BY <1>5, <1>6, <1>7, <1>8 DEF push, pop, V1After

(* The same of v2, counted with the words of v1 before the edge.           *)
V2After(w_req, r_req, w) ==
    LET push == w_req /\ cnt1 < DEPTH
        pop == r_req /\ cnt1 > 0
        cn == cnt1 + (IF push THEN 1 ELSE 0) - (IF pop THEN 1 ELSE 0)
    IN /\ cnt2' = cn /\ rp2' \in Places /\ wp2' = Ring(rp2' + cn)
       /\ data2' \in [Places -> Word]
       /\ buf2' = IF pop THEN data1[0] ELSE buf2
       /\ \A i \in 0..(cn - 1) :
             data2'[Ring(rp2' + i)] = IF push /\ i = cn - 1 THEN w
                         ELSE IF pop THEN data1[i + 1] ELSE data1[i]

(* And so does v2, with its two pointers in place of the shift.            *)
LEMMA V2Moves ==
    ASSUME PairInv, NEW rst \in BOOLEAN, rst, NEW w_req \in BOOLEAN, NEW r_req \in BOOLEAN, NEW w \in Word,
           Fifos!V2!Edge(rst, w_req, w, r_req)
    PROVE  V2After(w_req, r_req, w)
<1> DEFINE push == w_req /\ cnt1 < DEPTH
           pop == r_req /\ cnt1 > 0
           p == IF push THEN 1 ELSE 0
           q == IF pop THEN 1 ELSE 0
           cn == cnt1 + p - q
<1>1. DEPTH \in Nat /\ DEPTH >= 2
  BY BuffersAssumption
<1>i. /\ cnt1 \in 0..DEPTH /\ cnt2 = cnt1 /\ data2 \in [Places -> Word]
      /\ rp2 \in Places /\ wp2 = Ring(rp2 + cnt1)
      /\ \A i \in 0..(cnt1 - 1) : data2[Ring(rp2 + i)] = data1[i]
  BY DEF PairInv
<1>2. (Fifos!V2!empty <=> cnt1 = 0) /\ (Fifos!V2!full <=> cnt1 = DEPTH)
  BY <1>i DEF Fifos!V2!empty, Fifos!V2!full
<1>3. /\ push /\ pop => Fifos!V2!ReadWrite(w)
      /\ ~push /\ pop => Fifos!V2!ReadOut
      /\ push /\ ~pop => Fifos!V2!WriteIn(w)
      /\ ~push /\ ~pop => UNCHANGED <<cnt2, data2, buf2, wp2, rp2>>
  <2>1. (cnt1 > 0 <=> ~(cnt1 = 0)) /\ (cnt1 < DEPTH <=> ~(cnt1 = DEPTH)) /\ ~(cnt1 = 0 /\ cnt1 = DEPTH)
    BY <1>1, <1>i
  <2> QED BY <2>1, <1>2, Zenon DEF Fifos!V2!Edge, Fifos!V2!vars
<1>p. (push => cnt1 < DEPTH) /\ (pop => cnt1 > 0) /\ push \in BOOLEAN /\ pop \in BOOLEAN
  OBVIOUS
<1> HIDE DEF push, pop
<1>4. wp2 \in Places /\ rp2 \in Places
  BY <1>1, <1>i DEF Ring, Places
<1>5. /\ Fifos!V2!inc_ptr(wp2) = Ring(Ring(rp2 + cnt1) + 1)
      /\ Fifos!V2!inc_ptr(rp2) = Ring(rp2 + 1)
  BY <1>i, <1>4, IncPtr DEF Fifos!V2!inc_ptr, Fifos!V2!PtrModulus, Places
<1>6. pop => Fifos!V2!At(rp2) = data1[0]
  <2>1. pop => 0 \in 0..(cnt1 - 1) /\ Ring(rp2 + 0) = rp2
    BY <1>1, <1>i, <1>p DEF Ring, Places
  <2> QED BY <2>1, <1>i DEF Fifos!V2!At, Fifos!V2!Slots, Places
<1>7. /\ data2' = IF push THEN [data2 EXCEPT ![Ring(rp2 + cnt1)] = w] ELSE data2
      /\ rp2' = IF pop THEN Ring(rp2 + 1) ELSE rp2
      /\ wp2' = IF push THEN Ring(Ring(rp2 + cnt1) + 1) ELSE Ring(rp2 + cnt1)
      /\ buf2' = IF pop THEN data1[0] ELSE buf2
  <2>1. push => wp2' = Fifos!V2!inc_ptr(wp2) /\ data2' = [data2 EXCEPT ![wp2] = w]
    BY <1>3 DEF Fifos!V2!ReadWrite, Fifos!V2!WriteIn, Fifos!V2!WriteSide
  <2>2. ~push => wp2' = wp2 /\ data2' = data2
    BY <1>3 DEF Fifos!V2!ReadOut
  <2>3. pop => rp2' = Fifos!V2!inc_ptr(rp2) /\ buf2' = Fifos!V2!At(rp2)
    BY <1>3 DEF Fifos!V2!ReadWrite, Fifos!V2!ReadOut, Fifos!V2!ReadSide
  <2>4. ~pop => rp2' = rp2 /\ buf2' = buf2
    BY <1>3 DEF Fifos!V2!WriteIn
  <2> QED BY <2>1, <2>2, <2>3, <2>4, <1>5, <1>6, <1>i
<1>8. cnt2' = cn
  <2>1. /\ push /\ pop => cnt2' = cnt2
        /\ ~push /\ pop => cnt2' = cnt2 - 1
        /\ push /\ ~pop => cnt2' = cnt2 + 1
        /\ ~push /\ ~pop => cnt2' = cnt2
    BY <1>3 DEF Fifos!V2!ReadWrite, Fifos!V2!ReadOut, Fifos!V2!WriteIn
  <2> QED BY <2>1, <1>i, <1>p
<1>9. /\ p \in 0..1 /\ q \in 0..1 /\ cnt1 + p <= DEPTH /\ q <= cnt1 /\ cn = cnt1 + p - q
      /\ (push <=> p = 1) /\ (pop <=> q = 1)
  BY <1>1, <1>i, <1>p
<1> HIDE DEF p, q
<1>r. rp2 \in 0..(DEPTH - 1)
  BY <1>i DEF Places
<1>10. /\ cn \in 0..DEPTH /\ Ring(rp2 + q) \in 0..(DEPTH - 1)
       /\ Ring(rp2 + cnt1) \in 0..(DEPTH - 1)
       /\ Ring(Ring(rp2 + cnt1) + p) = Ring(Ring(rp2 + q) + cn)
  BY <1>r, <1>i, <1>9, RingEdge
<1>11. rp2' = Ring(rp2 + q) /\ wp2' = Ring(Ring(rp2 + cnt1) + p)
  <2>1. Ring(rp2 + 0) = rp2 /\ Ring(Ring(rp2 + cnt1) + 0) = Ring(rp2 + cnt1)
    BY <1>1, <1>i, <1>10 DEF Ring, Places
  <2> QED BY <2>1, <1>7 DEF p, q
<1>12. data2' \in [Places -> Word]
  BY <1>7, <1>i
<1>13. ASSUME NEW i \in 0..(cn - 1)
       PROVE  data2'[Ring(rp2' + i)] = IF push /\ i = cn - 1 THEN w
                                       ELSE IF pop THEN data1[i + 1] ELSE data1[i]
  <2>1. /\ Ring(rp2' + i) = Ring(rp2 + (i + q))
        /\ Ring(rp2 + (i + q)) \in 0..(DEPTH - 1)
        /\ \/ i + q \in 0..(cnt1 - 1) /\ (p = 1 => Ring(rp2 + (i + q)) # Ring(rp2 + cnt1))
              /\ ~(p = 1 /\ i = cn - 1)
           \/ p = 1 /\ i = cn - 1 /\ i + q = cnt1
    <3>1. rp2' \in 0..(DEPTH - 1) /\ rp2' = Ring(rp2 + q)
      BY <1>10, <1>11
    <3> QED BY <3>1, <1>r, <1>i, <1>9, RingPlace
  <2>2. CASE i + q \in 0..(cnt1 - 1) /\ (p = 1 => Ring(rp2 + (i + q)) # Ring(rp2 + cnt1))
             /\ ~(p = 1 /\ i = cn - 1)
    <3>1. data2'[Ring(rp2 + (i + q))] = data2[Ring(rp2 + (i + q))]
      BY <2>1, <2>2, <1>7, <1>9, <1>i DEF Places
    <3>2. data2[Ring(rp2 + (i + q))] = data1[i + q]
      BY <2>2, <1>i
    <3>3. (pop => i + q = i + 1) /\ (~pop => i + q = i)
      BY <1>9
    <3> QED BY <2>1, <2>2, <3>1, <3>2, <3>3, <1>9, <1>11
  <2>3. CASE p = 1 /\ i = cn - 1 /\ i + q = cnt1
    BY <2>1, <2>3, <1>7, <1>9, <1>11, <1>i DEF Places
  <2> QED BY <2>1, <2>2, <2>3
<1>14. rp2' \in Places /\ wp2' = Ring(rp2' + cn)
  BY <1>10, <1>11 DEF Places
<1> QED BY <1>7, <1>8, <1>12, <1>13, <1>14 DEF push, pop, p, q, V2After

(* The same of the block RAM variant.                                      *)
V3After(w_req, r_req, w) ==
    LET push == w_req /\ cnt1 < DEPTH
        pop == r_req /\ cnt1 > 0
        cn == cnt1 + (IF push THEN 1 ELSE 0) - (IF pop THEN 1 ELSE 0)
    IN /\ cnt3' = cn /\ rp3' \in Places /\ wp3' = Ring(rp3' + cn)
       /\ mem3' \in [Places -> Word]
       /\ out3' = IF pop THEN data1[0] ELSE out3
       /\ \A i \in 0..(cn - 1) :
             mem3'[Ring(rp3' + i)] = IF push /\ i = cn - 1 THEN w
                         ELSE IF pop THEN data1[i + 1] ELSE data1[i]

(* The block RAM variant, whose output register reads ahead of the write.  *)
LEMMA V3Moves ==
    ASSUME PairInv, RamInv, NEW rst \in BOOLEAN, rst,
           NEW w_req \in BOOLEAN, NEW r_req \in BOOLEAN, NEW w \in Word,
           Fifos!V3!Edge(rst, w_req, w, r_req)
    PROVE  V3After(w_req, r_req, w)
<1> DEFINE push == w_req /\ cnt1 < DEPTH
           pop == r_req /\ cnt1 > 0
           p == IF push THEN 1 ELSE 0
           q == IF pop THEN 1 ELSE 0
           cn == cnt1 + p - q
<1>1. DEPTH \in Nat /\ DEPTH >= 2
  BY BuffersAssumption
<1>i. /\ cnt1 \in 0..DEPTH /\ cnt3 = cnt1 /\ mem3 \in [Places -> Word]
      /\ rp3 \in Places /\ wp3 = Ring(rp3 + cnt1)
      /\ \A i \in 0..(cnt1 - 1) : mem3[Ring(rp3 + i)] = data1[i]
  BY DEF PairInv, RamInv
<1>2. (Fifos!V3!empty <=> ~(cnt1 > 0)) /\ (Fifos!V3!full <=> ~(cnt1 < DEPTH))
  BY <1>1, <1>i DEF Fifos!V3!empty, Fifos!V3!full
<1>3. /\ mem3' = IF push THEN [mem3 EXCEPT ![Fifos!V3!Addr(wp3)] = w] ELSE mem3
      /\ out3' = IF pop THEN mem3[Fifos!V3!Addr(rp3)] ELSE out3
      /\ wp3' = IF push THEN Fifos!V3!inc_ptr(wp3) ELSE wp3
      /\ rp3' = IF pop THEN Fifos!V3!inc_ptr(rp3) ELSE rp3
      /\ cnt3' = IF push = pop THEN cnt3 ELSE IF push THEN cnt3 + 1 ELSE cnt3 - 1
  <2>1. (w_req /\ ~Fifos!V3!full) = push /\ (r_req /\ ~Fifos!V3!empty) = pop
    BY <1>2
  <2> HIDE DEF push, pop
  <2> QED BY <2>1, Zenon DEF Fifos!V3!Edge, Fifos!V3!Ram, Fifos!V3!Pointers
<1>p. (push => cnt1 < DEPTH) /\ (pop => cnt1 > 0) /\ push \in BOOLEAN /\ pop \in BOOLEAN
  OBVIOUS
<1> HIDE DEF push, pop
<1>4. wp3 \in Places /\ rp3 \in Places
  BY <1>1, <1>i DEF Ring, Places
<1>5. /\ Fifos!V3!inc_ptr(wp3) = Ring(Ring(rp3 + cnt1) + 1) /\ Fifos!V3!Addr(wp3) = wp3
      /\ Fifos!V3!inc_ptr(rp3) = Ring(rp3 + 1) /\ Fifos!V3!Addr(rp3) = rp3
  BY <1>i, <1>4, IncPtr DEF Fifos!V3!inc_ptr, Fifos!V3!PtrModulus, Fifos!V3!Addr, Places
<1>6. pop => mem3[rp3] = data1[0]
  <2>1. pop => 0 \in 0..(cnt1 - 1) /\ Ring(rp3 + 0) = rp3
    BY <1>1, <1>i, <1>p DEF Ring, Places
  <2> QED BY <2>1, <1>i
<1>7. /\ mem3' = IF push THEN [mem3 EXCEPT ![Ring(rp3 + cnt1)] = w] ELSE mem3
      /\ rp3' = IF pop THEN Ring(rp3 + 1) ELSE rp3
      /\ wp3' = IF push THEN Ring(Ring(rp3 + cnt1) + 1) ELSE Ring(rp3 + cnt1)
      /\ out3' = IF pop THEN data1[0] ELSE out3
  BY <1>3, <1>5, <1>6, <1>i
<1>8. cnt3' = cn
  BY <1>3, <1>i, <1>p
<1>9. /\ p \in 0..1 /\ q \in 0..1 /\ cnt1 + p <= DEPTH /\ q <= cnt1 /\ cn = cnt1 + p - q
      /\ (push <=> p = 1) /\ (pop <=> q = 1)
  BY <1>1, <1>i, <1>p
<1> HIDE DEF p, q
<1>r. rp3 \in 0..(DEPTH - 1)
  BY <1>i DEF Places
<1>10. /\ cn \in 0..DEPTH /\ Ring(rp3 + q) \in 0..(DEPTH - 1)
       /\ Ring(rp3 + cnt1) \in 0..(DEPTH - 1)
       /\ Ring(Ring(rp3 + cnt1) + p) = Ring(Ring(rp3 + q) + cn)
  BY <1>r, <1>i, <1>9, RingEdge
<1>11. rp3' = Ring(rp3 + q) /\ wp3' = Ring(Ring(rp3 + cnt1) + p)
  <2>1. Ring(rp3 + 0) = rp3 /\ Ring(Ring(rp3 + cnt1) + 0) = Ring(rp3 + cnt1)
    BY <1>1, <1>i, <1>10 DEF Ring, Places
  <2> QED BY <2>1, <1>7 DEF p, q
<1>12. mem3' \in [Places -> Word]
  BY <1>7, <1>i
<1>13. ASSUME NEW i \in 0..(cn - 1)
       PROVE  mem3'[Ring(rp3' + i)] = IF push /\ i = cn - 1 THEN w
                                       ELSE IF pop THEN data1[i + 1] ELSE data1[i]
  <2>1. /\ Ring(rp3' + i) = Ring(rp3 + (i + q))
        /\ Ring(rp3 + (i + q)) \in 0..(DEPTH - 1)
        /\ \/ i + q \in 0..(cnt1 - 1) /\ (p = 1 => Ring(rp3 + (i + q)) # Ring(rp3 + cnt1))
              /\ ~(p = 1 /\ i = cn - 1)
           \/ p = 1 /\ i = cn - 1 /\ i + q = cnt1
    <3>1. rp3' \in 0..(DEPTH - 1) /\ rp3' = Ring(rp3 + q)
      BY <1>10, <1>11
    <3> QED BY <3>1, <1>r, <1>i, <1>9, RingPlace
  <2>2. CASE i + q \in 0..(cnt1 - 1) /\ (p = 1 => Ring(rp3 + (i + q)) # Ring(rp3 + cnt1))
             /\ ~(p = 1 /\ i = cn - 1)
    <3>1. mem3'[Ring(rp3 + (i + q))] = mem3[Ring(rp3 + (i + q))]
      BY <2>1, <2>2, <1>7, <1>9, <1>i DEF Places
    <3>2. mem3[Ring(rp3 + (i + q))] = data1[i + q]
      BY <2>2, <1>i
    <3>3. (pop => i + q = i + 1) /\ (~pop => i + q = i)
      BY <1>9
    <3> QED BY <2>1, <2>2, <3>1, <3>2, <3>3, <1>9, <1>11
  <2>3. CASE p = 1 /\ i = cn - 1 /\ i + q = cnt1
    BY <2>1, <2>3, <1>7, <1>9, <1>11, <1>i DEF Places
  <2> QED BY <2>1, <2>2, <2>3
<1>14. rp3' \in Places /\ wp3' = Ring(rp3' + cn)
  BY <1>10, <1>11 DEF Places
<1> QED BY <1>7, <1>8, <1>12, <1>13, <1>14 DEF push, pop, p, q, V3After

(* All three in step.                                                      *)
FifosInv == PairInv /\ RamInv

(* The three start alike.                                                  *)
LEMMA FifosInit ==
    ASSUME Fifos!Init
    PROVE  /\ INIT_CNT < DEPTH => PairInv
           /\ INIT_CNT = 0 => FifosInv
<1>1. DEPTH \in Nat /\ DEPTH >= 2 /\ INIT_CNT \in 0..DEPTH
  BY BuffersAssumption
<1>2. Fifos!InitData \in [Places -> Word]
  BY WordAssumption DEF Fifos!InitData, Places
<1>3. INIT_CNT < DEPTH => PairInv
  <2> SUFFICES ASSUME INIT_CNT < DEPTH PROVE PairInv
    OBVIOUS
  <2>1. /\ cnt1 = INIT_CNT /\ data1 = Fifos!InitData /\ buf1 = Zero
        /\ cnt2 = INIT_CNT /\ data2 = Fifos!InitData /\ buf2 = Zero /\ wp2 = INIT_CNT /\ rp2 = 0
    BY DEF Fifos!Init, Fifos!V1!Init, Fifos!V2!Init
  <2>2. 0 \in Places /\ wp2 = Ring(rp2 + cnt1) /\ \A i \in 0..(cnt1 - 1) : Ring(rp2 + i) = i
    BY <1>1, <2>1 DEF Places, Ring
  <2>3. cnt1 \in 0..DEPTH
    BY <1>1, <2>1
  <2> QED BY <1>2, <2>1, <2>2, <2>3, WordAssumption DEF PairInv
<1>4. INIT_CNT = 0 => FifosInv
  <2> SUFFICES ASSUME INIT_CNT = 0 PROVE FifosInv
    OBVIOUS
  <2>1. PairInv
    BY <1>1, <1>3
  <2>2. /\ cnt1 = 0 /\ buf1 = Zero
        /\ cnt3 = 0 /\ mem3 = Fifos!InitData /\ out3 = Zero /\ wp3 = 0 /\ rp3 = 0
    BY DEF Fifos!Init, Fifos!V1!Init, Fifos!V3!Init
  <2>3. 0 \in Places /\ Ring(0 + 0) = 0 /\ 0..(0 - 1) = {} /\ 0 \in 0..DEPTH
    BY <1>1 DEF Places, Ring
  <2>4. RamInv
    BY <1>2, <2>2, <2>3, WordAssumption DEF RamInv
  <2> QED BY <2>1, <2>4 DEF FifosInv
<1> QED BY <1>3, <1>4

(* An edge, in reset or not, leaves v1 and v2 with the same words.         *)
LEMMA PairEdge ==
    ASSUME PairInv, INIT_CNT < DEPTH,
           NEW rst \in BOOLEAN, NEW w_req \in BOOLEAN, NEW r_req \in BOOLEAN, NEW w \in Word,
           Fifos!V1!Edge(rst, w_req, w, r_req), Fifos!V2!Edge(rst, w_req, w, r_req)
    PROVE  PairInv'
<1>1. DEPTH \in Nat /\ DEPTH >= 2 /\ INIT_CNT \in 0..DEPTH
  BY BuffersAssumption
<1>2. CASE ~rst
  <2>1. /\ cnt1' = INIT_CNT /\ data1' = Fifos!InitData /\ buf1' = Zero
        /\ cnt2' = INIT_CNT /\ data2' = Fifos!InitData /\ buf2' = Zero /\ wp2' = INIT_CNT /\ rp2' = 0
    BY <1>2 DEF Fifos!V1!Edge, Fifos!V2!Edge, Fifos!V1!Reset, Fifos!V2!Reset
  <2>2. 0 \in Places /\ wp2' = Ring(rp2' + cnt1') /\ \A i \in 0..(cnt1' - 1) : Ring(rp2' + i) = i
    BY <1>1, <2>1 DEF Places, Ring
  <2>3. cnt1' \in 0..DEPTH
    BY <1>1, <2>1
  <2>4. Fifos!InitData \in [Places -> Word]
    BY WordAssumption DEF Fifos!InitData, Places
  <2> QED BY <2>1, <2>2, <2>3, <2>4, WordAssumption DEF PairInv
<1>3. CASE rst
  <2> DEFINE push == w_req /\ cnt1 < DEPTH
             pop == r_req /\ cnt1 > 0
             cn == cnt1 + (IF push THEN 1 ELSE 0) - (IF pop THEN 1 ELSE 0)
  <2>0. rst = TRUE /\ cnt1 \in 0..DEPTH /\ data1 \in [Places -> Word] /\ buf1 \in Word /\ buf2 = buf1
    BY <1>3 DEF PairInv
  <2>1. /\ cnt1' = cn /\ cnt1' \in 0..DEPTH /\ data1' \in [Places -> Word]
        /\ buf1' = IF pop THEN data1[0] ELSE buf1
        /\ \A i \in 0..(cnt1' - 1) :
              data1'[i] = IF push /\ i = cnt1' - 1 THEN w
                          ELSE IF pop THEN data1[i + 1] ELSE data1[i]
    <3>1. V1After(w_req, r_req, w)
      BY <2>0, V1Moves
    <3> QED BY <3>1 DEF V1After
  <2>2. /\ cnt2' = cn /\ rp2' \in Places /\ wp2' = Ring(rp2' + cn)
        /\ data2' \in [Places -> Word]
        /\ buf2' = IF pop THEN data1[0] ELSE buf2
        /\ \A i \in 0..(cn - 1) :
              data2'[Ring(rp2' + i)] = IF push /\ i = cn - 1 THEN w
                          ELSE IF pop THEN data1[i + 1] ELSE data1[i]
    <3>1. V2After(w_req, r_req, w)
      BY <2>0, V2Moves
    <3> QED BY <3>1 DEF V2After
  <2>3. data1[0] \in Word
    BY <1>1, <2>0 DEF Places
  <2> HIDE DEF push, pop, cn
  <2>4. \A i \in 0..(cnt1' - 1) : data2'[Ring(rp2' + i)] = data1'[i]
    BY <2>1, <2>2
  <2> QED BY <2>0, <2>1, <2>2, <2>3, <2>4 DEF PairInv
<1> QED BY <1>2, <1>3

(* And all three, started empty, in step.                                  *)
LEMMA FifosEdge ==
    ASSUME FifosInv, INIT_CNT = 0, Fifos!Edge
    PROVE  FifosInv'
<1>1. DEPTH \in Nat /\ DEPTH >= 2 /\ INIT_CNT < DEPTH
  BY BuffersAssumption
<1>2. PICK rst \in BOOLEAN, w_req \in BOOLEAN, r_req \in BOOLEAN, w \in Word :
        /\ Fifos!V1!Edge(rst, w_req, w, r_req)
        /\ Fifos!V2!Edge(rst, w_req, w, r_req)
        /\ Fifos!V3!Edge(rst, w_req, w, r_req)
        /\ just_read' = (rst /\ r_req /\ ~Fifos!V1!empty)
  BY DEF Fifos!Edge
<1>3. PairInv /\ RamInv
  BY DEF FifosInv
<1>4. PairInv'
  BY <1>1, <1>2, <1>3, PairEdge
<1>5. CASE ~rst
  <2>1. cnt1' = 0 /\ buf1' = Zero
    BY <1>2, <1>5 DEF Fifos!V1!Edge, Fifos!V1!Reset
  <2>2. 0 \in Places /\ Ring(0 + 0) = 0 /\ 0..(0 - 1) = {}
    BY <1>1 DEF Places, Ring
  <2>3. RamInv'
    <3>1. cnt3' = 0 /\ wp3' = 0 /\ rp3' = 0 /\ ~just_read'
      BY <1>2, <1>5 DEF Fifos!V3!Edge
    <3>2. wp3 \in Places /\ rp3 \in Places /\ mem3 \in [Places -> Word] /\ out3 \in Word
      BY <1>1, <1>3 DEF RamInv, PairInv, Ring, Places
    <3>3. Fifos!V3!Addr(wp3) \in Places /\ Fifos!V3!Addr(rp3) \in Places
      BY <3>2, IncPtr DEF Fifos!V3!Addr, Places
    <3>4. mem3' \in [Places -> Word] /\ out3' \in Word
      BY <1>2, <3>2, <3>3 DEF Fifos!V3!Edge, Fifos!V3!Ram
    <3> QED BY <2>1, <2>2, <3>1, <3>4 DEF RamInv
  <2> QED BY <1>4, <2>3 DEF FifosInv
<1>6. CASE rst
  <2> DEFINE push == w_req /\ cnt1 < DEPTH
             pop == r_req /\ cnt1 > 0
             cn == cnt1 + (IF push THEN 1 ELSE 0) - (IF pop THEN 1 ELSE 0)
  <2>0. rst = TRUE /\ cnt1 \in 0..DEPTH /\ data1 \in [Places -> Word] /\ buf1 \in Word
    BY <1>6, <1>3 DEF PairInv
  <2>1. /\ cnt1' = cn /\ cnt1' \in 0..DEPTH /\ data1' \in [Places -> Word]
        /\ buf1' = IF pop THEN data1[0] ELSE buf1
        /\ \A i \in 0..(cnt1' - 1) :
              data1'[i] = IF push /\ i = cnt1' - 1 THEN w
                          ELSE IF pop THEN data1[i + 1] ELSE data1[i]
    <3>1. V1After(w_req, r_req, w)
      BY <1>2, <2>0, V1Moves
    <3> QED BY <3>1 DEF V1After
  <2>2. data1[0] \in Word
    BY <1>1, <2>0 DEF Places
  <2>3. RamInv'
    <3>1. /\ cnt3' = cn /\ rp3' \in Places /\ wp3' = Ring(rp3' + cn)
          /\ mem3' \in [Places -> Word]
          /\ out3' = IF pop THEN data1[0] ELSE out3
          /\ \A i \in 0..(cn - 1) :
                mem3'[Ring(rp3' + i)] = IF push /\ i = cn - 1 THEN w
                            ELSE IF pop THEN data1[i + 1] ELSE data1[i]
      <4>1. V3After(w_req, r_req, w)
        BY <1>2, <1>3, <2>0, V3Moves
      <4> QED BY <4>1 DEF V3After
    <3>2. just_read' <=> pop
      <4>1. Fifos!V1!empty <=> ~(cnt1 > 0)
        BY <2>0 DEF Fifos!V1!empty
      <4> QED BY <1>2, <1>6, <4>1
    <3>3. out3 \in Word
      BY <1>3 DEF RamInv
    <3> HIDE DEF push, pop, cn
    <3>4. \A i \in 0..(cnt1' - 1) : mem3'[Ring(rp3' + i)] = data1'[i]
      BY <2>1, <3>1
    <3>5. out3' \in Word /\ (just_read' => out3' = buf1')
      BY <2>1, <2>2, <3>1, <3>2, <3>3
    <3> QED BY <2>1, <3>1, <3>4, <3>5 DEF RamInv
  <2> QED BY <1>4, <2>3 DEF FifosInv
<1> QED BY <1>5, <1>6

(* Every step of the family keeps v1 and v2 together,                      *)
LEMMA PairInvNext == INIT_CNT < DEPTH /\ PairInv /\ [Fifos!Edge]_fifosVars => PairInv'
<1> SUFFICES ASSUME INIT_CNT < DEPTH, PairInv, [Fifos!Edge]_fifosVars PROVE PairInv'
  OBVIOUS
<1>1. CASE Fifos!Edge
  <2>1. PICK rst \in BOOLEAN, w_req \in BOOLEAN, r_req \in BOOLEAN, w \in Word :
          Fifos!V1!Edge(rst, w_req, w, r_req) /\ Fifos!V2!Edge(rst, w_req, w, r_req)
    BY <1>1 DEF Fifos!Edge
  <2> QED BY <2>1, PairEdge
<1>2. CASE UNCHANGED fifosVars
  BY <1>2 DEF fifosVars, PairInv
<1> QED BY <1>1, <1>2

(* and all three.                                                          *)
LEMMA FifosInvNext == INIT_CNT = 0 /\ FifosInv /\ [Fifos!Edge]_fifosVars => FifosInv'
<1> SUFFICES ASSUME INIT_CNT = 0, FifosInv, [Fifos!Edge]_fifosVars PROVE FifosInv'
  OBVIOUS
<1>1. CASE Fifos!Edge
  BY <1>1, FifosEdge
<1>2. CASE UNCHANGED fifosVars
  BY <1>2 DEF fifosVars, FifosInv, PairInv, RamInv
<1> QED BY <1>1, <1>2

(* What the outside sees of v1 and v2.                                     *)
LEMMA PairView == PairInv => Fifos!OperateIdentically
<1> SUFFICES ASSUME PairInv PROVE Fifos!OperateIdentically
  OBVIOUS
<1>1. /\ cnt1 \in 0..DEPTH /\ cnt2 = cnt1 /\ buf2 = buf1 /\ rp2 \in Places
      /\ \A i \in 0..(cnt1 - 1) : data2[Ring(rp2 + i)] = data1[i]
      /\ DEPTH \in Nat
  BY BuffersAssumption DEF PairInv
<1>2. CASE cnt1 = 0
  BY <1>1, <1>2 DEF Fifos!OperateIdentically, Fifos!V1!r_data_fwft, Fifos!V2!r_data_fwft, Fifos!V1!r_data_normal,
                    Fifos!V2!r_data_normal, Fifos!V1!empty, Fifos!V2!empty
<1>3. CASE cnt1 # 0
  <2>1. 0 \in 0..(cnt1 - 1) /\ Ring(rp2 + 0) = rp2
    BY <1>1, <1>3 DEF Ring, Places
  <2>2. Fifos!V2!At(rp2) = data1[0]
    BY <1>1, <2>1 DEF Fifos!V2!At, Fifos!V2!Slots, Places
  <2> QED BY <1>1, <1>3, <2>2 DEF Fifos!OperateIdentically, Fifos!V1!r_data_fwft, Fifos!V2!r_data_fwft,
             Fifos!V1!r_data_normal, Fifos!V2!r_data_normal, Fifos!V1!empty, Fifos!V2!empty
<1> QED BY <1>2, <1>3

(* What the outside sees of all of them.                                   *)
LEMMA FifosView ==
    FifosInv => /\ Fifos!TypeOK /\ Fifos!OperateIdentically /\ Fifos!RamSameView
<1> SUFFICES ASSUME FifosInv
             PROVE  Fifos!TypeOK /\ Fifos!OperateIdentically /\ Fifos!RamSameView
  OBVIOUS
<1>1. PairInv /\ RamInv
  BY DEF FifosInv
<1>2. Fifos!TypeOK
  <2>1. {cnt1, cnt2, cnt3} \subseteq 0..DEPTH
    BY <1>1 DEF PairInv, RamInv
  <2>2. {wp2, rp2, wp3, rp3} \subseteq 0..(DEPTH - 1)
    BY <1>1, BuffersAssumption DEF PairInv, RamInv, Ring, Places
  <2>3. {buf1, buf2, out3} \subseteq Word
    BY <1>1 DEF PairInv, RamInv
  <2>4. /\ data1 \in [Places -> Word] /\ data2 \in [Places -> Word]
        /\ mem3 \in [Places -> Word]
    BY <1>1 DEF PairInv, RamInv
  <2> QED BY <2>1, <2>2, <2>3, <2>4 DEF Fifos!TypeOK, Places
<1>3. Fifos!RamSameView
  BY <1>1 DEF RamInv, Fifos!RamSameView, Fifos!V1!r_data_normal
<1> QED BY <1>1, <1>2, <1>3, PairView

(***************************************************************************)
(* v1 is a queue: its words from data[0] on.                               *)
(***************************************************************************)
V1Words == [i \in 1..cnt1 |-> data1[i - 1]]
V1Inv == cnt1 \in 0..DEPTH /\ data1 \in [Places -> Word] /\ buf1 \in Word

(* They are a queue, as long as the count says.                            *)
LEMMA V1WordsType ==
    ASSUME V1Inv
    PROVE  /\ cnt1 \in Nat /\ V1Words \in [1..cnt1 -> Word]
           /\ \A i \in 1..cnt1 : V1Words[i] = data1[i - 1]
<1>1. DEPTH \in Nat /\ cnt1 \in 0..DEPTH /\ data1 \in [Places -> Word]
  BY BuffersAssumption DEF V1Inv
<1>2. \A i \in 1..cnt1 : data1[i - 1] \in Word
  BY <1>1 DEF Places
<1> QED BY <1>1, <1>2 DEF V1Words

(* An edge out of reset takes the oldest word of the queue, adds a newest  *)
(* one, does both, or neither.                                             *)
LEMMA V1QueueEdge ==
    ASSUME V1Inv, V1Inv', NEW w_req \in BOOLEAN, NEW r_req \in BOOLEAN, NEW w \in Word,
           V1After(w_req, r_req, w), w_req => offered' = w
    PROVE  [Fifos!Queue!Next]_<<V1Words, buf1>>
<1> DEFINE push == w_req /\ cnt1 < DEPTH
           pop == r_req /\ cnt1 > 0
<1>1. DEPTH \in Nat /\ DEPTH >= 2 /\ cnt1 \in 0..DEPTH
  BY BuffersAssumption DEF V1Inv
<1>2. /\ cnt1 \in Nat /\ V1Words \in [1..cnt1 -> Word]
      /\ \A i \in 1..cnt1 : V1Words[i] = data1[i - 1]
  BY V1WordsType
<1>3. /\ cnt1' \in Nat /\ V1Words' \in [1..cnt1' -> Word]
      /\ \A i \in 1..cnt1' : V1Words'[i] = data1'[i - 1]
  <2>1. (V1Inv => /\ cnt1 \in Nat /\ V1Words \in [1..cnt1 -> Word]
                  /\ \A i \in 1..cnt1 : V1Words[i] = data1[i - 1])'
    BY V1WordsType, PTL
  <2> QED BY <2>1
<1>4. /\ cnt1' = cnt1 + (IF push THEN 1 ELSE 0) - (IF pop THEN 1 ELSE 0)
      /\ cnt1' \in 0..DEPTH
      /\ buf1' = IF pop THEN data1[0] ELSE buf1
      /\ \A i \in 0..(cnt1' - 1) :
            data1'[i] = IF push /\ i = cnt1' - 1 THEN w
                        ELSE IF pop THEN data1[i + 1] ELSE data1[i]
  BY DEF V1After
<1>5. /\ push => cnt1 < DEPTH /\ offered' = w /\ offered' \in Word
      /\ pop => cnt1 > 0
  OBVIOUS
<1> HIDE DEF push, pop
<1>6. ASSUME NEW i \in 1..cnt1'
      PROVE  V1Words'[i] = IF push /\ i = cnt1' THEN w
                           ELSE IF pop THEN data1[i] ELSE data1[i - 1]
  <2>0. cnt1' \in Nat /\ i \in 1..cnt1'
    BY <1>3
  <2>1. /\ i - 1 \in 0..(cnt1' - 1) /\ (i - 1) + 1 = i
        /\ i = cnt1' => i - 1 = cnt1' - 1
        /\ i - 1 = cnt1' - 1 => i = cnt1'
    <3>1. ASSUME NEW n \in Nat, NEW k \in 1..n
          PROVE  k - 1 \in 0..(n - 1) /\ (k - 1) + 1 = k /\ (k - 1 = n - 1 => k = n)
      OBVIOUS
    <3> QED BY <2>0, <3>1
  <2>2. V1Words'[i] = data1'[i - 1]
    BY <1>3
  <2>3. data1'[i - 1] = IF push /\ i - 1 = cnt1' - 1 THEN w
                        ELSE IF pop THEN data1[(i - 1) + 1] ELSE data1[i - 1]
    BY <1>4, <2>1
  <2> QED BY <2>1, <2>2, <2>3
<1>7. pop => cnt1 \in Nat \ {0} /\ V1Words[1] = data1[0] /\ buf1' = V1Words[1]
  <2>1. pop => 1 \in 1..cnt1 /\ 1 - 1 = 0
    BY <1>1, <1>5
  <2> QED BY <2>1, <1>2, <1>4
<1>8. /\ Fifos!Queue!Push = /\ Len(V1Words) < DEPTH /\ offered' \in Word
                            /\ V1Words' = Append(V1Words, offered')
                            /\ buf1' = buf1
      /\ Fifos!Queue!PushPop = /\ V1Words # <<>> /\ Len(V1Words) < DEPTH /\ offered' \in Word
                               /\ buf1' = Head(V1Words)
                               /\ V1Words' = Append(Tail(V1Words), offered')
      /\ Fifos!Queue!Pop = /\ V1Words # <<>> /\ buf1' = Head(V1Words)
                           /\ V1Words' = Tail(V1Words)
  BY DEF Fifos!Queue!Push, Fifos!Queue!Pop, Fifos!Queue!PushPop, V1Words
<1>9. CASE push /\ pop
  <2>1. cnt1' = cnt1 /\ cnt1 \in Nat \ {0}
    BY <1>1, <1>4, <1>7, <1>9
  <2>2. \A i \in 1..(cnt1 - 1) : V1Words'[i] = V1Words[i + 1]
    <3> SUFFICES ASSUME NEW i \in 1..(cnt1 - 1) PROVE V1Words'[i] = V1Words[i + 1]
      OBVIOUS
    <3>1. i \in 1..cnt1' /\ i # cnt1' /\ i + 1 \in 1..cnt1 /\ (i + 1) - 1 = i
      BY <2>1
    <3> QED BY <3>1, <1>2, <1>6, <1>9
  <2>3. cnt1 \in 1..cnt1' /\ V1Words'[cnt1] = w
    BY <2>1, <1>6, <1>9
  <2>4. V1Words' \in [1..cnt1 -> Word]
    BY <2>1, <1>3
  <2>5. /\ V1Words # <<>> /\ Len(V1Words) = cnt1 /\ Head(V1Words) = V1Words[1]
        /\ V1Words' = Append(Tail(V1Words), w)
    BY <2>1, <2>2, <2>3, <2>4, <1>2, QueuePushPop
  <2>6. Fifos!Queue!PushPop
    BY <2>5, <1>5, <1>7, <1>8, <1>9
  <2> QED BY <2>6 DEF Fifos!Queue!Next
<1>10. CASE push /\ ~pop
  <2>1. cnt1' = cnt1 + 1
    BY <1>1, <1>4, <1>10
  <2>2. \A i \in 1..cnt1 : V1Words'[i] = V1Words[i]
    <3> SUFFICES ASSUME NEW i \in 1..cnt1 PROVE V1Words'[i] = V1Words[i]
      OBVIOUS
    <3>1. i \in 1..cnt1' /\ i # cnt1'
      BY <1>1, <2>1
    <3> QED BY <3>1, <1>2, <1>6, <1>10
  <2>3. V1Words'[cnt1 + 1] = w
    BY <1>1, <2>1, <1>6, <1>10
  <2>4. V1Words' \in [1..(cnt1 + 1) -> Word]
    BY <2>1, <1>3
  <2>5. Len(V1Words) = cnt1 /\ V1Words' = Append(V1Words, w)
    BY <2>2, <2>3, <2>4, <1>2, QueuePush
  <2>6. Fifos!Queue!Push
    BY <2>5, <1>4, <1>5, <1>8, <1>10
  <2> QED BY <2>6 DEF Fifos!Queue!Next
<1>11. CASE ~push /\ pop
  <2>1. cnt1' = cnt1 - 1 /\ cnt1 \in Nat \ {0}
    BY <1>1, <1>4, <1>7, <1>11
  <2>2. \A i \in 1..(cnt1 - 1) : V1Words'[i] = V1Words[i + 1]
    <3> SUFFICES ASSUME NEW i \in 1..(cnt1 - 1) PROVE V1Words'[i] = V1Words[i + 1]
      OBVIOUS
    <3>1. i \in 1..cnt1' /\ i + 1 \in 1..cnt1 /\ (i + 1) - 1 = i
      BY <2>1
    <3> QED BY <3>1, <1>2, <1>6, <1>11
  <2>4. V1Words' \in [1..(cnt1 - 1) -> Word]
    BY <2>1, <1>3
  <2>5. V1Words # <<>> /\ Head(V1Words) = V1Words[1] /\ V1Words' = Tail(V1Words)
    BY <2>1, <2>2, <2>4, <1>2, QueuePop
  <2>6. Fifos!Queue!Pop
    BY <2>5, <1>7, <1>8, <1>11
  <2> QED BY <2>6 DEF Fifos!Queue!Next
<1>12. CASE ~push /\ ~pop
  <2>1. cnt1' = cnt1 /\ buf1' = buf1
    BY <1>1, <1>4, <1>12
  <2>2. \A i \in 1..cnt1 : V1Words'[i] = V1Words[i]
    BY <2>1, <1>2, <1>6, <1>12
  <2>3. V1Words' = V1Words
    BY <2>1, <2>2, <1>2, <1>3
  <2> QED BY <2>1, <2>3
<1> QED BY <1>9, <1>10, <1>11, <1>12

(* A step of the FIFO is a step of the queue, or leaves it alone,          *)
LEMMA FifosQueueNext ==
    INIT_CNT = 0 /\ FifosInv /\ FifosInv' /\ [Fifos!Edge]_fifosVars
        => [Fifos!Queue!Next]_<<V1Words, buf1>>
<1> SUFFICES ASSUME INIT_CNT = 0, FifosInv, FifosInv', [Fifos!Edge]_fifosVars
             PROVE  [Fifos!Queue!Next]_<<V1Words, buf1>>
  OBVIOUS
<1>1. V1Inv /\ V1Inv'
  BY DEF V1Inv, FifosInv, PairInv
<1>2. CASE Fifos!Edge
  <2>1. PICK rst \in BOOLEAN, w_req \in BOOLEAN, r_req \in BOOLEAN, w \in Word :
          /\ nrst' = rst
          /\ Fifos!V1!Edge(rst, w_req, w, r_req)
          /\ offered' = IF rst /\ w_req THEN w ELSE offered
    BY <1>2 DEF Fifos!Edge
  <2>2. CASE ~rst
    <3>1. cnt1' = 0
      BY <2>1, <2>2 DEF Fifos!V1!Edge, Fifos!V1!Reset
    <3>2. V1Words' = <<>>
      BY <3>1 DEF V1Words
    <3>3. ~nrst'
      BY <2>1, <2>2
    <3> QED BY <3>2, <3>3 DEF Fifos!Queue!Next, Fifos!Queue!Discard, V1Words
  <2>3. CASE rst
    <3>1. V1After(w_req, r_req, w)
      BY <1>1, <2>1, <2>3, V1Moves DEF V1Inv
    <3>2. w_req => offered' = w
      BY <2>1, <2>3
    <3> QED BY <1>1, <3>1, <3>2, V1QueueEdge
  <2> QED BY <2>2, <2>3
<1>3. CASE UNCHANGED fifosVars
  BY <1>3 DEF fifosVars, V1Words
<1> QED BY <1>2, <1>3

(* it starts empty,                                                        *)
LEMMA FifosQueueInit == INIT_CNT = 0 /\ Fifos!Init => Fifos!Queue!Init
BY DEF Fifos!Queue!Init, Fifos!Init, Fifos!V1!Init

(* and so is a queue of DEPTH words.                                       *)
LEMMA FifosQueue ==
    ASSUME INIT_CNT = 0
    PROVE  Fifos!Init /\ [][Fifos!Edge]_fifosVars => Fifos!RefinesQueue
<1>1. Fifos!Init => FifosInv
  BY FifosInit
<1>2. FifosInv /\ [Fifos!Edge]_fifosVars => FifosInv'
  BY FifosInvNext
<1>3. FifosInv /\ FifosInv' /\ [Fifos!Edge]_fifosVars => [Fifos!Queue!Next]_<<V1Words, buf1>>
  BY FifosQueueNext
<1>4. Fifos!Init => Fifos!Queue!Init
  BY FifosQueueInit
<1> QED BY <1>1, <1>2, <1>3, <1>4, PTL DEF Fifos!RefinesQueue, Fifos!Queue!Spec, Fifos!Queue!vars, V1Words
------------------------------------------------------------------------------
(***************************************************************************)
(* ready_skid: Skid!Inv is inductive, and under it every step is a step of *)
(* the two word queue.                                                     *)
(***************************************************************************)
LEMMA SkidInit == Skid!Init => Skid!Inv
BY WordAssumption DEF Skid!Init, Skid!Inv, Skid!TypeOK, Skid!NoDataLost

(* A clock edge: a word only goes to the backup behind a stalled word, and *)
(* stops the source as it goes.                                            *)
LEMMA SkidClocked ==
    ASSUME Skid!Inv, ~skid_arst, NEW ready_o \in BOOLEAN, NEW valid_i \in BOOLEAN, NEW dat_i \in Word,
           Skid!Clocked(ready_o, valid_i, dat_i)
    PROVE  Skid!Inv'
<1> DEFINE leaving == valid_o /\ ready_o
           accept == ready_i /\ valid_i
           toMain == accept /\ (ready_o \/ ~valid_o)
           toBackup == accept /\ ~(ready_o \/ ~valid_o)
           dumping == leaving /\ backup_valid
<1>1. /\ ready_i' = (ready_o /\ ~toBackup)
      /\ valid_o' = (toMain \/ dumping \/ (valid_o /\ ~leaving))
      /\ dat_o' = IF toMain THEN dat_i ELSE IF dumping THEN backup_storage ELSE dat_o
      /\ backup_valid' = (toBackup \/ (backup_valid /\ ~dumping))
      /\ backup_storage' = IF toBackup THEN dat_i ELSE backup_storage
      /\ taken' = IF leaving THEN dat_o ELSE taken
      /\ skid_offered' = IF valid_i THEN dat_i ELSE skid_offered
      /\ skid_arst' = skid_arst
  BY DEF Skid!Clocked, Skid!NextReady, Skid!AcceptToMain, Skid!Dumping
<1>2. Skid!TypeOK
  BY DEF Skid!Inv
<1> HIDE DEF leaving, accept, toMain, toBackup, dumping
<1>3. {dat_o', backup_storage', taken', skid_offered'} \subseteq Word
  BY <1>1, <1>2 DEF Skid!TypeOK
<1>4. {skid_arst', ready_i', valid_o', backup_valid'} \subseteq BOOLEAN
  BY <1>1, <1>2 DEF Skid!TypeOK, leaving, accept, toMain, toBackup, dumping
<1>5. Skid!TypeOK'
  BY <1>3, <1>4 DEF Skid!TypeOK
<1>6. Skid!NoDataLost'
  BY <1>1 DEF Skid!Inv, Skid!NoDataLost, leaving, accept, toMain, toBackup, dumping
<1> QED BY <1>5, <1>6 DEF Skid!Inv

(* No step leaves the invariant. *)
LEMMA SkidInvNext == Skid!Inv /\ [Skid!Next]_skidVars => Skid!Inv'
<1> SUFFICES ASSUME Skid!Inv, [Skid!Next]_skidVars PROVE Skid!Inv'
  OBVIOUS
<1>1. CASE Skid!AssertArst
  BY <1>1, WordAssumption DEF Skid!AssertArst, Skid!Inv, Skid!TypeOK, Skid!NoDataLost
<1>2. CASE Skid!ReleaseArst
  BY <1>2 DEF Skid!ReleaseArst, Skid!regs, Skid!Inv, Skid!TypeOK, Skid!NoDataLost
<1>3. CASE Skid!Edge(TRUE) \/ Skid!Edge(FALSE)
  <2>1. PICK ready_o \in BOOLEAN : Skid!Edge(ready_o)
    BY <1>3
  <2>2. PICK valid_i \in BOOLEAN, dat_i \in Word : ~skid_arst /\ Skid!Clocked(ready_o, valid_i, dat_i)
    BY <2>1 DEF Skid!Edge
  <2> QED BY <2>2, SkidClocked
<1>4. CASE UNCHANGED skidVars
  BY <1>4 DEF skidVars, Skid!regs, Skid!Inv, Skid!TypeOK, Skid!NoDataLost
<1> QED BY <1>1, <1>2, <1>3, <1>4 DEF Skid!Next

(* So it is kept for ever.                                                 *)
LEMMA SkidInvHolds == Skid!Init /\ [][Skid!Next]_skidVars => []Skid!Inv
BY SkidInit, SkidInvNext, PTL

(* The queue that the two registers make. *)
LEMMA SkidContentShape ==
    ASSUME Skid!Inv
    PROVE  /\ ~valid_o => Skid!Content = <<>> /\ ~backup_valid
           /\ valid_o /\ ~backup_valid => Skid!Content = <<dat_o>>
           /\ backup_valid => Skid!Content = <<dat_o, backup_storage>> /\ valid_o /\ ~ready_i
BY DEF Skid!Inv, Skid!NoDataLost, Skid!Content

(* The operations of the queue on at most two words. *)
LEMMA SmallQueues ==
    ASSUME NEW a \in Word, NEW b \in Word
    PROVE  /\ Len(<<>>) = 0 /\ Len(<<a>>) = 1 /\ Len(<<a, b>>) = 2
           /\ <<>> # <<a>> /\ <<>> # <<a, b>>
           /\ Append(<<>>, a) = <<a>> /\ Append(<<a>>, b) = <<a, b>>
           /\ Head(<<a>>) = a /\ Tail(<<a>>) = <<>>
           /\ Head(<<a, b>>) = a /\ Tail(<<a, b>>) = <<b>>
<1>1. Len(<<>>) = 0 /\ Len(<<a>>) = 1 /\ Len(<<a, b>>) = 2
  OBVIOUS
<1>2. <<>> # <<a>> /\ <<>> # <<a, b>>
  OBVIOUS
<1>3. Append(<<>>, a) = <<a>>
  OBVIOUS
<1>4. Append(<<a>>, b) = <<a, b>>
  <2>1. <<a>> \in Seq(Word) /\ <<a, b>> \in Seq(Word)
    OBVIOUS
  <2>2. /\ Append(<<a>>, b) \in Seq(Word) /\ Len(Append(<<a>>, b)) = 2
        /\ Append(<<a>>, b)[1] = a /\ Append(<<a>>, b)[2] = b
    BY <2>1, AppendProperties
  <2>3. \A i \in 1..2 : Append(<<a>>, b)[i] = <<a, b>>[i]
    BY <2>2
  <2> QED BY <1>1, <2>1, <2>2, <2>3, SeqEqual
<1>5. Head(<<a>>) = a /\ Head(<<a, b>>) = a
  OBVIOUS
<1>6. Tail(<<a>>) = <<>>
  OBVIOUS
<1>7. Tail(<<a, b>>) = <<b>>
  OBVIOUS
<1> QED BY <1>1, <1>2, <1>3, <1>4, <1>5, <1>6, <1>7

(* Every step accepts a word, delivers the oldest, does both, discards all *)
(* in reset, or leaves the queue alone.                                    *)
LEMMA SkidQueueClocked ==
    ASSUME Skid!Inv, Skid!Inv', NEW ready_o \in BOOLEAN, NEW valid_i \in BOOLEAN, NEW dat_i \in Word,
           Skid!Clocked(ready_o, valid_i, dat_i)
    PROVE  [Skid!Queue!Next]_<<Skid!Content, taken>>
<1> USE SmallQueues
<1>w. {dat_o, backup_storage, taken, dat_i} \subseteq Word
  BY DEF Skid!Inv, Skid!TypeOK
<1>1. CASE ~valid_o /\ ready_i /\ valid_i
  <2>1. Skid!Content = <<>> /\ Skid!Content' = <<dat_i>> /\ skid_offered' = dat_i /\ taken' = taken
    BY <1>1, SkidContentShape DEF Skid!Clocked, Skid!NextReady, Skid!AcceptToMain, Skid!Dumping, Skid!Content
  <2>2. Skid!Queue!Push
    BY <2>1, <1>w DEF Skid!Queue!Push
  <2> QED BY <2>2 DEF Skid!Queue!Next
<1>2. CASE ~valid_o /\ ~(ready_i /\ valid_i)
  BY <1>2, SkidContentShape DEF Skid!Clocked, Skid!NextReady, Skid!AcceptToMain, Skid!Dumping, Skid!Content
<1>3. CASE valid_o /\ ~ready_o /\ ready_i /\ valid_i
  <2>1. Skid!Content = <<dat_o>> /\ Skid!Content' = <<dat_o, dat_i>> /\ skid_offered' = dat_i /\ taken' = taken
    BY <1>3, SkidContentShape DEF Skid!Clocked, Skid!NextReady, Skid!AcceptToMain, Skid!Dumping, Skid!Content
  <2>2. Skid!Queue!Push
    BY <2>1, <1>w DEF Skid!Queue!Push
  <2> QED BY <2>2 DEF Skid!Queue!Next
<1>4. CASE valid_o /\ ~ready_o /\ ~(ready_i /\ valid_i)
  BY <1>4, SkidContentShape DEF Skid!Clocked, Skid!NextReady, Skid!AcceptToMain, Skid!Dumping, Skid!Content
<1>5. CASE valid_o /\ ready_o /\ ready_i /\ valid_i
  <2>1. Skid!Content = <<dat_o>> /\ Skid!Content' = <<dat_i>> /\ skid_offered' = dat_i /\ taken' = dat_o
    BY <1>5, SkidContentShape DEF Skid!Clocked, Skid!NextReady, Skid!AcceptToMain, Skid!Dumping, Skid!Content
  <2>2. Skid!Queue!PushPop
    BY <2>1, <1>w DEF Skid!Queue!PushPop
  <2> QED BY <2>2 DEF Skid!Queue!Next
<1>6. CASE valid_o /\ ready_o /\ ~(ready_i /\ valid_i)
  <2>1. CASE backup_valid
    <3>1. Skid!Content = <<dat_o, backup_storage>> /\ Skid!Content' = <<backup_storage>> /\ taken' = dat_o
      BY <1>6, <2>1, SkidContentShape DEF Skid!Clocked, Skid!NextReady, Skid!AcceptToMain, Skid!Dumping, Skid!Content
    <3>2. Skid!Queue!Pop
      BY <3>1, <1>w DEF Skid!Queue!Pop
    <3> QED BY <3>2 DEF Skid!Queue!Next
  <2>2. CASE ~backup_valid
    <3>1. Skid!Content = <<dat_o>> /\ Skid!Content' = <<>> /\ taken' = dat_o
      BY <1>6, <2>2, SkidContentShape DEF Skid!Clocked, Skid!NextReady, Skid!AcceptToMain, Skid!Dumping, Skid!Content
    <3>2. Skid!Queue!Pop
      BY <3>1, <1>w DEF Skid!Queue!Pop
    <3> QED BY <3>2 DEF Skid!Queue!Next
  <2> QED BY <2>1, <2>2
<1> QED BY <1>1, <1>2, <1>3, <1>4, <1>5, <1>6

LEMMA SkidQueueInit == Skid!Init => Skid!Queue!Init
BY DEF Skid!Init, Skid!Queue!Init, Skid!Content

LEMMA SkidQueueNext == Skid!Inv /\ Skid!Inv' /\ [Skid!Next]_skidVars => [Skid!Queue!Next]_<<Skid!Content, taken>>
<1> SUFFICES ASSUME Skid!Inv, Skid!Inv', [Skid!Next]_skidVars PROVE [Skid!Queue!Next]_<<Skid!Content, taken>>
  OBVIOUS
<1>1. CASE Skid!AssertArst
  <2>1. skid_arst' /\ Skid!Content' = <<>>
    BY <1>1 DEF Skid!AssertArst, Skid!Content
  <2> QED BY <2>1 DEF Skid!Queue!Next, Skid!Queue!Discard
<1>2. CASE Skid!ReleaseArst
  BY <1>2 DEF Skid!ReleaseArst, Skid!regs, Skid!Content
<1>3. CASE Skid!Edge(TRUE) \/ Skid!Edge(FALSE)
  <2>1. PICK ready_o \in BOOLEAN : Skid!Edge(ready_o)
    BY <1>3
  <2>2. PICK valid_i \in BOOLEAN, dat_i \in Word : Skid!Clocked(ready_o, valid_i, dat_i)
    BY <2>1 DEF Skid!Edge
  <2> QED BY <2>2, SkidQueueClocked
<1>4. CASE UNCHANGED skidVars
  BY <1>4 DEF skidVars, Skid!regs, Skid!Content
<1> QED BY <1>1, <1>2, <1>3, <1>4 DEF Skid!Next

LEMMA SkidQueue == Skid!Init /\ [][Skid!Next]_skidVars => Skid!RefinesQueue
<1>1. Skid!Inv /\ Skid!Inv' /\ [Skid!Next]_skidVars => [Skid!Queue!Next]_(Skid!Queue!vars)
  BY SkidQueueNext DEF Skid!Queue!vars
<1> QED BY <1>1, SkidQueueInit, SkidInvHolds, PTL DEF Skid!RefinesQueue, Skid!Queue!Spec

------------------------------------------------------------------------------

(* A step of the whole is, for each unit, a step of it or none.            *)
LEMMA UnitSteps ==
    [AllNext]_allVars => /\ [Next]_dcfifoVars /\ [Skid!Next]_skidVars /\ [Rx!Next]_rxVars
                         /\ [Tx!Next]_txVars /\ [Strobe!Next]_strobeVars
                         /\ [Fifos!Edge]_fifosVars
BY DEF AllNext, allVars, SkidStep, RxStep, StrobeStep

(* The safety part of AllSpec.                                             *)
LEMMA AllSafety == AllSpec => AllInit /\ [][AllNext]_allVars
BY PTL DEF AllSpec

(***************************************************************************)
(* LossIffOverflow: rx_buffer_fifo_2 loses a word exactly when it raises   *)
(* overflow, whatever its words are.                                       *)
(***************************************************************************)
THEOREM LossIffOverflowCorrect == AllSpec => []LossIffOverflow
<1>1. AllInit => RxInv
  BY RxInit DEF AllInit
<1>2. RxInv /\ [AllNext]_allVars => RxInv'
  BY UnitSteps, RxInvNext
<1> QED BY <1>1, <1>2, AllSafety, RxInvGives, PTL

(***************************************************************************)
(* TxReady: the late ready of tx_buffer_fifo_8word never lets a write meet *)
(* full stores, and each request is answered or reported as an underflow.  *)
(***************************************************************************)
THEOREM TxReadyCorrect == AllSpec => []TxReady
<1>1. AllInit => TxInv
  BY TxInit DEF AllInit
<1>2. TxInv /\ [AllNext]_allVars => TxInv'
  BY UnitSteps, TxInvNext
<1>3. TxInv => TxReady
  BY DEF TxInv, TxReady
<1> QED BY <1>1, <1>2, <1>3, AllSafety, PTL

(***************************************************************************)
(* NoEventLost: with strb1 low in reset, cdc_strobe loses no paced event   *)
(* and makes no strobe out of nothing but the torn one after a reset,      *)
(* however the clocks and resets interleave and whatever each flop of the  *)
(* two stages makes of a counter that changes at its edge.                 *)
(***************************************************************************)
THEOREM NoEventLostCorrect ==
    ASSUME ~StrobeInReset
    PROVE  AllSpec => []NoEventLost
<1>1. AllInit => StrobeInv
  BY StrobeInit DEF AllInit
<1>2. StrobeInv /\ [AllNext]_allVars => StrobeInv'
  BY UnitSteps, StrobeInvNext
<1>3. StrobeInv => NoEventLost
  BY DEF StrobeInv, NoEventLost, Strobe!NoEventLost, Strobe!NoSpuriousStrobe
<1> QED BY <1>1, <1>2, <1>3, AllSafety, PTL

(***************************************************************************)
(* SameView: the single clock FIFOs of any DEPTH, started empty, look      *)
(* alike from outside.                                                     *)
(***************************************************************************)
THEOREM SameViewCorrect ==
    ASSUME INIT_CNT = 0
    PROVE  AllSpec => []SameView
<1>1. AllInit => FifosInv
  BY FifosInit DEF AllInit
<1>2. FifosInv /\ [AllNext]_allVars => FifosInv'
  BY UnitSteps, FifosInvNext
<1>3. FifosInv => SameView
  BY FifosView DEF SameView
<1> QED BY <1>1, <1>2, <1>3, AllSafety, PTL

(***************************************************************************)
(* The two variants of fifo_single_clock_reg look alike also when a reset  *)
(* leaves words in them, as long as there is a free place.                 *)
(***************************************************************************)
THEOREM VariantsAlike ==
    ASSUME INIT_CNT < DEPTH
    PROVE  AllSpec => []Fifos!OperateIdentically
<1>1. AllInit => PairInv
  BY FifosInit DEF AllInit
<1>2. PairInv /\ [AllNext]_allVars => PairInv'
  BY UnitSteps, PairInvNext
<1> QED BY <1>1, <1>2, PairView, AllSafety, PTL

(***************************************************************************)
(* QueuesKept: the transmit buffer is a queue of eight words, and the      *)
(* single clock FIFO, started empty, one of DEPTH words: nothing is lost,  *)
(* repeated or reordered.                                                  *)
(***************************************************************************)
THEOREM QueuesKeptCorrect ==
    ASSUME INIT_CNT = 0
    PROVE  AllSpec => QueuesKept
<1>1. AllSpec => Tx!Init /\ [][Tx!Next]_txVars
  <2>1. AllInit => Tx!Init
    BY DEF AllInit
  <2>2. [AllNext]_allVars => [Tx!Next]_txVars
    BY UnitSteps
  <2> QED BY <2>1, <2>2, AllSafety, PTL
<1>2. AllSpec => Fifos!Init /\ [][Fifos!Edge]_fifosVars
  <2>1. AllInit => Fifos!Init
    BY DEF AllInit
  <2>2. [AllNext]_allVars => [Fifos!Edge]_fifosVars
    BY UnitSteps
  <2> QED BY <2>1, <2>2, AllSafety, PTL
<1>3. AllSpec => Tx!RefinesQueue
  BY <1>1, TxQueue, PTL
<1>4. AllSpec => Fifos!RefinesQueue
  BY <1>2, FifosQueue, PTL
<1> QED BY <1>3, <1>4 DEF QueuesKept

(***************************************************************************)
(* The source never sees ready while the backup is occupied: the error the *)
(* code watches for, "data lost in skid buffer", cannot happen.            *)
(***************************************************************************)
THEOREM SkidInvCorrect == AllSpec => []Skid!Inv
<1>1. AllSpec => Skid!Init /\ [][Skid!Next]_skidVars
  <2>1. AllInit => Skid!Init
    BY DEF AllInit
  <2>2. [AllNext]_allVars => [Skid!Next]_skidVars
    BY UnitSteps
  <2> QED BY <2>1, <2>2, AllSafety, PTL
<1> QED BY <1>1, SkidInvHolds, PTL

(***************************************************************************)
(* RefinesQueue: ready_skid is a queue of two words; for all stalls of the *)
(* sink and pauses of the source no word is lost, repeated or overtaken.   *)
(***************************************************************************)
THEOREM SkidQueueCorrect == AllSpec => RefinesQueue
<1>1. AllSpec => Skid!Init /\ [][Skid!Next]_skidVars
  <2>1. AllInit => Skid!Init
    BY DEF AllInit
  <2>2. [AllNext]_allVars => [Skid!Next]_skidVars
    BY UnitSteps
  <2> QED BY <2>1, <2>2, AllSafety, PTL
<1> QED BY <1>1, SkidQueue, PTL DEF RefinesQueue

(***************************************************************************)
(* Inv: the pointers of the dual clock FIFO keep their order, whichever    *)
(* unit is at work.                                                        *)
(***************************************************************************)
THEOREM DcFifoCorrect == AllSpec => []Inv
<1>1. AllInit => TypeOK /\ Inv
  BY TypeInit, InvInit DEF AllInit
<1>2. TypeOK /\ Inv /\ [AllNext]_allVars => TypeOK' /\ Inv'
  BY UnitSteps, TypeNext, InvNext DEF dcfifoVars
<1> QED BY <1>1, <1>2, AllSafety, PTL
==============================================================================
