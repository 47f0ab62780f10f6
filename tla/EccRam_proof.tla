---------------------------- MODULE EccRam_proof ----------------------------
(***************************************************************************)
(* TLAPS proofs about EccRam and the codes of EccCode: for every word of   *)
(* every width and any one, two or three wrong bits the decoders answer as *)
(* they promise, and the memory reads back what was written, for any size, *)
(* any injected bits and any number of writes and upsets.  The tables are  *)
(* shown to say the same of every data bit; then encoder and syndrome are  *)
(* parities, and parities of sums are sums of parities.                    *)
(***************************************************************************)
EXTENDS EccRam, WellFoundedInduction, FiniteSetTheorems, TLAPS

(* A set of natural numbers has a least element.                           *)
LEMMA Least ==
    ASSUME NEW T, T \subseteq Nat, T # {}
    PROVE  \E x \in T : \A y \in T : x <= y
<1>1. IsWellFoundedOn(OpToRel(<, Nat), Nat)
  BY NatLessThanWellFounded
<1>2. PICK x \in T : \A y \in T : <<y, x>> \notin OpToRel(<, Nat)
  BY <1>1, WFMin
<1>3. \A y \in T : <<y, x>> \in Nat \X Nat
  BY <1>2
<1>4. \A y \in T : ~(y < x)
  BY <1>2, <1>3 DEF OpToRel
<1>5. \A y \in T : x <= y
  BY <1>4
<1> QED BY <1>5

(* Induction, for sets of numbers: no number is the least one left out.    *)
LEMMA Induct ==
    ASSUME NEW T, 0 \in T, \A n \in Nat : n \in T => n + 1 \in T
    PROVE  Nat \subseteq T
<1> DEFINE B == Nat \ T
<1>1. ASSUME B # {} PROVE FALSE
  <2>1. PICK x \in B : \A y \in B : x <= y
    <3>1. B \subseteq Nat
      OBVIOUS
    <3> HIDE DEF B
    <3> QED BY <1>1, <3>1, Least
  <2>2. x # 0 /\ x \in Nat
    OBVIOUS
  <2>3. x - 1 \in Nat /\ ~(x <= x - 1) /\ (x - 1) + 1 = x
    BY <2>2
  <2>4. x - 1 \in T
    BY <2>1, <2>3
  <2> QED BY <2>3, <2>4
<1> QED BY <1>1
------------------------------------------------------------------------------
(***************************************************************************)
(* Parity.                                                                 *)
(***************************************************************************)
LEMMA OddEmpty == ~Odd({})
BY FS_EmptySet DEF Odd

LEMMA OddSingle == \A val : Odd({val})
<1> SUFFICES ASSUME NEW val PROVE Cardinality({val}) = 1
  BY DEF Odd
<1> QED BY FS_Singleton

(* One more member changes the parity.                                     *)
LEMMA OddAdd ==
    ASSUME NEW A, NEW val, IsFiniteSet(A), val \notin A
    PROVE  Odd(A \cup {val}) <=> ~Odd(A)
<1>1. Cardinality(A \cup {val}) = Cardinality(A) + 1 /\ Cardinality(A) \in Nat
  BY FS_AddElement, FS_CardinalityType
<1> QED BY <1>1 DEF Odd

(* The parity of an exclusive or is the exclusive or of the parities.      *)
LEMMA OddUnion ==
    ASSUME NEW A, NEW B, IsFiniteSet(A), IsFiniteSet(B), A \cap B = {}
    PROVE  Odd(A \cup B) <=> ~(Odd(A) <=> Odd(B))
<1>1. Cardinality(A \cup B) = Cardinality(A) + Cardinality(B) - Cardinality({})
  BY FS_Union
<1>2. Cardinality(A) \in Nat /\ Cardinality(B) \in Nat /\ Cardinality({}) = 0
  BY FS_CardinalityType, FS_EmptySet
<1>3. Cardinality(A \cup B) = Cardinality(A) + Cardinality(B)
  BY <1>1, <1>2
<1> DEFINE a == Cardinality(A)
           b == Cardinality(B)
<1>4. (a + b) % 2 = 1 <=> ~((a % 2 = 1) <=> (b % 2 = 1))
  <2> a \in Nat /\ b \in Nat
    BY <1>2
  <2> HIDE DEF a, b
  <2> QED OBVIOUS
<1> QED BY <1>3, <1>4 DEF Odd

LEMMA OddSymDiff ==
    ASSUME NEW A, NEW B, IsFiniteSet(A), IsFiniteSet(B)
    PROVE  Odd(SymDiff(A, B)) <=> ~(Odd(A) <=> Odd(B))
<1> DEFINE both == A \cap B
<1>1. IsFiniteSet(A \ B) /\ IsFiniteSet(B \ A) /\ IsFiniteSet(both)
  BY FS_Difference, FS_Intersection
<1>2. Odd((A \ B) \cup (B \ A)) <=> ~(Odd(A \ B) <=> Odd(B \ A))
  <2>1. (A \ B) \cap (B \ A) = {}
    OBVIOUS
  <2> QED BY <1>1, <2>1, OddUnion
<1>3. Odd(A) <=> ~(Odd(A \ B) <=> Odd(both))
  <2>1. A = (A \ B) \cup both /\ (A \ B) \cap both = {}
    OBVIOUS
  <2> HIDE DEF both
  <2> QED BY <1>1, <2>1, OddUnion
<1>4. Odd(B) <=> ~(Odd(B \ A) <=> Odd(both))
  <2>1. B = (B \ A) \cup both /\ (B \ A) \cap both = {}
    OBVIOUS
  <2> HIDE DEF both
  <2> QED BY <1>1, <2>1, OddUnion
<1> QED BY <1>2, <1>3, <1>4 DEF SymDiff
------------------------------------------------------------------------------
(***************************************************************************)
(* Ascending lists a set of numbers.                                       *)
(***************************************************************************)
Rank(set, val) == Cardinality({less \in set : less < val})

LEMMA RankHolds ==
    ASSUME NEW set \in SUBSET Nat, IsFiniteSet(set)
    PROVE  /\ \A val \in set : Rank(set, val) \in 0..(Cardinality(set) - 1)
           /\ \A val \in set, more \in set : val < more => Rank(set, val) < Rank(set, more)
<1>0. ASSUME NEW val \in set PROVE Rank(set, val) < Cardinality(set) /\ Rank(set, val) \in Nat
  <2> DEFINE low == {less \in set : less < val}
  <2>1. val \notin low /\ low \in SUBSET set /\ low # set
    OBVIOUS
  <2>2. IsFiniteSet(low) /\ Cardinality(low) <= Cardinality(set) /\ Cardinality(low) # Cardinality(set)
    <3> HIDE DEF low
    <3> QED BY <2>1, FS_Subset
  <2>3. Cardinality(low) \in Nat /\ Cardinality(set) \in Nat
    BY <2>2, FS_CardinalityType
  <2> QED BY <2>2, <2>3 DEF Rank
<1>1. ASSUME NEW val \in set, NEW more \in set, val < more
      PROVE  Rank(set, val) < Rank(set, more)
  <2> DEFINE low == {less \in set : less < val}
             high == {less \in set : less < more}
  <2>1. low \in SUBSET high
    <3>1. \A less \in set : less < val => less < more
      <4>1. \A less \in set : less \in Nat
        OBVIOUS
      <4> QED BY <1>1, <4>1
    <3> QED BY <3>1
  <2>2. val \in high /\ val \notin low /\ high \in SUBSET set
    BY <1>1
  <2>3. IsFiniteSet(high)
    <3> HIDE DEF low, high
    <3> QED BY <2>2, FS_Subset
  <2>4. IsFiniteSet(low) /\ Cardinality(low) <= Cardinality(high) /\ Cardinality(low) # Cardinality(high)
    <3> HIDE DEF low, high
    <3> QED BY <2>1, <2>2, <2>3, FS_Subset
  <2>5. Cardinality(low) \in Nat /\ Cardinality(high) \in Nat
    BY <2>3, <2>4, FS_CardinalityType
  <2> QED BY <2>4, <2>5 DEF Rank
<1>2. Cardinality(set) \in Nat
  BY FS_CardinalityType
<1> QED BY <1>0, <1>1, <1>2

LEMMA RankInjective ==
    ASSUME NEW set \in SUBSET Nat, IsFiniteSet(set)
    PROVE  \A val, more \in set : Rank(set, val) = Rank(set, more) => val = more
<1> SUFFICES ASSUME NEW val \in set, NEW more \in set, Rank(set, val) = Rank(set, more)
             PROVE  val = more
  OBVIOUS
<1>1. val \in Nat /\ more \in Nat
  OBVIOUS
<1>2. Rank(set, val) \in Nat /\ Rank(set, more) \in Nat
  BY RankHolds, FS_CardinalityType
<1> QED BY <1>1, <1>2, RankHolds

LEMMA AscendingHolds ==
    ASSUME NEW set \in SUBSET Nat, IsFiniteSet(set)
    PROVE  /\ Cardinality(set) \in Nat
           /\ Ascending(set) \in [1..Cardinality(set) -> set]
           /\ \A rank \in 1..Cardinality(set) : Rank(set, Ascending(set)[rank]) = rank - 1
           /\ \A val \in set : \E rank \in 1..Cardinality(set) : Ascending(set)[rank] = val
           /\ \A rank, other \in 1..Cardinality(set) :
                Ascending(set)[rank] = Ascending(set)[other] => rank = other
<1> DEFINE size == Cardinality(set)
           ranks == [val \in set |-> Rank(set, val)]
<1>1. size \in Nat
  BY FS_CardinalityType
<1>2. ranks \in [set -> 0..(size - 1)]
  BY RankHolds
<1>3. ranks \in Injection(set, 0..(size - 1))
  <2>1. \A val, more \in set : ranks[val] = ranks[more] => val = more
    BY RankInjective
  <2> HIDE DEF ranks
  <2> QED BY <1>2, <2>1 DEF Injection, IsInjective
<1>4. IsFiniteSet(0..(size - 1)) /\ Cardinality(0..(size - 1)) = size
  <2> HIDE DEF size
  <2>1. 0 \in Int /\ size - 1 \in Int /\ (size - 1) - 0 + 1 = size /\ (0 > size - 1 => size = 0)
    BY <1>1
  <2> QED BY <2>1, FS_Interval
<1>5. ranks \in Surjection(set, 0..(size - 1))
  <2> HIDE DEF ranks
  <2> QED BY <1>3, <1>4, FS_Injection
<1>6. ASSUME NEW rank \in 1..size PROVE \E val \in set : Rank(set, val) = rank - 1
  <2>1. rank - 1 \in 0..(size - 1)
    BY <1>1
  <2>2. \E val \in set : ranks[val] = rank - 1
    <3> HIDE DEF ranks
    <3> QED BY <1>5, <2>1 DEF Surjection
  <2> QED BY <2>2
<1>7. ASSUME NEW rank \in 1..size
      PROVE  Ascending(set)[rank] \in set /\ Rank(set, Ascending(set)[rank]) = rank - 1
  <2>1. Ascending(set)[rank] = CHOOSE val \in set : Rank(set, val) = rank - 1
    BY DEF Ascending, Rank
  <2>2. PICK val \in set : Rank(set, val) = rank - 1
    BY <1>6
  <2> QED BY <2>1, <2>2, Zenon
<1>8. Ascending(set) \in [1..size -> set]
  <2> DEFINE Item(rank) == CHOOSE val \in set : Cardinality({less \in set : less < val}) = rank - 1
  <2>1. Ascending(set) = [rank \in 1..size |-> Item(rank)]
    BY DEF Ascending
  <2> HIDE DEF Item
  <2> QED BY <1>7, <2>1
<1>9. \A val, more \in set : Rank(set, val) = Rank(set, more) => val = more
  BY RankInjective
<1>10. ASSUME NEW val \in set PROVE \E rank \in 1..size : Ascending(set)[rank] = val
  <2>1. Rank(set, val) + 1 \in 1..size /\ Rank(set, val) \in Nat
    BY <1>1, RankHolds
  <2>2. Rank(set, Ascending(set)[Rank(set, val) + 1]) = Rank(set, val)
    BY <2>1, <1>7
  <2> DEFINE rank == Rank(set, val) + 1
  <2>3. rank \in 1..size /\ Ascending(set)[rank] \in set
    BY <2>1, <1>7
  <2>4. Ascending(set)[rank] = val
    BY <1>9, <2>2, <2>3
  <2> QED BY <2>3, <2>4
<1>11. ASSUME NEW rank \in 1..size, NEW other \in 1..size,
              Ascending(set)[rank] = Ascending(set)[other]
       PROVE  rank = other
  BY <1>7, <1>11
<1> QED BY <1>1, <1>7, <1>8, <1>10, <1>11

(* The list of the small members is the beginning of the list.             *)
LEMMA AscendingBegins ==
    ASSUME NEW set \in SUBSET Nat, IsFiniteSet(set), NEW top \in Nat
    PROVE  LET low == {val \in set : val <= top}
           IN  \A rank \in 1..Cardinality(low) : /\ rank \in 1..Cardinality(set)
                                                 /\ Ascending(low)[rank] = Ascending(set)[rank]
<1> DEFINE low == {val \in set : val <= top}
<1>1. low \in SUBSET set /\ low \in SUBSET Nat
  OBVIOUS
<1>2. IsFiniteSet(low) /\ Cardinality(low) <= Cardinality(set)
  <2> HIDE DEF low
  <2> QED BY <1>1, FS_Subset
<1>3. ASSUME NEW val \in low PROVE Rank(low, val) = Rank(set, val)
  <2>1. \A less \in set : less < val => less <= top
    <3>1. \A less \in set : less \in Nat
      OBVIOUS
    <3> QED BY <3>1
  <2>2. {less \in low : less < val} = {less \in set : less < val}
    BY <2>1
  <2> QED BY <2>2 DEF Rank
<1> SUFFICES ASSUME NEW rank \in 1..Cardinality(low)
             PROVE  /\ rank \in 1..Cardinality(set)
                    /\ Ascending(low)[rank] = Ascending(set)[rank]
  OBVIOUS
<1> HIDE DEF low
<1>4. rank \in 1..Cardinality(set)
  BY <1>1, <1>2, FS_CardinalityType
<1>5. Ascending(low)[rank] \in low /\ Rank(low, Ascending(low)[rank]) = rank - 1
  BY <1>1, <1>2, AscendingHolds
<1>6. Ascending(set)[rank] \in set /\ Rank(set, Ascending(set)[rank]) = rank - 1
  BY <1>4, AscendingHolds
<1>7. Rank(set, Ascending(low)[rank]) = Rank(set, Ascending(set)[rank])
  BY <1>3, <1>5, <1>6
<1>8. \A val, more \in set : Rank(set, val) = Rank(set, more) => val = more
  BY RankInjective
<1> QED BY <1>1, <1>4, <1>5, <1>6, <1>7, <1>8
------------------------------------------------------------------------------
(***************************************************************************)
(* A tree of helpers, six terms to a helper, is the exclusive or of all of *)
(* them, however many there are.                                           *)
(***************************************************************************)
LEMMA XorIsParity ==
    ASSUME NEW terms \in SUBSET Nat, IsFiniteSet(terms), NEW inputs
    PROVE  Xor(Helpers(terms), inputs) <=> Odd(terms \cap inputs)
<1> DEFINE size == Cardinality(terms)
           order == Ascending(terms)
           Box(at) == (at - 1) \div 6
           Group(helper) == {order[at] : at \in {k \in 1..size : Box(k) = helper}}
           Under(helper) == {order[at] : at \in {k \in 1..size : Box(k) < helper}}
           Hot(helper) == {Group(g) : g \in {f \in 0..(helper - 1) : Odd(Group(f) \cap inputs)}}
           last == size \div 6
<1>1. size \in Nat /\ last \in Nat /\ \A at \in 1..size : Box(at) \in 0..last
  <2>1. size \in Nat
    BY FS_CardinalityType
  <2> HIDE DEF size
  <2> QED BY <2>1
<1>2. /\ order \in [1..size -> terms]
      /\ \A val \in terms : \E at \in 1..size : order[at] = val
      /\ \A at, other \in 1..size : order[at] = order[other] => at = other
  BY AscendingHolds
<1>3. Len(order) = size
  <2> HIDE DEF order, size
  <2> QED BY <1>1, <1>2
<1>4. Helpers(terms) = {Group(helper) : helper \in 0..last}
  BY <1>3 DEF Helpers, lutsize
<1> HIDE DEF size, order, last, Box
<1>5. ASSUME NEW helper \in Nat
      PROVE  /\ Under(helper + 1) = Under(helper) \cup Group(helper)
             /\ Under(helper) \cap Group(helper) = {}
             /\ Under(helper) \in SUBSET terms /\ Group(helper) \in SUBSET terms
  <2>1. \A k \in 1..size : Box(k) < helper + 1 <=> Box(k) < helper \/ Box(k) = helper
    BY <1>1
  <2>2. \A k \in 1..size : ~(Box(k) < helper /\ Box(k) = helper)
    BY <1>1
  <2>3. Under(helper + 1) = Under(helper) \cup Group(helper)
    BY <2>1
  <2>4. Under(helper) \cap Group(helper) = {}
    BY <2>2, <1>2
  <2>5. \A at \in 1..size : order[at] \in terms
    BY <1>2
  <2>6. Under(helper) \in SUBSET terms /\ Group(helper) \in SUBSET terms
    BY <2>5
  <2> QED BY <2>3, <2>4, <2>6
<1>6. ASSUME NEW A \in SUBSET terms PROVE IsFiniteSet(A \cap inputs)
  <2>1. IsFiniteSet(A)
    BY FS_Subset
  <2> QED BY <2>1, FS_Intersection
<1> DEFINE T == {helper \in Nat : /\ IsFiniteSet(Hot(helper))
                                  /\ Odd(Under(helper) \cap inputs) <=> Odd(Hot(helper))}
<1>7. 0 \in T
  <2>1. Under(0) = {}
    BY <1>1
  <2>2. Hot(0) = {}
    OBVIOUS
  <2>3. Odd(Under(0) \cap inputs) <=> Odd({})
    <3> HIDE DEF Under
    <3> QED BY <2>1
  <2> HIDE DEF Under, Hot
  <2> QED BY <2>2, <2>3, FS_EmptySet
<1>8. ASSUME NEW helper \in Nat, helper \in T PROVE helper + 1 \in T
  <2> DEFINE A == Under(helper) \cap inputs
             B == Group(helper) \cap inputs
  <2>1. Under(helper + 1) \cap inputs = A \cup B /\ A \cap B = {}
    <3> HIDE DEF Under, Group
    <3> QED BY <1>5
  <2>2. IsFiniteSet(A) /\ IsFiniteSet(B)
    <3> HIDE DEF Under, Group
    <3> QED BY <1>5, <1>6
  <2>3. Odd(A \cup B) <=> ~(Odd(A) <=> Odd(B))
    <3> HIDE DEF A, B
    <3> QED BY <2>1, <2>2, OddUnion
  <2>4. IsFiniteSet(Hot(helper)) /\ (Odd(A) <=> Odd(Hot(helper)))
    BY <1>8
  <2>5. CASE Odd(B)
    <3>1. Hot(helper + 1) = Hot(helper) \cup {Group(helper)}
      <4>1. 0..((helper + 1) - 1) = (0..(helper - 1)) \cup {helper}
        OBVIOUS
      <4> HIDE DEF Group
      <4> QED BY <2>5, <4>1
    <3>2. Group(helper) \notin Hot(helper)
      <4> SUFFICES ASSUME NEW g \in 0..(helper - 1), Group(g) = Group(helper) PROVE FALSE
        BY Zenon
      <4>1. B # {}
        BY <2>5, OddEmpty
      <4>2. PICK at \in 1..size : Box(at) = helper /\ order[at] \in Group(helper)
        BY <4>1
      <4>3. PICK k \in 1..size : Box(k) = g /\ order[k] = order[at]
        BY <4>2
      <4>4. k = at
        BY <4>3, <1>2
      <4> QED BY <4>2, <4>3, <4>4
    <3>3. IsFiniteSet(Hot(helper + 1)) /\ (Odd(Hot(helper + 1)) <=> ~Odd(Hot(helper)))
      <4> HIDE DEF Hot, Group
      <4>1. IsFiniteSet(Hot(helper) \cup {Group(helper)})
        BY <2>4, FS_AddElement
      <4> QED BY <2>4, <3>1, <3>2, <4>1, OddAdd
    <3> HIDE DEF A, B, Under, Hot, Group
    <3>4. Odd(Under(helper + 1) \cap inputs) <=> ~Odd(A)
      BY <2>1, <2>3, <2>5
    <3> QED BY <2>4, <3>3, <3>4
  <2>6. CASE ~Odd(B)
    <3>1. Hot(helper + 1) = Hot(helper)
      <4>1. 0..((helper + 1) - 1) = (0..(helper - 1)) \cup {helper}
        OBVIOUS
      <4> HIDE DEF Group
      <4> QED BY <2>6, <4>1
    <3> HIDE DEF A, B, Under, Hot, Group
    <3>2. Odd(Under(helper + 1) \cap inputs) <=> Odd(A)
      BY <2>1, <2>3, <2>6
    <3> QED BY <2>4, <3>1, <3>2
  <2> QED BY <2>5, <2>6
<1>9. last + 1 \in T
  <2> HIDE DEF T
  <2> QED BY <1>1, <1>7, <1>8, Induct
<1>10. Under(last + 1) = terms
  <2>1. \A k \in 1..size : Box(k) < last + 1
    BY <1>1
  <2>2. Under(last + 1) = {order[at] : at \in 1..size}
    BY <2>1
  <2>3. \A at \in 1..size : order[at] \in terms
    BY <1>2
  <2>4. \A val \in terms : \E at \in 1..size : order[at] = val
    BY <1>2
  <2> HIDE DEF Under
  <2> QED BY <2>2, <2>3, <2>4
<1>11. Hot(last + 1) = {group \in Helpers(terms) : Odd(group \cap inputs)}
  <2>1. (last + 1) - 1 = last
    BY <1>1
  <2> HIDE DEF Group
  <2> QED BY <2>1, <1>4
<1>12. Odd(terms \cap inputs) <=> Odd(Hot(last + 1))
  <2> HIDE DEF Under, Hot
  <2> QED BY <1>9, <1>10
<1> HIDE DEF Hot
<1> QED BY <1>11, <1>12 DEF Xor
------------------------------------------------------------------------------
(***************************************************************************)
(* The tables.                                                             *)
(***************************************************************************)
LEMMA TwoHolds ==
    /\ Two[0] = 1 /\ Two[1] = 2 /\ Two[2] = 4 /\ Two[3] = 8
    /\ Two[4] = 16 /\ Two[5] = 32 /\ Two[6] = 64 /\ Two[7] = 128
BY DEF Two

LEMMA SizesHold ==
    ASSUME NEW bits \in Sizes
    PROVE  \/ bits = 8 /\ SYN_BITS[bits] = 5 /\ TOTAL_BITS[bits] = 13
           \/ bits = 16 /\ SYN_BITS[bits] = 6 /\ TOTAL_BITS[bits] = 22
           \/ bits = 32 /\ SYN_BITS[bits] = 7 /\ TOTAL_BITS[bits] = 39
           \/ bits = 64 /\ SYN_BITS[bits] = 8 /\ TOTAL_BITS[bits] = 72
BY DEF Sizes, SYN_BITS, TOTAL_BITS

(* The bits of a number below 128.                                         *)
LEMMA BitTable ==
    ASSUME NEW val \in Nat
    PROVE  /\ BitOf(val, 0) <=> val % 2 = 1
           /\ BitOf(val, 1) <=> (val \div 2) % 2 = 1
           /\ BitOf(val, 2) <=> (val \div 4) % 2 = 1
           /\ BitOf(val, 3) <=> (val \div 8) % 2 = 1
           /\ BitOf(val, 4) <=> (val \div 16) % 2 = 1
           /\ BitOf(val, 5) <=> (val \div 32) % 2 = 1
           /\ BitOf(val, 6) <=> (val \div 64) % 2 = 1
           /\ BitOf(val, 7) <=> (val \div 128) % 2 = 1
<1>1. val \div 1 = val
  OBVIOUS
<1> QED BY <1>1, TwoHolds DEF BitOf

(* A power of two has one bit,                                             *)
LEMMA PowerBits ==
    ASSUME NEW power \in 0..6, NEW place \in 0..6
    PROVE  BitOf(Two[power], place) <=> place = power
<1>1. /\ Two[power] \in Nat
      /\ power = 0 => Two[power] = 1
      /\ power = 1 => Two[power] = 2
      /\ power = 2 => Two[power] = 4
      /\ power = 3 => Two[power] = 8
      /\ power = 4 => Two[power] = 16
      /\ power = 5 => Two[power] = 32
      /\ power = 6 => Two[power] = 64
  BY TwoHolds
<1> DEFINE val == Two[power]
<1>2. val \in Nat
  BY <1>1
<1> HIDE DEF val
<1>3. /\ BitOf(val, 0) <=> val % 2 = 1
      /\ BitOf(val, 1) <=> (val \div 2) % 2 = 1
      /\ BitOf(val, 2) <=> (val \div 4) % 2 = 1
      /\ BitOf(val, 3) <=> (val \div 8) % 2 = 1
      /\ BitOf(val, 4) <=> (val \div 16) % 2 = 1
      /\ BitOf(val, 5) <=> (val \div 32) % 2 = 1
      /\ BitOf(val, 6) <=> (val \div 64) % 2 = 1
  BY <1>2, BitTable
<1>4. /\ val \in {1, 2, 4, 8, 16, 32, 64}
      /\ power = 0 <=> val = 1
      /\ power = 1 <=> val = 2
      /\ power = 2 <=> val = 4
      /\ power = 3 <=> val = 8
      /\ power = 4 <=> val = 16
      /\ power = 5 <=> val = 32
      /\ power = 6 <=> val = 64
  BY <1>1 DEF val
<1>5. BitOf(val, place) <=> place = power
  <2>1. CASE place = 0
    BY <1>3, <1>4, <2>1
  <2>2. CASE place = 1
    BY <1>3, <1>4, <2>2
  <2>3. CASE place = 2
    BY <1>3, <1>4, <2>3
  <2>4. CASE place = 3
    BY <1>3, <1>4, <2>4
  <2>5. CASE place = 4
    BY <1>3, <1>4, <2>5
  <2>6. CASE place = 5
    BY <1>3, <1>4, <2>6
  <2>7. CASE place = 6
    BY <1>3, <1>4, <2>7
  <2> QED BY <2>1, <2>2, <2>3, <2>4, <2>5, <2>6, <2>7
<1> QED BY <1>5 DEF val

(* and a number below 128 is known by its bits.                            *)
LEMMA BitsKnown ==
    ASSUME NEW val \in 0..127, NEW other \in 0..127, BitsOf(val) = BitsOf(other)
    PROVE  val = other
<1>1. \A place \in 0..6 : BitOf(val, place) <=> BitOf(other, place)
  BY DEF BitsOf
<1>2. /\ val % 2 = 1 <=> other % 2 = 1
      /\ (val \div 2) % 2 = 1 <=> (other \div 2) % 2 = 1
      /\ (val \div 4) % 2 = 1 <=> (other \div 4) % 2 = 1
      /\ (val \div 8) % 2 = 1 <=> (other \div 8) % 2 = 1
      /\ (val \div 16) % 2 = 1 <=> (other \div 16) % 2 = 1
      /\ (val \div 32) % 2 = 1 <=> (other \div 32) % 2 = 1
      /\ (val \div 64) % 2 = 1 <=> (other \div 64) % 2 = 1
  <2>1. val \in Nat /\ other \in Nat
    OBVIOUS
  <2>2. 0 \in 0..6 /\ 1 \in 0..6 /\ 2 \in 0..6 /\ 3 \in 0..6 /\ 4 \in 0..6 /\ 5 \in 0..6 /\ 6 \in 0..6
    OBVIOUS
  <2> QED BY <1>1, <2>1, <2>2, BitTable
<1>3. \A num \in 0..127 :
        num = (num % 2) + 2 * ((num \div 2) % 2) + 4 * ((num \div 4) % 2) + 8 * ((num \div 8) % 2)
              + 16 * ((num \div 16) % 2) + 32 * ((num \div 32) % 2) + 64 * ((num \div 64) % 2)
  OBVIOUS
<1>4. \A num \in Nat : num % 2 \in {0, 1}
  OBVIOUS
<1>5. \A num \in 0..127 : /\ num \in Nat /\ num \div 2 \in Nat /\ num \div 4 \in Nat /\ num \div 8 \in Nat
                          /\ num \div 16 \in Nat /\ num \div 32 \in Nat /\ num \div 64 \in Nat
  OBVIOUS
<1>6. /\ val % 2 = other % 2
      /\ (val \div 2) % 2 = (other \div 2) % 2
      /\ (val \div 4) % 2 = (other \div 4) % 2
      /\ (val \div 8) % 2 = (other \div 8) % 2
      /\ (val \div 16) % 2 = (other \div 16) % 2
      /\ (val \div 32) % 2 = (other \div 32) % 2
      /\ (val \div 64) % 2 = (other \div 64) % 2
  BY <1>2, <1>4, <1>5
<1> QED BY <1>3, <1>6

(* A bit above the number leaves the bits of the number alone.             *)
LEMMA HighBit ==
    ASSUME NEW size \in 4..7, NEW val \in 0..127, val < Two[size]
    PROVE  /\ BitOf(Two[size] + val, size)
           /\ \A place \in 0..(size - 1) : BitOf(Two[size] + val, place) <=> BitOf(val, place)
           /\ BitsOf(val) \subseteq 0..(size - 1)
<1>1. val \in Nat
  OBVIOUS
<1>2. CASE size = 4
  <2>1. Two[size] = 16 /\ 16 + val \in Nat /\ val < 16
    BY <1>2, TwoHolds
  <2>2. /\ BitOf(16 + val, 4)
        /\ BitOf(16 + val, 0) <=> BitOf(val, 0)
        /\ BitOf(16 + val, 1) <=> BitOf(val, 1)
        /\ BitOf(16 + val, 2) <=> BitOf(val, 2)
        /\ BitOf(16 + val, 3) <=> BitOf(val, 3)
        /\ ~BitOf(val, 4) /\ ~BitOf(val, 5) /\ ~BitOf(val, 6)
    BY <1>1, <2>1, BitTable
  <2>3. \A place \in 0..3 : BitOf(16 + val, place) <=> BitOf(val, place)
    <3>1. \A place \in 0..3 : place \in {0, 1, 2, 3}
      OBVIOUS
    <3> QED BY <2>2, <3>1
  <2>4. BitsOf(val) \subseteq 0..3
    <3>1. \A place \in 0..6 : place \in 0..3 \/ place \in {4, 5, 6}
      OBVIOUS
    <3> QED BY <2>2, <3>1 DEF BitsOf
  <2>5. 0..(size - 1) = 0..3
    BY <1>2
  <2> QED BY <1>2, <2>1, <2>2, <2>3, <2>4, <2>5
<1>3. CASE size = 5
  <2>1. Two[size] = 32 /\ 32 + val \in Nat /\ val < 32
    BY <1>3, TwoHolds
  <2>2. /\ BitOf(32 + val, 5)
        /\ BitOf(32 + val, 0) <=> BitOf(val, 0)
        /\ BitOf(32 + val, 1) <=> BitOf(val, 1)
        /\ BitOf(32 + val, 2) <=> BitOf(val, 2)
        /\ BitOf(32 + val, 3) <=> BitOf(val, 3)
        /\ BitOf(32 + val, 4) <=> BitOf(val, 4)
        /\ ~BitOf(val, 5) /\ ~BitOf(val, 6)
    BY <1>1, <2>1, BitTable
  <2>3. \A place \in 0..4 : BitOf(32 + val, place) <=> BitOf(val, place)
    <3>1. \A place \in 0..4 : place \in {0, 1, 2, 3, 4}
      OBVIOUS
    <3> QED BY <2>2, <3>1
  <2>4. BitsOf(val) \subseteq 0..4
    <3>1. \A place \in 0..6 : place \in 0..4 \/ place \in {5, 6}
      OBVIOUS
    <3> QED BY <2>2, <3>1 DEF BitsOf
  <2>5. 0..(size - 1) = 0..4
    BY <1>3
  <2> QED BY <1>3, <2>1, <2>2, <2>3, <2>4, <2>5
<1>4. CASE size = 6
  <2>1. Two[size] = 64 /\ 64 + val \in Nat /\ val < 64
    BY <1>4, TwoHolds
  <2>2. /\ BitOf(64 + val, 6)
        /\ BitOf(64 + val, 0) <=> BitOf(val, 0)
        /\ BitOf(64 + val, 1) <=> BitOf(val, 1)
        /\ BitOf(64 + val, 2) <=> BitOf(val, 2)
        /\ BitOf(64 + val, 3) <=> BitOf(val, 3)
        /\ BitOf(64 + val, 4) <=> BitOf(val, 4)
        /\ BitOf(64 + val, 5) <=> BitOf(val, 5)
        /\ ~BitOf(val, 6)
    BY <1>1, <2>1, BitTable
  <2>3. \A place \in 0..5 : BitOf(64 + val, place) <=> BitOf(val, place)
    <3>1. \A place \in 0..5 : place \in {0, 1, 2, 3, 4, 5}
      OBVIOUS
    <3> QED BY <2>2, <3>1
  <2>4. BitsOf(val) \subseteq 0..5
    <3>1. \A place \in 0..6 : place \in 0..5 \/ place = 6
      OBVIOUS
    <3> QED BY <2>2, <3>1 DEF BitsOf
  <2>5. 0..(size - 1) = 0..5
    BY <1>4
  <2> QED BY <1>4, <2>1, <2>2, <2>3, <2>4, <2>5
<1>5. CASE size = 7
  <2>1. Two[size] = 128 /\ 128 + val \in Nat /\ val < 128
    BY <1>5, TwoHolds
  <2>2. /\ BitOf(128 + val, 7)
        /\ BitOf(128 + val, 0) <=> BitOf(val, 0)
        /\ BitOf(128 + val, 1) <=> BitOf(val, 1)
        /\ BitOf(128 + val, 2) <=> BitOf(val, 2)
        /\ BitOf(128 + val, 3) <=> BitOf(val, 3)
        /\ BitOf(128 + val, 4) <=> BitOf(val, 4)
        /\ BitOf(128 + val, 5) <=> BitOf(val, 5)
        /\ BitOf(128 + val, 6) <=> BitOf(val, 6)
    BY <1>1, <2>1, BitTable
  <2>3. \A place \in 0..6 : BitOf(128 + val, place) <=> BitOf(val, place)
    <3>1. \A place \in 0..6 : place \in {0, 1, 2, 3, 4, 5, 6}
      OBVIOUS
    <3> QED BY <2>2, <3>1
  <2>4. BitsOf(val) \subseteq 0..6
    BY DEF BitsOf
  <2>5. 0..(size - 1) = 0..6
    BY <1>5
  <2> QED BY <1>5, <2>1, <2>2, <2>3, <2>4, <2>5
<1>6. size \in {4, 5, 6, 7}
  OBVIOUS
<1> QED BY <1>2, <1>3, <1>4, <1>5, <1>6

(* The places that are no power of two.                                    *)
DataPlaces == (1..71) \ {Two[place] : place \in 0..6}

LEMMA PowersAre == {Two[place] : place \in 0..6} = {1, 2, 4, 8, 16, 32, 64}
<1>1. \A place \in 0..6 : place \in {0, 1, 2, 3, 4, 5, 6}
  OBVIOUS
<1>2. 0 \in 0..6 /\ 1 \in 0..6 /\ 2 \in 0..6 /\ 3 \in 0..6 /\ 4 \in 0..6 /\ 5 \in 0..6 /\ 6 \in 0..6
  OBVIOUS
<1> QED BY <1>1, <1>2, TwoHolds

(* The code words have a place for every data bit.                         *)
LEMMA EnoughPlaces ==
    ASSUME NEW bits \in Sizes
    PROVE  LET low == {place \in DataPlaces : place <= TOTAL_BITS[bits] - 1}
           IN  IsFiniteSet(low) /\ Cardinality(low) = bits
<1> DEFINE low == {place \in DataPlaces : place <= TOTAL_BITS[bits] - 1}
<1>1. DataPlaces = (1..71) \ {1, 2, 4, 8, 16, 32, 64}
  BY PowersAre DEF DataPlaces
<1>2. /\ IsFiniteSet({1, 2, 4, 8}) /\ Cardinality({1, 2, 4, 8}) = 4
      /\ IsFiniteSet({1, 2, 4, 8, 16}) /\ Cardinality({1, 2, 4, 8, 16}) = 5
      /\ IsFiniteSet({1, 2, 4, 8, 16, 32}) /\ Cardinality({1, 2, 4, 8, 16, 32}) = 6
      /\ IsFiniteSet({1, 2, 4, 8, 16, 32, 64}) /\ Cardinality({1, 2, 4, 8, 16, 32, 64}) = 7
  <2>1. IsFiniteSet({1}) /\ Cardinality({1}) = 1
    BY FS_Singleton
  <2>2. IsFiniteSet({1} \cup {2}) /\ Cardinality({1} \cup {2}) = 2
    BY <2>1, FS_AddElement
  <2>3. IsFiniteSet({1, 2} \cup {4}) /\ Cardinality({1, 2} \cup {4}) = 3
    <3>1. {1, 2} = {1} \cup {2}
      OBVIOUS
    <3> QED BY <2>2, <3>1, FS_AddElement
  <2>4. IsFiniteSet({1, 2, 4} \cup {8}) /\ Cardinality({1, 2, 4} \cup {8}) = 4
    <3>1. {1, 2, 4} = {1, 2} \cup {4}
      OBVIOUS
    <3> QED BY <2>3, <3>1, FS_AddElement
  <2>5. {1, 2, 4, 8} = {1, 2, 4} \cup {8}
    OBVIOUS
  <2>6. IsFiniteSet({1, 2, 4, 8} \cup {16}) /\ Cardinality({1, 2, 4, 8} \cup {16}) = 5
    BY <2>4, <2>5, FS_AddElement
  <2>7. {1, 2, 4, 8, 16} = {1, 2, 4, 8} \cup {16}
    OBVIOUS
  <2>8. IsFiniteSet({1, 2, 4, 8, 16} \cup {32}) /\ Cardinality({1, 2, 4, 8, 16} \cup {32}) = 6
    BY <2>6, <2>7, FS_AddElement
  <2>9. {1, 2, 4, 8, 16, 32} = {1, 2, 4, 8, 16} \cup {32}
    OBVIOUS
  <2>10. /\ IsFiniteSet({1, 2, 4, 8, 16, 32} \cup {64})
         /\ Cardinality({1, 2, 4, 8, 16, 32} \cup {64}) = 7
    <3> DEFINE six == {1, 2, 4, 8, 16, 32}
    <3>1. 64 \notin six
      OBVIOUS
    <3>2. IsFiniteSet(six) /\ Cardinality(six) = 6
      BY <2>8, <2>9
    <3> HIDE DEF six
    <3> QED BY <3>1, <3>2, FS_AddElement DEF six
  <2>11. {1, 2, 4, 8, 16, 32, 64} = {1, 2, 4, 8, 16, 32} \cup {64}
    OBVIOUS
  <2> QED BY <2>4, <2>5, <2>6, <2>7, <2>8, <2>9, <2>10, <2>11
<1>3. ASSUME NEW top \in Nat, NEW powers, powers \subseteq 1..top, IsFiniteSet(powers),
             low = (1..top) \ powers
      PROVE  IsFiniteSet(low) /\ Cardinality(low) = top - Cardinality(powers)
  <2>1. IsFiniteSet(1..top) /\ Cardinality(1..top) = top
    <3>1. 1 \in Int /\ top \in Int /\ top - 1 + 1 = top /\ (1 > top => top = 0)
      OBVIOUS
    <3> QED BY <3>1, FS_Interval
  <2>2. (1..top) \cap powers = powers
    BY <1>3
  <2>3. /\ IsFiniteSet((1..top) \ powers)
        /\ Cardinality((1..top) \ powers) = Cardinality(1..top) - Cardinality((1..top) \cap powers)
    BY <2>1, FS_Difference
  <2> QED BY <1>3, <2>1, <2>2, <2>3
<1>4. CASE bits = 8
  <2>1. low = (1..12) \ {1, 2, 4, 8}
    BY <1>1, <1>4, SizesHold
  <2>2. {1, 2, 4, 8} \subseteq 1..12
    OBVIOUS
  <2> HIDE DEF low
  <2>3. IsFiniteSet(low) /\ Cardinality(low) = 12 - Cardinality({1, 2, 4, 8})
    BY <1>2, <1>3, <2>1, <2>2
  <2> QED BY <1>2, <1>4, <2>3 DEF low
<1>5. CASE bits = 16
  <2>1. low = (1..21) \ {1, 2, 4, 8, 16}
    BY <1>1, <1>5, SizesHold
  <2>2. {1, 2, 4, 8, 16} \subseteq 1..21
    OBVIOUS
  <2> HIDE DEF low
  <2>3. IsFiniteSet(low) /\ Cardinality(low) = 21 - Cardinality({1, 2, 4, 8, 16})
    BY <1>2, <1>3, <2>1, <2>2
  <2> QED BY <1>2, <1>5, <2>3 DEF low
<1>6. CASE bits = 32
  <2>1. low = (1..38) \ {1, 2, 4, 8, 16, 32}
    BY <1>1, <1>6, SizesHold
  <2>2. {1, 2, 4, 8, 16, 32} \subseteq 1..38
    OBVIOUS
  <2> HIDE DEF low
  <2>3. IsFiniteSet(low) /\ Cardinality(low) = 38 - Cardinality({1, 2, 4, 8, 16, 32})
    BY <1>2, <1>3, <2>1, <2>2
  <2> QED BY <1>2, <1>6, <2>3 DEF low
<1>7. CASE bits = 64
  <2>1. low = (1..71) \ {1, 2, 4, 8, 16, 32, 64}
    BY <1>1, <1>7, SizesHold
  <2>2. {1, 2, 4, 8, 16, 32, 64} \subseteq 1..71
    OBVIOUS
  <2> HIDE DEF low
  <2>3. IsFiniteSet(low) /\ Cardinality(low) = 71 - Cardinality({1, 2, 4, 8, 16, 32, 64})
    BY <1>2, <1>3, <2>1, <2>2
  <2> QED BY <1>2, <1>7, <2>3 DEF low
<1> QED BY <1>4, <1>5, <1>6, <1>7, SizesHold

(* The ranges of the decoder's table, from the power of two on, make up    *)
(* the places.                                                             *)
LEMMA RangesAre ==
    ASSUME NEW bits \in Sizes
    PROVE  bit_syndrome[bits] = Ascending({place \in DataPlaces : place <= TOTAL_BITS[bits] - 1})
<1> DEFINE syn == SYN_BITS[bits]
           total == TOTAL_BITS[bits]
           Range1(place) == (Two[place] + 1)..(IF place = syn - 2 THEN total - 1 ELSE Two[place + 1] - 1)
           all == UNION {Range1(place) : place \in 1..(syn - 2)}
           low == {place \in DataPlaces : place <= total - 1}
<1>0. SUFFICES all = low
  <2>1. bit_syndrome[bits] = Ascending(all)
    BY DEF bit_syndrome
  <2> HIDE DEF all, low
  <2> QED BY <2>1 DEF low
<1>1. DataPlaces = (1..71) \ {1, 2, 4, 8, 16, 32, 64}
  BY PowersAre DEF DataPlaces
<1>2. CASE bits = 8
  <2>1. syn = 5 /\ total = 13
    BY <1>2, SizesHold
  <2>2. Range1(1) = 3..3 /\ Range1(2) = 5..7 /\ Range1(3) = 9..12
    BY <2>1, TwoHolds
  <2>3. 1..(syn - 2) = {1, 2, 3}
    BY <2>1
  <2>4. low = (3..3) \cup (5..7) \cup (9..12)
    BY <1>1, <2>1
  <2> HIDE DEF Range1, low
  <2> QED BY <2>2, <2>3, <2>4
<1>3. CASE bits = 16
  <2>1. syn = 6 /\ total = 22
    BY <1>3, SizesHold
  <2>2. Range1(1) = 3..3 /\ Range1(2) = 5..7 /\ Range1(3) = 9..15 /\ Range1(4) = 17..21
    BY <2>1, TwoHolds
  <2>3. 1..(syn - 2) = {1, 2, 3, 4}
    BY <2>1
  <2>4. low = (3..3) \cup (5..7) \cup (9..15) \cup (17..21)
    BY <1>1, <2>1
  <2> HIDE DEF Range1, low
  <2> QED BY <2>2, <2>3, <2>4
<1>4. CASE bits = 32
  <2>1. syn = 7 /\ total = 39
    BY <1>4, SizesHold
  <2>2. /\ Range1(1) = 3..3 /\ Range1(2) = 5..7 /\ Range1(3) = 9..15 /\ Range1(4) = 17..31
        /\ Range1(5) = 33..38
    BY <2>1, TwoHolds
  <2>3. 1..(syn - 2) = {1, 2, 3, 4, 5}
    BY <2>1
  <2>4. low = (3..3) \cup (5..7) \cup (9..15) \cup (17..31) \cup (33..38)
    BY <1>1, <2>1
  <2> HIDE DEF Range1, low
  <2> QED BY <2>2, <2>3, <2>4
<1>5. CASE bits = 64
  <2>1. syn = 8 /\ total = 72
    BY <1>5, SizesHold
  <2>2. /\ Range1(1) = 3..3 /\ Range1(2) = 5..7 /\ Range1(3) = 9..15 /\ Range1(4) = 17..31
        /\ Range1(5) = 33..63 /\ Range1(6) = 65..71
    BY <2>1, TwoHolds
  <2>3. 1..(syn - 2) = {1, 2, 3, 4, 5, 6}
    BY <2>1
  <2>4. low = (3..3) \cup (5..7) \cup (9..15) \cup (17..31) \cup (33..63) \cup (65..71)
    BY <1>1, <2>1
  <2> HIDE DEF Range1, low
  <2> QED BY <2>2, <2>3, <2>4
<1> QED BY <1>2, <1>3, <1>4, <1>5, SizesHold
------------------------------------------------------------------------------
(***************************************************************************)
(* The place of a data bit in the code words: the tables of the encoder    *)
(* and of the decoder, built apart, say the same of it.                    *)
(***************************************************************************)
Place(bit) == Places[bit + 1]

LEMMA PlaceHolds ==
    ASSUME NEW bits \in Sizes
    PROVE  /\ \A bit \in 0..(bits - 1) :
                /\ Place(bit) \in DataPlaces /\ Place(bit) <= TOTAL_BITS[bits] - 1
                /\ bit_syndrome[bits][bit + 1] = Place(bit)
           /\ \A place \in DataPlaces : place <= TOTAL_BITS[bits] - 1 =>
                \E bit \in 0..(bits - 1) : Place(bit) = place
           /\ \A bit, other \in 0..(bits - 1) : Place(bit) = Place(other) => bit = other
<1> DEFINE low == {place \in DataPlaces : place <= TOTAL_BITS[bits] - 1}
<1>1. DataPlaces \in SUBSET Nat /\ IsFiniteSet(DataPlaces)
  <2>1. DataPlaces \in SUBSET (1..71)
    BY DEF DataPlaces
  <2>2. IsFiniteSet(1..71)
    <3>1. 1 \in Int /\ 71 \in Int
      OBVIOUS
    <3> QED BY <3>1, FS_Interval
  <2>3. IsFiniteSet(DataPlaces)
    BY <2>1, <2>2, FS_Subset
  <2> QED BY <2>1, <2>3
<1>2. TOTAL_BITS[bits] - 1 \in Nat /\ bits \in Nat
  BY SizesHold
<1>3. low \in SUBSET Nat /\ IsFiniteSet(low) /\ Cardinality(low) = bits
  BY <1>1, EnoughPlaces
<1>4. \A rank \in 1..bits : Ascending(low)[rank] = Places[rank]
  <2>1. Places = Ascending(DataPlaces)
    BY DEF Places, DataPlaces
  <2>2. \A rank \in 1..Cardinality(low) : Ascending(low)[rank] = Ascending(DataPlaces)[rank]
    BY <1>1, <1>2, AscendingBegins
  <2> HIDE DEF low
  <2> QED BY <1>3, <2>1, <2>2
<1>5. bit_syndrome[bits] = Ascending(low)
  BY RangesAre
<1>6. /\ \A rank \in 1..bits : Ascending(low)[rank] \in low
      /\ \A val \in low : \E rank \in 1..bits : Ascending(low)[rank] = val
      /\ \A rank, other \in 1..bits : Ascending(low)[rank] = Ascending(low)[other] => rank = other
  <2> HIDE DEF low
  <2> QED BY <1>3, AscendingHolds
<1>7. \A bit \in 0..(bits - 1) : bit + 1 \in 1..bits
  BY <1>2
<1>8. \A bit \in 0..(bits - 1) : Place(bit) \in low /\ bit_syndrome[bits][bit + 1] = Place(bit)
  <2> HIDE DEF low
  <2> QED BY <1>4, <1>5, <1>6, <1>7 DEF Place
<1>9. \A place \in low : \E bit \in 0..(bits - 1) : Place(bit) = place
  <2> SUFFICES ASSUME NEW place \in low PROVE \E bit \in 0..(bits - 1) : Place(bit) = place
    OBVIOUS
  <2> HIDE DEF low
  <2>1. PICK rank \in 1..bits : Ascending(low)[rank] = place
    BY <1>6
  <2>2. rank - 1 \in 0..(bits - 1) /\ (rank - 1) + 1 = rank
    BY <1>2
  <2>3. Place(rank - 1) = place
    BY <1>4, <2>1, <2>2 DEF Place
  <2> QED BY <2>2, <2>3
<1>10. \A bit, other \in 0..(bits - 1) : Place(bit) = Place(other) => bit = other
  <2> SUFFICES ASSUME NEW bit \in 0..(bits - 1), NEW other \in 0..(bits - 1), Place(bit) = Place(other)
               PROVE  bit = other
    OBVIOUS
  <2>1. bit + 1 = other + 1
    <3> HIDE DEF low
    <3> QED BY <1>4, <1>6, <1>7 DEF Place
  <2> QED BY <1>2, <2>1
<1> QED BY <1>8, <1>9, <1>10

(* A data place is more than two and no power of two; its bits are below   *)
(* the parity.                                                             *)
LEMMA PlaceBits ==
    ASSUME NEW bits \in Sizes, NEW bit \in 0..(bits - 1)
    PROVE  /\ Place(bit) \in 3..(TOTAL_BITS[bits] - 1)
           /\ \A power \in 0..6 : Place(bit) # Two[power]
           /\ BitsOf(Place(bit)) \subseteq 0..(SYN_BITS[bits] - 2)
           /\ matrix[bit] = {Place(bit) - 1} \cup {Two[power] - 1 : power \in BitsOf(Place(bit))}
<1>1. Place(bit) \in DataPlaces /\ Place(bit) <= TOTAL_BITS[bits] - 1
  BY PlaceHolds
<1>2. Place(bit) \in 1..71 /\ Place(bit) \notin {1, 2, 4, 8, 16, 32, 64}
  BY <1>1, PowersAre DEF DataPlaces
<1>3. \A power \in 0..6 : Two[power] \in {1, 2, 4, 8, 16, 32, 64}
  BY PowersAre
<1>4. TOTAL_BITS[bits] \in Nat
  BY SizesHold
<1>5. BitsOf(Place(bit)) \subseteq 0..((SYN_BITS[bits] - 1) - 1)
  <2>1. SYN_BITS[bits] - 1 \in 4..7 /\ TOTAL_BITS[bits] - 1 < Two[SYN_BITS[bits] - 1]
    BY SizesHold, TwoHolds
  <2>2. Place(bit) \in 0..127 /\ Place(bit) < Two[SYN_BITS[bits] - 1]
    <3>1. Two[SYN_BITS[bits] - 1] \in Nat
      BY SizesHold, TwoHolds
    <3> QED BY <1>1, <1>2, <1>4, <2>1, <3>1
  <2> QED BY <2>1, <2>2, HighBit
<1>6. bit \in 0..63
  BY SizesHold
<1>7. matrix[bit] = {Place(bit) - 1} \cup {Two[power] - 1 : power \in BitsOf(Place(bit))}
  BY <1>6 DEF matrix, Place
<1>8. (SYN_BITS[bits] - 1) - 1 = SYN_BITS[bits] - 2
  BY SizesHold
<1> QED BY <1>1, <1>2, <1>3, <1>4, <1>5, <1>7, <1>8

(* The columns of the table: a data bit has one of its own, and the rest   *)
(* are the check bits.                                                     *)
LEMMA ColumnHolds ==
    ASSUME NEW bits \in Sizes
    PROVE  /\ \A bit \in 0..(bits - 1) : Column(bits, Place(bit) - 1) = {bit}
           /\ \A power \in 0..(SYN_BITS[bits] - 2) :
                /\ Two[power] - 1 \in 0..(TOTAL_BITS[bits] - 2)
                /\ Column(bits, Two[power] - 1) = {bit \in 0..(bits - 1) : BitOf(Place(bit), power)}
           /\ \A col \in 0..(TOTAL_BITS[bits] - 2) :
                \/ \E power \in 0..(SYN_BITS[bits] - 2) : col = Two[power] - 1
                \/ \E bit \in 0..(bits - 1) : col = Place(bit) - 1
           /\ \A bit \in 0..(bits - 1) : matrix[bit] \subseteq 0..(TOTAL_BITS[bits] - 2)
<1> DEFINE total == TOTAL_BITS[bits]
           syn == SYN_BITS[bits]
<1>1. /\ total \in Nat /\ total >= 13 /\ syn \in 5..8 /\ total - 1 \in Nat
      /\ 0..(syn - 2) \subseteq 0..6
  BY SizesHold
<1>2. \A power \in 0..(syn - 2) : Two[power] \in 1..(total - 1)
  <2>1. \A power \in 0..6 : power \in {0, 1, 2, 3, 4, 5, 6}
    OBVIOUS
  <2> QED BY <2>1, SizesHold, TwoHolds
<1>3. \A power, other \in 0..6 : Two[power] - 1 = Two[other] - 1 => power = other
  <2>1. \A power \in 0..6 : power \in {0, 1, 2, 3, 4, 5, 6}
    OBVIOUS
  <2> QED BY <2>1, TwoHolds
<1>4. \A power \in 0..6 : Two[power] \in Nat
  <2>1. \A power \in 0..6 : power \in {0, 1, 2, 3, 4, 5, 6}
    OBVIOUS
  <2> QED BY <2>1, TwoHolds
<1>5. \A col : col \in 0..(total - 2) =>
        Column(bits, col) = {bit \in 0..(bits - 1) : col \in matrix[bit]}
  BY <1>1 DEF Column
<1>6. ASSUME NEW bit \in 0..(bits - 1) PROVE Column(bits, Place(bit) - 1) = {bit}
  <2>1. Place(bit) - 1 \in 0..(total - 2)
    BY <1>1, PlaceBits
  <2>2. ASSUME NEW other \in 0..(bits - 1), Place(bit) - 1 \in matrix[other] PROVE other = bit
    <3>1. \A power \in BitsOf(Place(other)) : Place(bit) - 1 # Two[power] - 1
      <4>1. \A power \in 0..6 : Place(bit) # Two[power] /\ Place(bit) \in Nat
        BY <1>1, PlaceBits
      <4> QED BY <4>1, <1>4 DEF BitsOf
    <3>2. Place(bit) - 1 = Place(other) - 1
      BY <2>2, <3>1, PlaceBits
    <3>3. Place(bit) = Place(other)
      <4>1. Place(bit) \in Int /\ Place(other) \in Int
        BY <1>1, PlaceBits
      <4> QED BY <3>2, <4>1
    <3> QED BY <3>3, PlaceHolds
  <2>3. Place(bit) - 1 \in matrix[bit]
    BY PlaceBits
  <2> QED BY <1>5, <2>1, <2>2, <2>3
<1>7. ASSUME NEW power \in 0..(syn - 2)
      PROVE  /\ Two[power] - 1 \in 0..(total - 2)
             /\ Column(bits, Two[power] - 1) = {bit \in 0..(bits - 1) : BitOf(Place(bit), power)}
  <2>1. Two[power] - 1 \in 0..(total - 2)
    BY <1>1, <1>2
  <2>2. ASSUME NEW bit \in 0..(bits - 1)
        PROVE  Two[power] - 1 \in matrix[bit] <=> BitOf(Place(bit), power)
    <3>1. Two[power] - 1 # Place(bit) - 1
      <4>1. Place(bit) # Two[power] /\ Place(bit) \in Int /\ Two[power] \in Int
        BY <1>1, <1>4, PlaceBits
      <4> QED BY <4>1
    <3>2. Two[power] - 1 \in matrix[bit] <=> \E other \in BitsOf(Place(bit)) : Two[power] - 1 = Two[other] - 1
      BY <3>1, PlaceBits
    <3>3. \A other \in BitsOf(Place(bit)) : Two[power] - 1 = Two[other] - 1 => power = other
      BY <1>1, <1>3 DEF BitsOf
    <3>4. power \in BitsOf(Place(bit)) <=> BitOf(Place(bit), power)
      BY <1>1 DEF BitsOf
    <3> QED BY <3>2, <3>3, <3>4
  <2> QED BY <1>5, <2>1, <2>2
<1>8. ASSUME NEW col \in 0..(total - 2), \A power \in 0..(syn - 2) : col # Two[power] - 1
      PROVE  \E bit \in 0..(bits - 1) : col = Place(bit) - 1
  <2>1. col + 1 \in 1..(total - 1) /\ col \in Nat
    BY <1>1
  <2>2. col + 1 \notin {1, 2, 4, 8, 16, 32, 64}
    <3>1. \A power \in 0..(syn - 2) : col + 1 # Two[power]
      <4>1. \A power \in 0..(syn - 2) : Two[power] \in Nat
        BY <1>1, <1>4
      <4> QED BY <1>8, <2>1, <4>1
    <3> QED BY <2>1, <3>1, SizesHold, TwoHolds
  <2>3. col + 1 \in DataPlaces
    <3>1. col + 1 \in 1..71
      BY <2>1, SizesHold
    <3> QED BY <2>2, <3>1, PowersAre DEF DataPlaces
  <2>4. PICK bit \in 0..(bits - 1) : Place(bit) = col + 1
    BY <1>1, <2>1, <2>3, PlaceHolds
  <2> QED BY <2>1, <2>4
<1>9. ASSUME NEW bit \in 0..(bits - 1) PROVE matrix[bit] \subseteq 0..(total - 2)
  <2>1. Place(bit) - 1 \in 0..(total - 2)
    BY <1>1, PlaceBits
  <2>2. \A power \in BitsOf(Place(bit)) : Two[power] - 1 \in 0..(total - 2)
    BY <1>7, PlaceBits
  <2> QED BY <2>1, <2>2, PlaceBits
<1> HIDE DEF total, syn
<1> QED BY <1>6, <1>7, <1>8, <1>9 DEF total, syn
------------------------------------------------------------------------------
(***************************************************************************)
(* The encoder and the syndrome as parities.                               *)
(***************************************************************************)
Codes(bits) == 0..(TOTAL_BITS[bits] - 1)

LEMMA CodesFinite ==
    ASSUME NEW bits \in Sizes
    PROVE  /\ bits \in Nat /\ IsFiniteSet(Codes(bits)) /\ IsFiniteSet(0..(bits - 1))
           /\ \A code \in SUBSET Codes(bits) : IsFiniteSet(code)
           /\ \A word \in SUBSET (0..(bits - 1)) : IsFiniteSet(word)
<1>1. bits \in Nat /\ TOTAL_BITS[bits] - 1 \in Int /\ bits - 1 \in Int /\ 0 \in Int
  BY SizesHold
<1>2. IsFiniteSet(Codes(bits)) /\ IsFiniteSet(0..(bits - 1))
  BY <1>1, FS_Interval DEF Codes
<1> QED BY <1>1, <1>2, FS_Subset

LEMMA EncodeIs ==
    ASSUME NEW bits \in Sizes, NEW word
    PROVE  encode(bits, word) = {col \in Codes(bits) : Odd(Column(bits, col) \cap word)}
<1>1. ASSUME NEW col \in Codes(bits)
      PROVE  Xor(EncodeTerms[bits][col], word) <=> Odd(Column(bits, col) \cap word)
  <2>1. EncodeTerms[bits][col] = Helpers(Column(bits, col))
    BY DEF EncodeTerms, Codes
  <2>2. Column(bits, col) \in SUBSET (0..(bits - 1))
    BY DEF Column
  <2>3. IsFiniteSet(Column(bits, col)) /\ Column(bits, col) \in SUBSET Nat
    BY <2>2, CodesFinite
  <2> QED BY <2>1, <2>3, XorIsParity
<1> QED BY <1>1 DEF encode, Codes

(* What a bit of the syndrome sums up.                                     *)
Checked(bits, place) == {col \in Codes(bits) : BitOf(matrix_h(bits, col), place)}

LEMMA SyndromeIs ==
    ASSUME NEW bits \in Sizes, NEW code
    PROVE  syndrome(bits, code) =
             {place \in 0..(SYN_BITS[bits] - 1) : Odd(Checked(bits, place) \cap code)}
<1>1. ASSUME NEW place \in 0..(SYN_BITS[bits] - 1)
      PROVE  Xor(SyndromeTerms[bits][place], code) <=> Odd(Checked(bits, place) \cap code)
  <2>1. SyndromeTerms[bits][place] = Helpers(Checked(bits, place))
    BY DEF SyndromeTerms, Checked, Codes
  <2>2. Checked(bits, place) \in SUBSET Codes(bits)
    BY DEF Checked
  <2>3. IsFiniteSet(Checked(bits, place)) /\ Checked(bits, place) \in SUBSET Nat
    <3>1. Codes(bits) \in SUBSET Nat
      BY DEF Codes
    <3> QED BY <2>2, <3>1, CodesFinite
  <2> QED BY <2>1, <2>3, XorIsParity
<1> QED BY <1>1 DEF syndrome

(* The parity is of all bits, the others of the columns with the bit in    *)
(* their place; the last column has none.                                  *)
LEMMA CheckedIs ==
    ASSUME NEW bits \in Sizes
    PROVE  /\ Checked(bits, SYN_BITS[bits] - 1) = Codes(bits)
           /\ \A place \in 0..(SYN_BITS[bits] - 2) :
                Checked(bits, place) = {col \in 0..(TOTAL_BITS[bits] - 2) : BitOf(col + 1, place)}
<1> DEFINE size == SYN_BITS[bits] - 1
           last == TOTAL_BITS[bits] - 1
           Val(col) == IF col = last THEN 0 ELSE col + 1
<1>1. size \in 4..7 /\ last \in Nat /\ last >= 12 /\ last < Two[size] /\ last < 127 /\ Two[size] \in Nat
  BY SizesHold, TwoHolds
<1>2. Codes(bits) = 0..last
  BY DEF Codes
<1>3. SYN_BITS[bits] - 2 = size - 1 /\ TOTAL_BITS[bits] - 2 = last - 1
  BY SizesHold
<1>4. \A col : matrix_h(bits, col) = Two[size] + Val(col)
  BY DEF matrix_h
<1> HIDE DEF size, last
<1>5. ASSUME NEW col \in 0..last PROVE Val(col) \in 0..127 /\ Val(col) < Two[size]
  BY <1>1
<1>6. ASSUME NEW col \in 0..last
      PROVE  /\ BitOf(matrix_h(bits, col), size)
             /\ \A place \in 0..(size - 1) : BitOf(matrix_h(bits, col), place) <=> BitOf(Val(col), place)
  <2> DEFINE val == Val(col)
  <2>1. val \in 0..127 /\ val < Two[size] /\ matrix_h(bits, col) = Two[size] + val
    BY <1>4, <1>5
  <2> HIDE DEF val
  <2>2. /\ BitOf(Two[size] + val, size)
        /\ \A place \in 0..(size - 1) : BitOf(Two[size] + val, place) <=> BitOf(val, place)
    BY <1>1, <2>1, HighBit
  <2> QED BY <2>1, <2>2 DEF val
<1>7. \A place \in 0..(size - 1) : ~BitOf(0, place)
  <2>1. \A place \in 0..6 : place \in {0, 1, 2, 3, 4, 5, 6}
    OBVIOUS
  <2>2. \A place \in 0..(size - 1) : place \in 0..6
    BY <1>1
  <2>3. /\ ~BitOf(0, 0) /\ ~BitOf(0, 1) /\ ~BitOf(0, 2) /\ ~BitOf(0, 3) /\ ~BitOf(0, 4) /\ ~BitOf(0, 5)
        /\ ~BitOf(0, 6)
    <3>1. 0 \in Nat
      OBVIOUS
    <3> QED BY <3>1, BitTable
  <2> QED BY <2>1, <2>2, <2>3
<1>8. Checked(bits, size) = 0..last
  BY <1>2, <1>6 DEF Checked
<1>9. ASSUME NEW place \in 0..(size - 1)
      PROVE  Checked(bits, place) = {col \in 0..(last - 1) : BitOf(col + 1, place)}
  <2>1. \A col \in 0..last : col = last \/ col \in 0..(last - 1)
    BY <1>1
  <2>2. \A col \in 0..(last - 1) : col \in 0..last /\ col # last
    BY <1>1
  <2>3. \A col \in 0..last : BitOf(matrix_h(bits, col), place) <=> BitOf(Val(col), place)
    BY <1>6
  <2>4. \A col \in 0..last : BitOf(matrix_h(bits, col), place) <=> col # last /\ BitOf(col + 1, place)
    BY <1>7, <2>3
  <2> QED BY <1>2, <2>1, <2>2, <2>4 DEF Checked
<1>10. Checked(bits, SYN_BITS[bits] - 1) = Checked(bits, size)
  BY DEF size
<1> QED BY <1>2, <1>3, <1>8, <1>9, <1>10

(* The syndrome of a sum is the sum of the syndromes, and that of one bit  *)
(* is the number of its place.                                             *)
LEMMA SyndromeSums ==
    ASSUME NEW bits \in Sizes, NEW code \in SUBSET Codes(bits), NEW hits \in SUBSET Codes(bits)
    PROVE  syndrome(bits, SymDiff(code, hits)) = SymDiff(syndrome(bits, code), syndrome(bits, hits))
<1>1. ASSUME NEW place \in 0..(SYN_BITS[bits] - 1)
      PROVE  Odd(Checked(bits, place) \cap SymDiff(code, hits)) <=>
             ~(Odd(Checked(bits, place) \cap code) <=> Odd(Checked(bits, place) \cap hits))
  <2> DEFINE A == Checked(bits, place) \cap code
             B == Checked(bits, place) \cap hits
  <2>1. Checked(bits, place) \cap SymDiff(code, hits) = SymDiff(A, B)
    BY DEF SymDiff
  <2>2. IsFiniteSet(A) /\ IsFiniteSet(B)
    <3>1. A \in SUBSET Codes(bits) /\ B \in SUBSET Codes(bits)
      OBVIOUS
    <3> HIDE DEF A, B
    <3> QED BY <3>1, CodesFinite
  <2> HIDE DEF A, B
  <2>3. Odd(SymDiff(A, B)) <=> ~(Odd(A) <=> Odd(B))
    BY <2>2, OddSymDiff
  <2> QED BY <2>1, <2>3 DEF A, B
<1> DEFINE places == 0..(SYN_BITS[bits] - 1)
           In(place, set) == Odd(Checked(bits, place) \cap set)
<1>2. /\ syndrome(bits, SymDiff(code, hits)) = {place \in places : In(place, SymDiff(code, hits))}
      /\ syndrome(bits, code) = {place \in places : In(place, code)}
      /\ syndrome(bits, hits) = {place \in places : In(place, hits)}
  BY SyndromeIs
<1>3. \A place \in places : In(place, SymDiff(code, hits)) <=> ~(In(place, code) <=> In(place, hits))
  BY <1>1
<1> DEFINE both == SymDiff(code, hits)
<1> HIDE DEF places, In, both
<1>4. {place \in places : In(place, both)} =
        SymDiff({place \in places : In(place, code)}, {place \in places : In(place, hits)})
  BY <1>3 DEF SymDiff, both
<1> QED BY <1>2, <1>4 DEF both
------------------------------------------------------------------------------
(***************************************************************************)
(* A word of the code has no syndrome.  Its check bits say the parity of   *)
(* the places they cover,                                                  *)
(***************************************************************************)
LEMMA ChecksAgree ==
    ASSUME NEW bits \in Sizes, NEW word \in SUBSET (0..(bits - 1)),
           NEW place \in 0..(SYN_BITS[bits] - 2)
    PROVE  ~Odd(Checked(bits, place) \cap encode(bits, word))
<1> DEFINE covered == {bit \in word : BitOf(Place(bit), place)}
           own == [bit \in covered |-> Place(bit) - 1]
           data == {own[bit] : bit \in covered}
           all == Checked(bits, place) \cap encode(bits, word)
           check == Two[place] - 1
           top == TOTAL_BITS[bits] - 2
<1>1. /\ 0..(SYN_BITS[bits] - 2) \subseteq 0..6 /\ 0..top \subseteq Codes(bits)
      /\ \A col \in 0..top : col \in Int
  BY SizesHold DEF Codes
<1>2. IsFiniteSet(word) /\ IsFiniteSet(covered)
  <2>1. IsFiniteSet(word)
    BY CodesFinite
  <2>2. covered \in SUBSET word
    OBVIOUS
  <2> HIDE DEF covered
  <2> QED BY <2>1, <2>2, FS_Subset
<1>3. \A bit \in 0..(bits - 1) : /\ Place(bit) \in Int /\ Place(bit) - 1 \in 0..top
                                 /\ \A power \in 0..6 : Place(bit) # Two[power]
  BY PlaceBits, SizesHold
<1>4. \A power \in 0..6 : Two[power] \in Int
  <2>1. \A power \in 0..6 : power \in {0, 1, 2, 3, 4, 5, 6}
    OBVIOUS
  <2> QED BY <2>1, TwoHolds
<1>5. Odd(data) <=> Odd(covered)
  <2>1. own \in [covered -> data]
    OBVIOUS
  <2>2. \A bit, other \in covered : own[bit] = own[other] => bit = other
    <3> SUFFICES ASSUME NEW bit \in covered, NEW other \in covered, own[bit] = own[other]
                 PROVE  bit = other
      OBVIOUS
    <3>1. Place(bit) = Place(other)
      BY <1>3
    <3> QED BY <3>1, PlaceHolds
  <2>3. own \in Bijection(covered, data)
    <3>1. \A val \in data : \E bit \in covered : own[bit] = val
      OBVIOUS
    <3> HIDE DEF own, data, covered
    <3> QED BY <2>1, <2>2, <3>1 DEF Bijection, Injection, Surjection, IsInjective
  <2>4. Cardinality(data) = Cardinality(covered)
    <3> HIDE DEF own, data, covered
    <3> QED BY <1>2, <2>3, FS_Bijection DEF ExistsBijection
  <2> HIDE DEF data, covered
  <2> QED BY <2>4 DEF Odd
<1>6. IsFiniteSet(data)
  <2>1. data \in SUBSET Codes(bits)
    BY <1>1, <1>3
  <2> HIDE DEF data
  <2> QED BY <2>1, CodesFinite
<1>7. \A col : col \in all <=> /\ col \in 0..top /\ BitOf(col + 1, place)
                               /\ Odd(Column(bits, col) \cap word)
  BY <1>1, CheckedIs, EncodeIs
<1>8. ASSUME NEW power \in 0..(SYN_BITS[bits] - 2)
      PROVE  Two[power] - 1 \in all <=> power = place /\ Odd(covered)
  <2>1. (Two[power] - 1) + 1 = Two[power]
    BY <1>1, <1>4
  <2>2. BitOf(Two[power], place) <=> place = power
    BY <1>1, PowerBits
  <2>3. /\ Two[power] - 1 \in 0..top
        /\ Column(bits, Two[power] - 1) = {bit \in 0..(bits - 1) : BitOf(Place(bit), power)}
    BY ColumnHolds
  <2>4. power = place => Column(bits, Two[power] - 1) \cap word = covered
    BY <2>3
  <2> HIDE DEF covered, all, top
  <2>5. CASE power = place
    BY <1>7, <2>1, <2>2, <2>3, <2>4, <2>5
  <2>6. CASE power # place
    BY <1>7, <2>1, <2>2, <2>6
  <2> QED BY <2>5, <2>6
<1>9. ASSUME NEW bit \in 0..(bits - 1) PROVE Place(bit) - 1 \in all <=> bit \in covered
  <2>1. (Place(bit) - 1) + 1 = Place(bit) /\ Place(bit) - 1 \in 0..top
    BY <1>3
  <2>2. Column(bits, Place(bit) - 1) = {bit}
    BY ColumnHolds
  <2>3. Odd({bit} \cap word) <=> bit \in word
    <3>1. CASE bit \in word
      <4>1. {bit} \cap word = {bit}
        BY <3>1
      <4> QED BY <3>1, <4>1, OddSingle
    <3>2. CASE bit \notin word
      <4>1. {bit} \cap word = {}
        BY <3>2
      <4> QED BY <3>2, <4>1, OddEmpty
    <3> QED BY <3>1, <3>2
  <2>4. Place(bit) - 1 \in all <=> BitOf(Place(bit), place) /\ bit \in word
    <3> HIDE DEF all, top
    <3> QED BY <1>7, <2>1, <2>2, <2>3
  <2> HIDE DEF all
  <2> QED BY <2>4
<1>10. check \notin data
  <2>1. ASSUME NEW bit \in covered, check = own[bit] PROVE FALSE
    <3>1. Two[place] - 1 = Place(bit) - 1 /\ bit \in 0..(bits - 1)
      BY <2>1
    <3>2. Two[place] = Place(bit)
      BY <1>1, <1>3, <1>4, <3>1
    <3> QED BY <1>1, <1>3, <3>1, <3>2
  <2> HIDE DEF covered, own, check
  <2> QED BY <2>1
<1>11. \A val : val \in data <=> \E bit \in covered : val = Place(bit) - 1
  OBVIOUS
<1>12. \A bit \in covered : bit \in 0..(bits - 1)
  OBVIOUS
<1>13. \A col : col \in all => col \in 0..top
  BY <1>7
<1>14. all = IF Odd(covered) THEN data \cup {check} ELSE data
  <2>1. ASSUME NEW col, col \in data PROVE col \in all
    <3> HIDE DEF all, data, covered
    <3> QED BY <1>9, <1>11, <1>12, <2>1
  <2>2. ASSUME Odd(covered) PROVE check \in all
    <3> HIDE DEF all, covered
    <3> QED BY <1>8, <2>2
  <2>3. ASSUME NEW col, col \in all PROVE col \in data \/ (Odd(covered) /\ col = check)
    <3> HIDE DEF all, data, covered
    <3>1. CASE \E power \in 0..(SYN_BITS[bits] - 2) : col = Two[power] - 1
      BY <1>8, <2>3, <3>1
    <3>2. CASE \E bit \in 0..(bits - 1) : col = Place(bit) - 1
      BY <1>9, <1>11, <2>3, <3>2
    <3> QED BY <1>13, <2>3, <3>1, <3>2, ColumnHolds
  <2> HIDE DEF all, data, covered, check
  <2> QED BY <2>1, <2>2, <2>3
<1> HIDE DEF all, data, covered, check, own
<1>15. CASE Odd(covered)
  BY <1>5, <1>6, <1>10, <1>14, <1>15, OddAdd DEF all
<1>16. CASE ~Odd(covered)
  BY <1>5, <1>14, <1>16 DEF all
<1> QED BY <1>15, <1>16

(* and the last bit makes the number of ones even.                         *)
LEMMA ParityEven ==
    ASSUME NEW bits \in Sizes, NEW word \in SUBSET (0..(bits - 1))
    PROVE  ~Odd(encode(bits, word))
<1> DEFINE last == TOTAL_BITS[bits] - 1
           top == TOTAL_BITS[bits] - 2
           Low(part) == {col \in 0..top : Odd(Column(bits, col) \cap part)}
           odds == Column(bits, last)
           Part(count) == word \cap (0..(count - 1))
           T == {count \in Nat : count <= bits => (Odd(Low(Part(count))) <=> Odd(odds \cap Part(count)))}
<1>1. /\ bits \in Nat /\ last \in Nat /\ Codes(bits) = 0..last /\ last \notin 0..top
      /\ 0..last = (0..top) \cup {last}
  BY SizesHold DEF Codes
<1>2. odds = {bit \in 0..(bits - 1) : Odd(matrix[bit])}
  <2>1. odds = {bit \in 0..(bits - 1) : Odd(matrix[bit] \cap (0..top))}
    BY SizesHold DEF Column
  <2>2. \A bit \in 0..(bits - 1) : matrix[bit] \cap (0..top) = matrix[bit]
    <3>1. \A bit \in 0..(bits - 1) : matrix[bit] \subseteq 0..top
      BY ColumnHolds
    <3> QED BY <3>1
  <2> QED BY <2>1, <2>2
<1>3. \A bit \in 0..(bits - 1), col \in 0..top : bit \in Column(bits, col) <=> col \in matrix[bit]
  BY SizesHold DEF Column
<1>4. \A bit \in 0..(bits - 1) : matrix[bit] \subseteq 0..top
  BY ColumnHolds
<1>5. \A part \in SUBSET word : IsFiniteSet(part)
  <2>1. \A part \in SUBSET word : part \in SUBSET (0..(bits - 1))
    OBVIOUS
  <2> QED BY <2>1, CodesFinite
<1>6. \A part \in SUBSET (0..top) : IsFiniteSet(part)
  <2>1. \A part \in SUBSET (0..top) : part \in SUBSET Codes(bits)
    BY <1>1
  <2> QED BY <2>1, CodesFinite
<1> HIDE DEF odds, top, last
<1>7. 0 \in T
  <2>1. Part(0) = {}
    OBVIOUS
  <2>2. Low({}) = {}
    <3>1. \A col : Column(bits, col) \cap {} = {}
      OBVIOUS
    <3> QED BY <3>1, OddEmpty
  <2>3. odds \cap {} = {}
    OBVIOUS
  <2>4. Odd(Low(Part(0))) <=> Odd(odds \cap Part(0))
    <3> HIDE DEF Low, Part
    <3> QED BY <2>1, <2>2, <2>3
  <2> HIDE DEF Low, Part
  <2> QED BY <2>4
<1>8. ASSUME NEW bit \in Nat, bit \in T PROVE bit + 1 \in T
  <2> SUFFICES ASSUME bit + 1 <= bits
               PROVE  Odd(Low(Part(bit + 1))) <=> Odd(odds \cap Part(bit + 1))
    OBVIOUS
  <2>1. bit \in 0..(bits - 1) /\ bit <= bits
    BY <1>1
  <2>2. Odd(Low(Part(bit))) <=> Odd(odds \cap Part(bit))
    BY <1>8, <2>1
  <2>3. CASE bit \notin word
    <3>1. Part(bit + 1) = Part(bit)
      <4>1. 0..((bit + 1) - 1) = (0..(bit - 1)) \cup {bit}
        OBVIOUS
      <4> QED BY <2>3, <4>1
    <3> HIDE DEF Part, Low
    <3> QED BY <2>2, <3>1
  <2>4. CASE bit \in word
    <3> DEFINE part == Part(bit)
               more == Part(bit + 1)
    <3>1. more = part \cup {bit} /\ bit \notin part /\ part \in SUBSET word
      <4>1. 0..((bit + 1) - 1) = (0..(bit - 1)) \cup {bit} /\ bit \notin 0..(bit - 1)
        OBVIOUS
      <4> QED BY <2>4, <4>1
    <3> HIDE DEF part, more
    <3>2. ASSUME NEW set, NEW rest, rest = set \cap part
          PROVE  Odd(set \cap more) <=> (Odd(rest) <=> bit \notin set)
      <4>1. IsFiniteSet(rest)
        <5>1. rest \in SUBSET word
          BY <3>1, <3>2
        <5> QED BY <5>1, <1>5
      <4>2. CASE bit \in set
        <5>1. set \cap more = rest \cup {bit} /\ bit \notin rest
          BY <3>1, <3>2, <4>2
        <5>2. Odd(set \cap more) <=> ~Odd(rest)
          BY <4>1, <5>1, OddAdd
        <5> QED BY <4>2, <5>2
      <4>3. CASE bit \notin set
        <5>1. set \cap more = rest
          BY <3>1, <3>2, <4>3
        <5> QED BY <4>3, <5>1
      <4> QED BY <4>2, <4>3
    <3>3. Low(more) = SymDiff(Low(part), matrix[bit])
      <4>1. \A col \in 0..top : Odd(Column(bits, col) \cap more) <=>
                                  (Odd(Column(bits, col) \cap part) <=> col \notin matrix[bit])
        BY <1>3, <2>1, <3>2
      <4>2. matrix[bit] \subseteq 0..top
        BY <1>4, <2>1
      <4> DEFINE Before(col) == Odd(Column(bits, col) \cap part)
                 After(col) == Odd(Column(bits, col) \cap more)
      <4>3. \A col \in 0..top : After(col) <=> (Before(col) <=> col \notin matrix[bit])
        BY <4>1
      <4>4. Low(more) = {col \in 0..top : After(col)} /\ Low(part) = {col \in 0..top : Before(col)}
        OBVIOUS
      <4> HIDE DEF After, Before, Low
      <4> QED BY <4>2, <4>3, <4>4 DEF SymDiff
    <3>4. Odd(Low(more)) <=> ~(Odd(Low(part)) <=> Odd(matrix[bit]))
      <4>1. Low(part) \in SUBSET (0..top) /\ matrix[bit] \in SUBSET (0..top)
        BY <1>4, <2>1
      <4> HIDE DEF Low
      <4> QED BY <1>6, <3>3, <4>1, OddSymDiff
    <3>5. Odd(odds \cap more) <=> (Odd(odds \cap part) <=> bit \notin odds)
      BY <3>2
    <3>6. bit \in odds <=> Odd(matrix[bit])
      BY <1>2, <2>1
    <3> HIDE DEF Low
    <3> QED BY <2>2, <3>4, <3>5, <3>6 DEF part, more
  <2> QED BY <2>3, <2>4
<1>9. Odd(Low(word)) <=> Odd(odds \cap word)
  <2>1. bits \in T
    <3> HIDE DEF T
    <3> QED BY <1>1, <1>7, <1>8, Induct
  <2>2. Part(bits) = word
    OBVIOUS
  <2>3. bits <= bits
    BY <1>1
  <2> HIDE DEF Part, Low
  <2> QED BY <2>1, <2>2, <2>3
<1>10. encode(bits, word) = {col \in 0..last : Odd(Column(bits, col) \cap word)}
  BY <1>1, EncodeIs
<1>11. encode(bits, word) = IF Odd(odds \cap word) THEN Low(word) \cup {last} ELSE Low(word)
  BY <1>1, <1>10 DEF odds
<1>12. last \notin Low(word) /\ Low(word) \in SUBSET (0..top)
  BY <1>1
<1> HIDE DEF Low
<1>13. IsFiniteSet(Low(word))
  BY <1>6, <1>12
<1>14. CASE Odd(odds \cap word)
  BY <1>9, <1>11, <1>12, <1>13, <1>14, OddAdd
<1>15. CASE ~Odd(odds \cap word)
  BY <1>9, <1>11, <1>15
<1> QED BY <1>14, <1>15
------------------------------------------------------------------------------
(***************************************************************************)
(* What the decoder sees of a code word with wrong bits depends on the     *)
(* wrong bits alone.                                                       *)
(***************************************************************************)
LEMMA EncodeType ==
    ASSUME NEW bits \in Sizes, NEW word
    PROVE  encode(bits, word) \in SUBSET Codes(bits)
BY EncodeIs

LEMMA CodeClean ==
    ASSUME NEW bits \in Sizes, NEW word \in SUBSET (0..(bits - 1))
    PROVE  syndrome(bits, encode(bits, word)) = {}
<1> DEFINE code == encode(bits, word)
<1>1. code \in SUBSET Codes(bits)
  BY EncodeType
<1>2. ASSUME NEW place \in 0..(SYN_BITS[bits] - 1)
      PROVE  ~Odd(Checked(bits, place) \cap code)
  <2>1. place \in 0..(SYN_BITS[bits] - 2) \/ place = SYN_BITS[bits] - 1
    BY SizesHold
  <2>2. CASE place \in 0..(SYN_BITS[bits] - 2)
    BY <2>2, ChecksAgree
  <2>3. CASE place = SYN_BITS[bits] - 1
    <3> HIDE DEF code
    <3>1. Checked(bits, place) \cap code = code
      BY <1>1, <2>3, CheckedIs
    <3> QED BY <3>1, ParityEven DEF code
  <2> QED BY <2>1, <2>2, <2>3
<1> HIDE DEF code
<1> QED BY <1>2, SyndromeIs DEF code

LEMMA SyndromeOfHits ==
    ASSUME NEW bits \in Sizes, NEW word \in SUBSET (0..(bits - 1)), NEW hits \in SUBSET Codes(bits)
    PROVE  syndrome(bits, SymDiff(encode(bits, word), hits)) = syndrome(bits, hits)
<1> DEFINE code == encode(bits, word)
<1>1. code \in SUBSET Codes(bits) /\ syndrome(bits, code) = {}
  BY EncodeType, CodeClean
<1> HIDE DEF code
<1>2. syndrome(bits, SymDiff(code, hits)) = SymDiff(syndrome(bits, code), syndrome(bits, hits))
  BY <1>1, SyndromeSums
<1>3. \A set : SymDiff({}, set) = set
  BY DEF SymDiff
<1> QED BY <1>1, <1>2, <1>3 DEF code

(* The highest bit of the syndrome is the parity of the wrong bits.        *)
LEMMA ParityIs ==
    ASSUME NEW bits \in Sizes, NEW hits \in SUBSET Codes(bits)
    PROVE  /\ syndrome(bits, hits) \subseteq 0..(SYN_BITS[bits] - 1)
           /\ SYN_BITS[bits] - 1 \in syndrome(bits, hits) <=> Odd(hits)
<1>1. Checked(bits, SYN_BITS[bits] - 1) \cap hits = hits
  BY CheckedIs
<1>2. SYN_BITS[bits] - 1 \in 0..(SYN_BITS[bits] - 1)
  BY SizesHold
<1>3. SYN_BITS[bits] - 1 \in syndrome(bits, hits) <=>
        Odd(Checked(bits, SYN_BITS[bits] - 1) \cap hits)
  BY <1>2, SyndromeIs
<1>4. syndrome(bits, hits) \subseteq 0..(SYN_BITS[bits] - 1)
  BY SyndromeIs
<1> QED BY <1>1, <1>3, <1>4

(* The number of the place of a bit of the code; the last one has none.    *)
Number(bits, col) == IF col = TOTAL_BITS[bits] - 1 THEN 0 ELSE col + 1

LEMMA NumberHolds ==
    ASSUME NEW bits \in Sizes
    PROVE  /\ \A col \in Codes(bits) : /\ Number(bits, col) \in 0..127
                                       /\ BitsOf(Number(bits, col)) \subseteq 0..(SYN_BITS[bits] - 2)
           /\ \A col, other \in Codes(bits) :
                BitsOf(Number(bits, col)) = BitsOf(Number(bits, other)) => col = other
<1> DEFINE size == SYN_BITS[bits] - 1
           last == TOTAL_BITS[bits] - 1
<1>1. size \in 4..7 /\ last \in Nat /\ last < 127 /\ last < Two[size] /\ Two[size] \in Nat
  BY SizesHold, TwoHolds
<1>2. size - 1 = SYN_BITS[bits] - 2 /\ Codes(bits) = 0..last
  BY SizesHold DEF Codes
<1>3. ASSUME NEW col \in Codes(bits)
      PROVE  Number(bits, col) \in 0..127 /\ Number(bits, col) < Two[size]
  <2>1. Number(bits, col) = IF col = last THEN 0 ELSE col + 1
    BY DEF Number
  <2>2. col \in 0..last
    BY <1>2
  <2> HIDE DEF size, last
  <2> QED BY <1>1, <2>1, <2>2
<1>4. \A col \in Codes(bits) : BitsOf(Number(bits, col)) \subseteq 0..(size - 1)
  <2> HIDE DEF size
  <2> QED BY <1>1, <1>3, HighBit
<1>5. ASSUME NEW col \in Codes(bits), NEW other \in Codes(bits),
             BitsOf(Number(bits, col)) = BitsOf(Number(bits, other))
      PROVE  col = other
  <2>1. Number(bits, col) = Number(bits, other)
    BY <1>3, <1>5, BitsKnown
  <2> QED BY <1>1, <1>2, <2>1 DEF Number
<1> HIDE DEF size
<1> QED BY <1>2, <1>3, <1>4, <1>5

(* The syndrome of one wrong bit is its number.                            *)
LEMMA SyndromeOfOne ==
    ASSUME NEW bits \in Sizes, NEW col \in Codes(bits)
    PROVE  syndrome(bits, {col}) = BitsOf(Number(bits, col)) \cup {SYN_BITS[bits] - 1}
<1> DEFINE size == SYN_BITS[bits] - 1
           last == TOTAL_BITS[bits] - 1
<1>1. /\ size \in 4..7 /\ last \in Nat /\ 0..size = (0..(size - 1)) \cup {size}
      /\ size - 1 = SYN_BITS[bits] - 2 /\ last - 1 = TOTAL_BITS[bits] - 2 /\ Codes(bits) = 0..last
  BY SizesHold DEF Codes
<1>2. \A set : Odd(set \cap {col}) <=> col \in set
  <2> SUFFICES ASSUME NEW set PROVE Odd(set \cap {col}) <=> col \in set
    OBVIOUS
  <2>1. CASE col \in set
    <3>1. set \cap {col} = {col}
      BY <2>1
    <3> QED BY <2>1, <3>1, OddSingle
  <2>2. CASE col \notin set
    <3>1. set \cap {col} = {}
      BY <2>2
    <3> QED BY <2>2, <3>1, OddEmpty
  <2> QED BY <2>1, <2>2
<1>3. syndrome(bits, {col}) = {place \in 0..size : col \in Checked(bits, place)}
  BY <1>2, SyndromeIs
<1>4. col \in Checked(bits, size)
  BY CheckedIs
<1>5. BitsOf(Number(bits, col)) \subseteq 0..(size - 1)
  BY <1>1, NumberHolds
<1>6. \A place \in 0..(size - 1) : col \in Checked(bits, place) <=> col \in 0..(last - 1) /\ BitOf(col + 1, place)
  BY <1>1, CheckedIs
<1>7. ASSUME NEW place \in 0..(size - 1)
      PROVE  col \in Checked(bits, place) <=> place \in BitsOf(Number(bits, col))
  <2>1. place \in 0..6
    BY <1>1
  <2>2. CASE col = last
    <3>1. Number(bits, col) = 0 /\ col \notin 0..(last - 1)
      BY <1>1, <2>2 DEF Number
    <3>2. ~BitOf(0, place)
      <4>1. \A at \in 0..6 : at \in {0, 1, 2, 3, 4, 5, 6}
        OBVIOUS
      <4>2. /\ ~BitOf(0, 0) /\ ~BitOf(0, 1) /\ ~BitOf(0, 2) /\ ~BitOf(0, 3) /\ ~BitOf(0, 4)
            /\ ~BitOf(0, 5) /\ ~BitOf(0, 6)
        <5>1. 0 \in Nat
          OBVIOUS
        <5> QED BY <5>1, BitTable
      <4> QED BY <2>1, <4>1, <4>2
    <3> QED BY <1>6, <3>1, <3>2 DEF BitsOf
  <2>3. CASE col # last
    <3>1. Number(bits, col) = col + 1 /\ col \in 0..(last - 1)
      BY <1>1, <2>3 DEF Number
    <3> QED BY <1>6, <2>1, <3>1 DEF BitsOf
  <2> QED BY <2>2, <2>3
<1> HIDE DEF size, last
<1>8. syndrome(bits, {col}) = BitsOf(Number(bits, col)) \cup {size}
  BY <1>1, <1>3, <1>4, <1>5, <1>7
<1> QED BY <1>8 DEF size

(* The data bits among the wrong bits are the wrong bits of the raw data.  *)
Hurt(bits, hits) == {bit \in 0..(bits - 1) : Place(bit) - 1 \in hits}

LEMMA RawData ==
    ASSUME NEW bits \in Sizes, NEW word \in SUBSET (0..(bits - 1)), NEW hits \in SUBSET Codes(bits)
    PROVE  raw_data(bits, SymDiff(encode(bits, word), hits)) = SymDiff(word, Hurt(bits, hits))
<1> DEFINE code == encode(bits, word)
<1>1. ASSUME NEW bit \in 0..(bits - 1)
      PROVE  /\ bit_syndrome[bits][bit + 1] - 1 = Place(bit) - 1
             /\ Place(bit) - 1 \in code <=> bit \in word
  <2>1. bit_syndrome[bits][bit + 1] = Place(bit)
    BY PlaceHolds
  <2>2. Place(bit) - 1 \in Codes(bits)
    BY PlaceBits, SizesHold DEF Codes
  <2>3. Column(bits, Place(bit) - 1) = {bit}
    BY ColumnHolds
  <2>4. Place(bit) - 1 \in code <=> Odd({bit} \cap word)
    BY <2>2, <2>3, EncodeIs
  <2>5. CASE bit \in word
    <3>1. {bit} \cap word = {bit}
      BY <2>5
    <3> QED BY <2>1, <2>4, <2>5, <3>1, OddSingle
  <2>6. CASE bit \notin word
    <3>1. {bit} \cap word = {}
      BY <2>6
    <3> QED BY <2>1, <2>4, <2>6, <3>1, OddEmpty
  <2> QED BY <2>5, <2>6
<1>2. raw_data(bits, SymDiff(code, hits)) =
        {bit \in 0..(bits - 1) : Place(bit) - 1 \in SymDiff(code, hits)}
  BY <1>1 DEF raw_data
<1> HIDE DEF code
<1>3. \A bit \in 0..(bits - 1) :
        Place(bit) - 1 \in SymDiff(code, hits) <=> ~(bit \in word <=> bit \in Hurt(bits, hits))
  BY <1>1 DEF SymDiff, Hurt
<1>4. Hurt(bits, hits) \subseteq 0..(bits - 1)
  BY DEF Hurt
<1>5. {bit \in 0..(bits - 1) : Place(bit) - 1 \in SymDiff(code, hits)} = SymDiff(word, Hurt(bits, hits))
  BY <1>3, <1>4 DEF SymDiff
<1> QED BY <1>2, <1>5 DEF code

(* The decoder flips the bit whose place the syndrome names, and only when *)
(* the parity is wrong; the split of the 64 bit decoder changes nothing.   *)
LEMMA Flips ==
    ASSUME NEW bits \in Sizes, NEW syn \in SUBSET (0..(SYN_BITS[bits] - 1))
    PROVE  err_flip(bits, syn) =
             IF SYN_BITS[bits] - 1 \in syn
               THEN {bit \in 0..(bits - 1) : BitsOf(Place(bit)) = syn \ {SYN_BITS[bits] - 1}}
               ELSE {}
<1> DEFINE parity == SYN_BITS[bits] - 1 \in syn
           at == [bit \in 0..(bits - 1) |-> BitsOf(Place(bit))]
           or_syn50 == syn \cap (0..5) # {}
           Flip(bit) == IF bits = 64
                          THEN /\ at[bit] \cap (0..5) = syn \cap (0..5)
                               /\ (6 \in at[bit]) = (6 \in syn)
                               /\ parity \/ (6 \notin at[bit] /\ ~or_syn50)
                          ELSE parity /\ at[bit] = syn \ {SYN_BITS[bits] - 1}
<1>1. \A bit \in 0..(bits - 1) : bit_syndrome[bits][bit + 1] = Place(bit)
  BY PlaceHolds
<1>2. err_flip(bits, syn) = {bit \in 0..(bits - 1) : Flip(bit)}
  <2>1. [bit \in 0..(bits - 1) |-> BitsOf(bit_syndrome[bits][bit + 1])] = at
    BY <1>1
  <2> HIDE DEF at
  <2> QED BY <2>1 DEF err_flip
<1>3. ASSUME NEW bit \in 0..(bits - 1)
      PROVE  Flip(bit) <=> parity /\ BitsOf(Place(bit)) = syn \ {SYN_BITS[bits] - 1}
  <2>1. at[bit] = BitsOf(Place(bit))
    OBVIOUS
  <2>2. CASE bits # 64
    BY <2>1, <2>2
  <2>3. CASE bits = 64
    <3>1. SYN_BITS[bits] - 1 = 7
      BY <2>3, SizesHold
    <3>2. BitsOf(Place(bit)) \subseteq (0..5) \cup {6} /\ syn \subseteq (0..5) \cup {6, 7}
      BY <3>1 DEF BitsOf
    <3>3. 7 \notin 0..5 /\ 6 \notin 0..5 /\ 7 # 6
      OBVIOUS
    <3>4. BitsOf(Place(bit)) # {}
      <4>1. Place(bit) \in 0..127 /\ Place(bit) # 0
        <5>1. Place(bit) \in 3..(TOTAL_BITS[bits] - 1)
          BY PlaceBits
        <5>2. TOTAL_BITS[bits] - 1 = 71
          BY <2>3, SizesHold
        <5> QED BY <5>1, <5>2
      <4>2. BitsOf(0) = {}
        <5>1. /\ ~BitOf(0, 0) /\ ~BitOf(0, 1) /\ ~BitOf(0, 2) /\ ~BitOf(0, 3) /\ ~BitOf(0, 4)
              /\ ~BitOf(0, 5) /\ ~BitOf(0, 6)
          <6>1. 0 \in Nat
            OBVIOUS
          <6> QED BY <6>1, BitTable
        <5>2. \A place \in 0..6 : place \in {0, 1, 2, 3, 4, 5, 6}
          OBVIOUS
        <5> QED BY <5>1, <5>2 DEF BitsOf
      <4>3. 0 \in 0..127
        OBVIOUS
      <4> QED BY <4>1, <4>2, <4>3, BitsKnown
    <3> DEFINE set == BitsOf(Place(bit))
               low == 0..5
    <3>5. Flip(bit) <=> /\ set \cap low = syn \cap low
                        /\ 6 \in set <=> 6 \in syn
                        /\ parity \/ (6 \notin set /\ ~or_syn50)
      BY <2>1, <2>3
    <3>6. set \subseteq low \cup {6} /\ syn \subseteq low \cup {6, 7} /\ set # {}
      BY <3>2, <3>4
    <3>7. 7 \notin low /\ 6 \notin low
      BY <3>3
    <3> HIDE DEF set, low
    <3>8. CASE 7 \in syn
      <4>1. set = syn \ {7} <=> set \cap low = syn \cap low /\ (6 \in set <=> 6 \in syn)
        BY <3>3, <3>6, <3>7
      <4> QED BY <3>1, <3>5, <3>8, <4>1 DEF set
    <3>9. CASE 7 \notin syn
      <4>1. ~(set \cap low = syn \cap low /\ 6 \notin set /\ syn \cap low = {})
        BY <3>6
      <4> QED BY <3>1, <3>5, <3>9, <4>1 DEF set, low
    <3> QED BY <3>8, <3>9
  <2> QED BY <2>2, <2>3
<1> HIDE DEF Flip
<1> QED BY <1>2, <1>3
------------------------------------------------------------------------------
(***************************************************************************)
(* The answers of the decoder, for every word of every width.              *)
(***************************************************************************)
Answer(bits, word, hits) == decode(bits, SymDiff(encode(bits, word), hits))

LEMMA AnswerIs ==
    ASSUME NEW bits \in Sizes, NEW word \in SUBSET (0..(bits - 1)), NEW hits \in SUBSET Codes(bits)
    PROVE  LET syn == syndrome(bits, hits)
               answer == Answer(bits, word, hits)
           IN  /\ answer.d = SymDiff(err_flip(bits, syn), SymDiff(word, Hurt(bits, hits)))
               /\ Flags(answer) = <<syn = {}, SYN_BITS[bits] - 1 \in syn, fatal(bits, syn)>>
               /\ answer.err_corrected = (SYN_BITS[bits] - 1 \in syn)
               /\ answer.err_fatal = fatal(bits, syn)
<1> DEFINE code == SymDiff(encode(bits, word), hits)
<1>1. syndrome(bits, code) = syndrome(bits, hits)
  BY SyndromeOfHits
<1>2. raw_data(bits, code) = SymDiff(word, Hurt(bits, hits))
  BY RawData
<1>3. Answer(bits, word, hits) =
        [d |-> SymDiff(err_flip(bits, syndrome(bits, code)), raw_data(bits, code)),
         no_err |-> syndrome(bits, code) = {},
         err_corrected |-> SYN_BITS[bits] - 1 \in syndrome(bits, code),
         err_fatal |-> fatal(bits, syndrome(bits, code))]
  BY DEF Answer, decode
<1> HIDE DEF code
<1> QED BY <1>1, <1>2, <1>3 DEF Flags

(* Nothing wrong: the word, and no error.                                  *)
LEMMA NoHit ==
    ASSUME NEW bits \in Sizes, NEW word \in SUBSET (0..(bits - 1))
    PROVE  /\ Answer(bits, word, {}).d = word
           /\ Flags(Answer(bits, word, {})) = <<TRUE, FALSE, FALSE>>
           /\ Answer(bits, word, {}).err_corrected = FALSE
           /\ Answer(bits, word, {}).err_fatal = FALSE
<1> DEFINE syn == syndrome(bits, {})
<1>1. {} \in SUBSET Codes(bits)
  OBVIOUS
<1>2. syn = {}
  <2>1. \A place : Checked(bits, place) \cap {} = {}
    OBVIOUS
  <2> QED BY <2>1, OddEmpty, SyndromeIs
<1>3. syn \in SUBSET (0..(SYN_BITS[bits] - 1)) /\ SYN_BITS[bits] - 1 \notin syn
  BY <1>2
<1>4. err_flip(bits, syn) = {}
  BY <1>3, Flips
<1>5. Hurt(bits, {}) = {}
  BY DEF Hurt
<1>6. SymDiff({}, SymDiff(word, {})) = word
  BY DEF SymDiff
<1>7. ~fatal(bits, syn) /\ fatal(bits, syn) \in BOOLEAN
  BY <1>2 DEF fatal
<1> HIDE DEF syn
<1>8. /\ Answer(bits, word, {}).d = SymDiff(err_flip(bits, syn), SymDiff(word, Hurt(bits, {})))
      /\ Flags(Answer(bits, word, {})) = <<syn = {}, SYN_BITS[bits] - 1 \in syn, fatal(bits, syn)>>
      /\ Answer(bits, word, {}).err_corrected = (SYN_BITS[bits] - 1 \in syn)
      /\ Answer(bits, word, {}).err_fatal = fatal(bits, syn)
  BY <1>1, AnswerIs DEF syn
<1>9. (syn = {}) = TRUE /\ (SYN_BITS[bits] - 1 \in syn) = FALSE /\ fatal(bits, syn) = FALSE
  BY <1>2, <1>3, <1>7
<1>10. Flags(Answer(bits, word, {})) = <<TRUE, FALSE, FALSE>>
  BY <1>8, <1>9, Zenon
<1> QED BY <1>4, <1>5, <1>6, <1>8, <1>9, <1>10

(* One wrong bit: the word again, and the report that it was corrected.    *)
LEMMA OneHit ==
    ASSUME NEW bits \in Sizes, NEW word \in SUBSET (0..(bits - 1)), NEW col \in Codes(bits)
    PROVE  /\ Answer(bits, word, {col}).d = word
           /\ Flags(Answer(bits, word, {col})) = <<FALSE, TRUE, FALSE>>
           /\ Answer(bits, word, {col}).err_corrected = TRUE
           /\ Answer(bits, word, {col}).err_fatal = FALSE
<1> DEFINE parity == SYN_BITS[bits] - 1
           syn == syndrome(bits, {col})
           hurt == Hurt(bits, {col})
<1>1. {col} \in SUBSET Codes(bits)
  OBVIOUS
<1>2. /\ syn = BitsOf(Number(bits, col)) \cup {parity}
      /\ BitsOf(Number(bits, col)) \subseteq 0..(SYN_BITS[bits] - 2)
  BY SyndromeOfOne, NumberHolds
<1>3. parity \notin 0..(SYN_BITS[bits] - 2) /\ syn \in SUBSET (0..parity)
  BY <1>1, ParityIs, SizesHold
<1>4. syn \ {parity} = BitsOf(Number(bits, col)) /\ parity \in syn
  BY <1>2, <1>3
<1>5. ASSUME NEW bit \in 0..(bits - 1)
      PROVE  BitsOf(Place(bit)) = BitsOf(Number(bits, col)) <=> Place(bit) - 1 = col
  <2>1. /\ Place(bit) \in 3..(TOTAL_BITS[bits] - 1) /\ TOTAL_BITS[bits] - 1 \in 12..71
        /\ col \in 0..(TOTAL_BITS[bits] - 1)
    BY PlaceBits, SizesHold DEF Codes
  <2>2. Place(bit) \in 0..127 /\ Number(bits, col) \in 0..127
    <3>1. Place(bit) \in 0..127
      BY <2>1
    <3> QED BY <3>1, NumberHolds
  <2>3. BitsOf(Place(bit)) = BitsOf(Number(bits, col)) <=> Place(bit) = Number(bits, col)
    BY <2>2, BitsKnown
  <2>4. Place(bit) = Number(bits, col) <=> Place(bit) - 1 = col
    BY <2>1 DEF Number
  <2> QED BY <2>3, <2>4
<1>6. err_flip(bits, syn) = hurt
  <2>1. err_flip(bits, syn) = {bit \in 0..(bits - 1) : BitsOf(Place(bit)) = syn \ {parity}}
    BY <1>3, <1>4, Flips
  <2> QED BY <1>4, <1>5, <2>1 DEF Hurt
<1>7. SymDiff(hurt, SymDiff(word, hurt)) = word
  <2> HIDE DEF hurt
  <2> QED BY DEF SymDiff
<1>8. ~fatal(bits, syn) /\ fatal(bits, syn) \in BOOLEAN
  BY <1>4 DEF fatal
<1> HIDE DEF syn, hurt
<1>9. /\ Answer(bits, word, {col}).d = SymDiff(err_flip(bits, syn), SymDiff(word, hurt))
      /\ Flags(Answer(bits, word, {col})) = <<syn = {}, parity \in syn, fatal(bits, syn)>>
      /\ Answer(bits, word, {col}).err_corrected = (parity \in syn)
      /\ Answer(bits, word, {col}).err_fatal = fatal(bits, syn)
  BY <1>1, AnswerIs DEF syn, hurt
<1> HIDE DEF parity
<1>10. syn # {}
  BY <1>4
<1> QED BY <1>4, <1>6, <1>7, <1>8, <1>9, <1>10

(* Two wrong bits: the report that they are too many, and no third one.    *)
LEMMA TwoHits ==
    ASSUME NEW bits \in Sizes, NEW word \in SUBSET (0..(bits - 1)), NEW hits \in SUBSET Codes(bits),
           Cardinality(hits) = 2
    PROVE  /\ Flags(Answer(bits, word, hits)) = <<FALSE, FALSE, TRUE>>
           /\ Answer(bits, word, hits).err_fatal = TRUE
           /\ Cardinality(SymDiff(Answer(bits, word, hits).d, word)) <= 2
<1> DEFINE parity == SYN_BITS[bits] - 1
           syn == syndrome(bits, hits)
           hurt == Hurt(bits, hits)
<1>1. IsFiniteSet(hits)
  BY CodesFinite
<1>2. PICK col \in Codes(bits), other \in Codes(bits) : col # other /\ hits = {col, other}
  <2>1. hits # {}
    BY FS_EmptySet
  <2>2. PICK col \in hits : TRUE
    BY <2>1
  <2>3. IsFiniteSet(hits \ {col}) /\ Cardinality(hits \ {col}) = 1
    BY <1>1, <2>2, FS_RemoveElement
  <2>4. PICK other : hits \ {col} = {other}
    BY <2>3, FS_Singleton
  <2>5. hits = {col, other} /\ col # other
    BY <2>4
  <2> QED BY <2>5
<1>3. parity \notin syn /\ syn \in SUBSET (0..parity)
  <2>1. ~Odd(hits)
    BY DEF Odd
  <2> QED BY <2>1, ParityIs
<1>4. syn # {}
  <2>1. hits = SymDiff({col}, {other})
    BY <1>2 DEF SymDiff
  <2>2. {col} \in SUBSET Codes(bits) /\ {other} \in SUBSET Codes(bits)
    OBVIOUS
  <2>3. syn = SymDiff(syndrome(bits, {col}), syndrome(bits, {other}))
    BY <2>1, <2>2, SyndromeSums
  <2> DEFINE one == BitsOf(Number(bits, col))
             two == BitsOf(Number(bits, other))
  <2>4. syn = SymDiff(one \cup {parity}, two \cup {parity})
    BY <2>3, SyndromeOfOne
  <2>5. one # two
    BY <1>2, NumberHolds
  <2>6. parity \notin one /\ parity \notin two
    <3>1. parity \notin 0..(SYN_BITS[bits] - 2)
      BY SizesHold
    <3> QED BY <3>1, NumberHolds
  <2> HIDE DEF one, two, syn, parity
  <2> QED BY <2>4, <2>5, <2>6 DEF SymDiff
<1>5. fatal(bits, syn) = TRUE
  <2>1. 0..parity = (0..(SYN_BITS[bits] - 2)) \cup {parity}
    BY SizesHold
  <2>2. syn \cap (0..(SYN_BITS[bits] - 2)) # {}
    <3> HIDE DEF syn, parity
    <3> QED BY <1>3, <1>4, <2>1
  <2> QED BY <1>3, <2>2 DEF fatal
<1>6. err_flip(bits, syn) = {}
  BY <1>3, Flips
<1>7. IsFiniteSet(hurt) /\ Cardinality(hurt) <= 2
  <2> DEFINE col_of == [bit \in hurt |-> Place(bit) - 1]
  <2>1. col_of \in [hurt -> hits]
    BY DEF Hurt
  <2>2. ASSUME NEW bit \in hurt, NEW more \in hurt, col_of[bit] = col_of[more] PROVE bit = more
    <3>1. bit \in 0..(bits - 1) /\ more \in 0..(bits - 1)
      BY DEF Hurt
    <3>2. Place(bit) \in Int /\ Place(more) \in Int
      BY <3>1, PlaceBits, SizesHold
    <3>3. Place(bit) - 1 = Place(more) - 1
      BY <2>2
    <3>4. Place(bit) = Place(more)
      BY <3>2, <3>3
    <3> QED BY <3>1, <3>4, PlaceHolds
  <2>3. col_of \in Injection(hurt, hits)
    <3> HIDE DEF col_of, hurt
    <3> QED BY <2>1, <2>2 DEF Injection, IsInjective
  <2> HIDE DEF col_of, hurt
  <2> QED BY <1>1, <2>3, FS_Injection
<1>8. SymDiff(SymDiff({}, SymDiff(word, hurt)), word) = hurt
  <2> HIDE DEF hurt
  <2> QED BY DEF SymDiff
<1>9. /\ Answer(bits, word, hits).d = SymDiff(err_flip(bits, syn), SymDiff(word, hurt))
      /\ Flags(Answer(bits, word, hits)) = <<syn = {}, parity \in syn, fatal(bits, syn)>>
      /\ Answer(bits, word, hits).err_fatal = fatal(bits, syn)
  BY AnswerIs
<1> HIDE DEF syn, hurt, parity
<1>10. Flags(Answer(bits, word, hits)) = <<FALSE, FALSE, TRUE>>
  <2>1. (syn = {}) = FALSE
    BY <1>4
  <2>2. (parity \in syn) = FALSE
    <3>1. parity \notin syn
      BY <1>3
    <3> QED BY <3>1
  <2> QED BY <1>5, <1>9, <2>1, <2>2, Zenon
<1> QED BY <1>5, <1>6, <1>7, <1>8, <1>9, <1>10

(* Three wrong bits are taken for one.                                     *)
LEMMA ThreeHits ==
    ASSUME NEW bits \in Sizes, NEW word \in SUBSET (0..(bits - 1)), NEW hits \in SUBSET Codes(bits),
           Cardinality(hits) = 3
    PROVE  Flags(Answer(bits, word, hits)) = <<FALSE, TRUE, FALSE>>
<1> DEFINE parity == SYN_BITS[bits] - 1
           syn == syndrome(bits, hits)
<1>1. parity \in syn
  <2>1. Odd(hits)
    BY DEF Odd
  <2> QED BY <2>1, ParityIs
<1>2. fatal(bits, syn) = FALSE
  BY <1>1 DEF fatal
<1>3. Flags(Answer(bits, word, hits)) = <<syn = {}, parity \in syn, fatal(bits, syn)>>
  BY AnswerIs
<1> HIDE DEF syn, parity
<1>4. syn # {}
  BY <1>1
<1> QED BY <1>1, <1>2, <1>3, <1>4
------------------------------------------------------------------------------
(***************************************************************************)
(* The code for two bits: its four words differ in four places or more.    *)
(***************************************************************************)
LEMMA Words2 ==
    /\ encode2(Codes2[1]) = {} /\ encode2(Codes2[2]) = {3, 2, 1, 0}
    /\ encode2(Codes2[3]) = {5, 4, 1, 0} /\ encode2(Codes2[4]) = {5, 4, 3, 2}
    /\ \A word \in SUBSET (0..1) : \E index \in 1..4 : word = Codes2[index]
<1>1. Codes2[1] = {} /\ Codes2[2] = {0} /\ Codes2[3] = {1} /\ Codes2[4] = {0, 1}
  BY DEF Codes2
<1>2. ~Odd({}) /\ Odd({0}) /\ Odd({1}) /\ ~Odd({0, 1})
  <2>1. {0, 1} = {0} \cup {1} /\ 1 \notin {0} /\ IsFiniteSet({0})
    BY FS_Singleton
  <2>2. ~Odd({0, 1})
    BY <2>1, OddSingle, OddAdd
  <2> QED BY <2>2, OddEmpty, OddSingle
<1>3. encode2(Codes2[1]) = {}
  BY <1>1, <1>2 DEF encode2
<1>4. encode2(Codes2[2]) = {3, 2, 1, 0}
  BY <1>1, <1>2 DEF encode2
<1>5. encode2(Codes2[3]) = {5, 4, 1, 0}
  BY <1>1, <1>2 DEF encode2
<1>6. encode2(Codes2[4]) = {5, 4, 3, 2}
  BY <1>1, <1>2 DEF encode2
<1>7. ASSUME NEW word \in SUBSET (0..1) PROVE \E index \in 1..4 : word = Codes2[index]
  <2>1. word = {} \/ word = {0} \/ word = {1} \/ word = {0, 1}
    <3>1. \A val \in word : val \in {0, 1}
      OBVIOUS
    <3> QED BY <3>1
  <2>2. 1 \in 1..4 /\ 2 \in 1..4 /\ 3 \in 1..4 /\ 4 \in 1..4
    OBVIOUS
  <2> QED BY <1>1, <2>1, <2>2
<1> QED BY <1>3, <1>4, <1>5, <1>6, <1>7

LEMMA Four ==
    ASSUME NEW a, NEW b, NEW c, NEW d, a # b, a # c, a # d, b # c, b # d, c # d
    PROVE  IsFiniteSet({a, b, c, d}) /\ Cardinality({a, b, c, d}) = 4
<1>1. IsFiniteSet({a}) /\ Cardinality({a}) = 1
  BY FS_Singleton
<1>2. IsFiniteSet({a} \cup {b}) /\ Cardinality({a} \cup {b}) = 2
  BY <1>1, FS_AddElement
<1>3. {a, b} = {a} \cup {b} /\ c \notin {a, b}
  OBVIOUS
<1>4. IsFiniteSet({a, b} \cup {c}) /\ Cardinality({a, b} \cup {c}) = 3
  BY <1>2, <1>3, FS_AddElement
<1>5. {a, b, c} = {a, b} \cup {c} /\ d \notin {a, b, c}
  OBVIOUS
<1>6. IsFiniteSet({a, b, c} \cup {d}) /\ Cardinality({a, b, c} \cup {d}) = 4
  BY <1>4, <1>5, FS_AddElement
<1>7. {a, b, c, d} = {a, b, c} \cup {d}
  OBVIOUS
<1> QED BY <1>6, <1>7

LEMMA Apart2 ==
    ASSUME NEW index \in 1..4, NEW other \in 1..4, index # other
    PROVE  LET apart == SymDiff(encode2(Codes2[index]), encode2(Codes2[other]))
           IN  IsFiniteSet(apart) /\ Cardinality(apart) = 4
<1> DEFINE A == encode2(Codes2[index])
           B == encode2(Codes2[other])
           apart == SymDiff(A, B)
<1>1. apart = {0, 1, 2, 3} \/ apart = {0, 1, 4, 5} \/ apart = {2, 3, 4, 5}
  <2>1. index = 1 \/ index = 2 \/ index = 3 \/ index = 4
    OBVIOUS
  <2>2. other = 1 \/ other = 2 \/ other = 3 \/ other = 4
    OBVIOUS
  <2>3. /\ index = 1 => A = {}
        /\ index = 2 => A = {3, 2, 1, 0}
        /\ index = 3 => A = {5, 4, 1, 0}
        /\ index = 4 => A = {5, 4, 3, 2}
    BY Words2
  <2>4. /\ other = 1 => B = {}
        /\ other = 2 => B = {3, 2, 1, 0}
        /\ other = 3 => B = {5, 4, 1, 0}
        /\ other = 4 => B = {5, 4, 3, 2}
    BY Words2
  <2>5. apart = (A \ B) \cup (B \ A)
    BY DEF SymDiff
  <2> HIDE DEF A, B, apart
  <2>6. CASE index = 1
    BY <2>2, <2>3, <2>4, <2>5, <2>6
  <2>7. CASE index = 2
    BY <2>2, <2>3, <2>4, <2>5, <2>7
  <2>8. CASE index = 3
    BY <2>2, <2>3, <2>4, <2>5, <2>8
  <2>9. CASE index = 4
    BY <2>2, <2>3, <2>4, <2>5, <2>9
  <2> QED BY <2>1, <2>6, <2>7, <2>8, <2>9
<1>2. IsFiniteSet({0, 1, 2, 3}) /\ Cardinality({0, 1, 2, 3}) = 4
  <2> DEFINE i == 0
             j == 1
             k == 2
             l == 3
  <2>1. i # j /\ i # k /\ i # l /\ j # k /\ j # l /\ k # l
    OBVIOUS
  <2> HIDE DEF i, j, k, l
  <2>2. IsFiniteSet({i, j, k, l}) /\ Cardinality({i, j, k, l}) = 4
    BY <2>1, Four
  <2> QED BY <2>2 DEF i, j, k, l
<1>3. IsFiniteSet({0, 1, 4, 5}) /\ Cardinality({0, 1, 4, 5}) = 4
  <2> DEFINE i == 0
             j == 1
             k == 4
             l == 5
  <2>1. i # j /\ i # k /\ i # l /\ j # k /\ j # l /\ k # l
    OBVIOUS
  <2> HIDE DEF i, j, k, l
  <2>2. IsFiniteSet({i, j, k, l}) /\ Cardinality({i, j, k, l}) = 4
    BY <2>1, Four
  <2> QED BY <2>2 DEF i, j, k, l
<1>4. IsFiniteSet({2, 3, 4, 5}) /\ Cardinality({2, 3, 4, 5}) = 4
  <2> DEFINE i == 2
             j == 3
             k == 4
             l == 5
  <2>1. i # j /\ i # k /\ i # l /\ j # k /\ j # l /\ k # l
    OBVIOUS
  <2> HIDE DEF i, j, k, l
  <2>2. IsFiniteSet({i, j, k, l}) /\ Cardinality({i, j, k, l}) = 4
    BY <2>1, Four
  <2> QED BY <2>2 DEF i, j, k, l
<1> HIDE DEF apart
<1> QED BY <1>1, <1>2, <1>3, <1>4 DEF apart

(* The distance of what is received from each of the words.                *)
LEMMA Distance2 ==
    ASSUME NEW index \in 1..4, NEW hits \in SUBSET (0..5)
    PROVE  LET code == SymDiff(encode2(Codes2[index]), hits)
           IN  /\ IsFiniteSet(hits) /\ Cardinality(hits) \in Nat
               /\ diff(code, index) = Cardinality(hits)
               /\ \A other \in 1..4 : /\ diff(code, other) \in Nat
                                      /\ other # index => diff(code, other) >= 4 - Cardinality(hits)
<1> DEFINE own == encode2(Codes2[index])
           code == SymDiff(own, hits)
<1>1. IsFiniteSet(hits) /\ Cardinality(hits) \in Nat
  <2>1. 0 \in Int /\ 5 \in Int
    OBVIOUS
  <2>2. IsFiniteSet(0..5)
    BY <2>1, FS_Interval
  <2> QED BY <2>2, FS_Subset, FS_CardinalityType
<1>2. diff(code, index) = Cardinality(hits)
  <2>1. SymDiff(code, own) = hits
    BY DEF SymDiff
  <2> HIDE DEF code, own
  <2> QED BY <2>1 DEF diff, own
<1>3. ASSUME NEW other \in 1..4, other # index
      PROVE  diff(code, other) \in Nat /\ diff(code, other) >= 4 - Cardinality(hits)
  <2> DEFINE apart == SymDiff(own, encode2(Codes2[other]))
             seen == SymDiff(apart, hits)
  <2>1. SymDiff(code, encode2(Codes2[other])) = seen
    BY DEF SymDiff
  <2>2. IsFiniteSet(apart) /\ Cardinality(apart) = 4
    BY <1>3, Apart2
  <2> HIDE DEF apart, own, code
  <2>3. apart \ hits \in SUBSET seen /\ seen \in SUBSET (apart \cup hits)
    BY DEF SymDiff
  <2>4. IsFiniteSet(seen)
    <3>1. IsFiniteSet(apart \cup hits)
      BY <1>1, <2>2, FS_Union
    <3> QED BY <2>3, <3>1, FS_Subset
  <2>5. /\ IsFiniteSet(apart \ hits)
        /\ Cardinality(apart \ hits) = Cardinality(apart) - Cardinality(apart \cap hits)
    BY <2>2, FS_Difference
  <2>6. Cardinality(apart \cap hits) <= Cardinality(hits) /\ Cardinality(apart \cap hits) \in Nat
    BY <1>1, <2>2, FS_Intersection, FS_CardinalityType
  <2>7. Cardinality(apart \ hits) <= Cardinality(seen) /\ Cardinality(seen) \in Nat
    BY <2>3, <2>4, FS_Subset, FS_CardinalityType
  <2>8. Cardinality(seen) >= 4 - Cardinality(hits)
    <3>1. Cardinality(apart \ hits) = 4 - Cardinality(apart \cap hits)
      BY <2>2, <2>5
    <3> HIDE DEF seen
    <3> QED BY <1>1, <2>6, <2>7, <3>1
  <2> QED BY <2>1, <2>7, <2>8 DEF diff
<1> HIDE DEF code
<1> QED BY <1>1, <1>2, <1>3 DEF code

(* The decoder takes the first of the nearest words.                       *)
LEMMA Nearest ==
    ASSUME NEW code, \A index \in 1..4 : diff(code, index) \in Nat
    PROVE  /\ best_diff(code) \in 1..4
           /\ \A other \in 1..4 : diff(code, best_diff(code)) <= diff(code, other)
<1> DEFINE all == {diff(code, index) : index \in 1..4}
<1>1. PICK low \in all : \A more \in all : low <= more
  <2>1. all \subseteq Nat /\ all # {}
    OBVIOUS
  <2> HIDE DEF all
  <2> QED BY <2>1, Least
<1> DEFINE firsts == {index \in 1..4 : diff(code, index) = low}
<1>2. PICK index \in firsts : \A more \in firsts : index <= more
  <2>1. firsts \subseteq Nat /\ firsts # {}
    OBVIOUS
  <2> HIDE DEF firsts
  <2> QED BY <2>1, Least
<1> DEFINE Best(at) == /\ \A other \in 1..4 : diff(code, at) <= diff(code, other)
                       /\ \A other \in 1..(at - 1) : diff(code, at) < diff(code, other)
<1>3. index \in 1..4 /\ diff(code, index) = low
  OBVIOUS
<1>4. \A other \in 1..4 : diff(code, index) <= diff(code, other)
  BY <1>1, <1>3
<1>5. \A other \in 1..(index - 1) : diff(code, index) < diff(code, other)
  <2> SUFFICES ASSUME NEW other \in 1..(index - 1) PROVE diff(code, index) < diff(code, other)
    OBVIOUS
  <2>1. other \in 1..4 /\ ~(index <= other)
    BY <1>3
  <2>2. other \notin firsts
    BY <1>2, <2>1
  <2>3. diff(code, other) # diff(code, index)
    BY <1>3, <2>1, <2>2
  <2> QED BY <1>3, <1>4, <2>1, <2>3
<1>6. Best(index)
  BY <1>4, <1>5
<1>7. best_diff(code) = CHOOSE at \in 1..4 : Best(at)
  BY DEF best_diff
<1> HIDE DEF Best
<1>8. best_diff(code) \in 1..4 /\ Best(best_diff(code))
  BY <1>3, <1>6, <1>7, Zenon
<1> QED BY <1>8 DEF Best

(* One wrong bit is corrected, two are reported.                           *)
LEMMA Decode2 ==
    ASSUME NEW word \in SUBSET (0..1), NEW hits \in SUBSET (0..5)
    PROVE  LET answer == decode2(SymDiff(encode2(word), hits))
           IN  /\ Cardinality(hits) <= 1 =>
                    /\ answer.d = word
                    /\ Flags(answer) = IF hits = {} THEN <<TRUE, FALSE, FALSE>> ELSE <<FALSE, TRUE, FALSE>>
               /\ Cardinality(hits) = 2 => Flags(answer) = <<FALSE, FALSE, TRUE>>
<1> DEFINE code == SymDiff(encode2(word), hits)
           best == best_diff(code)
           wrong == diff(code, best)
           answer == decode2(code)
<1>1. PICK index \in 1..4 : word = Codes2[index]
  BY Words2
<1>2. /\ IsFiniteSet(hits) /\ Cardinality(hits) \in Nat
      /\ diff(code, index) = Cardinality(hits)
      /\ \A other \in 1..4 : /\ diff(code, other) \in Nat
                             /\ other # index => diff(code, other) >= 4 - Cardinality(hits)
  BY <1>1, Distance2
<1>3. answer = [d |-> Codes2[best], no_err |-> wrong = 0, err_corrected |-> wrong = 1, err_fatal |-> wrong >= 2]
  BY DEF decode2
<1> HIDE DEF code
<1>4. best \in 1..4 /\ \A other \in 1..4 : wrong <= diff(code, other)
  BY <1>2, Nearest
<1>5. Flags(answer) = <<wrong = 0, wrong = 1, wrong >= 2>> /\ answer.d = Codes2[best]
  BY <1>3 DEF Flags
<1> HIDE DEF best, answer
<1>6. ASSUME Cardinality(hits) <= 1
      PROVE  /\ answer.d = word
             /\ Flags(answer) = IF hits = {} THEN <<TRUE, FALSE, FALSE>> ELSE <<FALSE, TRUE, FALSE>>
  <2>1. best = index
    BY <1>2, <1>4, <1>6
  <2>2. wrong = Cardinality(hits)
    BY <1>2, <2>1
  <2>3. wrong \in Nat
    BY <1>2, <2>2
  <2>4. answer.d = word
    BY <1>1, <1>5, <2>1
  <2> HIDE DEF wrong
  <2>5. CASE hits = {}
    <3>1. wrong = 0
      BY <2>2, <2>5, FS_EmptySet
    <3>2. (wrong = 0) = TRUE /\ (wrong = 1) = FALSE /\ (wrong >= 2) = FALSE
      BY <3>1
    <3>3. Flags(answer) = <<TRUE, FALSE, FALSE>>
      BY <1>5, <3>2, Zenon
    <3> QED BY <2>4, <2>5, <3>3
  <2>6. CASE hits # {}
    <3>1. wrong # 0
      BY <1>2, <2>2, <2>6, FS_EmptySet
    <3>2. wrong = 1
      BY <1>6, <2>2, <2>3, <3>1
    <3>3. (wrong = 0) = FALSE /\ (wrong = 1) = TRUE /\ (wrong >= 2) = FALSE
      BY <3>2
    <3>4. Flags(answer) = <<FALSE, TRUE, FALSE>>
      BY <1>5, <3>3, Zenon
    <3> QED BY <2>4, <2>6, <3>4
  <2> QED BY <2>5, <2>6
<1>7. ASSUME Cardinality(hits) = 2 PROVE Flags(answer) = <<FALSE, FALSE, TRUE>>
  <2>1. wrong = 2
    <3>1. wrong <= 2
      BY <1>2, <1>4, <1>7
    <3>2. wrong >= 2
      <4>1. CASE best = index
        BY <1>2, <1>7, <4>1
      <4>2. CASE best # index
        BY <1>2, <1>4, <1>7, <4>2
      <4> QED BY <4>1, <4>2
    <3>3. wrong \in Nat
      BY <1>2, <1>4
    <3> HIDE DEF wrong
    <3> QED BY <3>1, <3>2, <3>3
  <2> HIDE DEF wrong
  <2>2. (wrong = 0) = FALSE /\ (wrong = 1) = FALSE /\ (wrong >= 2) = TRUE
    BY <2>1
  <2> QED BY <1>5, <2>2, Zenon
<1> QED BY <1>6, <1>7 DEF answer, code

(* What a decoder promises of an answer to a word with some wrong bits.    *)
Corrects(answer, word, hits) ==
    Cardinality(hits) <= 1 =>
        /\ answer.d = word
        /\ Flags(answer) = IF hits = {} THEN <<TRUE, FALSE, FALSE>> ELSE <<FALSE, TRUE, FALSE>>
        /\ answer.err_fatal = FALSE /\ answer.err_corrected = (hits # {})
Reports(answer, word, hits) ==
    Cardinality(hits) = 2 =>
        /\ Flags(answer) = <<FALSE, FALSE, TRUE>> /\ answer.err_fatal = TRUE
        /\ Cardinality(SymDiff(answer.d, word)) <= 2
SeesParity(answer, hits) == Cardinality(hits) = 3 => Flags(answer) = <<FALSE, TRUE, FALSE>>

(***************************************************************************)
(* What the encoders and decoders that ecc_generate.cpp prints promise,    *)
(* for every word of every width and wherever the wrong bits are: up to    *)
(* one is corrected and reported as such, two are reported and leave at    *)
(* most two bits of the data wrong, three look like one.                   *)
(***************************************************************************)
THEOREM EveryWordDecoded ==
    ASSUME NEW bits \in Sizes, NEW word \in SUBSET (0..(bits - 1)), NEW hits \in SUBSET Codes(bits)
    PROVE  LET answer == decode(bits, SymDiff(encode(bits, word), hits))
           IN  Corrects(answer, word, hits) /\ Reports(answer, word, hits) /\ SeesParity(answer, hits)
<1> DEFINE answer == Answer(bits, word, hits)
<1>1. IsFiniteSet(hits) /\ Cardinality(hits) \in Nat
  BY CodesFinite, FS_CardinalityType
<1>2. ASSUME Cardinality(hits) <= 1
      PROVE  /\ answer.d = word
             /\ Flags(answer) = IF hits = {} THEN <<TRUE, FALSE, FALSE>> ELSE <<FALSE, TRUE, FALSE>>
             /\ answer.err_fatal = FALSE
             /\ answer.err_corrected = (hits # {})
  <2>1. CASE hits = {}
    <3>1. (hits # {}) = FALSE
      BY <2>1
    <3>2. answer = Answer(bits, word, {})
      BY <2>1
    <3> HIDE DEF answer
    <3> QED BY <2>1, <3>1, <3>2, NoHit, Zenon
  <2>2. CASE hits # {}
    <3>1. Cardinality(hits) = 1
      BY <1>1, <1>2, <2>2, FS_EmptySet
    <3>2. PICK col : hits = {col}
      BY <1>1, <3>1, FS_Singleton
    <3>3. col \in Codes(bits) /\ answer = Answer(bits, word, {col})
      BY <3>2
    <3>4. (hits # {}) = TRUE
      BY <2>2
    <3> HIDE DEF answer
    <3> QED BY <2>2, <3>3, <3>4, OneHit, Zenon
  <2> QED BY <2>1, <2>2
<1>3. ASSUME Cardinality(hits) = 2
      PROVE  /\ Flags(answer) = <<FALSE, FALSE, TRUE>>
             /\ answer.err_fatal = TRUE
             /\ Cardinality(SymDiff(answer.d, word)) <= 2
  BY <1>3, TwoHits
<1>4. ASSUME Cardinality(hits) = 3 PROVE Flags(answer) = <<FALSE, TRUE, FALSE>>
  BY <1>4, ThreeHits
<1> HIDE DEF answer
<1>5. Corrects(answer, word, hits) /\ Reports(answer, word, hits) /\ SeesParity(answer, hits)
  BY <1>2, <1>3, <1>4, Zenon DEF Corrects, Reports, SeesParity
<1> QED BY <1>5 DEF answer, Answer
------------------------------------------------------------------------------
(***************************************************************************)
(* The bench and the memory.  A cell of the memory, and what the ports     *)
(* have read, is the code of its word with the flips of its history.       *)
(***************************************************************************)
Cells == {cell \in [code : SUBSET (0..12), word : SUBSET (0..7), flips : SUBSET (0..12)] :
             cell.code = SymDiff(encode(8, cell.word), cell.flips)}
RamInv == /\ memory \in [Addresses -> Cells] /\ data_reg \in [Sides -> SUBSET (0..7)]
          /\ read \in [Sides -> Cells] /\ out \in [Sides -> Cells]
Trial(bits) == [bits : {bits}, word : SUBSET (0..(bits - 1)), hits : SUBSET (0..(Length(bits) - 1))]
BenchInv == \E bits \in Sizes \cup {2} : bench \in Trial(bits)
Inv == RamInv /\ BenchInv

LEMMA TrialWordsHold ==
    ASSUME NEW bits \in Sizes \cup {2}, NEW word \in TrialWords[bits]
    PROVE  word \in SUBSET (0..(bits - 1))
<1>1. CASE bits \in {2, 8}
  BY <1>1 DEF TrialWords
<1>2. CASE bits = 16
  BY <1>2 DEF TrialWords, Patterns
<1>3. CASE bits \in {32, 64}
  BY <1>3 DEF TrialWords
<1> QED BY <1>1, <1>2, <1>3 DEF Sizes

LEMMA CodesOf8 == 8 \in Sizes /\ Codes(8) = 0..12
BY SizesHold DEF Codes, Sizes

LEMMA CellHolds ==
    ASSUME NEW word \in SUBSET (0..7), NEW flips \in SUBSET (0..12)
    PROVE  [code |-> SymDiff(encode(8, word), flips), word |-> word, flips |-> flips] \in Cells
<1>1. encode(8, word) \in SUBSET (0..12)
  BY CodesOf8, EncodeType
<1>2. SymDiff(encode(8, word), flips) \in SUBSET (0..12)
  BY <1>1 DEF SymDiff
<1> DEFINE code == SymDiff(encode(8, word), flips)
<1> HIDE DEF code
<1> QED BY <1>2 DEF Cells, code

LEMMA FreshCell ==
    ASSUME NEW word \in SUBSET (0..7)
    PROVE  [code |-> encode(8, word), word |-> word, flips |-> {}] \in Cells
<1>1. SymDiff(encode(8, word), {}) = encode(8, word)
  BY DEF SymDiff
<1>2. {} \in SUBSET (0..12)
  OBVIOUS
<1> HIDE DEF Cells
<1> QED BY <1>1, <1>2, CellHolds

LEMMA InitInv == EccInit => Inv
<1> SUFFICES ASSUME EccInit PROVE Inv
  OBVIOUS
<1>1. Blank \in Cells
  <2>1. {} \in SUBSET (0..7)
    OBVIOUS
  <2> QED BY <2>1, FreshCell DEF Blank
<1>2. RamInv
  BY <1>1 DEF EccInit, RamInv
<1>3. BenchInv
  <2>1. PICK bits \in Sizes \cup {2} : \E word \in TrialWords[bits] :
            bench = [bits |-> bits, word |-> word, hits |-> {}]
    BY DEF EccInit
  <2> PICK word \in TrialWords[bits] : bench = [bits |-> bits, word |-> word, hits |-> {}]
    BY <2>1
  <2>2. word \in SUBSET (0..(bits - 1))
    BY TrialWordsHold
  <2>3. bench \in Trial(bits)
    BY <2>1, <2>2 DEF Trial
  <2> QED BY <2>3 DEF BenchInv
<1> QED BY <1>2, <1>3 DEF Inv

(* A port writes a fresh code word and reads a cell of the memory.         *)
LEMMA ClockInv ==
    ASSUME RamAssumption, RamInv,
           NEW side \in Sides, NEW addr \in Addresses, NEW wren \in BOOLEAN, NEW word \in Words,
           Clock(side, addr, wren, word)
    PROVE  RamInv'
<1>1. word \in SUBSET (0..7)
  BY DEF RamAssumption
<1>2. data_reg[side] \in SUBSET (0..7)
  BY DEF RamInv
<1>3. [code |-> encode(8, data_reg[side]), word |-> data_reg[side], flips |-> {}] \in Cells
  BY <1>2, FreshCell
<1>4. memory' \in [Addresses -> Cells]
  BY <1>3 DEF RamInv, Clock, Stored
<1>5. data_reg' \in [Sides -> SUBSET (0..7)]
  BY <1>1 DEF RamInv, Clock
<1>6. read' \in [Sides -> Cells] /\ out' \in [Sides -> Cells]
  BY <1>4 DEF RamInv, Clock
<1> QED BY <1>4, <1>5, <1>6 DEF RamInv

(* A flip adds the same bit to the code and to the history.                *)
LEMMA UpsetInv ==
    ASSUME RamAssumption, RamInv, NEW addr \in Addresses, NEW bit \in UpsetBits, Upset(addr, bit)
    PROVE  RamInv'
<1> DEFINE old == memory[addr]
           code == SymDiff(old.code, {bit})
           flips == SymDiff(old.flips, {bit})
           new == [old EXCEPT !.code = code, !.flips = flips]
<1>1. old \in Cells /\ bit \in 0..12
  BY DEF RamInv, RamAssumption
<1>2. old \in [code : SUBSET (0..12), word : SUBSET (0..7), flips : SUBSET (0..12)]
  BY <1>1 DEF Cells
<1>3. old.word \in SUBSET (0..7) /\ old.flips \in SUBSET (0..12)
      /\ old.code = SymDiff(encode(8, old.word), old.flips)
  BY <1>1 DEF Cells
<1>4. code = SymDiff(encode(8, old.word), flips)
  BY <1>3 DEF SymDiff
<1>5. code \in SUBSET (0..12) /\ flips \in SUBSET (0..12)
  BY <1>1, <1>2 DEF SymDiff
<1>6. memory' = [memory EXCEPT ![addr] = new]
  BY DEF Upset
<1> HIDE DEF code, flips, old
<1>7. /\ new \in [code : SUBSET (0..12), word : SUBSET (0..7), flips : SUBSET (0..12)]
      /\ new.code = code /\ new.word = old.word /\ new.flips = flips
  BY <1>2, <1>5
<1> HIDE DEF new
<1>8. new \in Cells
  BY <1>4, <1>7 DEF Cells
<1>9. memory' \in [Addresses -> Cells]
  BY <1>6, <1>8 DEF RamInv, old
<1> QED BY <1>9 DEF RamInv, Upset

LEMMA HitInv ==
    ASSUME BenchInv, Hit
    PROVE  BenchInv'
<1>1. PICK bits \in Sizes \cup {2} : bench \in Trial(bits)
  BY DEF BenchInv
<1>2. bench.bits = bits
  BY <1>1 DEF Trial
<1>3. PICK bit \in 0..(Length(bits) - 1) : bench' = [bench EXCEPT !.hits = bench.hits \cup {bit}]
  BY <1>2 DEF Hit
<1>4. bench' \in Trial(bits)
  BY <1>1, <1>3 DEF Trial
<1> QED BY <1>4 DEF BenchInv

LEMMA NextInv == RamAssumption /\ Inv /\ [EccNext]_eccVars => Inv'
<1> SUFFICES ASSUME RamAssumption, Inv, [EccNext]_eccVars PROVE Inv'
  OBVIOUS
<1>1. CASE Ram
  <2>1. BenchInv'
    BY <1>1 DEF Ram, Inv, BenchInv
  <2>2. ASSUME NEW side \in Sides, NEW addr \in Addresses, NEW wren \in BOOLEAN, NEW word \in Words,
               Clock(side, addr, wren, word)
        PROVE  RamInv'
    BY <2>2, ClockInv DEF Inv
  <2>3. ASSUME NEW addr \in Addresses, NEW bit \in UpsetBits, Upset(addr, bit)
        PROVE  RamInv'
    BY <2>3, UpsetInv DEF Inv
  <2> QED BY <1>1, <2>1, <2>2, <2>3 DEF Ram, Inv
<1>2. CASE Hit
  <2>1. RamInv'
    BY <1>2 DEF Hit, ramVars, Inv, RamInv
  <2>2. BenchInv'
    BY <1>2, HitInv DEF Inv
  <2> QED BY <2>1, <2>2 DEF Inv
<1>3. CASE UNCHANGED eccVars
  BY <1>3 DEF eccVars, ramVars, Inv, RamInv, BenchInv
<1> QED BY <1>1, <1>2, <1>3 DEF EccNext

LEMMA InvHolds == EccSpec => []Inv
BY RamAssumption, InitInv, NextInv, PTL DEF EccSpec

(* On the bench the 2-bit code and the others answer as they promise.      *)
LEMMA BenchAnswers == BenchInv => SingleFixed /\ MoreSeen
<1> SUFFICES ASSUME BenchInv PROVE SingleFixed /\ MoreSeen
  OBVIOUS
<1>1. PICK bits \in Sizes \cup {2} : bench \in Trial(bits)
  BY DEF BenchInv
<1> DEFINE word == bench.word
           hits == bench.hits
<1>2. /\ bench.bits = bits /\ word \in SUBSET (0..(bits - 1))
      /\ hits \in SUBSET (0..(Length(bits) - 1))
  BY <1>1 DEF Trial
<1>3. CASE bits = 2
  <2>1. word \in SUBSET (0..1) /\ hits \in SUBSET (0..5)
    BY <1>2, <1>3 DEF Length
  <2>2. Received = decode2(SymDiff(encode2(word), hits))
    BY <1>2, <1>3 DEF Received
  <2>3. /\ Cardinality(hits) <= 1 =>
             /\ Received.d = word
             /\ Flags(Received) = IF hits = {} THEN <<TRUE, FALSE, FALSE>> ELSE <<FALSE, TRUE, FALSE>>
        /\ Cardinality(hits) = 2 => Flags(Received) = <<FALSE, FALSE, TRUE>>
    BY <2>1, <2>2, Decode2
  <2> QED BY <1>2, <1>3, <2>3 DEF SingleFixed, MoreSeen
<1>4. CASE bits # 2
  <2>1. bits \in Sizes /\ hits \in SUBSET Codes(bits)
    BY <1>2, <1>4 DEF Length, Codes
  <2>2. Received = decode(bits, SymDiff(encode(bits, word), hits))
    BY <1>2, <1>4 DEF Received
  <2> HIDE DEF word, hits
  <2>3. Corrects(Received, word, hits) /\ Reports(Received, word, hits) /\ SeesParity(Received, hits)
    BY <1>2, <2>1, <2>2, EveryWordDecoded
  <2> QED BY <2>3, Zenon DEF Corrects, Reports, SeesParity, SingleFixed, MoreSeen, word, hits
<1> QED BY <1>3, <1>4

(* What a port inverts adds to what has flipped in the cell.               *)
LEMMA PortsAnswer == RamAssumption /\ RamInv => ReadBack
<1> SUFFICES ASSUME RamAssumption, RamInv, NEW side \in Sides
             PROVE  LET answer == decode(8, SymDiff(out[side].code, Injected(side)))
                        hits == Cardinality(SymDiff(out[side].flips, Injected(side)))
                    IN /\ hits <= 1 => answer.d = out[side].word /\ ~answer.err_fatal
                                         /\ answer.err_corrected = (hits = 1)
                       /\ hits = 2 => answer.err_fatal
  BY DEF ReadBack
<1> DEFINE cell == out[side]
           word == cell.word
           wrong == SymDiff(cell.flips, Injected(side))
           answer == decode(8, SymDiff(cell.code, Injected(side)))
           hits == Cardinality(wrong)
<1>1. /\ word \in SUBSET (0..7) /\ cell.flips \in SUBSET (0..12)
      /\ cell.code = SymDiff(encode(8, word), cell.flips)
  BY DEF RamInv, Cells
<1>2. Injected(side) \in SUBSET (0..12)
  BY DEF RamAssumption, Injected
<1>3. wrong \in SUBSET (0..12)
  BY <1>1, <1>2 DEF SymDiff
<1>4. SymDiff(cell.code, Injected(side)) = SymDiff(encode(8, word), wrong)
  BY <1>1 DEF SymDiff
<1>5. answer = decode(8, SymDiff(encode(8, word), wrong))
  BY <1>4
<1>6. word \in SUBSET (0..(8 - 1)) /\ wrong \in SUBSET Codes(8) /\ 8 \in Sizes
  BY <1>1, <1>3, CodesOf8
<1> HIDE DEF word, wrong, answer
<1>7. Corrects(answer, word, wrong) /\ Reports(answer, word, wrong)
  <2> DEFINE bits == 8
  <2>1. bits \in Sizes /\ word \in SUBSET (0..(bits - 1)) /\ wrong \in SUBSET Codes(bits)
    BY <1>6
  <2>2. answer = decode(bits, SymDiff(encode(bits, word), wrong))
    BY <1>5
  <2> HIDE DEF bits
  <2> QED BY <2>1, <2>2, EveryWordDecoded
<1>8. ASSUME hits <= 1 PROVE (wrong # {}) = (hits = 1)
  <2>1. IsFiniteSet(wrong)
    BY <1>6, CodesFinite
  <2>2. hits \in Nat /\ (hits = 0 <=> wrong = {})
    BY <2>1, FS_CardinalityType, FS_EmptySet
  <2> HIDE DEF hits
  <2> QED BY <1>8, <2>2
<1>9. (hits <= 1 => answer.d = word /\ ~answer.err_fatal /\ answer.err_corrected = (hits = 1))
      /\ (hits = 2 => answer.err_fatal)
  <2>1. hits <= 1 => /\ answer.d = word /\ answer.err_fatal = FALSE
                     /\ answer.err_corrected = (wrong # {})
    BY <1>7 DEF Corrects
  <2>2. hits = 2 => answer.err_fatal = TRUE
    BY <1>7 DEF Reports
  <2> HIDE DEF hits
  <2> QED BY <1>8, <2>1, <2>2
<1> QED BY <1>9 DEF word, wrong, answer

(***************************************************************************)
(* Whatever the ports write and wherever the bits flip, the decoders give  *)
(* back every word with at most one wrong bit, and say which case it is.   *)
(***************************************************************************)
THEOREM SingleFixedCorrect == EccSpec => []SingleFixed
<1>1. Inv => SingleFixed
  BY BenchAnswers DEF Inv
<1> QED BY <1>1, InvHolds, PTL

(* Two wrong bits are never taken for fewer, three are seen as one.        *)
THEOREM MoreSeenCorrect == EccSpec => []MoreSeen
<1>1. Inv => MoreSeen
  BY BenchAnswers DEF Inv
<1> QED BY <1>1, InvHolds, PTL

(***************************************************************************)
(* For every size of the memory, any bits inverted at port b, and any      *)
(* number of writes and upsets: both ports read the word last written, or  *)
(* are told that they do not.                                              *)
(***************************************************************************)
THEOREM ReadBackCorrect == EccSpec => []ReadBack
<1>1. Inv => ReadBack
  BY RamAssumption, PortsAnswer DEF Inv
<1> QED BY <1>1, InvHolds, PTL
=============================================================================
