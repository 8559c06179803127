-------------------------- MODULE ResponseTimeProofs --------------------------
(* The response times of RAM disk and server agree at every speed factor   *)
(* up to the limit and at none beyond it, on a board with 32-bit integers. *)
EXTENDS ResponseTime, NatLemmas, TLAPS

\* The type of an int on the board, and the largest request the queue is told to
\* send (MAX_REQUEST_SECTOR_NUM of both drivers).
Board == INT_MAX = 2147483647 /\ MAX_REQUEST_SECTOR_NUM <= 128

-----------------------------------------------------------------------------
(* The tables.                                                             *)
LEMMA SizesAre == Sizes = 1 .. 8
PROOF BY DEF Sizes, request_size_kb

\* What is true of the eight entries of a row is true of the one looked up.
LEMMA RowEntry ==
  ASSUME NEW S, NEW a \in S, NEW b \in S, NEW c \in S, NEW d \in S,
         NEW e \in S, NEW f \in S, NEW g \in S, NEW h \in S, NEW i \in 1 .. 8
  PROVE  <<a, b, c, d, e, f, g, h>>[i] \in S
PROOF
  <1>1. i = 1 \/ i = 2 \/ i = 3 \/ i = 4 \/ i = 5 \/ i = 6 \/ i = 7 \/ i = 8
    OBVIOUS
  <1> QED BY <1>1, SMT

\* The slowest entry is the random write of 64 KB, the fastest the sequential
\* read of one sector.
Rates == {n \in Nat : 370 <= n /\ n <= 522101}

LEMMA RatesAre ==
  ASSUME NEW seq \in BOOLEAN, NEW rw \in {0, 1}, NEW i \in Sizes
  PROVE  Rate(seq, rw, i) \in Rates
PROOF
  <1>1. i \in 1 .. 8
    BY SizesAre
  <1>2. iorate_table_seq[1][i] \in Rates
    <2>1. iorate_table_seq[1] =
            <<522101, 488278, 429834, 371532, 298845, 281019, 146861, 71935>>
      BY SMT DEF iorate_table_seq
    <2>2. /\ 522101 \in Rates /\ 488278 \in Rates /\ 429834 \in Rates /\ 371532 \in Rates
          /\ 298845 \in Rates /\ 281019 \in Rates /\ 146861 \in Rates /\ 71935 \in Rates
      BY SMT DEF Rates
    <2> QED BY <1>1, <2>1, <2>2, RowEntry, SMT
  <1>3. iorate_table_seq[2][i] \in Rates
    <2>1. iorate_table_seq[2] =
            <<108649, 104858, 101045, 87071, 73645, 289488, 143416, 72945>>
      BY SMT DEF iorate_table_seq
    <2>2. /\ 108649 \in Rates /\ 104858 \in Rates /\ 101045 \in Rates /\ 87071 \in Rates
          /\ 73645 \in Rates /\ 289488 \in Rates /\ 143416 \in Rates /\ 72945 \in Rates
      BY SMT DEF Rates
    <2> QED BY <1>1, <2>1, <2>2, RowEntry, SMT
  <1>4. iorate_table_random[1][i] \in Rates
    <2>1. iorate_table_random[1] =
            <<194672, 189513, 186798, 176876, 159182, 141700, 104546, 66149>>
      BY SMT DEF iorate_table_random
    <2>2. /\ 194672 \in Rates /\ 189513 \in Rates /\ 186798 \in Rates /\ 176876 \in Rates
          /\ 159182 \in Rates /\ 141700 \in Rates /\ 104546 \in Rates /\ 66149 \in Rates
      BY SMT DEF Rates
    <2> QED BY <1>1, <2>1, <2>2, RowEntry, SMT
  <1>5. iorate_table_random[2][i] \in Rates
    <2>1. iorate_table_random[2] = <<898, 899, 898, 862, 778, 795, 450, 370>>
      BY SMT DEF iorate_table_random
    <2>2. /\ 898 \in Rates /\ 899 \in Rates /\ 862 \in Rates /\ 778 \in Rates
          /\ 795 \in Rates /\ 450 \in Rates /\ 370 \in Rates
      BY SMT DEF Rates
    <2> QED BY <1>1, <2>1, <2>2, RowEntry, SMT
  <1>6. rw + 1 = 1 \/ rw + 1 = 2
    BY SMT
  <1> QED BY <1>2, <1>3, <1>4, <1>5, <1>6 DEF Rate

\* A quotient grows as the divisor falls.
LEMMA QuotientBounds ==
  ASSUME NEW r \in Rates
  PROVE  /\ 1000000000 \div r \in Nat
         /\ 1915 <= 1000000000 \div r
         /\ 1000000000 \div r <= 2702702
PROOF
  <1> DEFINE q == 1000000000 \div r
  <1>1. q \in Int /\ q * r <= 1000000000 /\ 1000000000 < (q + 1) * r
    BY SMT DEF Rates
  <1>2. r \in Nat /\ 370 <= r /\ r <= 522101
    BY SMT DEF Rates
  <1> HIDE DEF q
  <1>3. q <= 2702702
    <2>1. SUFFICES ASSUME q >= 2702703 PROVE FALSE
      BY SMT, <1>1
    <2>2. q * 370 <= q * r
      BY SMT, <1>1, <1>2, <2>1
    <2>3. 2702703 * 370 <= q * 370
      BY SMT, <1>1, <2>1
    <2>4. q * r \in Int
      BY SMT, <1>1, <1>2
    <2> HIDE DEF q
    <2> QED BY SMT, <1>1, <2>2, <2>3, <2>4
  <1>4. q >= 1915
    <2>1. SUFFICES ASSUME q <= 1914 PROVE FALSE
      BY SMT, <1>1
    <2>2. (q + 1) * r <= 1915 * r
      BY SMT, <1>1, <1>2, <2>1
    <2> QED BY SMT, <1>1, <1>2, <2>2
  <1> QED BY SMT, <1>1, <1>3, <1>4 DEF q

\* The server's entries, in microseconds: at most 270270.
LEMMA EntryBounds ==
  ASSUME NEW k \in Kinds
  PROVE  /\ ServerEntry(k) \div 1000 \in Nat
         /\ 191 <= ServerEntry(k) \div 1000
         /\ ServerEntry(k) \div 1000 <= 270270
PROOF
  <1>1. k[1] \in BOOLEAN /\ k[2] \in {0, 1} /\ k[3] \in Sizes
    BY SMT DEF Kinds
  <1>2. Rate(k[1], k[2], k[3]) \in Rates
    BY <1>1, RatesAre
  <1> DEFINE q == 1000000000 \div Rate(k[1], k[2], k[3])
  <1>3. q \in Nat /\ 1915 <= q /\ q <= 2702702
    BY SMT, <1>2, QuotientBounds
  <1>4. ServerEntry(k) = q * 100
    BY SMT DEF ServerEntry
  <1> HIDE DEF q
  <1> QED BY SMT, <1>3, <1>4

\* The largest is taken: a random write of 64 KB.
LEMMA SlowestEntry ==
  \E k \in Kinds : ServerEntry(k) \div 1000 = 270270
PROOF
  <1>1. <<FALSE, 1, 8>> \in Kinds
    <2>1. 8 \in Sizes
      BY SizesAre
    <2>2. \A seq \in BOOLEAN : <<seq, 1, 8>> \in Kinds
      BY SMT, <2>1 DEF Kinds
    <2> QED BY <2>2
  <1>2. Rate(FALSE, 1, 8) = 370
    BY SMT DEF Rate, iorate_table_random
  <1>3. 1000000000 \div 370 = 2702702
    BY SMT
  <1>4. ServerEntry(<<FALSE, 1, 8>>) = 2702702 * 100
    <2> DEFINE Entry(rate) == (1000000000 \div rate) * 100
    <2>1. \A seq : ServerEntry(<<seq, 1, 8>>) = Entry(Rate(seq, 1, 8))
      BY SMT DEF ServerEntry
    <2>2. Entry(370) = 2702702 * 100
      BY SMT, <1>3
    <2> HIDE DEF Entry
    <2>3. ServerEntry(<<FALSE, 1, 8>>) = Entry(370)
      BY <1>2, <2>1
    <2> QED BY SMT, <2>2, <2>3
  <1>5. ServerEntry(<<FALSE, 1, 8>>) \div 1000 = 270270
    BY SMT, <1>4
  <1> QED BY <1>1, <1>5

-----------------------------------------------------------------------------
(* The product of the RAM disk, in an int.                                 *)
LEMMA FitsExact ==
  ASSUME NEW a \in Nat, NEW b \in Nat, INT_MAX \in Nat
  PROVE  Fits(a, b) <=> a * b <= INT_MAX
PROOF
  <1>1. CASE b = 0
    BY SMT, <1>1 DEF Fits
  <1>2. CASE b # 0
    <2> DEFINE q == INT_MAX \div b
    <2>1. q \in Nat /\ q * b <= INT_MAX /\ INT_MAX < (q + 1) * b
      BY SMT, <1>2
    <2>2. Fits(a, b) <=> a <= q
      BY SMT, <1>2 DEF Fits
    <2> HIDE DEF q
    <2>3. a <= q => a * b <= q * b
      BY SMT, <2>1
    <2>4. a >= q + 1 => a * b >= (q + 1) * b
      BY SMT, <2>1
    <2> QED BY SMT, <2>1, <2>2, <2>3, <2>4
  <1> QED BY SMT, <1>1, <1>2

\* Up to the limit every entry fits.
LEMMA FitsBelow ==
  ASSUME Board, NEW k \in Kinds, NEW factor \in Nat, factor <= FactorLimit
  PROVE  Fits(ServerEntry(k) \div 1000, factor)
PROOF
  <1> DEFINE time == ServerEntry(k) \div 1000
  <1>1. time \in Nat /\ time <= 270270
    BY SMT, EntryBounds
  <1> HIDE DEF time
  <1>2. time * factor <= 270270 * factor
    BY SMT, <1>1
  <1>3. time * factor <= INT_MAX /\ INT_MAX \in Nat
    BY SMT, <1>1, <1>2 DEF Board, FactorLimit
  <1>4. Fits(time, factor)
    BY SMT, <1>1, <1>3, FitsExact
  <1> QED BY SMT, <1>4 DEF time

\* Beyond it one does not.
LEMMA OverflowsAbove ==
  ASSUME Board, NEW factor \in Nat, factor > FactorLimit
  PROVE  \E k \in Kinds : ~Fits(ServerEntry(k) \div 1000, factor)
PROOF
  <1>1. PICK k \in Kinds : ServerEntry(k) \div 1000 = 270270
    BY SlowestEntry
  <1>2. 270270 * factor > INT_MAX /\ INT_MAX \in Nat
    BY SMT DEF Board, FactorLimit
  <1>3. ~Fits(270270, factor)
    BY SMT, <1>2, FitsExact
  <1> QED BY SMT, <1>1, <1>3

-----------------------------------------------------------------------------
(* The search for the size.                                                *)
LEMMA SizeFound ==
  ASSUME Board, NEW count \in 1 .. MAX_REQUEST_SECTOR_NUM, MAX_REQUEST_SECTOR_NUM \in Nat
  PROVE  /\ LargeEnough(count * SECTOR_SIZE) # {}
         /\ SizeIndex(count * SECTOR_SIZE) \in LargeEnough(count * SECTOR_SIZE)
         /\ \A j \in LargeEnough(count * SECTOR_SIZE) : SizeIndex(count * SECTOR_SIZE) <= j
PROOF
  <1> DEFINE S == LargeEnough(count * SECTOR_SIZE)
  <1>1. count * SECTOR_SIZE <= 65536
    BY SMT DEF Board, SECTOR_SIZE
  <1>2. request_size_kb[8] = 65536 /\ 8 \in Sizes
    BY SMT, SizesAre DEF request_size_kb
  <1>3. S \in SUBSET Nat /\ 8 \in S
    BY SMT, <1>1, <1>2, SizesAre DEF LargeEnough
  <1>4. PICK m \in S : \A n \in S : m <= n
    <2> HIDE DEF S
    <2> QED BY <1>3, NatHasMinimum
  <1>5. SizeIndex(count * SECTOR_SIZE) = CHOOSE i \in S : \A j \in S : i <= j
    BY SMT DEF SizeIndex
  <1> HIDE DEF S
  <1>6. SizeIndex(count * SECTOR_SIZE) \in S
        /\ \A j \in S : SizeIndex(count * SECTOR_SIZE) <= j
    BY SMT, <1>4, <1>5
  <1> QED BY <1>3, <1>6 DEF S

\* Every size of the table is twice the one before it.
LEMMA SizesDouble ==
  /\ request_size_kb[1] = 512
  /\ \A i \in 1 .. 7 : request_size_kb[i + 1] = 2 * request_size_kb[i]
  /\ \A i \in 1 .. 8 : request_size_kb[i] \in Nat
PROOF BY SMT DEF request_size_kb

\* So no request is charged for more than twice its size, rounding up apart.
LEMMA NotTwiceTooLarge ==
  ASSUME Board, MAX_REQUEST_SECTOR_NUM \in Nat,
         NEW count \in 1 .. MAX_REQUEST_SECTOR_NUM, count > 1
  PROVE  2 * (count * SECTOR_SIZE) > request_size_kb[SizeIndex(count * SECTOR_SIZE)]
PROOF
  <1> DEFINE nbytes == count * SECTOR_SIZE
             i == SizeIndex(nbytes)
  <1>1. nbytes \in Nat /\ nbytes >= 1024
    BY SMT DEF SECTOR_SIZE, Board
  <1>2. i \in LargeEnough(nbytes) /\ \A j \in LargeEnough(nbytes) : i <= j
    BY SizeFound
  <1> HIDE DEF nbytes, i
  <1>3. i \in 1 .. 8
    BY SMT, <1>2, SizesAre DEF LargeEnough
  <1>4. CASE i = 1
    BY SMT, <1>1, <1>4, SizesDouble DEF nbytes, i
  <1>5. CASE i # 1
    <2>1. i - 1 \in 1 .. 7 /\ i - 1 \in Sizes
      BY SMT, <1>3, <1>5, SizesAre
    <2>2. i - 1 \notin LargeEnough(nbytes)
      BY SMT, <1>2, <1>3
    <2>3. nbytes > request_size_kb[i - 1]
      BY SMT, <1>1, <2>1, <2>2, SizesDouble DEF LargeEnough
    <2>4. request_size_kb[i] = 2 * request_size_kb[i - 1]
      BY SMT, <1>3, <2>1, SizesDouble
    <2>5. request_size_kb[i - 1] \in Nat
      BY SMT, <2>1, SizesDouble
    <2>6. 2 * nbytes > request_size_kb[i]
      BY SMT, <1>1, <2>3, <2>4, <2>5
    <2> QED BY <2>6 DEF nbytes, i
  <1> QED BY <1>4, <1>5

-----------------------------------------------------------------------------
(* The two programs.  The tables are as they were computed at load, and    *)
(* the last request has taken the same entry of both.                      *)
TablesOK ==
  /\ speed_factor \in Nat
  /\ \E undefined \in OverflowOutcomes :
       ram_table = [k \in Kinds |-> RamEntry(k, speed_factor, undefined)]

AnsweredOK ==
  \/ ram_time = 0 /\ server_time = <<0, 0>>
  \/ \E k \in Kinds : /\ ram_time = ram_table[k]
                      /\ server_time = <<ServerEntry(k) \div 1000, speed_factor>>

IInv == TablesOK /\ AnsweredOK

LEMMA InitInv == Init => IInv
PROOF BY FactorsAssumption DEF Init, IInv, TablesOK, AnsweredOK

LEMMA NextInv ==
  ASSUME Board, IInv, [Next]_vars
  PROVE  IInv'
PROOF
  <1>1. CASE UNCHANGED vars
    BY <1>1 DEF vars, IInv, TablesOK, AnsweredOK
  <1>2. CASE Next
    <2>1. PICK r \in Requests : Submit(r[1], r[2], r[3])
      BY <1>2 DEF Next
    <2> DEFINE kind == <<r[1], r[2], SizeIndex(r[3] * SECTOR_SIZE)>>
    <2>2. /\ r[1] \in BOOLEAN /\ r[2] \in {0, 1}
          /\ r[3] \in 1 .. MAX_REQUEST_SECTOR_NUM
      BY SMT DEF Requests
    <2>3. kind \in Kinds
      <3>1. SizeIndex(r[3] * SECTOR_SIZE) \in Sizes
        BY <2>2, SizeFound, MaxSectorsAssumption DEF LargeEnough
      <3> QED BY SMT, <2>2, <3>1 DEF Kinds
    <2>4. /\ ram_time' = ram_table[kind]
          /\ server_time' = <<ServerEntry(kind) \div 1000, speed_factor>>
          /\ UNCHANGED <<speed_factor, ram_table>>
      BY SMT, <2>1 DEF Submit
    <2> HIDE DEF kind
    <2>5. AnsweredOK'
      <3>1. ram_time' = ram_table'[kind] /\ server_time' = <<ServerEntry(kind) \div 1000, speed_factor'>>
        BY <2>4
      <3> QED BY <2>3, <3>1 DEF AnsweredOK
    <2>6. TablesOK'
      BY <2>4 DEF IInv, TablesOK
    <2> QED BY <2>5, <2>6 DEF IInv
  <1> QED BY <1>1, <1>2

\* With 32-bit integers the RAM disk takes as long as the server says, for every
\* request and every speed factor up to the limit; beyond it an entry of its table
\* overflows, whatever the factor.
THEOREM SameTimes == ASSUME Board PROVE Spec => []SameUpToLimit
PROOF
  <1>1. IInv => SameUpToLimit
    <2> SUFFICES ASSUME IInv PROVE SameUpToLimit
      OBVIOUS
    <2>1. speed_factor \in Nat
      BY DEF IInv, TablesOK
    <2>2. CASE speed_factor <= FactorLimit
      <3>1. CASE ram_time = 0 /\ server_time = <<0, 0>>
        BY SMT, <2>2, <3>1 DEF SameUpToLimit
      <3>2. ASSUME NEW k \in Kinds, ram_time = ram_table[k],
                   server_time = <<ServerEntry(k) \div 1000, speed_factor>>
            PROVE  SameUpToLimit
        <4>1. Fits(ServerEntry(k) \div 1000, speed_factor)
          BY <2>1, <2>2, FitsBelow
        <4>2. PICK undefined \in OverflowOutcomes :
                ram_table = [c \in Kinds |-> RamEntry(c, speed_factor, undefined)]
          BY DEF IInv, TablesOK
        <4>3. ram_time = RamEntry(k, speed_factor, undefined)
          BY <3>2, <4>2
        <4>4. ram_time = (ServerEntry(k) \div 1000) * speed_factor
          BY SMT, <4>1, <4>3 DEF RamEntry
        <4>5. server_time[1] = ServerEntry(k) \div 1000 /\ server_time[2] = speed_factor
          BY SMT, <3>2
        <4> QED BY <2>2, <4>4, <4>5 DEF SameUpToLimit
      <3> QED BY <3>1, <3>2 DEF IInv, AnsweredOK
    <2>3. CASE ~(speed_factor <= FactorLimit)
      <3>1. speed_factor > FactorLimit
        BY SMT, <2>1, <2>3 DEF FactorLimit
      <3> QED BY <2>1, <2>3, <3>1, OverflowsAbove DEF SameUpToLimit
    <2> QED BY <2>2, <2>3
  <1> QED BY <1>1, InitInv, NextInv, PTL DEF Spec

\* Every request the block layer may send finds the smallest size that holds it,
\* so that neither program reaches its `while(1)', and takes some time.
THEOREM SizesServed == ASSUME Board PROVE Spec => []EverySizeServed
PROOF
  <1>1. EverySizeServed
    <2>1. ASSUME NEW r \in Requests
          PROVE  /\ LargeEnough(r[3] * SECTOR_SIZE) # {}
                 /\ r[3] > 1 => 2 * (r[3] * SECTOR_SIZE)
                                  > request_size_kb[SizeIndex(r[3] * SECTOR_SIZE)]
                 /\ ServerEntry(<<r[1], r[2], SizeIndex(r[3] * SECTOR_SIZE)>>) \div 1000 > 0
      <3> DEFINE kind == <<r[1], r[2], SizeIndex(r[3] * SECTOR_SIZE)>>
      <3>1. /\ r[1] \in BOOLEAN /\ r[2] \in {0, 1}
            /\ r[3] \in 1 .. MAX_REQUEST_SECTOR_NUM
        BY SMT DEF Requests
      <3>2. LargeEnough(r[3] * SECTOR_SIZE) # {} /\ SizeIndex(r[3] * SECTOR_SIZE) \in Sizes
        BY <3>1, SizeFound, MaxSectorsAssumption DEF LargeEnough
      <3>3. kind \in Kinds
        BY SMT, <3>1, <3>2 DEF Kinds
      <3> HIDE DEF kind
      <3>4. ServerEntry(kind) \div 1000 > 0
        BY SMT, <3>3, EntryBounds
      <3> QED BY <3>1, <3>2, <3>4, NotTwiceTooLarge, MaxSectorsAssumption DEF kind
    <2> QED BY <2>1 DEF EverySizeServed
  <1> QED BY <1>1, PTL
==============================================================================
