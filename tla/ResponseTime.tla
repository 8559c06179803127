---------------------------- MODULE ResponseTime ----------------------------
(***************************************************************************)
(* The response times: the constant Latency of SSDSim and RamDisk as the   *)
(* two programs compute it, from the I/O rates the SSD is known to have.   *)
(* emulator_server/udp_server.cxx multiplies by the speed factor at every  *)
(* request, in 64 bits; emulator_kernel/nctuss_ramdisk_main.c once at load *)
(* time, in the 32 bits that an int and a long have on the board.          *)
(*                                                                         *)
(* Every operation is an integer division or product in the order of the   *)
(* code.  A signed product that does not fit is undefined in C: it is one  *)
(* of OverflowOutcomes.                                                    *)
(***************************************************************************)
EXTENDS Integers, Sequences

CONSTANTS speed_factors,    \* values of the module parameter speed_factor
          INT_MAX,          \* 2^31 - 1
          OverflowOutcomes, \* what an overflowing product may yield
          MAX_REQUEST_SECTOR_NUM

ASSUME FactorsAssumption == speed_factors \subseteq Nat
ASSUME IntAssumption == INT_MAX \in Nat /\ OverflowOutcomes \subseteq Int
ASSUME MaxSectorsAssumption == MAX_REQUEST_SECTOR_NUM \in Nat \ {0}

SECTOR_SIZE == 512

\* In bytes, whatever the name says.
request_size_kb == <<512, 1024, 2048, 4096, 8192, 16384, 32768, 65536>>

\* In 1/100 operations per second, reads and writes.
iorate_table_random ==
  <<<<194672, 189513, 186798, 176876, 159182, 141700, 104546, 66149>>,
    <<898, 899, 898, 862, 778, 795, 450, 370>>>>
iorate_table_seq ==
  <<<<522101, 488278, 429834, 371532, 298845, 281019, 146861, 71935>>,
    <<108649, 104858, 101045, 87071, 73645, 289488, 143416, 72945>>>>

VARIABLES speed_factor,  \* set when the module is loaded
          ram_table,     \* the two response_time_tables of the RAM disk
          request,       \* the last request: sequential, rw, sectors
          ram_time,      \* ... the response time the RAM disk gives it
          server_time    \* ... and the server: a 64-bit product, kept as its
                         \* two factors

vars == <<speed_factor, ram_table, request, ram_time, server_time>>

Sizes    == DOMAIN request_size_kb
Kinds    == BOOLEAN \X {0, 1} \X Sizes
Requests == BOOLEAN \X {0, 1} \X (1 .. MAX_REQUEST_SECTOR_NUM)

NoRequest == <<>>

Rate(seq, rw, i) == IF seq THEN iorate_table_seq[rw + 1][i]
                           ELSE iorate_table_random[rw + 1][i]

\* The tables of the server, in nanoseconds: 10^11 / rate would not fit an int.
ServerEntry(k) == (1000000000 \div Rate(k[1], k[2], k[3])) * 100

Fits(a, b) == b = 0 \/ a <= INT_MAX \div b

\* Mutant: the product before the quotient.
RamEntryProductFirst(k, factor, undefined) ==
  IF Fits(ServerEntry(k), factor) THEN (ServerEntry(k) * factor) \div 1000
                                  ELSE undefined

RamEntry(k, factor, undefined) ==
  LET time == ServerEntry(k) \div 1000
  IN  IF Fits(time, factor) THEN time * factor ELSE undefined

\* Mutant: a request of exactly a table size belongs to the next.
LargerSizes(nbytes) == {i \in Sizes : nbytes < request_size_kb[i]}

\* The sizes are searched in order for the first that is large enough.
LargeEnough(nbytes) == {i \in Sizes : nbytes <= request_size_kb[i]}

SizeIndex(nbytes) ==
  CHOOSE i \in LargeEnough(nbytes) : \A j \in LargeEnough(nbytes) : i <= j

\* emudisk_init of the RAM disk, main of the server.  One outcome stands for all
\* overflows of a load; requests look at one entry at a time.
Init ==
  /\ speed_factor \in speed_factors
  /\ \E undefined \in OverflowOutcomes :
       ram_table = [k \in Kinds |-> RamEntry(k, speed_factor, undefined)]
  /\ request = NoRequest
  /\ ram_time = 0
  /\ server_time = <<0, 0>>

\* A request of a size the tables do not have would reach a `while(1)'.
Submit(seq, rw, count) ==
  LET nbytes == count * SECTOR_SIZE
      kind   == <<seq, rw, SizeIndex(nbytes)>>
  IN  /\ request' = <<seq, rw, count>>
      /\ LargeEnough(nbytes) # {}
      /\ ram_time' = ram_table[kind]
      /\ server_time' = <<ServerEntry(kind) \div 1000, speed_factor>>
      /\ UNCHANGED <<speed_factor, ram_table>>

Next == \E r \in Requests : Submit(r[1], r[2], r[3])

Spec == Init /\ [][Next]_vars

-----------------------------------------------------------------------------
(* Properties.                                                             *)

\* The largest speed factor, in thousandths, at which every entry fits: the
\* emulated SSD can be slowed down 7.9 times.
FactorLimit == 7945

\* Up to that factor the RAM disk takes as long as the server says, for every
\* request; beyond it some entry of its tables overflows.
SameUpToLimit ==
  IF speed_factor <= FactorLimit
    THEN ram_time = server_time[1] * server_time[2]
    ELSE \E k \in Kinds : ~Fits(ServerEntry(k) \div 1000, speed_factor)

\* Every request the block layer may send finds its size in the tables, the
\* smallest that holds it (neither `while(1)' is reached: 408, server 197), and
\* the SSD never does in no time what takes it time.
EverySizeServed ==
  request = NoRequest =>
  \A r \in Requests :
    LET nbytes == r[3] * SECTOR_SIZE
    IN  /\ LargeEnough(nbytes) # {}
        /\ r[3] > 1 => 2 * nbytes > request_size_kb[SizeIndex(nbytes)]
        /\ speed_factor > 0 => ServerEntry(<<r[1], r[2], SizeIndex(nbytes)>>) \div 1000 > 0
==============================================================================
