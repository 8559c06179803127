------------------------------- MODULE SSDSim -------------------------------
(***************************************************************************)
(* The disk emulator of emulator_server/udp_server.cxx: class MySSDSim,    *)
(* the timing model of an SSD with disk_channels independent channels.     *)
(* It never waits: submit_request books the channel that has been idle     *)
(* longest and stores when the request will complete; get_next_responses   *)
(* answers a query about the future.  All times are simulated time, the    *)
(* clock of the emulated machine, sent along with every call.              *)
(*                                                                         *)
(* Left out: the printed counters (total_*_request_count,                  *)
(* most_frontier_simulation_time, current_time_), which no reply carries.  *)
(***************************************************************************)
EXTENDS Integers, FiniteSets

CONSTANTS disk_channels,   \* module parameter of the driver, data2 of reset
          MAX_REQUEST_SECTOR_NUM,  \* largest request, in sectors
          Latency,         \* Latency[sequential, rw, count]: the two
                           \* response_time tables / 1000 * speed_factor_
          StaleHeads       \* <<request_rw, request_last_sector>> a channel
                           \* may hold before its first request

ASSUME ChannelsAssumption == disk_channels \in Nat \ {0}
ASSUME MaxSectorsAssumption == MAX_REQUEST_SECTOR_NUM \in Nat \ {0}

Counts == 1 .. MAX_REQUEST_SECTOR_NUM

ASSUME LatencyAssumption  == Latency \in [BOOLEAN \X {0, 1} \X Counts -> Nat]
ASSUME HeadsAssumption    == StaleHeads \subseteq Int \X Int /\ StaleHeads # {}

VARIABLE ssd_channels      \* struct ssd_channel ssd_channels[]

Chan == 0 .. disk_channels - 1

\* The io_request_id of a channel no request has used since setup().
NotInUse == -1

Channels == [Chan -> [io_request_id       : Int,
                      completion_time     : Nat,
                      request_rw          : Int,
                      request_last_sector : Int]]

-----------------------------------------------------------------------------
(* setup() on a fresh server: request_rw and request_last_sector are never *)
(* initialised, neither by the empty constructor nor here, so each channel *)
(* holds an arbitrary pair.                                                *)
setup ==
  \E head \in [Chan -> StaleHeads] :
    ssd_channels = [c \in Chan |-> [io_request_id       |-> NotInUse,
                                    completion_time     |-> 0,
                                    request_rw          |-> head[c][1],
                                    request_last_sector |-> head[c][2]]]

CompletionTime(c) == ssd_channels[c].completion_time

\* Mutant: the largest completion time.
Newest(c) == \A d \in Chan :
               \/ CompletionTime(d) < CompletionTime(c)
               \/ CompletionTime(c) = CompletionTime(d) /\ c <= d

\* The scan at the head of submit_request: the smallest completion time, and
\* the lowest index among equals (the comparison is strict).
Oldest(c) == \A d \in Chan :
               \/ CompletionTime(c) < CompletionTime(d)
               \/ CompletionTime(c) = CompletionTime(d) /\ c <= d

OldestChannel == CHOOSE c \in Chan : Oldest(c)

\* submit_request returns -1, and changes nothing, if even the oldest channel
\* is still busy at the time of submission.
Accepts(time) == CompletionTime(OldestChannel) < time

\* Some channel's last request had this direction and ended where this starts.
IsSequential(rw, sector) ==
  \E c \in Chan : /\ ssd_channels[c].request_rw = rw
                  /\ ssd_channels[c].request_last_sector = sector

\* Mutant: the response time is subtracted.
submit_request_backwards(time, rw, sector, count, id) ==
  ssd_channels' =
    [ssd_channels EXCEPT ![OldestChannel] =
      [io_request_id       |-> id,
       completion_time     |-> time - Latency[IsSequential(rw, sector), rw, count],
       request_rw          |-> rw,
       request_last_sector |-> sector + count]]

submit_request(time, rw, sector, count, id) ==
  ssd_channels' =
    IF Accepts(time)
      THEN [ssd_channels EXCEPT ![OldestChannel] =
             [io_request_id       |-> id,
              completion_time     |->
                time + Latency[IsSequential(rw, sector), rw, count],
              request_rw          |-> rw,
              request_last_sector |-> sector + count]]
      ELSE ssd_channels

-----------------------------------------------------------------------------
NotBefore(t) == {c \in Chan : CompletionTime(c) >= t}   \* mutant: not strict

(* get_next_responses(t): the earliest completion after t and the requests *)
(* that complete then.  num_response = 0 is an empty set of ids.           *)
Pending(t) == {c \in Chan : CompletionTime(c) > t}

NextChannels(t) ==
  {c \in Pending(t) : \A d \in Pending(t) : CompletionTime(c) <= CompletionTime(d)}

get_next_responses(t) ==
  [time |-> IF Pending(t) = {} THEN 0
            ELSE CompletionTime(CHOOSE c \in NextChannels(t) : TRUE),
   ids  |-> {ssd_channels[c].io_request_id : c \in NextChannels(t)}]
=============================================================================
