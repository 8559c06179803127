------------------------------- MODULE EmuLink -------------------------------
(***************************************************************************)
(* How the driver calls the emulator: communicate_with_emulator and        *)
(* nctuss_receive_skb in nctuss_emudisk_main.c on one side, the main loop  *)
(* of udp_server.cxx on the other, UDP packets between them.  The driver   *)
(* polls the network card with the rest of the system paused, and sends    *)
(* the same packet again after poll_count_threshhold fruitless polls; the  *)
(* server recognises the repetition by the request id.                     *)
(*                                                                         *)
(* What the emulator does with a request is represented by the log of the  *)
(* ids it has carried out since the last RequestType_reset; the contents   *)
(* of a reply by the length of that log.                                   *)
(***************************************************************************)
EXTENDS Integers, Sequences, SequencesExt

CONSTANTS FirstId,       \* Emudisk.udp_send_reply_id after emudisk_init: 123
          IdSpace,       \* request ids are counted modulo IdSpace (u32)
          Reorder,       \* may a packet overtake another?
          MaxCalls,      \* bound: calls in one life of the module
          MaxSessions,   \* bound: times the module is loaded
          MaxLosses,     \* bound: packets the network loses
          MaxEarly       \* bound: resends while an answer is still under way

ASSUME IdAssumption ==          \* the second call of a session has an id too
  FirstId \in Nat \ {0} /\ IdSpace \in Nat /\ FirstId + 1 < IdSpace
ASSUME ReorderAssumption == Reorder \in BOOLEAN
ASSUME BoundsAssumption == {MaxCalls, MaxSessions, MaxLosses, MaxEarly} \subseteq Nat

VARIABLES
  \* The driver.
  calling,                  \* communicate_with_emulator is running
  current_waiting_reply_id,
  skb_replied,
  skb,                      \* the reply received last
  udp_send_reply_id,
  got,                      \* what the last call returned
  leaked,                   \* reply buffers never handed back to the pool
  session,
  \* The network.
  requests, replies,
  losses, early, resends,
  \* The server.
  current_max_request_id,
  reply,                    \* the reply sent last
  log,
  hung                      \* the server is in `while(1)'

driverVars == <<calling, current_waiting_reply_id, skb_replied, skb,
                udp_send_reply_id, got, leaked, session, early, resends>>
serverVars == <<current_max_request_id, reply, log, hung>>

vars == <<driverVars, requests, replies, losses, serverVars>>

Ids == 0 .. IdSpace - 1
Requests == [type : {"reset", "op"}, id : Ids]
Replies  == [id : Ids, result : Nat]
NoReply  == [id |-> 0, result |-> 0]

TypeOK ==
  /\ calling \in BOOLEAN /\ skb_replied \in BOOLEAN /\ hung \in BOOLEAN
  /\ current_waiting_reply_id \in Ids /\ udp_send_reply_id \in Ids
  /\ current_max_request_id \in Ids
  /\ skb \in Replies /\ reply \in Replies
  /\ got \in Nat \cup {-1}
  /\ leaked \in Nat /\ losses \in Nat /\ early \in Nat /\ resends \in Nat
  /\ session \in Nat
  /\ requests \in Seq(Requests) /\ replies \in Seq(Replies)
  /\ log \in Seq(Ids)

Init ==
  /\ calling = FALSE
  /\ current_waiting_reply_id = 0
  /\ skb_replied = FALSE
  /\ skb = NoReply
  /\ udp_send_reply_id = FirstId
  /\ got = -1
  /\ leaked = 0 /\ losses = 0 /\ early = 0 /\ resends = 0
  /\ session = 1
  /\ requests = <<>> /\ replies = <<>>
  /\ current_max_request_id = 0
  /\ reply = NoReply
  /\ log = <<>>
  /\ hung = FALSE

-----------------------------------------------------------------------------
(* The driver.                                                             *)

\* The first call of emudisk_init is emulator_reset.
CurrentRequest ==
  [type |-> IF current_waiting_reply_id = FirstId THEN "reset" ELSE "op",
   id   |-> current_waiting_reply_id]

\* Mutant: the counter has no width.
CallUnbounded ==
  /\ ~calling
  /\ udp_send_reply_id - FirstId \in 0 .. MaxCalls - 1
  /\ calling' = TRUE
  /\ skb_replied' = FALSE
  /\ current_waiting_reply_id' = udp_send_reply_id
  /\ udp_send_reply_id' = udp_send_reply_id + 1
  /\ requests' = Append(requests, CurrentRequest')
  /\ UNCHANGED <<skb, got, leaked, session, early, resends, replies, losses, serverVars>>

\* emulator_reset, emulator_submit_request, emulator_get_responses and
\* emulator_transfer_data: number the request, send it, start polling.
Call ==
  /\ ~calling
  /\ udp_send_reply_id - FirstId \in 0 .. MaxCalls - 1
  /\ calling' = TRUE
  /\ skb_replied' = FALSE
  /\ current_waiting_reply_id' = udp_send_reply_id
  /\ udp_send_reply_id' = (udp_send_reply_id + 1) % IdSpace
  /\ requests' = Append(requests, CurrentRequest')
  /\ UNCHANGED <<skb, got, leaked, session, early, resends, replies, losses, serverVars>>

\* Positions of the packets of a channel that may arrive next.
Deliverable(channel) == IF Reorder THEN DOMAIN channel ELSE DOMAIN channel \cap {1}

\* Mutant: whatever comes is taken for the answer.
ReceiveAnyReply(p) == skb' = replies[p] /\ skb_replied' = TRUE /\ UNCHANGED leaked

\* nctuss_receive_skb.  A reply to another call than the current one is
\* reported and dropped, and its buffer is not handed back.
nctuss_receive_skb(p) ==
  IF replies[p].id = current_waiting_reply_id
    THEN skb' = replies[p] /\ skb_replied' = TRUE /\ UNCHANGED leaked
    ELSE leaked' = leaked + 1 /\ UNCHANGED <<skb, skb_replied>>

\* The poll counter reaches its threshold: because nothing is under way any more,
\* or while an answer is still coming, at most MaxEarly times.
Resend ==
  /\ requests' = Append(requests, CurrentRequest)
  /\ resends' = resends + 1
  /\ IF requests = <<>> /\ replies = <<>>
       THEN UNCHANGED early
       ELSE early < MaxEarly /\ early' = early + 1

\* One round of the polling loop.  The counter is looked at after the poll, even
\* if that poll has brought the reply.
Poll ==
  /\ calling
  /\ ~skb_replied
  /\ \/ /\ \E p \in Deliverable(replies) : /\ nctuss_receive_skb(p)
                                           /\ replies' = RemoveAt(replies, p)
        /\ Resend \/ UNCHANGED <<requests, resends, early>>
     \/ Resend /\ UNCHANGED <<skb, skb_replied, leaked, replies>>
  /\ UNCHANGED <<calling, current_waiting_reply_id, udp_send_reply_id, got, session,
                 losses, serverVars>>

\* The loop ends and the caller takes the result out of the reply.
Return ==
  /\ calling
  /\ skb_replied
  /\ calling' = FALSE
  /\ got' = skb.result
  /\ UNCHANGED <<current_waiting_reply_id, skb_replied, skb, udp_send_reply_id,
                 leaked, session, early, resends, requests, replies, losses, serverVars>>

\* The memset of Emudisk.
Zero ==
  /\ current_waiting_reply_id' = 0
  /\ skb_replied' = FALSE
  /\ skb' = NoReply

\* The module is unloaded and loaded again; add_disk has read the partition
\* table in between, so that more than the reset has been called.
Reload ==
  /\ ~calling
  /\ session < MaxSessions
  /\ udp_send_reply_id \notin {FirstId, FirstId + 1}
  /\ session' = session + 1
  /\ Zero
  /\ udp_send_reply_id' = FirstId
  /\ UNCHANGED <<calling, got, leaked, early, resends, requests, replies, losses,
                 serverVars>>

-----------------------------------------------------------------------------
(* The server: one round of its main loop.  Left out is what it does with  *)
(* packets the driver never sends: it spins when id_check is not the id    *)
(* (udp_server.cxx, lines 630 to 633), and drops a packet too short for a  *)
(* request, or for the sector of a write (lines 592 and 696).              *)
Send(answer) == /\ reply' = answer
                /\ replies' = Append(replies, answer)

\* Mutant: the ids of the previous session are not forgotten.
ServeResetOnly(request) ==
  /\ request.type = "reset"
  /\ log' = <<>>
  /\ Send([id |-> request.id, result |-> 0])
  /\ UNCHANGED <<current_max_request_id, hung>>

\* RequestType_reset is carried out however often it comes.
ServeReset(request) ==
  /\ request.type = "reset"
  /\ current_max_request_id' = 0
  /\ log' = <<>>
  /\ Send([id |-> request.id, result |-> 0])
  /\ UNCHANGED hung

\* Mutant: the last request is new when it comes again.
ServeNewOrLast(request) ==
  /\ request.type = "op"
  /\ request.id >= current_max_request_id
  /\ current_max_request_id' = request.id
  /\ log' = Append(log, request.id)
  /\ Send([id |-> request.id, result |-> Len(log')])
  /\ UNCHANGED hung

ServeNew(request) ==
  /\ request.type = "op"
  /\ request.id > current_max_request_id
  /\ current_max_request_id' = request.id
  /\ log' = Append(log, request.id)
  /\ Send([id |-> request.id, result |-> Len(log')])
  /\ UNCHANGED hung

\* Mutant: without the `continue' the previous reply is sent and the request is
\* carried out again.
ServeOldFallsThrough(request) ==
  /\ request.type = "op"
  /\ request.id <= current_max_request_id
  /\ log' = Append(log, request.id)
  /\ reply' = [id |-> request.id, result |-> Len(log')]
  /\ replies' = replies \o <<reply, reply'>>
  /\ UNCHANGED <<current_max_request_id, hung>>

\* A request that is not newer than the last one: "resend the previous reply" if
\* it is the last one, print a line and spin if it is older.
ServeOld(request) ==
  /\ request.type = "op"
  /\ request.id <= current_max_request_id
  /\ hung' = (request.id < current_max_request_id)
  /\ IF hung' THEN UNCHANGED <<reply, replies>> ELSE Send(reply)
  /\ UNCHANGED <<current_max_request_id, log>>

Serve ==
  /\ ~hung
  /\ \E p \in Deliverable(requests) :
       /\ \/ ServeReset(requests[p])
          \/ ServeNew(requests[p])
          \/ ServeOld(requests[p])
       /\ requests' = RemoveAt(requests, p)
  /\ UNCHANGED <<driverVars, losses>>

-----------------------------------------------------------------------------
(* The network.                                                            *)
Lose ==
  /\ losses < MaxLosses
  /\ losses' = losses + 1
  /\ \/ \E p \in DOMAIN requests : requests' = RemoveAt(requests, p) /\ UNCHANGED replies
     \/ \E p \in DOMAIN replies : replies' = RemoveAt(replies, p) /\ UNCHANGED requests
  /\ UNCHANGED <<driverVars, serverVars>>

Next == Call \/ Poll \/ Return \/ Reload \/ Serve \/ Lose

Spec == Init /\ [][Next]_vars

-----------------------------------------------------------------------------
(* Properties.                                                             *)

\* The id of the n-th call after the reset.
OpId(n) == FirstId + n

\* The server carries out the calls of a session in order, without gaps and
\* without repetitions, whatever is lost, resent or answered late.
InOrderOnce == \A n \in DOMAIN log : log[n] = OpId(n)

\* The server is ahead of the driver by the current call at most: every call
\* that has returned in this session has been carried out since its reset, and
\* no reset or leftover of an earlier session has wiped it out.
NothingLost ==
  udp_send_reply_id > FirstId /\ ~(calling /\ current_waiting_reply_id = FirstId) =>
    Len(log) \in {udp_send_reply_id - FirstId - 1,
                 udp_send_reply_id - FirstId - IF calling THEN 2 ELSE 1}

\* The reply a call returns with is the answer to this call and no other.
RightAnswer ==
  calling /\ skb_replied =>
    /\ skb.id = current_waiting_reply_id
    /\ skb.result = current_waiting_reply_id - FirstId

\* The server never takes a request for one older than the last (line 618).
NeverHung == ~hung

\* Reply buffers leak, one per answer to a resend and no faster: the pool lasts
\* as long as packets are not lost or late.
LeakBounded == leaked <= resends

\* "Ignore duplicate requests" (line 615): a late duplicate changes nothing.
DuplicatesIgnored ==
  [][\A p \in DOMAIN requests :
       /\ requests' = RemoveAt(requests, p)
       /\ requests[p].type = "op"
       /\ requests[p].id < current_max_request_id
       /\ UNCHANGED losses
       => UNCHANGED <<current_max_request_id, reply, log, hung>>]_vars

-----------------------------------------------------------------------------
(* The link is a remote procedure call.  A call is carried out when the    *)
(* server first serves it; nothing else that happens on the link is seen.  *)
NoCall == -1

Remote == INSTANCE RPC WITH
            Reset  <- FirstId,
            call   <- IF calling THEN current_waiting_reply_id ELSE NoCall,
            answer <- IF calling /\ reply.id = current_waiting_reply_id
                        THEN reply.result ELSE -1

IsRPC == Remote!Spec

-----------------------------------------------------------------------------
(* The invariant that carries the safety properties from state to state    *)
(* where no packet overtakes another.                                      *)

\* The network keeps packets in order, or the driver waits until nothing is under
\* way before it sends a request again.
Orderly == ~Reorder \/ MaxEarly = 0

\* The server has carried out the current call, if there has been one in this
\* session.
Executed == current_waiting_reply_id \in {0, reply.id}

\* The driver still waits for its reply.
Pending == calling /\ ~skb_replied

RequestOf(id) == [type |-> IF id = FirstId THEN "reset" ELSE "op", id |-> id]

\* The server is where the call it carried out last has left it.
ServerOK ==
  /\ ~hung
  /\ reply.id = 0 \/ reply.id >= FirstId
  /\ current_max_request_id = IF reply.id = FirstId THEN 0 ELSE reply.id
  /\ reply.result = IF reply.id = 0 THEN 0 ELSE reply.id - FirstId
  /\ Len(log) = reply.result
  /\ InOrderOnce

\* The current call was carried out, or is the next one or a reset.
DriverOK ==
  /\ \/ /\ ~calling /\ udp_send_reply_id = FirstId
        /\ current_waiting_reply_id = 0 /\ reply.id # FirstId
     \/ /\ current_waiting_reply_id >= FirstId
        /\ udp_send_reply_id = (current_waiting_reply_id + 1) % IdSpace
  /\ Executed \/ /\ Pending
                 /\ \/ current_waiting_reply_id = FirstId
                    \/ reply.id >= FirstId /\ current_waiting_reply_id = reply.id + 1
  /\ calling /\ skb_replied => skb = reply

\* Under way are repetitions of the last call and then packets of this one: k
\* requests and m replies are repetitions.
RequestsAre(k) ==
  /\ k \in 0 .. Len(requests)
  /\ \A p \in DOMAIN requests :
       requests[p] = RequestOf(IF p <= k \/ Executed THEN reply.id
                                                     ELSE current_waiting_reply_id)
  /\ Executed => k = 0

RepliesAre(m) ==
  /\ m \in 0 .. Len(replies)
  /\ \A p \in DOMAIN replies : IF p <= m THEN replies[p].id # current_waiting_reply_id
                                         ELSE replies[p] = reply
  /\ ~Executed => m = Len(replies)
  /\ ~Pending => m = 0

\* A repetition that has arrived has leaked a buffer, and stems from a resend.
PacketsOK ==
  \E k, m \in Nat : RequestsAre(k) /\ RepliesAre(m) /\ leaked + k + m <= resends

CountOK == leaked + Len(requests) + Len(replies) <= resends + IF Pending THEN 1 ELSE 0

IInv == ServerOK /\ DriverOK /\ PacketsOK /\ CountOK

\* The patient driver has one packet under way, and none when it does not wait.
OnePacket ==
  MaxEarly = 0 => Len(requests) + Len(replies) <= IF Pending THEN 1 ELSE 0

-----------------------------------------------------------------------------
(* The invariant that bounds the leak, whatever overtakes what.            *)

\* Where in a channel packets of another call than the current one are.
Strays(channel) == {p \in DOMAIN channel : channel[p].id # current_waiting_reply_id}

\* The server answers under the id it was asked under, if at all.
AnswersToItsId ==
  /\ current_max_request_id \in {0, reply.id}
  /\ \A p \in DOMAIN requests : requests[p].id >= FirstId
  /\ calling => current_waiting_reply_id >= FirstId

\* While the driver waits, only strays leak, and each comes from a resend.
StraysOK ==
  Pending =>
    leaked + Cardinality(Strays(requests)) + Cardinality(Strays(replies)) <= resends

LeakInv == AnswersToItsId /\ StraysOK /\ CountOK
=============================================================================
