---------------------------- MODULE EmuLinkProofs ----------------------------
(* Where packets are lost and delayed but none overtakes another, the link *)
(* is correct for any number of calls, sessions, losses and resends.       *)
EXTENDS EmuLink, FiniteSetTheorems, SequenceTheorems, TLAPS

LEMMA IdsAreNumbers == FirstId \in Ids /\ 0 \in Ids /\ Ids \subseteq Nat
PROOF BY IdAssumption DEF Ids

-----------------------------------------------------------------------------
(* Packets.                                                                *)
LEMMA Removed ==
  ASSUME NEW S, NEW s \in Seq(S), NEW p \in DOMAIN s
  PROVE  /\ RemoveAt(s, p) \in Seq(S)
         /\ p \in 1 .. Len(s) /\ Len(s) \in Nat
         /\ Len(RemoveAt(s, p)) = Len(s) - 1
         /\ \A q \in DOMAIN RemoveAt(s, p) :
              /\ q \in 1 .. Len(s) - 1
              /\ RemoveAt(s, p)[q] = IF q < p THEN s[q] ELSE s[q + 1]
PROOF
  <1>1. p \in 1 .. Len(s) /\ Len(s) \in Nat
    BY LenProperties
  <1> DEFINE before == SubSeq(s, 1, p - 1)
             after  == SubSeq(s, p + 1, Len(s))
  <1>2. /\ before \in Seq(S) /\ Len(before) = p - 1
        /\ \A q \in 1 .. p - 1 : before[q] = s[q]
    BY <1>1, SubSeqProperties
  <1>3. /\ after \in Seq(S) /\ Len(after) = Len(s) - p
        /\ \A q \in 1 .. Len(s) - p : after[q] = s[q + p]
    BY <1>1, SubSeqProperties
  <1>4. RemoveAt(s, p) = before \o after
    BY DEF RemoveAt
  <1> HIDE DEF before, after
  <1>5. /\ RemoveAt(s, p) \in Seq(S) /\ Len(RemoveAt(s, p)) = Len(s) - 1
        /\ \A q \in 1 .. Len(s) - 1 :
             RemoveAt(s, p)[q] = IF q <= p - 1 THEN before[q] ELSE after[q - (p - 1)]
    BY <1>1, <1>2, <1>3, <1>4, ConcatProperties
  <1>6. DOMAIN RemoveAt(s, p) = 1 .. Len(s) - 1
    BY <1>5, LenProperties
  <1>7. ASSUME NEW q \in 1 .. Len(s) - 1
        PROVE  RemoveAt(s, p)[q] = IF q < p THEN s[q] ELSE s[q + 1]
    <2>1. CASE q < p
      BY <1>1, <1>2, <1>5, <2>1
    <2>2. CASE q >= p
      <3> DEFINE n == q - (p - 1)
      <3>1. n \in 1 .. Len(s) - p /\ n + p = q + 1 /\ ~(q <= p - 1)
        BY <1>1, <2>2
      <3>2. RemoveAt(s, p)[q] = after[n]
        BY <1>5, <3>1
      <3> HIDE DEF n
      <3>3. after[n] = s[q + 1]
        BY <1>3, <3>1
      <3> QED BY <2>2, <3>2, <3>3
    <2> QED BY <1>1, <2>1, <2>2
  <1> QED BY <1>1, <1>5, <1>6, <1>7

LEMMA Appended ==
  ASSUME NEW S, NEW s \in Seq(S), NEW e \in S
  PROVE  /\ Append(s, e) \in Seq(S)
         /\ Len(s) \in Nat /\ Len(Append(s, e)) = Len(s) + 1
         /\ \A q \in DOMAIN Append(s, e) :
              /\ q \in 1 .. Len(s) + 1
              /\ Append(s, e)[q] = IF q <= Len(s) THEN s[q] ELSE e
PROOF BY AppendProperties

\* No packet can overtake another, because the network keeps them in order or
\* because there is only one.
InOrder == ~Reorder \/ Len(requests) + Len(replies) <= 1

LEMMA FirstOnly ==
  ASSUME TypeOK, InOrder
  PROVE  /\ \A p \in Deliverable(requests) : p = 1 /\ p \in DOMAIN requests
         /\ \A p \in Deliverable(replies) : p = 1 /\ p \in DOMAIN replies
PROOF
  <1>1. /\ Len(requests) \in Nat /\ DOMAIN requests = 1 .. Len(requests)
        /\ Len(replies) \in Nat /\ DOMAIN replies = 1 .. Len(replies)
    BY LenProperties DEF TypeOK
  <1>2. CASE ~Reorder
    BY <1>1, <1>2 DEF Deliverable
  <1>3. CASE Len(requests) + Len(replies) <= 1
    <2>1. /\ \A p \in DOMAIN requests : p = 1
          /\ \A p \in DOMAIN replies : p = 1
      BY <1>1, <1>3
    <2> QED BY <2>1 DEF Deliverable
  <1> QED BY <1>2, <1>3 DEF InOrder

-----------------------------------------------------------------------------
(* Types.                                                                  *)
LEMMA InitTypeOK == Init => TypeOK
PROOF
  <1>1. NoReply \in Replies
    BY IdsAreNumbers DEF NoReply, Replies
  <1>2. <<>> \in Seq(Requests) /\ <<>> \in Seq(Replies) /\ <<>> \in Seq(Ids)
    BY EmptySeq
  <1> SUFFICES ASSUME Init PROVE TypeOK
    OBVIOUS
  <1>3. /\ requests \in Seq(Requests) /\ replies \in Seq(Replies) /\ log \in Seq(Ids)
        /\ reply \in Replies /\ skb \in Replies
    BY <1>1, <1>2, Zenon DEF Init
  <1> QED BY <1>3, IdsAreNumbers DEF Init, TypeOK

LEMMA CurrentTyped == ASSUME TypeOK PROVE CurrentRequest \in Requests
PROOF BY DEF TypeOK, CurrentRequest, Requests

LEMMA ServeTypeOK == ASSUME TypeOK, Serve PROVE TypeOK'
PROOF
  <1>1. PICK p \in DOMAIN requests :
          /\ requests' = RemoveAt(requests, p)
          /\ ServeReset(requests[p]) \/ ServeNew(requests[p]) \/ ServeOld(requests[p])
    BY DEF Serve, Deliverable
  <1>2. requests[p] \in Requests /\ requests[p].id \in Ids
    <2>1. requests[p] \in Requests
      BY <1>1, LenProperties DEF TypeOK
    <2> QED BY <2>1 DEF Requests
  <1>3. requests' \in Seq(Requests)
    BY <1>1, Removed DEF TypeOK
  <1>4. /\ reply' \in Replies /\ replies' \in Seq(Replies) /\ log' \in Seq(Ids)
        /\ current_max_request_id' \in Ids /\ hung' \in BOOLEAN
    <2>1. CASE ServeReset(requests[p])
      BY <1>2, <2>1, IdsAreNumbers DEF ServeReset, Send, TypeOK, Replies
    <2>2. CASE ServeNew(requests[p])
      <3>1. log' \in Seq(Ids) /\ Len(log') \in Nat
        BY <1>2, <2>2 DEF ServeNew, TypeOK
      <3> QED BY <1>2, <2>2, <3>1 DEF ServeNew, Send, TypeOK, Replies
    <2>3. CASE ServeOld(requests[p])
      <3>1. hung' \in BOOLEAN
        BY <2>3 DEF ServeOld
      <3>2. Append(replies, reply) \in Seq(Replies)
        BY Appended DEF TypeOK
      <3> QED BY <2>3, <3>1, <3>2 DEF ServeOld, Send, TypeOK
    <2> QED BY <1>1, <2>1, <2>2, <2>3
  <1> QED BY <1>3, <1>4 DEF TypeOK, Serve, driverVars

LEMMA PollTypeOK == ASSUME TypeOK, Poll PROVE TypeOK'
PROOF
  <1>1. /\ skb' \in Replies /\ skb_replied' \in BOOLEAN /\ leaked' \in Nat
        /\ replies' \in Seq(Replies)
    <2>1. CASE \E p \in Deliverable(replies) : /\ nctuss_receive_skb(p)
                                               /\ replies' = RemoveAt(replies, p)
      <3>1. PICK p \in DOMAIN replies : nctuss_receive_skb(p) /\ replies' = RemoveAt(replies, p)
        BY <2>1 DEF Deliverable
      <3>2. replies' \in Seq(Replies) /\ replies[p] \in Replies
        BY <3>1, Removed, LenProperties DEF TypeOK
      <3>3. CASE replies[p].id = current_waiting_reply_id
        BY <3>1, <3>2, <3>3 DEF TypeOK, nctuss_receive_skb
      <3>4. CASE replies[p].id # current_waiting_reply_id
        BY <3>1, <3>2, <3>4 DEF TypeOK, nctuss_receive_skb
      <3> QED BY <3>3, <3>4
    <2>2. CASE UNCHANGED <<skb, skb_replied, leaked, replies>>
      BY <2>2 DEF TypeOK
    <2> QED BY <2>1, <2>2 DEF Poll
  <1>2. requests' \in Seq(Requests) /\ resends' \in Nat /\ early' \in Nat
    <2>1. CASE Resend
      BY <2>1, CurrentTyped DEF TypeOK, Resend
    <2>2. CASE UNCHANGED <<requests, resends, early>>
      BY <2>2 DEF TypeOK
    <2> QED BY <2>1, <2>2 DEF Poll
  <1> QED BY <1>1, <1>2 DEF TypeOK, Poll, serverVars

LEMMA NextTypeOK == TypeOK /\ [Next]_vars => TypeOK'
PROOF
  <1> SUFFICES ASSUME TypeOK, [Next]_vars PROVE TypeOK'
    OBVIOUS
  <1>1. CASE Call
    <2>1. (udp_send_reply_id + 1) % IdSpace \in Ids
      BY IdAssumption DEF TypeOK, Ids
    <2>2. current_waiting_reply_id' \in Ids /\ CurrentRequest' \in Requests
      BY <1>1 DEF Call, TypeOK, CurrentRequest, Requests
    <2>3. requests' \in Seq(Requests) /\ udp_send_reply_id' \in Ids
      BY <1>1, <2>1, <2>2, Appended DEF Call, TypeOK
    <2> QED BY <1>1, <2>2, <2>3 DEF Call, TypeOK, serverVars
  <1>2. CASE Poll
    BY <1>2, PollTypeOK
  <1>3. CASE Return
    BY <1>3 DEF Return, TypeOK, Replies, serverVars
  <1>4. CASE Reload
    <2>1. skb' \in Replies /\ current_waiting_reply_id' \in Ids /\ skb_replied' \in BOOLEAN
      BY <1>4, IdsAreNumbers DEF Reload, Zero, NoReply, Replies
    <2> QED BY <1>4, <2>1, IdsAreNumbers DEF Reload, TypeOK, serverVars
  <1>5. CASE Serve
    BY <1>5, ServeTypeOK
  <1>6. CASE Lose
    <2>1. requests' \in Seq(Requests) /\ replies' \in Seq(Replies)
      BY <1>6, Removed DEF Lose, TypeOK
    <2> QED BY <1>6, <2>1 DEF Lose, TypeOK, serverVars, driverVars
  <1>7. CASE UNCHANGED vars
    BY <1>7 DEF vars, serverVars, driverVars, TypeOK
  <1> QED BY <1>1, <1>2, <1>3, <1>4, <1>5, <1>6, <1>7 DEF Next

\* Every variable keeps its type: ids stay within the width of the counter.
THEOREM TypeCorrect == Spec => []TypeOK
PROOF BY InitTypeOK, NextTypeOK, PTL DEF Spec

-----------------------------------------------------------------------------
(* What single packets do to the runs of packets under way.                *)
LEMMA Positions ==
  ASSUME TypeOK
  PROVE  /\ Len(requests) \in Nat /\ DOMAIN requests = 1 .. Len(requests)
         /\ Len(replies) \in Nat /\ DOMAIN replies = 1 .. Len(replies)
         /\ Len(log) \in Nat /\ DOMAIN log = 1 .. Len(log)
         /\ reply.id \in Nat /\ reply.result \in Nat
         /\ current_waiting_reply_id \in Nat /\ udp_send_reply_id \in Nat
PROOF
  <1>1. reply.id \in Nat /\ reply.result \in Nat
    BY IdsAreNumbers DEF TypeOK, Replies
  <1>2. current_waiting_reply_id \in Nat /\ udp_send_reply_id \in Nat
    BY IdsAreNumbers DEF TypeOK
  <1>3. /\ requests \in Seq(Requests) /\ replies \in Seq(Replies) /\ log \in Seq(Ids)
    BY DEF TypeOK
  <1> QED BY <1>1, <1>2, <1>3, LenProperties

LEMMA CurrentIsRequestOf == CurrentRequest = RequestOf(current_waiting_reply_id)
PROOF BY DEF CurrentRequest, RequestOf

LEMMA RequestsDiffer ==
  ASSUME NEW i, NEW j, RequestOf(i) = RequestOf(j)
  PROVE  i = j
PROOF
  <1>1. RequestOf(i).id = i /\ RequestOf(j).id = j
    BY DEF RequestOf
  <1> QED BY <1>1

\* The number of a call is not 0, which stands for no call.
LEMMA Numbered ==
  ASSUME TypeOK, DriverOK, calling \/ current_waiting_reply_id # 0
  PROVE  current_waiting_reply_id >= FirstId /\ (Executed <=> reply.id = current_waiting_reply_id)
PROOF
  <1>1. current_waiting_reply_id >= FirstId
    BY DEF DriverOK
  <1>2. current_waiting_reply_id # 0
    BY <1>1, IdAssumption
  <1> QED BY <1>1, <1>2 DEF Executed

\* A request leaves the network: lost, or taken by the server.
LEMMA RequestGone ==
  ASSUME TypeOK, NEW k \in Nat, RequestsAre(k), NEW p \in DOMAIN requests,
         requests' = RemoveAt(requests, p), UNCHANGED <<reply, current_waiting_reply_id>>
  PROVE  /\ Len(requests') = Len(requests) - 1
         /\ IF p <= k THEN RequestsAre(k - 1)' /\ k - 1 \in Nat ELSE RequestsAre(k)'
PROOF
  <1>1. /\ p \in 1 .. Len(requests) /\ Len(requests) \in Nat
        /\ requests' \in Seq(Requests)
        /\ Len(requests') = Len(requests) - 1
        /\ \A q \in DOMAIN requests' :
             /\ q \in 1 .. Len(requests) - 1
             /\ requests'[q] = IF q < p THEN requests[q] ELSE requests[q + 1]
    BY Removed DEF TypeOK
  <1>2. k \in 0 .. Len(requests) /\ (Executed => k = 0) /\ Executed' = Executed
    BY DEF RequestsAre, Executed
  <1>3. \A q \in 1 .. Len(requests) :
          requests[q] = RequestOf(IF q <= k \/ Executed THEN reply.id
                                                         ELSE current_waiting_reply_id)
    BY Positions DEF RequestsAre
  <1>4. ASSUME NEW j \in Nat, j = IF p <= k THEN k - 1 ELSE k
        PROVE  RequestsAre(j)'
    <2>1. j \in 0 .. Len(requests') /\ (Executed' => j = 0)
      BY <1>1, <1>2, <1>4
    <2>2. ASSUME NEW q \in DOMAIN requests'
          PROVE  requests'[q] = RequestOf(IF q <= j \/ Executed THEN reply.id
                                                                 ELSE current_waiting_reply_id)
      <3>1. q \in 1 .. Len(requests) - 1
        BY <1>1
      <3>2. CASE q < p
        <4>1. q \in 1 .. Len(requests) /\ (q <= j <=> q <= k)
          BY <1>1, <1>2, <1>4, <3>1, <3>2
        <4> QED BY <1>1, <1>3, <3>2, <4>1
      <3>3. CASE q >= p
        <4>1. q + 1 \in 1 .. Len(requests) /\ (q <= j <=> q + 1 <= k)
          BY <1>1, <1>2, <1>4, <3>1, <3>3
        <4>2. requests'[q] = requests[q + 1]
          BY <1>1, <3>1, <3>3
        <4> QED BY <1>3, <4>1, <4>2
      <3> QED BY <1>1, <3>1, <3>2, <3>3
    <2>3. \A q \in DOMAIN requests' :
            requests'[q] = RequestOf(IF q <= j \/ Executed' THEN reply'.id
                                                            ELSE current_waiting_reply_id')
      BY <1>2, <2>2
    <2> QED BY <2>1, <2>3 DEF RequestsAre, RequestOf
  <1>5. CASE p <= k
    <2>1. k - 1 \in Nat
      BY <1>1, <1>2, <1>5
    <2> QED BY <1>1, <1>4, <1>5, <2>1
  <1>6. CASE ~(p <= k)
    BY <1>1, <1>4, <1>6
  <1> QED BY <1>5, <1>6

\* A request is sent, as it was sent before.
LEMMA RequestRepeated ==
  ASSUME TypeOK, DriverOK, calling, NEW k \in Nat, RequestsAre(k),
         requests' = Append(requests, CurrentRequest),
         UNCHANGED <<reply, current_waiting_reply_id>>
  PROVE  Len(requests') = Len(requests) + 1 /\ RequestsAre(k)'
PROOF
  <1>1. /\ Len(requests) \in Nat /\ Len(requests') = Len(requests) + 1
        /\ \A q \in DOMAIN requests' :
             /\ q \in 1 .. Len(requests) + 1
             /\ requests'[q] = IF q <= Len(requests) THEN requests[q] ELSE CurrentRequest
    BY CurrentTyped, Appended DEF TypeOK
  <1>2. /\ k \in 0 .. Len(requests) /\ (Executed => k = 0) /\ Executed' = Executed
        /\ \A q \in 1 .. Len(requests) :
             requests[q] = RequestOf(IF q <= k \/ Executed THEN reply.id
                                                            ELSE current_waiting_reply_id)
    BY Positions DEF RequestsAre, Executed
  <1>3. \A q \in DOMAIN requests' :
          requests'[q] = RequestOf(IF q <= k \/ Executed THEN reply.id
                                                         ELSE current_waiting_reply_id)
    BY <1>1, <1>2, CurrentIsRequestOf, Numbered
  <1> QED BY <1>1, <1>2, <1>3 DEF RequestsAre, RequestOf

\* A reply leaves the network: lost, or received.
LEMMA ReplyGone ==
  ASSUME TypeOK, NEW m \in Nat, RepliesAre(m), NEW p \in DOMAIN replies,
         replies' = RemoveAt(replies, p), UNCHANGED <<reply, current_waiting_reply_id>>,
         ~Pending' => m = 0
  PROVE  /\ Len(replies') = Len(replies) - 1
         /\ IF p <= m THEN RepliesAre(m - 1)' /\ m - 1 \in Nat ELSE RepliesAre(m)'
PROOF
  <1>1. /\ p \in 1 .. Len(replies) /\ Len(replies) \in Nat
        /\ Len(replies') = Len(replies) - 1
        /\ \A q \in DOMAIN replies' :
             /\ q \in 1 .. Len(replies) - 1
             /\ replies'[q] = IF q < p THEN replies[q] ELSE replies[q + 1]
    BY Removed DEF TypeOK
  <1>2. /\ m \in 0 .. Len(replies) /\ (~Executed => m = Len(replies))
        /\ Executed' = Executed
    BY DEF RepliesAre, Executed
  <1>3. \A q \in 1 .. Len(replies) :
          IF q <= m THEN replies[q].id # current_waiting_reply_id ELSE replies[q] = reply
    BY Positions DEF RepliesAre
  <1>4. ASSUME NEW j \in Nat, j = IF p <= m THEN m - 1 ELSE m
        PROVE  RepliesAre(j)'
    <2>1. j \in 0 .. Len(replies') /\ (~Executed' => j = Len(replies')) /\ (~Pending' => j = 0)
      <3>1. CASE p <= m
        BY <1>1, <1>2, <1>4, <3>1
      <3>2. CASE ~(p <= m)
        BY <1>1, <1>2, <1>4, <3>2
      <3> QED BY <3>1, <3>2
    <2>2. ASSUME NEW q \in DOMAIN replies'
          PROVE  IF q <= j THEN replies'[q].id # current_waiting_reply_id
                           ELSE replies'[q] = reply
      <3>1. q \in 1 .. Len(replies) - 1
        BY <1>1
      <3>2. CASE q < p
        <4>1. q \in 1 .. Len(replies) /\ (q <= j <=> q <= m)
          BY <1>1, <1>2, <1>4, <3>1, <3>2
        <4>2. replies'[q] = replies[q]
          BY <1>1, <3>1, <3>2
        <4> QED BY <1>3, <4>1, <4>2
      <3>3. CASE q >= p
        <4>1. q + 1 \in 1 .. Len(replies) /\ (q <= j <=> q + 1 <= m)
          BY <1>1, <1>2, <1>4, <3>1, <3>3
        <4>2. replies'[q] = replies[q + 1]
          BY <1>1, <3>1, <3>3
        <4> QED BY <1>3, <4>1, <4>2
      <3> QED BY <1>1, <3>1, <3>2, <3>3
    <2> QED BY <2>1, <2>2 DEF RepliesAre
  <1>5. CASE p <= m
    <2>1. m - 1 \in Nat
      BY <1>1, <1>2, <1>5
    <2> QED BY <1>1, <1>4, <1>5, <2>1
  <1>6. CASE ~(p <= m)
    BY <1>1, <1>4, <1>6
  <1> QED BY <1>5, <1>6

-----------------------------------------------------------------------------
(* One lemma per action.                                                   *)
LEMMA InitInv == Init => IInv
PROOF
  <1> SUFFICES ASSUME Init PROVE IInv
    OBVIOUS
  <1>1. Len(<<>>) = 0 /\ Len(log) = 0 /\ Len(requests) = 0 /\ Len(replies) = 0
    BY DEF Init
  <1>2. reply.id = 0 /\ reply.result = 0 /\ FirstId # 0 /\ Executed
    BY IdAssumption DEF Init, NoReply, Executed
  <1>3. ServerOK
    BY <1>1, <1>2 DEF Init, ServerOK, InOrderOnce
  <1>4. DriverOK
    BY <1>2 DEF Init, DriverOK
  <1>5. RequestsAre(0) /\ RepliesAre(0)
    BY <1>1, <1>2 DEF Init, RequestsAre, RepliesAre
  <1>6. PacketsOK /\ CountOK
    BY <1>1, <1>5 DEF Init, PacketsOK, CountOK, Pending
  <1> QED BY <1>3, <1>4, <1>6 DEF IInv

\* The number of a call is new: the successor of that of the last call carried
\* out, or that of a reset when the last call was not one.
LEMMA CallIsNew ==
  ASSUME TypeOK, IInv, Call
  PROVE  /\ udp_send_reply_id >= FirstId /\ udp_send_reply_id # reply.id
         /\ \/ udp_send_reply_id = FirstId
            \/ reply.id >= FirstId /\ udp_send_reply_id = reply.id + 1
PROOF
  <1>0. Executed
    BY DEF Call, IInv, DriverOK, Pending
  <1>1. udp_send_reply_id >= FirstId /\ FirstId \in Nat \ {0} /\ IdSpace \in Nat
    BY Positions, IdAssumption DEF Call
  <1>2. CASE udp_send_reply_id = FirstId /\ reply.id # FirstId
    BY <1>1, <1>2
  <1>3. CASE /\ current_waiting_reply_id >= FirstId
             /\ udp_send_reply_id = (current_waiting_reply_id + 1) % IdSpace
    <2>1. current_waiting_reply_id \in 0 .. IdSpace - 1
      BY DEF TypeOK, Ids
    <2>2. CASE current_waiting_reply_id = IdSpace - 1
      <3>1. udp_send_reply_id = 0
        BY <1>1, <1>3, <2>1, <2>2
      <3> QED BY <1>1, <3>1
    <2>3. CASE current_waiting_reply_id # IdSpace - 1
      <3>1. udp_send_reply_id = current_waiting_reply_id + 1
        BY <1>1, <1>3, <2>1, <2>3
      <3>2. reply.id = current_waiting_reply_id
        BY <1>0, <1>1, <1>3 DEF Executed
      <3> QED BY <1>1, <1>3, <2>1, <3>1, <3>2
    <2> QED BY <2>2, <2>3
  <1> QED BY <1>2, <1>3 DEF IInv, DriverOK

\* A call begins when everything under way belongs to the previous one.
LEMMA CallInv ==
  ASSUME TypeOK, IInv, Call
  PROVE  IInv'
PROOF
  <1>1. PICK k \in Nat, m \in Nat : RequestsAre(k) /\ RepliesAre(m)
    BY DEF IInv, PacketsOK
  <1>2. ~Pending /\ Executed /\ k = 0 /\ m = 0
    BY <1>1 DEF Call, IInv, DriverOK, Pending, RequestsAre, RepliesAre
  <1>3. PICK cur \in Nat :
          /\ cur = udp_send_reply_id /\ cur >= FirstId /\ cur # reply.id
          /\ cur = FirstId \/ (reply.id >= FirstId /\ cur = reply.id + 1)
    BY CallIsNew, Positions
  <1>4. PICK k1 \in Nat, m1 \in Nat : k1 = Len(requests) /\ m1 = Len(replies)
    BY Positions
  <1>5. /\ UNCHANGED <<reply, replies, leaked, resends, serverVars>>
        /\ current_waiting_reply_id' = cur
        /\ ~Executed' /\ Pending'
    BY <1>3, IdAssumption DEF Call, Executed, Pending, serverVars
  <1>6. RequestsAre(k1)' /\ Len(requests') = Len(requests) + 1
    <2>1. CurrentRequest' = RequestOf(cur)
      BY <1>5 DEF CurrentRequest, RequestOf
    <2>2. CurrentRequest' \in Requests
      BY <1>3, <2>1 DEF RequestOf, Requests, TypeOK
    <2>3. /\ Len(requests') = Len(requests) + 1
          /\ \A q \in DOMAIN requests' :
               /\ q \in 1 .. Len(requests) + 1
               /\ requests'[q] = IF q <= Len(requests) THEN requests[q] ELSE RequestOf(cur)
      <3>1. requests' = Append(requests, RequestOf(cur)) /\ RequestOf(cur) \in Requests
        BY <2>1, <2>2 DEF Call
      <3>2. requests \in Seq(Requests)
        BY DEF TypeOK
      <3> QED BY <3>1, <3>2, Appended
    <2>4. \A q \in 1 .. Len(requests) : requests[q] = RequestOf(reply.id)
      BY <1>1, <1>2, Positions DEF RequestsAre
    <2>5. \A q \in DOMAIN requests' :
            requests'[q] = RequestOf(IF q <= k1 THEN reply.id ELSE cur)
      BY <1>4, <2>3, <2>4
    <2>6. k1 \in 0 .. Len(requests')
      BY <1>4, <2>3
    <2> QED BY <1>5, <2>3, <2>5, <2>6 DEF RequestsAre, RequestOf
  <1>7. RepliesAre(m1)'
    <2>1. \A q \in 1 .. Len(replies) : replies[q] = reply
      BY <1>1, <1>2, Positions DEF RepliesAre
    <2> QED BY <1>3, <1>4, <1>5, <2>1, Positions DEF RepliesAre
  <1>8. leaked + k1 + m1 <= resends
    <2>1. leaked + Len(requests) + Len(replies) <= resends + 0
      BY <1>2 DEF IInv, CountOK
    <2> QED BY <1>4, <2>1 DEF TypeOK
  <1>9. PacketsOK'
    BY <1>5, <1>6, <1>7, <1>8 DEF PacketsOK
  <1>10. CountOK'
    BY <1>4, <1>5, <1>6, <1>8 DEF CountOK, TypeOK
  <1>11. ServerOK'
    BY <1>5 DEF IInv, ServerOK, InOrderOnce, serverVars
  <1>12. DriverOK'
    BY <1>3, <1>5 DEF DriverOK, Call, Pending
  <1> QED BY <1>9, <1>10, <1>11, <1>12 DEF IInv

\* A packet is lost: a repetition or one of this call.
LEMMA LoseInv ==
  ASSUME TypeOK, IInv, Lose
  PROVE  IInv'
PROOF
  <1>1. PICK k \in Nat, m \in Nat : RequestsAre(k) /\ RepliesAre(m) /\ leaked + k + m <= resends
    BY DEF IInv, PacketsOK
  <1>2. UNCHANGED <<driverVars, serverVars>> /\ Pending' = Pending /\ Executed' = Executed
    BY DEF Lose, driverVars, serverVars, Pending, Executed
  <1>3. ServerOK' /\ DriverOK'
    BY <1>2 DEF IInv, ServerOK, InOrderOnce, DriverOK, driverVars, serverVars
  <1>4. ~Pending => m = 0
    BY <1>1 DEF RepliesAre
  <1>5. leaked \in Nat /\ resends \in Nat /\ UNCHANGED <<leaked, resends>>
    BY <1>2 DEF TypeOK, driverVars
  <1>6. \E j, n \in Nat : RequestsAre(j)' /\ RepliesAre(n)' /\ j <= k /\ n <= m
    <2>1. CASE (\E p \in DOMAIN requests : requests' = RemoveAt(requests, p)) /\ UNCHANGED replies
      <3>1. PICK p \in DOMAIN requests : requests' = RemoveAt(requests, p)
        BY <2>1
      <3>2. (RequestsAre(k - 1)' /\ k - 1 \in Nat) \/ RequestsAre(k)'
        BY <1>1, <1>2, <3>1, RequestGone DEF driverVars, serverVars
      <3>3. RepliesAre(m)'
        BY <1>1, <1>2, <2>1 DEF RepliesAre, driverVars, serverVars
      <3> QED BY <3>2, <3>3
    <2>2. CASE (\E p \in DOMAIN replies : replies' = RemoveAt(replies, p)) /\ UNCHANGED requests
      <3>1. PICK p \in DOMAIN replies : replies' = RemoveAt(replies, p)
        BY <2>2
      <3>2. (RepliesAre(m - 1)' /\ m - 1 \in Nat) \/ RepliesAre(m)'
        BY <1>1, <1>2, <1>4, <3>1, ReplyGone DEF driverVars, serverVars
      <3>3. RequestsAre(k)'
        BY <1>1, <1>2, <2>2 DEF RequestsAre, RequestOf, driverVars, serverVars
      <3> QED BY <3>2, <3>3
    <2> QED BY <2>1, <2>2 DEF Lose
  <1>7. PacketsOK'
    <2>1. PICK j \in Nat, n \in Nat : RequestsAre(j)' /\ RepliesAre(n)' /\ j <= k /\ n <= m
      BY <1>6
    <2>2. leaked' + j + n <= resends'
      BY <1>1, <1>5, <2>1
    <2> QED BY <2>1, <2>2 DEF PacketsOK
  <1>8. /\ Len(requests') + Len(replies') <= Len(requests) + Len(replies)
        /\ Len(requests') \in Nat /\ Len(replies') \in Nat
    <2>1. CASE (\E p \in DOMAIN requests : requests' = RemoveAt(requests, p)) /\ UNCHANGED replies
      <3>1. Len(requests') = Len(requests) - 1 /\ Len(requests) \in Nat /\ Len(requests) >= 1
        BY <2>1, Removed DEF TypeOK
      <3> QED BY <2>1, <3>1, Positions
    <2>2. CASE (\E p \in DOMAIN replies : replies' = RemoveAt(replies, p)) /\ UNCHANGED requests
      <3>1. Len(replies') = Len(replies) - 1 /\ Len(replies) \in Nat /\ Len(replies) >= 1
        BY <2>2, Removed DEF TypeOK
      <3> QED BY <2>2, <3>1, Positions
    <2> QED BY <2>1, <2>2 DEF Lose
  <1>9. CountOK'
    <2>1. CASE Pending
      BY <1>2, <1>5, <1>8, <2>1, Positions DEF IInv, CountOK
    <2>2. CASE ~Pending
      BY <1>2, <1>5, <1>8, <2>2, Positions DEF IInv, CountOK
    <2> QED BY <2>1, <2>2
  <1> QED BY <1>3, <1>7, <1>9 DEF IInv

\* A call returns, or the module is loaded again: nothing moves on the network.
LEMMA ReturnInv ==
  ASSUME TypeOK, IInv, Return
  PROVE  IInv'
PROOF
  <1>1. /\ UNCHANGED <<requests, replies, reply, current_waiting_reply_id, leaked, resends,
                       udp_send_reply_id, serverVars>>
        /\ ~Pending /\ ~Pending' /\ Executed /\ Executed' /\ ~calling'
    BY DEF Return, IInv, DriverOK, Pending, Executed, serverVars
  <1>2. ServerOK'
    BY <1>1 DEF IInv, ServerOK, InOrderOnce, serverVars
  <1>3. DriverOK'
    BY <1>1 DEF Return, IInv, DriverOK
  <1>4. \A k : RequestsAre(k)' = RequestsAre(k)
    BY <1>1 DEF RequestsAre, RequestOf
  <1>5. \A m : RepliesAre(m) => RepliesAre(m)'
    BY <1>1 DEF RepliesAre
  <1>6. PacketsOK'
    BY <1>1, <1>4, <1>5 DEF IInv, PacketsOK
  <1>7. CountOK'
    BY <1>1 DEF IInv, CountOK
  <1> QED BY <1>2, <1>3, <1>6, <1>7 DEF IInv

LEMMA ReloadInv ==
  ASSUME TypeOK, IInv, Reload
  PROVE  IInv'
PROOF
  <1>1. /\ UNCHANGED <<requests, replies, reply, leaked, resends, calling, serverVars>>
        /\ ~calling /\ ~Pending /\ ~Pending' /\ Executed /\ Executed'
        /\ udp_send_reply_id' = FirstId /\ current_waiting_reply_id' = 0
    BY DEF Reload, Zero, IInv, DriverOK, Pending, Executed, serverVars
  <1>2. ServerOK'
    BY <1>1 DEF IInv, ServerOK, InOrderOnce, serverVars
  <1>3. reply.id # FirstId
    <2>1. udp_send_reply_id # FirstId /\ udp_send_reply_id # FirstId + 1
      BY DEF Reload
    <2>2. (FirstId + 1) % IdSpace = FirstId + 1
      BY IdAssumption
    <2>3. current_waiting_reply_id >= FirstId /\ current_waiting_reply_id # FirstId
      BY <2>1, <2>2 DEF IInv, DriverOK
    <2> QED BY <1>1, <2>3, IdAssumption DEF Executed
  <1>4. DriverOK'
    BY <1>1, <1>3 DEF DriverOK
  <1>5. \A k \in Nat : RequestsAre(k) => RequestsAre(k)'
    BY <1>1 DEF RequestsAre, RequestOf
  <1>6. \A m \in Nat : RepliesAre(m) => RepliesAre(m)'
    BY <1>1, Positions DEF RepliesAre
  <1>7. PacketsOK'
    BY <1>1, <1>5, <1>6 DEF IInv, PacketsOK
  <1>8. CountOK'
    BY <1>1 DEF IInv, CountOK
  <1> QED BY <1>2, <1>4, <1>7, <1>8 DEF IInv

\* The server takes a repetition of what it carried out last: it only answers.
LEMMA RepetitionServed ==
  ASSUME TypeOK, ServerOK, NEW request, request = RequestOf(reply.id),
         ServeReset(request) \/ ServeNew(request) \/ ServeOld(request)
  PROVE  UNCHANGED serverVars /\ replies' = Append(replies, reply)
PROOF
  <1>1. request.id = reply.id /\ request.type = IF reply.id = FirstId THEN "reset" ELSE "op"
    BY DEF RequestOf
  <1>2. reply.id \in Nat /\ FirstId \in Nat
    BY Positions, IdAssumption
  <1>3. CASE reply.id = FirstId
    <2>1. ServeReset(request)
      BY <1>1, <1>3 DEF ServeNew, ServeOld
    <2>2. reply.result = 0 /\ current_max_request_id = 0 /\ Len(log) = 0
      BY <1>3, IdAssumption DEF ServerOK
    <2>3. log = <<>>
      BY <2>2, EmptySeq DEF TypeOK
    <2>4. reply = [id |-> FirstId, result |-> 0]
      BY <1>3, <2>2 DEF TypeOK, Replies
    <2>5. /\ reply' = [id |-> FirstId, result |-> 0]
          /\ replies' = Append(replies, [id |-> FirstId, result |-> 0])
          /\ log' = <<>> /\ current_max_request_id' = 0 /\ hung' = hung
      BY <1>1, <1>3, <2>1 DEF ServeReset, Send
    <2>6. reply' = reply /\ replies' = Append(replies, reply) /\ log' = log
      BY <2>3, <2>4, <2>5, Zenon
    <2> QED BY <2>2, <2>5, <2>6 DEF serverVars
  <1>4. CASE reply.id # FirstId
    <2>1. current_max_request_id = reply.id /\ ~hung
      BY <1>4 DEF ServerOK
    <2>2. ServeOld(request)
      BY <1>1, <1>2, <1>4, <2>1 DEF ServeReset, ServeNew
    <2>3. ~(request.id < current_max_request_id)
      BY <1>1, <1>2, <2>1
    <2>4. hung = FALSE /\ hung' = FALSE
      BY <2>1, <2>2, <2>3 DEF ServeOld, TypeOK
    <2>5. Send(reply) /\ UNCHANGED <<current_max_request_id, log>>
      BY <2>2, <2>4 DEF ServeOld
    <2> QED BY <2>4, <2>5 DEF Send, serverVars
  <1> QED BY <1>3, <1>4

\* The server takes the call for the first time: it carries it out.
LEMMA CallServed ==
  ASSUME TypeOK, ServerOK, DriverOK, ~Executed,
         NEW request, request = RequestOf(current_waiting_reply_id),
         ServeReset(request) \/ ServeNew(request) \/ ServeOld(request)
  PROVE  /\ ServerOK'
         /\ reply' = [id |-> current_waiting_reply_id,
                      result |-> current_waiting_reply_id - FirstId]
         /\ replies' = Append(replies, reply')
         /\ log' = IF current_waiting_reply_id = FirstId THEN <<>>
                     ELSE Append(log, current_waiting_reply_id)
         /\ Len(log') = reply'.result
PROOF
  <1> DEFINE cur == current_waiting_reply_id
  <1>1. /\ request.id = cur /\ request.type = IF cur = FirstId THEN "reset" ELSE "op"
        /\ cur \in Nat /\ FirstId \in Nat \ {0} /\ reply.id \in Nat
    BY Positions, IdAssumption DEF RequestOf
  <1>2. cur = FirstId \/ (reply.id >= FirstId /\ cur = reply.id + 1)
    BY DEF DriverOK
  <1>3. CASE cur = FirstId
    <2>1. ServeReset(request)
      BY <1>1, <1>3 DEF ServeNew, ServeOld
    <2>2. /\ reply' = [id |-> FirstId, result |-> 0] /\ replies' = Append(replies, reply')
          /\ log' = <<>> /\ current_max_request_id' = 0 /\ hung' = hung
      BY <1>1, <1>3, <2>1 DEF ServeReset, Send
    <2>3. reply'.id = FirstId /\ reply'.result = 0 /\ Len(log') = 0 /\ DOMAIN log' = {}
      BY <2>2
    <2>4. ServerOK'
      BY <1>1, <2>2, <2>3 DEF ServerOK, InOrderOnce
    <2> QED BY <1>1, <1>3, <2>2, <2>3, <2>4
  <1>4. CASE cur # FirstId
    <2>1. /\ reply.id >= FirstId /\ cur = reply.id + 1 /\ cur > FirstId
          /\ Len(log) = reply.id - FirstId /\ Len(log) \in Nat
          /\ current_max_request_id \in Nat /\ current_max_request_id <= reply.id
      BY <1>1, <1>2, <1>4, Positions DEF ServerOK
    <2>2. ServeNew(request)
      BY <1>1, <1>4, <2>1 DEF ServeReset, ServeOld
    <2>3. /\ current_max_request_id' = cur /\ log' = Append(log, cur) /\ hung' = hung
          /\ reply' = [id |-> cur, result |-> Len(log')] /\ replies' = Append(replies, reply')
      BY <1>1, <2>2 DEF ServeNew, Send
    <2>4. /\ Len(log') = Len(log) + 1
          /\ \A q \in DOMAIN log' : /\ q \in 1 .. Len(log) + 1
                                    /\ log'[q] = IF q <= Len(log) THEN log[q] ELSE cur
      <3>1. log \in Seq(Ids) /\ cur \in Ids
        BY DEF TypeOK
      <3> QED BY <2>3, <3>1, Appended
    <2>5. reply'.id = cur /\ reply'.result = cur - FirstId /\ Len(log') = cur - FirstId
      BY <1>1, <2>1, <2>3, <2>4
    <2>6. InOrderOnce'
      <3>1. \A q \in 1 .. Len(log) : log[q] = FirstId + q
        BY Positions DEF ServerOK, InOrderOnce, OpId
      <3>2. ASSUME NEW q \in DOMAIN log'
            PROVE  log'[q] = FirstId + q
        <4>1. q \in 1 .. Len(log) + 1 /\ log'[q] = IF q <= Len(log) THEN log[q] ELSE cur
          BY <2>4
        <4>2. CASE q <= Len(log)
          BY <2>1, <3>1, <4>1, <4>2
        <4>3. CASE ~(q <= Len(log))
          <5>1. q = Len(log) + 1 /\ cur = FirstId + q
            BY <1>1, <2>1, <4>1, <4>3
          <5> QED BY <4>1, <4>3, <5>1
        <4> QED BY <4>2, <4>3
      <3> QED BY <3>2 DEF InOrderOnce, OpId
    <2>7. ServerOK'
      BY <1>1, <2>1, <2>3, <2>5, <2>6 DEF ServerOK
    <2>8. reply' = [id |-> cur, result |-> cur - FirstId]
      BY <2>3, <2>5
    <2> QED BY <1>4, <2>3, <2>5, <2>7, <2>8
  <1> QED BY <1>3, <1>4

LEMMA ServeInv ==
  ASSUME InOrder, TypeOK, IInv, Serve
  PROVE  IInv'
PROOF
  <1>1. PICK k \in Nat, m \in Nat : RequestsAre(k) /\ RepliesAre(m) /\ leaked + k + m <= resends
    BY DEF IInv, PacketsOK
  <1>2. /\ 1 \in DOMAIN requests /\ requests' = RemoveAt(requests, 1)
        /\ ServeReset(requests[1]) \/ ServeNew(requests[1]) \/ ServeOld(requests[1])
    BY FirstOnly DEF Serve
  <1>3. UNCHANGED driverVars /\ Pending' = Pending /\ CurrentRequest' = CurrentRequest
    BY DEF Serve, driverVars, Pending, CurrentRequest
  <1>4. /\ Len(requests') = Len(requests) - 1 /\ Len(requests) \in Nat /\ Len(replies) \in Nat
        /\ leaked \in Nat /\ resends \in Nat
    BY <1>2, Removed, Positions DEF TypeOK
  <1>5. requests[1] = RequestOf(IF 1 <= k \/ Executed THEN reply.id
                                                        ELSE current_waiting_reply_id)
    BY <1>1, <1>2 DEF RequestsAre
  <1>6. reply' \in Replies
    BY ServeTypeOK DEF TypeOK
  <1>7. /\ (Executed => k = 0)
        /\ (~Executed => m = Len(replies) /\ Pending)
        /\ (~Pending => m = 0)
        /\ m \in 0 .. Len(replies)
        /\ \A q \in 1 .. Len(replies) : IF q <= m THEN replies[q].id # current_waiting_reply_id
                                                  ELSE replies[q] = reply
    BY <1>1, Positions DEF RequestsAre, RepliesAre, IInv, DriverOK
  <1>8. CASE requests[1] = RequestOf(reply.id)
    <2>1. UNCHANGED serverVars /\ replies' = Append(replies, reply)
      BY <1>2, <1>8, RepetitionServed DEF IInv
    <2>2. /\ Len(replies') = Len(replies) + 1
          /\ \A q \in DOMAIN replies' :
               /\ q \in 1 .. Len(replies) + 1
               /\ replies'[q] = IF q <= Len(replies) THEN replies[q] ELSE reply
      BY <2>1, Appended DEF TypeOK
    <2>3. Executed' = Executed
      BY <1>3, <2>1 DEF Executed, driverVars, serverVars
    <2>4. ServerOK' /\ DriverOK'
      BY <1>3, <2>1, <2>3 DEF IInv, ServerOK, InOrderOnce, DriverOK, driverVars, serverVars
    <2>5. CountOK'
      BY <1>3, <1>4, <2>2 DEF IInv, CountOK, driverVars
    <2>6. IF 1 <= k THEN RequestsAre(k - 1)' /\ k - 1 \in Nat ELSE RequestsAre(k)'
      BY <1>1, <1>2, <1>3, <2>1, RequestGone DEF driverVars, serverVars
    <2>7. CASE Executed
      <3>1. RequestsAre(k)'
        BY <1>7, <2>6, <2>7
      <3>2. \A q \in DOMAIN replies' :
              IF q <= m THEN replies'[q].id # current_waiting_reply_id ELSE replies'[q] = reply
        BY <1>4, <1>7, <2>2
      <3>3. RepliesAre(m)'
        BY <1>3, <1>4, <1>7, <2>1, <2>2, <2>3, <2>7, <3>2 DEF RepliesAre, driverVars, serverVars
      <3>4. PacketsOK'
        BY <1>1, <1>3, <3>1, <3>3 DEF PacketsOK, driverVars
      <3> QED BY <2>4, <2>5, <3>4 DEF IInv
    <2>8. CASE ~Executed
      <3>1. 1 <= k
        BY <1>5, <1>8, <2>8, RequestsDiffer, Zenon DEF Executed
      <3>2. PICK j \in Nat, n \in Nat : j = k - 1 /\ n = m + 1 /\ RequestsAre(j)'
        BY <2>6, <3>1
      <3>3. \A q \in DOMAIN replies' : q <= n /\ replies'[q].id # current_waiting_reply_id
        BY <1>4, <1>7, <2>2, <2>8, <3>2 DEF Executed
      <3>4. RepliesAre(n)'
        BY <1>3, <1>4, <1>7, <2>2, <2>3, <2>8, <3>2, <3>3 DEF RepliesAre, driverVars
      <3>5. leaked + j + n <= resends
        BY <1>1, <1>4, <3>2
      <3>6. PacketsOK'
        BY <1>3, <3>2, <3>4, <3>5 DEF PacketsOK, driverVars
      <3> QED BY <2>4, <2>5, <3>6 DEF IInv
    <2> QED BY <2>7, <2>8
  <1>9. CASE requests[1] # RequestOf(reply.id)
    <2>1. ~Executed /\ ~(1 <= k) /\ requests[1] = RequestOf(current_waiting_reply_id)
      BY <1>5, <1>9 DEF Executed
    <2>2. /\ ServerOK'
          /\ reply' = [id |-> current_waiting_reply_id,
                       result |-> current_waiting_reply_id - FirstId]
          /\ replies' = Append(replies, reply')
      BY <1>2, <2>1, CallServed DEF IInv
    <2>3. reply'.id = current_waiting_reply_id /\ Executed' /\ Pending /\ k = 0
      BY <1>1, <1>3, <1>7, <2>1, <2>2 DEF Executed, driverVars
    <2>4. /\ Len(replies') = Len(replies) + 1
          /\ \A q \in DOMAIN replies' :
               /\ q \in 1 .. Len(replies) + 1
               /\ replies'[q] = IF q <= Len(replies) THEN replies[q] ELSE reply'
      BY <1>6, <2>2, Appended DEF TypeOK
    <2>5. DriverOK'
      BY <1>3, <2>3 DEF IInv, DriverOK, driverVars, Pending
    <2>6. RequestsAre(k)'
      <3>1. /\ requests' \in Seq(Requests)
            /\ \A q \in DOMAIN requests' :
                 /\ q \in 1 .. Len(requests) - 1
                 /\ requests'[q] = IF q < 1 THEN requests[q] ELSE requests[q + 1]
        BY <1>2, Removed DEF TypeOK
      <3>2. \A q \in 1 .. Len(requests) : requests[q] = RequestOf(current_waiting_reply_id)
        BY <1>1, <2>1, <2>3, Positions DEF RequestsAre
      <3>3. ASSUME NEW q \in DOMAIN requests'
            PROVE  requests'[q] = RequestOf(current_waiting_reply_id)
        <4>1. q \in 1 .. Len(requests) - 1 /\ ~(q < 1) /\ q + 1 \in 1 .. Len(requests)
          BY <1>4, <3>1
        <4> QED BY <3>1, <3>2, <4>1
      <3>4. Len(requests') \in Nat
        BY <3>1, LenProperties
      <3> QED BY <1>3, <2>3, <3>3, <3>4 DEF RequestsAre, RequestOf, driverVars
    <2>7. RepliesAre(m)'
      <3>1. m = Len(replies) /\ UNCHANGED current_waiting_reply_id
        BY <1>3, <1>7, <2>1 DEF driverVars
      <3>2. \A q \in DOMAIN replies' :
              IF q <= m THEN replies'[q].id # current_waiting_reply_id ELSE replies'[q] = reply'
        BY <1>7, <2>4, <3>1
      <3> QED BY <1>3, <1>4, <2>3, <2>4, <3>1, <3>2 DEF RepliesAre
    <2>8. PacketsOK' /\ CountOK'
      BY <1>1, <1>3, <1>4, <2>4, <2>6, <2>7 DEF PacketsOK, IInv, CountOK, driverVars
    <2> QED BY <2>2, <2>5, <2>8 DEF IInv
  <1> QED BY <1>8, <1>9

\* A reply arrives: the one the driver waits for, after which only answers to this
\* call are under way, or one to a repetition, whose buffer leaks.
LEMMA ReplyReceived ==
  ASSUME InOrder, TypeOK, ServerOK, DriverOK, NEW m \in Nat, RepliesAre(m), Pending,
         NEW p \in Deliverable(replies), nctuss_receive_skb(p),
         replies' = RemoveAt(replies, p),
         UNCHANGED <<calling, reply, current_waiting_reply_id>>
  PROVE  /\ Len(replies') = Len(replies) - 1 /\ Len(replies) >= 1
         /\ \/ /\ Executed /\ skb' = reply /\ skb_replied' /\ leaked' = leaked
               /\ m = 0 /\ RepliesAre(m)'
            \/ /\ leaked' = leaked + 1 /\ UNCHANGED <<skb, skb_replied>>
               /\ m - 1 \in Nat /\ RepliesAre(m - 1)'
PROOF
  <1>1. p = 1 /\ p \in DOMAIN replies
    BY FirstOnly
  <1>2. Len(replies') = Len(replies) - 1 /\ 1 \in 1 .. Len(replies) /\ Len(replies) \in Nat
    BY <1>1, Removed DEF TypeOK
  <1>3. /\ IF 1 <= m THEN replies[1].id # current_waiting_reply_id ELSE replies[1] = reply
        /\ ~Executed => m = Len(replies)
    BY <1>1 DEF RepliesAre
  <1>4. CASE replies[1].id = current_waiting_reply_id
    <2>1. skb' = replies[1] /\ skb_replied' /\ leaked' = leaked
      BY <1>1, <1>4 DEF nctuss_receive_skb
    <2>2. ~(1 <= m) /\ m = 0 /\ replies[1] = reply /\ Executed
      BY <1>3, <1>4 DEF Executed
    <2>3. RepliesAre(m)'
      BY <1>1, <2>2, ReplyGone
    <2> QED BY <1>2, <2>1, <2>2, <2>3
  <1>5. CASE replies[1].id # current_waiting_reply_id
    <2>1. leaked' = leaked + 1 /\ UNCHANGED <<skb, skb_replied>>
      BY <1>1, <1>5 DEF nctuss_receive_skb
    <2>2. 1 <= m
      <3>1. CASE Executed
        BY <1>3, <1>5, <3>1, Numbered DEF Pending
      <3>2. CASE ~Executed
        BY <1>2, <1>3, <3>2
      <3> QED BY <3>1, <3>2
    <2>3. Pending'
      BY <2>1 DEF Pending
    <2>4. RepliesAre(m - 1)' /\ m - 1 \in Nat
      BY <1>1, <2>2, <2>3, ReplyGone
    <2> QED BY <1>2, <2>1, <2>4
  <1> QED BY <1>4, <1>5

\* The sum that bounds the leak, when a receipt and a resend fall together.
LEMMA StillFewer ==
  ASSUME NEW a \in Nat, NEW b \in Nat, NEW k \in Nat, NEW m \in Nat, NEW n \in Nat,
         NEW r \in Nat, NEW s \in Nat,
         a + k + m <= r, b + n <= a + m, r <= s
  PROVE  b + k + n <= s
PROOF OBVIOUS

LEMMA PollInv ==
  ASSUME InOrder, TypeOK, IInv, Poll
  PROVE  IInv'
PROOF
  <1>1. PICK k \in Nat, m \in Nat : RequestsAre(k) /\ RepliesAre(m) /\ leaked + k + m <= resends
    BY DEF IInv, PacketsOK
  <1>2. /\ calling /\ Pending /\ UNCHANGED <<calling, serverVars, current_waiting_reply_id,
                                             udp_send_reply_id, reply>>
        /\ Executed' = Executed
    BY DEF Poll, Pending, serverVars, Executed
  <1>3. leaked \in Nat /\ resends \in Nat /\ Len(requests) \in Nat /\ Len(replies) \in Nat
    BY Positions DEF TypeOK
  <1>4. ServerOK'
    BY <1>2 DEF IInv, ServerOK, InOrderOnce, serverVars
  <1>5. \* The requests.
        PICK d \in {0, 1} :
          /\ RequestsAre(k)'
          /\ Len(requests') = Len(requests) + d /\ resends' = resends + d
    <2>1. CASE Resend
      <3>1. RequestsAre(k)' /\ Len(requests') = Len(requests) + 1
        BY <1>1, <1>2, <2>1, RequestRepeated DEF Resend, IInv
      <3> QED BY <1>3, <2>1, <3>1 DEF Resend
    <2>2. CASE UNCHANGED <<requests, resends, early>>
      <3>1. RequestsAre(k)'
        BY <1>1, <1>2, <2>2 DEF RequestsAre, RequestOf
      <3>2. Len(requests') = Len(requests) + 0 /\ resends' = resends + 0
        BY <1>3, <2>2
      <3> QED BY <3>1, <3>2
    <2> QED BY <2>1, <2>2 DEF Poll
  <1>6. \* The replies.
        \E n \in Nat :
          /\ RepliesAre(n)' /\ leaked' + n <= leaked + m
          /\ leaked' \in Nat /\ Len(replies') \in Nat
          /\ \/ /\ Pending' /\ UNCHANGED <<skb, skb_replied>>
                /\ leaked' + Len(replies') = leaked + Len(replies)
             \/ /\ ~Pending' /\ Executed /\ skb' = reply
                /\ leaked' + Len(replies') = leaked + Len(replies) - 1
    <2>1. CASE \E p \in Deliverable(replies) : /\ nctuss_receive_skb(p)
                                               /\ replies' = RemoveAt(replies, p)
      <3>1. /\ Len(replies') = Len(replies) - 1 /\ Len(replies) >= 1
            /\ \/ /\ Executed /\ skb' = reply /\ skb_replied' /\ leaked' = leaked
                  /\ m = 0 /\ RepliesAre(m)'
               \/ /\ leaked' = leaked + 1 /\ UNCHANGED <<skb, skb_replied>>
                  /\ m - 1 \in Nat /\ RepliesAre(m - 1)'
        BY <1>1, <1>2, <2>1, ReplyReceived DEF IInv
      <3>2. CASE /\ Executed /\ skb' = reply /\ skb_replied' /\ leaked' = leaked
                 /\ m = 0 /\ RepliesAre(m)'
        BY <1>3, <3>1, <3>2 DEF Pending
      <3>3. CASE /\ leaked' = leaked + 1 /\ UNCHANGED <<skb, skb_replied>>
                 /\ m - 1 \in Nat /\ RepliesAre(m - 1)'
        <4>1. PICK n \in Nat : n = m - 1 /\ RepliesAre(n)'
          BY <3>3
        <4>2. Pending'
          BY <1>2, <3>3 DEF Pending
        <4> QED BY <1>3, <3>1, <3>3, <4>1, <4>2
      <3> QED BY <3>1, <3>2, <3>3
    <2>2. CASE UNCHANGED <<skb, skb_replied, leaked, replies>>
      <3>1. Pending'
        BY <1>2, <2>2 DEF Pending
      <3>2. RepliesAre(m)'
        BY <1>1, <1>2, <2>2, <3>1 DEF RepliesAre
      <3> QED BY <1>3, <2>2, <3>1, <3>2
    <2> QED BY <2>1, <2>2 DEF Poll
  <1>7. PICK n \in Nat :
          /\ RepliesAre(n)' /\ leaked' + n <= leaked + m
          /\ leaked' \in Nat /\ Len(replies') \in Nat
          /\ \/ /\ Pending' /\ UNCHANGED <<skb, skb_replied>>
                /\ leaked' + Len(replies') = leaked + Len(replies)
             \/ /\ ~Pending' /\ Executed /\ skb' = reply
                /\ leaked' + Len(replies') = leaked + Len(replies) - 1
    BY <1>6
  <1>8. PacketsOK'
    <2>1. leaked' \in Nat /\ leaked' + n <= leaked + m
      BY <1>7
    <2>2. leaked + k + m <= resends /\ resends <= resends' /\ resends' \in Nat
      BY <1>1, <1>3, <1>5
    <2>3. leaked \in Nat /\ resends \in Nat
      BY <1>3
    <2>4. leaked' + k + n <= resends'
      BY <2>1, <2>2, <2>3, StillFewer
    <2> QED BY <1>5, <1>7, <2>4 DEF PacketsOK
  <1>9. leaked + Len(requests) + Len(replies) <= resends + 1
    BY <1>2 DEF IInv, CountOK
  <1>10. CASE /\ Pending' /\ UNCHANGED <<skb, skb_replied>>
              /\ leaked' + Len(replies') = leaked + Len(replies)
    <2>1. leaked' + Len(requests') + Len(replies') <= resends' + 1
      <3>1. leaked' \in Nat /\ Len(replies') \in Nat
        BY <1>7
      <3> QED BY <1>3, <1>5, <1>9, <1>10, <3>1
    <2>2. CountOK'
      BY <1>10, <2>1 DEF CountOK
    <2>3. DriverOK'
      BY <1>2, <1>10 DEF IInv, DriverOK
    <2> QED BY <1>4, <1>8, <2>2, <2>3 DEF IInv
  <1>11. CASE /\ ~Pending' /\ Executed /\ skb' = reply
              /\ leaked' + Len(replies') = leaked + Len(replies) - 1
    <2>1. leaked' + Len(requests') + Len(replies') <= resends' + 0
      <3>1. leaked' \in Nat /\ Len(replies') \in Nat
        BY <1>7
      <3> QED BY <1>3, <1>5, <1>9, <1>11, <3>1
    <2>2. CountOK'
      BY <1>11, <2>1 DEF CountOK
    <2>3. DriverOK'
      BY <1>2, <1>11 DEF IInv, DriverOK
    <2> QED BY <1>4, <1>8, <2>2, <2>3 DEF IInv
  <1> QED BY <1>7, <1>10, <1>11

LEMMA NextInv ==
  ASSUME InOrder, TypeOK, IInv, [Next]_vars
  PROVE  IInv'
PROOF
  <1>1. CASE UNCHANGED vars
    <2>1. UNCHANGED <<driverVars, serverVars, requests, replies>>
      BY <1>1 DEF vars
    <2>2. ServerOK' /\ DriverOK' /\ CountOK'
      BY <2>1 DEF IInv, ServerOK, InOrderOnce, DriverOK, CountOK, Executed, Pending,
                  driverVars, serverVars
    <2>3. \A k : RequestsAre(k) => RequestsAre(k)'
      BY <2>1 DEF RequestsAre, RequestOf, Executed, driverVars, serverVars
    <2>4. \A m : RepliesAre(m) => RepliesAre(m)'
      BY <2>1 DEF RepliesAre, Executed, Pending, driverVars, serverVars
    <2>5. PacketsOK'
      BY <2>1, <2>3, <2>4 DEF IInv, PacketsOK, driverVars
    <2> QED BY <2>2, <2>5 DEF IInv
  <1> QED BY <1>1, CallInv, PollInv, ReturnInv, ReloadInv, ServeInv, LoseInv DEF Next

\* A patient driver sends only when nothing is under way.
LEMMA PatientNext ==
  ASSUME TypeOK, OnePacket, [Next]_vars, MaxEarly = 0
  PROVE  OnePacket'
PROOF
  <1> DEFINE total == Len(requests) + Len(replies)
  <1>1. Len(requests) \in Nat /\ Len(replies) \in Nat
    BY Positions
  <1>2. total <= IF Pending THEN 1 ELSE 0
    BY DEF OnePacket
  <1>3. CASE Call
    <2>1. ~Pending /\ Pending' /\ replies' = replies
      BY <1>3 DEF Call, Pending
    <2>2. Len(requests') = Len(requests) + 1
      <3>1. CurrentRequest' \in Requests
        BY <1>3, NextTypeOK DEF Next, TypeOK, CurrentRequest, Requests
      <3> QED BY <1>3, <3>1, Appended DEF Call, TypeOK
    <2> QED BY <1>1, <1>2, <2>1, <2>2 DEF OnePacket
  <1>4. CASE Poll
    <2>1. Pending
      BY <1>4 DEF Poll, Pending
    <2>2. early \in Nat /\ ~(early < MaxEarly)
      BY DEF TypeOK
    <2>3. ASSUME Resend PROVE Len(requests') = 1 /\ Len(requests) = 0 /\ Len(replies) = 0
      <3>1. requests = <<>> /\ replies = <<>>
        BY <2>2, <2>3 DEF Resend
      <3>2. requests' = Append(requests, CurrentRequest) /\ CurrentRequest \in Requests
        BY <2>3, CurrentTyped DEF Resend
      <3> QED BY <3>1, <3>2, Appended DEF TypeOK
    <2>4. CASE \E p \in Deliverable(replies) : nctuss_receive_skb(p) /\ replies' = RemoveAt(replies, p)
      <3>1. Len(replies') = Len(replies) - 1 /\ Len(replies) >= 1
        BY <2>4, Removed DEF Deliverable, TypeOK
      <3>2. requests' = requests
        BY <1>1, <1>4, <2>3, <3>1 DEF Poll
      <3> QED BY <1>1, <1>2, <2>1, <3>1, <3>2 DEF OnePacket
    <2>5. CASE Resend /\ UNCHANGED <<skb, skb_replied, leaked, replies>>
      <3>1. Pending' /\ Len(replies') = 0 /\ Len(requests') = 1
        BY <1>4, <2>1, <2>3, <2>5 DEF Poll, Pending
      <3> QED BY <3>1 DEF OnePacket
    <2> QED BY <1>4, <2>4, <2>5 DEF Poll
  <1>5. CASE Serve
    <2>1. PICK p \in DOMAIN requests :
            /\ requests' = RemoveAt(requests, p)
            /\ ServeReset(requests[p]) \/ ServeNew(requests[p]) \/ ServeOld(requests[p])
      BY <1>5 DEF Serve, Deliverable
    <2>2. Len(requests') = Len(requests) - 1
      BY <2>1, Removed DEF TypeOK
    <2>3. reply' \in Replies
      BY <1>5, ServeTypeOK DEF TypeOK
    <2>4. replies' = replies \/ replies' = Append(replies, reply')
      BY <2>1 DEF ServeReset, ServeNew, ServeOld, Send
    <2>5. Len(replies') \in {Len(replies), Len(replies) + 1}
      BY <2>3, <2>4, Appended DEF TypeOK
    <2>6. Pending' = Pending
      BY <1>5 DEF Serve, driverVars, Pending
    <2> QED BY <1>1, <1>2, <2>2, <2>5, <2>6 DEF OnePacket
  <1>6. CASE Lose
    <2>1. Pending' = Pending
      BY <1>6 DEF Lose, driverVars, Pending
    <2>2. \/ Len(requests') = Len(requests) - 1 /\ Len(replies') = Len(replies)
          \/ Len(replies') = Len(replies) - 1 /\ Len(requests') = Len(requests)
      BY <1>6, Removed DEF Lose, TypeOK
    <2> QED BY <1>1, <1>2, <2>1, <2>2 DEF OnePacket
  <1>7. CASE Return \/ Reload \/ UNCHANGED vars
    <2>1. UNCHANGED <<requests, replies>> /\ Pending' = Pending
      BY <1>7 DEF Return, Reload, vars, driverVars, Pending
    <2> QED BY <2>1 DEF OnePacket
  <1> QED BY <1>3, <1>4, <1>5, <1>6, <1>7 DEF Next

\* Nothing overtakes anything: the network does not let it, or a driver that
\* waits long enough before it sends again gives it no occasion.
LEMMA KeepsOrder == ASSUME Orderly PROVE Spec => []InOrder
PROOF
  <1>1. CASE ~Reorder
    <2>1. InOrder
      BY <1>1 DEF InOrder
    <2> QED BY <2>1, PTL
  <1>2. CASE MaxEarly = 0
    <2>1. Init => OnePacket
      BY DEF Init, OnePacket, Pending
    <2>2. TypeOK /\ OnePacket /\ [Next]_vars => OnePacket'
      BY <1>2, PatientNext
    <2>3. TypeOK /\ OnePacket => InOrder
      BY <1>2, Positions DEF OnePacket, InOrder
    <2> QED BY <2>1, <2>2, <2>3, TypeCorrect, PTL DEF Spec
  <1> QED BY <1>1, <1>2 DEF Orderly

\* Where no packet overtakes another the invariant of the link always holds.
THEOREM Invariant == ASSUME Orderly PROVE Spec => []IInv
PROOF
  <1>1. TypeOK /\ InOrder /\ IInv /\ [Next]_vars => IInv'
    BY NextInv
  <1> QED BY <1>1, InitInv, TypeCorrect, KeepsOrder, PTL DEF Spec

-----------------------------------------------------------------------------
(* The safety properties, for any number of calls, sessions, losses and    *)
(* resends, where no packet overtakes another.                             *)

\* The server carries out the calls of a session in order, without gaps and
\* without repetitions.
THEOREM CarriesOutOnce == ASSUME Orderly PROVE Spec => []InOrderOnce
PROOF
  <1>1. IInv => InOrderOnce
    BY DEF IInv, ServerOK
  <1> QED BY <1>1, Invariant, PTL

\* The server never takes a request for one older than the last, so that it does
\* not reach its while(1).
THEOREM NeverHangs == ASSUME Orderly PROVE Spec => []NeverHung
PROOF
  <1>1. IInv => NeverHung
    BY DEF IInv, ServerOK, NeverHung
  <1> QED BY <1>1, Invariant, PTL

\* communicate_with_emulator returns the answer to this call and no other.
THEOREM AnswersRight == ASSUME Orderly PROVE Spec => []RightAnswer
PROOF
  <1>1. ASSUME TypeOK, IInv, calling, skb_replied
        PROVE  /\ skb.id = current_waiting_reply_id
               /\ skb.result = current_waiting_reply_id - FirstId
    <2>1. skb = reply /\ Executed
      BY <1>1 DEF IInv, DriverOK, Pending
    <2>2. current_waiting_reply_id >= FirstId /\ reply.id = current_waiting_reply_id
      BY <1>1, <2>1, Numbered DEF IInv
    <2>3. reply.id # 0
      BY <2>2, IdAssumption
    <2> QED BY <1>1, <2>1, <2>2, <2>3 DEF IInv, ServerOK
  <1>2. TypeOK /\ IInv => RightAnswer
    BY <1>1 DEF RightAnswer
  <1> QED BY <1>2, TypeCorrect, Invariant, PTL

\* Every call that has returned in this session has been carried out since its
\* reset, and no leftover of an earlier session has wiped it out.
THEOREM LosesNothing == ASSUME Orderly PROVE Spec => []NothingLost
PROOF
  <1>1. ASSUME TypeOK, IInv, udp_send_reply_id > FirstId,
               ~(calling /\ current_waiting_reply_id = FirstId)
        PROVE  Len(log) \in {udp_send_reply_id - FirstId - 1,
                             udp_send_reply_id - FirstId - IF calling THEN 2 ELSE 1}
    <2>1. /\ FirstId \in Nat \ {0} /\ IdSpace \in Nat /\ FirstId < IdSpace
          /\ udp_send_reply_id \in Nat /\ reply.id \in Nat /\ current_waiting_reply_id \in 0 .. IdSpace - 1
      BY <1>1, Positions, IdAssumption DEF TypeOK, Ids
    <2>2. /\ current_waiting_reply_id >= FirstId
          /\ udp_send_reply_id = (current_waiting_reply_id + 1) % IdSpace
      BY <1>1, <2>1 DEF IInv, DriverOK
    <2>3. udp_send_reply_id = current_waiting_reply_id + 1
      <3>1. CASE current_waiting_reply_id = IdSpace - 1
        <4>1. udp_send_reply_id = 0
          BY <2>1, <2>2, <3>1
        <4> QED BY <1>1, <2>1, <4>1
      <3>2. CASE current_waiting_reply_id # IdSpace - 1
        BY <2>1, <2>2, <3>2
      <3> QED BY <3>1, <3>2
    <2>4. CASE Executed
      <3>1. Len(log) = current_waiting_reply_id - FirstId
        BY <1>1, <2>1, <2>2, <2>4 DEF IInv, ServerOK, Executed
      <3>2. Len(log) = udp_send_reply_id - FirstId - 1
        BY <2>1, <2>3, <3>1
      <3> QED BY <3>2
    <2>5. CASE ~Executed
      <3>1. calling /\ reply.id >= FirstId /\ current_waiting_reply_id = reply.id + 1
        BY <1>1, <2>5 DEF IInv, DriverOK, Pending
      <3>2. Len(log) = reply.id - FirstId
        BY <1>1, <2>1, <3>1 DEF IInv, ServerOK
      <3>3. udp_send_reply_id = reply.id + 2
        BY <2>1, <2>3, <3>1
      <3>4. Len(log) = udp_send_reply_id - FirstId - 2
        BY <2>1, <3>2, <3>3
      <3> QED BY <3>1, <3>4
    <2> QED BY <2>4, <2>5
  <1>2. TypeOK /\ IInv => NothingLost
    BY <1>1 DEF NothingLost
  <1> QED BY <1>2, TypeCorrect, Invariant, PTL

-----------------------------------------------------------------------------
(* The leak, on any network.                                               *)

\* A packet leaves a channel, and with it one stray if it was one.
LEMMA StraysGone ==
  ASSUME NEW S, NEW s \in Seq(S), NEW p \in DOMAIN s
  PROVE  /\ Cardinality(Strays(s)) \in Nat /\ Cardinality(Strays(RemoveAt(s, p))) \in Nat
         /\ Cardinality(Strays(RemoveAt(s, p)))
              <= Cardinality(Strays(s)) - IF p \in Strays(s) THEN 1 ELSE 0
PROOF
  <1> DEFINE t == RemoveAt(s, p)
             back == [q \in Strays(t) |-> IF q < p THEN q ELSE q + 1]
  <1>1. /\ p \in 1 .. Len(s) /\ Len(s) \in Nat /\ DOMAIN s = 1 .. Len(s)
        /\ \A q \in DOMAIN t : /\ q \in 1 .. Len(s) - 1
                               /\ t[q] = IF q < p THEN s[q] ELSE s[q + 1]
    BY Removed, LenProperties
  <1>2. IsFiniteSet(Strays(s))
    <2>1. IsFiniteSet(1 .. Len(s))
      BY <1>1, FS_Interval
    <2> QED BY <1>1, <2>1, FS_Subset DEF Strays
  <1> HIDE DEF t
  <1>3. \A q \in Strays(t) : back[q] \in Strays(s) \ {p}
    <2> SUFFICES ASSUME NEW q \in Strays(t) PROVE back[q] \in Strays(s) \ {p}
      OBVIOUS
    <2>1. /\ q \in 1 .. Len(s) - 1 /\ t[q].id # current_waiting_reply_id
          /\ t[q] = IF q < p THEN s[q] ELSE s[q + 1]
      BY <1>1 DEF Strays
    <2>2. back[q] \in 1 .. Len(s) /\ back[q] # p /\ t[q] = s[back[q]]
      BY <1>1, <2>1
    <2> QED BY <1>1, <2>1, <2>2 DEF Strays
  <1>4. \A q, r \in Strays(t) : back[q] = back[r] => q = r
    <2> SUFFICES ASSUME NEW q \in Strays(t), NEW r \in Strays(t), back[q] = back[r]
                 PROVE  q = r
      OBVIOUS
    <2>1. q \in Int /\ r \in Int /\ p \in Int
      BY <1>1 DEF Strays
    <2> QED BY <2>1
  <1>5. back \in Injection(Strays(t), Strays(s) \ {p})
    BY <1>3, <1>4 DEF Injection, IsInjective
  <1> HIDE DEF back
  <1>6. /\ IsFiniteSet(Strays(s) \ {p})
        /\ Cardinality(Strays(s) \ {p})
             = IF p \in Strays(s) THEN Cardinality(Strays(s)) - 1 ELSE Cardinality(Strays(s))
    BY <1>2, FS_RemoveElement
  <1>7. IsFiniteSet(Strays(t)) /\ Cardinality(Strays(t)) <= Cardinality(Strays(s) \ {p})
    BY <1>5, <1>6, FS_Injection
  <1>8. Cardinality(Strays(s)) \in Nat /\ Cardinality(Strays(t)) \in Nat
    BY <1>2, <1>7, FS_CardinalityType
  <1> QED BY <1>6, <1>7, <1>8 DEF t

\* A packet is sent, which may be one more stray.
LEMMA StraysSent ==
  ASSUME NEW S, NEW s \in Seq(S), NEW e \in S
  PROVE  /\ Cardinality(Strays(s)) \in Nat /\ Cardinality(Strays(Append(s, e))) \in Nat
         /\ Cardinality(Strays(s)) <= Len(s) /\ Len(s) \in Nat
         /\ Cardinality(Strays(Append(s, e)))
              <= Cardinality(Strays(s)) + IF e.id # current_waiting_reply_id THEN 1 ELSE 0
PROOF
  <1> DEFINE n == Len(s) + 1
  <1>1. /\ Len(s) \in Nat /\ DOMAIN s = 1 .. Len(s)
        /\ \A q \in DOMAIN Append(s, e) :
             /\ q \in 1 .. Len(s) + 1
             /\ Append(s, e)[q] = IF q <= Len(s) THEN s[q] ELSE e
    BY Appended, LenProperties
  <1>2. IsFiniteSet(Strays(s)) /\ Cardinality(Strays(s)) <= Len(s)
    <2>1. IsFiniteSet(1 .. Len(s)) /\ Cardinality(1 .. Len(s)) = Len(s)
      BY <1>1, FS_Interval
    <2> QED BY <1>1, <2>1, FS_Subset DEF Strays
  <1>3. /\ Strays(Append(s, e)) \subseteq Strays(s) \cup {n}
        /\ e.id = current_waiting_reply_id => Strays(Append(s, e)) \subseteq Strays(s)
    BY <1>1 DEF Strays
  <1>4. /\ IsFiniteSet(Strays(s) \cup {n})
        /\ Cardinality(Strays(s)) \in Nat
        /\ Cardinality(Strays(s) \cup {n}) <= Cardinality(Strays(s)) + 1
    BY <1>2, FS_AddElement, FS_CardinalityType
  <1>5. /\ IsFiniteSet(Strays(Append(s, e)))
        /\ Cardinality(Strays(Append(s, e))) <= Cardinality(Strays(s) \cup {n})
        /\ e.id = current_waiting_reply_id =>
             Cardinality(Strays(Append(s, e))) <= Cardinality(Strays(s))
    BY <1>2, <1>3, <1>4, FS_Subset
  <1>6. Cardinality(Strays(Append(s, e))) \in Nat /\ Cardinality(Strays(s) \cup {n}) \in Nat
    BY <1>4, <1>5, FS_CardinalityType
  <1> QED BY <1>1, <1>2, <1>4, <1>5, <1>6

LEMMA LeakInit == Init => LeakInv
PROOF
  <1> SUFFICES ASSUME Init PROVE LeakInv
    OBVIOUS
  <1>1. Len(requests) = 0 /\ Len(replies) = 0 /\ DOMAIN requests = {}
    BY DEF Init
  <1> QED BY <1>1 DEF Init, LeakInv, AnswersToItsId, StraysOK, CountOK, Pending

\* What the server sends bears the id of the request it has taken.
LEMMA ServedUnderItsId ==
  ASSUME TypeOK, AnswersToItsId, NEW p \in DOMAIN requests,
         ServeReset(requests[p]) \/ ServeNew(requests[p]) \/ ServeOld(requests[p])
  PROVE  /\ current_max_request_id' \in {0, reply'.id}
         /\ \/ UNCHANGED replies
            \/ replies' = Append(replies, reply') /\ reply'.id = requests[p].id
PROOF
  <1>1. requests[p] \in Requests /\ requests[p].id \in Nat /\ requests[p].id >= FirstId
    <2>1. requests[p] \in Requests
      BY LenProperties DEF TypeOK
    <2> QED BY <2>1, IdsAreNumbers DEF Requests, AnswersToItsId
  <1>2. CASE ServeReset(requests[p])
    BY <1>2 DEF ServeReset, Send
  <1>3. CASE ServeNew(requests[p])
    BY <1>3 DEF ServeNew, Send
  <1>4. CASE ServeOld(requests[p])
    <2>1. UNCHANGED <<reply, current_max_request_id>>
      BY <1>4 DEF ServeOld, Send
    <2>2. CASE requests[p].id < current_max_request_id
      <3>1. UNCHANGED replies
        BY <1>4, <2>2 DEF ServeOld
      <3> QED BY <2>1, <3>1 DEF AnswersToItsId
    <2>3. CASE ~(requests[p].id < current_max_request_id)
      <3>1. replies' = Append(replies, reply)
        BY <1>4, <2>3 DEF ServeOld, Send
      <3>2. current_max_request_id = requests[p].id /\ current_max_request_id # 0
        <4>1. current_max_request_id \in Nat /\ requests[p].id <= current_max_request_id
          BY <1>4, IdsAreNumbers DEF ServeOld, TypeOK
        <4> QED BY <1>1, <2>3, <4>1, IdAssumption
      <3> QED BY <2>1, <3>1, <3>2 DEF AnswersToItsId
    <2> QED BY <2>2, <2>3
  <1> QED BY <1>2, <1>3, <1>4

LEMMA LeakCall ==
  ASSUME TypeOK, LeakInv, Call
  PROVE  LeakInv'
PROOF
  <1>1. /\ ~Pending /\ Pending' /\ UNCHANGED <<replies, leaked, resends, serverVars>>
        /\ current_waiting_reply_id' = udp_send_reply_id
        /\ requests' = Append(requests, CurrentRequest')
    BY DEF Call, Pending
  <1>2. CurrentRequest'.id = current_waiting_reply_id' /\ CurrentRequest' \in Requests
    <2>1. current_waiting_reply_id' \in Ids
      BY <1>1 DEF TypeOK
    <2> QED BY <2>1 DEF CurrentRequest, Requests
  <1>3. current_waiting_reply_id' >= FirstId
    BY <1>1, Positions, IdAssumption DEF Call
  <1>4. /\ Len(requests) \in Nat /\ Len(requests') = Len(requests) + 1
        /\ \A q \in DOMAIN requests' :
             /\ q \in 1 .. Len(requests) + 1
             /\ requests'[q] = IF q <= Len(requests) THEN requests[q] ELSE CurrentRequest'
    BY <1>1, <1>2, Appended DEF TypeOK
  <1>5. AnswersToItsId'
    <2>1. \A q \in DOMAIN requests' : requests'[q].id >= FirstId
      BY <1>2, <1>3, <1>4, Positions DEF LeakInv, AnswersToItsId
    <2>2. current_max_request_id' \in {0, reply'.id}
      BY <1>1 DEF LeakInv, AnswersToItsId, serverVars
    <2> QED BY <1>3, <2>1, <2>2 DEF AnswersToItsId
  <1>6. leaked + Len(requests) + Len(replies) <= resends + 0
    BY <1>1 DEF LeakInv, CountOK
  <1>7. /\ Cardinality(Strays(requests)') \in Nat /\ Cardinality(Strays(requests)') <= Len(requests)
        /\ Cardinality(Strays(replies)') \in Nat /\ Cardinality(Strays(replies)') <= Len(replies)
    <2>1. Strays(requests)' \subseteq 1 .. Len(requests)
      BY <1>2, <1>4 DEF Strays
    <2>2. Strays(replies)' \subseteq 1 .. Len(replies) /\ Len(replies) \in Nat
      BY <1>1, Positions DEF Strays
    <2>3. \A n \in Nat : IsFiniteSet(1 .. n) /\ Cardinality(1 .. n) = n
      BY FS_Interval
    <2> QED BY <1>4, <2>1, <2>2, <2>3, FS_Subset, FS_CardinalityType
  <1>8. leaked \in Nat /\ resends \in Nat /\ Len(replies) \in Nat
    BY Positions DEF TypeOK
  <1>9. StraysOK'
    BY <1>1, <1>4, <1>6, <1>7, <1>8 DEF StraysOK
  <1>10. CountOK'
    BY <1>1, <1>4, <1>6, <1>8 DEF CountOK
  <1> QED BY <1>5, <1>9, <1>10 DEF LeakInv

LEMMA LeakPoll ==
  ASSUME TypeOK, LeakInv, Poll
  PROVE  LeakInv'
PROOF
  <1>1. /\ calling /\ Pending /\ UNCHANGED <<calling, current_waiting_reply_id, serverVars>>
    BY DEF Poll, Pending
  <1>2. /\ leaked \in Nat /\ resends \in Nat /\ Len(requests) \in Nat /\ Len(replies) \in Nat
    BY Positions DEF TypeOK
  <1>3. /\ leaked + Cardinality(Strays(requests)) + Cardinality(Strays(replies)) <= resends
        /\ leaked + Len(requests) + Len(replies) <= resends + 1
    BY <1>1 DEF LeakInv, StraysOK, CountOK
  <1>4. Strays(requests)' = Strays(requests') /\ Strays(replies)' = Strays(replies')
    BY <1>1 DEF Strays
  <1>5. \* The requests.
        /\ \E d \in {0, 1} : Len(requests') = Len(requests) + d /\ resends' = resends + d
        /\ Cardinality(Strays(requests)) \in Nat /\ Cardinality(Strays(requests')) \in Nat
        /\ Cardinality(Strays(requests')) <= Cardinality(Strays(requests))
        /\ \A q \in DOMAIN requests' : requests'[q].id >= FirstId
    <2>0. CurrentRequest \in Requests /\ CurrentRequest.id = current_waiting_reply_id
      BY CurrentTyped DEF CurrentRequest
    <2>1. Cardinality(Strays(requests)) \in Nat
      BY <2>0, StraysSent DEF TypeOK
    <2>2. CASE Resend
      <3>1. /\ Len(requests') = Len(requests) + 1 /\ resends' = resends + 1
            /\ requests' = Append(requests, CurrentRequest)
            /\ \A q \in DOMAIN requests' :
                 /\ q \in 1 .. Len(requests) + 1
                 /\ requests'[q] = IF q <= Len(requests) THEN requests[q] ELSE CurrentRequest
        BY <2>0, <2>2, Appended DEF Resend, TypeOK
      <3>2. /\ Cardinality(Strays(requests')) \in Nat
            /\ Cardinality(Strays(requests')) <= Cardinality(Strays(requests)) + 0
        BY <2>0, <3>1, StraysSent DEF TypeOK
      <3>3. current_waiting_reply_id >= FirstId
        BY <1>1 DEF LeakInv, AnswersToItsId
      <3>4. \A q \in DOMAIN requests' : requests'[q].id >= FirstId
        BY <2>0, <3>1, <3>3, Positions DEF LeakInv, AnswersToItsId
      <3> QED BY <2>1, <3>1, <3>2, <3>4
    <2>3. CASE UNCHANGED <<requests, resends, early>>
      <3>1. Len(requests') = Len(requests) + 0 /\ resends' = resends + 0
        BY <1>2, <2>3
      <3> QED BY <2>1, <2>3, <3>1 DEF LeakInv, AnswersToItsId
    <2> QED BY <2>2, <2>3 DEF Poll
  <1>6. PICK d \in {0, 1} : Len(requests') = Len(requests) + d /\ resends' = resends + d
    BY <1>5
  <1>7. AnswersToItsId'
    BY <1>1, <1>5 DEF LeakInv, AnswersToItsId, serverVars
  <1>8. Cardinality(Strays(replies)) \in Nat
    BY StraysSent DEF TypeOK
  <1>9. CASE \E p \in Deliverable(replies) : /\ nctuss_receive_skb(p)
                                             /\ replies' = RemoveAt(replies, p)
    <2>1. PICK p \in DOMAIN replies : nctuss_receive_skb(p) /\ replies' = RemoveAt(replies, p)
      BY <1>9 DEF Deliverable
    <2>2. /\ Len(replies') = Len(replies) - 1
          /\ Cardinality(Strays(replies')) \in Nat
          /\ Cardinality(Strays(replies'))
               <= Cardinality(Strays(replies)) - IF p \in Strays(replies) THEN 1 ELSE 0
      BY <2>1, Removed, StraysGone DEF TypeOK
    <2>3. CASE p \in Strays(replies)
      <3>1. leaked' = leaked + 1 /\ Pending'
        BY <1>1, <2>1, <2>3 DEF Strays, nctuss_receive_skb, Pending
      <3>2. Cardinality(Strays(replies')) <= Cardinality(Strays(replies)) - 1
        BY <2>2, <2>3
      <3>3. leaked' + Cardinality(Strays(requests')) + Cardinality(Strays(replies')) <= resends
        BY <1>2, <1>3, <1>5, <1>8, <2>2, <3>1, <3>2
      <3>4. resends <= resends'
        BY <1>2, <1>6
      <3>5. leaked' + Cardinality(Strays(requests')) + Cardinality(Strays(replies')) <= resends'
        BY <1>2, <1>5, <1>6, <2>2, <3>1, <3>3, <3>4
      <3>6. StraysOK'
        BY <1>4, <3>5 DEF StraysOK
      <3>7. CountOK'
        BY <1>2, <1>3, <1>6, <2>2, <3>1 DEF CountOK
      <3> QED BY <1>7, <3>6, <3>7 DEF LeakInv
    <2>4. CASE p \notin Strays(replies)
      <3>1. leaked' = leaked /\ ~Pending'
        BY <2>1, <2>4 DEF Strays, nctuss_receive_skb, Pending
      <3>2. CountOK'
        BY <1>2, <1>3, <1>6, <2>2, <3>1 DEF CountOK
      <3> QED BY <1>7, <3>1, <3>2 DEF LeakInv, StraysOK
    <2> QED BY <2>3, <2>4
  <1>10. CASE UNCHANGED <<skb, skb_replied, leaked, replies>>
    <2>1. Pending'
      BY <1>1, <1>10 DEF Pending
    <2>2. StraysOK'
      BY <1>2, <1>3, <1>4, <1>5, <1>6, <1>8, <1>10 DEF StraysOK
    <2>3. CountOK'
      BY <1>2, <1>3, <1>6, <1>10, <2>1 DEF CountOK
    <2> QED BY <1>7, <2>2, <2>3 DEF LeakInv
  <1> QED BY <1>9, <1>10 DEF Poll

LEMMA LeakServe ==
  ASSUME TypeOK, LeakInv, Serve
  PROVE  LeakInv'
PROOF
  <1>1. PICK p \in DOMAIN requests :
          /\ requests' = RemoveAt(requests, p)
          /\ ServeReset(requests[p]) \/ ServeNew(requests[p]) \/ ServeOld(requests[p])
    BY DEF Serve, Deliverable
  <1>2. UNCHANGED <<calling, current_waiting_reply_id, leaked, resends>> /\ Pending' = Pending
    BY DEF Serve, driverVars, Pending
  <1>3. /\ leaked \in Nat /\ resends \in Nat /\ Len(requests) \in Nat /\ Len(replies) \in Nat
        /\ reply' \in Replies
    BY Positions, ServeTypeOK DEF TypeOK
  <1>4. Strays(requests)' = Strays(requests') /\ Strays(replies)' = Strays(replies')
    BY <1>2 DEF Strays
  <1>5. /\ current_max_request_id' \in {0, reply'.id}
        /\ \/ UNCHANGED replies
           \/ replies' = Append(replies, reply') /\ reply'.id = requests[p].id
    BY <1>1, ServedUnderItsId DEF LeakInv
  <1>6. /\ Len(requests') = Len(requests) - 1
        /\ p \in 1 .. Len(requests)
        /\ \A q \in DOMAIN requests' :
             /\ q \in 1 .. Len(requests) - 1
             /\ requests'[q] = IF q < p THEN requests[q] ELSE requests[q + 1]
        /\ Cardinality(Strays(requests)) \in Nat /\ Cardinality(Strays(requests')) \in Nat
        /\ Cardinality(Strays(requests'))
             <= Cardinality(Strays(requests)) - IF p \in Strays(requests) THEN 1 ELSE 0
    BY <1>1, Removed, StraysGone DEF TypeOK
  <1>7. AnswersToItsId'
    <2>1. \A q \in 1 .. Len(requests) : requests[q].id >= FirstId
      BY Positions DEF LeakInv, AnswersToItsId
    <2>2. \A q \in DOMAIN requests' : requests'[q].id >= FirstId
      <3> TAKE q \in DOMAIN requests'
      <3>1. q \in 1 .. Len(requests) /\ q + 1 \in 1 .. Len(requests)
        BY <1>3, <1>6
      <3> QED BY <1>6, <2>1, <3>1
    <2> QED BY <1>2, <1>5, <2>2 DEF LeakInv, AnswersToItsId
  <1>8. p \in Strays(requests) <=> requests[p].id # current_waiting_reply_id
    BY <1>1 DEF Strays
  <1>9. /\ Len(replies') <= Len(replies) + 1 /\ Len(replies') \in Nat
        /\ Cardinality(Strays(replies)) \in Nat /\ Cardinality(Strays(replies')) \in Nat
        /\ Cardinality(Strays(replies'))
             <= Cardinality(Strays(replies)) + IF p \in Strays(requests) THEN 1 ELSE 0
    <2>1. CASE UNCHANGED replies
      <3>1. Cardinality(Strays(replies)) \in Nat
        BY <1>3, StraysSent DEF TypeOK
      <3> QED BY <1>3, <2>1, <3>1
    <2>2. CASE replies' = Append(replies, reply') /\ reply'.id = requests[p].id
      <3>1. /\ Cardinality(Strays(replies)) \in Nat /\ Cardinality(Strays(replies')) \in Nat
            /\ Cardinality(Strays(replies')) <= Cardinality(Strays(replies))
                 + IF reply'.id # current_waiting_reply_id THEN 1 ELSE 0
        BY <1>3, <2>2, StraysSent DEF TypeOK
      <3>2. Len(replies') = Len(replies) + 1
        BY <1>3, <2>2, Appended DEF TypeOK
      <3> QED BY <1>3, <1>8, <2>2, <3>1, <3>2
    <2> QED BY <1>5, <2>1, <2>2
  <1>10. StraysOK'
    BY <1>2, <1>3, <1>4, <1>6, <1>9 DEF LeakInv, StraysOK
  <1>11. CountOK'
    <2>1. CASE Pending
      BY <1>2, <1>3, <1>6, <1>9, <2>1 DEF LeakInv, CountOK
    <2>2. CASE ~Pending
      BY <1>2, <1>3, <1>6, <1>9, <2>2 DEF LeakInv, CountOK
    <2> QED BY <2>1, <2>2
  <1> QED BY <1>7, <1>10, <1>11 DEF LeakInv

LEMMA LeakLose ==
  ASSUME TypeOK, LeakInv, Lose
  PROVE  LeakInv'
PROOF
  <1>1. /\ UNCHANGED <<calling, current_waiting_reply_id, leaked, resends, serverVars>>
        /\ Pending' = Pending
    BY DEF Lose, driverVars, serverVars, Pending
  <1>2. /\ leaked \in Nat /\ resends \in Nat /\ Len(requests) \in Nat /\ Len(replies) \in Nat
        /\ Cardinality(Strays(requests)) \in Nat /\ Cardinality(Strays(replies)) \in Nat
    <2>1. Cardinality(Strays(replies)) \in Nat
      BY StraysSent DEF TypeOK
    <2>2. Cardinality(Strays(requests)) \in Nat
      BY CurrentTyped, StraysSent DEF TypeOK
    <2> QED BY <2>1, <2>2, Positions DEF TypeOK
  <1>3. Strays(requests)' = Strays(requests') /\ Strays(replies)' = Strays(replies')
    BY <1>1 DEF Strays
  <1>4. /\ Len(requests') \in Nat /\ Len(replies') \in Nat
        /\ Len(requests') <= Len(requests) /\ Len(replies') <= Len(replies)
        /\ Cardinality(Strays(requests')) \in Nat /\ Cardinality(Strays(replies')) \in Nat
        /\ Cardinality(Strays(requests')) <= Cardinality(Strays(requests))
        /\ Cardinality(Strays(replies')) <= Cardinality(Strays(replies))
        /\ \A q \in DOMAIN requests' : requests'[q].id >= FirstId
    <2>1. CASE (\E p \in DOMAIN requests : requests' = RemoveAt(requests, p)) /\ UNCHANGED replies
      <3>1. PICK p \in DOMAIN requests : requests' = RemoveAt(requests, p)
        BY <2>1
      <3>2. /\ Len(requests') = Len(requests) - 1 /\ p \in 1 .. Len(requests)
            /\ Cardinality(Strays(requests')) \in Nat
            /\ Cardinality(Strays(requests')) <= Cardinality(Strays(requests))
            /\ \A q \in DOMAIN requests' :
                 /\ q \in 1 .. Len(requests) - 1
                 /\ requests'[q] = IF q < p THEN requests[q] ELSE requests[q + 1]
        <4>1. /\ Len(requests') = Len(requests) - 1 /\ p \in 1 .. Len(requests)
              /\ \A q \in DOMAIN requests' :
                   /\ q \in 1 .. Len(requests) - 1
                   /\ requests'[q] = IF q < p THEN requests[q] ELSE requests[q + 1]
          BY <3>1, Removed DEF TypeOK
        <4>2. /\ Cardinality(Strays(requests')) \in Nat
              /\ Cardinality(Strays(requests'))
                   <= Cardinality(Strays(requests)) - IF p \in Strays(requests) THEN 1 ELSE 0
          BY <3>1, StraysGone DEF TypeOK
        <4>3. Cardinality(Strays(requests')) <= Cardinality(Strays(requests))
          BY <1>2, <4>2
        <4> QED BY <4>1, <4>2, <4>3
      <3>3. \A q \in 1 .. Len(requests) : requests[q].id >= FirstId
        BY Positions DEF LeakInv, AnswersToItsId
      <3>4. \A q \in DOMAIN requests' : requests'[q].id >= FirstId
        <4> TAKE q \in DOMAIN requests'
        <4>1. q \in 1 .. Len(requests) /\ q + 1 \in 1 .. Len(requests)
          BY <1>2, <3>2
        <4> QED BY <3>2, <3>3, <4>1
      <3> QED BY <1>2, <2>1, <3>2, <3>4
    <2>2. CASE (\E p \in DOMAIN replies : replies' = RemoveAt(replies, p)) /\ UNCHANGED requests
      <3>1. PICK p \in DOMAIN replies : replies' = RemoveAt(replies, p)
        BY <2>2
      <3>2. /\ Len(replies') = Len(replies) - 1 /\ p \in 1 .. Len(replies)
            /\ Cardinality(Strays(replies')) \in Nat
            /\ Cardinality(Strays(replies')) <= Cardinality(Strays(replies))
        <4>1. Len(replies') = Len(replies) - 1 /\ p \in 1 .. Len(replies)
          BY <3>1, Removed DEF TypeOK
        <4>2. /\ Cardinality(Strays(replies')) \in Nat
              /\ Cardinality(Strays(replies'))
                   <= Cardinality(Strays(replies)) - IF p \in Strays(replies) THEN 1 ELSE 0
          BY <3>1, StraysGone DEF TypeOK
        <4>3. Cardinality(Strays(replies')) <= Cardinality(Strays(replies))
          BY <1>2, <4>2
        <4> QED BY <4>1, <4>2, <4>3
      <3> QED BY <1>2, <2>2, <3>2 DEF LeakInv, AnswersToItsId
    <2> QED BY <2>1, <2>2 DEF Lose
  <1>5. AnswersToItsId'
    BY <1>1, <1>4 DEF LeakInv, AnswersToItsId, serverVars
  <1>6. StraysOK'
    BY <1>1, <1>2, <1>3, <1>4 DEF LeakInv, StraysOK
  <1>7. CountOK'
    <2>1. CASE Pending
      BY <1>1, <1>2, <1>4, <2>1 DEF LeakInv, CountOK
    <2>2. CASE ~Pending
      BY <1>1, <1>2, <1>4, <2>2 DEF LeakInv, CountOK
    <2> QED BY <2>1, <2>2
  <1> QED BY <1>5, <1>6, <1>7 DEF LeakInv

LEMMA LeakNext ==
  ASSUME TypeOK, LeakInv, [Next]_vars
  PROVE  LeakInv'
PROOF
  <1>1. CASE Return \/ Reload
    <2>1. /\ ~Pending /\ ~Pending'
          /\ ~calling' /\ UNCHANGED <<requests, replies, leaked, resends, serverVars>>
      BY <1>1 DEF Return, Reload, Pending
    <2> QED BY <2>1 DEF LeakInv, AnswersToItsId, StraysOK, CountOK, serverVars
  <1>2. CASE UNCHANGED vars
    <2>1. /\ Pending' = Pending /\ Strays(requests)' = Strays(requests)
          /\ Strays(replies)' = Strays(replies)
      BY <1>2 DEF vars, driverVars, Pending, Strays
    <2> QED BY <1>2, <2>1 DEF LeakInv, AnswersToItsId, StraysOK, CountOK, vars, driverVars,
                              serverVars
  <1> QED BY <1>1, <1>2, LeakCall, LeakPoll, LeakServe, LeakLose DEF Next

\* Of the pool of reply buffers at most one is lost per resend, whatever the
\* network loses and whatever overtakes what: while the driver waits, what it
\* drops are answers to other calls, and each of those was asked for once more
\* than it was waited for.
THEOREM LeaksBounded == Spec => []LeakBounded
PROOF
  <1>1. ASSUME TypeOK, LeakInv PROVE LeakBounded
    <2>1. leaked \in Nat /\ resends \in Nat /\ Len(requests) \in Nat /\ Len(replies) \in Nat
      BY <1>1, Positions DEF TypeOK
    <2>2. Cardinality(Strays(requests)) \in Nat /\ Cardinality(Strays(replies)) \in Nat
      BY <1>1, CurrentTyped, StraysSent DEF TypeOK
    <2>3. CASE Pending
      BY <1>1, <2>1, <2>2, <2>3 DEF LeakInv, StraysOK, LeakBounded
    <2>4. CASE ~Pending
      BY <1>1, <2>1, <2>4 DEF LeakInv, CountOK, LeakBounded
    <2> QED BY <2>3, <2>4
  <1>2. TypeOK /\ LeakInv /\ [Next]_vars => LeakInv'
    BY LeakNext
  <1> QED BY <1>1, <1>2, LeakInit, TypeCorrect, PTL DEF Spec

-----------------------------------------------------------------------------
(* The link is a remote procedure call.                                    *)


LEMMA InitImplements == Init => Remote!Init
PROOF BY DEF Init, Remote!Init, NoCall

\* A call is invoked when it is numbered, carried out when the server first takes
\* it, and returns when the loop ends; all else is invisible.
LEMMA NextImplements ==
  ASSUME TypeOK, IInv, [Next]_vars
  PROVE  [Remote!Next]_(Remote!vars)
PROOF
  <1> DEFINE answer == IF calling /\ reply.id = current_waiting_reply_id THEN reply.result ELSE -1
             call == IF calling THEN current_waiting_reply_id ELSE NoCall
  <1>1. CASE Call
    <2>1. /\ call = NoCall /\ answer = -1 /\ UNCHANGED <<log, got>>
          /\ call' = udp_send_reply_id /\ udp_send_reply_id \in Ids
      BY <1>1 DEF Call, serverVars, TypeOK
    <2>2. answer' = -1
      BY <1>1, CallIsNew DEF Call, serverVars
    <2> QED BY <2>1, <2>2 DEF Remote!Next, Remote!Invoke
  <1>2. CASE Poll
    BY <1>2 DEF Poll, serverVars, Remote!vars
  <1>3. CASE Return
    <2>1. skb = reply /\ calling /\ ~calling' /\ reply.id = current_waiting_reply_id
      BY <1>3, Numbered DEF Return, IInv, DriverOK, Pending
    <2>2. /\ answer = reply.result /\ answer # -1 /\ got' = answer
          /\ call' = NoCall /\ answer' = -1 /\ log' = log
      BY <1>3, <2>1, Positions DEF Return, serverVars
    <2> QED BY <2>2 DEF Remote!Next, Remote!Return
  <1>4. CASE Reload
    BY <1>4 DEF Reload, serverVars, Remote!vars
  <1>5. CASE Serve
    <2>1. PICK p \in DOMAIN requests :
            ServeReset(requests[p]) \/ ServeNew(requests[p]) \/ ServeOld(requests[p])
      BY <1>5 DEF Serve, Deliverable
    <2>2. UNCHANGED driverVars
      BY <1>5 DEF Serve
    <2>3. \/ requests[p] = RequestOf(reply.id)
          \/ requests[p] = RequestOf(current_waiting_reply_id) /\ ~Executed
      BY DEF IInv, PacketsOK, RequestsAre
    <2>4. CASE requests[p] = RequestOf(reply.id)
      <3>1. UNCHANGED serverVars
        BY <2>1, <2>4, RepetitionServed DEF IInv
      <3> QED BY <2>2, <3>1 DEF serverVars, driverVars, Remote!vars
    <2>5. CASE requests[p] = RequestOf(current_waiting_reply_id) /\ ~Executed
      <3>1. /\ reply' = [id |-> current_waiting_reply_id,
                         result |-> current_waiting_reply_id - FirstId]
            /\ log' = IF current_waiting_reply_id = FirstId THEN <<>>
                        ELSE Append(log, current_waiting_reply_id)
            /\ Len(log') = reply'.result
        BY <2>1, <2>5, CallServed DEF IInv
      <3>2. /\ calling /\ call = current_waiting_reply_id /\ answer = -1
            /\ UNCHANGED <<calling, current_waiting_reply_id, got>>
        BY <2>2, <2>5 DEF IInv, DriverOK, Pending, Executed, driverVars
      <3>3. call # NoCall
        BY <3>2, Positions DEF NoCall
      <3>4. answer' = Len(log') /\ call' = call
        BY <3>1, <3>2
      <3>5. log' = IF call = FirstId THEN <<>> ELSE Append(log, call)
        BY <3>1, <3>2
      <3> QED BY <3>2, <3>3, <3>4, <3>5 DEF Remote!Next, Remote!Execute
    <2> QED BY <2>3, <2>4, <2>5
  <1>6. CASE Lose
    BY <1>6 DEF Lose, driverVars, serverVars, Remote!vars
  <1>7. CASE UNCHANGED vars
    BY <1>7 DEF vars, driverVars, serverVars, Remote!vars
  <1> QED BY <1>1, <1>2, <1>3, <1>4, <1>5, <1>6, <1>7 DEF Next

\* Where packets are lost and delayed but not overtaken the link is a remote
\* procedure call: each call is carried out once, between its start and its return,
\* and gets its own result.
THEOREM ImplementsRPC == ASSUME Orderly PROVE Spec => IsRPC
PROOF
  <1>1. TypeOK /\ IInv /\ [Next]_vars => [Remote!Next]_(Remote!vars)
    BY NextImplements
  <1> QED
    BY <1>1, InitImplements, TypeCorrect, Invariant, PTL DEF Spec, IsRPC, Remote!Spec
==============================================================================
