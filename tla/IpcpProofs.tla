----------------------------- MODULE IpcpProofs -----------------------------
(***************************************************************************)
(* What NegotiateIPCP guarantees for every gateway, every loss of frames   *)
(* and every value of the constants.  The argument: a frame under way      *)
(* always comes from a request that was sent, or from an Ack the gateway   *)
(* gave; and the current identifier is the newest one, used for the        *)
(* current proposal alone.                                                 *)
(***************************************************************************)
EXTENDS Ipcp, TLAPS

Genuine == \A i \in 1..Len(up) :
             up[i].code = "request" => Stamp(up[i].id, up[i].opts) \in sent
Honest  == \A i \in 1..Len(down) :
             down[i].code = "ack" => Stamp(down[i].id, down[i].opts) \in acked
Newest  == \A r \in sent : r.id <= id /\ (r.id = id => r.opts = proposed)
Budget  == /\ sends <= retries + 1 /\ sends <= MaxRetries + 1 /\ id <= sends
           /\ st = "negotiating" => retries <= MaxRetries
Timely  == st = "negotiating" => idle + next = RestartTicks

IInv == /\ TypeOK /\ Genuine /\ Honest /\ acked \subseteq sent
        /\ Stamp(id, proposed) \in sent /\ proposed.ip # None
        /\ Newest /\ OneMeaningPerId /\ Agreement /\ Budget /\ Timely

-----------------------------------------------------------------------------
(* Sequences of frames.                                                    *)

\* Taking the first frame off leaves the others, one place earlier.
LEMMA TailFrames ==
  ASSUME NEW S, NEW s \in Seq(S), s # << >>
  PROVE  /\ Tail(s) \in Seq(S) /\ Head(s) \in S
         /\ Len(s) \in Nat /\ Len(s) > 0 /\ Head(s) = s[1]
         /\ Len(Tail(s)) = Len(s) - 1
         /\ \A i \in 1..Len(Tail(s)) : Tail(s)[i] = s[i + 1] /\ i + 1 \in 1..Len(s)
  OBVIOUS

\* Adding a frame at the end keeps the others in their places.
LEMMA AppendFrames ==
  ASSUME NEW S, NEW s \in Seq(S), NEW e \in S
  PROVE  /\ Append(s, e) \in Seq(S)
         /\ \A i \in 1..Len(Append(s, e)) :
              (i \in 1..Len(s) /\ Append(s, e)[i] = s[i]) \/ Append(s, e)[i] = e
  OBVIOUS

\* The client only takes frames off down, or the link loses one: what is left
\* in it is as honest as before.
LEMMA DownShrinks ==
  ASSUME TypeOK, Honest, down # << >>, down' = Tail(down), acked' = acked
  PROVE  Honest' /\ down' \in Seq(Frames) /\ Head(down) \in Frames
         /\ (Head(down).code = "ack" => Stamp(Head(down).id, Head(down).opts) \in acked)
<1>1. down \in Seq(Frames)  BY DEF TypeOK
<1>2. /\ Tail(down) \in Seq(Frames) /\ Head(down) \in Frames
      /\ Len(down) \in Nat /\ Len(down) > 0 /\ Head(down) = down[1]
      /\ \A i \in 1..Len(Tail(down)) : Tail(down)[i] = down[i + 1] /\ i + 1 \in 1..Len(down)
  BY <1>1, TailFrames
<1>3. Honest'  BY <1>2 DEF Honest
<1>4. 1 \in 1..Len(down)  BY <1>2
<1> QED  BY <1>2, <1>3, <1>4 DEF Honest

\* The same of up and the requests in it.
LEMMA UpShrinks ==
  ASSUME TypeOK, Genuine, up # << >>, up' = Tail(up), sent' = sent
  PROVE  Genuine' /\ up' \in Seq(Frames) /\ Head(up) \in Frames
         /\ (Head(up).code = "request" => Stamp(Head(up).id, Head(up).opts) \in sent)
<1>1. up \in Seq(Frames)  BY DEF TypeOK
<1>2. /\ Tail(up) \in Seq(Frames) /\ Head(up) \in Frames
      /\ Len(up) \in Nat /\ Len(up) > 0 /\ Head(up) = up[1]
      /\ \A i \in 1..Len(Tail(up)) : Tail(up)[i] = up[i + 1] /\ i + 1 \in 1..Len(up)
  BY <1>1, TailFrames
<1>3. Genuine'  BY <1>2 DEF Genuine
<1>4. 1 \in 1..Len(up)  BY <1>2
<1> QED  BY <1>2, <1>3, <1>4 DEF Genuine

\* A frame added to up is harmless when it is no request, or one just sent.
LEMMA UpGrows ==
  ASSUME TypeOK, Genuine, NEW f \in Frames, up' = Append(up, f),
         sent \subseteq sent', f.code = "request" => Stamp(f.id, f.opts) \in sent'
  PROVE  Genuine' /\ up' \in Seq(Frames)
<1>1. up \in Seq(Frames)  BY DEF TypeOK
<1>2. /\ Append(up, f) \in Seq(Frames)
      /\ \A i \in 1..Len(Append(up, f)) :
           (i \in 1..Len(up) /\ Append(up, f)[i] = up[i]) \/ Append(up, f)[i] = f
  BY <1>1, AppendFrames
<1>3. SUFFICES ASSUME NEW i \in 1..Len(up'), up'[i].code = "request"
               PROVE  Stamp(up'[i].id, up'[i].opts) \in sent'
  BY <1>2 DEF Genuine
<1>4. CASE up'[i] = f  BY <1>3, <1>4
<1>5. CASE i \in 1..Len(up) /\ up'[i] = up[i]  BY <1>3, <1>5 DEF Genuine
<1> QED  BY <1>2, <1>4, <1>5

\* A frame added to down is honest when it is no Ack, or an Ack just given.
LEMMA DownGrows ==
  ASSUME TypeOK, Honest, NEW f \in Frames, down' = Append(down, f),
         acked \subseteq acked', f.code = "ack" => Stamp(f.id, f.opts) \in acked'
  PROVE  Honest' /\ down' \in Seq(Frames)
<1>1. down \in Seq(Frames)  BY DEF TypeOK
<1>2. /\ Append(down, f) \in Seq(Frames)
      /\ \A i \in 1..Len(Append(down, f)) :
           (i \in 1..Len(down) /\ Append(down, f)[i] = down[i]) \/ Append(down, f)[i] = f
  BY <1>1, AppendFrames
<1>3. SUFFICES ASSUME NEW i \in 1..Len(down'), down'[i].code = "ack"
               PROVE  Stamp(down'[i].id, down'[i].opts) \in acked'
  BY <1>2 DEF Honest
<1>4. CASE down'[i] = f  BY <1>3, <1>4
<1>5. CASE i \in 1..Len(down) /\ down'[i] = down[i]  BY <1>3, <1>5 DEF Honest
<1> QED  BY <1>2, <1>4, <1>5

\* A request sent under the current identifier, or the next one, is the newest.
LEMMA SendKeeps ==
  ASSUME TypeOK, Genuine, Newest, OneMeaningPerId, Stamp(id, proposed) \in sent,
         NEW i \in Nat, NEW o \in Options, SendRequest(i, o),
         id' = i, proposed' = o, (i = id /\ o = proposed) \/ i = id + 1
  PROVE  /\ Genuine' /\ up' \in Seq(Frames) /\ Newest' /\ OneMeaningPerId'
         /\ Stamp(id', proposed') \in sent' /\ sent \subseteq sent'
         /\ sent' \subseteq [id: Nat, opts: Options]
<1>1. sent' = sent \cup {Stamp(i, o)}  BY DEF SendRequest
<1>2. Stamp(i, o) \in [id: Nat, opts: Options] /\ Stamp(i, o).id = i /\ Stamp(i, o).opts = o
  BY DEF Stamp
<1>3. Frame("request", i, o) \in Frames /\ Frame("request", i, o).id = i
        /\ Frame("request", i, o).opts = o
  BY DEF Frame, Frames, Codes
<1>4. Genuine' /\ up' \in Seq(Frames)
  BY <1>1, <1>3, UpGrows DEF SendRequest
<1>5. sent \subseteq [id: Nat, opts: Options] /\ id \in Nat  BY DEF TypeOK
<1>6. Newest'
  BY <1>1, <1>2, <1>5 DEF Newest
<1>7. OneMeaningPerId'
  BY <1>1, <1>2, <1>5 DEF Newest, OneMeaningPerId
<1> QED  BY <1>1, <1>2, <1>4, <1>5, <1>6, <1>7
-----------------------------------------------------------------------------
(* The invariant.                                                          *)

LEMMA InitInv == Init => IInv
<1> SUFFICES ASSUME Init PROVE IInv  OBVIOUS
<1>1. proposed \in Options /\ proposed.ip # None
  BY IpcpAssumption DEF Init, Options, Value
<1>2. up \in Seq(Frames) /\ Len(up) = 1 /\ up[1] = Frame("request", 1, proposed)
  BY <1>1 DEF Init, Frame, Frames, Codes
<1>3. Frame("request", 1, proposed).id = 1 /\ Frame("request", 1, proposed).opts = proposed
  BY DEF Frame
<1>4. Genuine  BY <1>2, <1>3 DEF Genuine, Init
<1>5. down \in Seq(Frames) /\ Len(down) = 0  BY DEF Init
<1>6. Honest  BY <1>5 DEF Honest
<1>7. Stamp(1, proposed) \in [id: Nat, opts: Options]
        /\ Stamp(1, proposed).id = 1 /\ Stamp(1, proposed).opts = proposed
  BY <1>1 DEF Stamp
<1>8. TypeOK
  <2>1. sent \subseteq [id: Nat, opts: Options] /\ acked \subseteq [id: Nat, opts: Options]
    BY <1>7 DEF Init
  <2>2. next \in 0..RestartTicks /\ left \in 0..TimeoutTicks /\ noise \in 0..MaxNoise
        /\ id \in Nat /\ retries \in Nat /\ sends \in Nat /\ idle \in Nat
    BY IpcpAssumption DEF Init
  <2>3. st \in {"negotiating", "opened", "failed"} /\ peerIP \in Value
    BY DEF Init, Value
  <2> QED  BY <1>1, <1>2, <1>5, <2>1, <2>2, <2>3 DEF TypeOK
<1>9. Newest /\ OneMeaningPerId  BY <1>7 DEF Init, Newest, OneMeaningPerId
<1>10. Budget /\ Timely /\ Agreement
  BY IpcpAssumption DEF Init, Budget, Timely, Agreement
<1> QED  BY <1>1, <1>4, <1>6, <1>8, <1>9, <1>10 DEF IInv, Init

\* A proposal adjusted by a Nak or a Reject is a proposal, and keeps an address.
LEMMA Adjusted ==
  ASSUME NEW p \in Options, NEW f \in Options, p.ip # None
  PROVE  /\ ApplyNak(p, f) \in Options /\ ApplyNak(p, f).ip # None
         /\ ApplyReject(p, f) \in Options /\ ApplyReject(p, f).ip # None
  BY ZenonT(40) DEF ApplyNak, ApplyReject, Options, Value

\* The client answers a frame with a frame, and no request.
LEMMA Reviewed ==
  ASSUME NEW f \in Frames
  PROVE  Review(f) \in Frames /\ Review(f).code # "request"
  BY DEF Review, Frame, Frames, Codes, Options, Value

LEMMA StepInv == IInv /\ [Next]_vars => IInv'
<1> SUFFICES ASSUME IInv, [Next]_vars PROVE IInv'  OBVIOUS
<1> USE IpcpAssumption DEF IInv
<1>1. CASE ReceiveRequest
  <2>1. Honest' /\ down' \in Seq(Frames) /\ Head(down) \in Frames
    BY <1>1, DownShrinks DEF ReceiveRequest, Receive, hist
  <2>2. Genuine' /\ up' \in Seq(Frames)
    BY <1>1, <2>1, Reviewed, UpGrows DEF ReceiveRequest, Incoming, hist
  <2>3. peerIP' \in Value
    BY <1>1, <2>1 DEF ReceiveRequest, Incoming, Frames, Options, TypeOK
  <2>4. UNCHANGED <<st, id, proposed, retries, next, left, noise, sent, acked, sends, idle>>
    BY <1>1 DEF ReceiveRequest, timers, hist
  <2> QED
    BY <2>1, <2>2, <2>3, <2>4 DEF TypeOK, Newest, OneMeaningPerId, Agreement, Budget, Timely
<1>2. CASE ReceiveAck
  <2>1. Honest' /\ down' \in Seq(Frames) /\ Head(down) \in Frames
        /\ (Head(down).code = "ack" => Stamp(Head(down).id, Head(down).opts) \in acked)
    BY <1>2, DownShrinks DEF ReceiveAck, Receive, hist
  <2>2. UNCHANGED <<id, proposed, retries, next, left, peerIP, up, noise, sent, acked, sends, idle>>
    BY <1>2 DEF ReceiveAck, timers, hist
  <2>3. Stamp(id, Head(down).opts) \in acked
    BY <1>2, <2>1 DEF ReceiveAck, Receive, Incoming
  <2>4. Stamp(id, Head(down).opts).id = id /\ Stamp(id, Head(down).opts).opts = Head(down).opts
    BY DEF Stamp
  <2>5. Head(down).opts = proposed  BY <2>3, <2>4 DEF Newest
  <2>6. Agreement'  BY <1>2, <2>2, <2>3, <2>5 DEF ReceiveAck, Agreement, Stamp
  <2>7. Genuine' /\ Newest' /\ OneMeaningPerId'
    BY <2>2 DEF Genuine, Newest, OneMeaningPerId
  <2>8. TypeOK' /\ Budget' /\ Timely'
    BY <1>2, <2>1, <2>2 DEF ReceiveAck, TypeOK, Budget, Timely
  <2> QED  BY <2>1, <2>2, <2>6, <2>7, <2>8
<1>3. CASE ReceiveFeedback
  <2>1. Honest' /\ down' \in Seq(Frames) /\ Head(down) \in Frames
    BY <1>3, DownShrinks DEF ReceiveFeedback, Receive
  <2>2. UNCHANGED <<left, peerIP, noise, acked>> /\ retries' = retries + 1
        /\ st = "negotiating"
    BY <1>3 DEF ReceiveFeedback, Retry, Receive
  <2>3. CASE retries' > MaxRetries
    <3>1. st' = "failed" /\ UNCHANGED <<id, proposed, up, next, sent, sends, idle>>
      BY <1>3, <2>3 DEF ReceiveFeedback, GiveUp
    <3> QED
      BY <2>1, <2>2, <3>1
      DEF TypeOK, Genuine, Newest, OneMeaningPerId, Agreement, Budget, Timely
  <2>4. CASE ~(retries' > MaxRetries)
    <3>1. /\ id' = id + 1 /\ SendRequest(id', proposed') /\ st' = st
          /\ proposed' \in {ApplyNak(proposed, Head(down).opts),
                            ApplyReject(proposed, Head(down).opts)}
      BY <1>3, <2>4 DEF ReceiveFeedback, Incoming
    <3>2. Head(down).opts \in Options /\ proposed \in Options /\ id \in Nat
      BY <2>1 DEF Frames, TypeOK
    <3>3. proposed' \in Options /\ proposed'.ip # None /\ id' \in Nat
      BY <3>1, <3>2, Adjusted
    <3>4. /\ Genuine' /\ up' \in Seq(Frames) /\ Newest' /\ OneMeaningPerId'
          /\ Stamp(id', proposed') \in sent' /\ sent \subseteq sent'
          /\ sent' \subseteq [id: Nat, opts: Options]
      BY <3>1, <3>3, SendKeeps
    <3>5. next' = RestartTicks /\ idle' = 0 /\ sends' = sends + 1
      BY <3>1 DEF SendRequest
    <3>6. TypeOK'  BY <2>1, <2>2, <3>1, <3>3, <3>4, <3>5 DEF TypeOK
    <3>7. Budget' /\ Timely' /\ Agreement'
      BY <2>2, <2>4, <3>1, <3>5 DEF Budget, Timely, Agreement, TypeOK
    <3> QED  BY <2>1, <2>2, <3>3, <3>4, <3>6, <3>7
  <2> QED  BY <2>3, <2>4
<1>4. CASE ReceiveOther
  <2>1. Honest' /\ down' \in Seq(Frames)
    BY <1>4, DownShrinks DEF ReceiveOther, Receive, hist
  <2>2. UNCHANGED <<st, id, proposed, retries, next, left, peerIP, up, noise, sent, acked, sends, idle>>
    BY <1>4 DEF ReceiveOther, client, timers, hist
  <2> QED
    BY <2>1, <2>2
    DEF TypeOK, Genuine, Newest, OneMeaningPerId, Agreement, Budget, Timely
<1>5. CASE Retransmit
  <2>1. UNCHANGED <<id, proposed, left, peerIP, down, noise, acked>>
        /\ retries' = retries + 1 /\ st = "negotiating"
    BY <1>5 DEF Retransmit, Retry
  <2>2. Honest'  BY <2>1 DEF Honest
  <2>3. CASE retries' > MaxRetries
    <3>1. st' = "failed" /\ UNCHANGED <<up, next, sent, sends, idle>>
      BY <1>5, <2>3 DEF Retransmit, GiveUp
    <3> QED
      BY <2>1, <2>2, <3>1
      DEF TypeOK, Genuine, Newest, OneMeaningPerId, Agreement, Budget, Timely
  <2>4. CASE ~(retries' > MaxRetries)
    <3>1. SendRequest(id, proposed) /\ st' = st
      BY <1>5, <2>4 DEF Retransmit
    <3>2. proposed \in Options /\ id \in Nat  BY DEF TypeOK
    <3>3. /\ Genuine' /\ up' \in Seq(Frames) /\ Newest' /\ OneMeaningPerId'
          /\ Stamp(id', proposed') \in sent' /\ sent \subseteq sent'
          /\ sent' \subseteq [id: Nat, opts: Options]
      BY <2>1, <3>1, <3>2, SendKeeps
    <3>4. next' = RestartTicks /\ idle' = 0 /\ sends' = sends + 1
      BY <3>1 DEF SendRequest
    <3>5. TypeOK'  BY <2>1, <3>1, <3>3, <3>4 DEF TypeOK
    <3>6. Budget' /\ Timely' /\ Agreement'
      BY <2>1, <2>4, <3>1, <3>4 DEF Budget, Timely, Agreement, TypeOK
    <3> QED  BY <2>1, <2>2, <3>3, <3>5, <3>6
  <2> QED  BY <2>3, <2>4
<1>6. CASE TimeOut
  <2>1. st' = "failed"
        /\ UNCHANGED <<id, proposed, retries, next, left, peerIP, up, down, noise, sent, acked, sends, idle>>
    BY <1>6 DEF TimeOut, timers, hist
  <2> QED
    BY <2>1
    DEF TypeOK, Genuine, Honest, Newest, OneMeaningPerId, Agreement, Budget, Timely
<1>13. CASE LinkFails
  <2>1. st' = "failed" /\ up' = << >> /\ down' = << >>
        /\ UNCHANGED <<id, proposed, retries, next, left, peerIP, noise, sent, acked, sends, idle>>
    BY <1>13 DEF LinkFails, timers, hist
  <2>2. up' \in Seq(Frames) /\ down' \in Seq(Frames) /\ Len(up') = 0 /\ Len(down') = 0
    BY <2>1
  <2>3. Genuine' /\ Honest'  BY <2>2 DEF Genuine, Honest
  <2>4. TypeOK'  BY <2>1, <2>2 DEF TypeOK
  <2>5. Newest' /\ OneMeaningPerId' /\ Agreement' /\ Budget' /\ Timely'
    BY <2>1 DEF Newest, OneMeaningPerId, Agreement, Budget, Timely
  <2> QED  BY <2>1, <2>3, <2>4, <2>5
<1>7. CASE Tick
  <2>1. /\ next > 0 /\ left > 0 /\ next' = next - 1 /\ left' = left - 1 /\ idle' = idle + 1
        /\ UNCHANGED <<st, id, proposed, retries, peerIP, up, down, noise, sent, acked, sends>>
    BY <1>7 DEF Tick
  <2> QED
    BY <2>1
    DEF TypeOK, Genuine, Honest, Newest, OneMeaningPerId, Agreement, Budget, Timely
<1>8. CASE GatewayReceive
  <2>1. UNCHANGED <<st, id, proposed, retries, next, left, peerIP, noise, sent, sends, idle>>
    BY <1>8 DEF GatewayReceive, client, timers
  <2>2. Genuine' /\ up' \in Seq(Frames) /\ Head(up) \in Frames
        /\ (Head(up).code = "request" => Stamp(Head(up).id, Head(up).opts) \in sent)
    BY <1>8, <2>1, UpShrinks DEF GatewayReceive
  <2> DEFINE i == Head(up).id
             o == Head(up).opts
  <2>3. i \in Nat /\ o \in Options /\ Stamp(i, o) \in [id: Nat, opts: Options]
    BY <2>2 DEF Frames, Stamp
  <2>4. Honest' /\ down' \in Seq(Frames) /\ acked' \subseteq sent /\ acked \subseteq acked'
        /\ acked' \subseteq [id: Nat, opts: Options]
    <3>1. CASE Head(up).code # "request"
      BY <1>8, <3>1 DEF GatewayReceive, Honest, TypeOK
    <3>2. CASE Head(up).code = "request" /\ down' = Append(down, Frame("ack", i, o))
                 /\ acked' = acked \cup {Stamp(i, o)}
      <4>1. Frame("ack", i, o) \in Frames /\ Frame("ack", i, o).id = i
            /\ Frame("ack", i, o).opts = o
        BY <2>3 DEF Frame, Frames, Codes
      <4>2. Honest' /\ down' \in Seq(Frames)
        BY <3>2, <4>1, DownGrows
      <4> QED  BY <2>2, <2>3, <3>2, <4>2 DEF TypeOK
    <3>3. CASE Head(up).code = "request" /\ acked' = acked
                 /\ \E c \in {"nak", "reject"}, p \in Feedbacks :
                      down' = Append(down, Frame(c, i, p))
      <4>1. PICK c \in {"nak", "reject"}, p \in Feedbacks :
                   down' = Append(down, Frame(c, i, p))
        BY <3>3
      <4>2. Frame(c, i, p) \in Frames /\ Frame(c, i, p).code # "ack"
        BY <2>3 DEF Frame, Frames, Codes
      <4>3. Honest' /\ down' \in Seq(Frames)
        BY <3>3, <4>1, <4>2, DownGrows
      <4> QED  BY <3>3, <4>3 DEF TypeOK
    <3> QED  BY <1>8, <3>1, <3>2, <3>3 DEF GatewayReceive, Answer
  <2>5. TypeOK'  BY <2>1, <2>2, <2>4 DEF TypeOK
  <2>6. Newest' /\ OneMeaningPerId' /\ Agreement' /\ Budget' /\ Timely'
    BY <2>1, <2>4 DEF Newest, OneMeaningPerId, Agreement, Budget, Timely
  <2> QED  BY <2>1, <2>2, <2>4, <2>5, <2>6
<1>9. CASE GatewaySends
  <2>1. /\ noise < MaxNoise /\ noise' = noise + 1
        /\ UNCHANGED <<st, id, proposed, retries, next, left, peerIP, up, sent, acked, sends, idle>>
    BY <1>9 DEF GatewaySends, client, timers, hist
  <2>2. noise \in Nat /\ NoOptions \in Options  BY DEF TypeOK, NoOptions, Options, Value
  <2>3. PICK f \in Frames : f.code # "ack" /\ down' = Append(down, f)
    <3>1. CASE \E o \in Requests : down' = Append(down, Frame("request", noise, o))
      <4>1. PICK o \in Requests : down' = Append(down, Frame("request", noise, o))
        BY <3>1
      <4>2. Frame("request", noise, o) \in Frames /\ Frame("request", noise, o).code # "ack"
        BY <2>2 DEF Frame, Frames, Codes
      <4> QED  BY <4>1, <4>2
    <3>2. CASE down' = Append(down, Frame("unknown", noise, NoOptions))
      <4>1. Frame("unknown", noise, NoOptions) \in Frames
            /\ Frame("unknown", noise, NoOptions).code # "ack"
        BY <2>2 DEF Frame, Frames, Codes
      <4> QED  BY <3>2, <4>1
    <3> QED  BY <1>9, <3>1, <3>2 DEF GatewaySends
  <2>4. Honest' /\ down' \in Seq(Frames)  BY <2>1, <2>3, DownGrows
  <2> QED
    BY <2>1, <2>4
    DEF TypeOK, Genuine, Newest, OneMeaningPerId, Agreement, Budget, Timely
<1>10. CASE LoseUp
  <2>1. UNCHANGED <<st, id, proposed, retries, next, left, peerIP, down, noise, sent, acked, sends, idle>>
    BY <1>10 DEF LoseUp, client, timers, hist
  <2>2. Genuine' /\ up' \in Seq(Frames)  BY <1>10, <2>1, UpShrinks DEF LoseUp
  <2> QED
    BY <2>1, <2>2 DEF TypeOK, Honest, Newest, OneMeaningPerId, Agreement, Budget, Timely
<1>11. CASE LoseDown
  <2>1. UNCHANGED <<st, id, proposed, retries, next, left, peerIP, up, noise, sent, acked, sends, idle>>
    BY <1>11 DEF LoseDown, client, timers, hist
  <2>2. Honest' /\ down' \in Seq(Frames)  BY <1>11, <2>1, DownShrinks DEF LoseDown
  <2> QED
    BY <2>1, <2>2 DEF TypeOK, Genuine, Newest, OneMeaningPerId, Agreement, Budget, Timely
<1>12. CASE UNCHANGED vars
  BY <1>12
  DEF vars, client, timers, hist, TypeOK, Genuine, Honest, Newest, OneMeaningPerId,
      Agreement, Budget, Timely
<1> QED
  BY <1>1, <1>2, <1>3, <1>4, <1>5, <1>6, <1>7, <1>8, <1>9, <1>10, <1>11, <1>12,
     <1>13
  DEF Next, ClientStep

LEMMA Inductive == Spec => []IInv
  BY InitInv, StepInv, PTL DEF Spec

-----------------------------------------------------------------------------
(* The results.                                                            *)

\* The variables of a negotiation keep their types, whatever the gateway sends.
THEOREM TypeCorrect == Spec => []TypeOK
<1>1. IInv => TypeOK  BY DEF IInv
<1> QED  BY <1>1, Inductive, PTL

\* No identifier ever stands for two option lists.
THEOREM Unambiguous == Spec => []OneMeaningPerId
<1>1. IInv => OneMeaningPerId  BY DEF IInv
<1> QED  BY <1>1, Inductive, PTL

\* An opened IPCP has the options the gateway acknowledged, with an address.
THEOREM Agreed == Spec => []Agreement
<1>1. IInv => Agreement  BY DEF IInv
<1> QED  BY <1>1, Inductive, PTL

\* The number of requests never exceeds the budget.
THEOREM WithinBudget == Spec => []RetryBudget
<1>1. IInv => RetryBudget  BY DEF IInv, Budget, RetryBudget
<1> QED  BY <1>1, Inductive, PTL

\* Unrelated traffic does not put the retransmission off.
THEOREM Persistent == Spec => []NotStarved
<1>1. IInv => NotStarved
  BY IpcpAssumption DEF IInv, Timely, NotStarved, TypeOK
<1> QED  BY <1>1, Inductive, PTL

\* Ipcp implements Grant: only ReceiveAck, ReceiveFeedback, Retransmit, TimeOut,
\* LinkFails and GatewayReceive are seen there, as Adopt, Fail and Grant.
THEOREM Refines == Spec => Implements
<1> DEFINE G == {r.opts : r \in acked}
           A == IF st = "opened" THEN proposed ELSE NoOptions
<1>1. Init => Abstract!Init
  BY DEF Init, Abstract!Init
<1>2. IInv /\ IInv' /\ [Next]_vars => [Abstract!Next]_(Abstract!grantVars)
  <2> SUFFICES ASSUME IInv, IInv', [Next]_vars
               PROVE  Abstract!Next \/ UNCHANGED Abstract!grantVars
    OBVIOUS
  <2>1. CASE acked' = acked /\ st' = st /\ (st = "opened" => proposed' = proposed)
    BY <2>1 DEF Abstract!grantVars
  <2>2. CASE acked' = acked /\ st = "negotiating" /\ st' = "failed"
    BY <2>2 DEF Abstract!Next, Abstract!Fail
  <2>3. CASE ReceiveAck
    <3>1. acked' = acked /\ st = "negotiating" /\ proposed' = proposed
      BY <2>3 DEF ReceiveAck, Receive, hist
    <3>2. CASE st' = "failed"  BY <2>2, <3>1, <3>2
    <3>3. CASE st' = "opened"
      <4>1. Stamp(id', proposed') \in acked' /\ proposed'.ip # Zero /\ proposed'.ip # None
        BY <3>3 DEF IInv, Agreement
      <4>2. Stamp(id', proposed').opts = proposed'  BY DEF Stamp
      <4>3. proposed' \in G /\ Usable(proposed')
        BY <3>1, <4>1, <4>2 DEF Usable
      <4> QED  BY <3>1, <3>3, <4>3 DEF Abstract!Next, Abstract!Adopt
    <3> QED  BY <2>3, <3>2, <3>3 DEF ReceiveAck
  <2>4. CASE GatewayReceive
    <3>1. UNCHANGED <<st, proposed>>  BY <2>4 DEF GatewayReceive, client
    <3>2. CASE acked' = acked  BY <2>1, <3>1, <3>2
    <3>3. CASE acked' # acked
      <4>1. acked' = acked \cup {Stamp(Head(up).id, Head(up).opts)}
        BY <2>4, <3>3 DEF GatewayReceive, Answer
      <4>2. Stamp(Head(up).id, Head(up).opts).opts = Head(up).opts  BY DEF Stamp
      <4>3. Stamp(Head(up).id, Head(up).opts) \in [id: Nat, opts: Options]
        BY <4>1 DEF IInv, TypeOK
      <4>4. Head(up).opts \in Options  BY <4>2, <4>3
      <4>5. G' = G \cup {Head(up).opts}  BY <4>1, <4>2
      <4> QED  BY <3>1, <4>4, <4>5 DEF Abstract!Next, Abstract!Grant
    <3> QED  BY <3>2, <3>3
  <2>5. CASE ReceiveFeedback
    <3>1. acked' = acked /\ st = "negotiating" /\ st' \in {st, "failed"}
      BY <2>5 DEF ReceiveFeedback, Receive, GiveUp
    <3> QED  BY <2>1, <2>2, <3>1
  <2>6. CASE Retransmit
    <3>1. acked' = acked /\ st = "negotiating" /\ st' \in {st, "failed"} /\ proposed' = proposed
      BY <2>6 DEF Retransmit, GiveUp
    <3> QED  BY <2>1, <2>2, <3>1
  <2>7. CASE TimeOut \/ LinkFails  BY <2>2, <2>7 DEF TimeOut, LinkFails, hist
  <2>8. CASE ReceiveRequest \/ ReceiveOther \/ Tick \/ GatewaySends \/ LoseUp \/ LoseDown
                 \/ UNCHANGED vars
    <3>1. UNCHANGED <<acked, st, proposed>>
      BY <2>8
      DEF ReceiveRequest, ReceiveOther, Tick, GatewaySends, LoseUp, LoseDown, vars, client, hist
    <3> QED  BY <2>1, <3>1
  <2> QED
    BY <2>3, <2>4, <2>5, <2>6, <2>7, <2>8 DEF Next, ClientStep
<1> QED  BY <1>1, <1>2, Inductive, PTL DEF Spec, Implements, Abstract!Spec
=============================================================================
