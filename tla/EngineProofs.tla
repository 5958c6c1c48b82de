---------------------------- MODULE EngineProofs ----------------------------
(***************************************************************************)
(* Types and bounds of the Windows engine, for channels of any capacity    *)
(* and any retry budget: no channel beyond its capacity, no request beyond *)
(* the budget, and an error channel that both pumps can always write to;   *)
(* and that once the pipe is closed no more than so many steps are left.   *)
(***************************************************************************)
EXTENDS Engine, SequenceTheorems, TLAPS

Plain ==
  /\ engine \in {"negotiate", "configure", "steady", "closeLink", "closePipe", "ended"}
  /\ ctx \in BOOLEAN /\ closer \in {"idle", "link", "session", "done"}
  /\ pipe \in {"open", "closed"} /\ linkClosed \in BOOLEAN /\ session \in {"open", "ended"}
  /\ reader \in {"read", "push", "done"} /\ demux \in {"recv", "push", "done"}
  /\ ipcp \in Outcome
  /\ toTun \in {"off", "recv", "done"} /\ toLink \in {"off", "run", "done"}

Chans    == {"in", "lcp", "ipcp"}
Channels == chan \in [Chans -> Seq(Frames)] /\ \A c \in Chans : Len(chan[c]) <= Cap
Hands    == hand \in [{"reader", "demux"} -> Frames]

\* The current request is paid for by retries, and a negotiation beyond its budget over.
Budget ==
  /\ lcp \in Outcome /\ id \in 1..MaxRetries + 1 /\ retries \in 0..MaxRetries + 1
  /\ id <= retries + 1
  /\ lcp = "running" => retries <= MaxRetries

\* errCh holds one error of each pump that has ended, and pumps are started once.
Errors ==
  /\ errs = (IF toTun = "done" THEN 1 ELSE 0) + (IF toLink = "done" THEN 1 ELSE 0)
  /\ engine \in {"negotiate", "configure"} => toTun = "off" /\ toLink = "off"

IInv == Plain /\ Channels /\ Hands /\ Budget /\ Errors

-----------------------------------------------------------------------------
LEMMA Puts ==
  ASSUME Channels, NEW c \in Chans, NEW f \in Frames, Put(c, f) PROVE Channels'
<1>1. /\ chan[c] \in Seq(Frames) /\ Len(chan[c]) < Cap /\ Len(chan[c]) \in Nat /\ Cap \in Nat
      /\ chan' = [chan EXCEPT ![c] = Append(chan[c], f)]
  BY EngineAssumption, LenProperties DEF Put, Channels
<1>2. Append(chan[c], f) \in Seq(Frames) /\ Len(Append(chan[c], f)) = Len(chan[c]) + 1
  BY <1>1, AppendProperties
<1>3. Len(chan[c]) + 1 <= Cap  BY <1>1
<1> QED  BY <1>1, <1>2, <1>3 DEF Channels

LEMMA Takes ==
  ASSUME Channels, NEW c \in Chans, Take(c)
  PROVE  Channels' /\ Head(chan[c]) \in Frames
<1>1. /\ chan[c] \in Seq(Frames) /\ chan[c] # << >> /\ Len(chan[c]) <= Cap
      /\ chan' = [chan EXCEPT ![c] = Tail(chan[c])]
  BY DEF Take, Channels
<1>2. /\ Head(chan[c]) \in Frames /\ Tail(chan[c]) \in Seq(Frames)
      /\ Len(Tail(chan[c])) = Len(chan[c]) - 1 /\ Len(chan[c]) \in Nat
  BY <1>1, HeadTailProperties, LenProperties
<1>3. Len(chan[c]) - 1 <= Cap  BY <1>1, <1>2, EngineAssumption
<1> QED  BY <1>1, <1>2, <1>3 DEF Channels

LEMMA Known == NoFrame \in Frames /\ Frames = LCP \cup IPCP \cup IPv4
BY DEF NoFrame, Frames, LCP

LEMMA Arriving == ASSUME Budget PROVE Incoming \subseteq Frames
<1>1. /\ 1..id \subseteq 1..MaxRetries + 1
  BY EngineAssumption DEF Budget
<1> QED  BY <1>1 DEF Incoming, Frames, LCP, IPCP, IPv4

-----------------------------------------------------------------------------
LEMMA LinkStep ==
  ASSUME IInv, FrameArrives \/ Reader \/ Demux PROVE IInv'
<1> USE DEF IInv, life, lcpVars, pumps, hist
<1>1. CASE FrameArrives
  <2>1. PICK f \in Incoming : hand' = [hand EXCEPT !["reader"] = f]
    BY <1>1 DEF FrameArrives
  <2>2. Hands'  BY <2>1, Arriving DEF Hands
  <2> QED  BY <1>1, <2>2 DEF FrameArrives, Plain, Channels, Budget, Errors
<1>2. CASE PushIn
  <2>1. Channels'  BY <1>2, Puts DEF PushIn, Hands, Chans
  <2>2. Hands'  BY <1>2, Known DEF PushIn, Hands
  <2> QED  BY <1>2, <2>1, <2>2 DEF PushIn, Plain, Budget, Errors
<1>3. CASE ReaderEnds \/ DemuxEnds
  BY <1>3 DEF ReaderEnds, DemuxEnds, Plain, Channels, Hands, Budget, Errors
<1>4. CASE DemuxRecv
  <2>1. Channels' /\ Head(chan["in"]) \in Frames  BY <1>4, Takes DEF DemuxRecv, Chans
  <2>2. hand' = [hand EXCEPT !["demux"] = Head(chan["in"])] \/ hand' = hand
    BY <1>4 DEF DemuxRecv
  <2>3. Hands'  BY <2>1, <2>2 DEF Hands
  <2>4. Plain'  BY <1>4 DEF DemuxRecv, Plain
  <2>5. Budget' /\ Errors'  BY <1>4 DEF DemuxRecv, Budget, Errors
  <2> QED  BY <2>1, <2>3, <2>4, <2>5
<1>5. CASE DemuxPush
  <2>1. Channels'
    <3>1. hand["demux"] \in Frames  BY DEF Hands
    <3>2. CASE hand["demux"] \in LCP
      BY <1>5, <3>1, <3>2, Puts DEF DemuxPush, Chans
    <3>3. CASE hand["demux"] \notin LCP
      BY <1>5, <3>1, <3>3, Puts DEF DemuxPush, Chans
    <3> QED  BY <3>2, <3>3
  <2>2. Hands'  BY <1>5, Known DEF DemuxPush, Hands
  <2> QED  BY <1>5, <2>1, <2>2 DEF DemuxPush, Plain, Budget, Errors
<1> QED  BY <1>1, <1>2, <1>3, <1>4, <1>5 DEF Reader, Demux

LEMMA NegotiationStep ==
  ASSUME IInv, LcpStep \/ LcpRetransmit \/ IpcpRecv \/ IpcpFails PROVE IInv'
<1> USE EngineAssumption DEF IInv, life, lcpVars, pumps, hist
<1>1. CASE LcpRecv
  <2>1. Channels'  BY <1>1, Takes DEF LcpRecv, Chans
  <2>2. Budget'
    <3> DEFINE nak == Head(chan["lcp"]) = [kind |-> "nak", n |-> id]
    <3>0. /\ lcp' \in Outcome
          /\ nak /\ retries = MaxRetries => lcp' # "running"
      <4> DEFINE ack == Head(chan["lcp"]) = [kind |-> "ack", n |-> id]
      <4>1. lcp' = CASE ack -> "opened"
                     [] nak /\ retries = MaxRetries -> "failed"
                     [] OTHER -> "running"
        BY <1>1 DEF LcpRecv
      <4>2. ~(ack /\ nak)  OBVIOUS
      <4> HIDE DEF ack, nak
      <4> QED  BY <4>1, <4>2 DEF Outcome
    <3>1. /\ lcp = "running"
          /\ retries' = IF nak THEN retries + 1 ELSE retries
          /\ id' = IF nak /\ retries < MaxRetries THEN id + 1 ELSE id
      BY <1>1 DEF LcpRecv
    <3> HIDE DEF nak
    <3>2. CASE nak  BY <3>0, <3>1, <3>2 DEF Budget
    <3>3. CASE ~nak  BY <3>0, <3>1, <3>3 DEF Budget
    <3> QED  BY <3>2, <3>3
  <2>3. UNCHANGED <<life, reader, demux, ipcp, pumps, hand, hist>>  BY <1>1 DEF LcpRecv
  <2>4. Plain' /\ Hands' /\ Errors'  BY <2>3 DEF Plain, Hands, Errors
  <2> QED  BY <2>1, <2>2, <2>4
<1>2. CASE LcpFails
  BY <1>2 DEF LcpFails, Plain, Channels, Hands, Budget, Errors, Outcome
<1>3. CASE LcpRetransmit
  <2>1. Budget'  BY <1>3 DEF LcpRetransmit, Budget, Outcome
  <2> QED  BY <1>3, <2>1 DEF LcpRetransmit, Plain, Channels, Hands, Errors
<1>4. CASE IpcpRecv
  <2>1. Channels'  BY <1>4, Takes DEF IpcpRecv, Chans
  <2> QED  BY <1>4, <2>1 DEF IpcpRecv, Plain, Hands, Budget, Errors
<1>5. CASE IpcpFails
  BY <1>5 DEF IpcpFails, Plain, Channels, Hands, Budget, Errors, Outcome
<1> QED  BY <1>1, <1>2, <1>3, <1>4, <1>5 DEF LcpStep

LEMMA RunStep ==
  ASSUME IInv, Run \/ InPump \/ PumpOutEnds \/ Close \/ Closer PROVE IInv'
<1> USE DEF IInv, life, lcpVars, pumps, hist
<1>1. CASE Run
  <2>1. UNCHANGED <<lcp, id, retries, ipcp, hand, chan, errs>>
    BY <1>1 DEF Run, Negotiated, ConfigureAdapter, SteadyEnds, CloseLink, ClosePipe, Goto
  <2>2. Channels' /\ Hands' /\ Budget'  BY <2>1 DEF Channels, Hands, Budget
  <2>3. CASE ConfigureAdapter
    <3>1. /\ engine = "configure" /\ errs = 0
          /\ UNCHANGED <<ctx, closer, pipe, linkClosed, session, reader, demux, errs>>
          /\ \/ engine' = "closeLink" /\ UNCHANGED <<toTun, toLink>>
             \/ engine' = "steady" /\ toTun' = "recv" /\ toLink' = "run"
      BY <2>3 DEF ConfigureAdapter, Goto, Errors
    <3>2. Plain'  BY <2>1, <3>1 DEF Plain
    <3>3. Errors'  BY <3>1 DEF Errors
    <3> QED  BY <2>2, <3>2, <3>3
  <2>4. CASE Negotiated \/ SteadyEnds \/ CloseLink \/ ClosePipe
    <3>1. /\ UNCHANGED <<ctx, closer, session, reader, demux, toTun, toLink>>
          /\ engine' \in {"configure", "closeLink", "closePipe", "ended"}
          /\ engine' = "configure" => engine = "negotiate"
          /\ pipe' \in {"open", "closed"} /\ linkClosed' \in BOOLEAN
      BY <2>4 DEF Negotiated, SteadyEnds, CloseLink, ClosePipe, Goto, Plain
    <3>2. Plain'  BY <2>1, <3>1 DEF Plain
    <3>3. Errors'  BY <2>1, <3>1 DEF Errors
    <3> QED  BY <2>2, <3>2, <3>3
  <2> QED  BY <1>1, <2>3, <2>4 DEF Run
<1>2. CASE PumpIn
  <2>1. Channels'  BY <1>2, Takes DEF PumpIn, Chans
  <2>2. Plain' /\ Errors'  BY <1>2 DEF PumpIn, Plain, Errors
  <2> QED  BY <1>2, <2>1, <2>2 DEF PumpIn, Hands, Budget
<1>3. CASE PumpInFails \/ PumpOutEnds
  BY <1>3 DEF PumpInFails, PumpOutEnds, Plain, Channels, Hands, Budget, Errors
<1>4. CASE Close \/ Closer
  <2>1. /\ Closed
        /\ ctx' \in BOOLEAN /\ closer' \in {"link", "session", "done"}
        /\ pipe' \in {"open", "closed"} /\ session' \in {"open", "ended"}
    BY <1>4 DEF Close, Closer, CloseConn, EndSession, Plain
  <2>2. Plain'  BY <2>1 DEF Closed, Plain
  <2>3. Channels' /\ Hands' /\ Budget' /\ Errors'
    BY <2>1 DEF Closed, Channels, Hands, Budget, Errors
  <2> QED  BY <2>2, <2>3
<1> QED  BY <1>1, <1>2, <1>3, <1>4 DEF InPump

LEMMA InitBounds == Init => IInv
<1> SUFFICES ASSUME Init PROVE IInv  OBVIOUS
<1> USE EngineAssumption DEF Init
<1>1. Channels
  <2>1. << >> \in Seq(Frames) /\ Len(<< >>) = 0  OBVIOUS
  <2> QED  BY <2>1 DEF Channels, Chans
<1>2. Hands  BY Known DEF Hands
<1>3. Plain  BY DEF Plain, Outcome
<1>4. Budget /\ Errors  BY DEF Budget, Errors, Outcome
<1> QED  BY <1>1, <1>2, <1>3, <1>4 DEF IInv

LEMMA NextBounds == IInv /\ [Next]_vars => IInv'
<1> SUFFICES ASSUME IInv, [Next]_vars PROVE IInv'  OBVIOUS
<1>1. CASE UNCHANGED vars
  BY <1>1 DEF vars, life, lcpVars, pumps, hist, IInv, Plain, Channels, Hands, Budget, Errors
<1> QED  BY <1>1, LinkStep, NegotiationStep, RunStep DEF Next

\* Whatever the gateway sends: no channel is ever beyond its capacity, LCP's requests
\* stay within the budget, and a pump that ends never waits to say so.
THEOREM Bounded == Spec => []TypeOK
<1>1. IInv => TypeOK
  <2> SUFFICES ASSUME IInv PROVE TypeOK  OBVIOUS
  <2> USE DEF IInv
  <2>1. errs \in 0..2  BY DEF Errors
  <2>2. \A c \in DOMAIN chan : Len(chan[c]) <= Cap
                               /\ \A i \in DOMAIN chan[c] : chan[c][i] \in Frames
    <3>1. ASSUME NEW c \in Chans, NEW i \in DOMAIN chan[c] PROVE chan[c][i] \in Frames
      <4>1. chan[c] \in Seq(Frames)  BY DEF Channels
      <4>2. i \in 1..Len(chan[c])  BY <4>1, <3>1, LenProperties
      <4> QED  BY <4>1, <4>2, ElementOfSeq
    <3> QED  BY <3>1 DEF Channels
  <2>3. \A r \in DOMAIN hand : hand[r] \in Frames  BY DEF Hands
  <2> QED  BY <2>1, <2>2, <2>3 DEF TypeOK, Plain, Budget
<1> QED  BY <1>1, InitBounds, NextBounds, PTL DEF Spec

-----------------------------------------------------------------------------
(* After Close                                                             *)

\* What a frame more makes of the channels ...
LEMMA PutLengths ==
  ASSUME Channels, NEW c \in Chans, NEW f \in Frames, Put(c, f)
  PROVE  /\ Len(chan'[c]) = Len(chan[c]) + 1
         /\ \A d \in Chans \ {c} : chan'[d] = chan[d]
<1>1. chan[c] \in Seq(Frames) /\ chan' = [chan EXCEPT ![c] = Append(chan[c], f)]
  BY DEF Put, Channels
<1>2. Len(Append(chan[c], f)) = Len(chan[c]) + 1  BY <1>1, AppendProperties
<1> QED  BY <1>1, <1>2 DEF Channels

\* ... or one less.
LEMMA TakeLengths ==
  ASSUME Channels, NEW c \in Chans, Take(c)
  PROVE  /\ Len(chan'[c]) = Len(chan[c]) - 1
         /\ \A d \in Chans \ {c} : chan'[d] = chan[d]
<1>1. chan[c] \in Seq(Frames) /\ chan[c] # << >> /\ chan' = [chan EXCEPT ![c] = Tail(chan[c])]
  BY DEF Take, Channels
<1>2. Len(Tail(chan[c])) = Len(chan[c]) - 1  BY <1>1, HeadTailProperties
<1> QED  BY <1>1, <1>2 DEF Channels

\* No channel is longer than its capacity.
LEMMA Lengths ==
  ASSUME Channels PROVE \A c \in Chans : Len(chan[c]) \in 0..Cap
<1> SUFFICES ASSUME NEW c \in Chans PROVE Len(chan[c]) \in 0..Cap
  OBVIOUS
<1>1. chan[c] \in Seq(Frames) /\ Len(chan[c]) <= Cap  BY DEF Channels
<1> QED  BY <1>1, EngineAssumption, LenProperties

\* What is left to do, in numbers.
Numbers == RunLeft \in 0..12 /\ LinkLeft \in 0..3 * Cap + 8 /\ TalkLeft \in 0..2 * Cap + MaxRetries + 3

\* These are the least and the most.
LEMMA Counted == IInv => Numbers
<1> SUFFICES ASSUME IInv PROVE Numbers  OBVIOUS
<1>1. RunLeft \in 0..12
  <2> DEFINE e == EngineLeft[engine]
             c == CloserLeft[closer]
             i == PumpLeft[toTun]
             o == PumpLeft[toLink]
  <2>1. e \in 0..7  BY DEF IInv, Plain, EngineLeft
  <2>2. c \in 0..3  BY DEF IInv, Plain, CloserLeft
  <2>3. i \in 0..1 /\ o \in 0..1  BY DEF IInv, Plain, PumpLeft
  <2>4. RunLeft = e + c + i + o  BY DEF RunLeft
  <2> HIDE DEF e, c, i, o
  <2> QED  BY <2>1, <2>2, <2>3, <2>4
<1>2. LinkLeft \in 0..3 * Cap + 8
  <2> DEFINE r == ReaderLeft[reader]
             d == DemuxLeft[demux]
             n == Len(chan["in"])
  <2>1. r \in 0..5  BY DEF IInv, Plain, ReaderLeft
  <2>2. d \in 0..3  BY DEF IInv, Plain, DemuxLeft
  <2>3. n \in 0..Cap  BY Lengths DEF IInv, Chans
  <2>4. LinkLeft = r + d + 3 * n  BY DEF LinkLeft
  <2> HIDE DEF r, d, n
  <2> QED  BY <2>1, <2>2, <2>3, <2>4, EngineAssumption
<1>3. TalkLeft \in 0..2 * Cap + MaxRetries + 3
  <2> DEFINE l == NegotiatorLeft[lcp]
             i == NegotiatorLeft[ipcp]
             m == Len(chan["lcp"])
             n == Len(chan["ipcp"])
  <2>1. l \in 0..1 /\ i \in 0..1  BY DEF IInv, Plain, Budget, Outcome, NegotiatorLeft
  <2>2. m \in 0..Cap /\ n \in 0..Cap  BY Lengths DEF IInv, Chans
  <2>3. retries \in 0..MaxRetries + 1  BY DEF IInv, Budget
  <2>4. TalkLeft = l + i + m + n + (MaxRetries + 1 - retries)  BY DEF TalkLeft
  <2> HIDE DEF l, i, m, n
  <2> QED  BY <2>1, <2>2, <2>3, <2>4, EngineAssumption
<1> QED  BY <1>1, <1>2, <1>3 DEF Numbers

\* What a step changes in each part adds up.
LEMMA Adds ==
  ASSUME IInv, IInv', NEW r \in Int, NEW l \in Int, NEW t \in Int, r + l + t < 0,
         RunLeft' = RunLeft + r, LinkLeft' = LinkLeft + l, TalkLeft' = TalkLeft + t
  PROVE  StepsLeft' < StepsLeft
<1>1. RunLeft \in Int /\ LinkLeft \in Int /\ TalkLeft \in Int  BY Counted, EngineAssumption DEF Numbers
<1>2. StepsLeft = RunLeft + LinkLeft + TalkLeft /\ StepsLeft' = RunLeft' + LinkLeft' + TalkLeft'
  BY DEF StepsLeft
<1> QED  BY <1>1, <1>2

\* Nothing of a part changes where none of its variables does.
LEMMA SameRun ==
  ASSUME IInv, UNCHANGED <<engine, closer, pumps>> PROVE RunLeft' = RunLeft + 0
<1>1. RunLeft' = RunLeft  BY DEF RunLeft, pumps
<1> QED  BY <1>1, Counted DEF Numbers

\* The same of the other parts.
LEMMA SameLink ==
  ASSUME IInv, UNCHANGED <<reader, demux>>, chan'["in"] = chan["in"] PROVE LinkLeft' = LinkLeft + 0
<1>1. LinkLeft' = LinkLeft  BY DEF LinkLeft
<1> QED  BY <1>1, Counted, EngineAssumption DEF Numbers

\* The same of the other parts.
LEMMA SameTalk ==
  ASSUME IInv, UNCHANGED <<lcpVars, ipcp>>, chan'["lcp"] = chan["lcp"], chan'["ipcp"] = chan["ipcp"]
  PROVE  TalkLeft' = TalkLeft + 0
<1>1. TalkLeft' = TalkLeft  BY DEF TalkLeft, lcpVars
<1> QED  BY <1>1, Counted, EngineAssumption DEF Numbers

\* The link's part, in numbers that leave out where they come from.
LEMMA LinkNumbers ==
  ASSUME IInv
  PROVE  /\ ReaderLeft[reader] \in 0..5 /\ DemuxLeft[demux] \in 0..3
         /\ Len(chan["in"]) \in Nat /\ Len(chan["lcp"]) \in Nat /\ Len(chan["ipcp"]) \in Nat
<1>1. ReaderLeft[reader] \in 0..5  BY DEF IInv, Plain, ReaderLeft
<1>2. DemuxLeft[demux] \in 0..3  BY DEF IInv, Plain, DemuxLeft
<1>3. \A c \in Chans : Len(chan[c]) \in Nat  BY Lengths, EngineAssumption DEF IInv
<1> QED  BY <1>1, <1>2, <1>3 DEF Chans

\* The reader and Demux, once no frame arrives.
LEMMA LinkWinds ==
  ASSUME IInv, IInv', pipe = "closed", FrameArrives \/ Reader \/ Demux
  PROVE  StepsLeft' < StepsLeft
<1> DEFINE d == DemuxLeft[demux]
           r == ReaderLeft[reader]
           n == Len(chan["in"])
<1>0. n \in Nat /\ d \in Nat /\ r \in Nat /\ LinkLeft = r + d + 3 * n
  BY LinkNumbers DEF LinkLeft
<1>1. CASE PushIn
  <2>0. hand["reader"] \in Frames  BY DEF IInv, Hands
  <2>1. /\ Len(chan'["in"]) = n + 1
        /\ chan'["lcp"] = chan["lcp"] /\ chan'["ipcp"] = chan["ipcp"]
    BY <1>1, <2>0, PutLengths DEF PushIn, IInv, Chans
  <2>2. reader = "push" /\ reader' = "read" /\ UNCHANGED <<engine, closer, demux, lcpVars, ipcp, pumps>>
    BY <1>1 DEF PushIn, life
  <2>3. r = 5 /\ LinkLeft' = 1 + d + 3 * (n + 1)  BY <2>1, <2>2 DEF LinkLeft, ReaderLeft
  <2>4. LinkLeft' = LinkLeft + (-1)
    <3> HIDE DEF d, n, r
    <3> QED  BY <1>0, <2>3
  <2> QED  BY <2>1, <2>2, <2>4, SameRun, SameTalk, Adds
<1>2. CASE ReaderEnds
  <2>1. reader \in {"read", "push"} /\ reader' = "done" /\ UNCHANGED <<engine, closer, demux, lcpVars, ipcp, pumps, chan>>
    BY <1>2 DEF ReaderEnds, life
  <2>2. r \in {1, 5} /\ LinkLeft' = 0 + d + 3 * n  BY <2>1 DEF LinkLeft, ReaderLeft
  <2>3. LinkLeft' = LinkLeft + (-r) /\ -r \in Int /\ 0 + (-r) + 0 < 0
    <3> HIDE DEF d, n, r
    <3> QED  BY <1>0, <2>2
  <2> HIDE DEF r
  <2> QED  BY <2>1, <2>3, SameRun, SameTalk, Adds
<1>3. CASE DemuxRecv
  <2>1. /\ Len(chan'["in"]) = n - 1
        /\ chan'["lcp"] = chan["lcp"] /\ chan'["ipcp"] = chan["ipcp"]
    BY <1>3, TakeLengths DEF DemuxRecv, IInv, Chans
  <2>2. demux = "recv" /\ demux' \in {"recv", "push"} /\ UNCHANGED <<engine, closer, reader, lcpVars, ipcp, pumps>>
    BY <1>3 DEF DemuxRecv, life
  <2> DEFINE e == DemuxLeft[demux']
  <2>3. d = 1 /\ e \in {1, 3} /\ LinkLeft' = r + e + 3 * (n - 1)  BY <2>1, <2>2 DEF LinkLeft, DemuxLeft
  <2>4. LinkLeft' = LinkLeft + (e - 4) /\ e - 4 \in Int /\ 0 + (e - 4) + 0 < 0
    <3> HIDE DEF d, n, r, e
    <3> QED  BY <1>0, <2>3
  <2> HIDE DEF e
  <2> QED  BY <2>1, <2>2, <2>4, SameRun, SameTalk, Adds
<1>4. CASE DemuxPush
  <2>1. UNCHANGED <<engine, closer, reader, lcpVars, ipcp, pumps>> /\ demux = "push" /\ demux' = "recv"
    BY <1>4 DEF DemuxPush, life
  <2>2. /\ chan'["in"] = chan["in"]
        /\ Len(chan'["lcp"]) + Len(chan'["ipcp"]) = Len(chan["lcp"]) + Len(chan["ipcp"]) + 1
    <3>1. hand["demux"] \in Frames  BY DEF IInv, Hands
    <3>2. PICK c \in {"lcp", "ipcp"} : Put(c, hand["demux"])  BY <1>4 DEF DemuxPush
    <3>3. Len(chan'[c]) = Len(chan[c]) + 1 /\ \A x \in Chans \ {c} : chan'[x] = chan[x]
      BY <3>1, <3>2, PutLengths DEF IInv, Chans
    <3>4. CASE c = "lcp"
      <4>1. /\ Len(chan'["lcp"]) = Len(chan["lcp"]) + 1
            /\ Len(chan'["ipcp"]) = Len(chan["ipcp"]) /\ chan'["in"] = chan["in"]
        BY <3>3, <3>4 DEF Chans
      <4> DEFINE l == Len(chan["lcp"])
                 i == Len(chan["ipcp"])
                 m == Len(chan'["lcp"])
                 j == Len(chan'["ipcp"])
      <4>2. l \in Nat /\ i \in Nat  BY LinkNumbers
      <4> HIDE DEF l, i, m, j
      <4>3. m = l + 1 /\ j = i  BY <4>1 DEF l, i, m, j
      <4>4. m + j = l + i + 1  BY <4>2, <4>3
      <4> QED  BY <4>1, <4>4 DEF l, i, m, j
    <3>5. CASE c = "ipcp"
      <4>1. /\ Len(chan'["ipcp"]) = Len(chan["ipcp"]) + 1
            /\ Len(chan'["lcp"]) = Len(chan["lcp"]) /\ chan'["in"] = chan["in"]
        BY <3>3, <3>5 DEF Chans
      <4> DEFINE l == Len(chan["lcp"])
                 i == Len(chan["ipcp"])
                 m == Len(chan'["lcp"])
                 j == Len(chan'["ipcp"])
      <4>2. l \in Nat /\ i \in Nat  BY LinkNumbers
      <4> HIDE DEF l, i, m, j
      <4>3. m = l /\ j = i + 1  BY <4>1 DEF l, i, m, j
      <4>4. m + j = l + i + 1  BY <4>2, <4>3
      <4> QED  BY <4>1, <4>4 DEF l, i, m, j
    <3> QED  BY <3>2, <3>4, <3>5
  <2>3. d = 3 /\ LinkLeft' = r + 1 + 3 * n  BY <2>1, <2>2 DEF LinkLeft, DemuxLeft
  <2>4. LinkLeft' = LinkLeft + (-2)
    <3> HIDE DEF d, n, r
    <3> QED  BY <1>0, <2>3
  <2>5. TalkLeft' = TalkLeft + 1
    <3> DEFINE a == NegotiatorLeft[lcp] + NegotiatorLeft[ipcp]
               b == MaxRetries + 1 - retries
               l == Len(chan["lcp"])
               i == Len(chan["ipcp"])
               m == Len(chan'["lcp"])
               j == Len(chan'["ipcp"])
    <3>1. TalkLeft = a + l + i + b /\ TalkLeft' = a + m + j + b  BY <2>1 DEF TalkLeft, lcpVars
    <3>2. a \in Int /\ b \in Int /\ l \in Nat /\ i \in Nat
      BY LinkNumbers, EngineAssumption DEF IInv, Plain, Budget, Outcome, NegotiatorLeft
    <3>3. Numbers'  BY Counted, PTL
    <3>4. m \in Nat /\ j \in Nat
      <4>1. chan' \in [Chans -> Seq(Frames)]  BY DEF IInv, Channels
      <4> QED  BY <4>1, LenProperties DEF Chans
    <3>5. m + j = l + i + 1  BY <2>2
    <3> HIDE DEF a, b, l, i, m, j
    <3> QED  BY <3>1, <3>2, <3>4, <3>5
  <2> QED  BY <2>1, <2>4, <2>5, SameRun, Adds
<1>5. CASE DemuxEnds
  <2>1. demux \in {"recv", "push"} /\ demux' = "done" /\ UNCHANGED <<engine, closer, reader, lcpVars, ipcp, pumps, chan>>
    BY <1>5 DEF DemuxEnds, life
  <2>2. d \in {1, 3} /\ LinkLeft' = r + 0 + 3 * n  BY <2>1 DEF LinkLeft, DemuxLeft
  <2>3. LinkLeft' = LinkLeft + (-d) /\ -d \in Int /\ 0 + (-d) + 0 < 0
    <3> HIDE DEF d, n, r
    <3> QED  BY <1>0, <2>2
  <2> HIDE DEF d
  <2> QED  BY <2>1, <2>3, SameRun, SameTalk, Adds
<1>6. ~FrameArrives  BY DEF FrameArrives
<1> QED  BY <1>1, <1>2, <1>3, <1>4, <1>5, <1>6 DEF Reader, Demux

\* NegotiateLCP and NegotiateIPCP.
LEMMA TalkWinds ==
  ASSUME IInv, IInv', LcpStep \/ LcpRetransmit \/ IpcpRecv \/ IpcpFails
  PROVE  StepsLeft' < StepsLeft
<1> DEFINE a == NegotiatorLeft[lcp]
           b == NegotiatorLeft[ipcp]
           c == NegotiatorLeft[lcp']
           e == NegotiatorLeft[ipcp']
           l == Len(chan["lcp"])
           i == Len(chan["ipcp"])
           r == MaxRetries + 1 - retries
           s == MaxRetries + 1 - retries'
<1>0. /\ a \in 0..1 /\ b \in 0..1 /\ c \in 0..1 /\ e \in 0..1
      /\ l \in Nat /\ i \in Nat /\ r \in Int /\ s \in Int
      /\ TalkLeft = a + b + l + i + r
  BY LinkNumbers, EngineAssumption DEF IInv, Plain, Budget, Outcome, NegotiatorLeft, TalkLeft
<1>1. CASE LcpRecv
  <2>1. /\ lcp = "running" /\ s <= r /\ UNCHANGED <<engine, closer, reader, demux, ipcp, pumps>>
    <3>1. retries' \in {retries, retries + 1}  BY <1>1 DEF LcpRecv
    <3>2. retries \in Int  BY DEF IInv, Budget
    <3> QED  BY <1>1, <3>1, <3>2, EngineAssumption DEF LcpRecv, life
  <2>2. Len(chan'["lcp"]) = l - 1 /\ chan'["in"] = chan["in"] /\ chan'["ipcp"] = chan["ipcp"]
    BY <1>1, TakeLengths DEF LcpRecv, IInv, Chans
  <2>3. a = 1 /\ TalkLeft' = c + b + (l - 1) + i + s  BY <2>1, <2>2 DEF TalkLeft, NegotiatorLeft
  <2> DEFINE x == c - a - 1 + (s - r)
  <2>4. TalkLeft' = TalkLeft + x /\ x \in Int /\ 0 + 0 + x < 0
    <3> HIDE DEF a, b, c, e, l, i, r, s
    <3> QED  BY <1>0, <2>1, <2>3
  <2> HIDE DEF x
  <2> QED  BY <2>1, <2>2, <2>4, SameRun, SameLink, Adds
<1>2. CASE LcpRetransmit \/ LcpFails
  <2>1. UNCHANGED <<engine, closer, reader, demux, ipcp, pumps, chan>> /\ lcp = "running"
    BY <1>2 DEF LcpRetransmit, LcpFails, life
  <2>2. c + s < a + r
    <3>1. a = 1  BY <2>1 DEF NegotiatorLeft
    <3>2. CASE LcpRetransmit
      <4>1. s = r - 1  BY <3>2, EngineAssumption DEF LcpRetransmit, IInv, Budget
      <4> HIDE DEF a, c, r, s
      <4> QED  BY <1>0, <3>1, <4>1
    <3>3. CASE LcpFails
      <4>1. s = r /\ c = 0  BY <3>3 DEF LcpFails, NegotiatorLeft
      <4> HIDE DEF a, c, r, s
      <4> QED  BY <1>0, <3>1, <4>1
    <3> QED  BY <1>2, <3>2, <3>3
  <2>3. TalkLeft' = c + b + l + i + s  BY <2>1 DEF TalkLeft
  <2> DEFINE x == (c + s) - (a + r)
  <2>4. TalkLeft' = TalkLeft + x /\ x \in Int /\ 0 + 0 + x < 0
    <3> HIDE DEF a, b, c, e, l, i, r, s
    <3> QED  BY <1>0, <2>2, <2>3
  <2> HIDE DEF x
  <2> QED  BY <2>1, <2>4, SameRun, SameLink, Adds
<1>3. CASE IpcpRecv
  <2>1. ipcp = "running" /\ UNCHANGED <<engine, closer, reader, demux, lcp, retries, pumps>>
    BY <1>3 DEF IpcpRecv, life, lcpVars
  <2>2. Len(chan'["ipcp"]) = i - 1 /\ chan'["in"] = chan["in"] /\ chan'["lcp"] = chan["lcp"]
    BY <1>3, TakeLengths DEF IpcpRecv, IInv, Chans
  <2>3. b = 1 /\ TalkLeft' = a + e + l + (i - 1) + r  BY <2>1, <2>2 DEF TalkLeft, NegotiatorLeft
  <2> DEFINE x == e - b - 1
  <2>4. TalkLeft' = TalkLeft + x /\ x \in Int /\ 0 + 0 + x < 0
    <3> HIDE DEF a, b, c, e, l, i, r, s
    <3> QED  BY <1>0, <2>3
  <2> HIDE DEF x
  <2> QED  BY <2>1, <2>2, <2>4, SameRun, SameLink, Adds
<1>4. CASE IpcpFails
  <2>1. ipcp = "running" /\ ipcp' = "failed" /\ UNCHANGED <<engine, closer, reader, demux, lcp, retries, pumps, chan>>
    BY <1>4 DEF IpcpFails, life, lcpVars
  <2>2. b = 1 /\ TalkLeft' = a + 0 + l + i + r  BY <2>1 DEF TalkLeft, NegotiatorLeft
  <2>3. TalkLeft' = TalkLeft + (-1)
    <3> HIDE DEF a, b, c, e, l, i, r, s
    <3> QED  BY <1>0, <2>2
  <2> QED  BY <2>1, <2>3, SameRun, SameLink, Adds
<1> QED  BY <1>1, <1>2, <1>3, <1>4 DEF LcpStep

\* run, the pumps and Close.
LEMMA RunWinds ==
  ASSUME IInv, IInv', Run \/ InPump \/ PumpOutEnds \/ Close \/ Closer
  PROVE  StepsLeft' < StepsLeft
<1> DEFINE e == EngineLeft[engine]
           c == CloserLeft[closer]
           i == PumpLeft[toTun]
           o == PumpLeft[toLink]
           n == Len(chan["in"])
           l == ReaderLeft[reader] + DemuxLeft[demux]
<1>0. /\ e \in 0..7 /\ c \in 0..3 /\ i \in 0..1 /\ o \in 0..1 /\ n \in Nat /\ l \in Nat
      /\ RunLeft = e + c + i + o /\ LinkLeft = l + 3 * n
  <2>1. e \in 0..7  BY DEF IInv, Plain, EngineLeft
  <2>2. c \in 0..3  BY DEF IInv, Plain, CloserLeft
  <2>3. i \in 0..1 /\ o \in 0..1  BY DEF IInv, Plain, PumpLeft
  <2>4. n \in Nat /\ l \in Nat  BY LinkNumbers
  <2>5. RunLeft = e + c + i + o /\ LinkLeft = l + 3 * n  BY DEF RunLeft, LinkLeft
  <2> QED  BY <2>1, <2>2, <2>3, <2>4, <2>5
<1>1. CASE Run
  <2> DEFINE f == EngineLeft[engine']
             j == PumpLeft[toTun']
             p == PumpLeft[toLink']
  <2>1. UNCHANGED <<closer, reader, demux, lcpVars, ipcp, chan>>
    BY <1>1 DEF Run, Negotiated, ConfigureAdapter, SteadyEnds, CloseLink, ClosePipe, Goto
  <2>2. RunLeft' = f + c + j + p  BY <2>1 DEF RunLeft
  <2>3. f \in Int /\ j \in Int /\ p \in Int /\ f + j + p < e + i + o
    <3>1. CASE ConfigureAdapter
      <4>1. /\ engine = "configure" /\ toTun = "off" /\ toLink = "off"
            /\ \/ engine' = "closeLink" /\ UNCHANGED <<toTun, toLink>>
               \/ engine' = "steady" /\ toTun' = "recv" /\ toLink' = "run"
        BY <3>1 DEF ConfigureAdapter, Goto, IInv, Errors, pumps
      <4>2. e = 6 /\ i = 0 /\ o = 0  BY <4>1 DEF EngineLeft, PumpLeft
      <4>3. \/ f = 2 /\ j = 0 /\ p = 0
            \/ f = 3 /\ j = 1 /\ p = 1
        BY <4>1 DEF EngineLeft, PumpLeft
      <4> HIDE DEF e, i, o, f, j, p
      <4> QED  BY <4>2, <4>3
    <3>2. CASE ~ConfigureAdapter
      <4>1. /\ UNCHANGED <<toTun, toLink>>
            /\ \/ engine = "negotiate" /\ engine' \in {"configure", "closeLink"}
               \/ engine = "steady" /\ engine' = "closeLink"
               \/ engine = "closeLink" /\ engine' = "closePipe"
               \/ engine = "closePipe" /\ engine' = "ended"
        BY <1>1, <3>2 DEF Run, Negotiated, SteadyEnds, CloseLink, ClosePipe, Goto, pumps
      <4>2. f \in Int /\ f < e /\ j = i /\ p = o  BY <4>1 DEF EngineLeft
      <4> HIDE DEF e, i, o, f, j, p
      <4> QED  BY <1>0, <4>2
    <3> QED  BY <3>1, <3>2
  <2> DEFINE x == (f + j + p) - (e + i + o)
  <2>4. RunLeft' = RunLeft + x /\ x \in Int /\ x + 0 + 0 < 0
    <3> HIDE DEF e, c, i, o, n, l, f, j, p
    <3> QED  BY <1>0, <2>2, <2>3
  <2> HIDE DEF x
  <2> QED  BY <2>1, <2>4, SameLink, SameTalk, Adds
<1>2. CASE PumpIn
  <2>1. UNCHANGED <<engine, closer, toLink, reader, demux, lcpVars, ipcp>> /\ toTun = "recv" /\ toTun' \in {"recv", "done"}
    BY <1>2 DEF PumpIn
  <2>2. Len(chan'["in"]) = n - 1 /\ chan'["lcp"] = chan["lcp"] /\ chan'["ipcp"] = chan["ipcp"]
    BY <1>2, TakeLengths DEF PumpIn, IInv, Chans
  <2> DEFINE j == PumpLeft[toTun']
  <2>3. i = 1 /\ j \in 0..1 /\ RunLeft' = e + c + j + o /\ LinkLeft' = l + 3 * (n - 1)
    BY <2>1, <2>2 DEF PumpLeft, RunLeft, LinkLeft
  <2> DEFINE x == j - i
  <2>4. RunLeft' = RunLeft + x /\ LinkLeft' = LinkLeft + (-3) /\ x \in Int /\ x + (-3) + 0 < 0
    <3> HIDE DEF e, c, i, o, n, l, j
    <3> QED  BY <1>0, <2>3
  <2> HIDE DEF x
  <2> QED  BY <2>1, <2>2, <2>4, SameTalk, Adds
<1>3. CASE PumpInFails \/ PumpOutEnds
  <2>1. UNCHANGED <<engine, closer, reader, demux, lcpVars, ipcp, chan>>
    BY <1>3 DEF PumpInFails, PumpOutEnds
  <2>2. \/ toTun = "recv" /\ toTun' = "done" /\ UNCHANGED toLink
        \/ toLink = "run" /\ toLink' = "done" /\ UNCHANGED toTun
    BY <1>3 DEF PumpInFails, PumpOutEnds
  <2>3. \/ i = 1 /\ RunLeft' = e + c + 0 + o
        \/ o = 1 /\ RunLeft' = e + c + i + 0
    BY <2>1, <2>2 DEF PumpLeft, RunLeft
  <2>4. RunLeft' = RunLeft + (-1)
    <3> HIDE DEF e, c, i, o, n, l
    <3> QED  BY <1>0, <2>3
  <2> QED  BY <2>1, <2>4, SameLink, SameTalk, Adds
<1>4. CASE Close \/ Closer
  <2>1. /\ UNCHANGED <<engine, pumps, reader, demux, lcpVars, ipcp, chan>>
        /\ \/ closer = "idle" /\ closer' = "link"
           \/ closer = "link" /\ closer' = "session"
           \/ closer = "session" /\ closer' = "done"
    BY <1>4 DEF Close, Closer, CloseConn, EndSession, Closed
  <2>2. RunLeft' = e + (c - 1) + i + o  BY <2>1 DEF CloserLeft, RunLeft, pumps
  <2>3. RunLeft' = RunLeft + (-1)
    <3> HIDE DEF e, c, i, o, n, l
    <3> QED  BY <1>0, <2>2
  <2> QED  BY <2>1, <2>3, SameLink, SameTalk, Adds
<1> QED  BY <1>1, <1>2, <1>3, <1>4 DEF InPump

\* Once the pipe is closed, every step of any goroutine leaves less to do: the engine has no
\* cycle left in which frames, retries and errors could keep it.
THEOREM Winds == Spec => WindsDown
<1>1. IInv /\ IInv' /\ [Next]_vars => [pipe = "closed" => StepsLeft' < StepsLeft]_vars
  <2> SUFFICES ASSUME IInv, IInv', Next, pipe = "closed", ~UNCHANGED vars
               PROVE  StepsLeft' < StepsLeft
    OBVIOUS
  <2> QED  BY LinkWinds, TalkWinds, RunWinds DEF Next
<1> QED  BY <1>1, InitBounds, NextBounds, PTL DEF Spec, WindsDown

\* So no more than these steps are left when it closes, whatever is in the channels.
THEOREM StepsBounded == Spec => [](StepsLeft \in 0..5 * Cap + MaxRetries + 23)
<1>1. IInv => StepsLeft \in 0..5 * Cap + MaxRetries + 23
  <2> SUFFICES ASSUME IInv PROVE StepsLeft \in 0..5 * Cap + MaxRetries + 23
    OBVIOUS
  <2>1. Numbers  BY Counted
  <2> QED  BY <2>1, EngineAssumption DEF Numbers, StepsLeft
<1> QED  BY <1>1, InitBounds, NextBounds, PTL DEF Spec
=============================================================================
