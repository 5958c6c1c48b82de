------------------------------- MODULE Engine -------------------------------
(***************************************************************************)
(* The PPP engine of Windows (internal/ppp/tun_windows.go): one goroutine  *)
(* reads the link, Demux shares its packets out to NegotiateLCP and        *)
(* NegotiateIPCP, which run side by side, and when both have succeeded two *)
(* pumps relay IPv4 between the link and the wintun adapter.  Negotiation  *)
(* of IPCP option by option is module Ipcp's; here it ends one way or the  *)
(* other.  Retransmission timers fire at any time, within their budget.    *)
(***************************************************************************)
EXTENDS Integers, Sequences

CONSTANTS
  Cap,          \* capacity of wireLink.in and of Demux's channels (64)
  MaxRetries,   \* maxConfigureRetries (20)
  MaxFrames     \* bound on the frames the gateway sends

ASSUME EngineAssumption == Cap \in Nat \ {0} /\ MaxRetries \in Nat /\ MaxFrames \in Nat

\* An "ack" or "nak" (or Reject) answers LCP's request of the number it carries,
\* "lcp" is any other LCP packet, which is answered and forgotten.
LCP     == [kind: {"ack", "nak"}, n: 1..MaxRetries + 1] \cup [kind: {"lcp", "terminate"}, n: {0}]
IPCP    == [kind: {"ipcp"}, n: {0}]
IPv4    == [kind: {"ipv4"}, n: {0}]
Frames  == LCP \cup IPCP \cup IPv4
Outcome == {"running", "opened", "failed"}

VARIABLES
  engine,     \* run: negotiate, configure, steady, closeLink, closePipe, ended
  ctx,        \* the engine's context is cancelled
  closer,     \* Process.Close: idle, link, session, done
  pipe,       \* the pipe to RunLoop: open, closed
  linkClosed, \* wireLink.closed
  session,    \* the wintun session: open, ended
  reader,     \* readLoop: read, push, done
  demux,      \* Demux.run: recv, push, done
  lcp, ipcp,  \* the outcome of each negotiation
  id,         \* LCP's current identifier
  retries,    \* LCP's retries
  toTun,      \* pumpLinkToTun: off, recv, done
  toLink,     \* pumpTunToLink: off, run, done
  errs,       \* errors queued in relaySteadyState's errCh
  hand,       \* the frame the reader and Demux each hold
  chan,       \* wireLink.in, Demux.lcp, Demux.ipcp
  \* history
  count,      \* frames the gateway has sent
  stolen      \* Demux has taken an IPv4 frame after the negotiation

life    == <<engine, ctx, closer, pipe, linkClosed, session, errs>>
lcpVars == <<lcp, id, retries>>
pumps   == <<toTun, toLink>>
hist    == <<count, stolen>>
vars    == <<life, reader, demux, lcpVars, ipcp, pumps, hand, chan, hist>>

NoFrame == [kind |-> "lcp", n |-> 0]

Init ==
  /\ engine = "negotiate" /\ ctx = FALSE /\ closer = "idle"
  /\ pipe = "open" /\ linkClosed = FALSE /\ session = "open"
  /\ reader = "read" /\ demux = "recv" /\ lcp = "running" /\ ipcp = "running"
  /\ id = 1 /\ retries = 0 /\ toTun = "off" /\ toLink = "off" /\ errs = 0
  /\ hand = [r \in {"reader", "demux"} |-> NoFrame]
  /\ chan = [c \in {"in", "lcp", "ipcp"} |-> << >>]
  /\ count = 0 /\ stolen = FALSE

Put(c, f) == Len(chan[c]) < Cap /\ chan' = [chan EXCEPT ![c] = Append(@, f)]
Take(c)   == chan[c] # << >> /\ chan' = [chan EXCEPT ![c] = Tail(@)]

-----------------------------------------------------------------------------
(* wireLink.readLoop: whatever RunLoop writes to the pipe.                 *)

Incoming == [kind: {"ack", "nak"}, n: 1..id] \cup [kind: {"lcp", "terminate", "ipcp", "ipv4"}, n: {0}]

\* Mutant of FrameArrives: the reader goes on with frames of a pipe that is closed.
ArriveUnread ==
  /\ reader = "read" /\ count < MaxFrames
  /\ \E f \in Incoming : hand' = [hand EXCEPT !["reader"] = f]
  /\ count' = count + 1 /\ reader' = "push"
  /\ UNCHANGED <<life, demux, lcpVars, ipcp, pumps, chan, stolen>>

FrameArrives ==
  /\ reader = "read" /\ pipe = "open" /\ count < MaxFrames
  /\ \E f \in Incoming : hand' = [hand EXCEPT !["reader"] = f]
  /\ count' = count + 1 /\ reader' = "push"
  /\ UNCHANGED <<life, demux, lcpVars, ipcp, pumps, chan, stolen>>

PushIn ==
  /\ reader = "push" /\ Put("in", hand["reader"])
  /\ reader' = "read" /\ hand' = [hand EXCEPT !["reader"] = NoFrame]
  /\ UNCHANGED <<life, demux, lcpVars, ipcp, pumps, hist>>

ReaderEnds ==
  /\ \/ reader = "read" /\ pipe = "closed"
     \/ reader = "push" /\ linkClosed
  /\ reader' = "done"
  /\ UNCHANGED <<life, demux, lcpVars, ipcp, pumps, hand, chan, hist>>

\* wireLink.Recv fails when its channel is drained and closed, or with the context.
RecvFails == (chan["in"] = << >> /\ reader = "done") \/ ctx

-----------------------------------------------------------------------------
(* Demux                                                                   *)

DemuxRecv ==
  /\ demux = "recv" /\ Take("in")
  /\ LET f == Head(chan["in"])
     IN /\ IF f \in LCP \cup IPCP
           THEN hand' = [hand EXCEPT !["demux"] = f] /\ demux' = "push"
           ELSE UNCHANGED <<hand, demux>>
        /\ stolen' = (stolen \/ (f \in IPv4 /\ engine = "steady"))
  /\ UNCHANGED <<life, reader, lcpVars, ipcp, pumps, count>>

DemuxPush ==
  /\ demux = "push"
  /\ Put(IF hand["demux"] \in LCP THEN "lcp" ELSE "ipcp", hand["demux"])
  /\ demux' = "recv" /\ hand' = [hand EXCEPT !["demux"] = NoFrame]
  /\ UNCHANGED <<life, reader, lcpVars, ipcp, pumps, hist>>

\* Mutant of DemuxEnds: Demux pushes without a look at the context.
DemuxEndsAtRecv ==
  /\ demux = "recv" /\ RecvFails
  /\ demux' = "done"
  /\ UNCHANGED <<life, reader, lcpVars, ipcp, pumps, hand, chan, hist>>

DemuxEnds ==
  /\ (demux = "recv" /\ RecvFails) \/ (demux = "push" /\ ctx)
  /\ demux' = "done"
  /\ UNCHANGED <<life, reader, lcpVars, ipcp, pumps, hand, chan, hist>>

-----------------------------------------------------------------------------
(* NegotiateLCP and NegotiateIPCP                                          *)

LcpRecv ==
  /\ lcp = "running" /\ Take("lcp")
  /\ LET f == Head(chan["lcp"])
         nak == f = [kind |-> "nak", n |-> id]
     IN /\ lcp' = CASE f = [kind |-> "ack", n |-> id] -> "opened"
                    [] nak /\ retries = MaxRetries    -> "failed"
                    [] OTHER                          -> "running"
        /\ retries' = IF nak THEN retries + 1 ELSE retries
        /\ id' = IF nak /\ retries < MaxRetries THEN id + 1 ELSE id
  /\ UNCHANGED <<life, reader, demux, ipcp, pumps, hand, hist>>

\* Mutant of LcpRetransmit: a retry is not counted.
RetransmitUncounted == lcp = "running" /\ UNCHANGED vars

\* Mutant of LcpRetransmit: the budget is never checked.
RetransmitUnbounded ==
  /\ lcp = "running" /\ retries' = retries + 1
  /\ UNCHANGED <<life, lcp, id, reader, demux, ipcp, pumps, hand, chan, hist>>

\* retransmitter.recv: the restart interval is over.
LcpRetransmit ==
  /\ lcp = "running"
  /\ retries' = retries + 1
  /\ lcp' = IF retries' > MaxRetries THEN "failed" ELSE "running"
  /\ UNCHANGED <<life, id, reader, demux, ipcp, pumps, hand, chan, hist>>

\* The link fails, a write fails, the context ends.
LcpFails ==
  /\ lcp = "running"
  /\ (demux = "done" /\ chan["lcp"] = << >>) \/ ctx \/ pipe = "closed"
  /\ lcp' = "failed"
  /\ UNCHANGED <<life, id, retries, reader, demux, ipcp, pumps, hand, chan, hist>>

IpcpRecv ==
  /\ ipcp = "running" /\ Take("ipcp")
  /\ ipcp' \in Outcome
  /\ UNCHANGED <<life, lcpVars, reader, demux, pumps, hand, hist>>

IpcpFails ==
  /\ ipcp = "running"
  /\ ipcp' = "failed"
  /\ UNCHANGED <<life, lcpVars, reader, demux, pumps, hand, chan, hist>>

-----------------------------------------------------------------------------
(* run                                                                     *)

Goto(p) == engine' = p /\ UNCHANGED <<ctx, closer, pipe, linkClosed, session, errs>>

Negotiated ==
  /\ engine = "negotiate" /\ lcp # "running" /\ ipcp # "running"
  /\ Goto(IF lcp = "opened" /\ ipcp = "opened" THEN "configure" ELSE "closeLink")
  /\ UNCHANGED <<reader, demux, lcpVars, ipcp, pumps, hand, chan, hist>>

\* netsh
ConfigureAdapter ==
  /\ engine = "configure"
  /\ \/ Goto("closeLink") /\ UNCHANGED pumps
     \/ Goto("steady") /\ toTun' = "recv" /\ toLink' = "run"
  /\ UNCHANGED <<reader, demux, lcpVars, ipcp, hand, chan, hist>>

SteadyEnds ==
  /\ engine = "steady" /\ (ctx \/ errs > 0)
  /\ Goto("closeLink")
  /\ UNCHANGED <<reader, demux, lcpVars, ipcp, pumps, hand, chan, hist>>

\* The deferred calls: link.close, engineSide.Close, close(done).
CloseLink ==
  /\ engine = "closeLink"
  /\ engine' = "closePipe" /\ linkClosed' = TRUE
  /\ UNCHANGED <<ctx, closer, pipe, session, errs, reader, demux, lcpVars, ipcp,
                 pumps, hand, chan, hist>>

ClosePipe ==
  /\ engine = "closePipe"
  /\ engine' = "ended" /\ pipe' = "closed"
  /\ UNCHANGED <<ctx, closer, linkClosed, session, errs, reader, demux, lcpVars,
                 ipcp, pumps, hand, chan, hist>>

-----------------------------------------------------------------------------
(* relaySteadyState                                                        *)

\* An IPv4 packet is injected into wintun, a Terminate-Request ends the engine.
PumpIn ==
  /\ toTun = "recv" /\ Take("in")
  /\ IF Head(chan["in"]).kind = "terminate" THEN toTun' = "done" /\ errs' = errs + 1
                                            ELSE UNCHANGED <<toTun, errs>>
  /\ UNCHANGED <<engine, ctx, closer, pipe, linkClosed, session, reader, demux,
                 lcpVars, ipcp, toLink, hand, hist>>

PumpInFails ==
  /\ toTun = "recv" /\ RecvFails
  /\ toTun' = "done" /\ errs' = errs + 1
  /\ UNCHANGED <<engine, ctx, closer, pipe, linkClosed, session, reader, demux,
                 lcpVars, ipcp, toLink, hand, chan, hist>>

\* A write may time out at any moment: RunLoop does not read for writeTimeout.
PumpOutEnds ==
  /\ toLink = "run"
  /\ toLink' = "done" /\ errs' = errs + 1
  /\ UNCHANGED <<engine, ctx, closer, pipe, linkClosed, session, reader, demux,
                 lcpVars, ipcp, toTun, hand, chan, hist>>

\* Its context, a write to the closed pipe, the ended session.
PumpOutFails == (ctx \/ pipe = "closed" \/ session = "ended") /\ PumpOutEnds

-----------------------------------------------------------------------------
(* Process.Close, and RunLoop at the other end of the pipe.                *)

Closed == UNCHANGED <<engine, linkClosed, errs, reader, demux, lcpVars, ipcp,
                      pumps, hand, chan, hist>>

Close ==
  /\ closer = "idle"
  /\ closer' = "link" /\ ctx' = TRUE /\ UNCHANGED <<pipe, session>> /\ Closed
CloseConn ==
  /\ closer = "link"
  /\ closer' = "session" /\ pipe' = "closed" /\ UNCHANGED <<ctx, session>> /\ Closed
EndSession ==
  /\ closer = "session"
  /\ closer' = "done" /\ session' = "ended" /\ UNCHANGED <<ctx, pipe>> /\ Closed

Reader  == PushIn \/ ReaderEnds
Demux   == DemuxRecv \/ DemuxPush \/ DemuxEnds
LcpStep == LcpRecv \/ LcpFails
Run     == Negotiated \/ ConfigureAdapter \/ SteadyEnds \/ CloseLink \/ ClosePipe
InPump  == PumpIn \/ PumpInFails
Closer  == CloseConn \/ EndSession

Next == \/ FrameArrives \/ Reader \/ Demux \/ LcpStep \/ LcpRetransmit
        \/ IpcpRecv \/ IpcpFails \/ Run \/ InPump \/ PumpOutEnds
        \/ Close \/ Closer
        \/ engine = "ended" /\ UNCHANGED vars

Spec == Init /\ [][Next]_vars

\* Goroutines run, timers run out; nobody has to send anything or to close.
FairSpec == /\ Spec
            /\ WF_vars(Reader) /\ WF_vars(Demux) /\ WF_vars(LcpStep)
            /\ WF_vars(LcpRetransmit) /\ WF_vars(IpcpRecv \/ IpcpFails)
            /\ WF_vars(Run) /\ WF_vars(InPump) /\ WF_vars(PumpOutFails)
            /\ WF_vars(Closer)

-----------------------------------------------------------------------------
TypeOK ==
  /\ engine \in {"negotiate", "configure", "steady", "closeLink", "closePipe", "ended"}
  /\ ctx \in BOOLEAN /\ closer \in {"idle", "link", "session", "done"}
  /\ pipe \in {"open", "closed"} /\ linkClosed \in BOOLEAN /\ session \in {"open", "ended"}
  /\ reader \in {"read", "push", "done"} /\ demux \in {"recv", "push", "done"}
  /\ lcp \in Outcome /\ ipcp \in Outcome
  /\ id \in 1..MaxRetries + 1 /\ retries \in 0..MaxRetries + 1
  /\ toTun \in {"off", "recv", "done"} /\ toLink \in {"off", "run", "done"}
  /\ errs \in 0..2                      \* errCh never fills up
  /\ \A c \in DOMAIN chan : Len(chan[c]) <= Cap
                            /\ \A i \in DOMAIN chan[c] : chan[c][i] \in Frames
  /\ \A r \in DOMAIN hand : hand[r] \in Frames

\* LCP and IPCP end, whatever comes in and in which order: neither can be kept
\* waiting for ever by a channel the other has left full.
NegotiationEnds == engine = "negotiate" ~> engine # "negotiate"

\* Close stops the engine and every goroutine it has started, wherever each is
\* blocked.
CloseStopsAll ==
  closer = "done" ~> /\ engine = "ended" /\ reader = "done" /\ demux = "done"
                     /\ toTun # "recv" /\ toLink # "run"

\* The steps each goroutine may still take where it is, with what it holds, and what the
\* frames in the channels and the retries left may cause; a frame passes up to three of them.
EngineLeft == [negotiate |-> 7, configure |-> 6, steady |-> 3, closeLink |-> 2, closePipe |-> 1, ended |-> 0]
CloserLeft == [idle |-> 3, link |-> 2, session |-> 1, done |-> 0]
ReaderLeft == [read |-> 1, push |-> 5, done |-> 0]
DemuxLeft  == [recv |-> 1, push |-> 3, done |-> 0]
NegotiatorLeft == [running |-> 1, opened |-> 0, failed |-> 0]
PumpLeft   == [off |-> 0, recv |-> 1, run |-> 1, done |-> 0]

RunLeft  == EngineLeft[engine] + CloserLeft[closer] + PumpLeft[toTun] + PumpLeft[toLink]
LinkLeft == ReaderLeft[reader] + DemuxLeft[demux] + 3 * Len(chan["in"])
TalkLeft == NegotiatorLeft[lcp] + NegotiatorLeft[ipcp] + Len(chan["lcp"]) + Len(chan["ipcp"])
              + (MaxRetries + 1 - retries)

StepsLeft == RunLeft + LinkLeft + TalkLeft

\* Once the pipe is closed, by Close or by the engine itself, nothing goes round: whatever is
\* under way, every step of any goroutine leaves less to do.
WindsDown == [][pipe = "closed" => StepsLeft' < StepsLeft]_vars

\* tun_windows.go:173: relaySteadyState "forwards decoded IPv4 frames from the
\* link into the wintun adapter": none that comes in the steady state is lost.
SteadyForwards == ~stolen
=============================================================================
