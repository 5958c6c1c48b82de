-------------------------------- MODULE Ipcp --------------------------------
(***************************************************************************)
(* NegotiateIPCP and its retransmitter (internal/ppp/pppproto), with the   *)
(* gateway at the other end of a lossy ordered link.  Frames get lost      *)
(* (the gateway is not ready, or the framing drops them); they are not     *)
(* reordered, the link being a TLS stream; answers to a retransmitted     *)
(* request arrive late and more than once.  Time passes in ticks.          *)
(***************************************************************************)
EXTENDS Integers, Sequences

CONSTANTS
  Addrs,           \* addresses the gateway may name
  Zero,            \* 0.0.0.0, "assign me one"
  None,            \* nil: the option is absent
  RequestDNS,      \* the values of IPCPOptions.RequestDNS under study
  Feedbacks,       \* option lists of the gateway's Naks and Rejects
  Requests,        \* option lists of the gateway's own Configure-Requests
  MaxRetries,      \* maxConfigureRetries (20)
  RestartTicks,    \* RestartInterval (3 s)
  TimeoutTicks,    \* NegotiateTimeout (60 s)
  MaxNoise         \* bound on the frames the gateway sends unasked

Value   == Addrs \cup {Zero, None}
\* An option list: None marks an absent option.  "other" stands for the
\* options the client knows nothing of, such as IP-Compression-Protocol.
Options == [ip: Value, dns1: Value, dns2: Value, other: BOOLEAN]
Codes   == {"request", "ack", "nak", "reject", "unknown"}
Frames  == [code: Codes, id: Nat, opts: Options]

ASSUME IpcpAssumption ==
  /\ Zero \notin Addrs /\ None \notin Addrs \cup {Zero}
  /\ RequestDNS \subseteq BOOLEAN
  /\ Feedbacks \subseteq Options /\ Requests \subseteq Options
  /\ MaxRetries \in Nat /\ MaxNoise \in Nat
  /\ RestartTicks \in Nat \ {0} /\ TimeoutTicks \in Nat \ {0}

VARIABLES
  st,       \* negotiating, opened, failed
  id,       \* identifier of our current Configure-Request
  proposed, \* the options in it
  retries,  \* retransmissions and renegotiations so far
  next,     \* ticks until the retransmission is due
  left,     \* ticks until the negotiation times out
  peerIP,   \* IPCPResult.PeerIP
  up, down, \* frames under way to the gateway and to the client
  noise,    \* frames the gateway has sent unasked
  \* history
  sent,     \* every Configure-Request we ever sent, as [id, opts]
  acked,    \* those the gateway acknowledged
  sends,    \* how many we sent
  idle      \* ticks since the last one

timers == <<next, left>>
client == <<st, id, proposed, retries, timers, peerIP>>
hist   == <<sent, acked, sends, idle>>
vars   == <<client, up, down, noise, hist>>

NoOptions == [ip |-> None, dns1 |-> None, dns2 |-> None, other |-> FALSE]

Frame(c, i, o) == [code |-> c, id |-> i, opts |-> o]

\* ipcpProposal.toConfigFrame: the proposal as the request under an identifier.
Stamp(i, o) == [id |-> i, opts |-> o]

Init ==
  /\ st = "negotiating" /\ id = 1
  /\ \E b \in RequestDNS :
       LET d == IF b THEN Zero ELSE None
       IN proposed = [ip |-> Zero, dns1 |-> d, dns2 |-> d, other |-> FALSE]
  /\ retries = 0 /\ next = RestartTicks /\ left = TimeoutTicks
  /\ peerIP = None
  /\ up = <<Frame("request", 1, proposed)>> /\ down = << >> /\ noise = 0
  /\ sent = {Stamp(1, proposed)} /\ acked = {} /\ sends = 1 /\ idle = 0

-----------------------------------------------------------------------------
(* The client.                                                             *)

\* applyNak: adopt what the gateway suggests.
ApplyNak(p, f) ==
  [p EXCEPT !.ip   = IF f.ip = None THEN @ ELSE f.ip,
            !.dns1 = IF f.dns1 = None THEN @ ELSE f.dns1,
            !.dns2 = IF f.dns2 = None THEN @ ELSE f.dns2]

\* applyReject: drop what the gateway refuses, but keep the address.
ApplyReject(p, f) ==
  [p EXCEPT !.dns1 = IF f.dns1 = None THEN @ ELSE None,
            !.dns2 = IF f.dns2 = None THEN @ ELSE None]

\* reviewPeerIPCPRequest: everything but an address is rejected.
Acceptable(o) == o.dns1 = None /\ o.dns2 = None /\ ~o.other
Review(f) == IF Acceptable(f.opts) THEN Frame("ack", f.id, f.opts)
             ELSE Frame("reject", f.id, [f.opts EXCEPT !.ip = None])

\* Faulty: the restart interval grows with every retransmission.
SendBackingOff(i, o) ==
  /\ up' = Append(up, Frame("request", i, o))
  /\ sent' = sent \cup {Stamp(i, o)} /\ sends' = sends + 1 /\ idle' = 0
  /\ next' = RestartTicks + retries

\* send: (re)transmit the request with identifier i and options o.
SendRequest(i, o) ==
  /\ up' = Append(up, Frame("request", i, o))
  /\ sent' = sent \cup {Stamp(i, o)} /\ sends' = sends + 1 /\ idle' = 0
  /\ next' = RestartTicks

GiveUp == st' = "failed" /\ UNCHANGED <<up, next, sent, sends, idle>>

Retry == retries' = retries + 1

\* The link delivers the next frame to the loop.
Incoming == Head(down)
Receive(codes) == /\ st = "negotiating" /\ down # << >>
                  /\ Incoming.code \in codes /\ down' = Tail(down)

ReceiveRequest ==
  /\ Receive({"request"})
  /\ up' = Append(up, Review(Incoming))
  /\ peerIP' = LET o == Incoming.opts
               IN IF Acceptable(o) /\ o.ip # None THEN o.ip ELSE peerIP
  /\ UNCHANGED <<st, id, proposed, retries, timers, noise, hist>>

\* Faulty: an Ack of any of our requests will do.
AcceptAnyAck ==
  /\ Receive({"ack"})
  /\ st' = IF proposed.ip = Zero THEN "failed" ELSE "opened"
  /\ UNCHANGED <<id, proposed, retries, timers, peerIP, up, noise, hist>>

\* Faulty: the outcome is not looked at.
AcceptUnusable ==
  /\ Receive({"ack"}) /\ Incoming.id = id
  /\ st' = "opened"
  /\ UNCHANGED <<id, proposed, retries, timers, peerIP, up, noise, hist>>

\* Only an address other than 0.0.0.0 makes the outcome usable.
ReceiveAck ==
  /\ Receive({"ack"}) /\ Incoming.id = id
  /\ st' = IF proposed.ip = Zero THEN "failed" ELSE "opened"
  /\ UNCHANGED <<id, proposed, retries, timers, peerIP, up, noise, hist>>

\* Faulty: the adjusted request goes out under the old identifier.
FeedbackSameId ==
  /\ Receive({"nak", "reject"}) /\ Incoming.id = id
  /\ Retry
  /\ IF retries' > MaxRetries
     THEN GiveUp /\ UNCHANGED <<id, proposed>>
     ELSE /\ proposed' = IF Incoming.code = "nak" THEN ApplyNak(proposed, Incoming.opts)
                                                 ELSE ApplyReject(proposed, Incoming.opts)
          /\ SendRequest(id, proposed')
          /\ UNCHANGED <<st, id>>
  /\ UNCHANGED <<left, peerIP, noise, acked>>

\* Faulty: only timeouts are counted.
FeedbackUncounted ==
  /\ Receive({"nak", "reject"}) /\ Incoming.id = id
  /\ proposed' = IF Incoming.code = "nak" THEN ApplyNak(proposed, Incoming.opts)
                                         ELSE ApplyReject(proposed, Incoming.opts)
  /\ id' = id + 1
  /\ SendRequest(id', proposed')
  /\ UNCHANGED <<st, retries, left, peerIP, noise, acked>>

\* Nak or Reject of the current request: adjust, take a new identifier, resend.
ReceiveFeedback ==
  /\ Receive({"nak", "reject"}) /\ Incoming.id = id
  /\ Retry
  /\ IF retries' > MaxRetries
     THEN GiveUp /\ UNCHANGED <<id, proposed>>
     ELSE /\ proposed' = IF Incoming.code = "nak" THEN ApplyNak(proposed, Incoming.opts)
                                                 ELSE ApplyReject(proposed, Incoming.opts)
          /\ id' = id + 1
          /\ SendRequest(id', proposed')
          /\ UNCHANGED st
  /\ UNCHANGED <<left, peerIP, noise, acked>>

\* Faulty: the interval starts again with every frame.
OtherRestartsInterval ==
  /\ Receive(Codes)
  /\ \/ Incoming.code = "unknown"
     \/ Incoming.code \in {"ack", "nak", "reject"} /\ Incoming.id # id
  /\ next' = RestartTicks
  /\ UNCHANGED <<st, id, proposed, retries, left, peerIP, up, noise, hist>>

\* Anything else is read and forgotten, and does not put the retransmission off.
ReceiveOther ==
  /\ Receive(Codes)
  /\ \/ Incoming.code = "unknown"
     \/ Incoming.code \in {"ack", "nak", "reject"} /\ Incoming.id # id
  /\ UNCHANGED <<client, up, noise, hist>>

\* retransmitter.recv at its deadline: the same request again.
Retransmit ==
  /\ st = "negotiating" /\ next = 0 /\ left > 0
  /\ Retry
  /\ IF retries' > MaxRetries THEN GiveUp ELSE SendRequest(id, proposed) /\ UNCHANGED st
  /\ UNCHANGED <<id, proposed, left, peerIP, down, noise, acked>>

\* Faulty: the deadline is only looked at when a frame has come in.
TimeOutOnReceive ==
  /\ st = "negotiating" /\ left = 0 /\ down # << >>
  /\ st' = "failed"
  /\ UNCHANGED <<id, proposed, retries, timers, peerIP, up, down, noise, hist>>

\* NegotiateTimeout passes.
TimeOut ==
  /\ st = "negotiating" /\ left = 0
  /\ st' = "failed"
  /\ UNCHANGED <<id, proposed, retries, timers, peerIP, up, down, noise, hist>>

\* Sending or receiving fails, or the engine is closed: what is under way is lost.
LinkFails ==
  /\ st = "negotiating"
  /\ st' = "failed" /\ up' = << >> /\ down' = << >>
  /\ UNCHANGED <<id, proposed, retries, timers, peerIP, noise, hist>>

\* A due retransmission is not put off for a tick.
Tick ==
  /\ st = "negotiating" /\ next > 0 /\ left > 0
  /\ next' = next - 1 /\ left' = left - 1 /\ idle' = idle + 1
  /\ UNCHANGED <<st, id, proposed, retries, peerIP, up, down, noise, sent, acked, sends>>

-----------------------------------------------------------------------------
(* The gateway and the link.                                               *)

\* The gateway answers a request as it likes, or not at all.
Answer(f) ==
  \/ /\ down' = Append(down, Frame("ack", f.id, f.opts))
     /\ acked' = acked \cup {Stamp(f.id, f.opts)}
  \/ /\ \E c \in {"nak", "reject"}, o \in Feedbacks :
          down' = Append(down, Frame(c, f.id, o))
     /\ UNCHANGED acked

GatewayReceive ==
  /\ up # << >> /\ up' = Tail(up)
  /\ IF Head(up).code = "request" THEN Answer(Head(up)) ELSE UNCHANGED <<down, acked>>
  /\ UNCHANGED <<client, noise, sent, sends, idle>>

\* Its own Configure-Request, or an IPCP frame the client has no use for.
GatewaySends ==
  /\ noise < MaxNoise
  /\ \/ \E o \in Requests : down' = Append(down, Frame("request", noise, o))
     \/ down' = Append(down, Frame("unknown", noise, NoOptions))
  /\ noise' = noise + 1
  /\ UNCHANGED <<client, up, hist>>

LoseUp == up # << >> /\ up' = Tail(up) /\ UNCHANGED <<client, down, noise, hist>>
LoseDown == down # << >> /\ down' = Tail(down) /\ UNCHANGED <<client, up, noise, hist>>

ClientStep == ReceiveRequest \/ ReceiveAck \/ ReceiveFeedback \/ ReceiveOther
                \/ Retransmit \/ TimeOut
Next == ClientStep \/ Tick \/ GatewayReceive \/ GatewaySends \/ LoseUp \/ LoseDown
          \/ LinkFails

Spec == Init /\ [][Next]_vars

\* Time passes and the client runs; the gateway owes nothing.
FairSpec == Spec /\ WF_vars(ClientStep) /\ WF_vars(Tick)

-----------------------------------------------------------------------------
TypeOK ==
  /\ st \in {"negotiating", "opened", "failed"}
  /\ id \in Nat /\ proposed \in Options /\ retries \in Nat
  /\ next \in 0..RestartTicks /\ left \in 0..TimeoutTicks
  /\ peerIP \in Value
  /\ up \in Seq(Frames) /\ down \in Seq(Frames) /\ noise \in 0..MaxNoise
  /\ sent \subseteq [id: Nat, opts: Options] /\ acked \subseteq [id: Nat, opts: Options]
  /\ sends \in Nat /\ idle \in Nat

\* An identifier stands for one option list for the whole negotiation, however
\* often the request is repeated: a late Ack cannot be taken for another.
OneMeaningPerId == \A r, s \in sent : r.id = s.id => r.opts = s.opts

\* The options adopted are the ones the gateway acknowledged under that
\* identifier, and they hold an address.
Agreement == st = "opened" => Stamp(id, proposed) \in acked /\ proposed.ip # Zero

\* The budget: at most MaxRetries requests after the first, whatever made the
\* client send them; a byte is wide enough for the identifier.
RetryBudget == sends <= MaxRetries + 1 /\ id <= sends

\* Other traffic does not put the retransmission off: while the client waits, no
\* more than a restart interval passes without a request.
NotStarved == st = "negotiating" => idle <= RestartTicks

\* The negotiation ends, even with a gateway that says nothing or only noise.
Ends == <>(st # "negotiating")

\* What the negotiation promises.
Usable(o) == o.ip \notin {Zero, None}
Abstract == INSTANCE Grant WITH
              Nothing <- NoOptions,
              granted <- {r.opts : r \in acked},
              status  <- st,
              adopted <- IF st = "opened" THEN proposed ELSE NoOptions
Implements == Abstract!Spec
=============================================================================
