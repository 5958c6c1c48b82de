-------------------------------- MODULE Relay --------------------------------
(***************************************************************************)
(* RunLoop (internal/io/relay.go): four goroutines that carry packets      *)
(* between the TLS connection and the pppd PTY over two bounded channels,  *)
(* one that waits for the IPCP event, and the shutdown that has to get all *)
(* five out of whatever call they are blocked in.  Packets are numbered    *)
(* per direction; which of the gateway's are IPCP Configure-Acks is a      *)
(* parameter.  The framing between packets and bytes is module Hdlc's.     *)
(***************************************************************************)
EXTENDS Integers, Sequences

CONSTANTS
  Cap,           \* capacity of sslToPTY and ptyToSSL (64)
  Burst,         \* bound on the frames one read of the PTY completes
  MaxPackets,    \* bound on the packets each reader reads
  Acks           \* the gateway's packets that are IPCP Configure-Acks

ASSUME RelayAssumption ==
  /\ Cap \in Nat \ {0} /\ Burst \in Nat \ {0}
  /\ MaxPackets \in [{"sslReader", "ptyReader"} -> Nat]
  /\ Acks \subseteq Nat

Readers  == {"sslReader", "ptyReader"}
Writers  == {"sslWriter", "ptyWriter"}
Routines == Readers \cup Writers \cup {"monitor"}
MaxErrs  == 5                                  \* capacity of errCh

VARIABLES
  main,        \* RunLoop: select, deadline, close, wait, returned
  outside,     \* the caller's context is done
  stop,        \* RunLoop's own cancel was called
  errs,        \* errors queued in errCh
  tls,         \* the TLS connection: open, broken, expired (deadline)
  pty,         \* the PTY: open, closed
  at,          \* where each goroutine is
  hand,        \* the packets each one holds
  chan,        \* the channel that leads to each writer
  ready,       \* readyCh is closed
  ipcpSent,    \* sslReader has seen an Ack
  ipcpCh,      \* the event channel, of capacity 1
  in,          \* packets read so far, by each reader
  out          \* packets written so far, by each writer

shut   == <<main, outside, stop, errs, tls, pty>>
event  == <<ipcpSent, ipcpCh>>
vars   == <<shut, at, hand, chan, ready, event, in, out>>

Done == outside \/ stop                        \* ctx.Done()

To(r) == IF r = "sslReader" THEN "ptyWriter" ELSE "sslWriter"

Init ==
  /\ main = "select" /\ outside = FALSE /\ stop = FALSE /\ errs = 0
  /\ tls = "open" /\ pty = "open"
  /\ at = [r \in Routines |-> CASE r \in Readers     -> "check"
                                [] r = "sslWriter"   -> "recv"
                                [] r = "ptyWriter"   -> "ready"
                                [] r = "monitor"     -> "wait"]
  /\ hand = [r \in Readers \cup Writers |-> << >>]
  /\ chan = [w \in Writers |-> << >>]
  /\ ready = FALSE /\ ipcpSent = FALSE /\ ipcpCh = "empty"
  /\ in = [r \in Readers |-> 0] /\ out = [w \in Writers |-> << >>]

Move(r, p) == at' = [at EXCEPT ![r] = p]

\* errCh is sent to without blocking.
Report == errs' = IF errs < MaxErrs THEN errs + 1 ELSE errs

-----------------------------------------------------------------------------
(* The readers: check the context, read, forward.                          *)

\* Faulty: the context is not looked at.
CheckNothing(r) ==
  /\ r \in Readers /\ at[r] = "check"
  /\ Move(r, "read")
  /\ UNCHANGED <<shut, hand, chan, ready, event, in, out>>

Check(r) ==
  /\ r \in Readers /\ at[r] = "check"
  /\ Move(r, IF Done THEN "done" ELSE "read")
  /\ UNCHANGED <<shut, hand, chan, ready, event, in, out>>

\* Faulty: every Ack is announced, the retransmitted ones, too.
SslReadEveryAck ==
  /\ at["sslReader"] = "read" /\ tls # "broken"
  /\ in["sslReader"] < MaxPackets["sslReader"]
  /\ LET p == in["sslReader"] + 1
     IN /\ in' = [in EXCEPT !["sslReader"] = p]
        /\ hand' = [hand EXCEPT !["sslReader"] = <<p>>]
        /\ IF p \in Acks THEN ipcpSent' = TRUE /\ ipcpCh' = "full" ELSE UNCHANGED event
  /\ Move("sslReader", "forward")
  /\ UNCHANGED <<shut, chan, ready, out>>

\* The connection may still hold decrypted data when its deadline is set.
SslRead ==
  /\ at["sslReader"] = "read" /\ tls # "broken" /\ in["sslReader"] < MaxPackets["sslReader"]
  /\ LET p == in["sslReader"] + 1
     IN /\ in' = [in EXCEPT !["sslReader"] = p]
        /\ hand' = [hand EXCEPT !["sslReader"] = <<p>>]
        /\ IF ~ipcpSent /\ p \in Acks
           THEN ipcpSent' = TRUE /\ ipcpCh' = "full"
           ELSE UNCHANGED event
  /\ Move("sslReader", "forward")
  /\ UNCHANGED <<shut, chan, ready, out>>

\* A read of the PTY ends with part of a frame, or with several.
PtyRead ==
  /\ at["ptyReader"] = "read" /\ pty = "open"
  /\ \E n \in 0..Burst :
       /\ in["ptyReader"] + n <= MaxPackets["ptyReader"]
       /\ in' = [in EXCEPT !["ptyReader"] = @ + n]
       /\ hand' = [hand EXCEPT !["ptyReader"] = [i \in 1..n |-> in["ptyReader"] + i]]
       /\ Move("ptyReader", IF n = 0 THEN "check" ELSE "forward")
  /\ ready' = TRUE
  /\ UNCHANGED <<shut, chan, event, out>>

Broken(r) == IF r \in {"sslReader", "sslWriter"} THEN tls # "open" ELSE pty = "closed"

\* An error is reported unless the context is done.
ReadFails(r) ==
  /\ r \in Readers /\ at[r] = "read" /\ Broken(r)
  /\ IF Done THEN UNCHANGED errs ELSE Report
  /\ Move(r, "done")
  /\ UNCHANGED <<main, outside, stop, tls, pty, hand, chan, ready, event, in, out>>

\* Faulty: no room is made sure of.
ForwardUnbounded(r) ==
  /\ r \in Readers /\ at[r] = "forward"
  /\ chan' = [chan EXCEPT ![To(r)] = Append(@, Head(hand[r]))]
  /\ hand' = [hand EXCEPT ![r] = Tail(@)]
  /\ Move(r, IF Len(hand[r]) = 1 THEN "check" ELSE "forward")
  /\ UNCHANGED <<shut, ready, event, in, out>>

\* Faulty: a packet that finds the channel full is dropped.
ForwardOrDrop(r) ==
  /\ r \in Readers /\ at[r] = "forward"
  /\ chan' = [chan EXCEPT ![To(r)] = IF Len(@) < Cap THEN Append(@, Head(hand[r])) ELSE @]
  /\ hand' = [hand EXCEPT ![r] = Tail(@)]
  /\ Move(r, IF Len(hand[r]) = 1 THEN "check" ELSE "forward")
  /\ UNCHANGED <<shut, ready, event, in, out>>

\* Faulty: the packet is kept and forwarded again.
ForwardAgain(r) ==
  /\ r \in Readers /\ at[r] = "forward"
  /\ Len(chan[To(r)]) < Cap
  /\ chan' = [chan EXCEPT ![To(r)] = Append(@, Head(hand[r]))]
  /\ UNCHANGED <<shut, at, hand, ready, event, in, out>>

\* Faulty: of the frames that one read completed the latest goes first.
ForwardLatest(r) ==
  /\ r \in Readers /\ at[r] = "forward"
  /\ Len(chan[To(r)]) < Cap
  /\ chan' = [chan EXCEPT ![To(r)] = Append(@, hand[r][Len(hand[r])])]
  /\ hand' = [hand EXCEPT ![r] = SubSeq(@, 1, Len(@) - 1)]
  /\ Move(r, IF Len(hand[r]) = 1 THEN "check" ELSE "forward")
  /\ UNCHANGED <<shut, ready, event, in, out>>

Forward(r) ==
  /\ r \in Readers /\ at[r] = "forward"
  /\ Len(chan[To(r)]) < Cap
  /\ chan' = [chan EXCEPT ![To(r)] = Append(@, Head(hand[r]))]
  /\ hand' = [hand EXCEPT ![r] = Tail(@)]
  /\ Move(r, IF Len(hand[r]) = 1 THEN "check" ELSE "forward")
  /\ UNCHANGED <<shut, ready, event, in, out>>

-----------------------------------------------------------------------------
(* The writers: receive, write; ptyWriter waits for pppd's first bytes.     *)

PppdReady ==
  /\ at["ptyWriter"] = "ready" /\ ready
  /\ Move("ptyWriter", "recv")
  /\ UNCHANGED <<shut, hand, chan, ready, event, in, out>>

Recv(w) ==
  /\ w \in Writers /\ at[w] = "recv" /\ chan[w] # << >>
  /\ hand' = [hand EXCEPT ![w] = <<Head(chan[w])>>]
  /\ chan' = [chan EXCEPT ![w] = Tail(@)]
  /\ Move(w, "write")
  /\ UNCHANGED <<shut, ready, event, in, out>>

\* The other side takes the packet, when it likes.
Accept(w) ==
  /\ w \in Writers /\ at[w] = "write" /\ ~Broken(w)
  /\ out' = [out EXCEPT ![w] = Append(@, Head(hand[w]))]
  /\ hand' = [hand EXCEPT ![w] = << >>]
  /\ Move(w, "recv")
  /\ UNCHANGED <<shut, chan, ready, event, in>>

WriteFails(w) ==
  /\ w \in Writers /\ at[w] = "write" /\ Broken(w)
  /\ Report
  /\ Move(w, "done")
  /\ UNCHANGED <<main, outside, stop, tls, pty, hand, chan, ready, event, in, out>>

\* Any blocking select ends with the context.
Quit(r) ==
  /\ Done
  /\ at[r] \in {"ready", "recv", "wait", "forward"}
  /\ Move(r, "done")
  /\ UNCHANGED <<shut, hand, chan, ready, event, in, out>>

-----------------------------------------------------------------------------
(* ifConfigMonitor and its callback.                                       *)

Event ==
  /\ at["monitor"] = "wait" /\ ipcpCh = "full"
  /\ ipcpCh' = "empty"
  /\ Move("monitor", "call")
  /\ UNCHANGED <<shut, hand, chan, ready, ipcpSent, in, out>>

OnIPCPReturns ==
  /\ at["monitor"] = "call"
  /\ Move("monitor", "done")
  /\ UNCHANGED <<shut, hand, chan, ready, event, in, out>>

-----------------------------------------------------------------------------
(* RunLoop's own goroutine.                                                *)

Rest == UNCHANGED <<at, hand, chan, ready, event, in, out>>

ErrorReceived ==
  /\ main = "select" /\ errs > 0
  /\ errs' = errs - 1 /\ stop' = TRUE /\ main' = "deadline"
  /\ UNCHANGED <<outside, tls, pty>> /\ Rest

ContextDone ==
  /\ main = "select" /\ outside
  /\ main' = "deadline"
  /\ UNCHANGED <<outside, stop, errs, tls, pty>> /\ Rest

\* Faulty: only the PTY side is unblocked.
NoDeadline ==
  /\ main = "deadline"
  /\ main' = "close"
  /\ UNCHANGED <<outside, stop, errs, tls, pty>> /\ Rest

SetDeadline ==
  /\ main = "deadline"
  /\ tls' = IF tls = "open" THEN "expired" ELSE tls
  /\ main' = "close"
  /\ UNCHANGED <<outside, stop, errs, pty>> /\ Rest

\* OnCancel: Process.Close ends pppd and closes the PTY.
OnCancel ==
  /\ main = "close"
  /\ pty' = "closed" /\ main' = "wait"
  /\ UNCHANGED <<outside, stop, errs, tls>> /\ Rest

Return ==
  /\ main = "wait" /\ \A r \in Routines : at[r] = "done"
  /\ main' = "returned" /\ stop' = TRUE
  /\ UNCHANGED <<outside, errs, tls, pty>> /\ Rest

-----------------------------------------------------------------------------
(* The world outside.                                                      *)

Cancel == ~outside /\ outside' = TRUE /\ UNCHANGED <<main, stop, errs, tls, pty>> /\ Rest
TLSBreaks == tls = "open" /\ tls' = "broken" /\ UNCHANGED <<main, outside, stop, errs, pty>> /\ Rest
PppdExits == pty = "open" /\ pty' = "closed" /\ UNCHANGED <<main, outside, stop, errs, tls>> /\ Rest

\* The steps that a goroutine takes without help from the other side.
Step(r) == \/ Check(r) \/ ReadFails(r) \/ Forward(r) \/ Recv(r)
           \/ WriteFails(r) \/ Quit(r)
           \/ r = "ptyWriter" /\ PppdReady
           \/ r = "monitor" /\ (Event \/ OnIPCPReturns)
RunLoop == ErrorReceived \/ ContextDone \/ SetDeadline \/ OnCancel \/ Return

Next == \/ RunLoop \/ \E r \in Routines : Step(r)
        \/ SslRead \/ PtyRead \/ \E w \in Writers : Accept(w)
        \/ Cancel \/ TLSBreaks \/ PppdExits
        \/ main = "returned" /\ UNCHANGED vars

Spec == Init /\ [][Next]_vars

\* The scheduler runs what can run.  Nobody owes a packet or takes one.
FairSpec == Spec /\ WF_vars(RunLoop) /\ \A r \in Routines : WF_vars(Step(r))

-----------------------------------------------------------------------------
TypeOK ==
  /\ main \in {"select", "deadline", "close", "wait", "returned"}
  /\ outside \in BOOLEAN /\ stop \in BOOLEAN /\ errs \in 0..MaxErrs
  /\ tls \in {"open", "broken", "expired"} /\ pty \in {"open", "closed"}
  /\ \A r \in Readers : at[r] \in {"check", "read", "forward", "done"}
  /\ \A w \in Writers : at[w] \in {"ready", "recv", "write", "done"}
  /\ at["monitor"] \in {"wait", "call", "done"}
  /\ \A r \in Readers : Len(hand[r]) <= Burst
  /\ \A w \in Writers : Len(hand[w]) <= 1 /\ Len(chan[w]) <= Cap
  /\ ready \in BOOLEAN /\ ipcpSent \in BOOLEAN /\ ipcpCh \in {"empty", "full"}

\* Between an Ack on the wire and the setup nothing is lost: while the loop runs,
\* the event of the first Ack is queued, being handled, or handled, and an Ack
\* sent again causes no second setup.
EventKept == ipcpSent /\ ~Done => (ipcpCh = "full" <=> at["monitor"] = "wait")

\* Each direction is a pipe: in order, nothing skipped, nothing twice, and never
\* more under way than the channel and the hands at its two ends hold.
Down == INSTANCE Pipe WITH Depth <- Cap + 2,
          taken <- in["sslReader"], given <- out["ptyWriter"]
Up   == INSTANCE Pipe WITH Depth <- Cap + Burst + 1,
          taken <- in["ptyReader"], given <- out["sslWriter"]
DownIsPipe == Down!Spec
UpIsPipe   == Up!Spec

\* Whoever fails first, and however the others are blocked - a read nobody
\* answers, a write nobody takes, a full channel, a setup - RunLoop returns.
Stops == (outside \/ \E r \in Routines \ {"monitor"} : at[r] = "done")
           ~> main = "returned"

\* The steps each goroutine may still take where it is once the context is done, those that a
\* packet on its way may cause, and those of RunLoop and of the world; a read brings up to Burst
\* packets, and none is followed by another.
MainLeft == [select |-> 4, deadline |-> 3, close |-> 2, wait |-> 1, returned |-> 0]
AtLeft   == [check |-> 1, read |-> 3 * Burst + 3, forward |-> 2, ready |-> 2, recv |-> 1,
             write |-> 2, wait |-> 2, call |-> 1, done |-> 0]
WorldLeft == (IF outside THEN 0 ELSE 1) + (IF tls = "open" THEN 1 ELSE 0) + (IF pty = "open" THEN 1 ELSE 0)
WayLeft(r) == AtLeft[at[r]] + 3 * Len(hand[r]) + AtLeft[at[To(r)]] + 2 * Len(chan[To(r)])

StepsLeft == MainLeft[main] + WorldLeft + AtLeft[at["monitor"]]
               + WayLeft("sslReader") + WayLeft("ptyReader")

\* Once the context is done nothing goes round: whatever is read, under way or refused, every
\* step of any goroutine leaves less to do.
WindsDown == [][Done => StepsLeft' < StepsLeft]_vars

\* Whatever the gateway has sent reaches a pppd that talks and takes packets, unless the
\* loop ends first: packets end with MaxPackets, so pppd catches up with them.
Delivered ==
  WF_vars(Accept("ptyWriter")) =>
    (ready /\ Len(out["ptyWriter"]) < in["sslReader"])
      ~> (Len(out["ptyWriter"]) = in["sslReader"] \/ main # "select")
=============================================================================
