----------------------------- MODULE RelayProofs -----------------------------
(***************************************************************************)
(* What RunLoop guarantees for channels of any capacity, any burst of the  *)
(* PTY and any traffic: both directions are pipes, and the IPCP event is   *)
(* kept.  The argument: the packets a reader has read are, in order, those *)
(* written, then the one in the writer's hand, those in the channel, those *)
(* in the reader's hand.  Once the context is done, no more than so many   *)
(* steps are left, since nobody reads again.                               *)
(***************************************************************************)
EXTENDS Relay, TLAPS

\* The packets 1..n lie in a line: written (o), held by the writer (h), in the
\* channel (c), held by the reader (g).
Line(o, h, c, g, n) ==
  /\ \A i \in 1..Len(o) : o[i] = i
  /\ \A i \in 1..Len(h) : h[i] = Len(o) + i
  /\ \A i \in 1..Len(c) : c[i] = Len(o) + Len(h) + i
  /\ \A i \in 1..Len(g) : g[i] = Len(o) + Len(h) + Len(c) + i
  /\ n = Len(o) + Len(h) + Len(c) + Len(g)

Ordered(r) == Line(out[To(r)], hand[To(r)], chan[To(r)], hand[r], in[r])

Places == {"check", "read", "forward", "done", "ready", "recv", "write", "wait", "call"}
Shapes == /\ at \in [Routines -> Places]
          /\ hand \in [Readers \cup Writers -> Seq(Nat)]
          /\ chan \in [Writers -> Seq(Nat)]
          /\ in \in [Readers -> Nat] /\ out \in [Writers -> Seq(Nat)]

\* Who is where holds what.
Held == /\ \A r \in Readers : /\ at[r] \in {"check", "read"} => hand[r] = << >>
                              /\ at[r] = "forward" => hand[r] # << >>
        /\ \A w \in Writers : /\ at[w] \in {"ready", "recv"} => hand[w] = << >>
                              /\ at[w] = "write" => Len(hand[w]) = 1
        /\ Len(hand["sslReader"]) <= 1

\* The event is sent once, and the monitor waits for it.
Expected == /\ ipcpCh = "full" => ipcpSent
            /\ ~ipcpSent /\ ~Done => at["monitor"] = "wait"

RInv == /\ TypeOK /\ Shapes /\ Held /\ Expected /\ EventKept
        /\ \A r \in Readers : Ordered(r)

-----------------------------------------------------------------------------
(* Lines.                                                                  *)

\* The reader reads k packets more.
LEMMA LineRead ==
  ASSUME NEW o \in Seq(Nat), NEW h \in Seq(Nat), NEW c \in Seq(Nat), NEW n \in Nat,
         Line(o, h, c, << >>, n), NEW k \in Nat
  PROVE  Line(o, h, c, [i \in 1..k |-> n + i], n + k)
<1>1. Len([i \in 1..k |-> n + i]) = k  OBVIOUS
<1>2. n = Len(o) + Len(h) + Len(c)  BY DEF Line
<1>3. \A i \in 1..k : [j \in 1..k |-> n + j][i] = Len(o) + Len(h) + Len(c) + i  BY <1>2
<1> QED  BY <1>1, <1>2, <1>3 DEF Line

\* The reader puts its first packet into the channel.
LEMMA LineForward ==
  ASSUME NEW o \in Seq(Nat), NEW h \in Seq(Nat), NEW c \in Seq(Nat), NEW g \in Seq(Nat),
         NEW n \in Nat, Line(o, h, c, g, n), g # << >>
  PROVE  Line(o, h, Append(c, Head(g)), Tail(g), n)
<1> DEFINE d == Append(c, Head(g))
<1>1. Len(g) > 0 /\ Head(g) = g[1] /\ Len(Tail(g)) = Len(g) - 1
  OBVIOUS
<1>2. \A i \in 1..Len(Tail(g)) : Tail(g)[i] = g[i + 1] /\ i + 1 \in 1..Len(g)  BY <1>1
<1>3. Head(g) \in Nat  BY <1>1
<1>4. Len(d) = Len(c) + 1 /\ d[Len(c) + 1] = Head(g) /\ \A i \in 1..Len(c) : d[i] = c[i]
  BY <1>3
<1>5. Head(g) = Len(o) + Len(h) + Len(c) + 1  BY <1>1 DEF Line
<1>6. \A i \in 1..Len(d) : d[i] = Len(o) + Len(h) + i
  <2> SUFFICES ASSUME NEW i \in 1..Len(d) PROVE d[i] = Len(o) + Len(h) + i  OBVIOUS
  <2>1. CASE i \in 1..Len(c)  BY <2>1, <1>4 DEF Line
  <2>2. CASE i = Len(c) + 1  BY <2>2, <1>4, <1>5
  <2>3. Len(c) \in Nat /\ i \in 1..Len(c) + 1  BY <1>4
  <2> HIDE DEF d
  <2>4. i \in 1..Len(c) \/ i = Len(c) + 1  BY <2>3, SMTT(30)
  <2> QED  BY <2>1, <2>2, <2>4
<1>7. \A i \in 1..Len(Tail(g)) : Tail(g)[i] = Len(o) + Len(h) + Len(d) + i
  BY <1>2, <1>4 DEF Line
<1> HIDE DEF d
<1>8. n = Len(o) + Len(h) + Len(d) + Len(Tail(g))  BY <1>1, <1>4 DEF Line
<1>9. Line(o, h, d, Tail(g), n)  BY <1>6, <1>7, <1>8 DEF Line
<1> QED  BY <1>9 DEF d

\* The writer takes the first packet of the channel.
LEMMA LineRecv ==
  ASSUME NEW o \in Seq(Nat), NEW c \in Seq(Nat), NEW g \in Seq(Nat), NEW n \in Nat,
         Line(o, << >>, c, g, n), c # << >>
  PROVE  Line(o, <<Head(c)>>, Tail(c), g, n)
<1>1. Len(c) > 0 /\ Head(c) = c[1] /\ Len(Tail(c)) = Len(c) - 1  OBVIOUS
<1>2. \A i \in 1..Len(Tail(c)) : Tail(c)[i] = c[i + 1] /\ i + 1 \in 1..Len(c)  BY <1>1
<1>3. Len(<<Head(c)>>) = 1 /\ <<Head(c)>>[1] = Len(o) + 1  BY <1>1 DEF Line
<1>4. \A i \in 1..Len(Tail(c)) : Tail(c)[i] = Len(o) + 1 + i  BY <1>2 DEF Line
<1>5. \A i \in 1..Len(g) : g[i] = Len(o) + 1 + Len(Tail(c)) + i  BY <1>1 DEF Line
<1>6. n = Len(o) + 1 + Len(Tail(c)) + Len(g)  BY <1>1 DEF Line
<1>7. \A i \in 1..Len(o) : o[i] = i  BY DEF Line
<1> QED  BY <1>3, <1>4, <1>5, <1>6, <1>7 DEF Line

\* The writer writes its packet, the next one.
LEMMA LineAccept ==
  ASSUME NEW o \in Seq(Nat), NEW h \in Seq(Nat), NEW c \in Seq(Nat), NEW g \in Seq(Nat),
         NEW n \in Nat, Line(o, h, c, g, n), Len(h) = 1
  PROVE  /\ Line(Append(o, Head(h)), << >>, c, g, n)
         /\ Head(h) = Len(o) + 1 /\ Len(o) < n
<1> DEFINE p == Append(o, Head(h))
<1>1. Head(h) = Len(o) + 1  BY DEF Line
<1>2. Len(p) = Len(o) + 1 /\ p[Len(o) + 1] = Head(h) /\ \A i \in 1..Len(o) : p[i] = o[i]
  BY <1>1
<1>3. \A i \in 1..Len(p) : p[i] = i
  <2> SUFFICES ASSUME NEW i \in 1..Len(p) PROVE p[i] = i  OBVIOUS
  <2>1. CASE i \in 1..Len(o)  BY <2>1, <1>2 DEF Line
  <2>2. CASE i = Len(o) + 1  BY <2>2, <1>1, <1>2
  <2> QED  BY <1>2, <2>1, <2>2
<1> HIDE DEF p
<1>4. \A i \in 1..Len(c) : c[i] = Len(p) + 0 + i  BY <1>2 DEF Line
<1>5. \A i \in 1..Len(g) : g[i] = Len(p) + 0 + Len(c) + i  BY <1>2 DEF Line
<1>6. n = Len(p) + 0 + Len(c) + Len(g) /\ Len(o) < n  BY <1>2 DEF Line
<1>7. Line(p, << >>, c, g, n)  BY <1>3, <1>4, <1>5, <1>6 DEF Line
<1> QED  BY <1>1, <1>6, <1>7 DEF p

-----------------------------------------------------------------------------
(* The invariant.                                                          *)

\* Each reader has a writer of its own.
LEMMA Sides ==
  /\ \A r \in Readers : To(r) \in Writers /\ r \in Routines /\ r # "monitor" /\ r \notin Writers
  /\ \A w \in Writers : w \in Routines /\ w # "monitor" /\ w \notin Readers
  /\ \A r, q \in Readers : r # q => To(r) # To(q)
  /\ "sslReader" \in Readers /\ "ptyReader" \in Readers /\ "monitor" \in Routines
  /\ "ptyWriter" \in Writers /\ "sslWriter" \in Writers
BY DEF Readers, Writers, Routines, To

\* The loop starts with nothing read, held, queued or written.
LEMMA InitInv == Init => RInv
<1> SUFFICES ASSUME Init PROVE RInv  OBVIOUS
<1> USE RelayAssumption
<1>1. /\ at["sslReader"] = "check" /\ at["ptyReader"] = "check"
      /\ at["sslWriter"] = "recv" /\ at["ptyWriter"] = "ready" /\ at["monitor"] = "wait"
  BY DEF Init, Readers, Writers, Routines
<1>2. /\ \A r \in Readers \cup Writers : hand[r] = << >>
      /\ \A w \in Writers : chan[w] = << >> /\ out[w] = << >>
      /\ \A r \in Readers : in[r] = 0
  BY DEF Init
<1>3. Len(<< >>) = 0 /\ Burst >= 0 /\ Cap >= 0  OBVIOUS
<1>4. Shapes  BY DEF Init, Shapes, Places, Readers, Writers, Routines
<1>5. TypeOK
  <2>1. \A r \in Readers : at[r] = "check" /\ Len(hand[r]) <= Burst
    BY <1>1, <1>2, <1>3 DEF Readers
  <2>2. \A w \in Writers : /\ at[w] \in {"ready", "recv", "write", "done"}
                          /\ Len(hand[w]) <= 1 /\ Len(chan[w]) <= Cap
    BY <1>1, <1>2, <1>3 DEF Writers
  <2>3. /\ main = "select" /\ outside = FALSE /\ stop = FALSE /\ errs \in 0..MaxErrs
        /\ tls = "open" /\ pty = "open"
        /\ ready = FALSE /\ ipcpSent = FALSE /\ ipcpCh = "empty"
    BY DEF Init, MaxErrs
  <2> QED  BY <1>1, <2>1, <2>2, <2>3 DEF TypeOK
<1>6. Held  BY <1>1, <1>2, <1>3 DEF Held, Readers, Writers
<1>7. Expected /\ EventKept  BY <1>1 DEF Init, Expected, EventKept
<1>8. ASSUME NEW r \in Readers PROVE Ordered(r)
  <2>1. Line(<< >>, << >>, << >>, << >>, 0)  BY <1>3 DEF Line
  <2> QED  BY <1>2, <2>1, Sides DEF Ordered
<1> QED  BY <1>4, <1>5, <1>6, <1>7, <1>8 DEF RInv

\* RunLoop's own steps and the world touch no packet, and a context that is done
\* stays done.
LEMMA QuietStep ==
  RInv /\ (RunLoop \/ Cancel \/ TLSBreaks \/ PppdExits) => RInv'
<1> SUFFICES ASSUME RInv, RunLoop \/ Cancel \/ TLSBreaks \/ PppdExits PROVE RInv'
  OBVIOUS
<1> USE DEF RInv, TypeOK, Done
<1> DEFINE Fine == /\ main' \in {"select", "deadline", "close", "wait", "returned"}
                   /\ outside' \in BOOLEAN /\ stop' \in BOOLEAN /\ errs' \in 0..MaxErrs
                   /\ tls' \in {"open", "broken", "expired"} /\ pty' \in {"open", "closed"}
                   /\ Rest /\ (Done => Done')
<1>1. Fine
  <2>1. CASE ErrorReceived  BY <2>1 DEF ErrorReceived, MaxErrs
  <2>2. CASE ContextDone  BY <2>2 DEF ContextDone
  <2>3. CASE SetDeadline  BY <2>3 DEF SetDeadline
  <2>4. CASE OnCancel  BY <2>4 DEF OnCancel
  <2>5. CASE Return  BY <2>5 DEF Return
  <2>6. CASE Cancel  BY <2>6 DEF Cancel
  <2>7. CASE TLSBreaks  BY <2>7 DEF TLSBreaks
  <2>8. CASE PppdExits  BY <2>8 DEF PppdExits
  <2> QED  BY <2>1, <2>2, <2>3, <2>4, <2>5, <2>6, <2>7, <2>8 DEF RunLoop
<1>2. TypeOK'  BY <1>1 DEF Rest, event
<1>3. Shapes' /\ Held'  BY <1>1 DEF Rest, RInv, Shapes, Held
<1>4. Expected' /\ EventKept'  BY <1>1 DEF Rest, event, RInv, Expected, EventKept
<1>5. \A r \in Readers : Ordered(r)'  BY <1>1 DEF Rest, RInv, Ordered
<1> QED  BY <1>2, <1>3, <1>4, <1>5 DEF RInv

\* A goroutine that only goes somewhere else, r to p.
Goes(r, p) == /\ Move(r, p)
              /\ UNCHANGED <<main, outside, stop, tls, pty, hand, chan, ready, in, out>>
              /\ errs' \in 0..MaxErrs

\* Such a step disturbs nothing, if the goroutine leaves no packet behind.
LEMMA GoesKeeps ==
  ASSUME RInv, NEW r \in Routines, NEW p, Goes(r, p),
         \/ r \in Readers /\ p \in {"check", "read", "done"} /\ (p = "done" \/ hand[r] = << >>)
         \/ r \in Writers /\ p \in {"ready", "recv", "done"} /\ (p = "done" \/ hand[r] = << >>)
         \/ r = "monitor" /\ p \in {"call", "done"}
  PROVE  /\ Shapes' /\ Held' /\ (\A q \in Readers : Ordered(q)')
         /\ ipcpSent' \in BOOLEAN /\ ipcpCh' \in {"empty", "full"} => TypeOK'
<1>1. at \in [Routines -> Places] /\ at' = [at EXCEPT ![r] = p] /\ p \in Places
  BY DEF RInv, Shapes, Goes, Move, Places
<1>2. Shapes'  BY <1>1 DEF RInv, Shapes, Goes
<1>3. Held'
  <2>1. \A q \in Routines : at'[q] = IF q = r THEN p ELSE at[q]  BY <1>1
  <2>2. hand' = hand  BY DEF Goes
  <2>3. ASSUME NEW q \in Readers
        PROVE /\ at'[q] \in {"check", "read"} => hand[q] = << >>
              /\ at'[q] = "forward" => hand[q] # << >>
    BY <2>1, Sides DEF RInv, Held
  <2>4. ASSUME NEW w \in Writers
        PROVE /\ at'[w] \in {"ready", "recv"} => hand[w] = << >>
              /\ at'[w] = "write" => Len(hand[w]) = 1
    BY <2>1, Sides DEF RInv, Held
  <2> QED  BY <2>2, <2>3, <2>4 DEF RInv, Held
<1>4. \A q \in Readers : Ordered(q)'  BY DEF Goes, RInv, Ordered
<1>5. ASSUME ipcpSent' \in BOOLEAN, ipcpCh' \in {"empty", "full"} PROVE TypeOK'
  BY <1>1, <1>5, Sides DEF Goes, RInv, TypeOK
<1> QED  BY <1>2, <1>3, <1>4, <1>5

\* The steps that end a call or a wait leave every packet where it is.
LEMMA IdleStep ==
  ASSUME RInv, NEW r \in Routines,
         \/ Check(r) \/ ReadFails(r) \/ WriteFails(r) \/ Quit(r)
         \/ r = "ptyWriter" /\ PppdReady
         \/ r = "monitor" /\ (Event \/ OnIPCPReturns)
  PROVE  RInv'
<1> DEFINE p == at'[r]
           Allowed == \/ r \in Readers /\ p \in {"check", "read", "done"}
                         /\ (p = "done" \/ hand[r] = << >>)
                      \/ r \in Writers /\ p \in {"ready", "recv", "done"}
                         /\ (p = "done" \/ hand[r] = << >>)
                      \/ r = "monitor" /\ p \in {"call", "done"}
<1>1. at \in [Routines -> Places] /\ errs \in 0..MaxErrs /\ MaxErrs = 5
  BY DEF RInv, TypeOK, Shapes, MaxErrs
<1>2. /\ Goes(r, p) /\ Allowed
      /\ ipcpSent' \in BOOLEAN /\ ipcpCh' \in {"empty", "full"}
      /\ Expected' /\ EventKept'
  <2> USE DEF shut, event
  <2>1. CASE Check(r)
    BY <1>1, <2>1, Sides DEF Check, Goes, Move, RInv, TypeOK, Held, Expected, EventKept, Done
  <2>2. CASE ReadFails(r)
    BY <1>1, <2>2, Sides DEF ReadFails, Report, Goes, Move, RInv, TypeOK, Expected, EventKept, Done
  <2>3. CASE WriteFails(r)
    BY <1>1, <2>3, Sides DEF WriteFails, Report, Goes, Move, RInv, TypeOK, Expected, EventKept, Done
  <2>4. CASE Quit(r)
    BY <1>1, <2>4, Sides DEF Quit, Goes, Move, RInv, TypeOK, Expected, EventKept, Done, Routines
  <2>5. CASE r = "ptyWriter" /\ PppdReady
    BY <1>1, <2>5, Sides DEF PppdReady, Goes, Move, RInv, TypeOK, Held, Expected, EventKept, Done
  <2>6. CASE r = "monitor" /\ Event
    BY <1>1, <2>6, Sides DEF Event, Goes, Move, RInv, TypeOK, Expected, EventKept, Done
  <2>7. CASE r = "monitor" /\ OnIPCPReturns
    BY <1>1, <2>7, Sides DEF OnIPCPReturns, Goes, Move, RInv, TypeOK, Expected, EventKept, Done
  <2> QED  BY <2>1, <2>2, <2>3, <2>4, <2>5, <2>6, <2>7
<1> HIDE DEF p
<1> QED  BY <1>2, GoesKeeps DEF RInv

\* What the proofs of the steps that move packets use of the state.
LEMMA Shape ==
  ASSUME RInv
  PROVE  /\ at \in [Routines -> Places]
         /\ \A r \in Readers : /\ hand[r] \in Seq(Nat) /\ in[r] \in Nat
                              /\ hand[To(r)] \in Seq(Nat) /\ chan[To(r)] \in Seq(Nat)
                              /\ out[To(r)] \in Seq(Nat)
         /\ \A w \in Writers : \E r \in Readers : w = To(r)
<1>1. \A w \in Writers : \E r \in Readers : w = To(r)  BY DEF Writers, Readers, To
<1> QED  BY <1>1, Sides DEF RInv, Shapes

\* Sequences of length 0 are empty.
LEMMA Empty == ASSUME NEW s \in Seq(Nat) PROVE s = << >> <=> Len(s) = 0
OBVIOUS

\* A step that puts reader r at place a and its writer at b, and leaves the
\* packets o, h, c and g of the line of n; the event is kept.
Moves(r, a, b, o, h, c, g, n) ==
  /\ at' = [at EXCEPT ![r] = a, ![To(r)] = b]
  /\ hand' = [hand EXCEPT ![r] = g, ![To(r)] = h]
  /\ chan' = [chan EXCEPT ![To(r)] = c] /\ out' = [out EXCEPT ![To(r)] = o]
  /\ in' = [in EXCEPT ![r] = n] /\ shut' = shut
  /\ ready' \in BOOLEAN /\ ipcpSent' \in BOOLEAN /\ ipcpCh' \in {"empty", "full"}
  /\ Expected' /\ EventKept'

\* The packets fit where they are, and match where the two goroutines are.
Fits(r, a, b, h, c, g) ==
  /\ Len(h) <= 1 /\ Len(c) <= Cap /\ Len(g) <= Burst /\ (r = "sslReader" => Len(g) <= 1)
  /\ a \in {"check", "read", "forward", "done"} /\ b \in {"ready", "recv", "write", "done"}
  /\ (a \in {"check", "read"} => g = << >>) /\ (a = "forward" => g # << >>)
  /\ (b \in {"ready", "recv"} => h = << >>) /\ (b = "write" => Len(h) = 1)

\* A step that moves packets within one direction keeps the invariant if they
\* stay in line and fit.
LEMMA PacketStep ==
  ASSUME RInv, NEW r \in Readers,
         NEW a, NEW b, NEW o \in Seq(Nat), NEW h \in Seq(Nat), NEW c \in Seq(Nat),
         NEW g \in Seq(Nat), NEW n \in Nat,
         Moves(r, a, b, o, h, c, g, n), Fits(r, a, b, h, c, g), Line(o, h, c, g, n)
  PROVE  RInv'
<1> USE DEF Moves, Fits
<1> DEFINE w == To(r)
<1>1. w \in Writers /\ r \notin Writers /\ w \notin Readers /\ w # r
      /\ r \in Routines /\ w \in Routines /\ r # "monitor" /\ w # "monitor"
  BY Sides
<1>2. Shapes'
  <2>1. a \in Places /\ b \in Places  BY DEF Places
  <2> QED  BY <1>1, <2>1 DEF RInv, Shapes
<1>3. /\ at'[r] = a /\ hand'[r] = g /\ in'[r] = n
      /\ at'[w] = b /\ hand'[w] = h /\ chan'[w] = c /\ out'[w] = o
      /\ at'["monitor"] = at["monitor"]
  BY <1>1, Sides DEF RInv, Shapes
<1>4. /\ \A q \in Readers \ {r} : at'[q] = at[q] /\ hand'[q] = hand[q] /\ in'[q] = in[q]
      /\ \A v \in Writers \ {w} : /\ at'[v] = at[v] /\ hand'[v] = hand[v]
                                 /\ chan'[v] = chan[v] /\ out'[v] = out[v]
  BY <1>1, Sides DEF RInv, Shapes
<1> HIDE DEF w
<1>5. Held'
  <2>1. ASSUME NEW q \in Readers
        PROVE /\ at'[q] \in {"check", "read"} => hand'[q] = << >>
              /\ at'[q] = "forward" => hand'[q] # << >>
              /\ q = "sslReader" => Len(hand'[q]) <= 1
    <3>1. CASE q = r  BY <1>3, <3>1
    <3>2. CASE q # r  BY <1>4, <3>2, ZenonT(40) DEF RInv, Held
    <3> QED  BY <3>1, <3>2
  <2>2. ASSUME NEW v \in Writers
        PROVE /\ at'[v] \in {"ready", "recv"} => hand'[v] = << >>
              /\ at'[v] = "write" => Len(hand'[v]) = 1
    <3>1. CASE v = w  BY <1>3, <3>1
    <3>2. CASE v # w  BY <1>4, <3>2 DEF RInv, Held
    <3> QED  BY <3>1, <3>2
  <2>3. Len(hand'["sslReader"]) <= 1  BY <2>1, Sides
  <2> QED  BY <2>1, <2>2, <2>3 DEF Held
<1>6. TypeOK'
  <2>1. ASSUME NEW q \in Readers
        PROVE at'[q] \in {"check", "read", "forward", "done"} /\ Len(hand'[q]) <= Burst
    <3>1. CASE q = r  BY <1>3, <3>1
    <3>2. CASE q # r  BY <1>4, <3>2 DEF RInv, TypeOK
    <3> QED  BY <3>1, <3>2
  <2>2. ASSUME NEW v \in Writers
        PROVE /\ at'[v] \in {"ready", "recv", "write", "done"}
              /\ Len(hand'[v]) <= 1 /\ Len(chan'[v]) <= Cap
    <3>1. CASE v = w  BY <1>3, <3>1
    <3>2. CASE v # w  BY <1>4, <3>2 DEF RInv, TypeOK
    <3> QED  BY <3>1, <3>2
  <2>3. /\ UNCHANGED <<main, outside, stop, errs, tls, pty>>
        /\ at'["monitor"] \in {"wait", "call", "done"}
    BY <1>3 DEF shut, RInv, TypeOK
  <2> QED  BY <2>1, <2>2, <2>3 DEF RInv, TypeOK
<1>7. ASSUME NEW q \in Readers PROVE Ordered(q)'
  <2>1. CASE q = r  BY <1>3, <2>1 DEF w, Ordered
  <2>2. CASE q # r
    <3>1. To(q) \in Writers \ {w}  BY <2>2, Sides DEF w
    <3> QED  BY <1>4, <2>2, <3>1 DEF RInv, Ordered
  <2> QED  BY <2>1, <2>2
<1> QED  BY <1>2, <1>5, <1>6, <1>7 DEF RInv

\* What holds of a direction before the step.
LEMMA Before ==
  ASSUME RInv, NEW r \in Readers
  PROVE  /\ To(r) \in Writers /\ Line(out[To(r)], hand[To(r)], chan[To(r)], hand[r], in[r])
         /\ Fits(r, at[r], at[To(r)], hand[To(r)], chan[To(r)], hand[r])
         /\ Cap \in Nat \ {0} /\ Burst \in Nat \ {0}
         /\ ready \in BOOLEAN /\ ipcpSent \in BOOLEAN /\ ipcpCh \in {"empty", "full"}
BY Sides, RelayAssumption DEF RInv, TypeOK, Held, Ordered, Fits

\* A step that leaves the event and the monitor alone leaves it kept.
LEMMA EventAlone ==
  ASSUME RInv, shut' = shut, event' = event, at'["monitor"] = at["monitor"]
  PROVE  Expected' /\ EventKept'
BY DEF RInv, shut, event, Expected, EventKept, Done

\* A packet goes from a reader's hand into the channel.
LEMMA ForwardStep == ASSUME RInv, NEW r \in Readers, Forward(r) PROVE RInv'
<1> DEFINE w == To(r)
           a == IF Len(hand[r]) = 1 THEN "check" ELSE "forward"
           c == Append(chan[w], Head(hand[r]))
           g == Tail(hand[r])
<1>1. /\ hand[r] # << >> /\ Len(chan[w]) < Cap /\ w \in Writers
      /\ hand[r] \in Seq(Nat) /\ chan[w] \in Seq(Nat) /\ hand[w] \in Seq(Nat)
      /\ out[w] \in Seq(Nat) /\ in[r] \in Nat
  BY Shape, Before DEF Forward, Fits
<1>2. /\ g \in Seq(Nat) /\ c \in Seq(Nat)
      /\ Len(g) = Len(hand[r]) - 1 /\ Len(c) = Len(chan[w]) + 1
      /\ Len(hand[r]) \in Nat /\ Len(chan[w]) \in Nat
  BY <1>1
<1>3. Line(out[w], hand[w], c, g, in[r])
  BY <1>1, Before, LineForward
<1>4. g = << >> <=> Len(g) = 0  BY <1>2, Empty
<1>5. /\ at' = [at EXCEPT ![r] = a, ![w] = at[w]]
      /\ hand' = [hand EXCEPT ![r] = g, ![w] = hand[w]]
      /\ chan' = [chan EXCEPT ![w] = c] /\ out' = [out EXCEPT ![w] = out[w]]
      /\ in' = [in EXCEPT ![r] = in[r]] /\ shut' = shut /\ event' = event /\ ready' = ready
      /\ at'["monitor"] = at["monitor"]
  BY <1>1, Sides DEF Forward, Move, RInv, Shapes
<1> HIDE DEF c, g, w
<1>6. Len(c) <= Cap /\ Len(g) <= Burst /\ (r = "sslReader" => Len(g) <= 1)
  BY <1>1, <1>2, Before, SMTT(30) DEF w, Fits
<1>7. g = << >> <=> Len(hand[r]) = 1  BY <1>2, <1>4
<1>8. Fits(r, a, at[w], hand[w], c, g)  BY <1>6, <1>7, Before DEF w, Fits
<1>9. Moves(r, a, at[w], out[w], hand[w], c, g, in[r])
  BY <1>5, Before, EventAlone DEF w, event, Moves
<1> HIDE DEF a
<1> QED  BY <1>1, <1>2, <1>3, <1>8, <1>9, PacketStep DEF w

\* A packet goes from the channel into the writer's hand.
LEMMA RecvStep == ASSUME RInv, NEW w \in Writers, Recv(w) PROVE RInv'
<1>1. PICK r \in Readers : w = To(r)  BY Shape
<1> DEFINE h == <<Head(chan[w])>>
           c == Tail(chan[w])
<1>2. /\ chan[w] # << >> /\ hand[w] = << >>
      /\ hand[r] \in Seq(Nat) /\ chan[w] \in Seq(Nat)
      /\ out[w] \in Seq(Nat) /\ in[r] \in Nat
  BY <1>1, Shape, Before DEF Recv, Fits
<1>3. /\ h \in Seq(Nat) /\ c \in Seq(Nat) /\ Len(h) = 1
      /\ Len(c) = Len(chan[w]) - 1 /\ Len(chan[w]) \in Nat
  BY <1>2
<1>4. Line(out[w], h, c, hand[r], in[r])  BY <1>1, <1>2, Before, LineRecv
<1>5. /\ at' = [at EXCEPT ![r] = at[r], ![w] = "write"]
      /\ hand' = [hand EXCEPT ![r] = hand[r], ![w] = h]
      /\ chan' = [chan EXCEPT ![w] = c] /\ out' = [out EXCEPT ![w] = out[w]]
      /\ in' = [in EXCEPT ![r] = in[r]] /\ shut' = shut /\ event' = event /\ ready' = ready
      /\ at'["monitor"] = at["monitor"]
  BY <1>1, Sides DEF Recv, Move, RInv, Shapes
<1> HIDE DEF c, h
<1>6. Len(c) <= Cap  BY <1>1, <1>3, Before DEF Fits
<1>7. Fits(r, at[r], "write", h, c, hand[r])  BY <1>1, <1>3, <1>6, Before DEF Fits
<1>8. Moves(r, at[r], "write", out[w], h, c, hand[r], in[r])
  BY <1>1, <1>5, Before, EventAlone DEF event, Moves
<1> QED  BY <1>1, <1>2, <1>3, <1>4, <1>7, <1>8, PacketStep

\* The other side takes the packet in the writer's hand.
LEMMA AcceptStep == ASSUME RInv, NEW w \in Writers, Accept(w) PROVE RInv'
<1>1. PICK r \in Readers : w = To(r)  BY Shape
<1> DEFINE o == Append(out[w], Head(hand[w]))
<1>2. /\ Len(hand[w]) = 1 /\ hand[w] \in Seq(Nat)
      /\ hand[r] \in Seq(Nat) /\ chan[w] \in Seq(Nat)
      /\ out[w] \in Seq(Nat) /\ in[r] \in Nat
  BY <1>1, Shape, Before DEF Accept, Fits
<1>3. o \in Seq(Nat) /\ << >> \in Seq(Nat) /\ Len(<< >>) = 0  BY <1>2
<1>4. Line(o, << >>, chan[w], hand[r], in[r])  BY <1>1, <1>2, Before, LineAccept
<1>5. /\ at' = [at EXCEPT ![r] = at[r], ![w] = "recv"]
      /\ hand' = [hand EXCEPT ![r] = hand[r], ![w] = << >>]
      /\ chan' = [chan EXCEPT ![w] = chan[w]] /\ out' = [out EXCEPT ![w] = o]
      /\ in' = [in EXCEPT ![r] = in[r]] /\ shut' = shut /\ event' = event /\ ready' = ready
      /\ at'["monitor"] = at["monitor"]
  BY <1>1, Sides DEF Accept, Move, RInv, Shapes
<1> HIDE DEF o
<1>6. Fits(r, at[r], "recv", << >>, chan[w], hand[r])  BY <1>1, <1>3, Before DEF Fits
<1>7. Moves(r, at[r], "recv", o, << >>, chan[w], hand[r], in[r])
  BY <1>1, <1>5, Before, EventAlone DEF event, Moves
<1> QED  BY <1>1, <1>2, <1>3, <1>4, <1>6, <1>7, PacketStep

\* sslReader reads a packet, and sends the event of the first Ack.
LEMMA SslReadStep == RInv /\ SslRead => RInv'
<1> SUFFICES ASSUME RInv, SslRead PROVE RInv'  OBVIOUS
<1> DEFINE r == "sslReader"
           w == To(r)
           g == <<in[r] + 1>>
<1>1. /\ r \in Readers /\ w \in Writers /\ hand[r] = << >>
      /\ hand[w] \in Seq(Nat) /\ chan[w] \in Seq(Nat) /\ out[w] \in Seq(Nat) /\ in[r] \in Nat
  BY Sides, Shape, Before DEF SslRead, Fits
<1>2. g \in Seq(Nat) /\ Len(g) = 1 /\ g # << >> /\ g[1] = in[r] + 1  BY <1>1
<1>3. Line(out[w], hand[w], chan[w], g, in[r] + 1)
  <2>1. Line(out[w], hand[w], chan[w], << >>, in[r])  BY <1>1, Before
  <2>2. in[r] = Len(out[w]) + Len(hand[w]) + Len(chan[w])  BY <2>1 DEF Line
  <2>3. Len(out[w]) \in Nat /\ Len(hand[w]) \in Nat /\ Len(chan[w]) \in Nat  BY <1>1
  <2>4. in[r] + 1 = Len(out[w]) + Len(hand[w]) + Len(chan[w]) + Len(g)
    BY <1>1, <1>2, <2>2, <2>3
  <2>5. \A i \in 1..Len(g) : g[i] = Len(out[w]) + Len(hand[w]) + Len(chan[w]) + i
    <3>1. \A i \in 1..Len(g) : i = 1  BY <1>2
    <3> HIDE DEF g, w
    <3> QED  BY <1>2, <2>2, <3>1
  <2> HIDE DEF g, w
  <2> QED  BY <2>1, <2>4, <2>5 DEF Line
<1>4. /\ at' = [at EXCEPT ![r] = "forward", ![w] = at[w]]
      /\ hand' = [hand EXCEPT ![r] = g, ![w] = hand[w]]
      /\ chan' = [chan EXCEPT ![w] = chan[w]] /\ out' = [out EXCEPT ![w] = out[w]]
      /\ in' = [in EXCEPT ![r] = in[r] + 1] /\ shut' = shut /\ ready' = ready
      /\ at'["monitor"] = at["monitor"]
  BY <1>1, Sides DEF SslRead, Move, RInv, Shapes
<1>5. /\ ipcpSent' \in BOOLEAN /\ ipcpCh' \in {"empty", "full"}
      /\ Expected' /\ EventKept'
  BY <1>1, <1>4, Before DEF SslRead, shut, event, RInv, Expected, EventKept, Done
<1> HIDE DEF g
<1>6. Fits(r, "forward", at[w], hand[w], chan[w], g)  BY <1>1, <1>2, Before DEF Fits
<1>7. Moves(r, "forward", at[w], out[w], hand[w], chan[w], g, in[r] + 1)
  BY <1>4, <1>5, Before, <1>1 DEF Moves
<1>8. in[r] + 1 \in Nat  BY <1>1
<1> QED  BY <1>1, <1>2, <1>3, <1>6, <1>7, <1>8, PacketStep

\* A read of the PTY completes any number of frames, or none.
LEMMA PtyReadStep == RInv /\ PtyRead => RInv'
<1> SUFFICES ASSUME RInv, PtyRead PROVE RInv'  OBVIOUS
<1> DEFINE r == "ptyReader"
           w == To(r)
<1>1. /\ r \in Readers /\ w \in Writers /\ hand[r] = << >>
      /\ hand[w] \in Seq(Nat) /\ chan[w] \in Seq(Nat) /\ out[w] \in Seq(Nat) /\ in[r] \in Nat
      /\ Burst \in Nat
  BY Sides, Shape, Before DEF PtyRead, Fits
<1>2. PICK n \in 0..Burst :
         /\ in' = [in EXCEPT ![r] = @ + n]
         /\ hand' = [hand EXCEPT ![r] = [i \in 1..n |-> in[r] + i]]
         /\ Move(r, IF n = 0 THEN "check" ELSE "forward")
  BY DEF PtyRead
<1> DEFINE g == [i \in 1..n |-> in[r] + i]
           a == IF n = 0 THEN "check" ELSE "forward"
<1>3. n \in Nat /\ n <= Burst  BY <1>1
<1>4. g \in Seq(Nat) /\ Len(g) = n  BY <1>1, <1>3
<1>5. Line(out[w], hand[w], chan[w], g, in[r] + n)
  BY <1>1, <1>3, Before, LineRead
<1>6. g = << >> <=> Len(g) = 0
  <2> HIDE DEF g
  <2> QED  BY <1>4, Empty
<1>7. /\ at' = [at EXCEPT ![r] = a, ![w] = at[w]]
      /\ hand' = [hand EXCEPT ![r] = g, ![w] = hand[w]]
      /\ chan' = [chan EXCEPT ![w] = chan[w]] /\ out' = [out EXCEPT ![w] = out[w]]
      /\ in' = [in EXCEPT ![r] = in[r] + n] /\ shut' = shut /\ ready' = TRUE
      /\ at'["monitor"] = at["monitor"] /\ event' = event
  <2> HIDE DEF g
  <2>1. hand' = [hand EXCEPT ![r] = g]  BY <1>2 DEF g
  <2>2. /\ at \in [Routines -> Places] /\ hand \in [Readers \cup Writers -> Seq(Nat)]
        /\ chan \in [Writers -> Seq(Nat)] /\ out \in [Writers -> Seq(Nat)]
        /\ r # w /\ r \in Routines /\ w \in Routines /\ r # "monitor" /\ w # "monitor"
    BY <1>1, Sides DEF RInv, Shapes
  <2>3. at' = [at EXCEPT ![r] = a]  BY <1>2 DEF Move
  <2>4. /\ at' = [at EXCEPT ![r] = a, ![w] = at[w]] /\ at'["monitor"] = at["monitor"]
    <3> HIDE DEF a, w
    <3> QED  BY <2>2, <2>3, Sides
  <2>5. hand' = [hand EXCEPT ![r] = g, ![w] = hand[w]]  BY <1>1, <2>1, <2>2
  <2>6. UNCHANGED <<shut, chan, event, out>> /\ ready' = TRUE  BY DEF PtyRead
  <2>7. chan' = [chan EXCEPT ![w] = chan[w]] /\ out' = [out EXCEPT ![w] = out[w]]
    BY <2>2, <2>6
  <2> QED  BY <1>2, <2>4, <2>5, <2>6, <2>7
<1> HIDE DEF g
<1>8. Fits(r, a, at[w], hand[w], chan[w], g)  BY <1>1, <1>3, <1>4, <1>6, Before DEF Fits
<1>9. Moves(r, a, at[w], out[w], hand[w], chan[w], g, in[r] + n)
  BY <1>7, <1>1, Before, EventAlone DEF event, Moves
<1>10. in[r] + n \in Nat  BY <1>1, <1>3
<1> HIDE DEF a
<1> QED  BY <1>1, <1>4, <1>5, <1>8, <1>9, <1>10, PacketStep

\* Every step keeps the invariant.
LEMMA StepInv == RInv /\ [Next]_vars => RInv'
<1> SUFFICES ASSUME RInv, [Next]_vars PROVE RInv'  OBVIOUS
<1>1. CASE RunLoop \/ Cancel \/ TLSBreaks \/ PppdExits  BY <1>1, QuietStep
<1>2. ASSUME NEW r \in Routines, Step(r) PROVE RInv'
  <2>1. CASE Forward(r)
    <3>1. r \in Readers  BY <2>1 DEF Forward
    <3> QED  BY <2>1, <3>1, ForwardStep
  <2>2. CASE Recv(r)
    <3>1. r \in Writers  BY <2>2 DEF Recv
    <3> QED  BY <2>2, <3>1, RecvStep
  <2> QED  BY <1>2, <2>1, <2>2, IdleStep DEF Step
<1>3. CASE SslRead  BY <1>3, SslReadStep
<1>4. CASE PtyRead  BY <1>4, PtyReadStep
<1>5. ASSUME NEW w \in Writers, Accept(w) PROVE RInv'  BY <1>5, AcceptStep
<1>6. CASE UNCHANGED vars
  BY <1>6 DEF vars, shut, event, RInv, TypeOK, Shapes, Held, Expected, EventKept, Done, Ordered
<1> QED  BY <1>1, <1>2, <1>3, <1>4, <1>5, <1>6 DEF Next

\* All the reachable states of RunLoop satisfy the invariant.
LEMMA Invariant == Spec => []RInv
BY InitInv, StepInv, PTL DEF Spec

-----------------------------------------------------------------------------
(* What follows.                                                           *)

\* The channels never hold more than Cap, a reader never more than one read
\* completed, a writer never more than one packet; errCh never overflows.
THEOREM TypeCorrect == Spec => []TypeOK
<1>1. RInv => TypeOK  BY DEF RInv
<1> QED  BY <1>1, Invariant, PTL

\* ipcpCh and ifConfigMonitor: while the loop runs, the event of the first Ack
\* is queued exactly as long as the monitor waits for it, and no Ack sent again
\* makes a second one.
THEOREM Kept == Spec => []EventKept
<1>1. RInv => EventKept  BY DEF RInv
<1> QED  BY <1>1, Invariant, PTL

\* Never more is under way than the channel and the two hands hold.
Bounded == \A r \in Readers :
             /\ in[r] \in Nat /\ Len(out[To(r)]) \in Nat /\ Len(out[To(r)]) <= in[r]
             /\ in[r] - Len(out[To(r)]) <= Cap + Burst + 1
             /\ r = "sslReader" => in[r] - Len(out[To(r)]) <= Cap + 2

\* It follows from the line.
LEMMA UnderWay == RInv => Bounded
<1> SUFFICES ASSUME RInv, NEW r \in Readers
             PROVE  /\ in[r] \in Nat /\ Len(out[To(r)]) \in Nat /\ Len(out[To(r)]) <= in[r]
                    /\ in[r] - Len(out[To(r)]) <= Cap + Burst + 1
                    /\ r = "sslReader" => in[r] - Len(out[To(r)]) <= Cap + 2
  BY DEF Bounded
<1>1. /\ Len(out[To(r)]) \in Nat /\ Len(hand[To(r)]) \in Nat /\ Len(chan[To(r)]) \in Nat
      /\ Len(hand[r]) \in Nat /\ in[r] \in Nat /\ Cap \in Nat /\ Burst \in Nat
  BY Shape, RelayAssumption
<1>2. in[r] = Len(out[To(r)]) + Len(hand[To(r)]) + Len(chan[To(r)]) + Len(hand[r])
  BY Before DEF Line
<1>3. /\ Len(hand[To(r)]) <= 1 /\ Len(chan[To(r)]) <= Cap /\ Len(hand[r]) <= Burst
      /\ r = "sslReader" => Len(hand[r]) <= 1
  BY Before DEF Fits
<1>4. ASSUME NEW o \in Nat, NEW h \in Nat, NEW c \in Nat, NEW g \in Nat, NEW n \in Nat,
             NEW m \in Nat, n = o + h + c + g, h <= 1, c <= Cap, g <= m
      PROVE  o <= n /\ n - o <= Cap + m + 1
  BY <1>1, <1>4
<1>5. Len(out[To(r)]) <= in[r] /\ in[r] - Len(out[To(r)]) <= Cap + Burst + 1
  BY <1>1, <1>2, <1>3, <1>4, ZenonT(40)
<1>6. r = "sslReader" => in[r] - Len(out[To(r)]) <= Cap + 1 + 1
  BY <1>1, <1>2, <1>3, <1>4, ZenonT(40)
<1> QED  BY <1>1, <1>5, <1>6

\* What a step can do to the two ends of a direction: nothing, read up to Burst
\* packets, or write the next one.
LEMMA Ends ==
  ASSUME RInv, [Next]_vars, NEW r \in Readers
  PROVE  \/ in'[r] = in[r] /\ out'[To(r)] = out[To(r)]
         \/ /\ \E n \in 1..Burst : in'[r] = in[r] + n
            /\ out'[To(r)] = out[To(r)]
         \/ /\ Len(out[To(r)]) < in[r] /\ in'[r] = in[r]
            /\ out'[To(r)] = Append(out[To(r)], Len(out[To(r)]) + 1)
<1>1. CASE RunLoop \/ Cancel \/ TLSBreaks \/ PppdExits \/ UNCHANGED vars
  BY <1>1 DEF RunLoop, ErrorReceived, ContextDone, SetDeadline, OnCancel, Return, Cancel,
              TLSBreaks, PppdExits, Rest, vars
<1>2. ASSUME NEW q \in Routines, Step(q) PROVE in' = in /\ out' = out
  BY <1>2 DEF Step, Check, ReadFails, Forward, Recv, WriteFails, Quit, PppdReady, Event,
              OnIPCPReturns
<1>3. CASE SslRead
  <2>1. /\ in["sslReader"] \in Nat /\ 1 \in 1..Burst /\ out' = out
        /\ in' = [in EXCEPT !["sslReader"] = in["sslReader"] + 1]
    BY <1>3, Shape, Sides, Before DEF SslRead
  <2> QED  BY <2>1 DEF RInv, Shapes
<1>4. CASE PtyRead
  <2>1. PICK n \in 0..Burst : in' = [in EXCEPT !["ptyReader"] = @ + n]  BY <1>4 DEF PtyRead
  <2>2. out' = out  BY <1>4 DEF PtyRead
  <2>3. in'[r] = in[r] \/ in'[r] = in[r] + n  BY <2>1 DEF RInv, Shapes
  <2>4. n = 0 => in'[r] = in[r]  BY <2>1, <2>3, Shape
  <2>5. n # 0 => n \in 1..Burst  BY <2>1, Before
  <2> QED  BY <2>2, <2>3, <2>4, <2>5
<1>5. ASSUME NEW w \in Writers, Accept(w)
      PROVE  \/ in'[r] = in[r] /\ out'[To(r)] = out[To(r)]
             \/ /\ Len(out[To(r)]) < in[r] /\ in'[r] = in[r]
                /\ out'[To(r)] = Append(out[To(r)], Len(out[To(r)]) + 1)
  <2>1. in' = in /\ out' = [out EXCEPT ![w] = Append(out[w], Head(hand[w]))]
    BY <1>5 DEF Accept
  <2>2. CASE w # To(r)  BY <2>1, <2>2 DEF RInv, Shapes
  <2>3. CASE w = To(r)
    <3>1. Len(hand[w]) = 1  BY <1>5, <2>3, Before DEF Accept, Fits
    <3>2. Head(hand[w]) = Len(out[w]) + 1 /\ Len(out[w]) < in[r]
      BY <2>3, <3>1, Shape, Before, LineAccept
    <3>3. out'[w] = Append(out[w], Head(hand[w]))  BY <2>1, <1>5 DEF RInv, Shapes
    <3> QED  BY <2>1, <2>3, <3>2, <3>3
  <2> QED  BY <2>2, <2>3
<1> QED  BY <1>1, <1>2, <1>3, <1>4, <1>5 DEF Next

\* The gateway's direction: pppd is given the packets in the order they came,
\* each once and none skipped, and sslReader is never more than Cap + 2 ahead.
THEOREM GatewayToPppd == Spec => DownIsPipe
<1>1. Init => Down!Init  BY Sides DEF Init, Down!Init
<1>2. RInv /\ Bounded' /\ [Next]_vars => [Down!Next]_<<in["sslReader"], out["ptyWriter"]>>
  <2> SUFFICES ASSUME RInv, Bounded', [Next]_vars
               PROVE  [Down!Next]_<<in["sslReader"], out["ptyWriter"]>>
    OBVIOUS
  <2>1. /\ "sslReader" \in Readers /\ To("sslReader") = "ptyWriter"
        /\ Cap \in Nat /\ Burst \in Nat
    BY Sides, RelayAssumption DEF To
  <2>2. in'["sslReader"] - Len(out'["ptyWriter"]) <= Cap + 2  BY <2>1 DEF Bounded
  <2>3. CASE UNCHANGED <<in["sslReader"], out["ptyWriter"]>>  BY <2>3
  <2>4. ASSUME NEW n \in 1..Burst, in'["sslReader"] = in["sslReader"] + n,
               out'["ptyWriter"] = out["ptyWriter"]
        PROVE  Down!Next
    <3>1. /\ in["sslReader"] \in Nat /\ Len(out["ptyWriter"]) \in Nat
          /\ Len(out["ptyWriter"]) <= in["sslReader"]
      BY <2>1, UnderWay DEF Bounded
    <3>2. n \in 1..Cap + 2  BY <2>1, <2>2, <2>4, <3>1
    <3>3. Down!Take(n)  BY <2>2, <2>4 DEF Down!Take
    <3> QED  BY <3>2, <3>3 DEF Down!Next
  <2>5. CASE /\ Len(out["ptyWriter"]) < in["sslReader"] /\ in'["sslReader"] = in["sslReader"]
             /\ out'["ptyWriter"] = Append(out["ptyWriter"], Len(out["ptyWriter"]) + 1)
    BY <2>5 DEF Down!Next, Down!Give
  <2> QED  BY <2>1, <2>3, <2>4, <2>5, Ends
<1> QED  BY <1>1, <1>2, Invariant, UnderWay, PTL DEF Spec, DownIsPipe, Down!Spec, Down!pipeVars

\* The other direction: the gateway is given pppd's packets in order, each once
\* and none skipped, and ptyReader is never more than Cap + Burst + 1 ahead.
THEOREM PppdToGateway == Spec => UpIsPipe
<1>1. Init => Up!Init  BY Sides DEF Init, Up!Init
<1>2. RInv /\ Bounded' /\ [Next]_vars => [Up!Next]_<<in["ptyReader"], out["sslWriter"]>>
  <2> SUFFICES ASSUME RInv, Bounded', [Next]_vars
               PROVE  [Up!Next]_<<in["ptyReader"], out["sslWriter"]>>
    OBVIOUS
  <2>1. /\ "ptyReader" \in Readers /\ To("ptyReader") = "sslWriter"
        /\ Cap \in Nat /\ Burst \in Nat
    BY Sides, RelayAssumption DEF To
  <2>2. in'["ptyReader"] - Len(out'["sslWriter"]) <= Cap + Burst + 1  BY <2>1 DEF Bounded
  <2>3. CASE UNCHANGED <<in["ptyReader"], out["sslWriter"]>>  BY <2>3
  <2>4. ASSUME NEW n \in 1..Burst, in'["ptyReader"] = in["ptyReader"] + n,
               out'["sslWriter"] = out["sslWriter"]
        PROVE  Up!Next
    <3>1. n \in 1..Cap + Burst + 1  BY <2>1
    <3>2. Up!Take(n)  BY <2>2, <2>4 DEF Up!Take
    <3> QED  BY <3>1, <3>2 DEF Up!Next
  <2>5. CASE /\ Len(out["sslWriter"]) < in["ptyReader"] /\ in'["ptyReader"] = in["ptyReader"]
             /\ out'["sslWriter"] = Append(out["sslWriter"], Len(out["sslWriter"]) + 1)
    BY <2>5 DEF Up!Next, Up!Give
  <2> QED  BY <2>1, <2>3, <2>4, <2>5, Ends
<1> QED  BY <1>1, <1>2, Invariant, UnderWay, PTL DEF Spec, UpIsPipe, Up!Spec, Up!pipeVars

-----------------------------------------------------------------------------
(* Once the context is done                                                *)

\* The parts of StepsLeft are numbers.
Numbers ==
  /\ MainLeft[main] \in 0..4 /\ WorldLeft \in 0..3 /\ AtLeft[at["monitor"]] \in 0..2
  /\ \A r \in Readers :
       /\ AtLeft[at[r]] + 3 * Len(hand[r]) \in 0..3 * Burst + 3
       /\ AtLeft[at[r]] \in Nat /\ Len(hand[r]) \in Nat
       /\ AtLeft[at[To(r)]] \in 0..2 /\ Len(chan[To(r)]) \in 0..Cap
       /\ WayLeft(r) \in 0..3 * Burst + 5 + 2 * Cap

\* These are the least and the most.
LEMMA Counted == RInv => Numbers
<1> SUFFICES ASSUME RInv PROVE Numbers  OBVIOUS
<1>1. MainLeft[main] \in 0..4  BY DEF RInv, TypeOK, MainLeft
<1>2. WorldLeft \in 0..3  BY DEF RInv, TypeOK, WorldLeft
<1>3. AtLeft[at["monitor"]] \in 0..2  BY DEF RInv, TypeOK, AtLeft
<1>4. ASSUME NEW r \in Readers
      PROVE  /\ AtLeft[at[r]] + 3 * Len(hand[r]) \in 0..3 * Burst + 3
             /\ AtLeft[at[r]] \in Nat /\ Len(hand[r]) \in Nat
             /\ AtLeft[at[To(r)]] \in 0..2 /\ Len(chan[To(r)]) \in 0..Cap
             /\ WayLeft(r) \in 0..3 * Burst + 5 + 2 * Cap
  <2> DEFINE a == AtLeft[at[r]]
             b == AtLeft[at[To(r)]]
             h == Len(hand[r])
             c == Len(chan[To(r)])
  <2>0. Burst \in Nat \ {0} /\ Cap \in Nat \ {0}  BY RelayAssumption
  <2>1. h \in Nat /\ c \in Nat
    <3>1. hand[r] \in Seq(Nat) /\ chan[To(r)] \in Seq(Nat)  BY Shape
    <3> QED  BY <3>1
  <2>2. h <= Burst /\ c <= Cap /\ (at[r] \in {"check", "read"} => h = 0)
    <3>1. Fits(r, at[r], at[To(r)], hand[To(r)], chan[To(r)], hand[r])  BY Before
    <3> QED  BY <3>1 DEF Fits
  <2>3. /\ at[r] \in {"check", "read", "forward", "done"}
        /\ at[To(r)] \in {"ready", "recv", "write", "done"}
    <3>1. Fits(r, at[r], at[To(r)], hand[To(r)], chan[To(r)], hand[r])  BY Before
    <3> QED  BY <3>1 DEF Fits
  <2>4. b \in 0..2  BY <2>3 DEF AtLeft
  <2>5. \/ a = 1 /\ h = 0
        \/ a = 3 * Burst + 3 /\ h = 0
        \/ a \in {0, 2}
    BY <2>2, <2>3 DEF AtLeft
  <2>6. WayLeft(r) = a + 3 * h + b + 2 * c  BY DEF WayLeft
  <2> HIDE DEF a, b, h, c
  <2>7. a \in Nat /\ a + 3 * h \in 0..3 * Burst + 3  BY <2>0, <2>1, <2>2, <2>5
  <2>8. WayLeft(r) \in 0..3 * Burst + 5 + 2 * Cap  BY <2>0, <2>1, <2>2, <2>4, <2>6, <2>7
  <2> QED  BY <2>0, <2>1, <2>2, <2>4, <2>7, <2>8 DEF a, b, h, c
<1> QED  BY <1>1, <1>2, <1>3, <1>4 DEF Numbers

\* Less to do in one direction is less to do in all, if nothing else changes.
LEMMA OneWay ==
  ASSUME RInv, RInv', NEW r \in Readers, UNCHANGED <<main, outside, tls, pty>>,
         \A x \in Routines \ {r, To(r)} : at'[x] = at[x],
         \A q \in Readers \ {r} : hand'[q] = hand[q] /\ chan'[To(q)] = chan[To(q)],
         WayLeft(r)' < WayLeft(r)
  PROVE  StepsLeft' < StepsLeft
<1>1. PICK q \in Readers : q # r /\ Readers = {q, r} /\ To(q) \notin {r, To(r)} /\ q # To(r)
  <2>1. CASE r = "sslReader"  BY <2>1 DEF Readers, To
  <2>2. CASE r = "ptyReader"  BY <2>2 DEF Readers, To
  <2> QED  BY <2>1, <2>2 DEF Readers
<1>2. WayLeft(q)' = WayLeft(q)
  <2>1. at'[q] = at[q] /\ at'[To(q)] = at[To(q)] /\ hand'[q] = hand[q] /\ chan'[To(q)] = chan[To(q)]
    BY <1>1, Sides
  <2> QED  BY <2>1 DEF WayLeft
<1>3. MainLeft[main'] = MainLeft[main] /\ WorldLeft' = WorldLeft /\ AtLeft[at'["monitor"]] = AtLeft[at["monitor"]]
  <2>1. "monitor" \in Routines \ {r, To(r)}  BY Sides
  <2> QED  BY <2>1 DEF WorldLeft
<1> DEFINE m == MainLeft[main] + WorldLeft + AtLeft[at["monitor"]]
           w == WayLeft(r)
           x == WayLeft(r)'
           v == WayLeft(q)
<1>4. m \in Int /\ w \in Int /\ v \in Int  BY Counted, RelayAssumption, SMTT(30) DEF Numbers
<1>5. x \in Int
  <2>1. Numbers'  BY Counted, PTL
  <2> QED  BY <2>1, RelayAssumption DEF Numbers
<1>6. x < w  OBVIOUS
<1>7. StepsLeft = m + w + v /\ StepsLeft' = m + x + v
  <2> DEFINE s == WayLeft("sslReader")
             p == WayLeft("ptyReader")
             y == WayLeft("sslReader")'
             z == WayLeft("ptyReader")'
  <2>1. StepsLeft = m + s + p /\ StepsLeft' = m + y + z  BY <1>3 DEF StepsLeft
  <2>2. \/ s = w /\ p = v /\ y = x /\ z = v
        \/ s = v /\ p = w /\ y = v /\ z = x
    <3>1. CASE r = "sslReader" /\ q = "ptyReader"  BY <1>2, <3>1
    <3>2. CASE r = "ptyReader" /\ q = "sslReader"  BY <1>2, <3>2
    <3> QED  BY <1>1, <3>1, <3>2 DEF Readers
  <2>3. s \in Int /\ p \in Int /\ y \in Int /\ z \in Int  BY <1>4, <1>5, <2>2
  <2> HIDE DEF m, w, x, v, s, p, y, z
  <2> QED  BY <1>4, <1>5, <2>1, <2>2, <2>3
<1> HIDE DEF m, w, x, v
<1> QED  BY <1>4, <1>5, <1>6, <1>7

\* A goroutine of one direction that only goes somewhere else, where less is left.
LEMMA GoesOn ==
  ASSUME RInv, RInv', NEW r \in Readers, NEW x \in {r, To(r)}, NEW p \in Places, Goes(x, p),
         AtLeft[p] < AtLeft[at[x]], AtLeft[p] \in Int
  PROVE  StepsLeft' < StepsLeft
<1>1. /\ at \in [Routines -> Places] /\ at' = [at EXCEPT ![x] = p] /\ x \in Routines
      /\ r \in Routines /\ To(r) \in Routines /\ r # To(r)
  BY Shape, Sides DEF Goes, Move
<1>2. at'[x] = p /\ \A y \in Routines \ {x} : at'[y] = at[y]  BY <1>1
<1>3. WayLeft(r)' < WayLeft(r)
  <2> DEFINE a == AtLeft[at[r]]
             b == AtLeft[at[To(r)]]
             d == AtLeft[at'[r]]
             e == AtLeft[at'[To(r)]]
             h == Len(hand[r])
             c == Len(chan[To(r)])
  <2>1. a \in Int /\ b \in Int /\ h \in Int /\ c \in Int  BY Counted DEF Numbers
  <2>2. WayLeft(r) = a + 3 * h + b + 2 * c /\ WayLeft(r)' = d + 3 * h + e + 2 * c
    BY DEF WayLeft, Goes
  <2>3. \/ d < a /\ d \in Int /\ e = b
        \/ e < b /\ e \in Int /\ d = a
    <3>1. CASE x = r  BY <1>1, <1>2, <3>1
    <3>2. CASE x = To(r)  BY <1>1, <1>2, <3>2
    <3> QED  BY <3>1, <3>2
  <2> HIDE DEF a, b, d, e, h, c
  <2> QED  BY <2>1, <2>2, <2>3
<1> QED  BY <1>2, <1>3, OneWay DEF Goes

\* The places of readers and writers, and what is left in them.
LEMMA Lefts ==
  /\ AtLeft["check"] = 1 /\ AtLeft["read"] = 3 * Burst + 3 /\ AtLeft["forward"] = 2
  /\ AtLeft["ready"] = 2 /\ AtLeft["recv"] = 1 /\ AtLeft["write"] = 2
  /\ AtLeft["wait"] = 2 /\ AtLeft["call"] = 1 /\ AtLeft["done"] = 0
BY DEF AtLeft

\* A goroutine ends a call or a wait, or quits.
LEMMA IdleWinds ==
  ASSUME RInv, RInv', Done, NEW r \in Readers, NEW x \in {r, To(r)},
         Check(x) \/ ReadFails(x) \/ WriteFails(x) \/ Quit(x) \/ (x = "ptyWriter" /\ PppdReady)
  PROVE  StepsLeft' < StepsLeft
<1>1. Burst \in Nat \ {0} /\ errs \in 0..MaxErrs /\ MaxErrs = 5
  BY RelayAssumption DEF RInv, TypeOK, MaxErrs
<1>2. \/ Goes(x, "done") /\ at[x] \in {"check", "read", "write", "ready", "recv", "wait", "forward"}
      \/ Goes(x, "recv") /\ at[x] = "ready"
  <2>1. CASE Check(x)  BY <1>1, <2>1 DEF Check, Goes, shut, Move
  <2>2. CASE ReadFails(x)
    <3>1. errs' \in 0..MaxErrs  BY <1>1, <2>2 DEF ReadFails, Report
    <3> QED  BY <2>2, <3>1 DEF ReadFails, Goes
  <2>3. CASE WriteFails(x)
    <3>1. errs' \in 0..MaxErrs  BY <1>1, <2>3 DEF WriteFails, Report
    <3> QED  BY <2>3, <3>1 DEF WriteFails, Goes
  <2>4. CASE Quit(x)
    <3>1. errs' \in 0..MaxErrs /\ UNCHANGED <<main, outside, stop, tls, pty>>
      BY <1>1, <2>4 DEF Quit, shut
    <3> QED  BY <2>4, <3>1 DEF Quit, Goes
  <2>5. CASE x = "ptyWriter" /\ PppdReady  BY <1>1, <2>5 DEF PppdReady, Goes, shut
  <2> QED  BY <2>1, <2>2, <2>3, <2>4, <2>5
<1>3. CASE Goes(x, "done") /\ at[x] \in {"check", "read", "write", "ready", "recv", "wait", "forward"}
  <2>1. AtLeft["done"] < AtLeft[at[x]] /\ AtLeft["done"] \in Int /\ "done" \in Places
    BY <1>1, <1>3, Lefts DEF Places
  <2> QED  BY <1>3, <2>1, GoesOn
<1>4. CASE Goes(x, "recv") /\ at[x] = "ready"
  <2>1. AtLeft["recv"] < AtLeft[at[x]] /\ AtLeft["recv"] \in Int /\ "recv" \in Places
    BY <1>4, Lefts DEF Places
  <2> QED  BY <1>4, <2>1, GoesOn
<1> QED  BY <1>2, <1>3, <1>4

\* A step that moves packets in one direction puts reader r at a, holding g, and its writer at b,
\* with c between them.
MovesTo(r, a, b, c, g) ==
  /\ at' = [at EXCEPT ![r] = a, ![To(r)] = b]
  /\ hand'[r] = g /\ chan' = [chan EXCEPT ![To(r)] = c]
  /\ \A q \in Readers \ {r} : hand'[q] = hand[q]
  /\ UNCHANGED <<main, outside, tls, pty>>

\* It leaves less to do if what is left at the places and for the packets is less.
LEMMA MovesOn ==
  ASSUME RInv, RInv', NEW r \in Readers, NEW a, NEW b, NEW c, NEW g, MovesTo(r, a, b, c, g),
         Len(c) \in Int, Len(g) \in Int, AtLeft[a] \in Int, AtLeft[b] \in Int,
         AtLeft[a] + 3 * Len(g) + AtLeft[b] + 2 * Len(c)
           < AtLeft[at[r]] + 3 * Len(hand[r]) + AtLeft[at[To(r)]] + 2 * Len(chan[To(r)])
  PROVE  StepsLeft' < StepsLeft
<1>1. /\ at \in [Routines -> Places] /\ chan \in [Writers -> Seq(Nat)]
      /\ r \in Routines /\ To(r) \in Routines /\ To(r) \in Writers /\ r # To(r)
  BY Sides DEF RInv, Shapes
<1>2. /\ at'[r] = a /\ at'[To(r)] = b /\ \A y \in Routines \ {r, To(r)} : at'[y] = at[y]
      /\ chan'[To(r)] = c /\ \A w \in Writers \ {To(r)} : chan'[w] = chan[w]
  BY <1>1 DEF MovesTo
<1>3. WayLeft(r) = AtLeft[at[r]] + 3 * Len(hand[r]) + AtLeft[at[To(r)]] + 2 * Len(chan[To(r)])
  BY DEF WayLeft
<1>4. WayLeft(r)' = AtLeft[a] + 3 * Len(g) + AtLeft[b] + 2 * Len(c)
  BY <1>2 DEF WayLeft, MovesTo
<1>5. WayLeft(r)' < WayLeft(r)  BY <1>3, <1>4
<1>6. ASSUME NEW q \in Readers \ {r} PROVE hand'[q] = hand[q] /\ chan'[To(q)] = chan[To(q)]
  BY <1>2, Sides DEF MovesTo
<1> QED  BY <1>2, <1>5, <1>6, OneWay DEF MovesTo

\* A packet goes from a reader's hand into the channel.
LEMMA ForwardWinds ==
  ASSUME RInv, RInv', NEW r \in Readers, Forward(r)
  PROVE  StepsLeft' < StepsLeft
<1> DEFINE h == Len(hand[r])
           n == Len(chan[To(r)])
           a == IF h = 1 THEN "check" ELSE "forward"
           b == at[To(r)]
           c == Append(chan[To(r)], Head(hand[r]))
           g == Tail(hand[r])
<1>1. /\ at \in [Routines -> Places] /\ hand \in [Readers \cup Writers -> Seq(Nat)]
      /\ chan \in [Writers -> Seq(Nat)] /\ To(r) \in Writers /\ To(r) \in Routines /\ r # To(r)
      /\ at[r] = "forward" /\ hand[r] # << >> /\ hand[r] \in Seq(Nat) /\ chan[To(r)] \in Seq(Nat)
  <2>1. at[r] = "forward"  BY DEF Forward
  <2>2. hand[r] # << >>  BY <2>1 DEF RInv, Held
  <2> QED  BY <2>1, <2>2, Sides DEF RInv, Shapes
<1>2. /\ Len(c) = n + 1 /\ Len(g) = h - 1 /\ h \in Nat /\ n \in Nat
  BY <1>1
<1>3. /\ at' = [at EXCEPT ![r] = a] /\ hand' = [hand EXCEPT ![r] = g]
      /\ chan' = [chan EXCEPT ![To(r)] = c] /\ UNCHANGED <<main, outside, tls, pty>>
  BY DEF Forward, Move, shut
<1>4. AtLeft[a] \in Int /\ AtLeft[a] <= 2  BY Lefts
<1>5. AtLeft[b] \in Int  BY Counted DEF Numbers
<1> HIDE DEF a, b, c, g
<1>6. MovesTo(r, a, b, c, g)
  <2>1. at' = [at EXCEPT ![r] = a, ![To(r)] = b]  BY <1>1, <1>3 DEF b
  <2>2. hand'[r] = g /\ \A q \in Readers \ {r} : hand'[q] = hand[q]  BY <1>1, <1>3
  <2> QED  BY <1>3, <2>1, <2>2 DEF MovesTo
<1>7. AtLeft[a] + 3 * Len(g) + AtLeft[b] + 2 * Len(c)
        < AtLeft[at[r]] + 3 * Len(hand[r]) + AtLeft[at[To(r)]] + 2 * Len(chan[To(r)])
  <2> DEFINE x == AtLeft[a]
             y == AtLeft[b]
             i == Len(g)
             j == Len(c)
  <2>1. AtLeft[at[r]] = 2 /\ AtLeft[at[To(r)]] = y  BY <1>1, Lefts DEF b
  <2>2. x \in Int /\ x <= 2 /\ y \in Int /\ j = n + 1 /\ i = h - 1 /\ h \in Nat /\ n \in Nat
    BY <1>2, <1>4, <1>5
  <2> HIDE DEF x, y, i, j, h, n
  <2>3. x + 3 * i + y + 2 * j < 2 + 3 * h + y + 2 * n  BY <2>2
  <2> QED  BY <2>1, <2>3 DEF x, y, i, j, h, n
<1>8. Len(c) \in Int /\ Len(g) \in Int  BY <1>2
<1> QED  BY <1>4, <1>5, <1>6, <1>7, <1>8, MovesOn

\* A writer takes a packet from the channel.
LEMMA RecvWinds ==
  ASSUME RInv, RInv', NEW r \in Readers, Recv(To(r))
  PROVE  StepsLeft' < StepsLeft
<1> DEFINE h == Len(hand[r])
           n == Len(chan[To(r)])
           a == at[r]
           c == Tail(chan[To(r)])
           g == hand[r]
<1>1. /\ at \in [Routines -> Places] /\ hand \in [Readers \cup Writers -> Seq(Nat)]
      /\ chan \in [Writers -> Seq(Nat)] /\ To(r) \in Writers /\ r \in Routines /\ r # To(r)
      /\ at[To(r)] = "recv" /\ chan[To(r)] # << >> /\ hand[r] \in Seq(Nat) /\ chan[To(r)] \in Seq(Nat)
  BY Sides DEF RInv, Shapes, Recv
<1>2. Len(c) = n - 1 /\ n \in Nat /\ h \in Nat  BY <1>1
<1>3. /\ at' = [at EXCEPT ![To(r)] = "write"]
      /\ hand' = [hand EXCEPT ![To(r)] = <<Head(chan[To(r)])>>]
      /\ chan' = [chan EXCEPT ![To(r)] = c] /\ UNCHANGED <<main, outside, tls, pty>>
  BY DEF Recv, Move, shut
<1>4. AtLeft[a] \in Int  BY Counted DEF Numbers
<1> HIDE DEF a, c
<1>5. MovesTo(r, a, "write", c, g)
  <2>1. at' = [at EXCEPT ![r] = a, ![To(r)] = "write"]  BY <1>1, <1>3 DEF a
  <2>2. \A q \in Readers : hand'[q] = hand[q]  BY <1>1, <1>3, Sides
  <2> QED  BY <1>3, <2>1, <2>2 DEF MovesTo
<1>6. AtLeft[a] + 3 * Len(g) + AtLeft["write"] + 2 * Len(c)
        < AtLeft[at[r]] + 3 * Len(hand[r]) + AtLeft[at[To(r)]] + 2 * Len(chan[To(r)])
  <2> DEFINE x == AtLeft[a]
             j == Len(c)
  <2>1. AtLeft[at[r]] = x /\ AtLeft[at[To(r)]] = 1 /\ AtLeft["write"] = 2  BY <1>1, Lefts DEF a
  <2>2. x \in Int /\ j = n - 1 /\ h \in Nat /\ n \in Nat  BY <1>2, <1>4
  <2> HIDE DEF x, j, h, n
  <2>3. x + 3 * h + 2 + 2 * j < x + 3 * h + 1 + 2 * n  BY <2>2
  <2> QED  BY <2>1, <2>3 DEF x, j, h, n
<1>7. Len(c) \in Int /\ Len(g) \in Int /\ AtLeft["write"] \in Int  BY <1>2, Lefts
<1> HIDE DEF g
<1> QED  BY <1>4, <1>5, <1>6, <1>7, MovesOn

\* A writer writes its packet.
LEMMA AcceptWinds ==
  ASSUME RInv, RInv', NEW r \in Readers, Accept(To(r))
  PROVE  StepsLeft' < StepsLeft
<1> DEFINE a == at[r]
           c == chan[To(r)]
           g == hand[r]
<1>1. /\ at \in [Routines -> Places] /\ hand \in [Readers \cup Writers -> Seq(Nat)]
      /\ chan \in [Writers -> Seq(Nat)] /\ To(r) \in Writers /\ r \in Routines /\ r # To(r)
      /\ at[To(r)] = "write" /\ g \in Seq(Nat) /\ c \in Seq(Nat)
  BY Sides DEF RInv, Shapes, Accept
<1>2. /\ at' = [at EXCEPT ![To(r)] = "recv"] /\ hand' = [hand EXCEPT ![To(r)] = << >>]
      /\ chan' = chan /\ UNCHANGED <<main, outside, tls, pty>>
  BY DEF Accept, Move, shut
<1>3. AtLeft[a] \in Int  BY Counted DEF Numbers
<1>4. Len(c) \in Int /\ Len(g) \in Int  BY <1>1
<1>5. MovesTo(r, a, "recv", c, g)
  <2>1. at' = [at EXCEPT ![r] = a, ![To(r)] = "recv"]  BY <1>1, <1>2
  <2>2. \A q \in Readers : hand'[q] = hand[q]  BY <1>1, <1>2, Sides
  <2>3. chan' = [chan EXCEPT ![To(r)] = c]  BY <1>1, <1>2
  <2> QED  BY <1>2, <2>1, <2>2, <2>3 DEF MovesTo
<1>6. AtLeft[a] + 3 * Len(g) + AtLeft["recv"] + 2 * Len(c)
        < AtLeft[at[r]] + 3 * Len(hand[r]) + AtLeft[at[To(r)]] + 2 * Len(chan[To(r)])
  <2> DEFINE x == AtLeft[at[r]]
             h == Len(hand[r])
             n == Len(chan[To(r)])
  <2>1. AtLeft[at[To(r)]] = 2 /\ AtLeft["recv"] = 1  BY <1>1, Lefts
  <2>2. x \in Int /\ h \in Int /\ n \in Int  BY <1>3, <1>4
  <2> HIDE DEF x, h, n
  <2>3. x + 3 * h + 1 + 2 * n < x + 3 * h + 2 + 2 * n  BY <2>2
  <2> QED  BY <2>1, <2>3 DEF x, h, n
<1>7. AtLeft["recv"] \in Int  BY Lefts
<1> HIDE DEF a, c, g
<1> QED  BY <1>3, <1>4, <1>5, <1>6, <1>7, MovesOn

\* A reader reads up to Burst packets.
LEMMA ReadWinds ==
  ASSUME RInv, RInv', NEW r \in Readers, NEW a \in {"check", "forward"}, NEW k \in 0..Burst, NEW g,
         Len(g) = k, k = 0 => a = "check", at[r] = "read",
         at' = [at EXCEPT ![r] = a], hand' = [hand EXCEPT ![r] = g], chan' = chan,
         UNCHANGED <<main, outside, tls, pty>>
  PROVE  StepsLeft' < StepsLeft
<1> DEFINE b == at[To(r)]
           c == chan[To(r)]
<1>1. /\ at \in [Routines -> Places] /\ hand \in [Readers \cup Writers -> Seq(Nat)]
      /\ chan \in [Writers -> Seq(Nat)] /\ To(r) \in Writers /\ To(r) \in Routines /\ r # To(r)
      /\ c \in Seq(Nat) /\ hand[r] = << >> /\ Burst \in Nat
  <2>1. hand[r] = << >>  BY DEF RInv, Held
  <2> QED  BY <2>1, Sides, RelayAssumption, ZenonT(40) DEF RInv, Shapes
<1>2. AtLeft[b] \in Int /\ AtLeft[a] \in Int /\ AtLeft[a] <= 2  BY Counted, Lefts DEF Numbers
<1>3. MovesTo(r, a, b, c, g)
  <2>1. at' = [at EXCEPT ![r] = a, ![To(r)] = b]  BY <1>1
  <2>2. hand'[r] = g /\ \A q \in Readers \ {r} : hand'[q] = hand[q]  BY <1>1
  <2>3. chan' = [chan EXCEPT ![To(r)] = c]  BY <1>1
  <2> QED  BY <2>1, <2>2, <2>3 DEF MovesTo
<1>4. AtLeft[a] + 3 * Len(g) + AtLeft[b] + 2 * Len(c)
        < AtLeft[at[r]] + 3 * Len(hand[r]) + AtLeft[at[To(r)]] + 2 * Len(chan[To(r)])
  <2> DEFINE x == AtLeft[a]
             y == AtLeft[at[To(r)]]
             n == Len(chan[To(r)])
  <2>1. AtLeft[at[r]] = 3 * Burst + 3 /\ Len(hand[r]) = 0  BY <1>1, Lefts
  <2>2. x \in Int /\ x <= 2 /\ y \in Int /\ n \in Int /\ Burst \in Nat  BY <1>1, <1>2
  <2> HIDE DEF x, y, n
  <2>3. x + 3 * k + y + 2 * n < 3 * Burst + 3 + 3 * 0 + y + 2 * n  BY <2>2
  <2> QED  BY <2>1, <2>3 DEF x, y, n
<1>5. Len(c) \in Int /\ Len(g) \in Int  BY <1>1
<1> HIDE DEF b, c
<1> QED  BY <1>2, <1>3, <1>4, <1>5, MovesOn

\* The monitor, RunLoop and the world: no packet moves.
LEMMA RestWinds ==
  ASSUME RInv, RInv', RunLoop \/ Cancel \/ TLSBreaks \/ PppdExits \/ Event \/ OnIPCPReturns \/ Quit("monitor")
  PROVE  StepsLeft' < StepsLeft
<1> DEFINE m == MainLeft[main]
           w == WorldLeft
           e == AtLeft[at["monitor"]]
           n == MainLeft[main']
           v == WorldLeft'
           f == AtLeft[at'["monitor"]]
           s == WayLeft("sslReader")
           p == WayLeft("ptyReader")
<1>1. m \in Int /\ w \in Int /\ e \in Int /\ s \in Int /\ p \in Int
  <2>1. Numbers  BY Counted
  <2>2. Cap \in Nat /\ Burst \in Nat  BY RelayAssumption
  <2> QED  BY <2>1, <2>2, Sides DEF Numbers
<1>2. n \in Int /\ v \in Int /\ f \in Int
  <2>1. Numbers'  BY Counted, PTL
  <2> QED  BY <2>1 DEF Numbers
<1>3. WayLeft("sslReader")' = s /\ WayLeft("ptyReader")' = p
  <2>1. /\ hand' = hand /\ chan' = chan
        /\ \A x \in Readers \cup Writers : at'[x] = at[x]
    <3>1. CASE RunLoop \/ Cancel \/ TLSBreaks \/ PppdExits
      BY <3>1 DEF RunLoop, ErrorReceived, ContextDone, SetDeadline, OnCancel, Return, Cancel,
                  TLSBreaks, PppdExits, Rest
    <3>2. CASE Event \/ OnIPCPReturns \/ Quit("monitor")
      <4>1. hand' = hand /\ chan' = chan /\ \E y : at' = [at EXCEPT !["monitor"] = y]
        BY <3>2 DEF Event, OnIPCPReturns, Quit, Move
      <4> QED  BY <4>1, Sides DEF RInv, Shapes
    <3> QED  BY <3>1, <3>2
  <2> QED  BY <2>1, Sides DEF WayLeft
<1>4. n + v + f < m + w + e
  <2>1. CASE RunLoop
    <3>1. at' = at /\ outside' = outside /\ n < m
      BY <2>1 DEF RunLoop, ErrorReceived, ContextDone, SetDeadline, OnCancel, Return, Rest, MainLeft
    <3>2. v <= w
      <4>1. (tls' = "open" => tls = "open") /\ (pty' = "open" => pty = "open")
        BY <2>1 DEF RunLoop, ErrorReceived, ContextDone, SetDeadline, OnCancel, Return
      <4> QED  BY <3>1, <4>1 DEF WorldLeft
    <3> HIDE DEF n, m, v, w
    <3> QED  BY <1>1, <1>2, <3>1, <3>2
  <2>2. CASE Cancel \/ TLSBreaks \/ PppdExits
    <3>1. at' = at /\ main' = main  BY <2>2 DEF Cancel, TLSBreaks, PppdExits, Rest
    <3>2. v < w
      <4>1. CASE Cancel  BY <4>1 DEF Cancel, WorldLeft
      <4>2. CASE TLSBreaks  BY <4>2 DEF TLSBreaks, WorldLeft
      <4>3. CASE PppdExits  BY <4>3 DEF PppdExits, WorldLeft
      <4> QED  BY <2>2, <4>1, <4>2, <4>3
    <3> HIDE DEF v, w
    <3> QED  BY <1>1, <1>2, <3>1, <3>2
  <2>3. CASE Event \/ OnIPCPReturns \/ Quit("monitor")
    <3>1. UNCHANGED shut  BY <2>3 DEF Event, OnIPCPReturns, Quit
    <3>2. n = m /\ v = w  BY <3>1 DEF shut, WorldLeft
    <3>3. \/ at["monitor"] = "wait" /\ at'["monitor"] = "call"
          \/ at["monitor"] \in {"wait", "call"} /\ at'["monitor"] = "done"
      BY <2>3, Sides DEF Event, OnIPCPReturns, Quit, Move, RInv, Shapes, TypeOK
    <3>4. f < e  BY <3>3, Lefts
    <3> HIDE DEF n, m, v, w, e, f
    <3> QED  BY <1>1, <1>2, <3>2, <3>4
  <2> QED  BY <2>1, <2>2, <2>3
<1>5. StepsLeft = m + w + e + s + p /\ StepsLeft' = n + v + f + s + p  BY <1>3 DEF StepsLeft
<1> HIDE DEF m, w, e, n, v, f, s, p
<1> QED  BY <1>1, <1>2, <1>4, <1>5

\* Once the context is done, every step of any goroutine leaves less to do: nobody reads,
\* forwards and reads again, whatever the other side sends or refuses.
THEOREM Winds == Spec => WindsDown
<1>1. RInv /\ RInv' /\ [Next]_vars => [Done => StepsLeft' < StepsLeft]_vars
  <2> SUFFICES ASSUME RInv, RInv', Next, Done, ~UNCHANGED vars PROVE StepsLeft' < StepsLeft
    OBVIOUS
  <2>1. CASE RunLoop \/ Cancel \/ TLSBreaks \/ PppdExits  BY <2>1, RestWinds
  <2>2. ASSUME NEW x \in Routines, Step(x) PROVE StepsLeft' < StepsLeft
    <3>1. CASE x = "monitor"
      <4>1. Event \/ OnIPCPReturns \/ Quit("monitor")
        BY <2>2, <3>1, Sides DEF Step, Check, ReadFails, Forward, Recv, WriteFails
      <4> QED  BY <4>1, RestWinds
    <3>2. CASE x # "monitor"
      <4>1. PICK r \in Readers : x \in {r, To(r)}  BY <3>2, Shape DEF Routines
      <4>2. CASE Forward(x)
        <5>1. x = r  BY <4>1, <4>2, Sides DEF Forward
        <5> QED  BY <4>2, <5>1, ForwardWinds
      <4>3. CASE Recv(x)
        <5>1. x = To(r)  BY <4>1, <4>3, Sides DEF Recv
        <5> QED  BY <4>3, <5>1, RecvWinds
      <4>4. CASE Check(x) \/ ReadFails(x) \/ WriteFails(x) \/ Quit(x) \/ (x = "ptyWriter" /\ PppdReady)
        BY <4>1, <4>4, IdleWinds
      <4> QED  BY <2>2, <3>2, <4>2, <4>3, <4>4 DEF Step
    <3> QED  BY <3>1, <3>2
  <2>3. CASE SslRead
    <3> DEFINE g == <<in["sslReader"] + 1>>
    <3>1. /\ at' = [at EXCEPT !["sslReader"] = "forward"]
          /\ hand' = [hand EXCEPT !["sslReader"] = g] /\ chan' = chan
          /\ UNCHANGED <<main, outside, tls, pty>> /\ at["sslReader"] = "read"
      BY <2>3 DEF SslRead, Move, shut
    <3>2. Len(g) = 1  OBVIOUS
    <3>3. /\ 1 \in 0..Burst /\ "sslReader" \in Readers /\ "forward" \in {"check", "forward"}
          /\ (1 = 0 => "forward" = "check")
      BY RelayAssumption, Sides
    <3> HIDE DEF g
    <3> QED  BY <3>1, <3>2, <3>3, ReadWinds
  <2>4. CASE PtyRead
    <3>1. PICK n \in 0..Burst :
            /\ hand' = [hand EXCEPT !["ptyReader"] = [i \in 1..n |-> in["ptyReader"] + i]]
            /\ Move("ptyReader", IF n = 0 THEN "check" ELSE "forward")
      BY <2>4 DEF PtyRead
    <3> DEFINE g == [i \in 1..n |-> in["ptyReader"] + i]
               a == IF n = 0 THEN "check" ELSE "forward"
    <3>2. n \in Nat /\ Len(g) = n  BY RelayAssumption
    <3>3. a \in {"check", "forward"} /\ (n = 0 => a = "check")  OBVIOUS
    <3>4. /\ at' = [at EXCEPT !["ptyReader"] = a] /\ hand' = [hand EXCEPT !["ptyReader"] = g]
          /\ chan' = chan /\ UNCHANGED <<main, outside, tls, pty>> /\ at["ptyReader"] = "read"
      BY <2>4, <3>1 DEF PtyRead, Move, shut
    <3> HIDE DEF g, a
    <3> QED  BY <3>2, <3>3, <3>4, ReadWinds, Sides
  <2>5. ASSUME NEW x \in Writers, Accept(x) PROVE StepsLeft' < StepsLeft
    <3>1. PICK r \in Readers : x = To(r)  BY Shape
    <3> QED  BY <2>5, <3>1, AcceptWinds
  <2> QED  BY <2>1, <2>2, <2>3, <2>4, <2>5 DEF Next
<1> QED  BY <1>1, Invariant, PTL DEF Spec, WindsDown

\* So no more than these steps are left when the context is done.
THEOREM StepsBounded == Spec => [](StepsLeft \in 0..4 * Cap + 6 * Burst + 19)
<1>1. RInv => StepsLeft \in 0..4 * Cap + 6 * Burst + 19
  <2> SUFFICES ASSUME RInv PROVE StepsLeft \in 0..4 * Cap + 6 * Burst + 19
    OBVIOUS
  <2>1. Numbers  BY Counted
  <2> DEFINE m == MainLeft[main]
             w == WorldLeft
             e == AtLeft[at["monitor"]]
             s == WayLeft("sslReader")
             p == WayLeft("ptyReader")
  <2>2. m \in 0..4 /\ w \in 0..3 /\ e \in 0..2  BY <2>1 DEF Numbers
  <2>3. s \in 0..3 * Burst + 5 + 2 * Cap /\ p \in 0..3 * Burst + 5 + 2 * Cap
    BY <2>1, Sides DEF Numbers
  <2>4. Cap \in Nat /\ Burst \in Nat  BY RelayAssumption
  <2>5. StepsLeft = m + w + e + s + p  BY DEF StepsLeft
  <2> HIDE DEF m, w, e, s, p
  <2> QED  BY <2>2, <2>3, <2>4, <2>5
<1> QED  BY <1>1, Invariant, PTL
=============================================================================
