-------------------------------- MODULE Hdlc --------------------------------
(***************************************************************************)
(* The framing of packets on the PTY (internal/hdlc) and its reader (the   *)
(* buffer loop of ptyReader, and of wireLink.readLoop on Windows): packets *)
(* are encoded on one side, the bytes arrive in pieces of any size, one of *)
(* them garbled perhaps, and frames are found and decoded again.           *)
(*                                                                         *)
(* A word of 16 bits is a pair of bytes, the high one first.               *)
(***************************************************************************)
EXTENDS Integers, Sequences, SequencesExt, FiniteSetsExt

CONSTANTS
  Packets,      \* packets to send, sequences of bytes
  MaxFrames,    \* bound on the frames sent
  MaxFaults,    \* bound on the bytes garbled
  Garbage,      \* what a byte is garbled to
  Pieces,       \* how many bytes a read may find, where so many are there
  BufSize,      \* size of the reader's buffer (65536)
  OwnFlags      \* the sender opens every frame with a flag of its own; an Encoder
                \* does so for its first frame only

Byte == 0..255
Flag == 126  Esc == 125                         \* 0x7e, 0x7d
Header == <<255, Esc, 35>>                      \* ff, and 03 escaped

ASSUME HdlcAssumption ==
  /\ Packets \subseteq Seq(Byte) \ {<< >>}
  /\ Garbage \subseteq Byte /\ OwnFlags \in BOOLEAN
  /\ MaxFrames \in Nat /\ MaxFaults \in Nat /\ BufSize \in Nat
  /\ Pieces \subseteq Nat \ {0}

VARIABLES
  sent,       \* packets encoded so far
  needFlag,   \* Encoder.needFlag
  wire,       \* bytes written and not yet read
  buf,        \* ptyReader's buf[:bufLen]
  start,      \* where the search for a frame begins
  draining,   \* the loop over the buffer is running
  got,        \* packets decoded and forwarded
  faults      \* bytes garbled so far

reader == <<buf, start, draining, got>>
vars == <<sent, needFlag, wire, reader, faults>>

\* A loop over bytes: where step, a function, leads from c.
Along(step, c, data) ==
  LET after[n \in 0..Len(data)] ==
        IF n = 0 THEN c ELSE step[<<after[n-1], data[n]>>]
  IN after[Len(data)]

-----------------------------------------------------------------------------
(* The frame check sequence of RFC 1662.  The table holds the effect of    *)
(* eight shifts of the polynomial 0x8408.                                  *)

\* Exclusive or of two bytes, bit by bit.
Bit(x, i) == (x \div i) % 2
Xor(a, b) ==
  LET bit(i) == i * ((Bit(a, i) + Bit(b, i)) % 2)
  IN bit(1) + bit(2) + bit(4) + bit(8) + bit(16) + bit(32) + bit(64) + bit(128)

Half(x)  == <<x[1] \div 2, 128 * (x[1] % 2) + x[2] \div 2>>
Shift(x) == IF x[2] % 2 = 1 THEN <<Xor(Half(x)[1], 132), Xor(Half(x)[2], 8)>> ELSE Half(x)
FcsTable ==
  [b \in Byte |-> Shift(Shift(Shift(Shift(Shift(Shift(Shift(Shift(<<0, b>>))))))))]

FcsStep == [p \in (Byte \X Byte) \X Byte |->
              LET entry == FcsTable[Xor(p[1][2], p[2])]
              IN <<entry[1], Xor(p[1][1], entry[2])>>]
FcsUpdate(sum, data) == Along(FcsStep, sum, data)

AddressControlChecksum == <<61, 227>>           \* 0x3de3
InitialChecksum == <<255, 255>>
GoodFcs == <<240, 184>>                         \* 0xf0b8

\* Faulty: flags are not escaped.
SendingControls(b) == b < 32 \/ b % 128 = Esc

InSendingACCM(b) == b < 32 \/ b % 128 \in {Flag, Esc}
InReceivingACCM(b) == b < 32

-----------------------------------------------------------------------------
(* Encoder.Encode                                                          *)

Escaped(b) == IF InSendingACCM(b) THEN <<Esc, Xor(b, 32)>> ELSE <<b>>
EscapeStep == [p \in Seq(Byte) \X Byte |-> p[1] \o Escaped(p[2])]
Escape(data) == Along(EscapeStep, << >>, data)

\* The check sequence of a packet: the complement of its sum, the low byte first.
Fcs(packet) ==
  LET sum == FcsUpdate(AddressControlChecksum, packet)
  IN <<255 - sum[2], 255 - sum[1]>>

Body(packet) == Header \o Escape(packet \o Fcs(packet))
Encode(flag, packet) ==
  (IF flag THEN <<Flag>> ELSE << >>) \o Body(packet) \o <<Flag>>

-----------------------------------------------------------------------------
(* Decoder.FindFrame and Decode                                            *)

None == [from |-> 0, to |-> 0]

\* The first frame between two flags at or after i; flags in a row are one.
FindFrame(b, i) ==
  LET flags == {j \in i..Len(b) : b[j] = Flag}
      plain == {j \in i..Len(b) : b[j] # Flag /\ \E f \in flags : f < j}
      ends  == {j \in flags : \E k \in plain : k < j}
  IN IF ends = {} THEN None ELSE [from |-> Min(plain), to |-> Min(ends) - 1]

Bad == << -1 >>

\* One byte of a frame: esc tells whether the last one was an escape.
Unescaping == [ok : BOOLEAN, esc : BOOLEAN, data : Seq(Byte)]
Kept(r, x) == [ok |-> r.ok, esc |-> FALSE, data |-> Append(r.data, x)]
UnescapeStep ==
  [p \in Unescaping \X Byte |->
     LET r == p[1]  b == p[2]
     IN CASE b = Esc /\ r.esc  -> [r EXCEPT !.ok = FALSE]
          [] b = Esc /\ ~r.esc -> [r EXCEPT !.esc = TRUE]
          [] b # Esc /\ r.esc  -> Kept(r, Xor(b, 32))
          [] b # Esc /\ ~r.esc -> IF InReceivingACCM(b) THEN r ELSE Kept(r, b)]
Unescape(data) ==
  Along(UnescapeStep, [ok |-> TRUE, esc |-> FALSE, data |-> << >>], data)

HasHeader(frame) == Len(frame) >= 3 /\ SubSeq(frame, 1, 3) = Header
Content(frame) ==
  Unescape(IF HasHeader(frame) THEN SubSeq(frame, 4, Len(frame)) ELSE frame)
Complete(frame) == Len(frame) >= 5 /\ Content(frame).ok /\ ~Content(frame).esc
                   /\ Len(Content(frame).data) >= 3
Packet(data) == SubSeq(data, 1, Len(data) - 2)

\* Faulty: the check sequence is cut off unseen.
DecodeUnchecked(frame) == IF Complete(frame) THEN Packet(Content(frame).data) ELSE Bad

Decode(frame) ==
  LET sum == FcsUpdate(IF HasHeader(frame) THEN AddressControlChecksum ELSE InitialChecksum,
                       Content(frame).data)
  IN IF Complete(frame) /\ sum = GoodFcs THEN Packet(Content(frame).data) ELSE Bad

-----------------------------------------------------------------------------
Init == sent = << >> /\ needFlag = TRUE /\ wire = << >> /\ buf = << >> /\ start = 1
        /\ draining = FALSE /\ got = << >> /\ faults = 0

Write ==
  /\ Len(sent) < MaxFrames
  /\ \E p \in Packets : /\ sent' = Append(sent, p)
                        /\ wire' = wire \o Encode(needFlag, p)
  /\ needFlag' = OwnFlags
  /\ UNCHANGED <<reader, faults>>

\* PTY.Read behind what the buffer holds: any piece of what is there.
Read ==
  /\ ~draining /\ wire # << >> /\ Len(buf) < BufSize
  /\ \E n \in {Min({m, Len(wire), BufSize - Len(buf)}) : m \in Pieces} :
       /\ buf' = buf \o SubSeq(wire, 1, n)
       /\ wire' = SubSeq(wire, n + 1, Len(wire))
  /\ draining' = TRUE
  /\ UNCHANGED <<sent, needFlag, start, got, faults>>

\* Faulty: the search goes on two bytes behind a frame.
TakeTooFar ==
  LET f == FindFrame(buf, start)
      p == Decode(SubSeq(buf, f.from, f.to))
  IN /\ draining /\ f # None
     /\ start' = f.to + 3
     /\ got' = IF p = Bad THEN got ELSE Append(got, p)
     /\ UNCHANGED <<sent, needFlag, wire, buf, draining, faults>>

\* Faulty: a bad frame takes with it what the buffer holds behind.
TakeUntilBad ==
  LET f == FindFrame(buf, start)
      p == Decode(SubSeq(buf, f.from, f.to))
  IN /\ draining /\ f # None
     /\ start' = IF p = Bad THEN Len(buf) + 1 ELSE f.to + 2
     /\ got' = IF p = Bad THEN got ELSE Append(got, p)
     /\ UNCHANGED <<sent, needFlag, wire, buf, draining, faults>>

\* A frame in the buffer: its packet is forwarded, unless it is bad, and the search goes
\* on behind its closing flag.
Take ==
  LET f == FindFrame(buf, start)
      p == Decode(SubSeq(buf, f.from, f.to))
  IN /\ draining /\ f # None
     /\ start' = f.to + 2
     /\ got' = IF p = Bad THEN got ELSE Append(got, p)
     /\ UNCHANGED <<sent, needFlag, wire, buf, draining, faults>>

\* Faulty: a buffer that is used up is not compacted.
CompactRest ==
  /\ draining /\ FindFrame(buf, start) = None
  /\ buf' = IF start <= Len(buf) THEN SubSeq(buf, start, Len(buf)) ELSE buf
  /\ start' = 1 /\ draining' = FALSE
  /\ UNCHANGED <<sent, needFlag, wire, got, faults>>

\* No frame left: what follows the last one is kept.
Compact ==
  /\ draining /\ FindFrame(buf, start) = None
  /\ buf' = SubSeq(buf, start, Len(buf))
  /\ start' = 1 /\ draining' = FALSE
  /\ UNCHANGED <<sent, needFlag, wire, got, faults>>

\* The line garbles a byte.
Garble ==
  /\ faults < MaxFaults
  /\ \E i \in DOMAIN wire, b \in Garbage :
       b # wire[i] /\ wire' = [wire EXCEPT ![i] = b]
  /\ faults' = faults + 1
  /\ UNCHANGED <<sent, needFlag, reader>>

Quiet == wire = << >> /\ ~draining /\ UNCHANGED vars

Next == Write \/ Read \/ Take \/ Compact \/ Garble \/ Quiet
Spec == Init /\ [][Next]_vars

-----------------------------------------------------------------------------
(* Properties                                                              *)

\* Every variable has its type; the search begins inside the buffer or right behind it,
\* and between two loops at its beginning.
TypeOK ==
  /\ sent \in Seq(Packets) /\ Len(sent) <= MaxFrames
  /\ needFlag \in BOOLEAN /\ draining \in BOOLEAN /\ faults \in 0..MaxFaults
  /\ wire \in Seq(Byte) /\ buf \in Seq(Byte) /\ Len(buf) <= BufSize
  /\ start \in 1..Len(buf) + 1 /\ (~draining => start = 1)
  /\ got \in Seq(Seq(Byte))

\* However the bytes are cut into reads, on a clean line every packet comes out
\* as it went in, as soon as its last byte has been read.  hdlc_test.go:54 wants
\* it of frames that share a flag, too: "The previous frame ends with 0x7e which
\* serves as delimiter for next".
AllDelivered == faults = 0 /\ wire = << >> /\ ~draining => got = sent

\* g are packets of s, in their order.
Subsequence(g, s) ==
  \E k \in [DOMAIN g -> DOMAIN s] : /\ \A i, j \in DOMAIN g : i < j => k[i] < k[j]
                                    /\ \A i \in DOMAIN g : g[i] = s[k[i]]

\* No garbled packet gets through: what comes out was sent, in that order.
Genuine == Subsequence(got, sent)

\* What a sender writes for the packets s, and what becomes of it where bytes are replaced.
LineStep == [x \in Seq(Byte) \X Packets |-> x[1] \o Encode(OwnFlags \/ x[1] = << >>, x[2])]
Line(s) == Along(LineStep, << >>, s)
Patched(o, g) == [i \in DOMAIN o |-> IF i \in DOMAIN g THEN g[i] ELSE o[i]]

\* Up to n places.
Places(o, n) == {{}} \cup {{at[k] : k \in 1..n} : at \in [1..n -> DOMAIN o]}

\* Between two flags, bytes that are none.
Framed(t, a, b) ==
  t[a] = Flag /\ t[b] = Flag /\ a + 1 < b /\ \A k \in a + 1..b - 1 : t[k] # Flag

\* Where up to n bytes are garbled, no frame decodes that was not sent as it is.
Detects(n) ==
  \A s \in BoundedSeq(Packets, MaxFrames) : LET o == Line(s) IN
    \A P \in Places(o, n) : \A g \in [P -> Garbage] : LET t == Patched(o, g) IN
      \A a, b \in DOMAIN o :
        Framed(t, a, b) /\ Decode(SubSeq(t, a + 1, b - 1)) # Bad => SubSeq(t, a, b) = SubSeq(o, a, b)

\* Said of the packets before the first is sent.
Detected == sent = << >> => Detects(MaxFaults)

\* The reader finds its way back: a garbled byte costs no more than the frame it
\* is in and the one next to it.
Resynchronises ==
  wire = << >> /\ ~draining => Len(sent) - Len(got) <= 2 * faults

\* The buffer never fills up: a full one is read into no more, and the reader
\* would spin for ever.
NeverFull == ~draining => Len(buf) < BufSize
=============================================================================
