----------------------------- MODULE HdlcProofs -----------------------------
(***************************************************************************)
(* Theorems about Hdlc for every set of packets, every size of buffer and  *)
(* every way of cutting the bytes into reads: the types; that encoding and *)
(* decoding a packet of any bytes gives it back; and, where frames open    *)
(* with flags of their own, that on a clean line every packet comes out    *)
(* once and in order and the buffer never fills, and that on a line that   *)
(* garbles bytes each of them costs at most two packets and the buffer     *)
(* does not fill if it has room for two frames and two more for each byte; *)
(* that what comes out was sent, in that order, while no more bytes are    *)
(* garbled than the check sequence detects in frames of these packets; and *)
(* that the frame of any packet with one byte garbled is not decoded, but  *)
(* for an escape lost, made, or a control that the decoder skips.          *)
(***************************************************************************)
EXTENDS Hdlc, Induction

-----------------------------------------------------------------------------
(* Loops over bytes                                                        *)

\* step leads from V over D to V.
Step(step, V, D) == step \in [V \X D -> V]

\* A loop, byte by byte: f[i] is what it has made of the first i.
Loops(f, V, step, c, data) ==
  /\ f \in [0..Len(data) -> V] /\ f[0] = c
  /\ \A i \in 1..Len(data) : f[i] = step[<<f[i-1], data[i]>>]

\* There is one such f, and Along is where it ends.
LEMMA AlongExists ==
  ASSUME NEW V, NEW D, NEW c \in V, NEW step, Step(step, V, D), NEW data \in Seq(D)
  PROVE  \E f : Loops(f, V, step, c, data) /\ Along(step, c, data) = f[Len(data)]
<1> DEFINE n == Len(data)
           Rec(f) == f = [i \in 0..n |-> IF i = 0 THEN c ELSE step[<<f[i-1], data[i]>>]]
           next == [p \in V \X (1..n) |-> step[<<p[1], data[p[2]]>>]]
           h == CHOOSE f : Rec(f)
<1>1. n \in Nat /\ \A i \in 1..n : data[i] \in D  BY LenProperties, ElementOfSeq
<1>7. Along(step, c, data) = h[n]  BY DEF Along
<1> HIDE DEF n
<1>2. next \in [V \X (1..n) -> V]  BY <1>1 DEF Step
<1>3. PICK f : Iterates(f, V, c, next, n)
  <2> HIDE DEF next
  <2> QED  BY <1>1, <1>2, Recursion
<1>4. /\ f \in [0..n -> V] /\ f[0] = c
      /\ \A i \in 1..n : f[i] = step[<<f[i-1], data[i]>>]
  <2>1. f \in [0..n -> V] /\ f[0] = c /\ \A i \in 1..n : f[i] = next[<<f[i-1], i>>]
    BY <1>3 DEF Iterates
  <2>2. ASSUME NEW i \in 1..n PROVE <<f[i-1], i>> \in V \X (1..n)
    <3>1. i - 1 \in 0..n  BY <1>1
    <3>2. f[i-1] \in V  BY <2>1, <3>1
    <3> QED  BY <3>2
  <2> QED  BY <2>1, <2>2
<1>5. Rec(f)  BY <1>1, <1>4
<1>6. Rec(h)  BY <1>5, Zenon
<1> HIDE DEF h
<1>8. h[0] = c /\ \A i \in 1..n : h[i] = step[<<h[i-1], data[i]>>]
  <2>1. h = [i \in 0..n |-> IF i = 0 THEN c ELSE step[<<h[i-1], data[i]>>]]  BY <1>6
  <2>2. \A i \in 0..n : h[i] = IF i = 0 THEN c ELSE step[<<h[i-1], data[i]>>]  BY <2>1, Zenon
  <2>3. 0 \in 0..n /\ \A i \in 1..n : i \in 0..n /\ i # 0  BY <1>1
  <2> QED  BY <2>2, <2>3, Zenon
<1>9. \A i \in 0..n : h[i] = f[i]
  <2> DEFINE T == {i \in 0..n : h[i] = f[i]}
  <2>1. 0 \in T  BY <1>1, <1>4, <1>8
  <2>2. ASSUME NEW i \in 0..n-1, i \in T PROVE i + 1 \in T
    <3>1. i + 1 \in 1..n /\ i + 1 \in 0..n /\ i + 1 # 0 /\ (i + 1) - 1 = i  BY <1>1
    <3>2. h[i] = f[i]  BY <2>2
    <3>3. h[i+1] = step[<<h[i], data[i+1]>>]  BY <1>8, <3>1, Zenon
    <3>4. f[i+1] = step[<<f[i], data[i+1]>>]  BY <1>4, <3>1, Zenon
    <3>5. h[i+1] = f[i+1]  BY <3>2, <3>3, <3>4, Zenon
    <3> QED  BY <3>1, <3>5
  <2>3. 0..n \subseteq T
    <3> HIDE DEF T
    <3> QED  BY <1>1, <2>1, <2>2, UpTo
  <2> QED  BY <2>3
<1>10. n \in 0..n  BY <1>1
<1>11. Loops(f, V, step, c, data)  BY <1>4 DEF Loops, n
<1> QED  BY <1>7, <1>9, <1>10, <1>11 DEF n

\* And any f that loops so ends there.
LEMMA AlongIs ==
  ASSUME NEW V, NEW D, NEW c \in V, NEW step, Step(step, V, D), NEW data \in Seq(D),
         NEW g, Loops(g, V, step, c, data)
  PROVE  Along(step, c, data) = g[Len(data)]
<1>1. PICK f : Loops(f, V, step, c, data) /\ Along(step, c, data) = f[Len(data)]
  BY AlongExists
<1> DEFINE n == Len(data)
           T == {i \in 0..n : f[i] = g[i]}
<1>2. n \in Nat  BY LenProperties
<1>7. /\ f[0] = g[0]
      /\ \A i \in 1..n : f[i] = step[<<f[i-1], data[i]>>] /\ g[i] = step[<<g[i-1], data[i]>>]
  BY <1>1 DEF Loops
<1>8. Along(step, c, data) = f[n]  BY <1>1
<1> HIDE DEF n
<1>3. 0 \in T  BY <1>2, <1>7
<1>4. ASSUME NEW i \in 0..n-1, i \in T PROVE i + 1 \in T
  <2>1. i + 1 \in 1..n /\ i + 1 \in 0..n /\ (i + 1) - 1 = i  BY <1>2
  <2>2. f[i] = g[i]  BY <1>4
  <2>3. f[i+1] = step[<<f[i], data[i+1]>>] /\ g[i+1] = step[<<g[i], data[i+1]>>]  BY <1>7, <2>1
  <2> HIDE DEF T
  <2>4. f[i+1] = g[i+1]  BY <2>2, <2>3, Zenon
  <2> QED  BY <2>1, <2>4 DEF T
<1>5. 0..n \subseteq T
  <2> HIDE DEF T
  <2> QED  BY <1>2, <1>3, <1>4, UpTo
<1>6. n \in 0..n  BY <1>2
<1> QED  BY <1>5, <1>6, <1>8 DEF n

\* One byte more.
LEMMA AlongStep ==
  ASSUME NEW V, NEW D, NEW c \in V, NEW step, Step(step, V, D)
  PROVE  /\ Along(step, c, << >>) = c
         /\ \A data \in Seq(D) : Along(step, c, data) \in V
         /\ \A data \in Seq(D), d \in D :
              Along(step, c, Append(data, d)) = step[<<Along(step, c, data), d>>]
<1>1. Along(step, c, << >>) = c
  <2>1. << >> \in Seq(D) /\ Len(<< >>) = 0  BY EmptySeq
  <2> DEFINE e == << >>
  <2>5. e \in Seq(D)  BY <2>1
  <2> HIDE DEF e
  <2>2. PICK f : Loops(f, V, step, c, e) /\ Along(step, c, e) = f[Len(e)]
    BY <2>5, AlongExists
  <2>3. Len(e) = 0  BY <2>1 DEF e
  <2>4. Along(step, c, e) = c  BY <2>2, <2>3, Zenon DEF Loops
  <2> QED  BY <2>4 DEF e
<1>2. ASSUME NEW data \in Seq(D) PROVE Along(step, c, data) \in V
  <2>1. PICK f : Loops(f, V, step, c, data) /\ Along(step, c, data) = f[Len(data)]
    BY AlongExists
  <2>2. Len(data) \in Nat  BY LenProperties
  <2>3. Len(data) \in 0..Len(data)  BY <2>2
  <2>4. f \in [0..Len(data) -> V]  BY <2>1 DEF Loops
  <2> QED  BY <2>1, <2>3, <2>4, Zenon
<1>3. ASSUME NEW data \in Seq(D), NEW d \in D
      PROVE  Along(step, c, Append(data, d)) = step[<<Along(step, c, data), d>>]
  <2> DEFINE more == Append(data, d)
             n == Len(data)
  <2>1. more \in Seq(D) /\ Len(more) = n + 1 /\ more[n+1] = d
        /\ (\A i \in 1..n : more[i] = data[i]) /\ n \in Nat
    BY AppendProperties, LenProperties
  <2> HIDE DEF more
  <2>2. PICK f : Loops(f, V, step, c, more) /\ Along(step, c, more) = f[Len(more)]
    BY <2>1, AlongExists
  <2> DEFINE g == [i \in 0..n |-> f[i]]
  <2>3. Loops(g, V, step, c, data)
    <3>1. g \in [0..n -> V] /\ g[0] = c  BY <2>1, <2>2 DEF Loops
    <3>2. ASSUME NEW i \in 1..n PROVE g[i] = step[<<g[i-1], data[i]>>]
      <4>1. i \in 0..n /\ i - 1 \in 0..n /\ i \in 1..n+1  BY <2>1
      <4>2. g[i] = f[i] /\ g[i-1] = f[i-1]  BY <4>1
      <4>3. f[i] = step[<<f[i-1], more[i]>>]  BY <2>1, <2>2, <4>1 DEF Loops
      <4> QED  BY <2>1, <4>2, <4>3
    <3> QED  BY <3>1, <3>2 DEF Loops
  <2>4. g[n] = f[n]  BY <2>1
  <2> HIDE DEF g
  <2>5. Along(step, c, data) = f[n]
    <3>1. Along(step, c, data) = g[n]  BY <2>3, AlongIs
    <3> QED  BY <2>4, <3>1
  <2>6. f[n+1] = step[<<f[n], d>>]
    <3>1. n + 1 \in 1..n+1 /\ (n + 1) - 1 = n  BY <2>1
    <3> QED  BY <2>1, <2>2, <3>1 DEF Loops
  <2> QED  BY <2>1, <2>2, <2>5, <2>6 DEF more
<1> QED  BY <1>1, <1>2, <1>3

\* The loop over two pieces.
LEMMA AlongConcat ==
  ASSUME NEW V, NEW D, NEW c \in V, NEW step, Step(step, V, D),
         NEW s \in Seq(D), NEW t \in Seq(D)
  PROVE  Along(step, c, s \o t) = Along(step, Along(step, c, s), t)
<1> DEFINE m == Along(step, c, s)
           T == {u \in Seq(D) : Along(step, c, s \o u) = Along(step, m, u)}
<1>1. m \in V  BY AlongStep
<1> HIDE DEF m
<1>2. << >> \in T
  <2>1. << >> \in Seq(D) /\ s \o << >> = s  BY EmptySeq, ConcatEmptySeq
  <2>2. Along(step, m, << >>) = m  BY <1>1, AlongStep
  <2> QED  BY <2>1, <2>2 DEF m
<1>3. ASSUME NEW u \in Seq(D), NEW d \in D, u \in T PROVE Append(u, d) \in T
  <2>1. Append(u, d) \in Seq(D) /\ s \o u \in Seq(D)  BY AppendProperties, ConcatProperties
  <2>2. s \o Append(u, d) = Append(s \o u, d)
    <3>1. Append(u, d) = u \o <<d>> /\ Append(s \o u, d) = (s \o u) \o <<d>>
      BY <2>1, AppendIsConcat
    <3>2. <<d>> \in Seq(D)  OBVIOUS
    <3> QED  BY <3>1, <3>2, ConcatAssociative
  <2>3. Along(step, c, Append(s \o u, d)) = step[<<Along(step, c, s \o u), d>>]
    <3> DEFINE w == s \o u
    <3>1. w \in Seq(D)  BY <2>1
    <3> HIDE DEF w
    <3>2. Along(step, c, Append(w, d)) = step[<<Along(step, c, w), d>>]  BY <3>1, AlongStep
    <3> QED  BY <3>2 DEF w
  <2>4. Along(step, m, Append(u, d)) = step[<<Along(step, m, u), d>>]
    BY <1>1, AlongStep
  <2>5. Along(step, c, s \o u) = Along(step, m, u)  BY <1>3
  <2>6. Along(step, c, s \o Append(u, d)) = Along(step, m, Append(u, d))
    BY <2>2, <2>3, <2>4, <2>5, Zenon
  <2> QED  BY <2>1, <2>6
<1>4. Seq(D) \subseteq T
  <2> HIDE DEF T
  <2> QED  BY <1>2, <1>3, SeqInduction
<1>5. t \in T  BY <1>4
<1> QED  BY <1>5 DEF m

-----------------------------------------------------------------------------
(* Bytes and their bits                                                    *)

Powers == {1, 2, 4, 8, 16, 32, 64, 128}

\* A byte is the sum of its bits.
LEMMA Bits ==
  ASSUME NEW x \in Byte
  PROVE  /\ \A i \in {1,2,4,8,16,32,64,128} : Bit(x, i) \in {0, 1}
         /\ x = Bit(x,1) + 2*Bit(x,2) + 4*Bit(x,4) + 8*Bit(x,8) + 16*Bit(x,16)
                 + 32*Bit(x,32) + 64*Bit(x,64) + 128*Bit(x,128)
<1>1. \A i \in {1,2,4,8,16,32,64,128} : Bit(x, i) \in {0, 1}
  BY SMTT(30) DEF Bit, Byte
<1>2. x = Bit(x,1) + 2*Bit(x,2) + 4*Bit(x,4) + 8*Bit(x,8) + 16*Bit(x,16)
                 + 32*Bit(x,32) + 64*Bit(x,64) + 128*Bit(x,128)
  BY SMTT(30) DEF Bit, Byte
<1> QED BY <1>1, <1>2

\* And every choice of bits is a byte.
LEMMA BitsOf ==
  ASSUME NEW a \in {0,1}, NEW b \in {0,1}, NEW c \in {0,1}, NEW d \in {0,1},
         NEW e \in {0,1}, NEW f \in {0,1}, NEW g \in {0,1}, NEW h \in {0,1},
         NEW x, x = a + 2*b + 4*c + 8*d + 16*e + 32*f + 64*g + 128*h
  PROVE  /\ x \in Byte
         /\ Bit(x,1) = a /\ Bit(x,2) = b /\ Bit(x,4) = c /\ Bit(x,8) = d
         /\ Bit(x,16) = e /\ Bit(x,32) = f /\ Bit(x,64) = g /\ Bit(x,128) = h
<1>1. x \in Byte BY DEF Byte
<1>2. Bit(x,1) = a BY SMTT(30) DEF Bit
<1>3. Bit(x,2) = b BY SMTT(30) DEF Bit
<1>4. Bit(x,4) = c BY SMTT(30) DEF Bit
<1>5. Bit(x,8) = d BY SMTT(30) DEF Bit
<1>6. Bit(x,16) = e BY SMTT(30) DEF Bit
<1>7. Bit(x,32) = f BY SMTT(30) DEF Bit
<1>8. Bit(x,64) = g BY SMTT(30) DEF Bit
<1>9. Bit(x,128) = h BY SMTT(30) DEF Bit
<1> QED BY <1>1, <1>2, <1>3, <1>4, <1>5, <1>6, <1>7, <1>8, <1>9

\* Exclusive or, bit by bit.
LEMMA XorBits ==
  ASSUME NEW a \in Byte, NEW b \in Byte
  PROVE  /\ Xor(a, b) \in Byte
         /\ \A i \in Powers : Bit(Xor(a, b), i) = (Bit(a, i) + Bit(b, i)) % 2
<1> DEFINE d(i) == (Bit(a, i) + Bit(b, i)) % 2
<1>1. \A i \in Powers : d(i) \in {0, 1}
  <2>1. \A i \in Powers : Bit(a, i) \in {0, 1} /\ Bit(b, i) \in {0, 1}  BY Bits DEF Powers
  <2>2. \A i \in Powers : d(i) = IF Bit(a, i) = Bit(b, i) THEN 0 ELSE 1
    <3>1. ASSUME NEW x \in {0, 1}, NEW y \in {0, 1}
          PROVE  (x + y) % 2 = IF x = y THEN 0 ELSE 1
      OBVIOUS
    <3> QED  BY <2>1, <3>1
  <2> QED  BY <2>2
<1>2. Xor(a, b) = 1*d(1) + 2*d(2) + 4*d(4) + 8*d(8) + 16*d(16) + 32*d(32) + 64*d(64) + 128*d(128)
  BY Zenon DEF Xor
<1>3. d(1) \in {0,1} /\ d(2) \in {0,1} /\ d(4) \in {0,1} /\ d(8) \in {0,1} /\ d(16) \in {0,1}
      /\ d(32) \in {0,1} /\ d(64) \in {0,1} /\ d(128) \in {0,1}
  BY <1>1 DEF Powers
<1> HIDE DEF d
<1>4. /\ Xor(a, b) \in Byte
      /\ Bit(Xor(a, b), 1) = d(1) /\ Bit(Xor(a, b), 2) = d(2) /\ Bit(Xor(a, b), 4) = d(4)
      /\ Bit(Xor(a, b), 8) = d(8) /\ Bit(Xor(a, b), 16) = d(16) /\ Bit(Xor(a, b), 32) = d(32)
      /\ Bit(Xor(a, b), 64) = d(64) /\ Bit(Xor(a, b), 128) = d(128)
  BY <1>2, <1>3, BitsOf
<1>5. \A i \in Powers : Bit(Xor(a, b), i) = d(i)  BY <1>4 DEF Powers
<1> QED  BY <1>4, <1>5 DEF d

\* Bytes with the same bits are the same.
LEMMA SameBits ==
  ASSUME NEW a \in Byte, NEW b \in Byte, \A i \in Powers : Bit(a, i) = Bit(b, i)
  PROVE  a = b
<1>1. Bit(a,1) = Bit(b,1) /\ Bit(a,2) = Bit(b,2) /\ Bit(a,4) = Bit(b,4) /\ Bit(a,8) = Bit(b,8)
      /\ Bit(a,16) = Bit(b,16) /\ Bit(a,32) = Bit(b,32) /\ Bit(a,64) = Bit(b,64)
      /\ Bit(a,128) = Bit(b,128)
  BY DEF Powers
<1>2. /\ a = Bit(a,1) + 2*Bit(a,2) + 4*Bit(a,4) + 8*Bit(a,8) + 16*Bit(a,16)
                 + 32*Bit(a,32) + 64*Bit(a,64) + 128*Bit(a,128)
      /\ b = Bit(b,1) + 2*Bit(b,2) + 4*Bit(b,4) + 8*Bit(b,8) + 16*Bit(b,16)
                 + 32*Bit(b,32) + 64*Bit(b,64) + 128*Bit(b,128)
  BY Bits
<1> QED BY <1>1, <1>2

\* 255 - a flips every bit of a.
LEMMA Complement ==
  ASSUME NEW a \in Byte
  PROVE  255 - a \in Byte /\ \A i \in Powers : Bit(a, i) \in {0, 1} /\ Bit(255 - a, i) = 1 - Bit(a, i)
<1>1. \A i \in Powers : Bit(a, i) \in {0, 1}  BY Bits DEF Powers
<1>2. a = Bit(a,1) + 2*Bit(a,2) + 4*Bit(a,4) + 8*Bit(a,8) + 16*Bit(a,16)
                 + 32*Bit(a,32) + 64*Bit(a,64) + 128*Bit(a,128)  BY Bits
<1> DEFINE n(i) == 1 - Bit(a, i)
<1>3. n(1) \in {0,1} /\ n(2) \in {0,1} /\ n(4) \in {0,1} /\ n(8) \in {0,1} /\ n(16) \in {0,1}
      /\ n(32) \in {0,1} /\ n(64) \in {0,1} /\ n(128) \in {0,1}
  BY <1>1 DEF Powers
<1>4. 255 - a = n(1) + 2*n(2) + 4*n(4) + 8*n(8) + 16*n(16) + 32*n(32) + 64*n(64) + 128*n(128)
  BY <1>1, <1>2 DEF Powers
<1> HIDE DEF n
<1>5. /\ 255 - a \in Byte
      /\ Bit(255 - a, 1) = n(1) /\ Bit(255 - a, 2) = n(2) /\ Bit(255 - a, 4) = n(4)
      /\ Bit(255 - a, 8) = n(8) /\ Bit(255 - a, 16) = n(16) /\ Bit(255 - a, 32) = n(32)
      /\ Bit(255 - a, 64) = n(64) /\ Bit(255 - a, 128) = n(128)
  BY <1>3, <1>4, BitsOf
<1>6. \A i \in Powers : Bit(255 - a, i) = n(i)  BY <1>5 DEF Powers
<1> QED  BY <1>1, <1>5, <1>6 DEF n

\* x xor not x; x xor y xor not x; x xor y xor y.
LEMMA XorComplement ==
  ASSUME NEW a \in Byte, NEW b \in Byte
  PROVE  /\ Xor(a, 255 - a) = 255
         /\ Xor(Xor(a, b), 255 - a) = 255 - b
         /\ Xor(Xor(a, b), b) = a
         /\ Xor(0, a) = a
<1>0. 0 \in Byte /\ 255 \in Byte /\ 255 - a \in Byte /\ 255 - b \in Byte  BY DEF Byte
<1>1. \A i \in Powers : Bit(0, i) = 0 /\ Bit(255, i) = 1
  <2>1. \A i \in Powers : Bit(0, i) = 0  BY DEF Bit, Powers
  <2>2. 255 - 0 = 255  OBVIOUS
  <2> QED  BY <1>0, <2>1, <2>2, Complement
<1>2. \A i \in Powers : Bit(a, i) \in {0, 1} /\ Bit(b, i) \in {0, 1}
                         /\ Bit(255 - a, i) = 1 - Bit(a, i) /\ Bit(255 - b, i) = 1 - Bit(b, i)
  BY Complement
<1>3. Xor(a, b) \in Byte /\ Xor(a, 255 - a) \in Byte /\ Xor(Xor(a, b), 255 - a) \in Byte
      /\ Xor(Xor(a, b), b) \in Byte /\ Xor(0, a) \in Byte
  BY <1>0, XorBits
<1>4. \A i \in Powers : /\ Bit(Xor(a, b), i) = (Bit(a, i) + Bit(b, i)) % 2
                         /\ Bit(Xor(a, 255 - a), i) = (Bit(a, i) + Bit(255 - a, i)) % 2
                         /\ Bit(Xor(0, a), i) = (Bit(0, i) + Bit(a, i)) % 2
  BY <1>0, XorBits
<1>5. \A i \in Powers :
        /\ Bit(Xor(Xor(a, b), 255 - a), i) = (Bit(Xor(a, b), i) + Bit(255 - a, i)) % 2
        /\ Bit(Xor(Xor(a, b), b), i) = (Bit(Xor(a, b), i) + Bit(b, i)) % 2
  <2> DEFINE x == Xor(a, b)
             na == 255 - a
  <2>1. x \in Byte /\ na \in Byte  BY <1>0, <1>3
  <2> HIDE DEF x, na
  <2>2. /\ \A i \in Powers : Bit(Xor(x, na), i) = (Bit(x, i) + Bit(na, i)) % 2
        /\ \A i \in Powers : Bit(Xor(x, b), i) = (Bit(x, i) + Bit(b, i)) % 2
    BY <2>1, XorBits
  <2> QED  BY <2>2 DEF x, na
<1>6. \A i \in Powers : Bit(Xor(a, 255 - a), i) = Bit(255, i)  BY <1>1, <1>2, <1>4
<1>7. \A i \in Powers : Bit(Xor(Xor(a, b), 255 - a), i) = Bit(255 - b, i)
  BY <1>2, <1>4, <1>5
<1>8. \A i \in Powers : Bit(Xor(Xor(a, b), b), i) = Bit(a, i)  BY <1>2, <1>4, <1>5
<1>9. \A i \in Powers : Bit(Xor(0, a), i) = Bit(a, i)  BY <1>1, <1>2, <1>4
<1> QED  BY <1>0, <1>3, <1>6, <1>7, <1>8, <1>9, SameBits

\* The escape of a byte is a byte that is neither flag nor escape.
LEMMA EscapedByte ==
  ASSUME NEW b \in Byte
  PROVE  /\ Xor(b, 32) \in Byte /\ Xor(Xor(b, 32), 32) = b
         /\ InSendingACCM(b) => Xor(b, 32) \notin {Flag, Esc}
         /\ ~InSendingACCM(b) => b \notin {Flag, Esc} /\ ~InReceivingACCM(b)
<1>1. 32 \in Byte  BY DEF Byte
<1>2. Xor(b, 32) \in Byte /\ Xor(Xor(b, 32), 32) = b  BY <1>1, XorBits, XorComplement
<1>3. ASSUME Xor(b, 32) \in {Flag, Esc} PROVE ~InSendingACCM(b)
  <2>1. CASE Xor(b, 32) = 126
    <3>1. b = Xor(126, 32)  BY <1>2, <2>1
    <3>2. b = 94  BY <3>1 DEF Xor, Bit
    <3> QED  BY <3>2 DEF InSendingACCM, Flag, Esc
  <2>2. CASE Xor(b, 32) = 125
    <3>1. b = Xor(125, 32)  BY <1>2, <2>2
    <3>2. b = 93  BY <3>1 DEF Xor, Bit
    <3> QED  BY <3>2 DEF InSendingACCM, Flag, Esc
  <2> QED  BY <1>3, <2>1, <2>2 DEF Flag, Esc
<1>4. ~InSendingACCM(b) => b \notin {Flag, Esc} /\ ~InReceivingACCM(b)
  BY DEF InSendingACCM, InReceivingACCM, Flag, Esc, Byte
<1> QED  BY <1>2, <1>3, <1>4

\* One shift of a word, odd or even.
LEMMA ShiftWord ==
  ASSUME NEW h, NEW l, NEW a, NEW b, h \div 2 = a, 128 * (h % 2) + l \div 2 = b
  PROVE  /\ l % 2 = 1 => Shift(<<h, l>>) = <<Xor(a, 132), Xor(b, 8)>>
         /\ l % 2 = 0 => Shift(<<h, l>>) = <<a, b>>
<1> DEFINE x == <<h, l>>
           y == <<a, b>>
<1>1. x[1] = h /\ x[2] = l /\ y[1] = a /\ y[2] = b  OBVIOUS
<1> HIDE DEF x
<1>2. Half(x) = y  BY <1>1, ZenonT(40) DEF Half
<1> HIDE DEF y
<1>3. Shift(x) = IF l % 2 = 1 THEN <<Xor(a, 132), Xor(b, 8)>> ELSE y
  BY <1>1, <1>2, Zenon DEF Shift
<1>4. l % 2 = 0 => l % 2 # 1  OBVIOUS
<1> QED  BY <1>3, <1>4 DEF x, y

\* How to tell an exclusive or.
LEMMA XorIs ==
  ASSUME NEW a \in Byte, NEW b \in Byte, NEW c \in Byte,
         \A i \in Powers : Bit(c, i) = (Bit(a, i) + Bit(b, i)) % 2
  PROVE  Xor(a, b) = c
BY XorBits, SameBits

\* What an entry is, shift by shift.
LEMMA EightShifts ==
  ASSUME NEW a, NEW b, NEW c, NEW d, NEW e, NEW f, NEW g, NEW h, NEW i,
         Shift(a) = b, Shift(b) = c, Shift(c) = d, Shift(d) = e,
         Shift(e) = f, Shift(f) = g, Shift(g) = h, Shift(h) = i
  PROVE  Shift(Shift(Shift(Shift(Shift(Shift(Shift(Shift(a)))))))) = i
OBVIOUS

\* The two entries of the table that the check sequence of a packet leads to.
LEMMA Entries == FcsTable[255] = <<15, 120>> /\ FcsTable[135] = <<240, 183>>
<1>0. 255 \in Byte /\ 135 \in Byte  BY DEF Byte
<1>1. Xor(0, 132) = 132  BY DEF Xor, Bit
<1>2. Xor(22, 8) = 30  BY DEF Xor, Bit
<1>3. Xor(25, 8) = 17  BY DEF Xor, Bit
<1>4. Xor(37, 8) = 45  BY DEF Xor, Bit
<1>5. Xor(57, 132) = 189  BY DEF Xor, Bit
<1>6. Xor(59, 8) = 51  BY DEF Xor, Bit
<1>7. Xor(66, 132) = 198  BY DEF Xor, Bit
<1>8. Xor(67, 8) = 75  BY DEF Xor, Bit
<1>9. Xor(94, 132) = 218  BY DEF Xor, Bit
<1>10. Xor(99, 132) = 231  BY DEF Xor, Bit
<1>11. Xor(109, 132) = 233  BY DEF Xor, Bit
<1>12. Xor(115, 132) = 247  BY DEF Xor, Bit
<1>13. Xor(116, 132) = 240  BY DEF Xor, Bit
<1>14. Xor(119, 8) = 127  BY DEF Xor, Bit
<1>15. Xor(127, 8) = 119  BY DEF Xor, Bit
<1>16. Xor(136, 8) = 128  BY DEF Xor, Bit
<1>17. Xor(191, 8) = 183  BY DEF Xor, Bit
<1>18. Xor(199, 8) = 207  BY DEF Xor, Bit
<1>19. Xor(231, 8) = 239  BY DEF Xor, Bit
<1>20. Shift(<<0, 255>>) = <<132, 119>>
  <2>1. 0 \div 2 = 0 /\ 128 * (0 % 2) + 255 \div 2 = 127 /\ 255 % 2 = 1  OBVIOUS
  <2> QED  BY <1>1, <1>15, <2>1, ShiftWord
<1>21. Shift(<<132, 119>>) = <<198, 51>>
  <2>1. 132 \div 2 = 66 /\ 128 * (132 % 2) + 119 \div 2 = 59 /\ 119 % 2 = 1  OBVIOUS
  <2> QED  BY <1>7, <1>6, <2>1, ShiftWord
<1>22. Shift(<<198, 51>>) = <<231, 17>>
  <2>1. 198 \div 2 = 99 /\ 128 * (198 % 2) + 51 \div 2 = 25 /\ 51 % 2 = 1  OBVIOUS
  <2> QED  BY <1>10, <1>3, <2>1, ShiftWord
<1>23. Shift(<<231, 17>>) = <<247, 128>>
  <2>1. 231 \div 2 = 115 /\ 128 * (231 % 2) + 17 \div 2 = 136 /\ 17 % 2 = 1  OBVIOUS
  <2> QED  BY <1>12, <1>16, <2>1, ShiftWord
<1>24. Shift(<<247, 128>>) = <<123, 192>>
  <2>1. 247 \div 2 = 123 /\ 128 * (247 % 2) + 128 \div 2 = 192 /\ 128 % 2 = 0  OBVIOUS
  <2> QED  BY <2>1, ShiftWord
<1>25. Shift(<<123, 192>>) = <<61, 224>>
  <2>1. 123 \div 2 = 61 /\ 128 * (123 % 2) + 192 \div 2 = 224 /\ 192 % 2 = 0  OBVIOUS
  <2> QED  BY <2>1, ShiftWord
<1>26. Shift(<<61, 224>>) = <<30, 240>>
  <2>1. 61 \div 2 = 30 /\ 128 * (61 % 2) + 224 \div 2 = 240 /\ 224 % 2 = 0  OBVIOUS
  <2> QED  BY <2>1, ShiftWord
<1>27. Shift(<<30, 240>>) = <<15, 120>>
  <2>1. 30 \div 2 = 15 /\ 128 * (30 % 2) + 240 \div 2 = 120 /\ 240 % 2 = 0  OBVIOUS
  <2> QED  BY <2>1, ShiftWord
<1>28. Shift(<<0, 135>>) = <<132, 75>>
  <2>1. 0 \div 2 = 0 /\ 128 * (0 % 2) + 135 \div 2 = 67 /\ 135 % 2 = 1  OBVIOUS
  <2> QED  BY <1>1, <1>8, <2>1, ShiftWord
<1>29. Shift(<<132, 75>>) = <<198, 45>>
  <2>1. 132 \div 2 = 66 /\ 128 * (132 % 2) + 75 \div 2 = 37 /\ 75 % 2 = 1  OBVIOUS
  <2> QED  BY <1>7, <1>4, <2>1, ShiftWord
<1>30. Shift(<<198, 45>>) = <<231, 30>>
  <2>1. 198 \div 2 = 99 /\ 128 * (198 % 2) + 45 \div 2 = 22 /\ 45 % 2 = 1  OBVIOUS
  <2> QED  BY <1>10, <1>2, <2>1, ShiftWord
<1>31. Shift(<<231, 30>>) = <<115, 143>>
  <2>1. 231 \div 2 = 115 /\ 128 * (231 % 2) + 30 \div 2 = 143 /\ 30 % 2 = 0  OBVIOUS
  <2> QED  BY <2>1, ShiftWord
<1>32. Shift(<<115, 143>>) = <<189, 207>>
  <2>1. 115 \div 2 = 57 /\ 128 * (115 % 2) + 143 \div 2 = 199 /\ 143 % 2 = 1  OBVIOUS
  <2> QED  BY <1>5, <1>18, <2>1, ShiftWord
<1>33. Shift(<<189, 207>>) = <<218, 239>>
  <2>1. 189 \div 2 = 94 /\ 128 * (189 % 2) + 207 \div 2 = 231 /\ 207 % 2 = 1  OBVIOUS
  <2> QED  BY <1>9, <1>19, <2>1, ShiftWord
<1>34. Shift(<<218, 239>>) = <<233, 127>>
  <2>1. 218 \div 2 = 109 /\ 128 * (218 % 2) + 239 \div 2 = 119 /\ 239 % 2 = 1  OBVIOUS
  <2> QED  BY <1>11, <1>14, <2>1, ShiftWord
<1>35. Shift(<<233, 127>>) = <<240, 183>>
  <2>1. 233 \div 2 = 116 /\ 128 * (233 % 2) + 127 \div 2 = 191 /\ 127 % 2 = 1  OBVIOUS
  <2> QED  BY <1>13, <1>17, <2>1, ShiftWord
<1>36. FcsTable[255] = <<15, 120>>
  <2>1. FcsTable[255] = Shift(Shift(Shift(Shift(Shift(Shift(Shift(Shift(<<0, 255>>))))))))
    BY Zenon, <1>0 DEF FcsTable
  <2> QED  BY <1>20, <1>21, <1>22, <1>23, <1>24, <1>25, <1>26, <1>27, <2>1, EightShifts
<1>37. FcsTable[135] = <<240, 183>>
  <2>1. FcsTable[135] = Shift(Shift(Shift(Shift(Shift(Shift(Shift(Shift(<<0, 135>>))))))))
    BY ZenonT(40), <1>0 DEF FcsTable
  <2> QED  BY <1>28, <1>29, <1>30, <1>31, <1>32, <1>33, <1>34, <1>35, <2>1, EightShifts
<1> QED  BY <1>36, <1>37

-----------------------------------------------------------------------------
(* The frame check sequence                                                *)

Word == Byte \X Byte

\* The table holds words.
LEMMA Table == \A b \in Byte : FcsTable[b] \in Word
<1>1. ASSUME NEW x \in Word PROVE Shift(x) \in Word
  <2>1. x[1] \in Byte /\ x[2] \in Byte  BY DEF Word
  <2>2. x[1] \div 2 \in Byte /\ 128 * (x[1] % 2) + x[2] \div 2 \in Byte
    <3>1. \A y \in Byte : y \div 2 \in 0..127 /\ y % 2 \in {0, 1}  BY DEF Byte
    <3> QED  BY <2>1, <3>1 DEF Byte
  <2> DEFINE h == Half(x)
  <2>3. h \in Word /\ h[1] \in Byte /\ h[2] \in Byte  BY <2>2 DEF Half, Word
  <2> HIDE DEF h
  <2>4. 132 \in Byte /\ 8 \in Byte  BY DEF Byte
  <2>5. Xor(h[1], 132) \in Byte /\ Xor(h[2], 8) \in Byte  BY <2>3, <2>4, XorBits
  <2>6. <<Xor(h[1], 132), Xor(h[2], 8)>> \in Word  BY <2>5 DEF Word
  <2> QED  BY <2>3, <2>6, ZenonT(40) DEF Shift, h
<1>2. ASSUME NEW b \in Byte PROVE FcsTable[b] \in Word
  <2>1. <<0, b>> \in Word  BY DEF Word, Byte
  <2>2. FcsTable[b] = Shift(Shift(Shift(Shift(Shift(Shift(Shift(Shift(<<0, b>>))))))))
    BY Zenon DEF FcsTable
  <2> DEFINE x0 == <<0, b>>
             x1 == Shift(x0)  x2 == Shift(x1)  x3 == Shift(x2)  x4 == Shift(x3)
             x5 == Shift(x4)  x6 == Shift(x5)  x7 == Shift(x6)  x8 == Shift(x7)
  <2>3. x0 \in Word  BY <2>1
  <2> HIDE DEF x0
  <2>4. x8 \in Word
    <3>1. x1 \in Word  BY <2>3, <1>1
    <3> HIDE DEF x1
    <3>2. x2 \in Word  BY <3>1, <1>1
    <3> HIDE DEF x2
    <3>3. x3 \in Word  BY <3>2, <1>1
    <3> HIDE DEF x3
    <3>4. x4 \in Word  BY <3>3, <1>1
    <3> HIDE DEF x4
    <3>5. x5 \in Word  BY <3>4, <1>1
    <3> HIDE DEF x5
    <3>6. x6 \in Word  BY <3>5, <1>1
    <3> HIDE DEF x6
    <3>7. x7 \in Word  BY <3>6, <1>1
    <3> HIDE DEF x7
    <3> QED  BY <3>7, <1>1
  <2> QED  BY <2>2, <2>4, Zenon DEF x0
<1> QED  BY <1>2

\* One byte of the checksum.
LEMMA FcsOne ==
  /\ Step(FcsStep, Word, Byte)
  /\ \A h, l, b \in Byte :
       FcsStep[<< <<h, l>>, b >>] =
         <<FcsTable[Xor(l, b)][1], Xor(h, FcsTable[Xor(l, b)][2])>>
<1>1. ASSUME NEW p \in Word \X Byte
      PROVE  /\ FcsTable[Xor(p[1][2], p[2])] \in Word
             /\ <<FcsTable[Xor(p[1][2], p[2])][1], Xor(p[1][1], FcsTable[Xor(p[1][2], p[2])][2])>>
                   \in Word
  <2>1. p[1] \in Word /\ p[2] \in Byte  OBVIOUS
  <2>2. p[1][1] \in Byte /\ p[1][2] \in Byte  BY <2>1 DEF Word
  <2>3. Xor(p[1][2], p[2]) \in Byte  BY <2>1, <2>2, XorBits
  <2> DEFINE e == FcsTable[Xor(p[1][2], p[2])]
  <2>4. e \in Word  BY <2>3, Table
  <2> HIDE DEF e
  <2>5. e[1] \in Byte /\ e[2] \in Byte  BY <2>4 DEF Word
  <2>6. Xor(p[1][1], e[2]) \in Byte  BY <2>2, <2>5, XorBits
  <2>7. <<e[1], Xor(p[1][1], e[2])>> \in Word  BY <2>5, <2>6 DEF Word
  <2> QED  BY <2>4, <2>7 DEF e
<1> DEFINE next(p) == <<FcsTable[Xor(p[1][2], p[2])][1],
                        Xor(p[1][1], FcsTable[Xor(p[1][2], p[2])][2])>>
<1>2. FcsStep = [p \in Word \X Byte |-> next(p)]  BY Zenon DEF FcsStep, Word
<1>3. \A p \in Word \X Byte : next(p) \in Word  BY <1>1
<1>4. Step(FcsStep, Word, Byte)
  <2> HIDE DEF next
  <2> QED  BY <1>2, <1>3 DEF Step
<1>5. ASSUME NEW h \in Byte, NEW l \in Byte, NEW b \in Byte
      PROVE  FcsStep[<< <<h, l>>, b >>] =
               <<FcsTable[Xor(l, b)][1], Xor(h, FcsTable[Xor(l, b)][2])>>
  <2> DEFINE w == <<h, l>>
             q == <<w, b>>
  <2>1. w[1] = h /\ w[2] = l /\ w \in Word  BY DEF Word
  <2> HIDE DEF w
  <2>2. q[1] = w /\ q[2] = b /\ q \in Word \X Byte  BY <2>1
  <2> HIDE DEF q
  <2>3. FcsStep[q] = next(q)
    <3> HIDE DEF next
    <3> QED  BY <1>2, <2>2, Zenon
  <2>4. next(q) = <<FcsTable[Xor(l, b)][1], Xor(h, FcsTable[Xor(l, b)][2])>>
    BY <2>1, <2>2, Zenon
  <2> QED  BY <2>3, <2>4, Zenon DEF q, w
<1> QED  BY <1>4, <1>5

\* The sum of one byte more.
LEMMA Sums ==
  ASSUME NEW c \in Word
  PROVE  /\ FcsUpdate(c, << >>) = c
         /\ \A data \in Seq(Byte) : FcsUpdate(c, data) \in Word
         /\ \A data \in Seq(Byte), b \in Byte :
              FcsUpdate(c, Append(data, b)) = FcsStep[<<FcsUpdate(c, data), b>>]
<1>1. Step(FcsStep, Word, Byte)  BY FcsOne
<1>2. /\ Along(FcsStep, c, << >>) = c
      /\ \A data \in Seq(Byte) : Along(FcsStep, c, data) \in Word
      /\ \A data \in Seq(Byte), b \in Byte :
           Along(FcsStep, c, Append(data, b)) = FcsStep[<<Along(FcsStep, c, data), b>>]
  BY <1>1, AlongStep
<1> QED  BY <1>2, Zenon DEF FcsUpdate

\* A packet and its check sequence always come to the same sum.
LEMMA Residue ==
  ASSUME NEW packet \in Seq(Byte)
  PROVE  /\ Fcs(packet) \in Seq(Byte) /\ Len(Fcs(packet)) = 2
         /\ FcsUpdate(AddressControlChecksum, packet \o Fcs(packet)) = GoodFcs
<1> DEFINE c == AddressControlChecksum
           sum == FcsUpdate(c, packet)
<1>1. c \in Word  BY DEF AddressControlChecksum, Word, Byte
<1> HIDE DEF c
<1>2. sum \in Word  BY <1>1, Sums
<1>3. Fcs(packet) = <<255 - sum[2], 255 - sum[1]>>  BY Zenon DEF Fcs, c
<1> HIDE DEF sum
<1>4. PICK h \in Byte, l \in Byte : sum = <<h, l>>  BY <1>2 DEF Word
<1>5. Fcs(packet) = <<255 - l, 255 - h>>  BY <1>3, <1>4
<1>6. 255 - l \in Byte /\ 255 - h \in Byte /\ 120 \in Byte /\ 15 \in Byte  BY DEF Byte
<1>7. Fcs(packet) \in Seq(Byte) /\ Len(Fcs(packet)) = 2  BY <1>5, <1>6
<1>8. packet \o Fcs(packet) = Append(Append(packet, 255 - l), 255 - h)
  <2> DEFINE x == 255 - l
             y == 255 - h
  <2>0. x \in Byte /\ y \in Byte  BY <1>6
  <2> HIDE DEF x, y
  <2>1. packet \o <<x, y>> = Append(Append(packet, x), y)  BY <2>0
  <2> QED  BY <1>5, <2>1 DEF x, y
<1>9. FcsUpdate(c, Append(packet, 255 - l)) = <<15, Xor(h, 120)>>
  <2> DEFINE x == 255 - l
  <2>0. x \in Byte /\ Xor(l, x) = 255  BY <1>6, XorComplement
  <2> HIDE DEF x
  <2>1. FcsUpdate(c, Append(packet, x)) = FcsStep[<< <<h, l>>, x >>]
    BY <1>1, <1>4, <2>0, Sums DEF sum
  <2>2. FcsStep[<< <<h, l>>, x >>] = <<FcsTable[255][1], Xor(h, FcsTable[255][2])>>
    <3>1. FcsStep[<< <<h, l>>, x >>] = <<FcsTable[Xor(l, x)][1], Xor(h, FcsTable[Xor(l, x)][2])>>
      <4>1. x \in Byte  BY <2>0
      <4> QED  BY <4>1, FcsOne, Zenon
    <3> QED  BY <2>0, <3>1, ZenonT(40)
  <2>3. FcsTable[255][1] = 15 /\ FcsTable[255][2] = 120  BY Entries
  <2> QED  BY <2>1, <2>2, <2>3, ZenonT(40) DEF x
<1>10. FcsUpdate(c, Append(Append(packet, 255 - l), 255 - h)) = <<240, 184>>
  <2> DEFINE d == Append(packet, 255 - l)
             y == 255 - h
             g == Xor(h, 120)
  <2>0. d \in Seq(Byte) /\ y \in Byte /\ g \in Byte /\ FcsUpdate(c, d) = <<15, g>>
    BY <1>6, <1>9, AppendProperties, XorBits
  <2>1. Xor(g, y) = 135
    <3>1. Xor(Xor(h, 120), 255 - h) = 255 - 120  BY <1>6, XorComplement
    <3> QED  BY <3>1
  <2> HIDE DEF d, y, g
  <2>2. FcsUpdate(c, Append(d, y)) = FcsStep[<< <<15, g>>, y >>]  BY <1>1, <2>0, Sums
  <2>3. FcsStep[<< <<15, g>>, y >>] = <<FcsTable[135][1], Xor(15, FcsTable[135][2])>>
    <3> DEFINE k == 15
    <3>1. k \in Byte  BY <1>6
    <3> HIDE DEF k
    <3>2. FcsStep[<< <<k, g>>, y >>] = <<FcsTable[Xor(g, y)][1], Xor(k, FcsTable[Xor(g, y)][2])>>
      BY <2>0, <3>1, FcsOne, ZenonT(40)
    <3> QED  BY <2>1, <3>2, Zenon DEF k
  <2>4. FcsTable[135][1] = 240 /\ FcsTable[135][2] = 183  BY Entries
  <2>5. Xor(15, 183) = 184  BY DEF Xor, Bit
  <2> QED  BY <2>2, <2>3, <2>4, <2>5, ZenonT(40) DEF d, y
<1> QED  BY <1>7, <1>8, <1>10, Zenon DEF c, GoodFcs

-----------------------------------------------------------------------------
(* Escaping                                                                *)

\* A sequence of bytes with no flag among them.
Plain(s) == s \in Seq(Byte) /\ \A i \in 1..Len(s) : s[i] # Flag

\* Two of them in a row are one.
LEMMA PlainConcat ==
  ASSUME NEW s, NEW t, Plain(s), Plain(t)
  PROVE  Plain(s \o t)
BY ConcatProperties DEF Plain

\* One byte escaped.
LEMMA EscapeOne ==
  ASSUME NEW b \in Byte
  PROVE  Plain(Escaped(b)) /\ Len(Escaped(b)) \in 1..2
<1>1. CASE InSendingACCM(b)
  <2> DEFINE x == Xor(b, 32)
  <2>1. x \in Byte /\ x # Flag  BY <1>1, EscapedByte
  <2>2. Escaped(b) = <<Esc, x>>  BY <1>1 DEF Escaped
  <2> HIDE DEF x
  <2>3. Esc \in Byte /\ Esc # Flag  BY DEF Esc, Flag, Byte
  <2>4. Plain(<<Esc, x>>) /\ Len(<<Esc, x>>) = 2  BY <2>1, <2>3 DEF Plain
  <2> QED  BY <2>2, <2>4
<1>2. CASE ~InSendingACCM(b)
  <2>1. b # Flag  BY <1>2, EscapedByte
  <2>2. Escaped(b) = <<b>>  BY <1>2 DEF Escaped
  <2>3. Plain(<<b>>) /\ Len(<<b>>) = 1  BY <2>1 DEF Plain
  <2> QED  BY <2>2, <2>3
<1> QED  BY <1>1, <1>2

\* The escape of one byte more.
LEMMA EscapeMore ==
  /\ Step(EscapeStep, Seq(Byte), Byte)
  /\ Escape(<< >>) = << >>
  /\ \A data \in Seq(Byte) : Escape(data) \in Seq(Byte)
  /\ \A data \in Seq(Byte), b \in Byte : Escape(Append(data, b)) = Escape(data) \o Escaped(b)
<1>1. Step(EscapeStep, Seq(Byte), Byte)
  <2>1. ASSUME NEW p \in Seq(Byte) \X Byte PROVE p[1] \o Escaped(p[2]) \in Seq(Byte)
    <3>1. p[1] \in Seq(Byte) /\ p[2] \in Byte  OBVIOUS
    <3>2. Escaped(p[2]) \in Seq(Byte)  BY <3>1, EscapeOne DEF Plain
    <3> QED  BY <3>1, <3>2, ConcatProperties
  <2> QED  BY <2>1 DEF Step, EscapeStep
<1> DEFINE e == << >>
<1>2. e \in Seq(Byte)  OBVIOUS
<1> HIDE DEF e
<1>3. /\ Along(EscapeStep, e, << >>) = e
      /\ \A data \in Seq(Byte) : Along(EscapeStep, e, data) \in Seq(Byte)
      /\ \A data \in Seq(Byte), b \in Byte :
           Along(EscapeStep, e, Append(data, b)) = EscapeStep[<<Along(EscapeStep, e, data), b>>]
  BY <1>1, <1>2, AlongStep
<1>4. ASSUME NEW x \in Seq(Byte), NEW b \in Byte PROVE EscapeStep[<<x, b>>] = x \o Escaped(b)
  BY DEF EscapeStep
<1>5. \A data \in Seq(Byte) : Escape(data) = Along(EscapeStep, e, data)  BY Zenon DEF Escape, e
<1>6. ASSUME NEW data \in Seq(Byte), NEW b \in Byte
      PROVE  Escape(Append(data, b)) = Escape(data) \o Escaped(b)
  <2> DEFINE x == Along(EscapeStep, e, data)
             more == Append(data, b)
  <2>1. x \in Seq(Byte) /\ Escape(data) = x  BY <1>3, <1>5
  <2>2. more \in Seq(Byte)  BY AppendProperties
  <2>3. Along(EscapeStep, e, more) = EscapeStep[<<x, b>>]  BY <1>3
  <2>4. Escape(more) = Along(EscapeStep, e, more)
    <3> HIDE DEF more
    <3> QED  BY <1>5, <2>2
  <2> HIDE DEF x, more
  <2>5. EscapeStep[<<x, b>>] = x \o Escaped(b)  BY <1>4, <2>1
  <2> QED  BY <2>1, <2>3, <2>4, <2>5, Zenon DEF more
<1> QED  BY <1>1, <1>3, <1>5, <1>6, Zenon DEF Escape, e

\* No flag is left, and nothing grows to more than its double.
LEMMA EscapePlain ==
  ASSUME NEW data \in Seq(Byte)
  PROVE  Plain(Escape(data)) /\ Len(Escape(data)) \in Len(data)..2 * Len(data)
<1> DEFINE T == {d \in Seq(Byte) : /\ Plain(Escape(d))
                                   /\ Len(Escape(d)) \in Len(d)..2 * Len(d)}
<1>1. << >> \in T
  <2>1. Escape(<< >>) = << >>  BY EscapeMore
  <2>2. Plain(<< >>) /\ Len(<< >>) = 0 /\ << >> \in Seq(Byte)  BY DEF Plain
  <2> QED  BY <2>1, <2>2
<1>2. ASSUME NEW d \in Seq(Byte), NEW b \in Byte, d \in T PROVE Append(d, b) \in T
  <2> DEFINE x == Escape(d)
             y == Escaped(b)
             more == Append(d, b)
  <2>1. more \in Seq(Byte) /\ Len(more) = Len(d) + 1 /\ Len(d) \in Nat
    BY AppendProperties, LenProperties
  <2>2. Plain(x) /\ Len(x) \in Len(d)..2 * Len(d)  BY <1>2
  <2>3. Plain(y) /\ Len(y) \in 1..2  BY EscapeOne
  <2>4. Escape(more) = x \o y  BY EscapeMore
  <2> HIDE DEF x, y, more
  <2>5. Plain(x \o y)  BY <2>2, <2>3, PlainConcat
  <2>6. Len(x \o y) = Len(x) + Len(y)  BY <2>2, <2>3, ConcatProperties DEF Plain
  <2>7. Len(x \o y) \in Len(more)..2 * Len(more)
    <3>1. ASSUME NEW k \in Nat, NEW m \in k..2*k, NEW n \in 1..2
          PROVE  m + n \in (k+1)..2*(k+1)
      OBVIOUS
    <3> QED  BY <2>1, <2>2, <2>3, <2>6, <3>1
  <2>8. more \in T  BY <2>1, <2>4, <2>5, <2>7
  <2> QED  BY <2>8 DEF more
<1>3. Seq(Byte) \subseteq T
  <2> HIDE DEF T
  <2> QED  BY <1>1, <1>2, SeqInduction
<1> QED  BY <1>3

\* Where the decoder is behind the escape of d.
Clear(d) == [ok |-> TRUE, esc |-> FALSE, data |-> d]

\* What a step of the decoder leads to.
LEMMA UnescapeTyped == Step(UnescapeStep, Unescaping, Byte)
<1> DEFINE next(r, b) ==
      CASE b = Esc /\ r.esc  -> [r EXCEPT !.ok = FALSE]
        [] b = Esc /\ ~r.esc -> [r EXCEPT !.esc = TRUE]
        [] b # Esc /\ r.esc  -> Kept(r, Xor(b, 32))
        [] b # Esc /\ ~r.esc -> IF InReceivingACCM(b) THEN r ELSE Kept(r, b)
<1>1. ASSUME NEW r \in Unescaping, NEW b \in Byte PROVE next(r, b) \in Unescaping
  <2>1. [r EXCEPT !.ok = FALSE] \in Unescaping  BY DEF Unescaping
  <2>2. [r EXCEPT !.esc = TRUE] \in Unescaping  BY DEF Unescaping
  <2>3. \A x \in Byte : Kept(r, x) \in Unescaping
    BY AppendProperties DEF Unescaping, Kept
  <2>4. Xor(b, 32) \in Byte  BY EscapedByte
  <2>5. r.esc \in BOOLEAN  BY DEF Unescaping
  <2> QED  BY <2>1, <2>2, <2>3, <2>4, <2>5, Zenon
<1>2. ASSUME NEW p \in Unescaping \X Byte PROVE next(p[1], p[2]) \in Unescaping
  <2>1. p[1] \in Unescaping /\ p[2] \in Byte  OBVIOUS
  <2> HIDE DEF next
  <2> QED  BY <1>1, <2>1
<1>3. UnescapeStep = [p \in Unescaping \X Byte |-> next(p[1], p[2])]  BY Zenon DEF UnescapeStep
<1> HIDE DEF next
<1> QED  BY <1>2, <1>3 DEF Step

\* The length of a concatenation.
LEMMA Joined ==
  ASSUME NEW D, NEW s \in Seq(D), NEW t \in Seq(D)
  PROVE  s \o t \in Seq(D) /\ Len(s \o t) = Len(s) + Len(t)
BY ConcatProperties

\* One step from where nothing is pending.
LEMMA UnescapeClear ==
  ASSUME NEW d \in Seq(Byte), NEW b \in Byte
  PROVE  /\ Clear(d) \in Unescaping
         /\ b = Esc => UnescapeStep[<<Clear(d), b>>] = [ok |-> TRUE, esc |-> TRUE, data |-> d]
         /\ b # Esc /\ ~InReceivingACCM(b) =>
              UnescapeStep[<<Clear(d), b>>] = Clear(Append(d, b))
         /\ b # Esc => UnescapeStep[<<[ok |-> TRUE, esc |-> TRUE, data |-> d], b>>]
                        = Clear(Append(d, Xor(b, 32)))
<1> DEFINE r == Clear(d)
           e == [ok |-> TRUE, esc |-> TRUE, data |-> d]
<1>1. r \in Unescaping /\ e \in Unescaping  BY DEF Clear, Unescaping
<1>2. ~r.esc /\ e.esc /\ r.data = d /\ e.data = d /\ r.ok /\ e.ok  BY DEF Clear
<1>3. [r EXCEPT !.esc = TRUE] = e
  <2>1. ASSUME NEW s \in Unescaping
        PROVE  [s EXCEPT !.esc = TRUE] = [ok |-> s.ok, esc |-> TRUE, data |-> s.data]
    <3> DEFINE x == [s EXCEPT !.esc = TRUE]
    <3>1. x \in Unescaping /\ x.ok = s.ok /\ x.esc = TRUE /\ x.data = s.data
      BY DEF Unescaping
    <3> HIDE DEF x
    <3>2. \A y \in Unescaping : y = [ok |-> y.ok, esc |-> y.esc, data |-> y.data]
      BY DEF Unescaping
    <3> QED  BY <3>1, <3>2, Zenon DEF x
  <2> HIDE DEF r
  <2>2. [r EXCEPT !.esc = TRUE] = [ok |-> r.ok, esc |-> TRUE, data |-> r.data]
    BY <1>1, <2>1
  <2> QED  BY <1>2, <2>2
<1>4. \A x : Kept(r, x) = Clear(Append(d, x)) /\ Kept(e, x) = Clear(Append(d, x))
  BY DEF Clear, Kept
<1> DEFINE next(s, c) ==
      CASE c = Esc /\ s.esc  -> [s EXCEPT !.ok = FALSE]
        [] c = Esc /\ ~s.esc -> [s EXCEPT !.esc = TRUE]
        [] c # Esc /\ s.esc  -> Kept(s, Xor(c, 32))
        [] c # Esc /\ ~s.esc -> IF InReceivingACCM(c) THEN s ELSE Kept(s, c)
<1>5. ASSUME NEW s \in Unescaping PROVE UnescapeStep[<<s, b>>] = next(s, b)
  <2> DEFINE q == <<s, b>>
  <2>1. q \in Unescaping \X Byte /\ q[1] = s /\ q[2] = b  OBVIOUS
  <2> HIDE DEF q
  <2>2. UnescapeStep[q] = next(q[1], q[2])  BY <2>1, Zenon DEF UnescapeStep
  <2> HIDE DEF next
  <2> QED  BY <2>1, <2>2, Zenon DEF q
<1>6. UnescapeStep[<<r, b>>] = next(r, b) /\ UnescapeStep[<<e, b>>] = next(e, b)
  <2> HIDE DEF r, e, next
  <2> QED  BY <1>1, <1>5
<1> HIDE DEF r, e
<1>7. b = Esc => next(r, b) = [r EXCEPT !.esc = TRUE]  BY <1>2, Zenon
<1>8. b # Esc /\ ~InReceivingACCM(b) => next(r, b) = Kept(r, b)
  BY <1>2, Zenon
<1>9. b # Esc => next(e, b) = Kept(e, Xor(b, 32))
  BY <1>2, Zenon
<1> HIDE DEF next
<1> QED  BY <1>1, <1>3, <1>4, <1>6, <1>7, <1>8, <1>9, Zenon DEF r, e

\* A byte, escaped and unescaped.
LEMMA UnescapeOne ==
  ASSUME NEW d \in Seq(Byte), NEW b \in Byte
  PROVE  Along(UnescapeStep, Clear(d), Escaped(b)) = Clear(Append(d, b))
<1> DEFINE r == Clear(d)
           e == [ok |-> TRUE, esc |-> TRUE, data |-> d]
<1>1. r \in Unescaping /\ e \in Unescaping  BY DEF Clear, Unescaping
<1>2. r \in Unescaping => \A x \in Byte : Along(UnescapeStep, r, <<x>>) = UnescapeStep[<<r, x>>]
  <2> HIDE DEF r
  <2> SUFFICES ASSUME r \in Unescaping, NEW x \in Byte
               PROVE  Along(UnescapeStep, r, <<x>>) = UnescapeStep[<<r, x>>]
    OBVIOUS
  <2>1. <<x>> = Append(<< >>, x) /\ << >> \in Seq(Byte)  OBVIOUS
  <2>2. Along(UnescapeStep, r, << >>) = r  BY AlongStep, UnescapeTyped
  <2> DEFINE z == << >>
  <2>3. z \in Seq(Byte)  BY <2>1
  <2> HIDE DEF z
  <2>4. Along(UnescapeStep, r, Append(z, x)) = UnescapeStep[<<Along(UnescapeStep, r, z), x>>]
    BY <2>3, AlongStep, UnescapeTyped
  <2> QED  BY <2>1, <2>2, <2>4, Zenon DEF z
<1>3. CASE ~InSendingACCM(b)
  <2>1. b # Esc /\ ~InReceivingACCM(b) /\ Escaped(b) = <<b>>
    BY <1>3, EscapedByte DEF Escaped
  <2>2. UnescapeStep[<<r, b>>] = Clear(Append(d, b))  BY <2>1, UnescapeClear
  <2> HIDE DEF r
  <2> QED  BY <1>1, <1>2, <2>1, <2>2, Zenon DEF r
<1>4. CASE InSendingACCM(b)
  <2> DEFINE x == Xor(b, 32)
             k == Esc
             one == <<k>>
  <2>1. x \in Byte /\ x # Esc /\ Xor(x, 32) = b /\ k \in Byte /\ k = Esc
    <3>1. x \in Byte /\ x # Esc /\ Xor(x, 32) = b  BY <1>4, EscapedByte
    <3>2. k \in Byte /\ k = Esc  BY DEF Esc, Byte
    <3> QED  BY <3>1, <3>2
  <2>2. Escaped(b) = <<k, x>>  BY <1>4 DEF Escaped
  <2> HIDE DEF x, k
  <2>3. one \in Seq(Byte) /\ <<k, x>> = Append(one, x)  BY <2>1
  <2>4. Along(UnescapeStep, r, one) = e
    <3>1. UnescapeStep[<<r, k>>] = e  BY <2>1, UnescapeClear
    <3> HIDE DEF r, e
    <3> QED  BY <1>1, <1>2, <2>1, <3>1, Zenon
  <2>5. UnescapeStep[<<e, x>>] = Clear(Append(d, b))
    <3>1. UnescapeStep[<<e, x>>] = Clear(Append(d, Xor(x, 32)))  BY <2>1, UnescapeClear
    <3> QED  BY <2>1, <3>1, Zenon
  <2> HIDE DEF r, e, one
  <2>6. Along(UnescapeStep, r, Append(one, x)) = UnescapeStep[<<Along(UnescapeStep, r, one), x>>]
    BY <1>1, <2>1, <2>3, AlongStep, UnescapeTyped
  <2> QED  BY <2>2, <2>3, <2>4, <2>5, <2>6, Zenon DEF r
<1> QED  BY <1>3, <1>4

\* Unescape undoes Escape.
LEMMA UnescapeEscape ==
  ASSUME NEW data \in Seq(Byte)
  PROVE  Unescape(Escape(data)) = Clear(data)
<1> DEFINE none == Clear(<< >>)
           T == {d \in Seq(Byte) : Along(UnescapeStep, none, Escape(d)) = Clear(d)}
<1>1. none \in Unescaping  BY DEF Clear, Unescaping
<1>2. << >> \in T
  <2>1. Escape(<< >>) = << >> /\ << >> \in Seq(Byte)  BY EscapeMore
  <2> HIDE DEF none
  <2>2. Along(UnescapeStep, none, << >>) = none  BY <1>1, AlongStep, UnescapeTyped
  <2> QED  BY <2>1, <2>2, Zenon DEF none
<1>3. ASSUME NEW d \in Seq(Byte), NEW b \in Byte, d \in T PROVE Append(d, b) \in T
  <2> DEFINE x == Escape(d)
             y == Escaped(b)
             more == Append(d, b)
  <2>1. Along(UnescapeStep, none, x) = Clear(d)  BY <1>3
  <2>2. x \in Seq(Byte) /\ y \in Seq(Byte) /\ Escape(more) = x \o y
    BY EscapeMore, EscapeOne DEF Plain
  <2>3. Along(UnescapeStep, Clear(d), y) = Clear(more)  BY UnescapeOne
  <2>4. more \in Seq(Byte)  BY AppendProperties
  <2> HIDE DEF x, y, none, more
  <2>5. Along(UnescapeStep, none, x \o y) = Along(UnescapeStep, Along(UnescapeStep, none, x), y)
    BY <1>1, <2>2, AlongConcat, UnescapeTyped
  <2>6. Along(UnescapeStep, none, Escape(more)) = Clear(more)
    BY <2>1, <2>2, <2>3, <2>5, Zenon
  <2>7. more \in T  BY <2>4, <2>6
  <2> QED  BY <2>7 DEF more
<1>4. Seq(Byte) \subseteq T
  <2> HIDE DEF T
  <2> QED  BY <1>2, <1>3, SeqInduction
<1>5. data \in T  BY <1>4
<1>6. Unescape(Escape(data)) = Along(UnescapeStep, none, Escape(data))  BY Zenon DEF Unescape, Clear
<1> QED  BY <1>5, <1>6

\* Encoder.Encode and Decoder.Decode are inverse to each other: the frame of a packet, without
\* its flags, decodes to that packet whatever its bytes are, and there is no flag inside it.
THEOREM RoundTrip ==
  ASSUME NEW packet \in Seq(Byte) \ {<< >>}
  PROVE  /\ Decode(Body(packet)) = packet
         /\ Plain(Body(packet)) /\ Len(Body(packet)) \in 1..2 * Len(packet) + 7
<1> DEFINE data == packet \o Fcs(packet)
           coded == Escape(data)
           frame == Body(packet)
<1>1. packet \in Seq(Byte) /\ Len(packet) \in Nat \ {0}  BY EmptySeq
<1>2. Fcs(packet) \in Seq(Byte) /\ Len(Fcs(packet)) = 2
      /\ FcsUpdate(AddressControlChecksum, data) = GoodFcs
  BY <1>1, Residue
<1>3. data \in Seq(Byte) /\ Len(data) = Len(packet) + 2 /\ SubSeq(data, 1, Len(packet)) = packet
  <2> DEFINE f == Fcs(packet)
  <2>1. f \in Seq(Byte) /\ Len(f) = 2  BY <1>2
  <2> HIDE DEF f
  <2>2. packet \o f \in Seq(Byte) /\ Len(packet \o f) = Len(packet) + 2
    BY <1>1, <2>1, Joined
  <2>3. SubSeq(packet \o f, 1, Len(packet)) = packet
    <3>1. SubSeq(packet \o f, 1, Len(packet)) = SubSeq(packet, 1, Len(packet))
      BY <1>1, <2>1, SubSeqOfConcat1
    <3> QED  BY <1>1, <3>1, SubSeqFull
  <2> QED  BY <2>2, <2>3 DEF f
<1>4. frame = Header \o coded  BY Zenon DEF Body
<1> HIDE DEF data
<1>5. Plain(coded) /\ Len(coded) \in Len(data)..2 * Len(data)  BY <1>3, EscapePlain
<1>6. Unescape(coded) = Clear(data)  BY <1>3, UnescapeEscape
<1> HIDE DEF coded, frame
<1>7. Plain(Header) /\ Len(Header) = 3
  BY DEF Plain, Header, Byte, Flag, Esc
<1>8. coded \in Seq(Byte) /\ Header \in Seq(Byte)  BY <1>5, <1>7 DEF Plain
<1>9. Plain(frame) /\ Len(frame) = 3 + Len(coded) /\ frame \in Seq(Byte)
  <2> DEFINE h == Header
  <2>1. Plain(frame)  BY <1>4, <1>5, <1>7, PlainConcat
  <2>2. h \in Seq(Byte) /\ Len(h) = 3 /\ frame = h \o coded  BY <1>4, <1>7, <1>8
  <2> HIDE DEF h
  <2>3. Len(frame) = 3 + Len(coded)  BY <1>8, <2>2, Joined
  <2> QED  BY <2>1, <2>3 DEF Plain
<1>10. Len(coded) >= 3 /\ Len(coded) <= 2 * Len(packet) + 4  BY <1>1, <1>3, <1>5
<1>11. SubSeq(frame, 1, 3) = Header /\ SubSeq(frame, 4, Len(frame)) = coded
  <2> DEFINE h == Header
  <2>1. h \in Seq(Byte) /\ Len(h) = 3 /\ frame = h \o coded /\ Len(coded) \in Nat
    BY <1>4, <1>7, <1>8, LenProperties
  <2> HIDE DEF h
  <2>2. SubSeq(frame, 1, 3) = SubSeq(h, 1, 3)
    <3>1. 1 \in 1..Len(h) /\ 3 \in 1..Len(h)  BY <2>1
    <3> QED  BY <1>8, <2>1, <3>1, SubSeqOfConcat1
  <2>3. SubSeq(h, 1, 3) = h  BY <2>1, SubSeqFull
  <2>4. SubSeq(frame, 4, Len(frame)) = SubSeq(coded, 4 - 3, Len(frame) - 3)
    <3>1. 4 \in Len(h)+1 .. Len(h)+Len(coded) /\ Len(frame) \in Len(h)+1 .. Len(h)+Len(coded)
      BY <1>9, <1>10, <2>1
    <3>2. SubSeq(h \o coded, 4, Len(frame)) = SubSeq(coded, 4 - Len(h), Len(frame) - Len(h))
      <4>1. h \in Seq(Byte) /\ coded \in Seq(Byte)  BY <1>8, <2>1
      <4> QED  BY <3>1, <4>1, SubSeqOfConcat2, ZenonT(40)
    <3> QED  BY <2>1, <3>2
  <2>5. 4 - 3 = 1 /\ Len(frame) - 3 = Len(coded)  BY <1>9, <2>1
  <2>6. SubSeq(coded, 1, Len(coded)) = coded  BY <1>8, SubSeqFull
  <2> QED  BY <2>2, <2>3, <2>4, <2>5, <2>6 DEF h
<1>12. HasHeader(frame)  BY <1>9, <1>10, <1>11 DEF HasHeader
<1>13. Content(frame) = Clear(data)  BY <1>6, <1>11, <1>12, Zenon DEF Content
<1>14. Content(frame).data = data /\ Content(frame).ok /\ ~Content(frame).esc
  BY <1>13 DEF Clear
<1>15. Complete(frame)
  <2>1. Len(frame) >= 5 /\ Len(data) >= 3  BY <1>1, <1>3, <1>9, <1>10
  <2> QED  BY <1>14, <2>1, Zenon DEF Complete
<1>16. Packet(data) = packet
  <2>1. Len(data) - 2 = Len(packet)  BY <1>1, <1>3
  <2> QED  BY <1>3, <2>1, Zenon DEF Packet
<1>17. FcsUpdate(AddressControlChecksum, data) = GoodFcs  BY <1>2 DEF data
<1>18. Decode(frame) = packet
  <2>1. FcsUpdate(IF HasHeader(frame) THEN AddressControlChecksum ELSE InitialChecksum,
                  Content(frame).data) = GoodFcs
    BY <1>12, <1>14, <1>17, Zenon
  <2> QED  BY <1>14, <1>15, <1>16, <2>1, Zenon DEF Decode
<1>19. Len(frame) \in 1..2 * Len(packet) + 7  BY <1>1, <1>9, <1>10
<1> QED  BY <1>9, <1>18, <1>19 DEF frame

-----------------------------------------------------------------------------
(* Frames in the buffer                                                    *)

\* The least of a set of numbers.
LEMMA MinIs ==
  ASSUME NEW S \in SUBSET Nat, NEW m \in S, \A k \in S : m <= k
  PROVE  Min(S) = m
<1>1. \A x \in S : (\A y \in S : x <= y) => x = m  BY SMT
<1>2. Min(S) \in S /\ \A y \in S : Min(S) <= y  BY Zenon DEF Min
<1> QED  BY <1>1, <1>2

\* A set of numbers that is not empty has a least one.
LEMMA MinOf ==
  ASSUME NEW S \in SUBSET Nat, S # {}
  PROVE  Min(S) \in S /\ \A k \in S : Min(S) <= k
<1>1. PICK m \in S : \A k \in S : m <= k  BY LeastNat
<1> QED  BY <1>1, MinIs

\* What FindFrame finds lies between two flags.
LEMMA Found ==
  ASSUME NEW b \in Seq(Byte), NEW i \in 1..Len(b) + 1, FindFrame(b, i) # None
  PROVE  /\ FindFrame(b, i).from \in i + 1..Len(b) /\ FindFrame(b, i).to \in i..Len(b) - 1
<1> DEFINE flags == {j \in i..Len(b) : b[j] = Flag}
           plain == {j \in i..Len(b) : b[j] # Flag /\ \E f \in flags : f < j}
           ends  == {j \in flags : \E k \in plain : k < j}
<1>1. Len(b) \in Nat  BY LenProperties
<1>2. FindFrame(b, i) = IF ends = {} THEN None ELSE [from |-> Min(plain), to |-> Min(ends) - 1]
  BY Zenon DEF FindFrame
<1>3. ends # {}  BY <1>2
<1>4. plain # {} /\ plain \in SUBSET Nat /\ ends \in SUBSET Nat  BY <1>1, <1>3
<1>5. \A j \in plain : j \in i + 1..Len(b)  BY <1>1
<1>6. \A j \in ends : j \in i + 1..Len(b)  BY <1>1
<1>7. FindFrame(b, i) = [from |-> Min(plain), to |-> Min(ends) - 1]  BY <1>2, <1>3, Zenon
<1> HIDE DEF plain, ends
<1>8. Min(plain) \in plain /\ Min(ends) \in ends  BY <1>3, <1>4, MinOf
<1>9. Min(plain) \in i + 1..Len(b) /\ Min(ends) \in i + 1..Len(b)  BY <1>5, <1>6, <1>8
<1>10. FindFrame(b, i).from = Min(plain) /\ FindFrame(b, i).to = Min(ends) - 1  BY <1>7
<1> QED  BY <1>1, <1>9, <1>10

\* A frame whose two flags are there is found, exactly.
LEMMA FindsFrame ==
  ASSUME NEW b \in Seq(Byte), NEW i \in 1..Len(b), NEW n \in Nat \ {0},
         i + n + 1 <= Len(b), b[i] = Flag, b[i + n + 1] = Flag,
         \A j \in i + 1..i + n : b[j] # Flag
  PROVE  FindFrame(b, i) = [from |-> i + 1, to |-> i + n] /\ FindFrame(b, i) # None
<1> DEFINE flags == {j \in i..Len(b) : b[j] = Flag}
           plain == {j \in i..Len(b) : b[j] # Flag /\ \E f \in flags : f < j}
           ends  == {j \in flags : \E k \in plain : k < j}
<1>1. Len(b) \in Nat  BY LenProperties
<1>2. FindFrame(b, i) = IF ends = {} THEN None ELSE [from |-> Min(plain), to |-> Min(ends) - 1]
  BY Zenon DEF FindFrame
<1>3. i \in flags /\ i + n + 1 \in flags /\ i + 1 \in i + 1..i + n  BY <1>1
<1>4. i + 1 \in plain /\ \A k \in plain : i + 1 <= k  BY <1>1, <1>3
<1>5. i + n + 1 \in ends /\ \A k \in ends : i + n + 1 <= k
  <2>1. i + n + 1 \in ends  BY <1>3, <1>4
  <2>2. ASSUME NEW k \in ends, k < i + n + 1 PROVE FALSE
    <3>1. k \in i + 1..i + n /\ b[k] = Flag  BY <1>1, <1>4, <2>2
    <3> QED  BY <3>1
  <2>3. \A k \in ends : k \in Nat  BY <1>1
  <2> QED  BY <2>1, <2>2, <2>3
<1>6. plain \in SUBSET Nat /\ ends \in SUBSET Nat /\ ends # {}  BY <1>1, <1>5
<1>7. FindFrame(b, i) = [from |-> Min(plain), to |-> Min(ends) - 1]  BY <1>2, <1>6, Zenon
<1> HIDE DEF plain, ends
<1>8. Min(plain) = i + 1 /\ Min(ends) = i + n + 1  BY <1>4, <1>5, <1>6, MinIs
<1>9. FindFrame(b, i) = [from |-> i + 1, to |-> i + n]  BY <1>1, <1>7, <1>8
<1>10. [from |-> i + 1, to |-> i + n] # None  BY DEF None
<1> QED  BY <1>9, <1>10

\* Behind a single flag there is no frame yet.
LEMMA FindsNone ==
  ASSUME NEW b \in Seq(Byte), NEW i \in 1..Len(b) + 1,
         \A j \in i + 1..Len(b) : b[j] # Flag
  PROVE  FindFrame(b, i) = None
<1> DEFINE flags == {j \in i..Len(b) : b[j] = Flag}
           plain == {j \in i..Len(b) : b[j] # Flag /\ \E f \in flags : f < j}
           ends  == {j \in flags : \E k \in plain : k < j}
<1>1. Len(b) \in Nat  BY LenProperties
<1>2. FindFrame(b, i) = IF ends = {} THEN None ELSE [from |-> Min(plain), to |-> Min(ends) - 1]
  BY Zenon DEF FindFrame
<1>3. \A k \in plain : k \in i + 1..Len(b)  BY <1>1
<1>4. \A j \in ends : j \in i + 1..Len(b) /\ b[j] = Flag  BY <1>1, <1>3
<1>5. ends = {}  BY <1>4
<1> QED  BY <1>2, <1>5, Zenon

\* A packet comes out of a frame, or nothing does.
LEMMA Decoded ==
  ASSUME NEW frame \in Seq(Byte)
  PROVE  Decode(frame) \in Seq(Byte) \cup {Bad}
<1> DEFINE part == IF HasHeader(frame) THEN SubSeq(frame, 4, Len(frame)) ELSE frame
           c == Content(frame)
           start0 == [ok |-> TRUE, esc |-> FALSE, data |-> << >>]
<1>1. part \in Seq(Byte)
  <2>1. Len(frame) \in Nat /\ \A i \in 4..Len(frame) : frame[i] \in Byte
    BY LenProperties, ElementOfSeq
  <2>2. SubSeq(frame, 4, Len(frame)) \in Seq(Byte)  BY <2>1, SubSeqProperties
  <2> QED  BY <2>2
<1>2. c = Along(UnescapeStep, start0, part)  BY Zenon DEF Content, Unescape
<1>3. start0 \in Unescaping  BY DEF Unescaping
<1> HIDE DEF part, start0, c
<1>4. c \in Unescaping  BY <1>1, <1>2, <1>3, AlongStep, UnescapeTyped
<1>5. c.data \in Seq(Byte)  BY <1>4 DEF Unescaping
<1>6. Packet(c.data) \in Seq(Byte)
  <2> DEFINE d == c.data
  <2>1. d \in Seq(Byte) /\ Len(d) \in Nat  BY <1>5, LenProperties
  <2> HIDE DEF d
  <2>2. \A i \in 1..Len(d) - 2 : d[i] \in Byte  BY <2>1, ElementOfSeq
  <2>3. SubSeq(d, 1, Len(d) - 2) \in Seq(Byte)  BY <2>1, <2>2, SubSeqProperties
  <2> QED  BY <2>3, Zenon DEF Packet, d
<1>7. Decode(frame) = Packet(c.data) \/ Decode(frame) = Bad  BY Zenon DEF Decode, c
<1> QED  BY <1>6, <1>7

-----------------------------------------------------------------------------
(* Types                                                                   *)

\* A frame is made of bytes.
LEMMA Encoded ==
  ASSUME NEW flag \in BOOLEAN, NEW p \in Packets
  PROVE  Encode(flag, p) \in Seq(Byte)
<1>1. p \in Seq(Byte) \ {<< >>}  BY HdlcAssumption
<1>2. Body(p) \in Seq(Byte)  BY <1>1, RoundTrip DEF Plain
<1> DEFINE f == <<Flag>>
           o == IF flag THEN f ELSE << >>
           x == Body(p)
<1>3. f \in Seq(Byte) /\ o \in Seq(Byte)
  <2>1. Flag \in Byte  BY DEF Flag, Byte
  <2>2. f \in Seq(Byte) /\ << >> \in Seq(Byte)  BY <2>1
  <2> QED  BY <2>2
<1>4. Encode(flag, p) = (o \o x) \o f  BY Zenon DEF Encode
<1> HIDE DEF f, o, x
<1>5. x \in Seq(Byte)  BY <1>2 DEF x
<1>6. o \o x \in Seq(Byte)  BY <1>3, <1>5, Joined
<1>7. (o \o x) \o f \in Seq(Byte)  BY <1>3, <1>6, Joined
<1> QED  BY <1>4, <1>7

\* How much a read finds.
LEMMA Piece ==
  ASSUME NEW m \in Pieces, NEW l \in Nat, NEW k \in Nat, l > 0, k > 0
  PROVE  Min({m, l, k}) \in 1..l /\ Min({m, l, k}) <= k
<1>1. m \in Nat \ {0}  BY HdlcAssumption
<1> DEFINE S == {m, l, k}
<1>2. S \in SUBSET Nat /\ S # {}  BY <1>1
<1>3. \A x \in S : x \in Nat \ {0}  BY <1>1
<1>4. l \in S /\ k \in S  OBVIOUS
<1> HIDE DEF S
<1>5. Min(S) \in S /\ \A x \in S : Min(S) <= x  BY <1>2, MinOf
<1>6. Min(S) \in 1..l /\ Min(S) <= k
  <2> DEFINE v == Min(S)
  <2>1. v \in Nat \ {0} /\ v <= l /\ v <= k  BY <1>3, <1>4, <1>5
  <2> HIDE DEF v
  <2>2. v \in 1..l /\ v <= k  BY <2>1
  <2> QED  BY <2>2 DEF v
<1> QED  BY <1>6 DEF S

\* A piece of a sequence.
LEMMA Sub ==
  ASSUME NEW D, NEW s \in Seq(D), NEW i \in Nat \ {0}, NEW j \in Nat, j <= Len(s)
  PROVE  /\ SubSeq(s, i, j) \in Seq(D)
         /\ Len(SubSeq(s, i, j)) = IF i <= j THEN j - i + 1 ELSE 0
         /\ \A k \in 1..j - i + 1 : SubSeq(s, i, j)[k] = s[i + k - 1]
<1>1. Len(s) \in Nat  BY LenProperties
<1>2. \A k \in i..j : s[k] \in D  BY <1>1, ElementOfSeq
<1> QED  BY <1>2, SubSeqProperties

\* The types of the variables, for every set of packets and every size of the buffer.
THEOREM Types == Spec => []TypeOK
<1>1. Init => TypeOK
  <2>1. << >> \in Seq(Packets) /\ << >> \in Seq(Byte) /\ << >> \in Seq(Seq(Byte)) /\ Len(<< >>) = 0
    OBVIOUS
  <2> DEFINE e == << >>
  <2>2. e \in Seq(Packets) /\ e \in Seq(Byte) /\ e \in Seq(Seq(Byte)) /\ Len(e) = 0  BY <2>1
  <2>3. Init => sent = e /\ needFlag = TRUE /\ wire = e /\ buf = e /\ start = 1
                /\ draining = FALSE /\ got = e /\ faults = 0
    BY Zenon DEF Init
  <2> HIDE DEF e
  <2>4. 0 <= MaxFrames /\ 0 \in 0..MaxFaults /\ 0 <= BufSize  BY HdlcAssumption
  <2> SUFFICES ASSUME Init PROVE TypeOK
    OBVIOUS
  <2>5. sent \in Seq(Packets) /\ Len(sent) <= MaxFrames  BY <2>2, <2>3, <2>4
  <2>6. wire \in Seq(Byte) /\ buf \in Seq(Byte) /\ Len(buf) <= BufSize
        /\ got \in Seq(Seq(Byte))
    BY <2>2, <2>3, <2>4
  <2>7. start \in 1..Len(buf) + 1 /\ start = 1  BY <2>2, <2>3
  <2>8. needFlag \in BOOLEAN /\ draining \in BOOLEAN /\ faults \in 0..MaxFaults
    BY <2>3, <2>4
  <2> QED  BY <2>5, <2>6, <2>7, <2>8, Zenon DEF TypeOK
<1>2. TypeOK /\ [Next]_vars => TypeOK'
  <2> SUFFICES ASSUME TypeOK, [Next]_vars PROVE TypeOK'
    OBVIOUS
  <2>0. /\ sent \in Seq(Packets) /\ Len(sent) <= MaxFrames /\ needFlag \in BOOLEAN
        /\ draining \in BOOLEAN /\ faults \in 0..MaxFaults /\ wire \in Seq(Byte)
        /\ buf \in Seq(Byte) /\ Len(buf) <= BufSize /\ start \in 1..Len(buf) + 1
        /\ (~draining => start = 1) /\ got \in Seq(Seq(Byte))
        /\ Len(buf) \in Nat /\ Len(wire) \in Nat /\ Len(sent) \in Nat
    BY LenProperties DEF TypeOK
  <2>1. CASE Write
    <3>1. PICK p \in Packets : sent' = Append(sent, p) /\ wire' = wire \o Encode(needFlag, p)
      BY <2>1 DEF Write
    <3>2. sent' \in Seq(Packets) /\ Len(sent') <= MaxFrames
      BY <2>0, <2>1, <3>1, AppendProperties, HdlcAssumption DEF Write
    <3>3. wire' \in Seq(Byte)
      <4> DEFINE e == Encode(needFlag, p)
      <4>1. e \in Seq(Byte)  BY <2>0, Encoded
      <4> HIDE DEF e
      <4>2. wire \o e \in Seq(Byte)  BY <2>0, <4>1, Joined
      <4> QED  BY <3>1, <4>2 DEF e
    <3>4. needFlag' \in BOOLEAN  BY <2>1, HdlcAssumption DEF Write
    <3> QED  BY <2>0, <2>1, <3>2, <3>3, <3>4 DEF Write, TypeOK, reader
  <2>2. CASE Read
    <3>1. PICK n \in {Min({m, Len(wire), BufSize - Len(buf)}) : m \in Pieces} :
            buf' = buf \o SubSeq(wire, 1, n) /\ wire' = SubSeq(wire, n + 1, Len(wire))
      BY <2>2 DEF Read
    <3>2. BufSize - Len(buf) \in Nat /\ BufSize - Len(buf) > 0 /\ Len(wire) > 0 /\ ~draining
      <4>1. Len(wire) # 0  BY <2>0, <2>2, EmptySeq DEF Read
      <4> QED  BY <2>0, <2>2, <4>1, HdlcAssumption, SMTT(30) DEF Read
    <3>3. n \in 1..Len(wire) /\ n <= BufSize - Len(buf)
      <4>1. PICK m \in Pieces : n = Min({m, Len(wire), BufSize - Len(buf)})  BY <3>1
      <4> DEFINE l == Len(wire)
                 k == BufSize - Len(buf)
      <4>2. l \in Nat /\ k \in Nat /\ l > 0 /\ k > 0  BY <2>0, <3>2
      <4> HIDE DEF l, k
      <4>3. Min({m, l, k}) \in 1..l /\ Min({m, l, k}) <= k  BY <4>2, Piece
      <4> QED  BY <4>1, <4>3 DEF l, k
    <3> HIDE DEF Min
    <3>4. SubSeq(wire, 1, n) \in Seq(Byte) /\ Len(SubSeq(wire, 1, n)) = n
          /\ SubSeq(wire, n + 1, Len(wire)) \in Seq(Byte)
      <4>1. n \in Nat \ {0} /\ n <= Len(wire) /\ n + 1 \in Nat \ {0} /\ 1 \in Nat \ {0}
        BY <2>0, <3>3
      <4>2. SubSeq(wire, 1, n) \in Seq(Byte) /\ Len(SubSeq(wire, 1, n)) = IF 1 <= n THEN n - 1 + 1 ELSE 0
        BY <2>0, <4>1, Sub
      <4>3. SubSeq(wire, n + 1, Len(wire)) \in Seq(Byte)  BY <2>0, <4>1, Sub
      <4> QED  BY <4>1, <4>2, <4>3
    <3>5. buf' \in Seq(Byte) /\ Len(buf') = Len(buf) + n
      <4> DEFINE e == SubSeq(wire, 1, n)
      <4>1. e \in Seq(Byte) /\ Len(e) = n  BY <3>4
      <4> HIDE DEF e
      <4>2. buf \o e \in Seq(Byte) /\ Len(buf \o e) = Len(buf) + n  BY <2>0, <4>1, Joined
      <4> QED  BY <3>1, <4>2 DEF e
    <3>6. Len(buf') <= BufSize /\ 1 \in 1..Len(buf') + 1  BY <2>0, <3>2, <3>3, <3>5, HdlcAssumption
    <3>7. start' = 1 /\ wire' \in Seq(Byte) /\ draining' = TRUE
      BY <2>0, <2>2, <3>1, <3>2, <3>4 DEF Read
    <3> QED  BY <2>0, <2>2, <3>5, <3>6, <3>7 DEF Read, TypeOK
  <2>3. CASE Take
    <3> DEFINE f == FindFrame(buf, start)
               frame == SubSeq(buf, f.from, f.to)
               p == Decode(frame)
    <3>1. draining /\ f # None /\ start' = f.to + 2
          /\ got' = (IF p = Bad THEN got ELSE Append(got, p))
          /\ UNCHANGED <<sent, needFlag, wire, buf, draining, faults>>
      BY <2>3, Zenon DEF Take
    <3>2. f.from \in start + 1..Len(buf) /\ f.to \in start..Len(buf) - 1
      BY <2>0, <3>1, Found
    <3> HIDE DEF f
    <3>3. start' \in 1..Len(buf) + 1  BY <2>0, <3>1, <3>2, SMTT(30)
    <3>4. frame \in Seq(Byte)
      <4>1. f.from \in Nat \ {0} /\ f.to \in Nat /\ f.to <= Len(buf)  BY <2>0, <3>2
      <4> QED  BY <2>0, <4>1, Sub
    <3> HIDE DEF frame
    <3>5. p \in Seq(Byte) \cup {Bad}  BY <3>4, Decoded
    <3> HIDE DEF p
    <3>6. got' \in Seq(Seq(Byte))
      <4>1. CASE p = Bad  BY <2>0, <3>1, <4>1
      <4>2. CASE p # Bad
        <5>1. p \in Seq(Byte)  BY <3>5, <4>2
        <5> QED  BY <2>0, <3>1, <4>2, <5>1, AppendProperties
      <4> QED  BY <4>1, <4>2
    <3> QED  BY <2>0, <3>1, <3>3, <3>6 DEF TypeOK
  <2>4. CASE Compact
    <3>1. SubSeq(buf, start, Len(buf)) \in Seq(Byte)
          /\ Len(SubSeq(buf, start, Len(buf))) <= Len(buf)
      <4>1. start \in Nat \ {0} /\ Len(buf) <= Len(buf)  BY <2>0
      <4>2. SubSeq(buf, start, Len(buf)) \in Seq(Byte)
            /\ Len(SubSeq(buf, start, Len(buf))) = IF start <= Len(buf) THEN Len(buf) - start + 1 ELSE 0
        BY <2>0, <4>1, Sub
      <4> QED  BY <2>0, <4>2
    <3>2. buf' \in Seq(Byte) /\ Len(buf') <= BufSize /\ Len(buf') \in Nat
      BY <2>0, <2>4, <3>1, LenProperties, HdlcAssumption DEF Compact
    <3>3. start' = 1 /\ start' \in 1..Len(buf') + 1  BY <2>4, <3>2 DEF Compact
    <3> QED  BY <2>0, <2>4, <3>2, <3>3 DEF Compact, TypeOK
  <2>5. CASE Garble
    <3>1. PICK i \in DOMAIN wire, b \in Garbage : wire' = [wire EXCEPT ![i] = b]
      BY <2>5 DEF Garble
    <3>2. wire' \in Seq(Byte)
      <4>1. i \in 1..Len(wire) /\ b \in Byte  BY <2>0, HdlcAssumption, LenProperties
      <4> QED  BY <2>0, <3>1, <4>1, ExceptSeq
    <3>3. faults' \in 0..MaxFaults  BY <2>0, <2>5, HdlcAssumption DEF Garble
    <3> QED  BY <2>0, <2>5, <3>2, <3>3 DEF Garble, TypeOK, reader
  <2>6. CASE Quiet \/ UNCHANGED vars
    BY <2>0, <2>6 DEF Quiet, vars, reader, TypeOK
  <2> QED  BY <2>1, <2>2, <2>3, <2>4, <2>5, <2>6 DEF Next
<1> QED  BY <1>1, <1>2, PTL DEF Spec

-----------------------------------------------------------------------------
(* The stream of frames on a clean line                                    *)

\* What the wire carries of packets whose frames all open with a flag.
FrameStep == [x \in Seq(Byte) \X Packets |-> x[1] \o Encode(TRUE, x[2])]
Frames(s) == Along(FrameStep, << >>, s)

\* The frames of one packet more.
LEMMA FramesMore ==
  /\ Frames(<< >>) = << >>
  /\ \A s \in Seq(Packets) : Frames(s) \in Seq(Byte)
  /\ \A s \in Seq(Packets), p \in Packets : Frames(Append(s, p)) = Frames(s) \o Encode(TRUE, p)
<1>1. Step(FrameStep, Seq(Byte), Packets)
  <2>1. ASSUME NEW x \in Seq(Byte) \X Packets PROVE x[1] \o Encode(TRUE, x[2]) \in Seq(Byte)
    <3>1. x[1] \in Seq(Byte) /\ x[2] \in Packets  OBVIOUS
    <3>2. Encode(TRUE, x[2]) \in Seq(Byte)  BY <3>1, Encoded
    <3> QED  BY <3>1, <3>2, ConcatProperties
  <2> QED  BY <2>1 DEF Step, FrameStep
<1> DEFINE e == << >>
<1>2. e \in Seq(Byte)  OBVIOUS
<1> HIDE DEF e
<1>3. /\ Along(FrameStep, e, << >>) = e
      /\ \A s \in Seq(Packets) : Along(FrameStep, e, s) \in Seq(Byte)
      /\ \A s \in Seq(Packets), p \in Packets :
           Along(FrameStep, e, Append(s, p)) = FrameStep[<<Along(FrameStep, e, s), p>>]
  BY <1>1, <1>2, AlongStep
<1>4. ASSUME NEW x \in Seq(Byte), NEW p \in Packets
      PROVE  FrameStep[<<x, p>>] = x \o Encode(TRUE, p)
  BY DEF FrameStep
<1>5. \A s \in Seq(Packets) : Frames(s) = Along(FrameStep, e, s)  BY Zenon DEF Frames, e
<1>6. ASSUME NEW s \in Seq(Packets), NEW p \in Packets
      PROVE  Frames(Append(s, p)) = Frames(s) \o Encode(TRUE, p)
  <2> DEFINE x == Along(FrameStep, e, s)
             more == Append(s, p)
  <2>1. x \in Seq(Byte) /\ Frames(s) = x  BY <1>3, <1>5
  <2>2. more \in Seq(Packets)  BY AppendProperties
  <2>3. Along(FrameStep, e, more) = FrameStep[<<x, p>>]  BY <1>3
  <2>4. Frames(more) = Along(FrameStep, e, more)
    <3> HIDE DEF more
    <3> QED  BY <1>5, <2>2
  <2> HIDE DEF x, more
  <2>5. FrameStep[<<x, p>>] = x \o Encode(TRUE, p)  BY <1>4, <2>1
  <2> QED  BY <2>1, <2>3, <2>4, <2>5, Zenon DEF more
<1> QED  BY <1>3, <1>5, <1>6, Zenon DEF Frames, e

\* The first frame comes first.
LEMMA FramesFirst ==
  ASSUME NEW p \in Packets, NEW t \in Seq(Packets)
  PROVE  Frames(<<p>> \o t) = Encode(TRUE, p) \o Frames(t)
<1> DEFINE e == Encode(TRUE, p)
           one == <<p>>
           T == {s \in Seq(Packets) : Frames(one \o s) = e \o Frames(s)}
<1>1. e \in Seq(Byte) /\ one \in Seq(Packets)
  <2>1. e \in Seq(Byte)  BY Encoded
  <2>2. one \in Seq(Packets)  OBVIOUS
  <2> QED  BY <2>1, <2>2
<1>2. << >> \in T
  <2> DEFINE z == << >>
  <2>1. z \in Seq(Packets) /\ z \in Seq(Byte) /\ Frames(z) = z  BY FramesMore
  <2>2. one = Append(z, p)  OBVIOUS
  <2>3. one \o z = one /\ e \o z = e /\ z \o e = e
    <3> HIDE DEF z, e, one
    <3>1. z = << >>  BY DEF z
    <3> QED  BY <1>1, <3>1, ConcatEmptySeq
  <2> HIDE DEF z, one
  <2>4. Frames(one) = z \o e  BY <2>1, <2>2, FramesMore
  <2>5. z \in T  BY <2>1, <2>3, <2>4
  <2> QED  BY <2>5 DEF z
<1>3. ASSUME NEW s \in Seq(Packets), NEW d \in Packets, s \in T PROVE Append(s, d) \in T
  <2> DEFINE x == Encode(TRUE, d)
             w == one \o s
             more == Append(s, d)
  <2>1. x \in Seq(Byte) /\ w \in Seq(Packets) /\ more \in Seq(Packets) /\ Frames(s) \in Seq(Byte)
    BY <1>1, Encoded, ConcatProperties, AppendProperties, FramesMore
  <2>2. one \o more = Append(w, d)
    <3> HIDE DEF one
    <3>1. more = s \o <<d>> /\ Append(w, d) = w \o <<d>>  BY <2>1, AppendIsConcat
    <3>2. <<d>> \in Seq(Packets)  OBVIOUS
    <3> QED  BY <1>1, <3>1, <3>2, ConcatAssociative
  <2>3. Frames(w) = e \o Frames(s)  BY <1>3
  <2> HIDE DEF w, one
  <2>4. Frames(more) = Frames(s) \o x /\ Frames(Append(w, d)) = Frames(w) \o x
    BY <2>1, FramesMore
  <2> HIDE DEF x, more, e
  <2>5. (e \o Frames(s)) \o x = e \o (Frames(s) \o x)
    <3>1. e \in Seq(Byte) /\ Frames(s) \in Seq(Byte) /\ x \in Seq(Byte)  BY <1>1, <2>1, Zenon
    <3> QED  BY <3>1, ConcatAssociative, SMTT(30)
  <2>6. Frames(one \o more) = e \o Frames(more)  BY <2>2, <2>3, <2>4, <2>5, Zenon
  <2>7. more \in T  BY <2>1, <2>6
  <2> QED  BY <2>7 DEF more
<1>4. Seq(Packets) \subseteq T
  <2> HIDE DEF T
  <2> QED  BY <1>2, <1>3, SeqInduction
<1>5. t \in T  BY <1>4
<1> QED  BY <1>5

\* A byte of a concatenation.
LEMMA Parts ==
  ASSUME NEW D, NEW s \in Seq(D), NEW t \in Seq(D)
  PROVE  /\ \A i \in 1..Len(s) : (s \o t)[i] = s[i]
         /\ \A i \in 1..Len(t) : (s \o t)[Len(s) + i] = t[i]
<1>1. Len(s) \in Nat /\ Len(t) \in Nat  BY LenProperties
<1>2. \A i \in 1..Len(s) + Len(t) : (s \o t)[i] = IF i <= Len(s) THEN s[i] ELSE t[i - Len(s)]
  BY ConcatProperties
<1>3. ASSUME NEW i \in 1..Len(s) PROVE (s \o t)[i] = s[i]
  <2>1. i \in 1..Len(s) + Len(t) /\ i <= Len(s)  BY <1>1
  <2> QED  BY <1>2, <2>1
<1>4. ASSUME NEW i \in 1..Len(t) PROVE (s \o t)[Len(s) + i] = t[i]
  <2>1. Len(s) + i \in 1..Len(s) + Len(t) /\ ~(Len(s) + i <= Len(s)) /\ Len(s) + i - Len(s) = i
    BY <1>1
  <2> QED  BY <1>2, <2>1
<1> QED  BY <1>3, <1>4

\* A frame: a flag, bytes that are none, and a flag.
LEMMA Shape ==
  ASSUME NEW p \in Packets
  PROVE  /\ Encode(TRUE, p) \in Seq(Byte) /\ Body(p) \in Seq(Byte)
         /\ Len(Body(p)) \in 1..2 * Len(p) + 7 /\ Len(Encode(TRUE, p)) = Len(Body(p)) + 2
         /\ Encode(TRUE, p)[1] = Flag /\ Encode(TRUE, p)[Len(Body(p)) + 2] = Flag
         /\ \A j \in 1..Len(Body(p)) : /\ Encode(TRUE, p)[j + 1] = Body(p)[j]
                                       /\ Encode(TRUE, p)[j + 1] # Flag
<1>1. p \in Seq(Byte) \ {<< >>}  BY HdlcAssumption
<1> DEFINE x == Body(p)
           f == <<Flag>>
           e == Encode(TRUE, p)
           fx == f \o x
<1>2. x \in Seq(Byte) /\ Plain(x) /\ Len(x) \in 1..2 * Len(p) + 7  BY <1>1, RoundTrip DEF Plain
<1>3. f \in Seq(Byte) /\ Len(f) = 1 /\ f[1] = Flag  BY DEF Flag, Byte
<1>4. e = fx \o f  BY Zenon DEF Encode
<1>5. e \in Seq(Byte)  BY Encoded
<1> HIDE DEF x, f, e
<1>6. fx \in Seq(Byte) /\ Len(fx) = Len(x) + 1 /\ fx[1] = Flag
      /\ \A j \in 1..Len(x) : fx[j + 1] = x[j]
  <2>1. Len(x) \in Nat  BY <1>2, LenProperties
  <2>2. fx \in Seq(Byte) /\ Len(fx) = Len(f) + Len(x)  BY <1>2, <1>3, Joined
  <2>3. /\ \A i \in 1..Len(f) : fx[i] = f[i]
        /\ \A i \in 1..Len(x) : fx[Len(f) + i] = x[i]
    <3>1. f \in Seq(Byte) /\ x \in Seq(Byte)  BY <1>2, <1>3
    <3> QED  BY <3>1, Parts
  <2> HIDE DEF fx
  <2>4. fx[1] = f[1]  BY <1>3, <2>3
  <2>5. ASSUME NEW j \in 1..Len(x) PROVE fx[j + 1] = x[j]
    <3>1. Len(f) + j = j + 1  BY <1>3, <2>1
    <3> QED  BY <2>3, <3>1
  <2> QED  BY <1>3, <2>1, <2>2, <2>4, <2>5
<1> HIDE DEF fx
<1>7. /\ Len(e) = Len(x) + 2 /\ e[1] = Flag /\ e[Len(x) + 2] = Flag
      /\ \A j \in 1..Len(x) : e[j + 1] = x[j]
  <2>1. Len(x) \in Nat  BY <1>2, LenProperties
  <2>2. Len(e) = Len(fx) + Len(f)  BY <1>3, <1>4, <1>6, Joined
  <2>3. /\ \A i \in 1..Len(fx) : e[i] = fx[i]
        /\ \A i \in 1..Len(f) : e[Len(fx) + i] = f[i]
    <3>1. fx \in Seq(Byte) /\ f \in Seq(Byte)  BY <1>3, <1>6
    <3>2. /\ \A i \in 1..Len(fx) : (fx \o f)[i] = fx[i]
          /\ \A i \in 1..Len(f) : (fx \o f)[Len(fx) + i] = f[i]
      BY <3>1, Parts
    <3> QED  BY <1>4, <3>2, Zenon
  <2>4. e[1] = fx[1]
    <3>1. 1 \in 1..Len(fx)  BY <1>6, <2>1
    <3> QED  BY <2>3, <3>1
  <2>5. e[Len(x) + 2] = f[1]
    <3>1. 1 \in 1..Len(f) /\ Len(fx) + 1 = Len(x) + 2  BY <1>3, <1>6, <2>1
    <3> QED  BY <2>3, <3>1
  <2>6. ASSUME NEW j \in 1..Len(x) PROVE e[j + 1] = x[j]
    <3>1. j + 1 \in 1..Len(fx)  BY <1>6, <2>1
    <3> QED  BY <1>6, <2>3, <3>1
  <2> QED  BY <1>3, <1>6, <2>1, <2>2, <2>4, <2>5, <2>6
<1>8. \A j \in 1..Len(x) : x[j] # Flag  BY <1>2 DEF Plain
<1> QED  BY <1>2, <1>5, <1>7, <1>8 DEF x, e

\* Concatenation of bytes is associative.
LEMMA Associative ==
  \A s, t, u \in Seq(Byte) : (s \o t) \o u = s \o (t \o u)
BY ConcatAssociative

\* What the buffer holds from i on.
Held(b, i) == SubSeq(b, i, Len(b))

\* Its length and its bytes.
LEMMA HeldIs ==
  ASSUME NEW b \in Seq(Byte), NEW i \in 1..Len(b) + 1
  PROVE  /\ Held(b, i) \in Seq(Byte) /\ Len(Held(b, i)) = Len(b) - i + 1
         /\ \A k \in 1..Len(b) - i + 1 : Held(b, i)[k] = b[i + k - 1]
<1>1. Len(b) \in Nat  BY LenProperties
<1>2. i \in Nat \ {0} /\ Len(b) <= Len(b)  BY <1>1
<1>3. /\ SubSeq(b, i, Len(b)) \in Seq(Byte)
      /\ Len(SubSeq(b, i, Len(b))) = IF i <= Len(b) THEN Len(b) - i + 1 ELSE 0
      /\ \A k \in 1..Len(b) - i + 1 : SubSeq(b, i, Len(b))[k] = b[i + k - 1]
  BY <1>1, <1>2, Sub
<1>4. ~(i <= Len(b)) => Len(b) - i + 1 = 0  BY <1>1
<1> QED  BY <1>3, <1>4 DEF Held

\* The reader at the beginning of a frame: while a byte of it is missing it finds nothing,
\* and once it is all there it finds it, decodes it, and is at the beginning of the next.
LEMMA NextFrame ==
  ASSUME NEW b \in Seq(Byte), NEW w \in Seq(Byte), NEW i \in 1..Len(b) + 1,
         NEW p \in Packets, NEW rest \in Seq(Byte),
         Held(b, i) \o w = Encode(TRUE, p) \o rest
  PROVE  /\ Len(b) - i + 1 < Len(Encode(TRUE, p)) => FindFrame(b, i) = None
         /\ Len(b) - i + 1 >= Len(Encode(TRUE, p)) =>
              /\ FindFrame(b, i) # None
              /\ Decode(SubSeq(b, FindFrame(b, i).from, FindFrame(b, i).to)) = p
              /\ FindFrame(b, i).to + 2 = i + Len(Encode(TRUE, p))
              /\ i + Len(Encode(TRUE, p)) \in 1..Len(b) + 1
              /\ Held(b, i + Len(Encode(TRUE, p))) \o w = rest
<1> DEFINE h == Held(b, i)
           e == Encode(TRUE, p)
           x == Body(p)
           n == Len(x)
           c == Len(e)
<1>1. Len(b) \in Nat  BY LenProperties
<1>2. h \in Seq(Byte) /\ Len(h) = Len(b) - i + 1 /\ \A k \in 1..Len(h) : h[k] = b[i + k - 1]
  BY HeldIs
<1>3. /\ e \in Seq(Byte) /\ x \in Seq(Byte) /\ n \in Nat \ {0} /\ c = n + 2
      /\ e[1] = Flag /\ e[n + 2] = Flag
      /\ \A j \in 1..n : e[j + 1] = x[j] /\ e[j + 1] # Flag
  <2>1. /\ e \in Seq(Byte) /\ x \in Seq(Byte) /\ c = n + 2 /\ e[1] = Flag /\ e[n + 2] = Flag
        /\ n \in 1..2 * Len(p) + 7
    BY Shape
  <2>2. \A j \in 1..n : e[j + 1] = x[j] /\ e[j + 1] # Flag  BY Shape
  <2>3. n \in Nat  BY <2>1, LenProperties
  <2> HIDE DEF n
  <2>4. n \in Nat \ {0}  BY <2>1, <2>3
  <2> QED  BY <2>1, <2>2, <2>4
<1>4. Decode(x) = p  BY RoundTrip, HdlcAssumption
<1>5. h \o w = e \o rest  OBVIOUS
<1> HIDE DEF h, e, x, n, c
<1>6. ASSUME NEW k \in 1..c, k <= Len(h) PROVE b[i + k - 1] = e[k]
  <2>1. Len(h) \in Nat /\ c = Len(e)  BY <1>2, LenProperties DEF c
  <2>2. k \in 1..Len(h) /\ k \in 1..Len(e)  BY <1>6, <2>1
  <2>3. (h \o w)[k] = h[k]  BY <1>2, <2>2, Parts
  <2>4. (e \o rest)[k] = e[k]  BY <1>3, <2>2, Parts
  <2>5. h[k] = b[i + k - 1]  BY <1>2, <2>2
  <2> QED  BY <1>5, <2>3, <2>4, <2>5, Zenon
<1>7. ASSUME Len(h) < c PROVE FindFrame(b, i) = None
  <2>1. ASSUME NEW j \in i + 1..Len(b) PROVE b[j] # Flag
    <3>1. j - i \in 1..n /\ (j - i) + 1 \in 1..c /\ (j - i) + 1 <= Len(h)
          /\ i + ((j - i) + 1) - 1 = j
      BY <1>1, <1>2, <1>3, <1>7, SMTT(30)
    <3>2. b[j] = e[(j - i) + 1]  BY <1>6, <3>1
    <3> QED  BY <1>3, <3>1, <3>2
  <2> QED  BY <2>1, FindsNone
<1>8. ASSUME Len(h) >= c
      PROVE  /\ FindFrame(b, i) # None
             /\ FindFrame(b, i).from = i + 1 /\ FindFrame(b, i).to = i + n
             /\ SubSeq(b, i + 1, i + n) = x
             /\ i + c \in 1..Len(b) + 1
             /\ Held(b, i + c) \o w = rest
  <2>1. i \in Nat \ {0} /\ i + n + 1 <= Len(b) /\ i \in 1..Len(b) /\ i + c \in 1..Len(b) + 1
    <3>1. Len(h) = Len(b) - i + 1 /\ c = n + 2 /\ n \in Nat \ {0}  BY <1>2, <1>3
    <3> QED  BY <1>1, <1>8, <3>1
  <2>2. ASSUME NEW k \in 1..c PROVE b[i + k - 1] = e[k]
    <3>1. k <= Len(h)  BY <1>1, <1>2, <1>3, <1>8, SMTT(30)
    <3> QED  BY <1>6, <3>1
  <2>3. b[i] = Flag
    <3>1. 1 \in 1..c /\ i + 1 - 1 = i  BY <1>3, <2>1
    <3> QED  BY <1>3, <2>2, <3>1
  <2>4. b[i + n + 1] = Flag
    <3>1. n + 2 \in 1..c /\ i + (n + 2) - 1 = i + n + 1  BY <1>3, <2>1
    <3>2. b[i + (n + 2) - 1] = e[n + 2]  BY <2>2, <3>1
    <3> QED  BY <1>3, <3>1, <3>2
  <2>5. ASSUME NEW j \in 1..n PROVE b[i + j] = x[j] /\ b[i + j] # Flag
    <3>1. j + 1 \in 1..c /\ i + (j + 1) - 1 = i + j  BY <1>3, <2>1
    <3>2. b[i + (j + 1) - 1] = e[j + 1]  BY <2>2, <3>1
    <3> QED  BY <1>3, <3>1, <3>2
  <2>6. \A j \in i + 1..i + n : b[j] # Flag
    <3>1. ASSUME NEW j \in i + 1..i + n PROVE b[j] # Flag
      <4>1. j - i \in 1..n /\ i + (j - i) = j  BY <1>3, <2>1
      <4> QED  BY <2>5, <4>1
    <3> QED  BY <3>1
  <2>7. FindFrame(b, i) = [from |-> i + 1, to |-> i + n] /\ FindFrame(b, i) # None
    BY <1>3, <2>1, <2>3, <2>4, <2>6, FindsFrame
  <2>8. SubSeq(b, i + 1, i + n) = x
    <3> DEFINE y == SubSeq(b, i + 1, i + n)
    <3>1. i + 1 \in Nat \ {0} /\ i + n \in Nat /\ i + n <= Len(b) /\ i + 1 <= i + n
          /\ i + n - (i + 1) + 1 = n
      BY <1>1, <1>3, <2>1
    <3>2. y \in Seq(Byte) /\ Len(y) = n /\ \A k \in 1..n : y[k] = b[i + 1 + k - 1]
      <4> DEFINE u == i + 1
                 v == i + n
      <4>1. u \in Nat \ {0} /\ v \in Nat /\ v <= Len(b) /\ u <= v /\ v - u + 1 = n
        <5>1. i \in Nat /\ n \in Nat  BY <1>3, <2>1
        <5> QED  BY <3>1, <5>1
      <4> HIDE DEF u, v
      <4>2. /\ SubSeq(b, u, v) \in Seq(Byte)
            /\ Len(SubSeq(b, u, v)) = IF u <= v THEN v - u + 1 ELSE 0
            /\ \A k \in 1..v - u + 1 : SubSeq(b, u, v)[k] = b[u + k - 1]
        BY <4>1, Sub
      <4>3. /\ SubSeq(b, u, v) \in Seq(Byte) /\ Len(SubSeq(b, u, v)) = n
            /\ \A k \in 1..n : SubSeq(b, u, v)[k] = b[u + k - 1]
        BY <4>1, <4>2, Zenon
      <4> QED  BY <4>3, Zenon DEF u, v
    <3> HIDE DEF y
    <3>3. \A k \in 1..n : y[k] = x[k]
      <4>1. ASSUME NEW k \in 1..n PROVE y[k] = x[k]
        <5>1. i + 1 + k - 1 = i + k  BY <1>3, <2>1
        <5> QED  BY <2>5, <3>2, <5>1
      <4> QED  BY <4>1
    <3>4. Len(x) = n  BY DEF n
    <3>5. y = x  BY <1>3, <3>2, <3>3, <3>4, SeqEqual
    <3> QED  BY <3>5 DEF y
  <2>9. Held(b, i + c) \o w = rest
    <3> DEFINE y == SubSeq(b, i, i + c - 1)
               z == Held(b, i + c)
    <3>1. i \in 1..Len(b) + 1 /\ i + c - 1 \in i - 1..Len(b) /\ Len(b) \in i + c - 1..Len(b)
          /\ i + c - 1 + 1 = i + c /\ i + c - 1 \in Nat /\ i + c - 1 <= Len(b)
          /\ i <= i + c - 1 /\ i + c - 1 - i + 1 = c
      BY <1>1, <1>3, <2>1
    <3>2. SubSeq(b, i, i + c - 1) \o SubSeq(b, i + c - 1 + 1, Len(b)) = SubSeq(b, i, Len(b))
      BY <3>1, ConcatAdjacentSubSeq
    <3>3. y \o z = h  BY <3>1, <3>2, Zenon DEF Held, h
    <3>4. y \in Seq(Byte) /\ Len(y) = c /\ \A k \in 1..c : y[k] = b[i + k - 1]
      <4> DEFINE v == i + c - 1
      <4>1. i \in Nat \ {0} /\ v \in Nat /\ v <= Len(b) /\ i <= v /\ v - i + 1 = c
        <5>1. i \in Nat /\ c \in Nat  BY <1>3, <2>1
        <5> QED  BY <2>1, <3>1, <5>1
      <4> HIDE DEF v
      <4>2. /\ SubSeq(b, i, v) \in Seq(Byte)
            /\ Len(SubSeq(b, i, v)) = IF i <= v THEN v - i + 1 ELSE 0
            /\ \A k \in 1..v - i + 1 : SubSeq(b, i, v)[k] = b[i + k - 1]
        BY <4>1, Sub
      <4>3. /\ SubSeq(b, i, v) \in Seq(Byte) /\ Len(SubSeq(b, i, v)) = c
            /\ \A k \in 1..c : SubSeq(b, i, v)[k] = b[i + k - 1]
        BY <4>1, <4>2, Zenon
      <4> QED  BY <4>3, Zenon DEF v
    <3>5. z \in Seq(Byte)  BY <2>1, HeldIs
    <3> HIDE DEF y, z
    <3>6. y = e
      <4>1. Len(e) = c  BY DEF c
      <4>2. \A k \in 1..c : y[k] = e[k]  BY <2>2, <3>4
      <4> QED  BY <1>3, <3>4, <4>1, <4>2, SeqEqual
    <3>7. (e \o z) \o w = e \o (z \o w)
      <4>1. e \in Seq(Byte)  BY <1>3
      <4> QED  BY <3>5, <4>1, Associative
    <3>8. e \o (z \o w) = e \o rest  BY <1>5, <3>3, <3>6, <3>7, Zenon
    <3>9. z \o w \in Seq(Byte)  BY <3>5, Joined
    <3>10. z \o w = rest
      <4> DEFINE u == z \o w
      <4>1. u \in Seq(Byte) /\ e \o u = e \o rest  BY <3>8, <3>9
      <4> HIDE DEF u
      <4>2. \A s, t, v \in Seq(Byte) : s \o t = s \o v => t = v  BY ConcatSimplifications
      <4>3. u = rest  BY <1>3, <4>1, <4>2
      <4> QED  BY <4>3 DEF u
    <3> QED  BY <3>10 DEF z
  <2>10. FindFrame(b, i).from = i + 1 /\ FindFrame(b, i).to = i + n  BY <2>7
  <2> QED  BY <2>1, <2>7, <2>8, <2>9, <2>10
<1>9. Len(h) = Len(b) - i + 1  BY <1>2
<1>10. ASSUME Len(h) >= c
       PROVE  /\ FindFrame(b, i) # None
              /\ Decode(SubSeq(b, FindFrame(b, i).from, FindFrame(b, i).to)) = p
              /\ FindFrame(b, i).to + 2 = i + c
              /\ i + c \in 1..Len(b) + 1
              /\ Held(b, i + c) \o w = rest
  <2>1. Decode(SubSeq(b, FindFrame(b, i).from, FindFrame(b, i).to)) = p
    BY <1>4, <1>8, <1>10, Zenon
  <2>2. i + n + 2 = i + c  BY <1>1, <1>3
  <2> QED  BY <1>8, <1>10, <2>1, <2>2
<1> QED  BY <1>7, <1>9, <1>10 DEF e, c

\* q are the packets on their way: their frames, each opened by a flag of its own, are what
\* the buffer holds and what the wire carries, and between two loops the buffer does not
\* hold all of the first.
Pending(q) ==
  /\ q \in Seq(Packets) /\ sent = got \o q
  /\ Held(buf, start) \o wire = Frames(q)
  /\ ~draining /\ q # << >> => Len(buf) < Len(Encode(TRUE, q[1]))

Clean == needFlag = TRUE /\ (faults = 0 => \E q : Pending(q))

\* The frame of the first packet, and those of the rest.
LEMMA FirstAndRest ==
  ASSUME NEW q \in Seq(Packets), q # << >>
  PROVE  /\ q[1] \in Packets /\ Tail(q) \in Seq(Packets) /\ q = <<q[1]>> \o Tail(q)
         /\ Frames(q) = Encode(TRUE, q[1]) \o Frames(Tail(q))
<1>1. q[1] \in Packets /\ Tail(q) \in Seq(Packets) /\ q = <<q[1]>> \o Tail(q)
  <2>1. Len(q) \in Nat \ {0}  BY EmptySeq
  <2>2. 1 \in 1..Len(q)  BY <2>1
  <2>3. Tail(q) = SubSeq(q, 2, Len(q))  BY TailIsSubSeq
  <2>4. SubSeq(q, 1, Len(q)) = <<q[1]>> \o SubSeq(q, 1 + 1, Len(q))
    <3>1. Len(q) \in 1..Len(q)  BY <2>1
    <3> QED  BY <2>2, <3>1, SubSeqRecursiveFirst
  <2>5. SubSeq(q, 1, Len(q)) = q  BY SubSeqFull
  <2>6. 1 + 1 = 2  OBVIOUS
  <2>7. Tail(q) \in Seq(Packets)  BY HeadTailProperties
  <2>8. q[1] \in Packets  BY <2>2, ElementOfSeq
  <2>9. q = <<q[1]>> \o Tail(q)  BY <2>3, <2>4, <2>5, <2>6, Zenon
  <2> QED  BY <2>7, <2>8, <2>9
<1> DEFINE p == q[1]
           t == Tail(q)
<1>2. p \in Packets /\ t \in Seq(Packets) /\ q = <<p>> \o t  BY <1>1
<1> HIDE DEF p, t
<1>3. Frames(<<p>> \o t) = Encode(TRUE, p) \o Frames(t)  BY <1>2, FramesFirst
<1>4. Frames(q) = Encode(TRUE, p) \o Frames(t)  BY <1>2, <1>3, Zenon
<1> QED  BY <1>2, <1>4 DEF p, t

\* What TypeOK says of the reader.
LEMMA Typed ==
  ASSUME TypeOK
  PROVE  /\ sent \in Seq(Packets) /\ wire \in Seq(Byte) /\ buf \in Seq(Byte)
         /\ start \in 1..Len(buf) + 1 /\ (~draining => start = 1)
         /\ draining \in BOOLEAN /\ Len(buf) \in Nat /\ faults \in Nat
         /\ Held(buf, start) \in Seq(Byte) /\ Len(Held(buf, start)) = Len(buf) - start + 1
         /\ (~draining => Held(buf, start) = buf)
<1>1. /\ sent \in Seq(Packets) /\ wire \in Seq(Byte) /\ buf \in Seq(Byte)
      /\ start \in 1..Len(buf) + 1 /\ (~draining => start = 1)
      /\ draining \in BOOLEAN /\ faults \in Nat
  BY HdlcAssumption DEF TypeOK
<1>2. Len(buf) \in Nat  BY <1>1, LenProperties
<1>3. Held(buf, start) \in Seq(Byte) /\ Len(Held(buf, start)) = Len(buf) - start + 1
  BY <1>1, HeldIs
<1>4. Held(buf, 1) = buf  BY <1>1, SubSeqFull DEF Held
<1> QED  BY <1>1, <1>2, <1>3, <1>4

\* The bytes the reader has yet to search.
Stream == Held(buf, start) \o wire

\* A read moves bytes from the wire to the buffer.
LEMMA StreamRead ==
  ASSUME TypeOK, Read, TypeOK'
  PROVE  Stream' = Stream /\ buf' \in Seq(Byte) /\ Held(buf', start') = buf'
<1>1. PICK n \in {Min({m, Len(wire), BufSize - Len(buf)}) : m \in Pieces} :
        buf' = buf \o SubSeq(wire, 1, n) /\ wire' = SubSeq(wire, n + 1, Len(wire))
  BY DEF Read
<1>2. ~draining /\ start' = start  BY DEF Read
<1>5. n \in 1..Len(wire)
  <2>1. PICK m \in Pieces : n = Min({m, Len(wire), BufSize - Len(buf)})  BY <1>1
  <2> DEFINE l == Len(wire)
             k == BufSize - Len(buf)
  <2>2. l \in Nat /\ k \in Nat /\ l > 0 /\ k > 0
    <3>1. wire \in Seq(Byte) /\ wire # << >> /\ Len(buf) < BufSize /\ Len(buf) \in Nat
      BY Typed DEF Read
    <3>2. l \in Nat /\ l # 0  BY <3>1, EmptySeq
    <3> HIDE DEF l
    <3> QED  BY <3>1, <3>2, HdlcAssumption
  <2> HIDE DEF l, k
  <2>3. Min({m, l, k}) \in 1..l  BY <2>2, Piece
  <2> QED  BY <2>1, <2>3 DEF l, k
<1>6. (buf \o SubSeq(wire, 1, n)) \o SubSeq(wire, n + 1, Len(wire)) = buf \o wire
  <2> DEFINE x == SubSeq(wire, 1, n)
             y == SubSeq(wire, n + 1, Len(wire))
  <2>1. wire \in Seq(Byte) /\ buf \in Seq(Byte) /\ Len(wire) \in Nat  BY Typed, LenProperties
  <2>2. 1 \in 1..Len(wire) + 1 /\ n \in 1 - 1..Len(wire) /\ Len(wire) \in n..Len(wire)
        /\ n \in Nat /\ n <= Len(wire) /\ n + 1 \in Nat \ {0} /\ 1 \in Nat \ {0}
    BY <1>5, <2>1
  <2>3. x \o y = SubSeq(wire, 1, Len(wire))  BY <2>1, <2>2, ConcatAdjacentSubSeq
  <2>4. SubSeq(wire, 1, Len(wire)) = wire  BY <2>1, SubSeqFull
  <2>5. x \in Seq(Byte)  BY <2>1, <2>2, Sub
  <2>6. y \in Seq(Byte)  BY <2>1, <2>2, Sub
  <2> HIDE DEF x, y
  <2>7. (buf \o x) \o y = buf \o (x \o y)  BY <2>1, <2>5, <2>6, Associative, ZenonT(40)
  <2> QED  BY <2>3, <2>4, <2>7, Zenon DEF x, y
<1>7. Held(buf', start') = buf' /\ buf' \in Seq(Byte)
  <2>1. buf' \in Seq(Byte)  BY DEF TypeOK
  <2>2. start' = 1  BY <1>2, Typed
  <2> QED  BY <2>1, <2>2, SubSeqFull DEF Held
<1>8. Held(buf, start) = buf  BY <1>2, Typed
<1>9. Held(buf', start') \o wire' = Held(buf, start) \o wire  BY <1>1, <1>6, <1>7, <1>8, Zenon
<1> QED  BY <1>7, <1>9, Zenon DEF Stream

\* Compacting moves them to the beginning of the buffer.
LEMMA StreamCompact ==
  ASSUME TypeOK, Compact, TypeOK'
  PROVE  Stream' = Stream /\ buf' = Held(buf, start) /\ Held(buf', start') = buf'
<1>1. buf' = Held(buf, start) /\ start' = 1 /\ wire' = wire  BY DEF Compact, Held
<1>2. Held(buf', start') = buf'
  <2>1. buf' \in Seq(Byte)  BY DEF TypeOK
  <2> QED  BY <1>1, <2>1, SubSeqFull DEF Held
<1> QED  BY <1>1, <1>2, Zenon DEF Stream

\* No packet is the mark of a bad frame.
LEMMA NotBad == Bad \notin Seq(Byte)
<1> SUFFICES ASSUME Bad \in Seq(Byte) PROVE FALSE
  OBVIOUS
<1>1. Len(Bad) = 1 /\ Bad[1] = -1  BY DEF Bad
<1>2. 1 \in 1..Len(Bad)  BY <1>1
<1>3. Bad[1] \in Byte  BY <1>2, ElementOfSeq
<1> QED  BY <1>1, <1>3 DEF Byte

\* A packet more is sent: it joins those on their way.
LEMMA CleanWrite ==
  ASSUME TypeOK, Clean, OwnFlags, Write
  PROVE  Clean'
<1>1. PICK p \in Packets : sent' = Append(sent, p) /\ wire' = wire \o Encode(TRUE, p)
  BY DEF Write, Clean
<1>2. needFlag' = TRUE /\ buf' = buf /\ start' = start /\ draining' = draining /\ got' = got
      /\ faults' = faults
  BY HdlcAssumption DEF Write, reader
<1> SUFFICES ASSUME faults = 0 PROVE \E q : Pending(q)'
  BY <1>2 DEF Clean
<1>3. PICK q : Pending(q)  BY DEF Clean
<1> DEFINE more == Append(q, p)
           h == Held(buf, start)
           e == Encode(TRUE, p)
<1>4. q \in Seq(Packets) /\ sent = got \o q /\ h \o wire = Frames(q)  BY <1>3 DEF Pending
<1>5. more \in Seq(Packets)  BY <1>4, AppendProperties
<1>6. Append(sent, p) = got \o more
  <2>1. got \in Seq(Seq(Byte)) /\ q \in Seq(Seq(Byte)) /\ p \in Seq(Byte)
    <3>1. \A x \in Packets : x \in Seq(Byte)  BY HdlcAssumption
    <3>2. Packets \subseteq Seq(Byte)  BY <3>1
    <3> QED  BY <1>4, <3>2, SeqMonotonic DEF TypeOK
  <2> DEFINE one == <<p>>
             s == got \o q
  <2>2. one \in Seq(Seq(Byte))  BY <2>1
  <2>3. s \in Seq(Seq(Byte))  BY <2>1, ConcatProperties
  <2> HIDE DEF s
  <2>4. Append(s, p) = s \o one /\ more = q \o one  BY <2>1, <2>3, <1>4, AppendIsConcat
  <2> HIDE DEF one, more
  <2>5. (got \o q) \o one = got \o (q \o one)  BY <2>1, <2>2, ConcatAssociative, SMTT(30)
  <2> QED  BY <1>4, <2>4, <2>5, Zenon DEF s
<1>7. h \o (wire \o e) = Frames(more)
  <2>1. Frames(more) = Frames(q) \o e  BY <1>4, FramesMore
  <2>2. h \in Seq(Byte) /\ wire \in Seq(Byte) /\ e \in Seq(Byte)  BY Typed, Encoded
  <2> HIDE DEF h, e, more
  <2>3. (h \o wire) \o e = h \o (wire \o e)  BY <2>2, Associative
  <2> QED  BY <1>4, <2>1, <2>3, Zenon
<1>8. ASSUME ~draining PROVE Len(buf) < Len(Encode(TRUE, more[1]))
  <2>1. CASE q # << >>
    <3>1. Len(buf) < Len(Encode(TRUE, q[1]))  BY <1>3, <1>8, <2>1 DEF Pending
    <3>2. more[1] = q[1]
      <4>1. Len(q) \in Nat \ {0}  BY <1>4, <2>1, EmptySeq
      <4>2. 1 \in 1..Len(q)  BY <4>1
      <4> QED  BY <1>4, <4>2, AppendProperties
    <3> HIDE DEF more
    <3> QED  BY <3>1, <3>2
  <2>2. CASE q = << >>
    <3>1. more[1] = p  BY <2>2
    <3>2. h \o wire = << >>  BY <1>4, <2>2, FramesMore
    <3>3. h = buf /\ buf \in Seq(Byte) /\ wire \in Seq(Byte)  BY <1>8, Typed
    <3> HIDE DEF h, more
    <3>4. buf = << >>  BY <3>2, <3>3, ConcatEqualIffEmpty
    <3>5. Len(e) > 0
      <4>1. Len(e) = Len(Body(p)) + 2 /\ Len(Body(p)) \in 1..2 * Len(p) + 7  BY Shape
      <4> HIDE DEF e
      <4> QED  BY <4>1
    <3>6. Len(buf) = 0  BY <3>4
    <3> QED  BY <3>1, <3>5, <3>6
  <2> QED  BY <2>1, <2>2
<1>9. Pending(more)'
  <2> HIDE DEF more
  <2>1. sent' = got' \o more /\ Held(buf', start') \o wire' = Frames(more)
    BY <1>1, <1>2, <1>6, <1>7
  <2> QED  BY <1>2, <1>5, <1>8, <2>1 DEF Pending
<1> QED  BY <1>9

\* A read moves bytes from the wire to the buffer.
LEMMA CleanRead ==
  ASSUME TypeOK, Clean, Read, TypeOK'
  PROVE  Clean'
<1>1. /\ ~draining /\ draining' = TRUE /\ needFlag' = needFlag /\ got' = got
      /\ sent' = sent /\ faults' = faults
  BY DEF Read
<1> SUFFICES ASSUME faults = 0 PROVE \E q : Pending(q)'
  BY <1>1 DEF Clean
<1>2. PICK q : Pending(q)  BY DEF Clean
<1>3. Held(buf', start') \o wire' = Frames(q)
  BY <1>2, StreamRead, Zenon DEF Pending, Stream
<1>4. Pending(q)'  BY <1>1, <1>2, <1>3 DEF Pending
<1> QED  BY <1>4

\* While packets are on their way the reader is at the beginning of the frame of the first;
\* without any it finds nothing.
LEMMA AtFrame ==
  ASSUME TypeOK, NEW q, Pending(q)
  PROVE  /\ q = << >> => FindFrame(buf, start) = None /\ Held(buf, start) = << >> /\ wire = << >>
         /\ q # << >> =>
              /\ q[1] \in Packets /\ Tail(q) \in Seq(Packets) /\ q = <<q[1]>> \o Tail(q)
              /\ Frames(Tail(q)) \in Seq(Byte)
              /\ Held(buf, start) \o wire = Encode(TRUE, q[1]) \o Frames(Tail(q))
<1>1. /\ q \in Seq(Packets) /\ Held(buf, start) \o wire = Frames(q)
      /\ Held(buf, start) \in Seq(Byte) /\ wire \in Seq(Byte) /\ buf \in Seq(Byte)
      /\ start \in 1..Len(buf) + 1 /\ Len(Held(buf, start)) = Len(buf) - start + 1
      /\ Len(buf) \in Nat
  BY Typed DEF Pending
<1>2. ASSUME q = << >>
      PROVE  FindFrame(buf, start) = None /\ Held(buf, start) = << >> /\ wire = << >>
  <2> DEFINE h == Held(buf, start)
  <2>1. h \o wire = << >> /\ h \in Seq(Byte)  BY <1>1, <1>2, FramesMore
  <2>2. Len(h) = Len(buf) - start + 1  BY <1>1
  <2> HIDE DEF h
  <2>3. h = << >> /\ wire = << >>  BY <1>1, <2>1, ConcatEqualIffEmpty
  <2>4. Len(h) = 0  BY <2>3
  <2>5. \A j \in start + 1..Len(buf) : buf[j] # Flag  BY <1>1, <2>2, <2>4
  <2>6. FindFrame(buf, start) = None  BY <1>1, <2>5, FindsNone
  <2> QED  BY <2>3, <2>6 DEF h
<1>3. ASSUME q # << >>
      PROVE  /\ q[1] \in Packets /\ Tail(q) \in Seq(Packets) /\ q = <<q[1]>> \o Tail(q)
             /\ Frames(Tail(q)) \in Seq(Byte)
             /\ Held(buf, start) \o wire = Encode(TRUE, q[1]) \o Frames(Tail(q))
  <2>1. /\ q[1] \in Packets /\ Tail(q) \in Seq(Packets) /\ q = <<q[1]>> \o Tail(q)
        /\ Frames(q) = Encode(TRUE, q[1]) \o Frames(Tail(q))
    BY <1>1, <1>3, FirstAndRest
  <2>2. Frames(Tail(q)) \in Seq(Byte)  BY <2>1, FramesMore
  <2> QED  BY <1>1, <2>1, <2>2
<1> QED  BY <1>2, <1>3

\* The first packet on its way comes out.
LEMMA CleanTake ==
  ASSUME TypeOK, Clean, Take
  PROVE  Clean'
<1> DEFINE f == FindFrame(buf, start)
           d == Decode(SubSeq(buf, f.from, f.to))
<1>1. /\ draining /\ f # None /\ start' = f.to + 2
      /\ got' = (IF d = Bad THEN got ELSE Append(got, d))
      /\ sent' = sent /\ needFlag' = needFlag /\ wire' = wire /\ buf' = buf
      /\ draining' = draining /\ faults' = faults
  BY Zenon DEF Take
<1> SUFFICES ASSUME faults = 0 PROVE \E q : Pending(q)'
  BY <1>1 DEF Clean
<1>2. PICK q : Pending(q)  BY DEF Clean
<1>3. q # << >>  BY <1>1, <1>2, AtFrame
<1> DEFINE p == q[1]
           t == Tail(q)
           e == Encode(TRUE, p)
<1>4. /\ p \in Packets /\ t \in Seq(Packets) /\ q = <<p>> \o t /\ Frames(t) \in Seq(Byte)
      /\ Held(buf, start) \o wire = e \o Frames(t)
  BY <1>2, <1>3, AtFrame
<1>5. /\ wire \in Seq(Byte) /\ buf \in Seq(Byte) /\ start \in 1..Len(buf) + 1 /\ Len(buf) \in Nat
  BY Typed
<1>6. Len(e) \in Nat  BY <1>4, Shape, LenProperties
<1> HIDE DEF p, t
<1>7. /\ Len(buf) - start + 1 < Len(e) => f = None
      /\ Len(buf) - start + 1 >= Len(e) =>
           /\ d = p /\ f.to + 2 = start + Len(e)
           /\ Held(buf, start + Len(e)) \o wire = Frames(t)
  BY <1>4, <1>5, NextFrame, ZenonT(40)
<1> HIDE DEF f, d, e
<1>8. d = p /\ f.to + 2 = start + Len(e) /\ Held(buf, start + Len(e)) \o wire = Frames(t)
  BY <1>1, <1>5, <1>6, <1>7
<1>9. p # Bad
  <2>1. p \in Seq(Byte)  BY <1>4, HdlcAssumption
  <2> QED  BY <2>1, NotBad
<1>10. got' = Append(got, p)  BY <1>1, <1>8, <1>9
<1>11. sent = Append(got, p) \o t
  <2> DEFINE one == <<p>>
  <2>1. sent = got \o q /\ got \in Seq(Seq(Byte))  BY <1>2 DEF Pending, TypeOK
  <2>2. p \in Seq(Byte) /\ t \in Seq(Seq(Byte))
    <3>1. \A x \in Packets : x \in Seq(Byte)  BY HdlcAssumption
    <3>2. Packets \subseteq Seq(Byte)  BY <3>1
    <3> QED  BY <1>4, <3>1, <3>2, SeqMonotonic
  <2>3. one \in Seq(Seq(Byte))  BY <2>2
  <2>4. Append(got, p) = got \o one  BY <2>1, <2>2, AppendIsConcat
  <2> HIDE DEF one
  <2>5. (got \o one) \o t = got \o (one \o t)
    <3>1. got \in Seq(Seq(Byte)) /\ one \in Seq(Seq(Byte)) /\ t \in Seq(Seq(Byte))
      BY <2>1, <2>2, <2>3, Zenon
    <3> QED  BY <3>1, ConcatAssociative, SMTT(30)
  <2>6. q = one \o t  BY <1>4 DEF one
  <2> QED  BY <2>1, <2>4, <2>5, <2>6, Zenon
<1>12. Pending(t)'
  <2>1. Held(buf', start') \o wire' = Frames(t)  BY <1>1, <1>8, Zenon
  <2>2. sent' = got' \o t  BY <1>1, <1>10, <1>11, Zenon
  <2> QED  BY <1>1, <1>4, <2>1, <2>2 DEF Pending
<1> QED  BY <1>12

\* The buffer is compacted: it does not hold all of the first frame.
LEMMA CleanCompact ==
  ASSUME TypeOK, Clean, Compact, TypeOK'
  PROVE  Clean'
<1>1. /\ FindFrame(buf, start) = None /\ buf' = Held(buf, start) /\ start' = 1
      /\ sent' = sent /\ needFlag' = needFlag /\ wire' = wire /\ got' = got /\ faults' = faults
  BY DEF Compact, Held
<1> SUFFICES ASSUME faults = 0 PROVE \E q : Pending(q)'
  BY <1>1 DEF Clean
<1>2. PICK q : Pending(q)  BY DEF Clean
<1>4. Held(buf', start') \o wire' = Frames(q)
  BY <1>2, StreamCompact, Zenon DEF Pending, Stream
<1>5. ASSUME q # << >> PROVE Len(buf') < Len(Encode(TRUE, q[1]))
  <2> DEFINE p == q[1]
             t == Tail(q)
             e == Encode(TRUE, p)
  <2>1. p \in Packets /\ Frames(t) \in Seq(Byte) /\ Held(buf, start) \o wire = e \o Frames(t)
    BY <1>2, <1>5, AtFrame
  <2>2. /\ wire \in Seq(Byte) /\ buf \in Seq(Byte) /\ start \in 1..Len(buf) + 1
        /\ Len(buf) \in Nat /\ Len(Held(buf, start)) = Len(buf) - start + 1
    BY Typed
  <2>3. Len(e) \in Nat  BY <2>1, Shape, LenProperties
  <2> HIDE DEF p, t
  <2>4. Len(buf) - start + 1 >= Len(e) => FindFrame(buf, start) # None
    BY <2>1, <2>2, NextFrame
  <2> HIDE DEF e
  <2>5. Len(buf') = Len(buf) - start + 1  BY <1>1, <2>2
  <2>6. Len(buf') < Len(e)  BY <1>1, <2>2, <2>3, <2>4, <2>5
  <2> QED  BY <2>6 DEF e, p
<1>6. Pending(q)'  BY <1>1, <1>2, <1>4, <1>5 DEF Pending
<1> QED  BY <1>6

\* The invariant of ptyReader's loop on a clean line whose frames open with flags of their
\* own: what was sent is what came out and what is on its way, and the reader stands at the
\* beginning of a frame.
THEOREM OnItsWay ==
  ASSUME OwnFlags
  PROVE  Spec => [](TypeOK /\ Clean)
<1>1. Init => Clean
  <2> SUFFICES ASSUME Init PROVE Pending(<< >>) /\ needFlag = TRUE
    BY DEF Clean
  <2> DEFINE e == << >>
  <2>1. e \in Seq(Packets) /\ e \in Seq(Byte) /\ Len(e) = 0 /\ Frames(e) = e /\ e \o e = e
    BY FramesMore
  <2>2. sent = e /\ wire = e /\ buf = e /\ start = 1 /\ draining = FALSE /\ got = e
        /\ needFlag = TRUE
    BY Zenon DEF Init
  <2>4. ~(e # << >>)  OBVIOUS
  <2> HIDE DEF e
  <2>3. Held(e, 1) = e  BY <2>1, SubSeqFull DEF Held
  <2>5. Pending(e)  BY <2>1, <2>2, <2>3, <2>4, Zenon DEF Pending
  <2> QED  BY <2>2, <2>5 DEF e
<1>2. TypeOK /\ TypeOK' /\ Clean /\ [Next]_vars => Clean'
  <2> SUFFICES ASSUME TypeOK, TypeOK', Clean, [Next]_vars PROVE Clean'
    OBVIOUS
  <2>1. CASE Write  BY <2>1, CleanWrite
  <2>2. CASE Read  BY <2>2, CleanRead
  <2>3. CASE Take  BY <2>3, CleanTake
  <2>4. CASE Compact  BY <2>4, CleanCompact
  <2>5. CASE Garble
    <3>1. faults' # 0  BY <2>5, Typed DEF Garble
    <3> QED  BY <2>5, <3>1 DEF Garble, Clean
  <2>6. CASE Quiet \/ UNCHANGED vars
    BY <2>6 DEF Quiet, vars, reader, Clean, Pending
  <2> QED  BY <2>1, <2>2, <2>3, <2>4, <2>5, <2>6 DEF Next
<1> QED  BY <1>1, <1>2, Types, PTL DEF Spec

\* Whatever the packets, the buffer and the sizes of the reads, no packet is lost, doubled or
\* swapped by ptyReader while no byte was garbled: when all is read, all has come out.
THEOREM Delivered ==
  ASSUME OwnFlags
  PROVE  Spec => []AllDelivered
<1>1. TypeOK /\ Clean => AllDelivered
  <2> SUFFICES ASSUME TypeOK, Clean, faults = 0, wire = << >>, ~draining PROVE got = sent
    BY DEF AllDelivered
  <2>1. PICK q : Pending(q)  BY DEF Clean
  <2>2. q = << >>
    <3> SUFFICES ASSUME q # << >> PROVE FALSE  OBVIOUS
    <3> DEFINE e == Encode(TRUE, q[1])
               r == Frames(Tail(q))
    <3>1. q[1] \in Packets /\ r \in Seq(Byte) /\ Held(buf, start) \o wire = e \o r
      BY <2>1, AtFrame
    <3>2. Held(buf, start) = buf /\ buf \in Seq(Byte) /\ Len(buf) \in Nat  BY Typed
    <3>3. Len(buf) < Len(e)  BY <2>1 DEF Pending
    <3>4. e \in Seq(Byte)  BY <3>1, Shape
    <3> HIDE DEF e, r
    <3>5. buf \o wire = buf  BY <3>2, ConcatEmptySeq
    <3>6. Len(buf) = Len(e) + Len(r) /\ Len(e) \in Nat /\ Len(r) \in Nat
      <4>1. Len(e \o r) = Len(e) + Len(r)  BY <3>1, <3>4, Joined
      <4>2. buf = e \o r  BY <3>1, <3>2, <3>5, Zenon
      <4> QED  BY <3>1, <3>4, <4>1, <4>2, LenProperties
    <3> QED  BY <3>2, <3>3, <3>6
  <2>3. sent = got \o q /\ got \in Seq(Seq(Byte))  BY <2>1 DEF Pending, TypeOK
  <2> QED  BY <2>2, <2>3, ConcatEmptySeq
<1> QED  BY <1>1, OnItsWay, PTL

\* ptyReader never spins on a full buffer while no byte was garbled, if the buffer has room for
\* the longest frame: nine bytes, and every byte of the packet escaped.
THEOREM RoomLeft ==
  ASSUME OwnFlags, BufSize > 0, \A p \in Packets : 2 * Len(p) + 9 <= BufSize
  PROVE  Spec => [](faults = 0 => NeverFull)
<1>1. TypeOK /\ Clean => (faults = 0 => NeverFull)
  <2> SUFFICES ASSUME TypeOK, Clean, faults = 0, ~draining PROVE Len(buf) < BufSize
    BY DEF NeverFull
  <2>1. PICK q : Pending(q)  BY DEF Clean
  <2>2. CASE q = << >>
    <3>1. Held(buf, start) = << >> /\ Held(buf, start) = buf  BY <2>1, <2>2, AtFrame, Typed
    <3>2. Len(buf) = 0  BY <3>1
    <3> QED  BY <3>2
  <2>3. CASE q # << >>
    <3> DEFINE p == q[1]
    <3>1. p \in Packets  BY <2>1, <2>3, AtFrame
    <3>2. Len(buf) < Len(Encode(TRUE, p))  BY <2>1, <2>3 DEF Pending
    <3> HIDE DEF p
    <3>3. Len(Encode(TRUE, p)) = Len(Body(p)) + 2 /\ Len(Body(p)) \in 1..2 * Len(p) + 7
      BY <3>1, Shape
    <3>4. p \in Seq(Byte)  BY <3>1, HdlcAssumption
    <3>5. Len(p) \in Nat /\ Len(buf) \in Nat  BY <3>4, Typed, LenProperties
    <3>6. 2 * Len(p) + 9 <= BufSize  BY <3>1
    <3> DEFINE m == Len(Body(p))
               k == Len(p)
               e == Len(Encode(TRUE, p))
    <3>7. e = m + 2 /\ m \in 1..2 * k + 7 /\ k \in Nat /\ 2 * k + 9 <= BufSize /\ Len(buf) < e
      BY <3>2, <3>3, <3>5, <3>6
    <3> HIDE DEF m, k, e
    <3>8. e <= 2 * k + 9 /\ e \in Int  BY <3>7
    <3> QED  BY <3>5, <3>7, <3>8, HdlcAssumption
  <2> QED  BY <2>2, <2>3
<1> QED  BY <1>1, OnItsWay, PTL
-----------------------------------------------------------------------------
(* Counting                                                                *)

\* Two elements more.
LEMMA TwoMore ==
  ASSUME NEW S, NEW T, NEW h, NEW g, IsFiniteSet(T), S \subseteq (T \cup {h}) \cup {g}
  PROVE  Cardinality(S) <= Cardinality(T) + 2
<1>1. Cardinality(T) \in Nat  BY FS_CardinalityType
<1> DEFINE U == T \cup {h}
<1>2. /\ IsFiniteSet(U)
      /\ Cardinality(U) = IF h \in T THEN Cardinality(T) ELSE Cardinality(T) + 1
  BY FS_AddElement
<1>3. S \subseteq U \cup {g}  OBVIOUS
<1> HIDE DEF U
<1>4. Cardinality(U) \in Nat  BY <1>2, FS_CardinalityType
<1>5. IsFiniteSet(U \cup {g})
      /\ Cardinality(U \cup {g}) = IF g \in U THEN Cardinality(U) ELSE Cardinality(U) + 1
  BY <1>2, FS_AddElement
<1>6. Cardinality(S) <= Cardinality(U \cup {g}) /\ IsFiniteSet(S)  BY <1>3, <1>5, FS_Subset
<1>7. Cardinality(S) \in Nat  BY <1>6, FS_CardinalityType
<1> QED  BY <1>1, <1>2, <1>4, <1>5, <1>6, <1>7

\* Numbers shifted.
LEMMA Shifted ==
  ASSUME NEW S \in SUBSET Nat, NEW T, NEW n \in Nat, IsFiniteSet(T), \A a \in S : a - n \in T
  PROVE  IsFiniteSet(S) /\ Cardinality(S) <= Cardinality(T)
<1> DEFINE shift == [a \in S |-> a - n]
<1>1. shift \in [S -> T] /\ DOMAIN shift = S  OBVIOUS
<1>2. \A a, b \in S : shift[a] = shift[b] => a = b  OBVIOUS
<1> HIDE DEF shift
<1>3. shift \in Injection(S, T)  BY <1>1, <1>2 DEF Injection, IsInjective
<1> QED  BY <1>3, FS_Injection

-----------------------------------------------------------------------------
(* The stream of frames on a line that garbles bytes                       *)

\* The frame of p, whole, from a flag at a to a flag behind it.
Holds(s, a, p) ==
  /\ a + Len(Body(p)) + 1 <= Len(s)
  /\ s[a] = Flag /\ s[a + Len(Body(p)) + 1] = Flag
  /\ \A k \in 1..Len(Body(p)) : s[a + k] = Body(p)[k]

\* The flag at a is not taken for the end of what stands before it.
Safe(s, a) == a = 1 \/ s[a - 1] = Flag

\* Where a stream has a frame the reader will find, or may go on with one.
Sound(s) ==
  {a \in 1..Len(s) + 1 : Safe(s, a) /\ (a = Len(s) + 1 \/ \E p \in Packets : Holds(s, a, p))}

\* No frame lies between two flags from i on.
NoFrame(b, i) ==
  \A j, k, l \in i..Len(b) : j < k /\ k < l /\ b[j] = Flag /\ b[k] # Flag => b[l] # Flag

\* The bytes of a body.
LEMMA BodyIs ==
  ASSUME NEW p \in Packets
  PROVE  Len(Body(p)) \in Nat \ {0} /\ \A k \in 1..Len(Body(p)) : Body(p)[k] # Flag
<1> DEFINE n == Len(Body(p))
<1>1. n \in 1..2 * Len(p) + 7 /\ \A j \in 1..n : Encode(TRUE, p)[j + 1] = Body(p)[j]
                                                 /\ Encode(TRUE, p)[j + 1] # Flag
  BY Shape
<1>2. n \in Nat  BY Shape, LenProperties
<1> HIDE DEF n
<1>3. n \in Nat \ {0}  BY <1>1, <1>2
<1> QED  BY <1>1, <1>3 DEF n

\* They are finitely many.
LEMMA SoundFinite ==
  ASSUME NEW s \in Seq(Byte)
  PROVE  /\ Sound(s) \subseteq 1..Len(s) + 1 /\ IsFiniteSet(Sound(s))
         /\ Cardinality(Sound(s)) \in Nat
<1> DEFINE n == Len(s) + 1
<1>1. n \in Nat  BY LenProperties
<1>2. Sound(s) \subseteq 1..n  BY DEF Sound
<1> HIDE DEF n
<1>3. IsFiniteSet(1..n)  BY <1>1, FS_Interval
<1>4. IsFiniteSet(Sound(s))  BY <1>2, <1>3, FS_Subset
<1>5. Cardinality(Sound(s)) \in Nat  BY <1>4, FS_CardinalityType
<1> QED  BY <1>2, <1>4, <1>5 DEF n

\* What a sound place is.
LEMMA SoundIs ==
  ASSUME NEW s \in Seq(Byte), NEW a
  PROVE  /\ a \in Sound(s) =>
              /\ a \in 1..Len(s) + 1 /\ Safe(s, a)
              /\ a = Len(s) + 1 \/ \E p \in Packets : Holds(s, a, p)
         /\ a = Len(s) + 1 /\ Safe(s, a) => a \in Sound(s)
         /\ a \in 1..Len(s) /\ Safe(s, a) /\ (\E p \in Packets : Holds(s, a, p)) => a \in Sound(s)
<1>1. Len(s) \in Nat  BY LenProperties
<1>2. a \in 1..Len(s) => a \in 1..Len(s) + 1  BY <1>1
<1>3. a = Len(s) + 1 => a \in 1..Len(s) + 1  BY <1>1
<1> HIDE DEF Safe, Holds
<1> QED  BY <1>2, <1>3, Zenon DEF Sound

\* The frames do not overlap.
LEMMA Apart ==
  ASSUME NEW s \in Seq(Byte), NEW a \in 1..Len(s), NEW p \in Packets, Holds(s, a, p),
         NEW c \in Sound(s), a < c
  PROVE  a + Len(Body(p)) + 1 < c
<1> DEFINE n == Len(Body(p))
<1>1. n \in Nat \ {0} /\ \A k \in 1..n : Body(p)[k] # Flag  BY BodyIs
<1>2. a + n + 1 <= Len(s) /\ \A k \in 1..n : s[a + k] = Body(p)[k]  BY DEF Holds
<1>3. Len(s) \in Nat  BY LenProperties
<1>4. c \in 1..Len(s) + 1 /\ Safe(s, c)
      /\ (c = Len(s) + 1 \/ \E q \in Packets : Holds(s, c, q))
  BY SoundIs
<1>5. c # Len(s) + 1 => s[c] = Flag  BY <1>4 DEF Holds
<1> HIDE DEF n
<1>6. \A k \in 1..n : s[a + k] # Flag  BY <1>1, <1>2
<1>7. \A j \in a + 1..a + n : s[j] # Flag
  <2> SUFFICES ASSUME NEW j \in a + 1..a + n PROVE s[j] # Flag
    OBVIOUS
  <2>1. j - a \in 1..n /\ a + (j - a) = j  BY <1>1, <1>3
  <2> QED  BY <1>6, <2>1
<1>8. ASSUME ~(a + n + 1 < c) PROVE FALSE
  <2>1. c \in a + 1..a + n + 1 /\ c # Len(s) + 1 /\ c # 1  BY <1>1, <1>2, <1>3, <1>4, <1>8
  <2>2. s[c] = Flag  BY <1>5, <2>1
  <2>3. c = a + n + 1  BY <1>1, <1>3, <1>7, <2>1, <2>2
  <2>4. s[c - 1] = Flag  BY <1>4, <2>1 DEF Safe
  <2>5. c - 1 \in a + 1..a + n  BY <1>1, <1>3, <2>3
  <2> QED  BY <1>7, <2>4, <2>5
<1> QED  BY <1>8 DEF n

\* A packet more: its frame is one more of them, whatever the line did to the one before.
LEMMA SoundWrite ==
  ASSUME NEW s \in Seq(Byte), NEW p \in Packets
  PROVE  /\ Sound(s) \subseteq Sound(s \o Encode(TRUE, p))
         /\ Len(s) + Len(Encode(TRUE, p)) + 1 \in Sound(s \o Encode(TRUE, p)) \ Sound(s)
<1> DEFINE e == Encode(TRUE, p)
           t == s \o e
           n == Len(Body(p))
           l == Len(s)
           z == l + n + 3
<1>1. /\ e \in Seq(Byte) /\ Len(e) = n + 2 /\ e[1] = Flag /\ e[n + 2] = Flag
      /\ \A j \in 1..n : e[j + 1] = Body(p)[j]
  BY Shape
<1>2. n \in Nat \ {0} /\ l \in Nat  BY BodyIs, LenProperties
<1> HIDE DEF e
<1>3. t \in Seq(Byte) /\ Len(t) = l + n + 2
  <2>1. t \in Seq(Byte) /\ Len(t) = Len(s) + Len(e)  BY <1>1, Joined
  <2> HIDE DEF t, n
  <2> QED  BY <1>1, <1>2, <2>1
<1>4. /\ \A i \in 1..l : t[i] = s[i]
      /\ \A i \in 1..n + 2 : t[l + i] = e[i]
  BY <1>1, Parts
<1> HIDE DEF t, n, l
<1>5. t[l + 1] = Flag /\ t[l + n + 2] = Flag /\ \A k \in 1..n : t[l + 1 + k] = Body(p)[k]
  <2>1. 1 \in 1..n + 2 /\ n + 2 \in 1..n + 2  BY <1>2
  <2>2. t[l + 1] = e[1]  BY <1>4, <2>1
  <2>3. t[l + (n + 2)] = e[n + 2] /\ l + (n + 2) = l + n + 2  BY <1>2, <1>4, <2>1
  <2>4. ASSUME NEW k \in 1..n PROVE t[l + 1 + k] = Body(p)[k]
    <3>1. k + 1 \in 1..n + 2 /\ l + (k + 1) = l + 1 + k  BY <1>2
    <3>2. t[l + (k + 1)] = e[k + 1]  BY <1>4, <3>1
    <3> QED  BY <1>1, <3>1, <3>2
  <2> QED  BY <1>1, <2>2, <2>3, <2>4
<1>6. ASSUME NEW a \in 1..l + 1, Safe(s, a) PROVE Safe(t, a)
  <2>1. a # 1 => a - 1 \in 1..l  BY <1>2
  <2> QED  BY <1>4, <1>6, <2>1 DEF Safe
<1>7. ASSUME NEW a \in Sound(s) PROVE a \in Sound(t) /\ a # z
  <2>1. a \in 1..l + 1 /\ Safe(s, a) /\ (a = l + 1 \/ \E q \in Packets : Holds(s, a, q))
    BY SoundIs DEF l
  <2>2. Safe(t, a) /\ a \in 1..Len(t) /\ a # z  BY <1>2, <1>3, <1>6, <2>1
  <2>3. \E q \in Packets : Holds(t, a, q)
    <3>1. CASE a = l + 1
      <4>1. l + 1 + n + 1 = l + n + 2  BY <1>2
      <4>2. Holds(t, l + 1, p)  BY <1>2, <1>3, <1>5, <4>1 DEF Holds, n
      <4> QED  BY <3>1, <4>2
    <3>2. CASE a # l + 1
      <4>1. PICK q \in Packets : Holds(s, a, q)  BY <2>1, <3>2
      <4> DEFINE m == Len(Body(q))
      <4>2. m \in Nat \ {0}  BY BodyIs
      <4>3. a + m + 1 <= l /\ s[a] = Flag /\ s[a + m + 1] = Flag
            /\ \A k \in 1..m : s[a + k] = Body(q)[k]
        BY <4>1 DEF Holds, l
      <4> HIDE DEF m
      <4>4. a \in 1..l /\ a + m + 1 \in 1..l /\ a + m + 1 <= Len(t) /\ \A k \in 1..m : a + k \in 1..l
        BY <1>2, <1>3, <2>1, <4>2, <4>3
      <4>5. t[a] = Flag /\ t[a + m + 1] = Flag /\ \A k \in 1..m : t[a + k] = Body(q)[k]
        BY <1>4, <4>3, <4>4
      <4>6. Holds(t, a, q)  BY <4>4, <4>5 DEF Holds, m
      <4> QED  BY <4>6
    <3> QED  BY <3>1, <3>2
  <2> QED  BY <1>3, <2>2, <2>3, SoundIs
<1>8. z \in Sound(t) /\ z \notin Sound(s)
  <2>1. z - 1 = l + n + 2 /\ z = Len(t) + 1  BY <1>2, <1>3
  <2>2. Safe(t, z)  BY <1>5, <2>1 DEF Safe
  <2> QED  BY <1>3, <1>7, <2>1, <2>2, SoundIs
<1>9. z = l + Len(e) + 1  BY <1>1, <1>2
<1> HIDE DEF z
<1> QED  BY <1>7, <1>8, <1>9 DEF e, l, t

\* A byte garbled costs two of them at most: the frame it is in, and the one behind, if the
\* byte was the flag between them.
LEMMA SoundGarble ==
  ASSUME NEW s \in Seq(Byte), NEW t \in Seq(Byte), Len(t) = Len(s), NEW i \in 1..Len(s),
         \A k \in 1..Len(s) : k # i => t[k] = s[k]
  PROVE  \E h, g : Sound(s) \subseteq (Sound(t) \cup {h}) \cup {g}
<1> DEFINE l == Len(s)
           Lost == {a \in Sound(s) : a \notin Sound(t) /\ a # i + 1}
<1>1. l \in Nat  BY LenProperties
<1>2. ASSUME NEW a \in Sound(s), a \notin Sound(t), a # i + 1
      PROVE  a \in 1..l /\ a <= i /\ \E p \in Packets : Holds(s, a, p) /\ i <= a + Len(Body(p)) + 1
  <2>1. a \in 1..l + 1 /\ Safe(s, a) /\ (a = l + 1 \/ \E p \in Packets : Holds(s, a, p))
    BY SoundIs DEF l
  <2>2. Safe(t, a)
    <3>1. a # 1 => a - 1 \in 1..l /\ a - 1 # i  BY <1>1, <1>2, <2>1
    <3> QED  BY <2>1, <3>1 DEF Safe, l
  <2>3. a # l + 1  BY <1>2, <2>2, SoundIs DEF l
  <2>4. a \in 1..l /\ \E p \in Packets : Holds(s, a, p)  BY <1>1, <2>1, <2>3
  <2>5. PICK p \in Packets : Holds(s, a, p)  BY <2>4
  <2> DEFINE n == Len(Body(p))
  <2>6. n \in Nat \ {0}  BY BodyIs
  <2>7. a + n + 1 <= l /\ s[a] = Flag /\ s[a + n + 1] = Flag
        /\ \A k \in 1..n : s[a + k] = Body(p)[k]
    BY <2>5 DEF Holds, l
  <2>8. ~Holds(t, a, p)  BY <1>2, <2>2, <2>4, SoundIs DEF l
  <2>9. ~(a + n + 1 <= Len(t) /\ t[a] = Flag /\ t[a + n + 1] = Flag
        /\ \A k \in 1..n : t[a + k] = Body(p)[k])
    BY <2>8 DEF Holds
  <2> HIDE DEF n
  <2>10. a <= i /\ i <= a + n + 1
    <3>1. ASSUME i < a \/ a + n + 1 < i PROVE FALSE
      <4>1. a \in 1..l /\ a # i /\ a + n + 1 \in 1..l /\ a + n + 1 # i
            /\ \A k \in 1..n : a + k \in 1..l /\ a + k # i
        BY <1>1, <2>4, <2>6, <2>7, <3>1
      <4>2. t[a] = s[a] /\ t[a + n + 1] = s[a + n + 1] /\ \A k \in 1..n : t[a + k] = s[a + k]
        BY <4>1 DEF l
      <4> QED  BY <2>7, <2>9, <4>2 DEF l
    <3> QED  BY <1>1, <2>4, <2>6, <3>1
  <2> QED  BY <2>4, <2>5, <2>10 DEF n
<1>3. ASSUME NEW a \in Lost, NEW c \in Lost, a < c PROVE FALSE
  <2>1. a \in 1..l /\ c <= i /\ c \in 1..l /\ c \in Sound(s)  BY <1>2
  <2>2. PICK p \in Packets : Holds(s, a, p) /\ i <= a + Len(Body(p)) + 1  BY <1>2
  <2> DEFINE n == Len(Body(p))
  <2>3. a + n + 1 < c  BY <1>3, <2>1, <2>2, Apart DEF l
  <2>4. i <= a + n + 1 /\ n \in Nat  BY <2>2, BodyIs
  <2> HIDE DEF n
  <2> QED  BY <1>1, <2>1, <2>3, <2>4
<1>4. \A a, c \in Lost : a = c
  <2>1. \A a \in Lost : a \in 1..l  BY <1>2
  <2> HIDE DEF Lost
  <2>2. \A a \in Lost : a \in Nat  BY <1>1, <2>1
  <2> QED  BY <1>3, <2>2
<1>5. \E h : Sound(s) \subseteq (Sound(t) \cup {h}) \cup {i + 1}
  <2>1. \A a \in Sound(s) : a \in Sound(t) \/ a = i + 1 \/ a \in Lost  OBVIOUS
  <2> HIDE DEF Lost
  <2>2. CASE Lost = {}  BY <2>1, <2>2
  <2>3. CASE Lost # {}
    <3>1. PICK h \in Lost : TRUE  BY <2>3
    <3>2. \A a \in Lost : a = h  BY <1>4, <3>1, Zenon
    <3>3. \A a \in Sound(s) : a \in Sound(t) \/ a = i + 1 \/ a = h  BY <2>1, <3>2, Zenon
    <3>4. Sound(s) \subseteq (Sound(t) \cup {h}) \cup {i + 1}  BY <3>3, Zenon
    <3> QED  BY <3>4, Zenon
  <2> QED  BY <2>2, <2>3
<1> QED  BY <1>5, Zenon

\* What a reader takes that goes on behind n, the first flag to end a frame, whose bytes begin
\* at m: no sound place behind n is lost, and one up to n is the frame.
LEMMA SoundTake ==
  ASSUME NEW s \in Seq(Byte), NEW n \in 1..Len(s), NEW m \in 1..n - 1,
         s[n] = Flag, s[m] # Flag, \E j \in 1..m - 1 : s[j] = Flag,
         \A j, k \in 1..n : j < k /\ s[j] = Flag /\ s[k] # Flag => m <= k,
         \A j, k, e \in 1..n - 1 : j < k /\ k < e /\ s[j] = Flag /\ s[k] # Flag => s[e] # Flag,
         NEW t \in Seq(Byte), Len(t) = Len(s) - n, \A k \in 1..Len(t) : t[k] = s[n + k]
  PROVE  \A a \in Sound(s) :
           /\ a > n => a - n \in Sound(t)
           /\ a <= n => /\ a = m - 1
                        /\ \E p \in Packets : Holds(s, a, p) /\ n = m + Len(Body(p))
<1> DEFINE l == Len(s)
<1>1. l \in Nat /\ n \in Nat /\ m \in Nat /\ m < n /\ 0 < m  BY LenProperties
<1>2. ASSUME NEW a \in Sound(s), a <= n
      PROVE  a = m - 1 /\ \E p \in Packets : Holds(s, a, p) /\ n = m + Len(Body(p))
  <2>1. a \in 1..l + 1 /\ Safe(s, a) /\ (a = l + 1 \/ \E p \in Packets : Holds(s, a, p))
    BY SoundIs DEF l
  <2>2. a \in 1..l /\ a # l + 1  BY <1>1, <1>2, <2>1
  <2>3. PICK p \in Packets : Holds(s, a, p)  BY <2>1, <2>2
  <2> DEFINE c == Len(Body(p))
  <2>4. c \in Nat \ {0} /\ \A k \in 1..c : Body(p)[k] # Flag  BY BodyIs
  <2>5. a + c + 1 <= l /\ s[a] = Flag /\ s[a + c + 1] = Flag
        /\ \A k \in 1..c : s[a + k] = Body(p)[k]
    BY <2>3 DEF Holds, l
  <2> HIDE DEF c
  <2>6. \A j \in a + 1..a + c : s[j] # Flag
    <3> SUFFICES ASSUME NEW j \in a + 1..a + c PROVE s[j] # Flag
      OBVIOUS
    <3>1. j - a \in 1..c /\ a + (j - a) = j  BY <1>1, <2>2, <2>4, SMTT(30)
    <3> QED  BY <2>4, <2>5, <3>1
  <2>7. a # n
    <3> SUFFICES ASSUME a = n PROVE FALSE
      OBVIOUS
    <3>1. PICK j \in 1..m - 1 : s[j] = Flag  OBVIOUS
    <3>2. s[n - 1] = Flag  BY <1>1, <2>1 DEF Safe
    <3>3. m # n - 1  BY <3>2
    <3>4. j \in 1..n - 1 /\ m \in 1..n - 1 /\ n - 1 \in 1..n - 1 /\ j < m /\ m < n - 1
      BY <1>1, <3>3
    <3> QED  BY <3>1, <3>2, <3>4
  <2>8. s[a + 1] # Flag  BY <1>1, <2>2, <2>4, <2>6
  <2>9. a + 1 < n /\ a < n  BY <1>1, <1>2, <2>2, <2>7, <2>8, SMTT(30)
  <2>10. m <= a + 1
    <3>1. a \in 1..n /\ a + 1 \in 1..n /\ a < a + 1  BY <1>1, <2>2, <2>9
    <3> QED  BY <2>5, <2>8, <3>1
  <2>11. m = a + 1
    <3> SUFFICES ASSUME m # a + 1 PROVE FALSE
      OBVIOUS
    <3>1. PICK j \in 1..m - 1 : s[j] = Flag  OBVIOUS
    <3>2. m # a  BY <2>5
    <3>3. j \in 1..n - 1 /\ m \in 1..n - 1 /\ a \in 1..n - 1 /\ j < m /\ m < a
      BY <1>1, <2>2, <2>9, <2>10, <3>2
    <3> QED  BY <2>5, <3>1, <3>3
  <2>12. n > a + c
    <3>1. n \notin a + 1..a + c  BY <2>6
    <3> QED  BY <1>1, <2>2, <2>4, <2>9, <3>1
  <2>13. n = a + c + 1
    <3> SUFFICES ASSUME n # a + c + 1 PROVE FALSE
      OBVIOUS
    <3>1. a \in 1..n - 1 /\ a + 1 \in 1..n - 1 /\ a + c + 1 \in 1..n - 1 /\ a < a + 1
          /\ a + 1 < a + c + 1
      BY <1>1, <2>2, <2>4, <2>12
    <3> QED  BY <2>5, <2>8, <3>1
  <2>14. a = m - 1 /\ n = m + c  BY <1>1, <2>2, <2>4, <2>11, <2>13, SMTT(30)
  <2> QED  BY <2>3, <2>14 DEF c
<1>3. ASSUME NEW a \in Sound(s), a > n PROVE a - n \in Sound(t)
  <2>1. a \in 1..l + 1 /\ Safe(s, a) /\ (a = l + 1 \/ \E p \in Packets : Holds(s, a, p))
    BY SoundIs DEF l
  <2>2. Len(t) = l - n /\ Len(t) \in Nat /\ \A k \in 1..Len(t) : t[k] = s[n + k]
    BY <1>1
  <2>3. Safe(t, a - n)
    <3>1. CASE a - n = 1  BY <3>1 DEF Safe
    <3>2. CASE a - n # 1
      <4>1. a - n - 1 \in 1..Len(t) /\ n + (a - n - 1) = a - 1 /\ a # 1
        BY <1>1, <1>3, <2>1, <2>2, <3>2
      <4>2. t[a - n - 1] = s[a - 1]  BY <2>2, <4>1
      <4> QED  BY <2>1, <4>1, <4>2 DEF Safe
    <3> QED  BY <3>1, <3>2
  <2>4. CASE a = l + 1
    <3>1. a - n = Len(t) + 1  BY <1>1, <2>2, <2>4
    <3> QED  BY <2>3, <3>1, SoundIs
  <2>5. CASE a # l + 1
    <3>1. PICK p \in Packets : Holds(s, a, p)  BY <2>1, <2>5
    <3> DEFINE c == Len(Body(p))
               d == a - n
    <3>2. c \in Nat \ {0}  BY BodyIs
    <3>3. a + c + 1 <= l /\ s[a] = Flag /\ s[a + c + 1] = Flag
          /\ \A k \in 1..c : s[a + k] = Body(p)[k]
      BY <3>1 DEF Holds, l
    <3> HIDE DEF c
    <3>4. d \in 1..Len(t) /\ n + d = a /\ d + c + 1 \in 1..Len(t) /\ n + (d + c + 1) = a + c + 1
          /\ \A k \in 1..c : d + k \in 1..Len(t) /\ n + (d + k) = a + k
      BY <1>1, <1>3, <2>1, <2>2, <3>2, <3>3
    <3> HIDE DEF d
    <3>5. t[d] = Flag /\ t[d + c + 1] = Flag /\ \A k \in 1..c : t[d + k] = Body(p)[k]
      <4>1. t[d] = s[n + d] /\ t[d + c + 1] = s[n + (d + c + 1)]  BY <2>2, <3>4, Zenon
      <4>2. ASSUME NEW k \in 1..c PROVE t[d + k] = Body(p)[k]
        <5>1. d + k \in 1..Len(t) /\ n + (d + k) = a + k  BY <3>4, Zenon
        <5>2. t[d + k] = s[n + (d + k)]  BY <2>2, <5>1, Zenon
        <5> QED  BY <3>3, <5>1, <5>2, Zenon
      <4> QED  BY <3>3, <3>4, <4>1, <4>2, Zenon
    <3>6. d + c + 1 <= Len(t)  BY <2>2, <3>4
    <3>7. Holds(t, d, p)  BY <3>5, <3>6 DEF Holds, c
    <3>8. Safe(t, d)  BY <2>3 DEF d
    <3>9. d \in Sound(t)  BY <3>4, <3>7, <3>8, SoundIs
    <3> QED  BY <3>9 DEF d
  <2> QED  BY <2>4, <2>5
<1> QED  BY <1>2, <1>3, Zenon

\* What FindFrame finds is the first of what it looks for.
LEMMA FoundFirst ==
  ASSUME NEW b \in Seq(Byte), NEW i \in 1..Len(b) + 1
  PROVE  /\ FindFrame(b, i) = None <=> NoFrame(b, i)
         /\ FindFrame(b, i) # None =>
              \E m \in i + 1..Len(b), n \in i + 1..Len(b) :
                /\ FindFrame(b, i) = [from |-> m, to |-> n - 1] /\ m < n
                /\ b[n] = Flag /\ b[m] # Flag /\ \E j \in i..m - 1 : b[j] = Flag
                /\ \A j, k \in i..n : j < k /\ b[j] = Flag /\ b[k] # Flag => m <= k
                /\ \A j, k, e \in i..n - 1 : j < k /\ k < e /\ b[j] = Flag /\ b[k] # Flag => b[e] # Flag
<1> DEFINE flags == {j \in i..Len(b) : b[j] = Flag}
           plain == {j \in i..Len(b) : b[j] # Flag /\ \E f \in flags : f < j}
           ends  == {j \in flags : \E k \in plain : k < j}
<1>1. Len(b) \in Nat /\ i \in Nat \ {0}  BY LenProperties
<1>2. FindFrame(b, i) = IF ends = {} THEN None ELSE [from |-> Min(plain), to |-> Min(ends) - 1]
  BY Zenon DEF FindFrame
<1>3. ends = {} => NoFrame(b, i)  BY DEF NoFrame
<1>4. NoFrame(b, i) => ends = {}  BY DEF NoFrame
<1>5. ASSUME ends # {}
      PROVE  /\ FindFrame(b, i) # None
             /\ \E m \in i + 1..Len(b), n \in i + 1..Len(b) :
                /\ FindFrame(b, i) = [from |-> m, to |-> n - 1] /\ m < n
                /\ b[n] = Flag /\ b[m] # Flag /\ \E j \in i..m - 1 : b[j] = Flag
                /\ \A j, k \in i..n : j < k /\ b[j] = Flag /\ b[k] # Flag => m <= k
                /\ \A j, k, e \in i..n - 1 : j < k /\ k < e /\ b[j] = Flag /\ b[k] # Flag => b[e] # Flag
  <2>1. plain # {} /\ plain \in SUBSET Nat /\ ends \in SUBSET Nat  BY <1>1, <1>5
  <2>2. \A j \in plain : j \in i + 1..Len(b) /\ b[j] # Flag /\ \E f \in i..j - 1 : b[f] = Flag
    BY <1>1
  <2>3. \A j \in ends : j \in i + 1..Len(b) /\ b[j] = Flag /\ \E k \in plain : k < j  BY <1>1
  <2>4. \A j, k \in i..Len(b) : j < k /\ b[j] = Flag /\ b[k] # Flag => k \in plain  BY <1>1
  <2>5. \A j, k, e \in i..Len(b) : j < k /\ k < e /\ b[j] = Flag /\ b[k] # Flag /\ b[e] = Flag
          => e \in ends
    BY <1>1
  <2>6. FindFrame(b, i) = [from |-> Min(plain), to |-> Min(ends) - 1]  BY <1>2, <1>5, Zenon
  <2> DEFINE m == Min(plain)
             n == Min(ends)
  <2> HIDE DEF plain, ends
  <2>7. m \in plain /\ \A k \in plain : m <= k  BY <2>1, MinOf
  <2>8. n \in ends /\ \A k \in ends : n <= k  BY <1>5, <2>1, MinOf
  <2> HIDE DEF m, n
  <2>9. m \in i + 1..Len(b) /\ n \in i + 1..Len(b) /\ m < n /\ b[n] = Flag /\ b[m] # Flag
        /\ \E j \in i..m - 1 : b[j] = Flag
    <3>1. m \in i + 1..Len(b) /\ b[m] # Flag /\ \E j \in i..m - 1 : b[j] = Flag  BY <2>2, <2>7
    <3>2. PICK k \in plain : k < n  BY <2>3, <2>8
    <3>3. m < n
      <4>1. m <= k /\ k \in Nat /\ m \in Nat /\ n \in Nat  BY <1>1, <2>1, <2>7, <2>8, <3>2
      <4> QED  BY <3>2, <4>1
    <3> QED  BY <2>3, <2>8, <3>1, <3>3
  <2>10. \A j, k \in i..n : j < k /\ b[j] = Flag /\ b[k] # Flag => m <= k
    <3>1. \A j \in i..n : j \in i..Len(b)  BY <1>1, <2>9
    <3> QED  BY <2>4, <2>7, <3>1
  <2>11. \A j, k, e \in i..n - 1 : j < k /\ k < e /\ b[j] = Flag /\ b[k] # Flag => b[e] # Flag
    <3>1. \A j \in i..n - 1 : j \in i..Len(b) /\ ~(n <= j)  BY <1>1, <2>9
    <3> QED  BY <2>5, <2>8, <3>1
  <2>12. FindFrame(b, i) = [from |-> m, to |-> n - 1]  BY <2>6 DEF m, n
  <2>13. [from |-> m, to |-> n - 1] # None
    <3>1. m # 0  BY <1>1, <2>9
    <3> QED  BY <3>1 DEF None
  <2> QED  BY <2>9, <2>10, <2>11, <2>12, <2>13
<1>6. ends = {} => FindFrame(b, i) = None  BY <1>2, Zenon
<1> HIDE DEF ends
<1> QED  BY <1>3, <1>4, <1>5, <1>6, Zenon

\* What is counted.
LEMMA Counts ==
  ASSUME TypeOK
  PROVE  /\ Stream \in Seq(Byte) /\ Len(sent) \in Nat /\ Len(got) \in Nat /\ faults \in Nat
         /\ Cardinality(Sound(Stream)) \in Nat
<1>1. Stream \in Seq(Byte)
  <2>1. Held(buf, start) \in Seq(Byte) /\ wire \in Seq(Byte)  BY Typed
  <2> QED  BY <2>1, Joined DEF Stream
<1>2. got \in Seq(Seq(Byte)) /\ sent \in Seq(Packets) /\ faults \in Nat  BY Typed DEF TypeOK
<1> QED  BY <1>1, <1>2, LenProperties, SoundFinite

\* A packet more is sent: its frame joins the stream.
LEMMA StreamWrite ==
  ASSUME TypeOK, Write, needFlag = TRUE
  PROVE  /\ \E p \in Packets : Stream' = Stream \o Encode(TRUE, p)
         /\ Len(sent') = Len(sent) + 1
<1>1. PICK p \in Packets : sent' = Append(sent, p) /\ wire' = wire \o Encode(TRUE, p)
  BY DEF Write
<1>2. buf' = buf /\ start' = start  BY DEF Write, reader
<1> DEFINE e == Encode(TRUE, p)
<1>3. Stream' = Stream \o e
  <2> DEFINE h == Held(buf, start)
  <2>1. h \in Seq(Byte) /\ wire \in Seq(Byte) /\ e \in Seq(Byte)  BY Typed, Encoded
  <2>2. Held(buf', start') = h  BY <1>2
  <2> HIDE DEF h, e
  <2>3. (h \o wire) \o e = h \o (wire \o e)  BY <2>1, Associative
  <2>4. Stream = h \o wire  BY DEF Stream, h
  <2>5. wire' = wire \o e  BY <1>1 DEF e
  <2>6. Stream' = h \o (wire \o e)  BY <2>2, <2>5, Zenon DEF Stream
  <2> QED  BY <2>3, <2>4, <2>6, Zenon
<1>4. Len(sent') = Len(sent) + 1  BY <1>1, Typed, AppendProperties
<1> QED  BY <1>3, <1>4

\* A byte is garbled: it is in the stream.
LEMMA StreamGarble ==
  ASSUME TypeOK, TypeOK', Garble
  PROVE  /\ Stream' \in Seq(Byte) /\ Len(Stream') = Len(Stream)
         /\ \E g \in 1..Len(Stream) :
              /\ Stream'[g] \in Garbage
              /\ \A k \in 1..Len(Stream) : k # g => Stream'[k] = Stream[k]
<1>1. PICK i \in DOMAIN wire, b \in Garbage : wire' = [wire EXCEPT ![i] = b]
  BY DEF Garble
<1>2. buf' = buf /\ start' = start  BY DEF Garble, reader
<1> DEFINE h == Held(buf, start)
           l == Len(h)
           c == Len(wire)
<1>3. /\ h \in Seq(Byte) /\ wire \in Seq(Byte) /\ wire' \in Seq(Byte) /\ l \in Nat /\ c \in Nat
      /\ i \in 1..c /\ Len(wire') = c /\ \A k \in 1..c : k # i => wire'[k] = wire[k]
  <2>1. h \in Seq(Byte) /\ wire \in Seq(Byte) /\ wire' \in Seq(Byte)  BY Typed DEF TypeOK
  <2>2. l \in Nat /\ c \in Nat /\ i \in 1..c  BY <2>1, LenProperties
  <2>3. Len(wire') = c /\ \A k \in 1..c : k # i => wire'[k] = wire[k]
    BY <1>1, <2>1, <2>2, LenProperties
  <2> QED  BY <2>1, <2>2, <2>3
<1>4. Stream = h \o wire /\ Stream' = h \o wire'
  <2>1. Held(buf', start') = h  BY <1>2
  <2>2. Stream = h \o wire  BY DEF Stream
  <2> QED  BY <2>1, <2>2, Zenon DEF Stream
<1> HIDE DEF h
<1> DEFINE s == h \o wire
           t == h \o wire'
<1>5. /\ s \in Seq(Byte) /\ Len(s) = l + c /\ \A k \in 1..l : s[k] = h[k]
      /\ \A k \in 1..c : s[l + k] = wire[k]
  <2> HIDE DEF s
  <2>1. s \in Seq(Byte) /\ Len(s) = l + c  BY <1>3, Joined DEF s
  <2>2. \A k \in 1..l : s[k] = h[k]  BY <1>3, Parts DEF s
  <2>3. \A k \in 1..c : s[l + k] = wire[k]  BY <1>3, Parts DEF s
  <2> QED  BY <2>1, <2>2, <2>3
<1>6. /\ t \in Seq(Byte) /\ Len(t) = l + c /\ \A k \in 1..l : t[k] = h[k]
      /\ \A k \in 1..c : t[l + k] = wire'[k]
  <2> DEFINE w == wire'
  <2>1. w \in Seq(Byte) /\ Len(w) = c  BY <1>3
  <2> HIDE DEF w
  <2> DEFINE u == h \o w
  <2>2. u \in Seq(Byte) /\ Len(u) = l + c
    <3>1. h \in Seq(Byte) /\ w \in Seq(Byte)  BY <1>3, <2>1
    <3>2. u \in Seq(Byte) /\ Len(u) = Len(h) + Len(w)  BY <3>1, Joined
    <3> HIDE DEF u
    <3> QED  BY <2>1, <3>2
  <2>3. /\ \A k \in 1..Len(h) : u[k] = h[k]
        /\ \A k \in 1..Len(w) : u[Len(h) + k] = w[k]
    BY <1>3, <2>1, Parts
  <2>4. t = u  BY DEF w
  <2> HIDE DEF t, u
  <2>5. /\ \A k \in 1..l : u[k] = h[k]
        /\ \A k \in 1..c : u[l + k] = w[k]
    BY <2>1, <2>3
  <2>6. \A k \in 1..c : u[l + k] = wire'[k]  BY <2>5 DEF w
  <2> QED  BY <2>2, <2>4, <2>5, <2>6
<1> HIDE DEF s, t, l, c
<1>7. l + i \in 1..Len(s) /\ Len(t) = Len(s)  BY <1>3, <1>5, <1>6
<1>8. ASSUME NEW k \in 1..Len(s), k # l + i PROVE t[k] = s[k]
  <2>1. CASE k <= l
    <3>1. k \in 1..l  BY <1>3, <1>5, <2>1
    <3> QED  BY <1>5, <1>6, <3>1
  <2>2. CASE ~(k <= l)
    <3>1. k - l \in 1..c /\ k - l # i /\ l + (k - l) = k  BY <1>3, <1>5, <1>8, <2>2
    <3>2. t[l + (k - l)] = wire'[k - l] /\ s[l + (k - l)] = wire[k - l]  BY <1>5, <1>6, <3>1
    <3>3. wire'[k - l] = wire[k - l]  BY <1>3, <3>1
    <3> QED  BY <3>1, <3>2, <3>3
  <2> QED  BY <2>1, <2>2
<1>9. Stream = s /\ Stream' = t  BY <1>4 DEF s, t
<1> DEFINE g == l + i
<1>10. g \in 1..Len(s) /\ \A k \in 1..Len(s) : k # g => t[k] = s[k]  BY <1>7, <1>8
<1>11. t[g] \in Garbage
  <2>1. wire'[i] = b  BY <1>1, <1>3 DEF c
  <2> QED  BY <1>3, <1>6, <2>1
<1> HIDE DEF g
<1> QED  BY <1>6, <1>7, <1>9, <1>10, <1>11

\* A frame is taken: it lies between the first flag that one follows and the next flag, what
\* it decodes to is what comes out, and the stream goes on behind it.
LEMMA StreamFrame ==
  ASSUME TypeOK, TypeOK', Take
  PROVE  \E n \in 1..Len(Stream) : \E m \in 2..n - 1 :
           /\ Len(Stream') = Len(Stream) - n /\ Stream' \in Seq(Byte)
           /\ \A k \in 1..Len(Stream') : Stream'[k] = Stream[n + k]
           /\ Stream[n] = Flag /\ Stream[m] # Flag /\ \E j \in 1..m - 1 : Stream[j] = Flag
           /\ \A j, k \in 1..n : j < k /\ Stream[j] = Flag /\ Stream[k] # Flag => m <= k
           /\ \A j, k, e \in 1..n - 1 :
                j < k /\ k < e /\ Stream[j] = Flag /\ Stream[k] # Flag => Stream[e] # Flag
           /\ got' = (IF Decode(SubSeq(Stream, m, n - 1)) = Bad THEN got
                      ELSE Append(got, Decode(SubSeq(Stream, m, n - 1))))
<1> DEFINE f == FindFrame(buf, start)
           d == Decode(SubSeq(buf, f.from, f.to))
<1>1. /\ draining /\ f # None /\ start' = f.to + 2
      /\ got' = (IF d = Bad THEN got ELSE Append(got, d))
      /\ sent' = sent /\ needFlag' = needFlag /\ wire' = wire /\ buf' = buf
      /\ draining' = draining /\ faults' = faults
  BY Zenon DEF Take
<1>2. /\ wire \in Seq(Byte) /\ buf \in Seq(Byte) /\ start \in 1..Len(buf) + 1 /\ Len(buf) \in Nat
  BY Typed
<1>3. PICK m \in start + 1..Len(buf), n \in start + 1..Len(buf) :
        /\ f = [from |-> m, to |-> n - 1] /\ m < n
        /\ buf[n] = Flag /\ buf[m] # Flag /\ \E j \in start..m - 1 : buf[j] = Flag
        /\ \A j, k \in start..n : j < k /\ buf[j] = Flag /\ buf[k] # Flag => m <= k
        /\ \A j, k, e \in start..n - 1 :
             j < k /\ k < e /\ buf[j] = Flag /\ buf[k] # Flag => buf[e] # Flag
  <2> HIDE DEF f
  <2> QED  BY <1>1, <1>2, FoundFirst DEF f
<1>4. f.from = m /\ f.to = n - 1  BY <1>3
<1> HIDE DEF f
<1> DEFINE h == Held(buf, start)
           r == Held(buf, n + 1)
           l == Len(buf)
           o == start - 1
           s == h \o wire
           t == r \o wire
<1>5. start' = n + 1 /\ n + 1 \in 1..l + 1  BY <1>1, <1>2, <1>3, <1>4
<1>6. /\ h \in Seq(Byte) /\ Len(h) = l - o /\ \A k \in 1..l - o : h[k] = buf[o + k]
      /\ r \in Seq(Byte) /\ Len(r) = l - n /\ \A k \in 1..l - n : r[k] = buf[n + k]
  <2>1. /\ h \in Seq(Byte) /\ Len(h) = l - start + 1
        /\ \A k \in 1..l - start + 1 : h[k] = buf[start + k - 1]
    BY <1>2, HeldIs
  <2> DEFINE u == n + 1
  <2>2. u \in 1..Len(buf) + 1  BY <1>5
  <2> HIDE DEF u
  <2>3. /\ Held(buf, u) \in Seq(Byte) /\ Len(Held(buf, u)) = l - u + 1
        /\ \A k \in 1..l - u + 1 : Held(buf, u)[k] = buf[u + k - 1]
    BY <1>2, <2>2, HeldIs
  <2>4. l - start + 1 = l - o /\ \A k \in 1..l - o : start + k - 1 = o + k  BY <1>2
  <2>5. l - u + 1 = l - n /\ \A k \in 1..l - n : u + k - 1 = n + k  BY <1>2, <1>3 DEF u
  <2>6. r = Held(buf, u)  BY DEF u
  <2> HIDE DEF h, r, o
  <2>7. \A k \in 1..l - o : h[k] = buf[o + k]  BY <2>1, <2>4
  <2>8. \A k \in 1..l - n : Held(buf, u)[k] = buf[n + k]  BY <2>3, <2>5
  <2>9. Len(h) = l - o /\ Len(Held(buf, u)) = l - n  BY <2>1, <2>3, <2>4, <2>5
  <2> QED  BY <2>1, <2>3, <2>6, <2>7, <2>8, <2>9
<1>7. Stream = s /\ Stream' = t  BY <1>1, <1>5 DEF Stream
<1> HIDE DEF h, r, l
<1>8. o \in Nat /\ l \in Nat /\ o <= l /\ n \in Nat /\ o < n /\ n <= l /\ m \in Nat /\ o + 1 < m /\ m < n
  BY <1>2, <1>3 DEF l
<1>9. \A j \in start..n : j - o \in 1..n - o /\ o + (j - o) = j  BY <1>2, <1>8
<1> DEFINE c == Len(wire)
<1>10. /\ s \in Seq(Byte) /\ Len(s) = l - o + c /\ c \in Nat
       /\ \A k \in 1..l - o : s[k] = buf[o + k]
       /\ \A k \in 1..c : s[l - o + k] = wire[k]
  <2> HIDE DEF s, c
  <2>0. h \in Seq(Byte) /\ wire \in Seq(Byte)  BY <1>2, <1>6, Zenon
  <2>1. s \in Seq(Byte) /\ Len(s) = Len(h) + c /\ c \in Nat  BY <2>0, Joined, LenProperties DEF s, c
  <2>2. \A k \in 1..Len(h) : s[k] = h[k]  BY <2>0, Parts, Zenon DEF s
  <2>3. \A k \in 1..c : s[Len(h) + k] = wire[k]  BY <2>0, Parts DEF s, c
  <2> QED  BY <1>6, <2>1, <2>2, <2>3
<1>11. /\ t \in Seq(Byte) /\ Len(t) = l - n + c
       /\ \A k \in 1..l - n : t[k] = buf[n + k]
       /\ \A k \in 1..c : t[l - n + k] = wire[k]
  <2> HIDE DEF t, c
  <2>0. r \in Seq(Byte) /\ wire \in Seq(Byte)  BY <1>2, <1>6, Zenon
  <2>1. t \in Seq(Byte) /\ Len(t) = Len(r) + c  BY <2>0, Joined DEF t, c
  <2>2. \A k \in 1..Len(r) : t[k] = r[k]  BY <2>0, Parts, Zenon DEF t
  <2>3. \A k \in 1..c : t[Len(r) + k] = wire[k]  BY <2>0, Parts DEF t, c
  <2> QED  BY <1>6, <2>1, <2>2, <2>3
<1> HIDE DEF s, t, c, o
<1> DEFINE N == n - o
           M == m - o
<1>12. N \in 1..Len(s) /\ M \in 1..N - 1 /\ Len(t) = Len(s) - N  BY <1>8, <1>10, <1>11
<1>13. \A k \in 1..N : s[k] = buf[o + k] /\ o + k \in start..n
  <2>1. o + 1 = start  BY <1>2 DEF o
  <2>2. \A k \in 1..N : k \in 1..l - o /\ o + k \in start..n  BY <1>8, <2>1
  <2> QED  BY <1>10, <2>2
<1>14. s[N] = Flag /\ s[M] # Flag
  <2>1. N \in 1..N /\ M \in 1..N /\ o + N = n /\ o + M = m  BY <1>8, <1>12
  <2> QED  BY <1>3, <1>13, <2>1
<1>15. \E j \in 1..M - 1 : s[j] = Flag
  <2>1. PICK j \in start..m - 1 : buf[j] = Flag  BY <1>3
  <2>2. o + 1 = start  BY <1>2 DEF o
  <2>3. j - o \in 1..M - 1 /\ j - o \in 1..N /\ o + (j - o) = j  BY <1>8, <2>2
  <2>4. s[j - o] = Flag  BY <1>13, <2>1, <2>3
  <2> QED  BY <2>3, <2>4
<1>16. \A j, k \in 1..N : j < k /\ s[j] = Flag /\ s[k] # Flag => M <= k
  <2> SUFFICES ASSUME NEW j \in 1..N, NEW k \in 1..N, j < k, s[j] = Flag, s[k] # Flag PROVE M <= k
    OBVIOUS
  <2>1. buf[o + j] = Flag /\ buf[o + k] # Flag /\ o + j \in start..n /\ o + k \in start..n  BY <1>13
  <2>2. o + j < o + k  BY <1>8
  <2>3. m <= o + k  BY <1>3, <2>1, <2>2
  <2> QED  BY <1>8, <2>3
<1>17. \A j, k, e \in 1..N - 1 : j < k /\ k < e /\ s[j] = Flag /\ s[k] # Flag => s[e] # Flag
  <2> SUFFICES ASSUME NEW j \in 1..N - 1, NEW k \in 1..N - 1, NEW e \in 1..N - 1,
                      j < k, k < e, s[j] = Flag, s[k] # Flag
               PROVE  s[e] # Flag
    OBVIOUS
  <2>1. j \in 1..N /\ k \in 1..N /\ e \in 1..N  BY <1>8
  <2>2. o + 1 = start  BY <1>2 DEF o
  <2>3. o + j \in start..n - 1 /\ o + k \in start..n - 1 /\ o + e \in start..n - 1
        /\ o + j < o + k /\ o + k < o + e
    BY <1>8, <2>2
  <2>4. buf[o + j] = Flag /\ buf[o + k] # Flag /\ s[e] = buf[o + e]  BY <1>13, <2>1
  <2>5. buf[o + e] # Flag  BY <1>3, <2>3, <2>4
  <2> QED  BY <2>4, <2>5
<1>18. \A k \in 1..Len(t) : t[k] = s[N + k]
  <2> SUFFICES ASSUME NEW k \in 1..Len(t) PROVE t[k] = s[N + k]
    OBVIOUS
  <2>1. CASE k <= l - n
    <3>1. k \in 1..l - n /\ N + k \in 1..l - o /\ o + (N + k) = n + k  BY <1>8, <1>11, <2>1
    <3> HIDE DEF N
    <3>2. s[N + k] = buf[o + (N + k)]  BY <1>10, <3>1
    <3> QED  BY <1>11, <3>1, <3>2
  <2>2. CASE ~(k <= l - n)
    <3> DEFINE q == k - (l - n)
    <3>1. q \in 1..c /\ l - n + q = k /\ l - o + q = N + k  BY <1>8, <1>10, <1>11, <2>2
    <3> HIDE DEF N, q
    <3> QED  BY <1>10, <1>11, <3>1
  <2> QED  BY <2>1, <2>2
<1> HIDE DEF N, M
<1>19. SubSeq(buf, m, n - 1) = SubSeq(s, M, N - 1)
  <2> DEFINE v == n - 1
             w == N - 1
             y == SubSeq(buf, m, v)
             z == SubSeq(s, M, w)
             g == n - m
  <2>1. /\ m \in Nat \ {0} /\ v \in Nat /\ v <= Len(buf) /\ v - m + 1 = g /\ m <= v
        /\ M \in Nat \ {0} /\ w \in Nat /\ w <= Len(s) /\ w - M + 1 = g /\ M <= w
        /\ \A k \in 1..g : M + k - 1 \in 1..N /\ o + (M + k - 1) = m + k - 1
    BY <1>8, <1>12 DEF l, M, N
  <2> HIDE DEF v, w
  <2>2. /\ y \in Seq(Byte) /\ Len(y) = IF m <= v THEN v - m + 1 ELSE 0
        /\ \A k \in 1..v - m + 1 : y[k] = buf[m + k - 1]
    BY <1>2, <2>1, Sub
  <2>3. /\ z \in Seq(Byte) /\ Len(z) = IF M <= w THEN w - M + 1 ELSE 0
        /\ \A k \in 1..w - M + 1 : z[k] = s[M + k - 1]
    BY <1>10, <2>1, Sub
  <2> HIDE DEF y, z, g
  <2>4. Len(y) = Len(z) /\ Len(y) = g  BY <2>1, <2>2, <2>3
  <2>5. \A k \in 1..g : y[k] = z[k]
    <3> SUFFICES ASSUME NEW k \in 1..g PROVE y[k] = z[k]
      OBVIOUS
    <3>1. y[k] = buf[m + k - 1] /\ z[k] = s[M + k - 1]  BY <2>1, <2>2, <2>3
    <3>2. s[M + k - 1] = buf[o + (M + k - 1)] /\ o + (M + k - 1) = m + k - 1  BY <1>13, <2>1
    <3> QED  BY <3>1, <3>2
  <2>6. y = z  BY <2>2, <2>3, <2>4, <2>5, SeqEqual
  <2> QED  BY <2>6 DEF y, z, v, w
<1>20. M \in 2..N - 1
  <2>1. M \in 1..N - 1 /\ N \in Nat /\ o + 1 < m /\ o \in Nat /\ m \in Nat  BY <1>8, <1>12, <1>10, LenProperties
  <2> QED  BY <2>1 DEF M
<1>21. got' = (IF Decode(SubSeq(s, M, N - 1)) = Bad THEN got
               ELSE Append(got, Decode(SubSeq(s, M, N - 1))))
  <2>1. d = Decode(SubSeq(s, M, N - 1))  BY <1>4, <1>19
  <2> HIDE DEF d
  <2> QED  BY <1>1, <2>1, Zenon
<1> DEFINE S == Stream'
<1>22. Stream = s /\ S = t  BY <1>7
<1> HIDE DEF S
<1>23. /\ Len(S) = Len(Stream) - N /\ S \in Seq(Byte) /\ N \in 1..Len(Stream)
       /\ \A k \in 1..Len(S) : S[k] = Stream[N + k]
  BY <1>11, <1>12, <1>18, <1>22
<1>24. /\ Stream[N] = Flag /\ Stream[M] # Flag /\ \E j \in 1..M - 1 : Stream[j] = Flag
       /\ \A j, k \in 1..N : j < k /\ Stream[j] = Flag /\ Stream[k] # Flag => M <= k
       /\ \A j, k, e \in 1..N - 1 :
            j < k /\ k < e /\ Stream[j] = Flag /\ Stream[k] # Flag => Stream[e] # Flag
       /\ got' = (IF Decode(SubSeq(Stream, M, N - 1)) = Bad THEN got
                  ELSE Append(got, Decode(SubSeq(Stream, M, N - 1))))
  BY <1>14, <1>15, <1>16, <1>17, <1>21, <1>22, Zenon
<1> QED  BY <1>20, <1>23, <1>24, Zenon DEF S

\* A frame is taken: what is sound behind it stays so, and if anything before its end is, it
\* is this frame, and its packet comes out.
LEMMA StreamTake ==
  ASSUME TypeOK, TypeOK', Take
  PROVE  \E n \in 1..Len(Stream), g \in Int :
           /\ Len(Stream') = Len(Stream) - n /\ Stream' \in Seq(Byte)
           /\ \A a \in Sound(Stream) : a > n => a - n \in Sound(Stream')
           /\ \A a \in Sound(Stream) : a <= n => a = g /\ Len(got') = Len(got) + 1
           /\ Len(got') >= Len(got)
<1> DEFINE s == Stream
           t == Stream'
<1>1. PICK n \in 1..Len(s) : \E m \in 2..n - 1 :
        /\ Len(t) = Len(s) - n /\ t \in Seq(Byte) /\ \A k \in 1..Len(t) : t[k] = s[n + k]
        /\ s[n] = Flag /\ s[m] # Flag /\ \E j \in 1..m - 1 : s[j] = Flag
        /\ \A j, k \in 1..n : j < k /\ s[j] = Flag /\ s[k] # Flag => m <= k
        /\ \A j, k, e \in 1..n - 1 : j < k /\ k < e /\ s[j] = Flag /\ s[k] # Flag => s[e] # Flag
        /\ got' = (IF Decode(SubSeq(s, m, n - 1)) = Bad THEN got
                   ELSE Append(got, Decode(SubSeq(s, m, n - 1))))
  BY StreamFrame, Zenon
<1>2. PICK m \in 2..n - 1 :
        /\ Len(t) = Len(s) - n /\ t \in Seq(Byte) /\ \A k \in 1..Len(t) : t[k] = s[n + k]
        /\ s[n] = Flag /\ s[m] # Flag /\ \E j \in 1..m - 1 : s[j] = Flag
        /\ \A j, k \in 1..n : j < k /\ s[j] = Flag /\ s[k] # Flag => m <= k
        /\ \A j, k, e \in 1..n - 1 : j < k /\ k < e /\ s[j] = Flag /\ s[k] # Flag => s[e] # Flag
        /\ got' = (IF Decode(SubSeq(s, m, n - 1)) = Bad THEN got
                   ELSE Append(got, Decode(SubSeq(s, m, n - 1))))
  BY <1>1, Zenon
<1>3. s \in Seq(Byte) /\ Len(s) \in Nat /\ got \in Seq(Seq(Byte)) /\ got' \in Seq(Seq(Byte))
      /\ Len(got) \in Nat
  BY Counts, LenProperties DEF TypeOK
<1> HIDE DEF s, t
<1>0. /\ Len(t) = Len(s) - n /\ t \in Seq(Byte) /\ \A k \in 1..Len(t) : t[k] = s[n + k]
      /\ s[n] = Flag /\ s[m] # Flag /\ \E j \in 1..m - 1 : s[j] = Flag
      /\ \A j, k \in 1..n : j < k /\ s[j] = Flag /\ s[k] # Flag => m <= k
      /\ \A j, k, e \in 1..n - 1 : j < k /\ k < e /\ s[j] = Flag /\ s[k] # Flag => s[e] # Flag
  BY <1>2, Zenon
<1> DEFINE v == n - 1
           d == Decode(SubSeq(s, m, v))
<1>4. m \in Nat \ {0} /\ v \in Nat /\ v <= Len(s) /\ m \in 1..n - 1 /\ n \in Nat /\ m \in Nat
  BY <1>3
<1> HIDE DEF v
<1>5. \A a \in Sound(s) :
        /\ a > n => a - n \in Sound(t)
        /\ a <= n => /\ a = m - 1
                     /\ \E p \in Packets : Holds(s, a, p) /\ n = m + Len(Body(p))
  <2>1. s \in Seq(Byte) /\ n \in 1..Len(s) /\ m \in 1..n - 1  BY <1>3, <1>4
  <2> QED  BY <1>0, <2>1, SoundTake, ZenonT(40)
<1>6. d # Bad => d \in Seq(Byte)
  <2>1. SubSeq(s, m, v) \in Seq(Byte)  BY <1>3, <1>4, Sub
  <2> QED  BY <2>1, Decoded
<1>7. got' = IF d = Bad THEN got ELSE Append(got, d)  BY <1>2, Zenon DEF v
<1>8. ASSUME NEW p \in Packets, Holds(s, m - 1, p), n = m + Len(Body(p)) PROVE d = p /\ d # Bad
  <2> DEFINE x == Body(p)
             g == Len(x)
             y == SubSeq(s, m, v)
  <2>1. x \in Seq(Byte) /\ g \in Nat \ {0} /\ Decode(x) = p /\ p \in Seq(Byte)
    BY Shape, BodyIs, RoundTrip, HdlcAssumption
  <2>2. \A k \in 1..g : s[m - 1 + k] = x[k]  BY <1>8 DEF Holds
  <2>3. n = m + g  BY <1>8
  <2>4. /\ y \in Seq(Byte) /\ Len(y) = IF m <= v THEN v - m + 1 ELSE 0
        /\ \A k \in 1..v - m + 1 : y[k] = s[m + k - 1]
    BY <1>3, <1>4, Sub
  <2> HIDE DEF x, y
  <2>5. g = Len(x)  OBVIOUS
  <2> HIDE DEF g
  <2>6. v - m + 1 = g /\ m <= v /\ \A k \in 1..g : m - 1 + k = m + k - 1  BY <1>4, <2>1, <2>3 DEF v
  <2>7. \A k \in 1..g : y[k] = x[k]  BY <2>2, <2>4, <2>6
  <2>8. y = x  BY <2>1, <2>4, <2>5, <2>6, <2>7, SeqEqual
  <2>9. Decode(y) = p  BY <2>1, <2>8
  <2> QED  BY <2>1, <2>9, NotBad DEF y
<1> HIDE DEF d
<1>9. d # Bad => Len(got') = Len(got) + 1  BY <1>3, <1>6, <1>7, AppendProperties
<1>10. d = Bad => got' = got  BY <1>7
<1>11. Len(got') >= Len(got)  BY <1>3, <1>9, <1>10
<1>12. \A a \in Sound(s) : a <= n => a = m - 1 /\ Len(got') = Len(got) + 1
  BY <1>5, <1>8, <1>9
<1>13. m - 1 \in Int  BY <1>4
<1>14. \A a \in Sound(s) : a > n => a - n \in Sound(t)  BY <1>5
<1> QED  BY <1>2, <1>11, <1>12, <1>13, <1>14 DEF s, t

-----------------------------------------------------------------------------
(* The reader finds its way back                                           *)

\* Every packet sent came out, or its frame is where the reader will find it, or it is one of
\* the two that a garbled byte may cost; the end of the stream counts as a frame to come.
Accounted ==
  /\ needFlag = TRUE
  /\ Len(sent) + 1 <= Len(got) + Cardinality(Sound(Stream)) + 2 * faults
  /\ ~draining => NoFrame(buf, 1)

\* A packet more is sent.
LEMMA AccountedWrite ==
  ASSUME TypeOK, Accounted, OwnFlags, Write
  PROVE  Accounted'
<1>1. PICK p \in Packets : Stream' = Stream \o Encode(TRUE, p)  BY StreamWrite DEF Accounted
<1>2. /\ needFlag' = TRUE /\ buf' = buf /\ draining' = draining /\ got' = got
      /\ faults' = faults
  BY DEF Write, reader
<1> DEFINE s == Stream
           e == Encode(TRUE, p)
<1>3. s \o e = Stream'  BY <1>1
<1>4. s \in Seq(Byte)  BY Counts
<1> HIDE DEF s
<1>5. Cardinality(Sound(s \o e)) >= Cardinality(Sound(s)) + 1
  <2> DEFINE t == s \o e
             z == Len(s) + Len(e) + 1
             S == Sound(s)
             T == Sound(t)
  <2>1. t \in Seq(Byte)
    <3>1. e \in Seq(Byte)  BY Encoded
    <3> HIDE DEF e
    <3> QED  BY <1>4, <3>1, Joined
  <2>2. S \subseteq T /\ z \in T \ S  BY <1>4, SoundWrite
  <2> HIDE DEF t
  <2>3. IsFiniteSet(S) /\ IsFiniteSet(T) /\ Cardinality(S) \in Nat /\ Cardinality(T) \in Nat
    BY <1>4, <2>1, SoundFinite
  <2> HIDE DEF z, S, T
  <2>4. S \cup {z} \subseteq T  BY <2>2
  <2>5. Cardinality(S \cup {z}) = Cardinality(S) + 1  BY <2>2, <2>3, FS_AddElement
  <2>6. Cardinality(S \cup {z}) <= Cardinality(T)  BY <2>3, <2>4, FS_Subset
  <2> QED  BY <2>3, <2>5, <2>6 DEF S, T, t
<1> HIDE DEF e
<1>6. Len(sent') = Len(sent) + 1  BY StreamWrite DEF Accounted
<1> DEFINE x == Cardinality(Sound(s))
           y == Cardinality(Sound(s \o e))
<1>7. x \in Nat  BY <1>4, SoundFinite
<1>8. y \in Nat
  <2>1. e \in Seq(Byte)  BY Encoded DEF e
  <2>2. s \o e \in Seq(Byte)  BY <1>4, <2>1, Joined
  <2> QED  BY <2>2, SoundFinite
<1>9. Len(sent) + 1 <= Len(got) + x + 2 * faults  BY DEF Accounted, s
<1> HIDE DEF x, y
<1>10. Len(sent') + 1 <= Len(got) + y + 2 * faults
  <2>1. y >= x + 1  BY <1>5 DEF x, y
  <2> QED  BY <1>6, <1>7, <1>8, <1>9, <2>1, Counts
<1>11. Cardinality(Sound(Stream')) = y  BY <1>3 DEF y
<1>12. ~draining' => NoFrame(buf', 1)  BY <1>2 DEF Accounted
<1> QED  BY <1>2, <1>10, <1>11, <1>12 DEF Accounted

\* A byte is garbled.
LEMMA AccountedGarble ==
  ASSUME TypeOK, TypeOK', Accounted, Garble
  PROVE  Accounted'
<1>1. /\ needFlag' = needFlag /\ buf' = buf /\ draining' = draining
      /\ got' = got /\ sent' = sent /\ faults' = faults + 1
  BY DEF Garble, reader
<1> DEFINE s == Stream
           t == Stream'
<1>2. /\ t \in Seq(Byte) /\ Len(t) = Len(s) /\ s \in Seq(Byte)
      /\ \E g \in 1..Len(s) : t[g] \in Garbage /\ \A k \in 1..Len(s) : k # g => t[k] = s[k]
  BY StreamGarble, Counts
<1> HIDE DEF s, t
<1>3. PICK h, g : Sound(s) \subseteq (Sound(t) \cup {h}) \cup {g}
  <2>1. PICK i \in 1..Len(s) : \A k \in 1..Len(s) : k # i => t[k] = s[k]  BY <1>2
  <2> QED  BY <1>2, <2>1, SoundGarble, ZenonT(40)
<1> DEFINE x == Cardinality(Sound(s))
           y == Cardinality(Sound(t))
<1>4. x \in Nat /\ y \in Nat /\ x <= y + 2  BY <1>2, <1>3, SoundFinite, TwoMore
<1>5. Len(sent) + 1 <= Len(got) + x + 2 * faults  BY DEF Accounted, s
<1> HIDE DEF x, y
<1>6. Len(sent) + 1 <= Len(got) + y + 2 * (faults + 1)  BY <1>4, <1>5, Counts
<1>7. Cardinality(Sound(Stream')) = y  BY DEF y, t
<1> QED  BY <1>1, <1>6, <1>7 DEF Accounted

\* A frame is taken.
LEMMA AccountedTake ==
  ASSUME TypeOK, TypeOK', Accounted, Take
  PROVE  Accounted'
<1>1. PICK n \in 1..Len(Stream), g \in Int :
        /\ Len(Stream') = Len(Stream) - n /\ Stream' \in Seq(Byte)
        /\ \A a \in Sound(Stream) : a > n => a - n \in Sound(Stream')
        /\ \A a \in Sound(Stream) : a <= n => a = g /\ Len(got') = Len(got) + 1
        /\ Len(got') >= Len(got)
  BY StreamTake
<1>2. /\ sent' = sent /\ needFlag' = needFlag /\ buf' = buf /\ draining' = draining
      /\ faults' = faults
  BY DEF Take
<1> DEFINE S == Sound(Stream)
           T == Sound(Stream')
           B == {a \in S : a > n}
           x == Cardinality(S)
           y == Cardinality(T)
           a0 == Len(got)
           b0 == Len(got')
<1>3. /\ S \subseteq 1..Len(Stream) + 1 /\ IsFiniteSet(S) /\ x \in Nat /\ n \in Nat
      /\ Len(Stream) \in Nat
  BY Counts, SoundFinite, LenProperties
<1>4. IsFiniteSet(T) /\ y \in Nat  BY <1>1, SoundFinite
<1>5. a0 \in Nat /\ b0 \in Nat /\ b0 >= a0
  <2>1. got \in Seq(Seq(Byte)) /\ got' \in Seq(Seq(Byte))  BY DEF TypeOK
  <2> QED  BY <1>1, <2>1, LenProperties
<1>6. B \in SUBSET Nat /\ (\A a \in B : a - n \in T)  BY <1>1, <1>3
<1>7. \A a \in S : a \in B \/ (a = g /\ b0 = a0 + 1)  BY <1>1, <1>3
<1>8. Len(sent) + 1 <= a0 + x + 2 * faults  BY DEF Accounted
<1>9. Cardinality(Sound(Stream')) = y  OBVIOUS
<1> HIDE DEF S, T, B
<1>10. IsFiniteSet(B) /\ Cardinality(B) <= y  BY <1>3, <1>4, <1>6, Shifted
<1>11. Cardinality(B) \in Nat  BY <1>10, FS_CardinalityType
<1>12. x <= y \/ (x <= y + 1 /\ b0 = a0 + 1)
  <2>1. CASE S \subseteq B
    <3>1. x <= Cardinality(B)  BY <1>10, <2>1, FS_Subset
    <3> QED  BY <1>3, <1>4, <1>10, <1>11, <3>1
  <2>2. CASE ~(S \subseteq B)
    <3>1. b0 = a0 + 1 /\ S \subseteq B \cup {g}  BY <1>7, <2>2
    <3>2. /\ IsFiniteSet(B \cup {g})
          /\ Cardinality(B \cup {g}) = IF g \in B THEN Cardinality(B) ELSE Cardinality(B) + 1
      BY <1>10, FS_AddElement
    <3>3. x <= Cardinality(B \cup {g})  BY <3>1, <3>2, FS_Subset
    <3> QED  BY <1>3, <1>4, <1>10, <1>11, <3>1, <3>2, <3>3
  <2> QED  BY <2>1, <2>2
<1>13. Len(sent) \in Nat /\ faults \in Nat  BY Counts
<1> HIDE DEF x, y
<1>14. Len(sent') + 1 <= b0 + y + 2 * faults'
  <2> HIDE DEF a0, b0
  <2>1. Len(sent) + 1 <= b0 + y + 2 * faults  BY <1>3, <1>4, <1>5, <1>8, <1>12, <1>13
  <2> QED  BY <1>2, <2>1
<1> QED  BY <1>2, <1>9, <1>14 DEF Accounted

\* The buffer is compacted when it holds no frame.
LEMMA AccountedCompact ==
  ASSUME TypeOK, TypeOK', Accounted, Compact
  PROVE  Accounted'
<1>1. /\ FindFrame(buf, start) = None /\ needFlag' = needFlag /\ sent' = sent /\ got' = got
      /\ faults' = faults
  BY DEF Compact
<1>2. Stream' = Stream /\ buf' = Held(buf, start)  BY StreamCompact
<1>3. /\ buf \in Seq(Byte) /\ start \in 1..Len(buf) + 1 /\ Len(buf) \in Nat  BY Typed
<1>4. NoFrame(buf, start)  BY <1>1, <1>3, FoundFirst
<1> DEFINE h == Held(buf, start)
<1>5. /\ h \in Seq(Byte) /\ Len(h) = Len(buf) - start + 1
      /\ \A k \in 1..Len(buf) - start + 1 : h[k] = buf[start + k - 1]
  BY <1>3, HeldIs
<1> HIDE DEF h
<1>6. NoFrame(h, 1)
  <2> SUFFICES ASSUME NEW j \in 1..Len(h), NEW k \in 1..Len(h), NEW e \in 1..Len(h),
                      j < k, k < e, h[j] = Flag, h[k] # Flag
               PROVE  h[e] # Flag
    BY Zenon DEF NoFrame
  <2> DEFINE u == start + j - 1
             v == start + k - 1
             w == start + e - 1
  <2>1. u \in start..Len(buf) /\ v \in start..Len(buf) /\ w \in start..Len(buf) /\ u < v /\ v < w
    BY <1>3, <1>5
  <2>2. h[j] = buf[u] /\ h[k] = buf[v] /\ h[e] = buf[w]  BY <1>5
  <2> HIDE DEF u, v, w
  <2> QED  BY <1>4, <2>1, <2>2 DEF NoFrame
<1>7. NoFrame(buf', 1)  BY <1>2, <1>6 DEF h
<1> QED  BY <1>1, <1>2, <1>7 DEF Accounted

\* The invariant of ptyReader's loop on a line that garbles bytes.
THEOREM InAccount ==
  ASSUME OwnFlags
  PROVE  Spec => [](TypeOK /\ Accounted)
<1>1. Init => Accounted
  <2> SUFFICES ASSUME Init PROVE Accounted
    OBVIOUS
  <2> DEFINE e == << >>
  <2>1. e \in Seq(Byte) /\ Len(e) = 0 /\ e \o e = e  OBVIOUS
  <2>2. sent = e /\ wire = e /\ buf = e /\ start = 1 /\ draining = FALSE /\ got = e
        /\ needFlag = TRUE /\ faults = 0
    BY Zenon DEF Init
  <2> HIDE DEF e
  <2>4. Held(e, 1) = e  BY <2>1, SubSeqFull DEF Held
  <2>5. Stream = e  BY <2>1, <2>2, <2>4, Zenon DEF Stream
  <2>6. 1 \in Sound(e)
    <3>1. Safe(e, 1) /\ 1 = Len(e) + 1  BY <2>1 DEF Safe
    <3> QED  BY <2>1, <3>1, SoundIs
  <2>7. Cardinality(Sound(e)) \in Nat /\ Cardinality(Sound(e)) # 0
    <3> DEFINE S == Sound(e)
    <3>1. IsFiniteSet(S) /\ Cardinality(S) \in Nat /\ S # {}  BY <2>1, <2>6, SoundFinite
    <3> HIDE DEF S
    <3>2. Cardinality(S) # 0  BY <3>1, FS_EmptySet
    <3> QED  BY <3>1, <3>2 DEF S
  <2>8. Len(sent) + 1 <= Len(got) + Cardinality(Sound(Stream)) + 2 * faults
    BY <2>1, <2>2, <2>5, <2>7
  <2>9. NoFrame(buf, 1)  BY <2>1, <2>2 DEF NoFrame
  <2> QED  BY <2>2, <2>8, <2>9 DEF Accounted
<1>2. TypeOK /\ TypeOK' /\ Accounted /\ [Next]_vars => Accounted'
  <2> SUFFICES ASSUME TypeOK, TypeOK', Accounted, [Next]_vars PROVE Accounted'
    OBVIOUS
  <2>1. CASE Write  BY <2>1, AccountedWrite
  <2>2. CASE Read
    <3>1. Stream' = Stream  BY <2>2, StreamRead
    <3>2. draining' = TRUE /\ needFlag' = needFlag /\ sent' = sent /\ got' = got /\ faults' = faults
      BY <2>2 DEF Read
    <3> QED  BY <3>1, <3>2 DEF Accounted
  <2>3. CASE Take  BY <2>3, AccountedTake
  <2>4. CASE Compact  BY <2>4, AccountedCompact
  <2>5. CASE Garble  BY <2>5, AccountedGarble
  <2>6. CASE Quiet \/ UNCHANGED vars
    BY <2>6 DEF Quiet, vars, reader, Accounted, Stream
  <2> QED  BY <2>1, <2>2, <2>3, <2>4, <2>5, <2>6 DEF Next
<1> QED  BY <1>1, <1>2, Types, PTL DEF Spec

\* ptyReader finds its way back: whatever bytes the line garbles, and whatever to, a garbled
\* byte costs two packets at most.
THEOREM WayBack ==
  ASSUME OwnFlags
  PROVE  Spec => []Resynchronises
<1>1. TypeOK /\ Accounted => Resynchronises
  <2> SUFFICES ASSUME TypeOK, Accounted, wire = << >>, ~draining
               PROVE  Len(sent) - Len(got) <= 2 * faults
    BY DEF Resynchronises
  <2>1. buf \in Seq(Byte) /\ Held(buf, start) = buf /\ Len(buf) \in Nat  BY Typed
  <2>2. Stream = buf  BY <2>1, ConcatEmptySeq DEF Stream
  <2>3. NoFrame(buf, 1)  BY DEF Accounted
  <2> DEFINE z == Len(buf) + 1
  <2>4. Sound(buf) \subseteq {z}
    <3> SUFFICES ASSUME NEW a \in Sound(buf), a # z PROVE FALSE
      OBVIOUS
    <3>1. a \in 1..Len(buf) + 1 /\ \E p \in Packets : Holds(buf, a, p)  BY <2>1, SoundIs
    <3>2. PICK p \in Packets : Holds(buf, a, p)  BY <3>1
    <3> DEFINE n == Len(Body(p))
    <3>3. n \in Nat \ {0} /\ \A k \in 1..n : Body(p)[k] # Flag  BY BodyIs
    <3>4. a + n + 1 <= Len(buf) /\ buf[a] = Flag /\ buf[a + n + 1] = Flag
          /\ \A k \in 1..n : buf[a + k] = Body(p)[k]
      BY <3>2 DEF Holds
    <3> HIDE DEF n
    <3>5. 1 \in 1..n /\ buf[a + 1] # Flag  BY <3>3, <3>4
    <3>6. a \in 1..Len(buf) /\ a + 1 \in 1..Len(buf) /\ a + n + 1 \in 1..Len(buf)
          /\ a < a + 1 /\ a + 1 < a + n + 1
      BY <2>1, <3>1, <3>3, <3>4
    <3> QED  BY <2>3, <3>4, <3>5, <3>6 DEF NoFrame
  <2> HIDE DEF z
  <2>5. IsFiniteSet({z}) /\ Cardinality({z}) = 1  BY FS_Singleton
  <2>6. Cardinality(Sound(buf)) <= 1  BY <2>4, <2>5, FS_Subset
  <2>7. Len(sent) + 1 <= Len(got) + Cardinality(Sound(buf)) + 2 * faults
    BY <2>2 DEF Accounted
  <2>8. /\ Len(sent) \in Nat /\ Len(got) \in Nat /\ faults \in Nat
        /\ Cardinality(Sound(buf)) \in Nat
    BY <2>1, Counts, SoundFinite
  <2> QED  BY <2>6, <2>7, <2>8
<1> QED  BY <1>1, InAccount, PTL

-----------------------------------------------------------------------------
(* Room in the buffer on a line that garbles bytes                         *)

\* What k frames of up to E bytes take.
Room(E, k) == E * k

\* Room grows with the frames.
LEMMA Rooms ==
  ASSUME NEW E \in Nat
  PROVE  /\ Room(E, 0) = 0 /\ \A a \in Nat : Room(E, a) \in Nat /\ Room(E, a + 1) = Room(E, a) + E
         /\ \A a, b \in Nat : a <= b => Room(E, a) <= Room(E, b)
<1>1. \A a \in Nat : E * a \in Nat /\ E * (a + 1) = E * a + E  OBVIOUS
<1>2. ASSUME NEW a \in Nat, NEW b \in Nat, a <= b PROVE E * a <= E * b
  <2>1. b - a \in Nat /\ b = a + (b - a)  BY <1>2
  <2>2. E * (a + (b - a)) = E * a + E * (b - a)  OBVIOUS
  <2>3. E * (b - a) \in Nat  BY <2>1
  <2>4. E * a \in Nat  OBVIOUS
  <2> QED  BY <2>1, <2>2, <2>3, <2>4
<1>3. E * 0 = 0  OBVIOUS
<1> QED  BY <1>1, <1>2, <1>3 DEF Room

\* The sound places behind x and up to y.
Window(s, x, y) == {a \in Sound(s) : x < a /\ a <= y}
Count(s, x, y) == Cardinality(Window(s, x, y))

\* They are finitely many.
LEMMA CountIs ==
  ASSUME NEW s \in Seq(Byte), NEW x, NEW y
  PROVE  IsFiniteSet(Window(s, x, y)) /\ Count(s, x, y) \in Nat
<1>1. IsFiniteSet(Sound(s))  BY SoundFinite
<1>2. Window(s, x, y) \subseteq Sound(s)  BY DEF Window
<1>3. IsFiniteSet(Window(s, x, y))  BY <1>1, <1>2, FS_Subset
<1> QED  BY <1>3, FS_CardinalityType DEF Count

\* A window within another holds no more.
LEMMA CountMore ==
  ASSUME NEW s \in Seq(Byte), NEW t \in Seq(Byte), NEW x, NEW y, NEW u, NEW v,
         Window(s, x, y) \subseteq Window(t, u, v)
  PROVE  Count(s, x, y) <= Count(t, u, v)
BY CountIs, FS_Subset DEF Count

\* No part of a stream is longer than the frames that begin in it, one that began before, and
\* two for each byte garbled; up to the end of the stream, none need have begun before.
Dense(s, E, f) ==
  \A x \in 0..Len(s) :
    /\ \A y \in x..Len(s) : y - x <= Room(E, Count(s, x, y) + 1 + 2 * f)
    /\ Len(s) - x <= Room(E, Count(s, x, Len(s) + 1) + 2 * f)

\* A frame more.
LEMMA DenseWrite ==
  ASSUME NEW E \in Nat, NEW f \in Nat, NEW s \in Seq(Byte), NEW p \in Packets,
         Len(Encode(TRUE, p)) <= E, Dense(s, E, f)
  PROVE  Dense(s \o Encode(TRUE, p), E, f)
<1> DEFINE e == Encode(TRUE, p)
           t == s \o e
           l == Len(s)
           c == Len(e)
           z == l + c + 1
           C(x, y) == Count(s, x, y)
           D(x, y) == Count(t, x, y)
<1>1. e \in Seq(Byte)  BY Encoded
<1>2. l \in Nat /\ c \in Nat /\ c <= E  BY <1>1, LenProperties
<1> HIDE DEF e
<1>3. t \in Seq(Byte) /\ Len(t) = l + c  BY <1>1, Joined
<1>4. Sound(s) \subseteq Sound(t) /\ z \in Sound(t) /\ z \notin Sound(s)  BY SoundWrite DEF e
<1>5. Sound(s) \subseteq 1..l + 1  BY SoundFinite
<1>6. \A x, y : C(x, y) \in Nat /\ D(x, y) \in Nat  BY <1>3, CountIs
<1>7. \A x \in 0..l : /\ \A y \in x..l : y - x <= Room(E, C(x, y) + 1 + 2 * f)
                      /\ l - x <= Room(E, C(x, l + 1) + 2 * f)
  BY Zenon DEF Dense
<1> HIDE DEF t
<1>8. ASSUME NEW x, NEW y PROVE C(x, y) <= D(x, y)
  <2>1. Window(s, x, y) \subseteq Window(t, x, y)  BY <1>4 DEF Window
  <2> QED  BY <1>3, <2>1, CountMore
<1>9. ASSUME NEW x \in 0..l, NEW y \in l + 1..l + c PROVE C(x, l + 1) <= D(x, y)
  <2>1. Window(s, x, l + 1) \subseteq Window(t, x, y)  BY <1>2, <1>4, <1>5 DEF Window
  <2> QED  BY <1>3, <2>1, CountMore
<1>10. ASSUME NEW x \in 0..l PROVE C(x, l + 1) + 1 <= D(x, z)
  <2> DEFINE V == Window(s, x, l + 1)
             W == Window(t, x, z)
  <2>1. V \cup {z} \subseteq W /\ z \notin V  BY <1>2, <1>4, <1>5 DEF Window
  <2>2. IsFiniteSet(V) /\ IsFiniteSet(W) /\ Cardinality(V) \in Nat /\ Cardinality(W) \in Nat
    BY <1>3, CountIs DEF Count
  <2>3. C(x, l + 1) = Cardinality(V) /\ D(x, z) = Cardinality(W)  BY DEF Count
  <2> HIDE DEF V, W, C, D
  <2>4. Cardinality(V \cup {z}) = Cardinality(V) + 1  BY <2>1, <2>2, FS_AddElement
  <2>5. Cardinality(V \cup {z}) <= Cardinality(W)  BY <2>1, <2>2, FS_Subset
  <2> QED  BY <2>2, <2>3, <2>4, <2>5
<1>11. ASSUME NEW x \in 0..l + c PROVE 1 <= D(x, z)
  <2> DEFINE W == Window(t, x, z)
  <2>1. {z} \subseteq W  BY <1>2, <1>4 DEF Window
  <2>2. IsFiniteSet(W) /\ Cardinality(W) \in Nat  BY <1>3, CountIs DEF Count
  <2>3. D(x, z) = Cardinality(W)  BY DEF Count
  <2> HIDE DEF W, D
  <2>4. Cardinality({z}) = 1  BY FS_Singleton
  <2>5. Cardinality({z}) <= Cardinality(W)  BY <2>1, <2>2, FS_Subset
  <2> QED  BY <2>2, <2>3, <2>4, <2>5
<1> HIDE DEF C, D
<1>12. ASSUME NEW x \in 0..l + c, NEW y \in x..l + c
       PROVE  y - x <= Room(E, D(x, y) + 1 + 2 * f)
  <2> DEFINE k == D(x, y) + 2 * f
  <2>1. k \in Nat /\ D(x, y) + 1 + 2 * f = k + 1  BY <1>6
  <2>2. Room(E, k + 1) = Room(E, k) + E /\ Room(E, k) \in Nat  BY <2>1, Rooms
  <2>3. CASE y <= l
    <3>1. x \in 0..l /\ y \in x..l  BY <1>2, <2>3
    <3>2. y - x <= Room(E, C(x, y) + 1 + 2 * f)  BY <1>7, <3>1
    <3>3. C(x, y) + 1 + 2 * f \in Nat /\ C(x, y) + 1 + 2 * f <= k + 1  BY <1>6, <1>8
    <3>4. Room(E, C(x, y) + 1 + 2 * f) <= Room(E, k + 1)
          /\ Room(E, C(x, y) + 1 + 2 * f) \in Nat
      <4> DEFINE j == C(x, y) + 1 + 2 * f
                 q == k + 1
      <4>1. j \in Nat /\ q \in Nat /\ j <= q  BY <2>1, <3>3
      <4> HIDE DEF j, q
      <4>2. Room(E, j) <= Room(E, q) /\ Room(E, j) \in Nat  BY <4>1, Rooms
      <4> QED  BY <4>2 DEF j, q
    <3> HIDE DEF k
    <3> QED  BY <1>2, <2>1, <2>2, <3>1, <3>2, <3>4
  <2>4. CASE x <= l /\ ~(y <= l)
    <3>1. x \in 0..l /\ y \in l + 1..l + c  BY <1>2, <2>4
    <3> DEFINE j == C(x, l + 1) + 2 * f
    <3>2. j \in Nat /\ j <= k  BY <1>6, <1>9, <3>1
    <3>3. l - x <= Room(E, j)  BY <1>7, <3>1
    <3> HIDE DEF j, k
    <3>4. Room(E, j) \in Nat /\ Room(E, j) <= Room(E, k)  BY <2>1, <3>2, Rooms
    <3> QED  BY <1>2, <2>1, <2>2, <3>1, <3>3, <3>4, SMTT(30)
  <2>5. CASE ~(x <= l)
    <3> HIDE DEF k
    <3> QED  BY <1>2, <2>1, <2>2, <2>5
  <2> QED  BY <1>2, <2>3, <2>4, <2>5
<1>13. ASSUME NEW x \in 0..l + c PROVE l + c - x <= Room(E, D(x, z) + 2 * f)
  <2> DEFINE k == D(x, z) + 2 * f
  <2>1. k \in Nat  BY <1>6
  <2>2. CASE x <= l
    <3>1. x \in 0..l  BY <1>2, <2>2
    <3> DEFINE j == C(x, l + 1) + 2 * f
    <3>2. j \in Nat /\ j + 1 <= k  BY <1>6, <1>10, <3>1, SMTT(30)
    <3>3. l - x <= Room(E, j)  BY <1>7, <3>1
    <3> HIDE DEF j, k
    <3>4. Room(E, j) \in Nat /\ Room(E, j + 1) = Room(E, j) + E  BY <3>2, Rooms
    <3>5. Room(E, j + 1) <= Room(E, k) /\ Room(E, k) \in Nat
      <4>1. j + 1 \in Nat  BY <3>2
      <4> QED  BY <2>1, <3>2, <4>1, Rooms
    <3> QED  BY <1>2, <3>1, <3>3, <3>4, <3>5 DEF k
  <2>3. CASE ~(x <= l)
    <3>1. 1 <= k  BY <1>6, <1>11
    <3> HIDE DEF k
    <3>2. Room(E, 0 + 1) = Room(E, 0) + E /\ Room(E, 0) = 0  BY Rooms
    <3>3. Room(E, 1) <= Room(E, k) /\ Room(E, k) \in Nat  BY <2>1, <3>1, Rooms
    <3> QED  BY <1>2, <2>3, <3>2, <3>3 DEF k
  <2> QED  BY <2>2, <2>3
<1>14. Dense(t, E, f)
  <2>1. \A x \in 0..Len(t) : /\ \A y \in x..Len(t) : y - x <= Room(E, Count(t, x, y) + 1 + 2 * f)
                             /\ Len(t) - x <= Room(E, Count(t, x, Len(t) + 1) + 2 * f)
    BY <1>3, <1>12, <1>13 DEF D
  <2> QED  BY <2>1, Zenon DEF Dense
<1> QED  BY <1>14 DEF t, e

\* A byte garbled.
LEMMA DenseGarble ==
  ASSUME NEW E \in Nat, NEW f \in Nat, NEW s \in Seq(Byte), NEW t \in Seq(Byte), Len(t) = Len(s),
         NEW h, NEW g, Sound(s) \subseteq (Sound(t) \cup {h}) \cup {g}, Dense(s, E, f)
  PROVE  Dense(t, E, f + 1)
<1>1. ASSUME NEW x, NEW y
      PROVE  /\ Count(s, x, y) \in Nat /\ Count(t, x, y) \in Nat
             /\ Count(s, x, y) <= Count(t, x, y) + 2
  <2>1. Window(s, x, y) \subseteq (Window(t, x, y) \cup {h}) \cup {g}  BY DEF Window
  <2>2. IsFiniteSet(Window(t, x, y))  BY CountIs
  <2> QED  BY <2>1, <2>2, TwoMore, CountIs DEF Count
<1>2. ASSUME NEW x, NEW y, NEW d \in Nat, NEW v \in Int, v <= Room(E, Count(s, x, y) + d + 2 * f)
      PROVE  v <= Room(E, Count(t, x, y) + d + 2 * (f + 1))
  <2> DEFINE j == Count(s, x, y) + d + 2 * f
             k == Count(t, x, y) + d + 2 * (f + 1)
  <2>1. j \in Nat /\ k \in Nat /\ j <= k  BY <1>1, SMTT(30)
  <2>2. v <= Room(E, j)  BY <1>2
  <2> HIDE DEF j, k
  <2>3. Room(E, j) \in Nat /\ Room(E, k) \in Nat /\ Room(E, j) <= Room(E, k)  BY <2>1, Rooms
  <2>4. v <= Room(E, k)  BY <2>2, <2>3
  <2> QED  BY <2>4 DEF k
<1>3. Len(s) \in Nat  BY LenProperties
<1>4. ASSUME NEW x \in 0..Len(s)
      PROVE  /\ \A y \in x..Len(s) : y - x <= Room(E, Count(t, x, y) + 1 + 2 * (f + 1))
             /\ Len(s) - x <= Room(E, Count(t, x, Len(s) + 1) + 2 * (f + 1))
  <2>1. ASSUME NEW y \in x..Len(s) PROVE y - x <= Room(E, Count(t, x, y) + 1 + 2 * (f + 1))
    <3> DEFINE v == y - x
    <3>1. v <= Room(E, Count(s, x, y) + 1 + 2 * f)  BY Zenon DEF Dense
    <3>2. v \in Int /\ 1 \in Nat  BY <1>3
    <3> HIDE DEF v
    <3>3. v <= Room(E, Count(t, x, y) + 1 + 2 * (f + 1))  BY <1>2, <3>1, <3>2
    <3> QED  BY <3>3 DEF v
  <2>2. Len(s) - x <= Room(E, Count(t, x, Len(s) + 1) + 2 * (f + 1))
    <3> DEFINE y == Len(s) + 1
               v == Len(s) - x
    <3>1. v <= Room(E, Count(s, x, y) + 2 * f)  BY Zenon DEF Dense
    <3>2. v \in Int /\ 0 \in Nat  BY <1>3
    <3> HIDE DEF y, v
    <3>3. Count(s, x, y) + 0 + 2 * f = Count(s, x, y) + 2 * f  BY <1>1
    <3>4. v <= Room(E, Count(t, x, y) + 0 + 2 * (f + 1))  BY <1>2, <3>1, <3>2, <3>3
    <3>5. Count(t, x, y) + 0 + 2 * (f + 1) = Count(t, x, y) + 2 * (f + 1)  BY <1>1
    <3>6. v <= Room(E, Count(t, x, y) + 2 * (f + 1))  BY <3>4, <3>5
    <3> QED  BY <3>6 DEF v, y
  <2> QED  BY <2>1, <2>2
<1> QED  BY <1>4, Zenon DEF Dense

\* Bytes taken off the front.
LEMMA DenseTake ==
  ASSUME NEW E \in Nat, NEW f \in Nat, NEW s \in Seq(Byte), NEW t \in Seq(Byte),
         NEW n \in 1..Len(s), Len(t) = Len(s) - n,
         \A a \in Sound(s) : a > n => a - n \in Sound(t), Dense(s, E, f)
  PROVE  Dense(t, E, f)
<1>1. Len(s) \in Nat /\ n \in Nat  BY LenProperties
<1>2. ASSUME NEW x \in Nat, NEW y \in Nat
      PROVE  /\ Count(s, x + n, y + n) \in Nat /\ Count(t, x, y) \in Nat
             /\ Count(s, x + n, y + n) <= Count(t, x, y)
  <2> DEFINE V == Window(s, x + n, y + n)
             W == Window(t, x, y)
  <2>1. Sound(s) \subseteq 1..Len(s) + 1  BY SoundFinite
  <2>2. V \in SUBSET Nat /\ \A a \in V : a - n \in W  BY <1>1, <2>1 DEF Window
  <2>3. IsFiniteSet(W)  BY CountIs
  <2> HIDE DEF V, W
  <2>4. Cardinality(V) <= Cardinality(W)  BY <1>1, <2>2, <2>3, Shifted
  <2> QED  BY <2>4, CountIs DEF V, W, Count
<1>3. ASSUME NEW x \in Nat, NEW y \in Nat, NEW d \in Nat, NEW v \in Int,
             v <= Room(E, Count(s, x + n, y + n) + d + 2 * f)
      PROVE  v <= Room(E, Count(t, x, y) + d + 2 * f)
  <2> DEFINE b == Count(s, x + n, y + n)
             c == Count(t, x, y)
             j == b + d + 2 * f
             k == c + d + 2 * f
  <2>1. b \in Nat /\ c \in Nat /\ b <= c  BY <1>2, Zenon
  <2>2. v <= Room(E, j)  BY <1>3, Zenon
  <2> HIDE DEF b, c
  <2>5. j \in Nat /\ k \in Nat /\ j <= k  BY <2>1
  <2> HIDE DEF j, k
  <2>3. Room(E, j) \in Nat /\ Room(E, k) \in Nat /\ Room(E, j) <= Room(E, k)  BY <2>5, Rooms
  <2>4. v <= Room(E, k)  BY <2>2, <2>3
  <2> QED  BY <2>4 DEF k, c
<1>4. ASSUME NEW x \in 0..Len(t)
      PROVE  /\ \A y \in x..Len(t) : y - x <= Room(E, Count(t, x, y) + 1 + 2 * f)
             /\ Len(t) - x <= Room(E, Count(t, x, Len(t) + 1) + 2 * f)
  <2>1. x + n \in 0..Len(s) /\ x \in Nat /\ Len(t) \in Nat  BY <1>1
  <2>2. ASSUME NEW y \in x..Len(t) PROVE y - x <= Room(E, Count(t, x, y) + 1 + 2 * f)
    <3>1. y + n \in x + n..Len(s) /\ y \in Nat /\ (y + n) - (x + n) = y - x  BY <1>1, <2>1
    <3>2. (y + n) - (x + n) <= Room(E, Count(s, x + n, y + n) + 1 + 2 * f)
      BY <2>1, <3>1, Zenon DEF Dense
    <3>3. y - x \in Int /\ 1 \in Nat  BY <1>1, <2>1
    <3> DEFINE v == y - x
    <3>4. v <= Room(E, Count(s, x + n, y + n) + 1 + 2 * f) /\ v \in Int  BY <3>1, <3>2, <3>3
    <3> HIDE DEF v
    <3>5. v <= Room(E, Count(t, x, y) + 1 + 2 * f)  BY <1>3, <2>1, <3>1, <3>3, <3>4
    <3> QED  BY <3>5 DEF v
  <2>3. Len(t) - x <= Room(E, Count(t, x, Len(t) + 1) + 2 * f)
    <3> DEFINE y == Len(t) + 1
               v == Len(t) - x
    <3>1. y \in Nat /\ v \in Int /\ 0 \in Nat /\ Len(s) - (x + n) = v /\ Len(s) + 1 = y + n
      BY <1>1, <2>1
    <3>2. Len(s) - (x + n) <= Room(E, Count(s, x + n, Len(s) + 1) + 2 * f)
      BY <2>1, Zenon DEF Dense
    <3> HIDE DEF y, v
    <3>3. v <= Room(E, Count(s, x + n, y + n) + 2 * f)  BY <3>1, <3>2
    <3> DEFINE c == Count(s, x + n, y + n)
               d == Count(t, x, y)
    <3>4. c \in Nat /\ d \in Nat  BY <1>2, <2>1, <3>1, Zenon
    <3>5. v <= Room(E, c + 2 * f)  BY <3>3, Zenon
    <3>6. v <= Room(E, c + 0 + 2 * f) => v <= Room(E, d + 0 + 2 * f)
      BY <1>3, <2>1, <3>1, Zenon
    <3> HIDE DEF c, d
    <3>7. c + 0 + 2 * f = c + 2 * f /\ d + 0 + 2 * f = d + 2 * f  BY <3>4
    <3>8. v <= Room(E, d + 2 * f)  BY <3>5, <3>6, <3>7
    <3> QED  BY <3>8 DEF v, y, d
  <2> QED  BY <2>2, <2>3
<1> QED  BY <1>4, Zenon DEF Dense

\* The invariant of the stream: it stays as dense as the bytes garbled allow.
THEOREM StaysDense ==
  ASSUME OwnFlags, NEW E \in Nat, \A p \in Packets : 2 * Len(p) + 9 <= E
  PROVE  Spec => [](TypeOK /\ Accounted /\ Dense(Stream, E, faults))
<1>1. Init => Dense(Stream, E, faults)
  <2> SUFFICES ASSUME Init PROVE Dense(Stream, E, faults)
    OBVIOUS
  <2> DEFINE e == << >>
  <2>1. e \in Seq(Byte) /\ Len(e) = 0 /\ e \o e = e  OBVIOUS
  <2>2. wire = e /\ buf = e /\ start = 1 /\ faults = 0  BY Zenon DEF Init
  <2> HIDE DEF e
  <2>3. Held(e, 1) = e  BY <2>1, SubSeqFull DEF Held
  <2>4. Stream = e  BY <2>1, <2>2, <2>3, Zenon DEF Stream
  <2>5. ASSUME NEW y, NEW d \in Nat PROVE 0 <= Room(E, Count(e, 0, y) + d + 2 * 0)
    <3> DEFINE c == Count(e, 0, y)
               k == c + d + 2 * 0
    <3>1. c \in Nat  BY <2>1, CountIs
    <3> HIDE DEF c
    <3>2. k \in Nat  BY <3>1
    <3> HIDE DEF k
    <3>3. Room(E, k) \in Nat  BY <3>2, Rooms
    <3>4. 0 <= Room(E, k)  BY <3>3
    <3> QED  BY <3>4 DEF k, c
  <2>6. ASSUME NEW x \in 0..Len(e)
        PROVE  /\ \A y \in x..Len(e) : y - x <= Room(E, Count(e, x, y) + 1 + 2 * 0)
               /\ Len(e) - x <= Room(E, Count(e, x, Len(e) + 1) + 2 * 0)
    <3>1. x = 0 /\ Len(e) = 0 /\ 0 - 0 = 0 /\ 0..0 = {0}  BY <2>1
    <3>2. 0 <= Room(E, Count(e, 0, 0) + 1 + 2 * 0)  BY <2>5
    <3>3. 0 <= Room(E, Count(e, 0, 1) + 0 + 2 * 0)  BY <2>5
    <3> DEFINE c == Count(e, 0, 1)
    <3>4. c \in Nat  BY <2>1, CountIs
    <3>5. 0 <= Room(E, c + 2 * 0)
      <4> HIDE DEF c
      <4>1. c + 0 + 2 * 0 = c + 2 * 0  BY <3>4
      <4> QED  BY <3>3, <4>1 DEF c
    <3>6. Len(e) + 1 = 1  BY <3>1
    <3>7. \A y \in x..Len(e) : y - x <= Room(E, Count(e, x, y) + 1 + 2 * 0)
      <4> SUFFICES ASSUME NEW y \in x..Len(e)
                   PROVE  y - x <= Room(E, Count(e, x, y) + 1 + 2 * 0)
        OBVIOUS
      <4>1. y = 0 /\ y - x = 0  BY <3>1
      <4> QED  BY <3>1, <3>2, <4>1, Zenon
    <3>8. Len(e) - x = 0  BY <3>1
    <3> QED  BY <3>1, <3>5, <3>6, <3>7, <3>8, Zenon DEF c
  <2>7. Dense(e, E, 0)  BY <2>6, Zenon DEF Dense
  <2> QED  BY <2>2, <2>4, <2>7
<1>2. /\ TypeOK /\ TypeOK' /\ Accounted /\ Dense(Stream, E, faults) /\ [Next]_vars
      => Dense(Stream, E, faults)'
  <2> SUFFICES ASSUME TypeOK, TypeOK', Accounted, Dense(Stream, E, faults), [Next]_vars
               PROVE  Dense(Stream', E, faults')
    OBVIOUS
  <2>0. Stream \in Seq(Byte) /\ faults \in Nat  BY Counts
  <2>1. CASE Write
    <3>1. PICK p \in Packets : Stream' = Stream \o Encode(TRUE, p)
      BY <2>1, StreamWrite DEF Accounted
    <3>2. faults' = faults  BY <2>1 DEF Write
    <3>3. Len(Encode(TRUE, p)) <= E
      <4> DEFINE m == Len(Body(p))
                 k == Len(p)
      <4>1. Len(Encode(TRUE, p)) = m + 2 /\ m \in 1..2 * k + 7  BY Shape
      <4>2. p \in Seq(Byte)  BY HdlcAssumption
      <4>3. k \in Nat /\ 2 * k + 9 <= E  BY <4>2, LenProperties
      <4> DEFINE l == Len(Encode(TRUE, p))
      <4>4. l = m + 2 /\ m \in 1..2 * k + 7 /\ k \in Nat /\ 2 * k + 9 <= E  BY <4>1, <4>3, Zenon
      <4> HIDE DEF l, m, k
      <4>5. l <= E  BY <4>4
      <4> QED  BY <4>5 DEF l
    <3>4. Dense(Stream \o Encode(TRUE, p), E, faults)  BY <2>0, <3>3, DenseWrite
    <3> QED  BY <3>1, <3>2, <3>4
  <2>2. CASE Read
    <3>1. Stream' = Stream /\ faults' = faults  BY <2>2, StreamRead DEF Read
    <3> QED  BY <3>1
  <2>3. CASE Take
    <3>1. PICK n \in 1..Len(Stream) :
            /\ Len(Stream') = Len(Stream) - n /\ Stream' \in Seq(Byte)
            /\ \A a \in Sound(Stream) : a > n => a - n \in Sound(Stream')
      BY <2>3, StreamTake
    <3>2. faults' = faults  BY <2>3 DEF Take
    <3> DEFINE s == Stream
               t == Stream'
    <3>3. /\ s \in Seq(Byte) /\ t \in Seq(Byte) /\ n \in 1..Len(s) /\ Len(t) = Len(s) - n
          /\ \A a \in Sound(s) : a > n => a - n \in Sound(t)
          /\ Dense(s, E, faults)
      BY <2>0, <3>1
    <3> HIDE DEF s, t
    <3>4. Dense(t, E, faults)  BY <2>0, <3>3, DenseTake
    <3> QED  BY <3>2, <3>4 DEF t
  <2>4. CASE Compact
    <3>1. Stream' = Stream /\ faults' = faults  BY <2>4, StreamCompact DEF Compact
    <3> QED  BY <3>1
  <2>5. CASE Garble
    <3> DEFINE s == Stream
               t == Stream'
    <3>1. /\ t \in Seq(Byte) /\ Len(t) = Len(s) /\ s \in Seq(Byte) /\ Dense(s, E, faults)
          /\ \E g \in 1..Len(s) : t[g] \in Garbage /\ \A k \in 1..Len(s) : k # g => t[k] = s[k]
      BY <2>5, StreamGarble, Counts
    <3>2. faults' = faults + 1  BY <2>5 DEF Garble
    <3> HIDE DEF s, t
    <3>3. PICK h, g : Sound(s) \subseteq (Sound(t) \cup {h}) \cup {g}
      <4>1. PICK i \in 1..Len(s) : \A k \in 1..Len(s) : k # i => t[k] = s[k]  BY <3>1
      <4> QED  BY <3>1, <4>1, SoundGarble, ZenonT(40)
    <3>4. Dense(t, E, faults + 1)  BY <2>0, <3>1, <3>3, DenseGarble
    <3> QED  BY <3>2, <3>4 DEF t
  <2>6. CASE Quiet \/ UNCHANGED vars
    <3>1. Stream' = Stream /\ faults' = faults  BY <2>6 DEF Quiet, vars, reader, Stream
    <3> QED  BY <3>1
  <2> QED  BY <2>1, <2>2, <2>3, <2>4, <2>5, <2>6 DEF Next
<1>3. Spec => [](TypeOK /\ Accounted)  BY InAccount
<1> QED  BY <1>1, <1>2, <1>3, PTL DEF Spec

\* ptyReader never spins on a full buffer, whatever the line garbles, if the buffer has room for
\* two frames and two more for each byte garbled.
THEOREM NeverSpins ==
  ASSUME OwnFlags, NEW E \in Nat, \A p \in Packets : 2 * Len(p) + 9 <= E,
         E * (2 + 2 * MaxFaults) < BufSize
  PROVE  Spec => []NeverFull
<1>1. TypeOK /\ Accounted /\ Dense(Stream, E, faults) => NeverFull
  <2> SUFFICES ASSUME TypeOK, Accounted, Dense(Stream, E, faults), ~draining
               PROVE  Len(buf) < BufSize
    BY DEF NeverFull
  <2>1. /\ buf \in Seq(Byte) /\ wire \in Seq(Byte) /\ Held(buf, start) = buf /\ Len(buf) \in Nat
        /\ faults \in 0..MaxFaults /\ MaxFaults \in Nat /\ BufSize \in Nat
    BY Typed, HdlcAssumption DEF TypeOK
  <2> DEFINE s == buf \o wire
             l == Len(buf)
             C == Window(s, 0, l)
             c == Count(s, 0, l)
  <2>2. Stream = s  BY <2>1, Zenon DEF Stream
  <2>3. /\ s \in Seq(Byte) /\ l \in 0..Len(s) /\ 0 \in 0..Len(s) /\ \A k \in 1..l : s[k] = buf[k]
    <3>1. s \in Seq(Byte) /\ Len(s) = l + Len(wire) /\ Len(wire) \in Nat
      BY <2>1, Joined, LenProperties
    <3>2. \A k \in 1..l : s[k] = buf[k]  BY <2>1, Parts
    <3> HIDE DEF s
    <3> QED  BY <2>1, <3>1, <3>2
  <2> HIDE DEF s
  <2>4. NoFrame(buf, 1)  BY DEF Accounted
  <2>5. ASSUME NEW a \in C, NEW b \in C, a < b PROVE FALSE
    <3>1. a \in Sound(s) /\ b \in Sound(s) /\ a <= l /\ b <= l  BY DEF Window
    <3>2. a \in 1..Len(s) + 1 /\ b \in 1..Len(s) + 1  BY <2>3, <3>1, SoundFinite
    <3>3. a \in 1..Len(s) /\ a # Len(s) + 1  BY <2>1, <2>3, <3>1, <3>2, <2>5
    <3>4. PICK p \in Packets : Holds(s, a, p)  BY <2>3, <3>1, <3>3, SoundIs
    <3> DEFINE n == Len(Body(p))
    <3>5. a + n + 1 < b  BY <2>3, <2>5, <3>1, <3>3, <3>4, Apart
    <3>6. n \in Nat \ {0} /\ \A k \in 1..n : Body(p)[k] # Flag  BY BodyIs
    <3>7. s[a] = Flag /\ s[a + n + 1] = Flag /\ \A k \in 1..n : s[a + k] = Body(p)[k]
      BY <3>4 DEF Holds
    <3> HIDE DEF n
    <3>8. /\ a \in 1..l /\ a + 1 \in 1..l /\ a + n + 1 \in 1..l /\ 1 \in 1..n
          /\ a < a + 1 /\ a + 1 < a + n + 1
      BY <2>1, <3>1, <3>2, <3>5, <3>6
    <3>9. buf[a] = Flag /\ buf[a + 1] # Flag /\ buf[a + n + 1] = Flag
      BY <2>3, <3>6, <3>7, <3>8
    <3> QED  BY <2>4, <3>8, <3>9 DEF NoFrame
  <2>6. c \in Nat /\ IsFiniteSet(C)  BY <2>3, CountIs
  <2>7. C \in SUBSET Nat
    <3>1. Sound(s) \subseteq 1..Len(s) + 1 /\ Len(s) \in Nat  BY <2>3, SoundFinite, LenProperties
    <3> QED  BY <3>1 DEF Window
  <2>8. c <= 1
    <3>1. c = Cardinality(C)  BY DEF Count
    <3> HIDE DEF C, c
    <3>2. \A a, b \in C : a = b  BY <2>5, <2>7
    <3>3. CASE C = {}
      <4>1. c = 0  BY <2>6, <3>1, <3>3, FS_EmptySet
      <4> QED  BY <4>1
    <3>4. CASE C # {}
      <4>1. PICK a \in C : TRUE  BY <3>4
      <4>2. C = {a}  BY <3>2, <4>1
      <4>3. c = 1  BY <3>1, <4>2, FS_Singleton
      <4> QED  BY <4>3
    <3> QED  BY <3>3, <3>4
  <2>9. l - 0 <= Room(E, c + 1 + 2 * faults)
    <3>1. l \in 0..Len(s)  BY <2>3
    <3>2. Dense(s, E, faults)  BY <2>2
    <3> HIDE DEF c, l
    <3> QED  BY <2>3, <3>1, <3>2, Zenon DEF Dense, c
  <2> DEFINE j == c + 1 + 2 * faults
             k == 2 + 2 * MaxFaults
  <2> HIDE DEF c
  <2>10. j \in Nat /\ k \in Nat /\ j <= k  BY <2>1, <2>6, <2>8
  <2>11. l - 0 <= Room(E, j) /\ Room(E, k) < BufSize  BY <2>9, Zenon DEF Room
  <2> HIDE DEF j, k
  <2>12. Room(E, j) \in Nat /\ Room(E, k) \in Nat /\ Room(E, j) <= Room(E, k)  BY <2>10, Rooms
  <2> QED  BY <2>1, <2>11, <2>12
<1> QED  BY <1>1, StaysDense, PTL

-----------------------------------------------------------------------------
(* What a sender writes                                                    *)

\* The bytes of one packet more: the frame of the first opens with a flag of its own, and so
\* do the others if OwnFlags.
LEMMA LineMore ==
  /\ Line(<< >>) = << >>
  /\ \A s \in Seq(Packets) : Line(s) \in Seq(Byte)
  /\ \A s \in Seq(Packets), p \in Packets :
       Line(Append(s, p)) = Line(s) \o Encode(OwnFlags \/ Line(s) = << >>, p)
<1> DEFINE e == << >>
           flag(x) == OwnFlags \/ x = << >>
<1>0. \A x : flag(x) \in BOOLEAN  BY HdlcAssumption
<1>1. Step(LineStep, Seq(Byte), Packets)
  <2>1. ASSUME NEW x \in Seq(Byte) \X Packets PROVE x[1] \o Encode(flag(x[1]), x[2]) \in Seq(Byte)
    <3>1. x[1] \in Seq(Byte) /\ x[2] \in Packets  OBVIOUS
    <3>2. flag(x[1]) \in BOOLEAN  BY <1>0
    <3> HIDE DEF flag
    <3>3. Encode(flag(x[1]), x[2]) \in Seq(Byte)  BY <3>1, <3>2, Encoded
    <3> QED  BY <3>1, <3>3, ConcatProperties
  <2> QED  BY <2>1 DEF Step, LineStep
<1>2. e \in Seq(Byte)  OBVIOUS
<1> HIDE DEF e
<1>3. /\ Along(LineStep, e, << >>) = e
      /\ \A s \in Seq(Packets) : Along(LineStep, e, s) \in Seq(Byte)
      /\ \A s \in Seq(Packets), p \in Packets :
           Along(LineStep, e, Append(s, p)) = LineStep[<<Along(LineStep, e, s), p>>]
  BY <1>1, <1>2, AlongStep
<1>4. ASSUME NEW x \in Seq(Byte), NEW p \in Packets
      PROVE  LineStep[<<x, p>>] = x \o Encode(flag(x), p)
  BY DEF LineStep
<1>5. \A s \in Seq(Packets) : Line(s) = Along(LineStep, e, s)  BY Zenon DEF Line, e
<1>6. ASSUME NEW s \in Seq(Packets), NEW p \in Packets
      PROVE  Line(Append(s, p)) = Line(s) \o Encode(flag(Line(s)), p)
  <2> DEFINE x == Along(LineStep, e, s)
             more == Append(s, p)
  <2>1. x \in Seq(Byte) /\ Line(s) = x  BY <1>3, <1>5
  <2>2. more \in Seq(Packets)  BY AppendProperties
  <2>3. Along(LineStep, e, more) = LineStep[<<x, p>>]  BY <1>3
  <2>4. Line(more) = Along(LineStep, e, more)
    <3> HIDE DEF more
    <3> QED  BY <1>5, <2>2
  <2> HIDE DEF x, more, flag
  <2>5. LineStep[<<x, p>>] = x \o Encode(flag(x), p)  BY <1>4, <2>1
  <2> QED  BY <2>1, <2>3, <2>4, <2>5, Zenon DEF more
<1> QED  BY <1>3, <1>5, <1>6, Zenon DEF Line, e

\* What is written of a packet: a flag perhaps, its body, and a flag.
LEMMA Written ==
  ASSUME NEW flag \in BOOLEAN, NEW p \in Packets
  PROVE  \E h \in 0..1 :
           /\ h = IF flag THEN 1 ELSE 0
           /\ Encode(flag, p) \in Seq(Byte) /\ Len(Encode(flag, p)) = h + Len(Body(p)) + 1
           /\ h = 1 => Encode(flag, p)[1] = Flag
           /\ Encode(flag, p)[h + Len(Body(p)) + 1] = Flag
           /\ \A j \in 1..Len(Body(p)) : Encode(flag, p)[h + j] = Body(p)[j]
<1>1. CASE flag = TRUE
  <2> DEFINE x == Body(p)
             e == Encode(TRUE, p)
  <2>1. /\ e \in Seq(Byte) /\ Len(x) \in Nat /\ Len(e) = Len(x) + 2
        /\ e[1] = Flag /\ e[Len(x) + 2] = Flag /\ \A j \in 1..Len(x) : e[j + 1] = x[j]
    BY Shape, BodyIs
  <2>2. e = Encode(flag, p)  BY <1>1
  <2> HIDE DEF x, e
  <2>3. 1 + Len(x) + 1 = Len(x) + 2 /\ \A j \in 1..Len(x) : 1 + j = j + 1  BY <2>1
  <2> DEFINE h == 1
  <2>4. h \in 0..1 /\ h = IF flag THEN 1 ELSE 0  BY <1>1
  <2>5. /\ Len(e) = h + Len(x) + 1 /\ e[1] = Flag /\ e[h + Len(x) + 1] = Flag
        /\ \A j \in 1..Len(x) : e[h + j] = x[j]
    BY <2>1, <2>3
  <2> HIDE DEF h
  <2>6. /\ h = IF flag THEN 1 ELSE 0
        /\ e \in Seq(Byte) /\ Len(e) = h + Len(x) + 1 /\ (h = 1 => e[1] = Flag)
        /\ e[h + Len(x) + 1] = Flag /\ \A j \in 1..Len(x) : e[h + j] = x[j]
    BY <2>1, <2>4, <2>5, Zenon
  <2> QED  BY <2>2, <2>4, <2>6, Zenon DEF x
<1>2. CASE flag = FALSE
  <2> DEFINE x == Body(p)
             f == <<Flag>>
             e == Encode(flag, p)
             xf == x \o f
  <2>1. x \in Seq(Byte) /\ Len(x) \in Nat  BY Shape, BodyIs
  <2>2. f \in Seq(Byte) /\ Len(f) = 1 /\ f[1] = Flag  BY DEF Flag, Byte
  <2>3. e = (<< >> \o x) \o f  BY <1>2, Zenon DEF Encode
  <2>4. << >> \o x = x  BY <2>1, ConcatEmptySeq
  <2>5. e = xf  BY <2>3, <2>4, Zenon
  <2> HIDE DEF x, f, e
  <2>6. xf \in Seq(Byte) /\ Len(xf) = Len(x) + Len(f)  BY <2>1, <2>2, Joined
  <2>7. /\ \A i \in 1..Len(x) : xf[i] = x[i]
        /\ \A i \in 1..Len(f) : xf[Len(x) + i] = f[i]
    <3>1. x \in Seq(Byte) /\ f \in Seq(Byte)  BY <2>1, <2>2
    <3> QED  BY <3>1, Parts
  <2> HIDE DEF xf
  <2>8. xf[Len(x) + 1] = Flag
    <3>1. 1 \in 1..Len(f)  BY <2>2
    <3> QED  BY <2>2, <2>7, <3>1
  <2> DEFINE h == 0
  <2>9. h \in 0..1 /\ h # 1 /\ h = IF flag THEN 1 ELSE 0  BY <1>2
  <2>10. h + Len(x) + 1 = Len(x) + 1 /\ \A j \in 1..Len(x) : h + j = j  BY <2>1
  <2> HIDE DEF h
  <2>11. /\ Len(e) = h + Len(x) + 1 /\ e[h + Len(x) + 1] = Flag /\ e \in Seq(Byte)
         /\ \A j \in 1..Len(x) : e[h + j] = x[j]
    BY <2>2, <2>5, <2>6, <2>7, <2>8, <2>10
  <2> QED  BY <2>9, <2>11, Zenon DEF x, e
<1> QED  BY <1>1, <1>2

\* The line of one packet more: where the flag before its body is, and where its last byte is.
LEMMA LineGrows ==
  ASSUME NEW s \in Seq(Packets), NEW p \in Packets
  PROVE  LET o == Line(s)
             q == Line(Append(s, p))
         IN /\ o \in Seq(Byte) /\ q \in Seq(Byte) /\ \A i \in 1..Len(o) : q[i] = o[i]
            /\ q = o \o Encode(OwnFlags \/ o = << >>, p)
            /\ \E z \in Len(o)..Len(o) + 1 :
                 /\ Len(q) = z + Len(Body(p)) + 1 /\ q[Len(q)] = Flag
                 /\ z = Len(o) => Len(o) > 0
                 /\ z > Len(o) => q[z] = Flag
                 /\ \A j \in 1..Len(Body(p)) : q[z + j] = Body(p)[j]
<1> DEFINE o == Line(s)
           q == Line(Append(s, p))
           flag == OwnFlags \/ o = << >>
           e == Encode(flag, p)
           x == Body(p)
           l == Len(o)
<1>1. flag \in BOOLEAN /\ (flag = FALSE => o # << >>)  BY HdlcAssumption
<1>2. o \in Seq(Byte) /\ q \in Seq(Byte) /\ q = o \o e
  <2>1. Append(s, p) \in Seq(Packets)  BY AppendProperties
  <2>2. Line(s) \in Seq(Byte) /\ Line(Append(s, p)) \in Seq(Byte)  BY <2>1, LineMore
  <2>3. Line(Append(s, p)) = Line(s) \o Encode(OwnFlags \/ Line(s) = << >>, p)  BY LineMore
  <2> QED  BY <2>2, <2>3, Zenon
<1> HIDE DEF o, q
<1>3. Len(x) \in Nat \ {0}  BY BodyIs
<1>4. l \in Nat /\ (l = 0 => o = << >>)  BY <1>2, EmptySeq, LenProperties
<1> HIDE DEF flag
<1>5. \E h \in 0..1 :
        /\ h = IF flag THEN 1 ELSE 0
        /\ e \in Seq(Byte) /\ Len(e) = h + Len(x) + 1
        /\ h = 1 => e[1] = Flag
        /\ e[h + Len(x) + 1] = Flag
        /\ \A j \in 1..Len(x) : e[h + j] = x[j]
  BY <1>1, Written, Zenon
<1>6. PICK h \in 0..1 :
        /\ h = IF flag THEN 1 ELSE 0
        /\ e \in Seq(Byte) /\ Len(e) = h + Len(x) + 1
        /\ h = 1 => e[1] = Flag
        /\ e[h + Len(x) + 1] = Flag
        /\ \A j \in 1..Len(x) : e[h + j] = x[j]
  BY <1>5, Zenon
<1> DEFINE z == l + h
<1> HIDE DEF e, x
<1>7. Len(q) = l + Len(e)  BY <1>2, <1>6, Joined
<1>8. /\ \A i \in 1..l : q[i] = o[i]
      /\ \A i \in 1..Len(e) : q[l + i] = e[i]
  BY <1>2, <1>6, Parts
<1> HIDE DEF l
<1>9. z \in l..l + 1 /\ Len(q) = z + Len(x) + 1 /\ (z = l => l > 0)  BY <1>1, <1>3, <1>4, <1>6, <1>7
<1>10. q[Len(q)] = Flag
  <2>1. Len(e) \in 1..Len(e) /\ Len(e) = h + Len(x) + 1  BY <1>3, <1>6
  <2> QED  BY <1>6, <1>7, <1>8, <2>1
<1>11. z > l => q[z] = Flag
  <2>1. z > l => h = 1 /\ z = l + 1 /\ 1 \in 1..Len(e)  BY <1>3, <1>4, <1>6
  <2> QED  BY <1>6, <1>8, <2>1
<1>12. ASSUME NEW j \in 1..Len(x) PROVE q[z + j] = x[j]
  <2>1. z + j = l + (h + j) /\ h + j \in 1..Len(e)  BY <1>3, <1>4, <1>6
  <2> QED  BY <1>6, <1>8, <2>1
<1> HIDE DEF z
<1>13. z \in l..l + 1 /\ Len(q) = z + Len(x) + 1 /\ q[Len(q)] = Flag
       /\ (z = l => l > 0) /\ (z > l => q[z] = Flag) /\ \A j \in 1..Len(x) : q[z + j] = x[j]
  BY <1>9, <1>10, <1>11, <1>12
<1> QED  BY <1>2, <1>8, <1>13, Zenon DEF x, l, e, flag, o, q

\* Where the frame of the j-th packet ends.
End(s, j) == Len(Line(SubSeq(s, 1, j)))

\* It does not move when a packet more is sent.
LEMMA EndStays ==
  ASSUME NEW s \in Seq(Packets), NEW p \in Packets
  PROVE  /\ \A j \in 0..Len(s) : End(Append(s, p), j) = End(s, j) /\ End(s, j) \in Nat
         /\ End(s, Len(s)) = Len(Line(s)) /\ End(Append(s, p), Len(s) + 1) = Len(Line(Append(s, p)))
<1> DEFINE t == Append(s, p)
           l == Len(s)
<1>1. t \in Seq(Packets) /\ l \in Nat /\ Len(t) = l + 1 /\ \A i \in 1..l : t[i] = s[i]
  BY AppendProperties, LenProperties
<1> HIDE DEF t
<1>2. ASSUME NEW j \in 0..l PROVE SubSeq(t, 1, j) = SubSeq(s, 1, j) /\ SubSeq(s, 1, j) \in Seq(Packets)
  <2> DEFINE a == SubSeq(t, 1, j)
             b == SubSeq(s, 1, j)
  <2>1. 1 \in Nat \ {0} /\ j \in Nat /\ j <= Len(t) /\ j <= Len(s)  BY <1>1
  <2>2. /\ a \in Seq(Packets) /\ Len(a) = IF 1 <= j THEN j - 1 + 1 ELSE 0
        /\ \A k \in 1..j - 1 + 1 : a[k] = t[1 + k - 1]
    BY <1>1, <2>1, Sub
  <2>3. /\ b \in Seq(Packets) /\ Len(b) = IF 1 <= j THEN j - 1 + 1 ELSE 0
        /\ \A k \in 1..j - 1 + 1 : b[k] = s[1 + k - 1]
    BY <2>1, Sub
  <2> HIDE DEF a, b
  <2>4. Len(a) = j /\ Len(b) = j /\ j - 1 + 1 = j /\ \A k \in 1..j : 1 + k - 1 = k /\ k \in 1..l
    BY <1>1, <2>1, <2>2, <2>3
  <2>5. \A k \in 1..j : a[k] = b[k]  BY <1>1, <2>2, <2>3, <2>4
  <2>6. a = b  BY <2>2, <2>3, <2>4, <2>5, SeqEqual
  <2> QED  BY <2>3, <2>6 DEF a, b
<1>3. ASSUME NEW j \in 0..l PROVE End(t, j) = End(s, j) /\ End(s, j) \in Nat
  <2> DEFINE b == SubSeq(s, 1, j)
  <2>1. SubSeq(t, 1, j) = b /\ b \in Seq(Packets)  BY <1>2
  <2> HIDE DEF b
  <2>2. Line(b) \in Seq(Byte)  BY <2>1, LineMore
  <2>3. Len(Line(b)) \in Nat  BY <2>2, LenProperties
  <2> QED  BY <2>1, <2>3 DEF End, b
<1>4. SubSeq(s, 1, l) = s /\ SubSeq(t, 1, l + 1) = t  BY <1>1, SubSeqFull
<1> QED  BY <1>3, <1>4, Zenon DEF End, t, l

\* The line ends with a flag, the frames end one behind the other, and what lies between two
\* flags is the body of a packet.
Framing(s) ==
  /\ Len(Line(s)) = 0 \/ Line(s)[Len(Line(s))] = Flag
  /\ \A i, j \in 0..Len(s) : i <= j => End(s, i) <= End(s, j)
  /\ \A a, b \in 1..Len(Line(s)) : Framed(Line(s), a, b) =>
       \E j \in 1..Len(s) :
         /\ b = End(s, j) /\ b = a + Len(Body(s[j])) + 1
         /\ \A k \in 1..Len(Body(s[j])) : Line(s)[a + k] = Body(s[j])[k]

\* One packet more.
LEMMA FramingMore ==
  ASSUME NEW s \in Seq(Packets), NEW p \in Packets, Framing(s)
  PROVE  Framing(Append(s, p))
<1> DEFINE t == Append(s, p)
           o == Line(s)
           q == Line(t)
           l == Len(s)
           L == Len(o)
           x == Body(p)
           c == Len(x)
<1>1. PICK z \in L..L + 1 :
        /\ Len(q) = z + c + 1 /\ q[Len(q)] = Flag
        /\ z = L => L > 0
        /\ z > L => q[z] = Flag
        /\ \A j \in 1..c : q[z + j] = x[j]
  BY LineGrows, Zenon
<1>2. /\ o \in Seq(Byte) /\ q \in Seq(Byte) /\ \A i \in 1..L : q[i] = o[i]
  BY LineGrows, Zenon
<1>3. l \in Nat /\ L \in Nat /\ c \in Nat \ {0} /\ \A k \in 1..c : x[k] # Flag
  BY <1>2, LenProperties, BodyIs
<1>4. t \in Seq(Packets) /\ Len(t) = l + 1 /\ t[l + 1] = p /\ \A i \in 1..l : t[i] = s[i]
  BY AppendProperties
<1>5. /\ \A j \in 0..l : End(t, j) = End(s, j) /\ End(s, j) \in Nat
      /\ End(s, l) = L /\ End(t, l + 1) = Len(q)
  BY EndStays, Zenon
<1>6. /\ L = 0 \/ o[L] = Flag
      /\ \A i, j \in 0..l : i <= j => End(s, i) <= End(s, j)
      /\ \A a, b \in 1..L : Framed(o, a, b) =>
           \E j \in 1..l :
             /\ b = End(s, j) /\ b = a + Len(Body(s[j])) + 1
             /\ \A k \in 1..Len(Body(s[j])) : o[a + k] = Body(s[j])[k]
  BY Zenon DEF Framing
<1> HIDE DEF t, o, q, x, c
<1>7. q[z] = Flag /\ z \in Nat \ {0}
  <2>1. CASE z = L  BY <1>1, <1>2, <1>3, <1>6, <2>1
  <2>2. CASE z > L  BY <1>1, <1>3, <2>2
  <2> QED  BY <1>1, <1>3, <2>1, <2>2
<1>8. ASSUME NEW i \in 0..l + 1, NEW j \in 0..l + 1, i <= j PROVE End(t, i) <= End(t, j)
  <2> HIDE DEF l, L
  <2>1. CASE j <= l
    <3>1. i \in 0..l /\ j \in 0..l  BY <1>3, <1>8, <2>1
    <3> QED  BY <1>5, <1>6, <1>8, <3>1
  <2>2. CASE i <= l /\ j = l + 1
    <3>1. i \in 0..l /\ l \in 0..l /\ i <= l  BY <1>3, <2>2
    <3>2. End(s, i) <= End(s, l)  BY <1>6, <3>1
    <3>3. End(t, i) \in Nat /\ End(t, i) <= L  BY <1>5, <3>1, <3>2
    <3>4. L <= Len(q)  BY <1>1, <1>3
    <3>5. End(t, j) = Len(q)  BY <1>5, <2>2
    <3> DEFINE u == End(t, i)
               v == Len(q)
    <3> HIDE DEF u, v
    <3>6. u \in Nat /\ u <= L /\ L <= v /\ v \in Int  BY <1>1, <1>3, <3>3, <3>4 DEF u, v
    <3>7. u <= v  BY <1>3, <3>6
    <3> QED  BY <3>5, <3>7 DEF u, v
  <2>3. CASE i = l + 1 /\ j = l + 1
    <3>1. Len(q) \in Int  BY <1>1, <1>3
    <3> QED  BY <1>5, <2>3, <3>1
  <2> QED  BY <1>3, <1>8, <2>1, <2>2, <2>3
<1>9. ASSUME NEW a \in 1..Len(q), NEW b \in 1..Len(q), Framed(q, a, b)
      PROVE  \E j \in 1..l + 1 :
               /\ b = End(t, j) /\ b = a + Len(Body(t[j])) + 1
               /\ \A k \in 1..Len(Body(t[j])) : q[a + k] = Body(t[j])[k]
  <2> HIDE DEF l, L
  <2>1. q[a] = Flag /\ q[b] = Flag /\ a + 1 < b /\ \A k \in a + 1..b - 1 : q[k] # Flag
    BY <1>9 DEF Framed
  <2>2. CASE b <= L
    <3>1. a \in 1..L /\ b \in 1..L  BY <1>1, <1>3, <2>1, <2>2
    <3>2. \A k \in a + 1..b - 1 : k \in 1..L  BY <1>3, <3>1
    <3>3. o[a] = Flag /\ o[b] = Flag /\ \A k \in a + 1..b - 1 : o[k] # Flag  BY <1>2, <2>1, <3>1, <3>2
    <3>4. Framed(o, a, b)  BY <2>1, <3>3 DEF Framed
    <3>5. PICK j \in 1..l :
            /\ b = End(s, j) /\ b = a + Len(Body(s[j])) + 1
            /\ \A k \in 1..Len(Body(s[j])) : o[a + k] = Body(s[j])[k]
      BY <1>6, <3>1, <3>4
    <3>6. j \in 0..l /\ j \in 1..l + 1 /\ t[j] = s[j]  BY <1>3, <1>4
    <3>7. b = End(t, j)  BY <1>5, <3>5, <3>6
    <3> DEFINE y == Body(s[j])
               d == Len(y)
    <3>8. d \in Nat
      <4>1. s[j] \in Packets  BY ElementOfSeq DEF l
      <4> QED  BY <4>1, BodyIs
    <3>9. b = a + d + 1 /\ \A k \in 1..d : o[a + k] = y[k]  BY <3>5
    <3>10. Body(t[j]) = y  BY <3>6
    <3> HIDE DEF y, d
    <3>11. \A k \in 1..d : a + k \in 1..L  BY <1>3, <3>1, <3>8, <3>9
    <3>12. \A k \in 1..d : q[a + k] = y[k]  BY <1>2, <3>9, <3>11
    <3> QED  BY <3>6, <3>7, <3>9, <3>10, <3>12 DEF d
  <2>3. CASE ~(b <= L)
    <3>1. b # z
      <4>1. SUFFICES ASSUME b = z PROVE FALSE
        OBVIOUS
      <4>2. z = L + 1  BY <1>1, <1>3, <2>3, <4>1
      <4>3. L \in a + 1..b - 1 /\ L > 0  BY <1>3, <2>1, <4>1, <4>2
      <4>4. q[L] = Flag  BY <1>2, <1>3, <1>6, <4>3
      <4> QED  BY <2>1, <4>3, <4>4
    <3>2. ~(b > z /\ b < Len(q))
      <4>1. SUFFICES ASSUME b > z, b < Len(q) PROVE FALSE
        OBVIOUS
      <4>2. b - z \in 1..c /\ z + (b - z) = b  BY <1>1, <1>3, <4>1
      <4> QED  BY <1>1, <1>3, <2>1, <4>2
    <3>3. b = Len(q)  BY <1>1, <1>3, <2>3, <3>1, <3>2
    <3>4. ~(a > z)
      <4>1. SUFFICES ASSUME a > z PROVE FALSE
        OBVIOUS
      <4>2. a - z \in 1..c /\ z + (a - z) = a  BY <1>1, <1>3, <2>1, <3>3, <4>1
      <4> QED  BY <1>1, <1>3, <2>1, <4>2
    <3>5. ~(a < z)
      <4>1. SUFFICES ASSUME a < z PROVE FALSE
        OBVIOUS
      <4>2. z \in a + 1..b - 1  BY <1>1, <1>3, <3>3, <4>1
      <4> QED  BY <1>7, <2>1, <4>2
    <3>6. a = z  BY <1>1, <1>3, <3>4, <3>5
    <3> DEFINE j == l + 1
    <3>7. j \in 1..l + 1 /\ t[j] = p /\ b = End(t, j)  BY <1>3, <1>4, <1>5, <3>3
    <3> HIDE DEF j
    <3>8. b = a + c + 1 /\ \A k \in 1..c : q[a + k] = x[k]  BY <1>1, <3>3, <3>6
    <3>9. Body(t[j]) = x  BY <3>7 DEF x
    <3> QED  BY <3>7, <3>8, <3>9 DEF c
  <2> QED  BY <2>2, <2>3
<1>10. Len(t) = l + 1 /\ q[Len(q)] = Flag  BY <1>1, <1>4
<1> HIDE DEF l
<1>11. ASSUME NEW i \in 0..Len(t), NEW j \in 0..Len(t), i <= j PROVE End(t, i) <= End(t, j)
  BY <1>8, <1>10, <1>11
<1>12. ASSUME NEW a \in 1..Len(q), NEW b \in 1..Len(q), Framed(q, a, b)
       PROVE  \E j \in 1..Len(t) :
                /\ b = End(t, j) /\ b = a + Len(Body(t[j])) + 1
                /\ \A k \in 1..Len(Body(t[j])) : q[a + k] = Body(t[j])[k]
  <2>1. PICK j \in 1..l + 1 :
          /\ b = End(t, j) /\ b = a + Len(Body(t[j])) + 1
          /\ \A k \in 1..Len(Body(t[j])) : q[a + k] = Body(t[j])[k]
    BY <1>9, <1>12, Zenon
  <2>2. j \in 1..Len(t)  BY <1>10
  <2> QED  BY <2>1, <2>2, Zenon
<1>13. Framing(t)  BY <1>10, <1>11, <1>12, Zenon DEF Framing, q
<1> QED  BY <1>13 DEF t

\* So it is for any packets.
LEMMA FramesAre ==
  ASSUME NEW s \in Seq(Packets)
  PROVE  Framing(s)
<1> DEFINE T == {r \in Seq(Packets) : Framing(r)}
<1>1. << >> \in T
  <2> DEFINE e == << >>
  <2>1. e \in Seq(Packets) /\ Len(e) = 0 /\ SubSeq(e, 1, 0) = e  BY SubSeqEmpty
  <2>2. Line(e) = e  BY LineMore
  <2> HIDE DEF e
  <2>3. End(e, 0) = 0  BY <2>1, <2>2 DEF End
  <2>4. \A i, j \in 0..0 : i = 0 /\ j = 0  OBVIOUS
  <2>5. \A a, b \in 1..0 : FALSE  OBVIOUS
  <2>6. Framing(e)  BY <2>1, <2>2, <2>3, <2>4, <2>5 DEF Framing
  <2> QED  BY <2>1, <2>6 DEF e
<1>2. \A r \in Seq(Packets), d \in Packets : r \in T => Append(r, d) \in T
  BY FramingMore, AppendProperties
<1> HIDE DEF T
<1>3. Seq(Packets) \subseteq T  BY <1>1, <1>2, SeqInduction
<1> QED  BY <1>3 DEF T

-----------------------------------------------------------------------------
(* What the line makes of it                                               *)

\* The bytes at some places, and what they are garbled to.
Garbling(g, P) == g \in [P -> Garbage]

\* Replacing them leaves the others as they are.
Replaced(o, P, g) ==
  /\ Patched(o, g) \in Seq(Byte) /\ Len(Patched(o, g)) = Len(o)
  /\ \A k \in 1..Len(o) : /\ k \in P => Patched(o, g)[k] = g[k]
                          /\ k \notin P => Patched(o, g)[k] = o[k]

\* What becomes of the line.
LEMMA PatchedIs ==
  ASSUME NEW o \in Seq(Byte), NEW P, P \subseteq 1..Len(o), NEW g, Garbling(g, P)
  PROVE  Replaced(o, P, g)
<1> DEFINE t == Patched(o, g)
           l == Len(o)
<1>1. l \in Nat /\ DOMAIN o = 1..l /\ DOMAIN g = P /\ \A k \in 1..l : o[k] \in Byte
  BY LenProperties, ElementOfSeq DEF Garbling
<1>2. \A k \in P : g[k] \in Byte  BY HdlcAssumption DEF Garbling
<1> HIDE DEF l
<1>3. t = [k \in 1..l |-> IF k \in P THEN g[k] ELSE o[k]]  BY <1>1, Zenon DEF Patched
<1> HIDE DEF t
<1>4. t \in [1..l -> Byte]  BY <1>1, <1>2, <1>3
<1>5. t \in Seq(Byte) /\ Len(t) = l  BY <1>1, <1>4, IsASeq, LenProperties
<1> QED  BY <1>3, <1>5 DEF t, l, Replaced

\* Up to n places: they are places, more of them are allowed where more are, or on a longer
\* line, and another is one more.
LEMMA PlacesIn ==
  ASSUME NEW o \in Seq(Byte), NEW n \in Nat, NEW P \in Places(o, n)
  PROVE  P \subseteq 1..Len(o)
<1>1. DOMAIN o = 1..Len(o)  BY LenProperties
<1> QED  BY <1>1 DEF Places

\* Where more are allowed.
LEMMA PlacesOfMore ==
  ASSUME NEW o \in Seq(Byte), NEW n \in Nat, NEW m \in Nat, n <= m, NEW P \in Places(o, n)
  PROVE  P \in Places(o, m)
<1> DEFINE D == DOMAIN o
<1>1. CASE P = {}  BY <1>1 DEF Places
<1>2. CASE P # {}
  <2>1. PICK at \in [1..n -> D] : P = {at[k] : k \in 1..n}  BY <1>2 DEF Places
  <2>2. 1 \in 1..n /\ \A k \in 1..n : k \in 1..m  BY <1>2, <2>1
  <2> DEFINE b == [k \in 1..m |-> IF k <= n THEN at[k] ELSE at[1]]
  <2> HIDE DEF D
  <2>3. b \in [1..m -> D]
    <3>1. \A k \in 1..m : k <= n => k \in 1..n  OBVIOUS
    <3> QED  BY <2>1, <2>2, <3>1
  <2>4. P = {b[k] : k \in 1..m}
    <3>1. ASSUME NEW k \in 1..m PROVE b[k] \in P
      <4>1. CASE k <= n
        <5>1. k \in 1..n /\ b[k] = at[k]  BY <4>1
        <5> QED  BY <2>1, <5>1
      <4>2. CASE ~(k <= n)
        <5>1. b[k] = at[1]  BY <4>2
        <5> QED  BY <2>1, <2>2, <5>1
      <4> QED  BY <4>1, <4>2
    <3>2. ASSUME NEW x \in P PROVE \E k \in 1..m : x = b[k]
      <4>1. PICK k \in 1..n : x = at[k]  BY <2>1
      <4>2. k \in 1..m /\ b[k] = at[k]  BY <2>2
      <4> QED  BY <4>1, <4>2
    <3> HIDE DEF b
    <3> QED  BY <3>1, <3>2
  <2> HIDE DEF b
  <2> QED  BY <2>3, <2>4 DEF Places, D
<1> QED  BY <1>1, <1>2

\* Another one.
LEMMA PlacesAnd ==
  ASSUME NEW o \in Seq(Byte), NEW n \in Nat, NEW P \in Places(o, n), NEW i \in 1..Len(o)
  PROVE  P \cup {i} \in Places(o, n + 1)
<1> DEFINE D == DOMAIN o
           m == n + 1
<1>0. i \in D /\ m \in Nat /\ m \in 1..m /\ \A k \in 1..n : k \in 1..m /\ k # m  BY LenProperties
<1> HIDE DEF D
<1>1. CASE P = {}
  <2> DEFINE b == [k \in 1..m |-> i]
  <2>1. b \in [1..m -> D]  BY <1>0
  <2>2. {b[k] : k \in 1..m} = {i}
    <3>1. \A k \in 1..m : b[k] = i  OBVIOUS
    <3> HIDE DEF b
    <3> QED  BY <1>0, <3>1
  <2>3. P \cup {i} = {b[k] : k \in 1..m}
    <3>1. P \cup {i} = {i}  BY <1>1
    <3> QED  BY <2>2, <3>1, Zenon
  <2> HIDE DEF b
  <2> QED  BY <2>1, <2>3, ZenonT(40) DEF Places, D
<1>2. CASE P # {}
  <2>1. PICK at \in [1..n -> D] : P = {at[k] : k \in 1..n}  BY <1>2 DEF Places, D
  <2> DEFINE b == [k \in 1..m |-> IF k = m THEN i ELSE at[k]]
  <2>2. b \in [1..m -> D]
    <3>1. \A k \in 1..m : k # m => k \in 1..n  OBVIOUS
    <3> QED  BY <1>0, <2>1, <3>1
  <2>3. P \cup {i} = {b[k] : k \in 1..m}
    <3>1. ASSUME NEW k \in 1..m PROVE b[k] \in P \cup {i}
      <4>1. k # m => k \in 1..n  OBVIOUS
      <4> QED  BY <2>1, <4>1
    <3>2. ASSUME NEW x \in P \cup {i} PROVE \E k \in 1..m : x = b[k]
      <4>1. CASE x = i  BY <1>0, <4>1
      <4>2. CASE x \in P
        <5>1. PICK k \in 1..n : x = at[k]  BY <2>1, <4>2
        <5>2. k \in 1..m /\ b[k] = at[k]  BY <1>0
        <5> QED  BY <5>1, <5>2
      <4> QED  BY <4>1, <4>2
    <3> HIDE DEF b
    <3> QED  BY <3>1, <3>2
  <2> HIDE DEF b
  <2> QED  BY <2>2, <2>3 DEF Places, D
<1> QED  BY <1>1, <1>2

\* On a longer line.
LEMMA PlacesLonger ==
  ASSUME NEW o \in Seq(Byte), NEW q \in Seq(Byte), Len(o) <= Len(q), NEW n \in Nat,
         NEW P \in Places(o, n)
  PROVE  P \in Places(q, n)
<1>1. DOMAIN o = 1..Len(o) /\ DOMAIN q = 1..Len(q) /\ Len(o) \in Nat /\ Len(q) \in Nat
  BY LenProperties
<1>2. DOMAIN o \subseteq DOMAIN q  BY <1>1
<1>3. CASE P = {}  BY <1>3 DEF Places
<1>4. CASE P # {}
  <2>1. PICK at \in [1..n -> DOMAIN o] : P = {at[k] : k \in 1..n}  BY <1>4 DEF Places
  <2>2. at \in [1..n -> DOMAIN q]  BY <1>2
  <2> QED  BY <2>1, <2>2 DEF Places
<1> QED  BY <1>3, <1>4

\* The packets of c are among the first j of s, in their order.
Among(c, s, j) ==
  \E k \in [1..Len(c) -> 1..j] : /\ \A h, i \in 1..Len(c) : h < i => k[h] < k[i]
                                 /\ \A i \in 1..Len(c) : c[i] = s[k[i]]

\* One more of them, from behind the first j.
LEMMA AmongMore ==
  ASSUME NEW c \in Seq(Seq(Byte)), NEW s, NEW j \in Nat, Among(c, s, j),
         NEW m \in Nat, j < m, NEW d \in Seq(Byte), d = s[m]
  PROVE  Among(Append(c, d), s, m)
<1> DEFINE e == Append(c, d)
           l == Len(c)
<1>1. l \in Nat /\ Len(e) = l + 1 /\ e[l + 1] = d /\ \A i \in 1..l : e[i] = c[i]
  BY AppendProperties, LenProperties
<1>2. PICK k \in [1..l -> 1..j] : /\ \A h, i \in 1..l : h < i => k[h] < k[i]
                                  /\ \A i \in 1..l : c[i] = s[k[i]]
  BY DEF Among
<1> HIDE DEF e, l
<1> DEFINE q == [i \in 1..l + 1 |-> IF i = l + 1 THEN m ELSE k[i]]
<1>3. \A i \in 1..l + 1 : i # l + 1 => i \in 1..l  BY <1>1
<1>4. \A i \in 1..l : k[i] \in 1..j /\ k[i] \in 1..m /\ k[i] < m
  <2>1. ASSUME NEW i \in 1..l PROVE k[i] \in 1..j  BY <1>2
  <2>2. \A v \in 1..j : v \in 1..m /\ v < m  OBVIOUS
  <2> QED  BY <2>1, <2>2
<1>5. q \in [1..l + 1 -> 1..m]
  <2>1. m \in 1..m  OBVIOUS
  <2> QED  BY <1>3, <1>4, <2>1
<1>6. q[l + 1] = m /\ \A i \in 1..l : q[i] = k[i]  BY <1>1
<1> HIDE DEF q
<1>7. ASSUME NEW h \in 1..l + 1, NEW i \in 1..l + 1, h < i PROVE q[h] < q[i]
  <2>1. h \in 1..l  BY <1>1, <1>7
  <2>2. CASE i = l + 1  BY <1>4, <1>6, <2>1, <2>2
  <2>3. CASE i # l + 1
    <3>1. i \in 1..l  BY <1>3, <2>3
    <3> QED  BY <1>2, <1>6, <1>7, <2>1, <3>1
  <2> QED  BY <2>2, <2>3
<1>8. ASSUME NEW i \in 1..l + 1 PROVE e[i] = s[q[i]]
  <2>1. CASE i = l + 1  BY <1>1, <1>6, <2>1
  <2>2. CASE i # l + 1
    <3>1. i \in 1..l  BY <1>3, <2>2
    <3> QED  BY <1>1, <1>2, <1>6, <3>1
  <2> QED  BY <2>1, <2>2
<1>9. Among(e, s, m)
  <2> DEFINE n == l + 1
  <2>1. /\ q \in [1..n -> 1..m] /\ \A h, i \in 1..n : h < i => q[h] < q[i]
        /\ \A i \in 1..n : e[i] = s[q[i]]
    BY <1>5, <1>7, <1>8
  <2>2. n = Len(e)  BY <1>1
  <2> HIDE DEF n
  <2> QED  BY <2>1, <2>2 DEF Among
<1> QED  BY <1>9 DEF e

\* They are a subsequence.
LEMMA AmongAll ==
  ASSUME NEW c \in Seq(Seq(Byte)), NEW s \in Seq(Packets), NEW j \in 0..Len(s), Among(c, s, j)
  PROVE  Subsequence(c, s)
<1>1. DOMAIN c = 1..Len(c) /\ DOMAIN s = 1..Len(s) /\ Len(s) \in Nat  BY LenProperties
<1>2. PICK k \in [1..Len(c) -> 1..j] : /\ \A h, i \in 1..Len(c) : h < i => k[h] < k[i]
                                       /\ \A i \in 1..Len(c) : c[i] = s[k[i]]
  BY DEF Among
<1>3. 1..j \subseteq 1..Len(s)  BY <1>1
<1>4. k \in [DOMAIN c -> DOMAIN s]  BY <1>1, <1>2, <1>3
<1> QED  BY <1>1, <1>2, <1>4 DEF Subsequence

-----------------------------------------------------------------------------
(* What the reader has yet to search                                       *)

\* The stream S is what is left of the line behind its first u bytes, garbled.
Remains(s, S, u, g) ==
  Len(Line(s)) = u + Len(S) /\ \A k \in 1..Len(S) : S[k] = Patched(Line(s), g)[u + k]

\* It is garbled at up to f places, and where no more than n are, the packets of c are of frames
\* that end before.
Left(s, S, c, f, n, u, g) ==
  /\ Remains(s, S, u, g)
  /\ f <= n => \E j \in 0..Len(s) : End(s, j) <= u /\ Among(c, s, j)
Trail(s, S, c, f, n) ==
  \E u \in 0..Len(Line(s)) : \E P \in Places(Line(s), f) : \E g :
    Garbling(g, P) /\ Left(s, S, c, f, n, u, g)

\* A packet more is sent.
LEMMA TrailWrite ==
  ASSUME NEW s \in Seq(Packets), NEW S \in Seq(Byte), NEW c, NEW f \in Nat, NEW n \in Nat,
         Trail(s, S, c, f, n), NEW p \in Packets
  PROVE  Trail(Append(s, p), S \o Encode(OwnFlags \/ Line(s) = << >>, p), c, f, n)
<1> DEFINE o == Line(s)
           r == Append(s, p)
           q == Line(r)
           e == Encode(OwnFlags \/ o = << >>, p)
           R == S \o e
           L == Len(o)
<1>1. PICK u \in 0..L : \E P \in Places(o, f) : \E g : Garbling(g, P) /\ Left(s, S, c, f, n, u, g)
  BY DEF Trail
<1>2. PICK P \in Places(o, f) : \E g : Garbling(g, P) /\ Left(s, S, c, f, n, u, g)  BY <1>1
<1>3. PICK g : Garbling(g, P) /\ Left(s, S, c, f, n, u, g)  BY <1>2
<1>4. /\ L = u + Len(S) /\ \A k \in 1..Len(S) : S[k] = Patched(o, g)[u + k]
      /\ f <= n => \E j \in 0..Len(s) : End(s, j) <= u /\ Among(c, s, j)
  BY <1>3 DEF Left, Remains
<1>5. o \in Seq(Byte) /\ q \in Seq(Byte) /\ q = o \o e  BY LineGrows, Zenon
<1>6. e \in Seq(Byte)
  <2> DEFINE b == OwnFlags \/ o = << >>
  <2>1. b \in BOOLEAN  OBVIOUS
  <2> HIDE DEF b
  <2>2. Encode(b, p) \in Seq(Byte)  BY <2>1, Encoded
  <2> QED  BY <2>2 DEF b
<1>7. r \in Seq(Packets) /\ Len(r) = Len(s) + 1 /\ Len(s) \in Nat /\ \A i \in 1..Len(s) : r[i] = s[i]
  BY AppendProperties, LenProperties
<1>8. \A j \in 0..Len(s) : End(r, j) = End(s, j)  BY EndStays, Zenon
<1> HIDE DEF o, r, q, e
<1>9. L \in Nat /\ Len(e) \in Nat /\ Len(S) \in Nat /\ Len(q) = L + Len(e)
      /\ (\A i \in 1..L : q[i] = o[i]) /\ (\A i \in 1..Len(e) : q[L + i] = e[i])
  BY <1>5, <1>6, Joined, Parts, LenProperties
<1>10. /\ R \in Seq(Byte) /\ Len(R) = Len(S) + Len(e)
       /\ (\A i \in 1..Len(S) : R[i] = S[i]) /\ (\A i \in 1..Len(e) : R[Len(S) + i] = e[i])
  BY <1>6, Joined, Parts
<1> HIDE DEF R
<1>11. P \subseteq 1..L /\ P \subseteq 1..Len(q)
  <2>1. P \subseteq 1..L  BY <1>5, PlacesIn
  <2>2. \A i \in 1..L : i \in 1..Len(q)  BY <1>9
  <2> QED  BY <2>1, <2>2
<1>12. /\ \A k \in 1..L : (k \in P => Patched(o, g)[k] = g[k]) /\ (k \notin P => Patched(o, g)[k] = o[k])
       /\ \A k \in 1..Len(q) : (k \in P => Patched(q, g)[k] = g[k]) /\ (k \notin P => Patched(q, g)[k] = q[k])
  <2>1. o \in Seq(Byte) /\ q \in Seq(Byte) /\ P \subseteq 1..Len(o) /\ P \subseteq 1..Len(q) /\ Garbling(g, P)
    BY <1>3, <1>5, <1>11
  <2>4. Replaced(o, P, g) /\ Replaced(q, P, g)  BY <2>1, PatchedIs
  <2>2. \A k \in 1..Len(o) : (k \in P => Patched(o, g)[k] = g[k]) /\ (k \notin P => Patched(o, g)[k] = o[k])
    BY <2>4, Zenon DEF Replaced
  <2>3. \A k \in 1..Len(q) : (k \in P => Patched(q, g)[k] = g[k]) /\ (k \notin P => Patched(q, g)[k] = q[k])
    BY <2>4, Zenon DEF Replaced
  <2> QED  BY <2>2, <2>3
<1>13. ASSUME NEW k \in 1..Len(R) PROVE R[k] = Patched(q, g)[u + k]
  <2> HIDE DEF L
  <2>1. CASE k <= Len(S)
    <3>1. k \in 1..Len(S) /\ u + k \in 1..L /\ u + k \in 1..Len(q)  BY <1>4, <1>9, <2>1
    <3>2. Patched(q, g)[u + k] = Patched(o, g)[u + k]  BY <1>9, <1>12, <3>1
    <3> QED  BY <1>4, <1>10, <3>1, <3>2
  <2>2. CASE ~(k <= Len(S))
    <3> DEFINE i == k - Len(S)
    <3>1. i \in 1..Len(e) /\ u + k \in 1..Len(q) /\ u + k = L + i /\ k = Len(S) + i /\ ~(u + k \in 1..L)
      BY <1>4, <1>9, <1>10, <2>2
    <3> HIDE DEF i
    <3>2. Patched(q, g)[u + k] = q[u + k]
      <4>1. u + k \notin P  BY <1>11, <3>1
      <4> QED  BY <1>12, <3>1, <4>1
    <3>3. q[u + k] = e[i] /\ R[k] = e[i]  BY <1>9, <1>10, <3>1
    <3> QED  BY <3>2, <3>3
  <2> QED  BY <2>1, <2>2
<1>14. Len(q) = u + Len(R) /\ u \in 0..Len(q) /\ L <= Len(q)  BY <1>4, <1>9, <1>10
<1>15. f <= n => \E j \in 0..Len(r) : End(r, j) <= u /\ Among(c, r, j)
  <2> SUFFICES ASSUME f <= n PROVE \E j \in 0..Len(r) : End(r, j) <= u /\ Among(c, r, j)
    OBVIOUS
  <2>1. PICK j \in 0..Len(s) : End(s, j) <= u /\ Among(c, s, j)  BY <1>4
  <2>2. j \in 0..Len(r) /\ End(r, j) <= u  BY <1>7, <1>8, <2>1
  <2>3. Among(c, r, j)
    <3>1. PICK k \in [1..Len(c) -> 1..j] : /\ \A h, i \in 1..Len(c) : h < i => k[h] < k[i]
                                           /\ \A i \in 1..Len(c) : c[i] = s[k[i]]
      BY <2>1 DEF Among
    <3>2. \A v \in 1..j : v \in 1..Len(s)  BY <1>7
    <3>3. \A i \in 1..Len(c) : k[i] \in 1..j  BY <3>1
    <3>4. \A i \in 1..Len(c) : c[i] = r[k[i]]  BY <1>7, <3>1, <3>2, <3>3
    <3> QED  BY <3>1, <3>4 DEF Among
  <2> QED  BY <2>2, <2>3
<1>16. Left(r, R, c, f, n, u, g)  BY <1>13, <1>14, <1>15, Zenon DEF Left, Remains, q
<1>17. P \in Places(q, f)  BY <1>2, <1>5, <1>14, PlacesLonger
<1>18. Trail(r, R, c, f, n)  BY <1>3, <1>14, <1>16, <1>17, Zenon DEF Trail, q
<1> QED  BY <1>18, Zenon DEF r, R, e, o

\* A byte is garbled.
LEMMA TrailGarble ==
  ASSUME NEW s \in Seq(Packets), NEW S \in Seq(Byte), NEW c, NEW f \in Nat, NEW n \in Nat,
         Trail(s, S, c, f, n), NEW T \in Seq(Byte), Len(T) = Len(S), NEW i \in 1..Len(S),
         T[i] \in Garbage, \A k \in 1..Len(S) : k # i => T[k] = S[k]
  PROVE  Trail(s, T, c, f + 1, n)
<1> DEFINE o == Line(s)
           L == Len(o)
<1>1. PICK u \in 0..L : \E P \in Places(o, f) : \E g : Garbling(g, P) /\ Left(s, S, c, f, n, u, g)
  BY DEF Trail
<1>2. PICK P \in Places(o, f) : \E g : Garbling(g, P) /\ Left(s, S, c, f, n, u, g)  BY <1>1
<1>3. PICK g : Garbling(g, P) /\ Left(s, S, c, f, n, u, g)  BY <1>2
<1>4. /\ L = u + Len(S) /\ \A k \in 1..Len(S) : S[k] = Patched(o, g)[u + k]
      /\ f <= n => \E j \in 0..Len(s) : End(s, j) <= u /\ Among(c, s, j)
  BY <1>3 DEF Left, Remains
<1>5. o \in Seq(Byte) /\ L \in Nat /\ Len(S) \in Nat  BY LineMore, LenProperties
<1> HIDE DEF o
<1> DEFINE v == u + i
           Q == P \cup {v}
           h == [k \in Q |-> IF k = v THEN T[i] ELSE g[k]]
<1>6. v \in 1..L /\ v \in Q  BY <1>4, <1>5
<1> HIDE DEF v
<1>7. Q \in Places(o, f + 1) /\ Q \subseteq 1..L /\ P \subseteq 1..L
  <2>1. Q \in Places(o, f + 1) /\ P \subseteq 1..L  BY <1>5, <1>6, PlacesAnd, PlacesIn
  <2> QED  BY <1>6, <2>1
<1>8. Garbling(h, Q)  BY <1>3 DEF Garbling
<1>9. /\ \A k \in 1..L : (k \in P => Patched(o, g)[k] = g[k]) /\ (k \notin P => Patched(o, g)[k] = o[k])
      /\ \A k \in 1..L : (k \in Q => Patched(o, h)[k] = h[k]) /\ (k \notin Q => Patched(o, h)[k] = o[k])
  <2> HIDE DEF Q, h
  <2>1. o \in Seq(Byte) /\ P \subseteq 1..Len(o) /\ Q \subseteq 1..Len(o) /\ Garbling(g, P) /\ Garbling(h, Q)
    BY <1>3, <1>5, <1>7, <1>8
  <2>4. Replaced(o, P, g) /\ Replaced(o, Q, h)  BY <2>1, PatchedIs
  <2>2. \A k \in 1..Len(o) : (k \in P => Patched(o, g)[k] = g[k]) /\ (k \notin P => Patched(o, g)[k] = o[k])
    BY <2>4, Zenon DEF Replaced
  <2>3. \A k \in 1..Len(o) : (k \in Q => Patched(o, h)[k] = h[k]) /\ (k \notin Q => Patched(o, h)[k] = o[k])
    BY <2>4, Zenon DEF Replaced
  <2> QED  BY <2>2, <2>3
<1>10. \A k \in 1..L : (k = v => Patched(o, h)[k] = T[i]) /\ (k # v => Patched(o, h)[k] = Patched(o, g)[k])
  <2> SUFFICES ASSUME NEW k \in 1..L PROVE (k = v => Patched(o, h)[k] = T[i]) /\ (k # v => Patched(o, h)[k] = Patched(o, g)[k])
    OBVIOUS
  <2>1. CASE k = v  BY <1>6, <1>9, <2>1
  <2>2. CASE k # v /\ k \in P
    <3>1. k \in Q /\ h[k] = g[k]  BY <2>2
    <3> QED  BY <1>9, <2>2, <3>1
  <2>3. CASE k # v /\ k \notin P
    <3>1. k \notin Q  BY <2>3
    <3> QED  BY <1>9, <2>3, <3>1
  <2> QED  BY <2>1, <2>2, <2>3
<1> HIDE DEF Q, h, L
<1>11. ASSUME NEW k \in 1..Len(T) PROVE T[k] = Patched(o, h)[u + k]
  <2>1. u + k \in 1..L /\ k \in 1..Len(S) /\ (u + k = v <=> k = i)  BY <1>4, <1>5 DEF v
  <2>2. CASE k = i  BY <1>10, <2>1, <2>2
  <2>3. CASE k # i
    <3>1. Patched(o, h)[u + k] = Patched(o, g)[u + k]  BY <1>10, <2>1, <2>3
    <3> QED  BY <1>4, <2>1, <2>3, <3>1
  <2> QED  BY <2>2, <2>3
<1>12. L = u + Len(T)  BY <1>4
<1>13. f + 1 <= n => f <= n  OBVIOUS
<1>14. f + 1 <= n => \E j \in 0..Len(s) : End(s, j) <= u /\ Among(c, s, j)  BY <1>4, <1>13
<1> DEFINE m == f + 1
<1>15. m <= n => \E j \in 0..Len(s) : End(s, j) <= u /\ Among(c, s, j)  BY <1>14
<1>16. Q \in Places(o, m)  BY <1>7
<1> HIDE DEF m
<1>17. Left(s, T, c, m, n, u, h)  BY <1>11, <1>12, <1>15, Zenon DEF Left, Remains, o, L
<1>18. u \in 0..L  OBVIOUS
<1>19. Trail(s, T, c, m, n)  BY <1>8, <1>16, <1>17, <1>18, Zenon DEF Trail, o, L
<1> QED  BY <1>19 DEF m

-----------------------------------------------------------------------------
(* Frames that are not detected were sent                                  *)

\* The packets sent are among those of which Detects speaks.
LEMMA SentBounded ==
  ASSUME NEW s \in Seq(Packets), Len(s) <= MaxFrames
  PROVE  s \in BoundedSeq(Packets, MaxFrames)
<1>1. Len(s) \in Nat /\ s \in [1..Len(s) -> Packets]  BY LenProperties
<1>2. Len(s) \in 0..MaxFrames  BY <1>1, HdlcAssumption
<1> QED  BY <1>1, <1>2 DEF BoundedSeq, SeqOf

\* The n bytes from a on and from b on are the same, one by one.
Agree(s, a, t, b, n) == \A k \in 1..n : s[a + k - 1] = t[b + k - 1]

\* The n bytes from a on.
Cut(s, a, n) == SubSeq(s, a, a + n - 1)

\* They are the same if they are so one by one.
LEMMA SameStretch ==
  ASSUME NEW s \in Seq(Byte), NEW t \in Seq(Byte), NEW a \in Nat \ {0}, NEW b \in Nat \ {0},
         NEW n \in Nat, a + n - 1 <= Len(s), b + n - 1 <= Len(t),
         Agree(s, a, t, b, n)
  PROVE  Cut(s, a, n) = Cut(t, b, n)
<1> DEFINE c == a + n - 1
           d == b + n - 1
           x == SubSeq(s, a, c)
           y == SubSeq(t, b, d)
<1>1. /\ c \in Nat /\ d \in Nat /\ c <= Len(s) /\ d <= Len(t) /\ c - a + 1 = n /\ d - b + 1 = n
      /\ (a <= c <=> n > 0) /\ (b <= d <=> n > 0)
  OBVIOUS
<1>2. \A k \in 1..n : s[a + k - 1] = t[b + k - 1]  BY DEF Agree
<1>8. a \in Nat \ {0} /\ c \in Nat /\ c <= Len(s) /\ b \in Nat \ {0} /\ d \in Nat /\ d <= Len(t)
  BY <1>1
<1> HIDE DEF c, d
<1>3. /\ x \in Seq(Byte) /\ Len(x) = IF a <= c THEN c - a + 1 ELSE 0
      /\ \A k \in 1..c - a + 1 : x[k] = s[a + k - 1]
  BY <1>8, Sub, SMTT(30)
<1>4. /\ y \in Seq(Byte) /\ Len(y) = IF b <= d THEN d - b + 1 ELSE 0
      /\ \A k \in 1..d - b + 1 : y[k] = t[b + k - 1]
  BY <1>8, Sub, SMTT(30)
<1> HIDE DEF x, y
<1>5. Len(x) = n /\ Len(y) = n  BY <1>1, <1>3, <1>4
<1>6. \A k \in 1..n : x[k] = y[k]  BY <1>1, <1>2, <1>3, <1>4
<1>7. x = y  BY <1>3, <1>4, <1>5, <1>6, SeqEqual
<1> QED  BY <1>7, Zenon DEF x, y, c, d, Cut

\* What is between two flags decodes to d, and that is not Bad.
Decodes(t, a, b, d) ==
  Framed(t, a, b) /\ Decode(SubSeq(t, a + 1, b - 1)) = d /\ d # Bad

\* d is a packet, and its frame ends at b.
Comes(s, b, d) == \E j \in 1..Len(s) : End(s, j) = b /\ d = s[j]

\* What decodes between two flags of the garbled line is a packet, and its frame ends there.
LEMMA DecodesSent ==
  ASSUME NEW s \in Seq(Packets), Len(s) <= MaxFrames, NEW n \in Nat, Detects(n),
         NEW P \in Places(Line(s), n), NEW g, Garbling(g, P),
         NEW a \in 1..Len(Line(s)), NEW b \in 1..Len(Line(s)), NEW d,
         Decodes(Patched(Line(s), g), a, b, d)
  PROVE  Comes(s, b, d)
<1> DEFINE o == Line(s)
           t == Patched(o, g)
           L == Len(o)
<1>1. o \in Seq(Byte) /\ L \in Nat /\ a \in 1..L /\ b \in 1..L  BY LineMore, LenProperties
<1>2. P \subseteq 1..L  BY <1>1, PlacesIn
<1>3. t \in Seq(Byte) /\ Len(t) = L
  <2> HIDE DEF o
  <2>1. Replaced(o, P, g)  BY <1>1, <1>2, PatchedIs
  <2> QED  BY <2>1 DEF Replaced
<1>4. SubSeq(t, a, b) = SubSeq(o, a, b)
  <2>1. s \in BoundedSeq(Packets, MaxFrames)  BY SentBounded
  <2>2. g \in [P -> Garbage]  BY DEF Garbling
  <2>3. DOMAIN o = 1..L  BY <1>1, LenProperties
  <2>4. a \in DOMAIN o /\ b \in DOMAIN o  BY <2>3
  <2>5. Framed(t, a, b) /\ Decode(SubSeq(t, a + 1, b - 1)) # Bad  BY DEF Decodes
  <2> QED  BY <2>1, <2>2, <2>4, <2>5, Zenon DEF Detects
<1>5. Framing(s)  BY FramesAre
<1>6. Framed(t, a, b) /\ a + 1 < b /\ Decode(SubSeq(t, a + 1, b - 1)) = d
  BY DEF Framed, Decodes
<1> HIDE DEF t
<1>7. ASSUME NEW k \in a..b PROVE t[k] = o[k]
  <2> DEFINE x == SubSeq(t, a, b)
             y == SubSeq(o, a, b)
             i == k - a + 1
  <2>1. a \in Nat \ {0} /\ b \in Nat /\ b <= L /\ a <= b /\ i \in 1..b - a + 1 /\ a + i - 1 = k
    BY <1>1, <1>6
  <2> HIDE DEF i, o
  <2>2. \A h \in 1..b - a + 1 : x[h] = t[a + h - 1]  BY <1>3, <2>1, Sub
  <2>3. \A h \in 1..b - a + 1 : y[h] = o[a + h - 1]  BY <1>1, <2>1, Sub
  <2> HIDE DEF x, y
  <2>4. x[i] = t[k] /\ y[i] = o[k]  BY <2>1, <2>2, <2>3
  <2>5. x = y  BY <1>4 DEF x, y
  <2> QED  BY <2>4, <2>5
<1>8. Framed(o, a, b)
  <2>1. a \in a..b /\ b \in a..b /\ \A k \in a + 1..b - 1 : k \in a..b  BY <1>6
  <2> HIDE DEF o
  <2> QED  BY <1>6, <1>7, <2>1 DEF Framed
<1>9. PICK j \in 1..Len(s) :
        /\ b = End(s, j) /\ b = a + Len(Body(s[j])) + 1
        /\ \A k \in 1..Len(Body(s[j])) : o[a + k] = Body(s[j])[k]
  BY <1>5, <1>8, Zenon DEF Framing
<1> DEFINE p == s[j]
           x == Body(p)
           c == Len(x)
<1>10. p \in Packets  BY ElementOfSeq
<1>11. b = End(s, j) /\ b = a + c + 1 /\ \A k \in 1..c : o[a + k] = x[k]  BY <1>9, Zenon
<1> HIDE DEF p, o
<1>12. x \in Seq(Byte) /\ c \in Nat \ {0} /\ Decode(x) = p
  BY <1>10, Shape, BodyIs, RoundTrip, HdlcAssumption
<1>13. SubSeq(t, a + 1, b - 1) = x
  <2>0. c = Len(x) /\ c \in Nat \ {0} /\ b = a + c + 1 /\ \A k \in 1..c : o[a + k] = x[k]  BY <1>11, <1>12
  <2> HIDE DEF x, c
  <2> DEFINE a1 == a + 1
             o1 == 1
  <2>1. a1 \in Nat \ {0} /\ o1 \in Nat \ {0} /\ a1 + c - 1 <= Len(t) /\ o1 + c - 1 <= Len(x)
        /\ a1 + c - 1 = b - 1 /\ o1 + c - 1 = c
    BY <1>1, <1>3, <2>0
  <2>2. Agree(t, a1, x, o1, c)
    <3> SUFFICES ASSUME NEW k \in 1..c PROVE t[a1 + k - 1] = x[o1 + k - 1]
      BY DEF Agree
    <3>1. a1 + k - 1 = a + k /\ o1 + k - 1 = k /\ a + k \in a..b  BY <1>1, <2>0
    <3>2. t[a + k] = o[a + k]  BY <1>7, <3>1
    <3> QED  BY <2>0, <3>1, <3>2
  <2> HIDE DEF a1, o1
  <2>3. Cut(t, a1, c) = Cut(x, o1, c)
    <3>1. /\ t \in Seq(Byte) /\ x \in Seq(Byte) /\ a1 \in Nat \ {0} /\ o1 \in Nat \ {0} /\ c \in Nat
          /\ a1 + c - 1 <= Len(t) /\ o1 + c - 1 <= Len(x)
      BY <1>3, <1>12, <2>1
    <3> QED  BY <2>2, <3>1, SameStretch, SMTT(30)
  <2>4. SubSeq(x, 1, Len(x)) = x  BY <1>12, SubSeqFull
  <2>5. SubSeq(t, a1, b - 1) = SubSeq(x, o1, Len(x))
    <3>1. a1 + c - 1 = b - 1 /\ o1 + c - 1 = Len(x)  BY <2>0, <2>1
    <3> QED  BY <2>3, <3>1, Zenon DEF Cut
  <2> QED  BY <2>4, <2>5, Zenon DEF a1, o1
<1>14. d = p
  <2>1. Decode(SubSeq(t, a + 1, b - 1)) = p  BY <1>12, <1>13
  <2> QED  BY <1>6, <2>1, Zenon
<1> QED  BY <1>11, <1>14, Zenon DEF p, Comes

\* What decodes between two flags of what is left of it.
LEMMA NextSent ==
  ASSUME NEW s \in Seq(Packets), Len(s) <= MaxFrames, NEW S \in Seq(Byte), NEW n \in Nat, Detects(n),
         NEW P \in Places(Line(s), n), NEW g, Garbling(g, P), NEW u \in Nat,
         Remains(s, S, u, g), NEW m \in 1..Len(S), NEW i \in 1..m - 1, NEW d, Decodes(S, i, m, d)
  PROVE  Comes(s, u + m, d)
<1> DEFINE o == Line(s)
           L == Len(o)
           t == Patched(o, g)
           l == i + 1
           a == u + i
           v == u + m
<1>1. o \in Seq(Byte) /\ L \in Nat /\ Len(S) \in Nat  BY LineMore, LenProperties
<1>2. t \in Seq(Byte) /\ Len(t) = L
  <2> HIDE DEF o
  <2>1. P \subseteq 1..L  BY <1>1, PlacesIn DEF o
  <2>2. Replaced(o, P, g)  BY <1>1, <2>1, PatchedIs
  <2> QED  BY <2>2 DEF Replaced
<1>3. L = u + Len(S) /\ \A k \in 1..Len(S) : S[k] = t[u + k]
  BY DEF Remains
<1> HIDE DEF t, L
<1>0. /\ S[i] = Flag /\ S[m] = Flag /\ i + 1 < m /\ \A k \in l..m - 1 : S[k] # Flag
      /\ Decode(SubSeq(S, l, m - 1)) = d /\ d # Bad
  BY DEF Decodes, Framed
<1>4. a \in 1..L /\ v \in 1..L /\ a + 1 < v /\ a = u + i /\ i \in 1..Len(S)
      /\ a + 1 = u + l /\ l \in Nat /\ l > 0 /\ m \in Nat /\ l < m
  BY <1>0, <1>1, <1>3
<1> HIDE DEF l
<1>5. Framed(t, a, v)
  <2>1. t[a] = Flag /\ t[v] = Flag  BY <1>0, <1>3, <1>4
  <2>2. ASSUME NEW k \in a + 1..v - 1 PROVE t[k] # Flag
    <3>1. k - u \in l..m - 1 /\ k - u \in 1..Len(S) /\ u + (k - u) = k  BY <1>1, <1>4
    <3>2. S[k - u] # Flag  BY <1>0, <3>1
    <3> QED  BY <1>3, <3>1, <3>2
  <2> QED  BY <1>4, <2>1, <2>2 DEF Framed
<1>6. SubSeq(t, a + 1, v - 1) = SubSeq(S, l, m - 1)
  <2> DEFINE b == a + 1
             h == m - l
  <2>1. b \in Nat \ {0} /\ l \in Nat \ {0} /\ h \in Nat /\ b + h - 1 = v - 1 /\ l + h - 1 = m - 1
        /\ b + h - 1 <= Len(t) /\ l + h - 1 <= Len(S) /\ b = u + l
    BY <1>1, <1>2, <1>4
  <2>2. ASSUME NEW k \in 1..h PROVE t[b + k - 1] = S[l + k - 1]
    <3>1. l + k - 1 \in 1..Len(S) /\ b + k - 1 = u + (l + k - 1)  BY <1>1, <1>4
    <3> QED  BY <1>3, <3>1
  <2>3. t \in Seq(Byte) /\ b \in Nat \ {0} /\ l \in Nat \ {0} /\ h \in Nat
        /\ b + h - 1 <= Len(t) /\ l + h - 1 <= Len(S)
    BY <1>2, <2>1
  <2> HIDE DEF b, h, a, v
  <2>4. Agree(t, b, S, l, h)  BY <2>2 DEF Agree
  <2>5. Cut(t, b, h) = Cut(S, l, h)  BY <2>3, <2>4, SameStretch, SMTT(30)
  <2>6. SubSeq(t, b, v - 1) = SubSeq(S, l, m - 1)
    <3>1. b + h - 1 = v - 1 /\ l + h - 1 = m - 1  BY <2>1
    <3> QED  BY <2>5, <3>1, Zenon DEF Cut
  <2> QED  BY <2>6 DEF b
<1>7. Decode(SubSeq(t, a + 1, v - 1)) = d /\ d # Bad  BY <1>0, <1>6
<1> HIDE DEF a, v
<1>8. Decodes(t, a, v, d)  BY <1>5, <1>7, Zenon DEF Decodes
<1>9. a \in 1..Len(Line(s)) /\ v \in 1..Len(Line(s))  BY <1>4 DEF L
<1>10. Comes(s, v, d)
  <2>1. Decodes(Patched(Line(s), g), a, v, d)  BY <1>8 DEF t
  <2> QED  BY <1>9, <2>1, DecodesSent
<1> QED  BY <1>10 DEF v

\* A frame is taken: what comes out was sent behind what has come out.
LEMMA TrailTake ==
  ASSUME NEW s \in Seq(Packets), Len(s) <= MaxFrames, NEW S \in Seq(Byte),
         NEW c \in Seq(Seq(Byte)), NEW f \in Nat, NEW n \in Nat, Detects(n), Trail(s, S, c, f, n),
         NEW m \in 1..Len(S), NEW i \in 1..m - 1, Framed(S, i, m),
         NEW T \in Seq(Byte), Len(T) = Len(S) - m, \A k \in 1..Len(T) : T[k] = S[m + k],
         NEW d, d = Decode(SubSeq(S, i + 1, m - 1))
  PROVE  Trail(s, T, IF d = Bad THEN c ELSE Append(c, d), f, n)
<1> DEFINE o == Line(s)
           L == Len(o)
           e == IF d = Bad THEN c ELSE Append(c, d)
<1>1. PICK u \in 0..L : \E P \in Places(o, f) : \E g : Garbling(g, P) /\ Left(s, S, c, f, n, u, g)
  BY DEF Trail
<1>2. PICK P \in Places(o, f) : \E g : Garbling(g, P) /\ Left(s, S, c, f, n, u, g)  BY <1>1
<1>3. PICK g : Garbling(g, P) /\ Left(s, S, c, f, n, u, g)  BY <1>2
<1> DEFINE t == Patched(o, g)
           v == u + m
<1>4. /\ L = u + Len(S) /\ \A k \in 1..Len(S) : S[k] = t[u + k]
      /\ f <= n => \E j \in 0..Len(s) : End(s, j) <= u /\ Among(c, s, j)
  BY <1>3 DEF Left, Remains
<1>5. o \in Seq(Byte) /\ L \in Nat /\ Len(S) \in Nat /\ Len(s) \in Nat  BY LineMore, LenProperties
<1>6. t \in Seq(Byte) /\ Len(t) = L
  <2> HIDE DEF o
  <2>1. P \subseteq 1..L  BY <1>5, PlacesIn
  <2>2. Replaced(o, P, g)  BY <1>3, <1>5, <2>1, PatchedIs
  <2> QED  BY <2>2 DEF Replaced
<1>7. v \in 0..L /\ L = v + Len(T)  BY <1>4, <1>5
<1>8. \A k \in 1..Len(T) : T[k] = t[v + k]
  <2> HIDE DEF t, L
  <2> SUFFICES ASSUME NEW k \in 1..Len(T) PROVE T[k] = t[v + k]
    OBVIOUS
  <2>1. m + k \in 1..Len(S) /\ u + (m + k) = v + k  BY <1>5
  <2>2. T[k] = S[m + k]  OBVIOUS
  <2> QED  BY <1>4, <2>1, <2>2
<1>9. ASSUME f <= n, NEW j \in 0..Len(s), End(s, j) <= u, Among(c, s, j)
      PROVE  \E h \in 0..Len(s) : End(s, h) <= v /\ Among(e, s, h)
  <2>0. \A h \in 0..Len(s) : End(s, h) \in Nat
    <3> SUFFICES ASSUME NEW h \in 0..Len(s) PROVE End(s, h) \in Nat
      OBVIOUS
    <3> DEFINE w == SubSeq(s, 1, h)
    <3>1. 1 \in Nat \ {0} /\ h \in Nat /\ h <= Len(s)  BY <1>5
    <3>2. w \in Seq(Packets)  BY <3>1, Sub
    <3> HIDE DEF w
    <3>3. Line(w) \in Seq(Byte)  BY <3>2, LineMore
    <3> QED  BY <3>3, LenProperties DEF End, w
  <2>1. CASE d = Bad
    <3>1. e = c  BY <2>1
    <3>2. End(s, j) <= v
      <4> DEFINE x == End(s, j)
      <4>1. x \in Nat /\ x <= u /\ u \in Nat /\ m \in Nat  BY <1>5, <1>9, <2>0
      <4> HIDE DEF x
      <4>2. x <= v  BY <4>1, SMTT(30)
      <4> QED  BY <4>2 DEF x
    <3> QED  BY <1>9, <3>1, <3>2
  <2>2. CASE d # Bad
    <3>1. v \in 1..L /\ u \in Nat /\ m \in Nat  BY <1>4, <1>5
    <3>2. P \in Places(o, n)  BY <1>5, <1>9, PlacesOfMore
    <3>3. Comes(s, v, d)
      <4>1. Remains(s, S, u, g)  BY <1>4 DEF Remains
      <4>2. Decodes(S, i, m, d)  BY <2>2 DEF Decodes
      <4>3. P \in Places(Line(s), n) /\ Garbling(g, P)  BY <1>3, <3>2
      <4>4. Comes(s, u + m, d)  BY <3>1, <4>1, <4>2, <4>3, NextSent
      <4> QED  BY <4>4
    <3>7. PICK h \in 1..Len(s) : End(s, h) = v /\ d = s[h]  BY <3>3, Zenon DEF Comes
    <3>8. j < h
      <4>1. SUFFICES ASSUME ~(j < h) PROVE FALSE
        OBVIOUS
      <4>2. h \in 0..Len(s) /\ h <= j  BY <1>5, <4>1
      <4>3. End(s, h) <= End(s, j)  BY <4>2, FramesAre DEF Framing
      <4> DEFINE x == End(s, j)
      <4>4. v <= x /\ x <= u /\ x \in Nat  BY <1>9, <2>0, <3>7, <4>3
      <4> HIDE DEF x
      <4> QED  BY <1>5, <3>1, <4>4
    <3>9. d \in Seq(Byte)
      <4>1. s[h] \in Packets  BY ElementOfSeq
      <4> QED  BY <3>7, <4>1, HdlcAssumption
    <3>10. e = Append(c, d)  BY <2>2
    <3>11. h \in Nat /\ j \in Nat /\ h \in 0..Len(s)  BY <1>5
    <3>12. Among(Append(c, d), s, h)  BY <1>9, <3>7, <3>8, <3>9, <3>11, AmongMore
    <3>13. End(s, h) <= v  BY <3>1, <3>7
    <3> QED  BY <3>10, <3>11, <3>12, <3>13
  <2> QED  BY <2>1, <2>2
<1>10. f <= n => \E h \in 0..Len(s) : End(s, h) <= v /\ Among(e, s, h)  BY <1>4, <1>9
<1> HIDE DEF v, e
<1>11. Left(s, T, e, f, n, v, g)  BY <1>7, <1>8, <1>10, Zenon DEF Left, Remains
<1>12. Trail(s, T, e, f, n)  BY <1>3, <1>7, <1>11 DEF Trail
<1> QED  BY <1>12, Zenon DEF e

\* The frame the reader finds lies between two flags.
LEMMA FirstFramed ==
  ASSUME NEW s \in Seq(Byte), NEW n \in 1..Len(s), NEW m \in 2..n - 1,
         s[n] = Flag, s[m] # Flag, \E j \in 1..m - 1 : s[j] = Flag,
         \A j, k \in 1..n : j < k /\ s[j] = Flag /\ s[k] # Flag => m <= k,
         \A j, k, e \in 1..n - 1 : j < k /\ k < e /\ s[j] = Flag /\ s[k] # Flag => s[e] # Flag
  PROVE  Framed(s, m - 1, n)
<1>1. Len(s) \in Nat  BY LenProperties
<1>2. PICK j \in 1..m - 1 : s[j] = Flag  OBVIOUS
<1>3. s[m - 1] = Flag
  <2> SUFFICES ASSUME s[m - 1] # Flag PROVE FALSE
    OBVIOUS
  <2>1. j < m - 1  BY <1>2
  <2>2. m - 1 \in 1..n /\ j \in 1..n  BY <1>1
  <2>3. m <= m - 1  BY <1>2, <2>1, <2>2
  <2> QED  BY <2>3
<1>4. ASSUME NEW e \in m..n - 1 PROVE s[e] # Flag
  <2>1. CASE e = m  BY <2>1
  <2>2. CASE e # m
    <3>1. j \in 1..n - 1 /\ m \in 1..n - 1 /\ e \in 1..n - 1 /\ j < m /\ m < e  BY <2>2
    <3> QED  BY <1>2, <3>1
  <2> QED  BY <2>1, <2>2
<1>5. (m - 1) + 1 = m /\ m < n  OBVIOUS
<1> QED  BY <1>3, <1>4, <1>5 DEF Framed

-----------------------------------------------------------------------------
(* No garbled packet gets through                                          *)

\* needFlag tells whether the line is empty, or flags are shared by no frames; what the reader
\* has yet to search is left of the line, and what has come out was sent before it.
Traced(n) ==
  /\ needFlag = (OwnFlags \/ Line(sent) = << >>)
  /\ Trail(sent, Stream, got, faults, n)

\* At first there is nothing.
LEMMA TracedInit ==
  ASSUME Init, NEW n \in Nat
  PROVE  Traced(n)
<1> DEFINE e == << >>
<1>1. /\ e \in Seq(Packets) /\ e \in Seq(Byte) /\ Len(e) = 0 /\ e \o e = e /\ SubSeq(e, 1, 0) = e
  BY SubSeqEmpty
<1>2. Line(e) = e  BY LineMore
<1>3. /\ sent = e /\ needFlag = TRUE /\ wire = e /\ buf = e /\ start = 1 /\ got = e /\ faults = 0
  BY Zenon DEF Init
<1> HIDE DEF e
<1>4. Stream = e
  <2>1. Held(buf, 1) = buf  BY <1>1, <1>3, SubSeqFull DEF Held
  <2> QED  BY <1>1, <1>3, <2>1, Zenon DEF Stream
<1>5. \E j \in 0..Len(e) : End(e, j) <= 0 /\ Among(e, e, j)
  <2>1. End(e, 0) = 0  BY <1>1, <1>2 DEF End
  <2>2. Among(e, e, 0)
    <3> DEFINE k == [i \in 1..0 |-> 1]
    <3>1. k \in [1..0 -> 1..0]  OBVIOUS
    <3>2. \A i \in 1..0 : FALSE  OBVIOUS
    <3> HIDE DEF k
    <3> QED  BY <1>1, <3>1, <3>2 DEF Among
  <2> QED  BY <1>1, <2>1, <2>2
<1>6. Trail(e, e, e, 0, n)
  <2> DEFINE g == [i \in {} |-> 0]
  <2>1. Garbling(g, {}) /\ {} \in Places(Line(e), 0)  BY DEF Garbling, Places
  <2> HIDE DEF g
  <2>2. Remains(e, e, 0, g)
    <3>1. \A k \in 1..0 : FALSE  OBVIOUS
    <3> QED  BY <1>1, <1>2, <3>1 DEF Remains
  <2>3. Left(e, e, e, 0, n, 0, g)  BY <1>5, <2>2 DEF Left
  <2>4. 0 \in 0..Len(Line(e))  BY <1>1, <1>2
  <2> QED  BY <2>1, <2>3, <2>4 DEF Trail
<1>7. needFlag = (OwnFlags \/ Line(sent) = << >>)
  <2>1. Line(sent) = << >>  BY <1>2, <1>3 DEF e
  <2> QED  BY <1>3, <2>1
<1> QED  BY <1>3, <1>4, <1>6, <1>7, Zenon DEF Traced

\* A packet more is sent.
LEMMA TracedWrite ==
  ASSUME TypeOK, NEW n \in Nat, Traced(n), Write
  PROVE  Traced(n)'
<1>1. PICK p \in Packets : sent' = Append(sent, p) /\ wire' = wire \o Encode(needFlag, p)
  BY DEF Write
<1>2. buf' = buf /\ start' = start /\ got' = got /\ faults' = faults /\ needFlag' = OwnFlags
  BY DEF Write, reader
<1> DEFINE b == OwnFlags \/ Line(sent) = << >>
           e == Encode(b, p)
           h == Held(buf, start)
<1>3. needFlag = b /\ b \in BOOLEAN  BY DEF Traced
<1> HIDE DEF b
<1>4. h \in Seq(Byte) /\ wire \in Seq(Byte) /\ e \in Seq(Byte)  BY <1>3, Typed, Encoded
<1>5. Stream' = Stream \o e
  <2>1. Held(buf', start') = h  BY <1>2
  <2>2. wire' = wire \o e  BY <1>1, <1>3
  <2> HIDE DEF h, e
  <2>3. (h \o wire) \o e = h \o (wire \o e)  BY <1>4, Associative
  <2>4. Stream = h \o wire  BY DEF Stream, h
  <2>5. Stream' = h \o (wire \o e)  BY <2>1, <2>2, Zenon DEF Stream
  <2> QED  BY <2>3, <2>4, <2>5, Zenon
<1>6. sent \in Seq(Packets) /\ Stream \in Seq(Byte) /\ faults \in Nat  BY Typed, Counts
<1> DEFINE s == sent
           S == Stream
           c == got
           f == faults
           r == Append(s, p)
<1>7. Trail(s, S, c, f, n)  BY DEF Traced
<1>8. Trail(r, S \o e, c, f, n)
  <2> HIDE DEF s, S, c, f
  <2>1. s \in Seq(Packets) /\ S \in Seq(Byte) /\ f \in Nat  BY <1>6 DEF s, S, f
  <2> QED  BY <1>7, <2>1, TrailWrite DEF e, b, s
<1>9. Line(r) # << >>
  <2> DEFINE q == Line(r)
  <2>1. PICK z \in Len(Line(s))..Len(Line(s)) + 1 : Len(q) = z + Len(Body(p)) + 1
    BY <1>6, LineGrows, Zenon
  <2>2. q \in Seq(Byte) /\ Line(s) \in Seq(Byte)  BY <1>6, LineGrows, Zenon
  <2>3. Len(Line(s)) \in Nat /\ Len(Body(p)) \in Nat  BY <2>2, BodyIs, LenProperties
  <2> HIDE DEF q
  <2>4. Len(q) # 0  BY <2>1, <2>3
  <2>5. q # << >>  BY <2>2, <2>4, EmptySeq
  <2> QED  BY <2>5 DEF q
<1>10. needFlag' = (OwnFlags \/ Line(sent') = << >>)
  <2>1. Line(sent') # << >>  BY <1>1, <1>9, Zenon
  <2>2. OwnFlags \in BOOLEAN  BY HdlcAssumption
  <2> QED  BY <1>2, <2>1, <2>2
<1>11. Trail(sent', Stream', got', faults', n)  BY <1>1, <1>2, <1>5, <1>8, Zenon
<1> QED  BY <1>10, <1>11, Zenon DEF Traced

\* A byte is garbled.
LEMMA TracedGarble ==
  ASSUME TypeOK, TypeOK', NEW n \in Nat, Traced(n), Garble
  PROVE  Traced(n)'
<1>1. needFlag' = needFlag /\ sent' = sent /\ got' = got /\ faults' = faults + 1
  BY DEF Garble, reader
<1> DEFINE s == sent
           S == Stream
           T == Stream'
           c == got
           f == faults
           m == f + 1
<1>2. PICK i \in 1..Len(S) : T[i] \in Garbage /\ \A k \in 1..Len(S) : k # i => T[k] = S[k]
  BY StreamGarble
<1>3. T \in Seq(Byte) /\ Len(T) = Len(S)  BY StreamGarble
<1>4. s \in Seq(Packets) /\ S \in Seq(Byte) /\ f \in Nat  BY Typed, Counts
<1>5. Trail(s, S, c, f, n)  BY DEF Traced
<1>6. m = faults'  BY <1>1
<1> HIDE DEF s, S, T, c, f
<1>7. Trail(s, T, c, m, n)  BY <1>2, <1>3, <1>4, <1>5, TrailGarble
<1> HIDE DEF m
<1>8. Trail(sent', Stream', got', faults', n)  BY <1>1, <1>6, <1>7, Zenon DEF s, T, c
<1>9. needFlag' = (OwnFlags \/ Line(sent') = << >>)  BY <1>1, Zenon DEF Traced
<1> QED  BY <1>8, <1>9, Zenon DEF Traced

\* A frame is taken.
LEMMA TracedTake ==
  ASSUME TypeOK, TypeOK', NEW n \in Nat, Detects(n), Traced(n), Take
  PROVE  Traced(n)'
<1>1. needFlag' = needFlag /\ sent' = sent /\ faults' = faults  BY DEF Take
<1> DEFINE s == sent
           S == Stream
           T == Stream'
           c == got
           f == faults
<1>2. PICK l \in 1..Len(S) : \E m \in 2..l - 1 :
        /\ Len(T) = Len(S) - l /\ T \in Seq(Byte) /\ \A k \in 1..Len(T) : T[k] = S[l + k]
        /\ S[l] = Flag /\ S[m] # Flag /\ \E j \in 1..m - 1 : S[j] = Flag
        /\ \A j, k \in 1..l : j < k /\ S[j] = Flag /\ S[k] # Flag => m <= k
        /\ \A j, k, e \in 1..l - 1 : j < k /\ k < e /\ S[j] = Flag /\ S[k] # Flag => S[e] # Flag
        /\ got' = (IF Decode(SubSeq(S, m, l - 1)) = Bad THEN got
                   ELSE Append(got, Decode(SubSeq(S, m, l - 1))))
  BY StreamFrame, Zenon
<1>3. PICK m \in 2..l - 1 :
        /\ Len(T) = Len(S) - l /\ T \in Seq(Byte) /\ \A k \in 1..Len(T) : T[k] = S[l + k]
        /\ S[l] = Flag /\ S[m] # Flag /\ \E j \in 1..m - 1 : S[j] = Flag
        /\ \A j, k \in 1..l : j < k /\ S[j] = Flag /\ S[k] # Flag => m <= k
        /\ \A j, k, e \in 1..l - 1 : j < k /\ k < e /\ S[j] = Flag /\ S[k] # Flag => S[e] # Flag
        /\ got' = (IF Decode(SubSeq(S, m, l - 1)) = Bad THEN got
                   ELSE Append(got, Decode(SubSeq(S, m, l - 1))))
  BY <1>2, Zenon
<1>4. s \in Seq(Packets) /\ Len(s) <= MaxFrames /\ S \in Seq(Byte) /\ f \in Nat /\ c \in Seq(Seq(Byte))
  BY Typed, Counts DEF TypeOK
<1>5. Trail(s, S, c, f, n)  BY DEF Traced
<1> DEFINE i == m - 1
           d == Decode(SubSeq(S, m, l - 1))
           e == IF d = Bad THEN c ELSE Append(c, d)
<1>6. got' = e  BY <1>3, Zenon DEF c
<1> HIDE DEF s, S, T, c, f
<1>7. /\ Len(T) = Len(S) - l /\ T \in Seq(Byte) /\ \A k \in 1..Len(T) : T[k] = S[l + k]
      /\ S[l] = Flag /\ S[m] # Flag /\ \E j \in 1..m - 1 : S[j] = Flag
      /\ \A j, k \in 1..l : j < k /\ S[j] = Flag /\ S[k] # Flag => m <= k
      /\ \A j, k, g \in 1..l - 1 : j < k /\ k < g /\ S[j] = Flag /\ S[k] # Flag => S[g] # Flag
  BY <1>3, Zenon
<1>8. Framed(S, m - 1, l)  BY <1>4, <1>7, FirstFramed
<1>9. Framed(S, i, l) /\ i \in 1..l - 1 /\ i + 1 = m  BY <1>4, <1>8, LenProperties
<1>10. d = Decode(SubSeq(S, i + 1, l - 1))  BY <1>9
<1>11. Trail(s, T, e, f, n)
  <2> HIDE DEF i, d
  <2>1. /\ Len(T) = Len(S) - l /\ T \in Seq(Byte) /\ \A k \in 1..Len(T) : T[k] = S[l + k]
    BY <1>7
  <2> QED  BY <1>4, <1>5, <1>9, <1>10, <2>1, TrailTake
<1> HIDE DEF e
<1>12. Trail(sent', Stream', got', faults', n)  BY <1>1, <1>6, <1>11, Zenon DEF s, T, f
<1>13. needFlag' = (OwnFlags \/ Line(sent') = << >>)  BY <1>1, Zenon DEF Traced
<1> QED  BY <1>12, <1>13, Zenon DEF Traced

\* So it stays, whatever is sent, read and garbled, where what is garbled at n places is detected.
LEMMA TracedNext ==
  ASSUME TypeOK, TypeOK', NEW n \in Nat, Detects(n), Traced(n), [Next]_vars
  PROVE  Traced(n)'
<1>1. CASE Write  BY <1>1, TracedWrite
<1>2. CASE Read
  <2>1. Stream' = Stream  BY <1>2, StreamRead
  <2>2. needFlag' = needFlag /\ sent' = sent /\ got' = got /\ faults' = faults  BY <1>2 DEF Read
  <2> QED  BY <2>1, <2>2, Zenon DEF Traced
<1>3. CASE Take  BY <1>3, TracedTake
<1>4. CASE Compact
  <2>1. Stream' = Stream  BY <1>4, StreamCompact
  <2>2. needFlag' = needFlag /\ sent' = sent /\ got' = got /\ faults' = faults  BY <1>4 DEF Compact
  <2> QED  BY <2>1, <2>2, Zenon DEF Traced
<1>5. CASE Garble  BY <1>5, TracedGarble
<1>6. CASE Quiet \/ UNCHANGED vars
  <2>1. /\ needFlag' = needFlag /\ sent' = sent /\ got' = got /\ faults' = faults
        /\ buf' = buf /\ start' = start /\ wire' = wire
    BY <1>6 DEF Quiet, vars, reader
  <2>2. Stream' = Stream  BY <2>1, Zenon DEF Stream
  <2> QED  BY <2>1, <2>2, Zenon DEF Traced
<1> QED  BY <1>1, <1>2, <1>3, <1>4, <1>5, <1>6 DEF Next

\* While no more than n places are garbled, what has come out was sent.
LEMMA TracedGenuine ==
  ASSUME TypeOK, NEW n \in Nat, Traced(n), faults <= n
  PROVE  Genuine
<1> DEFINE s == sent
           S == Stream
           c == got
           f == faults
<1>1. Trail(s, S, c, f, n) /\ f <= n /\ s \in Seq(Packets) /\ c \in Seq(Seq(Byte))
  BY DEF Traced, TypeOK
<1> HIDE DEF s, S, c, f
<1>2. PICK u \in 0..Len(Line(s)) : \E P \in Places(Line(s), f) : \E g :
             Garbling(g, P) /\ Left(s, S, c, f, n, u, g)
  BY <1>1, Zenon DEF Trail
<1>3. PICK P \in Places(Line(s), f) : \E g : Garbling(g, P) /\ Left(s, S, c, f, n, u, g)
  BY <1>2, Zenon
<1>4. PICK g : Garbling(g, P) /\ Left(s, S, c, f, n, u, g)  BY <1>3, Zenon
<1>5. PICK j \in 0..Len(s) : Among(c, s, j)
  <2>1. f <= n => \E j \in 0..Len(s) : End(s, j) <= u /\ Among(c, s, j)  BY <1>4, Zenon DEF Left
  <2>2. f <= n  BY <1>1
  <2> QED  BY <2>1, <2>2, Zenon
<1>6. Subsequence(c, s)  BY <1>1, <1>5, AmongAll
<1> QED  BY <1>6 DEF Genuine, c, s

\* No garbled packet gets through, while no more bytes are garbled than the check sequence
\* detects in frames of these packets: what comes out was sent, in that order.
THEOREM Authentic ==
  ASSUME NEW n \in Nat, Detects(n)
  PROVE  Spec => [](faults <= n => Genuine)
<1>1. Init => Traced(n)  BY TracedInit
<1>2. TypeOK /\ TypeOK' /\ Traced(n) /\ [Next]_vars => Traced(n)'  BY TracedNext
<1>3. TypeOK /\ Traced(n) => (faults <= n => Genuine)  BY TracedGenuine
<1> QED  BY <1>1, <1>2, <1>3, Types, PTL DEF Spec

\* Where what is garbled at as many places as the line garbles is detected, that is always.
THEOREM AllAuthentic ==
  ASSUME Detects(MaxFaults)
  PROVE  Spec => []Genuine
<1>1. MaxFaults \in Nat  BY HdlcAssumption
<1>2. Init => Traced(MaxFaults)  BY <1>1, TracedInit
<1>3. TypeOK /\ TypeOK' /\ Traced(MaxFaults) /\ [Next]_vars => Traced(MaxFaults)'  BY <1>1, TracedNext
<1>4. TypeOK /\ Traced(MaxFaults) => Genuine
  <2>1. TypeOK => faults <= MaxFaults  BY HdlcAssumption DEF TypeOK
  <2> QED  BY <1>1, <2>1, TracedGenuine
<1> QED  BY <1>2, <1>3, <1>4, Types, PTL DEF Spec

\* Nothing garbled needs no detecting.
LEMMA DetectsNothing == Detects(0)
<1>1. ASSUME NEW s \in BoundedSeq(Packets, MaxFrames), NEW P \in Places(Line(s), 0),
             NEW g \in [P -> Garbage], NEW a, NEW b
      PROVE  SubSeq(Patched(Line(s), g), a, b) = SubSeq(Line(s), a, b)
  <2>1. s \in Seq(Packets)
    <3>1. PICK m \in 0..MaxFrames : s \in [1..m -> Packets]  BY DEF BoundedSeq, SeqOf
    <3>2. m \in Nat  BY <3>1, HdlcAssumption
    <3> QED  BY <3>1, <3>2, IsASeq
  <2> DEFINE o == Line(s)
  <2>2. o \in Seq(Byte)  BY <2>1, LineMore
  <2>3. P = {}
    <3>1. \A k \in 1..0 : FALSE  OBVIOUS
    <3> QED  BY <3>1 DEF Places
  <2>4. Garbling(g, P) /\ P \subseteq 1..Len(o)  BY <2>3 DEF Garbling
  <2> HIDE DEF o
  <2> DEFINE t == Patched(o, g)
  <2>5. t \in Seq(Byte) /\ Len(t) = Len(o) /\ \A k \in 1..Len(o) : t[k] = o[k]
    <3>1. Replaced(o, P, g)  BY <2>2, <2>4, PatchedIs
    <3> QED  BY <2>3, <3>1 DEF Replaced
  <2> HIDE DEF t
  <2>6. t = o  BY <2>2, <2>5, SeqEqual
  <2> QED  BY <2>6 DEF t, o
<1> QED  BY <1>1, ZenonT(40) DEF Detects

\* On a clean line what comes out was sent, in that order, whether or not frames share flags.
THEOREM CleanGenuine == Spec => [](faults = 0 => Genuine)
<1>1. Detects(0) /\ 0 \in Nat  BY DetectsNothing
<1>2. Init => Traced(0)  BY <1>1, TracedInit
<1>3. TypeOK /\ TypeOK' /\ Traced(0) /\ [Next]_vars => Traced(0)'  BY <1>1, TracedNext
<1>4. TypeOK /\ Traced(0) => (faults = 0 => Genuine)
  <2>1. faults = 0 => faults <= 0  OBVIOUS
  <2> QED  BY <1>1, <2>1, TracedGenuine
<1> QED  BY <1>2, <1>3, <1>4, Types, PTL DEF Spec

-----------------------------------------------------------------------------
(* One garbled byte                                                        *)

\* Two bits added.
Add(a, b) == IF a = b THEN 0 ELSE 1

\* Adding a bit undoes itself.
LEMMA Adding ==
  ASSUME NEW a \in {0,1}, NEW b \in {0,1}
  PROVE  /\ Add(a, b) \in {0,1} /\ Add(a, b) = (a + b) % 2
         /\ Add(a, 0) = a /\ Add(0, a) = a /\ Add(a, 1) = 1 - a
         /\ \A c \in {0,1} : Add(a, b) = Add(c, b) => a = c
BY DEF Add

\* A bit and the rest of a number.
LEMMA Halving ==
  ASSUME NEW e, e \in {0,1}, NEW n, n \in Nat, NEW m, m = e + 2 * n
  PROVE  m \div 2 = n /\ m % 2 = e
OBVIOUS

\* Half of a word, bit by bit.
LEMMA HalfBits ==
  ASSUME NEW h \in Byte, NEW l \in Byte, NEW a, NEW b,
         a = h \div 2, b = 128 * (h % 2) + l \div 2
  PROVE  /\ a \in Byte /\ b \in Byte
         /\ Bit(a, 1) = Bit(h, 2) /\ Bit(a, 2) = Bit(h, 4) /\ Bit(a, 4) = Bit(h, 8)
         /\ Bit(a, 8) = Bit(h, 16) /\ Bit(a, 16) = Bit(h, 32) /\ Bit(a, 32) = Bit(h, 64)
         /\ Bit(a, 64) = Bit(h, 128) /\ Bit(a, 128) = 0
         /\ Bit(b, 1) = Bit(l, 2) /\ Bit(b, 2) = Bit(l, 4) /\ Bit(b, 4) = Bit(l, 8)
         /\ Bit(b, 8) = Bit(l, 16) /\ Bit(b, 16) = Bit(l, 32) /\ Bit(b, 32) = Bit(l, 64)
         /\ Bit(b, 64) = Bit(l, 128) /\ Bit(b, 128) = Bit(h, 1)
<1> DEFINE p(i) == Bit(h, i)
           q(i) == Bit(l, i)
<1>1. /\ h = p(1) + 2*p(2) + 4*p(4) + 8*p(8) + 16*p(16) + 32*p(32) + 64*p(64) + 128*p(128)
      /\ l = q(1) + 2*q(2) + 4*q(4) + 8*q(8) + 16*q(16) + 32*q(32) + 64*q(64) + 128*q(128)
  BY Bits
<1>0. \A i \in {1,2,4,8,16,32,64,128} : p(i) \in {0,1} /\ q(i) \in {0,1}  BY Bits
<1>2. /\ p(1) \in {0,1} /\ p(2) \in {0,1} /\ p(4) \in {0,1} /\ p(8) \in {0,1}
      /\ p(16) \in {0,1} /\ p(32) \in {0,1} /\ p(64) \in {0,1} /\ p(128) \in {0,1}
      /\ q(1) \in {0,1} /\ q(2) \in {0,1} /\ q(4) \in {0,1} /\ q(8) \in {0,1}
      /\ q(16) \in {0,1} /\ q(32) \in {0,1} /\ q(64) \in {0,1} /\ q(128) \in {0,1} /\ 0 \in {0,1}
  BY <1>0
<1> HIDE DEF p, q
<1>3. /\ a = p(2) + 2*p(4) + 4*p(8) + 8*p(16) + 16*p(32) + 32*p(64) + 64*p(128) + 128*0
      /\ b = q(2) + 2*q(4) + 4*q(8) + 8*q(16) + 16*q(32) + 32*q(64) + 64*q(128) + 128*p(1)
  <2> DEFINE r == p(2) + 2*p(4) + 4*p(8) + 8*p(16) + 16*p(32) + 32*p(64) + 64*p(128)
             s == q(2) + 2*q(4) + 4*q(8) + 8*q(16) + 16*q(32) + 32*q(64) + 64*q(128)
  <2>1. \A i \in {1,2,4,8,16,32,64,128} : p(i) \in Nat /\ q(i) \in Nat
    <3>1. \A i \in {0,1} : i \in Nat  OBVIOUS
    <3> QED  BY <1>0, <3>1
  <2>2. /\ p(1) \in Nat /\ p(2) \in Nat /\ p(4) \in Nat /\ p(8) \in Nat /\ p(16) \in Nat
        /\ p(32) \in Nat /\ p(64) \in Nat /\ p(128) \in Nat /\ q(1) \in Nat /\ q(2) \in Nat
        /\ q(4) \in Nat /\ q(8) \in Nat /\ q(16) \in Nat /\ q(32) \in Nat /\ q(64) \in Nat
        /\ q(128) \in Nat
    BY <2>1
  <2>3. h = p(1) + 2*p(2) + 4*p(4) + 8*p(8) + 16*p(16) + 32*p(32) + 64*p(64) + 128*p(128)
    BY <1>1
  <2>4. l = q(1) + 2*q(2) + 4*q(4) + 8*q(8) + 16*q(16) + 32*q(32) + 64*q(64) + 128*q(128)
    BY <1>1
  <2>5. r \in Nat /\ s \in Nat /\ h = p(1) + 2 * r /\ l = q(1) + 2 * s
    BY <2>2, <2>3, <2>4
  <2>6. p(1) \in {0,1} /\ q(1) \in {0,1}  BY <1>2
  <2>7. a = h \div 2 /\ b = 128 * (h % 2) + l \div 2  OBVIOUS
  <2> HIDE DEF r, s
  <2>8. h \div 2 = r /\ h % 2 = p(1)  BY <2>5, <2>6, Halving, Zenon
  <2>9. l \div 2 = s  BY <2>5, <2>6, Halving, Zenon
  <2>10. a = r /\ b = 128 * p(1) + s  BY <2>7, <2>8, <2>9
  <2> QED  BY <2>2, <2>10 DEF r, s
<1>4. /\ a \in Byte
      /\ Bit(a,1) = p(2) /\ Bit(a,2) = p(4) /\ Bit(a,4) = p(8) /\ Bit(a,8) = p(16)
      /\ Bit(a,16) = p(32) /\ Bit(a,32) = p(64) /\ Bit(a,64) = p(128) /\ Bit(a,128) = 0
  BY <1>2, <1>3, BitsOf
<1>5. /\ b \in Byte
      /\ Bit(b,1) = q(2) /\ Bit(b,2) = q(4) /\ Bit(b,4) = q(8) /\ Bit(b,8) = q(16)
      /\ Bit(b,16) = q(32) /\ Bit(b,32) = q(64) /\ Bit(b,64) = q(128) /\ Bit(b,128) = p(1)
  BY <1>2, <1>3, BitsOf
<1> QED  BY <1>4, <1>5 DEF p, q

\* One shift, bit by bit.
LEMMA ShiftBits ==
  ASSUME NEW x \in Word
  PROVE  LET h == x[1]  l == x[2]  y == Shift(x) IN
         /\ y \in Word
         /\ Bit(y[1], 1) = Bit(h, 2) /\ Bit(y[1], 2) = Bit(h, 4)
         /\ Bit(y[1], 4) = Add(Bit(h, 8), Bit(l, 1)) /\ Bit(y[1], 8) = Bit(h, 16)
         /\ Bit(y[1], 16) = Bit(h, 32) /\ Bit(y[1], 32) = Bit(h, 64)
         /\ Bit(y[1], 64) = Bit(h, 128) /\ Bit(y[1], 128) = Bit(l, 1)
         /\ Bit(y[2], 1) = Bit(l, 2) /\ Bit(y[2], 2) = Bit(l, 4)
         /\ Bit(y[2], 4) = Bit(l, 8) /\ Bit(y[2], 8) = Add(Bit(l, 16), Bit(l, 1))
         /\ Bit(y[2], 16) = Bit(l, 32) /\ Bit(y[2], 32) = Bit(l, 64)
         /\ Bit(y[2], 64) = Bit(l, 128) /\ Bit(y[2], 128) = Bit(h, 1)
<1> DEFINE h == x[1]
           l == x[2]
           a == h \div 2
           b == 128 * (h % 2) + l \div 2
           c == Xor(a, 132)
           d == Xor(b, 8)
<1>1. x = <<h, l>> /\ h \in Byte /\ l \in Byte  BY DEF Word
<1>2. l % 2 = Bit(l, 1) /\ Bit(l, 1) \in {0,1}
  <2>1. l \div 1 = l  BY <1>1 DEF Byte
  <2> QED  BY <1>1, <2>1, Bits DEF Bit
<1>3. /\ \A i \in {1,2,4,8,16,32,64,128} : Bit(h, i) \in {0,1} /\ Bit(l, i) \in {0,1}
  BY <1>1, Bits
<1> HIDE DEF h, l
<1>4. /\ a \in Byte /\ b \in Byte
      /\ Bit(a, 1) = Bit(h, 2) /\ Bit(a, 2) = Bit(h, 4) /\ Bit(a, 4) = Bit(h, 8)
      /\ Bit(a, 8) = Bit(h, 16) /\ Bit(a, 16) = Bit(h, 32) /\ Bit(a, 32) = Bit(h, 64)
      /\ Bit(a, 64) = Bit(h, 128) /\ Bit(a, 128) = 0
      /\ Bit(b, 1) = Bit(l, 2) /\ Bit(b, 2) = Bit(l, 4) /\ Bit(b, 4) = Bit(l, 8)
      /\ Bit(b, 8) = Bit(l, 16) /\ Bit(b, 16) = Bit(l, 32) /\ Bit(b, 32) = Bit(l, 64)
      /\ Bit(b, 64) = Bit(l, 128) /\ Bit(b, 128) = Bit(h, 1)
  BY <1>1, HalfBits
<1>5. /\ 132 \in Byte /\ Bit(132,1) = 0 /\ Bit(132,2) = 0 /\ Bit(132,4) = 1 /\ Bit(132,8) = 0
      /\ Bit(132,16) = 0 /\ Bit(132,32) = 0 /\ Bit(132,64) = 0 /\ Bit(132,128) = 1
      /\ 8 \in Byte /\ Bit(8,1) = 0 /\ Bit(8,2) = 0 /\ Bit(8,4) = 0 /\ Bit(8,8) = 1
      /\ Bit(8,16) = 0 /\ Bit(8,32) = 0 /\ Bit(8,64) = 0 /\ Bit(8,128) = 0
  BY DEF Bit, Byte
<1>6. Bit(l, 1) = 1 => Shift(<<h, l>>) = <<c, d>>
  <2> HIDE DEF a, b
  <2> QED  BY <1>2, ShiftWord DEF a, b
<1>7. Bit(l, 1) = 0 => Shift(<<h, l>>) = <<a, b>>
  <2> HIDE DEF c, d
  <2> QED  BY <1>2, ShiftWord
<1> HIDE DEF a, b
<1>8. /\ c \in Byte /\ \A i \in Powers : Bit(c, i) = (Bit(a, i) + Bit(132, i)) % 2
      /\ d \in Byte /\ \A i \in Powers : Bit(d, i) = (Bit(b, i) + Bit(8, i)) % 2
  BY <1>4, <1>5, XorBits
<1> HIDE DEF c, d
<1>9. \A e \in {0,1} : (e + 0) % 2 = e /\ (e + 1) % 2 = 1 - e  OBVIOUS
<1>10. /\ Bit(c, 1) = Bit(h, 2) /\ Bit(c, 2) = Bit(h, 4) /\ Bit(c, 4) = 1 - Bit(h, 8)
       /\ Bit(c, 8) = Bit(h, 16) /\ Bit(c, 16) = Bit(h, 32) /\ Bit(c, 32) = Bit(h, 64)
       /\ Bit(c, 64) = Bit(h, 128) /\ Bit(c, 128) = 1 /\ Bit(d, 1) = Bit(l, 2)
       /\ Bit(d, 2) = Bit(l, 4) /\ Bit(d, 4) = Bit(l, 8) /\ Bit(d, 8) = 1 - Bit(l, 16)
       /\ Bit(d, 16) = Bit(l, 32) /\ Bit(d, 32) = Bit(l, 64) /\ Bit(d, 64) = Bit(l, 128)
       /\ Bit(d, 128) = Bit(h, 1)
  BY <1>3, <1>4, <1>5, <1>8, <1>9 DEF Powers
<1>11. \A e \in {0,1} : Add(e, 0) = e /\ Add(e, 1) = 1 - e  BY Adding
<1>12. CASE Bit(l, 1) = 1
  <2>1. Shift(x) = <<c, d>>  BY <1>1, <1>6, <1>12 DEF h, l
  <2>2. Add(Bit(h, 8), Bit(l, 1)) = 1 - Bit(h, 8) /\ Add(Bit(l, 16), Bit(l, 1)) = 1 - Bit(l, 16)
    BY <1>3, <1>11, <1>12
  <2>3. Shift(x) \in Word /\ Shift(x)[1] = c /\ Shift(x)[2] = d  BY <1>8, <2>1 DEF Word
  <2> QED  BY <1>10, <1>12, <2>2, <2>3 DEF h, l
<1>13. CASE Bit(l, 1) = 0
  <2>1. Shift(x) = <<a, b>>  BY <1>1, <1>7, <1>13 DEF h, l
  <2>2. Add(Bit(h, 8), Bit(l, 1)) = Bit(h, 8) /\ Add(Bit(l, 16), Bit(l, 1)) = Bit(l, 16)
    BY <1>3, <1>11, <1>13
  <2>3. Shift(x) \in Word /\ Shift(x)[1] = a /\ Shift(x)[2] = b  BY <1>4, <2>1 DEF Word
  <2> QED  BY <1>4, <1>13, <2>2, <2>3 DEF h, l
<1> QED  BY <1>2, <1>12, <1>13

\* The high byte of the entry of a byte, bit by bit.
LEMMA HighBits ==
  ASSUME NEW b \in Byte
  PROVE  LET c(i) == Bit(b, i)
             y    == FcsTable[b][1]
         IN /\ y \in Byte
            /\ Bit(y, 1) = Add(c(1), Add(c(32), c(2))) /\ Bit(y, 2) = Add(c(2), Add(c(64), c(4)))
            /\ Bit(y, 4) = Add(c(4), Add(c(128), c(8))) /\ Bit(y, 8) = c(8)
            /\ Bit(y, 16) = Add(c(16), c(1)) /\ Bit(y, 32) = Add(c(32), c(2))
            /\ Bit(y, 64) = Add(c(64), c(4)) /\ Bit(y, 128) = Add(c(128), c(8))
<1> DEFINE b0 == Bit(b, 1)     b1 == Bit(b, 2)     b2 == Bit(b, 4)     b3 == Bit(b, 8)
           b4 == Bit(b, 16)    b5 == Bit(b, 32)    b6 == Bit(b, 64)    b7 == Bit(b, 128)
           s4 == Add(b4, b0)   s5 == Add(b5, b1)   s6 == Add(b6, b2)   s7 == Add(b7, b3)
           t0 == Add(b0, s5)   t1 == Add(b1, s6)   t2 == Add(b2, s7)   t3 == Add(b0, s7)
           x0 == <<0, b>>
           x1 == Shift(x0)  x2 == Shift(x1)  x3 == Shift(x2)  x4 == Shift(x3)
           x5 == Shift(x4)  x6 == Shift(x5)  x7 == Shift(x6)  x8 == Shift(x7)
<1>1. /\ b0 \in {0,1} /\ b1 \in {0,1} /\ b2 \in {0,1} /\ b3 \in {0,1}
      /\ b4 \in {0,1} /\ b5 \in {0,1} /\ b6 \in {0,1} /\ b7 \in {0,1}
  BY Bits
<1> HIDE DEF b0, b1, b2, b3, b4, b5, b6, b7
<1>2. s4 \in {0,1} /\ s5 \in {0,1} /\ s6 \in {0,1} /\ s7 \in {0,1}  BY <1>1, Adding
<1> HIDE DEF s4, s5, s6, s7
<1>3. \A e \in {0,1} : Add(e, 0) = e /\ Add(0, e) = e  BY Adding
<1>4. /\ Add(b4, b0) = s4 /\ Add(b5, b1) = s5 /\ Add(b6, b2) = s6 /\ Add(b7, b3) = s7
      /\ Add(b0, s5) = t0 /\ Add(b1, s6) = t1 /\ Add(b2, s7) = t2 /\ Add(b0, s7) = t3
  BY DEF s4, s5, s6, s7
<1> HIDE DEF t0, t1, t2, t3
<1>5. FcsTable[b] = x8  BY Zenon DEF FcsTable
<1>6. x0 \in Word /\ x0[1] = 0 /\ x0[2] = b  BY DEF Word, Byte
<1>7. 0 \in Byte /\ \A i \in {1,2,4,8,16,32,64,128} : Bit(0, i) = 0  BY DEF Bit, Byte
<1>8. /\ x0 \in Word
      /\ Bit(x0[1], 1) = 0 /\ Bit(x0[1], 2) = 0 /\ Bit(x0[1], 4) = 0 /\ Bit(x0[1], 8) = 0
      /\ Bit(x0[1], 16) = 0 /\ Bit(x0[1], 32) = 0 /\ Bit(x0[1], 64) = 0 /\ Bit(x0[1], 128) = 0
      /\ Bit(x0[2], 1) = b0 /\ Bit(x0[2], 2) = b1 /\ Bit(x0[2], 4) = b2 /\ Bit(x0[2], 8) = b3
      /\ Bit(x0[2], 16) = b4 /\ Bit(x0[2], 32) = b5 /\ Bit(x0[2], 64) = b6 /\ Bit(x0[2], 128) = b7
  BY <1>6, <1>7 DEF b0, b1, b2, b3, b4, b5, b6, b7
<1> HIDE DEF x0
<1>9. /\ x1 \in Word
      /\ Bit(x1[1], 1) = 0 /\ Bit(x1[1], 2) = 0 /\ Bit(x1[1], 4) = b0 /\ Bit(x1[1], 8) = 0
      /\ Bit(x1[1], 16) = 0 /\ Bit(x1[1], 32) = 0 /\ Bit(x1[1], 64) = 0 /\ Bit(x1[1], 128) = b0
      /\ Bit(x1[2], 1) = b1 /\ Bit(x1[2], 2) = b2 /\ Bit(x1[2], 4) = b3 /\ Bit(x1[2], 8) = s4
      /\ Bit(x1[2], 16) = b5 /\ Bit(x1[2], 32) = b6 /\ Bit(x1[2], 64) = b7 /\ Bit(x1[2], 128) = 0
  BY <1>1, <1>2, <1>3, <1>4, <1>8, ShiftBits
<1> HIDE DEF x1
<1>10. /\ x2 \in Word
       /\ Bit(x2[1], 1) = 0 /\ Bit(x2[1], 2) = b0 /\ Bit(x2[1], 4) = b1 /\ Bit(x2[1], 8) = 0
       /\ Bit(x2[1], 16) = 0 /\ Bit(x2[1], 32) = 0 /\ Bit(x2[1], 64) = b0 /\ Bit(x2[1], 128) = b1
       /\ Bit(x2[2], 1) = b2 /\ Bit(x2[2], 2) = b3 /\ Bit(x2[2], 4) = s4 /\ Bit(x2[2], 8) = s5
       /\ Bit(x2[2], 16) = b6 /\ Bit(x2[2], 32) = b7 /\ Bit(x2[2], 64) = 0 /\ Bit(x2[2], 128) = 0
  BY <1>1, <1>2, <1>3, <1>4, <1>9, ShiftBits
<1> HIDE DEF x2
<1>11. /\ x3 \in Word
       /\ Bit(x3[1], 1) = b0 /\ Bit(x3[1], 2) = b1 /\ Bit(x3[1], 4) = b2 /\ Bit(x3[1], 8) = 0
       /\ Bit(x3[1], 16) = 0 /\ Bit(x3[1], 32) = b0 /\ Bit(x3[1], 64) = b1 /\ Bit(x3[1], 128) = b2
       /\ Bit(x3[2], 1) = b3 /\ Bit(x3[2], 2) = s4 /\ Bit(x3[2], 4) = s5 /\ Bit(x3[2], 8) = s6
       /\ Bit(x3[2], 16) = b7 /\ Bit(x3[2], 32) = 0 /\ Bit(x3[2], 64) = 0 /\ Bit(x3[2], 128) = 0
  BY <1>1, <1>2, <1>3, <1>4, <1>10, ShiftBits
<1> HIDE DEF x3
<1>12. /\ x4 \in Word
       /\ Bit(x4[1], 1) = b1 /\ Bit(x4[1], 2) = b2 /\ Bit(x4[1], 4) = b3 /\ Bit(x4[1], 8) = 0
       /\ Bit(x4[1], 16) = b0 /\ Bit(x4[1], 32) = b1 /\ Bit(x4[1], 64) = b2 /\ Bit(x4[1], 128) = b3
       /\ Bit(x4[2], 1) = s4 /\ Bit(x4[2], 2) = s5 /\ Bit(x4[2], 4) = s6 /\ Bit(x4[2], 8) = s7
       /\ Bit(x4[2], 16) = 0 /\ Bit(x4[2], 32) = 0 /\ Bit(x4[2], 64) = 0 /\ Bit(x4[2], 128) = b0
  BY <1>1, <1>2, <1>3, <1>4, <1>11, ShiftBits
<1> HIDE DEF x4
<1>13. /\ x5 \in Word
       /\ Bit(x5[1], 1) = b2 /\ Bit(x5[1], 2) = b3 /\ Bit(x5[1], 4) = s4 /\ Bit(x5[1], 8) = b0
       /\ Bit(x5[1], 16) = b1 /\ Bit(x5[1], 32) = b2 /\ Bit(x5[1], 64) = b3 /\ Bit(x5[1], 128) = s4
       /\ Bit(x5[2], 1) = s5 /\ Bit(x5[2], 2) = s6 /\ Bit(x5[2], 4) = s7 /\ Bit(x5[2], 8) = s4
       /\ Bit(x5[2], 16) = 0 /\ Bit(x5[2], 32) = 0 /\ Bit(x5[2], 64) = b0 /\ Bit(x5[2], 128) = b1
  BY <1>1, <1>2, <1>3, <1>4, <1>12, ShiftBits
<1> HIDE DEF x5
<1>14. /\ x6 \in Word
       /\ Bit(x6[1], 1) = b3 /\ Bit(x6[1], 2) = s4 /\ Bit(x6[1], 4) = t0 /\ Bit(x6[1], 8) = b1
       /\ Bit(x6[1], 16) = b2 /\ Bit(x6[1], 32) = b3 /\ Bit(x6[1], 64) = s4 /\ Bit(x6[1], 128) = s5
       /\ Bit(x6[2], 1) = s6 /\ Bit(x6[2], 2) = s7 /\ Bit(x6[2], 4) = s4 /\ Bit(x6[2], 8) = s5
       /\ Bit(x6[2], 16) = 0 /\ Bit(x6[2], 32) = b0 /\ Bit(x6[2], 64) = b1 /\ Bit(x6[2], 128) = b2
  BY <1>1, <1>2, <1>3, <1>4, <1>13, ShiftBits
<1> HIDE DEF x6
<1>15. /\ x7 \in Word
       /\ Bit(x7[1], 1) = s4 /\ Bit(x7[1], 2) = t0 /\ Bit(x7[1], 4) = t1 /\ Bit(x7[1], 8) = b2
       /\ Bit(x7[1], 16) = b3 /\ Bit(x7[1], 32) = s4 /\ Bit(x7[1], 64) = s5 /\ Bit(x7[1], 128) = s6
       /\ Bit(x7[2], 1) = s7 /\ Bit(x7[2], 2) = s4 /\ Bit(x7[2], 4) = s5 /\ Bit(x7[2], 8) = s6
       /\ Bit(x7[2], 16) = b0 /\ Bit(x7[2], 32) = b1 /\ Bit(x7[2], 64) = b2 /\ Bit(x7[2], 128) = b3
  BY <1>1, <1>2, <1>3, <1>4, <1>14, ShiftBits
<1> HIDE DEF x7
<1>16. /\ x8 \in Word
       /\ Bit(x8[1], 1) = t0 /\ Bit(x8[1], 2) = t1 /\ Bit(x8[1], 4) = t2 /\ Bit(x8[1], 8) = b3
       /\ Bit(x8[1], 16) = s4 /\ Bit(x8[1], 32) = s5 /\ Bit(x8[1], 64) = s6 /\ Bit(x8[1], 128) = s7
       /\ Bit(x8[2], 1) = s4 /\ Bit(x8[2], 2) = s5 /\ Bit(x8[2], 4) = s6 /\ Bit(x8[2], 8) = t3
       /\ Bit(x8[2], 16) = b1 /\ Bit(x8[2], 32) = b2 /\ Bit(x8[2], 64) = b3 /\ Bit(x8[2], 128) = s4
  BY <1>1, <1>2, <1>3, <1>4, <1>15, ShiftBits
<1> HIDE DEF x8
<1>17. x8[1] \in Byte  BY <1>16 DEF Word
<1> QED  BY <1>5, <1>16, <1>17 DEF b0, b1, b2, b3, b4, b5, b6, b7, s4, s5, s6, s7, t0, t1, t2

\* Two bytes have entries with different high bytes.
LEMMA HighApart ==
  ASSUME NEW x \in Byte, NEW y \in Byte, FcsTable[x][1] = FcsTable[y][1]
  PROVE  x = y
<1> DEFINE p(i) == Bit(x, i)
           q(i) == Bit(y, i)
<1>1. \A i \in {1,2,4,8,16,32,64,128} : p(i) \in {0,1} /\ q(i) \in {0,1}  BY Bits
<1>2. /\ Add(p(1), Add(p(32), p(2))) = Add(q(1), Add(q(32), q(2)))
      /\ Add(p(2), Add(p(64), p(4))) = Add(q(2), Add(q(64), q(4)))
      /\ Add(p(4), Add(p(128), p(8))) = Add(q(4), Add(q(128), q(8)))
      /\ p(8) = q(8)
      /\ Add(p(16), p(1)) = Add(q(16), q(1)) /\ Add(p(32), p(2)) = Add(q(32), q(2))
      /\ Add(p(64), p(4)) = Add(q(64), q(4)) /\ Add(p(128), p(8)) = Add(q(128), q(8))
  BY HighBits
<1> HIDE DEF p, q
<1>3. \A a, b, c \in {0,1} : Add(a, b) \in {0,1} /\ (Add(a, c) = Add(b, c) => a = b)
  BY DEF Add
<1>4. p(1) = q(1) /\ p(2) = q(2) /\ p(4) = q(4)  BY <1>1, <1>2, <1>3
<1>5. p(16) = q(16) /\ p(32) = q(32) /\ p(64) = q(64) /\ p(128) = q(128)
  BY <1>1, <1>2, <1>3, <1>4
<1>6. \A i \in Powers : p(i) = q(i)  BY <1>2, <1>4, <1>5 DEF Powers
<1> QED  BY <1>6, SameBits DEF p, q

\* An exclusive or tells either side apart.
LEMMA XorApart ==
  ASSUME NEW a \in Byte, NEW b \in Byte, NEW c \in Byte
  PROVE  /\ Xor(a, c) = Xor(b, c) => a = b
         /\ Xor(c, a) = Xor(c, b) => a = b
<1>1. Xor(c, a) = Xor(a, c) /\ Xor(c, b) = Xor(b, c)
  <2>1. \A x \in Byte : \A i \in Powers : Bit(x, i) \in {0, 1}  BY Bits DEF Powers
  <2>2. \A y, z \in {0, 1} : (y + z) % 2 = (z + y) % 2  OBVIOUS
  <2>3. ASSUME NEW x \in Byte PROVE Xor(c, x) = Xor(x, c)
    <3>1. Xor(x, c) \in Byte /\ \A i \in Powers : Bit(Xor(x, c), i) = (Bit(x, i) + Bit(c, i)) % 2
      BY XorBits
    <3>2. \A i \in Powers : Bit(Xor(x, c), i) = (Bit(c, i) + Bit(x, i)) % 2
      BY <2>1, <2>2, <3>1
    <3> QED  BY <3>1, <3>2, XorIs
  <2> QED  BY <2>3
<1>2. Xor(Xor(a, c), c) = a /\ Xor(Xor(b, c), c) = b  BY XorComplement
<1> QED  BY <1>1, <1>2, Zenon

\* A step of the checksum tells two bytes apart, and two sums.
LEMMA FcsApart ==
  ASSUME NEW v \in Word, NEW w \in Word, NEW b \in Byte, NEW c \in Byte,
         FcsStep[<<v, b>>] = FcsStep[<<w, c>>]
  PROVE  (v = w => b = c) /\ (b = c => v = w)
<1>1. PICK h \in Byte, l \in Byte : v = <<h, l>>  BY DEF Word
<1>2. PICK i \in Byte, m \in Byte : w = <<i, m>>  BY DEF Word
<1> DEFINE x == Xor(l, b)
           y == Xor(m, c)
<1>3. x \in Byte /\ y \in Byte  BY XorBits
<1>4. /\ FcsStep[<<v, b>>] = <<FcsTable[x][1], Xor(h, FcsTable[x][2])>>
      /\ FcsStep[<<w, c>>] = <<FcsTable[y][1], Xor(i, FcsTable[y][2])>>
  BY <1>1, <1>2, FcsOne
<1> HIDE DEF x, y
<1>5. FcsTable[x][1] = FcsTable[y][1] /\ Xor(h, FcsTable[x][2]) = Xor(i, FcsTable[y][2])
  BY <1>4
<1>6. x = y  BY <1>3, <1>5, HighApart
<1>7. FcsTable[x][2] \in Byte  BY <1>3, Table DEF Word
<1>8. h = i
  <2> DEFINE e == FcsTable[x][2]
  <2>1. e \in Byte /\ Xor(h, e) = Xor(i, e)  BY <1>5, <1>6, <1>7
  <2> HIDE DEF e
  <2> QED  BY <2>1, XorApart
<1>9. Xor(l, b) = Xor(m, c)  BY <1>6 DEF x, y
<1>10. ASSUME v = w PROVE b = c
  <2>1. l = m  BY <1>1, <1>2, <1>10
  <2> QED  BY <1>9, <2>1, XorApart
<1>11. ASSUME b = c PROVE v = w
  <2>1. l = m  BY <1>9, <1>11, XorApart
  <2> QED  BY <1>1, <1>2, <1>8, <2>1
<1> QED  BY <1>10, <1>11

\* One element replaced, in a sequence that grows.
LEMMA ReplacedBefore ==
  ASSUME NEW D, NEW s \in Seq(D), NEW n \in 1..Len(s), NEW c \in D, NEW d \in D
  PROVE  [Append(s, d) EXCEPT ![n] = c] = Append([s EXCEPT ![n] = c], d)
<1> DEFINE p == [s EXCEPT ![n] = c]
           q == Append(s, d)
           u == [q EXCEPT ![n] = c]
           v == Append(p, d)
<1>1. Len(s) \in Nat /\ q \in Seq(D) /\ Len(q) = Len(s) + 1 /\ n \in 1..Len(q)
      /\ \A i \in 1..Len(q) : q[i] = IF i <= Len(s) THEN s[i] ELSE d
  BY AppendProperties, LenProperties
<1>2. p \in Seq(D) /\ Len(p) = Len(s) /\ \A i \in 1..Len(s) : p[i] = IF i = n THEN c ELSE s[i]
  BY ExceptSeq
<1> HIDE DEF p, q
<1>3. u \in Seq(D) /\ Len(u) = Len(q) /\ \A i \in 1..Len(q) : u[i] = IF i = n THEN c ELSE q[i]
  BY ExceptSeq, <1>1
<1>4. v \in Seq(D) /\ Len(v) = Len(p) + 1
      /\ \A i \in 1..Len(v) : v[i] = IF i <= Len(p) THEN p[i] ELSE d
  BY <1>2, AppendProperties
<1> HIDE DEF u, v
<1>5. Len(u) = Len(v) /\ Len(v) = Len(q)  BY <1>1, <1>2, <1>3, <1>4
<1>7. ASSUME NEW i \in 1..Len(u) PROVE u[i] = v[i]
  <2>1. CASE i <= Len(s)  BY <1>1, <1>2, <1>3, <1>4, <1>5, <2>1, SMTT(30)
  <2>2. CASE ~(i <= Len(s))  BY <1>1, <1>2, <1>3, <1>4, <1>5, <2>2
  <2> QED  BY <2>1, <2>2
<1>6. u = v  BY <1>3, <1>4, <1>5, <1>7, SeqEqual
<1> QED  BY <1>6 DEF u, v, p, q

\* The last element replaced.
LEMMA ReplacedLast ==
  ASSUME NEW D, NEW s \in Seq(D), NEW c \in D, NEW d \in D
  PROVE  [Append(s, d) EXCEPT ![Len(s) + 1] = c] = Append(s, c)
<1> DEFINE q == Append(s, d)
           u == [q EXCEPT ![Len(s) + 1] = c]
           v == Append(s, c)
<1>1. Len(s) \in Nat /\ q \in Seq(D) /\ Len(q) = Len(s) + 1 /\ Len(s) + 1 \in 1..Len(q)
      /\ \A i \in 1..Len(q) : q[i] = IF i <= Len(s) THEN s[i] ELSE d
  BY AppendProperties, LenProperties
<1> HIDE DEF q
<1>3. u \in Seq(D) /\ Len(u) = Len(q)
      /\ \A i \in 1..Len(q) : u[i] = IF i = Len(s) + 1 THEN c ELSE q[i]
  BY ExceptSeq, <1>1
<1>4. v \in Seq(D) /\ Len(v) = Len(s) + 1
      /\ \A i \in 1..Len(v) : v[i] = IF i <= Len(s) THEN s[i] ELSE c
  BY AppendProperties
<1> HIDE DEF u, v
<1>5. Len(u) = Len(v) /\ \A i \in 1..Len(u) : u[i] = v[i]  BY <1>1, <1>3, <1>4
<1>6. u = v  BY <1>3, <1>4, <1>5, SeqEqual
<1> QED  BY <1>6 DEF u, v, q

\* One element replaced, in the first of two pieces.
LEMMA ReplacedLeft ==
  ASSUME NEW D, NEW s \in Seq(D), NEW t \in Seq(D), NEW n \in 1..Len(s), NEW c \in D
  PROVE  [(s \o t) EXCEPT ![n] = c] = [s EXCEPT ![n] = c] \o t
<1> DEFINE p == [s EXCEPT ![n] = c]
           q == s \o t
           u == [q EXCEPT ![n] = c]
           v == p \o t
<1>1. Len(s) \in Nat /\ Len(t) \in Nat /\ q \in Seq(D) /\ Len(q) = Len(s) + Len(t)
      /\ n \in 1..Len(q)
      /\ \A i \in 1..Len(q) : q[i] = IF i <= Len(s) THEN s[i] ELSE t[i - Len(s)]
  BY ConcatProperties, LenProperties
<1>2. p \in Seq(D) /\ Len(p) = Len(s) /\ \A i \in 1..Len(s) : p[i] = IF i = n THEN c ELSE s[i]
  BY ExceptSeq
<1> HIDE DEF p, q
<1>3. u \in Seq(D) /\ Len(u) = Len(q) /\ \A i \in 1..Len(q) : u[i] = IF i = n THEN c ELSE q[i]
  BY ExceptSeq, <1>1
<1>4. v \in Seq(D) /\ Len(v) = Len(p) + Len(t)
      /\ \A i \in 1..Len(v) : v[i] = IF i <= Len(p) THEN p[i] ELSE t[i - Len(p)]
  BY <1>1, <1>2, ConcatProperties, ZenonT(40)
<1> HIDE DEF u, v
<1>5. Len(u) = Len(v) /\ Len(v) = Len(q)  BY <1>1, <1>2, <1>3, <1>4
<1>7. ASSUME NEW i \in 1..Len(u) PROVE u[i] = v[i]
  <2>0. i \in 1..Len(q) /\ i \in 1..Len(v)  BY <1>5
  <2>1. CASE i <= Len(s)
    <3>1. i \in 1..Len(s) /\ v[i] = p[i] /\ q[i] = s[i]  BY <1>1, <1>2, <1>4, <2>0, <2>1
    <3> QED  BY <1>2, <1>3, <2>0, <3>1
  <2>2. CASE ~(i <= Len(s))
    <3>1. i # n  BY <1>1, <2>2
    <3>2. v[i] = t[i - Len(s)] /\ q[i] = t[i - Len(s)]  BY <1>1, <1>2, <1>4, <2>0, <2>2
    <3> QED  BY <1>3, <2>0, <3>1, <3>2
  <2> QED  BY <2>1, <2>2
<1>6. u = v  BY <1>3, <1>4, <1>5, <1>7, SeqEqual
<1> QED  BY <1>6 DEF u, v, p, q

\* One element replaced, in the second of two pieces.
LEMMA ReplacedRight ==
  ASSUME NEW D, NEW s \in Seq(D), NEW t \in Seq(D), NEW n \in 1..Len(t), NEW c \in D
  PROVE  [(s \o t) EXCEPT ![Len(s) + n] = c] = s \o [t EXCEPT ![n] = c]
<1> DEFINE p == [t EXCEPT ![n] = c]
           q == s \o t
           u == [q EXCEPT ![Len(s) + n] = c]
           v == s \o p
<1>1. Len(s) \in Nat /\ Len(t) \in Nat /\ q \in Seq(D) /\ Len(q) = Len(s) + Len(t)
      /\ Len(s) + n \in 1..Len(q)
      /\ \A i \in 1..Len(q) : q[i] = IF i <= Len(s) THEN s[i] ELSE t[i - Len(s)]
  BY ConcatProperties, LenProperties
<1>2. p \in Seq(D) /\ Len(p) = Len(t) /\ \A i \in 1..Len(t) : p[i] = IF i = n THEN c ELSE t[i]
  BY ExceptSeq
<1> HIDE DEF p, q
<1>3. u \in Seq(D) /\ Len(u) = Len(q)
      /\ \A i \in 1..Len(q) : u[i] = IF i = Len(s) + n THEN c ELSE q[i]
  BY ExceptSeq, <1>1
<1>4. v \in Seq(D) /\ Len(v) = Len(s) + Len(p)
      /\ \A i \in 1..Len(v) : v[i] = IF i <= Len(s) THEN s[i] ELSE p[i - Len(s)]
  <2>1. p \in Seq(D)  BY <1>2
  <2>2. v \in Seq(D) /\ Len(v) = Len(s) + Len(p)
        /\ \A i \in 1..Len(s) + Len(p) : v[i] = IF i <= Len(s) THEN s[i] ELSE p[i - Len(s)]
    BY <2>1, ConcatProperties
  <2> QED  BY <2>2
<1> HIDE DEF u, v
<1>5. Len(u) = Len(v) /\ Len(v) = Len(q)  BY <1>1, <1>2, <1>3, <1>4
<1>7. ASSUME NEW i \in 1..Len(u) PROVE u[i] = v[i]
  <2>0. i \in 1..Len(q) /\ i \in 1..Len(v)  BY <1>5
  <2>1. CASE i <= Len(s)
    <3>1. i # Len(s) + n  BY <1>1, <2>1
    <3>2. v[i] = s[i] /\ q[i] = s[i]  BY <1>1, <1>4, <2>0, <2>1
    <3> QED  BY <1>3, <2>0, <3>1, <3>2
  <2>2. CASE ~(i <= Len(s))
    <3> DEFINE k == i - Len(s)
    <3>1. k \in 1..Len(t) /\ (i = Len(s) + n <=> k = n)  BY <1>1, <2>0, <2>2
    <3>2. v[i] = p[k] /\ q[i] = t[k]  BY <1>1, <1>4, <2>0, <2>2
    <3> HIDE DEF k
    <3> QED  BY <1>2, <1>3, <2>0, <3>1, <3>2
  <2> QED  BY <2>1, <2>2
<1>6. u = v  BY <1>3, <1>4, <1>5, <1>7, SeqEqual
<1> QED  BY <1>6 DEF u, v, p, q

\* Data that differ in one byte have different sums.
LEMMA SumsApart ==
  ASSUME NEW v \in Word, NEW data \in Seq(Byte), NEW n \in 1..Len(data), NEW c \in Byte,
         c # data[n]
  PROVE  FcsUpdate(v, [data EXCEPT ![n] = c]) # FcsUpdate(v, data)
<1> DEFINE T == {d \in Seq(Byte) : \A i \in 1..Len(d), e \in Byte :
                   e # d[i] => FcsUpdate(v, [d EXCEPT ![i] = e]) # FcsUpdate(v, d)}
<1>1. << >> \in T  OBVIOUS
<1>2. ASSUME NEW d \in Seq(Byte), NEW b \in Byte, d \in T PROVE Append(d, b) \in T
  <2> DEFINE more == Append(d, b)
  <2>1. more \in Seq(Byte) /\ Len(more) = Len(d) + 1 /\ Len(d) \in Nat
        /\ more[Len(d) + 1] = b /\ \A i \in 1..Len(d) : more[i] = d[i]
    BY AppendProperties, LenProperties
  <2>2. FcsUpdate(v, more) = FcsStep[<<FcsUpdate(v, d), b>>] /\ FcsUpdate(v, d) \in Word  BY Sums
  <2>3. ASSUME NEW i \in 1..Len(d), NEW e \in Byte, e # d[i]
        PROVE  FcsUpdate(v, [more EXCEPT ![i] = e]) # FcsUpdate(v, more)
    <3> DEFINE x == [d EXCEPT ![i] = e]
    <3>1. x \in Seq(Byte) /\ [more EXCEPT ![i] = e] = Append(x, b)
      BY ExceptSeq, ReplacedBefore
    <3>2. FcsUpdate(v, x) # FcsUpdate(v, d)  BY <1>2, <2>3
    <3> DEFINE p == FcsUpdate(v, d)
               q == FcsUpdate(v, x)
    <3> HIDE DEF x, more
    <3>3. FcsUpdate(v, Append(x, b)) = FcsStep[<<q, b>>] /\ q \in Word  BY <3>1, Sums
    <3>4. FcsUpdate(v, more) = FcsStep[<<p, b>>] /\ p \in Word /\ p # q  BY <2>2, <3>2
    <3> HIDE DEF p, q
    <3>5. FcsStep[<<p, b>>] # FcsStep[<<q, b>>]  BY <3>3, <3>4, FcsApart
    <3> QED  BY <3>1, <3>3, <3>4, <3>5, Zenon
  <2>4. ASSUME NEW e \in Byte, e # b
        PROVE  FcsUpdate(v, [more EXCEPT ![Len(d) + 1] = e]) # FcsUpdate(v, more)
    <3>1. [more EXCEPT ![Len(d) + 1] = e] = Append(d, e)  BY ReplacedLast
    <3>2. FcsUpdate(v, Append(d, e)) = FcsStep[<<FcsUpdate(v, d), e>>]  BY Sums
    <3> DEFINE p == FcsUpdate(v, d)
    <3> HIDE DEF more
    <3>3. FcsUpdate(v, more) = FcsStep[<<p, b>>] /\ p \in Word  BY <2>2
    <3>4. FcsUpdate(v, Append(d, e)) = FcsStep[<<p, e>>]  BY <3>2
    <3> HIDE DEF p
    <3>5. FcsStep[<<p, e>>] # FcsStep[<<p, b>>]  BY <2>4, <3>3, FcsApart
    <3> QED  BY <3>1, <3>3, <3>4, <3>5, Zenon
  <2>5. more \in T
    <3> SUFFICES ASSUME NEW i \in 1..Len(more), NEW e \in Byte, e # more[i]
                 PROVE  FcsUpdate(v, [more EXCEPT ![i] = e]) # FcsUpdate(v, more)
      BY <2>1
    <3> HIDE DEF more
    <3>1. CASE i \in 1..Len(d)  BY <2>1, <2>3, <3>1
    <3>2. CASE i = Len(d) + 1  BY <2>1, <2>4, <3>2
    <3> QED  BY <2>1, <3>1, <3>2
  <2> QED  BY <2>5
<1>3. Seq(Byte) \subseteq T
  <2> HIDE DEF T
  <2> QED  BY <1>1, <1>2, SeqInduction
<1> QED  BY <1>3

\* The escape of two pieces.
LEMMA EscapeConcat ==
  ASSUME NEW s \in Seq(Byte)
  PROVE  \A t \in Seq(Byte) : Escape(s \o t) = Escape(s) \o Escape(t)
<1> DEFINE T == {u \in Seq(Byte) : Escape(s \o u) = Escape(s) \o Escape(u)}
<1>1. << >> \in T
  <2>1. << >> \in Seq(Byte) /\ s \o << >> = s /\ Escape(s) \in Seq(Byte) /\ Escape(<< >>) = << >>
    BY EmptySeq, ConcatEmptySeq, EscapeMore
  <2>2. Escape(s) \o << >> = Escape(s)  BY <2>1, ConcatEmptySeq
  <2> QED  BY <2>1, <2>2
<1>2. ASSUME NEW u \in Seq(Byte), NEW d \in Byte, u \in T PROVE Append(u, d) \in T
  <2>1. Append(u, d) \in Seq(Byte) /\ s \o u \in Seq(Byte)  BY AppendProperties, ConcatProperties
  <2>2. s \o Append(u, d) = Append(s \o u, d)
    <3>1. Append(u, d) = u \o <<d>> /\ Append(s \o u, d) = (s \o u) \o <<d>>
      BY <2>1, AppendIsConcat
    <3>2. <<d>> \in Seq(Byte)  OBVIOUS
    <3> QED  BY <3>1, <3>2, ConcatAssociative
  <2> DEFINE w == s \o u
             front == Escape(s)
             mid == Escape(u)
             last == Escaped(d)
  <2>0. w \in Seq(Byte)  BY <2>1
  <2>3. front \in Seq(Byte) /\ mid \in Seq(Byte) /\ last \in Seq(Byte)
    BY EscapeMore, EscapeOne DEF Plain
  <2>4. Escape(w) = front \o mid  BY <1>2
  <2>5. Escape(Append(u, d)) = mid \o last  BY EscapeMore
  <2>6. Escape(Append(w, d)) = Escape(w) \o last
    <3> HIDE DEF w
    <3> QED  BY <2>0, EscapeMore
  <2> HIDE DEF w, front, mid, last
  <2>7. (front \o mid) \o last = front \o (mid \o last)  BY <2>3, Associative, SMTT(30)
  <2>8. Escape(Append(w, d)) = front \o Escape(Append(u, d))  BY <2>4, <2>5, <2>6, <2>7, Zenon
  <2> QED  BY <2>1, <2>2, <2>8 DEF w, front
<1>3. Seq(Byte) \subseteq T
  <2> HIDE DEF T
  <2> QED  BY <1>1, <1>2, SeqInduction
<1> QED  BY <1>3

\* The two entries of the table that the sum of the header leads to.
LEMMA Openings == FcsTable[0] = <<0, 0>> /\ FcsTable[252] = <<61, 227>>
<1>0. 0 \in Byte /\ 252 \in Byte  BY DEF Byte
<1>1. Xor(0, 132) = 132  BY DEF Xor, Bit
<1>2. Xor(31, 8) = 23  BY DEF Xor, Bit
<1>3. Xor(66, 132) = 198  BY DEF Xor, Bit
<1>4. Xor(11, 8) = 3  BY DEF Xor, Bit
<1>5. Xor(99, 132) = 231  BY DEF Xor, Bit
<1>6. Xor(1, 8) = 9  BY DEF Xor, Bit
<1>7. Xor(115, 132) = 247  BY DEF Xor, Bit
<1>8. Xor(132, 8) = 140  BY DEF Xor, Bit
<1>9. Shift(<<0, 0>>) = <<0, 0>>
  <2>1. 0 \div 2 = 0 /\ 128 * (0 % 2) + 0 \div 2 = 0 /\ 0 % 2 = 0  OBVIOUS
  <2> QED  BY <2>1, ShiftWord
<1>10. Shift(<<0, 252>>) = <<0, 126>>
  <2>1. 0 \div 2 = 0 /\ 128 * (0 % 2) + 252 \div 2 = 126 /\ 252 % 2 = 0  OBVIOUS
  <2> QED  BY <2>1, ShiftWord
<1>11. Shift(<<0, 126>>) = <<0, 63>>
  <2>1. 0 \div 2 = 0 /\ 128 * (0 % 2) + 126 \div 2 = 63 /\ 126 % 2 = 0  OBVIOUS
  <2> QED  BY <2>1, ShiftWord
<1>12. Shift(<<0, 63>>) = <<132, 23>>
  <2>1. 0 \div 2 = 0 /\ 128 * (0 % 2) + 63 \div 2 = 31 /\ 63 % 2 = 1  OBVIOUS
  <2> QED  BY <1>1, <1>2, <2>1, ShiftWord
<1>13. Shift(<<132, 23>>) = <<198, 3>>
  <2>1. 132 \div 2 = 66 /\ 128 * (132 % 2) + 23 \div 2 = 11 /\ 23 % 2 = 1  OBVIOUS
  <2> QED  BY <1>3, <1>4, <2>1, ShiftWord
<1>14. Shift(<<198, 3>>) = <<231, 9>>
  <2>1. 198 \div 2 = 99 /\ 128 * (198 % 2) + 3 \div 2 = 1 /\ 3 % 2 = 1  OBVIOUS
  <2> QED  BY <1>5, <1>6, <2>1, ShiftWord
<1>15. Shift(<<231, 9>>) = <<247, 140>>
  <2>1. 231 \div 2 = 115 /\ 128 * (231 % 2) + 9 \div 2 = 132 /\ 9 % 2 = 1  OBVIOUS
  <2> QED  BY <1>7, <1>8, <2>1, ShiftWord
<1>16. Shift(<<247, 140>>) = <<123, 198>>
  <2>1. 247 \div 2 = 123 /\ 128 * (247 % 2) + 140 \div 2 = 198 /\ 140 % 2 = 0  OBVIOUS
  <2> QED  BY <2>1, ShiftWord
<1>17. Shift(<<123, 198>>) = <<61, 227>>
  <2>1. 123 \div 2 = 61 /\ 128 * (123 % 2) + 198 \div 2 = 227 /\ 198 % 2 = 0  OBVIOUS
  <2> QED  BY <2>1, ShiftWord
<1>18. FcsTable[0] = <<0, 0>>
  <2>1. FcsTable[0] = Shift(Shift(Shift(Shift(Shift(Shift(Shift(Shift(<<0, 0>>))))))))
    BY Zenon, <1>0 DEF FcsTable
  <2> QED  BY <1>9, <2>1, EightShifts
<1>19. FcsTable[252] = <<61, 227>>
  <2>1. FcsTable[252] = Shift(Shift(Shift(Shift(Shift(Shift(Shift(Shift(<<0, 252>>))))))))
    BY Zenon, <1>0 DEF FcsTable
  <2> QED  BY <1>10, <1>11, <1>12, <1>13, <1>14, <1>15, <1>16, <1>17, <2>1, EightShifts
<1> QED  BY <1>18, <1>19

\* One byte unescaped, and two.
LEMMA UnescapeTwo ==
  ASSUME NEW r \in Unescaping, NEW x \in Byte, NEW y \in Byte
  PROVE  /\ Along(UnescapeStep, r, <<x>>) = UnescapeStep[<<r, x>>]
         /\ Along(UnescapeStep, r, <<x, y>>) = UnescapeStep[<<UnescapeStep[<<r, x>>], y>>]
<1>1. /\ Along(UnescapeStep, r, << >>) = r
      /\ \A data \in Seq(Byte), d \in Byte :
           Along(UnescapeStep, r, Append(data, d)) = UnescapeStep[<<Along(UnescapeStep, r, data), d>>]
  BY UnescapeTyped, AlongStep
<1> DEFINE none == << >>
           one == <<x>>
<1>2. none \in Seq(Byte) /\ one \in Seq(Byte) /\ one = Append(none, x) /\ <<x, y>> = Append(one, y)
  OBVIOUS
<1>3. Along(UnescapeStep, r, none) = r  BY <1>1
<1> HIDE DEF none, one
<1>4. Along(UnescapeStep, r, Append(none, x)) = UnescapeStep[<<Along(UnescapeStep, r, none), x>>]
  BY <1>1, <1>2
<1>5. Along(UnescapeStep, r, Append(one, y)) = UnescapeStep[<<Along(UnescapeStep, r, one), y>>]
  BY <1>1, <1>2
<1>6. Along(UnescapeStep, r, one) = UnescapeStep[<<r, x>>]  BY <1>2, <1>3, <1>4, Zenon
<1> QED  BY <1>2, <1>5, <1>6, Zenon DEF one

\* The sum of the bytes that the header stands for is where the decoder begins behind it.
LEMMA HeaderSum ==
  /\ <<255, 3>> \in Seq(Byte) /\ InitialChecksum \in Word /\ AddressControlChecksum \in Word
  /\ FcsUpdate(InitialChecksum, <<255, 3>>) = AddressControlChecksum
<1> DEFINE b == 255
           c == 3
           z == 0
           w == <<b, b>>
           v == <<z, b>>
<1>1. b \in Byte /\ c \in Byte /\ z \in Byte /\ w \in Word /\ v \in Word  BY DEF Byte, Word
<1>2. Xor(b, b) = 0 /\ Xor(b, c) = 252 /\ Xor(b, 0) = b /\ Xor(z, 227) = 227
  BY DEF Xor, Bit
<1>3. FcsTable[0][1] = z /\ FcsTable[0][2] = 0 /\ FcsTable[252][1] = 61 /\ FcsTable[252][2] = 227
  BY Openings
<1>4. InitialChecksum = w /\ AddressControlChecksum = <<61, 227>>
  BY DEF InitialChecksum, AddressControlChecksum
<1>5. <<61, 227>> \in Word  BY DEF Word, Byte
<1>6. <<b, c>> \in Seq(Byte)  BY <1>1
<1>7. <<b, c>> = <<255, 3>>  OBVIOUS
<1> HIDE DEF b, c, z
<1>8. FcsStep[<<w, b>>] = v
  <2>1. FcsStep[<<w, b>>] = <<FcsTable[Xor(b, b)][1], Xor(b, FcsTable[Xor(b, b)][2])>>
    BY <1>1, FcsOne
  <2> QED  BY <1>2, <1>3, <2>1, ZenonT(40)
<1>9. FcsStep[<<v, c>>] = <<61, 227>>
  <2>1. FcsStep[<<v, c>>] = <<FcsTable[Xor(b, c)][1], Xor(z, FcsTable[Xor(b, c)][2])>>
    BY <1>1, FcsOne
  <2>2. FcsTable[Xor(b, c)][1] = 61 /\ Xor(z, FcsTable[Xor(b, c)][2]) = 227  BY <1>2, <1>3
  <2> QED  BY <2>1, <2>2
<1> HIDE DEF w, v
<1>10. FcsUpdate(w, <<b, c>>) = <<61, 227>>
  <2> DEFINE none == << >>
             one == <<b>>
  <2>1. none \in Seq(Byte) /\ one \in Seq(Byte) /\ one = Append(none, b) /\ <<b, c>> = Append(one, c)
    BY <1>1
  <2>2. FcsUpdate(w, none) = w  BY <1>1, Sums
  <2> HIDE DEF none, one
  <2>3. FcsUpdate(w, Append(none, b)) = FcsStep[<<FcsUpdate(w, none), b>>]  BY <1>1, <2>1, Sums
  <2>4. FcsUpdate(w, Append(one, c)) = FcsStep[<<FcsUpdate(w, one), c>>]
    BY <1>1, <2>1, Sums, ZenonT(40)
  <2> QED  BY <1>8, <1>9, <2>1, <2>2, <2>3, <2>4, ZenonT(40)
<1>11. FcsUpdate(InitialChecksum, <<b, c>>) = AddressControlChecksum
  BY <1>4, <1>10, Zenon
<1> QED  BY <1>1, <1>4, <1>5, <1>6, <1>7, <1>11, ZenonT(40)

\* A byte of s, no escape, becomes another that is neither an escape nor a control.
Garbles(s, k, g) == s[k] # Esc /\ g # s[k] /\ g # Esc /\ ~InReceivingACCM(g)

\* The escape of one byte, garbled, is that of another.
LEMMA GarbledOne ==
  ASSUME NEW d \in Seq(Byte), NEW b \in Byte, NEW j \in 1..Len(Escaped(b)), NEW g \in Byte,
         Garbles(Escaped(b), j, g)
  PROVE  \E c \in Byte : /\ c # b
                         /\ Along(UnescapeStep, Clear(d), [Escaped(b) EXCEPT ![j] = g])
                              = Clear(Append(d, c))
<1> DEFINE r == Clear(d)
           e == [ok |-> TRUE, esc |-> TRUE, data |-> d]
<1>1. r \in Unescaping /\ e \in Unescaping  BY DEF Clear, Unescaping
<1>2. CASE ~InSendingACCM(b)
  <2>1. Escaped(b) = <<b>>  BY <1>2 DEF Escaped
  <2>2. j = 1 /\ [Escaped(b) EXCEPT ![j] = g] = <<g>> /\ Escaped(b)[j] = b  BY <2>1
  <2>3. g # b /\ g # Esc /\ ~InReceivingACCM(g)  BY <2>2 DEF Garbles
  <2>4. UnescapeStep[<<r, g>>] = Clear(Append(d, g))  BY <2>3, UnescapeClear
  <2> HIDE DEF r, e
  <2>5. Along(UnescapeStep, r, <<g>>) = UnescapeStep[<<r, g>>]
    BY <1>1, UnescapeTwo
  <2> QED  BY <2>2, <2>3, <2>4, <2>5 DEF r
<1>3. CASE InSendingACCM(b)
  <2> DEFINE x == Xor(b, 32)
             k == Esc
             c == Xor(g, 32)
  <2>1. x \in Byte /\ Escaped(b) = <<k, x>>  BY <1>3, EscapedByte DEF Escaped
  <2>2. k \in Byte  BY DEF Esc, Byte
  <2>3. c \in Byte /\ Xor(c, 32) = g  BY EscapedByte
  <2> HIDE DEF x, c
  <2>4. j = 2 /\ Escaped(b)[j] = x /\ [Escaped(b) EXCEPT ![j] = g] = <<k, g>>
    <3>1. j \in {1, 2}  BY <2>1
    <3>2. Escaped(b)[1] = Esc  BY <2>1
    <3>3. j = 2  BY <3>1, <3>2 DEF Garbles
    <3> QED  BY <2>1, <3>3
  <2>5. g # x /\ g # Esc  BY <2>4 DEF Garbles
  <2>6. c # b
    <3> SUFFICES ASSUME c = b PROVE FALSE  OBVIOUS
    <3> QED  BY <2>3, <2>5 DEF x
  <2>7. UnescapeStep[<<r, k>>] = e  BY <2>2, UnescapeClear
  <2>8. UnescapeStep[<<e, g>>] = Clear(Append(d, c))  BY <2>5, UnescapeClear DEF c
  <2> HIDE DEF r, e, k
  <2>9. Along(UnescapeStep, r, <<k, g>>) = UnescapeStep[<<UnescapeStep[<<r, k>>], g>>]
    BY <1>1, <2>2, UnescapeTwo, ZenonT(40)
  <2>10. Along(UnescapeStep, r, [Escaped(b) EXCEPT ![j] = g]) = Clear(Append(d, c))
    BY <2>4, <2>7, <2>8, <2>9, Zenon
  <2> QED  BY <2>3, <2>6, <2>10 DEF r
<1> QED  BY <1>2, <1>3

\* r is what the decoder is left with when one byte of d comes out wrong.
Spoilt(d, r) ==
  \E n \in 1..Len(d), c \in Byte : c # d[n] /\ r = Clear([d EXCEPT ![n] = c])

\* Where one byte of the escape is garbled, one byte of the data comes out wrong.
LEMMA GarbledEscape ==
  ASSUME NEW data \in Seq(Byte), NEW k \in 1..Len(Escape(data)), NEW g \in Byte,
         Garbles(Escape(data), k, g)
  PROVE  Spoilt(data, Unescape([Escape(data) EXCEPT ![k] = g]))
<1> DEFINE T == {d \in Seq(Byte) : \A i \in 1..Len(Escape(d)), e \in Byte :
                   Garbles(Escape(d), i, e) => Spoilt(d, Unescape([Escape(d) EXCEPT ![i] = e]))}
           none == Clear(<< >>)
<1>1. << >> \in T
  <2>1. Escape(<< >>) = << >> /\ << >> \in Seq(Byte)  BY EscapeMore
  <2>2. Len(<< >>) = 0  OBVIOUS
  <2> QED  BY <2>1, <2>2
<1>2. none \in Unescaping /\ \A s : Unescape(s) = Along(UnescapeStep, none, s)
  <2>1. none \in Unescaping  BY DEF Clear, Unescaping
  <2>2. \A s : Unescape(s) = Along(UnescapeStep, none, s)  BY Zenon DEF Unescape, Clear
  <2> QED  BY <2>1, <2>2
<1> HIDE DEF none
<1>3. ASSUME NEW d \in Seq(Byte), NEW b \in Byte, d \in T PROVE Append(d, b) \in T
  <2> DEFINE more == Append(d, b)
             x == Escape(d)
             y == Escaped(b)
             z == x \o y
  <2>1. more \in Seq(Byte) /\ Len(more) = Len(d) + 1 /\ Len(d) \in Nat
        /\ more[Len(d) + 1] = b /\ \A i \in 1..Len(d) : more[i] = d[i]
    BY AppendProperties, LenProperties
  <2>2. x \in Seq(Byte) /\ y \in Seq(Byte) /\ Escape(more) = z
    BY EscapeMore, EscapeOne DEF Plain
  <2>3. Unescape(x) = Clear(d) /\ Clear(d) \in Unescaping
    BY UnescapeEscape, UnescapeClear
  <2>4. ASSUME NEW i \in 1..Len(x), NEW e \in Byte, Garbles(x, i, e)
        PROVE  Spoilt(more, Unescape([z EXCEPT ![i] = e]))
    <3> DEFINE u == [x EXCEPT ![i] = e]
    <3>1. u \in Seq(Byte) /\ [z EXCEPT ![i] = e] = u \o y
      BY <2>2, ExceptSeq, ReplacedLeft, SMTT(30)
    <3>2. PICK n \in 1..Len(d), c \in Byte : c # d[n] /\ Unescape(u) = Clear([d EXCEPT ![n] = c])
      BY <1>3, <2>4 DEF Spoilt
    <3> DEFINE f == [d EXCEPT ![n] = c]
    <3>3. f \in Seq(Byte) /\ [more EXCEPT ![n] = c] = Append(f, b)  BY ExceptSeq, ReplacedBefore
    <3>4. n \in 1..Len(more) /\ c # more[n]  BY <2>1, <3>2
    <3>5. Along(UnescapeStep, none, u) = Clear(f)  BY <1>2, <3>2
    <3> HIDE DEF u, f
    <3>6. Along(UnescapeStep, Clear(f), y) = Clear(Append(f, b))  BY <3>3, UnescapeOne
    <3> HIDE DEF x, y, more
    <3>7. Along(UnescapeStep, none, u \o y)
            = Along(UnescapeStep, Along(UnescapeStep, none, u), y)
      BY <1>2, <2>2, <3>1, AlongConcat, UnescapeTyped
    <3>8. Unescape(u \o y) = Clear([more EXCEPT ![n] = c])
      BY <1>2, <3>3, <3>5, <3>6, <3>7, Zenon
    <3>9. Unescape([z EXCEPT ![i] = e]) = Clear([more EXCEPT ![n] = c])  BY <3>1, <3>8, Zenon
    <3> QED  BY <3>4, <3>9, Zenon DEF Spoilt
  <2>5. ASSUME NEW j \in 1..Len(y), NEW e \in Byte, Garbles(y, j, e)
        PROVE  Spoilt(more, Unescape([z EXCEPT ![Len(x) + j] = e]))
    <3> DEFINE u == [y EXCEPT ![j] = e]
               n == Len(d) + 1
    <3>1. u \in Seq(Byte) /\ [z EXCEPT ![Len(x) + j] = e] = x \o u
      BY <2>2, ExceptSeq, ReplacedRight, SMTT(30)
    <3>2. PICK c \in Byte : c # b /\ Along(UnescapeStep, Clear(d), u) = Clear(Append(d, c))
      BY <2>5, GarbledOne
    <3>3. [more EXCEPT ![n] = c] = Append(d, c)  BY ReplacedLast
    <3>4. n \in 1..Len(more) /\ c # more[n]  BY <2>1, <3>2
    <3>5. Along(UnescapeStep, none, x) = Clear(d)  BY <1>2, <2>3
    <3> HIDE DEF u, x, y, more, n
    <3>7. Along(UnescapeStep, none, x \o u)
            = Along(UnescapeStep, Along(UnescapeStep, none, x), u)
      BY <1>2, <2>2, <3>1, AlongConcat, UnescapeTyped
    <3>8. Unescape(x \o u) = Clear([more EXCEPT ![n] = c])
      BY <1>2, <3>2, <3>3, <3>5, <3>7, Zenon
    <3>9. Unescape([z EXCEPT ![Len(x) + j] = e]) = Clear([more EXCEPT ![n] = c])
      BY <3>1, <3>8, Zenon
    <3> QED  BY <3>4, <3>9, Zenon DEF Spoilt
  <2>6. Len(x) \in Nat /\ Len(y) \in Nat /\ Len(z) = Len(x) + Len(y)
        /\ (\A i \in 1..Len(x) : z[i] = x[i]) /\ \A j \in 1..Len(y) : z[Len(x) + j] = y[j]
    <3> HIDE DEF x, y
    <3>1. /\ Len(x) \in Nat /\ Len(y) \in Nat /\ Len(z) = Len(x) + Len(y)
          /\ \A i \in 1..Len(x) + Len(y) : z[i] = IF i <= Len(x) THEN x[i] ELSE y[i - Len(x)]
      BY <2>2, ConcatProperties, LenProperties
    <3> HIDE DEF z
    <3>2. ASSUME NEW j \in 1..Len(y) PROVE z[Len(x) + j] = y[j]
      <4>1. Len(x) + j \in 1..Len(x) + Len(y) /\ ~(Len(x) + j <= Len(x))
            /\ (Len(x) + j) - Len(x) = j
        BY <3>1
      <4> QED  BY <3>1, <4>1
    <3>3. ASSUME NEW i \in 1..Len(x) PROVE z[i] = x[i]  BY <3>1
    <3> QED  BY <3>1, <3>2, <3>3
  <2> HIDE DEF x, y, z
  <2>7. ASSUME NEW i \in 1..Len(z), NEW e \in Byte, Garbles(z, i, e)
        PROVE  Spoilt(more, Unescape([z EXCEPT ![i] = e]))
    <3>1. CASE i \in 1..Len(x)
      <4>1. Garbles(x, i, e)  BY <2>6, <2>7, <3>1 DEF Garbles
      <4> QED  BY <2>4, <3>1, <4>1
    <3>2. CASE i \notin 1..Len(x)
      <4>1. PICK j \in 1..Len(y) : i = Len(x) + j
        <5>1. i - Len(x) \in 1..Len(y) /\ i = Len(x) + (i - Len(x))  BY <2>6, <3>2
        <5> QED  BY <5>1
      <4>2. z[i] = y[j]  BY <2>6, <4>1
      <4>3. Garbles(y, j, e)  BY <2>7, <4>2 DEF Garbles
      <4> QED  BY <2>5, <4>1, <4>3
    <3> QED  BY <3>1, <3>2
  <2>8. more \in T
    <3> HIDE DEF more
    <3> QED  BY <2>1, <2>2, <2>7
  <2> QED  BY <2>8
<1>4. Seq(Byte) \subseteq T
  <2> HIDE DEF T
  <2> QED  BY <1>1, <1>3, SeqInduction
<1> QED  BY <1>4

\* A sequence of three, put together element by element.
LEMMA Three ==
  ASSUME NEW x \in Byte, NEW y \in Byte, NEW z \in Byte
  PROVE  <<x, y, z>> = Append(Append(<<x>>, y), z)
<1>1. <<x, y, z>> = Append(<<x, y>>, z)  OBVIOUS
<1>2. <<x, y>> = Append(<<x>>, y)  OBVIOUS
<1> QED  BY <1>1, <1>2, Zenon

\* The header is what the bytes it stands for are escaped to.
LEMMA HeaderEscaped == Escape(<<255, 3>>) = Header
<1> DEFINE b == 255
           c == 3
           none == << >>
           one == <<b>>
<1>1. b \in Byte /\ c \in Byte /\ none \in Seq(Byte) /\ Escape(none) = none
  <2>1. b \in Byte /\ c \in Byte  BY DEF Byte
  <2>2. none \in Seq(Byte)  OBVIOUS
  <2>3. Escape(none) = none  BY EscapeMore, Zenon
  <2> QED  BY <2>1, <2>2, <2>3, Zenon
<1>2. Escaped(b) = <<b>>  BY DEF Escaped, InSendingACCM, Flag, Esc
<1>3. Escaped(c) = <<Esc, 35>>
  <2>1. Xor(c, 32) = 35 /\ InSendingACCM(c)  BY DEF Xor, Bit, InSendingACCM
  <2> QED  BY <2>1, Zenon DEF Escaped
<1>4. one \in Seq(Byte) /\ one = Append(none, b) /\ <<b, c>> = Append(one, c)
      /\ none \o <<b>> = one
  BY <1>1
<1>5. one \o <<Esc, 35>> = Header
  <2> DEFINE e == Esc
             f == 35
  <2>1. e \in Byte /\ f \in Byte  BY DEF Byte, Esc
  <2>2. Header = <<b, e, f>>  BY DEF Header
  <2> HIDE DEF b, e, f
  <2>3. one \o <<e, f>> = Append(Append(one, e), f)
    <3> HIDE DEF one
    <3> QED  BY <1>4, <2>1
  <2>4. Append(Append(one, e), f) = <<b, e, f>>
    <3>1. b \in Byte  BY <1>1
    <3>2. <<b, e, f>> = Append(Append(<<b>>, e), f)  BY <2>1, <3>1, Three, Zenon
    <3> QED  BY <3>2, Zenon
  <2> QED  BY <2>2, <2>3, <2>4, Zenon DEF e, f
<1>6. <<b, c>> = <<255, 3>>  OBVIOUS
<1> HIDE DEF none, one, b, c
<1>7. Escape(Append(none, b)) = Escape(none) \o Escaped(b)  BY <1>1, EscapeMore
<1>8. Escape(one) = one  BY <1>1, <1>2, <1>4, <1>7, Zenon
<1>9. Escape(Append(one, c)) = Escape(one) \o Escaped(c)  BY <1>1, <1>4, EscapeMore
<1> QED  BY <1>3, <1>4, <1>5, <1>6, <1>8, <1>9, ZenonT(40)

\* What follows the header in a frame.
LEMMA BehindHeader ==
  ASSUME NEW s \in Seq(Byte), s # << >>
  PROVE  /\ HasHeader(Header \o s)
         /\ SubSeq(Header \o s, 4, Len(Header \o s)) = s
<1> DEFINE h == Header
           f == h \o s
<1>1. h \in Seq(Byte) /\ Len(h) = 3  BY DEF Header, Byte, Esc
<1> HIDE DEF h
<1>2. Len(s) \in Nat /\ Len(s) >= 1  BY LenProperties, EmptySeq
<1>3. Len(f) = 3 + Len(s)  BY <1>1, Joined
<1>4. SubSeq(f, 1, 3) = h
  <2>1. 1 \in 1..Len(h) /\ 3 \in 1..Len(h)  BY <1>1
  <2>2. SubSeq(h \o s, 1, 3) = SubSeq(h, 1, 3)  BY <1>1, <2>1, SubSeqOfConcat1
  <2>3. SubSeq(h, 1, 3) = h  BY <1>1, SubSeqFull
  <2> QED  BY <2>2, <2>3
<1>5. SubSeq(f, 4, Len(f)) = s
  <2>1. 4 \in Len(h)+1 .. Len(h)+Len(s) /\ Len(f) \in Len(h)+1 .. Len(h)+Len(s)
    BY <1>1, <1>2, <1>3
  <2>2. SubSeq(h \o s, 4, Len(f)) = SubSeq(s, 4 - Len(h), Len(f) - Len(h))
    BY <1>1, <2>1, SubSeqOfConcat2, ZenonT(40)
  <2>3. 4 - Len(h) = 1 /\ Len(f) - Len(h) = Len(s)  BY <1>1, <1>2, <1>3
  <2>4. SubSeq(s, 1, Len(s)) = s  BY SubSeqFull
  <2> QED  BY <2>2, <2>3, <2>4
<1>6. HasHeader(f)
  <2>1. Len(f) >= 3  BY <1>2, <1>3
  <2> QED  BY <1>4, <2>1, Zenon DEF HasHeader, h
<1> QED  BY <1>5, <1>6, Zenon DEF h

\* The check sequence detects every garbled byte, whatever the packet and however long it is:
\* the frame of a packet with one byte replaced, the byte no escape and the other neither an
\* escape nor a control, is not decoded.
THEOREM DetectsByte ==
  ASSUME NEW packet \in Seq(Byte) \ {<< >>}, NEW k \in 1..Len(Body(packet)), NEW g \in Byte,
         Garbles(Body(packet), k, g)
  PROVE  Decode([Body(packet) EXCEPT ![k] = g]) = Bad
<1> DEFINE data == packet \o Fcs(packet)
           coded == Escape(data)
           frame == Body(packet)
           bad == [frame EXCEPT ![k] = g]
           two == <<255, 3>>
           c == Content(bad)
           sum == FcsUpdate(IF HasHeader(bad) THEN AddressControlChecksum ELSE InitialChecksum,
                            c.data)
<1>1. packet \in Seq(Byte) /\ Len(packet) \in Nat \ {0}  BY EmptySeq
<1>2. Fcs(packet) \in Seq(Byte) /\ Len(Fcs(packet)) = 2
      /\ FcsUpdate(AddressControlChecksum, data) = GoodFcs
  BY <1>1, Residue
<1>3. data \in Seq(Byte) /\ Len(data) = Len(packet) + 2
  <2> DEFINE f == Fcs(packet)
  <2>1. f \in Seq(Byte) /\ Len(f) = 2  BY <1>2
  <2> HIDE DEF f
  <2>2. packet \o f \in Seq(Byte) /\ Len(packet \o f) = Len(packet) + 2
    BY <1>1, <2>1, Joined
  <2> QED  BY <2>2 DEF f
<1>4. frame = Header \o coded  BY Zenon DEF Body
<1>5. two \in Seq(Byte) /\ Escape(two) = Header
      /\ FcsUpdate(InitialChecksum, two) = AddressControlChecksum
      /\ InitialChecksum \in Word /\ AddressControlChecksum \in Word
  BY HeaderSum, HeaderEscaped
<1>6. k \in 1..Len(frame) /\ Garbles(frame, k, g)  OBVIOUS
<1> HIDE DEF data, two
<1>7. coded \in Seq(Byte) /\ Len(coded) \in Nat /\ Len(coded) >= 3
  <2>1. coded \in Seq(Byte) /\ Len(coded) \in Len(data)..2 * Len(data)
    BY <1>3, EscapePlain DEF Plain
  <2> QED  BY <1>1, <1>3, <2>1
<1> HIDE DEF coded, frame
<1>8. Header \in Seq(Byte) /\ Len(Header) = 3  BY DEF Header, Byte, Esc
<1>9. frame \in Seq(Byte) /\ Len(frame) = 3 + Len(coded)
  <2> DEFINE h == Header
  <2>1. h \in Seq(Byte) /\ Len(h) = 3 /\ frame = h \o coded  BY <1>4, <1>8
  <2> HIDE DEF h
  <2> QED  BY <1>7, <2>1, Joined
<1>10. ASSUME NEW v \in Word, NEW d \in Seq(Byte), NEW r, Spoilt(d, r), FcsUpdate(v, d) = GoodFcs
       PROVE  FcsUpdate(v, r.data) # GoodFcs
  <2>1. PICK n \in 1..Len(d), e \in Byte : e # d[n] /\ r = Clear([d EXCEPT ![n] = e])
    BY <1>10 DEF Spoilt
  <2>2. r.data = [d EXCEPT ![n] = e]
    <3> DEFINE s == [d EXCEPT ![n] = e]
    <3> HIDE DEF s
    <3>1. Clear(s).data = s  BY DEF Clear
    <3> QED  BY <2>1, <3>1 DEF s
  <2>3. FcsUpdate(v, [d EXCEPT ![n] = e]) # FcsUpdate(v, d)  BY <2>1, SumsApart
  <2> QED  BY <1>10, <2>2, <2>3
<1>11. ASSUME k > 3 PROVE Decode(bad) = Bad
  <2> DEFINE j == k - 3
             after == [coded EXCEPT ![j] = g]
  <2>1. j \in 1..Len(coded) /\ k = 3 + j  BY <1>6, <1>7, <1>9, <1>11
  <2> HIDE DEF j
  <2>2. frame[k] = coded[j]
    <3> DEFINE h == Header
    <3>1. h \in Seq(Byte) /\ Len(h) = 3 /\ frame = h \o coded  BY <1>4, <1>8
    <3> HIDE DEF h
    <3>2. 3 + j \in 1..Len(h) + Len(coded) /\ ~(3 + j <= Len(h)) /\ (3 + j) - Len(h) = j
      BY <1>7, <2>1, <3>1
    <3>3. (h \o coded)[3 + j] = coded[(3 + j) - Len(h)]
      BY <1>7, <3>1, <3>2, ConcatProperties, ZenonT(40)
    <3> QED  BY <2>1, <3>1, <3>2, <3>3
  <2>3. Garbles(coded, j, g)  BY <1>6, <2>2 DEF Garbles
  <2>4. bad = Header \o after
    <3> DEFINE h == Header
    <3>1. h \in Seq(Byte) /\ Len(h) = 3 /\ frame = h \o coded  BY <1>4, <1>8
    <3> HIDE DEF h
    <3>2. [(h \o coded) EXCEPT ![Len(h) + j] = g] = h \o [coded EXCEPT ![j] = g]
      <4>1. h \in Seq(Byte) /\ coded \in Seq(Byte) /\ j \in 1..Len(coded)  BY <1>7, <2>1, <3>1
      <4> QED  BY <4>1, ReplacedRight
    <3> QED  BY <2>1, <3>1, <3>2 DEF h
  <2>5. after \in Seq(Byte) /\ after # << >>
    <3>1. after \in Seq(Byte) /\ Len(after) = Len(coded)  BY <1>7, <2>1, ExceptSeq
    <3>2. Len(<< >>) = 0  OBVIOUS
    <3> QED  BY <1>7, <3>1, <3>2
  <2>6. Spoilt(data, Unescape(after))  BY <1>3, <2>1, <2>3, GarbledEscape DEF coded
  <2> HIDE DEF after
  <2>7. HasHeader(bad) /\ SubSeq(bad, 4, Len(bad)) = after
    <3>1. HasHeader(Header \o after) /\ SubSeq(Header \o after, 4, Len(Header \o after)) = after
      BY <2>5, BehindHeader
    <3> QED  BY <2>4, <3>1, Zenon
  <2>8. c = Unescape(after)  BY <2>7, Zenon DEF Content
  <2>9. FcsUpdate(AddressControlChecksum, data) = GoodFcs  BY <1>2 DEF data
  <2>10. FcsUpdate(AddressControlChecksum, Unescape(after).data) # GoodFcs
    BY <1>3, <1>5, <1>10, <2>6, <2>9
  <2> QED  BY <2>7, <2>8, <2>10, Zenon DEF Decode
<1>12. ASSUME ~(k > 3) PROVE Decode(bad) = Bad
  <2> DEFINE all == two \o data
  <2>1. all \in Seq(Byte)  BY <1>3, <1>5, Joined
  <2>2. Escape(all) = frame
    <3>1. Escape(two \o data) = Escape(two) \o Escape(data)  BY <1>3, <1>5, EscapeConcat
    <3> QED  BY <1>4, <1>5, <3>1, Zenon DEF coded
  <2>3. FcsUpdate(InitialChecksum, all) = GoodFcs
    <3>1. Step(FcsStep, Word, Byte)  BY FcsOne
    <3>2. Along(FcsStep, InitialChecksum, two \o data)
            = Along(FcsStep, Along(FcsStep, InitialChecksum, two), data)
      BY <1>3, <1>5, <3>1, AlongConcat
    <3>3. FcsUpdate(AddressControlChecksum, data) = GoodFcs  BY <1>2 DEF data
    <3> QED  BY <1>5, <3>2, <3>3, Zenon DEF FcsUpdate
  <2>4. Spoilt(all, Unescape(bad))
    <3> HIDE DEF all
    <3>1. k \in 1..Len(Escape(all)) /\ Garbles(Escape(all), k, g)  BY <1>6, <2>2
    <3>2. Spoilt(all, Unescape([Escape(all) EXCEPT ![k] = g]))  BY <2>1, <3>1, GarbledEscape
    <3> QED  BY <2>2, <3>2, Zenon
  <2>5. ~HasHeader(bad)
    <3>1. bad \in Seq(Byte) /\ Len(bad) = Len(frame) /\ bad[k] = g  BY <1>6, <1>9, ExceptSeq
    <3>2. k \in 1..3  BY <1>6, <1>9, <1>7, <1>12
    <3>3. frame[k] = Header[k]
      <4> DEFINE h == Header
      <4>1. h \in Seq(Byte) /\ Len(h) = 3 /\ frame = h \o coded  BY <1>4, <1>8
      <4> HIDE DEF h
      <4>2. k \in 1..Len(h) + Len(coded) /\ k <= Len(h)  BY <1>7, <3>2, <4>1
      <4>3. (h \o coded)[k] = h[k]  BY <1>7, <4>1, <4>2, ConcatProperties
      <4> QED  BY <4>1, <4>3 DEF h
    <3>4. SubSeq(bad, 1, 3)[k] = bad[k]
      <4> HIDE DEF bad
      <4>1. 3 <= Len(bad)  BY <1>7, <1>9, <3>1
      <4> QED  BY <3>1, <3>2, <4>1
    <3>5. g # frame[k]  BY <1>6 DEF Garbles
    <3>6. SubSeq(bad, 1, 3) # Header  BY <3>1, <3>3, <3>4, <3>5
    <3> QED  BY <3>6 DEF HasHeader
  <2>6. c = Unescape(bad)  BY <2>5, Zenon DEF Content
  <2>7. FcsUpdate(InitialChecksum, Unescape(bad).data) # GoodFcs
    <3> HIDE DEF all
    <3> QED  BY <1>5, <1>10, <2>1, <2>3, <2>4
  <2> QED  BY <2>5, <2>6, <2>7, Zenon DEF Decode
<1>13. Decode(bad) = Bad  BY <1>11, <1>12
<1> QED  BY <1>13 DEF frame
=============================================================================
